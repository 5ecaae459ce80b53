---------------------------- MODULE SchemaProofs ----------------------------
(***************************************************************************)
(* Proofs about the bootstrap of the database.  A program of statements    *)
(* that is never refused is a run from one database to another (Runs).     *)
(* Each revision runs on what its down_revisions leave (Good), create_all  *)
(* and the stamp on what decides for them (PhaseReady), so the statements  *)
(* the lock's holder has left always lead to a database ready for its next *)
(* phase (Reaches); what a transaction leaves committed is one another     *)
(* process can take over (Rest).                                           *)
(***************************************************************************)
EXTENDS SchemaBootstrap, FilterProofs, TLAPS

-----------------------------------------------------------------------------
(* Programs of statements, as runs from a database to another *)

\* A database by its fields, and a program: a sequence of statements.
Db(objs, table, applied) == [objs |-> objs, table |-> table, applied |-> applied]
IsDb(d) == d = Db(d.objs, d.table, d.applied)
IsProg(p) == \E S : p \in Seq(S)

\* No statement of p is refused, and together they take d to e.
Trace(st, p, d, e, on) ==
    /\ st[0] = d /\ st[Len(p)] = e
    /\ \A k \in 1 .. Len(p) :
         ~ Refused(p[k], st[k - 1], on) /\ st[k] = Effect(p[k], st[k - 1], on)
Runs(p, d, e, on) == IsProg(p) /\ \E st : Trace(st, p, d, e, on)

\* The index r0011 drops again; the revisions with all below them; the objects of r0003,
\* which are there together or not at all; and no table left half copied.
SeqIndex == <<"case_events", "uq_seq">>
DownClosed(a) == \A r \in a : DownRevision[r] \subseteq a
TaskObjects == Made("r0003_scheduled_tasks")
NoCopies(objs) == \A o \in objs : o[2] # "alembic_tmp"
TasksWhole(objs) == TaskObjects \subseteq objs \/ TaskObjects \cap objs = {}

\* A database at revisions a that every later revision can upgrade.
Good(objs, a) ==
    /\ NoCopies(objs) /\ TasksWhole(objs)
    /\ "r0001_baseline" \in a /\ a \subseteq Revisions /\ DownClosed(a)
    /\ \A r \in a : \A o \in Made(r) :
         o \in objs \/ (o = SeqIndex /\ "r0011_event_seq_unique" \in a)
    /\ "r0011_event_seq_unique" \in a => SeqIndex \notin objs

\* One that predates alembic.
Legacy(objs) ==
    /\ NoCopies(objs) /\ TasksWhole(objs)
    /\ \E t \in Tables : Table(t) \in objs
    /\ \A o \in Made("r0001_baseline") : Table(o[1]) \in objs => o \in objs

\* A database as a process may find it: empty, legacy, or upgraded some of the way.
Rest(d) ==
    \/ d = Unversioned({})
    \/ \E objs : d = Unversioned(objs) /\ Legacy(objs)
    \/ \E objs, a : d = Db(objs, TRUE, a) /\ Good(objs, a)

\* The one phase of a versioned database.
Upgrading == <<[do |-> "upgrade", arg |-> {}]>>

\* What the database is when the holder has these phases left.
PhaseReady(d, p) ==
    \/ p = Phases("empty") /\ d = Unversioned({})
    \/ p = Tail(Phases("empty")) /\ d = Unversioned(Metadata)
    \/ p = Phases("legacy") /\ \E objs : d = Unversioned(objs) /\ Legacy(objs)
    \/ /\ p = Tail(Phases("legacy"))
       /\ \E objs : d = Unversioned(objs) /\ Legacy(objs) /\ Made("r0001_baseline") \subseteq objs
    \/ p = Upgrading /\ \E objs, a : d = Db(objs, TRUE, a) /\ Good(objs, a)
    \/ p = <<>> /\ \E objs : d = Db(objs, TRUE, Revisions) /\ Good(objs, Revisions)

\* No statements leave the database as it is.
LEMMA RunsNone ==
    ASSUME NEW d, NEW on
    PROVE  Runs(<<>>, d, d, on)
<1>1. PICK st : st = [k \in 0 .. 0 |-> d]
  OBVIOUS
<1>2. Trace(st, <<>>, d, d, on)
  BY <1>1 DEF Trace
<1>3. <<>> \in Seq({})
  OBVIOUS
<1> QED
  BY <1>2, <1>3 DEF Runs, IsProg

\* One statement that is not refused is a run.
LEMMA RunsOne ==
    ASSUME NEW s, NEW d, NEW on, ~ Refused(s, d, on)
    PROVE  Runs(<<s>>, d, Effect(s, d, on), on)
<1>1. PICK e : e = Effect(s, d, on)
  OBVIOUS
<1>2. PICK st : st = [k \in 0 .. 1 |-> IF k = 0 THEN d ELSE e]
  OBVIOUS
<1>3. st[0] = d /\ st[1] = e
  BY <1>2
<1>4. PICK p : p = <<s>>
  OBVIOUS
<1>5. Len(p) = 1 /\ p[1] = s /\ p \in Seq({s})
  BY <1>4
<1>6. ASSUME NEW k \in 1 .. Len(p)
      PROVE  ~ Refused(p[k], st[k - 1], on) /\ st[k] = Effect(p[k], st[k - 1], on)
  <2>1. k = 1 /\ k - 1 = 0
    BY <1>5
  <2> QED
    BY <1>1, <1>3, <1>5, <2>1
<1>7. Trace(st, p, d, e, on)
  BY <1>3, <1>5, <1>6 DEF Trace
<1>8. Runs(p, d, e, on)
  BY <1>5, <1>7 DEF Runs, IsProg
<1> QED
  BY <1>1, <1>4, <1>8

\* Two runs, one after the other, are a run.
LEMMA RunsConcat ==
    ASSUME NEW p, NEW q, NEW d, NEW e, NEW f, NEW on, Runs(p, d, e, on), Runs(q, e, f, on)
    PROVE  Runs(p \o q, d, f, on)
<1>1. PICK S1 : p \in Seq(S1)
  BY DEF Runs, IsProg
<1>2. PICK S2 : q \in Seq(S2)
  BY DEF Runs, IsProg
<1>3. PICK s1 : Trace(s1, p, d, e, on)
  BY DEF Runs
<1>4. PICK s2 : Trace(s2, q, e, f, on)
  BY DEF Runs
<1>5. PICK S : S = S1 \cup S2
  OBVIOUS
<1>6. p \in Seq(S) /\ q \in Seq(S)
  BY <1>1, <1>2, <1>5
<1>7. PICK m, n \in Nat : m = Len(p) /\ n = Len(q)
  BY <1>6
<1>8. PICK r : r = p \o q
  OBVIOUS
<1>9. /\ r \in Seq(S) /\ Len(r) = m + n
      /\ \A k \in 1 .. m : r[k] = p[k]
      /\ \A k \in m + 1 .. m + n : r[k] = q[k - m]
  BY <1>6, <1>7, <1>8
<1>10. PICK st : st = [k \in 0 .. m + n |-> IF k <= m THEN s1[k] ELSE s2[k - m]]
  OBVIOUS
<1>11. s1[0] = d /\ s1[m] = e /\ s2[0] = e /\ s2[n] = f
  BY <1>3, <1>4, <1>7 DEF Trace
<1>12. st[0] = d /\ st[m + n] = f
  <2>1. CASE n = 0
    BY <1>10, <1>11, <2>1
  <2>2. CASE n # 0
    <3>1. ~ (m + n <= m) /\ m + n - m = n /\ 0 <= m
      BY <2>2
    <3>2. m + n \in 0 .. m + n /\ 0 \in 0 .. m + n
      OBVIOUS
    <3> QED
      BY <1>10, <1>11, <3>1, <3>2
  <2> QED
    BY <2>1, <2>2
<1>13. ASSUME NEW k \in 1 .. Len(r)
       PROVE  ~ Refused(r[k], st[k - 1], on) /\ st[k] = Effect(r[k], st[k - 1], on)
  <2>0. k \in 1 .. m + n /\ k \in 0 .. m + n /\ k - 1 \in 0 .. m + n
    BY <1>9
  <2>1. CASE k <= m
    <3>1. k \in 1 .. m /\ k - 1 <= m
      BY <2>0, <2>1
    <3>2. r[k] = p[k] /\ st[k] = s1[k] /\ st[k - 1] = s1[k - 1]
      BY <1>9, <1>10, <2>0, <2>1, <3>1
    <3>3. ~ Refused(p[k], s1[k - 1], on) /\ s1[k] = Effect(p[k], s1[k - 1], on)
      BY <1>3, <1>7, <3>1 DEF Trace
    <3> QED
      BY <3>2, <3>3
  <2>2. CASE ~ (k <= m)
    <3>1. PICK j \in 1 .. n : j = k - m
      BY <2>0, <2>2
    <3>2. k \in m + 1 .. m + n /\ k - m = j
      BY <2>0, <2>2, <3>1
    <3>3. r[k] = q[j] /\ st[k] = s2[j]
      BY <1>9, <1>10, <2>0, <2>2, <3>2
    <3>4. st[k - 1] = s2[j - 1]
      <4>1. CASE j = 1
        <5>1. k - 1 = m /\ j - 1 = 0
          BY <3>1, <4>1
        <5> QED
          BY <1>10, <1>11, <2>0, <5>1
      <4>2. CASE j # 1
        <5>1. ~ (k - 1 <= m) /\ k - 1 - m = j - 1
          BY <3>1, <4>2
        <5> QED
          BY <1>10, <2>0, <5>1
      <4> QED
        BY <4>1, <4>2
    <3>5. ~ Refused(q[j], s2[j - 1], on) /\ s2[j] = Effect(q[j], s2[j - 1], on)
      BY <1>4, <1>7, <3>1 DEF Trace
    <3> QED
      BY <3>3, <3>4, <3>5
  <2> QED
    BY <2>1, <2>2
<1>14. Trace(st, r, d, f, on)
  BY <1>9, <1>12, <1>13 DEF Trace
<1> QED
  BY <1>8, <1>9, <1>14 DEF Runs, IsProg

\* A run is its first statement and a run of the others.
LEMMA RunsHead ==
    ASSUME NEW p, NEW d, NEW e, NEW on, Runs(p, d, e, on), p # <<>>
    PROVE  /\ ~ Refused(Head(p), d, on)
           /\ Runs(Tail(p), Effect(Head(p), d, on), e, on)
<1>1. PICK S : p \in Seq(S)
  BY DEF Runs, IsProg
<1>2. PICK st : Trace(st, p, d, e, on)
  BY DEF Runs
<1>3. PICK n \in Nat : n = Len(p) /\ n >= 1
  BY <1>1
<1>4. Head(p) = p[1]
  BY <1>1
<1>5. PICK q : q = Tail(p)
  OBVIOUS
<1>6. q \in Seq(S) /\ Len(q) = n - 1 /\ \A k \in 1 .. n - 1 : q[k] = p[k + 1]
  BY <1>1, <1>3, <1>5
<1>7. st[0] = d /\ st[n] = e
  BY <1>2, <1>3 DEF Trace
<1>8. \A k \in 1 .. n : ~ Refused(p[k], st[k - 1], on) /\ st[k] = Effect(p[k], st[k - 1], on)
  BY <1>2, <1>3 DEF Trace
<1>9. ~ Refused(p[1], st[0], on) /\ st[1] = Effect(p[1], st[0], on)
  <2>1. 1 \in 1 .. n /\ 1 - 1 = 0
    BY <1>3
  <2> QED
    BY <1>8, <2>1
<1>10. PICK tr : tr = [k \in 0 .. n - 1 |-> st[k + 1]]
  OBVIOUS
<1>11. tr[0] = st[1] /\ tr[n - 1] = e
  <2>1. 0 \in 0 .. n - 1 /\ n - 1 \in 0 .. n - 1 /\ 0 + 1 = 1 /\ n - 1 + 1 = n
    BY <1>3
  <2> QED
    BY <1>7, <1>10, <2>1
<1>12. ASSUME NEW k \in 1 .. Len(q)
       PROVE  ~ Refused(q[k], tr[k - 1], on) /\ tr[k] = Effect(q[k], tr[k - 1], on)
  <2>1. /\ k \in 1 .. n - 1 /\ k \in 0 .. n - 1 /\ k - 1 \in 0 .. n - 1
        /\ k + 1 \in 1 .. n /\ k + 1 - 1 = k /\ k - 1 + 1 = k
    BY <1>3, <1>6
  <2>2. q[k] = p[k + 1] /\ tr[k] = st[k + 1] /\ tr[k - 1] = st[k]
    BY <1>6, <1>10, <2>1
  <2>3. ~ Refused(p[k + 1], st[k], on) /\ st[k + 1] = Effect(p[k + 1], st[k], on)
    BY <1>8, <2>1
  <2> QED
    BY <2>2, <2>3
<1>13. Trace(tr, q, st[1], e, on)
  BY <1>6, <1>11, <1>12 DEF Trace
<1>14. Runs(q, st[1], e, on)
  BY <1>6, <1>13 DEF Runs, IsProg
<1> QED
  BY <1>4, <1>5, <1>7, <1>9, <1>14

\* A run of no statements has changed nothing.
LEMMA RunsOver ==
    ASSUME NEW d, NEW e, NEW on, Runs(<<>>, d, e, on)
    PROVE  d = e
BY DEF Runs, Trace

\* A database is its three fields.
LEMMA DbFields ==
    ASSUME NEW d, NEW o, NEW t, NEW a, d = Db(o, t, a)
    PROVE  /\ d.objs = o /\ d.table = t /\ d.applied = a
           /\ \A x : [d EXCEPT !.objs = x] = Db(x, t, a)
           /\ \A x : [d EXCEPT !.table = x] = Db(o, x, a)
           /\ \A x : [d EXCEPT !.applied = x] = Db(o, t, x)
BY DEF Db

\* The database after each kind of statement.
LEMMA EffectCreate ==
    ASSUME NEW s, NEW o, NEW t, NEW a, NEW on, s.kind = "create"
    PROVE  Effect(s, Db(o, t, a), on)
             = Db(o \cup {s.obj}, t, a)
<1>1. PICK d : d = Db(o, t, a)
  OBVIOUS
<1>2. /\ d.objs = o /\ d.table = t /\ d.applied = a
      /\ \A x : [d EXCEPT !.objs = x] = Db(x, t, a)
      /\ \A x : [d EXCEPT !.table = x] = Db(o, x, a)
      /\ \A x : [d EXCEPT !.applied = x] = Db(o, t, x)
  BY <1>1, DbFields
<1> QED
  BY <1>1, <1>2 DEF Effect

\* The effect of each kind of statement, on a database given by its fields.
LEMMA EffectSafe ==
    ASSUME NEW s, NEW o, NEW t, NEW a, NEW on, s.kind = "safe",
           NEW m, m = IF SafeSkips(s.obj, o) THEN o ELSE o \cup {s.obj}
    PROVE  Effect(s, Db(o, t, a), on) = Db(m, t, a)
<1>1. PICK d : d = Db(o, t, a)
  OBVIOUS
<1>2. /\ d.objs = o /\ d.table = t /\ d.applied = a
      /\ \A x : [d EXCEPT !.objs = x] = Db(x, t, a)
      /\ \A x : [d EXCEPT !.table = x] = Db(o, x, a)
      /\ \A x : [d EXCEPT !.applied = x] = Db(o, t, x)
  BY <1>1, DbFields
<1> QED
  BY <1>1, <1>2 DEF Effect

LEMMA EffectDiscard ==
    ASSUME NEW s, NEW o, NEW t, NEW a, NEW on, s.kind = "discard"
    PROVE  Effect(s, Db(o, t, a), on)
             = Db(o \ {s.obj}, t, a)
<1>1. PICK d : d = Db(o, t, a)
  OBVIOUS
<1>2. /\ d.objs = o /\ d.table = t /\ d.applied = a
      /\ \A x : [d EXCEPT !.objs = x] = Db(x, t, a)
      /\ \A x : [d EXCEPT !.table = x] = Db(o, x, a)
      /\ \A x : [d EXCEPT !.applied = x] = Db(o, t, x)
  BY <1>1, DbFields
<1> QED
  BY <1>1, <1>2 DEF Effect

LEMMA EffectRebuild ==
    ASSUME NEW s, NEW o, NEW t, NEW a, NEW on, s.kind = "rebuild",
           NEW m, m = IF on = "postgres" THEN o ELSE o \cup {Copy(s.obj)}
    PROVE  Effect(s, Db(o, t, a), on) = Db(m, t, a)
<1>1. PICK d : d = Db(o, t, a)
  OBVIOUS
<1>2. /\ d.objs = o /\ d.table = t /\ d.applied = a
      /\ \A x : [d EXCEPT !.objs = x] = Db(x, t, a)
      /\ \A x : [d EXCEPT !.table = x] = Db(o, x, a)
      /\ \A x : [d EXCEPT !.applied = x] = Db(o, t, x)
  BY <1>1, DbFields
<1> QED
  BY <1>1, <1>2 DEF Effect

LEMMA EffectCopy ==
    ASSUME NEW s, NEW o, NEW t, NEW a, NEW on, s.kind = "copy"
    PROVE  Effect(s, Db(o, t, a), on)
             = Db((o \cup {s.obj}) \ {Copy(s.obj)}, t, a)
<1>1. PICK d : d = Db(o, t, a)
  OBVIOUS
<1>2. /\ d.objs = o /\ d.table = t /\ d.applied = a
      /\ \A x : [d EXCEPT !.objs = x] = Db(x, t, a)
      /\ \A x : [d EXCEPT !.table = x] = Db(o, x, a)
      /\ \A x : [d EXCEPT !.applied = x] = Db(o, t, x)
  BY <1>1, DbFields
<1> QED
  BY <1>1, <1>2 DEF Effect

LEMMA EffectCreateAll ==
    ASSUME NEW s, NEW o, NEW t, NEW a, NEW on, s.kind = "create_all"
    PROVE  Effect(s, Db(o, t, a), on)
             = Db(o \cup {x \in Metadata : x[1] = s.obj[1] /\ x[2] \notin Indexes}, t, a)
<1>1. PICK d : d = Db(o, t, a)
  OBVIOUS
<1>2. /\ d.objs = o /\ d.table = t /\ d.applied = a
      /\ \A x : [d EXCEPT !.objs = x] = Db(x, t, a)
      /\ \A x : [d EXCEPT !.table = x] = Db(o, x, a)
      /\ \A x : [d EXCEPT !.applied = x] = Db(o, t, x)
  BY <1>1, DbFields
<1> QED
  BY <1>1, <1>2 DEF Effect

LEMMA EffectIndexes ==
    ASSUME NEW s, NEW o, NEW t, NEW a, NEW on, s.kind = "indexes"
    PROVE  Effect(s, Db(o, t, a), on)
             = Db(o \cup {x \in Metadata : x[1] = s.obj[1] /\ x[2] \in Indexes}, t, a)
<1>1. PICK d : d = Db(o, t, a)
  OBVIOUS
<1>2. /\ d.objs = o /\ d.table = t /\ d.applied = a
      /\ \A x : [d EXCEPT !.objs = x] = Db(x, t, a)
      /\ \A x : [d EXCEPT !.table = x] = Db(o, x, a)
      /\ \A x : [d EXCEPT !.applied = x] = Db(o, t, x)
  BY <1>1, DbFields
<1> QED
  BY <1>1, <1>2 DEF Effect

LEMMA EffectStamp ==
    ASSUME NEW s, NEW o, NEW t, NEW a, NEW on, s.kind = "stamp"
    PROVE  Effect(s, Db(o, t, a), on)
             = Db(o, t, s.obj)
<1>1. PICK d : d = Db(o, t, a)
  OBVIOUS
<1>2. /\ d.objs = o /\ d.table = t /\ d.applied = a
      /\ \A x : [d EXCEPT !.objs = x] = Db(x, t, a)
      /\ \A x : [d EXCEPT !.table = x] = Db(o, x, a)
      /\ \A x : [d EXCEPT !.applied = x] = Db(o, t, x)
  BY <1>1, DbFields
<1> QED
  BY <1>1, <1>2 DEF Effect

LEMMA EffectRecord ==
    ASSUME NEW s, NEW o, NEW t, NEW a, NEW on, s.kind = "record"
    PROVE  Effect(s, Db(o, t, a), on)
             = Db(o, t, a \cup s.obj)
<1>1. PICK d : d = Db(o, t, a)
  OBVIOUS
<1>2. /\ d.objs = o /\ d.table = t /\ d.applied = a
      /\ \A x : [d EXCEPT !.objs = x] = Db(x, t, a)
      /\ \A x : [d EXCEPT !.table = x] = Db(o, x, a)
      /\ \A x : [d EXCEPT !.applied = x] = Db(o, t, x)
  BY <1>1, DbFields
<1> QED
  BY <1>1, <1>2 DEF Effect

LEMMA EffectCommit ==
    ASSUME NEW s, NEW o, NEW t, NEW a, NEW on, s.kind = "commit"
    PROVE  Effect(s, Db(o, t, a), on)
             = Db(o, t, a)
<1>1. PICK d : d = Db(o, t, a)
  OBVIOUS
<1>2. /\ d.objs = o /\ d.table = t /\ d.applied = a
      /\ \A x : [d EXCEPT !.objs = x] = Db(x, t, a)
      /\ \A x : [d EXCEPT !.table = x] = Db(o, x, a)
      /\ \A x : [d EXCEPT !.applied = x] = Db(o, t, x)
  BY <1>1, DbFields
<1> QED
  BY <1>1, <1>2 DEF Effect

-----------------------------------------------------------------------------
(* The revisions *)

\* The revisions, by name.
LEMMA TheRevisions ==
    /\ Revisions = {"r0001_baseline", "r0002_runs_token_usage", "r0003_scheduled_tasks",
                    "r0004_after_sales", "r0005_action_active", "r0006_action_approvers",
                    "r0006_idempotency", "r0007_hash_chain", "r0007_tool_call_audit",
                    "r0008_action_reserved", "r0009_event_seq", "r0010_knowledge_health",
                    "r0011_event_seq_unique", "r0012_case_intake"}
    /\ Upgrades["r0001_baseline"] = Baseline
    /\ Upgrades["r0002_runs_token_usage"] = RunsTokenUsage
    /\ Upgrades["r0003_scheduled_tasks"] = ScheduledTasks
    /\ Upgrades["r0004_after_sales"] = AfterSales
    /\ Upgrades["r0005_action_active"] = ActionActive
    /\ Upgrades["r0006_action_approvers"] = ActionApprovers
    /\ Upgrades["r0006_idempotency"] = Idempotency
    /\ Upgrades["r0007_hash_chain"] = HashChain
    /\ Upgrades["r0007_tool_call_audit"] = ToolCallAudit
    /\ Upgrades["r0008_action_reserved"] = ActionReserved
    /\ Upgrades["r0009_event_seq"] = EventSeq
    /\ Upgrades["r0010_knowledge_health"] = KnowledgeHealth
    /\ Upgrades["r0011_event_seq_unique"] = EventSeqUnique
    /\ Upgrades["r0012_case_intake"] = CaseIntake
<1>1. PICK a, b, c, d, e, f, g, h, i, j, k, l, m, n :
        /\ a = Baseline /\ b = RunsTokenUsage /\ c = ScheduledTasks /\ d = AfterSales
        /\ e = ActionActive /\ f = ActionApprovers /\ g = Idempotency /\ h = HashChain
        /\ i = ToolCallAudit /\ j = ActionReserved /\ k = EventSeq /\ l = KnowledgeHealth
        /\ m = EventSeqUnique /\ n = CaseIntake
  OBVIOUS
<1> QED
  BY <1>1 DEF Upgrades, Revisions

\* The down_revision of each.
LEMMA TheDownRevisions ==
    /\ DownRevision["r0001_baseline"] = {}
    /\ DownRevision["r0002_runs_token_usage"] = {"r0001_baseline"}
    /\ DownRevision["r0003_scheduled_tasks"] = {"r0002_runs_token_usage"}
    /\ DownRevision["r0004_after_sales"] = {"r0003_scheduled_tasks"}
    /\ DownRevision["r0005_action_active"] = {"r0004_after_sales"}
    /\ DownRevision["r0006_action_approvers"] = {"r0005_action_active"}
    /\ DownRevision["r0006_idempotency"] = {"r0005_action_active"}
    /\ DownRevision["r0007_hash_chain"] = {"r0006_action_approvers"}
    /\ DownRevision["r0007_tool_call_audit"] = {"r0006_idempotency"}
    /\ DownRevision["r0008_action_reserved"] = {"r0007_hash_chain"}
    /\ DownRevision["r0009_event_seq"] = {"r0008_action_reserved"}
    /\ DownRevision["r0010_knowledge_health"] = {"r0009_event_seq"}
    /\ DownRevision["r0011_event_seq_unique"] = {"r0010_knowledge_health", "r0007_tool_call_audit"}
    /\ DownRevision["r0012_case_intake"] = {"r0011_event_seq_unique"}
    /\ \A r \in Revisions : DownRevision[r] \subseteq Revisions
BY TheRevisions DEF DownRevision

\* The tables of the application, by name.
LEMMA TheTables ==
    /\ IsProg(ImportOrder) /\ Distinct(ImportOrder)
    /\ Members(ImportOrder)
         = {"service_cases", "action_requests", "case_events", "channel_connections",
            "channel_conversations", "channel_credentials", "channel_oauth_states", "feedback",
            "run_events", "runs", "scheduled_task_runs", "scheduled_tasks", "threads_meta", "users",
            "after_sales_idempotency", "after_sales_knowledge_health", "after_sales_tool_audit"}
    /\ IsProg(BaselineOrder) /\ Len(BaselineOrder) = 9
    /\ BaselineTables
         = {"channel_connections", "channel_conversations", "channel_credentials",
            "channel_oauth_states", "feedback", "run_events", "runs", "threads_meta", "users"}
<1> DEFINE Names ==
           {"service_cases", "action_requests", "case_events", "channel_connections",
            "channel_conversations", "channel_credentials", "channel_oauth_states", "feedback",
            "run_events", "runs", "scheduled_task_runs", "scheduled_tasks", "threads_meta", "users",
            "after_sales_idempotency", "after_sales_knowledge_health", "after_sales_tool_audit"}
<1>1. ImportOrder \in Seq(Names) /\ Len(ImportOrder) = 17
  BY DEF ImportOrder
<1>2. BaselineOrder \in Seq(Names) /\ Len(BaselineOrder) = 9
  BY DEF BaselineOrder
<1>3. Members(ImportOrder) = Names
  BY <1>1 DEF ImportOrder, Members
<1>4. BaselineTables
         = {"channel_connections", "channel_conversations", "channel_credentials",
            "channel_oauth_states", "feedback", "run_events", "runs", "threads_meta", "users"}
  BY <1>2 DEF BaselineTables, BaselineOrder, Members
<1>5. Distinct(ImportOrder)
  BY <1>1 DEF Distinct, ImportOrder
<1> QED
  BY <1>1, <1>2, <1>3, <1>4, <1>5 DEF IsProg

\* The programs, statement by statement.
Objs(p) == {p[k].obj : k \in 1 .. Len(p)}

\* What a statement of a revision may be.
Shaped(s, r) ==
    /\ s.kind \in {"create", "safe", "discard", "rebuild", "copy"}
    /\ s.obj[1] \in Members(ImportOrder) /\ s.obj[2] # "alembic_tmp"
    /\ r # "r0003_scheduled_tasks" => s.obj[1] \notin {"scheduled_tasks", "scheduled_task_runs"}
    /\ r = "r0003_scheduled_tasks" => s.obj[1] \in {"scheduled_tasks", "scheduled_task_runs"}
    /\ s.obj = SeqIndex => r \in {"r0009_event_seq", "r0011_event_seq_unique"}
    /\ r = "r0011_event_seq_unique" /\ s.obj = SeqIndex => s.kind = "discard"

\* What the baseline revision makes: its tables and their indexes.
LEMMA BaselineIs ==
    /\ IsProg(Baseline)
    /\ \A s \in Members(Baseline) :
         /\ s.kind = "create" /\ s.obj[1] \in BaselineTables
         /\ s.obj = Table(s.obj[1]) \/ s.obj = <<s.obj[1], "ix">>
    /\ \A t \in BaselineTables :
         Create(t, "table") \in Members(Baseline) /\ Create(t, "ix") \in Members(Baseline)
<1>1. PICK b : b = BaselineOrder
  OBVIOUS
<1>2. Len(b) = 9 /\ BaselineTables = {b[i] : i \in 1 .. 9}
  BY <1>1, TheTables DEF BaselineTables, Members
<1>3. PICK p : p = Baseline
  OBVIOUS
<1>4. p = [k \in 1 .. 18 |->
             IF k % 2 = 1 THEN Create(b[(k + 1) \div 2], "table") ELSE Create(b[k \div 2], "ix")]
  <2>1. Baseline = [k \in 1 .. 2 * Len(BaselineOrder) |->
                      IF k % 2 = 1 THEN Create(BaselineOrder[(k + 1) \div 2], "table")
                      ELSE Create(BaselineOrder[k \div 2], "ix")]
    BY Zenon DEF Baseline, ForEach
  <2>2. 2 * Len(b) = 18
    BY <1>2
  <2>3. p = [k \in 1 .. 2 * Len(b) |->
               IF k % 2 = 1 THEN Create(b[(k + 1) \div 2], "table") ELSE Create(b[k \div 2], "ix")]
    BY <1>1, <1>3, <2>1
  <2> QED
    BY <2>2, <2>3
<1>5. PICK S : S = {p[k] : k \in 1 .. 18}
  OBVIOUS
<1>6. p \in Seq(S) /\ Len(p) = 18
  BY <1>4, <1>5
<1>7. Members(p) = {p[k] : k \in 1 .. 18}
  BY <1>6 DEF Members
<1>8. ASSUME NEW s \in Members(p)
      PROVE  /\ s.kind = "create" /\ s.obj[1] \in BaselineTables
             /\ s.obj = Table(s.obj[1]) \/ s.obj = <<s.obj[1], "ix">>
  <2>1. PICK k \in 1 .. 18 : s = p[k]
    BY <1>7
  <2>2. CASE k % 2 = 1
    <3>1. PICK i \in 1 .. 9 : i = (k + 1) \div 2
      BY <2>2
    <3>2. PICK t \in BaselineTables : t = b[i]
      BY <1>2
    <3>3. s = Create(t, "table")
      BY <1>4, <2>1, <2>2, <3>1, <3>2
    <3> QED
      BY <3>3 DEF Create, Table
  <2>3. CASE k % 2 # 1
    <3>1. PICK i \in 1 .. 9 : i = k \div 2
      BY <2>3
    <3>2. PICK t \in BaselineTables : t = b[i]
      BY <1>2
    <3>3. s = Create(t, "ix")
      BY <1>4, <2>1, <2>3, <3>1, <3>2
    <3> QED
      BY <3>3 DEF Create, Table
  <2> QED
    BY <2>2, <2>3
<1>9. ASSUME NEW t \in BaselineTables
      PROVE  Create(t, "table") \in Members(p) /\ Create(t, "ix") \in Members(p)
  <2>1. PICK i \in 1 .. 9 : t = b[i]
    BY <1>2
  <2>2. PICK j \in 1 .. 18 : j = 2 * i - 1 /\ j % 2 = 1 /\ (j + 1) \div 2 = i
    OBVIOUS
  <2>3. PICK k \in 1 .. 18 : k = 2 * i /\ k % 2 # 1 /\ k \div 2 = i
    OBVIOUS
  <2>4. p[j] = Create(t, "table") /\ p[k] = Create(t, "ix")
    BY <1>4, <2>1, <2>2, <2>3
  <2> QED
    BY <1>7, <2>4
<1> QED
  BY <1>3, <1>6, <1>8, <1>9 DEF IsProg

\* Tuples are programs of their length.
LEMMA Tuples ==
    /\ \A a : IsProg(<<a>>) /\ Len(<<a>>) = 1
    /\ \A a, b : IsProg(<<a, b>>) /\ Len(<<a, b>>) = 2
    /\ \A a, b, c, d : IsProg(<<a, b, c, d>>) /\ Len(<<a, b, c, d>>) = 4
    /\ \A a, b, c, d, e, f : IsProg(<<a, b, c, d, e, f>>) /\ Len(<<a, b, c, d, e, f>>) = 6
<1>1. ASSUME NEW a
      PROVE  <<a>> \in Seq({a}) /\ Len(<<a>>) = 1
  OBVIOUS
<1>2. ASSUME NEW a, NEW b
      PROVE  <<a, b>> \in Seq({a, b}) /\ Len(<<a, b>>) = 2
  OBVIOUS
<1>3. ASSUME NEW a, NEW b, NEW c, NEW d
      PROVE  <<a, b, c, d>> \in Seq({a, b, c, d}) /\ Len(<<a, b, c, d>>) = 4
  OBVIOUS
<1>4. ASSUME NEW a, NEW b, NEW c, NEW d, NEW e, NEW f
      PROVE  /\ <<a, b, c, d, e, f>> \in Seq({a, b, c, d, e, f})
             /\ Len(<<a, b, c, d, e, f>>) = 6
  OBVIOUS
<1> QED
  BY <1>1, <1>2, <1>3, <1>4 DEF IsProg

\* Short programs put together.
LEMMA OneAndOne ==
    ASSUME NEW a, NEW b
    PROVE  <<a>> \o <<b>> = <<a, b>>
<1>1. PICK p : p = <<a>> \o <<b>>
  OBVIOUS
<1>2. <<a>> \in Seq({a, b}) /\ <<b>> \in Seq({a, b})
  OBVIOUS
<1>3. p \in Seq({a, b}) /\ Len(p) = 2 /\ p[1] = a /\ p[2] = b
  BY <1>1, <1>2
<1>4. p = <<a, b>>
  BY <1>3
<1> QED
  BY <1>1, <1>4

LEMMA TwoAndTwo ==
    ASSUME NEW a, NEW b, NEW c, NEW d
    PROVE  <<a, b>> \o <<c, d>> = <<a, b, c, d>>
<1>1. PICK p : p = <<a, b>> \o <<c, d>>
  OBVIOUS
<1>2. <<a, b>> \in Seq({a, b, c, d}) /\ <<c, d>> \in Seq({a, b, c, d})
  OBVIOUS
<1>3. p \in Seq({a, b, c, d}) /\ Len(p) = 4 /\ p[1] = a /\ p[2] = b /\ p[3] = c /\ p[4] = d
  BY <1>1, <1>2
<1>4. p = <<a, b, c, d>>
  BY <1>3
<1> QED
  BY <1>1, <1>4

LEMMA TwoAndOne ==
    ASSUME NEW a, NEW b, NEW c
    PROVE  Append(<<a, b>>, c) = <<a, b, c>>
<1>1. PICK p : p = Append(<<a, b>>, c)
  OBVIOUS
<1>2. <<a, b>> \in Seq({a, b, c}) /\ c \in {a, b, c}
  OBVIOUS
<1>3. p \in Seq({a, b, c}) /\ Len(p) = 3 /\ p[1] = a /\ p[2] = b /\ p[3] = c
  BY <1>1, <1>2
<1>4. p = <<a, b, c>>
  BY <1>3
<1> QED
  BY <1>1, <1>4

\* The length of two programs put together.
LEMMA ProgConcat ==
    ASSUME NEW p, NEW q, IsProg(p), IsProg(q)
    PROVE  IsProg(p \o q) /\ Len(p) \in Nat /\ Len(q) \in Nat /\ Len(p \o q) = Len(p) + Len(q)
<1>1. PICK S : p \in Seq(S)
  BY DEF IsProg
<1>2. PICK T : q \in Seq(T)
  BY DEF IsProg
<1>3. PICK U : U = S \cup T
  OBVIOUS
<1>4. p \in Seq(U) /\ q \in Seq(U)
  BY <1>1, <1>2, <1>3
<1>5. p \o q \in Seq(U) /\ Len(p) \in Nat /\ Len(q) \in Nat /\ Len(p \o q) = Len(p) + Len(q)
  BY <1>4
<1> QED
  BY <1>5 DEF IsProg

\* Every statement of every revision is one of these.
LEMMA RevisionsShaped ==
    ASSUME NEW r \in Revisions
    PROVE  /\ IsProg(Upgrades[r])
           /\ \A s \in Members(Upgrades[r]) : Shaped(s, r)
<1>1. CASE r = "r0001_baseline"
  <2>1. BaselineTables \subseteq Members(ImportOrder)
    BY TheTables
  <2>2. \A t \in BaselineTables : t \notin {"scheduled_tasks", "scheduled_task_runs", "case_events"}
    BY TheTables
  <2>3. ASSUME NEW s \in Members(Baseline)
        PROVE  Shaped(s, r)
    <3>1. PICK t \in BaselineTables : t = s.obj[1]
      BY BaselineIs
    <3>2. s.kind = "create" /\ (s.obj = <<t, "table">> \/ s.obj = <<t, "ix">>)
      BY <3>1, BaselineIs DEF Table
    <3> QED
      BY <1>1, <2>1, <2>2, <3>1, <3>2 DEF Shaped, SeqIndex
  <2> QED
    BY <1>1, <2>3, BaselineIs, TheRevisions
<1>2. CASE r = "r0002_runs_token_usage"
  <2>1. PICK p : p = RunsTokenUsage
    OBVIOUS
  <2>2. IsProg(p) /\ Len(p) = 2
    BY <2>1, Tuples DEF RunsTokenUsage, Rebuild
  <2>3. \A k \in 1 .. 2 : Shaped(p[k], r)
    BY <1>2, <2>1, TheTables DEF RunsTokenUsage, Rebuild, Shaped, SeqIndex
  <2> QED
    BY <1>2, <2>1, <2>2, <2>3, TheRevisions DEF Members
<1>3. CASE r = "r0003_scheduled_tasks"
  <2>1. PICK p : p = ScheduledTasks
    OBVIOUS
  <2>2. IsProg(p) /\ Len(p) = 4
    BY <2>1, Tuples DEF ScheduledTasks
  <2>3. \A k \in 1 .. 4 : Shaped(p[k], r)
    BY <1>3, <2>1, TheTables DEF ScheduledTasks, Create, Shaped, SeqIndex
  <2> QED
    BY <1>3, <2>1, <2>2, <2>3, TheRevisions DEF Members
<1>4. CASE r = "r0004_after_sales"
  <2>1. PICK p : p = AfterSales
    OBVIOUS
  <2>2. IsProg(p) /\ Len(p) = 6
    BY <2>1, Tuples DEF AfterSales
  <2>3. \A k \in 1 .. 6 : Shaped(p[k], r)
    BY <1>4, <2>1, TheTables DEF AfterSales, Safe, Shaped, SeqIndex
  <2> QED
    BY <1>4, <2>1, <2>2, <2>3, TheRevisions DEF Members
<1>5. CASE r = "r0005_action_active"
  <2>1. PICK p : p = ActionActive
    OBVIOUS
  <2>2. IsProg(p) /\ Len(p) = 1
    BY <2>1, Tuples DEF ActionActive
  <2>3. \A k \in 1 .. 1 : Shaped(p[k], r)
    BY <1>5, <2>1, TheTables DEF ActionActive, Safe, Shaped, SeqIndex
  <2> QED
    BY <1>5, <2>1, <2>2, <2>3, TheRevisions DEF Members
<1>6. CASE r = "r0006_action_approvers"
  <2>1. PICK p : p = ActionApprovers
    OBVIOUS
  <2>2. IsProg(p) /\ Len(p) = 2
    BY <2>1, Tuples DEF ActionApprovers
  <2>3. \A k \in 1 .. 2 : Shaped(p[k], r)
    BY <1>6, <2>1, TheTables DEF ActionApprovers, Safe, Shaped, SeqIndex
  <2> QED
    BY <1>6, <2>1, <2>2, <2>3, TheRevisions DEF Members
<1>7. CASE r = "r0006_idempotency"
  <2>1. PICK p : p = Idempotency
    OBVIOUS
  <2>2. IsProg(p) /\ Len(p) = 2
    BY <2>1, Tuples DEF Idempotency
  <2>3. \A k \in 1 .. 2 : Shaped(p[k], r)
    BY <1>7, <2>1, TheTables DEF Idempotency, Safe, Shaped, SeqIndex
  <2> QED
    BY <1>7, <2>1, <2>2, <2>3, TheRevisions DEF Members
<1>8. CASE r = "r0007_hash_chain"
  <2>1. PICK p : p = HashChain
    OBVIOUS
  <2>2. IsProg(p) /\ Len(p) = 2
    BY <2>1, Tuples DEF HashChain
  <2>3. \A k \in 1 .. 2 : Shaped(p[k], r)
    BY <1>8, <2>1, TheTables DEF HashChain, Safe, Shaped, SeqIndex
  <2> QED
    BY <1>8, <2>1, <2>2, <2>3, TheRevisions DEF Members
<1>9. CASE r = "r0007_tool_call_audit"
  <2>1. PICK p : p = ToolCallAudit
    OBVIOUS
  <2>2. IsProg(p) /\ Len(p) = 2
    BY <2>1, Tuples DEF ToolCallAudit
  <2>3. \A k \in 1 .. 2 : Shaped(p[k], r)
    BY <1>9, <2>1, TheTables DEF ToolCallAudit, Safe, Shaped, SeqIndex
  <2> QED
    BY <1>9, <2>1, <2>2, <2>3, TheRevisions DEF Members
<1>10. CASE r = "r0008_action_reserved"
  <2>1. PICK p : p = ActionReserved
    OBVIOUS
  <2>2. IsProg(p) /\ Len(p) = 1
    BY <2>1, Tuples DEF ActionReserved
  <2>3. \A k \in 1 .. 1 : Shaped(p[k], r)
    BY <1>10, <2>1, TheTables DEF ActionReserved, Safe, Shaped, SeqIndex
  <2> QED
    BY <1>10, <2>1, <2>2, <2>3, TheRevisions DEF Members
<1>11. CASE r = "r0009_event_seq"
  <2>1. PICK p : p = EventSeq
    OBVIOUS
  <2>2. IsProg(p) /\ Len(p) = 2
    BY <2>1, Tuples DEF EventSeq
  <2>3. \A k \in 1 .. 2 : Shaped(p[k], r)
    BY <1>11, <2>1, TheTables DEF EventSeq, Safe, Shaped, SeqIndex
  <2> QED
    BY <1>11, <2>1, <2>2, <2>3, TheRevisions DEF Members
<1>12. CASE r = "r0010_knowledge_health"
  <2>1. PICK p : p = KnowledgeHealth
    OBVIOUS
  <2>2. IsProg(p) /\ Len(p) = 1
    BY <2>1, Tuples DEF KnowledgeHealth
  <2>3. \A k \in 1 .. 1 : Shaped(p[k], r)
    BY <1>12, <2>1, TheTables DEF KnowledgeHealth, Safe, Shaped, SeqIndex
  <2> QED
    BY <1>12, <2>1, <2>2, <2>3, TheRevisions DEF Members
<1>13. CASE r = "r0011_event_seq_unique"
  <2>1. PICK p : p = EventSeqUnique
    OBVIOUS
  <2>2. IsProg(p) /\ Len(p) = 2
    BY <2>1, Tuples DEF EventSeqUnique
  <2>3. \A k \in 1 .. 2 : Shaped(p[k], r)
    BY <1>13, <2>1, TheTables DEF EventSeqUnique, Discard, Safe, Shaped, SeqIndex
  <2> QED
    BY <1>13, <2>1, <2>2, <2>3, TheRevisions DEF Members
<1>14. CASE r = "r0012_case_intake"
  <2>1. PICK p : p = CaseIntake
    OBVIOUS
  <2>2. IsProg(p) /\ Len(p) = 6
    BY <2>1, Tuples, ProgConcat DEF CaseIntake, Rebuild
  <2>3. \A k \in 1 .. 6 : Shaped(p[k], r)
    BY <1>14, <2>1, TheTables DEF CaseIntake, Rebuild, Safe, Shaped, SeqIndex
  <2> QED
    BY <1>14, <2>1, <2>2, <2>3, TheRevisions DEF Members
<1> QED
  BY <1>1, <1>2, <1>3, <1>4, <1>5, <1>6, <1>7, <1>8, <1>9, <1>10, <1>11, <1>12, <1>13, <1>14, TheRevisions

\* An object a revision makes is of a table of the application, and no copy.
LEMMA MadeShaped ==
    ASSUME NEW r \in Revisions, NEW x \in Made(r)
    PROVE  /\ x[1] \in Members(ImportOrder) /\ x[2] # "alembic_tmp"
           /\ r = "r0003_scheduled_tasks" <=> x[1] \in {"scheduled_tasks", "scheduled_task_runs"}
           /\ x = SeqIndex => r = "r0009_event_seq"
<1>1. PICK s \in Members(Upgrades[r]) : s.kind # "discard" /\ x = s.obj
  BY DEF Made
<1> QED
  BY <1>1, RevisionsShaped DEF Shaped

\* Guarded statements on tables that are there are never refused, and leave their objects.
LEMMA SafeRun ==
    ASSUME NEW p, NEW o, NEW t, NEW a, NEW on, IsProg(p),
           \A k \in 1 .. Len(p) :
             /\ p[k].kind = "safe"
             /\ \/ p[k].obj = Table(p[k].obj[1])
                \/ Table(p[k].obj[1]) \in o
                \/ \E j \in 1 .. k - 1 : p[j].obj = Table(p[k].obj[1])
    PROVE  Runs(p, Db(o, t, a), Db(o \cup Objs(p), t, a), on)
<1>1. PICK n \in Nat : n = Len(p)
  BY DEF IsProg
<1> DEFINE At(k) == o \cup {p[j].obj : j \in 1 .. k}
<1>2. PICK st : st = [k \in 0 .. n |-> Db(At(k), t, a)]
  OBVIOUS
<1>3. At(0) = o /\ At(n) = o \cup Objs(p)
  BY <1>1 DEF Objs
<1>4. \A k \in 1 .. n : At(k) = At(k - 1) \cup {p[k].obj}
  <2>1. ASSUME NEW k \in 1 .. n
        PROVE  \A j : j \in 1 .. k <=> j \in 1 .. k - 1 \/ j = k
    BY <1>1
  <2> QED
    BY <2>1
<1>5. ASSUME NEW k \in 1 .. n
      PROVE  ~ Refused(p[k], Db(At(k - 1), t, a), on) /\ Db(At(k), t, a) = Effect(p[k], Db(At(k - 1), t, a), on)
  <2>1. p[k].kind = "safe"
    BY <1>1
  <2>2. PICK x : x = p[k].obj
    OBVIOUS
  <2>3. ~ SafeSkips(x, At(k - 1)) \/ x \in At(k - 1)
    <3>1. x = Table(x[1]) \/ Table(x[1]) \in At(k - 1)
      BY <1>1, <2>2
    <3> HIDE DEF At
    <3> QED
      BY <3>1 DEF SafeSkips
  <2>4. At(k) = IF SafeSkips(p[k].obj, At(k - 1)) THEN At(k - 1) ELSE At(k - 1) \cup {p[k].obj}
    <3>1. At(k) = At(k - 1) \cup {x}
      BY <1>4, <2>2
    <3> HIDE DEF At
    <3> QED
      BY <2>2, <2>3, <3>1
  <2>5. ~ Refused(p[k], Db(At(k - 1), t, a), on)
    <3> HIDE DEF At
    <3> QED
      BY <2>1 DEF Refused
  <2>6. Effect(p[k], Db(At(k - 1), t, a), on) = Db(At(k), t, a)
    <3> HIDE DEF At
    <3> QED
      BY <2>1, <2>4, EffectSafe
  <2> HIDE DEF At
  <2> QED
    BY <2>5, <2>6
<1> HIDE DEF At
<1>6. Trace(st, p, Db(o, t, a), Db(o \cup Objs(p), t, a), on)
  <2>1. 0 \in 0 .. n /\ n \in 0 .. n
    OBVIOUS
  <2>2. st[0] = Db(o, t, a) /\ st[n] = Db(o \cup Objs(p), t, a)
    BY <1>2, <1>3, <2>1
  <2>3. ASSUME NEW k \in 1 .. n
        PROVE  ~ Refused(p[k], st[k - 1], on) /\ st[k] = Effect(p[k], st[k - 1], on)
    <3>1. k \in 0 .. n /\ k - 1 \in 0 .. n
      OBVIOUS
    <3>2. st[k] = Db(At(k), t, a) /\ st[k - 1] = Db(At(k - 1), t, a)
      BY <1>2, <3>1
    <3> QED
      BY <1>5, <3>2
  <2> QED
    BY <1>1, <2>2, <2>3 DEF Trace
<1> QED
  BY <1>6 DEF Runs

\* A table rebuilt in batch mode has its new part, and no copy is left.
LEMMA RebuildRun ==
    ASSUME NEW x, NEW y, NEW o, NEW t, NEW a, NEW on, y # "alembic_tmp", NoCopies(o)
    PROVE  Runs(Rebuild(x, y), Db(o, t, a), Db(o \cup {<<x, y>>}, t, a), on)
<1>1. PICK s1 : s1 = [kind |-> "rebuild", obj |-> <<x, y>>]
  OBVIOUS
<1>2. PICK s2 : s2 = [kind |-> "copy", obj |-> <<x, y>>]
  OBVIOUS
<1>3. PICK tmp : tmp = <<x, "alembic_tmp">>
  OBVIOUS
<1>4. tmp \notin o /\ tmp # <<x, y>>
  BY <1>3 DEF NoCopies
<1>5. s1.kind = "rebuild" /\ s2.kind = "copy" /\ s1.obj = <<x, y>> /\ s2.obj = <<x, y>>
  BY <1>1, <1>2
<1>6. Copy(s1.obj) = tmp /\ Copy(s2.obj) = tmp
  BY <1>3, <1>5 DEF Copy
<1>7. PICK m : m = IF on = "postgres" THEN o ELSE o \cup {tmp}
  OBVIOUS
<1>8. Effect(s1, Db(o, t, a), on) = Db(m, t, a)
  BY <1>5, <1>6, <1>7, EffectRebuild
<1>9. Effect(s2, Db(m, t, a), on) = Db((m \cup {<<x, y>>}) \ {tmp}, t, a)
  BY <1>5, <1>6, EffectCopy
<1>10. (m \cup {<<x, y>>}) \ {tmp} = o \cup {<<x, y>>}
  BY <1>4, <1>7
<1>11. ~ Refused(s1, Db(o, t, a), on)
  BY <1>4, <1>5, <1>6 DEF Refused, Db
<1>12. ~ Refused(s2, Db(m, t, a), on)
  BY <1>5 DEF Refused
<1>13. Runs(<<s1>>, Db(o, t, a), Db(m, t, a), on)
  BY <1>8, <1>11, RunsOne
<1>14. Runs(<<s2>>, Db(m, t, a), Db(o \cup {<<x, y>>}, t, a), on)
  BY <1>9, <1>10, <1>12, RunsOne
<1>15. Runs(<<s1>> \o <<s2>>, Db(o, t, a), Db(o \cup {<<x, y>>}, t, a), on)
  BY <1>13, <1>14, RunsConcat
<1>16. <<s1>> \o <<s2>> = <<s1, s2>>
  BY OneAndOne
<1> QED
  BY <1>1, <1>2, <1>15, <1>16 DEF Rebuild

\* A dropped index is gone.
LEMMA DiscardRun ==
    ASSUME NEW s, NEW o, NEW t, NEW a, NEW on, s.kind = "discard"
    PROVE  Runs(<<s>>, Db(o, t, a), Db(o \ {s.obj}, t, a), on)
<1>1. ~ Refused(s, Db(o, t, a), on)
  BY DEF Refused
<1>2. Effect(s, Db(o, t, a), on) = Db(o \ {s.obj}, t, a)
  BY EffectDiscard
<1> QED
  BY <1>1, <1>2, RunsOne

\* A guarded statement makes its object unless it is there.
LEMMA OneSafeRun ==
    ASSUME NEW s, NEW o, NEW t, NEW a, NEW on, NEW m, s.kind = "safe",
           m = IF SafeSkips(s.obj, o) THEN o ELSE o \cup {s.obj}
    PROVE  Runs(<<s>>, Db(o, t, a), Db(m, t, a), on)
<1>1. ~ Refused(s, Db(o, t, a), on)
  BY DEF Refused
<1>2. Effect(s, Db(o, t, a), on) = Db(m, t, a)
  BY EffectSafe
<1> QED
  BY <1>1, <1>2, RunsOne

\* An unguarded statement needs its object not to be there.
LEMMA CreateRun ==
    ASSUME NEW x, NEW y, NEW o, NEW t, NEW a, NEW on, <<x, y>> \notin o
    PROVE  Runs(<<Create(x, y)>>, Db(o, t, a), Db(o \cup {<<x, y>>}, t, a), on)
<1>1. PICK s : s = Create(x, y)
  OBVIOUS
<1>2. s.kind = "create" /\ s.obj = <<x, y>>
  BY <1>1 DEF Create
<1>3. Effect(s, Db(o, t, a), on) = Db(o \cup {<<x, y>>}, t, a)
  BY <1>2, EffectCreate
<1>4. ~ Refused(s, Db(o, t, a), on)
  BY <1>2 DEF Refused, Db
<1> QED
  BY <1>1, <1>3, <1>4, RunsOne

\* A revision records itself, and then there is nothing to commit but on SQLite.
LEMMA RecordRun ==
    ASSUME NEW r, NEW o, NEW t, NEW a, NEW on
    PROVE  Runs(<<[kind |-> "record", obj |-> {r}]>>, Db(o, t, a), Db(o, t, a \cup {r}), on)
<1>1. PICK s : s = [kind |-> "record", obj |-> {r}]
  OBVIOUS
<1>2. s.kind = "record" /\ s.obj = {r}
  BY <1>1
<1>3. Effect(s, Db(o, t, a), on) = Db(o, t, a \cup {r})
  BY <1>2, EffectRecord
<1>4. ~ Refused(s, Db(o, t, a), on)
  BY <1>2 DEF Refused
<1> QED
  BY <1>1, <1>3, <1>4, RunsOne

\* A commit changes nothing of the database.
LEMMA CommitRun ==
    ASSUME NEW o, NEW t, NEW a, NEW on
    PROVE  Runs(<<Commit>>, Db(o, t, a), Db(o, t, a), on)
<1>1. PICK s : s = Commit
  OBVIOUS
<1>2. s.kind = "commit"
  BY <1>1 DEF Commit
<1>3. Effect(s, Db(o, t, a), on) = Db(o, t, a)
  BY <1>2, EffectCommit
<1>4. ~ Refused(s, Db(o, t, a), on)
  BY <1>2 DEF Refused
<1> QED
  BY <1>1, <1>3, <1>4, RunsOne

\* The revisions that come before one that may run, and what they made.
LEMMA Lineage ==
    ASSUME NEW objs, NEW a, NEW r, Good(objs, a), r \in Revisions, DownRevision[r] \subseteq a,
           r \notin {"r0001_baseline", "r0002_runs_token_usage", "r0003_scheduled_tasks",
                    "r0004_after_sales"}
    PROVE  "r0004_after_sales" \in a
<1>1. DownClosed(a) /\ a \subseteq Revisions
  BY DEF Good
<1>2. \A x \in a : DownRevision[x] \subseteq a
  BY <1>1 DEF DownClosed
<1>3. "r0005_action_active" \in a => "r0004_after_sales" \in a
  BY <1>2, TheDownRevisions
<1>4. "r0006_action_approvers" \in a \/ "r0006_idempotency" \in a => "r0004_after_sales" \in a
  BY <1>2, <1>3, TheDownRevisions
<1>5. "r0007_hash_chain" \in a \/ "r0007_tool_call_audit" \in a => "r0004_after_sales" \in a
  BY <1>2, <1>4, TheDownRevisions
<1>6. "r0008_action_reserved" \in a => "r0004_after_sales" \in a
  BY <1>2, <1>5, TheDownRevisions
<1>7. "r0009_event_seq" \in a => "r0004_after_sales" \in a
  BY <1>2, <1>6, TheDownRevisions
<1>8. "r0010_knowledge_health" \in a => "r0004_after_sales" \in a
  BY <1>2, <1>7, TheDownRevisions
<1>9. "r0011_event_seq_unique" \in a => "r0004_after_sales" \in a
  BY <1>2, <1>8, TheDownRevisions
<1> QED
  BY <1>3, <1>4, <1>5, <1>6, <1>7, <1>8, <1>9, TheDownRevisions, TheRevisions

\* The revision that drops the index of the sequence comes after the one that makes it.
LEMMA SeqBeforeUnique ==
    ASSUME NEW objs, NEW a, Good(objs, a), "r0011_event_seq_unique" \in a
    PROVE  "r0009_event_seq" \in a
<1>1. \A x \in a : DownRevision[x] \subseteq a
  BY DEF Good, DownClosed
<1>2. "r0010_knowledge_health" \in a
  BY <1>1, TheDownRevisions
<1> QED
  BY <1>1, <1>2, TheDownRevisions

\* What an applied revision made is there, but for that index.
LEMMA MadeIsThere ==
    ASSUME NEW objs, NEW a, Good(objs, a), NEW r \in a, NEW x \in Made(r), x # SeqIndex
    PROVE  x \in objs
BY DEF Good

\* The tables of the application: three of them, and the runs of the baseline.
LEMMA AfterSalesTables ==
    /\ Table("service_cases") \in Made("r0004_after_sales")
    /\ Table("action_requests") \in Made("r0004_after_sales")
    /\ Table("case_events") \in Made("r0004_after_sales")
    /\ Table("runs") \in Made("r0001_baseline")
<1>1. PICK p : p = AfterSales
  OBVIOUS
<1>2. Len(p) = 6
  BY <1>1, Tuples DEF AfterSales
<1>3. /\ p[1] = Safe("service_cases", "table") /\ p[3] = Safe("action_requests", "table")
      /\ p[5] = Safe("case_events", "table")
  BY <1>1 DEF AfterSales
<1>4. p[1] \in Members(p) /\ p[3] \in Members(p) /\ p[5] \in Members(p)
  BY <1>2 DEF Members
<1>5. \A t : Safe(t, "table").kind # "discard" /\ Safe(t, "table").obj = Table(t)
  BY DEF Safe, Table
<1>6. \A t : Create(t, "table").kind # "discard" /\ Create(t, "table").obj = Table(t)
  BY DEF Create, Table
<1>7. Create("runs", "table") \in Members(Baseline)
  BY BaselineIs, TheTables
<1>8. Upgrades["r0004_after_sales"] = p /\ Upgrades["r0001_baseline"] = Baseline
  BY <1>1, TheRevisions
<1>9. \A r : \A s \in Members(Upgrades[r]) : s.kind # "discard" => s.obj \in Made(r)
  BY DEF Made
<1>10. Safe("service_cases", "table").obj \in Made("r0004_after_sales")
  BY <1>3, <1>4, <1>5, <1>8, <1>9
<1>11. Safe("action_requests", "table").obj \in Made("r0004_after_sales")
  BY <1>3, <1>4, <1>5, <1>8, <1>9
<1>12. Safe("case_events", "table").obj \in Made("r0004_after_sales")
  BY <1>3, <1>4, <1>5, <1>8, <1>9
<1>13. Create("runs", "table").obj \in Made("r0001_baseline")
  BY <1>6, <1>7, <1>8, <1>9
<1> QED
  BY <1>5, <1>6, <1>10, <1>11, <1>12, <1>13

\* A database that has taken one revision more.
LEMMA GoodAdds ==
    ASSUME NEW objs, NEW a, NEW r, Good(objs, a), r \in Revisions, r \notin a,
           DownRevision[r] \subseteq a, r # "r0011_event_seq_unique"
    PROVE  Good(objs \cup Made(r), a \cup {r})
<1>1. NoCopies(objs \cup Made(r))
  BY MadeShaped DEF Good, NoCopies
<1>2. TasksWhole(objs \cup Made(r))
  <2>1. CASE r = "r0003_scheduled_tasks"
    BY <2>1 DEF TasksWhole, TaskObjects
  <2>2. CASE r # "r0003_scheduled_tasks"
    <3>1. "r0003_scheduled_tasks" \in Revisions
      BY TheRevisions
    <3>2. Made(r) \cap TaskObjects = {}
      BY <2>2, <3>1, MadeShaped DEF TaskObjects
    <3> QED
      BY <3>2 DEF Good, TasksWhole
  <2> QED
    BY <2>1, <2>2
<1>3. a \cup {r} \subseteq Revisions /\ DownClosed(a \cup {r})
  BY DEF Good, DownClosed
<1>4. "r0011_event_seq_unique" \in a \cup {r} => SeqIndex \notin objs \cup Made(r)
  <2>1. SUFFICES ASSUME "r0011_event_seq_unique" \in a, SeqIndex \in Made(r) PROVE FALSE
    BY DEF Good
  <2>2. r = "r0009_event_seq"
    BY <2>1, MadeShaped
  <2> QED
    BY <2>1, <2>2, SeqBeforeUnique
<1>5. ASSUME NEW x \in a \cup {r}, NEW o \in Made(x)
      PROVE  o \in objs \cup Made(r) \/ (o = SeqIndex /\ "r0011_event_seq_unique" \in a \cup {r})
  BY DEF Good
<1>6. "r0001_baseline" \in a \cup {r}
  BY DEF Good
<1> QED
  BY <1>1, <1>2, <1>3, <1>4, <1>5, <1>6 DEF Good

\* One that has all a revision makes already.
LEMMA GoodHas ==
    ASSUME NEW objs, NEW a, NEW r, Good(objs, a), r \in Revisions, r \notin a,
           DownRevision[r] \subseteq a, r # "r0011_event_seq_unique", Made(r) \subseteq objs
    PROVE  Good(objs, a \cup {r})
<1>1. objs \cup Made(r) = objs
  OBVIOUS
<1> QED
  BY <1>1, GoodAdds

\* An upgrade to r that succeeds, and leaves objs2.
Takes(r, objs, a, objs2, on) ==
    /\ Runs(IF Returns(r, objs) THEN <<>> ELSE Upgrades[r], Db(objs, TRUE, a), Db(objs2, TRUE, a), on)
    /\ Good(objs2, a \cup {r})

\* The revisions that only use the safe helpers.
LEMMA SafeRevision ==
    ASSUME NEW objs, NEW a, NEW r, NEW on, NEW p, Good(objs, a), r \in Revisions, r \notin a,
           DownRevision[r] \subseteq a, r # "r0011_event_seq_unique", ~ Returns(r, objs),
           p = Upgrades[r], IsProg(p),
           \A k \in 1 .. Len(p) :
             /\ p[k].kind = "safe"
             /\ \/ p[k].obj = Table(p[k].obj[1])
                \/ Table(p[k].obj[1]) \in objs
                \/ \E j \in 1 .. k - 1 : p[j].obj = Table(p[k].obj[1])
    PROVE  Takes(r, objs, a, objs \cup Made(r), on)
<1>1. Made(r) = Objs(p)
  BY DEF Made, Objs, Members
<1>2. Runs(p, Db(objs, TRUE, a), Db(objs \cup Objs(p), TRUE, a), on)
  BY SafeRun
<1> QED
  BY <1>1, <1>2, GoodAdds DEF Takes

\* No revision is refused on a database its down_revisions have upgraded, and what it leaves
\* can be upgraded further.
LEMMA RevisionTakes ==
    ASSUME NEW objs, NEW a, NEW r, NEW on, Good(objs, a), r \in Revisions, r \notin a,
           DownRevision[r] \subseteq a
    PROVE  \E objs2 : Takes(r, objs, a, objs2, on)
<1>0. r # "r0001_baseline" /\ "r0001_baseline" \in a /\ "r0001_baseline" \in Revisions
  BY TheRevisions DEF Good
<1>1. Table("runs") \in objs
  BY <1>0, AfterSalesTables, MadeIsThere DEF Table, SeqIndex
<1>2. "r0004_after_sales" \in a =>
        Table("service_cases") \in objs /\ Table("action_requests") \in objs /\ Table("case_events") \in objs
  BY AfterSalesTables, MadeIsThere DEF Table, SeqIndex
<1>3. CASE r = "r0002_runs_token_usage"
  <2>1. PICK c : c = <<"runs", "token_usage_by_model">>
    OBVIOUS
  <2>2. PICK p : p = RunsTokenUsage
    OBVIOUS
  <2>3. IsProg(p) /\ Len(p) = 2
    BY <2>2, Tuples DEF RunsTokenUsage, Rebuild
  <2>4. \A k \in 1 .. 2 : p[k].kind # "discard" /\ p[k].obj = c
    BY <2>1, <2>2 DEF RunsTokenUsage, Rebuild
  <2>5. Made(r) = {c}
    <3>1. Members(p) = {p[1], p[2]}
      BY <2>3 DEF Members
    <3>2. p[1].kind # "discard" /\ p[1].obj = c /\ p[2].kind # "discard" /\ p[2].obj = c
      BY <2>4
    <3>3. Upgrades[r] = p
      BY <1>3, <2>2, TheRevisions
    <3> QED
      BY <3>1, <3>2, <3>3 DEF Made
  <2>6. CASE c \in objs
    <3>1. Returns(r, objs)
      BY <1>3, <2>1, <2>6 DEF Returns
    <3>2. Good(objs, a \cup {r})
      BY <1>3, <2>5, <2>6, GoodHas
    <3> QED
      BY <3>1, <3>2, RunsNone DEF Takes
  <2>7. CASE c \notin objs
    <3>1. ~ Returns(r, objs)
      BY <1>1, <1>3, <2>1, <2>7 DEF Returns
    <3>2. NoCopies(objs)
      BY DEF Good
    <3>3. Runs(p, Db(objs, TRUE, a), Db(objs \cup {c}, TRUE, a), on)
      BY <2>1, <2>2, <3>2, RebuildRun DEF RunsTokenUsage
    <3>4. Good(objs \cup {c}, a \cup {r})
      BY <1>3, <2>5, GoodAdds
    <3>5. Upgrades[r] = p
      BY <1>3, <2>2, TheRevisions
    <3> QED
      BY <3>1, <3>3, <3>4, <3>5 DEF Takes
  <2> QED
    BY <2>6, <2>7
<1>4. CASE r = "r0003_scheduled_tasks"
  <2>1. PICK b, c, d, e : /\ b = <<"scheduled_tasks", "table">> /\ c = <<"scheduled_tasks", "ix">>
                          /\ d = <<"scheduled_task_runs", "table">> /\ e = <<"scheduled_task_runs", "ix">>
    OBVIOUS
  <2>2. b # c /\ b # d /\ b # e /\ c # d /\ c # e /\ d # e
    BY <2>1
  <2>3. PICK p : p = ScheduledTasks
    OBVIOUS
  <2>4. IsProg(p) /\ Len(p) = 4
    BY <2>3, Tuples DEF ScheduledTasks
  <2>5. /\ p[1] = Create("scheduled_tasks", "table") /\ p[2] = Create("scheduled_tasks", "ix")
        /\ p[3] = Create("scheduled_task_runs", "table") /\ p[4] = Create("scheduled_task_runs", "ix")
    BY <2>3 DEF ScheduledTasks
  <2>6. Upgrades[r] = p
    BY <1>4, <2>3, TheRevisions
  <2>7. Made(r) = {b, c, d, e}
    <3>1. Members(p) = {p[1], p[2], p[3], p[4]}
      BY <2>4 DEF Members
    <3>2. /\ p[1].kind # "discard" /\ p[2].kind # "discard" /\ p[3].kind # "discard" /\ p[4].kind # "discard"
          /\ p[1].obj = b /\ p[2].obj = c /\ p[3].obj = d /\ p[4].obj = e
      BY <2>1, <2>5 DEF Create
    <3> QED
      BY <2>6, <3>1, <3>2 DEF Made
  <2>8. CASE b \in objs
    <3>1. Returns(r, objs)
      BY <1>4, <2>1, <2>8 DEF Returns, Table
    <3>2. Made(r) \subseteq objs
      BY <1>4, <2>7, <2>8 DEF Good, TasksWhole, TaskObjects
    <3>3. Good(objs, a \cup {r})
      BY <1>4, <3>2, GoodHas
    <3> QED
      BY <3>1, <3>3, RunsNone DEF Takes
  <2>9. CASE b \notin objs
    <3>1. ~ Returns(r, objs)
      BY <1>4, <2>1, <2>9 DEF Returns, Table
    <3>2. c \notin objs /\ d \notin objs /\ e \notin objs
      BY <1>4, <2>7, <2>9 DEF Good, TasksWhole, TaskObjects
    <3>3. PICK o1, o2, o3, o4 : /\ o1 = objs \cup {b} /\ o2 = o1 \cup {c} /\ o3 = o2 \cup {d}
                                /\ o4 = o3 \cup {e}
      OBVIOUS
    <3>4. c \notin o1 /\ d \notin o2 /\ e \notin o3 /\ o4 = objs \cup Made(r)
      BY <2>2, <2>7, <2>9, <3>2, <3>3
    <3>5. Runs(<<p[1]>>, Db(objs, TRUE, a), Db(o1, TRUE, a), on)
      BY <2>1, <2>5, <2>9, <3>3, CreateRun
    <3>6. Runs(<<p[2]>>, Db(o1, TRUE, a), Db(o2, TRUE, a), on)
      BY <2>1, <2>5, <3>3, <3>4, CreateRun
    <3>7. Runs(<<p[3]>>, Db(o2, TRUE, a), Db(o3, TRUE, a), on)
      BY <2>1, <2>5, <3>3, <3>4, CreateRun
    <3>8. Runs(<<p[4]>>, Db(o3, TRUE, a), Db(o4, TRUE, a), on)
      BY <2>1, <2>5, <3>3, <3>4, CreateRun
    <3>9. Runs(<<p[1]>> \o <<p[2]>>, Db(objs, TRUE, a), Db(o2, TRUE, a), on)
      BY <3>5, <3>6, RunsConcat
    <3>10. Runs(<<p[3]>> \o <<p[4]>>, Db(o2, TRUE, a), Db(o4, TRUE, a), on)
      BY <3>7, <3>8, RunsConcat
    <3>11. Runs(<<p[1], p[2]>>, Db(objs, TRUE, a), Db(o2, TRUE, a), on)
      BY <3>9, OneAndOne
    <3>12. Runs(<<p[3], p[4]>>, Db(o2, TRUE, a), Db(o4, TRUE, a), on)
      BY <3>10, OneAndOne
    <3>13. Runs(<<p[1], p[2]>> \o <<p[3], p[4]>>, Db(objs, TRUE, a), Db(o4, TRUE, a), on)
      BY <3>11, <3>12, RunsConcat
    <3>14. <<p[1], p[2]>> \o <<p[3], p[4]>> = p
      BY <2>3, <2>5, TwoAndTwo DEF ScheduledTasks
    <3>15. Runs(p, Db(objs, TRUE, a), Db(o4, TRUE, a), on)
      BY <3>13, <3>14
    <3>16. Good(o4, a \cup {r})
      BY <1>4, <3>4, GoodAdds
    <3> QED
      BY <2>6, <3>1, <3>15, <3>16 DEF Takes
  <2> QED
    BY <2>8, <2>9
<1>5. CASE r = "r0004_after_sales"
  <2>1. PICK p : p = AfterSales
    OBVIOUS
  <2>2. IsProg(p) /\ Len(p) = 6
    BY <2>1, Tuples DEF AfterSales
  <2>3. p = Upgrades[r]
    BY <1>5, <2>1, TheRevisions
  <2>4. \A k \in 1 .. 6 :
          /\ p[k].kind = "safe"
          /\ \/ p[k].obj = Table(p[k].obj[1])
             \/ Table(p[k].obj[1]) \in objs
             \/ \E j \in 1 .. k - 1 : p[j].obj = Table(p[k].obj[1])
    BY <2>1 DEF AfterSales, Safe, Table
  <2>5. ~ Returns(r, objs)
    BY <1>5 DEF Returns
  <2>6. Takes(r, objs, a, objs \cup Made(r), on)
    BY <1>5, <2>2, <2>3, <2>4, <2>5, SafeRevision
  <2> QED
    BY <2>6
<1>6. CASE r = "r0005_action_active"
  <2>0. Table("action_requests") \in objs /\ Table("case_events") \in objs
    BY <1>2, <1>6, Lineage
  <2>1. PICK p : p = ActionActive
    OBVIOUS
  <2>2. IsProg(p) /\ Len(p) = 1
    BY <2>1, Tuples DEF ActionActive
  <2>3. p = Upgrades[r]
    BY <1>6, <2>1, TheRevisions
  <2>4. \A k \in 1 .. 1 :
          /\ p[k].kind = "safe"
          /\ \/ p[k].obj = Table(p[k].obj[1])
             \/ Table(p[k].obj[1]) \in objs
             \/ \E j \in 1 .. k - 1 : p[j].obj = Table(p[k].obj[1])
    BY <2>0, <2>1 DEF ActionActive, Safe, Table
  <2>5. ~ Returns(r, objs)
    BY <2>0, <1>6 DEF Returns
  <2>6. Takes(r, objs, a, objs \cup Made(r), on)
    BY <1>6, <2>2, <2>3, <2>4, <2>5, SafeRevision
  <2> QED
    BY <2>6
<1>7. CASE r = "r0006_action_approvers"
  <2>0. Table("action_requests") \in objs /\ Table("case_events") \in objs
    BY <1>2, <1>7, Lineage
  <2>1. PICK p : p = ActionApprovers
    OBVIOUS
  <2>2. IsProg(p) /\ Len(p) = 2
    BY <2>1, Tuples DEF ActionApprovers
  <2>3. p = Upgrades[r]
    BY <1>7, <2>1, TheRevisions
  <2>4. \A k \in 1 .. 2 :
          /\ p[k].kind = "safe"
          /\ \/ p[k].obj = Table(p[k].obj[1])
             \/ Table(p[k].obj[1]) \in objs
             \/ \E j \in 1 .. k - 1 : p[j].obj = Table(p[k].obj[1])
    BY <2>0, <2>1 DEF ActionApprovers, Safe, Table
  <2>5. ~ Returns(r, objs)
    BY <2>0, <1>7 DEF Returns
  <2>6. Takes(r, objs, a, objs \cup Made(r), on)
    BY <1>7, <2>2, <2>3, <2>4, <2>5, SafeRevision
  <2> QED
    BY <2>6
<1>8. CASE r = "r0006_idempotency"
  <2>1. PICK p : p = Idempotency
    OBVIOUS
  <2>2. IsProg(p) /\ Len(p) = 2
    BY <2>1, Tuples DEF Idempotency
  <2>3. p = Upgrades[r]
    BY <1>8, <2>1, TheRevisions
  <2>4. \A k \in 1 .. 2 :
          /\ p[k].kind = "safe"
          /\ \/ p[k].obj = Table(p[k].obj[1])
             \/ Table(p[k].obj[1]) \in objs
             \/ \E j \in 1 .. k - 1 : p[j].obj = Table(p[k].obj[1])
    BY <2>1 DEF Idempotency, Safe, Table
  <2>5. ~ Returns(r, objs)
    BY <1>8 DEF Returns
  <2>6. Takes(r, objs, a, objs \cup Made(r), on)
    BY <1>8, <2>2, <2>3, <2>4, <2>5, SafeRevision
  <2> QED
    BY <2>6
<1>9. CASE r = "r0007_hash_chain"
  <2>0. Table("action_requests") \in objs /\ Table("case_events") \in objs
    BY <1>2, <1>9, Lineage
  <2>1. PICK p : p = HashChain
    OBVIOUS
  <2>2. IsProg(p) /\ Len(p) = 2
    BY <2>1, Tuples DEF HashChain
  <2>3. p = Upgrades[r]
    BY <1>9, <2>1, TheRevisions
  <2>4. \A k \in 1 .. 2 :
          /\ p[k].kind = "safe"
          /\ \/ p[k].obj = Table(p[k].obj[1])
             \/ Table(p[k].obj[1]) \in objs
             \/ \E j \in 1 .. k - 1 : p[j].obj = Table(p[k].obj[1])
    BY <2>0, <2>1 DEF HashChain, Safe, Table
  <2>5. ~ Returns(r, objs)
    BY <2>0, <1>9 DEF Returns
  <2>6. Takes(r, objs, a, objs \cup Made(r), on)
    BY <1>9, <2>2, <2>3, <2>4, <2>5, SafeRevision
  <2> QED
    BY <2>6
<1>10. CASE r = "r0007_tool_call_audit"
  <2>1. PICK p : p = ToolCallAudit
    OBVIOUS
  <2>2. IsProg(p) /\ Len(p) = 2
    BY <2>1, Tuples DEF ToolCallAudit
  <2>3. p = Upgrades[r]
    BY <1>10, <2>1, TheRevisions
  <2>4. \A k \in 1 .. 2 :
          /\ p[k].kind = "safe"
          /\ \/ p[k].obj = Table(p[k].obj[1])
             \/ Table(p[k].obj[1]) \in objs
             \/ \E j \in 1 .. k - 1 : p[j].obj = Table(p[k].obj[1])
    BY <2>1 DEF ToolCallAudit, Safe, Table
  <2>5. ~ Returns(r, objs)
    BY <1>10 DEF Returns
  <2>6. Takes(r, objs, a, objs \cup Made(r), on)
    BY <1>10, <2>2, <2>3, <2>4, <2>5, SafeRevision
  <2> QED
    BY <2>6
<1>11. CASE r = "r0008_action_reserved"
  <2>0. Table("action_requests") \in objs /\ Table("case_events") \in objs
    BY <1>2, <1>11, Lineage
  <2>1. PICK p : p = ActionReserved
    OBVIOUS
  <2>2. IsProg(p) /\ Len(p) = 1
    BY <2>1, Tuples DEF ActionReserved
  <2>3. p = Upgrades[r]
    BY <1>11, <2>1, TheRevisions
  <2>4. \A k \in 1 .. 1 :
          /\ p[k].kind = "safe"
          /\ \/ p[k].obj = Table(p[k].obj[1])
             \/ Table(p[k].obj[1]) \in objs
             \/ \E j \in 1 .. k - 1 : p[j].obj = Table(p[k].obj[1])
    BY <2>0, <2>1 DEF ActionReserved, Safe, Table
  <2>5. ~ Returns(r, objs)
    BY <2>0, <1>11 DEF Returns
  <2>6. Takes(r, objs, a, objs \cup Made(r), on)
    BY <1>11, <2>2, <2>3, <2>4, <2>5, SafeRevision
  <2> QED
    BY <2>6
<1>12. CASE r = "r0009_event_seq"
  <2>0. Table("action_requests") \in objs /\ Table("case_events") \in objs
    BY <1>2, <1>12, Lineage
  <2>1. PICK p : p = EventSeq
    OBVIOUS
  <2>2. IsProg(p) /\ Len(p) = 2
    BY <2>1, Tuples DEF EventSeq
  <2>3. p = Upgrades[r]
    BY <1>12, <2>1, TheRevisions
  <2>4. \A k \in 1 .. 2 :
          /\ p[k].kind = "safe"
          /\ \/ p[k].obj = Table(p[k].obj[1])
             \/ Table(p[k].obj[1]) \in objs
             \/ \E j \in 1 .. k - 1 : p[j].obj = Table(p[k].obj[1])
    BY <2>0, <2>1 DEF EventSeq, Safe, Table
  <2>5. ~ Returns(r, objs)
    BY <2>0, <1>12 DEF Returns
  <2>6. Takes(r, objs, a, objs \cup Made(r), on)
    BY <1>12, <2>2, <2>3, <2>4, <2>5, SafeRevision
  <2> QED
    BY <2>6
<1>13. CASE r = "r0010_knowledge_health"
  <2>1. PICK p : p = KnowledgeHealth
    OBVIOUS
  <2>2. IsProg(p) /\ Len(p) = 1
    BY <2>1, Tuples DEF KnowledgeHealth
  <2>3. p = Upgrades[r]
    BY <1>13, <2>1, TheRevisions
  <2>4. \A k \in 1 .. 1 :
          /\ p[k].kind = "safe"
          /\ \/ p[k].obj = Table(p[k].obj[1])
             \/ Table(p[k].obj[1]) \in objs
             \/ \E j \in 1 .. k - 1 : p[j].obj = Table(p[k].obj[1])
    BY <2>1 DEF KnowledgeHealth, Safe, Table
  <2>5. ~ Returns(r, objs)
    BY <1>13 DEF Returns
  <2>6. Takes(r, objs, a, objs \cup Made(r), on)
    BY <1>13, <2>2, <2>3, <2>4, <2>5, SafeRevision
  <2> QED
    BY <2>6
<1>14. CASE r = "r0011_event_seq_unique"
  <2>1. PICK u : u = <<"case_events", "uq_case_events_case_id_seq">>
    OBVIOUS
  <2>2. Table("case_events") \in objs
    BY <1>2, <1>14, Lineage
  <2>3. PICK s1, s2 : s1 = Discard("case_events", "uq_seq") /\ s2 = Safe("case_events", "uq_case_events_case_id_seq")
    OBVIOUS
  <2>4. s1.kind = "discard" /\ s1.obj = SeqIndex /\ s2.kind = "safe" /\ s2.obj = u
    BY <2>1, <2>3 DEF Discard, Safe, SeqIndex
  <2>5. Upgrades[r] = <<s1, s2>>
    BY <1>14, <2>3, TheRevisions DEF EventSeqUnique
  <2>6. Made(r) = {u}
    <3>1. Members(<<s1, s2>>) = {s1, s2}
      BY Tuples DEF Members
    <3> QED
      BY <2>4, <2>5, <3>1 DEF Made
  <2>7. u # SeqIndex /\ u[1] = "case_events" /\ u[2] # "alembic_tmp"
    BY <2>1 DEF SeqIndex
  <2>8. PICK o1, o2 : o1 = objs \ {SeqIndex} /\ o2 = o1 \cup {u}
    OBVIOUS
  <2>9. Table(u[1]) \in o1
    BY <2>2, <2>7, <2>8 DEF Table, SeqIndex
  <2>14. Runs(<<s1>>, Db(objs, TRUE, a), Db(o1, TRUE, a), on)
    BY <2>4, <2>8, DiscardRun
  <2>11. o2 = IF SafeSkips(s2.obj, o1) THEN o1 ELSE o1 \cup {s2.obj}
    BY <2>4, <2>8, <2>9 DEF SafeSkips
  <2>15. Runs(<<s2>>, Db(o1, TRUE, a), Db(o2, TRUE, a), on)
    BY <2>4, <2>11, OneSafeRun
  <2>16. Runs(<<s1>> \o <<s2>>, Db(objs, TRUE, a), Db(o2, TRUE, a), on)
    BY <2>14, <2>15, RunsConcat
  <2>17. ~ Returns(r, objs)
    BY <1>14, <2>2 DEF Returns
  <2>18. Good(o2, a \cup {r})
    <3>1. NoCopies(o2)
      BY <2>7, <2>8 DEF Good, NoCopies
    <3>2. TasksWhole(o2)
      <4>1. \A x \in TaskObjects : x # SeqIndex /\ x # u
        <5>1. "r0003_scheduled_tasks" \in Revisions
          BY TheRevisions
        <5>2. \A x \in TaskObjects : x[1] # "case_events"
          BY <5>1, MadeShaped DEF TaskObjects
        <5> QED
          BY <2>7, <5>2 DEF SeqIndex
      <4> QED
        BY <2>8, <4>1 DEF Good, TasksWhole
    <3>3. a \cup {r} \subseteq Revisions /\ DownClosed(a \cup {r}) /\ "r0001_baseline" \in a \cup {r}
      BY DEF Good, DownClosed
    <3>4. SeqIndex \notin o2
      BY <2>7, <2>8
    <3>5. ASSUME NEW x \in a \cup {r}, NEW o \in Made(x), o # SeqIndex
          PROVE  o \in o2
      BY <2>6, <2>8, <3>5, MadeIsThere
    <3> QED
      BY <1>14, <3>1, <3>2, <3>3, <3>4, <3>5 DEF Good
  <2> QED
    BY <2>5, <2>16, <2>17, <2>18, OneAndOne DEF Takes
<1>15. CASE r = "r0012_case_intake"
  <2>1. PICK c : c = <<"service_cases", "nullable_order_and_issue">>
    OBVIOUS
  <2>2. Table("service_cases") \in objs
    BY <1>2, <1>15, Lineage
  <2>3. PICK p : p = Rebuild("service_cases", "nullable_order_and_issue")
    OBVIOUS
  <2>4. PICK q : q = <<Safe("service_cases", "complaint_text"), Safe("service_cases", "customer_expectation"),
                       Safe("service_cases", "next_step"), Safe("service_cases", "reply_draft")>>
    OBVIOUS
  <2>5. Upgrades[r] = p \o q
    BY <1>15, <2>3, <2>4, TheRevisions DEF CaseIntake
  <2>6. IsProg(p) /\ Len(p) = 2 /\ IsProg(q) /\ Len(q) = 4
    BY <2>3, <2>4, Tuples DEF Rebuild
  <2>7. \A k \in 1 .. 2 : p[k].kind # "discard" /\ p[k].obj = c
    BY <2>1, <2>3 DEF Rebuild
  <2>8. \A k \in 1 .. 4 : q[k].kind = "safe" /\ q[k].obj[1] = "service_cases"
    BY <2>4 DEF Safe
  <2>9. NoCopies(objs)
    BY DEF Good
  <2>10. Runs(p, Db(objs, TRUE, a), Db(objs \cup {c}, TRUE, a), on)
    BY <2>1, <2>3, <2>9, RebuildRun
  <2>11. Runs(q, Db(objs \cup {c}, TRUE, a), Db((objs \cup {c}) \cup Objs(q), TRUE, a), on)
    BY <2>2, <2>6, <2>8, SafeRun
  <2>12. Runs(p \o q, Db(objs, TRUE, a), Db((objs \cup {c}) \cup Objs(q), TRUE, a), on)
    BY <2>10, <2>11, RunsConcat
  <2>13. Made(r) = {c} \cup Objs(q)
    <3>1. PICK m : m = p \o q
      OBVIOUS
    <3>2. PICK S : p \in Seq(S) /\ q \in Seq(S)
      <4>1. PICK S1 : p \in Seq(S1)
        BY <2>6 DEF IsProg
      <4>2. PICK S2 : q \in Seq(S2)
        BY <2>6 DEF IsProg
      <4>3. p \in Seq(S1 \cup S2) /\ q \in Seq(S1 \cup S2)
        BY <4>1, <4>2
      <4> QED
        BY <4>3
    <3>3. /\ Len(m) = 6 /\ \A k \in 1 .. 2 : m[k] = p[k]
          /\ \A k \in 3 .. 6 : m[k] = q[k - 2]
      <4>1. PICK i, j \in Nat : i = Len(p) /\ j = Len(q)
        BY <3>2
      <4>2. /\ Len(m) = i + j /\ \A k \in 1 .. i : m[k] = p[k]
            /\ \A k \in i + 1 .. i + j : m[k] = q[k - i]
        BY <3>1, <3>2, <4>1
      <4>3. i = 2 /\ j = 4 /\ i + 1 = 3 /\ i + j = 6
        BY <2>6, <4>1
      <4> QED
        BY <4>2, <4>3
    <3>4. /\ Members(m) = {m[1], m[2], m[3], m[4], m[5], m[6]}
          /\ Objs(q) = {q[1].obj, q[2].obj, q[3].obj, q[4].obj}
      BY <2>6, <3>3 DEF Members, Objs
    <3>5. /\ m[1].kind # "discard" /\ m[1].obj = c /\ m[2].kind # "discard" /\ m[2].obj = c
          /\ m[3] = q[1] /\ m[4] = q[2] /\ m[5] = q[3] /\ m[6] = q[4]
      <4>1. 3 - 2 = 1 /\ 4 - 2 = 2 /\ 5 - 2 = 3 /\ 6 - 2 = 4
        OBVIOUS
      <4> QED
        BY <2>7, <3>3, <4>1
    <3>6. q[1].kind # "discard" /\ q[2].kind # "discard" /\ q[3].kind # "discard" /\ q[4].kind # "discard"
      BY <2>8
    <3>7. \A s \in Members(m) : s.kind # "discard"
      BY <3>4, <3>5, <3>6
    <3>8. Made(r) = {s.obj : s \in Members(m)}
      BY <2>5, <3>1, <3>7 DEF Made
    <3>9. Members(m) = {m[1], m[2], q[1], q[2], q[3], q[4]}
      BY <3>4, <3>5
    <3> QED
      BY <3>4, <3>5, <3>8, <3>9
  <2>14. (objs \cup {c}) \cup Objs(q) = objs \cup Made(r)
    BY <2>13
  <2>15. ~ Returns(r, objs)
    BY <1>15, <2>2 DEF Returns
  <2>16. Good(objs \cup Made(r), a \cup {r})
    BY <1>15, GoodAdds
  <2> QED
    BY <2>5, <2>12, <2>14, <2>15, <2>16 DEF Takes
<1> QED
  BY <1>0, <1>3, <1>4, <1>5, <1>6, <1>7, <1>8, <1>9, <1>10, <1>11, <1>12, <1>13, <1>14, <1>15, TheRevisions

\* create_all makes each missing table with all that belongs to it.
Makes(tables, o) == {x \in Metadata : x[1] \in tables /\ Table(x[1]) \notin o}

\* The objects of the metadata are of its tables.
LEMMA MetadataTables ==
    ASSUME NEW x \in Metadata
    PROVE  x[1] \in Members(ImportOrder) /\ x[2] # "alembic_tmp" /\ x # SeqIndex /\ x[1] \in Tables
<1>1. PICK r \in Revisions : x \in Made(r)
  BY DEF Metadata, MadeBy
<1>2. x # SeqIndex
  <2>1. "r0011_event_seq_unique" \in Revisions
    BY TheRevisions
  <2>2. ASSUME NEW R, "r0011_event_seq_unique" \in R
        PROVE  SeqIndex \notin MadeBy(R)
    <3>1. PICK E : E = IF "r0011_event_seq_unique" \in R THEN {<<"case_events", "uq_seq">>} ELSE {}
      OBVIOUS
    <3>2. SeqIndex \in E
      BY <2>2, <3>1 DEF SeqIndex
    <3>3. PICK U : U = UNION {Made(v) : v \in R}
      OBVIOUS
    <3>4. MadeBy(R) = U \ E
      BY <3>1, <3>3, Zenon DEF MadeBy
    <3> QED
      BY <3>2, <3>4
  <2> QED
    BY <2>1, <2>2 DEF Metadata
<1>3. x[1] \in Tables
  BY DEF Tables
<1> QED
  BY <1>1, <1>2, <1>3, MadeShaped

\* create_all makes the tables that are missing, each with its parts, and is never refused.
LEMMA CreateAllRun ==
    ASSUME NEW tables, NEW o, NEW t, NEW a, NEW on
    PROVE  /\ Runs(CreateAll(tables, o), Db(o, t, a), Db(o \cup Makes(tables, o), t, a), on)
           /\ \A s \in Members(CreateAll(tables, o)) : s.kind \in {"create_all", "indexes"}
<1>1. PICK K : K = {x \in tables : Table(x) \notin o}
  OBVIOUS
<1>2. PICK ms : ms = Kept(ImportOrder, K)
  OBVIOUS
<1>3. PICK S : ImportOrder \in Seq(S)
  BY TheTables DEF IsProg
<1>4. ms \in Seq(S) /\ Members(ms) = Members(ImportOrder) \cap K /\ Distinct(ms)
  BY <1>2, <1>3, KeptProperties, TheTables
<1>5. PICK n \in Nat : n = Len(ms)
  BY <1>4
<1>6. PICK p : p = CreateAll(tables, o)
  OBVIOUS
<1> DEFINE Tab(u) == [kind |-> "create_all", obj |-> Table(u)]
           Ind(u) == [kind |-> "indexes", obj |-> Table(u)]
<1>7. p = [k \in 1 .. 2 * n |-> IF k % 2 = 1 THEN Tab(ms[(k + 1) \div 2]) ELSE Ind(ms[k \div 2])]
  <2>1. CreateAll(tables, o)
          = [k \in 1 .. 2 * Len(Kept(ImportOrder, {x \in tables : Table(x) \notin o})) |->
               IF k % 2 = 1
               THEN [kind |-> "create_all",
                     obj |-> Table(Kept(ImportOrder, {x \in tables : Table(x) \notin o})[(k + 1) \div 2])]
               ELSE [kind |-> "indexes",
                     obj |-> Table(Kept(ImportOrder, {x \in tables : Table(x) \notin o})[k \div 2])]]
    BY Zenon DEF CreateAll, ForEach
  <2>2. CreateAll(tables, o)
          = [k \in 1 .. 2 * Len(ms) |->
               IF k % 2 = 1 THEN Tab(ms[(k + 1) \div 2]) ELSE Ind(ms[k \div 2])]
    BY <1>1, <1>2, <2>1, Zenon
  <2> QED
    BY <1>5, <1>6, <2>2, Zenon
<1> DEFINE Part(i, k) == {x \in Metadata : /\ x[1] = ms[i]
                                           /\ \/ 2 * i - 1 <= k /\ x[2] \notin Indexes
                                              \/ 2 * i <= k /\ x[2] \in Indexes}
           At(k) == o \cup UNION {Part(i, k) : i \in 1 .. n}
<1>8. \A k : \A x : x \in At(k) <=> x \in o \/ \E i \in 1 .. n : x \in Part(i, k)
  OBVIOUS
<1>9. ASSUME NEW k \in 1 .. 2 * n
      PROVE  ~ Refused(p[k], Db(At(k - 1), t, a), on) /\ Db(At(k), t, a) = Effect(p[k], Db(At(k - 1), t, a), on)
  <2>1. CASE k % 2 = 1
    <3>1. PICK i \in 1 .. n : i = (k + 1) \div 2 /\ k = 2 * i - 1
      BY <2>1
    <3>2. PICK u : u = ms[i]
      OBVIOUS
    <3>3. p[k] = Tab(u)
      BY <1>7, <2>1, <3>1, <3>2
    <3>4. p[k].kind = "create_all" /\ p[k].obj = Table(u)
      BY <3>3
    <3>5. Table(u)[1] = u /\ Table(u)[2] = "table" /\ "table" \notin Indexes
      BY DEF Table, Indexes
    <3>6. \A j \in 1 .. n : ms[j] = u => j = i
      BY <1>5, <3>2, <1>4 DEF Distinct
    <3>7. Table(u) \notin o
      <4>1. u \in Members(ms)
        BY <1>5, <3>2 DEF Members
      <4> QED
        BY <1>1, <1>4, <4>1
    <3>8. Table(u) \notin At(k - 1)
      <4>1. ASSUME NEW j \in 1 .. n, Table(u) \in Part(j, k - 1)
            PROVE  FALSE
        <5>1. ms[j] = u /\ 2 * j - 1 <= k - 1
          BY <3>5, <4>1
        <5> QED
          BY <3>1, <3>6, <5>1
      <4> HIDE DEF At, Part
      <4> QED
        BY <1>8, <3>7, <4>1
    <3>9. At(k) = At(k - 1) \cup {x \in Metadata : x[1] = u /\ x[2] \notin Indexes}
      <4>1. \A j \in 1 .. n : j # i => Part(j, k) = Part(j, k - 1)
        <5>1. ASSUME NEW j \in 1 .. n, j # i
              PROVE  (2 * j - 1 <= k <=> 2 * j - 1 <= k - 1) /\ (2 * j <= k <=> 2 * j <= k - 1)
          BY <3>1, <5>1
        <5> QED
          BY <5>1
      <4>2. Part(i, k) = Part(i, k - 1) \cup {x \in Metadata : x[1] = u /\ x[2] \notin Indexes}
        <5>1. 2 * i - 1 <= k /\ ~ (2 * i <= k) /\ ~ (2 * i <= k - 1) /\ ~ (2 * i - 1 <= k - 1)
          BY <3>1
        <5> QED
          BY <3>2, <5>1
      <4> HIDE DEF Part, At
      <4>3. \A x : x \in At(k) <=> x \in At(k - 1) \/ x \in {y \in Metadata : y[1] = u /\ y[2] \notin Indexes}
        BY <1>8, <4>1, <4>2
      <4> QED
        BY <4>3
    <3> HIDE DEF At, Part
    <3>10. ~ Refused(p[k], Db(At(k - 1), t, a), on)
      BY <3>4, <3>8 DEF Refused, Db
    <3>11. Effect(p[k], Db(At(k - 1), t, a), on)
             = Db(At(k - 1) \cup {x \in Metadata : x[1] = p[k].obj[1] /\ x[2] \notin Indexes}, t, a)
      BY <3>4, EffectCreateAll
    <3>12. p[k].obj[1] = u
      BY <3>4, <3>5
    <3> QED
      BY <3>9, <3>10, <3>11, <3>12
  <2>2. CASE k % 2 # 1
    <3>1. PICK i \in 1 .. n : i = k \div 2 /\ k = 2 * i
      BY <2>2
    <3>2. PICK u : u = ms[i]
      OBVIOUS
    <3>3. p[k] = Ind(u)
      BY <1>7, <2>2, <3>1, <3>2
    <3>4. p[k].kind = "indexes" /\ p[k].obj = Table(u)
      BY <3>3
    <3>5. Table(u)[1] = u
      BY DEF Table
    <3>9. At(k) = At(k - 1) \cup {x \in Metadata : x[1] = u /\ x[2] \in Indexes}
      <4>1. \A j \in 1 .. n : j # i => Part(j, k) = Part(j, k - 1)
        <5>1. ASSUME NEW j \in 1 .. n, j # i
              PROVE  (2 * j - 1 <= k <=> 2 * j - 1 <= k - 1) /\ (2 * j <= k <=> 2 * j <= k - 1)
          BY <3>1, <5>1
        <5> QED
          BY <5>1
      <4>2. Part(i, k) = Part(i, k - 1) \cup {x \in Metadata : x[1] = u /\ x[2] \in Indexes}
        <5>1. 2 * i - 1 <= k /\ 2 * i <= k /\ ~ (2 * i <= k - 1) /\ 2 * i - 1 <= k - 1
          BY <3>1
        <5> QED
          BY <3>2, <5>1
      <4> HIDE DEF Part, At
      <4>3. \A x : x \in At(k) <=> x \in At(k - 1) \/ x \in {y \in Metadata : y[1] = u /\ y[2] \in Indexes}
        BY <1>8, <4>1, <4>2
      <4> QED
        BY <4>3
    <3> HIDE DEF At, Part
    <3>10. ~ Refused(p[k], Db(At(k - 1), t, a), on)
      BY <3>4 DEF Refused
    <3>11. Effect(p[k], Db(At(k - 1), t, a), on)
             = Db(At(k - 1) \cup {x \in Metadata : x[1] = p[k].obj[1] /\ x[2] \in Indexes}, t, a)
      BY <3>4, EffectIndexes
    <3>12. p[k].obj[1] = u
      BY <3>4, <3>5
    <3> QED
      BY <3>9, <3>10, <3>11, <3>12
  <2> QED
    BY <2>1, <2>2
<1>10. At(0) = o
  <2>1. ASSUME NEW i \in 1 .. n
        PROVE  Part(i, 0) = {}
    <3>1. ~ (2 * i - 1 <= 0) /\ ~ (2 * i <= 0)
      OBVIOUS
    <3> QED
      BY <3>1
  <2> HIDE DEF At, Part
  <2>2. \A x : x \in At(0) <=> x \in o
    BY <1>8, <2>1
  <2>3. At(0) \subseteq o /\ o \subseteq At(0)
    BY <2>2
  <2> QED
    <3> USE DEF At
    <3> QED
      BY <2>1
<1>11. At(2 * n) = o \cup Makes(tables, o)
  <2>1. ASSUME NEW i \in 1 .. n
        PROVE  Part(i, 2 * n) = {x \in Metadata : x[1] = ms[i]}
    <3>1. 2 * i - 1 <= 2 * n /\ 2 * i <= 2 * n
      OBVIOUS
    <3> QED
      BY <3>1
  <2>2. \A x \in Metadata : x[1] \in Members(ms) <=> x[1] \in tables /\ Table(x[1]) \notin o
    BY <1>1, <1>4, MetadataTables
  <2>3. \A y : y \in Members(ms) <=> \E i \in 1 .. n : y = ms[i]
    BY <1>5 DEF Members
  <2>4. \A x \in Metadata : (\E i \in 1 .. n : x[1] = ms[i]) <=> x[1] \in tables /\ Table(x[1]) \notin o
    BY <2>2, <2>3
  <2>5. \A x : x \in Makes(tables, o) <=> x \in Metadata /\ x[1] \in tables /\ Table(x[1]) \notin o
    BY DEF Makes
  <2>6. \A x : (\E i \in 1 .. n : x \in Part(i, 2 * n)) <=> x \in Makes(tables, o)
    <3> HIDE DEF At
    <3> QED
      BY <2>1, <2>4, <2>5
  <2>7. UNION {Part(i, 2 * n) : i \in 1 .. n} = Makes(tables, o)
    <3> HIDE DEF Part
    <3> QED
      BY <2>6
  <2> QED
    BY <2>7, Zenon
<1>12. IsProg(p) /\ Len(p) = 2 * n
  <2>1. PICK T : T = {p[k] : k \in 1 .. 2 * n}
    OBVIOUS
  <2>2. 2 * n \in Nat
    OBVIOUS
  <2>3. PICK m \in Nat : m = 2 * n
    BY <2>2
  <2>4. p = [k \in 1 .. m |-> p[k]]
    BY <1>7, <2>3
  <2>5. p \in Seq(T) /\ Len(p) = m
    BY <2>1, <2>3, <2>4
  <2> QED
    BY <2>3, <2>5 DEF IsProg
<1>13. \A s \in Members(p) : s.kind \in {"create_all", "indexes"}
  <2>1. ASSUME NEW k \in 1 .. 2 * n
        PROVE  p[k].kind \in {"create_all", "indexes"}
    BY <1>7
  <2> QED
    BY <1>12, <2>1 DEF Members
<1> HIDE DEF At, Part
<1>14. PICK st : st = [k \in 0 .. 2 * n |-> Db(At(k), t, a)]
  OBVIOUS
<1>15. Trace(st, p, Db(o, t, a), Db(o \cup Makes(tables, o), t, a), on)
  <2>1. 0 \in 0 .. 2 * n /\ 2 * n \in 0 .. 2 * n
    OBVIOUS
  <2>2. st[0] = Db(o, t, a) /\ st[2 * n] = Db(o \cup Makes(tables, o), t, a)
    BY <1>10, <1>11, <1>14, <2>1
  <2>3. ASSUME NEW k \in 1 .. 2 * n
        PROVE  ~ Refused(p[k], st[k - 1], on) /\ st[k] = Effect(p[k], st[k - 1], on)
    <3>1. k \in 0 .. 2 * n /\ k - 1 \in 0 .. 2 * n
      OBVIOUS
    <3>2. st[k] = Db(At(k), t, a) /\ st[k - 1] = Db(At(k - 1), t, a)
      BY <1>14, <3>1
    <3> QED
      BY <1>9, <3>2
  <2> QED
    BY <1>12, <2>2, <2>3 DEF Trace
<1> QED
  BY <1>6, <1>12, <1>13, <1>15 DEF Runs

-----------------------------------------------------------------------------
(* The phases *)

\* The phases of each branch, one by one.
LEMMA ThePhases ==
    /\ Phases("empty") # <<>> /\ Tail(Phases("empty")) # <<>> /\ Tail(Tail(Phases("empty"))) = <<>>
    /\ Head(Phases("empty")).do = "create" /\ Head(Phases("empty")).arg = Tables
    /\ Head(Tail(Phases("empty"))).do = "stamp" /\ Head(Tail(Phases("empty"))).arg = Revisions
    /\ Phases("legacy") # <<>> /\ Tail(Phases("legacy")) # <<>>
    /\ Tail(Tail(Phases("legacy"))) = Upgrading
    /\ Head(Phases("legacy")).do = "create" /\ Head(Phases("legacy")).arg = BaselineTables
    /\ Head(Tail(Phases("legacy"))).do = "stamp"
    /\ Head(Tail(Phases("legacy"))).arg = {"r0001_baseline"}
    /\ Phases("versioned") = Upgrading
    /\ Upgrading # <<>> /\ Head(Upgrading).do = "upgrade" /\ Tail(Upgrading) = <<>>
<1>1. PICK a, b, c, d, e : /\ a = [do |-> "create", arg |-> Tables]
                           /\ b = [do |-> "stamp", arg |-> Revisions]
                           /\ c = [do |-> "create", arg |-> BaselineTables]
                           /\ d = [do |-> "stamp", arg |-> {"r0001_baseline"}]
                           /\ e = [do |-> "upgrade", arg |-> {}]
  OBVIOUS
<1>2. /\ a.do = "create" /\ a.arg = Tables /\ b.do = "stamp" /\ b.arg = Revisions
      /\ c.do = "create" /\ c.arg = BaselineTables /\ d.do = "stamp" /\ d.arg = {"r0001_baseline"}
      /\ e.do = "upgrade"
  BY <1>1
<1>3. /\ Phases("empty") = <<a, b>> /\ Phases("legacy") = <<c, d, e>> /\ Phases("versioned") = <<e>>
      /\ Upgrading = <<e>>
  BY <1>1 DEF Phases, Upgrading
<1>4. \A x : <<x>> # <<>> /\ Head(<<x>>) = x /\ Tail(<<x>>) = <<>>
  OBVIOUS
<1>5. \A x, y : <<x, y>> # <<>> /\ Head(<<x, y>>) = x /\ Tail(<<x, y>>) = <<y>>
  OBVIOUS
<1>6. \A x, y, z : <<x, y, z>> # <<>> /\ Head(<<x, y, z>>) = x /\ Tail(<<x, y, z>>) = <<y, z>>
  OBVIOUS
<1>7. PICK p, p1 : p = <<a, b>> /\ p1 = <<b>>
  OBVIOUS
<1>8. p # <<>> /\ Head(p) = a /\ Tail(p) = p1 /\ p1 # <<>> /\ Head(p1) = b /\ Tail(p1) = <<>>
  BY <1>4, <1>5, <1>7
<1>9. PICK q, q1, u : q = <<c, d, e>> /\ q1 = <<d, e>> /\ u = <<e>>
  OBVIOUS
<1>10. /\ q # <<>> /\ Head(q) = c /\ Tail(q) = q1 /\ q1 # <<>> /\ Head(q1) = d /\ Tail(q1) = u
       /\ u # <<>> /\ Head(u) = e /\ Tail(u) = <<>>
  BY <1>4, <1>5, <1>6, <1>9
<1>11. Phases("empty") = p /\ Phases("legacy") = q /\ Phases("versioned") = u /\ Upgrading = u
  BY <1>3, <1>7, <1>9
<1> QED
  BY <1>2, <1>8, <1>10, <1>11

\* The metadata has what any revision makes, but for the dropped index.
LEMMA MetadataHas ==
    ASSUME NEW r \in Revisions, NEW x \in Made(r), x # SeqIndex
    PROVE  x \in Metadata
<1>1. PICK E : E = IF "r0011_event_seq_unique" \in Revisions THEN {<<"case_events", "uq_seq">>} ELSE {}
  OBVIOUS
<1>2. PICK U : U = UNION {Made(v) : v \in Revisions}
  OBVIOUS
<1>3. Metadata = U \ E
  BY <1>1, <1>2, Zenon DEF Metadata, MadeBy
<1>4. x \notin E
  BY <1>1 DEF SeqIndex
<1> QED
  BY <1>2, <1>3, <1>4

\* The baseline and the scheduled tasks are in the metadata, on tables of their own.
LEMMA BaselineMade ==
    /\ "r0001_baseline" \in Revisions /\ "r0003_scheduled_tasks" \in Revisions
    /\ Made("r0001_baseline") \subseteq Metadata /\ TaskObjects \subseteq Metadata
    /\ \A x \in Made("r0001_baseline") :
         x[1] \in BaselineTables /\ (x = Table(x[1]) \/ x = <<x[1], "ix">>)
    /\ \A x \in TaskObjects : x[1] \notin BaselineTables
<1>1. "r0001_baseline" \in Revisions /\ "r0003_scheduled_tasks" \in Revisions
  BY TheRevisions
<1>2. Made("r0001_baseline") \subseteq Metadata
  <2>1. \A x \in Made("r0001_baseline") : x # SeqIndex
    BY <1>1, MadeShaped
  <2> QED
    BY <1>1, <2>1, MetadataHas
<1>3. TaskObjects \subseteq Metadata
  <2>1. \A x \in TaskObjects : x # SeqIndex
    BY <1>1, MadeShaped DEF TaskObjects
  <2> QED
    BY <1>1, <2>1, MetadataHas DEF TaskObjects
<1>4. ASSUME NEW x \in Made("r0001_baseline")
      PROVE  x[1] \in BaselineTables /\ (x = Table(x[1]) \/ x = <<x[1], "ix">>)
  <2>1. PICK s \in Members(Baseline) : x = s.obj
    BY TheRevisions DEF Made
  <2> QED
    BY <2>1, BaselineIs
<1>5. \A x \in TaskObjects : x[1] \notin BaselineTables
  BY <1>1, MadeShaped, TheTables DEF TaskObjects
<1> QED
  BY <1>1, <1>2, <1>3, <1>4, <1>5

\* A database made from the metadata is one a stamp may take over.
LEMMA MetadataIsLegacy == Legacy(Metadata)
<1>1. NoCopies(Metadata)
  BY MetadataTables DEF NoCopies
<1>2. Table("runs") \in Metadata
  BY AfterSalesTables, BaselineMade
<1>3. Table("runs")[1] = "runs"
  BY DEF Table
<1>4. "runs" \in Tables
  BY <1>2, <1>3, MetadataTables
<1> QED
  BY <1>1, <1>2, <1>4, BaselineMade DEF Legacy, TasksWhole

\* A commit at the end of a run changes nothing.
LEMMA AppendCommit ==
    ASSUME NEW p, NEW d, NEW o, NEW t, NEW a, NEW on, Runs(p, d, Db(o, t, a), on)
    PROVE  Runs(Append(p, Commit), d, Db(o, t, a), on)
<1>1. PICK S : p \in Seq(S)
  BY DEF Runs, IsProg
<1>2. PICK c : c = Commit
  OBVIOUS
<1>3. PICK T : T = S \cup {c}
  OBVIOUS
<1>4. p \in Seq(T) /\ c \in T
  BY <1>1, <1>3
<1>5. Append(p, c) = p \o <<c>>
  BY <1>4
<1>6. Runs(p \o <<Commit>>, d, Db(o, t, a), on)
  BY CommitRun, RunsConcat
<1> QED
  BY <1>2, <1>5, <1>6

\* A database without an alembic_version table.
LEMMA UnversionedIs ==
    ASSUME NEW objs
    PROVE  /\ Unversioned(objs) = Db(objs, FALSE, {}) /\ Unversioned(objs).objs = objs
           /\ Unversioned(objs).table = FALSE /\ Unversioned(objs).applied = {}
BY DEF Unversioned, Db

\* What create_all leaves of an old database.
LEMMA LegacyCreated ==
    ASSUME NEW objs, Legacy(objs), NEW o2, o2 = objs \cup Makes(BaselineTables, objs)
    PROVE  Legacy(o2) /\ Made("r0001_baseline") \subseteq o2
<1>1. ASSUME NEW x \in Makes(BaselineTables, objs)
      PROVE  x \in Metadata /\ x[1] \in BaselineTables /\ x[2] # "alembic_tmp" /\ x \notin TaskObjects
  <2>1. x \in Metadata /\ x[1] \in BaselineTables
    BY DEF Makes
  <2> QED
    BY <2>1, MetadataTables, BaselineMade
<1>2. NoCopies(o2)
  BY <1>1 DEF Legacy, NoCopies
<1>3. TasksWhole(o2)
  BY <1>1 DEF Legacy, TasksWhole
<1>4. \E t \in Tables : Table(t) \in o2
  BY DEF Legacy
<1>5. ASSUME NEW x \in Made("r0001_baseline")
      PROVE  x \in o2
  <2>1. CASE Table(x[1]) \in objs
    BY <2>1 DEF Legacy
  <2>2. CASE Table(x[1]) \notin objs
    <3>1. x \in Metadata /\ x[1] \in BaselineTables
      BY BaselineMade
    <3> QED
      BY <2>2, <3>1 DEF Makes
  <2> QED
    BY <2>1, <2>2
<1> QED
  BY <1>2, <1>3, <1>4, <1>5 DEF Legacy

\* The statements p take d to where the phases q can go on.
Reaches(p, d, q, on) == \E e : Runs(p, d, e, on) /\ PhaseReady(e, q)

\* The phase that comes first says what the database is.
LEMMA ReadyFor ==
    ASSUME NEW d, NEW p, PhaseReady(d, p), p # <<>>
    PROVE  /\ Head(p).do = "create" =>
                \/ p = Phases("empty") /\ d = Unversioned({})
                \/ p = Phases("legacy") /\ \E objs : d = Unversioned(objs) /\ Legacy(objs)
           /\ Head(p).do = "stamp" =>
                \/ p = Tail(Phases("empty")) /\ d = Unversioned(Metadata)
                \/ /\ p = Tail(Phases("legacy"))
                   /\ \E objs : d = Unversioned(objs) /\ Legacy(objs)
                                /\ Made("r0001_baseline") \subseteq objs
           /\ Head(p).do = "upgrade" =>
                p = Upgrading /\ \E objs, a : d = Db(objs, TRUE, a) /\ Good(objs, a)
BY ThePhases DEF PhaseReady

\* create_all takes the database to the phase after it.
LEMMA CreateReaches ==
    ASSUME NEW d, NEW p, NEW on, PhaseReady(d, p), p # <<>>, Head(p).do = "create"
    PROVE  Reaches(Append(CreateAll(Head(p).arg, d.objs), Commit), d, Tail(p), on)
<1>1. CASE p = Phases("empty") /\ d = Unversioned({})
  <2>1. Makes(Tables, {}) = Metadata
    BY MetadataTables DEF Makes
  <2>2. Runs(CreateAll(Tables, {}), Db({}, FALSE, {}), Db({} \cup Makes(Tables, {}), FALSE, {}), on)
    BY CreateAllRun
  <2>3. {} \cup Makes(Tables, {}) = Metadata
    BY <2>1
  <2>4. Runs(CreateAll(Tables, {}), Db({}, FALSE, {}), Db(Metadata, FALSE, {}), on)
    BY <2>2, <2>3
  <2>5. Runs(Append(CreateAll(Tables, {}), Commit), Db({}, FALSE, {}), Db(Metadata, FALSE, {}), on)
    BY <2>4, AppendCommit
  <2>6. PhaseReady(Unversioned(Metadata), Tail(p))
    BY <1>1 DEF PhaseReady
  <2>7. Head(p).arg = Tables /\ d.objs = {} /\ d = Db({}, FALSE, {})
    BY <1>1, ThePhases, UnversionedIs
  <2>8. Unversioned(Metadata) = Db(Metadata, FALSE, {})
    BY UnversionedIs
  <2> QED
    BY <2>5, <2>6, <2>7, <2>8 DEF Reaches
<1>2. CASE p = Phases("legacy") /\ \E objs : d = Unversioned(objs) /\ Legacy(objs)
  <2>1. PICK objs : d = Unversioned(objs) /\ Legacy(objs)
    BY <1>2
  <2>2. PICK o2 : o2 = objs \cup Makes(BaselineTables, objs)
    OBVIOUS
  <2>3. Runs(CreateAll(BaselineTables, objs), Db(objs, FALSE, {}), Db(o2, FALSE, {}), on)
    BY <2>2, CreateAllRun
  <2>4. Runs(Append(CreateAll(BaselineTables, objs), Commit), Db(objs, FALSE, {}), Db(o2, FALSE, {}), on)
    BY <2>3, AppendCommit
  <2>5. Legacy(o2) /\ Made("r0001_baseline") \subseteq o2
    BY <2>1, <2>2, LegacyCreated
  <2>6. PhaseReady(Unversioned(o2), Tail(p))
    BY <1>2, <2>5 DEF PhaseReady
  <2>7. Head(p).arg = BaselineTables /\ d.objs = objs /\ d = Db(objs, FALSE, {})
    BY <1>2, <2>1, ThePhases, UnversionedIs
  <2>8. Unversioned(o2) = Db(o2, FALSE, {})
    BY UnversionedIs
  <2> QED
    BY <2>4, <2>6, <2>7, <2>8 DEF Reaches
<1> QED
  BY <1>1, <1>2, ReadyFor

\* The statements of a stamp.
Stamping(R) == <<[kind |-> "version_table", obj |-> NoCaller], [kind |-> "stamp", obj |-> R], Commit>>

\* A stamp records its revisions.
LEMMA StampRun ==
    ASSUME NEW o, NEW t, NEW a, NEW R, NEW on
    PROVE  Runs(Stamping(R), Db(o, t, a), Db(o, TRUE, R), on)
<1>1. PICK s1, s2, s3 : /\ s1 = [kind |-> "version_table", obj |-> NoCaller]
                        /\ s2 = [kind |-> "stamp", obj |-> R] /\ s3 = Commit
  OBVIOUS
<1>2. s1.kind = "version_table" /\ s2.kind = "stamp" /\ s2.obj = R
  BY <1>1
<1>3. ~ Refused(s1, Db(o, t, a), on) /\ ~ Refused(s2, Db(o, TRUE, a), on)
  BY <1>2 DEF Refused
<1>5. PICK y : y = TRUE
  OBVIOUS
<1>4. Effect(s1, Db(o, t, a), on) = Db(o, y, a)
  <2>1. PICK d : d = Db(o, t, a)
    OBVIOUS
  <2>2. \A x : [d EXCEPT !.table = x] = Db(o, x, a)
    BY <2>1, DbFields
  <2>3. Effect(s1, d, on) = [d EXCEPT !.table = TRUE]
    BY <1>2 DEF Effect
  <2> QED
    BY <1>5, <2>1, <2>2, <2>3
<1>6. Effect(s2, Db(o, y, a), on) = Db(o, y, R)
  BY <1>2, EffectStamp
<1>7. Runs(<<s1>>, Db(o, t, a), Db(o, TRUE, a), on)
  BY <1>3, <1>4, <1>5, RunsOne
<1>8. Runs(<<s2>>, Db(o, TRUE, a), Db(o, TRUE, R), on)
  BY <1>3, <1>5, <1>6, RunsOne
<1>9. Runs(<<s1>> \o <<s2>>, Db(o, t, a), Db(o, TRUE, R), on)
  BY <1>7, <1>8, RunsConcat
<1>10. Runs(<<s1, s2>>, Db(o, t, a), Db(o, TRUE, R), on)
  BY <1>9, OneAndOne
<1>11. Runs(Append(<<s1, s2>>, Commit), Db(o, t, a), Db(o, TRUE, R), on)
  BY <1>10, AppendCommit
<1>12. Append(<<s1, s2>>, s3) = <<s1, s2, s3>>
  BY TwoAndOne
<1> QED
  BY <1>1, <1>11, <1>12 DEF Stamping

\* The stamp takes the database to the phase after it.
LEMMA StampReaches ==
    ASSUME NEW d, NEW p, NEW on, PhaseReady(d, p), p # <<>>, Head(p).do = "stamp"
    PROVE  Reaches(Stamping(Head(p).arg), d, Tail(p), on)
<1>1. CASE p = Tail(Phases("empty")) /\ d = Unversioned(Metadata)
  <2>1. Good(Metadata, Revisions)
    <3>1. NoCopies(Metadata) /\ TasksWhole(Metadata)
      BY MetadataIsLegacy DEF Legacy
    <3>2. DownClosed(Revisions) /\ "r0001_baseline" \in Revisions /\ "r0011_event_seq_unique" \in Revisions
      BY TheDownRevisions, TheRevisions DEF DownClosed
    <3>3. SeqIndex \notin Metadata
      BY MetadataTables
    <3>4. \A r \in Revisions : \A x \in Made(r) : x \in Metadata \/ x = SeqIndex
      BY MetadataHas
    <3> QED
      BY <3>1, <3>2, <3>3, <3>4 DEF Good
  <2>2. PhaseReady(Db(Metadata, TRUE, Revisions), Tail(p))
    BY <1>1, <2>1, ThePhases DEF PhaseReady
  <2>3. d = Db(Metadata, FALSE, {}) /\ Head(p).arg = Revisions
    BY <1>1, UnversionedIs, ThePhases
  <2>4. Runs(Stamping(Revisions), d, Db(Metadata, TRUE, Revisions), on)
    BY <2>3, StampRun
  <2> QED
    BY <2>2, <2>3, <2>4 DEF Reaches
<1>2. CASE /\ p = Tail(Phases("legacy"))
           /\ \E objs : d = Unversioned(objs) /\ Legacy(objs) /\ Made("r0001_baseline") \subseteq objs
  <2>0. PICK objs : d = Unversioned(objs) /\ Legacy(objs) /\ Made("r0001_baseline") \subseteq objs
    BY <1>2
  <2>1. Good(objs, {"r0001_baseline"})
    BY <2>0, BaselineMade, TheDownRevisions DEF Good, Legacy, DownClosed
  <2>2. PhaseReady(Db(objs, TRUE, {"r0001_baseline"}), Tail(p))
    BY <1>2, <2>1, ThePhases DEF PhaseReady
  <2>3. d = Db(objs, FALSE, {}) /\ Head(p).arg = {"r0001_baseline"}
    BY <1>2, <2>0, UnversionedIs, ThePhases
  <2>4. Runs(Stamping({"r0001_baseline"}), d, Db(objs, TRUE, {"r0001_baseline"}), on)
    BY <2>3, StampRun
  <2> QED
    BY <2>2, <2>3, <2>4 DEF Reaches
<1> QED
  BY <1>1, <1>2, ReadyFor

\* The statements of one revision.
Upgrading1(r, objs, on) ==
    (IF Returns(r, objs) THEN <<>> ELSE Upgrades[r]) \o <<[kind |-> "record", obj |-> {r}]>>
    \o (IF on = "sqlite" THEN <<Commit>> ELSE <<>>)

\* A revision keeps the database ready for the rest of the upgrade.
LEMMA RevisionReaches ==
    ASSUME NEW d, NEW p, NEW on, NEW r \in Revisions, PhaseReady(d, p), p # <<>>, Head(p).do = "upgrade",
           r \notin d.applied, DownRevision[r] \subseteq d.applied
    PROVE  Reaches(Upgrading1(r, d.objs, on), d, p, on)
<1>1. PICK objs, a : p = Upgrading /\ d = Db(objs, TRUE, a) /\ Good(objs, a)
  BY ReadyFor
<1>2. d.objs = objs /\ d.applied = a
  BY <1>1 DEF Db
<1>3. PICK o2 : Takes(r, objs, a, o2, on)
  BY <1>1, <1>2, RevisionTakes
<1>4. PICK body : body = IF Returns(r, objs) THEN <<>> ELSE Upgrades[r]
  OBVIOUS
<1>5. Runs(body, d, Db(o2, TRUE, a), on) /\ Good(o2, a \cup {r})
  BY <1>1, <1>3, <1>4 DEF Takes
<1>6. PICK rec : rec = <<[kind |-> "record", obj |-> {r}]>>
  OBVIOUS
<1>7. Runs(rec, Db(o2, TRUE, a), Db(o2, TRUE, a \cup {r}), on)
  BY <1>6, RecordRun
<1>8. Runs(body \o rec, d, Db(o2, TRUE, a \cup {r}), on)
  BY <1>5, <1>7, RunsConcat
<1>9. PICK end : end = IF on = "sqlite" THEN <<Commit>> ELSE <<>>
  OBVIOUS
<1>10. Runs(end, Db(o2, TRUE, a \cup {r}), Db(o2, TRUE, a \cup {r}), on)
  BY <1>9, CommitRun, RunsNone
<1>11. Runs((body \o rec) \o end, d, Db(o2, TRUE, a \cup {r}), on)
  BY <1>8, <1>10, RunsConcat
<1>12. Upgrading1(r, d.objs, on) = (body \o rec) \o end
  BY <1>2, <1>4, <1>6, <1>9 DEF Upgrading1
<1>13. PhaseReady(Db(o2, TRUE, a \cup {r}), p)
  BY <1>1, <1>5 DEF PhaseReady
<1> QED
  BY <1>11, <1>12, <1>13 DEF Reaches

\* An upgrade with nothing left to apply is over.
LEMMA UpgradedReaches ==
    ASSUME NEW d, NEW p, NEW on, PhaseReady(d, p), p # <<>>, Head(p).do = "upgrade", d.applied = Revisions
    PROVE  Reaches(<<Commit>>, d, Tail(p), on)
<1>1. PICK objs, a : p = Upgrading /\ d = Db(objs, TRUE, a) /\ Good(objs, a)
  BY ReadyFor
<1>2. a = Revisions
  BY <1>1 DEF Db
<1>3. PhaseReady(Db(objs, TRUE, Revisions), Tail(p))
  BY <1>1, <1>2, ThePhases DEF PhaseReady
<1>4. Runs(<<Commit>>, d, Db(objs, TRUE, Revisions), on)
  BY <1>1, <1>2, CommitRun
<1> QED
  BY <1>3, <1>4 DEF Reaches

\* A holder that stops between two phases leaves a database the next one can take over.
LEMMA ReadyRests ==
    ASSUME NEW d, NEW p, PhaseReady(d, p)
    PROVE  /\ Rest(d)
           /\ d.applied = Revisions => p = Upgrading \/ p = <<>>
           /\ p = <<>> => Complete(d)
           /\ IsDb(d)
<1>1. Rest(d)
  BY MetadataIsLegacy DEF PhaseReady, Rest
<1>2. d.applied = Revisions => p = Upgrading \/ p = <<>>
  <2>1. Revisions # {}
    BY TheRevisions
  <2>2. \A objs : Unversioned(objs).applied = {}
    BY UnversionedIs
  <2> QED
    BY <2>1, <2>2 DEF PhaseReady
<1>3. p = <<>> => Complete(d)
  <2>1. SUFFICES ASSUME p = <<>> PROVE Complete(d)
    OBVIOUS
  <2>2. PICK objs : d = Db(objs, TRUE, Revisions) /\ Good(objs, Revisions)
    BY <2>1, ThePhases DEF PhaseReady
  <2>3. d.objs = objs /\ d.applied = Revisions
    BY <2>2 DEF Db
  <2>4. ASSUME NEW x \in Metadata PROVE x \in objs
    <3>1. PICK r \in Revisions : x \in Made(r)
      BY DEF Metadata, MadeBy
    <3> QED
      BY <2>2, <3>1, MadeIsThere, MetadataTables
  <2>5. SeqIndex \notin objs
    BY <2>2, TheRevisions DEF Good
  <2> QED
    BY <2>3, <2>4, <2>5 DEF Complete, SeqIndex
<1>4. IsDb(d)
  <2>1. \A objs : IsDb(Unversioned(objs))
    BY DEF IsDb, Db, Unversioned
  <2>2. \A objs, a : IsDb(Db(objs, TRUE, a))
    BY DEF IsDb, Db
  <2> QED
    BY <2>1, <2>2 DEF PhaseReady
<1> QED
  BY <1>1, <1>2, <1>3, <1>4

\* The branch chosen for a database at rest is the one for it.
LEMMA RestIsReady ==
    ASSUME Rest(db)
    PROVE  PhaseReady(db, Phases(DecideState))
<1>1. CASE db = Unversioned({})
  <2>1. DecideState = "empty"
    BY <1>1, UnversionedIs DEF DecideState
  <2> QED
    BY <1>1, <2>1 DEF PhaseReady
<1>2. CASE \E objs : db = Unversioned(objs) /\ Legacy(objs)
  <2>1. PICK objs : db = Unversioned(objs) /\ Legacy(objs)
    BY <1>2
  <2>2. db.table = FALSE /\ db.objs = objs
    BY <2>1, UnversionedIs
  <2>3. DecideState = "legacy"
    BY <2>1, <2>2 DEF DecideState, Legacy
  <2> QED
    BY <2>1, <2>3 DEF PhaseReady
<1>3. CASE \E objs, a : db = Db(objs, TRUE, a) /\ Good(objs, a)
  <2>1. PICK objs, a : db = Db(objs, TRUE, a) /\ Good(objs, a)
    BY <1>3
  <2>2. db.table = TRUE
    BY <2>1 DEF Db
  <2>3. DecideState = "versioned"
    BY <2>2 DEF DecideState
  <2> QED
    BY <2>1, <2>3, ThePhases DEF PhaseReady
<1> QED
  BY <1>1, <1>2, <1>3 DEF Rest

-----------------------------------------------------------------------------
(* The initial databases *)

\* The least closed set that holds r.
Hull(r) == {y \in Revisions : \A C \in SUBSET Revisions : r \in C /\ DownClosed(C) => y \in C}

\* A revision and all below it, one step at a time.
LEMMA HullRecursion ==
    ASSUME NEW r \in Revisions
    PROVE  Hull(r) = {r} \cup UNION {Hull(x) : x \in DownRevision[r]}
<1>1. DownRevision[r] \subseteq Revisions
  BY TheDownRevisions
<1>2. PICK R : R = {r} \cup UNION {Hull(x) : x \in DownRevision[r]}
  OBVIOUS
<1>3. \A x \in Revisions : x \in Hull(x)
  BY DEF Hull
<1>4. R \in SUBSET Revisions
  BY <1>2 DEF Hull
<1>5. DownClosed(R)
  <2>1. SUFFICES ASSUME NEW z \in R PROVE DownRevision[z] \subseteq R
    BY DEF DownClosed
  <2>2. CASE z = r
    BY <1>1, <1>2, <1>3, <2>2
  <2>3. CASE z # r
    <3>1. PICK x \in DownRevision[r] : z \in Hull(x)
      BY <1>2, <2>3
    <3>2. ASSUME NEW y \in DownRevision[z] PROVE y \in Hull(x)
      <4>1. y \in Revisions
        BY <1>4, TheDownRevisions
      <4>2. ASSUME NEW C \in SUBSET Revisions, x \in C, DownClosed(C) PROVE y \in C
        <5>1. z \in C
          BY <3>1, <4>2 DEF Hull
        <5> QED
          BY <4>2, <5>1 DEF DownClosed
      <4> QED
        BY <4>1, <4>2 DEF Hull
    <3> QED
      BY <1>2, <3>1, <3>2
  <2> QED
    BY <2>2, <2>3
<1>6. Hull(r) \subseteq R
  BY <1>2, <1>4, <1>5 DEF Hull
<1>7. R \subseteq Hull(r)
  <2>1. ASSUME NEW x \in DownRevision[r], NEW y \in Hull(x) PROVE y \in Hull(r)
    <3>1. ASSUME NEW C \in SUBSET Revisions, r \in C, DownClosed(C) PROVE y \in C
      <4>1. x \in C
        BY <3>1 DEF DownClosed
      <4> QED
        BY <3>1, <4>1 DEF Hull
    <3> QED
      BY <3>1 DEF Hull
  <2> QED
    BY <1>2, <1>3, <2>1
<1> QED
  BY <1>2, <1>6, <1>7

\* So the recursion in Ancestors has its solution.
LEMMA AncestorsRecursion ==
    ASSUME NEW r \in Revisions
    PROVE  Ancestors[r] = {r} \cup UNION {Ancestors[x] : x \in DownRevision[r]}
<1> DEFINE Eqn(g) == g = [v \in Revisions |-> {v} \cup UNION {g[x] : x \in DownRevision[v]}]
           f == CHOOSE g : Eqn(g)
<1>1. \E g : Eqn(g)
  <2>1. PICK h : h = [v \in Revisions |-> Hull(v)]
    OBVIOUS
  <2>2. ASSUME NEW v \in Revisions
        PROVE  h[v] = {v} \cup UNION {h[x] : x \in DownRevision[v]}
    <3>1. \A x \in DownRevision[v] : h[x] = Hull(x)
      BY <2>1, TheDownRevisions
    <3>2. {h[x] : x \in DownRevision[v]} = {Hull(x) : x \in DownRevision[v]}
      BY <3>1
    <3>3. h[v] = Hull(v)
      BY <2>1
    <3> QED
      BY <3>2, <3>3, HullRecursion
  <2>3. h = [v \in Revisions |-> h[v]]
    BY <2>1
  <2>4. Eqn(h)
    BY <2>2, <2>3, Zenon
  <2> HIDE DEF Eqn
  <2> QED
    BY <2>4
<1>2. Ancestors = f
  BY Zenon DEF Ancestors
<1>3. Eqn(f)
  <2> HIDE DEF Eqn
  <2> QED
    BY <1>1, Zenon
<1> HIDE DEF f
<1>4. f[r] = {r} \cup UNION {f[x] : x \in DownRevision[r]}
  BY <1>3, Zenon
<1> QED
  BY <1>2, <1>4, Zenon

\* A release's revisions: itself, the baseline and all between.
LineageCloses(r) ==
    /\ r \in Ancestors[r] /\ "r0001_baseline" \in Ancestors[r]
    /\ Ancestors[r] \subseteq Revisions /\ DownClosed(Ancestors[r])

\* From the revisions below to the revision.
LEMMA LineageStep ==
    ASSUME NEW r \in Revisions, r # "r0001_baseline", DownRevision[r] # {},
           \A x \in DownRevision[r] : LineageCloses(x)
    PROVE  LineageCloses(r)
<1>1. PICK A : A = Ancestors[r]
  OBVIOUS
<1>2. \A y : y \in A <=> y = r \/ \E x \in DownRevision[r] : y \in Ancestors[x]
  BY <1>1, AncestorsRecursion
<1>3. "r0001_baseline" \in A /\ A \subseteq Revisions
  BY <1>2 DEF LineageCloses
<1>4. DownClosed(A)
  <2>1. SUFFICES ASSUME NEW z \in A PROVE DownRevision[z] \subseteq A
    BY DEF DownClosed
  <2>2. CASE z = r
    BY <1>2, <2>2 DEF LineageCloses
  <2>3. CASE z # r
    <3>1. PICK x \in DownRevision[r] : z \in Ancestors[x]
      BY <1>2, <2>3
    <3>2. DownRevision[z] \subseteq Ancestors[x]
      BY <3>1 DEF LineageCloses, DownClosed
    <3> QED
      BY <1>2, <3>1, <3>2
  <2> QED
    BY <2>2, <2>3
<1> QED
  BY <1>1, <1>2, <1>3, <1>4 DEF LineageCloses

\* Every revision.
LEMMA LineagesClose ==
    ASSUME NEW r \in Revisions
    PROVE  LineageCloses(r)
<1>1. LineageCloses("r0001_baseline")
  <2>1. Ancestors["r0001_baseline"] = {"r0001_baseline"}
    <3>1. "r0001_baseline" \in Revisions /\ DownRevision["r0001_baseline"] = {}
      BY TheRevisions, TheDownRevisions
    <3>2. PICK U : U = UNION {Ancestors[x] : x \in DownRevision["r0001_baseline"]}
      OBVIOUS
    <3>3. U = {}
      BY <3>1, <3>2
    <3>4. Ancestors["r0001_baseline"] = {"r0001_baseline"} \cup U
      BY <3>1, <3>2, AncestorsRecursion
    <3> QED
      BY <3>3, <3>4
  <2> QED
    BY <2>1, TheRevisions, TheDownRevisions DEF LineageCloses, DownClosed
<1>2. LineageCloses("r0002_runs_token_usage")
  BY <1>1, LineageStep, TheRevisions, TheDownRevisions
<1>3. LineageCloses("r0003_scheduled_tasks")
  BY <1>2, LineageStep, TheRevisions, TheDownRevisions
<1>4. LineageCloses("r0004_after_sales")
  BY <1>3, LineageStep, TheRevisions, TheDownRevisions
<1>5. LineageCloses("r0005_action_active")
  BY <1>4, LineageStep, TheRevisions, TheDownRevisions
<1>6. LineageCloses("r0006_action_approvers")
  BY <1>5, LineageStep, TheRevisions, TheDownRevisions
<1>7. LineageCloses("r0006_idempotency")
  BY <1>5, LineageStep, TheRevisions, TheDownRevisions
<1>8. LineageCloses("r0007_hash_chain")
  BY <1>6, LineageStep, TheRevisions, TheDownRevisions
<1>9. LineageCloses("r0007_tool_call_audit")
  BY <1>7, LineageStep, TheRevisions, TheDownRevisions
<1>10. LineageCloses("r0008_action_reserved")
  BY <1>8, LineageStep, TheRevisions, TheDownRevisions
<1>11. LineageCloses("r0009_event_seq")
  BY <1>10, LineageStep, TheRevisions, TheDownRevisions
<1>12. LineageCloses("r0010_knowledge_health")
  BY <1>11, LineageStep, TheRevisions, TheDownRevisions
<1>13. LineageCloses("r0011_event_seq_unique")
  BY <1>12, <1>9, LineageStep, TheRevisions, TheDownRevisions
<1>14. LineageCloses("r0012_case_intake")
  BY <1>13, LineageStep, TheRevisions, TheDownRevisions
<1> QED
  BY <1>1, <1>2, <1>3, <1>4, <1>5, <1>6, <1>7, <1>8, <1>9, <1>10, <1>11, <1>12, <1>13, <1>14, TheRevisions

\* What a database at these revisions has.
LEMMA MadeByHas ==
    ASSUME NEW a, NEW x
    PROVE  x \in MadeBy(a) <=> /\ \E r \in a : x \in Made(r)
                              /\ ~ (x = SeqIndex /\ "r0011_event_seq_unique" \in a)
<1>1. PICK E : E = IF "r0011_event_seq_unique" \in a THEN {<<"case_events", "uq_seq">>} ELSE {}
  OBVIOUS
<1>2. PICK U : U = UNION {Made(v) : v \in a}
  OBVIOUS
<1>3. MadeBy(a) = U \ E
  BY <1>1, <1>2, Zenon DEF MadeBy
<1>4. x \in E <=> x = SeqIndex /\ "r0011_event_seq_unique" \in a
  BY <1>1 DEF SeqIndex
<1> QED
  BY <1>2, <1>3, <1>4

\* Every database a gateway may find is one at rest.
LEMMA InitialRest ==
    ASSUME NEW d \in InitialDatabases
    PROVE  Rest(d) /\ IsDb(d) /\ d.applied \subseteq Revisions /\ d.table \in BOOLEAN
<1>1. PICK old : old = {o \in MadeBy({"r0001_baseline"}) : o[1] \notin NewTables}
  OBVIOUS
<1>2. Legacy(old)
  <2>1. \A x : x \in old <=> x \in Made("r0001_baseline") /\ x[1] \notin NewTables
    BY <1>1, MadeByHas
  <2>2. NoCopies(old)
    BY <2>1, BaselineMade, MadeShaped DEF NoCopies
  <2>3. TasksWhole(old)
    BY <2>1, BaselineMade DEF TasksWhole
  <2>4. Table("runs") \in old /\ "runs" \in Tables
    <3>1. Table("runs")[1] = "runs" /\ "runs" \notin NewTables
      BY DEF Table, NewTables
    <3>2. Table("runs") \in Metadata
      BY AfterSalesTables, BaselineMade
    <3> QED
      BY <2>1, <3>1, <3>2, AfterSalesTables, MetadataTables
  <2>5. ASSUME NEW x \in Made("r0001_baseline"), Table(x[1]) \in old PROVE x \in old
    <3>1. Table(x[1])[1] = x[1]
      BY DEF Table
    <3> QED
      BY <2>1, <2>5, <3>1
  <2> QED
    BY <2>2, <2>3, <2>4, <2>5 DEF Legacy
<1>3. ASSUME NEW r \in Revisions
      PROVE  Good(MadeBy(Ancestors[r]), Ancestors[r])
  <2>1. PICK a : a = Ancestors[r]
    OBVIOUS
  <2>2. "r0001_baseline" \in a /\ a \subseteq Revisions /\ DownClosed(a)
    BY <2>1, LineagesClose DEF LineageCloses
  <2>3. PICK objs : objs = MadeBy(a)
    OBVIOUS
  <2>4. \A x : x \in objs <=> /\ \E v \in a : x \in Made(v)
                             /\ ~ (x = SeqIndex /\ "r0011_event_seq_unique" \in a)
    BY <2>3, MadeByHas
  <2>5. NoCopies(objs)
    BY <2>2, <2>4, MadeShaped DEF NoCopies
  <2>6. TasksWhole(objs)
    <3>1. \A x \in TaskObjects : x # SeqIndex
      BY BaselineMade, MadeShaped DEF TaskObjects
    <3>2. CASE "r0003_scheduled_tasks" \in a
      BY <2>4, <3>1, <3>2 DEF TasksWhole, TaskObjects
    <3>3. CASE "r0003_scheduled_tasks" \notin a
      <4>1. ASSUME NEW v \in a, NEW x \in Made(v) PROVE x \notin TaskObjects
        BY <2>2, <3>3, BaselineMade, MadeShaped DEF TaskObjects
      <4> QED
        BY <2>4, <4>1 DEF TasksWhole
    <3> QED
      BY <3>2, <3>3
  <2>7. Good(objs, a)
    BY <2>2, <2>4, <2>5, <2>6 DEF Good
  <2> QED
    BY <2>1, <2>3, <2>7
<1>4. \A objs : /\ IsDb(Unversioned(objs)) /\ Unversioned(objs).applied = {}
               /\ Unversioned(objs).table = FALSE
  BY DEF IsDb, Db, Unversioned
<1>5. \A objs, a : /\ IsDb(Db(objs, TRUE, a)) /\ Db(objs, TRUE, a).applied = a
                  /\ Db(objs, TRUE, a).table = TRUE
  BY DEF IsDb, Db
<1>6. CASE d = Unversioned({})
  BY <1>4, <1>6 DEF Rest
<1>7. CASE d = Unversioned(Metadata)
  BY <1>4, <1>7, MetadataIsLegacy DEF Rest
<1>8. CASE d = Unversioned(old)
  BY <1>2, <1>4, <1>8 DEF Rest
<1>9. ASSUME NEW r \in Revisions, d = Db(MadeBy(Ancestors[r]), TRUE, Ancestors[r])
      PROVE  Rest(d) /\ IsDb(d) /\ d.applied \subseteq Revisions /\ d.table \in BOOLEAN
  <2>1. Ancestors[r] \subseteq Revisions
    BY LineagesClose DEF LineageCloses
  <2> QED
    BY <1>3, <1>5, <1>9, <2>1 DEF Rest
<1>10. \/ d = Unversioned({}) \/ d = Unversioned(Metadata) \/ d = Unversioned(old)
       \/ \E r \in Revisions : d = Db(MadeBy(Ancestors[r]), TRUE, Ancestors[r])
  BY <1>1, Zenon DEF InitialDatabases, Db
<1> QED
  BY <1>6, <1>7, <1>8, <1>9, <1>10

-----------------------------------------------------------------------------
(* The types *)

\* Only revisions of the code are recorded, and databases have their fields.
StmtOK(s) == s.kind \in {"stamp", "record"} => s.obj \subseteq Revisions
DbOK(d) == IsDb(d) /\ d.applied \subseteq Revisions /\ d.table \in BOOLEAN

\* The types, of the statements and phases left too.
BootTypeInv ==
    /\ BootTypeOK /\ DbOK(db) /\ DbOK(txn)
    /\ IsProg(todo) /\ \A s \in Members(todo) : StmtOK(s)
    /\ IsProg(plan) /\ \A p \in Members(plan) : p.do = "stamp" => p.arg \subseteq Revisions

\* A statement keeps the database well formed.
LEMMA EffectKeeps ==
    ASSUME NEW s, NEW d, NEW on, StmtOK(s), DbOK(d)
    PROVE  /\ DbOK(Effect(s, d, on))
           /\ s.kind \notin {"stamp", "record"} => Effect(s, d, on).applied = d.applied
           /\ s.kind = "commit" => Effect(s, d, on) = d
<1>1. PICK o, t, a : d = Db(o, t, a)
  BY DEF DbOK, IsDb
<1>2. d.objs = o /\ d.table = t /\ d.applied = a
  BY <1>1, DbFields
<1>3. /\ \A x : [d EXCEPT !.objs = x] = Db(x, t, a)
      /\ \A x : [d EXCEPT !.table = x] = Db(o, x, a)
      /\ \A x : [d EXCEPT !.applied = x] = Db(o, t, x)
  BY <1>1, DbFields
<1>4. \A x, y, z : /\ IsDb(Db(x, y, z)) /\ Db(x, y, z).applied = z /\ Db(x, y, z).table = y
  BY DEF IsDb, Db
<1>5. a \subseteq Revisions /\ t \in BOOLEAN
  BY <1>2, Zenon DEF DbOK
<1>6. ASSUME NEW x
      PROVE  DbOK([d EXCEPT !.objs = x]) /\ [d EXCEPT !.objs = x].applied = a
  <2>1. PICK e : e = [d EXCEPT !.objs = x]
    OBVIOUS
  <2>2. IsDb(e) /\ e.table = t /\ e.applied = a
    BY <1>1, <2>1 DEF IsDb, Db
  <2>3. DbOK(e)
    BY <1>5, <2>2, Zenon DEF DbOK
  <2> QED
    BY <2>1, <2>2, <2>3
<1>7. DbOK([d EXCEPT !.table = TRUE]) /\ [d EXCEPT !.table = TRUE].applied = a
  <2>1. PICK e : e = [d EXCEPT !.table = TRUE]
    OBVIOUS
  <2>2. IsDb(e) /\ e.table = TRUE /\ e.applied = a
    BY <1>1, <2>1 DEF IsDb, Db
  <2> QED
    BY <1>5, <2>1, <2>2 DEF DbOK
<1>8. ASSUME NEW x, x \subseteq Revisions
      PROVE  DbOK([d EXCEPT !.applied = x])
  <2>1. PICK e : e = [d EXCEPT !.applied = x]
    OBVIOUS
  <2>2. IsDb(e) /\ e.table = t /\ e.applied = x
    BY <1>1, <2>1 DEF IsDb, Db
  <2>3. DbOK(e)
    BY <1>5, <1>8, <2>2, Zenon DEF DbOK
  <2> QED
    BY <2>1, <2>3
<1>9. CASE s.kind \in {"create", "safe", "discard", "rebuild", "copy", "create_all", "indexes"}
  <2>1. \E x : Effect(s, d, on) = [d EXCEPT !.objs = x]
    BY <1>9 DEF Effect
  <2> QED
    BY <1>2, <1>6, <1>9, <2>1
<1>10. CASE s.kind = "version_table"
  <2>1. Effect(s, d, on) = [d EXCEPT !.table = TRUE]
    BY <1>10 DEF Effect
  <2> QED
    BY <1>2, <1>7, <1>10, <2>1
<1>11. CASE s.kind \in {"stamp", "record"}
  <2>1. \E x : x \subseteq Revisions /\ Effect(s, d, on) = [d EXCEPT !.applied = x]
    <3>1. CASE s.kind = "stamp"
      <4>1. Effect(s, d, on) = [d EXCEPT !.applied = s.obj]
        BY <3>1 DEF Effect
      <4> QED
        BY <3>1, <4>1 DEF StmtOK
    <3>2. CASE s.kind = "record"
      <4>1. Effect(s, d, on) = [d EXCEPT !.applied = d.applied \cup s.obj]
        BY <3>2 DEF Effect
      <4>2. d.applied \cup s.obj \subseteq Revisions
        BY <1>2, <1>5, <3>2 DEF StmtOK
      <4> QED
        BY <4>1, <4>2
    <3> QED
      BY <1>11, <3>1, <3>2
  <2> QED
    BY <1>8, <1>11, <2>1
<1>12. CASE s.kind \notin {"create", "safe", "discard", "rebuild", "copy", "create_all", "indexes",
                          "version_table", "stamp", "record"}
  <2>1. Effect(s, d, on) = d
    BY <1>12 DEF Effect
  <2> QED
    BY <2>1
<1> QED
  BY <1>9, <1>10, <1>11, <1>12

\* The members of two programs put together.
LEMMA MembersConcat ==
    ASSUME NEW p, NEW q, IsProg(p), IsProg(q)
    PROVE  Members(p \o q) = Members(p) \cup Members(q)
<1>1. PICK S1 : p \in Seq(S1)
  BY DEF IsProg
<1>2. PICK S2 : q \in Seq(S2)
  BY DEF IsProg
<1>3. PICK S : S = S1 \cup S2
  OBVIOUS
<1>4. p \in Seq(S) /\ q \in Seq(S)
  BY <1>1, <1>2, <1>3
<1>5. PICK m, n \in Nat : m = Len(p) /\ n = Len(q)
  BY <1>4
<1>6. PICK r : r = p \o q
  OBVIOUS
<1>7. /\ Len(r) = m + n /\ \A k \in 1 .. m : r[k] = p[k]
      /\ \A k \in m + 1 .. m + n : r[k] = q[k - m]
  BY <1>4, <1>5, <1>6
<1>8. ASSUME NEW x \in Members(r) PROVE x \in Members(p) \cup Members(q)
  <2>1. PICK k \in 1 .. m + n : x = r[k]
    BY <1>7 DEF Members
  <2>2. CASE k <= m
    BY <1>5, <1>7, <2>1, <2>2 DEF Members
  <2>3. CASE ~ (k <= m)
    <3>1. k \in m + 1 .. m + n /\ k - m \in 1 .. n
      BY <2>3
    <3> QED
      BY <1>5, <1>7, <2>1, <3>1 DEF Members
  <2> QED
    BY <2>2, <2>3
<1>9. ASSUME NEW x \in Members(p) PROVE x \in Members(r)
  <2>1. PICK k \in 1 .. m : x = p[k]
    BY <1>5 DEF Members
  <2>2. k \in 1 .. m + n
    OBVIOUS
  <2> QED
    BY <1>7, <2>1, <2>2 DEF Members
<1>10. ASSUME NEW x \in Members(q) PROVE x \in Members(r)
  <2>1. PICK k \in 1 .. n : x = q[k]
    BY <1>5 DEF Members
  <2>2. PICK j \in m + 1 .. m + n : j = k + m /\ j - m = k /\ j \in 1 .. m + n
    OBVIOUS
  <2>3. r[j] = q[j - m]
    BY <1>7
  <2>4. r[j] = x
    BY <2>1, <2>2, <2>3
  <2> QED
    BY <1>7, <2>2, <2>4 DEF Members
<1> QED
  BY <1>6, <1>8, <1>9, <1>10

\* A program is its head and its tail.
LEMMA HeadAndTail ==
    ASSUME NEW p, IsProg(p), p # <<>>
    PROVE  /\ IsProg(Tail(p)) /\ Head(p) \in Members(p) /\ Members(Tail(p)) \subseteq Members(p)
           /\ Head(p) = p[1] /\ Len(p) \in Nat /\ Len(p) >= 1 /\ Len(Tail(p)) = Len(p) - 1
           /\ \A k \in 1 .. Len(p) - 1 : Tail(p)[k] = p[k + 1]
<1>1. PICK S : p \in Seq(S)
  BY DEF IsProg
<1>2. PICK n \in Nat : n = Len(p) /\ n >= 1
  BY <1>1
<1>3. PICK q : q = Tail(p)
  OBVIOUS
<1>4. q \in Seq(S) /\ Len(q) = n - 1 /\ \A k \in 1 .. n - 1 : q[k] = p[k + 1]
  BY <1>1, <1>2, <1>3
<1>5. Head(p) = p[1]
  BY <1>1
<1>6. Members(q) \subseteq Members(p)
  <2>1. \A k \in 1 .. n - 1 : k + 1 \in 1 .. n
    BY <1>2
  <2> QED
    BY <1>2, <1>4, <2>1 DEF Members
<1>7. p[1] \in Members(p)
  <2>1. 1 \in 1 .. n
    BY <1>2
  <2> QED
    BY <1>2, <2>1 DEF Members
<1> QED
  BY <1>2, <1>3, <1>4, <1>5, <1>6, <1>7 DEF IsProg

-----------------------------------------------------------------------------
(* Transactions *)

\* Commits come last; a transaction ends with one.
CommitsLast(p) == \A k \in 1 .. Len(p) : p[k] = Commit => k = Len(p)
EndsInCommit(p) == p # <<>> /\ p[Len(p)] = Commit

\* A crash may leave half a revision behind where DDL is not transactional.
Unharmed == backend = "postgres" \/ crashes = 0

\* What the holder has left takes what it sees to the end of its phases; between its
\* transactions it sees the database, and the head is recorded only at the end.
HolderInv ==
    /\ Reaches(todo, txn, plan, backend)
    /\ CommitsLast(todo)
    /\ ~ inTxn => db = txn
    /\ backend = "postgres" /\ ~ inTxn => todo = <<>> \/ todo = <<Commit>>
    /\ backend = "sqlite" \/ plan = <<>> =>
         IF todo = <<>> THEN ~ inTxn ELSE EndsInCommit(todo)
    /\ db.applied = Revisions =>
         txn = db /\ (todo = <<>> \/ todo = <<Commit>>) /\ (plan = <<>> \/ plan = Upgrading)

\* The holder gets there, nobody fails, and the database at rest can be taken over.
BootInv ==
    Unharmed =>
        /\ holder # NoCaller => HolderInv
        /\ holder = NoCaller \/ backend = "postgres" => Rest(db)
        /\ \A c \in Callers : pc[c] # "failed" /\ (pc[c] = "up" => Complete(db))

\* A program with a statement appended.
LEMMA AppendProg ==
    ASSUME NEW p, NEW c, IsProg(p)
    PROVE  /\ Append(p, c) = p \o <<c>> /\ IsProg(Append(p, c))
           /\ Members(Append(p, c)) = Members(p) \cup {c}
<1>1. PICK S : p \in Seq(S)
  BY DEF IsProg
<1>2. PICK T : T = S \cup {c}
  OBVIOUS
<1>3. p \in Seq(T) /\ c \in T
  BY <1>1, <1>2
<1>4. Append(p, c) \in Seq(T) /\ Members(Append(p, c)) = Members(p) \cup {c}
  BY <1>3, AppendAdds
<1>5. Append(p, c) = p \o <<c>>
  BY <1>3
<1> QED
  BY <1>4, <1>5 DEF IsProg

\* And its statements one by one.
LEMMA AppendAt ==
    ASSUME NEW p, NEW c, IsProg(p)
    PROVE  /\ Len(p) \in Nat /\ Len(Append(p, c)) = Len(p) + 1
           /\ \A k \in 1 .. Len(p) : Append(p, c)[k] = p[k]
           /\ Append(p, c)[Len(p) + 1] = c
<1>1. PICK S : p \in Seq(S)
  BY DEF IsProg
<1>2. PICK T : T = S \cup {c}
  OBVIOUS
<1>3. p \in Seq(T) /\ c \in T
  BY <1>1, <1>2
<1> QED
  BY <1>3

\* A commit is a statement.
LEMMA CommitIs ==
    /\ Commit.kind = "commit" /\ StmtOK(Commit)
BY DEF Commit, StmtOK

\* create_all does not commit on its own.
LEMMA CreateStatements ==
    ASSUME NEW tables, NEW o
    PROVE  /\ IsProg(CreateAll(tables, o)) /\ Commit \notin Members(CreateAll(tables, o))
           /\ \A s \in Members(Append(CreateAll(tables, o), Commit)) : StmtOK(s)
<1>1. PICK p : p = CreateAll(tables, o)
  OBVIOUS
<1>2. IsProg(p) /\ \A s \in Members(p) : s.kind \in {"create_all", "indexes"}
  <2>1. Runs(p, Db(o, TRUE, {}), Db(o \cup Makes(tables, o), TRUE, {}), "sqlite")
    BY <1>1, CreateAllRun
  <2>2. \A s \in Members(p) : s.kind \in {"create_all", "indexes"}
    BY <1>1, CreateAllRun
  <2> QED
    BY <2>1, <2>2 DEF Runs
<1>3. Commit \notin Members(p)
  BY <1>2, CommitIs
<1>4. \A s \in Members(p) : StmtOK(s)
  BY <1>2 DEF StmtOK
<1>5. Members(Append(p, Commit)) = Members(p) \cup {Commit}
  BY <1>2, AppendProg
<1> QED
  BY <1>1, <1>2, <1>3, <1>4, <1>5, CommitIs

\* A stamp commits once, at its end.
LEMMA StampStatements ==
    ASSUME NEW R
    PROVE  /\ IsProg(Stamping(R))
           /\ R \subseteq Revisions => \A s \in Members(Stamping(R)) : StmtOK(s)
           /\ \E p : IsProg(p) /\ Commit \notin Members(p) /\ Stamping(R) = Append(p, Commit)
<1>1. PICK s1, s2 : /\ s1 = [kind |-> "version_table", obj |-> NoCaller]
                    /\ s2 = [kind |-> "stamp", obj |-> R]
  OBVIOUS
<1>2. s1.kind = "version_table" /\ s2.kind = "stamp" /\ s2.obj = R
  BY <1>1
<1>3. IsProg(<<s1, s2>>) /\ Members(<<s1, s2>>) = {s1, s2}
  BY Tuples DEF Members
<1>4. Commit \notin Members(<<s1, s2>>)
  BY <1>2, <1>3, CommitIs
<1>5. Append(<<s1, s2>>, Commit) = <<s1, s2, Commit>>
  BY TwoAndOne
<1>6. Stamping(R) = Append(<<s1, s2>>, Commit)
  BY <1>1, <1>5 DEF Stamping
<1>7. IsProg(Stamping(R)) /\ Members(Stamping(R)) = {s1, s2} \cup {Commit}
  <2>1. PICK p : p = <<s1, s2>>
    OBVIOUS
  <2>2. IsProg(p) /\ Members(p) = {s1, s2}
    BY <1>3, <2>1
  <2>3. IsProg(Append(p, Commit)) /\ Members(Append(p, Commit)) = Members(p) \cup {Commit}
    BY <2>2, AppendProg
  <2>4. Stamping(R) = Append(p, Commit)
    BY <1>6, <2>1
  <2> QED
    BY <2>2, <2>3, <2>4
<1>8. R \subseteq Revisions => StmtOK(s1) /\ StmtOK(s2)
  BY <1>2 DEF StmtOK
<1> QED
  BY <1>3, <1>4, <1>6, <1>7, <1>8, CommitIs

\* A revision commits once, at its end, on SQLite, and not at all on PostgreSQL.
LEMMA RevisionStatements ==
    ASSUME NEW r \in Revisions, NEW objs, NEW on
    PROVE  /\ IsProg(Upgrading1(r, objs, on)) /\ \A s \in Members(Upgrading1(r, objs, on)) : StmtOK(s)
           /\ \E p : /\ IsProg(p) /\ Commit \notin Members(p)
                     /\ on = "sqlite" => Upgrading1(r, objs, on) = Append(p, Commit)
                     /\ on # "sqlite" => Upgrading1(r, objs, on) = p
<1>1. PICK body : body = IF Returns(r, objs) THEN <<>> ELSE Upgrades[r]
  OBVIOUS
<1>2. PICK rec : rec = [kind |-> "record", obj |-> {r}]
  OBVIOUS
<1>3. rec.kind = "record" /\ rec.obj = {r}
  BY <1>2
<1>4. IsProg(body) /\ \A s \in Members(body) : s.kind \in {"create", "safe", "discard", "rebuild", "copy"}
  <2>1. <<>> \in Seq({}) /\ Members(<<>>) = {}
    BY DEF Members
  <2>2. IsProg(Upgrades[r]) /\ \A s \in Members(Upgrades[r]) : Shaped(s, r)
    BY RevisionsShaped
  <2> QED
    BY <1>1, <2>1, <2>2 DEF IsProg, Shaped
<1>5. IsProg(<<rec>>) /\ Members(<<rec>>) = {rec}
  BY Tuples DEF Members
<1>6. PICK p : p = body \o <<rec>>
  OBVIOUS
<1>7. IsProg(p) /\ Members(p) = Members(body) \cup {rec}
  BY <1>4, <1>5, <1>6, ProgConcat, MembersConcat
<1>8. Commit \notin Members(p)
  BY <1>3, <1>4, <1>7, CommitIs
<1>9. \A s \in Members(p) : StmtOK(s)
  BY <1>3, <1>4, <1>7 DEF StmtOK
<1>10. CASE on = "sqlite"
  <2>1. Upgrading1(r, objs, on) = p \o <<Commit>>
    BY <1>1, <1>2, <1>6, <1>10 DEF Upgrading1
  <2>2. Upgrading1(r, objs, on) = Append(p, Commit)
    BY <1>7, <2>1, AppendProg
  <2>3. IsProg(Append(p, Commit)) /\ Members(Append(p, Commit)) = Members(p) \cup {Commit}
    BY <1>7, AppendProg
  <2>4. IsProg(Upgrading1(r, objs, on)) /\ \A s \in Members(Upgrading1(r, objs, on)) : StmtOK(s)
    BY <1>9, <2>2, <2>3, CommitIs
  <2> QED
    BY <1>7, <1>8, <1>10, <2>2, <2>4
<1>11. CASE on # "sqlite"
  <2>1. Upgrading1(r, objs, on) = p \o <<>>
    BY <1>1, <1>2, <1>6, <1>11 DEF Upgrading1
  <2>2. p \o <<>> = p
    BY <1>7 DEF IsProg
  <2> QED
    BY <1>7, <1>8, <1>9, <1>11, <2>1, <2>2
<1> QED
  BY <1>10, <1>11

\* The phases are a program that stamps revisions only.
LEMMA PhaseTypes ==
    /\ DecideState \in {"empty", "legacy", "versioned"}
    /\ \A x \in {"empty", "legacy", "versioned"} :
         IsProg(Phases(x)) /\ \A p \in Members(Phases(x)) : p.do = "stamp" => p.arg \subseteq Revisions
<1>1. DecideState \in {"empty", "legacy", "versioned"}
  BY DEF DecideState
<1>2. PICK a, b, c, d, e : /\ a = [do |-> "create", arg |-> Tables]
                           /\ b = [do |-> "stamp", arg |-> Revisions]
                           /\ c = [do |-> "create", arg |-> BaselineTables]
                           /\ d = [do |-> "stamp", arg |-> {"r0001_baseline"}]
                           /\ e = [do |-> "upgrade", arg |-> {}]
  OBVIOUS
<1>3. Phases("empty") = <<a, b>> /\ Phases("legacy") = <<c, d, e>> /\ Phases("versioned") = <<e>>
  BY <1>2 DEF Phases
<1>4. /\ a.do # "stamp" /\ b.arg = Revisions /\ c.do # "stamp" /\ d.arg = {"r0001_baseline"}
      /\ e.do # "stamp"
  BY <1>2
<1>5. IsProg(<<a, b>>) /\ Members(<<a, b>>) = {a, b}
  BY Tuples DEF Members
<1>6. IsProg(<<e>>) /\ Members(<<e>>) = {e}
  BY Tuples DEF Members
<1>7. <<c, d, e>> \in Seq({c, d, e}) /\ Members(<<c, d, e>>) = {c, d, e}
  BY DEF Members
<1> QED
  BY <1>1, <1>3, <1>4, <1>5, <1>6, <1>7, BaselineMade DEF IsProg

\* The database a gateway finds is well formed.
LEMMA BootTypeInit ==
    ASSUME BootInit
    PROVE  BootTypeInv
<1>1. DbOK(db) /\ txn = db
  BY InitialRest DEF BootInit, DbOK
<1>2. /\ backend \in Backends /\ holder = NoCaller /\ inTxn = FALSE /\ crashes = 0
      /\ pc \in [Callers -> {"down", "waiting", "working", "up", "failed"}]
  BY DEF BootInit
<1>3. IsProg(<<>>) /\ Members(<<>>) = {}
  <2>1. <<>> \in Seq({})
    OBVIOUS
  <2> QED
    BY <2>1 DEF IsProg, Members
<1>4. plan = <<>> /\ todo = <<>>
  BY DEF BootInit
<1>5. crashes \in 0 .. MaxCrashes
  BY <1>2, BootAssumption
<1>6. BootTypeOK
  BY <1>1, <1>2, <1>5 DEF BootTypeOK, DbOK
<1> QED
  BY <1>1, <1>3, <1>4, <1>6 DEF BootTypeInv

\* The variables with finite types, and well-formed plans and programs.
BootTypes ==
    /\ backend \in Backends /\ holder \in Callers \cup {NoCaller} /\ inTxn \in BOOLEAN
    /\ pc \in [Callers -> {"down", "waiting", "working", "up", "failed"}]
    /\ crashes \in 0 .. MaxCrashes

PlanOK(p) == IsProg(p) /\ \A x \in Members(p) : x.do = "stamp" => x.arg \subseteq Revisions
TodoOK(p) == IsProg(p) /\ \A s \in Members(p) : StmtOK(s)

\* The type invariant, one variable at a time.
LEMMA BootTypesAre ==
    BootTypeInv <=> BootTypes /\ DbOK(db) /\ DbOK(txn) /\ TodoOK(todo) /\ PlanOK(plan)
<1>1. DbOK(db) /\ DbOK(txn) =>
        \A d \in {db, txn} : d.applied \subseteq Revisions /\ d.table \in BOOLEAN
  BY Zenon DEF DbOK
<1> QED
  BY <1>1 DEF BootTypeInv, BootTypeOK, BootTypes, TodoOK, PlanOK

\* What is left of a well-formed program is one.
LEMMA TailOK ==
    ASSUME NEW p, p # <<>>
    PROVE  (TodoOK(p) => TodoOK(Tail(p)) /\ StmtOK(Head(p))) /\ (PlanOK(p) => PlanOK(Tail(p)))
BY HeadAndTail DEF TodoOK, PlanOK

\* Every step of a bootstrap keeps the types.
LEMMA BootTypeStep ==
    ASSUME BootTypeInv, [BootNext]_bootVars
    PROVE  BootTypeInv'
<1>0. BootTypes /\ DbOK(db) /\ DbOK(txn) /\ TodoOK(todo) /\ PlanOK(plan)
  BY BootTypesAre
<1>1. SUFFICES BootTypes' /\ DbOK(db') /\ DbOK(txn') /\ TodoOK(todo') /\ PlanOK(plan')
  <2>1. DbOK(db') /\ DbOK(txn') =>
          \A d \in {db', txn'} : d.applied \subseteq Revisions /\ d.table \in BOOLEAN
    BY Zenon DEF DbOK
  <2> QED
    BY <2>1 DEF BootTypeInv, BootTypeOK, BootTypes, TodoOK, PlanOK
<1>2. TodoOK(<<>>) /\ PlanOK(<<>>)
  <2>1. <<>> \in Seq({})
    OBVIOUS
  <2> QED
    BY <2>1 DEF IsProg, Members, TodoOK, PlanOK
<1>3. CASE UNCHANGED bootVars
  BY <1>0, <1>3 DEF bootVars, BootTypes
<1>4. ASSUME NEW c \in Callers, Boot(c)
      PROVE  BootTypes' /\ DbOK(db') /\ DbOK(txn') /\ TodoOK(todo') /\ PlanOK(plan')
  BY <1>0, <1>4 DEF Boot, BootTypes
<1>5. ASSUME NEW c \in Callers, Lock(c)
      PROVE  BootTypes' /\ DbOK(db') /\ DbOK(txn') /\ TodoOK(todo') /\ PlanOK(plan')
  <2>1. PlanOK(plan')
    BY <1>5, PhaseTypes DEF Lock, PlanOK
  <2>2. DbOK(db') /\ DbOK(txn') /\ TodoOK(todo')
    BY <1>0, <1>2, <1>5 DEF Lock
  <2>3. BootTypes'
    BY <1>0, <1>5 DEF Lock, BootTypes
  <2> QED
    BY <2>1, <2>2, <2>3
<1>6. ASSUME NEW c \in Callers, Crash(c)
      PROVE  BootTypes' /\ DbOK(db') /\ DbOK(txn') /\ TodoOK(todo') /\ PlanOK(plan')
  <2>1. crashes' \in 0 .. MaxCrashes /\ backend' \in Backends /\ holder' \in Callers \cup {NoCaller}
    BY <1>0, <1>6, BootAssumption DEF Crash, BootTypes
  <2>2. pc' \in [Callers -> {"down", "waiting", "working", "up", "failed"}]
    BY <1>0, <1>6 DEF Crash, BootTypes
  <2>3. inTxn' \in BOOLEAN
    BY <1>0, <1>6, Zenon DEF Crash, BootTypes
  <2>4. DbOK(db') /\ DbOK(txn') /\ TodoOK(todo') /\ PlanOK(plan')
    BY <1>0, <1>2, <1>6 DEF Crash
  <2> QED
    BY <2>1, <2>2, <2>3, <2>4 DEF BootTypes
<1>7. ASSUME NEW r \in Revisions, BeginRevision(r)
      PROVE  BootTypes' /\ DbOK(db') /\ DbOK(txn') /\ TodoOK(todo') /\ PlanOK(plan')
  <2>1. todo' = Upgrading1(r, txn.objs, backend)
    BY <1>7 DEF BeginRevision, Upgrading1
  <2>2. TodoOK(todo')
    BY <2>1, RevisionStatements DEF TodoOK
  <2>3. BootTypes' /\ DbOK(db') /\ DbOK(txn') /\ PlanOK(plan')
    BY <1>0, <1>7 DEF BeginRevision, BootTypes
  <2> QED
    BY <2>2, <2>3
<1>8. CASE BeginCreate
  <2>1. TodoOK(todo')
    <3>1. PICK p : p = CreateAll(Head(plan).arg, txn.objs)
      OBVIOUS
    <3>2. todo' = Append(p, Commit)
      BY <1>8, <3>1 DEF BeginCreate
    <3>3. IsProg(p) /\ \A s \in Members(Append(p, Commit)) : StmtOK(s)
      BY <3>1, CreateStatements
    <3>4. IsProg(Append(p, Commit))
      BY <3>3, AppendProg
    <3> QED
      BY <3>2, <3>3, <3>4 DEF TodoOK
  <2>2. PlanOK(plan')
    BY <1>0, <1>8, TailOK DEF BeginCreate
  <2>3. BootTypes' /\ DbOK(db') /\ DbOK(txn')
    BY <1>0, <1>8 DEF BeginCreate, BootTypes
  <2> QED
    BY <2>1, <2>2, <2>3
<1>9. CASE BeginStamp
  <2>1. todo' = Stamping(Head(plan).arg) /\ plan # <<>> /\ plan' = Tail(plan) /\ Head(plan).do = "stamp"
    BY <1>9 DEF BeginStamp, Stamping
  <2>2. Head(plan).arg \subseteq Revisions
    BY <1>0, <2>1, HeadAndTail DEF PlanOK
  <2>3. TodoOK(todo')
    BY <2>1, <2>2, StampStatements DEF TodoOK
  <2>4. PlanOK(plan')
    BY <1>0, <2>1, TailOK
  <2>5. BootTypes' /\ DbOK(db') /\ DbOK(txn')
    BY <1>0, <1>9 DEF BeginStamp, BootTypes
  <2> QED
    BY <2>3, <2>4, <2>5
<1>10. CASE Upgraded
  <2>1. TodoOK(<<Commit>>)
    <3>1. IsProg(<<Commit>>) /\ Members(<<Commit>>) = {Commit}
      BY Tuples DEF Members
    <3> QED
      BY <3>1, CommitIs DEF TodoOK
  <2>2. PlanOK(plan')
    BY <1>0, <1>10, TailOK DEF Upgraded
  <2> QED
    BY <1>0, <1>10, <2>1, <2>2 DEF Upgraded, BootTypes
<1>11. CASE Execute
  <2>1. /\ todo # <<>> /\ todo' = Tail(todo) /\ txn' = Effect(Head(todo), txn, backend)
        /\ db' = db \/ db' = Effect(Head(todo), txn, backend)
    BY <1>11 DEF Execute
  <2>2. TodoOK(todo') /\ StmtOK(Head(todo))
    BY <1>0, <2>1, TailOK
  <2>3. DbOK(Effect(Head(todo), txn, backend))
    BY <1>0, <2>2, EffectKeeps
  <2>4. inTxn' \in BOOLEAN
    BY <1>11, Zenon DEF Execute
  <2>5. UNCHANGED <<backend, holder, pc, plan, crashes>>
    BY <1>11 DEF Execute
  <2>6. BootTypes'
    BY <1>0, <2>4, <2>5 DEF BootTypes
  <2> QED
    BY <1>0, <2>1, <2>2, <2>3, <2>5, <2>6
<1>12. CASE Fails
  BY <1>0, <1>2, <1>12 DEF Fails, BootTypes
<1>13. CASE Up
  BY <1>0, <1>2, <1>13 DEF Up, BootTypes
<1> QED
  BY <1>3, <1>4, <1>5, <1>6, <1>7, <1>8, <1>9, <1>10, <1>11, <1>12, <1>13 DEF BootNext

\* bootstrap_schema keeps its types: in particular alembic_version, committed or not, never
\* lists a revision that the code does not have.
THEOREM BootTypeCorrect == BootSpec => []BootTypeOK
<1>1. BootInit => BootTypeInv
  BY BootTypeInit
<1>2. BootTypeInv /\ [BootNext]_bootVars => BootTypeInv'
  BY BootTypeStep
<1>3. BootTypeInv => BootTypeOK
  BY DEF BootTypeInv
<1> QED
  BY <1>1, <1>2, <1>3, PTL DEF BootSpec

\* A program that commits at its end only.
LEMMA CommitEnds ==
    ASSUME NEW p, IsProg(p), Commit \notin Members(p)
    PROVE  /\ CommitsLast(p) /\ CommitsLast(Append(p, Commit)) /\ EndsInCommit(Append(p, Commit))
           /\ Append(p, Commit) # <<>>
<1>1. \A k \in 1 .. Len(p) : p[k] # Commit
  BY DEF Members
<1>2. PICK q : q = Append(p, Commit)
  OBVIOUS
<1>3. /\ Len(p) \in Nat /\ Len(q) = Len(p) + 1 /\ q[Len(p) + 1] = Commit
      /\ \A k \in 1 .. Len(p) : q[k] = p[k]
  BY <1>2, AppendAt
<1>4. \A k \in 1 .. Len(q) : k \in 1 .. Len(p) \/ k = Len(q)
  BY <1>3
<1>5. CommitsLast(q)
  BY <1>1, <1>3, <1>4 DEF CommitsLast
<1>6. q # <<>>
  BY <1>3
<1> QED
  BY <1>1, <1>2, <1>3, <1>5, <1>6 DEF CommitsLast, EndsInCommit

\* Such as a commit alone.
LEMMA OneCommit ==
    /\ CommitsLast(<<Commit>>) /\ EndsInCommit(<<Commit>>) /\ <<Commit>> # <<>>
    /\ CommitsLast(<<>>)
BY DEF CommitsLast, EndsInCommit

\* With no statement left, the next phase may begin.
LEMMA NothingLeft ==
    ASSUME NEW d, NEW p, NEW on, Reaches(<<>>, d, p, on)
    PROVE  PhaseReady(d, p)
BY RunsOver DEF Reaches

\* A revision always records itself.
LEMMA RevisionRecords ==
    ASSUME NEW r \in Revisions, NEW objs, NEW on
    PROVE  [kind |-> "record", obj |-> {r}] \in Members(Upgrading1(r, objs, on))
<1>1. PICK body : body = IF Returns(r, objs) THEN <<>> ELSE Upgrades[r]
  OBVIOUS
<1>2. PICK rec : rec = [kind |-> "record", obj |-> {r}]
  OBVIOUS
<1>3. IsProg(body)
  <2>1. <<>> \in Seq({})
    OBVIOUS
  <2> QED
    BY <1>1, <2>1, RevisionsShaped DEF IsProg
<1>4. IsProg(<<rec>>) /\ Members(<<rec>>) = {rec}
  BY Tuples DEF Members
<1>5. IsProg(body \o <<rec>>) /\ rec \in Members(body \o <<rec>>)
  BY <1>3, <1>4, ProgConcat, MembersConcat
<1>6. PICK end : end = IF on = "sqlite" THEN <<Commit>> ELSE <<>>
  OBVIOUS
<1>7. IsProg(end)
  <2>1. <<>> \in Seq({})
    OBVIOUS
  <2> QED
    BY <1>6, <2>1, Tuples DEF IsProg
<1>8. rec \in Members((body \o <<rec>>) \o end)
  BY <1>5, <1>7, MembersConcat
<1> QED
  BY <1>1, <1>2, <1>6, <1>8 DEF Upgrading1

\* What the holder goes on with when a phase begins.
LEMMA BeginKeeps ==
    ASSUME Unharmed, HolderInv, todo = <<>>, UNCHANGED <<backend, db, txn>>,
           backend \in {"sqlite", "postgres"},
           inTxn' = (backend = "postgres"), db.applied # Revisions,
           Reaches(todo', txn, plan', backend), CommitsLast(todo'), todo' # <<>>,
           backend = "sqlite" \/ plan' = <<>> => EndsInCommit(todo')
    PROVE  HolderInv'
<1>1. backend = "sqlite" => db = txn
  BY DEF HolderInv
<1> QED
  BY <1>1 DEF HolderInv

\* Every step of a bootstrap keeps the invariant: no statement of a holder is refused, and what
\* it commits is a database that another can take over.
LEMMA BootInvStep ==
    ASSUME BootTypeInv, BootInv, [BootNext]_bootVars
    PROVE  BootInv'
<1>0. SUFFICES ASSUME Unharmed'
               PROVE  /\ holder' # NoCaller => HolderInv'
                      /\ holder' = NoCaller \/ backend' = "postgres" => Rest(db')
                      /\ \A c \in Callers : pc'[c] # "failed" /\ (pc'[c] = "up" => Complete(db'))
  BY DEF BootInv
<1>1. /\ BootTypes /\ DbOK(db) /\ DbOK(txn) /\ TodoOK(todo) /\ PlanOK(plan)
      /\ IsProg(todo) /\ IsProg(plan) /\ backend \in {"sqlite", "postgres"} /\ crashes \in Nat
      /\ pc \in [Callers -> {"down", "waiting", "working", "up", "failed"}]
      /\ holder \in Callers \cup {NoCaller}
  <2>1. BootTypes /\ DbOK(db) /\ DbOK(txn) /\ TodoOK(todo) /\ PlanOK(plan)
    BY BootTypesAre
  <2>2. IsProg(todo) /\ IsProg(plan)
    BY <2>1 DEF TodoOK, PlanOK
  <2>3. /\ backend \in {"sqlite", "postgres"} /\ crashes \in Nat
        /\ pc \in [Callers -> {"down", "waiting", "working", "up", "failed"}]
        /\ holder \in Callers \cup {NoCaller}
    BY <2>1, BootAssumption DEF BootTypes
  <2> QED
    BY <2>1, <2>2, <2>3
<1>2. Unharmed
  <2>1. backend' = backend
    BY DEF BootNext, Boot, Lock, Crash, BeginRevision, BeginCreate, BeginStamp, Upgraded, Execute,
           Fails, Up, bootVars
  <2>2. crashes' = crashes \/ crashes' = crashes + 1
    BY DEF BootNext, Boot, Lock, Crash, BeginRevision, BeginCreate, BeginStamp, Upgraded, Execute,
           Fails, Up, bootVars
  <2>3. crashes' = 0 => crashes = 0
    BY <1>1, <2>2
  <2> QED
    BY <1>0, <2>1, <2>3 DEF Unharmed
<1>3. /\ holder # NoCaller => HolderInv
      /\ holder = NoCaller \/ backend = "postgres" => Rest(db)
      /\ \A c \in Callers : pc[c] # "failed" /\ (pc[c] = "up" => Complete(db))
  BY <1>2 DEF BootInv
<1>4. CASE UNCHANGED bootVars
  BY <1>3, <1>4 DEF bootVars, HolderInv
<1>5. ASSUME NEW c \in Callers, Boot(c)
      PROVE  /\ holder' # NoCaller => HolderInv'
             /\ holder' = NoCaller \/ backend' = "postgres" => Rest(db')
             /\ \A x \in Callers : pc'[x] # "failed" /\ (pc'[x] = "up" => Complete(db'))
  <2>1. UNCHANGED <<backend, db, txn, inTxn, holder, plan, todo>> /\ pc' = [pc EXCEPT ![c] = "waiting"]
    BY <1>5 DEF Boot
  <2>2. \A x \in Callers : pc'[x] = pc[x] \/ pc'[x] = "waiting"
    BY <1>1, <2>1
  <2>3. holder' # NoCaller => HolderInv'
    BY <1>3, <2>1 DEF HolderInv
  <2> QED
    BY <1>3, <2>1, <2>2, <2>3
<1>6. ASSUME NEW c \in Callers, Lock(c)
      PROVE  /\ holder' # NoCaller => HolderInv'
             /\ holder' = NoCaller \/ backend' = "postgres" => Rest(db')
             /\ \A x \in Callers : pc'[x] # "failed" /\ (pc'[x] = "up" => Complete(db'))
  <2>1. /\ holder = NoCaller /\ UNCHANGED <<backend, db>> /\ pc' = [pc EXCEPT ![c] = "working"]
        /\ txn' = db /\ inTxn' = FALSE /\ plan' = Phases(DecideState) /\ todo' = <<>>
    BY <1>6 DEF Lock
  <2>2. Rest(db)
    BY <1>3, <2>1
  <2>3. PhaseReady(db, plan')
    BY <2>1, <2>2, RestIsReady
  <2>4. Reaches(<<>>, db, plan', backend)
    BY <2>3, RunsNone DEF Reaches
  <2>5. db.applied = Revisions => plan' = Upgrading \/ plan' = <<>>
    BY <2>3, ReadyRests
  <2>6. HolderInv'
    BY <2>1, <2>4, <2>5, OneCommit DEF HolderInv
  <2>7. \A x \in Callers : pc'[x] = pc[x] \/ pc'[x] = "working"
    BY <1>1, <2>1
  <2> QED
    BY <1>3, <2>1, <2>2, <2>6, <2>7
<1>7. ASSUME NEW c \in Callers, Crash(c)
      PROVE  /\ holder' # NoCaller => HolderInv'
             /\ holder' = NoCaller \/ backend' = "postgres" => Rest(db')
             /\ \A x \in Callers : pc'[x] # "failed" /\ (pc'[x] = "up" => Complete(db'))
  <2>1. crashes' = crashes + 1 /\ UNCHANGED <<backend, db>>
    BY <1>7 DEF Crash
  <2>2. backend = "postgres"
    <3>1. crashes' # 0
      BY <1>1, <2>1
    <3> QED
      BY <1>0, <2>1, <3>1 DEF Unharmed
  <2>3. backend # "sqlite"
    BY <2>2
  <2>4. pc' = [pc EXCEPT ![c] = "down"]
    BY <1>7, <2>3 DEF Crash
  <2>5. \A x \in Callers : pc'[x] = pc[x] \/ pc'[x] = "down"
    BY <1>1, <2>4
  <2>6. holder' # NoCaller => HolderInv'
    <3>1. CASE holder = c
      BY <1>7, <3>1 DEF Crash
    <3>2. CASE holder # c
      <4>1. UNCHANGED <<holder, txn, inTxn, plan, todo>>
        BY <1>7, <2>3, <3>2 DEF Crash
      <4> QED
        BY <1>3, <2>1, <4>1 DEF HolderInv
    <3> QED
      BY <3>1, <3>2
  <2> QED
    BY <1>3, <2>1, <2>2, <2>5, <2>6
<1>8. ASSUME NEW r \in Revisions, BeginRevision(r)
      PROVE  /\ holder' # NoCaller => HolderInv'
             /\ holder' = NoCaller \/ backend' = "postgres" => Rest(db')
             /\ \A x \in Callers : pc'[x] # "failed" /\ (pc'[x] = "up" => Complete(db'))
  <2>1. /\ holder # NoCaller /\ todo = <<>> /\ plan # <<>> /\ Head(plan).do = "upgrade"
        /\ r \notin txn.applied /\ DownRevision[r] \subseteq txn.applied
        /\ inTxn' = (backend = "postgres") /\ UNCHANGED <<backend, db, txn, holder, pc, plan>>
    BY <1>8 DEF BeginRevision
  <2>2. todo' = Upgrading1(r, txn.objs, backend)
    BY <1>8 DEF BeginRevision, Upgrading1
  <2>3. HolderInv
    BY <1>3, <2>1
  <2>4. PhaseReady(txn, plan)
    BY <2>1, <2>3, NothingLeft DEF HolderInv
  <2>5. Reaches(todo', txn, plan', backend)
    BY <2>1, <2>2, <2>4, RevisionReaches
  <2>6. db.applied # Revisions
    BY <2>1, <2>3 DEF HolderInv
  <2>7. PICK p : /\ IsProg(p) /\ Commit \notin Members(p)
                 /\ backend = "sqlite" => todo' = Append(p, Commit)
                 /\ backend # "sqlite" => todo' = p
    BY <2>2, RevisionStatements
  <2>8. CommitsLast(todo') /\ (backend = "sqlite" \/ plan' = <<>> => EndsInCommit(todo'))
    BY <2>1, <2>7, CommitEnds
  <2>9. todo' # <<>>
    <3>1. [kind |-> "record", obj |-> {r}] \in Members(todo')
      BY <2>2, RevisionRecords
    <3>2. Members(<<>>) = {}
      BY DEF Members
    <3> QED
      BY <3>1, <3>2
  <2>10. HolderInv'
    BY <1>1, <1>2, <2>1, <2>3, <2>5, <2>6, <2>8, <2>9, BeginKeeps
  <2> QED
    BY <1>3, <2>1, <2>10
<1>9. CASE BeginCreate
  <2>1. /\ holder # NoCaller /\ todo = <<>> /\ plan # <<>> /\ Head(plan).do = "create"
        /\ todo' = Append(CreateAll(Head(plan).arg, txn.objs), Commit) /\ plan' = Tail(plan)
        /\ inTxn' = (backend = "postgres") /\ UNCHANGED <<backend, db, txn, holder, pc>>
    BY <1>9 DEF BeginCreate
  <2>3. HolderInv
    BY <1>3, <2>1
  <2>4. PhaseReady(txn, plan)
    BY <2>1, <2>3, NothingLeft DEF HolderInv
  <2>5. Reaches(todo', txn, plan', backend)
    BY <2>1, <2>4, CreateReaches
  <2>6. db.applied # Revisions
    BY <2>1, <2>3, ThePhases DEF HolderInv
  <2>7. CommitsLast(todo') /\ EndsInCommit(todo') /\ todo' # <<>>
    BY <2>1, CreateStatements, CommitEnds
  <2>8. HolderInv'
    BY <1>1, <1>2, <2>1, <2>3, <2>5, <2>6, <2>7, BeginKeeps
  <2> QED
    BY <1>3, <2>1, <2>8
<1>10. CASE BeginStamp
  <2>1. /\ holder # NoCaller /\ todo = <<>> /\ plan # <<>> /\ Head(plan).do = "stamp"
        /\ todo' = Stamping(Head(plan).arg) /\ plan' = Tail(plan)
        /\ inTxn' = (backend = "postgres") /\ UNCHANGED <<backend, db, txn, holder, pc>>
    BY <1>10 DEF BeginStamp, Stamping
  <2>3. HolderInv
    BY <1>3, <2>1
  <2>4. PhaseReady(txn, plan)
    BY <2>1, <2>3, NothingLeft DEF HolderInv
  <2>5. Reaches(todo', txn, plan', backend)
    BY <2>1, <2>4, StampReaches
  <2>6. db.applied # Revisions
    BY <2>1, <2>3, ThePhases DEF HolderInv
  <2>7. CommitsLast(todo') /\ EndsInCommit(todo') /\ todo' # <<>>
    <3>1. PICK p : IsProg(p) /\ Commit \notin Members(p) /\ todo' = Append(p, Commit)
      BY <2>1, StampStatements
    <3> QED
      BY <3>1, CommitEnds
  <2>8. HolderInv'
    BY <1>1, <1>2, <2>1, <2>3, <2>5, <2>6, <2>7, BeginKeeps
  <2> QED
    BY <1>3, <2>1, <2>8
<1>11. CASE Upgraded
  <2>1. /\ holder # NoCaller /\ todo = <<>> /\ plan # <<>> /\ Head(plan).do = "upgrade"
        /\ txn.applied = Revisions /\ todo' = <<Commit>> /\ plan' = Tail(plan)
        /\ UNCHANGED <<backend, db, txn, inTxn, holder, pc>>
    BY <1>11 DEF Upgraded
  <2>3. HolderInv
    BY <1>3, <2>1
  <2>4. PhaseReady(txn, plan)
    BY <2>1, <2>3, NothingLeft DEF HolderInv
  <2>5. Reaches(todo', txn, plan', backend)
    BY <2>1, <2>4, UpgradedReaches
  <2>6. plan = Upgrading /\ plan' = <<>>
    BY <2>1, <2>4, ReadyFor, ThePhases
  <2>8. HolderInv'
    BY <2>1, <2>3, <2>5, <2>6, OneCommit DEF HolderInv
  <2> QED
    BY <1>3, <2>1, <2>8
<1>12. CASE Execute
  <2>1. PICK s : s = Head(todo)
    OBVIOUS
  <2>2. /\ holder # NoCaller /\ todo # <<>> /\ todo' = Tail(todo)
        /\ UNCHANGED <<backend, holder, pc, plan>> /\ txn' = Effect(s, txn, backend)
        /\ inTxn' = (s # Commit /\ (inTxn \/ WritesRows(s)))
        /\ db' = IF s # Commit /\ (inTxn \/ WritesRows(s)) THEN db ELSE Effect(s, txn, backend)
    BY <1>12, <2>1 DEF Execute
  <2>3. HolderInv
    BY <1>3, <2>2
  <2>4. Reaches(todo', txn', plan, backend)
    BY <2>1, <2>2, <2>3, RunsHead DEF HolderInv, Reaches
  <2>5. StmtOK(s)
    BY <1>1, <2>1, <2>2, TailOK
  <2>6. /\ s = todo[1] /\ Len(todo) \in Nat /\ Len(todo) >= 1 /\ Len(todo') = Len(todo) - 1
        /\ IsProg(todo') /\ \A k \in 1 .. Len(todo) - 1 : todo'[k] = todo[k + 1]
    BY <1>1, <2>1, <2>2, HeadAndTail
  <2>7. CommitsLast(todo')
    <3>1. ASSUME NEW k \in 1 .. Len(todo'), todo'[k] = Commit PROVE k = Len(todo')
      <4>1. k \in 1 .. Len(todo) - 1 /\ k + 1 \in 1 .. Len(todo)
        BY <2>6
      <4>2. todo[k + 1] = Commit
        BY <2>6, <3>1, <4>1
      <4>3. k + 1 = Len(todo)
        BY <2>3, <4>1, <4>2 DEF HolderInv, CommitsLast
      <4> QED
        BY <2>6, <4>3
    <3> QED
      BY <3>1 DEF CommitsLast
  <2>8. CASE s = Commit
    <3>1. todo' = <<>>
      <4>1. 1 \in 1 .. Len(todo)
        BY <2>6
      <4>2. Len(todo) = 1
        BY <2>3, <2>6, <2>8, <4>1 DEF HolderInv, CommitsLast
      <4>3. Len(todo') = 0
        BY <2>6, <4>2
      <4> QED
        BY <2>6, <4>3 DEF IsProg
    <3>2. txn' = txn /\ db' = txn /\ inTxn' = FALSE
      <4>1. Effect(s, txn, backend) = txn
        BY <1>1, <2>5, <2>8, CommitIs, EffectKeeps
      <4> QED
        BY <2>2, <2>8, <4>1
    <3>3. PhaseReady(txn, plan)
      BY <2>4, <3>1, <3>2, NothingLeft
    <3>4. Rest(txn) /\ (txn.applied = Revisions => plan = Upgrading \/ plan = <<>>)
      BY <3>3, ReadyRests
    <3>5. HolderInv'
      BY <2>2, <2>4, <2>7, <3>1, <3>2, <3>4 DEF HolderInv
    <3>6. Complete(db) => Complete(db')
      <4>1. SUFFICES ASSUME Complete(db) PROVE db' = db
        OBVIOUS
      <4>2. db.applied = Revisions
        BY <4>1 DEF Complete
      <4> QED
        BY <2>3, <3>2, <4>2 DEF HolderInv
    <3> QED
      BY <1>3, <2>2, <3>2, <3>4, <3>5, <3>6
  <2>9. CASE s # Commit
    <3>1. todo # <<Commit>>
      BY <2>6, <2>9
    <3>2. db.applied # Revisions
      BY <2>2, <2>3, <3>1 DEF HolderInv
    <3>3. backend = "sqlite" \/ plan = <<>> => todo' # <<>> /\ EndsInCommit(todo')
      <4>1. SUFFICES ASSUME backend = "sqlite" \/ plan = <<>> PROVE todo' # <<>> /\ EndsInCommit(todo')
        OBVIOUS
      <4>2. todo[Len(todo)] = Commit
        BY <2>2, <2>3, <4>1 DEF HolderInv, EndsInCommit
      <4>3. Len(todo) # 1
        BY <2>6, <2>9, <4>2
      <4>4. Len(todo) - 1 \in 1 .. Len(todo) - 1 /\ Len(todo) - 1 + 1 = Len(todo)
        BY <2>6, <4>3
      <4>5. todo'[Len(todo')] = Commit
        BY <2>6, <4>2, <4>4
      <4>6. todo' # <<>>
        BY <2>6, <4>4
      <4> QED
        BY <4>5, <4>6 DEF EndsInCommit
    <3>4. \A c \in Callers : pc[c] # "up"
      BY <1>3, <3>2 DEF Complete
    <3>5. CASE inTxn \/ WritesRows(s)
      <4>1. db' = db /\ inTxn' = TRUE
        BY <2>2, <2>9, <3>5
      <4>2. HolderInv'
        BY <2>2, <2>4, <2>7, <3>2, <3>3, <4>1 DEF HolderInv
      <4> QED
        BY <1>3, <2>2, <4>1, <4>2
    <3>6. CASE ~ (inTxn \/ WritesRows(s))
      <4>1. db' = txn' /\ inTxn' = FALSE /\ db = txn
        BY <2>2, <2>3, <2>9, <3>6 DEF HolderInv
      <4>2. backend # "postgres"
        BY <2>2, <2>3, <3>1, <3>6 DEF HolderInv
      <4>3. db'.applied # Revisions
        <5>1. s.kind \notin {"stamp", "record"}
          BY <3>6 DEF WritesRows
        <5>2. txn'.applied = txn.applied
          BY <1>1, <2>2, <2>5, <5>1, EffectKeeps
        <5> QED
          BY <3>2, <4>1, <5>2
      <4>4. HolderInv'
        BY <2>2, <2>4, <2>7, <3>3, <4>1, <4>2, <4>3 DEF HolderInv
      <4> QED
        BY <1>3, <2>2, <3>4, <4>2, <4>4
    <3> QED
      BY <3>5, <3>6
  <2> QED
    BY <2>8, <2>9
<1>13. CASE Fails
  <2>1. holder # NoCaller /\ todo # <<>> /\ Refused(Head(todo), txn, backend)
    BY <1>13 DEF Fails
  <2>2. HolderInv
    BY <1>3, <2>1
  <2>3. ~ Refused(Head(todo), txn, backend)
    BY <2>1, <2>2, RunsHead DEF HolderInv, Reaches
  <2> QED
    BY <2>1, <2>3
<1>14. CASE Up
  <2>1. /\ holder # NoCaller /\ todo = <<>> /\ plan = <<>> /\ pc' = [pc EXCEPT ![holder] = "up"]
        /\ holder' = NoCaller /\ UNCHANGED <<backend, db>>
    BY <1>14 DEF Up
  <2>2. HolderInv
    BY <1>3, <2>1
  <2>3. PhaseReady(txn, plan) /\ db = txn
    BY <2>1, <2>2, NothingLeft DEF HolderInv
  <2>4. Rest(db) /\ Complete(db)
    BY <2>1, <2>3, ReadyRests
  <2>5. \A x \in Callers : pc'[x] = pc[x] \/ pc'[x] = "up"
    BY <1>1, <2>1
  <2> QED
    BY <1>3, <2>1, <2>4, <2>5
<1> QED
  BY <1>4, <1>5, <1>6, <1>7, <1>8, <1>9, <1>10, <1>11, <1>12, <1>13, <1>14 DEF BootNext

\* Nobody holds the lock at the start, and the database is one at rest.
LEMMA BootInvInit ==
    ASSUME BootInit
    PROVE  BootInv
<1>1. Rest(db) /\ holder = NoCaller /\ \A c \in Callers : pc[c] = "down"
  BY InitialRest DEF BootInit
<1> QED
  BY <1>1 DEF BootInv

\* Whatever database the gateways find - empty, legacy, or at any revision - and however
\* they race for the lock and crash, bootstrap_schema never fails, and a gateway that is
\* up is up on the complete schema at head; on SQLite, as long as none has crashed.
THEOREM BootReachesHead == BootSpec => []BootsToHead
<1>1. BootInit => BootTypeInv /\ BootInv
  BY BootTypeInit, BootInvInit
<1>2. BootTypeInv /\ BootInv /\ [BootNext]_bootVars => (BootTypeInv /\ BootInv)'
  BY BootTypeStep, BootInvStep
<1>3. BootInv => BootsToHead
  BY DEF BootInv, BootsToHead, Unharmed
<1> QED
  BY <1>1, <1>2, <1>3, PTL DEF BootSpec

=============================================================================
