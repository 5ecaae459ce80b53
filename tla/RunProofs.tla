----------------------------- MODULE RunProofs ------------------------------
(***************************************************************************)
(* Proofs about the runs of a thread, for any number of runs: their order, *)
(* their rows in the store and the end of their journal; about a run's     *)
(* stream, the scheduled task it may come from and the goal it works for;  *)
(* and the invariant of all the components of a run together.              *)
(***************************************************************************)
EXTENDS MCRuns, FiniteSetTheorems, SequenceTheorems, TLAPS

(***************************************************************************)
(* RunRows.  Once the task has its final status, every write in flight     *)
(* carries a final one (FinalWrites), and the row lacks one only as long   *)
(* as every write of the worker since was given up (Counted).              *)
(***************************************************************************)
FinalWrites ==
    /\ \A w \in Writers \ {"worker"} : writes[w] \in Finals \cup {"none"}
    /\ worker \in {"settling", "completing", "done"} =>
          record \in Finals /\ writes["worker"] \in Finals \cup {"none"}

Counted ==
    \/ row \in Finals
    \/ /\ worker = "settling" /\ writes["worker"] = "none" => drops >= 1
       /\ worker = "completing" => drops >= 1
       /\ worker = "completing" /\ writes["worker"] = "none" => drops >= 2
       /\ worker = "done" => drops >= 2 /\ writes["worker"] = "none"

RowInv == RowTypeOK /\ FinalWrites /\ Counted

LEMMA RowInitInv == RowInit => RowInv
BY RowBounds DEF RowInit, RowInv, RowTypeOK, FinalWrites, Counted, Writers, Inflights, Finals

\* The store takes, repeats or loses a write.
LEMMA StoreSteps ==
    ASSUME RowInv, NEW w \in Writers,
           Lands(w) \/ LandsUnacknowledged(w) \/ GivesUp(w)
    PROVE  RowInv'
<1> USE RowBounds DEF RowInv, RowTypeOK, FinalWrites, Counted, Writers, Inflights, Finals
<1>1. CASE Lands(w)
  BY <1>1 DEF Lands
<1>2. CASE LandsUnacknowledged(w)
  BY <1>2 DEF LandsUnacknowledged
<1>3. CASE GivesUp(w)
  <2>1. RowTypeOK'
    BY <1>3 DEF GivesUp
  <2>2. FinalWrites'
    BY <1>3 DEF GivesUp
  <2>3. Counted'
    BY <1>3 DEF GivesUp
  <2> QED BY <2>1, <2>2, <2>3
<1> QED BY <1>1, <1>2, <1>3

\* The worker and the canceller write what the run has become.
LEMMA RunSteps ==
    ASSUME RowInv,
           \/ Create \/ MarkRunning \/ Finish \/ Complete \/ Done
           \/ \E how \in {"interrupt", "rollback"} : CancelRun(how)
    PROVE  RowInv'
<1> USE RowBounds DEF RowInv, RowTypeOK, FinalWrites, Counted, Writers, Inflights, Finals
<1>1. CASE Create \/ MarkRunning
  BY <1>1 DEF Create, MarkRunning, Ready, Write
<1>2. CASE Finish
  BY <1>2 DEF Finish, Ready, Write
<1>3. CASE Complete
  BY <1>3 DEF Complete, Ready, Write
<1>4. CASE Done
  BY <1>4 DEF Done, Ready, Write
<1>5. ASSUME NEW how \in {"interrupt", "rollback"}, CancelRun(how)
      PROVE  RowInv'
  BY <1>5 DEF CancelRun, Write
<1> QED BY <1>1, <1>2, <1>3, <1>4, <1>5

\* The process drains, ends and comes back.
LEMMA ProcessSteps ==
    ASSUME RowInv, Drain \/ DrainMarks \/ ProcessEnds \/ Reconcile
    PROVE  RowInv'
<1> USE RowBounds DEF RowInv, RowTypeOK, FinalWrites, Counted, Writers, Inflights, Finals
<1>1. CASE Drain
  BY <1>1 DEF Drain
<1>2. CASE DrainMarks
  BY <1>2 DEF DrainMarks, Write
<1>3. CASE ProcessEnds
  BY <1>3 DEF ProcessEnds
<1>4. CASE Reconcile
  BY <1>4 DEF Reconcile
<1> QED BY <1>1, <1>2, <1>3, <1>4

LEMMA RowNextInv == RowInv /\ [RowNext]_rowVars => RowInv'
<1> SUFFICES ASSUME RowInv, [RowNext]_rowVars PROVE RowInv'
  OBVIOUS
<1>1. CASE RowNext
  BY <1>1, StoreSteps, RunSteps, ProcessSteps DEF RowNext, RowStep
<1>2. CASE UNCHANGED rowVars
  BY <1>2 DEF rowVars, RowInv, RowTypeOK, FinalWrites, Counted
<1> QED BY <1>1, <1>2

\* The types and the count of lost writes hold in every state of RowSpec.
THEOREM RowInvariant == RowSpec => []RowInv
BY RowInitInv, RowNextInv, PTL DEF RowSpec

LEMMA RowInvSettles == RowInv => RowSettles
BY RowBounds DEF RowInv, RowTypeOK, Counted, RowSettles

\* A run whose task is done has a final status in the store, in whatever order
\* the writes of its worker, canceller, drain and reconciler landed, were
\* repeated or lost, as long as at most one was lost (RunManager's
\* _persist_status and update_run_completion).
THEOREM DoneIsFinal == RowSpec => []RowSettles
BY RowInvariant, RowInvSettles, PTL

(***************************************************************************)
(* ThreadRuns.  Runs are admitted in order, one at a time under the lock   *)
(* (InOrder), and an admission finds in flight exactly what still is when  *)
(* it ends (Found).  A record that had a task keeps status, finalizing and *)
(* kill in step with its phase (Kept).  So whoever is past admission has   *)
(* only older runs that are refused, over or finalizing (Replaced), and    *)
(* whoever has entered the graph, or read the checkpoint for a title, has  *)
(* none that is finalizing (Settled).  Runs aborted without a task are     *)
(* excepted throughout.                                                    *)
(***************************************************************************)
InOrder ==
    /\ \A r \in Runs : run[r].phase = "admitting" <=> lock = r
    /\ \A q, r \in Runs : q < r /\ run[r].phase # "none" => run[q].phase # "none"

Found ==
    \A r \in Runs : lock = r =>
        /\ r \notin admission.inflight
        /\ \A q \in Runs \ {r} : q \in admission.inflight <=> Inflight(q)
        /\ admission.strategy = "reject" => admission.inflight = {}

RunRecord ==
    [phase : Phases, status : {"pending", "running"} \cup Terminal,
     aborted : BOOLEAN, action : {"interrupt", "rollback"},
     finalizing : BOOLEAN, kill : BOOLEAN,
     snapshot : Seq(Runs), snapped : {"none", "taken", "failed"}, ended : BOOLEAN]

KeptRecord(rec) ==
    /\ rec.phase \in {"none", "admitting", "refused", "launching", "stranded"} =>
          rec.status \notin Terminal /\ ~rec.finalizing /\ ~rec.kill /\ ~rec.aborted
    /\ rec.phase \in Try \cup {"created"} =>
          /\ rec.finalizing = rec.kill
          /\ rec.aborted = rec.kill
          /\ rec.kill = (rec.status \in Terminal)
    /\ rec.phase \in {"killed", "rollingback", "titling", "titled", "closing", "done"} =>
          rec.status \in Terminal
    /\ rec.phase \in {"killed", "rollingback", "titled"} => rec.finalizing
    /\ rec.phase = "titling" /\ rec.status = "interrupted" => rec.finalizing

Kept == \A r \in Runs \ untasked : KeptRecord(run[r])

PastAdmission(r) == run[r].phase \notin {"none", "admitting", "refused"}

Replaced ==
    \A q, r \in Runs : q < r /\ PastAdmission(r) /\ q \notin untasked =>
        run[q].phase = "refused" \/ (PastAdmission(q) /\ run[q].status \in Terminal)

Entered(r) == InGraph(r) \/ run[r].snapped # "none" \/ run[r].phase = "titled"

Settled ==
    \A q, r \in Runs : q < r /\ Entered(r) /\ q \notin untasked =>
        run[q].phase = "refused" \/ (PastAdmission(q) /\ run[q].status \in Terminal /\ ~run[q].finalizing)

ThreadInv == RunsTypeOK /\ InOrder /\ Found /\ Kept /\ Replaced /\ Settled

LEMMA ThreadInitInv == RunInit => ThreadInv
<1> SUFFICES ASSUME RunInit PROVE ThreadInv
  OBVIOUS
<1>1. NoRun \in RunRecord
  BY DEF NoRun, RunRecord, Phases
<1>2. RunsTypeOK
  BY <1>1, RunBounds DEF RunInit, RunsTypeOK, RunRecord, Runs, Strategies
<1>3. \A r \in Runs : run[r] = NoRun /\ r # 0
  BY RunBounds DEF RunInit, Runs
<1>4. NoRun.phase = "none" /\ NoRun.snapped = "none" /\ KeptRecord(NoRun)
  BY DEF NoRun, KeptRecord, Terminal, Try
<1> QED
  BY <1>2, <1>3, <1>4 DEF RunInit, ThreadInv, InOrder, Found, Kept, Replaced, Settled,
     PastAdmission, InGraph, Entered

\* A step of the task of r, or of its launch: what it makes of the record.
LEMMA OwnStep ==
    ASSUME ThreadInv, NEW r \in Runs, NEW x \in RunRecord,
           run' = [run EXCEPT ![r] = x],
           UNCHANGED <<lock, admission>>, checkpoint' \in Seq(Runs),
           untasked' \in {untasked, untasked \cup {r}},
           PastAdmission(r), x.phase \notin {"none", "admitting", "refused"},
           lock # 0 => x.status = run[r].status /\ x.finalizing = run[r].finalizing,
           r \notin untasked' => KeptRecord(x),
           r \notin untasked' /\ run[r].status \in Terminal => x.status \in Terminal,
           r \notin untasked' /\ run[r].status \in Terminal /\ ~run[r].finalizing => ~x.finalizing,
           x.phase \in {"snapshotting", "streaming", "settling", "titled"} \/ x.snapped # "none" =>
               Entered(r) \/ ~PriorFinalizing(r)
    PROVE  ThreadInv'
<1>0. run \in [Runs -> RunRecord] /\ run'[r] = x /\ \A q \in Runs \ {r} : run'[q] = run[q]
  BY DEF ThreadInv, RunsTypeOK, RunRecord
<1>1. RunsTypeOK'
  BY <1>0 DEF ThreadInv, RunsTypeOK, RunRecord
<1>2. InOrder'
  BY <1>0 DEF ThreadInv, InOrder, PastAdmission
<1>3. Found'
  <2>1. lock # 0 => \A q \in Runs : Inflight(q)' <=> Inflight(q)
    BY <1>0 DEF Inflight, InMemory, Active, PastAdmission
  <2>2. \A q \in Runs : q # 0
    BY RunBounds DEF Runs
  <2> QED BY <2>1, <2>2 DEF ThreadInv, Found
<1>4. Kept'
  BY <1>0 DEF ThreadInv, Kept
<1>5. Replaced'
  BY <1>0 DEF ThreadInv, Replaced, PastAdmission, Runs
<1>6. Settled'
  <2> SUFFICES ASSUME NEW q \in Runs, NEW u \in Runs, q < u, Entered(u)', q \notin untasked'
               PROVE  run'[q].phase = "refused"
                      \/ (PastAdmission(q)' /\ run'[q].status \in Terminal /\ ~run'[q].finalizing)
    BY DEF Settled
  <2>1. q # u
    BY DEF Runs
  <2>2. CASE Entered(u)
    BY <1>0, <2>1, <2>2 DEF ThreadInv, Settled, PastAdmission
  <2>3. CASE ~Entered(u)
    <3>1. u = r /\ ~PriorFinalizing(r) /\ q # r
      BY <1>0, <2>1, <2>3 DEF Entered, InGraph
    <3>2. run[q].phase = "refused" \/ (PastAdmission(q) /\ run[q].status \in Terminal)
      BY <3>1 DEF ThreadInv, Replaced
    <3> QED BY <1>0, <3>1, <3>2 DEF PriorFinalizing, InMemory, PastAdmission
  <2> QED BY <2>2, <2>3
<1> QED BY <1>1, <1>2, <1>3, <1>4, <1>5, <1>6 DEF ThreadInv

\* A task that has not unwound.
TaskSteps(r) ==
    \/ Launch(r) \/ LaunchFails(r) \/ FirstStep(r) \/ StartRunning(r)
    \/ TakeSnapshot(r) \/ StreamChunk(r)

LEMMA TaskStepsInv ==
    ASSUME ThreadInv, NEW r \in Runs, TaskSteps(r)
    PROVE  ThreadInv'
<1>0. run \in [Runs -> RunRecord] /\ run[r] \in RunRecord /\ checkpoint \in Seq(Runs)
  BY DEF ThreadInv, RunsTypeOK, RunRecord
<1>1. r \notin untasked => KeptRecord(run[r])
  BY DEF ThreadInv, Kept
<1> USE DEF PastAdmission, InGraph, Entered, Phases, Try
<1>2. CASE Launch(r) \/ LaunchFails(r)
  <2>1. PICK p \in {"created", "stranded"} : run' = [run EXCEPT ![r].phase = p]
    BY <1>2 DEF Launch, LaunchFails
  <2>2. PICK x : x = [run[r] EXCEPT !.phase = p]
    OBVIOUS
  <2>3. x \in RunRecord /\ run' = [run EXCEPT ![r] = x]
    BY <1>0, <2>1, <2>2 DEF RunRecord
  <2>4. r \notin untasked => KeptRecord(x)
    BY <1>0, <1>1, <1>2, <2>2 DEF KeptRecord, Launch, LaunchFails, RunRecord
  <2>9. x.phase = p /\ x.status = run[r].status /\ x.finalizing = run[r].finalizing /\ x.snapped = run[r].snapped
    BY <1>0, <2>2 DEF RunRecord
  <2> QED BY <1>0, <1>2, <2>9, <2>3, <2>4, OwnStep DEF Launch, LaunchFails
<1>3. CASE FirstStep(r)
  <2>1. PICK p : p = IF run[r].kill THEN "killed" ELSE "waiting"
    OBVIOUS
  <2>2. PICK x : x = [run[r] EXCEPT !.phase = p]
    OBVIOUS
  <2>3. x \in RunRecord /\ run' = [run EXCEPT ![r] = x]
    BY <1>0, <1>3, <2>1, <2>2 DEF RunRecord, FirstStep
  <2>4. r \notin untasked => KeptRecord(x)
    BY <1>0, <1>1, <1>3, <2>1, <2>2 DEF KeptRecord, FirstStep, RunRecord
  <2>9. x.phase = p /\ x.status = run[r].status /\ x.finalizing = run[r].finalizing /\ x.snapped = run[r].snapped
    BY <1>0, <2>2 DEF RunRecord
  <2> QED BY <1>0, <1>3, <2>1, <2>9, <2>3, <2>4, OwnStep, ZenonT(40) DEF FirstStep
<1>4. CASE StartRunning(r)
  <2>2. PICK x : x = [run[r] EXCEPT !.phase = "snapshotting", !.status = "running"]
    OBVIOUS
  <2>3. x \in RunRecord /\ run' = [run EXCEPT ![r] = x]
    BY <1>0, <1>4, <2>2 DEF RunRecord, StartRunning
  <2>4. r \notin untasked => KeptRecord(x) /\ run[r].status \notin Terminal
    BY <1>0, <1>1, <1>4, <2>2 DEF KeptRecord, StartRunning, RunRecord, Terminal
  <2>9. x.phase = "snapshotting" /\ x.status = "running" /\ x.finalizing = run[r].finalizing /\ x.snapped = run[r].snapped
    BY <1>0, <2>2 DEF RunRecord
  <2> QED BY <1>0, <1>4, <2>9, <2>3, <2>4, OwnStep, ZenonT(40) DEF StartRunning
<1>5. CASE TakeSnapshot(r)
  <2>1. PICK sn \in {"none", "taken", "failed"} :
           run' = [run EXCEPT ![r].phase = "streaming", ![r].snapped = sn,
                              ![r].snapshot = IF sn = "taken" THEN checkpoint ELSE <<>>]
    BY <1>5 DEF TakeSnapshot
  <2>2. PICK c : c = IF sn = "taken" THEN checkpoint ELSE <<>>
    OBVIOUS
  <2>6. c \in Seq(Runs)
    BY <1>0, <2>2
  <2>3. PICK x : x = [run[r] EXCEPT !.phase = "streaming", !.snapped = sn, !.snapshot = c]
    OBVIOUS
  <2>4. x \in RunRecord /\ run' = [run EXCEPT ![r] = x]
    BY <1>0, <2>1, <2>2, <2>3, <2>6 DEF RunRecord
  <2>5. r \notin untasked => KeptRecord(x)
    BY <1>0, <1>1, <1>5, <2>3 DEF KeptRecord, TakeSnapshot, RunRecord
  <2>9. x.phase = "streaming" /\ x.status = run[r].status /\ x.finalizing = run[r].finalizing
    BY <1>0, <2>3 DEF RunRecord
  <2> QED BY <1>0, <1>5, <2>9, <2>4, <2>5, OwnStep DEF TakeSnapshot
<1>6. CASE StreamChunk(r)
  <2>1. PICK p \in {"settling", "streaming"} : run' = [run EXCEPT ![r].phase = p]
    BY <1>6 DEF StreamChunk
  <2>2. PICK x : x = [run[r] EXCEPT !.phase = p]
    OBVIOUS
  <2>3. x \in RunRecord /\ run' = [run EXCEPT ![r] = x]
    BY <1>0, <2>1, <2>2 DEF RunRecord
  <2>4. r \notin untasked => KeptRecord(x)
    BY <1>0, <1>1, <1>6, <2>2 DEF KeptRecord, StreamChunk, RunRecord
  <2>9. x.phase = p /\ x.status = run[r].status /\ x.finalizing = run[r].finalizing /\ x.snapped = run[r].snapped
    BY <1>0, <2>2 DEF RunRecord
  <2>6. checkpoint' \in Seq(Runs)
    BY <1>0, <1>6 DEF StreamChunk
  <2> QED BY <1>0, <1>6, <2>6, <2>9, <2>3, <2>4, OwnStep DEF StreamChunk
<1> QED BY <1>2, <1>3, <1>4, <1>5, <1>6 DEF TaskSteps

\* The abort branch settles the record for its cleanup.
LEMMA UnwindInv ==
    ASSUME ThreadInv, NEW r \in Runs, run[r].phase \in Try, lock = 0, Unwind(r),
           r \notin untasked => run[r].kill,
           UNCHANGED <<lock, admission, checkpoint, untasked>>
    PROVE  ThreadInv'
<1>0. run \in [Runs -> RunRecord] /\ run[r] \in RunRecord /\ checkpoint \in Seq(Runs)
  BY DEF ThreadInv, RunsTypeOK, RunRecord
<1>1. r \notin untasked => KeptRecord(run[r])
  BY DEF ThreadInv, Kept
<1>2. PICK final : final = IF run[r].action = "rollback" THEN "error" ELSE "interrupted"
  OBVIOUS
<1>3. PICK p : p = IF final = "error" THEN "rollingback" ELSE "titling"
  OBVIOUS
<1>4. PICK x : x = [run[r] EXCEPT !.kill = FALSE, !.finalizing = TRUE, !.status = final,
                                  !.phase = p]
  OBVIOUS
<1>5. x \in RunRecord /\ run' = [run EXCEPT ![r] = x]
  BY <1>0, <1>2, <1>3, <1>4, ZenonT(40) DEF Unwind, RunRecord, Phases, Terminal
<1>6. x.snapped = run[r].snapped /\ x.kill = FALSE /\ x.finalizing = TRUE /\ x.status = final /\ x.phase = p
  BY <1>0, <1>4 DEF RunRecord
<1>7. KeptRecord(x)
  BY <1>2, <1>3, <1>6 DEF KeptRecord, Terminal, Try
<1>8. r \notin untasked => run[r].finalizing
  BY <1>1 DEF KeptRecord
<1> QED
  BY <1>0, <1>2, <1>3, <1>5, <1>6, <1>7, <1>8, OwnStep DEF PastAdmission, Entered, Try, Terminal

\* A task that settles, fails or is cancelled.
LEMMA EndingsInv ==
    ASSUME ThreadInv, NEW r \in Runs, Settle(r) \/ Cancelled(r) \/ Fail(r)
    PROVE  ThreadInv'
<1>0. run \in [Runs -> RunRecord] /\ run[r] \in RunRecord /\ checkpoint \in Seq(Runs)
  BY DEF ThreadInv, RunsTypeOK, RunRecord
<1>1. r \notin untasked => KeptRecord(run[r])
  BY DEF ThreadInv, Kept
<1>2. CASE Cancelled(r)
  BY <1>2, UnwindInv DEF Cancelled
<1>3. CASE Settle(r) /\ run[r].aborted
  BY <1>1, <1>3, UnwindInv DEF Settle, Try, KeptRecord
<1>4. CASE Fail(r) \/ (Settle(r) /\ ~run[r].aborted)
  <2>1. PICK final \in {"success", "error"} :
           run' = [run EXCEPT ![r].status = final, ![r].phase = "titling"]
    BY <1>4 DEF Fail, Settle
  <2>2. PICK x : x = [run[r] EXCEPT !.status = final, !.phase = "titling"]
    OBVIOUS
  <2>3. x \in RunRecord /\ run' = [run EXCEPT ![r] = x]
    BY <1>0, <2>1, <2>2 DEF RunRecord, Phases, Terminal
  <2>4. x.phase = "titling" /\ x.status = final /\ x.finalizing = run[r].finalizing /\ x.snapped = run[r].snapped
    BY <1>0, <2>2 DEF RunRecord
  <2>5. KeptRecord(x) /\ x.status \in Terminal
    BY <2>4 DEF KeptRecord, Terminal, Try
  <2>6. run[r].phase \in Try /\ lock = 0 /\ UNCHANGED <<lock, admission, checkpoint, untasked>>
    BY <1>4 DEF Fail, Settle, Try
  <2> QED
    BY <1>0, <2>3, <2>4, <2>5, <2>6, OwnStep DEF PastAdmission, Entered, Try
<1> QED BY <1>2, <1>3, <1>4

\* Rollback, title and the end of the finally block.
LEMMA CleanupInv ==
    ASSUME ThreadInv, NEW r \in Runs, RollBack(r) \/ TitleRead(r) \/ TitleWrite(r) \/ Close(r)
    PROVE  ThreadInv'
<1>0. run \in [Runs -> RunRecord] /\ run[r] \in RunRecord /\ checkpoint \in Seq(Runs)
  BY DEF ThreadInv, RunsTypeOK, RunRecord
<1>1. r \notin untasked => KeptRecord(run[r])
  BY DEF ThreadInv, Kept
<1>2. CASE RollBack(r) \/ TitleWrite(r)
  <2>1. PICK p \in {"titling", "closing"} : run' = [run EXCEPT ![r].phase = p]
    BY <1>2 DEF RollBack, TitleWrite
  <2>2. PICK x : x = [run[r] EXCEPT !.phase = p]
    OBVIOUS
  <2>3. x \in RunRecord /\ run' = [run EXCEPT ![r] = x]
    BY <1>0, <2>1, <2>2 DEF RunRecord, Phases
  <2>4. x.phase = p /\ x.status = run[r].status /\ x.finalizing = run[r].finalizing /\ x.snapped = run[r].snapped
    BY <1>0, <2>2 DEF RunRecord
  <2>5. r \notin untasked => KeptRecord(x)
    BY <1>1, <1>2, <2>4 DEF KeptRecord, RollBack, TitleWrite, Terminal, Try
  <2>6. checkpoint' \in Seq(Runs)
    BY <1>0, <1>2 DEF RollBack, TitleWrite, RunRecord
  <2> QED
    BY <1>0, <1>2, <2>3, <2>4, <2>5, <2>6, OwnStep DEF PastAdmission, Entered, RollBack, TitleWrite
<1>3. CASE TitleRead(r)
  <2>2. PICK x : x = [run[r] EXCEPT !.phase = "titled", !.snapshot = checkpoint]
    OBVIOUS
  <2>3. x \in RunRecord /\ run' = [run EXCEPT ![r] = x]
    BY <1>0, <1>3, <2>2 DEF RunRecord, Phases, TitleRead
  <2>4. x.phase = "titled" /\ x.status = run[r].status /\ x.finalizing = run[r].finalizing /\ x.snapped = run[r].snapped
    BY <1>0, <2>2 DEF RunRecord
  <2>5. r \notin untasked => KeptRecord(x)
    BY <1>1, <1>3, <2>4 DEF KeptRecord, TitleRead, Terminal, Try
  <2>6. PastAdmission(r) /\ UNCHANGED <<lock, admission, checkpoint, untasked>>
    BY <1>3 DEF PastAdmission, TitleRead
  <2>7. x.phase \notin {"none", "admitting", "refused"} /\ ~PriorFinalizing(r)
    BY <1>3, <2>4 DEF TitleRead
  <2> QED BY <1>0, <2>3, <2>4, <2>5, <2>6, <2>7, OwnStep
<1>4. CASE Close(r)
  <2>2. PICK x : x = [run[r] EXCEPT !.phase = "done", !.finalizing = FALSE, !.ended = TRUE,
                          !.snapshot = <<>>, !.snapped = "none",
                          !.aborted = FALSE, !.action = "interrupt"]
    OBVIOUS
  <2>1. x \in RunRecord
    <3>1. PICK y : y = [run[r] EXCEPT !.phase = "done", !.finalizing = FALSE, !.ended = TRUE]
      OBVIOUS
    <3>2. y \in RunRecord
      BY <1>0, <3>1 DEF RunRecord, Phases
    <3>3. x = [y EXCEPT !.snapshot = <<>>, !.snapped = "none",
                        !.aborted = FALSE, !.action = "interrupt"]
      BY <2>2, <3>1
    <3>4. <<>> \in Seq(Runs)
      OBVIOUS
    <3>5. \A e \in Seq(Runs) : [y EXCEPT !.snapshot = e, !.snapped = "none",
                        !.aborted = FALSE, !.action = "interrupt"] \in RunRecord
      BY <3>2 DEF RunRecord
    <3> QED BY <3>3, <3>4, <3>5
  <2>3. x \in RunRecord /\ run' = [run EXCEPT ![r] = x]
    BY <1>4, <2>1, <2>2, Zenon DEF Close
  <2>4. x.phase = "done" /\ x.status = run[r].status /\ x.finalizing = FALSE /\ x.snapped = "none"
    BY <1>0, <2>2 DEF RunRecord
  <2>5. r \notin untasked => KeptRecord(x)
    BY <1>1, <1>4, <2>4 DEF KeptRecord, Close, Terminal, Try
  <2>6. PastAdmission(r) /\ UNCHANGED <<lock, admission, checkpoint, untasked>>
    BY <1>4 DEF PastAdmission, Close
  <2>7. x.phase \notin {"none", "admitting", "refused", "snapshotting", "streaming", "settling"}
    BY <2>4
  <2>8. lock = 0
    BY <1>4 DEF Close
  <2> QED BY <1>0, <2>3, <2>4, <2>5, <2>6, <2>7, <2>8, OwnStep
<1> QED BY <1>2, <1>3, <1>4

\* cancel marks a run that has a task for its cleanup, one that has none as untasked.
LEMMA CancelInv ==
    ASSUME ThreadInv, NEW r \in Runs, NEW how \in {"interrupt", "rollback"}, Cancel(r, how)
    PROVE  ThreadInv'
<1>0. run \in [Runs -> RunRecord] /\ run[r] \in RunRecord /\ checkpoint \in Seq(Runs)
  BY DEF ThreadInv, RunsTypeOK, RunRecord
<1>1. PICK x : x = Aborted(r, how)
  OBVIOUS
<1>2. PICK b \in BOOLEAN : b = TaskActive(r)
  BY DEF TaskActive
<1>3. x = [run[r] EXCEPT !.aborted = TRUE, !.action = how, !.finalizing = b,
                         !.kill = b, !.status = "interrupted"]
  BY <1>1, <1>2, Zenon DEF Aborted
<1>4. x \in RunRecord
  BY <1>0, <1>3 DEF RunRecord, Terminal
<1>5. x.snapped = run[r].snapped /\ x.phase = run[r].phase /\ x.aborted = TRUE /\ x.finalizing = b /\ x.kill = b
      /\ x.status = "interrupted"
  BY <1>0, <1>3 DEF RunRecord
<1>6. /\ lock = 0 /\ UNCHANGED <<lock, admission, checkpoint>>
      /\ run' = [run EXCEPT ![r] = x]
      /\ untasked' = IF b THEN untasked ELSE untasked \cup {r}
  BY <1>1, <1>2 DEF Cancel
<1>7. run[r].status \notin Terminal /\ PastAdmission(r)
  <2>1. \A q \in Runs : q # 0
    BY RunBounds DEF Runs
  <2> QED BY <1>6, <2>1 DEF Cancel, Active, InMemory, Terminal, ThreadInv, InOrder, PastAdmission
<1>8. r \notin untasked' => KeptRecord(x)
  <2> SUFFICES ASSUME r \notin untasked' PROVE KeptRecord(x)
    OBVIOUS
  <2>1. r \notin untasked /\ b
    BY <1>6
  <2>2. KeptRecord(run[r])
    BY <2>1 DEF ThreadInv, Kept
  <2>3. run[r].phase \in Try \cup {"created"}
    BY <1>0, <1>2, <1>7, <2>1, <2>2 DEF KeptRecord, TaskActive, RunRecord, Phases
  <2> QED BY <1>5, <2>1, <2>3 DEF KeptRecord, Terminal, Try
<1> QED
  BY <1>0, <1>4, <1>5, <1>6, <1>7, <1>8, OwnStep DEF PastAdmission, Entered, InGraph, Terminal

\* create_or_reject takes the lock: the runs it finds in flight.
LEMMA AdmitInv ==
    ASSUME ThreadInv, NEW r \in Runs, NEW strategy \in Strategies, Admit(r, strategy)
    PROVE  ThreadInv'
<1>0. run \in [Runs -> RunRecord] /\ run[r] \in RunRecord
  BY DEF ThreadInv, RunsTypeOK, RunRecord
<1>1. PICK x : x = [run[r] EXCEPT !.phase = "admitting"]
  OBVIOUS
<1>2. x \in RunRecord /\ run' = [run EXCEPT ![r] = x]
  BY <1>0, <1>1 DEF Admit, RunRecord, Phases
<1>3. /\ x.phase = "admitting" /\ x.status = run[r].status
      /\ x.finalizing = run[r].finalizing /\ x.snapped = run[r].snapped /\ x.kill = run[r].kill /\ x.aborted = run[r].aborted
  BY <1>0, <1>1 DEF RunRecord
<1>4. run'[r] = x /\ \A q \in Runs \ {r} : run'[q] = run[q]
  BY <1>0, <1>2
<1>5. /\ lock = 0 /\ lock' = r /\ run[r].phase = "none"
      /\ \A q \in Runs : q < r => run[q].phase # "none"
      /\ UNCHANGED <<checkpoint, untasked>>
  BY DEF Admit
<1>6. PICK found \in SUBSET Runs : found = {q \in Runs : Inflight(q)}
  OBVIOUS
<1>7. /\ admission' = [strategy |-> strategy, inflight |-> found]
      /\ strategy = "reject" => found = {}
  BY <1>6 DEF Admit
<1>8. \A q \in Runs : q # 0 /\ run[q].phase # "admitting"
  BY <1>5, RunBounds DEF Runs, ThreadInv, InOrder
<1>11. RunsTypeOK'
  BY <1>0, <1>2, <1>5, <1>7 DEF ThreadInv, RunsTypeOK, RunRecord, Runs, Strategies
<1>12. InOrder'
  <2>1. \A q \in Runs : q > r => run[q].phase = "none"
    BY <1>5 DEF ThreadInv, InOrder
  <2> QED BY <1>3, <1>4, <1>5, <1>8, <2>1 DEF InOrder, Runs
<1>13. Found'
  <2>1. \A q \in Runs \ {r} : Inflight(q)' <=> Inflight(q)
    BY <1>4 DEF Inflight, InMemory, Active
  <2>2. ~Inflight(r)
    BY <1>5 DEF Inflight, InMemory
  <2>3. admission'.inflight = found /\ admission'.strategy = strategy
    BY <1>7
  <2> QED BY <1>5, <1>6, <1>7, <2>1, <2>2, <2>3 DEF Found
<1>14. Kept'
  <2>1. r \notin untasked => KeptRecord(run[r])
    BY DEF ThreadInv, Kept
  <2>2. r \notin untasked => KeptRecord(x)
    BY <1>3, <1>5, <2>1 DEF KeptRecord, Try
  <2> QED BY <1>4, <1>5, <2>2 DEF ThreadInv, Kept
<1>15. Replaced' /\ Settled'
  BY <1>3, <1>4, <1>5 DEF ThreadInv, Replaced, Settled, PastAdmission, InGraph, Entered
<1> QED BY <1>11, <1>12, <1>13, <1>14, <1>15 DEF ThreadInv

\* The row could not be stored.
LEMMA AdmitFailsInv ==
    ASSUME ThreadInv, NEW r \in Runs, AdmitFails(r)
    PROVE  ThreadInv'
<1>0. run \in [Runs -> RunRecord] /\ run[r] \in RunRecord
  BY DEF ThreadInv, RunsTypeOK, RunRecord
<1>1. PICK x : x = [run[r] EXCEPT !.phase = "refused"]
  OBVIOUS
<1>2. x \in RunRecord /\ run' = [run EXCEPT ![r] = x]
  BY <1>0, <1>1 DEF AdmitFails, RunRecord, Phases
<1>3. /\ x.phase = "refused" /\ x.status = run[r].status
      /\ x.finalizing = run[r].finalizing /\ x.snapped = run[r].snapped /\ x.kill = run[r].kill /\ x.aborted = run[r].aborted
  BY <1>0, <1>1 DEF RunRecord
<1>4. run'[r] = x /\ \A q \in Runs \ {r} : run'[q] = run[q]
  BY <1>0, <1>2
<1>5. /\ lock = r /\ lock' = 0 /\ run[r].phase = "admitting" /\ \A q \in Runs : q # 0
      /\ admission' = [strategy |-> "reject", inflight |-> {}] /\ UNCHANGED <<checkpoint, untasked>>
  BY RunBounds DEF AdmitFails, ThreadInv, InOrder, Runs
<1>6. RunsTypeOK'
  BY <1>0, <1>2, <1>5, RunBounds DEF ThreadInv, RunsTypeOK, RunRecord, Runs, Strategies
<1>7. InOrder'
  BY <1>3, <1>4, <1>5 DEF ThreadInv, InOrder, Runs
<1>8. Found'
  BY <1>5 DEF Found
<1>9. Kept'
  <2>1. r \notin untasked => KeptRecord(run[r])
    BY DEF ThreadInv, Kept
  <2>2. r \notin untasked => KeptRecord(x)
    BY <1>3, <1>5, <2>1 DEF KeptRecord, Try
  <2> QED BY <1>4, <1>5, <2>2 DEF ThreadInv, Kept
<1>10. Replaced' /\ Settled'
  BY <1>3, <1>4, <1>5 DEF ThreadInv, Replaced, Settled, PastAdmission, InGraph, Entered
<1> QED BY <1>6, <1>7, <1>8, <1>9, <1>10 DEF ThreadInv

\* The admission ends: every run it found in flight and not finalizing is aborted.
LEMMA AdmittedInv ==
    ASSUME ThreadInv, NEW r \in Runs, Admitted(r)
    PROVE  ThreadInv'
<1>0. run \in [Runs -> RunRecord] /\ run[r] \in RunRecord /\ \A q \in Runs : run[q] \in RunRecord
  BY DEF ThreadInv, RunsTypeOK, RunRecord
<1>1. PICK victims : victims = IF admission.strategy = "reject" THEN {}
                               ELSE {q \in admission.inflight : ~run[q].finalizing}
  OBVIOUS
<1>2. /\ lock = r /\ lock' = 0 /\ UNCHANGED checkpoint
      /\ admission' = [strategy |-> "reject", inflight |-> {}]
      /\ untasked' = untasked \cup {q \in victims : ~TaskActive(q)}
      /\ run' = [q \in Runs |->
                   IF q = r THEN [run[r] EXCEPT !.phase = "launching"]
                   ELSE IF q \in victims THEN Aborted(q, admission.strategy)
                   ELSE run[q]]
  BY <1>1, Zenon DEF Admitted
<1>3. /\ run[r].phase = "admitting" /\ r \notin victims /\ victims \subseteq Runs
      /\ \A q \in Runs \ {r} : run[q].phase # "admitting" /\ q # 0
      /\ \A q \in Runs : q < r => run[q].phase # "none"
  BY <1>1, <1>2, RunBounds DEF ThreadInv, InOrder, Found, RunsTypeOK, Runs
<1>4. \A q \in Runs \ {r} : /\ q \in victims <=> (Inflight(q) /\ ~run[q].finalizing)
                            /\ q \in victims => admission.strategy \in {"interrupt", "rollback"}
  BY <1>1, <1>2 DEF ThreadInv, Found, RunsTypeOK, Strategies
<1>5. PICK x : x = [run[r] EXCEPT !.phase = "launching"]
  OBVIOUS
<1>6. /\ x \in RunRecord /\ x.phase = "launching" /\ x.status = run[r].status
      /\ x.finalizing = run[r].finalizing /\ x.snapped = run[r].snapped /\ x.kill = run[r].kill /\ x.aborted = run[r].aborted
  BY <1>0, <1>5 DEF RunRecord, Phases
<1>7. run'[r] = x /\ \A q \in Runs \ ({r} \cup victims) : run'[q] = run[q]
  BY <1>2, <1>5
<1>8. ASSUME NEW q \in victims
      PROVE  /\ run'[q] \in RunRecord /\ run'[q].phase = run[q].phase
             /\ run'[q].status = "interrupted" /\ run'[q].aborted = TRUE
             /\ run'[q].snapped = run[q].snapped
             /\ run'[q].finalizing = TaskActive(q) /\ run'[q].kill = TaskActive(q)
             /\ run[q].status \notin Terminal
             /\ run[q].phase \notin {"none", "refused", "admitting"}
  <2>1. PICK b \in BOOLEAN : b = TaskActive(q)
    BY DEF TaskActive
  <2>2. q \in Runs \ {r} /\ admission.strategy \in {"interrupt", "rollback"}
    BY <1>3, <1>4
  <2>3. run'[q] = Aborted(q, admission.strategy)
    BY <1>2, <2>2
  <2>4. run'[q] = [run[q] EXCEPT !.aborted = TRUE, !.action = admission.strategy,
                                 !.finalizing = b, !.kill = b, !.status = "interrupted"]
    BY <2>1, <2>3, Zenon DEF Aborted
  <2>5. run'[q] \in RunRecord
    BY <1>0, <2>2, <2>4 DEF RunRecord, Terminal
  <2>6. /\ run'[q].snapped = run[q].snapped
        /\ run'[q].phase = run[q].phase /\ run'[q].status = "interrupted"
        /\ run'[q].aborted = TRUE /\ run'[q].finalizing = b /\ run'[q].kill = b
    BY <1>0, <2>2, <2>4 DEF RunRecord
  <2>7. Inflight(q) /\ ~run[q].finalizing
    BY <1>4, <2>2
  <2>8. run[q].status \notin Terminal /\ run[q].phase \notin {"none", "refused", "admitting"}
    BY <1>3, <2>2, <2>7 DEF Inflight, Active, InMemory, Terminal
  <2> QED BY <2>1, <2>5, <2>6, <2>8
<1>10. RunsTypeOK'
  <2>1. \A q \in Runs : run'[q] \in RunRecord
    BY <1>0, <1>6, <1>7, <1>8
  <2>2. run' \in [Runs -> RunRecord]
    BY <1>2, <2>1
  <2>3. untasked' \subseteq Runs /\ lock' \in 0 .. MaxRun /\ checkpoint' \in Seq(Runs)
        /\ admission' \in [strategy : Strategies, inflight : SUBSET Runs]
    BY <1>2, <1>3, RunBounds DEF ThreadInv, RunsTypeOK, Strategies
  <2> QED BY <2>2, <2>3 DEF RunsTypeOK, RunRecord
<1>11. InOrder'
  <2>1. \A q \in Runs : run'[q].phase = IF q = r THEN "launching" ELSE run[q].phase
    BY <1>6, <1>7, <1>8
  <2>2. \A q \in Runs : q # 0
    BY RunBounds DEF Runs
  <2>3. \A q, u \in Runs : q < u /\ run[u].phase # "none" => run[q].phase # "none"
    BY DEF ThreadInv, InOrder
  <2>4. \A q \in Runs : run[q].phase = "none" <=> run'[q].phase = "none"
    BY <1>3, <2>1
  <2> QED BY <1>2, <1>3, <2>1, <2>2, <2>3, <2>4 DEF InOrder
<1>12. Found'
  BY <1>2, RunBounds DEF Found, Runs
<1>13. Kept'
  <2> SUFFICES ASSUME NEW q \in Runs, q \notin untasked' PROVE KeptRecord(run'[q])
    BY DEF Kept
  <2>1. KeptRecord(run[q])
    BY <1>2 DEF ThreadInv, Kept
  <2>2. CASE q = r
    BY <1>3, <1>6, <1>7, <2>1, <2>2 DEF KeptRecord, Try
  <2>3. CASE q \in victims
    <3>1. TaskActive(q)
      BY <1>2, <2>3
    <3>2. run[q].phase \in Try \cup {"created"}
      BY <1>0, <1>8, <2>1, <2>3, <3>1 DEF KeptRecord, TaskActive, RunRecord, Phases
    <3> QED BY <1>8, <2>3, <3>1, <3>2 DEF KeptRecord, Terminal, Try
  <2>4. CASE q \notin victims /\ q # r
    BY <1>7, <2>1, <2>4
  <2> QED BY <2>2, <2>3, <2>4
<1>14. Replaced'
  <2> SUFFICES ASSUME NEW q \in Runs, NEW u \in Runs, q < u, PastAdmission(u)', q \notin untasked'
               PROVE  run'[q].phase = "refused"
                      \/ (PastAdmission(q)' /\ run'[q].status \in Terminal)
    BY DEF Replaced
  <2>1. CASE q \in victims
    BY <1>8, <2>1 DEF PastAdmission, Terminal
  <2>2. CASE q \notin victims /\ u = r
    <3>1. q # r /\ q < r
      BY <2>2 DEF Runs
    <3>2. run'[q] = run[q] /\ run[q].phase \notin {"none", "admitting"}
      BY <1>3, <1>7, <2>2, <3>1
    <3>3. CASE run[q].phase = "refused"
      BY <3>2, <3>3
    <3>4. CASE run[q].phase # "refused"
      <4>1. PastAdmission(q) /\ InMemory(q)
        BY <3>2, <3>4 DEF PastAdmission, InMemory
      <4>2. run[q].status \in Terminal
        <5>1. CASE Active(q)
          <6>1. run[q].finalizing
            BY <1>4, <2>2, <3>1, <4>1, <5>1 DEF Inflight
          <6>2. KeptRecord(run[q])
            BY <1>2 DEF ThreadInv, Kept
          <6> QED BY <1>0, <3>2, <3>4, <6>1, <6>2 DEF KeptRecord, RunRecord, Phases
        <5>2. CASE ~Active(q)
          BY <1>0, <5>2 DEF Active, RunRecord
        <5> QED BY <5>1, <5>2
      <4> QED BY <3>2, <4>1, <4>2 DEF PastAdmission
    <3> QED BY <3>3, <3>4
  <2>3. CASE q \notin victims /\ u # r
    <3>1. PastAdmission(u)
      BY <1>7, <1>8, <2>3 DEF PastAdmission
    <3>2. run[q].phase = "refused" \/ (PastAdmission(q) /\ run[q].status \in Terminal)
      BY <1>2, <3>1 DEF ThreadInv, Replaced
    <3>3. q # r
      BY <1>3, <3>2 DEF PastAdmission
    <3> QED BY <1>7, <2>3, <3>2, <3>3 DEF PastAdmission
  <2> QED BY <2>1, <2>2, <2>3
<1>15. Settled'
  <2> SUFFICES ASSUME NEW q \in Runs, NEW u \in Runs, q < u, Entered(u)', q \notin untasked'
               PROVE  run'[q].phase = "refused"
                      \/ (PastAdmission(q)' /\ run'[q].status \in Terminal /\ ~run'[q].finalizing)
    BY DEF Settled
  <2>1. Entered(u)
    BY <1>6, <1>7, <1>8 DEF Entered, InGraph
  <2>2. run[q].phase = "refused"
        \/ (PastAdmission(q) /\ run[q].status \in Terminal /\ ~run[q].finalizing)
    BY <1>2, <2>1 DEF ThreadInv, Settled
  <2>3. q \notin victims /\ q # r
    BY <1>3, <1>8, <2>2 DEF PastAdmission
  <2> QED BY <1>7, <2>2, <2>3 DEF PastAdmission
<1> QED BY <1>10, <1>11, <1>12, <1>13, <1>14, <1>15 DEF ThreadInv

LEMMA ThreadNextInv == ThreadInv /\ [RunNext]_runVars => ThreadInv'
<1> SUFFICES ASSUME ThreadInv, [RunNext]_runVars PROVE ThreadInv'
  OBVIOUS
<1>1. ASSUME NEW r \in Runs, Step(r) PROVE ThreadInv'
  BY <1>1, AdmittedInv, AdmitFailsInv, TaskStepsInv, EndingsInv, CleanupInv DEF Step, TaskSteps
<1>2. CASE UNCHANGED runVars
  BY <1>2 DEF runVars, ThreadInv, RunsTypeOK, InOrder, Found, Inflight, InMemory, Active,
     Kept, Replaced, Settled, PastAdmission, Entered, InGraph
<1> QED BY <1>1, <1>2, AdmitInv, CancelInv DEF RunNext

\* Order, admission and records agree in every state of RunSpec.
THEOREM ThreadInvariant == RunSpec => []ThreadInv
BY ThreadInitInv, ThreadNextInv, PTL DEF RunSpec

LEMMA ThreadInvSerialises == ThreadInv => Serialised
<1> SUFFICES ASSUME ThreadInv, NEW q \in Runs, NEW r \in Runs, q < r, q \notin untasked, InGraph(r)
             PROVE  ~InGraph(q) /\ ~InCleanup(q)
  BY DEF Serialised
<1>1. run[q].phase = "refused" \/ (run[q].status \in Terminal /\ ~run[q].finalizing)
  BY DEF ThreadInv, Settled, Entered
<1>2. KeptRecord(run[q])
  BY DEF ThreadInv, Kept
<1>3. run[q] \in RunRecord
  BY DEF ThreadInv, RunsTypeOK, RunRecord
<1> QED BY <1>1, <1>2, <1>3 DEF KeptRecord, InGraph, InCleanup, Try, RunRecord

\* For any number of runs of a thread and any interleaving of requests, tasks and
\* cancels: no run is in the graph beside an older one that is there too or is
\* rolling back or writing its title, except an older one that was aborted before
\* it had a task (create_or_reject, wait_for_prior_finalizing, set_finalizing).
THEOREM RunsSerialised == RunSpec => []Serialised
BY ThreadInvariant, ThreadInvSerialises, PTL

(***************************************************************************)
(* What cleanup writes back.  A run about to restore a snapshot or to      *)
(* write a title keeps a checkpoint that has all the messages of the other *)
(* runs: nobody else has written since it was read.                        *)
(***************************************************************************)
KeepsSnapshot(r) ==
    \/ run[r].phase = "titled"
    \/ run[r].snapped = "taken" /\ run[r].phase \in {"streaming", "settling", "rollingback"}

Complements(s, r) == \A q \in Runs \ {r} : CountOf(checkpoint, q) <= CountOf(s, q)

SnapshotsWhole ==
    untasked = {} => \A r \in Runs : KeepsSnapshot(r) => Complements(run[r].snapshot, r)

NotYetInGraph ==
    {"none", "admitting", "refused", "launching", "stranded", "created", "killed",
     "waiting", "snapshotting"}

NothingKept ==
    /\ \A r \in Runs : run[r].phase \in NotYetInGraph => run[r].snapped = "none"
    /\ \A r \in Runs : run[r].phase \notin {"titled", "closing"} /\ run[r].snapped # "taken" =>
          run[r].snapshot = <<>>

SnapshotInv == SnapshotsWhole /\ NothingKept

LEMMA CountType ==
    ASSUME NEW s \in Seq(Runs), NEW q PROVE CountOf(s, q) \in Nat
<1>1. IsFiniteSet(1 .. Len(s)) /\ {i \in DOMAIN s : s[i] = q} \subseteq 1 .. Len(s)
  BY FS_Interval
<1> QED BY <1>1, FS_Subset, FS_CardinalityType DEF CountOf

LEMMA CountEmpty == \A q : CountOf(<<>>, q) = 0
<1> TAKE q
<1>1. {i \in DOMAIN <<>> : <<>>[i] = q} = {}
  OBVIOUS
<1> QED BY <1>1, FS_EmptySet DEF CountOf

LEMMA CountAppend ==
    ASSUME NEW s \in Seq(Runs), NEW r \in Runs, NEW q \in Runs
    PROVE  /\ q # r => CountOf(Append(s, r), q) = CountOf(s, q)
           /\ CountOf(s, q) <= CountOf(Append(s, r), q)
<1>0. /\ Append(s, r) \in Seq(Runs) /\ Len(Append(s, r)) = Len(s) + 1 /\ Len(s) \in Nat
      /\ DOMAIN s = 1 .. Len(s) /\ DOMAIN Append(s, r) = 1 .. Len(s) + 1
      /\ \A i \in 1 .. Len(s) : Append(s, r)[i] = s[i]
      /\ Append(s, r)[Len(s) + 1] = r
  OBVIOUS
<1>1. PICK A, B : A = {i \in DOMAIN s : s[i] = q}
                  /\ B = {i \in DOMAIN Append(s, r) : Append(s, r)[i] = q}
  OBVIOUS
<1>2. A \subseteq B /\ (q # r => A = B)
  BY <1>0, <1>1
<1>3. IsFiniteSet(B)
  <2>1. IsFiniteSet(1 .. Len(s) + 1) /\ B \subseteq 1 .. Len(s) + 1
    BY <1>0, <1>1, FS_Interval
  <2> QED BY <2>1, FS_Subset
<1>4. Cardinality(A) <= Cardinality(B)
  BY <1>2, <1>3, FS_Subset
<1>5. CountOf(s, q) = Cardinality(A) /\ CountOf(Append(s, r), q) = Cardinality(B)
  BY <1>1 DEF CountOf
<1> QED BY <1>2, <1>4, <1>5

LEMMA SnapshotInitInv == RunInit => SnapshotInv
<1>1. NoRun.phase = "none" /\ NoRun.snapped = "none" /\ NoRun.snapshot = <<>>
  BY DEF NoRun
<1> QED BY <1>1 DEF RunInit, SnapshotInv, SnapshotsWhole, NothingKept, KeepsSnapshot

\* A step that leaves the checkpoint alone: a run keeps the snapshot it kept, or
\* the checkpoint as it is.
LEMMA QuietStep ==
    ASSUME RunsTypeOK, SnapshotInv, checkpoint' = checkpoint, untasked \subseteq untasked',
           \A r \in Runs :
              \/ /\ run'[r].snapshot = run[r].snapshot /\ run'[r].snapped = run[r].snapped
                 /\ KeepsSnapshot(r)' => KeepsSnapshot(r)
                 /\ run'[r].phase \notin {"titled", "closing"} =>
                       run[r].phase \notin {"titled", "closing"}
              \/ /\ run'[r].snapshot = checkpoint
                 /\ run'[r].phase = "titled" \/ run'[r].snapped = "taken"
              \/ run'[r].snapshot = <<>> /\ ~KeepsSnapshot(r)',
           \A r \in Runs : run'[r].phase \in NotYetInGraph => run'[r].snapped = "none"
    PROVE  SnapshotInv'
<1>1. \A q \in Runs : CountOf(checkpoint, q) \in Nat
  BY CountType DEF RunsTypeOK
<1>2. \A r \in Runs : Complements(checkpoint, r)
  BY <1>1 DEF Complements
<1>3. SnapshotsWhole'
  <2> SUFFICES ASSUME untasked' = {}, NEW r \in Runs, KeepsSnapshot(r)'
               PROVE  Complements(run[r].snapshot, r)'
    BY DEF SnapshotsWhole
  <2>2. CASE KeepsSnapshot(r) /\ run'[r].snapshot = run[r].snapshot
    <3>1. Complements(run[r].snapshot, r)
      BY <2>2 DEF SnapshotInv, SnapshotsWhole
    <3> QED BY <2>2, <3>1 DEF Complements
  <2>3. CASE run'[r].snapshot = checkpoint
    BY <1>2, <2>3 DEF Complements
  <2> QED BY <2>2, <2>3
<1>4. NothingKept'
  BY DEF SnapshotInv, NothingKept
<1> QED BY <1>3, <1>4 DEF SnapshotInv

\* Steps of r that change neither its snapshot nor the thread.
LEMMA QuietOwn ==
    ASSUME ThreadInv, SnapshotInv, NEW r \in Runs, NEW x,
           run' = [run EXCEPT ![r] = x], checkpoint' = checkpoint, untasked \subseteq untasked',
           x.snapshot = run[r].snapshot, x.snapped = run[r].snapped,
           x.phase = "titled" => run[r].phase = "titled",
           run[r].phase \in {"titled", "closing"} => x.phase \in {"titled", "closing"},
           x.phase \in {"streaming", "settling", "rollingback"} =>
               run[r].phase \in NotYetInGraph \cup {"streaming", "settling", "rollingback"},
           x.phase \in NotYetInGraph => run[r].phase \in NotYetInGraph
    PROVE  SnapshotInv'
<1>0. run'[r] = x /\ \A q \in Runs \ {r} : run'[q] = run[q]
  BY DEF ThreadInv, RunsTypeOK
<1>1. ASSUME NEW q \in Runs
      PROVE  /\ run'[q].snapshot = run[q].snapshot /\ run'[q].snapped = run[q].snapped
             /\ KeepsSnapshot(q)' => KeepsSnapshot(q)
             /\ run'[q].phase \notin {"titled", "closing"} => run[q].phase \notin {"titled", "closing"}
             /\ run'[q].phase \in NotYetInGraph => run'[q].snapped = "none"
  <2>1. CASE q = r
    BY <1>0, <2>1 DEF KeepsSnapshot, SnapshotInv, NothingKept
  <2>2. CASE q # r
    BY <1>0, <2>2 DEF KeepsSnapshot, SnapshotInv, NothingKept
  <2> QED BY <2>1, <2>2
<1>2. RunsTypeOK
  BY DEF ThreadInv
<1> QED BY <1>1, <1>2, QuietStep

LEMMA QuietSteps ==
    ASSUME ThreadInv, SnapshotInv, NEW r \in Runs,
           \/ Launch(r) \/ LaunchFails(r) \/ FirstStep(r) \/ StartRunning(r)
           \/ Settle(r) \/ Cancelled(r) \/ Fail(r) \/ AdmitFails(r)
           \/ \E strategy \in Strategies : Admit(r, strategy)
           \/ \E how \in {"interrupt", "rollback"} : Cancel(r, how)
    PROVE  SnapshotInv'
<1>0. run \in [Runs -> RunRecord] /\ run[r] \in RunRecord
  BY DEF ThreadInv, RunsTypeOK, RunRecord
<1>1. ASSUME NEW p, run' = [run EXCEPT ![r].phase = p],
             checkpoint' = checkpoint, untasked' = untasked,
             run[r].phase \in NotYetInGraph, p \in NotYetInGraph
      PROVE  SnapshotInv'
  <2>1. PICK x : x = [run[r] EXCEPT !.phase = p]
    OBVIOUS
  <2>2. x.phase = p /\ x.snapshot = run[r].snapshot /\ x.snapped = run[r].snapped
    BY <1>0, <2>1 DEF RunRecord
  <2>3. run' = [run EXCEPT ![r] = x]
    BY <1>1, <2>1
  <2> QED BY <1>1, <2>2, <2>3, QuietOwn, ZenonT(40) DEF NotYetInGraph
<1>2. CASE Launch(r) \/ LaunchFails(r)
  BY <1>1, <1>2 DEF Launch, LaunchFails, NotYetInGraph
<1>3. CASE FirstStep(r)
  <2>1. PICK p : p = IF run[r].kill THEN "killed" ELSE "waiting"
    OBVIOUS
  <2> QED BY <1>1, <1>3, <2>1 DEF FirstStep, NotYetInGraph
<1>4. CASE AdmitFails(r) \/ \E strategy \in Strategies : Admit(r, strategy)
  <2>1. lock = r => run[r].phase = "admitting"
    BY DEF ThreadInv, InOrder
  <2> QED BY <1>1, <1>4, <2>1 DEF AdmitFails, Admit, NotYetInGraph
<1>5. CASE StartRunning(r)
  <2>1. PICK x : x = [run[r] EXCEPT !.phase = "snapshotting", !.status = "running"]
    OBVIOUS
  <2>2. x.phase = "snapshotting" /\ x.snapshot = run[r].snapshot /\ x.snapped = run[r].snapped
    BY <1>0, <2>1 DEF RunRecord
  <2>3. run' = [run EXCEPT ![r] = x]
    BY <1>5, <2>1 DEF StartRunning
  <2> QED BY <1>5, <2>2, <2>3, QuietOwn DEF NotYetInGraph, StartRunning
<1>6. ASSUME run[r].phase \in Try, Unwind(r), checkpoint' = checkpoint, untasked' = untasked
      PROVE  SnapshotInv'
  <2>1. PICK final : final = IF run[r].action = "rollback" THEN "error" ELSE "interrupted"
    OBVIOUS
  <2>2. PICK p : p = IF final = "error" THEN "rollingback" ELSE "titling"
    OBVIOUS
  <2>3. PICK x : x = [run[r] EXCEPT !.kill = FALSE, !.finalizing = TRUE, !.status = final,
                                    !.phase = p]
    OBVIOUS
  <2>4. x.phase = p /\ x.snapshot = run[r].snapshot /\ x.snapped = run[r].snapped
    BY <1>0, <2>3 DEF RunRecord
  <2>5. run' = [run EXCEPT ![r] = x]
    BY <1>6, <2>1, <2>2, <2>3 DEF Unwind
  <2> QED BY <1>6, <2>2, <2>4, <2>5, QuietOwn DEF NotYetInGraph, Try
<1>7. CASE Cancelled(r) \/ (Settle(r) /\ run[r].aborted)
  BY <1>6, <1>7 DEF Cancelled, Settle, Try
<1>8. CASE Fail(r) \/ (Settle(r) /\ ~run[r].aborted)
  <2>1. PICK final \in {"success", "error"} :
           run' = [run EXCEPT ![r].status = final, ![r].phase = "titling"]
    BY <1>8 DEF Fail, Settle
  <2>2. PICK x : x = [run[r] EXCEPT !.status = final, !.phase = "titling"]
    OBVIOUS
  <2>3. x.phase = "titling" /\ x.snapshot = run[r].snapshot /\ x.snapped = run[r].snapped
    BY <1>0, <2>2 DEF RunRecord
  <2>4. run' = [run EXCEPT ![r] = x]
    BY <2>1, <2>2
  <2>5. run[r].phase \in Try /\ checkpoint' = checkpoint /\ untasked' = untasked
    BY <1>8 DEF Fail, Settle, Try
  <2> QED BY <2>3, <2>4, <2>5, QuietOwn DEF NotYetInGraph, Try
<1>9. ASSUME NEW how \in {"interrupt", "rollback"}, Cancel(r, how)
      PROVE  SnapshotInv'
  <2>1. PICK b \in BOOLEAN : b = TaskActive(r)
    BY DEF TaskActive
  <2>2. PICK x : x = [run[r] EXCEPT !.aborted = TRUE, !.action = how, !.finalizing = b,
                                    !.kill = b, !.status = "interrupted"]
    OBVIOUS
  <2>3. x.phase = run[r].phase /\ x.snapshot = run[r].snapshot /\ x.snapped = run[r].snapped
    BY <1>0, <2>2 DEF RunRecord
  <2>4. run' = [run EXCEPT ![r] = x]
    BY <1>9, <2>1, <2>2, Zenon DEF Cancel, Aborted
  <2>5. checkpoint' = checkpoint /\ untasked \subseteq untasked'
    BY <1>9 DEF Cancel
  <2> QED BY <2>3, <2>4, <2>5, QuietOwn
<1> QED BY <1>2, <1>3, <1>4, <1>5, <1>7, <1>8, <1>9

\* The steps that end an admission, or read or drop a snapshot.
LEMMA ReadingSteps ==
    ASSUME ThreadInv, SnapshotInv, NEW r \in Runs,
           Admitted(r) \/ TakeSnapshot(r) \/ TitleRead(r) \/ Close(r)
    PROVE  SnapshotInv'
<1>0. /\ RunsTypeOK /\ run \in [Runs -> RunRecord] /\ run[r] \in RunRecord
      /\ \A q \in Runs : run[q] \in RunRecord
  BY DEF ThreadInv, RunsTypeOK, RunRecord
<1>1. ASSUME NEW x, run' = [run EXCEPT ![r] = x], checkpoint' = checkpoint, untasked' = untasked,
             \/ x.snapshot = checkpoint /\ (x.phase = "titled" \/ x.snapped = "taken")
             \/ /\ x.snapshot = <<>> /\ x.snapped # "taken" /\ x.phase # "titled",
             x.phase \notin NotYetInGraph
      PROVE  SnapshotInv'
  <2>1. run'[r] = x /\ \A q \in Runs \ {r} : run'[q] = run[q]
    BY <1>0, <1>1
  <2>2. \A q \in Runs : run'[q].phase \in NotYetInGraph => run'[q].snapped = "none"
    BY <1>1, <2>1 DEF SnapshotInv, NothingKept
  <2>3. \A q \in Runs \ {r} :
           /\ run'[q].snapshot = run[q].snapshot /\ run'[q].snapped = run[q].snapped
           /\ KeepsSnapshot(q)' => KeepsSnapshot(q)
           /\ run'[q].phase \notin {"titled", "closing"} => run[q].phase \notin {"titled", "closing"}
    BY <2>1 DEF KeepsSnapshot
  <2>4. \/ run'[r].snapshot = checkpoint /\ (run'[r].phase = "titled" \/ run'[r].snapped = "taken")
        \/ run'[r].snapshot = <<>> /\ ~KeepsSnapshot(r)'
    BY <1>1, <2>1 DEF KeepsSnapshot
  <2> QED BY <1>0, <1>1, <2>2, <2>3, <2>4, QuietStep
<1>2. CASE TakeSnapshot(r)
  <2>1. PICK sn \in {"none", "taken", "failed"} :
           run' = [run EXCEPT ![r].phase = "streaming", ![r].snapped = sn,
                              ![r].snapshot = IF sn = "taken" THEN checkpoint ELSE <<>>]
    BY <1>2 DEF TakeSnapshot
  <2>2. PICK c : c = IF sn = "taken" THEN checkpoint ELSE <<>>
    OBVIOUS
  <2>3. PICK x : x = [run[r] EXCEPT !.phase = "streaming", !.snapped = sn, !.snapshot = c]
    OBVIOUS
  <2>4. x.phase = "streaming" /\ x.snapped = sn /\ x.snapshot = c
    BY <1>0, <2>3 DEF RunRecord
  <2>5. run' = [run EXCEPT ![r] = x]
    BY <2>1, <2>2, <2>3
  <2>6. checkpoint' = checkpoint /\ untasked' = untasked
    BY <1>2 DEF TakeSnapshot
  <2> QED BY <1>1, <2>2, <2>4, <2>5, <2>6 DEF NotYetInGraph
<1>3. CASE TitleRead(r)
  <2>1. PICK x : x = [run[r] EXCEPT !.phase = "titled", !.snapshot = checkpoint]
    OBVIOUS
  <2>2. x.phase = "titled" /\ x.snapshot = checkpoint
    BY <1>0, <2>1 DEF RunRecord
  <2>3. run' = [run EXCEPT ![r] = x] /\ checkpoint' = checkpoint /\ untasked' = untasked
    BY <1>3, <2>1 DEF TitleRead
  <2> QED BY <1>1, <2>2, <2>3 DEF NotYetInGraph
<1>4. CASE Close(r)
  <2>1. PICK x : x = [run[r] EXCEPT !.phase = "done", !.finalizing = FALSE, !.ended = TRUE,
                          !.snapshot = <<>>, !.snapped = "none",
                          !.aborted = FALSE, !.action = "interrupt"]
    OBVIOUS
  <2>2. x.phase = "done" /\ x.snapshot = <<>> /\ x.snapped = "none"
    BY <1>0, <2>1 DEF RunRecord
  <2>3. run' = [run EXCEPT ![r] = x] /\ checkpoint' = checkpoint /\ untasked' = untasked
    BY <1>4, <2>1, Zenon DEF Close
  <2> QED BY <1>1, <2>2, <2>3 DEF NotYetInGraph
<1>5. CASE Admitted(r)
  <2>1. PICK victims : victims = IF admission.strategy = "reject" THEN {}
                                 ELSE {q \in admission.inflight : ~run[q].finalizing}
    OBVIOUS
  <2>2. /\ lock = r /\ UNCHANGED checkpoint /\ untasked \subseteq untasked'
        /\ run' = [q \in Runs |->
                     IF q = r THEN [run[r] EXCEPT !.phase = "launching"]
                     ELSE IF q \in victims THEN Aborted(q, admission.strategy)
                     ELSE run[q]]
    BY <1>5, <2>1, Zenon DEF Admitted
  <2>3. run[r].phase = "admitting"
    BY <2>2 DEF ThreadInv, InOrder
  <2>4. ASSUME NEW q \in Runs
        PROVE  /\ run'[q].snapshot = run[q].snapshot /\ run'[q].snapped = run[q].snapped
               /\ run'[q].phase = IF q = r THEN "launching" ELSE run[q].phase
    <3>1. CASE q = r
      <4>1. run'[q] = [run[r] EXCEPT !.phase = "launching"]
        BY <2>2, <3>1
      <4> QED BY <1>0, <3>1, <4>1 DEF RunRecord
    <3>2. CASE q # r /\ q \in victims
      <4>1. run'[q] = [run[q] EXCEPT !.aborted = TRUE, !.action = admission.strategy,
                            !.finalizing = TaskActive(q), !.kill = TaskActive(q),
                            !.status = "interrupted"]
        BY <2>2, <3>2, Zenon DEF Aborted
      <4> QED BY <1>0, <3>2, <4>1 DEF RunRecord
    <3>3. CASE q # r /\ q \notin victims
      BY <2>2, <3>3
    <3> QED BY <3>1, <3>2, <3>3
  <2>5. \A q \in Runs :
           /\ KeepsSnapshot(q)' => KeepsSnapshot(q)
           /\ run'[q].phase \notin {"titled", "closing"} => run[q].phase \notin {"titled", "closing"}
           /\ run'[q].phase \in NotYetInGraph => run'[q].snapped = "none"
    BY <2>3, <2>4 DEF KeepsSnapshot, SnapshotInv, NothingKept, NotYetInGraph
  <2> QED BY <1>0, <2>2, <2>4, <2>5, QuietStep
<1> QED BY <1>2, <1>3, <1>4, <1>5

\* A run that has entered the graph, or is in its cleanup, is alone in that: no
\* other run writes to the thread while one keeps a snapshot.
LEMMA OneKeeper ==
    ASSUME ThreadInv, untasked = {}, NEW u \in Runs, NEW r \in Runs, u # r, KeepsSnapshot(u)
    PROVE  /\ run[r].phase \notin {"streaming", "titled"}
           /\ run[r].phase = "rollingback" => run[r].snapped = "none"
<1>1. KeptRecord(run[u]) /\ KeptRecord(run[r]) /\ run[u] \in RunRecord /\ run[r] \in RunRecord
  BY DEF ThreadInv, Kept, RunsTypeOK, RunRecord
<1>2. Entered(u)
  BY DEF KeepsSnapshot, Entered
<1>3. CASE r < u
  <2>1. run[r].phase = "refused" \/ (run[r].status \in Terminal /\ ~run[r].finalizing)
    BY <1>2, <1>3 DEF ThreadInv, Settled
  <2> QED BY <1>1, <2>1 DEF KeptRecord, Try, RunRecord
<1>4. CASE u < r
  <2> SUFFICES ASSUME Entered(r) PROVE FALSE
    BY DEF Entered, InGraph
  <2>1. run[u].phase = "refused" \/ (run[u].status \in Terminal /\ ~run[u].finalizing)
    BY <1>4 DEF ThreadInv, Settled
  <2> QED BY <1>1, <2>1 DEF KeptRecord, KeepsSnapshot, Try, RunRecord
<1>5. r < u \/ u < r
  BY DEF Runs
<1> QED BY <1>3, <1>4, <1>5

\* The steps that write to the thread.
LEMMA WritingSteps ==
    ASSUME ThreadInv, SnapshotInv, NEW r \in Runs,
           StreamChunk(r) \/ RollBack(r) \/ TitleWrite(r)
    PROVE  SnapshotInv'
<1>0. /\ RunsTypeOK /\ run \in [Runs -> RunRecord] /\ run[r] \in RunRecord
      /\ \A q \in Runs : run[q] \in RunRecord
  BY DEF ThreadInv, RunsTypeOK, RunRecord
<1>1. PICK p \in {"settling", "streaming", "titling", "closing"} :
         /\ run' = [run EXCEPT ![r].phase = p]
         /\ StreamChunk(r) => p \in {"settling", "streaming"}
         /\ RollBack(r) => p = "titling"
         /\ TitleWrite(r) => p = "closing"
  <2>1. CASE StreamChunk(r)
    BY <2>1 DEF StreamChunk, RollBack, TitleWrite
  <2>2. CASE RollBack(r)
    BY <2>2 DEF StreamChunk, RollBack, TitleWrite
  <2>3. CASE TitleWrite(r)
    BY <2>3 DEF StreamChunk, RollBack, TitleWrite
  <2> QED BY <2>1, <2>2, <2>3
<1>2. /\ run'[r].phase = p /\ run'[r].snapshot = run[r].snapshot /\ run'[r].snapped = run[r].snapped
      /\ \A q \in Runs \ {r} : run'[q] = run[q]
  BY <1>0, <1>1 DEF RunRecord
<1>3. untasked' = untasked
  BY DEF StreamChunk, RollBack, TitleWrite
<1>4. NothingKept'
  <2>1. \A q \in Runs : run'[q].phase \in NotYetInGraph => run'[q].snapped = "none"
    BY <1>1, <1>2 DEF SnapshotInv, NothingKept, NotYetInGraph
  <2>2. run[r].phase = "titled" => p = "closing"
    BY <1>1 DEF StreamChunk, RollBack, TitleWrite
  <2>3. run[r].phase # "closing"
    BY DEF StreamChunk, RollBack, TitleWrite
  <2> QED BY <1>2, <2>1, <2>2, <2>3 DEF SnapshotInv, NothingKept
<1>5. SnapshotsWhole'
  <2> SUFFICES ASSUME untasked = {}, NEW u \in Runs, KeepsSnapshot(u)', NEW q \in Runs \ {u}
               PROVE  CountOf(checkpoint', q) <= CountOf(run'[u].snapshot, q)
    BY <1>3 DEF SnapshotsWhole, Complements
  <2>1. KeepsSnapshot(u) /\ run'[u].snapshot = run[u].snapshot
    <3>1. CASE u # r
      BY <1>2, <3>1 DEF KeepsSnapshot
    <3>2. CASE u = r
      <4>1. StreamChunk(r) /\ run[r].snapped = "taken"
        BY <1>1, <1>2, <3>2 DEF KeepsSnapshot
      <4> QED BY <1>2, <3>2, <4>1 DEF StreamChunk, KeepsSnapshot
    <3> QED BY <3>1, <3>2
  <2>2. CountOf(checkpoint, q) <= CountOf(run[u].snapshot, q)
    BY <2>1 DEF SnapshotInv, SnapshotsWhole, Complements
  <2>3. /\ checkpoint \in Seq(Runs) /\ run[u].snapshot \in Seq(Runs)
        /\ CountOf(run[u].snapshot, q) \in Nat
    BY <1>0, CountType DEF RunsTypeOK, RunRecord
  <2>4. CASE u = r
    <3>1. StreamChunk(r)
      BY <1>1, <1>2, <2>4 DEF KeepsSnapshot
    <3>2. CountOf(checkpoint', q) = CountOf(checkpoint, q)
      BY <2>3, <2>4, <3>1, CountAppend DEF StreamChunk
    <3> QED BY <2>1, <2>2, <3>2
  <2>5. CASE u # r
    <3>1. RollBack(r) /\ run[r].snapped = "none"
      BY <2>1, <2>5, OneKeeper DEF StreamChunk, RollBack, TitleWrite
    <3>2. run[r].snapshot = <<>>
      BY <3>1 DEF RollBack, SnapshotInv, NothingKept
    <3>3. CASE checkpoint' = checkpoint
      BY <2>1, <2>2, <3>3
    <3>4. CASE checkpoint' = <<>>
      BY <2>1, <2>3, <3>4, CountEmpty
    <3> QED BY <3>1, <3>2, <3>3, <3>4 DEF RollBack
  <2> QED BY <2>4, <2>5
<1> QED BY <1>4, <1>5 DEF SnapshotInv

LEMMA SnapshotNextInv ==
    ThreadInv /\ SnapshotInv /\ [RunNext]_runVars => SnapshotInv'
<1> SUFFICES ASSUME ThreadInv, SnapshotInv, [RunNext]_runVars PROVE SnapshotInv'
  OBVIOUS
<1>1. ASSUME NEW r \in Runs, Step(r) PROVE SnapshotInv'
  BY <1>1, QuietSteps, ReadingSteps, WritingSteps DEF Step
<1>2. CASE UNCHANGED runVars
  BY <1>2 DEF runVars, SnapshotInv, SnapshotsWhole, NothingKept, KeepsSnapshot, Complements
<1> QED BY <1>1, <1>2, QuietSteps DEF RunNext

\* One step takes only the messages of the run it cleans up after.
LEMMA StepTakesOwn ==
    ASSUME ThreadInv, SnapshotInv, [RunNext]_runVars, NEW q \in Runs, Loses(q)
    PROVE  \E u \in Runs : /\ InCleanup(u) /\ run'[u].phase # run[u].phase
                           /\ u = q \/ untasked # {} \/ BlindRollback(u)
<1>0. /\ checkpoint \in Seq(Runs) /\ CountOf(checkpoint, q) \in Nat
      /\ run \in [Runs -> RunRecord]
  BY CountType DEF ThreadInv, RunsTypeOK, RunRecord
<1>1. checkpoint' # checkpoint
  BY <1>0 DEF Loses
<1>2. PICK u \in Runs : StreamChunk(u) \/ RollBack(u) \/ TitleWrite(u)
  BY <1>1, ZenonT(40) DEF RunNext, runVars, Step, Admitted, AdmitFails, Launch, LaunchFails, FirstStep,
     StartRunning, TakeSnapshot, Settle, Cancelled, Fail, TitleRead, Close, Admit, Cancel
<1>3. ~StreamChunk(u)
  <2> SUFFICES ASSUME StreamChunk(u) PROVE FALSE
    OBVIOUS
  <2>1. checkpoint' = Append(checkpoint, u) /\ checkpoint' \in Seq(Runs)
    BY <1>0 DEF StreamChunk
  <2>2. CountOf(checkpoint, q) <= CountOf(checkpoint', q) /\ CountOf(checkpoint', q) \in Nat
    BY <1>0, <2>1, CountAppend, CountType
  <2> QED BY <1>0, <2>2 DEF Loses
<1>4. InCleanup(u) /\ run'[u].phase # run[u].phase /\ checkpoint' = run[u].snapshot
  <2>1. run[u] \in RunRecord
    BY <1>0
  <2>2. CASE RollBack(u)
    BY <1>0, <1>1, <2>1, <2>2 DEF RollBack, InCleanup, RunRecord
  <2>3. CASE TitleWrite(u)
    BY <1>0, <2>1, <2>3 DEF TitleWrite, InCleanup, RunRecord
  <2> QED BY <1>2, <1>3, <2>2, <2>3
<1>5. ASSUME u # q, untasked = {}, ~BlindRollback(u) PROVE FALSE
  <2>1. KeepsSnapshot(u)
    <3>1. CASE RollBack(u)
      <4>1. run[u].snapped = "taken"
        BY <1>0, <1>1, <1>5, <3>1 DEF RollBack, RunRecord, BlindRollback
      <4> QED BY <3>1, <4>1 DEF RollBack, KeepsSnapshot
    <3>2. CASE TitleWrite(u)
      BY <3>2 DEF TitleWrite, KeepsSnapshot
    <3> QED BY <1>2, <1>3, <3>1, <3>2
  <2>2. CountOf(checkpoint, q) <= CountOf(checkpoint', q)
    BY <1>4, <1>5, <2>1 DEF SnapshotInv, SnapshotsWhole, Complements
  <2>3. CountOf(checkpoint', q) \in Nat
    BY <1>0, <1>4, CountType DEF RunRecord
  <2> QED BY <1>0, <2>2, <2>3 DEF Loses
<1> QED BY <1>4, <1>5

\* Whatever requests, cancels, rollbacks and titles interleave on a thread, cleanup
\* takes only messages of its own run: _rollback_to_pre_run_checkpoint and
\* _ensure_interrupted_title write back a checkpoint nobody else has added to.
\* Excepted are threads with a run aborted without a task and a rollback that has
\* no snapshot.
THEOREM CleanupTakesOwn == RunSpec => OwnMessagesOnly
<1>1. ThreadInv /\ SnapshotInv /\ [RunNext]_runVars =>
        [\A q \in Runs : Loses(q) =>
           \E u \in Runs : /\ InCleanup(u) /\ run'[u].phase # run[u].phase
                           /\ u = q \/ untasked # {} \/ BlindRollback(u)]_runVars
  BY StepTakesOwn
<1>2. RunSpec => []SnapshotInv
  BY ThreadInvariant, SnapshotInitInv, SnapshotNextInv, PTL DEF RunSpec
<1> QED BY <1>1, <1>2, ThreadInvariant, PTL DEF RunSpec, OwnMessagesOnly

(***************************************************************************)
(* RunJournal.  The events not yet stored, the batches in flight before    *)
(* the buffer, stand in the order they were put (Lined), and one that was  *)
(* stored by a put_batch whose answer was lost stands in the store where   *)
(* its next copy may follow (Unstored).                                    *)
(***************************************************************************)
Rising(s) == \A i, j \in DOMAIN s : i < j => s[i] < s[j]
Below(S, T) == \A a \in S, b \in T : a < b

Lined ==
    /\ Rising(buffer) /\ \A w \in {"task", "flush"} :
                            Rising(flight[w]) /\ Below(In(flight[w]), In(buffer))
    /\ \A e \in In(buffer) \cup In(flight["task"]) \cup In(flight["flush"]) \cup In(stored) :
          e <= puts
    /\ flight["task"] = Empty \/ flight["flush"] = Empty
    /\ Len(copied) <= Len(buffer) /\ \A i \in DOMAIN copied : copied[i] = buffer[i]

StoredUpTo(i) == {stored[k] : k \in 1 .. i}

Overtaken(e) ==
    \A i \in DOMAIN stored : e <= stored[i] => repeats /\ e \in StoredUpTo(i)

Unstored ==
    \A e \in In(buffer) \cup In(flight["task"]) \cup In(flight["flush"]) : Overtaken(e)

InTurn == \A i, j \in DOMAIN stored :
             i < j /\ stored[j] <= stored[i] => repeats /\ stored[j] \in StoredUpTo(i)

Flushing ==
    /\ copied # Empty => /\ ending = "running"
                         /\ flight["task"] = Empty /\ flight["flush"] = Empty
    /\ flight["flush"] # Empty => ending = "rest"
    /\ flight["task"] # Empty => ending \in {"running", "tasks"}

JournalInv == JournalTypeOK /\ Lined /\ Unstored /\ InTurn /\ Flushing /\ QuietAfterFlush

Events == 1 .. MaxPuts

LEMMA SequenceFacts ==
    ASSUME NEW s \in Seq(Events)
    PROVE  /\ Len(s) \in Nat /\ DOMAIN s = 1 .. Len(s) /\ \A i \in DOMAIN s : s[i] \in Events
           /\ In(s) \subseteq Events /\ \A i \in DOMAIN s : s[i] \in In(s)
           /\ In(Empty) = {} /\ Rising(Empty) /\ Empty \in Seq(Events) /\ Len(Empty) = 0
           /\ s # Empty <=> Len(s) > 0
<1>1. Len(s) \in Nat /\ DOMAIN s = 1 .. Len(s) /\ \A i \in DOMAIN s : s[i] \in Events
  BY LenProperties
<1>2. In(s) \subseteq Events /\ \A i \in DOMAIN s : s[i] \in In(s)
  BY <1>1 DEF In
<1>3. In(Empty) = {} /\ Rising(Empty) /\ Empty \in Seq(Events) /\ Len(Empty) = 0
  BY DEF In, Rising, Empty
<1>4. s # Empty <=> Len(s) > 0
  BY <1>1, EmptySeq DEF Empty
<1> QED BY <1>1, <1>2, <1>3, <1>4

LEMMA ConcatFacts ==
    ASSUME NEW s \in Seq(Events), NEW t \in Seq(Events)
    PROVE  /\ s \o t \in Seq(Events) /\ In(s \o t) = In(s) \cup In(t)
           /\ Len(s \o t) = Len(s) + Len(t) /\ DOMAIN (s \o t) = 1 .. Len(s) + Len(t)
           /\ \A i \in DOMAIN s : (s \o t)[i] = s[i]
           /\ \A i \in DOMAIN t : (s \o t)[i + Len(s)] = t[i]
           /\ \A i \in DOMAIN (s \o t) : i \notin DOMAIN s => /\ i - Len(s) \in DOMAIN t
                                                             /\ (s \o t)[i] = t[i - Len(s)]
           /\ Rising(s) /\ Rising(t) /\ Below(In(s), In(t)) => Rising(s \o t)
<1>1. /\ Len(s) \in Nat /\ DOMAIN s = 1 .. Len(s) /\ Len(t) \in Nat /\ DOMAIN t = 1 .. Len(t)
  BY LenProperties
<1>2. s \o t \in Seq(Events) /\ Len(s \o t) = Len(s) + Len(t)
  BY ConcatProperties
<1>3. DOMAIN (s \o t) = 1 .. Len(s) + Len(t)
  BY <1>2, LenProperties
<1>4. \A i \in 1 .. Len(s) + Len(t) : (s \o t)[i] = IF i <= Len(s) THEN s[i] ELSE t[i - Len(s)]
  BY ConcatProperties
<1>5. \A i \in DOMAIN s : i \in DOMAIN (s \o t) /\ (s \o t)[i] = s[i]
  BY <1>1, <1>3, <1>4
<1>6. \A i \in DOMAIN t : i + Len(s) \in DOMAIN (s \o t) /\ (s \o t)[i + Len(s)] = t[i]
  BY <1>1, <1>3, <1>4
<1>7. \A i \in DOMAIN (s \o t) : i \notin DOMAIN s => /\ i - Len(s) \in DOMAIN t
                                                     /\ (s \o t)[i] = t[i - Len(s)]
  BY <1>1, <1>3, <1>4
<1>8. In(s \o t) = In(s) \cup In(t)
  <2>1. ASSUME NEW e \in In(s \o t) PROVE e \in In(s) \cup In(t)
    <3>1. PICK i \in DOMAIN (s \o t) : e = (s \o t)[i]
      BY <2>1 DEF In
    <3>2. CASE i \in DOMAIN s
      BY <1>5, <3>1, <3>2 DEF In
    <3>3. CASE i \notin DOMAIN s
      BY <1>7, <3>1, <3>3 DEF In
    <3> QED BY <3>2, <3>3
  <2>2. In(s) \subseteq In(s \o t)
    BY <1>5 DEF In
  <2>3. In(t) \subseteq In(s \o t)
    BY <1>6 DEF In
  <2> QED BY <2>1, <2>2, <2>3
<1>9. ASSUME Rising(s), Rising(t), Below(In(s), In(t)) PROVE Rising(s \o t)
  <2> SUFFICES ASSUME NEW i \in DOMAIN (s \o t), NEW j \in DOMAIN (s \o t), i < j
               PROVE  (s \o t)[i] < (s \o t)[j]
    BY DEF Rising
  <2>1. CASE i \in DOMAIN s /\ j \in DOMAIN s
    BY <1>5, <1>9, <2>1 DEF Rising
  <2>2. CASE i \in DOMAIN s /\ j \notin DOMAIN s
    BY <1>5, <1>7, <1>9, <2>2 DEF Below, In
  <2>3. CASE i \notin DOMAIN s /\ j \notin DOMAIN s
    <3>1. i - Len(s) < j - Len(s)
      BY <1>1, <1>3
    <3> QED BY <1>7, <1>9, <2>3, <3>1 DEF Rising
  <2>4. ~(i \notin DOMAIN s /\ j \in DOMAIN s)
    BY <1>1, <1>3
  <2> QED BY <2>1, <2>2, <2>3, <2>4
<1> QED BY <1>2, <1>3, <1>5, <1>6, <1>7, <1>8, <1>9

LEMMA AppendFacts ==
    ASSUME NEW s \in Seq(Events), NEW e \in Events
    PROVE  /\ Append(s, e) \in Seq(Events) /\ In(Append(s, e)) = In(s) \cup {e}
           /\ Len(Append(s, e)) = Len(s) + 1 /\ Append(s, e) # Empty
           /\ \A i \in DOMAIN s : Append(s, e)[i] = s[i]
           /\ Rising(s) /\ Below(In(s), {e}) => Rising(Append(s, e))
<1>1. /\ Append(s, e) \in Seq(Events) /\ Len(Append(s, e)) = Len(s) + 1 /\ Append(s, e) # Empty
      /\ Append(s, e)[Len(s) + 1] = e
  BY AppendProperties DEF Empty
<1>2. Len(s) \in Nat /\ DOMAIN s = 1 .. Len(s) /\ DOMAIN Append(s, e) = 1 .. Len(s) + 1
  BY <1>1, LenProperties
<1>3. \A i \in DOMAIN s : Append(s, e)[i] = s[i]
  BY <1>2, AppendProperties
<1>4. \A i \in DOMAIN Append(s, e) : i \in DOMAIN s \/ i = Len(s) + 1
  BY <1>2
<1>5. In(Append(s, e)) = In(s) \cup {e}
  <2>1. DOMAIN s \subseteq DOMAIN Append(s, e) /\ Len(s) + 1 \in DOMAIN Append(s, e)
    BY <1>2
  <2> QED BY <1>1, <1>3, <1>4, <2>1 DEF In
<1>6. ASSUME Rising(s), Below(In(s), {e}) PROVE Rising(Append(s, e))
  BY <1>1, <1>2, <1>3, <1>4, <1>6 DEF Rising, Below, In
<1> QED BY <1>1, <1>3, <1>5, <1>6

\* Cutting a sequence leaves two that rise, one below the other.
LEMMA CutFacts ==
    ASSUME NEW s \in Seq(Events), NEW n \in 0 .. Len(s), Rising(s)
    PROVE  LET a == SubSeq(s, 1, n)
               b == SubSeq(s, n + 1, Len(s))
           IN  /\ a \in Seq(Events) /\ b \in Seq(Events) /\ Rising(a) /\ Rising(b)
               /\ In(a) \subseteq In(s) /\ In(b) \subseteq In(s) /\ Below(In(a), In(b))
               /\ Len(a) = n
<1> DEFINE a == SubSeq(s, 1, n)
           b == SubSeq(s, n + 1, Len(s))
<1>0. /\ Len(s) \in Nat /\ DOMAIN s = 1 .. Len(s) /\ n \in Nat /\ n <= Len(s)
      /\ \A i \in DOMAIN s : s[i] \in Events
  <2>1. Len(s) \in Nat /\ DOMAIN s = 1 .. Len(s) /\ \A i \in DOMAIN s : s[i] \in Events
    BY LenProperties
  <2> QED BY <2>1
<1>1. a \in Seq(Events) /\ Len(a) = n /\ \A i \in 1 .. n : a[i] = s[i]
  <2>1. \A i \in 1 .. n : s[i] \in Events
    BY <1>0
  <2>2. /\ a \in Seq(Events) /\ Len(a) = IF 1 <= n THEN n - 1 + 1 ELSE 0
        /\ \A i \in 1 .. n - 1 + 1 : a[i] = s[1 + i - 1]
    BY <1>0, <2>1, SubSeqProperties
  <2> QED BY <1>0, <2>2
<1>2. b \in Seq(Events) /\ Len(b) = Len(s) - n /\ \A i \in 1 .. Len(s) - n : b[i] = s[n + i]
  <2>1. \A i \in n + 1 .. Len(s) : s[i] \in Events
    BY <1>0
  <2>2. /\ b \in Seq(Events)
        /\ Len(b) = IF n + 1 <= Len(s) THEN Len(s) - (n + 1) + 1 ELSE 0
        /\ \A i \in 1 .. Len(s) - (n + 1) + 1 : b[i] = s[(n + 1) + i - 1]
    BY <1>0, <2>1, SubSeqProperties
  <2> HIDE DEF b
  <2>3. Len(s) - (n + 1) + 1 = Len(s) - n /\ \A i \in 1 .. Len(s) - n : (n + 1) + i - 1 = n + i
    BY <1>0
  <2>4. Len(b) = Len(s) - n
    <3>1. CASE n + 1 <= Len(s)
      BY <2>2, <2>3, <3>1
    <3>2. CASE n = Len(s)
      <4>1. ~(n + 1 <= Len(s)) /\ Len(s) - n = 0
        BY <1>0, <3>2
      <4> QED BY <2>2, <4>1
    <3>3. \A k, m \in Nat : k <= m => k + 1 <= m \/ k = m
      OBVIOUS
    <3> QED BY <1>0, <3>1, <3>2, <3>3
  <2> QED BY <2>2, <2>3, <2>4
<1> HIDE DEF a, b
<1>3. DOMAIN a = 1 .. n /\ DOMAIN b = 1 .. Len(s) - n
  BY <1>1, <1>2, LenProperties
<1>4. Rising(a) /\ Rising(b)
  <2>1. \A i \in DOMAIN a : i \in DOMAIN s /\ a[i] = s[i]
    BY <1>0, <1>1, <1>3
  <2>2. \A i \in DOMAIN b : n + i \in DOMAIN s /\ b[i] = s[n + i]
    BY <1>0, <1>2, <1>3
  <2>3. \A i, j \in DOMAIN b : i < j => n + i < n + j
    BY <1>0, <1>3
  <2>4. Rising(a)
    BY <2>1 DEF Rising
  <2>5. Rising(b)
    BY <2>2, <2>3 DEF Rising
  <2> QED BY <2>4, <2>5
<1>5. In(a) \subseteq In(s) /\ In(b) \subseteq In(s)
  <2>1. \A i \in DOMAIN a : i \in DOMAIN s /\ a[i] = s[i]
    BY <1>0, <1>1, <1>3
  <2>2. \A i \in DOMAIN b : n + i \in DOMAIN s /\ b[i] = s[n + i]
    BY <1>0, <1>2, <1>3
  <2> QED BY <2>1, <2>2 DEF In
<1>6. Below(In(a), In(b))
  <2> SUFFICES ASSUME NEW i \in DOMAIN a, NEW j \in DOMAIN b PROVE a[i] < b[j]
    BY DEF Below, In
  <2>1. i \in DOMAIN s /\ n + j \in DOMAIN s /\ i < n + j
    BY <1>0, <1>3
  <2> QED BY <1>1, <1>2, <1>3, <2>1 DEF Rising
<1> QED BY <1>1, <1>2, <1>4, <1>5, <1>6 DEF a, b

\* A batch reaches the store.
LEMMA StoreGrows ==
    ASSUME JournalTypeOK, InTurn, NEW b \in Seq(Events), Rising(b),
           \A e \in In(b) : Overtaken(e), stored' = stored \o b, repeats => repeats'
    PROVE  /\ InTurn'
           /\ \A e \in Events : Overtaken(e) /\ (Below(In(b), {e}) \/ (e \in In(b) /\ repeats')) =>
                                Overtaken(e)'
<1>0. stored \in Seq(Events)
  BY DEF JournalTypeOK, Events
<1>1. /\ Len(stored) \in Nat /\ DOMAIN stored = 1 .. Len(stored)
      /\ Len(b) \in Nat /\ DOMAIN b = 1 .. Len(b) /\ \A i \in DOMAIN b : b[i] \in Events /\ b[i] \in In(b)
  BY <1>0, SequenceFacts
<1>2. /\ DOMAIN stored' = 1 .. Len(stored) + Len(b)
      /\ \A i \in DOMAIN stored : stored'[i] = stored[i]
      /\ \A i \in DOMAIN b : stored'[i + Len(stored)] = b[i]
      /\ \A i \in DOMAIN stored' : i \notin DOMAIN stored => /\ i - Len(stored) \in DOMAIN b
                                                           /\ stored'[i] = b[i - Len(stored)]
  BY <1>0, ConcatFacts
<1>3. \A i \in DOMAIN stored : StoredUpTo(i)' = StoredUpTo(i)
  BY <1>1, <1>2 DEF StoredUpTo
<1>4. InTurn'
  <2> SUFFICES ASSUME NEW i \in DOMAIN stored', NEW j \in DOMAIN stored',
                      i < j, stored'[j] <= stored'[i]
               PROVE  repeats' /\ stored'[j] \in StoredUpTo(i)'
    BY DEF InTurn
  <2>1. CASE i \in DOMAIN stored /\ j \in DOMAIN stored
    BY <1>2, <1>3, <2>1 DEF InTurn
  <2>2. CASE i \in DOMAIN stored /\ j \notin DOMAIN stored
    <3>1. stored'[j] \in In(b) /\ stored'[i] = stored[i]
      BY <1>1, <1>2, <2>2
    <3> QED BY <1>3, <2>2, <3>1 DEF Overtaken
  <2>3. CASE i \notin DOMAIN stored /\ j \notin DOMAIN stored
    <3>1. i - Len(stored) < j - Len(stored)
      BY <1>1, <1>2
    <3>2. stored'[i] < stored'[j] /\ stored'[i] \in Events /\ stored'[j] \in Events
      BY <1>1, <1>2, <2>3, <3>1 DEF Rising
    <3> QED BY <3>2 DEF Events
  <2>4. ~(i \notin DOMAIN stored /\ j \in DOMAIN stored)
    BY <1>1, <1>2
  <2> QED BY <2>1, <2>2, <2>3, <2>4
<1>5. ASSUME NEW e \in Events, Overtaken(e), Below(In(b), {e}) \/ (e \in In(b) /\ repeats'),
             NEW i \in DOMAIN stored', e <= stored'[i]
      PROVE  repeats' /\ e \in StoredUpTo(i)'
  <2>1. CASE i \in DOMAIN stored
    BY <1>2, <1>3, <1>5, <2>1 DEF Overtaken
  <2>2. CASE i \notin DOMAIN stored
    <3>1. i - Len(stored) \in DOMAIN b /\ stored'[i] = b[i - Len(stored)]
      BY <1>2, <2>2
    <3>2. ~Below(In(b), {e})
      BY <1>1, <1>5, <3>1 DEF Below, Events
    <3>3. PICK m \in DOMAIN b : e = b[m] /\ repeats'
      BY <1>5, <3>2 DEF In
    <3>4. m <= i - Len(stored)
      <4>1. ~(b[i - Len(stored)] < b[m])
        BY <1>1, <1>5, <3>1, <3>3 DEF Events
      <4>2. ~(i - Len(stored) < m)
        BY <3>1, <4>1 DEF Rising
      <4> QED BY <1>1, <3>1, <4>2
    <3>5. m + Len(stored) \in 1 .. i /\ stored'[m + Len(stored)] = e
      BY <1>1, <1>2, <3>1, <3>3, <3>4
    <3> QED BY <3>3, <3>5 DEF StoredUpTo
  <2> QED BY <2>1, <2>2
<1>6. \A e \in Events : Overtaken(e) /\ (Below(In(b), {e}) \/ (e \in In(b) /\ repeats')) => Overtaken(e)'
  BY <1>5 DEF Overtaken
<1> QED BY <1>4, <1>6

LEMMA JournalInitInv == JournalInit => JournalInv
<1> SUFFICES ASSUME JournalInit PROVE JournalInv
  OBVIOUS
<1>1. In(Empty) = {} /\ Rising(Empty) /\ Empty \in Seq(Events) /\ Len(Empty) = 0 /\ DOMAIN Empty = {}
  BY DEF In, Rising, Empty
<1>2. JournalTypeOK
  <2>1. Empty \in Seq(1 .. MaxPuts)
    BY <1>1 DEF Events
  <2>2. 0 \in 0 .. MaxPuts /\ 0 \in 0 .. MaxStoreFaults
    BY JournalAssumption
  <2> QED BY <2>1, <2>2 DEF JournalInit, JournalTypeOK
<1>3. Lined /\ Unstored /\ InTurn
  BY <1>1 DEF JournalInit, Lined, Unstored, InTurn, Below
<1>4. Flushing /\ QuietAfterFlush
  BY DEF JournalInit, Flushing, QuietAfterFlush
<1> QED BY <1>2, <1>3, <1>4 DEF JournalInv

\* _put, on the event loop or in a worker thread.
LEMMA PutsInv ==
    ASSUME JournalInv, PutInThread \/ \E last \in BOOLEAN : PutOnLoop(last)
    PROVE  JournalInv'
<1>1. PICK e, b : e = puts + 1 /\ b = Append(buffer, e)
  OBVIOUS
<1>2. /\ puts' = e /\ buffer' = b /\ e \in Events /\ puts \in Nat /\ puts <= MaxPuts
      /\ UNCHANGED <<flight, stored, repeats, storeFaults, progress, ending>>
  <2>1. puts \in 0 .. MaxPuts /\ MaxPuts \in Nat
    BY JournalAssumption DEF JournalInv, JournalTypeOK, JournalAssumption
  <2>2. /\ puts < MaxPuts /\ puts' = puts + 1 /\ buffer' = Append(buffer, puts + 1)
        /\ UNCHANGED <<flight, stored, repeats, storeFaults, progress, ending>>
    BY DEF PutInThread, PutOnLoop
  <2>3. e \in Events /\ puts \in Nat /\ puts <= MaxPuts
    BY <1>1, <2>1, <2>2 DEF Events
  <2> QED
    BY <1>1, <2>2, <2>3
<1>3. /\ copied' \in {copied, Empty, b} /\ (copied' = b => copied' = copied \/ flight["task"] = Empty)
      /\ copied' # copied => ending = "running" /\ copied = Empty
  BY <1>1, <1>2 DEF PutInThread, PutOnLoop
<1>4. /\ buffer \in Seq(Events) /\ copied \in Seq(Events) /\ stored \in Seq(Events)
      /\ flight["task"] \in Seq(Events) /\ flight["flush"] \in Seq(Events)
  BY DEF JournalInv, JournalTypeOK, Events
<1>5. /\ b \in Seq(Events) /\ In(b) = In(buffer) \cup {e} /\ Len(b) = Len(buffer) + 1
      /\ \A i \in DOMAIN buffer : b[i] = buffer[i]
      /\ Rising(buffer) /\ Below(In(buffer), {e}) => Rising(b)
  BY <1>1, <1>2, <1>4, AppendFacts
<1>6. /\ \A x \in In(buffer) \cup In(flight["task"]) \cup In(flight["flush"]) \cup In(stored) :
            x \in Events /\ x <= puts /\ x < e
      /\ Len(buffer) \in Nat /\ DOMAIN buffer = 1 .. Len(buffer) /\ Len(copied) \in Nat
      /\ DOMAIN copied = 1 .. Len(copied) /\ DOMAIN stored = 1 .. Len(stored)
      /\ \A i \in DOMAIN stored : stored[i] \in In(stored)
      /\ Empty \in Seq(Events) /\ Len(Empty) = 0 /\ DOMAIN Empty = {}
      /\ DOMAIN b = 1 .. Len(b)
  <2>1. \A x \in In(buffer) \cup In(flight["task"]) \cup In(flight["flush"]) \cup In(stored) :
           x \in Events /\ x <= puts
    BY <1>4, SequenceFacts DEF JournalInv, Lined
  <2>2. DOMAIN Empty = {}
    BY DEF Empty
  <2> QED BY <1>1, <1>2, <1>4, <1>5, <2>1, <2>2, SequenceFacts DEF Events
<1>11. JournalTypeOK'
  <2>1. copied' \in Seq(Events) /\ buffer' \in Seq(Events) /\ puts' \in 0 .. MaxPuts
    BY <1>2, <1>3, <1>4, <1>5, <1>6 DEF Events
  <2> QED BY <1>2, <2>1 DEF JournalInv, JournalTypeOK, Events, progress
<1>12. Lined'
  <2>1. Rising(b) /\ Below(In(flight["task"]), In(b)) /\ Below(In(flight["flush"]), In(b))
    BY <1>5, <1>6 DEF JournalInv, Lined, Below
  <2>2. \A x \in In(b) \cup In(flight["task"]) \cup In(flight["flush"]) \cup In(stored) : x <= e
    <3>1. e \in Nat
      BY <1>1, <1>2
    <3>2. \A x \in In(buffer) \cup In(flight["task"]) \cup In(flight["flush"]) \cup In(stored) :
             x \in Nat /\ x < e
      BY <1>6 DEF Events
    <3>3. \A x \in Nat : x < e => x <= e
      BY <3>1
    <3>4. In(b) = In(buffer) \cup {e} /\ e <= e
      BY <1>5, <3>1
    <3> QED
      BY <3>2, <3>3, <3>4
  <2>3. Len(copied') <= Len(b) /\ \A i \in DOMAIN copied' : copied'[i] = b[i]
    <3>1. CASE copied' = copied
      BY <1>5, <1>6, <3>1 DEF JournalInv, Lined
    <3>2. CASE copied' \in {Empty, b}
      BY <1>5, <1>6, <3>2
    <3> QED BY <1>3, <3>1, <3>2
  <2> QED BY <1>2, <2>1, <2>2, <2>3 DEF JournalInv, Lined
<1>13. Unstored'
  <2>1. Overtaken(e)
    BY <1>2, <1>6 DEF Overtaken, Events
  <2>2. \A x : Overtaken(x)' <=> Overtaken(x)
    BY <1>2 DEF Overtaken, StoredUpTo
  <2> QED BY <1>2, <1>5, <2>1, <2>2 DEF JournalInv, Unstored
<1>14. InTurn'
  BY <1>2 DEF JournalInv, InTurn, StoredUpTo
<1>15. Flushing' /\ QuietAfterFlush'
  BY <1>2, <1>3 DEF JournalInv, Flushing, QuietAfterFlush, progress
<1> QED BY <1>11, <1>12, <1>13, <1>14, <1>15 DEF JournalInv

\* _flush_sync: what was copied is in flight, what came after it is dropped.
LEMMA ClearBufferInv ==
    ASSUME JournalInv, ClearBuffer
    PROVE  JournalInv'
<1>1. /\ buffer \in Seq(Events) /\ copied \in Seq(Events)
      /\ flight \in [{"task", "flush"} -> Seq(Events)]
  BY DEF JournalInv, JournalTypeOK, Events
<1>2. /\ copied # Empty /\ flight' = [flight EXCEPT !["task"] = copied] /\ buffer' = Empty
      /\ copied' = Empty /\ UNCHANGED <<puts, stored, repeats, storeFaults, progress, ending>>
      /\ ending = "running" /\ flight["flush"] = Empty
  BY DEF ClearBuffer, JournalInv, Flushing
<1>3. flight'["task"] = copied /\ flight'["flush"] = Empty
  BY <1>1, <1>2
<1>4. /\ In(Empty) = {} /\ Rising(Empty) /\ Empty \in Seq(Events) /\ Len(Empty) = 0
      /\ DOMAIN Empty = {}
  BY DEF In, Rising, Empty
<1>5. /\ Len(buffer) \in Nat /\ DOMAIN buffer = 1 .. Len(buffer)
      /\ Len(copied) \in Nat /\ DOMAIN copied = 1 .. Len(copied)
  BY <1>1, SequenceFacts
<1>6. \A i \in DOMAIN copied : i \in DOMAIN buffer /\ copied[i] = buffer[i]
  BY <1>5 DEF JournalInv, Lined
<1>7. In(copied) \subseteq In(buffer) /\ Rising(copied)
  BY <1>6 DEF JournalInv, Lined, In, Rising
<1>8. JournalTypeOK'
  <2>1. flight' \in [{"task", "flush"} -> Seq(Events)]
    BY <1>1, <1>2
  <2> QED BY <1>2, <1>4, <2>1 DEF JournalInv, JournalTypeOK, Events, progress
<1>9. Lined'
  BY <1>2, <1>3, <1>4, <1>7 DEF JournalInv, Lined, Below
<1>10. Unstored' /\ InTurn'
  <2>1. \A x : Overtaken(x)' <=> Overtaken(x)
    BY <1>2 DEF Overtaken, StoredUpTo
  <2> QED BY <1>2, <1>3, <1>4, <1>7, <2>1 DEF JournalInv, Unstored, InTurn, StoredUpTo
<1>11. Flushing' /\ QuietAfterFlush'
  BY <1>2, <1>3 DEF JournalInv, Flushing, QuietAfterFlush, progress
<1> QED BY <1>8, <1>9, <1>10, <1>11 DEF JournalInv

\* put_batch went through.
LEMMA WrittenInv ==
    ASSUME JournalInv, NEW w \in {"task", "flush"}, Written(w)
    PROVE  JournalInv'
<1>1. /\ buffer \in Seq(Events) /\ stored \in Seq(Events)
      /\ flight \in [{"task", "flush"} -> Seq(Events)] /\ flight[w] \in Seq(Events)
  BY DEF JournalInv, JournalTypeOK, Events
<1>2. PICK v \in {"task", "flush"} : v # w
  OBVIOUS
<1>3. /\ flight' = [flight EXCEPT ![w] = Empty] /\ stored' = stored \o flight[w]
      /\ UNCHANGED <<puts, buffer, copied, repeats, storeFaults, progress, ending>>
      /\ flight[w] # Empty
  BY DEF Written
<1>4. flight'[w] = Empty /\ flight'[v] = Empty /\ flight[v] = Empty
  BY <1>1, <1>2, <1>3 DEF JournalInv, Lined
<1>5. In(Empty) = {} /\ Rising(Empty) /\ Empty \in Seq(Events)
  BY DEF In, Rising, Empty
<1>6. stored' \in Seq(Events) /\ In(stored') = In(stored) \cup In(flight[w])
  BY <1>1, <1>3, ConcatFacts
<1>7. InTurn' /\ \A e \in Events : Overtaken(e) /\ Below(In(flight[w]), {e}) => Overtaken(e)'
  <2>1. Rising(flight[w]) /\ \A e \in In(flight[w]) : Overtaken(e)
    BY DEF JournalInv, Lined, Unstored
  <2> QED BY <1>1, <1>3, <2>1, StoreGrows DEF JournalInv
<1>8. JournalTypeOK'
  <2>1. flight' \in [{"task", "flush"} -> Seq(Events)]
    BY <1>1, <1>3, <1>5
  <2> QED BY <1>3, <1>6, <2>1 DEF JournalInv, JournalTypeOK, Events, progress
<1>9. Lined'
  <2>1. \A u \in {"task", "flush"} : flight'[u] = Empty
    BY <1>2, <1>4
  <2> QED BY <1>3, <1>5, <1>6, <2>1 DEF JournalInv, Lined, Below
<1>10. Unstored'
  <2>1. \A u \in {"task", "flush"} : flight'[u] = Empty
    BY <1>2, <1>4
  <2>2. \A e \in In(buffer) : e \in Events /\ Overtaken(e) /\ Below(In(flight[w]), {e})
    BY <1>1, SequenceFacts DEF JournalInv, Lined, Unstored, Below
  <2> QED BY <1>3, <1>5, <1>7, <2>1, <2>2 DEF Unstored
<1>11. Flushing' /\ QuietAfterFlush'
  <2>1. \A u \in {"task", "flush"} : flight'[u] = Empty
    BY <1>2, <1>4
  <2> QED BY <1>3, <2>1 DEF JournalInv, Flushing, QuietAfterFlush, progress
<1> QED BY <1>7, <1>8, <1>9, <1>10, <1>11 DEF JournalInv

\* put_batch raised, after its commit or before it: the batch is back in front.
LEMMA PutFailsInv ==
    ASSUME JournalInv, NEW w \in {"task", "flush"}, NEW committed \in BOOLEAN, PutFails(w, committed)
    PROVE  JournalInv'
<1>1. /\ buffer \in Seq(Events) /\ stored \in Seq(Events)
      /\ flight \in [{"task", "flush"} -> Seq(Events)] /\ flight[w] \in Seq(Events)
  BY DEF JournalInv, JournalTypeOK, Events
<1>2. PICK v \in {"task", "flush"} : v # w
  OBVIOUS
<1>3. /\ flight' = [flight EXCEPT ![w] = Empty] /\ flight[w] # Empty
      /\ buffer' = flight[w] \o buffer
      /\ stored' = IF committed THEN stored \o flight[w] ELSE stored
      /\ repeats' = (repeats \/ committed)
      /\ ending' = IF w = "flush" THEN "flushed" ELSE ending
      /\ storeFaults < MaxStoreFaults /\ storeFaults' = storeFaults + 1
      /\ UNCHANGED <<puts, copied, progress>>
  BY DEF PutFails, Returned
<1>4. flight'[w] = Empty /\ flight'[v] = Empty /\ flight[v] = Empty /\ copied = Empty
  BY <1>1, <1>2, <1>3 DEF JournalInv, Lined, Flushing
<1>5. /\ In(Empty) = {} /\ Rising(Empty) /\ Empty \in Seq(Events) /\ Len(Empty) = 0
      /\ DOMAIN Empty = {}
  BY DEF In, Rising, Empty
<1>6. \A u \in {"task", "flush"} : flight'[u] = Empty
  BY <1>2, <1>4
<1>7. /\ stored' \in Seq(Events) /\ In(stored') \subseteq In(stored) \cup In(flight[w])
      /\ buffer' \in Seq(Events) /\ In(buffer') = In(flight[w]) \cup In(buffer)
      /\ Rising(buffer')
  BY <1>1, <1>3, ConcatFacts DEF JournalInv, Lined
<1>8. JournalTypeOK'
  <2>1. flight' \in [{"task", "flush"} -> Seq(Events)]
    BY <1>1, <1>3, <1>5
  <2>2. storeFaults' \in 0 .. MaxStoreFaults
    BY <1>3, JournalAssumption DEF JournalInv, JournalTypeOK
  <2>3. ending' \in {"running", "tasks", "progress", "rest", "flushed"} /\ repeats' \in BOOLEAN
    BY <1>3 DEF JournalInv, JournalTypeOK
  <2> QED BY <1>3, <1>7, <2>1, <2>2, <2>3 DEF JournalInv, JournalTypeOK, Events, progress
<1>9. Lined'
  <2>1. Len(buffer') \in Nat
    BY <1>7, SequenceFacts
  <2>2. Len(copied') <= Len(buffer') /\ \A i \in DOMAIN copied' : copied'[i] = buffer'[i]
    BY <1>3, <1>4, <1>5, <2>1
  <2> QED BY <1>3, <1>5, <1>6, <1>7, <2>2 DEF JournalInv, Lined, Below
<1>10. Unstored' /\ InTurn'
  <2>1. Rising(flight[w]) /\ \A e \in In(flight[w]) : Overtaken(e)
    BY DEF JournalInv, Lined, Unstored
  <2>2. \A e \in In(buffer') : e \in Events /\ Overtaken(e)
    BY <1>1, <1>7, SequenceFacts DEF JournalInv, Unstored
  <2>3. \A e \in In(buffer') : e \in In(flight[w]) \/ Below(In(flight[w]), {e})
    BY <1>7 DEF JournalInv, Lined, Below
  <2>4. CASE committed
    <3>1. InTurn' /\ \A e \in In(buffer') : Overtaken(e)'
      BY <1>1, <1>3, <2>1, <2>2, <2>3, <2>4, StoreGrows DEF JournalInv
    <3> QED BY <1>5, <1>6, <3>1 DEF Unstored
  <2>5. CASE ~committed
    <3>1. stored' = stored /\ (repeats => repeats')
      BY <1>3, <2>5
    <3>2. InTurn'
      BY <3>1 DEF JournalInv, InTurn, StoredUpTo
    <3>3. \A e : Overtaken(e) => Overtaken(e)'
      BY <3>1 DEF Overtaken, StoredUpTo
    <3> QED BY <1>5, <1>6, <2>2, <3>2, <3>3 DEF Unstored
  <2> QED BY <2>4, <2>5
<1>11. Flushing' /\ QuietAfterFlush'
  BY <1>3, <1>4, <1>6 DEF JournalInv, Flushing, QuietAfterFlush, progress
<1> QED BY <1>8, <1>9, <1>10, <1>11 DEF JournalInv

\* Steps that leave the events alone: progress snapshots and the waits of flush().
LEMMA ProgressInv ==
    ASSUME JournalInv,
           \/ \E soon \in BOOLEAN : ScheduleProgress(soon)
           \/ WakeProgress \/ EndProgress \/ BeginFlush \/ AwaitTasks \/ AwaitProgress
    PROVE  JournalInv'
<1>1. UNCHANGED <<puts, buffer, copied, flight, stored, repeats, storeFaults>>
  BY DEF ScheduleProgress, WakeProgress, EndProgress, BeginFlush, AwaitTasks, AwaitProgress, events
<1>2. JournalTypeOK'
  BY <1>1 DEF JournalInv, JournalTypeOK, ScheduleProgress, WakeProgress, EndProgress, BeginFlush,
     AwaitTasks, AwaitProgress, progress
<1>3. Lined' /\ Unstored' /\ InTurn'
  BY <1>1 DEF JournalInv, Lined, Unstored, InTurn, Overtaken, StoredUpTo
<1>4. Flushing'
  BY <1>1 DEF JournalInv, Flushing, ScheduleProgress, WakeProgress, EndProgress, BeginFlush,
     AwaitTasks, AwaitProgress
<1>5. QuietAfterFlush'
  BY DEF JournalInv, QuietAfterFlush, ScheduleProgress, WakeProgress, EndProgress, BeginFlush,
     AwaitTasks, AwaitProgress, progress
<1> QED BY <1>2, <1>3, <1>4, <1>5 DEF JournalInv

\* flush() takes the next batch, or has none left.
LEMMA FlushRestInv ==
    ASSUME JournalInv, FlushRest
    PROVE  JournalInv'
<1>1. /\ buffer \in Seq(Events) /\ flight \in [{"task", "flush"} -> Seq(Events)]
  BY DEF JournalInv, JournalTypeOK, Events
<1>2. PICK n : n = IF Len(buffer) < FlushAt THEN Len(buffer) ELSE FlushAt
  OBVIOUS
<1>3. PICK a, b : a = SubSeq(buffer, 1, n) /\ b = SubSeq(buffer, n + 1, Len(buffer))
  OBVIOUS
<1>4. /\ ending = "rest" /\ flight["flush"] = Empty
      /\ flight' = [flight EXCEPT !["flush"] = a] /\ buffer' = b
      /\ ending' = IF n = 0 THEN "flushed" ELSE "rest"
      /\ UNCHANGED <<puts, copied, stored, repeats, storeFaults, progress>>
  BY <1>2, <1>3 DEF FlushRest
<1>5. flight["task"] = Empty /\ copied = Empty
  BY <1>4 DEF JournalInv, Flushing
<1>6. n \in 0 .. Len(buffer)
  <2>1. Len(buffer) \in Nat
    BY <1>1, SequenceFacts
  <2> QED BY <1>2, <2>1, JournalAssumption
<1>7. /\ a \in Seq(Events) /\ b \in Seq(Events) /\ Rising(a) /\ Rising(b)
      /\ In(a) \subseteq In(buffer) /\ In(b) \subseteq In(buffer) /\ Below(In(a), In(b))
      /\ Len(a) = n
  BY <1>1, <1>3, <1>6, CutFacts DEF JournalInv, Lined
<1>8. flight'["task"] = Empty /\ flight'["flush"] = a
  BY <1>1, <1>4, <1>5
<1>9. /\ In(Empty) = {} /\ Rising(Empty) /\ Empty \in Seq(Events) /\ Len(Empty) = 0
      /\ DOMAIN Empty = {} /\ (a # Empty <=> n > 0) /\ Len(b) \in Nat
  <2>1. DOMAIN Empty = {}
    BY DEF Empty
  <2> QED BY <1>7, <2>1, SequenceFacts
<1>11. JournalTypeOK'
  <2>1. flight' \in [{"task", "flush"} -> Seq(Events)]
    BY <1>1, <1>4, <1>7
  <2>2. ending' \in {"rest", "flushed"}
    BY <1>4
  <2> QED BY <1>4, <1>7, <2>1, <2>2 DEF JournalInv, JournalTypeOK, Events, progress
<1>12. Lined'
  <2>1. Len(copied') <= Len(buffer') /\ \A i \in DOMAIN copied' : copied'[i] = buffer'[i]
    BY <1>4, <1>5, <1>9
  <2>2. \A u \in {"task", "flush"} : Rising(flight'[u]) /\ Below(In(flight'[u]), In(b))
    BY <1>7, <1>8, <1>9 DEF Below
  <2>3. \A e \in In(b) \cup In(flight'["task"]) \cup In(flight'["flush"]) \cup In(stored) : e <= puts
    BY <1>7, <1>8, <1>9 DEF JournalInv, Lined
  <2> QED BY <1>4, <1>7, <1>8, <2>1, <2>2, <2>3 DEF Lined
<1>13. Unstored' /\ InTurn'
  <2>1. \A x : Overtaken(x)' <=> Overtaken(x)
    BY <1>4 DEF Overtaken, StoredUpTo
  <2>2. InTurn'
    BY <1>4 DEF JournalInv, InTurn, StoredUpTo
  <2> QED BY <1>4, <1>7, <1>8, <1>9, <2>1, <2>2 DEF JournalInv, Unstored
<1>14. Flushing' /\ QuietAfterFlush'
  BY <1>4, <1>5, <1>6, <1>8, <1>9 DEF JournalInv, Flushing, QuietAfterFlush, progress
<1> QED BY <1>11, <1>12, <1>13, <1>14 DEF JournalInv

LEMMA JournalNextInv == JournalInv /\ [JournalNext]_journalVars => JournalInv'
<1> SUFFICES ASSUME JournalInv, [JournalNext]_journalVars PROVE JournalInv'
  OBVIOUS
<1>1. CASE JournalNext
  BY <1>1, PutsInv, ClearBufferInv, WrittenInv, PutFailsInv, ProgressInv, FlushRestInv
     DEF JournalNext
<1>2. CASE UNCHANGED journalVars
  BY <1>2 DEF journalVars, JournalInv, JournalTypeOK, Lined, Unstored, InTurn, Overtaken,
     StoredUpTo, Flushing, QuietAfterFlush
<1> QED BY <1>1, <1>2

\* The journal's buffers and the store agree in every state of JournalSpec.
THEOREM JournalInvariant == JournalSpec => []JournalInv
BY JournalInitInv, JournalNextInv, PTL DEF JournalSpec

LEMMA InTurnIsOrder == JournalTypeOK /\ InTurn => StoredInOrder
<1> SUFFICES ASSUME JournalTypeOK, InTurn, NEW i \in DOMAIN stored, NEW j \in DOMAIN stored,
                    i < j, stored[j] <= stored[i]
             PROVE  repeats /\ stored[j] \in In(SubSeq(stored, 1, i))
  BY DEF StoredInOrder
<1>1. repeats /\ stored[j] \in StoredUpTo(i)
  BY DEF InTurn
<1>2. PICK k \in 1 .. i : stored[j] = stored[k]
  BY <1>1 DEF StoredUpTo
<1>3. stored \in Seq(Events) /\ DOMAIN stored = 1 .. Len(stored) /\ Len(stored) \in Nat
  BY SequenceFacts DEF JournalTypeOK, Events
<1>4. \A m \in 1 .. i : stored[m] \in Events
  BY <1>3, SequenceFacts
<1>5. PICK s : s = SubSeq(stored, 1, i)
  OBVIOUS
<1>6. /\ s \in Seq(Events) /\ Len(s) = IF 1 <= i THEN i - 1 + 1 ELSE 0
      /\ \A m \in 1 .. i - 1 + 1 : s[m] = stored[1 + m - 1]
  BY <1>3, <1>4, <1>5, SubSeqProperties
<1>7. DOMAIN s = 1 .. i /\ s[k] = stored[k]
  <2>1. i - 1 + 1 = i /\ 1 <= i /\ 1 + k - 1 = k
    BY <1>2, <1>3
  <2> QED BY <1>6, <2>1, SequenceFacts
<1>8. stored[j] \in In(s)
  BY <1>2, <1>7 DEF In
<1> QED BY <1>1, <1>5, <1>8

\* The store has a run's events in the order RunJournal recorded them, for every
\* flush threshold and whatever batches fail, come back to the front of the buffer
\* or are committed twice: only an event of such a batch is there again (_put,
\* _flush_sync, _flush_async, flush).
THEOREM EventsInOrder == JournalSpec => []StoredInOrder
<1>1. JournalInv => StoredInOrder
  BY InTurnIsOrder DEF JournalInv
<1> QED BY <1>1, JournalInvariant, PTL

\* No progress snapshot is under way, or scheduled, once flush() has come to the
\* last events: none can overwrite the run's completion data.
THEOREM FlushIsLast == JournalSpec => []QuietAfterFlush
<1>1. JournalInv => QuietAfterFlush
  BY DEF JournalInv
<1> QED BY <1>1, JournalInvariant, PTL


(***************************************************************************)
(* StreamBridge.  A follower's offset is never behind what it has seen,    *)
(* and lies ahead of it only by events that have left the window.          *)
(***************************************************************************)
Position(c) ==
    /\ client[c].last <= next /\ client[c].at <= next
    /\ Follows(c) => /\ client[c].last <= client[c].at
                     /\ \A n \in client[c].last .. client[c].at - 1 : n < start

BridgeInv == BridgeTypeOK /\ \A c \in Clients : Position(c)

ClientState ==
    [reads : {"nothing", "stream", "stray", "end"}, at : 0 .. MaxEvents, last : 0 .. MaxEvents]

LEMMA BridgeInitInv == BridgeInit => BridgeInv
<1> SUFFICES ASSUME BridgeInit PROVE BridgeInv
  OBVIOUS
<1>1. 0 \in 0 .. MaxEvents /\ 0 \in 0 .. 0 /\ 0 - 0 <= Maxsize
  BY BridgeBounds
<1>2. Offline \in ClientState /\ Offline.reads = "nothing" /\ Offline.at = 0 /\ Offline.last = 0
  BY <1>1 DEF Offline, ClientState
<1>3. BridgeTypeOK
  BY <1>1, <1>2 DEF BridgeInit, BridgeTypeOK, ClientState
<1>4. \A c \in Clients : Position(c)
  BY <1>2 DEF BridgeInit, Position, Follows
<1> QED BY <1>3, <1>4 DEF BridgeInv

\* The producer moves the window only forward.
LEMMA ProducerInv ==
    ASSUME BridgeInv, Publish \/ SetTerminal \/ PublishEnd \/ CleanUp
    PROVE  BridgeInv'
<1>1. /\ next \in Nat /\ start \in Nat /\ start <= next /\ next' \in Nat /\ start' \in Nat
      /\ next <= next' /\ start <= start' /\ start' <= next' /\ next' - start' <= Maxsize
      /\ next' <= MaxEvents /\ client' = client /\ kind' = kind
  BY BridgeBounds DEF Publish, SetTerminal, PublishEnd, CleanUp, BridgeInv, BridgeTypeOK
<1>2. ended' \in BOOLEAN /\ exists' \in BOOLEAN /\ terminal' \in BOOLEAN
  BY DEF Publish, SetTerminal, PublishEnd, CleanUp, BridgeInv, BridgeTypeOK
<1>3. BridgeTypeOK'
  <2>1. next' \in 0 .. MaxEvents /\ start' \in 0 .. next'
    BY <1>1, BridgeBounds
  <2> QED BY <1>1, <1>2, <2>1 DEF BridgeInv, BridgeTypeOK
<1>4. ASSUME NEW c \in Clients PROVE Position(c)'
  <2>1. client[c].last \in Nat /\ client[c].at \in Nat
    BY DEF BridgeInv, BridgeTypeOK
  <2>2. Position(c)
    BY DEF BridgeInv
  <2> QED BY <1>1, <2>1, <2>2 DEF Position, Follows
<1> QED BY <1>3, <1>4 DEF BridgeInv

\* A step of client c: what it makes of the client's state.
LEMMA ClientStep ==
    ASSUME BridgeInv, NEW c \in Clients, NEW x \in ClientState,
           client' = [client EXCEPT ![c] = x],
           UNCHANGED <<kind, start, next, ended, exists, terminal>>,
           x.last <= next, x.at <= next,
           x.reads = "stream" => /\ x.last <= x.at
                                 /\ \A n \in x.last .. x.at - 1 : n < start
    PROVE  BridgeInv'
<1>1. client \in [Clients -> ClientState]
  BY DEF BridgeInv, BridgeTypeOK, ClientState
<1>2. BridgeTypeOK'
  BY <1>1 DEF BridgeInv, BridgeTypeOK, ClientState
<1>3. client'[c] = x /\ \A d \in Clients \ {c} : client'[d] = client[d]
  BY <1>1
<1>4. ASSUME NEW d \in Clients PROVE Position(d)'
  <2>1. CASE d = c
    BY <1>3, <2>1 DEF Position, Follows
  <2>2. CASE d # c
    BY <1>3, <2>2 DEF Position, Follows, BridgeInv
  <2> QED BY <2>1, <2>2
<1> QED BY <1>2, <1>4 DEF BridgeInv

\* Where _resolve_start_offset lets a client begin.
LEMMA StartOffsetFacts ==
    ASSUME BridgeInv, NEW last \in Nat, last <= next
    PROVE  /\ StartOffset(last) \in 0 .. next /\ last <= StartOffset(last)
           /\ \A n \in last .. StartOffset(last) - 1 : n < start
<1>1. next \in Nat /\ start \in Nat /\ start <= next /\ kind \in {"memory", "redis"}
  BY DEF BridgeInv, BridgeTypeOK
<1>2. \/ StartOffset(last) = last
      \/ StartOffset(last) = start /\ last <= start
  <2>1. CASE last = 0
    BY <1>1, <2>1 DEF StartOffset
  <2>2. CASE last # 0 /\ kind = "redis"
    BY <1>1, <2>2 DEF StartOffset
  <2>3. CASE last # 0 /\ kind = "memory" /\ last - 1 \in start .. next - 1
    BY <1>1, <2>3 DEF StartOffset
  <2>4. CASE last # 0 /\ kind = "memory" /\ last - 1 \notin start .. next - 1
    <3>1. last <= start
      BY <1>1, <2>4
    <3>2. StartOffset(last) = start
      BY <1>1, <2>4 DEF StartOffset
    <3> QED BY <3>1, <3>2
  <2> QED BY <1>1, <2>1, <2>2, <2>3, <2>4
<1> QED BY <1>1, <1>2

LEMMA ClientsInv ==
    ASSUME BridgeInv, NEW c \in Clients,
           Serve(c) \/ Subscribe(c) \/ SubscribeTooLate(c) \/ Disconnect(c)
    PROVE  BridgeInv'
<1>0. /\ client \in [Clients -> ClientState] /\ client[c] \in ClientState /\ Position(c)
      /\ next \in Nat /\ start \in Nat /\ start <= next /\ next <= MaxEvents
  BY BridgeBounds DEF BridgeInv, BridgeTypeOK, ClientState
<1>1. /\ UNCHANGED <<kind, start, next, ended, exists, terminal>>
      /\ client[c].at \in Nat /\ client[c].last \in Nat
      /\ client[c].last <= next /\ client[c].at <= next
  BY <1>0 DEF Serve, Deliver, DeliverEnd, EndAtHeartbeat, Subscribe, SubscribeTooLate, Disconnect,
     Position, ClientState
<1>2. CASE Deliver(c)
  <2>1. PICK n : n = IF client[c].at < start THEN start ELSE client[c].at
    OBVIOUS
  <2>2. Follows(c) /\ n < next /\ client' = [client EXCEPT ![c].at = n + 1, ![c].last = n + 1]
    BY <1>2, <2>1 DEF Deliver
  <2>3. n \in Nat
    BY <1>0, <1>1, <2>1
  <2>4. PICK x : x = [client[c] EXCEPT !.at = n + 1, !.last = n + 1]
    OBVIOUS
  <2>5. x.at = n + 1 /\ x.last = n + 1 /\ x.reads = "stream"
    BY <1>0, <2>2, <2>4 DEF ClientState, Follows
  <2>6. x \in ClientState
    <3>1. n + 1 \in 0 .. MaxEvents
      BY <1>0, <2>2, <2>3, BridgeBounds
    <3> QED BY <1>0, <2>4, <3>1 DEF ClientState
  <2>7. client' = [client EXCEPT ![c] = x]
    BY <2>2, <2>4
  <2>8. x.last <= next /\ x.at <= next /\ x.last <= x.at /\ x.last .. x.at - 1 = {}
    BY <1>0, <2>2, <2>3, <2>5
  <2> QED BY <1>1, <2>6, <2>7, <2>8, ClientStep
<1>3. CASE DeliverEnd(c) \/ EndAtHeartbeat(c) \/ SubscribeTooLate(c)
  <2>1. PICK x : x = [client[c] EXCEPT !.reads = "end"]
    OBVIOUS
  <2>2. x \in ClientState /\ x.at = client[c].at /\ x.last = client[c].last /\ x.reads = "end"
    BY <1>0, <2>1 DEF ClientState
  <2>3. client' = [client EXCEPT ![c] = x]
    BY <1>3, <2>1 DEF DeliverEnd, EndAtHeartbeat, SubscribeTooLate
  <2> QED BY <1>1, <2>2, <2>3, ClientStep
<1>4. CASE Subscribe(c)
  <2>1. PICK r, o : r = (IF exists \/ kind = "redis" THEN "stream" ELSE "stray")
                    /\ o = StartOffset(client[c].last)
    OBVIOUS
  <2>2. PICK x : x = [client[c] EXCEPT !.reads = r, !.at = o]
    OBVIOUS
  <2>3. /\ o \in 0 .. next /\ client[c].last <= o
        /\ \A n \in client[c].last .. o - 1 : n < start
    BY <1>1, <2>1, StartOffsetFacts
  <2>4. r \in {"stream", "stray"} /\ o \in 0 .. MaxEvents /\ o <= next
    BY <1>0, <2>1, <2>3, BridgeBounds
  <2>5. x \in ClientState
    BY <1>0, <2>2, <2>4 DEF ClientState
  <2>6. x.at = o /\ x.last = client[c].last
    BY <1>0, <2>2 DEF ClientState
  <2>7. client' = [client EXCEPT ![c] = x]
    BY <1>4, <2>1, <2>2, Zenon DEF Subscribe
  <2> QED BY <1>1, <2>3, <2>4, <2>5, <2>6, <2>7, ClientStep
<1>5. CASE Disconnect(c)
  <2>1. PICK x : x = [client[c] EXCEPT !.reads = "nothing", !.at = 0]
    OBVIOUS
  <2>2. 0 \in 0 .. MaxEvents
    BY BridgeBounds
  <2>3. x \in ClientState /\ x.at = 0 /\ x.last = client[c].last /\ x.reads = "nothing"
    BY <1>0, <2>1, <2>2 DEF ClientState
  <2>4. client' = [client EXCEPT ![c] = x]
    BY <1>5, <2>1 DEF Disconnect
  <2>5. x.last <= next /\ x.at <= next
    BY <1>0, <1>1, <2>3
  <2> QED BY <1>1, <2>3, <2>4, <2>5, ClientStep
<1> QED BY <1>2, <1>3, <1>4, <1>5 DEF Serve

LEMMA BridgeNextInv == BridgeInv /\ [BridgeNext]_bridgeVars => BridgeInv'
<1> SUFFICES ASSUME BridgeInv, [BridgeNext]_bridgeVars PROVE BridgeInv'
  OBVIOUS
<1>1. CASE BridgeNext
  BY <1>1, ProducerInv, ClientsInv DEF BridgeNext
<1>2. CASE UNCHANGED bridgeVars
  BY <1>2 DEF bridgeVars, BridgeInv, BridgeTypeOK, Position, Follows
<1> QED BY <1>1, <1>2

\* The window and every client's place in it, in every state of BridgeSpec.
THEOREM BridgeInvariant == BridgeSpec => []BridgeInv
BY BridgeInitInv, BridgeNextInv, PTL DEF BridgeSpec

\* For any number of clients, any window and both bridges: over all its connections
\* a client gets the events in order, none twice, and misses one only when the
\* window had moved past it (_resolve_start_offset, subscribe, sse_consumer).
THEOREM StreamIsWhole == BridgeSpec => NoGapNoRepeat
<1>1. ASSUME BridgeInv, [BridgeNext]_bridgeVars, NEW c \in Clients,
             Follows(c), Follows(c)', client'[c].at # client[c].at
      PROVE  /\ client'[c].last > client[c].last
             /\ \A n \in client[c].last .. client'[c].last - 2 : n < start
  <2>0. /\ client \in [Clients -> ClientState] /\ client[c] \in ClientState /\ Position(c)
        /\ next \in Nat /\ start \in Nat
    BY <1>1 DEF BridgeInv, BridgeTypeOK, ClientState
  <2>1. PICK d \in Clients : Serve(d) \/ Subscribe(d) \/ SubscribeTooLate(d) \/ Disconnect(d)
    BY <1>1 DEF BridgeNext, bridgeVars, Publish, SetTerminal, PublishEnd, CleanUp
  <2>2. d = c
    BY <1>1, <2>0, <2>1 DEF Serve, Deliver, DeliverEnd, EndAtHeartbeat, Subscribe,
       SubscribeTooLate, Disconnect
  <2>3. Deliver(c)
    <3>1. ~Subscribe(c) /\ ~SubscribeTooLate(c)
      BY <1>1 DEF Subscribe, SubscribeTooLate, Follows
    <3>2. ~DeliverEnd(c) /\ ~EndAtHeartbeat(c)
      BY <1>1, <2>0 DEF DeliverEnd, EndAtHeartbeat, Follows, ClientState
    <3>3. ~Disconnect(c)
      BY <1>1, <2>0 DEF Disconnect, Follows, ClientState
    <3> QED BY <2>1, <2>2, <3>1, <3>2, <3>3 DEF Serve
  <2>4. PICK n : n = IF client[c].at < start THEN start ELSE client[c].at
    OBVIOUS
  <2>5. client' = [client EXCEPT ![c].at = n + 1, ![c].last = n + 1]
    BY <2>3, <2>4 DEF Deliver
  <2>6. client'[c].last = n + 1
    BY <2>0, <2>5 DEF ClientState
  <2>7. /\ client[c].last \in Nat /\ client[c].at \in Nat /\ client[c].last <= client[c].at
        /\ \A k \in client[c].last .. client[c].at - 1 : k < start
    BY <1>1, <2>0 DEF Position, ClientState
  <2>8. n \in Nat /\ client[c].at <= n /\ (client[c].at < n => n = start)
    BY <2>0, <2>4, <2>7
  <2> QED BY <2>0, <2>6, <2>7, <2>8
<1>2. BridgeInv /\ [BridgeNext]_bridgeVars =>
        [\A c \in Clients : Follows(c) /\ Follows(c)' /\ client'[c].at # client[c].at =>
           /\ client'[c].last > client[c].last
           /\ \A n \in client[c].last .. client'[c].last - 2 : n < start]_bridgeVars
  BY <1>1
<1> QED BY <1>2, BridgeInvariant, PTL DEF BridgeSpec, NoGapNoRepeat

(***************************************************************************)
(* Scheduler.  Whatever raises or crashes, a dispatch holds a row of its   *)
(* own, in the state its place asks for (Structure); and as long as no two *)
(* dispatches raced, one between its check and its launch finds no live    *)
(* run with an active row, and no second dispatch there (Sole).            *)
(***************************************************************************)
TaskStates == {"enabled", "running", "paused"} \cup TaskOver
TaskRecord == [type : {"once", "cron"}, status : TaskStates,
               next : {"none", "future", "due"}, lease : {"none", "held", "expired"}]
RowStates == {"queued", "running"} \cup FinalRow
RunStates == {"none", "alive", "over"} \cup Outcome
RowRecord == [status : RowStates, run : RunStates]
Places == {"idle", "check", "create", "createSkipped", "launch", "skip", "skipTask",
           "markRow", "markTask", "failRow", "failTask"}
DispatchRecord == [at : Places, status : TaskStates, row : 0 .. MaxRows]

SchedTyped ==
    /\ task \in TaskRecord /\ dispatch \in [Triggers -> DispatchRecord]
    /\ rows \in [1 .. MaxRows -> RowRecord]
    /\ process \in {"down", "tasks", "up"} /\ upsets \in 0 .. MaxUpsets
    /\ editing \in {"none", "paused", "enabled"}
    /\ raced \in BOOLEAN /\ echoed \in BOOLEAN /\ swallowed \in BOOLEAN

RowPlaces == {"launch", "skip", "skipTask", "markRow", "markTask", "failRow", "failTask"}
HasRow(t) == dispatch[t].at \in RowPlaces

\* What the row r of a dispatch at a place looks like; none of these is NoRow
Fits(at, r) ==
    /\ at \in {"launch", "skip"} => r.status = "queued" /\ r.run = "none"
    /\ at = "skipTask" => r.run = "none"
    /\ at \in {"markRow", "markTask"} => r.run # "none" /\ r.status # "skipped"
    /\ at \in {"failRow", "failTask"} => r.status # "skipped"

Structure ==
    /\ \A t \in Triggers : HasRow(t) => /\ dispatch[t].row \in 1 .. MaxRows
                                        /\ Fits(dispatch[t].at, rows[dispatch[t].row])
    /\ \A t, u \in Triggers : t # u /\ HasRow(t) /\ HasRow(u) => dispatch[t].row # dispatch[u].row
    /\ up \/ \A t \in Triggers : dispatch[t].at = "idle"

Alone(t) ==
    dispatch[t].at \in {"create", "launch"} =>
        /\ \A i \in 1 .. MaxRows : ~Sighted(i)
        /\ \A u \in Triggers \ {t} : dispatch[u].at \notin {"create", "launch"}

Sole ==
    /\ \A t \in Triggers : Alone(t)
    /\ \A i, j \in 1 .. MaxRows : Sighted(i) /\ Sighted(j) => i = j

SchedInv == SchedTyped /\ Structure /\ (raced \/ Sole)

LEMMA SchedTypeFollows == SchedInv => SchedTypeOK
BY DEF SchedInv, SchedTyped, SchedTypeOK, TaskRecord, TaskStates, DispatchRecord, Places, RowRecord,
   RowStates, RunStates

LEMMA RecordsTyped ==
    /\ NoRow \in RowRecord /\ NoRow.run = "over" /\ NoRow.status = "skipped"
    /\ NoDispatch \in DispatchRecord /\ NoDispatch.at = "idle"
BY SchedulerBounds DEF NoRow, RowRecord, RowStates, RunStates, FinalRow, NoDispatch, DispatchRecord,
   Places, TaskStates

LEMMA SchedInitInv == SchedInit => SchedInv
<1> SUFFICES ASSUME SchedInit PROVE SchedInv
  OBVIOUS
<1>1. \A t \in Triggers : dispatch[t].at = "idle"
  BY RecordsTyped DEF SchedInit
<1>2. task \in TaskRecord
  BY DEF SchedInit, TaskRecord, TaskStates
<1>3. SchedTyped
  <2>1. 0 \in 0 .. MaxUpsets
    BY SchedulerBounds
  <2> QED BY <1>2, <2>1, RecordsTyped DEF SchedInit, SchedTyped
<1>4. Structure
  BY <1>1 DEF Structure, HasRow, RowPlaces
<1>5. Sole
  BY <1>1, RecordsTyped DEF SchedInit, Sole, Alone, Sighted, Alive
<1> QED BY <1>3, <1>4, <1>5 DEF SchedInv

\* Where a dispatch goes next.
LEMMA AtFacts ==
    ASSUME SchedTyped, NEW t \in Triggers, NEW where \in Places, At(t, where)
    PROVE  /\ dispatch' \in [Triggers -> DispatchRecord] /\ dispatch'[t].at = where
           /\ where # "idle" => dispatch'[t].row = dispatch[t].row
           /\ \A u \in Triggers \ {t} : dispatch'[u] = dispatch[u]
<1>0. dispatch \in [Triggers -> DispatchRecord] /\ dispatch[t] \in DispatchRecord
  BY DEF SchedTyped
<1>2. CASE where = "idle"
  <2>1. dispatch' = [dispatch EXCEPT ![t] = NoDispatch]
    BY <1>2 DEF At
  <2> QED BY <1>0, <1>2, <2>1, RecordsTyped
<1>3. CASE where # "idle"
  <2>1. PICK x : x = [dispatch[t] EXCEPT !.at = where]
    OBVIOUS
  <2>2. dispatch' = [dispatch EXCEPT ![t] = x]
    BY <1>3, <2>1 DEF At
  <2>3. x \in DispatchRecord /\ x.at = where /\ x.row = dispatch[t].row
    BY <1>0, <2>1 DEF DispatchRecord
  <2> QED BY <1>0, <2>2, <2>3
<1> QED BY <1>2, <1>3

LEMMA SettleTaskFacts ==
    ASSUME SchedTyped, NEW status \in TaskStates, SettleTask(status)
    PROVE  task' \in TaskRecord
<1>1. task \in TaskRecord /\ NextRunAt \in {"none", "future"}
  BY DEF SchedTyped, NextRunAt
<1> QED BY <1>1 DEF SettleTask, TaskRecord

\* A step in which no run comes to the check's sight and no dispatch to its launch
\* keeps Sole.
LEMMA SoleKept ==
    ASSUME raced \/ Sole, raced' = raced,
           \A i \in 1 .. MaxRows : Sighted(i)' => Sighted(i),
           \A t \in Triggers : dispatch'[t].at \in {"create", "launch"} =>
                               dispatch[t].at \in {"create", "launch"}
    PROVE  raced' \/ Sole'
BY DEF Sole, Alone

\* A step that leaves every dispatch its row, in a fitting state, keeps Structure.
LEMMA StructureKept ==
    ASSUME Structure,
           \A t \in Triggers : HasRow(t)' =>
               /\ HasRow(t) /\ dispatch'[t].row = dispatch[t].row
               /\ Fits(dispatch'[t].at, rows'[dispatch[t].row]),
           up' \/ \A t \in Triggers : dispatch'[t].at = "idle"
    PROVE  Structure'
BY DEF Structure

\* The rows stay: time, the claim, the trigger, the user's edits.
LEMMA RequestsInv ==
    ASSUME SchedInv, \/ Tick \/ LeaseExpires \/ Claim \/ Trigger \/ EditWrites
                     \/ \E status \in {"paused", "enabled"} : Edit(status)
    PROVE  SchedInv'
<1>0. SchedTyped /\ Structure /\ (raced \/ Sole)
  BY DEF SchedInv
<1>1. UNCHANGED <<rows, process, raced, swallowed>>
  BY DEF Tick, LeaseExpires, Claim, Trigger, EditWrites, Edit
<1>2. task' \in TaskRecord
  BY <1>0 DEF SchedTyped, Tick, LeaseExpires, Claim, Trigger, EditWrites, Edit, TaskRecord, TaskStates
<1>3. upsets' \in 0 .. MaxUpsets
  BY <1>0, SchedulerBounds DEF SchedTyped, Tick, LeaseExpires, Claim, Trigger, EditWrites, Edit
<1>4. editing' \in {"none", "paused", "enabled"} /\ echoed' \in BOOLEAN
  BY <1>0 DEF SchedTyped, Tick, LeaseExpires, Claim, Trigger, EditWrites, Edit
<1>5. /\ dispatch' \in [Triggers -> DispatchRecord]
      /\ \A t \in Triggers : dispatch'[t] = dispatch[t] \/ (dispatch'[t].at = "check" /\ up)
  <2>1. CASE dispatch' = dispatch
    BY <1>0, <2>1 DEF SchedTyped
  <2>2. CASE Claim \/ Trigger
    <3>1. PICK t \in Triggers, st \in TaskStates :
             /\ dispatch' = [dispatch EXCEPT ![t] = [at |-> "check", status |-> st, row |-> 0]]
             /\ up
      BY <1>0, <2>2 DEF SchedTyped, Claim, Trigger, Triggers, TaskStates, TaskRecord
    <3>2. [at |-> "check", status |-> st, row |-> 0] \in DispatchRecord
      BY SchedulerBounds DEF DispatchRecord, Places
    <3> QED BY <1>0, <3>1, <3>2 DEF SchedTyped
  <2> QED BY <2>1, <2>2 DEF Tick, LeaseExpires, Claim, Trigger, EditWrites, Edit
<1>6. SchedTyped'
  BY <1>0, <1>1, <1>2, <1>3, <1>4, <1>5 DEF SchedTyped
<1>7. raced' \/ Sole'
  BY <1>0, <1>1, <1>5, SoleKept DEF Sighted, Alive, ActiveRow
<1>8. \A t \in Triggers : HasRow(t)' => HasRow(t) /\ dispatch'[t] = dispatch[t]
  BY <1>5 DEF HasRow, RowPlaces
<1>9. up' \/ \A t \in Triggers : dispatch'[t].at = "idle"
  BY <1>0, <1>1, <1>5 DEF Structure, up
<1>10. Structure'
  BY <1>0, <1>1, <1>8, <1>9, StructureKept DEF Structure
<1> QED BY <1>6, <1>7, <1>10 DEF SchedInv

\* The overlap check: whoever goes on to create is alone, or two have raced.
LEMMA CheckInv ==
    ASSUME SchedInv, NEW t \in Triggers, CheckOverlap(t)
    PROVE  SchedInv'
<1>0. SchedTyped /\ Structure /\ (raced \/ Sole) /\ DOMAIN rows = 1 .. MaxRows
  BY DEF SchedInv, SchedTyped
<1>1. PICK where : /\ where = CASE ~HasActiveRuns -> "create"
                                [] HasActiveRuns /\ t = "manual" -> "idle"
                                [] OTHER -> "createSkipped"
                   /\ At(t, where)
  BY DEF CheckOverlap
<1>2. where \in {"create", "idle", "createSkipped"} /\ (where = "create" <=> ~HasActiveRuns)
  BY <1>1
<1>3. /\ dispatch' \in [Triggers -> DispatchRecord] /\ dispatch'[t].at = where
      /\ \A u \in Triggers \ {t} : dispatch'[u] = dispatch[u]
  BY <1>0, <1>1, <1>2, AtFacts DEF Places
<1>4. /\ UNCHANGED <<task, rows, editing, process, upsets, echoed, swallowed>>
      /\ raced' = IF HasActiveRuns THEN raced
                  ELSE \E u \in Triggers \ {t} : dispatch[u].at = "create"
      /\ dispatch[t].at = "check"
  BY DEF CheckOverlap
<1>5. SchedTyped'
  BY <1>0, <1>3, <1>4 DEF SchedTyped
<1>6. \A u \in Triggers : HasRow(u)' => HasRow(u) /\ dispatch'[u] = dispatch[u]
  BY <1>2, <1>3 DEF HasRow, RowPlaces
<1>7. up' \/ \A u \in Triggers : dispatch'[u].at = "idle"
  BY <1>0, <1>4 DEF Structure, up
<1>8. Structure'
  BY <1>0, <1>4, <1>6, <1>7, StructureKept DEF Structure
<1>9. \A i \in 1 .. MaxRows : Sighted(i)' <=> Sighted(i)
  BY <1>4 DEF Sighted, Alive, ActiveRow
<1>10. CASE HasActiveRuns
  BY <1>0, <1>2, <1>3, <1>4, <1>5, <1>8, <1>9, <1>10, SoleKept DEF SchedInv
<1>11. CASE ~HasActiveRuns
  <2>1. \A i \in 1 .. MaxRows : ~Sighted(i)
    BY <1>0, <1>11 DEF HasActiveRuns, Sighted
  <2>2. \A u \in Triggers \ {t} : dispatch[u].at # "launch"
    <3> SUFFICES ASSUME NEW u \in Triggers \ {t}, dispatch[u].at = "launch" PROVE FALSE
      OBVIOUS
    <3>1. dispatch[u].row \in 1 .. MaxRows /\ rows[dispatch[u].row].status = "queued"
      BY <1>0 DEF Structure, HasRow, RowPlaces, Fits
    <3> QED BY <1>0, <1>11, <3>1 DEF HasActiveRuns, ActiveRow
  <2>3. raced' \/ Sole'
    <3> SUFFICES ASSUME ~raced' PROVE Sole'
      OBVIOUS
    <3>1. \A u \in Triggers \ {t} : dispatch[u].at \notin {"create", "launch"}
      BY <1>4, <1>11, <2>2
    <3> QED BY <1>3, <1>9, <2>1, <3>1 DEF Sole, Alone
  <2> QED BY <1>5, <1>8, <2>3 DEF SchedInv
<1> QED BY <1>10, <1>11

\* A row is created in a place nobody holds.
LEMMA CreateRowInv ==
    ASSUME SchedInv, NEW t \in Triggers, CreateRow(t)
    PROVE  SchedInv'
<1>0. /\ SchedTyped /\ Structure /\ (raced \/ Sole) /\ DOMAIN rows = 1 .. MaxRows
      /\ dispatch \in [Triggers -> DispatchRecord] /\ dispatch[t] \in DispatchRecord
      /\ rows \in [1 .. MaxRows -> RowRecord]
  BY DEF SchedInv, SchedTyped
<1>1. PICK i \in 1 .. MaxRows :
         /\ rows[i] = NoRow
         /\ rows' = [rows EXCEPT ![i] = [status |-> "queued", run |-> "none"]]
         /\ dispatch' = [dispatch EXCEPT ![t].row = i,
                           ![t].at = IF @ = "create" THEN "launch" ELSE "skip"]
  BY <1>0 DEF CreateRow
<1>2. /\ dispatch[t].at \in {"create", "createSkipped"}
      /\ UNCHANGED <<task, editing, process, upsets, raced, echoed, swallowed>>
  BY DEF CreateRow
<1>3. PICK p : p = IF dispatch[t].at = "create" THEN "launch" ELSE "skip"
  OBVIOUS
<1>4. PICK x : x = [dispatch[t] EXCEPT !.row = i, !.at = p]
  OBVIOUS
<1>5. x.at = p /\ x.row = i
  BY <1>0, <1>4 DEF DispatchRecord
<1>6. x \in DispatchRecord
  <2>1. i \in 0 .. MaxRows /\ p \in Places
    BY <1>3, SchedulerBounds DEF Places
  <2> QED BY <1>0, <1>4, <2>1 DEF DispatchRecord
<1>7. dispatch' = [dispatch EXCEPT ![t] = x]
  BY <1>0, <1>1, <1>3, <1>4 DEF DispatchRecord
<1>8. /\ dispatch' \in [Triggers -> DispatchRecord] /\ dispatch'[t] = x
      /\ \A u \in Triggers \ {t} : dispatch'[u] = dispatch[u]
  BY <1>0, <1>6, <1>7
<1>9. /\ rows'[i].status = "queued" /\ rows'[i].run = "none"
      /\ \A j \in 1 .. MaxRows \ {i} : rows'[j] = rows[j]
  BY <1>0, <1>1
<1>10. rows' \in [1 .. MaxRows -> RowRecord]
  <2>1. [status |-> "queued", run |-> "none"] \in RowRecord
    BY DEF RowRecord, RowStates, RunStates
  <2> QED BY <1>0, <1>1, <2>1
<1>11. SchedTyped'
  BY <1>0, <1>2, <1>8, <1>10 DEF SchedTyped
<1>12. raced' \/ Sole'
  <2>1. \A j \in 1 .. MaxRows : Sighted(j)' => Sighted(j)
    BY <1>9 DEF Sighted, Alive, ActiveRow
  <2>2. \A u \in Triggers : dispatch'[u].at \in {"create", "launch"} =>
                            dispatch[u].at \in {"create", "launch"}
    BY <1>2, <1>3, <1>5, <1>8
  <2> QED BY <1>0, <1>2, <2>1, <2>2, SoleKept
<1>13. Structure'
  <2>1. \A u \in Triggers : HasRow(u) => dispatch[u].row \in 1 .. MaxRows /\ dispatch[u].row # i
    BY <1>0, <1>1, RecordsTyped DEF Structure, HasRow, RowPlaces, Fits
  <2>2. \A u \in Triggers \ {t} : HasRow(u)' => HasRow(u)
    BY <1>8 DEF HasRow
  <2>3. ASSUME NEW u \in Triggers, HasRow(u)'
        PROVE  /\ dispatch'[u].row \in 1 .. MaxRows
               /\ Fits(dispatch'[u].at, rows'[dispatch'[u].row])
    <3>1. CASE u = t
      BY <1>3, <1>5, <1>8, <1>9, <3>1 DEF Fits
    <3>2. CASE u # t
      <4>1. HasRow(u) /\ dispatch'[u] = dispatch[u]
        BY <1>8, <2>2, <2>3, <3>2
      <4>2. rows'[dispatch[u].row] = rows[dispatch[u].row]
        BY <1>9, <2>1, <4>1
      <4> QED BY <1>0, <4>1, <4>2 DEF Structure
    <3> QED BY <3>1, <3>2
  <2>4. \A u, v \in Triggers : u # v /\ HasRow(u)' /\ HasRow(v)' =>
                               dispatch'[u].row # dispatch'[v].row
    BY <1>0, <1>5, <1>8, <2>1, <2>2 DEF Structure
  <2>5. up' \/ \A u \in Triggers : dispatch'[u].at = "idle"
    BY <1>0, <1>2 DEF Structure, up
  <2> QED BY <2>3, <2>4, <2>5 DEF Structure
<1> QED BY <1>11, <1>12, <1>13 DEF SchedInv

\* The launch meets a busy thread, or it or a write after it raises.
LEMMA LaunchEndsInv ==
    ASSUME SchedInv, NEW t \in Triggers, LaunchConflicts(t) \/ LaunchRaises(t)
    PROVE  SchedInv'
<1>0. SchedTyped /\ Structure /\ (raced \/ Sole)
  BY DEF SchedInv
<1>1. PICK where \in {"skip", "failRow"} :
         /\ At(t, where) /\ dispatch[t].at \in {"launch", "markRow", "markTask"}
         /\ where = "skip" => dispatch[t].at = "launch"
  BY DEF LaunchConflicts, LaunchRaises
<1>2. /\ dispatch' \in [Triggers -> DispatchRecord] /\ dispatch'[t].at = where
      /\ dispatch'[t].row = dispatch[t].row
      /\ \A u \in Triggers \ {t} : dispatch'[u] = dispatch[u]
  BY <1>0, <1>1, AtFacts DEF Places
<1>3. UNCHANGED <<task, rows, editing, process, raced, echoed, swallowed>>
  BY DEF LaunchConflicts, LaunchRaises
<1>4. upsets' \in 0 .. MaxUpsets
  BY <1>0, SchedulerBounds DEF SchedTyped, LaunchConflicts, LaunchRaises
<1>5. SchedTyped'
  BY <1>0, <1>2, <1>3, <1>4 DEF SchedTyped
<1>6. raced' \/ Sole'
  BY <1>0, <1>2, <1>3, SoleKept DEF Sighted, Alive, ActiveRow
<1>7. Structure'
  <2>1. ASSUME NEW u \in Triggers, HasRow(u)'
        PROVE  /\ HasRow(u) /\ dispatch'[u].row = dispatch[u].row
               /\ Fits(dispatch'[u].at, rows'[dispatch[u].row])
    <3>1. CASE u = t
      BY <1>0, <1>1, <1>2, <1>3, <3>1 DEF Structure, HasRow, RowPlaces, Fits
    <3>2. CASE u # t
      BY <1>0, <1>2, <1>3, <2>1, <3>2 DEF Structure, HasRow
    <3> QED BY <3>1, <3>2
  <2>2. up' \/ \A u \in Triggers : dispatch'[u].at = "idle"
    BY <1>0, <1>1, <1>3 DEF Structure, up
  <2> QED BY <1>0, <2>1, <2>2, StructureKept
<1> QED BY <1>5, <1>6, <1>7 DEF SchedInv

\* The launch, and the writes of a dispatch on its own row.
OwnRowStep(t) == SkipRow(t) \/ FailRow(t) \/ LaunchRun(t) \/ MarkRow(t)

LEMMA OwnRowInv ==
    ASSUME SchedInv, NEW t \in Triggers, OwnRowStep(t)
    PROVE  SchedInv'
<1>0. /\ SchedTyped /\ Structure /\ (raced \/ Sole) /\ rows \in [1 .. MaxRows -> RowRecord]
      /\ HasRow(t) /\ dispatch[t].at \in {"skip", "failRow", "launch", "markRow"}
  BY DEF SchedInv, SchedTyped, OwnRowStep, SkipRow, FailRow, LaunchRun, MarkRow, HasRow, RowPlaces
<1>1. PICK k \in 1 .. MaxRows : k = dispatch[t].row /\ Fits(dispatch[t].at, rows[k])
  BY <1>0 DEF Structure
<1>2. rows[k] \in RowRecord
  BY <1>0
<1>3. UNCHANGED <<task, editing, process, upsets, raced, echoed, swallowed>>
  BY DEF OwnRowStep, SkipRow, FailRow, LaunchRun, MarkRow
<1>4. PICK where, x :
         /\ rows' = [rows EXCEPT ![k] = x] /\ At(t, where) /\ where \in RowPlaces
         /\ x \in RowRecord /\ Fits(where, x) /\ where \notin {"create", "launch"}
         /\ \/ dispatch[t].at = "launch" /\ x.run = "alive"
            \/ x.run = rows[k].run /\ (x.status \in {"queued", "running"} =>
                                         rows[k].status \in {"queued", "running"})
  <2>1. CASE SkipRow(t)
    <3>1. PICK x : x = [rows[k] EXCEPT !.status = "skipped"]
      OBVIOUS
    <3>2. rows' = [rows EXCEPT ![k] = x] /\ At(t, "skipTask") /\ dispatch[t].at = "skip"
      BY <1>1, <2>1, <3>1 DEF SkipRow
    <3>3. x \in RowRecord /\ x.run = rows[k].run /\ x.status = "skipped"
      BY <1>2, <3>1 DEF RowRecord, RowStates, FinalRow
    <3>4. Fits("skipTask", x)
      BY <1>1, <3>2, <3>3 DEF Fits
    <3> QED BY <3>2, <3>3, <3>4 DEF RowPlaces
  <2>2. CASE FailRow(t)
    <3>1. PICK x : x = [rows[k] EXCEPT !.status = "failed"]
      OBVIOUS
    <3>2. rows' = [rows EXCEPT ![k] = x] /\ At(t, "failTask") /\ dispatch[t].at = "failRow"
      BY <1>1, <2>2, <3>1 DEF FailRow
    <3>3. x \in RowRecord /\ x.run = rows[k].run /\ x.status = "failed"
      BY <1>2, <3>1 DEF RowRecord, RowStates, FinalRow
    <3>4. Fits("failTask", x)
      BY <3>3 DEF Fits
    <3> QED BY <3>2, <3>3, <3>4 DEF RowPlaces
  <2>3. CASE LaunchRun(t)
    <3>1. PICK x : x = [rows[k] EXCEPT !.run = "alive"]
      OBVIOUS
    <3>2. rows' = [rows EXCEPT ![k] = x] /\ At(t, "markRow") /\ dispatch[t].at = "launch"
      BY <1>1, <2>3, <3>1 DEF LaunchRun
    <3>3. x \in RowRecord /\ x.run = "alive" /\ x.status = rows[k].status
      BY <1>2, <3>1 DEF RowRecord, RunStates
    <3>4. Fits("markRow", x)
      BY <1>1, <3>2, <3>3 DEF Fits
    <3> QED BY <3>2, <3>3, <3>4 DEF RowPlaces
  <2>4. CASE MarkRow(t)
    <3>0. PICK s : s = IF rows[k].status \in FinalRow THEN rows[k].status ELSE "running"
      OBVIOUS
    <3>1. PICK x : x = [rows[k] EXCEPT !.status = s]
      OBVIOUS
    <3>2. rows' = [rows EXCEPT ![k] = x] /\ At(t, "markTask") /\ dispatch[t].at = "markRow"
      BY <1>0, <1>1, <1>2, <2>4, <3>0, <3>1 DEF MarkRow, RowRecord
    <3>3. x \in RowRecord /\ x.run = rows[k].run /\ x.status = s
      BY <1>2, <3>0, <3>1 DEF RowRecord, RowStates
    <3>4. rows[k].status # "skipped" /\ rows[k].run # "none"
      BY <1>1, <3>2 DEF Fits
    <3>5. Fits("markTask", x) /\ (s \in {"queued", "running"} =>
                                    rows[k].status \in {"queued", "running"})
      BY <1>2, <3>0, <3>3, <3>4 DEF Fits, RowRecord, RowStates, FinalRow
    <3> QED BY <3>2, <3>3, <3>5 DEF RowPlaces
  <2> QED BY <2>1, <2>2, <2>3, <2>4 DEF OwnRowStep
<1>5. /\ dispatch' \in [Triggers -> DispatchRecord] /\ dispatch'[t].at = where
      /\ dispatch'[t].row = k
      /\ \A u \in Triggers \ {t} : dispatch'[u] = dispatch[u]
  BY <1>0, <1>1, <1>4, AtFacts DEF Places, RowPlaces
<1>6. /\ rows' \in [1 .. MaxRows -> RowRecord] /\ rows'[k] = x
      /\ \A i \in 1 .. MaxRows \ {k} : rows'[i] = rows[i]
  BY <1>0, <1>1, <1>4
<1>7. SchedTyped'
  BY <1>0, <1>3, <1>5, <1>6 DEF SchedTyped
<1>8. Structure'
  <2>1. ASSUME NEW u \in Triggers, HasRow(u)'
        PROVE  /\ HasRow(u) /\ dispatch'[u].row = dispatch[u].row
               /\ Fits(dispatch'[u].at, rows'[dispatch[u].row])
    <3>1. CASE u = t
      BY <1>0, <1>1, <1>4, <1>5, <1>6, <3>1
    <3>2. CASE u # t
      <4>1. HasRow(u) /\ dispatch'[u] = dispatch[u]
        BY <1>5, <2>1, <3>2 DEF HasRow
      <4>2. dispatch[u].row \in 1 .. MaxRows \ {k}
        BY <1>0, <1>1, <3>2, <4>1 DEF Structure
      <4> QED BY <1>0, <1>6, <4>1, <4>2 DEF Structure
    <3> QED BY <3>1, <3>2
  <2>2. up' \/ \A u \in Triggers : dispatch'[u].at = "idle"
    BY <1>0, <1>3 DEF Structure, up
  <2> QED BY <1>0, <2>1, <2>2, StructureKept
<1>9. raced' \/ Sole'
  <2>1. CASE dispatch[t].at = "launch"
    <3> SUFFICES ASSUME Sole PROVE Sole'
      BY <1>0, <1>3
    <3>1. /\ \A i \in 1 .. MaxRows : ~Sighted(i)
          /\ \A u \in Triggers \ {t} : dispatch[u].at \notin {"create", "launch"}
      BY <2>1 DEF Sole, Alone
    <3>2. \A i \in 1 .. MaxRows : Sighted(i)' => i = k
      BY <1>6, <3>1 DEF Sighted, Alive, ActiveRow
    <3>3. \A u \in Triggers : dispatch'[u].at \notin {"create", "launch"}
      BY <1>4, <1>5, <3>1
    <3> QED BY <3>2, <3>3 DEF Sole, Alone
  <2>2. CASE dispatch[t].at # "launch"
    <3>1. \A i \in 1 .. MaxRows : Sighted(i)' => Sighted(i)
      BY <1>1, <1>4, <1>6, <2>2 DEF Sighted, Alive, ActiveRow
    <3> QED BY <1>0, <1>3, <1>4, <1>5, <3>1, SoleKept
  <2> QED BY <2>1, <2>2
<1> QED BY <1>7, <1>8, <1>9 DEF SchedInv

\* What a tidied row is: the row itself, or, if nobody holds it, an empty place.
LEMMA TidyFacts ==
    ASSUME NEW rs \in [1 .. MaxRows -> RowRecord], NEW held
    PROVE  /\ Tidy(rs, held) \in [1 .. MaxRows -> RowRecord]
           /\ \A i \in 1 .. MaxRows : \/ Tidy(rs, held)[i] = rs[i]
                                      \/ Tidy(rs, held)[i].run = "over" /\ i \notin held
BY RecordsTyped DEF Tidy

\* The dispatch ends: skipped, marked, written off, or with the call that raised.
LEMMA DispatchEndsInv ==
    ASSUME SchedInv, NEW t \in Triggers,
           SkipTask(t) \/ MarkTask(t) \/ FailTask(t) \/ DispatchRaises(t)
    PROVE  SchedInv'
<1>0. /\ SchedTyped /\ Structure /\ (raced \/ Sole) /\ task \in TaskRecord
      /\ dispatch[t] \in DispatchRecord /\ rows \in [1 .. MaxRows -> RowRecord]
  BY DEF SchedInv, SchedTyped
<1>1. /\ UNCHANGED <<editing, process, raced, swallowed>> /\ At(t, "idle")
      /\ rows' = Tidy(rows, Held(t))
  BY DEF SkipTask, MarkTask, FailTask, DispatchRaises
<1>2. /\ dispatch' \in [Triggers -> DispatchRecord] /\ dispatch'[t].at = "idle"
      /\ \A u \in Triggers \ {t} : dispatch'[u] = dispatch[u]
  BY <1>0, <1>1, AtFacts DEF Places
<1>3. upsets' \in 0 .. MaxUpsets /\ echoed' \in BOOLEAN
  <2>1. upsets' = upsets \/ (upsets < MaxUpsets /\ upsets' = upsets + 1)
    BY DEF SkipTask, MarkTask, FailTask, DispatchRaises
  <2>2. upsets' \in 0 .. MaxUpsets
    BY <1>0, <2>1, SchedulerBounds DEF SchedTyped
  <2>3. echoed' \in BOOLEAN
    BY <1>0, Zenon DEF SchedTyped, SkipTask, MarkTask, FailTask, DispatchRaises
  <2> QED BY <2>2, <2>3
<1>4. task' \in TaskRecord
  <2>1. CASE SkipTask(t)
    <3>1. PICK s : s = IF task.type = "once" THEN "failed" ELSE "enabled"
      OBVIOUS
    <3> QED BY <1>0, <2>1, <3>1, SettleTaskFacts DEF SkipTask, TaskStates, TaskOver
  <2>2. CASE MarkTask(t)
    <3>1. PICK s : s = CASE task.status \in TaskOver -> task.status
              [] task.status \notin TaskOver /\ task.type = "once" -> "running"
              [] task.status \notin TaskOver /\ task.type = "cron" ->
                   IF t = "manual" /\ dispatch[t].status = "paused" THEN "paused" ELSE "enabled"
      OBVIOUS
    <3>2. s \in TaskStates
      BY <1>0, <3>1 DEF TaskRecord, TaskStates, TaskOver
    <3>3. SettleTask(s)
      BY <2>2, <3>1, Zenon DEF MarkTask
    <3> QED BY <1>0, <3>2, <3>3, SettleTaskFacts
  <2>3. CASE FailTask(t)
    <3>1. PICK s : s = CASE t = "manual" -> dispatch[t].status
              [] t = "scheduled" /\ task.type = "once" -> "failed"
              [] OTHER -> "enabled"
      OBVIOUS
    <3>2. s \in TaskStates
      BY <1>0, <3>1 DEF DispatchRecord, TaskStates, TaskOver, Triggers
    <3>3. SettleTask(s)
      BY <2>3, <3>1, Zenon DEF FailTask
    <3> QED BY <1>0, <3>2, <3>3, SettleTaskFacts
  <2>4. CASE DispatchRaises(t)
    BY <1>0, <2>4 DEF DispatchRaises
  <2> QED BY <2>1, <2>2, <2>3, <2>4
<1>5. /\ rows' \in [1 .. MaxRows -> RowRecord]
      /\ \A i \in 1 .. MaxRows : rows'[i] = rows[i] \/ (rows'[i].run = "over" /\ i \notin Held(t))
  <2>1. PICK held : held = Held(t)
    OBVIOUS
  <2>2. rows' = Tidy(rows, held)
    BY <1>1, <2>1
  <2> QED BY <1>0, <2>1, <2>2, RecordsTyped DEF Tidy
<1>6. SchedTyped'
  BY <1>0, <1>1, <1>2, <1>3, <1>4, <1>5 DEF SchedTyped
<1>7. raced' \/ Sole'
  <2>1. \A i \in 1 .. MaxRows : Sighted(i)' => Sighted(i)
    BY <1>5 DEF Sighted, Alive, ActiveRow
  <2> QED BY <1>0, <1>1, <1>2, <2>1, SoleKept
<1>8. Structure'
  <2>1. ASSUME NEW u \in Triggers, HasRow(u)'
        PROVE  /\ HasRow(u) /\ dispatch'[u].row = dispatch[u].row
               /\ Fits(dispatch'[u].at, rows'[dispatch[u].row])
    <3>1. u # t /\ HasRow(u) /\ dispatch'[u] = dispatch[u]
      BY <1>2, <2>1 DEF HasRow, RowPlaces
    <3>2. dispatch[u].row \in Held(t)
      BY <3>1 DEF Held
    <3> QED BY <1>0, <1>5, <3>1, <3>2 DEF Structure
  <2>2. up' \/ \A u \in Triggers : dispatch'[u].at = "idle"
    BY <1>0, <1>1, <1>2 DEF Structure, up
  <2> QED BY <1>0, <2>1, <2>2, StructureKept
<1> QED BY <1>6, <1>7, <1>8 DEF SchedInv

\* A run's completion: its row is settled first, then the once task, or it raises.
LEMMA CompletionInv ==
    ASSUME SchedInv, NEW i \in 1 .. MaxRows, CompletionStep(i)
    PROVE  SchedInv'
<1>0. /\ SchedTyped /\ Structure /\ (raced \/ Sole) /\ task \in TaskRecord
      /\ rows[i] \in RowRecord /\ rows \in [1 .. MaxRows -> RowRecord]
  BY DEF SchedInv, SchedTyped
<1>1. UNCHANGED <<dispatch, editing, process, raced, echoed>>
  BY DEF CompletionStep, CompleteRow, CompleteTask, CompletionRaises
<1>2. upsets' \in 0 .. MaxUpsets /\ swallowed' \in BOOLEAN
  <2>1. upsets' = upsets \/ (upsets < MaxUpsets /\ upsets' = upsets + 1)
    BY DEF CompletionStep, CompleteRow, CompleteTask, CompletionRaises
  <2>2. upsets' \in 0 .. MaxUpsets
    BY <1>0, <2>1, SchedulerBounds DEF SchedTyped
  <2>3. swallowed' \in BOOLEAN
    BY <1>0, Zenon DEF SchedTyped, CompletionStep, CompleteRow, CompleteTask, CompletionRaises
  <2> QED BY <2>2, <2>3
<1>3. task' \in TaskRecord
  <2>1. CASE CompleteTask(i)
    <3>1. PICK s : s = CASE rows[i].run = "success" -> "completed"
                         [] rows[i].run = "interrupted" -> "cancelled"
                         [] OTHER -> "failed"
      OBVIOUS
    <3>2. s \in TaskStates
      BY <3>1 DEF TaskStates, TaskOver
    <3>3. task' = IF task.type = "cron" THEN task ELSE [task EXCEPT !.status = s]
      BY <2>1, <3>1, Zenon DEF CompleteTask
    <3> QED BY <1>0, <3>2, <3>3 DEF TaskRecord
  <2>2. CASE ~CompleteTask(i)
    BY <1>0, <2>2 DEF CompletionStep, CompleteRow, CompletionRaises
  <2> QED BY <2>1, <2>2
<1>4. /\ rows' \in [1 .. MaxRows -> RowRecord] /\ rows[i].run # "none"
      /\ \A j \in 1 .. MaxRows : Sighted(j)' => Sighted(j)
      /\ \A t \in Triggers : dispatch[t].row \in 1 .. MaxRows /\ dispatch[t].row # i =>
            rows'[dispatch[t].row] = rows[dispatch[t].row]
      /\ \A t \in Triggers : dispatch[t].row = i =>
            rows'[i].run # "none" /\ (rows[i].status # "skipped" => rows'[i].status # "skipped")
  <2>1. CASE CompleteRow(i)
    <3>1. PICK final \in Outcome : rows' = [rows EXCEPT ![i] = [status |-> final, run |-> final]]
      BY <2>1 DEF CompleteRow, Outcomes, Outcome
    <3>2. [status |-> final, run |-> final] \in RowRecord
      BY DEF RowRecord, RowStates, RunStates, FinalRow, Outcome
    <3>3. /\ rows' \in [1 .. MaxRows -> RowRecord] /\ rows[i].run = "alive"
          /\ rows'[i].status = final /\ rows'[i].run = final
          /\ \A j \in 1 .. MaxRows \ {i} : rows'[j] = rows[j]
      BY <1>0, <2>1, <3>1, <3>2 DEF CompleteRow
    <3> QED BY <3>3 DEF Sighted, Alive, ActiveRow, Outcome
  <2>2. CASE CompleteTask(i) \/ CompletionRaises(i)
    <3>0. PICK held : held = {dispatch[t].row : t \in Triggers}
      OBVIOUS
    <3>1. PICK x : x = [rows[i] EXCEPT !.run = "over"]
      OBVIOUS
    <3>2. x \in RowRecord /\ x.run = "over" /\ x.status = rows[i].status
      BY <1>0, <3>1 DEF RowRecord, RunStates
    <3>3. PICK rs : rs = [rows EXCEPT ![i] = x]
      OBVIOUS
    <3>4. /\ rs \in [1 .. MaxRows -> RowRecord] /\ rs[i] = x
          /\ \A j \in 1 .. MaxRows \ {i} : rs[j] = rows[j]
      BY <1>0, <3>2, <3>3
    <3>5. rows' = Tidy(rs, held) /\ rows[i].run # "none"
      BY <2>2, <3>0, <3>1, <3>3 DEF CompleteTask, CompletionRaises, Outcome
    <3>6. /\ rows' \in [1 .. MaxRows -> RowRecord]
          /\ \A j \in 1 .. MaxRows : rows'[j] = rs[j] \/ (rows'[j].run = "over" /\ j \notin held)
      BY <3>4, <3>5, RecordsTyped DEF Tidy
    <3>7. \A t \in Triggers : dispatch[t].row \in held
      BY <3>0
    <3>8. \A j \in 1 .. MaxRows : Sighted(j)' => Sighted(j)
      BY <3>2, <3>4, <3>6 DEF Sighted, Alive, ActiveRow
    <3> QED BY <3>2, <3>4, <3>5, <3>6, <3>7, <3>8
  <2> QED BY <2>1, <2>2 DEF CompletionStep
<1>5. SchedTyped'
  BY <1>0, <1>1, <1>2, <1>3, <1>4 DEF SchedTyped
<1>6. raced' \/ Sole'
  BY <1>0, <1>1, <1>4, SoleKept
<1>7. Structure'
  <2>1. ASSUME NEW t \in Triggers, HasRow(t)'
        PROVE  /\ HasRow(t) /\ dispatch'[t].row = dispatch[t].row
               /\ Fits(dispatch'[t].at, rows'[dispatch[t].row])
    <3>0. HasRow(t) /\ dispatch[t].row \in 1 .. MaxRows /\ Fits(dispatch[t].at, rows[dispatch[t].row])
      BY <1>0, <1>1, <2>1 DEF Structure, HasRow
    <3>1. CASE dispatch[t].row # i
      BY <1>1, <1>4, <3>0, <3>1
    <3>2. CASE dispatch[t].row = i
      BY <1>1, <1>4, <3>0, <3>2 DEF Fits, HasRow, RowPlaces
    <3> QED BY <3>1, <3>2
  <2>2. up' \/ \A t \in Triggers : dispatch'[t].at = "idle"
    BY <1>0, <1>1 DEF Structure, up
  <2> QED BY <1>0, <2>1, <2>2, StructureKept
<1> QED BY <1>5, <1>6, <1>7 DEF SchedInv

\* A crash ends every dispatch and every run; the start settles what was left.
LEMMA ProcessInv ==
    ASSUME SchedInv, Crash \/ StartStep
    PROVE  SchedInv'
<1>0. /\ SchedTyped /\ Structure /\ (raced \/ Sole) /\ task \in TaskRecord
      /\ rows \in [1 .. MaxRows -> RowRecord] /\ DOMAIN rows = 1 .. MaxRows
  BY DEF SchedInv, SchedTyped
<1>1. /\ dispatch' \in [Triggers -> DispatchRecord] /\ \A t \in Triggers : dispatch'[t].at = "idle"
      /\ raced' = raced /\ echoed' \in BOOLEAN /\ swallowed' \in BOOLEAN
      /\ editing' \in {"none", "paused", "enabled"} /\ process' \in {"down", "tasks", "up"}
  <2>1. CASE Crash
    BY <1>0, <2>1, RecordsTyped DEF Crash, SchedTyped
  <2>2. CASE StartStep
    <3>1. UNCHANGED <<dispatch, editing, raced, echoed>> /\ process # "up"
      BY <2>2 DEF StartStep, SweepRows, SweepTasks, SweepRaises
    <3>2. swallowed' \in BOOLEAN /\ process' \in {"down", "tasks", "up"}
      BY <1>0, <2>2 DEF SchedTyped, StartStep, SweepRows, SweepTasks, SweepRaises
    <3> QED BY <1>0, <3>1, <3>2 DEF SchedTyped, Structure, up
  <2> QED BY <2>1, <2>2
<1>2. upsets' \in 0 .. MaxUpsets
  BY <1>0, SchedulerBounds DEF SchedTyped, Crash, StartStep, SweepRows, SweepTasks, SweepRaises
<1>3. task' \in TaskRecord
  BY <1>0 DEF Crash, StartStep, SweepRows, SweepTasks, SweepRaises, TaskRecord, TaskStates, TaskOver
<1>4. rows' \in [1 .. MaxRows -> RowRecord] /\ \A i \in 1 .. MaxRows : Sighted(i)' => Sighted(i)
  <2>1. CASE Crash
    <3>1. PICK rs : rs = [i \in 1 .. MaxRows |-> [rows[i] EXCEPT !.run = "over"]]
      OBVIOUS
    <3>2. rs \in [1 .. MaxRows -> RowRecord] /\ \A i \in 1 .. MaxRows : rs[i].run = "over"
      BY <1>0, <3>1 DEF RowRecord, RunStates
    <3>3. rows' = Tidy(rs, {})
      BY <1>0, <2>1, <3>1 DEF Crash
    <3> QED BY <3>2, <3>3, TidyFacts DEF Sighted, Alive
  <2>2. CASE SweepRows
    <3>1. PICK rs : rs = [i \in 1 .. MaxRows |->
                    [rows[i] EXCEPT !.status = IF ActiveRow(i) THEN "interrupted" ELSE @]]
      OBVIOUS
    <3>2. ASSUME NEW i \in 1 .. MaxRows
          PROVE  rs[i] \in RowRecord /\ rs[i].status \notin {"queued", "running"}
      <4>1. PICK s : s = IF ActiveRow(i) THEN "interrupted" ELSE rows[i].status
        OBVIOUS
      <4>2. /\ s \in RowStates /\ rows[i] \in RowRecord /\ s \notin {"queued", "running"}
        BY <1>0, <4>1 DEF RowRecord, RowStates, FinalRow, ActiveRow
      <4>3. rs[i] = [rows[i] EXCEPT !.status = s]
        BY <1>0, <3>1, <4>1, <4>2
      <4> QED BY <4>2, <4>3 DEF RowRecord
    <3>3. rs \in [1 .. MaxRows -> RowRecord]
      BY <3>1, <3>2
    <3>4. rows' = Tidy(rs, {})
      BY <1>0, <2>2, <3>1 DEF SweepRows
    <3> QED BY <3>2, <3>3, <3>4, TidyFacts DEF Sighted, ActiveRow, Alive
  <2>3. CASE SweepTasks \/ SweepRaises
    BY <1>0, <2>3 DEF SweepTasks, SweepRaises, Sighted, Alive, ActiveRow
  <2> QED BY <2>1, <2>2, <2>3 DEF StartStep
<1>5. SchedTyped'
  BY <1>0, <1>1, <1>2, <1>3, <1>4 DEF SchedTyped
<1>6. raced' \/ Sole'
  BY <1>0, <1>1, <1>4, SoleKept
<1>7. Structure'
  BY <1>1 DEF Structure, HasRow, RowPlaces
<1> QED BY <1>5, <1>6, <1>7 DEF SchedInv

LEMMA SchedNextInv == SchedInv /\ [SchedNext]_schedVars => SchedInv'
<1> SUFFICES ASSUME SchedInv, [SchedNext]_schedVars PROVE SchedInv'
  OBVIOUS
<1>1. ASSUME NEW t \in Triggers, DispatchStep(t) PROVE SchedInv'
  BY <1>1, CheckInv, CreateRowInv, LaunchEndsInv, OwnRowInv, DispatchEndsInv DEF DispatchStep, OwnRowStep
<1>2. CASE UNCHANGED schedVars
  BY <1>2 DEF schedVars, SchedInv, SchedTyped, Structure, Sole, Alone, HasRow, Sighted, Alive,
     ActiveRow, up
<1> QED BY <1>1, <1>2, RequestsInv, CompletionInv, ProcessInv DEF SchedNext

\* The rows and dispatches of a scheduled task keep the scheduler's invariant.
THEOREM SchedInvariant == SchedSpec => []SchedInv
BY SchedInitInv, SchedNextInv, PTL DEF SchedSpec

\* NoOverlap holds in every reachable state, for every bound: with the overlap
\* policy "skip", dispatch_task never has two runs of a task alive with active
\* rows, whichever repository call raises and wherever the process crashes, unless
\* the poller and a manual trigger had both passed has_active_runs before either
\* had created its row.
THEOREM OneRunAlive == SchedSpec => []NoOverlap
<1>1. SchedInv => NoOverlap
  BY DEF SchedInv, SchedTyped, Sole, NoOverlap
<1> QED BY <1>1, SchedInvariant, PTL

(***************************************************************************)
(* GoalLoop.  As long as no whole-checkpoint write has put an older goal   *)
(* back: the goal in the checkpoint is the user's last choice or none; an  *)
(* evaluation about to be written under the lock is about that goal; and   *)
(* the turns run for a goal never exceed the count in its checkpoint, for  *)
(* the count is raised, below the cap, before each turn.                   *)
(***************************************************************************)
Said == Verdicts \cup {"none"}
GoalRecord == [gen : 0 .. MaxEdits + 1, count : Nat, stalled : Nat,
               key : {<<>>} \cup (Said \X {0, 1})]
Ckpt == [id : Nat, goal : GoalRecord, talk : Nat, answer : {0, 1}]
Plan == [write : {"none", "note", "count", "clear"}, count : Nat, stalled : Nat,
         next : {"over", "guard"}]
WorkerPhases == {"idle", "turn", "start", "evaluating", "recheck", "locking",
                 "checking", "putting", "guard", "continue", "over"}
GoalIds == 1 .. MaxEdits + 1

\* seen is about the evaluation in progress
Evaluating ==
    phase \in {"evaluating", "recheck", "locking", "checking", "putting", "guard", "continue"}

GoalTyped ==
    /\ ckpt \in Ckpt /\ seen \in Ckpt /\ base \in Ckpt /\ posting \in Ckpt
    /\ phase \in WorkerPhases /\ verdict \in Said /\ plan \in Plan
    /\ chosen \in 0 .. MaxEdits + 1 /\ lost \in BOOLEAN /\ edits \in 0 .. MaxEdits
    /\ turns \in [GoalIds -> Nat]

\* Goals are numbered in the order in which they are set.
Numbered ==
    /\ ckpt.goal.gen <= edits + 1 /\ seen.goal.gen <= edits + 1
    /\ base.goal.gen <= edits + 1 /\ posting.goal.gen <= edits + 1 /\ chosen <= edits + 1

\* A checkpoint id names one checkpoint.
Looked ==
    Evaluating => /\ seen.goal.gen # 0 /\ seen.id <= ckpt.id
                  /\ seen.id = ckpt.id => seen = ckpt

UnderLock ==
    phase \in {"checking", "putting"} =>
        base.goal = ckpt.goal /\ ckpt.goal.gen = seen.goal.gen /\ seen.goal.gen = chosen

Planned ==
    /\ phase \in {"locking", "checking", "putting"} =>
          /\ plan.write \in {"note", "count", "clear"} /\ plan.count = seen.goal.count + 1
          /\ plan.write = "count" => seen.goal.count < MaxContinuations
          /\ plan.next = "guard" => plan.write = "count"
    /\ phase \in {"guard", "continue"} =>
          /\ seen.goal.count < MaxContinuations
          /\ ckpt.goal.gen = seen.goal.gen => ckpt.goal.count >= seen.goal.count + 1

Budgeted ==
    /\ \A g \in GoalIds : turns[g] <= MaxContinuations /\ (g > edits + 1 => turns[g] = 0)
    /\ ckpt.goal.gen # 0 => turns[ckpt.goal.gen] <= ckpt.goal.count
    /\ Evaluating => turns[seen.goal.gen] <= seen.goal.count

Loyal ==
    /\ ckpt.goal.gen \in {0, chosen}
    /\ Looked /\ UnderLock /\ Planned /\ Budgeted

GoalInv == GoalTyped /\ Numbered /\ (lost \/ Loyal)

LEMMA CkptFields ==
    \A c \in Ckpt : /\ c.id \in Nat /\ c.talk \in Nat /\ c.answer \in {0, 1}
                    /\ c.goal \in GoalRecord /\ c.goal.gen \in 0 .. MaxEdits + 1
                    /\ c.goal.gen \in Nat /\ c.goal.count \in Nat /\ c.goal.stalled \in Nat
                    /\ c.goal.gen # 0 => c.goal.gen \in GoalIds
<1> SUFFICES ASSUME NEW c \in Ckpt
             PROVE  /\ c.id \in Nat /\ c.talk \in Nat /\ c.answer \in {0, 1}
                    /\ c.goal \in GoalRecord /\ c.goal.gen \in 0 .. MaxEdits + 1
                    /\ c.goal.gen \in Nat /\ c.goal.count \in Nat /\ c.goal.stalled \in Nat
                    /\ c.goal.gen # 0 => c.goal.gen \in GoalIds
  OBVIOUS
<1>1. c.id \in Nat /\ c.talk \in Nat /\ c.answer \in {0, 1} /\ c.goal \in GoalRecord
  BY DEF Ckpt
<1>2. PICK g \in GoalRecord : g = c.goal
  BY <1>1
<1>3. g.gen \in 0 .. MaxEdits + 1 /\ g.count \in Nat /\ g.stalled \in Nat
  BY DEF GoalRecord
<1>4. g.gen \in Nat /\ (g.gen # 0 => g.gen \in GoalIds)
  BY <1>3, GoalBounds DEF GoalIds
<1> QED BY <1>1, <1>2, <1>3, <1>4

LEMMA GoalTypes == GoalInv => GoalTypeOK
<1> SUFFICES ASSUME GoalInv PROVE GoalTypeOK
  OBVIOUS
<1>1. \A c \in Ckpt : c.id \in Nat /\ c.goal.gen \in 0 .. MaxEdits + 1
  BY DEF Ckpt, GoalRecord
<1>2. plan.write \in {"none", "note", "count", "clear"}
  BY DEF GoalInv, GoalTyped, Plan
<1>3. \A c \in {ckpt, seen, base, posting} : c \in Ckpt
  BY DEF GoalInv, GoalTyped
<1>4. phase \in WorkerPhases /\ verdict \in Said /\ chosen \in 0 .. MaxEdits + 1
      /\ lost \in BOOLEAN /\ edits \in 0 .. MaxEdits
  BY DEF GoalInv, GoalTyped
<1> QED BY <1>1, <1>2, <1>3, <1>4 DEF GoalTypeOK, WorkerPhases, Said

LEMMA NoRecords ==
    /\ NoGoal \in GoalRecord /\ NoGoal.gen = 0 /\ NoGoal.count = 0
    /\ NoCkpt \in Ckpt /\ NoCkpt.goal = NoGoal /\ NoCkpt.id = 0
    /\ NoPlan \in Plan /\ NoPlan.write = "none" /\ NoPlan.next = "over"
<1>1. NoGoal \in GoalRecord /\ NoGoal.gen = 0 /\ NoGoal.count = 0
  BY GoalBounds DEF NoGoal, GoalRecord
<1>2. NoCkpt \in Ckpt /\ NoCkpt.goal = NoGoal /\ NoCkpt.id = 0
  BY <1>1 DEF NoCkpt, Ckpt
<1>3. NoPlan \in Plan /\ NoPlan.write = "none" /\ NoPlan.next = "over"
  BY DEF NoPlan, Plan
<1> QED BY <1>1, <1>2, <1>3

LEMMA GoalInitInv == GoalInit => GoalInv
<1> SUFFICES ASSUME GoalInit PROVE GoalInv
  OBVIOUS
<1>1. PICK g : g = [NoGoal EXCEPT !.gen = 1]
  OBVIOUS
<1>2. g \in GoalRecord /\ g.gen = 1 /\ g.count = 0
  BY <1>1, NoRecords, GoalBounds DEF GoalRecord
<1>3. ckpt = [NoCkpt EXCEPT !.goal = g]
  BY <1>1 DEF GoalInit
<1>4. ckpt \in Ckpt /\ ckpt.goal = g
  BY <1>2, <1>3, NoRecords DEF Ckpt
<1>5. turns \in [GoalIds -> Nat] /\ \A n \in GoalIds : turns[n] = 0
  BY DEF GoalInit, GoalIds
<1>6. GoalTyped
  <2>1. /\ phase = "idle" /\ seen = NoCkpt /\ verdict = "none" /\ plan = NoPlan
        /\ base = NoCkpt /\ posting = NoCkpt /\ chosen = 1 /\ lost = FALSE /\ edits = 0
    BY DEF GoalInit
  <2>2. chosen \in 0 .. MaxEdits + 1 /\ edits \in 0 .. MaxEdits
    BY <2>1, GoalBounds
  <2>3. phase \in WorkerPhases /\ verdict \in Said
    BY <2>1 DEF WorkerPhases, Said
  <2> QED BY <1>4, <1>5, <2>1, <2>2, <2>3, NoRecords DEF GoalTyped
<1>7. Numbered
  BY <1>2, <1>4, NoRecords DEF GoalInit, Numbered
<1>8. Loyal
  <2>1. ckpt.goal.gen \in {0, chosen}
    BY <1>2, <1>4 DEF GoalInit
  <2>2. Looked /\ UnderLock /\ Planned
    BY DEF GoalInit, Looked, Evaluating, UnderLock, Planned
  <2>3. Budgeted
    BY <1>2, <1>4, <1>5, GoalBounds DEF GoalInit, Budgeted, Evaluating, GoalIds
  <2> QED BY <2>1, <2>2, <2>3 DEF Loyal
<1> QED BY <1>6, <1>7, <1>8 DEF GoalInv

\* PUT and DELETE of the goal: a goal nobody has run a turn for yet, or none.
LEMMA SetGoalInv ==
    ASSUME GoalInv, NEW gen \in 0 .. MaxEdits + 1, SetGoal(gen)
    PROVE  GoalInv'
<1>1. PICK g : g = [NoGoal EXCEPT !.gen = gen]
  OBVIOUS
<1>2. g \in GoalRecord /\ g.gen = gen /\ g.count = 0
  BY <1>1, NoRecords DEF GoalRecord
<1>3. /\ ckpt' = [ckpt EXCEPT !.id = @ + 1, !.goal = g]
      /\ edits < MaxEdits /\ gen \in {0, edits + 2} /\ chosen' = gen /\ edits' = edits + 1
      /\ UNCHANGED <<phase, seen, verdict, plan, base, posting, lost, turns>>
      /\ phase \notin {"checking", "putting"}
  BY <1>1 DEF SetGoal, LockFree
<1>4. GoalTyped /\ Numbered /\ ckpt \in Ckpt /\ edits \in Nat /\ MaxEdits \in Nat
  BY GoalBounds DEF GoalInv, GoalTyped
<1>5. ckpt' \in Ckpt /\ ckpt'.id = ckpt.id + 1 /\ ckpt'.goal = g /\ ckpt.id \in Nat
  <2>1. PICK n : n = ckpt.id + 1
    OBVIOUS
  <2>2. ckpt' = [ckpt EXCEPT !.id = n, !.goal = g]
    BY <1>3, <1>4, <2>1 DEF Ckpt
  <2>3. n \in Nat /\ ckpt.id \in Nat
    BY <1>4, <2>1 DEF Ckpt
  <2> QED BY <1>2, <1>4, <2>1, <2>2, <2>3 DEF Ckpt
<1>6. edits' \in 0 .. MaxEdits
  BY <1>3, <1>4
<1>7. GoalTyped'
  BY <1>3, <1>4, <1>5, <1>6 DEF GoalTyped
<1>8. /\ ckpt.goal.gen \in Nat /\ seen.goal.gen \in Nat /\ base.goal.gen \in Nat
      /\ posting.goal.gen \in Nat /\ chosen \in Nat /\ seen.id \in Nat
  BY <1>4, CkptFields, GoalBounds DEF GoalTyped
<1>9. Numbered'
  BY <1>2, <1>3, <1>4, <1>5, <1>8 DEF Numbered
<1>10. ASSUME Loyal PROVE Loyal'
  <2>1. UnderLock' /\ (Evaluating' <=> Evaluating)
    BY <1>3 DEF UnderLock, Evaluating
  <2>2. Looked'
    BY <1>3, <1>5, <1>8, <1>10, <2>1 DEF Loyal, Looked
  <2>3. Evaluating => gen # seen.goal.gen
    BY <1>3, <1>4, <1>8, <1>10 DEF Loyal, Looked, Numbered
  <2>4. Planned'
    BY <1>2, <1>3, <1>5, <1>10, <2>3 DEF Loyal, Planned, Evaluating
  <2>5. Budgeted'
    <3>1. \A n \in GoalIds : turns'[n] <= MaxContinuations /\ (n > edits' + 1 => turns'[n] = 0)
      BY <1>3, <1>4, <1>10 DEF Loyal, Budgeted, GoalIds
    <3>2. gen # 0 => gen \in GoalIds /\ turns[gen] = 0
      BY <1>3, <1>4, <1>10 DEF Loyal, Budgeted, GoalIds
    <3> QED BY <1>2, <1>3, <1>5, <1>10, <2>1, <3>1, <3>2 DEF Loyal, Budgeted
  <2> QED BY <1>2, <1>3, <1>5, <2>1, <2>2, <2>4, <2>5 DEF Loyal
<1> QED BY <1>3, <1>7, <1>9, <1>10 DEF GoalInv

\* A whole-checkpoint write that puts no older goal back changes no goal at all.
LEMMA WholeWrite ==
    ASSUME GoalInv, UNCHANGED <<seen, verdict, plan, chosen, turns, edits>>,
           NEW g, lost' = (lost \/ g # ckpt.goal),
           ckpt'.goal = g, ckpt'.id = ckpt.id + 1,
           phase' = "start" \/ (phase' = phase /\ base' = base)
    PROVE  lost' \/ Loyal'
<1> SUFFICES ASSUME ~lost' PROVE Loyal'
  OBVIOUS
<1>1. Loyal /\ g = ckpt.goal
  BY DEF GoalInv
<1>2. GoalTyped /\ ckpt.id \in Nat /\ seen.id \in Nat
  BY CkptFields DEF GoalInv, GoalTyped
<1>3. Evaluating' => Evaluating /\ phase' = phase
  BY DEF Evaluating
<1>4. Looked'
  BY <1>1, <1>2, <1>3 DEF Loyal, Looked
<1>5. UnderLock'
  BY <1>1, <1>3 DEF Loyal, UnderLock
<1>6. Planned'
  BY <1>1, <1>3 DEF Loyal, Planned
<1>7. Budgeted'
  BY <1>1, <1>3 DEF Loyal, Budgeted
<1> QED BY <1>1, <1>4, <1>5, <1>6, <1>7 DEF Loyal

\* POST /state reads the checkpoint, and later writes it back whole.
LEMMA PostInv ==
    ASSUME GoalInv, PostReads \/ PostWrites
    PROVE  GoalInv'
<1>0. GoalTyped /\ Numbered
  BY DEF GoalInv
<1>1. CASE PostReads
  <2>1. /\ posting' = ckpt /\ edits' = edits + 1 /\ edits < MaxEdits
        /\ UNCHANGED <<ckpt, phase, seen, verdict, plan, base, chosen, lost, turns>>
    BY <1>1 DEF PostReads
  <2>2. edits' \in 0 .. MaxEdits /\ edits \in Nat
    BY <1>0, <2>1, GoalBounds DEF GoalTyped
  <2>3. GoalTyped'
    BY <1>0, <2>1, <2>2 DEF GoalTyped
  <2>4. /\ ckpt.goal.gen \in Nat /\ seen.goal.gen \in Nat /\ base.goal.gen \in Nat
        /\ chosen \in Nat
    BY <1>0, CkptFields, GoalBounds DEF GoalTyped
  <2>5. Numbered'
    BY <1>0, <2>1, <2>2, <2>4 DEF Numbered
  <2>6. ASSUME Loyal PROVE Loyal'
    <3>1. Looked' /\ UnderLock' /\ Planned'
      BY <2>1, <2>6 DEF Loyal, Looked, Evaluating, UnderLock, Planned
    <3>2. Budgeted'
      BY <2>1, <2>2, <2>6, GoalBounds DEF Loyal, Budgeted, Evaluating, GoalIds
    <3> QED BY <2>1, <2>6, <3>1, <3>2 DEF Loyal
  <2> QED BY <2>1, <2>3, <2>5, <2>6 DEF GoalInv
<1>2. CASE PostWrites
  <2>1. /\ ckpt' = [posting EXCEPT !.id = ckpt.id + 1, !.talk = @ + 1]
        /\ lost' = (lost \/ posting.goal # ckpt.goal) /\ posting' = NoCkpt
        /\ UNCHANGED <<phase, seen, verdict, plan, base, chosen, turns, edits>>
    BY <1>2 DEF PostWrites
  <2>2. PICK n, m : n = ckpt.id + 1 /\ m = posting.talk + 1
    OBVIOUS
  <2>3. /\ n \in Nat /\ m \in Nat /\ posting \in Ckpt
    BY <1>0, <2>2, CkptFields DEF GoalTyped
  <2>4. ckpt' = [posting EXCEPT !.id = n, !.talk = m]
    BY <2>1, <2>2, <2>3 DEF Ckpt
  <2>5. ckpt' \in Ckpt /\ ckpt'.id = n /\ ckpt'.goal = posting.goal
    BY <2>3, <2>4 DEF Ckpt
  <2>6. GoalTyped'
    BY <1>0, <2>1, <2>5, NoRecords DEF GoalTyped
  <2>7. Numbered'
    BY <1>0, <2>1, <2>5, NoRecords DEF Numbered, GoalTyped
  <2>8. lost' \/ Loyal'
    BY <2>1, <2>2, <2>5, WholeWrite
  <2> QED BY <2>6, <2>7, <2>8 DEF GoalInv
<1> QED BY <1>1, <1>2

\* The graph checkpoints at the end of a turn what it loaded at its start.
LEMMA EndTurnInv ==
    ASSUME GoalInv, EndTurn
    PROVE  GoalInv'
<1>0. GoalTyped /\ Numbered
  BY DEF GoalInv
<1>1. PICK new \in {0, 1} :
         ckpt' = [base EXCEPT !.id = ckpt.id + 1, !.talk = @ + new,
                              !.answer = IF new = 1 THEN 1 - @ ELSE @]
  BY DEF EndTurn
<1>2. /\ lost' = (lost \/ base.goal # ckpt.goal) /\ phase' = "start" /\ base' = NoCkpt
      /\ UNCHANGED <<seen, verdict, plan, posting, chosen, turns, edits>>
  BY DEF EndTurn
<1>3. PICK n, m, a : /\ n = ckpt.id + 1 /\ m = base.talk + new
                     /\ a = IF new = 1 THEN 1 - base.answer ELSE base.answer
  OBVIOUS
<1>4. base \in Ckpt /\ base.talk \in Nat /\ base.answer \in {0, 1} /\ ckpt.id \in Nat
  BY <1>0, CkptFields DEF GoalTyped
<1>5. n \in Nat /\ m \in Nat /\ a \in {0, 1}
  BY <1>3, <1>4
<1>6. ckpt' = [base EXCEPT !.id = n, !.talk = m, !.answer = a]
  BY <1>1, <1>3, <1>4 DEF Ckpt
<1>7. ckpt' \in Ckpt /\ ckpt'.id = n /\ ckpt'.goal = base.goal
  BY <1>4, <1>5, <1>6 DEF Ckpt
<1>8. GoalTyped'
  BY <1>0, <1>2, <1>7, NoRecords DEF GoalTyped, WorkerPhases
<1>9. Numbered'
  BY <1>0, <1>2, <1>7, NoRecords DEF Numbered, GoalTyped
<1>10. lost' \/ Loyal'
  BY <1>2, <1>3, <1>7, WholeWrite
<1> QED BY <1>8, <1>9, <1>10 DEF GoalInv

\* A continuation turn: its count is already in the checkpoint.
LEMMA BeginTurnInv ==
    ASSUME GoalInv, BeginTurn
    PROVE  GoalInv'
<1>0. GoalTyped /\ Numbered
  BY DEF GoalInv
<1>1. /\ phase' = "turn" /\ base' = ckpt
      /\ UNCHANGED <<ckpt, seen, verdict, plan, posting, chosen, lost, edits>>
      /\ turns' = IF phase = "continue" THEN [turns EXCEPT ![seen.goal.gen] = @ + 1] ELSE turns
  BY DEF BeginTurn
<1>2. turns \in [GoalIds -> Nat]
  BY <1>0 DEF GoalTyped
<1>3. /\ turns' \in [GoalIds -> Nat]
      /\ \A n \in GoalIds : turns'[n] = turns[n]
                            \/ (phase = "continue" /\ n = seen.goal.gen /\ turns'[n] = turns[n] + 1)
  <2>1. CASE phase = "continue"
    <3>1. PICK k : k = seen.goal.gen
      OBVIOUS
    <3>2. turns' = [turns EXCEPT ![k] = @ + 1]
      BY <1>1, <2>1, <3>1
    <3>3. CASE k \in GoalIds
      <4>1. turns[k] + 1 \in Nat
        BY <1>2, <3>3
      <4> QED BY <1>2, <2>1, <3>1, <3>2, <3>3, <4>1
    <3>4. CASE k \notin GoalIds
      BY <1>2, <3>2, <3>4
    <3> QED BY <3>3, <3>4
  <2>2. CASE phase # "continue"
    BY <1>1, <1>2, <2>2
  <2> QED BY <2>1, <2>2
<1>4. GoalTyped'
  BY <1>0, <1>1, <1>3 DEF GoalTyped, WorkerPhases
<1>5. Numbered'
  BY <1>0, <1>1 DEF Numbered
<1>6. ASSUME Loyal PROVE Loyal'
  <2>1. ~Evaluating' /\ Looked' /\ UnderLock' /\ Planned'
    BY <1>1 DEF Evaluating, Looked, UnderLock, Planned
  <2>2. phase = "continue" =>
          /\ seen.goal.gen # 0 /\ seen.goal.count < MaxContinuations
          /\ turns[seen.goal.gen] <= seen.goal.count
          /\ ckpt.goal.gen = seen.goal.gen => ckpt.goal.count >= seen.goal.count + 1
    BY <1>6 DEF Loyal, Looked, Planned, Budgeted, Evaluating
  <2>3. /\ seen.goal.count \in Nat /\ ckpt.goal.count \in Nat /\ seen.goal.gen \in Nat
        /\ seen.goal.gen <= edits + 1 /\ edits \in Nat /\ MaxContinuations \in Nat
        /\ ckpt.goal.gen # 0 => ckpt.goal.gen \in GoalIds
    BY <1>0, CkptFields, GoalBounds DEF GoalTyped, Numbered
  <2>4. \A n \in GoalIds : turns'[n] <= MaxContinuations /\ (n > edits' + 1 => turns'[n] = 0)
    <3> TAKE n \in GoalIds
    <3>1. turns[n] \in Nat /\ turns[n] <= MaxContinuations /\ (n > edits + 1 => turns[n] = 0)
      BY <1>2, <1>6 DEF Loyal, Budgeted
    <3>2. n \in Nat
      BY GoalBounds DEF GoalIds
    <3> QED BY <1>1, <1>3, <2>2, <2>3, <3>1, <3>2
  <2>5. ckpt.goal.gen # 0 => turns'[ckpt.goal.gen] <= ckpt.goal.count
    <3> HAVE ckpt.goal.gen # 0
    <3>1. PICK n \in GoalIds : n = ckpt.goal.gen
      BY <2>3
    <3>2. turns[n] <= ckpt.goal.count /\ turns[n] \in Nat
      BY <1>2, <1>6, <3>1 DEF Loyal, Budgeted
    <3>3. CASE turns'[n] = turns[n]
      BY <3>1, <3>2, <3>3
    <3>4. CASE phase = "continue" /\ n = seen.goal.gen /\ turns'[n] = turns[n] + 1
      BY <2>2, <2>3, <3>1, <3>2, <3>4
    <3> QED BY <1>3, <3>3, <3>4
  <2>6. Budgeted'
    BY <1>1, <2>1, <2>4, <2>5 DEF Budgeted
  <2> QED BY <1>1, <1>6, <2>1, <2>6 DEF Loyal
<1> QED BY <1>1, <1>4, <1>5, <1>6 DEF GoalInv

\* A step that leaves the checkpoint and what was seen of it alone.
LEMMA QuietInv ==
    ASSUME GoalInv, UNCHANGED <<ckpt, seen, posting, chosen, lost, turns, edits>>,
           verdict' \in Said, plan' \in Plan, phase' \in WorkerPhases, base' \in {base, ckpt, NoCkpt},
           Evaluating' => Evaluating, Loyal => UnderLock' /\ Planned'
    PROVE  GoalInv'
<1>0. GoalTyped /\ Numbered
  BY DEF GoalInv
<1>1. GoalTyped'
  BY <1>0, NoRecords DEF GoalTyped
<1>2. Numbered'
  BY <1>0, NoRecords DEF Numbered, GoalTyped
<1>3. ASSUME Loyal PROVE Loyal'
  <2>1. Looked' /\ Budgeted'
    BY <1>3 DEF Loyal, Looked, Budgeted
  <2> QED BY <1>3, <2>1 DEF Loyal
<1> QED BY <1>1, <1>2, <1>3 DEF GoalInv

LEMMA PlanFacts ==
    ASSUME GoalInv, NEW write \in {"note", "count", "clear"}, NEW said \in Said,
           NEW nxt \in {"over", "guard"}, PlanWrite(write, said, nxt)
    PROVE  /\ plan' \in Plan /\ plan'.write = write /\ plan'.next = nxt
           /\ plan'.count = seen.goal.count + 1 /\ phase' = "locking"
<1>1. seen.goal.count \in Nat /\ seen.goal.stalled \in Nat
  BY CkptFields DEF GoalInv, GoalTyped
<1>2. PICK n : n = NoProgress(said)
  OBVIOUS
<1>3. n \in Nat
  BY <1>1, <1>2 DEF NoProgress
<1>4. PICK k : k = seen.goal.count + 1 /\ k \in Nat
  BY <1>1
<1>5. plan' = [write |-> write, count |-> k, stalled |-> n, next |-> nxt] /\ phase' = "locking"
  BY <1>2, <1>4 DEF PlanWrite
<1> QED BY <1>3, <1>4, <1>5 DEF Plan

LEMMA ReadGoalInv ==
    ASSUME GoalInv, ReadGoal
    PROVE  GoalInv'
<1>0. GoalTyped /\ Numbered
  BY DEF GoalInv
<1>1. /\ seen' = ckpt /\ phase' \in {"over", "evaluating"}
      /\ phase' = "evaluating" => ckpt.goal.gen # 0
      /\ UNCHANGED <<ckpt, verdict, plan, base, posting, chosen, lost, turns, edits>>
  BY DEF ReadGoal
<1>2. GoalTyped' /\ Numbered'
  BY <1>0, <1>1 DEF GoalTyped, Numbered, WorkerPhases
<1>3. ASSUME Loyal PROVE Loyal'
  <2>0. ckpt.id \in Nat
    BY <1>0, CkptFields DEF GoalTyped
  <2>1. Looked' /\ UnderLock' /\ Planned'
    BY <1>1, <2>0 DEF Looked, Evaluating, UnderLock, Planned
  <2>2. Budgeted'
    BY <1>1, <1>3 DEF Loyal, Budgeted, Evaluating
  <2> QED BY <1>1, <1>3, <2>1, <2>2 DEF Loyal
<1> QED BY <1>1, <1>2, <1>3 DEF GoalInv

\* The evaluator's answer, and the second look at goal and conversation.
LEMMA EvaluateInv ==
    ASSUME GoalInv, Evaluate
    PROVE  GoalInv'
<1>0. /\ GoalTyped /\ phase = "evaluating"
      /\ UNCHANGED <<ckpt, seen, base, posting, chosen, lost, turns, edits>>
  BY DEF GoalInv, Evaluate
<1>1. CASE verdict' \in {"satisfied", "goal_not_met_yet", "blocked"} /\ phase' = "recheck" /\ UNCHANGED plan
  BY <1>0, <1>1, QuietInv DEF GoalTyped, Said, Verdicts, WorkerPhases, Evaluating, UnderLock, Planned
<1>2. CASE verdict' = "run_failed" /\ PlanWrite("note", "run_failed", "over")
  <2>1. "run_failed" \in Said
    BY DEF Said, Verdicts
  <2>2. /\ plan' \in Plan /\ plan'.write = "note" /\ plan'.next = "over"
        /\ plan'.count = seen.goal.count + 1 /\ phase' = "locking"
    BY <1>2, <2>1, PlanFacts
  <2> QED BY <1>0, <1>2, <2>1, <2>2, QuietInv DEF WorkerPhases, Evaluating, UnderLock, Planned
<1>3. CASE EndLoop /\ UNCHANGED verdict
  BY <1>0, <1>3, QuietInv, NoRecords
     DEF EndLoop, GoalTyped, WorkerPhases, Evaluating, UnderLock, Planned
<1> QED BY <1>1, <1>2, <1>3 DEF Evaluate

LEMMA RecheckInv ==
    ASSUME GoalInv, Recheck
    PROVE  GoalInv'
<1>0. /\ GoalTyped /\ phase = "recheck" /\ verdict \in Said
      /\ UNCHANGED <<ckpt, seen, verdict, base, posting, chosen, lost, turns, edits>>
  BY DEF GoalInv, GoalTyped, Recheck
<1>1. CASE EndLoop
  BY <1>0, <1>1, QuietInv, NoRecords
     DEF EndLoop, GoalTyped, WorkerPhases, Evaluating, UnderLock, Planned
<1>2. ASSUME NEW write \in {"note", "clear"}, PlanWrite(write, verdict, "over") PROVE GoalInv'
  <2>1. /\ plan' \in Plan /\ plan'.write = write /\ plan'.next = "over"
        /\ plan'.count = seen.goal.count + 1 /\ phase' = "locking"
    BY <1>0, <1>2, PlanFacts
  <2> QED BY <1>0, <2>1, QuietInv DEF WorkerPhases, Evaluating, UnderLock, Planned
<1>3. ASSUME Matches(seen.goal, ckpt.goal), ckpt.id = seen.id,
             ~(ckpt = seen /\ verdict = "satisfied"),
             ~(ckpt = seen /\ verdict # "satisfied" /\ StandsDown),
             PlanWrite("count", verdict, "guard")
      PROVE  GoalInv'
  <2>1. /\ plan' \in Plan /\ plan'.write = "count" /\ plan'.next = "guard"
        /\ plan'.count = seen.goal.count + 1 /\ phase' = "locking"
    BY <1>0, <1>3, PlanFacts
  <2>2. seen.goal.count \in Nat /\ MaxContinuations \in Nat
    BY <1>0, CkptFields, GoalBounds DEF GoalTyped
  <2>3. ASSUME Loyal PROVE seen.goal.count < MaxContinuations
    <3>1. ckpt = seen
      BY <1>0, <1>3, <2>3 DEF Loyal, Looked, Evaluating
    <3>2. ~StandsDown
      BY <1>3, <3>1
    <3> QED BY <2>2, <3>2 DEF StandsDown
  <2> QED BY <1>0, <2>1, <2>3, QuietInv DEF WorkerPhases, Evaluating, UnderLock, Planned
<1>4. \/ EndLoop
      \/ \E write \in {"note", "clear"} : PlanWrite(write, verdict, "over")
      \/ /\ Matches(seen.goal, ckpt.goal) /\ ckpt.id = seen.id
         /\ ~(ckpt = seen /\ verdict = "satisfied")
         /\ ~(ckpt = seen /\ verdict # "satisfied" /\ StandsDown)
         /\ PlanWrite("count", verdict, "guard")
  BY DEF Recheck
<1> QED BY <1>1, <1>2, <1>3, <1>4

\* Under goal_thread_lock: the goal is compared, and the checkpoint id.
LEMMA PersistReadsInv ==
    ASSUME GoalInv, PersistReads
    PROVE  GoalInv'
<1>0. /\ GoalTyped /\ phase = "locking" /\ verdict \in Said /\ plan \in Plan
      /\ UNCHANGED <<ckpt, seen, verdict, posting, chosen, lost, turns, edits>>
  BY DEF GoalInv, GoalTyped, PersistReads
<1>1. CASE EndLoop /\ UNCHANGED base
  BY <1>0, <1>1, QuietInv, NoRecords
     DEF EndLoop, GoalTyped, WorkerPhases, Evaluating, UnderLock, Planned
<1>2. CASE Matches(seen.goal, ckpt.goal) /\ phase' = "checking" /\ base' = ckpt /\ UNCHANGED plan
  <2>1. ASSUME Loyal PROVE UnderLock' /\ Planned'
    <3>1. ckpt.goal.gen = seen.goal.gen /\ seen.goal.gen = chosen
      BY <1>2, <2>1 DEF Loyal, Matches
    <3>2. UnderLock'
      BY <1>0, <1>2, <3>1 DEF UnderLock
    <3>3. Planned'
      BY <1>0, <1>2, <2>1 DEF Loyal, Planned
    <3> QED BY <3>2, <3>3
  <2> QED BY <1>0, <1>2, <2>1, QuietInv DEF WorkerPhases, Evaluating
<1> QED BY <1>1, <1>2 DEF PersistReads

LEMMA PersistChecksInv ==
    ASSUME GoalInv, PersistChecks
    PROVE  GoalInv'
<1>0. /\ GoalTyped /\ phase = "checking" /\ verdict \in Said /\ plan \in Plan
      /\ UNCHANGED <<ckpt, seen, verdict, posting, chosen, lost, turns, edits>>
  BY DEF GoalInv, GoalTyped, PersistChecks
<1>1. CASE EndLoop /\ base' = NoCkpt
  BY <1>0, <1>1, QuietInv, NoRecords
     DEF EndLoop, GoalTyped, WorkerPhases, Evaluating, UnderLock, Planned
<1>2. CASE phase' = "putting" /\ UNCHANGED <<plan, base>>
  <2>1. ASSUME Loyal PROVE UnderLock' /\ Planned'
    BY <1>0, <1>2, <2>1 DEF Loyal, UnderLock, Planned
  <2> QED BY <1>0, <1>2, <2>1, QuietInv DEF WorkerPhases, Evaluating
<1> QED BY <1>1, <1>2 DEF PersistChecks

LEMMA GuardInv ==
    ASSUME GoalInv, Guard
    PROVE  GoalInv'
<1>0. /\ GoalTyped /\ phase = "guard" /\ verdict \in Said /\ plan \in Plan
      /\ UNCHANGED <<ckpt, seen, verdict, base, posting, chosen, lost, turns, edits>>
  BY DEF GoalInv, GoalTyped, Guard
<1>1. CASE EndLoop
  BY <1>0, <1>1, QuietInv, NoRecords
     DEF EndLoop, GoalTyped, WorkerPhases, Evaluating, UnderLock, Planned
<1>2. CASE PlanWrite("count", verdict, "over")
  <2>1. /\ plan' \in Plan /\ plan'.write = "count" /\ plan'.next = "over"
        /\ plan'.count = seen.goal.count + 1 /\ phase' = "locking"
    BY <1>0, <1>2, PlanFacts
  <2>2. ASSUME Loyal PROVE UnderLock' /\ Planned'
    BY <1>0, <2>1, <2>2 DEF Loyal, UnderLock, Planned
  <2> QED BY <1>0, <2>1, <2>2, QuietInv DEF WorkerPhases, Evaluating
<1>3. CASE phase' = "continue" /\ UNCHANGED plan
  <2>1. ASSUME Loyal PROVE UnderLock' /\ Planned'
    BY <1>0, <1>3, <2>1 DEF Loyal, UnderLock, Planned
  <2> QED BY <1>0, <1>3, <2>1, QuietInv DEF WorkerPhases, Evaluating
<1> QED BY <1>1, <1>2, <1>3 DEF Guard

\* The goal as the write leaves it: gone, or the same goal with its count kept or
\* raised to the one planned.
LEMMA AttachedFacts ==
    ASSUME GoalInv
    PROVE  /\ Attached \in GoalRecord
           /\ plan.write = "clear" => Attached.gen = 0
           /\ plan.write # "clear" => Attached.gen = base.goal.gen
           /\ plan.write = "count" => Attached.count = plan.count
           /\ plan.write \notin {"clear", "count"} => Attached.count = base.goal.count
<1>1. /\ plan \in Plan /\ plan.count \in Nat /\ plan.stalled \in Nat /\ verdict \in Said
      /\ base.goal \in GoalRecord /\ seen.answer \in {0, 1}
  BY CkptFields DEF GoalInv, GoalTyped, Plan
<1>2. CASE plan.write = "clear"
  BY <1>2, NoRecords DEF Attached
<1>3. CASE plan.write # "clear"
  <2>1. PICK k, n, g : /\ k = <<verdict, seen.answer>> /\ g = base.goal
                       /\ n = IF plan.write = "count" THEN plan.count ELSE base.goal.count
    OBVIOUS
  <2>2. k \in Said \X {0, 1}
    BY <1>1, <2>1
  <2>3. n \in Nat /\ g \in GoalRecord
    BY <1>1, <2>1 DEF GoalRecord
  <2>4. Attached = [g EXCEPT !.stalled = plan.stalled, !.key = k, !.count = n]
    <3>1. Attached = [g EXCEPT !.stalled = plan.stalled, !.key = k,
                               !.count = IF plan.write = "count" THEN plan.count ELSE @]
      BY <1>3, <2>1 DEF Attached
    <3> QED BY <2>1, <2>3, <3>1 DEF GoalRecord
  <2>5. /\ Attached \in GoalRecord /\ Attached.gen = g.gen /\ Attached.count = n
    BY <1>1, <2>2, <2>3, <2>4 DEF GoalRecord
  <2> QED BY <1>3, <2>1, <2>5
<1> QED BY <1>2, <1>3

LEMMA PersistPutsInv ==
    ASSUME GoalInv, PersistPuts
    PROVE  GoalInv'
<1>0. /\ GoalTyped /\ Numbered /\ phase = "putting" /\ plan \in Plan /\ base \in Ckpt
      /\ UNCHANGED <<seen, verdict, posting, chosen, lost, turns, edits>>
      /\ phase' = plan.next /\ plan' = NoPlan /\ base' = NoCkpt
  BY DEF GoalInv, GoalTyped, PersistPuts
<1>1. PICK n, g : n = ckpt.id + 1 /\ g = Attached
  OBVIOUS
<1>2. /\ n \in Nat /\ g \in GoalRecord /\ ckpt.id \in Nat /\ seen.id \in Nat
      /\ seen.goal.count \in Nat /\ ckpt.goal.count \in Nat /\ edits \in Nat
  BY <1>0, <1>1, AttachedFacts, CkptFields DEF GoalTyped
<1>3. ckpt' = [base EXCEPT !.id = n, !.goal = g]
  BY <1>1 DEF PersistPuts
<1>4. ckpt' \in Ckpt /\ ckpt'.id = n /\ ckpt'.goal = g
  BY <1>0, <1>2, <1>3 DEF Ckpt
<1>5. phase' \in {"over", "guard"}
  BY <1>0 DEF Plan
<1>6. GoalTyped'
  BY <1>0, <1>4, <1>5, NoRecords DEF GoalTyped, WorkerPhases
<1>7. /\ plan.write = "clear" => g.gen = 0
      /\ plan.write # "clear" => g.gen = base.goal.gen
      /\ plan.write = "count" => g.count = plan.count
      /\ plan.write \notin {"clear", "count"} => g.count = base.goal.count
  BY <1>1, AttachedFacts
<1>8. Numbered'
  BY <1>0, <1>2, <1>4, <1>7, NoRecords DEF Numbered
<1>9. ASSUME Loyal PROVE Loyal'
  <2>1. /\ base.goal = ckpt.goal /\ ckpt.goal.gen = seen.goal.gen /\ seen.goal.gen = chosen
        /\ plan.count = seen.goal.count + 1 /\ seen.goal.gen # 0 /\ seen.id <= ckpt.id
        /\ plan.write = "count" => seen.goal.count < MaxContinuations
        /\ plan.next = "guard" => plan.write = "count"
        /\ turns[seen.goal.gen] <= seen.goal.count /\ turns[ckpt.goal.gen] <= ckpt.goal.count
    BY <1>0, <1>9 DEF Loyal, Looked, UnderLock, Planned, Budgeted, Evaluating
  <2>2. turns[seen.goal.gen] \in Nat
    BY <1>0, <2>1, CkptFields DEF GoalTyped
  <2>3. ckpt'.goal.gen \in {0, chosen'}
    BY <1>0, <1>4, <1>7, <2>1
  <2>4. Looked' /\ UnderLock'
    BY <1>0, <1>1, <1>2, <1>4, <1>5, <2>1 DEF Looked, UnderLock, Evaluating
  <2>5. Planned'
    BY <1>0, <1>2, <1>4, <1>5, <1>7, <2>1 DEF Planned
  <2>6. g.gen # 0 => g.gen = seen.goal.gen /\ turns[g.gen] <= g.count
    BY <1>2, <1>7, <2>1, <2>2
  <2>7. Budgeted'
    BY <1>0, <1>4, <1>9, <2>1, <2>6 DEF Loyal, Budgeted
  <2> QED BY <2>3, <2>4, <2>5, <2>7 DEF Loyal
<1> QED BY <1>0, <1>6, <1>8, <1>9 DEF GoalInv

LEMMA GoalNextInv == GoalInv /\ [GoalNext]_goalVars => GoalInv'
<1> SUFFICES ASSUME GoalInv, [GoalNext]_goalVars PROVE GoalInv'
  OBVIOUS
<1>1. CASE WorkerStep
  BY <1>1, BeginTurnInv, EndTurnInv, ReadGoalInv, EvaluateInv, RecheckInv, PersistReadsInv,
     PersistChecksInv, PersistPutsInv, GuardInv DEF WorkerStep
<1>2. CASE UNCHANGED goalVars
  <2>1. UNCHANGED <<ckpt, phase, seen, verdict, plan, base, posting, chosen, lost, turns, edits>>
    BY <1>2 DEF goalVars
  <2> QED BY <2>1, QuietInv DEF GoalInv, GoalTyped, Loyal, UnderLock, Planned, Evaluating
<1> QED BY <1>1, <1>2, PostInv, SetGoalInv DEF GoalNext

\* The worker's evaluation loop and the user's edits keep the goal loop's invariant.
THEOREM GoalInvariant == GoalSpec => []GoalInv
BY GoalInitInv, GoalNextInv, PTL DEF GoalSpec

LEMMA GoalBounded == GoalInv => ContinuationsBounded
<1> SUFFICES ASSUME GoalInv PROVE ContinuationsBounded
  OBVIOUS
<1>1. turns \in [GoalIds -> Nat]
  BY DEF GoalInv, GoalTyped
<1> QED BY <1>1 DEF GoalInv, Loyal, Budgeted, ContinuationsBounded

\* ContinuationsBounded holds in every reachable state: _prepare_goal_continuation_input
\* never runs more hidden turns for a goal than max_continuations, whatever the
\* user sets, clears or posts meanwhile, unless a whole-checkpoint write has put
\* an older goal with its older count back.
THEOREM TurnsAreCapped == GoalSpec => []ContinuationsBounded
BY GoalInvariant, GoalBounded, PTL

\* UserGoalWins: while _persist_goal_evaluation is about to put, no step changes
\* the checkpoint unless the evaluation is about the goal the user chose last, or
\* an older goal had been put back before.
THEOREM LatestGoalWins == GoalSpec => UserGoalWins
<1>1. GoalInv /\ [GoalNext]_goalVars =>
        [phase = "putting" /\ ckpt' # ckpt => seen.goal.gen = chosen \/ lost]_goalVars
  BY DEF GoalInv, Loyal, UnderLock
<1> QED BY <1>1, GoalInvariant, PTL DEF GoalSpec, UserGoalWins

(***************************************************************************)
(* The components of a run together.  A step of one leaves the variables   *)
(* of the others alone, so each keeps its own invariant.                   *)
(***************************************************************************)
ComponentsInv == ThreadInv /\ RowInv /\ BridgeInv /\ JournalInv /\ SchedInv /\ GoalInv

LEMMA ComponentSteps ==
    [RunsNext]_runsVars => /\ [RunNext]_runVars /\ [RowNext]_rowVars /\ [BridgeNext]_bridgeVars
                           /\ [JournalNext]_journalVars /\ [SchedNext]_schedVars
                           /\ [GoalNext]_goalVars
<1>1. CASE UNCHANGED runsVars
  BY <1>1, Zenon DEF runsVars
<1>2. CASE RunsNext
  BY <1>2, Zenon DEF RunsNext
<1> QED BY <1>1, <1>2

LEMMA ComponentsImply == ComponentsInv => RunsInvariant
<1> SUFFICES ASSUME ComponentsInv PROVE RunsInvariant
  OBVIOUS
<1>1. RunsTypeOK /\ Serialised
  BY ThreadInvSerialises DEF ComponentsInv, ThreadInv
<1>2. RowTypeOK /\ RowSettles
  BY RowInvSettles DEF ComponentsInv, RowInv
<1>3. BridgeTypeOK /\ JournalTypeOK /\ QuietAfterFlush /\ SchedTypeOK
  BY SchedTypeFollows DEF ComponentsInv, BridgeInv, JournalInv
<1>4. GoalTypeOK /\ ContinuationsBounded
  BY GoalTypes, GoalBounded DEF ComponentsInv
<1> QED BY <1>1, <1>2, <1>3, <1>4 DEF RunsInvariant

\* RunsInvariant holds in every reachable state of the system the runs check, for
\* every bound: run records and their types, streams within queue_maxsize, runs
\* of a thread one after another in the graph, a final row for a finished run,
\* nothing written behind the journal's flush, and the cap on a goal's turns.
THEOREM RunsAreSafe == RunsSpec => []RunsInvariant
<1>1. RunsInit => ComponentsInv
  BY ThreadInitInv, RowInitInv, BridgeInitInv, JournalInitInv, SchedInitInv, GoalInitInv
     DEF RunsInit, ComponentsInv
<1>2. ComponentsInv /\ [RunsNext]_runsVars => ComponentsInv'
  BY ComponentSteps, ThreadNextInv, RowNextInv, BridgeNextInv, JournalNextInv, SchedNextInv,
     GoalNextInv DEF ComponentsInv
<1> QED BY <1>1, <1>2, ComponentsImply, PTL DEF RunsSpec

=============================================================================
