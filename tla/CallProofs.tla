----------------------------- MODULE CallProofs -----------------------------
(***************************************************************************)
(* Proofs about the components a call goes through, for any number of      *)
(* calls, keys, conversations, subagents and threads, and any bounds.      *)
(*                                                                         *)
(* CaseEventChain.  The chain is linear because a call inserts after a row *)
(* that exists (ReadSomething) at a number that is free; it verifies       *)
(* because it is linear, and its rows are the abstract log, in the order   *)
(* of their numbers (Numbering).                                           *)
(*                                                                         *)
(* IdempotencyKeys.  Two handlers of one key run a lifetime apart because  *)
(* whoever is past the lookup holds the key's lock (Exclusive) and found   *)
(* no live record (NothingCached), and because the record of a handler     *)
(* that ended in this life of the process is there until its lifetime is   *)
(* over, or is about to be stored (Covered).                               *)
(*                                                                         *)
(* Subagents.  A parent that sees a final status finds the tokens, because *)
(* the payload is there before the status is (PayloadFirst).               *)
(*                                                                         *)
(* MemoryQueue, LlmCircuit, LoopGuard.  Types, and one updater at a time.  *)
(***************************************************************************)
EXTENDS MCCalls, FilterProofs, FiniteSetTheorems

\* What a call is about to continue is the empty chain or a row of it.
ReadSomething ==
    \A w \in Calls :
        \/ last[w] = Root
        \/ \E row \in rows : row.seq = last[w].seq /\ row.hash = last[w].hash

ChainInv == ChainTypeOK /\ ReadSomething /\ Linear /\ DoneIsRecorded

LEMMA ChainInitInv == Init => ChainInv
  BY ChainAssumption
     DEF Init, ChainInv, ChainTypeOK, ReadSomething, Linear, DoneIsRecorded, Root, ChainAssumption

LEMMA ReadLastInv ==
  ASSUME ChainInv, NEW w \in Calls, ReadLast(w)
  PROVE  ChainInv'
  <1>1. PICK x \in [seq : Nat, hash : Seq(Calls)] :
           /\ last' = [last EXCEPT ![w] = x]
           /\ x = Root \/ \E row \in rows : row.seq = x.seq /\ row.hash = x.hash
    <2>1. CASE last' = [last EXCEPT ![w] = Root]
      <3>1. PICK x : x = Root
        OBVIOUS
      <3>2. x \in [seq : Nat, hash : Seq(Calls)]
        BY <3>1 DEF Root
      <3> QED BY <2>1, <3>1, <3>2
    <2>2. ASSUME NEW row \in rows,
                 last' = [last EXCEPT ![w] = [seq |-> row.seq, hash |-> row.hash]]
          PROVE  \E x \in [seq : Nat, hash : Seq(Calls)] :
                    /\ last' = [last EXCEPT ![w] = x]
                    /\ x = Root \/ \E q \in rows : q.seq = x.seq /\ q.hash = x.hash
      <3>1. PICK x : x = [seq |-> row.seq, hash |-> row.hash]
        OBVIOUS
      <3>2. x \in [seq : Nat, hash : Seq(Calls)] /\ x.seq = row.seq /\ x.hash = row.hash
        BY <3>1 DEF ChainInv, ChainTypeOK
      <3>3. last' = [last EXCEPT ![w] = x]
        BY <2>2, <3>1
      <3> QED BY <3>2, <3>3
    <2> QED BY <2>1, <2>2 DEF ReadLast
  <1>2. pc' = [pc EXCEPT ![w] = "insert"] /\ UNCHANGED <<rows, attempt>>
    BY DEF ReadLast
  <1>3. ChainTypeOK'
    BY <1>1, <1>2 DEF ChainInv, ChainTypeOK
  <1>4. ReadSomething'
    BY <1>1, <1>2 DEF ChainInv, ChainTypeOK, ReadSomething
  <1>5. Linear'
    BY DEF ChainInv, Linear, ReadLast
  <1>6. DoneIsRecorded'
    BY DEF ChainInv, ChainTypeOK, DoneIsRecorded, ReadLast
  <1> QED BY <1>3, <1>4, <1>5, <1>6 DEF ChainInv

LEMMA InsertInv ==
  ASSUME ChainInv, NEW w \in Calls, Insert(w)
  PROVE  ChainInv'
  <1>1. PICK n : n = NewRow(w)
    OBVIOUS
  <1>2. /\ n.seq = last[w].seq + 1 /\ n.prev = last[w].hash /\ n.event = w
        /\ n.hash = Digest(n.prev, w)
    BY <1>1 DEF NewRow
  <1>3. rows' = rows \cup {n} /\ SeqFree(n.seq) /\ pc[w] = "insert" /\ UNCHANGED <<last, attempt>>
        /\ pc' = [pc EXCEPT ![w] = "done"]
    BY <1>1, <1>2 DEF Insert
  <1>4. last[w].seq \in Nat /\ last[w].hash \in Seq(Calls)
    BY DEF ChainInv, ChainTypeOK
  <1>5. ChainTypeOK'
    <2>1. n.seq \in Nat \ {0} /\ n.prev \in Seq(Calls) /\ n.hash \in Seq(Calls) /\ n.event \in Calls
      BY <1>2, <1>4 DEF Digest
    <2>2. n \in [seq : Nat \ {0}, prev : Seq(Calls), hash : Seq(Calls), event : Calls]
      BY <1>1, <1>2, <2>1 DEF NewRow
    <2> QED BY <1>3, <2>2 DEF ChainInv, ChainTypeOK
  <1>6. ReadSomething'
    BY <1>3 DEF ChainInv, ReadSomething
  <1>7. Linear'
    <2>1. ASSUME NEW r \in rows', NEW s \in rows', r.seq = s.seq PROVE r = s
      BY <1>3, <2>1 DEF ChainInv, Linear, SeqFree
    <2>2. ASSUME NEW r \in rows
          PROVE  /\ r.hash = Digest(r.prev, r.event)
                 /\ IF r.seq = 1 THEN r.prev = <<>>
                    ELSE \E s \in rows' : s.seq = r.seq - 1 /\ s.hash = r.prev
      BY <1>3 DEF ChainInv, Linear
    <2>3. /\ n.hash = Digest(n.prev, n.event)
          /\ IF n.seq = 1 THEN n.prev = <<>>
             ELSE \E s \in rows' : s.seq = n.seq - 1 /\ s.hash = n.prev
      <3>1. CASE last[w] = Root
        BY <1>2, <3>1 DEF Root
      <3>2. CASE \E row \in rows : row.seq = last[w].seq /\ row.hash = last[w].hash
        <4>1. PICK row \in rows : row.seq = last[w].seq /\ row.hash = last[w].hash
          BY <3>2
        <4>2. row.seq \in Nat \ {0} /\ row \in rows'
          BY <1>3 DEF ChainInv, ChainTypeOK
        <4>3. n.seq # 1 /\ row.seq = n.seq - 1 /\ row.hash = n.prev
          BY <1>2, <4>1, <4>2
        <4> QED BY <1>2, <4>2, <4>3
      <3> QED BY <3>1, <3>2 DEF ChainInv, ReadSomething
    <2> QED BY <1>3, <2>1, <2>2, <2>3 DEF Linear, Digest
  <1>8. DoneIsRecorded'
    <2>1. \A r \in rows : r.event # w
      BY <1>3 DEF ChainInv, DoneIsRecorded
    <2>2. \A v \in Calls : pc'[v] = "done" <=> v = w \/ pc[v] = "done"
      BY <1>3 DEF ChainInv, ChainTypeOK
    <2>3. \A v \in Calls : (\E r \in rows' : r.event = v) <=> v = w \/ \E r \in rows : r.event = v
      BY <1>2, <1>3
    <2>4. \A r, s \in rows' : r.event = s.event => r = s
      BY <1>2, <1>3, <2>1 DEF ChainInv, DoneIsRecorded
    <2> QED BY <2>2, <2>3, <2>4 DEF ChainInv, DoneIsRecorded
  <1> QED BY <1>5, <1>6, <1>7, <1>8 DEF ChainInv

LEMMA CollideInv ==
  ASSUME ChainInv, NEW w \in Calls, Collide(w)
  PROVE  ChainInv'
  <1>1. ChainTypeOK'
    <2>1. UNCHANGED <<rows, last>> /\ pc' \in [Calls -> {"read", "insert", "done", "failed"}]
      BY DEF ChainInv, ChainTypeOK, Collide
    <2>2. attempt[w] \in 0..(MaxAttempts - 1) /\ MaxAttempts \in Nat \ {0}
      BY ChainAssumption DEF ChainInv, ChainTypeOK, ChainAssumption
    <2>3. attempt' = attempt
          \/ /\ attempt[w] # MaxAttempts - 1
             /\ attempt' = [attempt EXCEPT ![w] = attempt[w] + 1]
      BY DEF Collide, OutOfRetries
    <2>4. attempt[w] # MaxAttempts - 1 => attempt[w] + 1 \in 0..(MaxAttempts - 1)
      BY <2>2
    <2>5. attempt' \in [Calls -> 0..(MaxAttempts - 1)]
      BY <2>3, <2>4 DEF ChainInv, ChainTypeOK
    <2> QED BY <2>1, <2>5 DEF ChainInv, ChainTypeOK
  <1>2. ReadSomething' /\ Linear'
    BY DEF ChainInv, ReadSomething, Linear, Collide
  <1>3. DoneIsRecorded'
    BY DEF ChainInv, ChainTypeOK, DoneIsRecorded, Collide
  <1> QED BY <1>1, <1>2, <1>3 DEF ChainInv

LEMMA ChainNextInv == ChainInv /\ [Next]_chainVars => ChainInv'
  <1> SUFFICES ASSUME ChainInv, [Next]_chainVars PROVE ChainInv'
    OBVIOUS
  <1>1. CASE UNCHANGED chainVars
    BY <1>1 DEF ChainInv, ChainTypeOK, ReadSomething, Linear, DoneIsRecorded, chainVars
  <1> QED BY <1>1, ReadLastInv, InsertInv, CollideInv DEF Next

LEMMA ChainInvariant == Spec => []ChainInv
  BY ChainInitInv, ChainNextInv, PTL DEF Spec

\* The rows and the state of every append_event call are well formed; a call
\* never makes more attempts than its budget.
THEOREM ChainTypeCorrect == Spec => []ChainTypeOK
  <1>1. ChainInv => ChainTypeOK
    BY DEF ChainInv
  <1> QED BY <1>1, ChainInvariant, PTL

\* UNIQUE(case_id, seq) and the reread after a collision keep the chain free of
\* forks and gaps, whatever the number of concurrent writers.
THEOREM ChainIsLinear == Spec => []Linear
  <1>1. ChainInv => Linear
    BY DEF ChainInv
  <1> QED BY <1>1, ChainInvariant, PTL

\* append_event returns if and only if its event is in the chain, exactly once.
THEOREM ChainRecordsOnce == Spec => []DoneIsRecorded
  <1>1. ChainInv => DoneIsRecorded
    BY DEF ChainInv
  <1> QED BY <1>1, ChainInvariant, PTL

-----------------------------------------------------------------------------
(* verify_event_chain                                                      *)

\* In a linear chain the row before another is the one numbered one less.
LEMMA HashBeforeIsPrev ==
  ASSUME ChainInv, NEW row \in rows
  PROVE  HashBefore(rows, row) = row.prev
  <1>1. \A r \in rows : r.seq \in Nat \ {0}
    BY DEF ChainInv, ChainTypeOK
  <1>2. CASE row.seq = 1
    <2>1. Below(rows, row) = {}
      BY <1>1, <1>2 DEF Below
    <2> QED BY <1>2, <2>1 DEF HashBefore, ChainInv, Linear
  <1>3. CASE row.seq # 1
    <2>1. PICK p \in rows : p.seq = row.seq - 1 /\ p.hash = row.prev
      BY <1>3 DEF ChainInv, Linear
    <2>2. p \in Below(rows, row) /\ \A c \in Below(rows, row) : c.seq <= p.seq
      BY <1>1, <2>1 DEF Below
    <2>3. PICK b : b = CHOOSE d \in Below(rows, row) : \A c \in Below(rows, row) : c.seq <= d.seq
      OBVIOUS
    <2>4. b \in Below(rows, row) /\ \A c \in Below(rows, row) : c.seq <= b.seq
      BY <2>2, <2>3
    <2>5. b \in rows /\ b.seq = p.seq
      BY <1>1, <2>1, <2>2, <2>4 DEF Below
    <2>6. b = p
      BY <2>5 DEF ChainInv, Linear
    <2> QED BY <2>1, <2>2, <2>3, <2>6 DEF HashBefore
  <1> QED BY <1>2, <1>3

\* verify_event_chain accepts every chain that append_event can write, and
\* rejects it once the event of a row has been replaced.
THEOREM ChainIsTamperEvident == Spec => []TamperEvident
  <1>1. ASSUME ChainInv PROVE TamperEvident
    <2>1. Verify(rows)
      BY <1>1, HashBeforeIsPrev DEF Verify, RowVerifies, ChainInv, Linear
    <2>2. ASSUME NEW r \in rows, NEW e \in Calls, e # r.event,
                 Verify((rows \ {r}) \cup {[r EXCEPT !.event = e]})
          PROVE  FALSE
      <3>1. PICK f : f = [r EXCEPT !.event = e]
        OBVIOUS
      <3>2. f.hash = Digest(f.prev, f.event)
        BY <2>2, <3>1 DEF Verify, RowVerifies
      <3>3. f.hash = r.hash /\ f.prev = r.prev /\ f.event = e
        BY <1>1, <3>1 DEF ChainInv, ChainTypeOK
      <3>4. r.hash = Digest(r.prev, r.event) /\ r.prev \in Seq(Calls) /\ r.event \in Calls
        BY <1>1 DEF ChainInv, ChainTypeOK, Linear
      <3>5. Append(r.prev, e) = Append(r.prev, r.event)
        BY <3>2, <3>3, <3>4 DEF Digest
      <3>6. Append(r.prev, e)[Len(r.prev) + 1] = e /\ Append(r.prev, r.event)[Len(r.prev) + 1] = r.event
        BY <3>4
      <3> QED BY <2>2, <3>5, <3>6
    <2> QED BY <2>1, <2>2 DEF TamperEvident
  <1> QED BY <1>1, ChainInvariant, PTL

-----------------------------------------------------------------------------
(* The refinement of AuditLog                                              *)

\* The rows are numbered from one to their count.
Numbering ==
    /\ IsFiniteSet(rows)
    /\ \A r \in rows : r.seq \in 1 .. Cardinality(rows)
    /\ \A n \in 1 .. Cardinality(rows) : \E r \in rows : r.seq = n

\* The log the rows stand for.
EventsAt(n) == {r.event : r \in {s \in rows : s.seq = n}}
LogOfRows == [n \in 1 .. Cardinality(rows) |-> EventsAt(n)]

\* An inserted row comes right behind the last one.
LEMMA InsertsAtEnd ==
  ASSUME ChainInv, Numbering, NEW w \in Calls, Insert(w)
  PROVE  \E n : /\ rows' = rows \cup {n} /\ n \notin rows /\ n.event = w
                /\ n.seq = Cardinality(rows) + 1 /\ Cardinality(rows) \in Nat
                /\ Cardinality(rows') = Cardinality(rows) + 1 /\ IsFiniteSet(rows')
  <1>1. PICK n : n = NewRow(w)
    OBVIOUS
  <1>2. n.seq = last[w].seq + 1 /\ n.event = w
    BY <1>1 DEF NewRow
  <1>3. rows' = rows \cup {n} /\ \A r \in rows : r.seq # n.seq
    BY <1>1, <1>2 DEF Insert, SeqFree
  <1>4. n \notin rows
    BY <1>3
  <1>5. Cardinality(rows) \in Nat /\ Cardinality(rows') = Cardinality(rows) + 1 /\ IsFiniteSet(rows')
    BY <1>3, <1>4, FS_AddElement, FS_CardinalityType DEF Numbering
  <1>6. last[w].seq \in 0 .. Cardinality(rows)
    BY <1>5 DEF ChainInv, ReadSomething, Numbering, Root
  <1>7. n.seq = Cardinality(rows) + 1
    BY <1>2, <1>3, <1>5, <1>6 DEF Numbering
  <1> QED BY <1>2, <1>3, <1>4, <1>5, <1>7

LEMMA NumberingInv ==
  ASSUME ChainInv, Numbering, [Next]_chainVars
  PROVE  Numbering'
  <1>1. ASSUME NEW w \in Calls, Insert(w) PROVE Numbering'
    <2>1. PICK n : /\ rows' = rows \cup {n} /\ n.seq = Cardinality(rows) + 1
                   /\ Cardinality(rows') = Cardinality(rows) + 1 /\ IsFiniteSet(rows')
                   /\ Cardinality(rows) \in Nat
      BY <1>1, InsertsAtEnd
    <2> QED BY <2>1 DEF Numbering
  <1>2. CASE UNCHANGED rows
    BY <1>2 DEF Numbering
  <1> QED BY <1>1, <1>2 DEF Next, chainVars, ReadLast, Collide

\* An insert appends its event to the log, in which it was not yet.
LEMMA InsertRecords ==
  ASSUME ChainInv, Numbering, NEW w \in Calls, Insert(w)
  PROVE  /\ \A m \in DOMAIN LogOfRows : LogOfRows[m] # {w}
         /\ LogOfRows' = Append(LogOfRows, {w})
  <1>1. PICK n : /\ rows' = rows \cup {n} /\ n \notin rows /\ n.event = w
                 /\ n.seq = Cardinality(rows) + 1 /\ Cardinality(rows) \in Nat
                 /\ Cardinality(rows') = Cardinality(rows) + 1
    BY InsertsAtEnd
  <1>2. \A r \in rows : r.event # w
    BY DEF Insert, ChainInv, DoneIsRecorded
  <1>3. \A m \in DOMAIN LogOfRows : LogOfRows[m] # {w}
    BY <1>2 DEF LogOfRows, EventsAt
  <1>4. PICK c \in Nat : c = Cardinality(rows)
    BY <1>1
  <1>5. ASSUME NEW m \in 1 .. c PROVE EventsAt(m)' = EventsAt(m)
    BY <1>1, <1>4 DEF EventsAt
  <1>6. EventsAt(c + 1)' = {w}
    BY <1>1, <1>4 DEF EventsAt, Numbering
  <1>7. PICK l : l = LogOfRows
    OBVIOUS
  <1>8. l = [m \in 1 .. c |-> EventsAt(m)]
    BY <1>4, <1>7 DEF LogOfRows
  <1>9. l \in Seq(SUBSET Calls) /\ Len(l) = c
    BY <1>8 DEF EventsAt, ChainInv, ChainTypeOK
  <1>10. LogOfRows' = [m \in 1 .. c + 1 |-> EventsAt(m)']
    BY <1>1, <1>4 DEF LogOfRows
  <1>11. Append(l, {w}) = [m \in 1 .. c + 1 |-> IF m <= c THEN l[m] ELSE {w}]
    BY <1>9
  <1>12. \A m \in 1 .. c + 1 : EventsAt(m)' = IF m <= c THEN l[m] ELSE {w}
    BY <1>5, <1>6, <1>8
  <1>13. LogOfRows' = Append(l, {w})
    BY <1>10, <1>11, <1>12
  <1> QED BY <1>3, <1>7, <1>13

\* KeepsLog: the rows of case_events are an audit log.  Every append_event call
\* that reports success appends its event at the end of one sequence, once, and
\* no call, however it is retried or refused, changes what is there.
THEOREM ChainKeepsLog == Spec => KeepsLog
  <1>1. Init => Numbering /\ LogOfRows = <<>>
    BY FS_EmptySet DEF Init, Numbering, LogOfRows
  <1>2. ChainInv /\ Numbering /\ [Next]_chainVars =>
          (\E e \in {{w} : w \in Calls} : /\ \A m \in DOMAIN LogOfRows : LogOfRows[m] # e
                                          /\ LogOfRows' = Append(LogOfRows, e))
          \/ UNCHANGED LogOfRows
    <2> SUFFICES ASSUME ChainInv, Numbering, [Next]_chainVars
                 PROVE  (\E e \in {{w} : w \in Calls} :
                            /\ \A m \in DOMAIN LogOfRows : LogOfRows[m] # e
                            /\ LogOfRows' = Append(LogOfRows, e))
                        \/ UNCHANGED LogOfRows
      OBVIOUS
    <2>1. ASSUME NEW w \in Calls, Insert(w)
          PROVE  \E e \in {{v} : v \in Calls} :
                            /\ \A m \in DOMAIN LogOfRows : LogOfRows[m] # e
                            /\ LogOfRows' = Append(LogOfRows, e)
      <3>1. {w} \in {{v} : v \in Calls}
        OBVIOUS
      <3> QED BY <2>1, <3>1, InsertRecords, Zenon
    <2>2. CASE UNCHANGED rows
      BY <2>2 DEF LogOfRows, EventsAt
    <2> QED BY <2>1, <2>2 DEF Next, chainVars, ReadLast, Collide
  <1>3. Init => Trail!LogInit
    BY <1>1, Zenon DEF Trail!LogInit, LogOfRows, EventsAt
  <1>4. ChainInv /\ Numbering /\ [Next]_chainVars => [Trail!LogNext]_(LogOfRows)
    BY <1>2, Zenon DEF Trail!LogNext, Trail!Record, LogOfRows, EventsAt
  <1>5. ChainInv /\ Numbering /\ [Next]_chainVars => Numbering'
    BY NumberingInv
  <1> QED BY <1>1, <1>3, <1>4, <1>5, ChainInvariant, PTL DEF Spec, KeepsLog, Trail!LogSpec, LogOfRows, EventsAt

----------------------------------------------------------------------------

Exclusive == \A r \in Requests : stage[r] \in Inside => lock[KeyOf[r]] = r

NothingCached == \A r \in Requests : stage[r] \in {"run", "store"} => records[KeyOf[r]] = None

\* What has ended ended in the past.
Dated == \A r \in Requests : ran[r] # None => ran[r].at <= now /\ ran[r].life <= restarts

\* The handler that ended in this life is still before its store, or its record
\* was stored and is there for a lifetime, or could not be stored.
Covered ==
    \A r \in Requests :
        ran[r] # None /\ ran[r].life = restarts =>
            \/ stage[r] \in {"store", "unstored"}
            \/ now >= ran[r].at + TTL
            \/ /\ records[KeyOf[r]] # None
               /\ records[KeyOf[r]].expires >= ran[r].at + TTL

\* Before the handler has ended it has not; one that lost its process is not
\* run again.
NotYet == \A r \in Requests : stage[r] \in {"idle", "lock", "lookup", "run"} => ran[r] = None

IdemInv ==
    IdemTypeOK /\ Exclusive /\ NothingCached /\ Dated /\ Covered /\ NotYet /\ RunsOnce

Row == [from : Requests, expires : Nat]
Ending == [at : Nat, life : Nat]

LEMMA IdemInitInv == IdemInit => IdemInv
  BY IdemAssumption
     DEF IdemInit, IdemInv, IdemTypeOK, Exclusive, NothingCached, Dated, Covered, NotYet,
         RunsOnce, Inside, IdemAssumption

\* A step that leaves rows, times and endings alone, and that moves r neither into
\* nor out of the handler, keeps what is said of them.
LEMMA ArriveInv ==
  ASSUME IdemInv, NEW r \in Requests, Arrive(r)
  PROVE  IdemInv'
  <1>1. IdemTypeOK'
    BY DEF IdemInv, IdemTypeOK, Arrive, Goto
  <1>2. Exclusive' /\ NothingCached' /\ NotYet'
    BY DEF IdemInv, IdemTypeOK, Exclusive, NothingCached, NotYet, Inside, Arrive, Goto
  <1>3. Dated' /\ RunsOnce'
    BY DEF IdemInv, IdemTypeOK, Dated, RunsOnce, Cached, Arrive, Goto
  <1>4. Covered'
    BY DEF IdemInv, IdemTypeOK, Covered, NotYet, Arrive, Goto
  <1> QED BY <1>1, <1>2, <1>3, <1>4 DEF IdemInv

LEMMA AcquireInv ==
  ASSUME IdemInv, NEW r \in Requests, Acquire(r)
  PROVE  IdemInv'
  <1>0. KeyOf[r] \in Keys /\ KeyOf \in [Requests -> Keys] /\ None \notin Requests
    BY IdemAssumption DEF IdemAssumption
  <1>1. IdemTypeOK'
    BY <1>0 DEF IdemInv, IdemTypeOK, Inside, Acquire, Goto
  <1>2. Exclusive'
    BY <1>0 DEF IdemInv, IdemTypeOK, Exclusive, Inside, Acquire, LockFree, Goto
  <1>3. NothingCached' /\ NotYet'
    BY DEF IdemInv, IdemTypeOK, NothingCached, NotYet, Acquire, Goto
  <1>4. Dated' /\ RunsOnce'
    BY DEF IdemInv, IdemTypeOK, Dated, RunsOnce, Cached, Acquire, Goto
  <1>5. Covered'
    BY DEF IdemInv, IdemTypeOK, Covered, NotYet, Acquire, Goto
  <1> QED BY <1>1, <1>2, <1>3, <1>4, <1>5 DEF IdemInv

LEMMA MissInv ==
  ASSUME IdemInv, NEW r \in Requests, Miss(r)
  PROVE  IdemInv'
  <1>0. KeyOf[r] \in Keys /\ KeyOf \in [Requests -> Keys] /\ TTL \in Nat
    BY IdemAssumption DEF IdemAssumption
  <1>1. IdemTypeOK'
    BY <1>0 DEF IdemInv, IdemTypeOK, Inside, Miss, Goto
  <1>2. Exclusive'
    BY DEF IdemInv, IdemTypeOK, Exclusive, Inside, Miss, Goto
  <1>3. NothingCached' /\ NotYet'
    BY <1>0 DEF IdemInv, IdemTypeOK, NothingCached, NotYet, Miss, Goto
  <1>4. Dated' /\ RunsOnce'
    BY DEF IdemInv, IdemTypeOK, Dated, RunsOnce, Cached, Miss, Goto
  <1>5. Covered'
    <2> SUFFICES ASSUME NEW q \in Requests, ran[q] # None, ran[q].life = restarts,
                        stage'[q] \notin {"store", "unstored"}, ~(now >= ran[q].at + TTL)
                 PROVE  /\ records'[KeyOf[q]] # None
                        /\ records'[KeyOf[q]].expires >= ran[q].at + TTL
      BY DEF Miss, Covered
    <2>1. q # r
      BY DEF IdemInv, NotYet, Miss
    <2>2. stage[q] \notin {"store", "unstored"}
      BY <2>1 DEF IdemInv, IdemTypeOK, Miss, Goto
    <2>3. records[KeyOf[q]] # None /\ records[KeyOf[q]].expires >= ran[q].at + TTL
      BY <2>2 DEF IdemInv, Covered
    <2>4. records[KeyOf[q]] \in [from : Requests, expires : Nat] /\ ran[q].at \in Nat
      BY <1>0, <2>3 DEF IdemInv, IdemTypeOK
    <2>5. now < records[KeyOf[q]].expires
      BY <1>0, <2>3, <2>4 DEF IdemInv, IdemTypeOK
    <2>6. KeyOf[q] # KeyOf[r]
      BY <2>3, <2>5 DEF Miss, IsLive
    <2>7. records'[KeyOf[q]] = records[KeyOf[q]]
      BY <1>0, <2>6 DEF IdemInv, IdemTypeOK, Miss
    <2> QED BY <2>3, <2>7
  <1> QED BY <1>1, <1>2, <1>3, <1>4, <1>5 DEF IdemInv

\* A request that leaves the lookup or the handler without an ending unlocks its
\* key and touches nothing else that matters here.
LEMMA LeaveInv ==
  ASSUME IdemInv, NEW r \in Requests, NEW l \in {"done", "refused", "failed"},
         stage[r] \in {"lookup", "run"}, Unlock(r), Goto(r, l),
         response' \in [Requests -> Requests \cup {None}],
         UNCHANGED <<records, now, restarts, ran>>
  PROVE  IdemInv'
  <1>0. KeyOf[r] \in Keys /\ KeyOf \in [Requests -> Keys] /\ None \notin Requests
    BY IdemAssumption DEF IdemAssumption
  <1>1. IdemTypeOK'
    BY <1>0 DEF IdemInv, IdemTypeOK, Unlock, Goto
  <1>2. Exclusive'
    BY <1>0 DEF IdemInv, IdemTypeOK, Exclusive, Inside, Unlock, Goto
  <1>3. NothingCached' /\ NotYet'
    BY DEF IdemInv, IdemTypeOK, NothingCached, NotYet, Goto
  <1>4. Dated' /\ RunsOnce'
    BY DEF IdemInv, IdemTypeOK, Dated, RunsOnce, Cached, Goto
  <1>5. Covered'
    BY DEF IdemInv, IdemTypeOK, Covered, NotYet, Goto
  <1> QED BY <1>1, <1>2, <1>3, <1>4, <1>5 DEF IdemInv

LEMMA ReplayInv ==
  ASSUME IdemInv, NEW r \in Requests, Replay(r)
  PROVE  IdemInv'
  <1>1. records[KeyOf[r]] \in Row
    BY IdemAssumption DEF IdemInv, IdemTypeOK, Replay, IsLive, IdemAssumption, Row
  <1>2. response' \in [Requests -> Requests \cup {None}]
    BY <1>1 DEF IdemInv, IdemTypeOK, Replay, Row
  <1>3. stage[r] \in {"lookup", "run"} /\ Unlock(r) /\ Goto(r, "done")
        /\ UNCHANGED <<records, now, restarts, ran>>
    BY DEF Replay
  <1> QED BY <1>2, <1>3, LeaveInv

LEMMA RunOkInv ==
  ASSUME IdemInv, NEW r \in Requests, RunOk(r)
  PROVE  IdemInv'
  <1>0. KeyOf[r] \in Keys /\ KeyOf \in [Requests -> Keys] /\ TTL \in Nat
        /\ None \notin Ending
    BY IdemAssumption DEF IdemAssumption, Ending
  <1>1. PICK e : e = [at |-> now, life |-> restarts]
    OBVIOUS
  <1>2. e \in Ending /\ e.at = now /\ e.life = restarts
    BY <1>1 DEF IdemInv, IdemTypeOK, Ending
  <1>3. /\ ran' = [ran EXCEPT ![r] = e] /\ stage' = [stage EXCEPT ![r] = "store"]
        /\ stage[r] = "run"
        /\ UNCHANGED <<records, lock, response, now, restarts>>
    BY <1>1 DEF RunOk, Goto
  <1>4. IdemTypeOK'
    BY <1>2, <1>3 DEF IdemInv, IdemTypeOK, Inside, Ending
  <1>5. ran'[r] = e /\ \A q \in Requests \ {r} : ran'[q] = ran[q] /\ stage'[q] = stage[q]
    BY <1>3 DEF IdemInv, IdemTypeOK
  <1>6. stage'[r] = "store"
    BY <1>3 DEF IdemInv, IdemTypeOK
  <1>7. Exclusive' /\ NothingCached' /\ NotYet'
    BY <1>3, <1>5, <1>6 DEF IdemInv, Exclusive, NothingCached, NotYet, Inside
  <1>8. Dated'
    BY <1>2, <1>3, <1>5 DEF IdemInv, IdemTypeOK, Dated
  <1>9. Covered'
    BY <1>3, <1>5, <1>6 DEF IdemInv, Covered
  <1>10. RunsOnce'
    <2>1. ASSUME NEW q \in Requests \ {r}, KeyOf[q] = KeyOf[r], ran[q] # None,
                 ran[q].life = restarts, Cached(q)
          PROVE  now - ran[q].at >= TTL
      <3>1. stage[q] # "store"
        BY <1>3, <2>1 DEF IdemInv, Exclusive, Inside
      <3>2. records[KeyOf[q]] = None
        BY <1>3, <2>1 DEF IdemInv, NothingCached
      <3>3. now >= ran[q].at + TTL
        BY <2>1, <3>1, <3>2 DEF IdemInv, Covered, Cached
      <3>4. ran[q].at \in Nat /\ now \in Nat
        BY <2>1 DEF IdemInv, IdemTypeOK
      <3> QED BY <1>0, <3>3, <3>4
    <2>2. ASSUME NEW q \in Requests, NEW s \in Requests, q # s, KeyOf[q] = KeyOf[s],
                 ran'[q] # None, ran'[s] # None, ran'[q].life = ran'[s].life,
                 Cached(q)', Cached(s)' \/ ran'[q].at < ran'[s].at
          PROVE  ran'[q].at - ran'[s].at >= TTL \/ ran'[s].at - ran'[q].at >= TTL
      <3>1. CASE q = r
        <4>1. ran[s] # None /\ ran[s].at \in Nat /\ ran[s].at <= now /\ now \in Nat
          BY <1>5, <2>2, <3>1 DEF IdemInv, IdemTypeOK, Dated
        <4>2. Cached(s)' /\ stage'[s] = stage[s]
          BY <1>2, <1>5, <2>2, <3>1, <4>1
        <4> QED BY <1>2, <1>5, <2>1, <2>2, <3>1, <4>1, <4>2 DEF Cached
      <3>2. CASE s = r
        BY <1>2, <1>5, <2>1, <2>2, <3>2 DEF Cached
      <3>3. CASE q # r /\ s # r
        BY <1>5, <2>2, <3>3 DEF IdemInv, RunsOnce, Cached
      <3> QED BY <3>1, <3>2, <3>3
    <2> QED BY <2>2 DEF RunsOnce
  <1> QED BY <1>4, <1>7, <1>8, <1>9, <1>10 DEF IdemInv

LEMMA StoreInv ==
  ASSUME IdemInv, NEW r \in Requests, Store(r)
  PROVE  IdemInv'
  <1>0. KeyOf[r] \in Keys /\ KeyOf \in [Requests -> Keys] /\ TTL \in Nat
        /\ None \notin Requests /\ None \notin Row
    BY IdemAssumption DEF IdemAssumption, Row
  <1>1. PICK row : row = [from |-> r, expires |-> now + TTL]
    OBVIOUS
  <1>2. row \in Row /\ row.expires = now + TTL
    BY <1>0, <1>1 DEF IdemInv, IdemTypeOK, Row
  <1>3. /\ records[KeyOf[r]] = None /\ stage[r] = "store"
        /\ records' = [records EXCEPT ![KeyOf[r]] = row]
        /\ lock' = [lock EXCEPT ![KeyOf[r]] = None]
        /\ stage' = [stage EXCEPT ![r] = "done"]
        /\ response' = [response EXCEPT ![r] = r]
        /\ UNCHANGED <<now, restarts, ran>>
    BY <1>1 DEF IdemInv, NothingCached, Store, Goto, Unlock
  <1>4. IdemTypeOK'
    BY <1>0, <1>2, <1>3 DEF IdemInv, IdemTypeOK, Row
  <1>5. stage'[r] = "done" /\ \A q \in Requests \ {r} : stage'[q] = stage[q]
    BY <1>3 DEF IdemInv, IdemTypeOK
  <1>6. \A q \in Requests : stage'[q] \in Inside => KeyOf[q] # KeyOf[r]
    BY <1>3, <1>5 DEF IdemInv, Exclusive, Inside
  <1>7. \A q \in Requests : KeyOf[q] # KeyOf[r] =>
            lock'[KeyOf[q]] = lock[KeyOf[q]] /\ records'[KeyOf[q]] = records[KeyOf[q]]
    BY <1>0, <1>3 DEF IdemInv, IdemTypeOK
  <1>8. Exclusive' /\ NothingCached'
    BY <1>5, <1>6, <1>7 DEF IdemInv, Exclusive, NothingCached, Inside
  <1>9. Dated' /\ RunsOnce'
    BY <1>3, <1>5 DEF IdemInv, Dated, RunsOnce, Cached
  <1>10. NotYet'
    BY <1>3, <1>5 DEF IdemInv, NotYet
  <1>11. Covered'
    <2> SUFFICES ASSUME NEW q \in Requests, ran[q] # None, ran[q].life = restarts
                 PROVE  \/ stage'[q] \in {"store", "unstored"}
                        \/ now >= ran[q].at + TTL
                        \/ /\ records'[KeyOf[q]] # None
                           /\ records'[KeyOf[q]].expires >= ran[q].at + TTL
      BY <1>3 DEF Covered
    <2>1. CASE KeyOf[q] # KeyOf[r]
      BY <1>5, <1>7, <2>1 DEF IdemInv, Covered
    <2>2. CASE KeyOf[q] = KeyOf[r]
      <3>1. records'[KeyOf[q]] = row
        BY <1>0, <1>3, <2>2 DEF IdemInv, IdemTypeOK
      <3>2. ran[q].at \in Nat /\ now \in Nat /\ ran[q].at <= now
        BY DEF IdemInv, IdemTypeOK, Dated
      <3> QED BY <1>0, <1>2, <3>1, <3>2
    <2> QED BY <2>1, <2>2
  <1> QED BY <1>4, <1>8, <1>9, <1>10, <1>11 DEF IdemInv

LEMMA StoreRaisesInv ==
  ASSUME IdemInv, NEW r \in Requests, StoreRaises(r)
  PROVE  IdemInv'
  <1>0. KeyOf[r] \in Keys /\ KeyOf \in [Requests -> Keys] /\ None \notin Requests
    BY IdemAssumption DEF IdemAssumption
  <1>1. IdemTypeOK'
    BY <1>0 DEF IdemInv, IdemTypeOK, StoreRaises, Unlock, Goto
  <1>2. Exclusive'
    BY <1>0 DEF IdemInv, IdemTypeOK, Exclusive, Inside, StoreRaises, Unlock, Goto
  <1>3. NothingCached' /\ NotYet'
    BY DEF IdemInv, IdemTypeOK, NothingCached, NotYet, StoreRaises, Goto
  <1>4. Dated'
    BY DEF IdemInv, Dated, StoreRaises
  <1>5. stage[r] = "store" /\ stage'[r] = "unstored" /\ ran' = ran
        /\ \A q \in Requests \ {r} : stage'[q] = stage[q]
    BY DEF IdemInv, IdemTypeOK, StoreRaises, Goto
  <1>6. RunsOnce'
    BY <1>5 DEF IdemInv, RunsOnce, Cached
  <1>7. Covered'
    BY <1>5 DEF IdemInv, Covered, StoreRaises
  <1> QED BY <1>1, <1>2, <1>3, <1>4, <1>6, <1>7 DEF IdemInv

LEMMA RestartInv ==
  ASSUME IdemInv, Restart
  PROVE  IdemInv'
  <1>0. KeyOf \in [Requests -> Keys]
    BY IdemAssumption DEF IdemAssumption
  <1>1. IdemTypeOK'
    BY DEF IdemInv, IdemTypeOK, Inside, Restart
  <1>2. \A r \in Requests : stage'[r] = IF stage[r] \in Inside \cup {"lock"} THEN "lost" ELSE stage[r]
    BY DEF Restart
  <1>3. Exclusive' /\ NothingCached'
    BY <1>2 DEF Exclusive, NothingCached, Inside
  <1>4. NotYet'
    BY <1>2 DEF IdemInv, NotYet, Inside, Restart
  <1>5. \A r \in Requests : ran[r] # None => ran[r].life \in Nat /\ ran[r].life < restarts'
    BY DEF IdemInv, IdemTypeOK, Dated, Restart
  <1>6. restarts \in Nat /\ restarts' = restarts + 1 /\ UNCHANGED <<ran, now>>
    BY DEF IdemInv, IdemTypeOK, Restart
  <1>7. Dated'
    BY <1>5, <1>6 DEF IdemInv, Dated
  <1>8. Covered'
    BY <1>5, <1>6 DEF Covered
  <1>9. RunsOnce'
    BY <1>2 DEF IdemInv, RunsOnce, Cached, Inside, Restart
  <1> QED BY <1>1, <1>3, <1>4, <1>7, <1>8, <1>9 DEF IdemInv

LEMMA TickInv ==
  ASSUME IdemInv, Tick
  PROVE  IdemInv'
  <1>1. IdemTypeOK'
    BY DEF IdemInv, IdemTypeOK, Tick
  <1>2. Exclusive' /\ NothingCached' /\ NotYet' /\ RunsOnce'
    BY DEF IdemInv, Exclusive, NothingCached, NotYet, RunsOnce, Cached, Tick
  <1>3. now \in Nat /\ now' = now + 1 /\ \A r \in Requests : ran[r] # None => ran[r].at \in Nat
    BY DEF IdemInv, IdemTypeOK, Tick
  <1>4. Dated'
    BY <1>3 DEF IdemInv, Dated, Tick
  <1>5. Covered'
    BY <1>3, IdemAssumption DEF IdemInv, Covered, Tick, IdemAssumption
  <1> QED BY <1>1, <1>2, <1>4, <1>5 DEF IdemInv

LEMMA IdemNextInv == IdemInv /\ [IdemNext]_idemVars => IdemInv'
  <1> SUFFICES ASSUME IdemInv, [IdemNext]_idemVars PROVE IdemInv'
    OBVIOUS
  <1>1. ASSUME NEW r \in Requests, Arrive(r) \/ Step(r) PROVE IdemInv'
    <2>1. CASE Conflict(r)
      BY <2>1, LeaveInv DEF Conflict, IdemInv, IdemTypeOK
    <2>2. CASE RunRaises(r)
      BY <2>2, LeaveInv DEF RunRaises, IdemInv, IdemTypeOK
    <2>3. CASE LookupRaises(r)
      BY <2>3, LeaveInv DEF LookupRaises, IdemInv, IdemTypeOK
    <2> QED BY <1>1, <2>1, <2>2, <2>3, ArriveInv, AcquireInv, MissInv, ReplayInv, RunOkInv,
               StoreInv, StoreRaisesInv
            DEF Step
  <1>2. CASE UNCHANGED idemVars
    BY <1>2 DEF idemVars, IdemInv, IdemTypeOK, Exclusive, NothingCached, Dated, Covered, NotYet,
                RunsOnce, Cached
  <1> QED BY <1>1, <1>2, RestartInv, TickInv DEF IdemNext, Wait

\* _idem_replay_or_run keeps the contract's inductive invariant.
THEOREM IdemInvariant == IdemSpec => []IdemInv
  BY IdemInitInv, IdemNextInv, PTL DEF IdemSpec

\* Every reachable state of the contract is well typed.
THEOREM IdemTypeCorrect == IdemSpec => []IdemTypeOK
  <1>1. IdemInv => IdemTypeOK
    BY DEF IdemInv
  <1> QED BY <1>1, IdemInvariant, PTL

\* _idem_replay_or_run: however many requests carry one key and however lookups,
\* handlers, stores, expiries and restarts interleave, two of their handlers that
\* succeed in one life of the process are a lifetime of the record apart, unless
\* the store of the earlier response raised.
THEOREM HandlerRunsOnce == IdemSpec => []RunsOnce
  <1>1. IdemInv => RunsOnce
    BY DEF IdemInv
  <1> QED BY <1>1, IdemInvariant, PTL

LEMMA OwnBodyInit == IdemInit => AnswersOwnBody
  BY DEF IdemInit, AnswersOwnBody

LEMMA OwnBodyNext == IdemInv /\ AnswersOwnBody /\ [IdemNext]_idemVars => AnswersOwnBody'
  <1> SUFFICES ASSUME IdemInv, AnswersOwnBody, [IdemNext]_idemVars PROVE AnswersOwnBody'
    OBVIOUS
  <1>1. ASSUME NEW r \in Requests, Replay(r) PROVE AnswersOwnBody'
    BY <1>1 DEF AnswersOwnBody, IdemInv, IdemTypeOK, Replay, SameBody
  <1>2. ASSUME NEW r \in Requests, Store(r) PROVE AnswersOwnBody'
    BY <1>2 DEF AnswersOwnBody, IdemInv, IdemTypeOK, Store
  <1>3. CASE UNCHANGED response
    BY <1>3 DEF AnswersOwnBody
  <1> QED BY <1>1, <1>2, <1>3
          DEF IdemNext, Step, Arrive, Acquire, Miss, Conflict, LookupRaises, RunOk, RunRaises,
              StoreRaises, Restart, Tick, Wait, idemVars

\* The lookup compares fingerprints before it replays: no request is answered with
\* the response to another body.
THEOREM RepliesOwnBody == IdemSpec => []AnswersOwnBody
  BY OwnBodyInit, OwnBodyNext, IdemInvariant, PTL DEF IdemSpec

----------------------------------------------------------------------------
(* Subagents                                                               *)

\* What try_set_terminal leaves behind for the poller, which reads without its
\* lock: a completed result carries its usage, and the status is published
\* only when the payload is there.
PayloadFirst ==
    \A t \in Tasks :
        /\ final[t].to = "completed" => final[t].usage
        /\ status[t] = "completed" => final[t].to = "completed"

\* The inductive invariant of the registry.
SubInv == SubTypeOK /\ PayloadFirst /\ TokensReachParent

\* What try_set_terminal may do to a result.
LEMMA TrySetTerminalWrites ==
    ASSUME SubInv, NEW t \in Tasks, NEW s \in Ended, NEW usage \in BOOLEAN,
           s = "completed" => usage,
           TrySetTerminal(t, s, usage)
    PROVE  /\ status' = status
           /\ final' \in [Tasks -> [to : {"none"} \cup Ended, usage : BOOLEAN]]
           /\ \A u \in Tasks : /\ final'[u].to = "completed" => final'[u].usage
                               /\ status[u] = "completed" => final'[u].to = "completed"
<1>1. CASE status[t] \in Ended
  BY <1>1 DEF SubInv, SubTypeOK, PayloadFirst, TrySetTerminal
<1>2. CASE status[t] \notin Ended
  <2>1. PICK x \in [to : {"none"} \cup Ended, usage : BOOLEAN] :
          x = [to |-> s, usage |-> usage]
    OBVIOUS
  <2>2. final' = [final EXCEPT ![t] = x] /\ status' = status
    BY <1>2, <2>1 DEF TrySetTerminal
  <2>3. x.to = "completed" => x.usage
    BY <2>1
  <2>4. status[t] # "completed"
    BY <1>2 DEF Ended
  <2> QED
    BY <2>1, <2>2, <2>3, <2>4 DEF SubInv, SubTypeOK, PayloadFirst
<1> QED
  BY <1>1, <1>2

\* A step that writes no answer and no journal, publishes no status and
\* leaves the payloads in order keeps the invariant's second half.
LEMMA QuietForParent ==
    ASSUME SubInv, SubTypeOK',
           answer' = answer, journal' = journal,
           \A u \in Tasks :
              /\ final'[u].to = "completed" => final'[u].usage
              /\ status'[u] = "completed" => final'[u].to = "completed"
    PROVE  SubInv'
  BY DEF SubInv, PayloadFirst, TokensReachParent

LEMMA SubCallsInv ==
    ASSUME SubInv, NEW t \in Tasks, Call(t) \/ Refuse(t) \/ StartTask(t)
    PROVE  SubInv'
<1>1. CASE Call(t)
  <2>1. SubTypeOK'
    BY <1>1 DEF SubInv, SubTypeOK, Call
  <2> QED
    BY <1>1, <2>1, QuietForParent DEF SubInv, SubTypeOK, PayloadFirst, Call
<1>2. CASE Refuse(t)
  <2>1. SubTypeOK'
    BY <1>2 DEF SubInv, SubTypeOK, Refuse, Ended
  <2>2. PayloadFirst' /\ TokensReachParent'
    BY <1>2 DEF SubInv, SubTypeOK, PayloadFirst, TokensReachParent, Refuse
  <2> QED
    BY <2>1, <2>2 DEF SubInv
<1>3. CASE StartTask(t)
  <2>1. SubTypeOK'
    BY <1>3 DEF SubInv, SubTypeOK, StartTask
  <2> QED
    BY <1>3, <2>1, QuietForParent DEF SubInv, SubTypeOK, PayloadFirst, StartTask
<1> QED
  BY <1>1, <1>2, <1>3

\* The steps of try_set_terminal and its callers.
LEMMA SubResultsInv ==
    ASSUME SubInv, NEW t \in Tasks,
           SubmitRaises(t) \/ RecordTimeout(t) \/ BeginStream(t) \/ EndStream(t)
    PROVE  SubInv'
<1>1. CASE SubmitRaises(t)
  <2>1. TrySetTerminal(t, "failed", FALSE)
    BY <1>1 DEF SubmitRaises
  <2>2. SubTypeOK'
    BY <1>1, <2>1, TrySetTerminalWrites DEF SubInv, SubTypeOK, SubmitRaises, Ended
  <2> QED
    BY <1>1, <2>1, <2>2, TrySetTerminalWrites, QuietForParent DEF SubmitRaises, Ended
<1>2. CASE RecordTimeout(t)
  <2>1. TrySetTerminal(t, "timed_out", FALSE)
    BY <1>2 DEF RecordTimeout
  <2>2. SubTypeOK'
    BY <1>2, <2>1, TrySetTerminalWrites DEF SubInv, SubTypeOK, RecordTimeout, Ended
  <2> QED
    BY <1>2, <2>1, <2>2, TrySetTerminalWrites, QuietForParent DEF RecordTimeout, Ended
<1>3. CASE BeginStream(t)
  <2>1. CASE UNCHANGED <<final, status>>
    <3>1. SubTypeOK'
      BY <1>3, <2>1 DEF SubInv, SubTypeOK, BeginStream
    <3> QED
      BY <1>3, <2>1, <3>1, QuietForParent DEF SubInv, PayloadFirst, BeginStream
  <2>2. CASE TrySetTerminal(t, "failed", FALSE) \/ TrySetTerminal(t, "cancelled", FALSE)
    <3>1. SubTypeOK'
      BY <1>3, <2>2, TrySetTerminalWrites DEF SubInv, SubTypeOK, BeginStream, Ended
    <3> QED
      BY <1>3, <2>2, <3>1, TrySetTerminalWrites, QuietForParent DEF BeginStream, Ended
  <2> QED
    BY <1>3, <2>1, <2>2 DEF BeginStream, BuildRaises
<1>4. CASE EndStream(t)
  <2>1. PICK s \in Ended : TrySetTerminal(t, s, TRUE)
    BY <1>4 DEF EndStream, Ended
  <2>2. SubTypeOK'
    BY <1>4, <2>1, TrySetTerminalWrites DEF SubInv, SubTypeOK, EndStream
  <2> QED
    BY <1>4, <2>1, <2>2, TrySetTerminalWrites, QuietForParent DEF EndStream
<1> QED
  BY <1>1, <1>2, <1>3, <1>4

LEMMA SubPublishInv ==
    ASSUME SubInv, NEW t \in Tasks, PublishStatus(t)
    PROVE  SubInv'
<1>1. SubTypeOK'
  BY DEF SubInv, SubTypeOK, PublishStatus, Writing
<1> QED
  BY <1>1, QuietForParent DEF SubInv, SubTypeOK, PayloadFirst, PublishStatus

LEMMA SubRunnerInv ==
    ASSUME SubInv, NEW t \in Tasks,
           TimesOut(t) \/ KillFuture(t) \/ Killed(t) \/ RunnerReturns(t)
    PROVE  SubInv'
<1>1. SubTypeOK'
  BY DEF SubInv, SubTypeOK, TimesOut, KillFuture, Killed, RunnerReturns
<1>2. UNCHANGED <<final, status, answer, journal>>
  BY DEF TimesOut, KillFuture, Killed, RunnerReturns
<1> QED
  BY <1>1, <1>2, QuietForParent DEF SubInv, PayloadFirst

\* A turn that reports and leaves the result alone: the tokens that were
\* reported stay, and an answer that says completed finds them.
LEMMA SubReportInv ==
    ASSUME SubInv, NEW t \in Tasks, Report(t), UNCHANGED <<final, status>>,
           NEW a, answer' = [answer EXCEPT ![t] = a],
           a = "completed" => status[t] = "completed"
    PROVE  /\ journal' \in [Tasks -> BOOLEAN]
           /\ PayloadFirst'
           /\ TokensReachParent'
<1>1. PICK j \in BOOLEAN : j = (journal[t] \/ final[t].usage)
  BY DEF SubInv, SubTypeOK
<1>2. journal' = [journal EXCEPT ![t] = j]
  BY <1>1 DEF Report
<1>3. journal' \in [Tasks -> BOOLEAN]
  BY <1>2 DEF SubInv, SubTypeOK
<1>4. a = "completed" => j
  BY <1>1 DEF SubInv, PayloadFirst
<1>5. TokensReachParent'
  <2>1. SUFFICES ASSUME NEW u \in Tasks, answer'[u] = "completed"
                 PROVE  journal'[u]
    BY DEF TokensReachParent
  <2>2. CASE u = t
    BY <1>2, <1>4, <2>1, <2>2 DEF SubInv, SubTypeOK
  <2>3. CASE u # t
    <3>1. answer[u] = "completed"
      BY <2>1, <2>3 DEF SubInv, SubTypeOK
    <3>2. journal[u]
      BY <3>1 DEF SubInv, TokensReachParent
    <3>3. journal'[u] = journal[u]
      BY <1>2, <2>3 DEF SubInv, SubTypeOK
    <3> QED
      BY <3>2, <3>3
  <2> QED
    BY <2>2, <2>3
<1> QED
  BY <1>3, <1>5 DEF SubInv, PayloadFirst

LEMMA SubPollsInv ==
    ASSUME SubInv, NEW t \in Tasks, Polls(t) \/ ParentCancels(t) \/ DrainEnds(t) \/ DeferredCleanup(t)
    PROVE  SubInv'
<1>0. 0 \in 0 .. MaxPolls + 1
  BY SubagentAssumption DEF SubagentAssumption
<1>1. CASE PollEnded(t)
  <2>1. /\ journal' \in [Tasks -> BOOLEAN]
        /\ PayloadFirst' /\ TokensReachParent'
    BY <1>1, SubReportInv DEF PollEnded
  <2>2. SubTypeOK'
    BY <1>0, <1>1, <2>1 DEF SubInv, SubTypeOK, PollEnded
  <2> QED
    BY <2>1, <2>2 DEF SubInv
<1>2. CASE PollingTimesOut(t)
  <2>1. /\ journal' \in [Tasks -> BOOLEAN]
        /\ PayloadFirst' /\ TokensReachParent'
    BY <1>2, SubReportInv DEF PollingTimesOut
  <2>2. SubTypeOK'
    BY <1>0, <1>2, <2>1 DEF SubInv, SubTypeOK, PollingTimesOut
  <2> QED
    BY <2>1, <2>2 DEF SubInv
<1>3. CASE DrainEnds(t)
  <2>1. /\ journal' \in [Tasks -> BOOLEAN]
        /\ PayloadFirst' /\ TokensReachParent'
    BY <1>3, SubReportInv DEF DrainEnds
  <2>2. SubTypeOK'
    BY <1>3, <2>1 DEF SubInv, SubTypeOK, DrainEnds
  <2> QED
    BY <2>1, <2>2 DEF SubInv
<1>4. CASE PollAgain(t) \/ ParentCancels(t) \/ DeferredCleanup(t)
  <2>1. UNCHANGED <<final, status, answer, journal>>
    BY <1>4 DEF PollAgain, ParentCancels, DeferredCleanup
  <2>2. polls' \in [Tasks -> 0 .. MaxPolls + 1]
    <3>1. polls[t] \in 0 .. MaxPolls + 1
      BY DEF SubInv, SubTypeOK
    <3>2. polls[t] < MaxPolls => polls[t] + 1 \in 0 .. MaxPolls + 1
      BY <3>1, SubagentAssumption DEF SubagentAssumption
    <3>3. PICK n : n = polls[t] + 1
      OBVIOUS
    <3>4. \/ polls' = [polls EXCEPT ![t] = n] /\ polls[t] < MaxPolls
          \/ polls' = [polls EXCEPT ![t] = 0]
      BY <1>4, <3>3 DEF PollAgain, ParentCancels, DeferredCleanup
    <3> QED
      BY <1>0, <3>2, <3>3, <3>4 DEF SubInv, SubTypeOK
  <2>3. stop' \in [Tasks -> BOOLEAN]
    <3>1. PICK b \in BOOLEAN : b = (stop[t] \/ t \in registry)
      OBVIOUS
    <3>2. stop' = stop \/ stop' = [stop EXCEPT ![t] = b]
      BY <1>4, <3>1 DEF PollAgain, ParentCancels, DeferredCleanup
    <3> QED
      BY <3>2 DEF SubInv, SubTypeOK
  <2>4. SubTypeOK'
    BY <1>4, <2>1, <2>2, <2>3 DEF SubInv, SubTypeOK, PollAgain, ParentCancels, DeferredCleanup
  <2> QED
    BY <2>1, <2>4, QuietForParent DEF SubInv, PayloadFirst
<1> QED
  BY <1>1, <1>2, <1>3, <1>4 DEF Polls

LEMMA SubInitInv == SubInit => SubInv
  BY SubagentAssumption
     DEF SubInit, SubInv, SubTypeOK, PayloadFirst, TokensReachParent, Unwritten, SubagentAssumption

LEMMA SubNextInv ==
    ASSUME SubInv, [SubNext]_subVars
    PROVE  SubInv'
<1>1. CASE SubNext
  <2>1. PICK t \in Tasks :
          \/ Call(t) \/ Refuse(t) \/ StartTask(t) \/ SubmitRaises(t)
          \/ PublishStatus(t)
          \/ TimesOut(t) \/ RecordTimeout(t) \/ KillFuture(t) \/ Killed(t)
          \/ RunnerReturns(t) \/ BeginStream(t) \/ EndStream(t)
          \/ PollEnded(t) \/ PollAgain(t) \/ PollingTimesOut(t)
          \/ ParentCancels(t) \/ DrainEnds(t) \/ DeferredCleanup(t)
    BY <1>1 DEF SubNext
  <2> QED
    BY <2>1, SubCallsInv, SubResultsInv, SubPublishInv, SubRunnerInv, SubPollsInv DEF Polls
<1>2. CASE UNCHANGED subVars
  BY <1>2 DEF subVars, SubInv, SubTypeOK, PayloadFirst, TokensReachParent
<1> QED
  BY <1>1, <1>2

\* The registry of background tasks keeps its inductive invariant.
THEOREM SubInvariant == SubSpec => []SubInv
  BY SubInitInv, SubNextInv, PTL DEF SubSpec

\* A parent that is told its subagent completed has the subagent's tokens in
\* its own journal, for any number of tasks, pool workers and polls:
\* try_set_terminal writes the usage records before the status the poller
\* reads without the lock.
THEOREM SubagentTokensReported == SubSpec => []TokensReachParent
<1>1. SubInv => TokensReachParent
  BY DEF SubInv
<1> QED
  BY SubInvariant, <1>1, PTL

----------------------------------------------------------------------------
(* The memory queue                                                        *)

\* A worker in the loop has set _processing, and only the last one resets it.
MemInv ==
    /\ MemTypeOK
    /\ OneUpdater
    /\ batch # <<>> => processing

LEMMA MemInitInv == MemInit => MemInv
<1> SUFFICES ASSUME MemInit PROVE MemInv
  OBVIOUS
<1>1. <<>> \in Seq(Context) /\ <<>> \in Seq(Seq(Context)) /\ Len(<<>>) = 0
  OBVIOUS
<1>2. MemTypeOK
  <2>1. 0 \in 0 .. MaxTurns
    BY MemoryQueueBounds DEF MemoryQueueBounds
  <2> QED
    BY <1>1, <2>1 DEF MemInit, MemTypeOK
<1>3. OneUpdater
  BY <1>1 DEF MemInit, OneUpdater
<1> QED
  BY <1>2, <1>3 DEF MemInit, MemInv

\* _enqueue_locked leaves a queue of contexts.
LEMMA EnqueueTypes ==
    ASSUME MemTypeOK, NEW k \in Threads, NEW msgs \in SUBSET Message, NEW b \in BOOLEAN,
           Enqueue(k, msgs, b)
    PROVE  queue' \in Seq(Context) /\ displaced' \in [Threads -> SUBSET Message]
<1>0. Merged(k, b) \in BOOLEAN
  BY DEF Merged
<1>1. PICK c \in Context : c = [key |-> k, msgs |-> msgs, correction |-> Merged(k, b)]
  BY <1>0 DEF Context
<1>2. Kept(queue, {d \in Context : d.key # k}) \in Seq(Context)
  BY KeptProperties DEF MemTypeOK
<1>3. Append(Kept(queue, {d \in Context : d.key # k}), c) \in Seq(Context)
  BY <1>2, AppendAdds
<1>4. PICK old : old = UNION {queue[i].msgs : i \in {j \in DOMAIN queue : queue[j].key = k}}
  OBVIOUS
<1>5. \A i \in DOMAIN queue : queue[i] \in Context
  BY DEF MemTypeOK
<1>6. old \in SUBSET Message
  BY <1>4, <1>5 DEF Context
<1>7. displaced' = [displaced EXCEPT ![k] = (@ \cup old) \ msgs]
  BY <1>4 DEF Enqueue
<1> QED
  BY <1>1, <1>3, <1>6, <1>7 DEF Enqueue, MemTypeOK

LEMMA EndTurnInv ==
    ASSUME MemInv, NEW k \in Threads, NEW wrong \in BOOLEAN, EndTurn(k, wrong)
    PROVE  MemInv'
<1>1. PICK n : n = turns[k] + 1
  OBVIOUS
<1>2. n \in Message /\ n \in 0 .. MaxTurns
  <2>1. turns[k] \in 0 .. MaxTurns /\ turns[k] < MaxTurns
    BY DEF MemInv, MemTypeOK, EndTurn
  <2> QED
    BY <1>1, <2>1, MemoryQueueBounds DEF Message, MemoryQueueBounds
<1>3. /\ turns' = [turns EXCEPT ![k] = n] /\ kept' = [kept EXCEPT ![k] = @ \cup {n}]
      /\ corrections' = [corrections EXCEPT ![k] = IF wrong THEN @ \cup {n} ELSE @]
  BY <1>1 DEF EndTurn
<1>4. /\ turns' \in [Threads -> 0 .. MaxTurns] /\ kept' \in [Threads -> SUBSET Message]
      /\ corrections' \in [Threads -> SUBSET Message]
  BY <1>2, <1>3 DEF MemInv, MemTypeOK
<1>5. PICK ms \in SUBSET Message : ms = kept'[k]
  BY <1>4
<1>6. PICK b \in BOOLEAN : b = Detected(ms, corrections'[k])
  BY DEF Detected
<1>7. queue' \in Seq(Context) /\ displaced' \in [Threads -> SUBSET Message]
  <2>1. Enqueue(k, ms, b)
    BY <1>5, <1>6 DEF EndTurn
  <2> QED
    BY <2>1, EnqueueTypes DEF MemInv
<1>8. timer' = TRUE /\ UNCHANGED <<loose, fired, processing, batch, told>>
  BY DEF EndTurn
<1> QED
  BY <1>4, <1>7, <1>8 DEF MemInv, MemTypeOK, OneUpdater

LEMMA SummarizeInv ==
    ASSUME MemInv, NEW k \in Threads, Summarize(k)
    PROVE  MemInv'
<1>1. PICK cut \in kept[k] :
        LET dropped == {m \in kept[k] : m <= cut} IN
        /\ kept' = [kept EXCEPT ![k] = @ \ dropped]
        /\ Enqueue(k, dropped, Detected(dropped, corrections[k]))
  BY DEF Summarize
<1>2. timer' = TRUE /\ UNCHANGED <<turns, corrections, loose, fired, processing, batch, told>>
  BY DEF Summarize
<1>3. PICK ms \in SUBSET Message : ms = {m \in kept[k] : m <= cut}
  BY DEF MemInv, MemTypeOK
<1>4. PICK b \in BOOLEAN : b = Detected(ms, corrections[k])
  BY DEF Detected
<1>5. kept' = [kept EXCEPT ![k] = @ \ ms] /\ Enqueue(k, ms, b)
  BY <1>1, <1>3, <1>4
<1>6. kept' \in [Threads -> SUBSET Message]
  BY <1>5 DEF MemInv, MemTypeOK
<1>7. queue' \in Seq(Context) /\ displaced' \in [Threads -> SUBSET Message]
  BY <1>5, EnqueueTypes DEF MemInv
<1> QED
  BY <1>2, <1>6, <1>7 DEF MemInv, MemTypeOK, OneUpdater

LEMMA TimersInv ==
    ASSUME MemInv, Fire \/ ProcessBusy \/ ProcessNothing
    PROVE  MemInv'
<1>1. fired' \in Nat /\ loose' \in Nat
  BY DEF MemInv, MemTypeOK, Fire, ProcessBusy, ProcessNothing
<1>3. timer' \in BOOLEAN
  BY Zenon DEF MemInv, MemTypeOK, Fire, ProcessBusy, ProcessNothing
<1>2. UNCHANGED <<turns, corrections, kept, queue, processing, batch, told, displaced>>
  BY DEF Fire, ProcessBusy, ProcessNothing
<1> QED
  BY <1>1, <1>2, <1>3, Zenon DEF MemInv, MemTypeOK, OneUpdater

LEMMA TakeQueueInv ==
    ASSUME MemInv, TakeQueue
    PROVE  MemInv'
<1>1. batch = <<>> /\ processing' = TRUE /\ batch' = Append(batch, queue)
  BY DEF MemInv, TakeQueue
<1>2. batch' \in Seq(Seq(Context)) /\ Len(batch') = 1
  BY <1>1 DEF MemInv, MemTypeOK
<1>3. queue' = <<>> /\ queue' \in Seq(Context)
  BY DEF TakeQueue
<1>4. fired' \in Nat /\ loose' \in Nat
  BY DEF MemInv, MemTypeOK, TakeQueue
<1>5. MemTypeOK'
  BY <1>1, <1>2, <1>3, <1>4 DEF MemInv, MemTypeOK, TakeQueue
<1>6. OneUpdater'
  BY <1>2 DEF OneUpdater
<1> QED
  BY <1>1, <1>5, <1>6 DEF MemInv

LEMMA UpdateOneInv ==
    ASSUME MemInv, UpdateOne
    PROVE  MemInv'
<1>1. PICK w \in DOMAIN batch :
        /\ batch[w] # <<>>
        /\ LET c == Head(batch[w]) IN
           told' = IF c.correction THEN [told EXCEPT ![c.key] = @ \cup (c.msgs \cap corrections[c.key])]
                   ELSE told
        /\ batch' = [batch EXCEPT ![w] = Tail(@)]
        /\ UNCHANGED <<turns, corrections, kept, queue, timer, loose, fired, processing, displaced>>
  BY DEF UpdateOne
<1>2. batch[w] \in Seq(Context)
  BY DEF MemInv, MemTypeOK
<1>3. PICK c \in Context : c = Head(batch[w])
  BY <1>1, <1>2
<1>4. PICK rest \in Seq(Context) : rest = Tail(batch[w])
  BY <1>1, <1>2
<1>5. batch' = [batch EXCEPT ![w] = rest]
  BY <1>1, <1>4
<1>6. batch' \in Seq(Seq(Context)) /\ Len(batch') = Len(batch)
  BY <1>5 DEF MemInv, MemTypeOK
<1>7. c.key \in Threads /\ c.msgs \in SUBSET Message
  BY <1>3 DEF Context
<1>8. told' \in [Threads -> SUBSET Message]
  BY <1>1, <1>3, <1>7 DEF MemInv, MemTypeOK
<1>10. batch # <<>> /\ processing
  BY DEF MemInv, MemTypeOK
<1> QED
  BY <1>1, <1>6, <1>8, <1>10 DEF MemInv, MemTypeOK, OneUpdater

LEMMA EndBatchInv ==
    ASSUME MemInv, EndBatch
    PROVE  MemInv'
<1>1. PICK w \in DOMAIN batch :
        /\ batch' = [i \in 1 .. Len(batch) - 1 |-> batch[IF i < w THEN i ELSE i + 1]]
        /\ processing' = FALSE
        /\ UNCHANGED <<turns, corrections, kept, queue, timer, loose, fired, told, displaced>>
  BY DEF EndBatch
<1>2. Len(batch) = 1
  <2>1. PICK n \in Nat : n = Len(batch)
    BY DEF MemInv, MemTypeOK
  <2>2. w \in 1 .. n /\ n <= 1
    BY <2>1 DEF MemInv, MemTypeOK, OneUpdater
  <2> QED
    BY <2>1, <2>2
<1>3. batch' = <<>>
  BY <1>1, <1>2
<1>4. batch' \in Seq(Seq(Context)) /\ Len(batch') <= 1
  BY <1>3
<1>5. MemTypeOK'
  BY <1>1, <1>4 DEF MemInv, MemTypeOK
<1> QED
  BY <1>3, <1>4, <1>5 DEF MemInv, OneUpdater

LEMMA MemNextInv ==
    ASSUME MemInv, [MemNext]_memVars
    PROVE  MemInv'
<1>1. CASE MemNext
  BY <1>1, EndTurnInv, SummarizeInv, TimersInv, TakeQueueInv, UpdateOneInv, EndBatchInv
     DEF MemNext, Process
<1>2. CASE UNCHANGED memVars
  BY <1>2 DEF memVars, MemInv, MemTypeOK, OneUpdater
<1> QED
  BY <1>1, <1>2

\* The memory queue keeps its inductive invariant.
THEOREM MemInvariant == MemSpec => []MemInv
  BY MemInitInv, MemNextInv, PTL DEF MemSpec

\* Timers, the ones _process_queue has forgotten too, never run two updaters
\* over the memory file at once, whatever the number of threads and turns.
THEOREM OneUpdaterAtATime == MemSpec => []OneUpdater
<1>1. MemInv => OneUpdater
  BY DEF MemInv
<1> QED
  BY MemInvariant, <1>1, PTL

----------------------------------------------------------------------------
(* The circuit breaker and the loop detection                              *)

LEMMA CircuitInitType == CircuitInit => CircuitTypeOK
<1>1. 0 \in 0 .. Threshold /\ 0 \in 0 .. MaxTries
  BY CircuitAssumption DEF CircuitAssumption
<1> QED
  BY <1>1 DEF CircuitInit, CircuitTypeOK

LEMMA CircuitNextType ==
    ASSUME CircuitTypeOK, [CircuitNext]_circuitVars
    PROVE  CircuitTypeOK'
<1> USE CircuitAssumption DEF CircuitAssumption
<1>1. ASSUME NEW m \in Models, CheckCircuit(m) PROVE CircuitTypeOK'
  <2>1. 1 \in 0 .. MaxTries
    OBVIOUS
  <2>2. tries' \in [Models -> 0 .. MaxTries]
    BY <1>1, <2>1 DEF CircuitTypeOK, CheckCircuit
  <2>3. circuit' \in {"closed", "open", "half_open"} /\ failures' \in 0 .. Threshold
    BY <1>1 DEF CircuitTypeOK, CheckCircuit
  <2>4. probing' \in BOOLEAN /\ cooled' \in BOOLEAN
    BY <1>1, Zenon DEF CircuitTypeOK, CheckCircuit
  <2> QED
    BY <2>2, <2>3, <2>4 DEF CircuitTypeOK
<1>2. ASSUME NEW m \in Models, Leaves(m) PROVE tries' \in [Models -> 0 .. MaxTries]
  <2>1. 0 \in 0 .. MaxTries
    OBVIOUS
  <2> QED
    BY <1>2, <2>1 DEF CircuitTypeOK, Leaves
<1>3. ASSUME NEW m \in Models, Succeeds(m) PROVE CircuitTypeOK'
  <2>1. 0 \in 0 .. Threshold
    OBVIOUS
  <2> QED
    BY <1>2, <1>3, <2>1 DEF CircuitTypeOK, Succeeds
<1>4. ASSUME NEW m \in Models, Retries(m) PROVE CircuitTypeOK'
  <2>1. PICK n : n = tries[m] + 1
    OBVIOUS
  <2>2. n \in 0 .. MaxTries
    BY <1>4, <2>1 DEF Retries
  <2>3. tries' = [tries EXCEPT ![m] = n]
    BY <1>4, <2>1 DEF Retries
  <2> QED
    BY <1>4, <2>2, <2>3 DEF CircuitTypeOK, Retries
<1>5. ASSUME NEW m \in Models, Fails(m) PROVE CircuitTypeOK'
  <2>1. failures' \in 0 .. Threshold
    BY <1>5 DEF CircuitTypeOK, Fails
  <2>2. circuit' \in {"closed", "open", "half_open"}
    BY <1>5 DEF CircuitTypeOK, Fails
  <2>3. probing' \in BOOLEAN /\ cooled' \in BOOLEAN
    BY <1>5, Zenon DEF CircuitTypeOK, Fails
  <2> QED
    BY <1>2, <1>5, <2>1, <2>2, <2>3 DEF CircuitTypeOK, Fails
<1>6. ASSUME NEW m \in Models, BubblesUp(m) PROVE CircuitTypeOK'
  <2>1. probing' \in BOOLEAN
    BY <1>6, Zenon DEF CircuitTypeOK, BubblesUp
  <2> QED
    BY <1>2, <1>6, <2>1 DEF CircuitTypeOK, BubblesUp
<1>7. ASSUME NEW m \in Models, GivesUp(m) PROVE CircuitTypeOK'
  BY <1>2, <1>7 DEF CircuitTypeOK, GivesUp
<1>8. CASE CoolsDown
  BY <1>8 DEF CircuitTypeOK, CoolsDown
<1>9. CASE UNCHANGED circuitVars
  BY <1>9 DEF CircuitTypeOK, circuitVars
<1> QED
  BY <1>1, <1>3, <1>4, <1>5, <1>6, <1>7, <1>8, <1>9 DEF CircuitNext

\* What is tracked of a thread.
Tracking == [window : Seq(Hashes), warned : SUBSET Hashes,
             freq : [Tools -> 0 .. FreqStopAt], told : SUBSET Tools]

LEMMA UnseenType == Unseen \in Tracking
<1>1. <<>> \in Seq(Hashes)
  OBVIOUS
<1>2. [n \in Tools |-> 0] \in [Tools -> 0 .. FreqStopAt]
  BY LoopAssumption DEF LoopAssumption
<1> QED
  BY <1>1, <1>2 DEF Unseen, Tracking

\* The window slides.
LEMMA SeenType ==
    ASSUME LoopTypeOK, NEW c \in Chats, NEW h \in Hashes
    PROVE  Seen(c, h) \in Tracking
<1>1. PICK s \in Tracking : s = history[c]
  BY DEF LoopTypeOK, Tracking
<1>2. s.window \in Seq(Hashes) /\ s.warned \in SUBSET Hashes
  BY DEF Tracking
<1>3. PICK w : w = Append(s.window, h)
  OBVIOUS
<1>4. w \in Seq(Hashes) /\ w # <<>>
  BY <1>2, <1>3
<1>5. Slid(w) \in Seq(Hashes)
  BY <1>4 DEF Slid
<1>6. PICK v \in Seq(Hashes) : v = Slid(w)
  BY <1>5
<1>7. PICK W \in SUBSET Hashes : W = s.warned \cap In(v)
  BY <1>2
<1>8. Seen(c, h) = [s EXCEPT !.window = v, !.warned = W]
  BY <1>1, <1>3, <1>6, <1>7 DEF Seen
<1> QED
  BY <1>8 DEF Tracking

LEMMA VerdictType ==
    ASSUME NEW s \in Tracking, NEW h \in Hashes
    PROVE  /\ Verdict(s, h).to \in Tracking
           /\ Verdict(s, h).stop \in BOOLEAN
           /\ Verdict(s, h).warn \in SUBSET (Hashes \cup Tools)
<1>1. PICK x \in Tools : x = ToolOf(h)
  BY DEF Hashes, ToolOf
<1>2. /\ s.window \in Seq(Hashes) /\ s.warned \in SUBSET Hashes
      /\ s.freq \in [Tools -> 0 .. FreqStopAt] /\ s.told \in SUBSET Tools
  BY DEF Tracking
<1>3. PICK n \in 0 .. FreqStopAt :
        n = IF s.freq[x] < FreqStopAt THEN s.freq[x] + 1 ELSE s.freq[x]
  <2>1. s.freq[x] \in 0 .. FreqStopAt
    BY <1>2
  <2> QED
    BY <2>1, LoopAssumption DEF LoopAssumption
<1>4. PICK q \in [Tools -> 0 .. FreqStopAt] : q = [s.freq EXCEPT ![x] = n]
  BY <1>2
<1>5. Counted(s, h) = [s EXCEPT !.freq = q]
  BY <1>1, <1>2, <1>3, <1>4 DEF Counted
<1>6. PICK t \in Tracking : t = Counted(s, h)
  BY <1>5 DEF Tracking
<1>7. [s EXCEPT !.warned = @ \cup {h}] \in Tracking
  BY DEF Tracking
<1>8. [t EXCEPT !.told = @ \cup {x}] \in Tracking
  BY DEF Tracking
<1>9. CASE Times(s.window, h) >= StopAt
  <2>1. Verdict(s, h) = [to |-> s, stop |-> TRUE, warn |-> {}]
    BY <1>9, Zenon DEF Verdict
  <2> QED
    BY <2>1
<1>10. CASE ~(Times(s.window, h) >= StopAt) /\ Times(s.window, h) >= WarnAt /\ h \notin s.warned
  <2>1. Verdict(s, h) = [to |-> [s EXCEPT !.warned = @ \cup {h}], stop |-> FALSE, warn |-> {h}]
    BY <1>10, Zenon DEF Verdict
  <2> QED
    BY <1>7, <2>1
<1>11. CASE ~(Times(s.window, h) >= StopAt) /\ ~(Times(s.window, h) >= WarnAt /\ h \notin s.warned)
  <2>1. PICK most : most = (t.freq[x] >= FreqStopAt)
    OBVIOUS
  <2>2. PICK many : many = (t.freq[x] >= FreqWarnAt)
    OBVIOUS
  <2>3. most \in BOOLEAN
    BY <2>1
  <2>4. Verdict(s, h) = [to |-> IF many /\ ~most THEN [t EXCEPT !.told = @ \cup {x}] ELSE t,
                         stop |-> most,
                         warn |-> IF many THEN {x} \ s.told ELSE {}]
    BY <1>1, <1>6, <1>11, <2>1, <2>2, Zenon DEF Verdict
  <2> QED
    BY <1>8, <2>3, <2>4
<1> QED
  BY <1>9, <1>10, <1>11

LEMMA TouchedType ==
    ASSUME LoopTypeOK, NEW c \in Chats
    PROVE  /\ Touched(c) \in Seq(Chats) /\ Touched(c) # <<>>
           /\ Len(Touched(c)) <= MaxChats + 1
           /\ Overflow(c) \subseteq Chats
<1>0. MaxChats \in Nat
  BY LoopAssumption DEF LoopAssumption
<1>1. PICK k : k = Kept(lru, Chats \ {c})
  OBVIOUS
<1>2. k \in Seq(Chats) /\ Len(k) <= Len(lru) /\ Len(lru) \in Nat /\ Len(lru) <= MaxChats
  BY <1>1, KeptProperties DEF LoopTypeOK
<1>3. Len(k) \in Nat
  BY <1>2
<1>4. PICK s : s = Append(k, c)
  OBVIOUS
<1>5. s \in Seq(Chats) /\ Len(s) = Len(k) + 1 /\ s # <<>>
  BY <1>2, <1>4
<1>6. Touched(c) = s
  BY <1>1, <1>4 DEF Touched
<1>7. Len(s) <= MaxChats + 1
  BY <1>0, <1>2, <1>3, <1>5
<1>8. Head(s) \in Chats
  BY <1>5
<1> QED
  BY <1>5, <1>6, <1>7, <1>8 DEF Overflow

LEMMA LoopInitType == LoopInit => LoopTypeOK
<1>1. <<>> \in Seq(Chats) /\ Len(<<>>) <= MaxChats
  BY LoopAssumption DEF LoopAssumption
<1> QED
  BY <1>1, UnseenType DEF LoopInit, LoopTypeOK, Tracking

\* after_model tracks the call, evicts a thread at the most, and leaves no more
\* than max_tracked_threads of them.
LEMMA CallsToolType ==
    ASSUME LoopTypeOK, NEW c \in Chats, NEW h \in Hashes, CallsTool(c, h)
    PROVE  LoopTypeOK'
<1>1. PICK s \in Tracking : s = Seen(c, h)
  BY SeenType
<1>2. PICK v : v = Verdict(s, h)
  OBVIOUS
<1>3. v.to \in Tracking /\ v.stop \in BOOLEAN /\ v.warn \in SUBSET (Hashes \cup Tools)
  BY <1>2, VerdictType
<1>4. PICK out \in SUBSET Chats : out = Overflow(c)
  BY TouchedType
<1>5. /\ agent' = [agent EXCEPT ![c] = IF v.stop THEN "off" ELSE "tools"]
      /\ history' = [d \in Chats |-> IF d \in out THEN Unseen ELSE
                                     IF d = c THEN v.to ELSE history[d]]
      /\ lru' = IF out = {} THEN Touched(c) ELSE Tail(Touched(c))
      /\ pending' = [d \in Chats |-> IF d \in out \/ (v.stop /\ d = c) THEN {} ELSE
                                     IF d = c THEN v.warn ELSE pending[d]]
      /\ evicted' = out
  BY <1>1, <1>2, <1>4, Zenon DEF CallsTool
<1>6. history' \in [Chats -> Tracking]
  BY <1>3, <1>5, UnseenType DEF LoopTypeOK, Tracking
<1>7. pending' \in [Chats -> SUBSET (Hashes \cup Tools)]
  BY <1>3, <1>5 DEF LoopTypeOK
<1>8. agent' \in [Chats -> {"off", "model", "tools"}]
  BY <1>5 DEF LoopTypeOK
<1>9. lru' \in Seq(Chats) /\ Len(lru') <= MaxChats
  <2>0. MaxChats \in Nat
    BY LoopAssumption DEF LoopAssumption
  <2>1. PICK t \in Seq(Chats) : t = Touched(c)
    BY TouchedType
  <2>2. t # <<>> /\ Len(t) <= MaxChats + 1 /\ Len(t) \in Nat
    BY <2>1, TouchedType
  <2>3. CASE out = {}
    <3>1. Overflow(c) = {}
      BY <1>4, <2>3
    <3>2. ~(Len(t) > MaxChats)
      BY <2>1, <3>1 DEF Overflow
    <3>3. Len(t) <= MaxChats
      BY <2>0, <2>2, <3>2
    <3> QED
      BY <1>5, <2>1, <2>3, <3>3
  <2>4. CASE out # {}
    <3>1. Tail(t) \in Seq(Chats) /\ Len(Tail(t)) = Len(t) - 1
      BY <2>2
    <3>2. Len(Tail(t)) <= MaxChats
      BY <2>0, <2>2, <3>1
    <3> QED
      BY <1>5, <2>1, <2>4, <3>1, <3>2
  <2> QED
    BY <2>3, <2>4
<1> QED
  BY <1>4, <1>5, <1>6, <1>7, <1>8, <1>9 DEF LoopTypeOK, Tracking

LEMMA LoopNextType ==
    ASSUME LoopTypeOK, [LoopNext]_loopVars
    PROVE  LoopTypeOK'
<1>1. ASSUME NEW c \in Chats, BeforeAgent(c) \/ Answers(c) \/ ToolsDone(c)
      PROVE  LoopTypeOK'
  <2>1. UNCHANGED <<history, lru>> /\ evicted' \subseteq Chats
    BY <1>1 DEF BeforeAgent, Answers, ToolsDone
  <2>2. /\ agent' \in [Chats -> {"off", "model", "tools"}]
        /\ pending' \in [Chats -> SUBSET (Hashes \cup Tools)]
    BY <1>1 DEF LoopTypeOK, BeforeAgent, Answers, ToolsDone
  <2> QED
    BY <2>1, <2>2 DEF LoopTypeOK
<1>2. CASE UNCHANGED loopVars
  BY <1>2 DEF LoopTypeOK, loopVars
<1> QED
  BY <1>1, <1>2, CallsToolType DEF LoopNext, Goes

----------------------------------------------------------------------------
(* The components together                                                 *)

\* Every component keeps its own invariant: only the one in focus moves, and
\* they share no variable.
CallsInv ==
    /\ ChainInv
    /\ IdemInv /\ AnswersOwnBody
    /\ CircuitTypeOK
    /\ LoopTypeOK
    /\ SubInv
    /\ MemInv

LEMMA CallsSteps ==
    [CallsNext]_callsVars => /\ [Next]_chainVars /\ [IdemNext]_idemVars
                             /\ [CircuitNext]_circuitVars /\ [LoopNext]_loopVars
                             /\ [SubNext]_subVars /\ [MemNext]_memVars
<1>1. CASE UNCHANGED callsVars
  BY <1>1, Zenon DEF callsVars
<1>2. CASE CallsNext
  BY <1>2, Zenon DEF CallsNext
<1> QED
  BY <1>1, <1>2

\* CallsInvariant holds in every reachable state of the system the run checks, for
\* every bound: the types of the chain, of the keyed requests, of the circuit
\* breaker, of the loop detection (which tracks at most max_tracked_threads
\* threads), of the subagents and of the memory queue; a keyed request is
\* answered with the response to its own body; and one updater at a time.
THEOREM CallsAreSafe == CallsSpec => []CallsInvariant
<1>1. CallsInit => CallsInv
  BY ChainInitInv, IdemInitInv, OwnBodyInit, CircuitInitType, LoopInitType, SubInitInv, MemInitInv
     DEF CallsInit, CallsInv
<1>2. CallsInv /\ [CallsNext]_callsVars => CallsInv'
  BY CallsSteps, ChainNextInv, IdemNextInv, OwnBodyNext, CircuitNextType, LoopNextType, SubNextInv,
     MemNextInv DEF CallsInv
<1>3. CallsInv => CallsInvariant
  BY DEF CallsInv, CallsInvariant, ChainInv, IdemInv, SubInv, MemInv
<1> QED
  BY <1>1, <1>2, <1>3, PTL DEF CallsSpec

=============================================================================
