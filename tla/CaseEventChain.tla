--------------------------- MODULE CaseEventChain ---------------------------
(***************************************************************************)
(* append_event and verify_event_chain (app/after_sales/repository.py):    *)
(* concurrent calls extend the hash chain of one case.  A call reads the   *)
(* last row, computes the next sequence number and hash from it and        *)
(* inserts; other calls run in between.  UNIQUE(case_id, seq) makes the    *)
(* loser of a race fail, back off, and read again.                         *)
(***************************************************************************)
EXTENDS Integers, Sequences, FiniteSets

CONSTANTS
    Calls,         \* append_event calls, each with an event of its own
    MaxAttempts    \* _MAX_APPEND_ATTEMPTS

ASSUME ChainAssumption == MaxAttempts \in Nat \ {0}

VARIABLES
    rows,      \* case_events of the case
    last,      \* last[w]: what call w read; the empty chain's is Root
    pc,
    attempt    \* attempt[w]: the loop variable

chainVars == <<rows, last, pc, attempt>>

\* The hash of a row covers the hash before it and the event; a collision-free
\* stand-in for it is the list of all events so far.
Digest(prev, e) == Append(prev, e)

Root == [seq |-> 0, hash |-> <<>>]

Init ==
    /\ rows = {}
    /\ last = [w \in Calls |-> Root]
    /\ pc = [w \in Calls |-> "read"]
    /\ attempt = [w \in Calls |-> 0]

\* SELECT ... ORDER BY seq DESC LIMIT 1
IsLast(row) == \A other \in rows : other.seq <= row.seq

ReadLast(w) ==
    /\ pc[w] = "read"
    /\ \/ rows = {} /\ last' = [last EXCEPT ![w] = Root]
       \/ \E row \in rows :
             /\ IsLast(row)
             /\ last' = [last EXCEPT ![w] = [seq |-> row.seq, hash |-> row.hash]]
    /\ pc' = [pc EXCEPT ![w] = "insert"]
    /\ UNCHANGED <<rows, attempt>>

NewRow(w) == [seq |-> last[w].seq + 1, prev |-> last[w].hash,
              hash |-> Digest(last[w].hash, w), event |-> w]

\* Mutant of SeqFree: no UNIQUE constraint.
SeqAlwaysFree(n) == TRUE

SeqFree(n) == \A row \in rows : row.seq # n

Insert(w) ==
    /\ pc[w] = "insert"
    /\ SeqFree(last[w].seq + 1)
    /\ rows' = rows \cup {NewRow(w)}
    /\ pc' = [pc EXCEPT ![w] = "done"]
    /\ UNCHANGED <<last, attempt>>

OutOfRetries(w) == attempt[w] = MaxAttempts - 1

\* Mutant of Collide: the insert is tried again with the stale sequence number.
CollideStale(w) ==
    /\ pc[w] = "insert"
    /\ ~SeqFree(last[w].seq + 1)
    /\ UNCHANGED chainVars

\* IntegrityError: back off and read again, or give up.
Collide(w) ==
    /\ pc[w] = "insert"
    /\ ~SeqFree(last[w].seq + 1)
    /\ IF OutOfRetries(w)
         THEN pc' = [pc EXCEPT ![w] = "failed"] /\ UNCHANGED attempt
         ELSE /\ pc' = [pc EXCEPT ![w] = "read"]
              /\ attempt' = [attempt EXCEPT ![w] = @ + 1]
    /\ UNCHANGED <<rows, last>>

AllEnded == \A w \in Calls : pc[w] \in {"done", "failed"}

Next ==
    \/ \E w \in Calls : ReadLast(w) \/ Insert(w) \/ Collide(w)
    \/ AllEnded /\ UNCHANGED chainVars

Spec == Init /\ [][Next]_chainVars

\* Each call runs in a task of its own, which the event loop resumes.
Proceeds(w) == ReadLast(w) \/ Insert(w) \/ Collide(w)

FairSpec == Spec /\ \A w \in Calls : WF_chainVars(Proceeds(w))

-----------------------------------------------------------------------------
(* verify_event_chain                                                      *)

\* Mutant of RowVerifies: only the links are checked.
LinkVerifies(row, prev) == row.prev = prev

RowVerifies(row, prev) == row.prev = prev /\ row.hash = Digest(prev, row.event)

\* Rows in the order of seq; the hash before a row is the hash of the row that
\* comes next below it.
Below(S, row) == {other \in S : other.seq < row.seq}
HashBefore(S, row) ==
    IF Below(S, row) = {} THEN <<>>
    ELSE (CHOOSE b \in Below(S, row) : \A c \in Below(S, row) : c.seq <= b.seq).hash

Verify(S) == \A row \in S : RowVerifies(row, HashBefore(S, row))

-----------------------------------------------------------------------------
(* Properties                                                              *)

ChainTypeOK ==
    /\ rows \subseteq [seq : Nat \ {0}, prev : Seq(Calls), hash : Seq(Calls), event : Calls]
    /\ last \in [Calls -> [seq : Nat, hash : Seq(Calls)]]
    /\ pc \in [Calls -> {"read", "insert", "done", "failed"}]
    /\ attempt \in [Calls -> 0..(MaxAttempts - 1)]

\* The chain never forks and never has a gap: sequence numbers are 1 to n, each
\* of one row, and each row continues the hash of the row one below it.
Linear ==
    /\ \A r, s \in rows : r.seq = s.seq => r = s
    /\ \A r \in rows :
          /\ r.hash = Digest(r.prev, r.event)
          /\ IF r.seq = 1 THEN r.prev = <<>>
                          ELSE \E s \in rows : s.seq = r.seq - 1 /\ s.hash = r.prev

\* verify_event_chain accepts what append_event wrote, and no longer does when
\* the event of any one row is replaced by another.
TamperEvident ==
    /\ Verify(rows)
    /\ \A r \in rows, e \in Calls :
          e # r.event => ~Verify((rows \ {r}) \cup {[r EXCEPT !.event = e]})

\* A call that reported success is in the chain, once; one that has not is not.
DoneIsRecorded ==
    \A w \in Calls : /\ pc[w] = "done" <=> \E r \in rows : r.event = w
                     /\ \A r, s \in rows : r.event = s.event => r = s

\* The chain is the log: at each position the events with that sequence number,
\* of which there is one.
Trail == INSTANCE AuditLog
         WITH Entries <- {{w} : w \in Calls},
              log <- [n \in 1..Cardinality(rows) |->
                        {r.event : r \in {s \in rows : s.seq = n}}]

KeepsLog == Trail!LogSpec

\* Every append_event call that has read the end of the chain returns or raises,
\* however many other calls get in before it.
EveryCallEnds == \A w \in Calls : pc[w] = "insert" ~> pc[w] \in {"done", "failed"}

=============================================================================
