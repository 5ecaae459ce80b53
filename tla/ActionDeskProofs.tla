-------------------------- MODULE ActionDeskProofs --------------------------
(***************************************************************************)
(* Proofs about ActionDesk, for every set of orders, cases, operators,     *)
(* plans, action ids and requests, every clock and any number of faults.   *)
(*                                                                         *)
(* A request acts on a copy of a row that others rewrite meanwhile.  The   *)
(* inductive invariant DeskInv says what a copy still tells about the row: *)
(* Copy while a request only reads it, Writable once it has computed the   *)
(* row it is going to save.  Both survive every write by another request,  *)
(* because every write that lands is a RowStep.                            *)
(*                                                                         *)
(* BooksInv adds what the money of an order depends on: one row per key,   *)
(* no case that changes its order, and what the signatures of a row tell   *)
(* about its funds.  With it, OwnedInv and FundedInv bound the reserved    *)
(* pool from above and from below by two sums, over the rows and over the  *)
(* requests that have reserved and not stored yet.                         *)
(***************************************************************************)
EXTENDS MCActionDesk, FilterProofs, FiniteSetTheorems, TLAPS

Receipted(a) ==
    IF a.type = "refund" THEN Ledger!Paid(Key(a)) ELSE Key(a) \in outbound

\* What holds of every row, stored or about to be.
RowOK(a) ==
    /\ SignedByOthers(a)
    /\ a.status \in {"approved", "completed"} => FullySigned(a)
    /\ a.status = "completed" => Receipted(a)

\* a was read from row i some time ago.
Copy(i, a) ==
    /\ i \in DOMAIN actions /\ a \in Rows
    /\ RowOK(a)
    /\ SameContract(a, actions[i])
    /\ a.version <= actions[i].version
    /\ a.version = actions[i].version =>
          a.status = actions[i].status /\ a.signers = actions[i].signers
    /\ Len(a.signers) <= Len(actions[i].signers)

\* n is to be saved over row i if its version is still e.
Writable(i, e, n) ==
    /\ i \in DOMAIN actions /\ n \in Rows
    /\ RowOK(n)
    /\ e <= actions[i].version
    /\ actions[i].version = e => RowStep(actions[i], n)

\* What request r knows at label l with memory m.
HeldAs(r, l, m) ==
    /\ l = "readCase" => Kind[r] \in DeskKinds
    /\ l = "decide" => Kind[r] \in DeskKinds \cup {"create"}
    /\ l \in {"readCase", "decide"} /\ Kind[r] \in DeskKinds => Copy(m.aid, m.act)
    /\ l = "insert" => Kind[r] = "create" /\ m.act \in Rows /\ RowOK(m.act)
    /\ l = "refresh" => Kind[r] = "create" /\ m.act \in Rows /\ m.aid \in DOMAIN actions
    /\ l \in {"list", "clear", "event2"} => Kind[r] = "supplement"
    /\ l \in {"save", "clear"} => Kind[r] # "create" /\ Writable(m.aid, m.expected, m.act)
    /\ l = "reread" => /\ Kind[r] \in DeskKinds \cup {"supplement"}
                       /\ m.act \in Rows /\ m.aid \in DOMAIN actions
    /\ l \in {"updateCase", "event", "event2"} =>
          Kind[r] # "reap" /\ (Kind[r] # "supplement" => m.act \in Rows)
    /\ l = "next" => Kind[r] = "reap"
    /\ Kind[r] # "reap" /\ l \notin Ended \cup {"idle", "readCase"} =>
          m.cid \in Cases /\ m.cas \in CaseRows
    /\ \A b \in m.batch : Copy(b.aid, b.act)

HeldOK == \A r \in Requests : HeldAs(r, pc[r], mem[r])

RowsOK == \A i \in DOMAIN actions : RowOK(actions[i])

\* The inductive invariant.
DeskInv == TypeOK /\ RowsOK /\ MovedWasSigned /\ HeldOK

\* What a step of any request does to the rows, receipts and shipments.
Grows ==
    /\ DOMAIN actions \subseteq DOMAIN actions'
    /\ \A i \in DOMAIN actions :
          actions'[i] = actions[i] \/ RowStep(actions[i], actions'[i])
    /\ transactions \subseteq transactions'
    /\ outbound \subseteq outbound'

-----------------------------------------------------------------------------
(* Rows                                                                    *)

\* Nothing a row may do takes a signature away.
LEMMA RowStepSigners ==
  ASSUME NEW a \in Rows, NEW b \in Rows, RowStep(a, b)
  PROVE  Len(a.signers) <= Len(b.signers) /\ (FullySigned(a) => FullySigned(b))
  <1>1. a.signers \in Seq(Users) /\ b.signers \in Seq(Users) /\ a.need \in {1, 2}
    BY DEF Rows
  <1>2. Len(a.signers) <= Len(b.signers)
    <2>1. CASE \E u \in Admins : b.signers = Append(a.signers, u)
      BY <2>1, <1>1, DeskAssumption DEF DeskAssumption
    <2>2. CASE b.signers = a.signers
      BY <2>2, <1>1
    <2> QED BY <2>1, <2>2 DEF RowStep
  <1> QED BY <1>1, <1>2 DEF FullySigned, RowStep, SameContract

\* Versions never go back, and a write that leaves the version alone leaves the
\* status and the signatures alone.
LEMMA RowStepVersion ==
  ASSUME NEW a \in Rows, NEW b \in Rows, RowStep(a, b)
  PROVE  /\ a.version <= b.version
         /\ b.version = a.version => b.status = a.status /\ b.signers = a.signers
  BY DEF RowStep, Rows

LEMMA RowOKStable ==
  ASSUME NEW a, RowOK(a), Grows
  PROVE  RowOK(a)'
  <1>1. Receipted(a) => Receipted(a)'
    BY DEF Receipted, Grows, Ledger!Paid, Key
  <1> QED BY <1>1 DEF RowOK, SignedByOthers, FullySigned

LEMMA CopyStable ==
  ASSUME TypeOK, TypeOK', Grows, NEW i, NEW a, Copy(i, a)
  PROVE  Copy(i, a)'
  <1> DEFINE row == actions[i]
             row2 == actions'[i]
  <1>1. i \in DOMAIN actions /\ i \in DOMAIN actions' /\ a \in Rows
    BY DEF Copy, Grows
  <1>2. row \in Rows /\ row2 \in Rows
    BY <1>1 DEF TypeOK
  <1>3. RowOK(a)'
    BY RowOKStable DEF Copy
  <1>4. CASE row2 = row
    BY <1>1, <1>3, <1>4 DEF Copy
  <1>5. CASE RowStep(row, row2)
    <2>1. SameContract(a, row2)
      BY <1>5 DEF Copy, RowStep, SameContract
    <2>2. /\ row.version <= row2.version
          /\ row2.version = row.version => row2.status = row.status /\ row2.signers = row.signers
      BY <1>2, <1>5, RowStepVersion
    <2>3. Len(row.signers) <= Len(row2.signers)
      BY <1>2, <1>5, RowStepSigners
    <2>4. /\ a.version \in Nat /\ row.version \in Nat /\ row2.version \in Nat
          /\ Len(a.signers) \in Nat /\ Len(row.signers) \in Nat /\ Len(row2.signers) \in Nat
      BY <1>1, <1>2 DEF Rows
    <2> QED BY <1>1, <1>3, <2>1, <2>2, <2>3, <2>4 DEF Copy
  <1> QED BY <1>1, <1>4, <1>5 DEF Grows

LEMMA WritableStable ==
  ASSUME TypeOK, TypeOK', Grows, NEW i, NEW e \in Nat, NEW n, Writable(i, e, n)
  PROVE  Writable(i, e, n)'
  <1> DEFINE row == actions[i]
             row2 == actions'[i]
  <1>1. i \in DOMAIN actions /\ i \in DOMAIN actions' /\ n \in Rows
    BY DEF Writable, Grows
  <1>2. row \in Rows /\ row2 \in Rows
    BY <1>1 DEF TypeOK
  <1>3. RowOK(n)'
    BY RowOKStable DEF Writable
  <1>4. CASE row2 = row
    BY <1>1, <1>3, <1>4 DEF Writable
  <1>5. CASE RowStep(row, row2)
    <2>1. row.version \in Nat /\ row2.version \in Nat
      BY <1>2 DEF Rows
    <2>2. /\ row.version <= row2.version
          /\ row2.version = row.version => row2.status = row.status /\ row2.signers = row.signers
      BY <1>2, <1>5, RowStepVersion
    <2>3. e <= row2.version
      BY <2>1, <2>2 DEF Writable
    <2>4. ASSUME row2.version = e PROVE RowStep(row2, n)
      <3>1. row.version = e
        BY <2>1, <2>2, <2>4 DEF Writable
      <3>2. RowStep(row, n) /\ row2.status = row.status /\ row2.signers = row.signers
        BY <2>2, <2>4, <3>1 DEF Writable
      <3>3. SameContract(row, row2)
        BY <1>5 DEF RowStep
      <3> QED BY <2>4, <3>1, <3>2, <3>3 DEF RowStep, SameContract
    <2> QED BY <1>1, <1>3, <2>3, <2>4 DEF Writable
  <1> QED BY <1>1, <1>4, <1>5 DEF Grows

-----------------------------------------------------------------------------
(* Requests                                                                *)

\* What a request knows survives the steps of the others.
LEMMA HeldStable ==
  ASSUME TypeOK, TypeOK', Grows, NEW r \in Requests, NEW l, NEW m \in Memory, HeldAs(r, l, m)
  PROVE  HeldAs(r, l, m)'
  <1>1. m.expected \in Nat
    BY DEF Memory
  <1>2. DOMAIN actions \subseteq DOMAIN actions'
    BY DEF Grows
  <1>3. Copy(m.aid, m.act) => Copy(m.aid, m.act)'
    BY CopyStable
  <1>4. Writable(m.aid, m.expected, m.act) => Writable(m.aid, m.expected, m.act)'
    BY <1>1, WritableStable
  <1>5. RowOK(m.act) => RowOK(m.act)'
    BY RowOKStable
  <1>6. ASSUME NEW b \in m.batch PROVE Copy(b.aid, b.act)'
    BY CopyStable DEF HeldAs
  <1> QED BY <1>2, <1>3, <1>4, <1>5, <1>6 DEF HeldAs

\* Only request r moves, to label l with memory m.
Moves(r, l, m) ==
    /\ pc' \in [Requests -> Labels] /\ mem' \in [Requests -> Memory]
    /\ pc'[r] = l /\ mem'[r] = m
    /\ \A q \in Requests \ {r} : pc'[q] = pc[q] /\ mem'[q] = mem[q]

LEMMA GotoMoves ==
  ASSUME TypeOK, NEW r \in Requests, NEW l \in Labels, Goto(r, l)
  PROVE  /\ UNCHANGED mem => Moves(r, l, mem[r])
         /\ \A m \in Memory : mem' = [mem EXCEPT ![r] = m] => Moves(r, l, m)
  BY DEF TypeOK, Goto, Moves

LEMMA BlankHeld ==
  ASSUME NEW r \in Requests, NEW l \in Ended
  PROVE  Blank \in Memory /\ HeldAs(r, l, Blank)
  BY DEF Blank, Memory, HeldAs, Ended

LEMMA EndMoves ==
  ASSUME TypeOK, NEW r \in Requests, NEW l \in Ended, End(r, l)
  PROVE  Moves(r, l, Blank)
  BY BlankHeld, GotoMoves DEF End, Ended, Labels

\* Types of all but the requests' own state.
SharedTypeOK ==
    /\ available \in [Orders -> Nat] /\ reserved \in [Orders -> Nat]
    /\ transactions \subseteq [key : PaymentKeys, order : Orders, amount : Amounts]
    /\ captured \in [Orders -> Nat]
    /\ stock \in Nat /\ outbound \subseteq PaymentKeys
    /\ cases \in [Cases -> CaseRows]
    /\ DOMAIN actions \subseteq ActionIds /\ actions \in [DOMAIN actions -> Rows]
    /\ events \subseteq Events
    /\ now \in Nat /\ faults \in Nat

\* A payment key that was moved stays backed by its row.
LEMMA MovedStable ==
  ASSUME TypeOK, TypeOK', Grows, RowsOK', NEW i \in DOMAIN actions, FullySigned(actions[i])
  PROVE  /\ i \in DOMAIN actions' /\ Key(actions'[i]) = Key(actions[i])
         /\ FullySigned(actions'[i]) /\ SignedByOthers(actions'[i])
  <1>1. i \in DOMAIN actions' /\ actions[i] \in Rows /\ actions'[i] \in Rows
    BY DEF TypeOK, Grows
  <1>2. FullySigned(actions'[i])
    BY <1>1, RowStepSigners DEF Grows
  <1>3. Key(actions'[i]) = Key(actions[i])
    BY DEF Grows, RowStep, SameContract, Key
  <1>4. SignedByOthers(actions'[i])
    BY <1>1 DEF RowsOK, RowOK, SignedByOthers
  <1> QED BY <1>1, <1>2, <1>3, <1>4

\* A step of r preserves the invariant if it only grows what is stored and r
\* knows enough where it arrives.
LEMMA StepKeeps ==
  ASSUME DeskInv, SharedTypeOK', Grows, RowsOK',
         NEW r \in Requests, NEW l, NEW m, Moves(r, l, m), HeldAs(r, l, m)',
         \A k \in ({t.key : t \in transactions'} \cup outbound')
                     \ ({t.key : t \in transactions} \cup outbound) :
             \E i \in DOMAIN actions : Key(actions[i]) = k /\ FullySigned(actions[i])
  PROVE  DeskInv'
  <1>1. TypeOK'
    BY DEF SharedTypeOK, Moves, TypeOK
  <1>2. HeldOK'
    <2> SUFFICES ASSUME NEW q \in Requests PROVE HeldAs(q, pc[q], mem[q])'
      BY DEF HeldOK
    <2>1. CASE q = r
      BY <2>1 DEF Moves
    <2>2. CASE q # r
      <3>1. PICK lq, mq : lq = pc[q] /\ mq = mem[q]
        OBVIOUS
      <3>2. HeldAs(q, lq, mq) /\ mq \in Memory /\ TypeOK
        BY <3>1 DEF DeskInv, HeldOK, TypeOK
      <3>3. HeldAs(q, lq, mq)'
        BY <1>1, <3>2, HeldStable
      <3>4. lq = pc'[q] /\ mq = mem'[q]
        BY <2>2, <3>1 DEF Moves
      <3> QED BY <3>3, <3>4
    <2> QED BY <2>1, <2>2
  <1>3. MovedWasSigned'
    <2> SUFFICES ASSUME NEW k \in {t.key : t \in transactions'} \cup outbound'
                 PROVE  \E i \in DOMAIN actions' :
                           /\ Key(actions'[i]) = k
                           /\ FullySigned(actions'[i]) /\ SignedByOthers(actions'[i])
      BY DEF MovedWasSigned, FullySigned, SignedByOthers, Key
    <2>1. PICK i \in DOMAIN actions : Key(actions[i]) = k /\ FullySigned(actions[i])
      BY DEF DeskInv, MovedWasSigned
    <2> QED BY <1>1, <2>1, MovedStable DEF DeskInv
  <1> QED BY <1>1, <1>2, <1>3 DEF DeskInv

LEMMA RowsSame ==
  ASSUME RowsOK, Grows, UNCHANGED actions
  PROVE  RowsOK'
  <1> SUFFICES ASSUME NEW i \in DOMAIN actions PROVE RowOK(actions[i])'
    BY DEF RowsOK
  <1>1. PICK a : a = actions[i] /\ a = actions'[i]
    OBVIOUS
  <1>2. RowOK(a)'
    BY <1>1, RowOKStable DEF RowsOK
  <1> QED BY <1>1, <1>2

\* A step that leaves rows, receipts and shipments alone.
LEMMA QuietKeeps ==
  ASSUME DeskInv, SharedTypeOK', UNCHANGED <<actions, transactions, outbound>>,
         NEW r \in Requests, NEW l, NEW m, Moves(r, l, m), HeldAs(r, l, m)
  PROVE  DeskInv'
  <1>1. Grows
    BY DEF Grows
  <1>2. RowsOK'
    BY <1>1, RowsSame DEF DeskInv
  <1>3. TypeOK /\ TypeOK' /\ m \in Memory
    BY DEF DeskInv, SharedTypeOK, Moves, TypeOK
  <1>4. HeldAs(r, l, m)'
    BY <1>1, <1>3, HeldStable
  <1> QED BY <1>1, <1>2, <1>4, StepKeeps

-----------------------------------------------------------------------------
(* The payment adapter, as the desk calls it                               *)

PoolsTypeOK ==
    /\ available \in [Orders -> Nat] /\ reserved \in [Orders -> Nat]
    /\ transactions \subseteq [key : PaymentKeys, order : Orders, amount : Amounts]
    /\ captured \in [Orders -> Nat]

LEMMA AmountsPositive == Amounts \subseteq Nat \ {0}
  BY DeskAssumption DEF DeskAssumption, Amounts, PlanShape

LEMMA KeyOfRow == ASSUME NEW a \in Rows PROVE Key(a) \in PaymentKeys
  BY DEF Rows, Key, PaymentKeys

LEMMA ReserveTypes ==
  ASSUME TypeOK, NEW o \in Orders, NEW n \in Amounts, Ledger!Reserve(o, n)
  PROVE  PoolsTypeOK' /\ UNCHANGED transactions
  BY AmountsPositive DEF TypeOK, PoolsTypeOK, Ledger!Reserve, Ledger!CanReserve

LEMMA ReleaseTypes ==
  ASSUME TypeOK, NEW o \in Orders, NEW n \in Amounts, Ledger!Release(o, n)
  PROVE  PoolsTypeOK' /\ UNCHANGED transactions
  BY AmountsPositive DEF TypeOK, PoolsTypeOK, Ledger!Release, Ledger!Released

LEMMA CaptureTypes ==
  ASSUME TypeOK, NEW o \in Orders, NEW n \in Amounts, NEW k \in PaymentKeys,
         Ledger!Capture(o, n, k)
  PROVE  /\ PoolsTypeOK'
         /\ transactions' = transactions \cup {[key |-> k, order |-> o, amount |-> n]}
  BY AmountsPositive DEF TypeOK, PoolsTypeOK, Ledger!Capture, Ledger!CanCapture

LEMMA NoCallTypes == TypeOK /\ UNCHANGED ledger => PoolsTypeOK' /\ UNCHANGED transactions
  BY DEF TypeOK, PoolsTypeOK, ledger

\* An aborted request has given its own reservation back, or nothing.
LEMMA AbortKeeps ==
  ASSUME DeskInv, NEW r \in Requests, InFlight(r), Abort(r),
         UNCHANGED <<warehouse, cases, actions, events, now>>, faults' \in Nat
  PROVE  DeskInv'
  <1>1. TypeOK /\ HeldAs(r, pc[r], mem[r])
    BY DEF DeskInv, HeldOK
  <1>2. PoolsTypeOK' /\ UNCHANGED transactions
    <2>1. CASE Guarded(r)
      <3>1. mem[r].cas \in CaseRows /\ mem[r].act \in Rows
        BY <1>1, <2>1 DEF Guarded, HeldAs, Ended, Writable
      <3>2. mem[r].cas.order \in Orders /\ mem[r].act.amount \in Amounts
        BY <3>1 DEF CaseRows, Rows
      <3> QED BY <1>1, <3>2, ReleaseTypes, NoCallTypes DEF Abort
    <2>2. CASE ~Guarded(r)
      BY <1>1, <2>2, NoCallTypes DEF Abort
    <2> QED BY <2>1, <2>2
  <1>3. SharedTypeOK'
    BY <1>1, <1>2 DEF TypeOK, PoolsTypeOK, SharedTypeOK, warehouse
  <1>4. Moves(r, "failed", Blank) /\ HeldAs(r, "failed", Blank)
    BY <1>1, EndMoves, BlankHeld DEF Abort, Ended
  <1> QED BY <1>2, <1>3, <1>4, QuietKeeps DEF warehouse

\* A request that ends with nothing else to do.
LEMMA EndKeeps ==
  ASSUME DeskInv, NEW r \in Requests, NEW l \in Ended, End(r, l),
         UNCHANGED <<ledger, warehouse, actions, now, faults>>,
         cases' \in [Cases -> CaseRows], events' \subseteq Events
  PROVE  DeskInv'
  <1>1. TypeOK /\ Moves(r, l, Blank) /\ HeldAs(r, l, Blank)
    BY EndMoves, BlankHeld DEF DeskInv
  <1>2. SharedTypeOK'
    BY <1>1 DEF TypeOK, SharedTypeOK, ledger, warehouse
  <1> QED BY <1>1, <1>2, QuietKeeps DEF ledger, warehouse

-----------------------------------------------------------------------------
(* One lemma per action: reads                                             *)

\* A row just read is a copy of itself.
LEMMA FreshCopy ==
  ASSUME DeskInv, NEW i \in DOMAIN actions
  PROVE  Copy(i, actions[i]) /\ actions[i] \in Rows /\ i \in ActionIds
  <1>1. actions[i] \in Rows /\ i \in ActionIds /\ RowOK(actions[i])
    BY DEF DeskInv, TypeOK, RowsOK
  <1>2. actions[i].version \in Nat /\ Len(actions[i].signers) \in Nat
    BY <1>1 DEF Rows
  <1> QED BY <1>1, <1>2 DEF Copy, SameContract

\* The shared part of a step that touches no shared state.
LEMMA SharedSame ==
  ASSUME DeskInv, UNCHANGED <<ledger, warehouse, cases, actions, events, now, faults>>
  PROVE  SharedTypeOK' /\ UNCHANGED <<actions, transactions, outbound>>
  BY DEF DeskInv, TypeOK, SharedTypeOK, ledger, warehouse

LEMMA ReadActionKeeps ==
  ASSUME DeskInv, NEW r \in Requests, ReadAction(r)
  PROVE  DeskInv'
  <1>1. PICK i \in DOMAIN actions :
           mem' = [mem EXCEPT ![r] = [Blank EXCEPT !.aid = i, !.act = actions[i]]]
    BY DEF ReadAction
  <1> DEFINE m == [Blank EXCEPT !.aid = i, !.act = actions[i]]
  <1>2. Copy(i, actions[i]) /\ actions[i] \in Rows /\ i \in ActionIds
    BY FreshCopy
  <1>3. m \in Memory /\ m.aid = i /\ m.act = actions[i] /\ m.batch = {}
    BY <1>2 DEF Blank, Memory
  <1>4. Moves(r, "readCase", m)
    BY <1>1, <1>3, GotoMoves DEF ReadAction, Labels, DeskInv
  <1>5. HeldAs(r, "readCase", m)
    BY <1>2, <1>3 DEF HeldAs, ReadAction
  <1> QED BY <1>4, <1>5, SharedSame, QuietKeeps DEF ReadAction

LEMMA ReadActionCaseKeeps ==
  ASSUME DeskInv, NEW r \in Requests, ReadActionCase(r)
  PROVE  DeskInv'
  <1> DEFINE c == mem[r].act.case
             m == [mem[r] EXCEPT !.cid = c, !.cas = cases[c]]
  <1>1. TypeOK /\ HeldAs(r, "readCase", mem[r]) /\ mem[r] \in Memory
    BY DEF DeskInv, HeldOK, ReadActionCase, TypeOK
  <1>2. Kind[r] \in DeskKinds /\ Copy(mem[r].aid, mem[r].act)
    BY <1>1 DEF HeldAs
  <1>3. c \in Cases /\ cases[c] \in CaseRows
    BY <1>1, <1>2 DEF Copy, Rows, TypeOK
  <1>4. /\ m \in Memory /\ m.aid = mem[r].aid /\ m.act = mem[r].act
        /\ m.cid = c /\ m.cas = cases[c] /\ m.batch = mem[r].batch
    BY <1>1, <1>3 DEF Memory
  <1>5. mem' = [mem EXCEPT ![r] = m]
    BY <1>1 DEF ReadActionCase, TypeOK, Memory
  <1>6. Moves(r, "decide", m)
    BY <1>1, <1>4, <1>5, GotoMoves DEF ReadActionCase, Labels
  <1>7. HeldAs(r, "decide", m)
    BY <1>1, <1>2, <1>3, <1>4 DEF HeldAs
  <1> QED BY <1>6, <1>7, SharedSame, QuietKeeps DEF ReadActionCase

LEMMA ReadCaseKeeps ==
  ASSUME DeskInv, NEW r \in Requests, ReadCase(r)
  PROVE  DeskInv'
  <1>1. PICK c \in Cases : mem' = [mem EXCEPT ![r] = [Blank EXCEPT !.cid = c, !.cas = cases[c]]]
    BY DEF ReadCase
  <1> DEFINE m == [Blank EXCEPT !.cid = c, !.cas = cases[c]]
             l == IF Kind[r] = "create" THEN "decide" ELSE "list"
  <1>2. cases[c] \in CaseRows
    BY DEF DeskInv, TypeOK
  <1>3. m \in Memory /\ m.cid = c /\ m.cas = cases[c] /\ m.batch = {}
    BY <1>2 DEF Blank, Memory
  <1>4. Moves(r, l, m)
    BY <1>1, <1>3, GotoMoves DEF ReadCase, Labels, DeskInv
  <1>5. HeldAs(r, l, m)
    BY <1>2, <1>3 DEF HeldAs, ReadCase, DeskKinds
  <1> QED BY <1>4, <1>5, SharedSame, QuietKeeps DEF ReadCase

LEMMA RereadKeeps ==
  ASSUME DeskInv, NEW r \in Requests, Reread(r)
  PROVE  DeskInv'
  <1> DEFINE i == mem[r].aid
             m == [mem[r] EXCEPT !.act = actions[i]]
             l == IF Kind[r] \in {"approve", "reject"} THEN "event" ELSE "updateCase"
  <1>1. TypeOK /\ HeldAs(r, pc[r], mem[r]) /\ mem[r] \in Memory
    BY DEF DeskInv, HeldOK, TypeOK
  <1>2. /\ i \in DOMAIN actions /\ Kind[r] # "reap" /\ Kind[r] # "supplement"
        /\ mem[r].cid \in Cases /\ mem[r].cas \in CaseRows
    BY <1>1 DEF HeldAs, Reread, DeskKinds, Ended
  <1>3. actions[i] \in Rows
    BY <1>2, FreshCopy
  <1>4. /\ m \in Memory /\ m.act = actions[i] /\ m.cid = mem[r].cid
        /\ m.cas = mem[r].cas /\ m.batch = mem[r].batch
    BY <1>1, <1>3 DEF Memory
  <1>5. mem' = [mem EXCEPT ![r] = m]
    BY <1>1 DEF Reread, TypeOK, Memory
  <1>6. Moves(r, l, m)
    BY <1>1, <1>4, <1>5, GotoMoves DEF Reread, Labels
  <1>7. HeldAs(r, l, m)
    BY <1>1, <1>2, <1>3, <1>4 DEF HeldAs
  <1> QED BY <1>6, <1>7, SharedSame, QuietKeeps DEF Reread

LEMMA ListActiveKeeps ==
  ASSUME DeskInv, NEW r \in Requests, ListActive(r)
  PROVE  DeskInv'
  <1>1. TypeOK /\ HeldAs(r, "list", mem[r]) /\ mem[r] \in Memory
    BY DEF DeskInv, HeldOK, TypeOK, ListActive
  <1>2. Kind[r] = "supplement" /\ mem[r].cid \in Cases /\ mem[r].cas \in CaseRows
    BY <1>1 DEF HeldAs, Ended
  <1>3. CASE UNCHANGED mem /\ Goto(r, "updateCase")
    <2>1. Moves(r, "updateCase", mem[r])
      BY <1>1, <1>3, GotoMoves DEF Labels
    <2>2. HeldAs(r, "updateCase", mem[r])
      BY <1>1, <1>2 DEF HeldAs
    <2> QED BY <2>1, <2>2, SharedSame, QuietKeeps DEF ListActive
  <1>4. ASSUME NEW i \in DOMAIN actions, actions[i].status \in Active,
               mem' = [mem EXCEPT ![r].aid = i, ![r].expected = actions[i].version,
                                  ![r].act = Invalidated(actions[i])],
               Goto(r, "save")
        PROVE  DeskInv'
    <2> DEFINE n == Invalidated(actions[i])
               m == [mem[r] EXCEPT !.aid = i, !.expected = actions[i].version, !.act = n]
    <2>1. actions[i] \in Rows /\ i \in ActionIds /\ RowOK(actions[i])
      BY FreshCopy DEF DeskInv, RowsOK
    <2>2. n \in Rows
      <3>1. actions[i].version + 1 \in Nat /\ "rejected" \in ActionStatus
        BY <2>1 DEF Rows, ActionStatus
      <3> QED BY <2>1, <3>1 DEF Rows, Invalidated
    <2>3. RowStep(actions[i], n)
      BY <2>1, <1>4 DEF Rows, Invalidated, RowStep, SameContract
    <2>4. RowOK(n)
      BY <2>1 DEF Rows, RowOK, Invalidated, SignedByOthers
    <2>5. Writable(i, actions[i].version, n)
      BY <2>1, <2>2, <2>3, <2>4 DEF Writable, Rows
    <2>6. /\ m \in Memory /\ m.aid = i /\ m.act = n /\ m.expected = actions[i].version
          /\ m.cid = mem[r].cid /\ m.cas = mem[r].cas /\ m.batch = mem[r].batch
      BY <1>1, <2>1, <2>2 DEF Memory, Rows
    <2>7. mem' = [mem EXCEPT ![r] = m]
      BY <1>1, <1>4 DEF TypeOK, Memory
    <2>8. Moves(r, "save", m)
      BY <1>1, <1>4, <2>6, <2>7, GotoMoves DEF Labels
    <2>9. HeldAs(r, "save", m)
      BY <1>1, <1>2, <2>5, <2>6 DEF HeldAs
    <2> QED BY <2>8, <2>9, SharedSame, QuietKeeps DEF ListActive
  <1> QED BY <1>3, <1>4 DEF ListActive

LEMMA ReapListKeeps ==
  ASSUME DeskInv, NEW r \in Requests, ReapList(r)
  PROVE  DeskInv'
  <1> DEFINE B == {[aid |-> i, act |-> actions[i], order |-> cases[actions[i].case].order] :
                      i \in {j \in DOMAIN actions : Expired(actions[j])}}
             m == [mem[r] EXCEPT !.batch = B]
  <1>1. TypeOK /\ mem[r] \in Memory
    BY DEF DeskInv, TypeOK
  <1>2. \A b \in B : b \in BatchItems /\ Copy(b.aid, b.act)
    <2> SUFFICES ASSUME NEW i \in DOMAIN actions
                 PROVE  /\ actions[i] \in Rows /\ i \in ActionIds /\ Copy(i, actions[i])
                        /\ cases[actions[i].case].order \in Orders
      BY DEF BatchItems
    <2> QED BY <1>1, FreshCopy DEF TypeOK, Rows, CaseRows
  <1>3. m \in Memory /\ m.batch = B
    BY <1>1, <1>2 DEF Memory
  <1>4. mem' = [mem EXCEPT ![r] = m]
    BY <1>1 DEF ReapList, TypeOK, Memory
  <1>5. Moves(r, "next", m)
    BY <1>1, <1>3, <1>4, GotoMoves DEF ReapList, Labels
  <1>6. HeldAs(r, "next", m)
    BY <1>2, <1>3 DEF HeldAs, ReapList
  <1> QED BY <1>5, <1>6, SharedSame, QuietKeeps DEF ReapList

-----------------------------------------------------------------------------
(* One lemma per action: writes                                            *)

\* The shared part of a step that, of shared state, touches only the pools.
LEMMA SharedCall ==
  ASSUME DeskInv, PoolsTypeOK', UNCHANGED transactions,
         UNCHANGED <<warehouse, cases, actions, events, now, faults>>
  PROVE  SharedTypeOK' /\ UNCHANGED <<actions, transactions, outbound>>
  BY DEF DeskInv, TypeOK, PoolsTypeOK, SharedTypeOK, warehouse

LEMMA CreateActionKeeps ==
  ASSUME DeskInv, NEW r \in Requests, CreateAction(r)
  PROVE  DeskInv'
  <1> DEFINE cas == mem[r].cas
             c == mem[r].cid
             a == NewAction(c, cas)
             m == [mem[r] EXCEPT !.act = a]
  <1>1. /\ TypeOK /\ HeldAs(r, "decide", mem[r]) /\ mem[r] \in Memory
        /\ Kind[r] = "create"
    BY DEF DeskInv, HeldOK, TypeOK, CreateAction
  <1>2. c \in Cases /\ cas \in CaseRows /\ \A b \in mem[r].batch : Copy(b.aid, b.act)
    BY <1>1 DEF HeldAs, Ended
  <1>3. /\ cas.order \in Orders /\ cas.plan \in Plans /\ cas.plan \in PlanShape
        /\ cas.plan.type # "manual" /\ cas.plan.amount \in Amounts
    BY <1>2, DeskAssumption DEF CaseRows, CreateAction, ReadyForAction, DeskAssumption, Amounts
  <1>4. /\ a.amount = cas.plan.amount /\ a.signers = <<>> /\ a.auto \in BOOLEAN
        /\ a.status = IF a.auto THEN "approved" ELSE "pending_approval"
    BY <1>3 DEF NewAction, PlanShape
  <1>5. a \in Rows
    <2>1. Owner[c] \in Users /\ now + TTL \in Nat /\ <<>> \in Seq(Users)
      BY <1>1, <1>2, DeskAssumption DEF DeskAssumption, TypeOK
    <2>2. {"approved", "pending_approval"} \subseteq ActionStatus
      BY DEF ActionStatus, Active
    <2>3. /\ cas.plan.type \in {"refund", "resend"} /\ cas.plan.auto \in BOOLEAN
          /\ cas.plan.need \in {1, 2} /\ cas.plan.needsReturn \in BOOLEAN
      BY <1>3 DEF PlanShape
    <2> QED BY <1>2, <1>3, <2>1, <2>2, <2>3 DEF NewAction, Rows
  <1>6. RowOK(a)
    BY <1>4 DEF RowOK, SignedByOthers, FullySigned
  <1>7. /\ m \in Memory /\ m.act = a /\ m.cid = c /\ m.cas = cas /\ m.batch = mem[r].batch
    BY <1>1, <1>5 DEF Memory
  <1>8. mem' = [mem EXCEPT ![r] = m]
    BY <1>1 DEF CreateAction, TypeOK, Memory
  <1>9. PoolsTypeOK' /\ UNCHANGED transactions
    BY <1>1, <1>3, <1>4, ReserveTypes, NoCallTypes DEF CreateAction
  <1>10. Moves(r, "insert", m)
    BY <1>1, <1>7, <1>8, GotoMoves DEF CreateAction, Labels
  <1>11. HeldAs(r, "insert", m)
    BY <1>1, <1>2, <1>5, <1>6, <1>7 DEF HeldAs
  <1> QED BY <1>9, <1>10, <1>11, SharedCall, QuietKeeps DEF CreateAction

\* What an approver, a rejecter or an executor knows before the decision.
LEMMA DeciderKnows ==
  ASSUME DeskInv, NEW r \in Requests, pc[r] = "decide", Kind[r] \in DeskKinds
  PROVE  /\ TypeOK /\ mem[r] \in Memory
         /\ Copy(mem[r].aid, mem[r].act) /\ mem[r].act \in Rows
         /\ actions[mem[r].aid] \in Rows /\ mem[r].aid \in DOMAIN actions
         /\ mem[r].cid \in Cases /\ mem[r].cas \in CaseRows
         /\ mem[r].cas.order \in Orders /\ mem[r].act.amount \in Amounts
         /\ mem[r].act.order \in Orders
         /\ \A b \in mem[r].batch : Copy(b.aid, b.act)
  <1>1. TypeOK /\ HeldAs(r, "decide", mem[r]) /\ mem[r] \in Memory
    BY DEF DeskInv, HeldOK, TypeOK
  <1>2. /\ Copy(mem[r].aid, mem[r].act) /\ mem[r].cid \in Cases /\ mem[r].cas \in CaseRows
        /\ \A b \in mem[r].batch : Copy(b.aid, b.act)
    BY <1>1 DEF HeldAs, DeskKinds, Ended
  <1> QED BY <1>1, <1>2 DEF Copy, Rows, CaseRows, TypeOK

\* A row computed from a copy may be saved if it is a step of the copy: the
\* expected version is the copy's own.
LEMMA StepOfCopy ==
  ASSUME TypeOK, NEW i, NEW a, Copy(i, a), NEW n \in Rows, RowOK(n), RowStep(a, n)
  PROVE  Writable(i, a.version, n)
  <1>1. actions[i] \in Rows /\ i \in DOMAIN actions /\ a \in Rows
    BY DEF Copy, TypeOK
  <1>2. ASSUME actions[i].version = a.version PROVE RowStep(actions[i], n)
    <2>1. /\ SameContract(a, actions[i]) /\ a.status = actions[i].status
          /\ a.signers = actions[i].signers
      BY <1>2 DEF Copy
    <2> QED BY <1>2, <2>1 DEF RowStep, SameContract
  <1> QED BY <1>1, <1>2 DEF Writable, Copy

LEMMA StepOfCopyNext ==
  ASSUME TypeOK', NEW i, NEW a, Copy(i, a)', NEW n \in Rows, RowOK(n)', RowStep(a, n)
  PROVE  Writable(i, a.version, n)'
  <1>1. actions'[i] \in Rows /\ i \in DOMAIN actions' /\ a \in Rows
    BY DEF Copy, TypeOK
  <1>2. ASSUME actions'[i].version = a.version PROVE RowStep(actions'[i], n)
    <2>1. /\ SameContract(a, actions'[i]) /\ a.status = actions'[i].status
          /\ a.signers = actions'[i].signers
      BY <1>2 DEF Copy
    <2> QED BY <1>2, <2>1 DEF RowStep, SameContract
  <1> QED BY <1>1, <1>2 DEF Writable, Copy

\* The memory of a request that goes on to save n with version v.
LEMMA ToSave ==
  ASSUME DeskInv, NEW r \in Requests, pc[r] = "decide", Kind[r] \in DeskKinds,
         NEW n \in Rows, NEW v \in Nat,
         mem' = [mem EXCEPT ![r].act = n, ![r].expected = v], Goto(r, "save"),
         NEW o, o = mem[r], NEW m, m = [o EXCEPT !.act = n, !.expected = v]
  PROVE  /\ Moves(r, "save", m)
         /\ Writable(o.aid, v, n) => HeldAs(r, "save", m)
         /\ TypeOK' /\ Grows /\ Writable(o.aid, v, n)' => HeldAs(r, "save", m)'
  <1>3. /\ o \in Memory /\ TypeOK /\ o.cid \in Cases /\ o.cas \in CaseRows
        /\ \A b \in o.batch : Copy(b.aid, b.act)
    BY DeciderKnows
  <1>4. /\ m \in Memory /\ m.aid = o.aid /\ m.act = n /\ m.expected = v
        /\ m.cid = o.cid /\ m.cas = o.cas /\ m.batch = o.batch
    BY <1>3 DEF Memory
  <1>5. mem' = [mem EXCEPT ![r] = m]
    BY <1>3 DEF TypeOK, Memory
  <1>6. Moves(r, "save", m)
    BY <1>3, <1>4, <1>5, GotoMoves DEF Labels
  <1>7. Writable(o.aid, v, n) => HeldAs(r, "save", m)
    BY <1>3, <1>4 DEF HeldAs, DeskKinds
  <1>8. ASSUME TypeOK', Grows, Writable(o.aid, v, n)' PROVE HeldAs(r, "save", m)'
    <2>1. \A b \in o.batch : Copy(b.aid, b.act)'
      BY <1>3, <1>8, CopyStable
    <2> QED BY <1>3, <1>4, <1>8, <2>1 DEF HeldAs, DeskKinds
  <1> QED BY <1>6, <1>7, <1>8

\* One more signature, by someone else who has not signed.
LEMMA SignatureStep ==
  ASSUME NEW a \in Rows, RowOK(a), NEW u \in Users, NEW v \in Versions, NEW f \in BOOLEAN,
         CheckDecision(a, u, v), ~HasSigned(a, u)
  PROVE  LET n == [Approved(a, u) EXCEPT !.reserved = f]
         IN  n \in Rows /\ RowOK(n) /\ RowStep(a, n)
  <1> DEFINE g == Append(a.signers, u)
             n == [Approved(a, u) EXCEPT !.reserved = f]
  <1>1. /\ a.signers \in Seq(Users) /\ a.version \in Nat /\ a.need \in {1, 2}
        /\ a.status = "pending_approval" /\ u \in Admins \ {a.requester}
    BY DEF Rows, CheckDecision
  <1>2. /\ g \in Seq(Users) /\ Len(g) = Len(a.signers) + 1 /\ Len(a.signers) \in Nat
        /\ \A j \in 1..Len(a.signers) : g[j] = a.signers[j]
        /\ g[Len(a.signers) + 1] = u
    BY <1>1
  <1>3. /\ SameContract(a, n) /\ n.signers = g /\ n.version = a.version + 1
        /\ n.status = IF Len(g) >= a.need THEN "approved" ELSE "pending_approval"
    BY DEF Approved, SameContract, Rows
  <1>4. n \in Rows
    <2>1. {"approved", "pending_approval"} \subseteq ActionStatus
      BY DEF ActionStatus, Active
    <2>2. a.version + 1 \in Nat
      BY <1>1
    <2> QED BY <1>2, <2>1, <2>2 DEF Approved, Rows
  <1>5. SignedByOthers(n)
    <2>1. \A j \in 1..Len(g) : j = Len(a.signers) + 1 \/ j \in 1..Len(a.signers)
      BY <1>2
    <2>2. n.requester = a.requester
      BY <1>3 DEF SameContract
    <2>3. \A j \in 1..Len(a.signers) : g[j] \in Admins \ {a.requester} /\ g[j] # u
      BY <1>2 DEF RowOK, SignedByOthers, HasSigned
    <2>4. \A j, k \in 1..Len(a.signers) : g[j] = g[k] => j = k
      BY <1>2 DEF RowOK, SignedByOthers
    <2>5. \A j \in 1..Len(g) : g[j] \in Admins \ {a.requester}
      BY <1>1, <1>2, <2>1, <2>3
    <2>6. ASSUME NEW j \in 1..Len(g), NEW k \in 1..Len(g), g[j] = g[k] PROVE j = k
      <3>1. CASE j \in 1..Len(a.signers) /\ k \in 1..Len(a.signers)
        BY <2>4, <2>6, <3>1
      <3>2. CASE j = Len(a.signers) + 1 \/ k = Len(a.signers) + 1
        BY <1>2, <2>1, <2>3, <2>6, <3>2
      <3> QED BY <2>1, <3>1, <3>2
    <2>7. n.signers = g
      BY <1>3
    <2> QED BY <2>2, <2>5, <2>6, <2>7 DEF SignedByOthers
  <1>6. RowOK(n)
    BY <1>1, <1>3, <1>5 DEF RowOK, FullySigned, SameContract
  <1>7. RowStep(a, n)
    BY <1>1, <1>3 DEF RowStep
  <1> QED BY <1>4, <1>6, <1>7

LEMMA ApproveKeeps ==
  ASSUME DeskInv, NEW r \in Requests, Approve(r)
  PROVE  DeskInv'
  <1>1. PICK o : o = mem[r]
    OBVIOUS
  <1>2. PICK a : a = o.act
    OBVIOUS
  <1>0. PICK u \in Users, v \in Versions :
           /\ ApproveAllowed(r, u, v)
           /\ IF NeedsFunds(mem[r].act) THEN Ledger!Reserve(mem[r].cas.order, mem[r].act.amount)
                                        ELSE UNCHANGED ledger
           /\ mem' = [mem EXCEPT
                 ![r].act = [Approved(mem[r].act, u) EXCEPT !.reserved = mem[r].act.type = "refund"],
                 ![r].expected = v]
    BY Zenon DEF Approve
  <1>3. /\ ApproveAllowed(r, u, v)
        /\ IF NeedsFunds(a) THEN Ledger!Reserve(o.cas.order, a.amount) ELSE UNCHANGED ledger
        /\ mem' = [mem EXCEPT ![r].act = [Approved(a, u) EXCEPT !.reserved = a.type = "refund"],
                              ![r].expected = v]
    BY <1>0, <1>1, <1>2, Zenon
  <1>4. PICK n : n = [Approved(a, u) EXCEPT !.reserved = a.type = "refund"]
    OBVIOUS
  <1>5. PICK m : m = [o EXCEPT !.act = n, !.expected = v]
    OBVIOUS
  <1>6. /\ pc[r] = "decide" /\ Kind[r] \in DeskKinds /\ Goto(r, "save")
        /\ UNCHANGED <<warehouse, cases, actions, events, now, faults>>
    BY DEF Approve, DeskKinds
  <1>7. /\ TypeOK /\ Copy(o.aid, a) /\ a \in Rows
        /\ o.cas.order \in Orders /\ a.amount \in Amounts
    BY <1>1, <1>2, <1>6, DeciderKnows
  <1>8. /\ CheckDecision(a, u, v) /\ ~HasSigned(a, u) /\ v = a.version /\ v \in Nat
        /\ RowOK(a)
    BY <1>1, <1>2, <1>3, <1>7, DeskAssumption
       DEF ApproveAllowed, CheckDecision, DeskAssumption, Copy
  <1>9. n \in Rows /\ RowOK(n) /\ RowStep(a, n)
    BY <1>4, <1>7, <1>8, SignatureStep
  <1>10. Writable(o.aid, v, n)
    BY <1>7, <1>8, <1>9, StepOfCopy
  <1>11. Moves(r, "save", m) /\ HeldAs(r, "save", m)
    BY <1>1, <1>3, <1>4, <1>5, <1>6, <1>8, <1>9, <1>10, ToSave
  <1>12. PoolsTypeOK' /\ UNCHANGED transactions
    BY <1>3, <1>7, ReserveTypes, NoCallTypes
  <1> QED BY <1>6, <1>11, <1>12, SharedCall, QuietKeeps

LEMMA RejectKeeps ==
  ASSUME DeskInv, NEW r \in Requests, Reject(r)
  PROVE  DeskInv'
  <1>1. PICK o : o = mem[r]
    OBVIOUS
  <1>2. PICK a : a = o.act
    OBVIOUS
  <1>3. PICK u \in Users, v \in Versions :
           /\ CheckDecision(a, u, v)
           /\ IF a.type = "refund" /\ a.reserved
                THEN Ledger!Release(o.cas.order, a.amount) ELSE UNCHANGED ledger
           /\ mem' = [mem EXCEPT ![r].act = [a EXCEPT !.status = "rejected", !.version = @ + 1,
                                                      !.reserved = FALSE],
                                 ![r].expected = v]
    BY <1>1, <1>2 DEF Reject
  <1>4. PICK n : n = [a EXCEPT !.status = "rejected", !.version = @ + 1, !.reserved = FALSE]
    OBVIOUS
  <1>5. PICK m : m = [o EXCEPT !.act = n, !.expected = v]
    OBVIOUS
  <1>6. /\ pc[r] = "decide" /\ Kind[r] \in DeskKinds /\ Goto(r, "save")
        /\ UNCHANGED <<warehouse, cases, actions, events, now, faults>>
    BY DEF Reject, DeskKinds
  <1>7. /\ TypeOK /\ Copy(o.aid, a) /\ a \in Rows
        /\ o.cas.order \in Orders /\ a.amount \in Amounts
    BY <1>1, <1>2, <1>6, DeciderKnows
  <1>8. a.status = "pending_approval" /\ v = a.version /\ v \in Nat /\ RowOK(a)
    BY <1>3, <1>7, DeskAssumption DEF CheckDecision, DeskAssumption, Copy
  <1>9. n \in Rows /\ RowOK(n) /\ RowStep(a, n)
    <2>1. a.version + 1 \in Nat /\ "rejected" \in ActionStatus /\ a.status \in Active
      BY <1>8 DEF ActionStatus, Active
    <2>2. n \in Rows
      BY <1>4, <1>7, <2>1 DEF Rows
    <2>3. RowOK(n)
      BY <1>4, <1>7, <1>8 DEF Rows, RowOK, SignedByOthers
    <2>4. RowStep(a, n)
      BY <1>4, <1>7, <2>1 DEF Rows, RowStep, SameContract
    <2> QED BY <2>2, <2>3, <2>4
  <1>10. Writable(o.aid, v, n)
    BY <1>7, <1>8, <1>9, StepOfCopy
  <1>11. Moves(r, "save", m) /\ HeldAs(r, "save", m)
    BY <1>1, <1>3, <1>4, <1>5, <1>6, <1>8, <1>9, <1>10, ToSave
  <1>12. PoolsTypeOK' /\ UNCHANGED transactions
    BY <1>3, <1>7, ReleaseTypes, NoCallTypes
  <1> QED BY <1>6, <1>11, <1>12, SharedCall, QuietKeeps

\* Once money or goods have moved for an approved copy, the row may be saved
\* as completed.
LEMMA CompletionStep ==
  ASSUME NEW a \in Rows, RowOK(a), a.status = "approved", Receipted(a)'
  PROVE  Completed(a) \in Rows /\ RowOK(Completed(a))' /\ RowStep(a, Completed(a))
  <1> DEFINE n == Completed(a)
  <1>1. a.version + 1 \in Nat /\ "completed" \in ActionStatus
    BY DEF Rows, ActionStatus
  <1>2. n \in Rows
    BY <1>1 DEF Rows, Completed
  <1>3. /\ SameContract(a, n) /\ n.signers = a.signers /\ n.status = "completed"
        /\ n.version = a.version + 1 /\ Key(n) = Key(a)
    BY DEF Rows, Completed, SameContract, Key
  <1>4. RowStep(a, n)
    BY <1>3 DEF RowStep
  <1>5. FullySigned(n) /\ SignedByOthers(n)
    BY <1>3 DEF RowOK, FullySigned, SignedByOthers, SameContract
  <1>6. Receipted(n)'
    BY <1>3 DEF Receipted, SameContract
  <1>7. RowOK(n)'
    BY <1>5, <1>6 DEF RowOK, FullySigned, SignedByOthers
  <1> QED BY <1>2, <1>4, <1>7

\* The row of a fully signed copy is fully signed and has the same key.
LEMMA SignedCopy ==
  ASSUME TypeOK, NEW i, NEW a, Copy(i, a), a.status = "approved"
  PROVE  Key(actions[i]) = Key(a) /\ FullySigned(actions[i])
  <1>1. actions[i] \in Rows /\ a \in Rows /\ SameContract(a, actions[i]) /\ FullySigned(a)
    BY DEF Copy, TypeOK, RowOK
  <1>2. /\ Len(a.signers) \in Nat /\ Len(actions[i].signers) \in Nat
        /\ Len(a.signers) <= Len(actions[i].signers) /\ a.need \in {1, 2}
    BY <1>1 DEF Copy, Rows
  <1> QED BY <1>1, <1>2 DEF SameContract, Key, FullySigned

\* Money or goods move for an approved copy, and the request goes on to save.
LEMMA CompletionKeeps ==
  ASSUME DeskInv, NEW r \in Requests, pc[r] = "decide", Kind[r] = "execute",
         NEW v \in Versions, mem[r].act.status = "approved", mem[r].act.version = v,
         mem' = [mem EXCEPT ![r].act = Completed(mem[r].act), ![r].expected = v],
         Goto(r, "save"), SharedTypeOK',
         transactions \subseteq transactions', outbound \subseteq outbound',
         UNCHANGED actions,
         \A k \in {t.key : t \in transactions'} \cup outbound' :
            k \in {t.key : t \in transactions} \cup outbound \/ k = Key(mem[r].act),
         NEW a, a = mem[r].act, Receipted(a)'
  PROVE  DeskInv'
  <1>1. PICK o : o = mem[r]
    OBVIOUS
  <1>2. PICK n : n = Completed(a)
    OBVIOUS
  <1>3. PICK m : m = [o EXCEPT !.act = n, !.expected = v]
    OBVIOUS
  <1>4. Kind[r] \in DeskKinds
    BY DEF DeskKinds
  <1>5. TypeOK /\ Copy(o.aid, a) /\ a \in Rows /\ o.aid \in DOMAIN actions
    BY <1>1, <1>4, DeciderKnows
  <1>6. v \in Nat /\ v = a.version /\ RowOK(a)
    BY <1>5, DeskAssumption DEF DeskAssumption, Copy
  <1>7. Grows
    BY DEF Grows
  <1>8. n \in Rows /\ RowOK(n)' /\ RowStep(a, n)
    BY <1>2, <1>5, <1>6, CompletionStep
  <1>9. Moves(r, "save", m)
    BY <1>1, <1>2, <1>3, <1>4, <1>6, <1>8, ToSave
  <1>10. TypeOK'
    BY <1>9 DEF SharedTypeOK, Moves, TypeOK
  <1>11. Writable(o.aid, v, n)'
    <2>1. Copy(o.aid, a)'
      BY <1>5, <1>7, <1>10, CopyStable
    <2> QED BY <1>5, <1>6, <1>8, <1>10, <2>1, StepOfCopyNext
  <1>12. HeldAs(r, "save", m)'
    BY <1>1, <1>2, <1>3, <1>4, <1>6, <1>7, <1>8, <1>10, <1>11, ToSave
  <1>13. RowsOK'
    BY <1>7, RowsSame DEF DeskInv
  <1>14. \A k \in ({t.key : t \in transactions'} \cup outbound')
                     \ ({t.key : t \in transactions} \cup outbound) :
            \E i \in DOMAIN actions : Key(actions[i]) = k /\ FullySigned(actions[i])
    BY <1>5, SignedCopy
  <1> QED BY <1>7, <1>9, <1>12, <1>13, <1>14, StepKeeps

LEMMA PayKeeps ==
  ASSUME DeskInv, NEW r \in Requests, Pay(r)
  PROVE  DeskInv'
  <1>1. PICK a : a = mem[r].act
    OBVIOUS
  <1>2. PICK v \in Versions, h \in BOOLEAN :
           /\ PayAllowed(r, v, h)
           /\ IF Ledger!Paid(Key(a)) THEN UNCHANGED ledger
                                     ELSE Ledger!Capture(a.order, a.amount, Key(a))
           /\ mem' = [mem EXCEPT ![r].act = Completed(a), ![r].expected = v]
    BY <1>1 DEF Pay
  <1>3. /\ pc[r] = "decide" /\ Kind[r] = "execute" /\ Goto(r, "save")
        /\ UNCHANGED <<warehouse, cases, actions, events, now, faults>>
    BY DEF Pay
  <1>4. a.type = "refund" /\ a.status = "approved" /\ a.version = v
    BY <1>1, <1>2 DEF PayAllowed, ExecuteChecks
  <1>5. TypeOK /\ a \in Rows /\ a.order \in Orders /\ a.amount \in Amounts
        /\ Key(a) \in PaymentKeys
    BY <1>1, <1>3, DeciderKnows, KeyOfRow DEF DeskKinds
  <1>6. /\ PoolsTypeOK' /\ transactions \subseteq transactions'
        /\ \A t \in transactions' : t \in transactions \/ t.key = Key(a)
        /\ Ledger!Paid(Key(a))'
    <2>1. CASE Ledger!Paid(Key(a))
      BY <1>2, <1>5, <2>1, NoCallTypes DEF Ledger!Paid
    <2>2. CASE ~Ledger!Paid(Key(a))
      <3>1. Ledger!Capture(a.order, a.amount, Key(a))
        BY <1>2, <2>2
      <3>2. /\ PoolsTypeOK'
            /\ transactions' = transactions
                  \cup {[key |-> Key(a), order |-> a.order, amount |-> a.amount]}
        BY <1>5, <3>1, CaptureTypes
      <3>3. Ledger!Paid(Key(a))'
        <4>1. PICK k : k = Key(a)
          OBVIOUS
        <4>2. PICK t : t = [key |-> k, order |-> a.order, amount |-> a.amount]
          OBVIOUS
        <4>3. t \in transactions' /\ t.key = k
          BY <3>2, <4>1, <4>2
        <4>4. Ledger!Paid(k)'
          BY <4>3 DEF Ledger!Paid
        <4> QED BY <4>1, <4>4 DEF Key
      <3> QED BY <3>2, <3>3
    <2> QED BY <2>1, <2>2
  <1>7. Receipted(a)'
    BY <1>4, <1>6 DEF Receipted
  <1>8. SharedTypeOK' /\ UNCHANGED <<outbound, actions>>
    BY <1>3, <1>5, <1>6 DEF TypeOK, PoolsTypeOK, SharedTypeOK, warehouse
  <1>9. \A k \in {t.key : t \in transactions'} \cup outbound' :
           k \in {t.key : t \in transactions} \cup outbound \/ k = Key(a)
    BY <1>6, <1>8
  <1> QED BY <1>1, <1>2, <1>3, <1>4, <1>6, <1>7, <1>8, <1>9, CompletionKeeps

LEMMA DispatchKeeps ==
  ASSUME DeskInv, NEW r \in Requests, Dispatch(r)
  PROVE  DeskInv'
  <1>1. PICK a : a = mem[r].act
    OBVIOUS
  <1>2. PICK v \in Versions, h \in BOOLEAN :
           /\ DispatchAllowed(r, v, h)
           /\ stock' = StockAfter(Key(a)) /\ outbound' = outbound \cup {Key(a)}
           /\ mem' = [mem EXCEPT ![r].act = Completed(a), ![r].expected = v]
    BY <1>1 DEF Dispatch
  <1>3. /\ pc[r] = "decide" /\ Kind[r] = "execute" /\ Goto(r, "save")
        /\ UNCHANGED <<ledger, cases, actions, events, now, faults>>
    BY DEF Dispatch
  <1>4. /\ a.type = "resend" /\ a.status = "approved" /\ a.version = v
        /\ Key(a) \in outbound \/ stock >= 1
    BY <1>1, <1>2 DEF DispatchAllowed, ExecuteChecks
  <1>5. TypeOK /\ a \in Rows /\ Key(a) \in PaymentKeys
    BY <1>1, <1>3, DeciderKnows, KeyOfRow DEF DeskKinds
  <1>6. stock' \in Nat
    BY <1>2, <1>4, <1>5 DEF TypeOK, StockAfter
  <1>7. Receipted(a)'
    BY <1>2, <1>4 DEF Receipted, Key
  <1>8. SharedTypeOK' /\ UNCHANGED <<transactions, actions>>
    BY <1>2, <1>3, <1>5, <1>6 DEF TypeOK, SharedTypeOK, ledger
  <1>9. \A k \in {t.key : t \in transactions'} \cup outbound' :
           k \in {t.key : t \in transactions} \cup outbound \/ k = Key(a)
    BY <1>2, <1>8
  <1> QED BY <1>1, <1>2, <1>3, <1>4, <1>7, <1>8, <1>9, CompletionKeeps

\* The save that lands: the row may have been rewritten since the request read
\* it, but not if its version is the expected one.
LEMMA SaveActionKeeps ==
  ASSUME DeskInv, NEW r \in Requests, SaveAction(r)
  PROVE  DeskInv'
  <1>1. PICK m : m = mem[r]
    OBVIOUS
  <1>2. PICK i : i = m.aid
    OBVIOUS
  <1>3. PICK n : n = m.act
    OBVIOUS
  <1>4. PICK l : l = CASE pc[r] = "clear" -> "updateCase"
                       [] Kind[r] = "reap" -> "next"
                       [] OTHER -> "reread"
    OBVIOUS
  <1>5. /\ TypeOK /\ HeldAs(r, pc[r], m) /\ m \in Memory /\ Kind[r] \in Kinds
        /\ pc[r] \in {"save", "clear"}
    BY <1>1, DeskAssumption DEF DeskInv, HeldOK, TypeOK, SaveAction, DeskAssumption
  <1>6. Kind[r] # "create" /\ Writable(i, m.expected, n)
    BY <1>2, <1>3, <1>5 DEF HeldAs
  <1>7. /\ i \in DOMAIN actions /\ n \in Rows /\ RowOK(n) /\ RowStep(actions[i], n)
    BY <1>1, <1>2, <1>6 DEF Writable, SaveAction, VersionHolds
  <1>8. /\ actions' = [actions EXCEPT ![i] = n] /\ UNCHANGED mem /\ Goto(r, l)
        /\ UNCHANGED <<ledger, warehouse, cases, events, now, faults>>
    BY <1>1, <1>2, <1>3, <1>4 DEF SaveAction
  <1>9. /\ DOMAIN actions' = DOMAIN actions /\ actions'[i] = n
        /\ \A j \in DOMAIN actions \ {i} : actions'[j] = actions[j]
        /\ actions' \in [DOMAIN actions' -> Rows]
    BY <1>5, <1>7, <1>8 DEF TypeOK
  <1>10. Grows
    BY <1>7, <1>8, <1>9 DEF Grows, ledger, warehouse
  <1>11. SharedTypeOK'
    BY <1>5, <1>8, <1>9 DEF TypeOK, SharedTypeOK, ledger, warehouse
  <1>12. Moves(r, l, m)
    BY <1>1, <1>4, <1>5, <1>8, GotoMoves DEF Labels
  <1>13. TypeOK'
    BY <1>11, <1>12 DEF SharedTypeOK, Moves, TypeOK
  <1>14. HeldAs(r, l, m)
    <2>1. Kind[r] # "reap" => m.cid \in Cases /\ m.cas \in CaseRows
      BY <1>5 DEF HeldAs, Ended
    <2>2. \A b \in m.batch : Copy(b.aid, b.act)
      BY <1>5 DEF HeldAs
    <2>3. CASE pc[r] = "clear"
      <3>1. l = "updateCase" /\ Kind[r] = "supplement"
        BY <1>4, <1>5, <2>3 DEF HeldAs
      <3> QED BY <2>1, <2>2, <3>1 DEF HeldAs
    <2>4. CASE pc[r] # "clear" /\ Kind[r] = "reap"
      <3>1. l = "next"
        BY <1>4, <2>4
      <3> QED BY <2>2, <2>4, <3>1 DEF HeldAs
    <2>5. CASE pc[r] # "clear" /\ Kind[r] # "reap"
      <3>1. l = "reread"
        BY <1>4, <2>5
      <3>2. Kind[r] \in DeskKinds \cup {"supplement"}
        BY <1>5, <1>6, <2>5 DEF Kinds, DeskKinds
      <3> QED BY <1>2, <1>3, <1>7, <2>1, <2>2, <2>5, <3>1, <3>2 DEF HeldAs
    <2> QED BY <2>3, <2>4, <2>5
  <1>15. HeldAs(r, l, m)'
    BY <1>5, <1>10, <1>13, <1>14, HeldStable
  <1>16. RowsOK'
    <2> SUFFICES ASSUME NEW j \in DOMAIN actions PROVE RowOK(actions[j])'
      BY <1>9 DEF RowsOK
    <2>1. PICK a : a = actions'[j]
      OBVIOUS
    <2>2. RowOK(a)
      BY <1>7, <1>9, <2>1 DEF DeskInv, RowsOK
    <2>3. RowOK(a)'
      BY <1>10, <2>2, RowOKStable
    <2> QED BY <2>1, <2>3
  <1> QED BY <1>8, <1>10, <1>11, <1>12, <1>15, <1>16, StepKeeps DEF ledger, warehouse

LEMMA InsertActionKeeps ==
  ASSUME DeskInv, NEW r \in Requests, InsertAction(r)
  PROVE  DeskInv'
  <1>1. PICK o : o = mem[r]
    OBVIOUS
  <1>2. PICK n : n = o.act
    OBVIOUS
  <1>3. PICK i \in ActionIds \ DOMAIN actions :
           /\ actions' = [j \in DOMAIN actions \cup {i} |-> IF j = i THEN n ELSE actions[j]]
           /\ mem' = [mem EXCEPT ![r].aid = i]
    BY <1>1, <1>2 DEF InsertAction
  <1>4. PICK m : m = [o EXCEPT !.aid = i]
    OBVIOUS
  <1>5. /\ Goto(r, "refresh") /\ UNCHANGED <<ledger, warehouse, cases, events, now, faults>>
        /\ TypeOK /\ HeldAs(r, "insert", o) /\ o \in Memory
    BY <1>1 DEF InsertAction, DeskInv, HeldOK, TypeOK
  <1>6. /\ Kind[r] = "create" /\ n \in Rows /\ RowOK(n)
        /\ o.cid \in Cases /\ o.cas \in CaseRows /\ \A b \in o.batch : Copy(b.aid, b.act)
    BY <1>2, <1>5 DEF HeldAs, Ended
  <1>7. /\ DOMAIN actions' = DOMAIN actions \cup {i} /\ actions'[i] = n
        /\ \A j \in DOMAIN actions : actions'[j] = actions[j]
        /\ actions' \in [DOMAIN actions' -> Rows]
    BY <1>3, <1>5, <1>6 DEF TypeOK
  <1>8. Grows
    BY <1>5, <1>7 DEF Grows, ledger, warehouse
  <1>9. SharedTypeOK'
    BY <1>5, <1>7 DEF TypeOK, SharedTypeOK, ledger, warehouse
  <1>10. /\ m \in Memory /\ m.aid = i /\ m.act = n /\ m.cid = o.cid /\ m.cas = o.cas
         /\ m.batch = o.batch
    BY <1>2, <1>4, <1>5 DEF Memory
  <1>11. mem' = [mem EXCEPT ![r] = m]
    BY <1>1, <1>3, <1>4, <1>5 DEF TypeOK, Memory
  <1>12. Moves(r, "refresh", m)
    BY <1>5, <1>10, <1>11, GotoMoves DEF Labels
  <1>13. TypeOK'
    BY <1>9, <1>12 DEF SharedTypeOK, Moves, TypeOK
  <1>14. HeldAs(r, "refresh", m)'
    <2>1. \A b \in m.batch : Copy(b.aid, b.act)'
      BY <1>5, <1>6, <1>8, <1>10, <1>13, CopyStable
    <2> QED BY <1>6, <1>7, <1>10, <2>1 DEF HeldAs
  <1>15. RowsOK'
    <2> SUFFICES ASSUME NEW j \in DOMAIN actions' PROVE RowOK(actions[j])'
      BY DEF RowsOK
    <2>1. PICK a : a = actions'[j]
      OBVIOUS
    <2>2. RowOK(a)
      BY <1>6, <1>7, <2>1 DEF DeskInv, RowsOK
    <2>3. RowOK(a)'
      BY <1>8, <2>2, RowOKStable
    <2> QED BY <2>1, <2>3
  <1> QED BY <1>5, <1>8, <1>9, <1>12, <1>14, <1>15, StepKeeps DEF ledger, warehouse

\* update_case writes a well-formed case.
LEMMA WriteCaseTypes ==
  ASSUME DeskInv, NEW r \in Requests, Kind[r] # "reap", NEW o \in Orders, NEW p \in Plans,
         NEW s \in CaseStatus, WriteCase(r, o, p, s)
  PROVE  cases' \in [Cases -> CaseRows]
  <1>1. TypeOK /\ HeldAs(r, "updateCase", mem[r])
    BY DEF DeskInv, HeldOK, WriteCase
  <1>2. mem[r].cid \in Cases /\ mem[r].cas \in CaseRows
    BY <1>1 DEF HeldAs, Ended
  <1>3. [order |-> o, plan |-> p, status |-> s, version |-> mem[r].cas.version + 1] \in CaseRows
    BY <1>2 DEF CaseRows
  <1> QED BY <1>1, <1>2, <1>3 DEF TypeOK, WriteCase

LEMMA UpdateCaseKeeps ==
  ASSUME DeskInv, NEW r \in Requests, UpdateCase(r)
  PROVE  DeskInv'
  <1>1. /\ TypeOK /\ HeldAs(r, "updateCase", mem[r])
        /\ Kind[r] \in DeskKinds \cup {"create"} /\ pc[r] = "updateCase"
    BY DEF DeskInv, HeldOK, UpdateCase, WriteCase
  <1>2. /\ mem[r].cid \in Cases /\ mem[r].cas \in CaseRows /\ mem[r].act \in Rows
        /\ Kind[r] # "reap" /\ Kind[r] # "supplement"
        /\ \A b \in mem[r].batch : Copy(b.aid, b.act)
    BY <1>1 DEF HeldAs, Ended, DeskKinds
  <1>3. StatusAfter(Kind[r], mem[r].act) \in CaseStatus
    BY <1>1, <1>2 DEF StatusAfter, CaseStatus, ActionStatus, Rows, DeskKinds
  <1>4. mem[r].cas.order \in Orders /\ mem[r].cas.plan \in Plans
    BY <1>2 DEF CaseRows
  <1>5. cases' \in [Cases -> CaseRows]
    BY <1>2, <1>3, <1>4, WriteCaseTypes DEF UpdateCase
  <1>6. UNCHANGED <<ledger, warehouse, actions, events, now, faults>>
    BY DEF UpdateCase, WriteCase
  <1>7. CASE End(r, "done")
    BY <1>1, <1>5, <1>6, <1>7, EndKeeps DEF Ended, TypeOK
  <1>8. CASE Goto(r, "event") /\ UNCHANGED mem
    <2>1. Moves(r, "event", mem[r])
      BY <1>1, <1>8, GotoMoves DEF Labels
    <2>2. HeldAs(r, "event", mem[r])
      BY <1>2 DEF HeldAs
    <2>3. SharedTypeOK'
      BY <1>1, <1>5, <1>6 DEF TypeOK, SharedTypeOK, ledger, warehouse
    <2> QED BY <1>6, <2>1, <2>2, <2>3, QuietKeeps DEF ledger, warehouse
  <1> QED BY <1>7, <1>8 DEF UpdateCase

LEMMA ReassessKeeps ==
  ASSUME DeskInv, NEW r \in Requests, Reassess(r)
  PROVE  DeskInv'
  <1>1. PICK o \in Orders, p \in Plans :
           WriteCase(r, o, p, IF p.type = "manual" THEN "awaiting_evidence" ELSE "decided")
    BY DEF Reassess
  <1>2. /\ TypeOK /\ HeldAs(r, "updateCase", mem[r]) /\ Kind[r] = "supplement"
        /\ Goto(r, "event") /\ UNCHANGED mem
    BY <1>1 DEF DeskInv, HeldOK, Reassess, WriteCase
  <1>3. (IF p.type = "manual" THEN "awaiting_evidence" ELSE "decided") \in CaseStatus
    BY DEF CaseStatus
  <1>4. cases' \in [Cases -> CaseRows]
    BY <1>1, <1>2, <1>3, WriteCaseTypes
  <1>5. UNCHANGED <<ledger, warehouse, actions, events, now, faults>>
    BY <1>1 DEF WriteCase
  <1>6. SharedTypeOK'
    BY <1>2, <1>4, <1>5 DEF TypeOK, SharedTypeOK, ledger, warehouse
  <1>7. Moves(r, "event", mem[r])
    BY <1>2, GotoMoves DEF Labels
  <1>8. HeldAs(r, "event", mem[r])
    BY <1>2 DEF HeldAs, Ended
  <1> QED BY <1>5, <1>6, <1>7, <1>8, QuietKeeps DEF ledger, warehouse

LEMMA AppendEventKeeps ==
  ASSUME DeskInv, NEW r \in Requests, AppendEvent(r)
  PROVE  DeskInv'
  <1>1. /\ TypeOK /\ HeldAs(r, pc[r], mem[r]) /\ mem[r] \in Memory /\ Kind[r] \in Kinds
        /\ pc[r] \in {"event", "event2"}
    BY DeskAssumption DEF DeskInv, HeldOK, TypeOK, AppendEvent, DeskAssumption
  <1>2. /\ Kind[r] # "reap" /\ (Kind[r] # "supplement" => mem[r].act \in Rows)
        /\ mem[r].cid \in Cases /\ mem[r].cas \in CaseRows
        /\ pc[r] = "event2" => Kind[r] = "supplement"
        /\ \A b \in mem[r].batch : Copy(b.aid, b.act)
    BY <1>1 DEF HeldAs, Ended
  <1>3. EventType(r) \in {"approval_requested", "action_approved", "approval_granted",
                          "approval_rejected", "execution_succeeded",
                          "evidence_supplemented", "case_reassessed"}
    BY <1>1, <1>2 DEF EventType, Kinds
  <1>4. [case |-> mem[r].cid, type |-> EventType(r), action |-> mem[r].aid] \in Events
    BY <1>1, <1>2, <1>3 DEF Memory, Events
  <1>5. /\ events' \subseteq Events /\ cases' \in [Cases -> CaseRows]
        /\ UNCHANGED <<ledger, warehouse, actions, now, faults>>
    BY <1>1, <1>4 DEF AppendEvent, TypeOK
  <1>6. SharedTypeOK'
    BY <1>1, <1>5 DEF TypeOK, SharedTypeOK, ledger, warehouse
  <1>7. CASE Kind[r] \in {"approve", "reject"}
    <2>1. Goto(r, "updateCase") /\ UNCHANGED mem
      BY <1>7 DEF AppendEvent
    <2>2. Moves(r, "updateCase", mem[r])
      BY <1>1, <2>1, GotoMoves DEF Labels
    <2>3. HeldAs(r, "updateCase", mem[r])
      BY <1>2 DEF HeldAs
    <2> QED BY <1>5, <1>6, <2>2, <2>3, QuietKeeps DEF ledger, warehouse
  <1>8. CASE Kind[r] = "supplement" /\ pc[r] = "event"
    <2>1. Goto(r, "event2") /\ UNCHANGED mem
      BY <1>8 DEF AppendEvent
    <2>2. Moves(r, "event2", mem[r])
      BY <1>1, <2>1, GotoMoves DEF Labels
    <2>3. HeldAs(r, "event2", mem[r])
      BY <1>2, <1>8 DEF HeldAs
    <2> QED BY <1>5, <1>6, <2>2, <2>3, QuietKeeps DEF ledger, warehouse
  <1>9. CASE ~(Kind[r] \in {"approve", "reject"}) /\ ~(Kind[r] = "supplement" /\ pc[r] = "event")
    <2>1. End(r, "done")
      BY <1>9 DEF AppendEvent
    <2> QED BY <1>5, <2>1, EndKeeps DEF Ended
  <1> QED BY <1>7, <1>8, <1>9

LEMMA ReleaseInvalidatedKeeps ==
  ASSUME DeskInv, NEW r \in Requests, ReleaseInvalidated(r)
  PROVE  DeskInv'
  <1>1. PICK o : o = mem[r]
    OBVIOUS
  <1>2. PICK a : a = actions[o.aid]
    OBVIOUS
  <1>3. /\ TypeOK /\ HeldAs(r, "reread", o) /\ o \in Memory /\ Kind[r] = "supplement"
        /\ UNCHANGED <<warehouse, cases, actions, events, now, faults>>
    BY <1>1 DEF DeskInv, HeldOK, TypeOK, ReleaseInvalidated
  <1>4. /\ o.aid \in DOMAIN actions /\ o.cid \in Cases /\ o.cas \in CaseRows
        /\ \A b \in o.batch : Copy(b.aid, b.act)
    BY <1>3 DEF HeldAs, Ended
  <1>5. Copy(o.aid, a) /\ a \in Rows /\ RowOK(a)
    BY <1>2, <1>4, FreshCopy DEF Copy
  <1>6. CASE a.type = "refund" /\ a.reserved
    <2>1. PICK n : n = [a EXCEPT !.reserved = FALSE, !.version = @ + 1]
      OBVIOUS
    <2>2. PICK m : m = [o EXCEPT !.act = n, !.expected = a.version]
      OBVIOUS
    <2>3. /\ Ledger!Release(o.cas.order, a.amount) /\ Goto(r, "clear")
          /\ mem' = [mem EXCEPT ![r].act = n, ![r].expected = a.version]
      BY <1>1, <1>2, <1>6, <2>1 DEF ReleaseInvalidated
    <2>4. n \in Rows
      <3>1. a.version + 1 \in Nat
        BY <1>5 DEF Rows
      <3> QED BY <1>5, <2>1, <3>1 DEF Rows
    <2>5. /\ SameContract(a, n) /\ n.status = a.status /\ n.signers = a.signers
          /\ n.version = a.version + 1 /\ n.reserved = FALSE
      BY <1>5, <2>1 DEF Rows, SameContract
    <2>6. RowStep(a, n)
      BY <2>5 DEF RowStep
    <2>7. RowOK(n)
      BY <1>5, <2>5 DEF RowOK, SignedByOthers, FullySigned, Receipted, Key, SameContract
    <2>8. Writable(o.aid, a.version, n)
      BY <1>3, <1>5, <2>4, <2>6, <2>7, StepOfCopy
    <2>9. /\ m \in Memory /\ m.aid = o.aid /\ m.act = n /\ m.expected = a.version
          /\ m.cid = o.cid /\ m.cas = o.cas /\ m.batch = o.batch
      BY <1>3, <1>5, <2>2, <2>4 DEF Memory, Rows
    <2>10. mem' = [mem EXCEPT ![r] = m]
      BY <1>1, <1>3, <2>2, <2>3 DEF TypeOK, Memory
    <2>11. Moves(r, "clear", m)
      BY <1>3, <2>3, <2>9, <2>10, GotoMoves DEF Labels
    <2>12. HeldAs(r, "clear", m)
      BY <1>3, <1>4, <2>8, <2>9 DEF HeldAs
    <2>13. PoolsTypeOK' /\ UNCHANGED transactions
      BY <1>3, <1>4, <1>5, <2>3, ReleaseTypes DEF CaseRows, Rows
    <2> QED BY <1>3, <2>11, <2>12, <2>13, SharedCall, QuietKeeps
  <1>7. CASE ~(a.type = "refund" /\ a.reserved)
    <2>1. UNCHANGED <<ledger, mem>> /\ Goto(r, "updateCase")
      BY <1>1, <1>2, <1>7 DEF ReleaseInvalidated
    <2>2. Moves(r, "updateCase", o)
      BY <1>1, <1>3, <2>1, GotoMoves DEF Labels
    <2>3. HeldAs(r, "updateCase", o)
      BY <1>3, <1>4 DEF HeldAs
    <2> QED BY <1>3, <2>1, <2>2, <2>3, SharedSame, QuietKeeps
  <1> QED BY <1>6, <1>7

LEMMA ReapReleaseKeeps ==
  ASSUME DeskInv, NEW r \in Requests, ReapRelease(r)
  PROVE  DeskInv'
  <1>1. PICK o : o = mem[r]
    OBVIOUS
  <1>2. PICK b \in o.batch :
           /\ Ledger!Release(b.order, b.act.amount)
           /\ mem' = [mem EXCEPT ![r].aid = b.aid, ![r].expected = b.act.version,
                                 ![r].act = [b.act EXCEPT !.reserved = FALSE],
                                 ![r].batch = @ \ {b}]
    BY <1>1 DEF ReapRelease
  <1>3. PICK a : a = b.act
    OBVIOUS
  <1>4. PICK n : n = [a EXCEPT !.reserved = FALSE]
    OBVIOUS
  <1>5. PICK m : m = [o EXCEPT !.aid = b.aid, !.expected = a.version, !.act = n,
                               !.batch = @ \ {b}]
    OBVIOUS
  <1>6. /\ TypeOK /\ HeldAs(r, "next", o) /\ o \in Memory /\ Goto(r, "save")
        /\ UNCHANGED <<warehouse, cases, actions, events, now, faults>>
    BY <1>1 DEF DeskInv, HeldOK, TypeOK, ReapRelease
  <1>7. /\ Kind[r] = "reap" /\ \A c \in o.batch : Copy(c.aid, c.act)
        /\ Copy(b.aid, a) /\ a \in Rows /\ RowOK(a) /\ b \in BatchItems
    BY <1>3, <1>6 DEF HeldAs, Copy, Memory
  <1>8. n \in Rows
    BY <1>4, <1>7 DEF Rows
  <1>9. /\ SameContract(a, n) /\ n.status = a.status /\ n.signers = a.signers
        /\ n.version = a.version /\ n.reserved = FALSE
    BY <1>4, <1>7 DEF Rows, SameContract
  <1>10. RowStep(a, n)
    BY <1>9 DEF RowStep
  <1>11. RowOK(n)
    BY <1>7, <1>9 DEF RowOK, SignedByOthers, FullySigned, Receipted, Key, SameContract
  <1>12. Writable(b.aid, a.version, n)
    BY <1>6, <1>7, <1>8, <1>10, <1>11, StepOfCopy
  <1>13. /\ m \in Memory /\ m.aid = b.aid /\ m.act = n /\ m.expected = a.version
         /\ m.batch = o.batch \ {b}
    <2>1. b.aid \in ActionIds /\ a.version \in Nat /\ o.batch \ {b} \in SUBSET BatchItems
      BY <1>6, <1>7 DEF BatchItems, Memory, Rows
    <2> QED BY <1>5, <1>6, <1>8, <2>1 DEF Memory
  <1>14. mem' = [mem EXCEPT ![r] = m]
    BY <1>1, <1>2, <1>3, <1>4, <1>5, <1>6 DEF TypeOK, Memory
  <1>15. Moves(r, "save", m)
    BY <1>6, <1>13, <1>14, GotoMoves DEF Labels
  <1>16. HeldAs(r, "save", m)
    BY <1>7, <1>12, <1>13 DEF HeldAs
  <1>17. PoolsTypeOK' /\ UNCHANGED transactions
    BY <1>2, <1>3, <1>6, <1>7, ReleaseTypes DEF BatchItems, Rows
  <1> QED BY <1>6, <1>15, <1>16, <1>17, SharedCall, QuietKeeps

-----------------------------------------------------------------------------
(* The invariant is inductive                                              *)

LEMMA InitInv == Init => DeskInv
  <1> SUFFICES ASSUME Init PROVE DeskInv
    OBVIOUS
  <1>1. Blank \in Memory
    BY DEF Blank, Memory
  <1>2. \A c \in Cases : [order |-> Opening[c].order, plan |-> Opening[c].plan,
                          status |-> "decided", version |-> 1] \in CaseRows
    BY DeskAssumption DEF DeskAssumption, CaseRows, CaseStatus
  <1>3. TypeOK
    BY <1>1, <1>2, DeskAssumption DEF Init, TypeOK, DeskAssumption, Labels
  <1>4. RowsOK /\ MovedWasSigned
    BY DEF Init, RowsOK, MovedWasSigned
  <1>5. HeldOK
    BY DEF Init, HeldOK, HeldAs, Blank
  <1> QED BY <1>3, <1>4, <1>5 DEF DeskInv

LEMMA StepKeepsInv ==
  ASSUME DeskInv, NEW r \in Requests, Step(r)
  PROVE  DeskInv'
  <1>0. TypeOK
    BY DEF DeskInv
  <1>1. CASE CreateRefused(r)
    BY <1>0, <1>1, EndKeeps DEF CreateRefused, Ended, TypeOK
  <1>2. CASE Refuse(r)
    BY <1>0, <1>2, EndKeeps DEF Refuse, Ended, TypeOK
  <1>3. CASE ReapDone(r)
    BY <1>0, <1>3, EndKeeps DEF ReapDone, Ended, TypeOK
  <1>4. CASE SaveConflict(r)
    BY <1>0, <1>4, AbortKeeps DEF SaveConflict, InFlight, Ended, TypeOK
  <1>5. CASE InsertConflict(r)
    BY <1>0, <1>5, AbortKeeps DEF InsertConflict, InFlight, Ended, TypeOK
  <1>6. CASE CaseConflict(r)
    BY <1>0, <1>6, AbortKeeps DEF CaseConflict, InFlight, Ended, TypeOK
  <1>7. CASE ReadAction(r) \/ ReadActionCase(r) \/ ReadCase(r) \/ Reread(r) \/ ListActive(r)
             \/ ReapList(r)
    BY <1>7, ReadActionKeeps, ReadActionCaseKeeps, ReadCaseKeeps, RereadKeeps,
       ListActiveKeeps, ReapListKeeps
  <1>8. CASE CreateAction(r) \/ Approve(r) \/ Reject(r) \/ Pay(r) \/ Dispatch(r)
    BY <1>8, CreateActionKeeps, ApproveKeeps, RejectKeeps, PayKeeps, DispatchKeeps
  <1>9. CASE InsertAction(r) \/ SaveAction(r) \/ ReleaseInvalidated(r) \/ ReapRelease(r)
    BY <1>9, InsertActionKeeps, SaveActionKeeps, ReleaseInvalidatedKeeps, ReapReleaseKeeps
  <1>10. CASE UpdateCase(r) \/ Reassess(r) \/ AppendEvent(r)
    BY <1>10, UpdateCaseKeeps, ReassessKeeps, AppendEventKeeps
  <1> QED BY <1>1, <1>2, <1>3, <1>4, <1>5, <1>6, <1>7, <1>8, <1>9, <1>10 DEF Step

LEMMA IdleKeepsInv ==
  ASSUME DeskInv,
         UNCHANGED <<ledger, warehouse, cases, actions, events, pc, mem, faults>>, now' \in Nat
  PROVE  DeskInv'
  <1>1. TypeOK'
    BY DEF DeskInv, TypeOK, ledger, warehouse
  <1>2. Grows
    BY DEF Grows, ledger, warehouse
  <1>3. RowsOK'
    BY <1>2, RowsSame DEF DeskInv
  <1>4. HeldOK'
    <2> SUFFICES ASSUME NEW q \in Requests PROVE HeldAs(q, pc[q], mem[q])'
      BY DEF HeldOK
    <2>1. PICK lq, mq : lq = pc[q] /\ mq = mem[q] /\ lq = pc'[q] /\ mq = mem'[q]
      OBVIOUS
    <2>2. HeldAs(q, lq, mq) /\ mq \in Memory /\ TypeOK
      BY <2>1 DEF DeskInv, HeldOK, TypeOK
    <2>3. HeldAs(q, lq, mq)'
      BY <1>1, <1>2, <2>2, HeldStable
    <2> QED BY <2>1, <2>3
  <1>5. MovedWasSigned'
    BY DEF DeskInv, MovedWasSigned, ledger, warehouse, Key, FullySigned, SignedByOthers
  <1> QED BY <1>1, <1>3, <1>4, <1>5 DEF DeskInv

LEMMA NextKeepsInv == DeskInv /\ [Next]_vars => DeskInv'
  <1> SUFFICES ASSUME DeskInv, [Next]_vars PROVE DeskInv'
    OBVIOUS
  <1>0. TypeOK
    BY DEF DeskInv
  <1>1. ASSUME NEW r \in Requests, Step(r) PROVE DeskInv'
    BY <1>1, StepKeepsInv
  <1>2. ASSUME NEW r \in Requests, StorageError(r) PROVE DeskInv'
    BY <1>0, <1>2, AbortKeeps DEF StorageError, TypeOK
  <1>3. ASSUME NEW r \in Requests, Cancel(r) PROVE DeskInv'
    BY <1>0, <1>3, EndKeeps DEF Cancel, TypeOK, Ended
  <1>4. CASE Tick
    BY <1>0, <1>4, IdleKeepsInv DEF Tick, TypeOK
  <1>5. CASE UNCHANGED vars
    BY <1>0, <1>5, IdleKeepsInv DEF vars, TypeOK
  <1> QED BY <1>1, <1>2, <1>3, <1>4, <1>5 DEF Next, Wait

-----------------------------------------------------------------------------
(* The results                                                             *)

LEMMA DeskInvariant == Spec => []DeskInv
  BY InitInv, NextKeepsInv, PTL DEF Spec

\* The state of the desk, what every request holds in memory included, is well
\* formed whatever the requests do.
THEOREM DeskTypeCorrect == Spec => []TypeOK
  <1>1. DeskInv => TypeOK
    BY DEF DeskInv
  <1> QED BY <1>1, DeskInvariant, PTL

\* No refund and no replacement leaves without the signatures its row needs, for
\* any number of concurrent requests, storage errors and cancelled runs.
THEOREM DeskMovesOnlySigned == Spec => []MovedWasSigned
  <1>1. DeskInv => MovedWasSigned
    BY DEF DeskInv
  <1> QED BY <1>1, DeskInvariant, PTL

\* A row that execute_case_action completed is always backed by its receipt.
THEOREM DeskCompletesWithReceipt == Spec => []CompletedHasReceipt
  <1>1. DeskInv => CompletedHasReceipt
    BY DEF DeskInv, RowsOK, RowOK, Receipted, CompletedHasReceipt
  <1> QED BY <1>1, DeskInvariant, PTL

-----------------------------------------------------------------------------
(* Every write that lands is a step of the row's life                      *)

\* save_action, when the version holds.
LEMMA SaveWrites ==
  ASSUME DeskInv, NEW r \in Requests, SaveAction(r)
  PROVE  /\ mem[r].aid \in DOMAIN actions /\ mem[r].act \in Rows
         /\ RowStep(actions[mem[r].aid], mem[r].act)
         /\ actions' = [actions EXCEPT ![mem[r].aid] = mem[r].act]
         /\ UNCHANGED <<ledger, warehouse>>
  <1>1. HeldAs(r, pc[r], mem[r]) /\ pc[r] \in {"save", "clear"}
    BY DEF DeskInv, HeldOK, SaveAction
  <1>2. Writable(mem[r].aid, mem[r].expected, mem[r].act)
    BY <1>1 DEF HeldAs
  <1> QED BY <1>2 DEF Writable, SaveAction, VersionHolds

\* Of the steps of a request only a save and an insert touch the rows.
LEMMA RowsTouched ==
  ASSUME [Next]_vars
  PROVE  \/ UNCHANGED actions
         \/ \E r \in Requests : SaveAction(r) \/ InsertAction(r)
  <1>1. ASSUME NEW r \in Requests,
               \/ ReadAction(r) \/ ReadActionCase(r) \/ ReadCase(r) \/ Reread(r)
               \/ CreateRefused(r) \/ Refuse(r) \/ ListActive(r) \/ ReapList(r) \/ ReapDone(r)
        PROVE  UNCHANGED actions
    BY <1>1 DEF ReadAction, ReadActionCase, ReadCase, Reread, CreateRefused, Refuse,
                ListActive, ReapList, ReapDone
  <1>2. ASSUME NEW r \in Requests,
               \/ CreateAction(r) \/ Approve(r) \/ Reject(r) \/ Pay(r) \/ Dispatch(r)
               \/ ReleaseInvalidated(r) \/ ReapRelease(r)
        PROVE  UNCHANGED actions
    BY <1>2 DEF CreateAction, Approve, Reject, Pay, Dispatch, ReleaseInvalidated, ReapRelease
  <1>3. ASSUME NEW r \in Requests,
               \/ InsertConflict(r) \/ SaveConflict(r) \/ CaseConflict(r)
               \/ Reassess(r) \/ UpdateCase(r) \/ AppendEvent(r)
        PROVE  UNCHANGED actions
    BY <1>3 DEF InsertConflict, SaveConflict, CaseConflict, Reassess, UpdateCase, WriteCase,
                AppendEvent
  <1>4. ASSUME NEW r \in Requests, StorageError(r) \/ Cancel(r) PROVE UNCHANGED actions
    BY <1>4 DEF StorageError, Cancel
  <1>5. CASE Tick \/ UNCHANGED vars
    BY <1>5 DEF Tick, vars
  <1>6. ASSUME NEW r \in Requests, Step(r), ~SaveAction(r), ~InsertAction(r)
        PROVE  UNCHANGED actions
    BY <1>1, <1>2, <1>3, <1>6 DEF Step
  <1> QED BY <1>4, <1>5, <1>6 DEF Next, Wait

\* No update is lost: every write to a row that lands is one step of its life.
THEOREM DeskRowLifecycle == Spec => RowLifecycle
  <1>1. ASSUME DeskInv, [Next]_vars
        PROVE  [\A i \in DOMAIN actions :
                   actions'[i] # actions[i] => RowStep(actions[i], actions'[i])]_vars
    <2> SUFFICES ASSUME NEW i \in DOMAIN actions, actions'[i] # actions[i]
                 PROVE  RowStep(actions[i], actions'[i])
      OBVIOUS
    <2>1. ASSUME NEW r \in Requests, SaveAction(r) PROVE RowStep(actions[i], actions'[i])
      BY <1>1, <2>1, SaveWrites DEF DeskInv, TypeOK
    <2>2. ASSUME NEW r \in Requests, InsertAction(r) PROVE RowStep(actions[i], actions'[i])
      BY <2>2 DEF InsertAction
    <2> QED BY <1>1, <2>1, <2>2, RowsTouched
  <1> QED BY <1>1, DeskInvariant, PTL DEF Spec, RowLifecycle

-----------------------------------------------------------------------------
(* Refinement: the payment adapter                                         *)

LEMMA AbortCalls ==
  ASSUME DeskInv, NEW r \in Requests, InFlight(r), Abort(r)
  PROVE  UNCHANGED ledger \/ \E o \in Orders, n \in Amounts : Ledger!Release(o, n)
  <1>1. HeldAs(r, pc[r], mem[r])
    BY DEF DeskInv, HeldOK
  <1>2. CASE Guarded(r)
    <2>1. mem[r].cas \in CaseRows /\ mem[r].act \in Rows
      BY <1>1, <1>2 DEF Guarded, HeldAs, Ended, Writable
    <2>2. mem[r].cas.order \in Orders /\ mem[r].act.amount \in Amounts
      BY <2>1 DEF CaseRows, Rows
    <2> QED BY <2>2 DEF Abort
  <1>3. CASE ~Guarded(r)
    BY <1>3 DEF Abort
  <1> QED BY <1>2, <1>3

\* One call of the adapter, or none, per step of a handler.
LEMMA OneCall ==
  ASSUME DeskInv, [Next]_vars
  PROVE  \/ UNCHANGED ledger
         \/ \E o \in Orders, n \in Amounts :
               \/ Ledger!Reserve(o, n) \/ Ledger!Release(o, n)
               \/ \E k \in PaymentKeys : Ledger!Capture(o, n, k)
  <1> DEFINE Called == \/ UNCHANGED ledger
                      \/ \E o \in Orders, n \in Amounts :
                            \/ Ledger!Reserve(o, n) \/ Ledger!Release(o, n)
                            \/ \E k \in PaymentKeys : Ledger!Capture(o, n, k)
  <1>0. TypeOK
    BY DEF DeskInv
  <1>1. ASSUME NEW r \in Requests, Abort(r), InFlight(r) PROVE Called
    BY <1>1, AbortCalls
  <1>2. ASSUME NEW r \in Requests, CreateAction(r) PROVE Called
    <2>1. HeldAs(r, "decide", mem[r]) /\ Kind[r] = "create"
      BY <1>2 DEF DeskInv, HeldOK, CreateAction
    <2>2. mem[r].cas \in CaseRows
      BY <2>1 DEF HeldAs, Ended
    <2>3. mem[r].cas.order \in Orders /\ NewAction(mem[r].cid, mem[r].cas).amount \in Amounts
      BY <2>2 DEF CaseRows, NewAction, Amounts
    <2> QED BY <1>2, <2>3 DEF CreateAction
  <1>3. ASSUME NEW r \in Requests, Approve(r) \/ Reject(r) \/ Pay(r) PROVE Called
    <2>1. pc[r] = "decide" /\ Kind[r] \in DeskKinds
      BY <1>3 DEF Approve, Reject, Pay, DeskKinds
    <2>2. /\ mem[r].cas.order \in Orders /\ mem[r].act.amount \in Amounts
          /\ mem[r].act.order \in Orders /\ Key(mem[r].act) \in PaymentKeys
      BY <2>1, DeciderKnows, KeyOfRow
    <2>3. CASE Approve(r)
      BY <2>2, <2>3 DEF Approve
    <2>4. CASE Reject(r)
      BY <2>2, <2>4 DEF Reject
    <2>5. CASE Pay(r)
      BY <2>2, <2>5 DEF Pay
    <2> QED BY <1>3, <2>3, <2>4, <2>5
  <1>4. ASSUME NEW r \in Requests, ReleaseInvalidated(r) PROVE Called
    <2>1. HeldAs(r, "reread", mem[r]) /\ Kind[r] = "supplement"
      BY <1>4 DEF DeskInv, HeldOK, ReleaseInvalidated
    <2>2. mem[r].cas \in CaseRows /\ mem[r].aid \in DOMAIN actions
      BY <2>1 DEF HeldAs, Ended
    <2>3. mem[r].cas.order \in Orders /\ actions[mem[r].aid].amount \in Amounts
      BY <2>2, FreshCopy DEF CaseRows, Rows
    <2> QED BY <1>4, <2>3 DEF ReleaseInvalidated
  <1>5. ASSUME NEW r \in Requests, ReapRelease(r) PROVE Called
    <2>1. PICK b \in mem[r].batch : Ledger!Release(b.order, b.act.amount)
      BY <1>5 DEF ReapRelease
    <2>2. b \in BatchItems
      BY <1>0 DEF TypeOK, Memory
    <2>3. b.order \in Orders /\ b.act.amount \in Amounts
      BY <2>2 DEF BatchItems, Rows
    <2> QED BY <2>1, <2>3
  <1>6. ASSUME NEW r \in Requests, SaveConflict(r) \/ InsertConflict(r) \/ CaseConflict(r)
        PROVE  Abort(r) /\ InFlight(r)
    BY <1>6 DEF SaveConflict, InsertConflict, CaseConflict, InFlight, Ended
  <1>7. ASSUME NEW r \in Requests, StorageError(r) PROVE Abort(r) /\ InFlight(r)
    BY <1>7 DEF StorageError
  <1>8. ASSUME NEW r \in Requests,
               \/ ReadAction(r) \/ ReadActionCase(r) \/ ReadCase(r) \/ CreateRefused(r)
               \/ InsertAction(r) \/ Dispatch(r) \/ Refuse(r) \/ SaveAction(r) \/ Reread(r)
               \/ ListActive(r) \/ Reassess(r) \/ UpdateCase(r) \/ AppendEvent(r)
               \/ ReapList(r) \/ ReapDone(r) \/ Cancel(r)
        PROVE  Called
    BY <1>8 DEF ReadAction, ReadActionCase, ReadCase, CreateRefused, InsertAction, Dispatch,
                Refuse, SaveAction, Reread, ListActive, Reassess, WriteCase, UpdateCase,
                AppendEvent, ReapList, ReapDone, Cancel
  <1>9. ASSUME NEW r \in Requests, Step(r) PROVE Called
    BY <1>1, <1>2, <1>3, <1>4, <1>5, <1>6, <1>8, <1>9 DEF Step
  <1>10. CASE Tick \/ UNCHANGED vars
    BY <1>10 DEF Tick, vars
  <1> QED BY <1>1, <1>7, <1>8, <1>9, <1>10 DEF Next, Wait

\* The desk, seen through the payment adapter's own state, is a run of the
\* adapter: nobody goes around reserve(), release() and refund().
THEOREM DeskImplementsLedger == Spec => ImplementsLedger
  <1>1. Init => Ledger!LedgerInit
    BY DEF Init, Ledger!LedgerInit
  <1>2. DeskInv /\ [Next]_vars => [Ledger!LedgerNext]_(Ledger!ledgerVars)
    <2> SUFFICES ASSUME DeskInv, [Next]_vars, ~ UNCHANGED ledger PROVE Ledger!LedgerNext
      BY DEF ledger, Ledger!ledgerVars
    <2> QED BY OneCall DEF Ledger!LedgerNext
  <1> QED BY <1>1, <1>2, DeskInvariant, PTL DEF Spec, ImplementsLedger, Ledger!LedgerSpec

LEMMA CallsConserve ==
  ASSUME DeskInv, [Next]_vars, Ledger!Conservation, Ledger!OneReceiptPerKey
  PROVE  Ledger!Conservation' /\ Ledger!OneReceiptPerKey'
  <1>1. TypeOK
    BY DEF DeskInv
  <1>2. CASE UNCHANGED ledger
    BY <1>2 DEF ledger, Ledger!Conservation, Ledger!OneReceiptPerKey
  <1>3. ASSUME NEW o \in Orders, NEW n \in Amounts, Ledger!Reserve(o, n) \/ Ledger!Release(o, n)
        PROVE  Ledger!Conservation' /\ Ledger!OneReceiptPerKey'
    <2>1. n \in Nat /\ Ledger!Released(o, n) \in Nat
      BY <1>1, AmountsPositive DEF TypeOK, Ledger!Released
    <2>2. Ledger!Conservation'
      BY <1>1, <1>3, <2>1, DeskAssumption
         DEF TypeOK, DeskAssumption, Ledger!Conservation, Ledger!Reserve, Ledger!Release
    <2>3. Ledger!OneReceiptPerKey'
      BY <1>3 DEF Ledger!OneReceiptPerKey, Ledger!Reserve, Ledger!Release
    <2> QED BY <2>2, <2>3
  <1>4. ASSUME NEW o \in Orders, NEW n \in Amounts, NEW k \in PaymentKeys,
               Ledger!Capture(o, n, k)
        PROVE  Ledger!Conservation' /\ Ledger!OneReceiptPerKey'
    <2>1. n \in Nat
      BY AmountsPositive
    <2>2. Ledger!Conservation'
      BY <1>1, <1>4, <2>1, DeskAssumption
         DEF TypeOK, DeskAssumption, Ledger!Conservation, Ledger!Capture
    <2>3. Ledger!OneReceiptPerKey'
      BY <1>4 DEF Ledger!OneReceiptPerKey, Ledger!Capture, Ledger!Paid
    <2> QED BY <2>2, <2>3
  <1> QED BY <1>2, <1>3, <1>4, OneCall

\* Whatever the handlers do, in whatever order and wherever they fail, no order
\* is refunded more than its balance and no key is paid twice.
THEOREM DeskConserves == Spec => [](Ledger!Conservation /\ Ledger!OneReceiptPerKey)
  <1>1. Init => Ledger!Conservation /\ Ledger!OneReceiptPerKey
    BY DeskAssumption DEF DeskAssumption, Init, Ledger!Conservation, Ledger!OneReceiptPerKey
  <1>2. DeskInv /\ [Next]_vars /\ Ledger!Conservation /\ Ledger!OneReceiptPerKey
          => Ledger!Conservation' /\ Ledger!OneReceiptPerKey'
    BY CallsConserve
  <1> QED BY <1>1, <1>2, DeskInvariant, PTL DEF Spec

-----------------------------------------------------------------------------
(* Refinement: the promise                                                 *)

Signed == {Key(actions[i]) : i \in {j \in DOMAIN actions : FullySigned(actions[j])}}
PaidKeys == {t.key : t \in transactions}

LEMMA SignedKeyTypes == TypeOK => Signed \subseteq PaymentKeys
  BY KeyOfRow DEF TypeOK, Signed

\* A save or an insert signs at most the key of the row it writes, and takes no
\* signed key away.
LEMMA WriteSigns ==
  ASSUME DeskInv, DeskInv', NEW r \in Requests, SaveAction(r) \/ InsertAction(r)
  PROVE  UNCHANGED PaidKeys /\ \E k \in PaymentKeys : Signed' \in {Signed, Signed \cup {k}}
  <1>1. UNCHANGED PaidKeys
    BY DEF SaveAction, InsertAction, PaidKeys, ledger
  <1>2. TypeOK /\ TypeOK'
    BY DEF DeskInv
  <1>3. ASSUME NEW i \in ActionIds, NEW n \in Rows, i \in DOMAIN actions',
               DOMAIN actions' = DOMAIN actions \cup {i}, actions'[i] = n,
               \A j \in DOMAIN actions \ {i} : actions'[j] = actions[j],
               i \in DOMAIN actions =>
                  Key(actions[i]) = Key(n) /\ (FullySigned(actions[i]) => FullySigned(n))
        PROVE  \E k \in PaymentKeys : Signed' \in {Signed, Signed \cup {k}}
    <2>1. Key(n) \in PaymentKeys
      BY KeyOfRow
    <2>2. Signed' = {Key(actions'[j]) : j \in {q \in DOMAIN actions' : FullySigned(actions'[q])}}
      BY DEF Signed, Key, FullySigned
    <2>3. CASE FullySigned(n)
      <3>1. Signed' = Signed \cup {Key(n)}
        BY <1>3, <2>2, <2>3 DEF Signed
      <3> QED BY <2>1, <3>1
    <2>4. CASE ~FullySigned(n)
      <3>1. Signed' = Signed
        BY <1>3, <2>2, <2>4 DEF Signed
      <3> QED BY <2>1, <3>1
    <2> QED BY <2>3, <2>4
  <1>4. CASE SaveAction(r)
    <2>1. PICK i, n : i = mem[r].aid /\ n = mem[r].act
      OBVIOUS
    <2>2. /\ i \in DOMAIN actions /\ n \in Rows /\ RowStep(actions[i], n)
          /\ actions' = [actions EXCEPT ![i] = n] /\ actions[i] \in Rows /\ i \in ActionIds
      BY <1>2, <1>4, <2>1, SaveWrites DEF TypeOK
    <2>3. Key(actions[i]) = Key(n) /\ (FullySigned(actions[i]) => FullySigned(n))
      BY <2>2, RowStepSigners DEF RowStep, SameContract, Key
    <2>4. /\ DOMAIN actions' = DOMAIN actions /\ actions'[i] = n
          /\ \A j \in DOMAIN actions \ {i} : actions'[j] = actions[j]
      BY <1>2, <2>2 DEF TypeOK
    <2> QED BY <1>1, <1>3, <2>2, <2>3, <2>4
  <1>5. CASE InsertAction(r)
    <2>0. PICK n : n = mem[r].act
      OBVIOUS
    <2>1. PICK i \in ActionIds \ DOMAIN actions :
             actions' = [j \in DOMAIN actions \cup {i} |-> IF j = i THEN n ELSE actions[j]]
      BY <1>5, <2>0 DEF InsertAction
    <2>2. /\ DOMAIN actions' = DOMAIN actions \cup {i} /\ actions'[i] = n
          /\ \A j \in DOMAIN actions : actions'[j] = actions[j]
      BY <2>1
    <2>3. n \in Rows
      BY <1>2, <2>2 DEF TypeOK
    <2> QED BY <1>1, <1>3, <2>2, <2>3
  <1> QED BY <1>4, <1>5

\* Of all steps only Pay issues a receipt, and only for a signed key.
LEMMA PaySigned ==
  ASSUME DeskInv, [Next]_vars
  PROVE  \/ UNCHANGED transactions
         \/ /\ UNCHANGED actions
            /\ \E k \in Signed : ~Ledger!Paid(k) /\ \E t : t.key = k /\ transactions' = transactions \cup {t}
  <1>1. CASE \E r \in Requests : Pay(r)
    <2>1. PICK r \in Requests : Pay(r)
      BY <1>1
    <2>2. PICK a : a = mem[r].act
      OBVIOUS
    <2>3. /\ pc[r] = "decide" /\ Kind[r] \in DeskKinds /\ UNCHANGED actions
          /\ a.status = "approved"
          /\ UNCHANGED ledger \/ Ledger!Capture(a.order, a.amount, Key(a))
      BY <2>1, <2>2 DEF Pay, DeskKinds, PayAllowed, ExecuteChecks
    <2>4. TypeOK /\ Copy(mem[r].aid, a) /\ mem[r].aid \in DOMAIN actions
      BY <2>2, <2>3, DeciderKnows
    <2>5. Key(a) \in Signed
      BY <2>3, <2>4, SignedCopy DEF Signed
    <2>6. CASE UNCHANGED ledger
      BY <2>6 DEF ledger
    <2>7. CASE Ledger!Capture(a.order, a.amount, Key(a))
      <3>1. PICK k : k = Key(a)
        OBVIOUS
      <3>2. PICK t : t = [key |-> k, order |-> a.order, amount |-> a.amount]
        OBVIOUS
      <3>3. ~Ledger!Paid(k) /\ transactions' = transactions \cup {t}
        BY <2>7, <3>1, <3>2 DEF Ledger!Capture
      <3>4. t.key = k
        BY <3>2
      <3> QED BY <2>3, <2>5, <3>1, <3>3, <3>4
    <2> QED BY <2>3, <2>6, <2>7
  <1>2. CASE ~ \E r \in Requests : Pay(r)
    <2>1. ASSUME NEW r \in Requests, Abort(r) PROVE UNCHANGED transactions
      BY <2>1 DEF Abort, ledger, Ledger!Release
    <2>2. ASSUME NEW r \in Requests,
                 \/ CreateAction(r) \/ Approve(r) \/ Reject(r)
                 \/ ReleaseInvalidated(r) \/ ReapRelease(r)
          PROVE  UNCHANGED transactions
      <3>1. \A o, n : Ledger!Reserve(o, n) \/ Ledger!Release(o, n) => UNCHANGED transactions
        BY DEF Ledger!Reserve, Ledger!Release
      <3>2. UNCHANGED ledger => UNCHANGED transactions
        BY DEF ledger
      <3> QED BY <2>2, <3>1, <3>2
              DEF CreateAction, Approve, Reject, ReleaseInvalidated, ReapRelease
    <2>3. ASSUME NEW r \in Requests,
                 \/ ReadAction(r) \/ ReadActionCase(r) \/ ReadCase(r) \/ CreateRefused(r)
                 \/ InsertAction(r) \/ Dispatch(r) \/ Refuse(r) \/ SaveAction(r) \/ Reread(r)
                 \/ ListActive(r) \/ Reassess(r) \/ UpdateCase(r) \/ AppendEvent(r)
                 \/ ReapList(r) \/ ReapDone(r) \/ Cancel(r)
          PROVE  UNCHANGED transactions
      BY <2>3 DEF ReadAction, ReadActionCase, ReadCase, CreateRefused, InsertAction, Dispatch,
                  Refuse, SaveAction, Reread, ListActive, Reassess, WriteCase, UpdateCase,
                  AppendEvent, ReapList, ReapDone, Cancel, ledger
    <2>4. ASSUME NEW r \in Requests,
                 SaveConflict(r) \/ InsertConflict(r) \/ CaseConflict(r) \/ StorageError(r)
          PROVE  Abort(r)
      BY <2>4 DEF SaveConflict, InsertConflict, CaseConflict, StorageError
    <2>5. CASE Tick \/ UNCHANGED vars
      BY <2>5 DEF Tick, vars, ledger
    <2>6. ASSUME NEW r \in Requests, Step(r) PROVE UNCHANGED transactions
      BY <1>2, <2>1, <2>2, <2>3, <2>4, <2>6 DEF Step
    <2> QED BY <2>1, <2>3, <2>4, <2>5, <2>6 DEF Next, Wait
  <1> QED BY <1>1, <1>2

\* The desk implements the promise: a payment is signed before it is paid, is
\* paid at most once, and neither is ever taken back.
THEOREM DeskKeepsPromise == Spec => KeepsPromise
  <1>1. Init => Promise!PromiseInit
    BY DEF Init, Promise!PromiseInit
  <1>2. DeskInv /\ DeskInv' /\ [Next]_vars => [Promise!PromiseNext]_(Promise!promiseVars)
    <2> SUFFICES ASSUME DeskInv, DeskInv', [Next]_vars
                 PROVE  \/ UNCHANGED <<Signed, PaidKeys>>
                        \/ \E k \in PaymentKeys :
                              \/ Signed' = Signed \cup {k} /\ UNCHANGED PaidKeys
                              \/ /\ k \in Signed \ PaidKeys
                                 /\ PaidKeys' = PaidKeys \cup {k} /\ UNCHANGED Signed
      BY DEF Promise!PromiseNext, Promise!Sign, Promise!Pay, Promise!promiseVars, Signed, PaidKeys
    <2>1. CASE \E r \in Requests : SaveAction(r) \/ InsertAction(r)
      BY <2>1, WriteSigns
    <2>2. CASE UNCHANGED actions
      <3>1. UNCHANGED Signed
        BY <2>2 DEF Signed, FullySigned, Key
      <3>2. CASE UNCHANGED transactions
        BY <3>1, <3>2 DEF PaidKeys
      <3>3. CASE ~ UNCHANGED transactions
        <4>0. PICK k \in Signed : /\ ~Ledger!Paid(k)
                                 /\ \E t : t.key = k /\ transactions' = transactions \cup {t}
          BY <3>3, PaySigned
        <4>1. PICK t : t.key = k /\ transactions' = transactions \cup {t}
          BY <4>0
        <4>2. k \in PaymentKeys
          BY SignedKeyTypes DEF DeskInv
        <4>3. k \notin PaidKeys /\ PaidKeys' = PaidKeys \cup {k}
          BY <4>0, <4>1 DEF PaidKeys, Ledger!Paid
        <4> QED BY <3>1, <4>2, <4>3
      <3> QED BY <3>2, <3>3
    <2> QED BY <2>1, <2>2, RowsTouched
  <1> QED BY <1>1, <1>2, DeskInvariant, PTL DEF Spec, KeepsPromise, Promise!PromiseSpec

-----------------------------------------------------------------------------
(* The warehouse                                                           *)

Shipments == IsFiniteSet(outbound) /\ ShippedOnce

\* dispatch charges the stock for a key it has not seen, and for no other.
LEMMA DispatchCharges ==
    ASSUME TypeOK, Shipments, NEW r \in Requests, Dispatch(r)
    PROVE  Shipments'
<1>1. PICK k : /\ k \in outbound \/ stock >= 1
               /\ stock' = IF k \in outbound THEN stock ELSE stock - 1
               /\ outbound' = outbound \cup {k}
  BY DEF Dispatch, DispatchAllowed, StockAfter
<1>2. /\ IsFiniteSet(outbound')
      /\ Cardinality(outbound') = IF k \in outbound THEN Cardinality(outbound)
                                                    ELSE Cardinality(outbound) + 1
  BY <1>1, FS_AddElement DEF Shipments
<1>3. Cardinality(outbound) \in Nat /\ stock \in Nat
  BY FS_CardinalityType DEF Shipments, TypeOK
<1> QED
  BY <1>1, <1>2, <1>3 DEF Shipments, ShippedOnce

\* Nothing but a dispatch touches the warehouse.
LEMMA WarehouseKept ==
    ASSUME [Next]_vars
    PROVE  UNCHANGED warehouse \/ \E r \in Requests : Dispatch(r)
<1>1. ASSUME NEW r \in Requests, Step(r)
      PROVE  UNCHANGED warehouse \/ Dispatch(r)
  BY <1>1, Zenon
     DEF Step, ReadAction, ReadActionCase, ReadCase, CreateAction, CreateRefused, InsertAction,
         InsertConflict, Approve, Reject, Pay, Refuse, SaveAction, SaveConflict, Reread, ListActive,
         ReleaseInvalidated, Reassess, WriteCase, UpdateCase, CaseConflict, AppendEvent, ReapList,
         ReapRelease, ReapDone
<1>2. ASSUME NEW r \in Requests, StorageError(r) \/ Cancel(r)
      PROVE  UNCHANGED warehouse
  BY <1>2, Zenon DEF StorageError, Cancel
<1>3. CASE Tick \/ Wait \/ UNCHANGED vars
  BY <1>3, Zenon DEF Tick, Wait, vars
<1> QED
  BY <1>1, <1>2, <1>3 DEF Next

\* ShippedOnce holds in every reachable state: however often execute is retried,
\* by however many requests at once, dispatch takes one unit from the stock per
\* idempotency key.
THEOREM DeskShipsOnce == Spec => []ShippedOnce
<1>1. Init => Shipments
  <2>1. IsFiniteSet({}) /\ Cardinality({}) = 0
    BY FS_EmptySet
  <2> QED
    BY <2>1, DeskAssumption DEF Init, Shipments, ShippedOnce, DeskAssumption
<1>2. TypeOK /\ Shipments /\ [Next]_vars => Shipments'
  <2> SUFFICES ASSUME TypeOK, Shipments, [Next]_vars PROVE Shipments'
    OBVIOUS
  <2>1. CASE UNCHANGED warehouse
    BY <2>1 DEF warehouse, Shipments, ShippedOnce
  <2> QED
    BY <2>1, WarehouseKept, DispatchCharges
<1>3. Shipments => ShippedOnce
  BY DEF Shipments
<1> QED
  BY <1>1, <1>2, <1>3, DeskTypeCorrect, PTL DEF Spec

-----------------------------------------------------------------------------
(* The books: what the reserved pool of an order is made of                *)

\* What is on file about a row, stored or about to be, while no supplement moves
\* a case to another order: a refund is pending without funds, or with a first
\* signature and the funds that came with it, which only the reaper takes away.
Filed(a) ==
    /\ a.order = Opening[a.case].order
    /\ a.type = "refund" => \E p \in Plans : p.type = "refund" /\ p.need = a.need
    /\ a.reserved => a.type = "refund"
    /\ a.status = "pending_approval" =>
          /\ ~a.auto
          /\ Len(a.signers) < a.need
          /\ a.reserved => a.signers # <<>>
          /\ a.type = "refund" /\ a.signers # <<>> /\ ~a.reserved => a.expires < now

\* What request r holds at label l in memory m.
HeldFiled(r, l, m) ==
    /\ Kind[r] # "reap" /\ l \notin Ended \cup {"idle", "readCase"} =>
          m.cas.order = Opening[m.cid].order
    /\ Kind[r] \in DeskKinds /\ l \in {"decide", "save"} => m.act.case = m.cid
    /\ Kind[r] \in DeskKinds /\ l \in {"readCase", "decide"} => Filed(m.act)
    /\ l \in {"insert", "save"} => Filed(m.act)
    /\ l = "insert" => /\ m.act.case = m.cid /\ m.act.status \in Active
                       /\ m.act.status = "approved" => m.act.reserved
    /\ l = "save" /\ Kind[r] = "approve" =>
          /\ m.act.status \in Active
          /\ m.act.signers # <<>> /\ Len(m.act.signers) <= m.act.need
          /\ m.act.reserved <=> m.act.type = "refund"
    /\ l = "save" /\ Kind[r] = "reject" => m.act.status = "rejected"
    /\ l = "save" /\ Kind[r] = "execute" => m.act.status = "completed"
    /\ l = "save" /\ Kind[r] = "reap" => ~m.act.reserved
    /\ \A b \in m.batch : Filed(b.act) /\ b.order = b.act.order /\ b.act.expires < now

Started == {r \in Requests : pc[r] # "idle"}

OneRowPerKey == \A i, j \in DOMAIN actions : Key(actions[i]) = Key(actions[j]) => i = j

OrdersStay == \A c \in Cases : cases[c].order = Opening[c].order

\* The rows, and the copies of them that requests hold, are in order.
BooksInv ==
    /\ IsFiniteSet(DOMAIN actions) /\ IsFiniteSet(Started)
    /\ OneRowPerKey
    /\ OrdersStay
    /\ \A i \in DOMAIN actions : Filed(actions[i])
    /\ \A r \in Requests : HeldFiled(r, pc[r], mem[r])

\* No case is supplemented with new evidence.
NoSupplement == \A r \in Requests : Kind[r] # "supplement"

\* Only request r moves.
Alone(r) == \A q \in Requests \ {r} : pc'[q] = pc[q] /\ mem'[q] = mem[q]

LEMMA FiledStable ==
  ASSUME NEW a, Filed(a), a.expires \in Nat, now \in Nat, now' \in Nat, now <= now'
  PROVE  Filed(a)'
  BY DEF Filed

\* What a request holds stays filed while the clock stands.
LEMMA HeldFiledSame ==
  ASSUME UNCHANGED now, NEW r, NEW l, NEW m, HeldFiled(r, l, m)
  PROVE  HeldFiled(r, l, m)'
  <1>1. \A a : Filed(a)' <=> Filed(a)
    BY DEF Filed
  <1> QED BY <1>1 DEF HeldFiled

LEMMA BlankFiled ==
  ASSUME NEW r, NEW l \in Ended
  PROVE  HeldFiled(r, l, Blank)
  BY DEF HeldFiled, Blank, Ended

\* A step of r that leaves the rows alone.
LEMMA BooksTurn ==
  ASSUME BooksInv, NEW r \in Requests, Alone(r), UNCHANGED <<actions, now>>, OrdersStay',
         NEW l, NEW m, pc'[r] = l, mem'[r] = m, HeldFiled(r, l, m)
  PROVE  BooksInv'
  <1>1. IsFiniteSet(Started')
    <2>1. Started' \subseteq Started \cup {r}
      BY DEF Started, Alone
    <2>2. IsFiniteSet(Started \cup {r})
      BY FS_AddElement DEF BooksInv
    <2> QED BY <2>1, <2>2, FS_Subset
  <1>2. \A i \in DOMAIN actions' : Filed(actions[i])'
    BY DEF BooksInv, Filed
  <1>3. ASSUME NEW q \in Requests PROVE HeldFiled(q, pc[q], mem[q])'
    <2>1. CASE q = r
      <3>1. HeldFiled(r, l, m)'
        BY HeldFiledSame
      <3> QED BY <2>1, <3>1
    <2>2. CASE q # r
      <3>1. PICK lq, mq : lq = pc[q] /\ mq = mem[q]
        OBVIOUS
      <3>2. HeldFiled(q, lq, mq)
        BY <3>1 DEF BooksInv
      <3>3. HeldFiled(q, lq, mq)'
        BY <3>2, HeldFiledSame
      <3>4. lq = pc'[q] /\ mq = mem'[q]
        BY <2>2, <3>1 DEF Alone
      <3> QED BY <3>3, <3>4
    <2> QED BY <2>1, <2>2
  <1>4. OneRowPerKey' /\ IsFiniteSet(DOMAIN actions')
    BY DEF BooksInv, OneRowPerKey, Key
  <1> QED BY <1>1, <1>2, <1>3, <1>4 DEF BooksInv

\* A request that ends.
LEMMA BooksEnd ==
  ASSUME BooksInv, TypeOK, NEW r \in Requests, NEW l \in Ended, End(r, l),
         UNCHANGED <<actions, now>>, OrdersStay'
  PROVE  BooksInv'
  <1>1. Alone(r) /\ pc'[r] = l /\ mem'[r] = Blank
    BY DEF TypeOK, End, Goto, Alone
  <1> QED BY <1>1, BlankFiled, BooksTurn

LEMMA OrdersSame == OrdersStay /\ UNCHANGED cases => OrdersStay'
  BY DEF OrdersStay

-----------------------------------------------------------------------------
(* The books: one lemma per action                                         *)

LEMMA ReadsFiled ==
  ASSUME DeskInv, BooksInv, NoSupplement, NEW r \in Requests,
         ReadAction(r) \/ ReadActionCase(r) \/ ReadCase(r) \/ Reread(r)
  PROVE  BooksInv'
  <1>0. /\ TypeOK /\ OrdersStay /\ UNCHANGED <<cases, actions, now>> /\ mem[r] \in Memory
        /\ HeldAs(r, pc[r], mem[r]) /\ HeldFiled(r, pc[r], mem[r])
    BY DEF DeskInv, HeldOK, BooksInv, TypeOK, ReadAction, ReadActionCase, ReadCase, Reread
  <1>1. PICK m : m = mem'[r]
    OBVIOUS
  <1>2. PICK o : o = mem[r]
    OBVIOUS
  <1>3. CASE ReadAction(r)
    <2>1. PICK i \in DOMAIN actions :
             mem' = [mem EXCEPT ![r] = [Blank EXCEPT !.aid = i, !.act = actions[i]]]
      BY <1>3 DEF ReadAction
    <2>2. /\ Alone(r) /\ pc'[r] = "readCase" /\ m.act = actions[i] /\ m.batch = {}
      BY <1>0, <1>1, <1>3, <2>1 DEF ReadAction, Goto, Alone, TypeOK, Blank
    <2>3. HeldFiled(r, "readCase", m)
      BY <2>2 DEF HeldFiled, BooksInv
    <2> QED BY <1>0, <1>1, <2>2, <2>3, OrdersSame, BooksTurn
  <1>4. CASE ReadActionCase(r)
    <2>1. Kind[r] \in DeskKinds /\ Copy(o.aid, o.act)
      BY <1>0, <1>2, <1>4 DEF ReadActionCase, HeldAs
    <2>2. o.act.case \in Cases
      BY <2>1 DEF Copy, Rows
    <2>3. /\ Alone(r) /\ pc'[r] = "decide" /\ m.act = o.act /\ m.batch = o.batch
          /\ m.cid = o.act.case /\ m.cas = cases[o.act.case]
      BY <1>0, <1>1, <1>2, <1>4 DEF ReadActionCase, Goto, Alone, TypeOK, Memory
    <2>4. HeldFiled(r, "decide", m)
      BY <1>0, <1>2, <1>4, <2>1, <2>2, <2>3
         DEF HeldFiled, ReadActionCase, OrdersStay
    <2> QED BY <1>0, <1>1, <2>3, <2>4, OrdersSame, BooksTurn
  <1>5. CASE ReadCase(r)
    <2>1. PICK c \in Cases : mem' = [mem EXCEPT ![r] = [Blank EXCEPT !.cid = c, !.cas = cases[c]]]
      BY <1>5 DEF ReadCase
    <2>2. Kind[r] = "create"
      BY <1>5 DEF ReadCase, NoSupplement
    <2>3. /\ Alone(r) /\ pc'[r] = "decide" /\ m.cid = c /\ m.cas = cases[c] /\ m.batch = {}
      BY <1>0, <1>1, <1>5, <2>1, <2>2 DEF ReadCase, Goto, Alone, TypeOK, Blank
    <2>4. HeldFiled(r, "decide", m)
      BY <1>0, <2>2, <2>3 DEF HeldFiled, OrdersStay, DeskKinds
    <2> QED BY <1>0, <1>1, <2>3, <2>4, OrdersSame, BooksTurn
  <1>6. CASE Reread(r)
    <2>1. PICK l : l = IF Kind[r] \in {"approve", "reject"} THEN "event" ELSE "updateCase"
      OBVIOUS
    <2>2. /\ Alone(r) /\ pc'[r] = l /\ m.cid = o.cid /\ m.cas = o.cas /\ m.batch = o.batch
      BY <1>0, <1>1, <1>2, <1>6, <2>1 DEF Reread, Goto, Alone, TypeOK, Memory
    <2>3. Kind[r] # "reap" /\ l \in {"event", "updateCase"} /\ pc[r] \in {"reread", "refresh"}
      BY <1>0, <1>6, <2>1 DEF Reread, HeldAs, DeskKinds
    <2>4. HeldFiled(r, l, m)
      BY <1>0, <1>2, <2>2, <2>3 DEF HeldFiled, Ended
    <2> QED BY <1>0, <1>1, <2>2, <2>4, OrdersSame, BooksTurn
  <1> QED BY <1>3, <1>4, <1>5, <1>6

LEMMA CreateFiled ==
  ASSUME DeskInv, BooksInv, NEW r \in Requests, CreateAction(r)
  PROVE  BooksInv'
  <1>1. PICK o : o = mem[r]
    OBVIOUS
  <1>2. PICK a : a = NewAction(o.cid, o.cas)
    OBVIOUS
  <1>3. PICK m : m = mem'[r]
    OBVIOUS
  <1>4. /\ TypeOK /\ OrdersStay /\ UNCHANGED <<cases, actions, now>> /\ o \in Memory
        /\ HeldAs(r, "decide", o) /\ HeldFiled(r, "decide", o) /\ Kind[r] = "create"
    BY <1>1 DEF DeskInv, HeldOK, BooksInv, TypeOK, CreateAction
  <1>5. o.cid \in Cases /\ o.cas \in CaseRows /\ o.cas.order = Opening[o.cid].order
    BY <1>4 DEF HeldAs, HeldFiled, Ended
  <1>6. o.cas.plan \in Plans /\ o.cas.plan \in PlanShape
    BY <1>5, DeskAssumption DEF CaseRows, DeskAssumption
  <1>7. /\ a.case = o.cid /\ a.order = o.cas.order /\ a.type = o.cas.plan.type
        /\ a.type = "refund" => a.need = o.cas.plan.need
        /\ a.auto <=> (a.type = "refund" /\ o.cas.plan.auto)
        /\ a.signers = <<>> /\ a.reserved = a.auto /\ a.need \in {1, 2}
        /\ a.status = IF a.auto THEN "approved" ELSE "pending_approval"
    BY <1>2, <1>6 DEF NewAction, PlanShape
  <1>8. Filed(a)
    <2>1. a.type = "refund" => \E p \in Plans : p.type = "refund" /\ p.need = a.need
      BY <1>6, <1>7
    <2>2. Len(a.signers) < a.need
      BY <1>7
    <2> QED BY <1>5, <1>7, <2>1, <2>2 DEF Filed
  <1>9. /\ Alone(r) /\ pc'[r] = "insert" /\ m.act = a /\ m.batch = o.batch
        /\ m.cid = o.cid /\ m.cas = o.cas
    BY <1>1, <1>2, <1>3, <1>4 DEF CreateAction, Goto, Alone, TypeOK, Memory
  <1>10. HeldFiled(r, "insert", m)
    BY <1>4, <1>5, <1>7, <1>8, <1>9 DEF HeldFiled, DeskKinds, Active
  <1> QED BY <1>3, <1>4, <1>9, <1>10, OrdersSame, BooksTurn

\* A decision computes from a copy the row to save, on the same order.
LEMMA DecisionFiled ==
  ASSUME DeskInv, BooksInv, NEW r \in Requests, pc[r] = "decide", Kind[r] \in DeskKinds,
         NEW n, NEW v, mem' = [mem EXCEPT ![r].act = n, ![r].expected = v], Goto(r, "save"),
         UNCHANGED <<cases, actions, now>>,
         n.case = mem[r].act.case, Filed(n),
         Kind[r] = "approve" => /\ n.status \in Active
                                /\ n.signers # <<>> /\ Len(n.signers) <= n.need
                                /\ n.reserved <=> n.type = "refund",
         Kind[r] = "reject" => n.status = "rejected",
         Kind[r] = "execute" => n.status = "completed"
  PROVE  BooksInv'
  <1>1. PICK o : o = mem[r]
    OBVIOUS
  <1>2. PICK m : m = mem'[r]
    OBVIOUS
  <1>3. /\ TypeOK /\ OrdersStay /\ o \in Memory /\ HeldFiled(r, "decide", o)
    BY <1>1 DEF DeskInv, BooksInv, TypeOK
  <1>4. /\ Alone(r) /\ pc'[r] = "save" /\ m.act = n /\ m.batch = o.batch
        /\ m.cid = o.cid /\ m.cas = o.cas
    BY <1>1, <1>2, <1>3 DEF Goto, Alone, TypeOK, Memory
  <1>5. o.cas.order = Opening[o.cid].order /\ o.act.case = o.cid /\ Kind[r] # "reap"
    BY <1>3 DEF HeldFiled, Ended, DeskKinds
  <1>6. HeldFiled(r, "save", m)
    BY <1>1, <1>3, <1>4, <1>5 DEF HeldFiled
  <1> QED BY <1>2, <1>3, <1>4, <1>6, OrdersSame, BooksTurn

\* Approve, with the approver u, the version v sent and the row n to save.
ApproveAs(r, a, u, v, n) ==
    /\ u \in Users /\ v \in Versions /\ n \in Rows
    /\ CheckDecision(a, u, v) /\ v = a.version
    /\ IF NeedsFunds(a) THEN Ledger!Reserve(mem[r].cas.order, a.amount) ELSE UNCHANGED ledger
    /\ SameContract(a, n) /\ n.signers = Append(a.signers, u)
    /\ n.status = IF Len(n.signers) >= a.need THEN "approved" ELSE "pending_approval"
    /\ n.reserved = (a.type = "refund")
    /\ mem' = [mem EXCEPT ![r].act = n, ![r].expected = v]

LEMMA ApproveParts ==
  ASSUME DeskInv, NEW r \in Requests, Approve(r), NEW a, a = mem[r].act
  PROVE  \E u, v, n : ApproveAs(r, a, u, v, n)
  <1>1. PICK u \in Users, v \in Versions :
           /\ ApproveAllowed(r, u, v)
           /\ IF NeedsFunds(mem[r].act) THEN Ledger!Reserve(mem[r].cas.order, mem[r].act.amount)
                                        ELSE UNCHANGED ledger
           /\ mem' = [mem EXCEPT
                 ![r].act = [Approved(mem[r].act, u) EXCEPT !.reserved = mem[r].act.type = "refund"],
                 ![r].expected = v]
    BY Zenon DEF Approve
  <1>2. PICK n : n = [Approved(a, u) EXCEPT !.reserved = (a.type = "refund")]
    OBVIOUS
  <1>3. a \in Rows /\ RowOK(a)
    BY DeciderKnows DEF Approve, DeskKinds, Copy
  <1>4. CheckDecision(a, u, v) /\ ~HasSigned(a, u) /\ v = a.version
    BY <1>1 DEF ApproveAllowed, CheckDecision
  <1>5. n \in Rows
    BY <1>2, <1>3, <1>4, SignatureStep
  <1>6. /\ SameContract(a, n) /\ n.signers = Append(a.signers, u)
        /\ n.status = IF Len(n.signers) >= a.need THEN "approved" ELSE "pending_approval"
        /\ n.reserved = (a.type = "refund")
    BY <1>2, <1>3 DEF Approved, SameContract, Rows
  <1>7. /\ IF NeedsFunds(a) THEN Ledger!Reserve(mem[r].cas.order, a.amount)
                            ELSE UNCHANGED ledger
        /\ mem' = [mem EXCEPT ![r].act = n, ![r].expected = v]
    BY <1>1, <1>2, Zenon
  <1>8. ApproveAs(r, a, u, v, n)
    BY <1>4, <1>5, <1>6, <1>7, Zenon DEF ApproveAs
  <1> QED BY <1>8, Zenon

LEMMA ApproveFiled ==
  ASSUME DeskInv, BooksInv, NEW r \in Requests, Approve(r)
  PROVE  BooksInv'
  <1>1. PICK a : a = mem[r].act
    OBVIOUS
  <1>0. PICK u, v, n : ApproveAs(r, a, u, v, n)
    BY <1>1, ApproveParts
  <1>2. /\ CheckDecision(a, u, v) /\ n \in Rows
        /\ SameContract(a, n) /\ n.signers = Append(a.signers, u)
        /\ n.status = IF Len(n.signers) >= a.need THEN "approved" ELSE "pending_approval"
        /\ n.reserved = (a.type = "refund")
        /\ mem' = [mem EXCEPT ![r].act = n, ![r].expected = v]
        /\ u \in Users
    BY <1>0 DEF ApproveAs
  <1>3. /\ pc[r] = "decide" /\ Kind[r] = "approve" /\ Kind[r] \in DeskKinds /\ Goto(r, "save")
        /\ UNCHANGED <<cases, actions, now>>
    BY DEF Approve, DeskKinds
  <1>4. a \in Rows /\ Filed(a) /\ a.status = "pending_approval"
    BY <1>1, <1>2, <1>3, DeciderKnows DEF BooksInv, HeldFiled, CheckDecision
  <1>5. /\ a.signers \in Seq(Users) /\ Len(n.signers) = Len(a.signers) + 1
        /\ Len(a.signers) \in Nat /\ n.signers # <<>> /\ a.need \in {1, 2}
    BY <1>2, <1>4 DEF Rows
  <1>6. Filed(n) /\ Len(n.signers) <= n.need /\ n.status \in Active
    <2>1. /\ n.order = a.order /\ n.case = a.case /\ n.type = a.type /\ n.need = a.need
          /\ n.auto = a.auto
      BY <1>2 DEF SameContract
    <2>2. n.status \in Active /\ (n.status = "pending_approval" => Len(n.signers) < n.need)
      BY <1>2, <1>5, <2>1 DEF Active
    <2>3. Len(a.signers) < a.need /\ ~a.auto
      BY <1>4 DEF Filed
    <2>4. Len(n.signers) <= n.need
      BY <1>5, <2>1, <2>3
    <2>5. Filed(n)
      BY <1>2, <1>4, <1>5, <2>1, <2>2, <2>3 DEF Filed
    <2> QED BY <2>2, <2>4, <2>5
  <1>7. n.reserved <=> n.type = "refund"
    BY <1>2 DEF SameContract
  <1>8. n.case = mem[r].act.case
    BY <1>1, <1>2 DEF SameContract
  <1> QED BY <1>2, <1>3, <1>5, <1>6, <1>7, <1>8, DecisionFiled

\* Reject, with the version v sent and the row n to save.
RejectAs(r, a, v, n) ==
    /\ v \in Versions /\ n \in Rows
    /\ a.status = "pending_approval" /\ v = a.version /\ now < a.expires
    /\ IF a.type = "refund" /\ a.reserved
         THEN Ledger!Release(mem[r].cas.order, a.amount) ELSE UNCHANGED ledger
    /\ SameContract(a, n) /\ n.status = "rejected" /\ n.reserved = FALSE
    /\ mem' = [mem EXCEPT ![r].act = n, ![r].expected = v]

LEMMA RejectParts ==
  ASSUME DeskInv, NEW r \in Requests, Reject(r), NEW a, a = mem[r].act
  PROVE  \E v, n : RejectAs(r, a, v, n)
  <1>1. PICK u \in Users, v \in Versions :
           /\ CheckDecision(a, u, v)
           /\ IF a.type = "refund" /\ a.reserved
                THEN Ledger!Release(mem[r].cas.order, a.amount) ELSE UNCHANGED ledger
           /\ mem' = [mem EXCEPT ![r].act = [a EXCEPT !.status = "rejected", !.version = @ + 1,
                                                      !.reserved = FALSE],
                                 ![r].expected = v]
    BY DEF Reject
  <1>2. PICK n : n = [a EXCEPT !.status = "rejected", !.version = @ + 1, !.reserved = FALSE]
    OBVIOUS
  <1>3. a \in Rows
    BY DeciderKnows DEF Reject, DeskKinds
  <1>4. /\ n \in Rows /\ SameContract(a, n) /\ n.status = "rejected" /\ n.reserved = FALSE
    <2>1. a.version + 1 \in Nat /\ "rejected" \in ActionStatus
      BY <1>3 DEF Rows, ActionStatus
    <2>2. n \in Rows
      BY <1>2, <1>3, <2>1 DEF Rows
    <2> QED BY <1>2, <1>3, <2>2 DEF SameContract, Rows
  <1>5. a.status = "pending_approval" /\ v = a.version /\ now < a.expires
    BY <1>1 DEF CheckDecision
  <1>6. RejectAs(r, a, v, n)
    BY <1>1, <1>2, <1>4, <1>5, Zenon DEF RejectAs
  <1> QED BY <1>6, Zenon

LEMMA RejectFiled ==
  ASSUME DeskInv, BooksInv, NEW r \in Requests, Reject(r)
  PROVE  BooksInv'
  <1>1. PICK a : a = mem[r].act
    OBVIOUS
  <1>0. PICK v, n : RejectAs(r, a, v, n)
    BY <1>1, RejectParts
  <1>2. /\ SameContract(a, n) /\ n.status = "rejected" /\ n.reserved = FALSE
        /\ mem' = [mem EXCEPT ![r].act = n, ![r].expected = v]
    BY <1>0 DEF RejectAs
  <1>3. /\ pc[r] = "decide" /\ Kind[r] = "reject" /\ Kind[r] \in DeskKinds /\ Goto(r, "save")
        /\ UNCHANGED <<cases, actions, now>>
    BY DEF Reject, DeskKinds
  <1>4. Filed(a)
    BY <1>1, <1>3 DEF BooksInv, HeldFiled
  <1>5. Filed(n) /\ n.case = mem[r].act.case
    BY <1>1, <1>2, <1>4 DEF Filed, SameContract
  <1> QED BY <1>2, <1>3, <1>5, DecisionFiled

LEMMA ExecuteFiled ==
  ASSUME DeskInv, BooksInv, NEW r \in Requests, Pay(r) \/ Dispatch(r)
  PROVE  BooksInv'
  <1>1. PICK a : a = mem[r].act
    OBVIOUS
  <1>2. PICK v : mem' = [mem EXCEPT ![r].act = Completed(a), ![r].expected = v]
    BY <1>1 DEF Pay, Dispatch
  <1>3. /\ pc[r] = "decide" /\ Kind[r] = "execute" /\ Kind[r] \in DeskKinds /\ Goto(r, "save")
        /\ UNCHANGED <<cases, actions, now>>
    BY DEF Pay, Dispatch, DeskKinds
  <1>4. a \in Rows /\ Filed(a)
    BY <1>1, <1>3, DeciderKnows DEF BooksInv, HeldFiled
  <1>5. PICK n : n = Completed(a)
    OBVIOUS
  <1>6. SameContract(a, n) /\ n.status = "completed" /\ n.reserved = FALSE
    BY <1>4, <1>5 DEF SameContract, Rows, Completed
  <1>7. Filed(n) /\ n.case = mem[r].act.case
    BY <1>1, <1>4, <1>6 DEF Filed, SameContract
  <1> QED BY <1>2, <1>3, <1>5, <1>6, <1>7, DecisionFiled

LEMMA ReapListFiled ==
  ASSUME DeskInv, BooksInv, NEW r \in Requests, ReapList(r)
  PROVE  BooksInv'
  <1>1. PICK m : m = mem'[r]
    OBVIOUS
  <1>2. /\ TypeOK /\ OrdersStay /\ UNCHANGED <<cases, actions, now>> /\ mem[r] \in Memory
        /\ Kind[r] = "reap"
    BY DEF DeskInv, BooksInv, TypeOK, ReapList
  <1>3. /\ Alone(r) /\ pc'[r] = "next"
        /\ m.batch = {[aid |-> i, act |-> actions[i], order |-> cases[actions[i].case].order] :
                         i \in {j \in DOMAIN actions : Expired(actions[j])}}
    BY <1>1, <1>2 DEF ReapList, Goto, Alone, TypeOK, Memory
  <1>4. ASSUME NEW b \in m.batch
        PROVE  Filed(b.act) /\ b.order = b.act.order /\ b.act.expires < now
    <2>1. PICK i \in DOMAIN actions :
             /\ Expired(actions[i])
             /\ b = [aid |-> i, act |-> actions[i], order |-> cases[actions[i].case].order]
      BY <1>3, <1>4
    <2>2. actions[i].case \in Cases /\ Filed(actions[i])
      BY <1>2 DEF TypeOK, Rows, BooksInv
    <2>3. b.act = actions[i] /\ b.order = cases[actions[i].case].order
      BY <2>1
    <2> QED BY <1>2, <2>1, <2>2, <2>3 DEF OrdersStay, Filed, Expired
  <1>5. HeldFiled(r, "next", m)
    BY <1>2, <1>4 DEF HeldFiled, DeskKinds
  <1> QED BY <1>1, <1>2, <1>3, <1>5, OrdersSame, BooksTurn

\* ReapRelease, with the item b of the batch and the row n to save.
ReapAs(r, b, n) ==
    /\ b \in mem[r].batch /\ b \in BatchItems /\ Copy(b.aid, b.act)
    /\ Filed(b.act) /\ b.order = b.act.order /\ b.act.expires < now
    /\ Ledger!Release(b.order, b.act.amount)
    /\ n \in Rows /\ SameContract(b.act, n)
    /\ n.status = b.act.status /\ n.signers = b.act.signers /\ n.reserved = FALSE
    /\ mem'[r].aid = b.aid /\ mem'[r].expected = b.act.version /\ mem'[r].act = n
    /\ mem'[r].batch \subseteq mem[r].batch
    /\ Alone(r) /\ pc'[r] = "save"

LEMMA ReapParts ==
  ASSUME DeskInv, BooksInv, NEW r \in Requests, ReapRelease(r)
  PROVE  \E b, n : ReapAs(r, b, n)
  <1>1. PICK b \in mem[r].batch :
           /\ Ledger!Release(b.order, b.act.amount)
           /\ mem' = [mem EXCEPT ![r].aid = b.aid, ![r].expected = b.act.version,
                                 ![r].act = [b.act EXCEPT !.reserved = FALSE],
                                 ![r].batch = @ \ {b}]
    BY DEF ReapRelease
  <1>2. PICK n : n = [b.act EXCEPT !.reserved = FALSE]
    OBVIOUS
  <1>3. /\ TypeOK /\ mem[r] \in Memory /\ HeldAs(r, "next", mem[r])
        /\ HeldFiled(r, "next", mem[r]) /\ Goto(r, "save")
    BY DEF DeskInv, HeldOK, BooksInv, TypeOK, ReapRelease
  <1>4. /\ b \in BatchItems /\ Copy(b.aid, b.act) /\ b.act \in Rows
        /\ Filed(b.act) /\ b.order = b.act.order /\ b.act.expires < now
    BY <1>3 DEF HeldAs, HeldFiled, Memory, BatchItems
  <1>5. /\ n \in Rows /\ SameContract(b.act, n)
        /\ n.status = b.act.status /\ n.signers = b.act.signers /\ n.reserved = FALSE
    BY <1>2, <1>4 DEF Rows, SameContract
  <1>6. /\ mem'[r].aid = b.aid /\ mem'[r].expected = b.act.version /\ mem'[r].act = n
        /\ mem'[r].batch \subseteq mem[r].batch
    BY <1>1, <1>2, <1>3 DEF TypeOK, Memory
  <1>7. Alone(r) /\ pc'[r] = "save"
    BY <1>1, <1>3 DEF TypeOK, Goto, Alone
  <1>8. ReapAs(r, b, n)
    BY <1>1, <1>4, <1>5, <1>6, <1>7 DEF ReapAs
  <1> QED BY <1>8, Zenon

LEMMA ReapReleaseFiled ==
  ASSUME DeskInv, BooksInv, NEW r \in Requests, ReapRelease(r)
  PROVE  BooksInv'
  <1>1. PICK b, n : ReapAs(r, b, n)
    BY ReapParts
  <1>2. PICK m : m = mem'[r]
    OBVIOUS
  <1>3. /\ OrdersStay /\ UNCHANGED <<cases, actions, now>> /\ HeldFiled(r, "next", mem[r])
        /\ Kind[r] = "reap"
    BY DEF DeskInv, HeldOK, HeldAs, BooksInv, ReapRelease
  <1>4. /\ SameContract(b.act, n) /\ Filed(b.act) /\ b.act.expires < now
        /\ n.status = b.act.status /\ n.signers = b.act.signers /\ n.reserved = FALSE
        /\ m.act = n /\ m.batch \subseteq mem[r].batch /\ Alone(r) /\ pc'[r] = "save"
    BY <1>1, <1>2 DEF ReapAs
  <1>5. Filed(n)
    BY <1>4 DEF Filed, SameContract
  <1>6. HeldFiled(r, "save", m)
    BY <1>3, <1>4, <1>5 DEF HeldFiled, DeskKinds
  <1> QED BY <1>2, <1>3, <1>4, <1>6, OrdersSame, BooksTurn

LEMMA UpdateCaseFiled ==
  ASSUME DeskInv, BooksInv, NEW r \in Requests, UpdateCase(r)
  PROVE  BooksInv'
  <1>1. PICK o : o = mem[r]
    OBVIOUS
  <1>2. /\ TypeOK /\ OrdersStay /\ UNCHANGED <<actions, now>> /\ pc[r] = "updateCase"
        /\ HeldAs(r, "updateCase", o) /\ HeldFiled(r, "updateCase", o) /\ Kind[r] # "reap"
    BY <1>1 DEF DeskInv, HeldOK, BooksInv, UpdateCase, WriteCase, DeskKinds
  <1>3. o.cid \in Cases /\ o.cas.order = Opening[o.cid].order
    BY <1>2 DEF HeldAs, HeldFiled, Ended
  <1>4. PICK s, n : cases' = [cases EXCEPT ![o.cid] =
                        [order |-> o.cas.order, plan |-> o.cas.plan, status |-> s, version |-> n]]
    BY <1>1 DEF UpdateCase, WriteCase
  <1>5. OrdersStay'
    BY <1>2, <1>3, <1>4 DEF OrdersStay, TypeOK
  <1>6. CASE Kind[r] \in {"create", "execute"}
    <2>1. Alone(r) /\ pc'[r] = "event" /\ mem'[r] = o
      BY <1>1, <1>2, <1>6 DEF UpdateCase, Goto, Alone, TypeOK
    <2>2. HeldFiled(r, "event", o)
      BY <1>2 DEF HeldFiled, Ended
    <2> QED BY <1>2, <1>5, <2>1, <2>2, BooksTurn
  <1>7. CASE Kind[r] \notin {"create", "execute"}
    BY <1>2, <1>5, <1>7, BooksEnd DEF UpdateCase, Ended
  <1> QED BY <1>6, <1>7

LEMMA AppendEventFiled ==
  ASSUME DeskInv, BooksInv, NoSupplement, NEW r \in Requests, AppendEvent(r)
  PROVE  BooksInv'
  <1>1. PICK o : o = mem[r]
    OBVIOUS
  <1>2. /\ TypeOK /\ OrdersStay /\ OrdersStay' /\ UNCHANGED <<actions, now>>
        /\ HeldAs(r, pc[r], o) /\ HeldFiled(r, pc[r], o) /\ Kind[r] # "supplement"
    BY <1>1, OrdersSame DEF DeskInv, HeldOK, BooksInv, AppendEvent, NoSupplement
  <1>3. pc[r] = "event"
    BY <1>2 DEF HeldAs, AppendEvent
  <1>4. CASE Kind[r] \in {"approve", "reject"}
    <2>1. Alone(r) /\ pc'[r] = "updateCase" /\ mem'[r] = o
      BY <1>1, <1>2, <1>4 DEF AppendEvent, Goto, Alone, TypeOK
    <2>2. HeldFiled(r, "updateCase", o)
      BY <1>2, <1>3, <1>4 DEF HeldFiled, Ended
    <2> QED BY <1>2, <2>1, <2>2, BooksTurn
  <1>5. CASE Kind[r] \notin {"approve", "reject"}
    BY <1>2, <1>5, BooksEnd DEF AppendEvent, Ended
  <1> QED BY <1>4, <1>5

\* A step of r that writes row i, new or old.
LEMMA BooksWrite ==
  ASSUME BooksInv, OneRowPerKey', NEW r \in Requests, Alone(r), UNCHANGED <<cases, now>>,
         NEW i, NEW n, Filed(n),
         DOMAIN actions' = DOMAIN actions \cup {i}, actions'[i] = n,
         \A j \in DOMAIN actions \ {i} : actions'[j] = actions[j],
         NEW l, NEW m, pc'[r] = l, mem'[r] = m, HeldFiled(r, l, m)
  PROVE  BooksInv'
  <1>1. IsFiniteSet(Started')
    <2>1. Started' \subseteq Started \cup {r}
      BY DEF Started, Alone
    <2>2. IsFiniteSet(Started \cup {r})
      BY FS_AddElement DEF BooksInv
    <2> QED BY <2>1, <2>2, FS_Subset
  <1>2. ASSUME NEW j \in DOMAIN actions' PROVE Filed(actions[j])'
    <2>1. PICK a : a = actions'[j]
      OBVIOUS
    <2>2. Filed(a)
      BY <2>1 DEF BooksInv
    <2>3. Filed(a)'
      BY <2>2 DEF Filed
    <2> QED BY <2>1, <2>3
  <1>3. ASSUME NEW q \in Requests PROVE HeldFiled(q, pc[q], mem[q])'
    <2>1. CASE q = r
      <3>1. HeldFiled(r, l, m)'
        BY HeldFiledSame
      <3> QED BY <2>1, <3>1
    <2>2. CASE q # r
      <3>1. PICK lq, mq : lq = pc[q] /\ mq = mem[q]
        OBVIOUS
      <3>2. HeldFiled(q, lq, mq)
        BY <3>1 DEF BooksInv
      <3>3. HeldFiled(q, lq, mq)'
        BY <3>2, HeldFiledSame
      <3>4. lq = pc'[q] /\ mq = mem'[q]
        BY <2>2, <3>1 DEF Alone
      <3> QED BY <3>3, <3>4
    <2> QED BY <2>1, <2>2
  <1>4. IsFiniteSet(DOMAIN actions')
    BY FS_AddElement DEF BooksInv
  <1>5. OrdersStay'
    BY OrdersSame DEF BooksInv
  <1> QED BY <1>1, <1>2, <1>3, <1>4, <1>5 DEF BooksInv

\* InsertAction, of row n under the id i.
InsertAs(r, i, n) ==
    /\ i \in ActionIds /\ i \notin DOMAIN actions
    /\ n = mem[r].act /\ n \in Rows /\ Insertable(n)
    /\ DOMAIN actions' = DOMAIN actions \cup {i} /\ actions'[i] = n
    /\ \A j \in DOMAIN actions : actions'[j] = actions[j]
    /\ Alone(r) /\ pc'[r] = "refresh"
    /\ mem'[r].act = n /\ mem'[r].batch = mem[r].batch
    /\ mem'[r].cid = mem[r].cid /\ mem'[r].cas = mem[r].cas

LEMMA InsertParts ==
  ASSUME DeskInv, NEW r \in Requests, InsertAction(r)
  PROVE  \E i, n : InsertAs(r, i, n)
  <1>1. PICK n : n = mem[r].act
    OBVIOUS
  <1>2. PICK i \in ActionIds \ DOMAIN actions :
           /\ actions' = [j \in DOMAIN actions \cup {i} |-> IF j = i THEN n ELSE actions[j]]
           /\ mem' = [mem EXCEPT ![r].aid = i]
    BY <1>1 DEF InsertAction
  <1>3. /\ TypeOK /\ mem[r] \in Memory /\ HeldAs(r, "insert", mem[r]) /\ Goto(r, "refresh")
        /\ Insertable(n)
    BY <1>1 DEF InsertAction, DeskInv, HeldOK, TypeOK
  <1>4. n \in Rows
    BY <1>1, <1>3 DEF HeldAs
  <1>5. /\ DOMAIN actions' = DOMAIN actions \cup {i} /\ actions'[i] = n
        /\ \A j \in DOMAIN actions : actions'[j] = actions[j]
    BY <1>2
  <1>6. /\ Alone(r) /\ pc'[r] = "refresh"
        /\ mem'[r].act = n /\ mem'[r].batch = mem[r].batch
        /\ mem'[r].cid = mem[r].cid /\ mem'[r].cas = mem[r].cas
    BY <1>1, <1>2, <1>3 DEF TypeOK, Memory, Goto, Alone
  <1>7. InsertAs(r, i, n)
    BY <1>1, <1>2, <1>3, <1>4, <1>5, <1>6 DEF InsertAs
  <1> QED BY <1>7, Zenon

LEMMA InsertFiled ==
  ASSUME DeskInv, BooksInv, NEW r \in Requests, InsertAction(r)
  PROVE  BooksInv'
  <1>1. PICK i, n : InsertAs(r, i, n)
    BY InsertParts
  <1>2. PICK m : m = mem'[r]
    OBVIOUS
  <1>3. /\ HeldAs(r, "insert", mem[r]) /\ HeldFiled(r, "insert", mem[r])
        /\ UNCHANGED <<cases, now>> /\ OneRowPerKey
    BY DEF InsertAction, DeskInv, HeldOK, BooksInv
  <1>4. Kind[r] = "create"
    BY <1>3 DEF HeldAs
  <1>5. /\ DOMAIN actions' = DOMAIN actions \cup {i} /\ actions'[i] = n /\ i \notin DOMAIN actions
        /\ \A j \in DOMAIN actions : actions'[j] = actions[j]
        /\ Alone(r) /\ pc'[r] = "refresh" /\ n = mem[r].act
        /\ m.cid = mem[r].cid /\ m.cas = mem[r].cas /\ m.batch = mem[r].batch
    BY <1>1, <1>2 DEF InsertAs
  <1>6. Filed(n)
    BY <1>3, <1>5 DEF HeldFiled
  <1>7. OneRowPerKey'
    <2>1. \A j \in DOMAIN actions : Key(actions[j]) # Key(n)
      BY <1>1 DEF InsertAs, Insertable, KeyTaken
    <2>2. \A j, k \in DOMAIN actions : Key(actions[j]) = Key(actions[k]) => j = k
      BY <1>3 DEF OneRowPerKey
    <2>3. \A j, k \in DOMAIN actions' : Key(actions'[j]) = Key(actions'[k]) => j = k
      BY <1>5, <2>1, <2>2
    <2> QED BY <2>3 DEF OneRowPerKey, Key
  <1>8. HeldFiled(r, "refresh", m)
    BY <1>3, <1>4, <1>5 DEF HeldFiled, DeskKinds, Ended
  <1> QED BY <1>2, <1>3, <1>5, <1>6, <1>7, <1>8, BooksWrite

\* SaveAction, of row n over row i.
SaveAs(r, i, n) ==
    /\ pc[r] = "save" /\ i = mem[r].aid /\ n = mem[r].act
    /\ i \in DOMAIN actions /\ n \in Rows /\ actions[i] \in Rows /\ RowOK(n)
    /\ actions[i].version = mem[r].expected /\ RowStep(actions[i], n)
    /\ Key(n) = Key(actions[i])
    /\ DOMAIN actions' = DOMAIN actions /\ actions'[i] = n
    /\ \A j \in DOMAIN actions \ {i} : actions'[j] = actions[j]
    /\ Alone(r) /\ pc'[r] \in {"reread", "next"} /\ UNCHANGED mem
    /\ Kind[r] \in DeskKinds \cup {"reap"} /\ (pc'[r] = "next" <=> Kind[r] = "reap")

LEMMA SaveParts ==
  ASSUME DeskInv, NoSupplement, NEW r \in Requests, SaveAction(r)
  PROVE  \E i, n : SaveAs(r, i, n)
  <1>1. PICK n : n = mem[r].act
    OBVIOUS
  <1>2. PICK i : i = mem[r].aid
    OBVIOUS
  <1>3. /\ TypeOK /\ mem[r] \in Memory /\ HeldAs(r, pc[r], mem[r])
        /\ Kind[r] # "supplement" /\ Kind[r] \in Kinds
        /\ actions[i].version = mem[r].expected /\ pc[r] \in {"save", "clear"}
    BY <1>2, DeskAssumption
       DEF SaveAction, DeskInv, HeldOK, TypeOK, NoSupplement, VersionHolds, DeskAssumption
  <1>4. pc[r] = "save" /\ Kind[r] # "create" /\ Writable(i, mem[r].expected, n)
    BY <1>1, <1>2, <1>3 DEF HeldAs
  <1>5. /\ i \in DOMAIN actions /\ n \in Rows /\ actions[i] \in Rows /\ RowOK(n)
        /\ RowStep(actions[i], n)
    BY <1>3, <1>4 DEF Writable, TypeOK
  <1>6. /\ DOMAIN actions' = DOMAIN actions /\ actions'[i] = n
        /\ \A j \in DOMAIN actions \ {i} : actions'[j] = actions[j]
    BY <1>1, <1>2, <1>3, <1>5 DEF SaveAction, TypeOK
  <1>7. Kind[r] \in DeskKinds \cup {"reap"}
    BY <1>3, <1>4 DEF Kinds, DeskKinds
  <1>8. /\ Alone(r) /\ UNCHANGED mem
        /\ pc'[r] = IF Kind[r] = "reap" THEN "next" ELSE "reread"
    BY <1>3, <1>4 DEF SaveAction, Goto, Alone, TypeOK
  <1>9. Key(n) = Key(actions[i])
    BY <1>5 DEF RowStep, SameContract, Key
  <1>10. SaveAs(r, i, n)
    BY <1>1, <1>2, <1>3, <1>4, <1>5, <1>6, <1>7, <1>8, <1>9 DEF SaveAs
  <1> QED BY <1>10, Zenon

LEMMA SaveFiled ==
  ASSUME DeskInv, BooksInv, NoSupplement, NEW r \in Requests, SaveAction(r)
  PROVE  BooksInv'
  <1>1. PICK i, n : SaveAs(r, i, n)
    BY SaveParts
  <1>2. PICK m, l : m = mem'[r] /\ l = pc'[r]
    OBVIOUS
  <1>3. /\ pc[r] = "save" /\ n = mem[r].act /\ i \in DOMAIN actions
        /\ DOMAIN actions' = DOMAIN actions \cup {i} /\ actions'[i] = n
        /\ \A j \in DOMAIN actions \ {i} : actions'[j] = actions[j]
        /\ Alone(r) /\ l \in {"reread", "next"} /\ m = mem[r]
        /\ Key(n) = Key(actions[i])
    BY <1>1, <1>2 DEF SaveAs
  <1>4. HeldFiled(r, "save", m) /\ UNCHANGED <<cases, now>> /\ OneRowPerKey
    BY <1>3 DEF SaveAction, BooksInv
  <1>5. Filed(n)
    BY <1>3, <1>4 DEF HeldFiled
  <1>6. OneRowPerKey'
    <2>1. \A j \in DOMAIN actions : Key(actions'[j]) = Key(actions[j])
      BY <1>3
    <2>2. \A j, k \in DOMAIN actions : Key(actions[j]) = Key(actions[k]) => j = k
      BY <1>4 DEF OneRowPerKey
    <2>3. \A j, k \in DOMAIN actions' : Key(actions'[j]) = Key(actions'[k]) => j = k
      BY <1>3, <2>1, <2>2
    <2> QED BY <2>3 DEF OneRowPerKey, Key
  <1>7. HeldFiled(r, l, m)
    BY <1>3, <1>4 DEF HeldFiled, Ended
  <1> QED BY <1>2, <1>3, <1>4, <1>5, <1>6, <1>7, BooksWrite

LEMMA BooksTick ==
  ASSUME DeskInv, BooksInv, now' \in Nat, now <= now', UNCHANGED <<cases, actions, pc, mem>>
  PROVE  BooksInv'
  <1>0. now \in Nat /\ TypeOK
    BY DEF DeskInv, TypeOK
  <1>1. \A i \in DOMAIN actions : actions[i].expires \in Nat
    BY <1>0 DEF TypeOK, Rows
  <1>2. ASSUME NEW i \in DOMAIN actions PROVE Filed(actions[i])'
    <2>1. PICK a : a = actions[i] /\ a = actions'[i]
      OBVIOUS
    <2>2. Filed(a)'
      BY <1>0, <1>1, <2>1, FiledStable DEF BooksInv
    <2> QED BY <2>1, <2>2
  <1>3. ASSUME NEW q \in Requests PROVE HeldFiled(q, pc[q], mem[q])'
    <2>1. PICK l, m : l = pc[q] /\ m = mem[q] /\ l = pc'[q] /\ m = mem'[q]
      OBVIOUS
    <2>2. HeldFiled(q, l, m) /\ HeldAs(q, l, m) /\ m \in Memory
      BY <1>0, <2>1 DEF BooksInv, DeskInv, HeldOK, TypeOK
    <2>3. \A a \in Rows : Filed(a) => Filed(a)'
      BY <1>0, FiledStable DEF Rows
    <2>4. \A b \in m.batch : b.act \in Rows /\ b.act.expires \in Nat
      BY <2>2 DEF Memory, BatchItems, Rows
    <2>5. Kind[q] \in DeskKinds /\ l \in {"readCase", "decide"} => m.act \in Rows
      BY <2>2 DEF HeldAs, Copy
    <2>6. l \in {"insert", "save"} => m.act \in Rows
      BY <2>2 DEF HeldAs, Writable
    <2>7. HeldFiled(q, l, m)'
      BY <1>0, <2>2, <2>3, <2>4, <2>5, <2>6 DEF HeldFiled
    <2> QED BY <2>1, <2>7
  <1>4. OneRowPerKey' /\ OrdersStay' /\ IsFiniteSet(DOMAIN actions') /\ IsFiniteSet(Started')
    BY DEF BooksInv, OneRowPerKey, OrdersStay, Started, Key
  <1> QED BY <1>2, <1>3, <1>4 DEF BooksInv

LEMMA BooksInit == Init => BooksInv
  <1> SUFFICES ASSUME Init PROVE BooksInv
    OBVIOUS
  <1>1. DOMAIN actions = {} /\ Started = {} /\ OrdersStay
    BY DEF Init, Started, OrdersStay
  <1>2. \A r \in Requests : HeldFiled(r, pc[r], mem[r])
    BY DEF Init, HeldFiled, Blank
  <1> QED BY <1>1, <1>2, FS_EmptySet DEF BooksInv, OneRowPerKey

LEMMA BooksStep ==
  ASSUME DeskInv, BooksInv, NoSupplement, NEW r \in Requests, Step(r)
  PROVE  BooksInv'
  <1>0. TypeOK /\ OrdersStay /\ HeldAs(r, pc[r], mem[r]) /\ Kind[r] # "supplement"
    BY DEF DeskInv, HeldOK, BooksInv, NoSupplement
  <1>1. CASE CreateRefused(r) \/ Refuse(r)
    <2>1. \E l \in Ended : End(r, l) /\ UNCHANGED <<cases, actions, now>>
      BY <1>1 DEF CreateRefused, Refuse, Ended
    <2> QED BY <1>0, <2>1, BooksEnd, OrdersSame
  <1>2. CASE ReapDone(r)
    <2>1. \E l \in Ended : End(r, l) /\ UNCHANGED <<cases, actions, now>>
      BY <1>2 DEF ReapDone, Ended
    <2> QED BY <1>0, <2>1, BooksEnd, OrdersSame
  <1>3. CASE SaveConflict(r) \/ InsertConflict(r) \/ CaseConflict(r)
    <2>1. \E l \in Ended : End(r, l) /\ UNCHANGED <<cases, actions, now>>
      BY <1>3 DEF SaveConflict, InsertConflict, CaseConflict, Abort, Ended
    <2> QED BY <1>0, <2>1, BooksEnd, OrdersSame
  <1>4. ~ListActive(r) /\ ~ReleaseInvalidated(r) /\ ~Reassess(r)
    BY <1>0 DEF ListActive, ReleaseInvalidated, Reassess, HeldAs
  <1> QED BY <1>1, <1>2, <1>3, <1>4, ReadsFiled, CreateFiled, ApproveFiled, RejectFiled,
             ExecuteFiled, ReapListFiled, ReapReleaseFiled, UpdateCaseFiled, AppendEventFiled,
             InsertFiled, SaveFiled DEF Step

LEMMA BooksNext == DeskInv /\ BooksInv /\ NoSupplement /\ [Next]_vars => BooksInv'
  <1> SUFFICES ASSUME DeskInv, BooksInv, NoSupplement, [Next]_vars PROVE BooksInv'
    OBVIOUS
  <1>0. TypeOK /\ OrdersStay
    BY DEF DeskInv, BooksInv
  <1>1. ASSUME NEW r \in Requests, StorageError(r) \/ Cancel(r) PROVE BooksInv'
    <2>1. \E l \in Ended : End(r, l) /\ UNCHANGED <<cases, actions, now>>
      BY <1>1 DEF StorageError, Cancel, Abort, Ended
    <2> QED BY <1>0, <2>1, BooksEnd, OrdersSame
  <1>2. CASE Tick
    BY <1>0, <1>2, BooksTick DEF Tick, TypeOK
  <1>3. CASE UNCHANGED vars
    BY <1>0, <1>3, BooksTick DEF vars, TypeOK
  <1> QED BY <1>1, <1>2, <1>3, BooksStep DEF Next, Wait

-----------------------------------------------------------------------------
(* Holders: requests that have reserved and have not stored it yet         *)

\* Request r, at label l in memory m, has reserved funds that no row shows.
HoldsAs(r, l, m) ==
    /\ \/ Kind[r] = "create" /\ l = "insert"
       \/ Kind[r] = "approve" /\ l = "save" /\ Len(m.act.signers) = 1
    /\ m.act.reserved

Held(o) == {r \in Started : HoldsAs(r, pc[r], mem[r]) /\ mem[r].act.order = o}
HeldSum(o) == SumBy([r \in Requests |-> mem[r].act.amount], Held(o))

\* The share of request r, and of row i of a set S of rows.
Carry(o, r) == IF r \in Held(o) THEN mem[r].act.amount ELSE 0
Share(S, i) == IF i \in S THEN actions[i].amount ELSE 0

LEMMA HolderKnows ==
  ASSUME DeskInv, BooksInv, NEW r \in Requests, HoldsAs(r, pc[r], mem[r])
  PROVE  /\ mem[r].act \in Rows /\ mem[r].act.type = "refund" /\ mem[r].act.amount \in Nat
         /\ mem[r].act.order = mem[r].cas.order /\ mem[r].act.order \in Orders
         /\ Guarded(r) /\ InFlight(r)
  <1>1. TypeOK /\ HeldAs(r, pc[r], mem[r]) /\ HeldFiled(r, pc[r], mem[r])
    BY DEF DeskInv, HeldOK, BooksInv
  <1>2. pc[r] \in {"insert", "save"} /\ mem[r].act.reserved /\ Kind[r] \in {"create", "approve"}
    BY DEF HoldsAs
  <1>3. mem[r].act \in Rows
    BY <1>1, <1>2 DEF HeldAs, Writable
  <1>4. mem[r].act.type = "refund" /\ mem[r].act.order = Opening[mem[r].act.case].order
    BY <1>1, <1>2 DEF HeldFiled, Filed
  <1>5. mem[r].act.case = mem[r].cid /\ mem[r].cas.order = Opening[mem[r].cid].order
    BY <1>1, <1>2 DEF HeldFiled, Ended, DeskKinds, HoldsAs
  <1>6. Guarded(r) /\ InFlight(r)
    BY DEF HoldsAs, Guarded, InFlight, Ended
  <1> QED BY <1>3, <1>4, <1>5, <1>6, AmountsPositive DEF Rows

HoldersWeighed == \A o : Weighed([r \in Requests |-> mem[r].act.amount], Held(o))

LEMMA HeldWeighed == DeskInv /\ BooksInv => HoldersWeighed
  <1> SUFFICES ASSUME DeskInv, BooksInv, NEW o
               PROVE  Weighed([r \in Requests |-> mem[r].act.amount], Held(o))
    BY DEF HoldersWeighed
  <1>1. IsFiniteSet(Held(o))
    BY FS_Subset DEF BooksInv, Held
  <1>2. \A r \in Held(o) : r \in Requests /\ mem[r].act.amount \in Nat
    BY HolderKnows DEF Held, Started
  <1> QED BY <1>1, <1>2 DEF Weighed

LEMMA HeldWeighedNext == DeskInv' /\ BooksInv' => HoldersWeighed'
  BY HeldWeighed, PTL

LEMMA CarryTypes ==
  ASSUME DeskInv, BooksInv, DeskInv', BooksInv', NEW r, NEW o
  PROVE  Carry(o, r) \in Nat /\ Carry(o, r)' \in Nat
  <1>1. \A q \in Held(o) : mem[q].act.amount \in Nat
    BY HeldWeighed DEF HoldersWeighed, Weighed, Held, Started
  <1>2. \A q \in Held(o)' : mem'[q].act.amount \in Nat
    BY HeldWeighedNext DEF HoldersWeighed, Weighed, Held, Started
  <1> QED BY <1>1, <1>2 DEF Carry

\* A step of r changes what the requests hold by the share of r.
LEMMA HeldMoves ==
  ASSUME DeskInv, BooksInv, DeskInv', BooksInv', NEW r \in Requests, Alone(r), NEW o
  PROVE  \E rest \in Nat : HeldSum(o) = rest + Carry(o, r) /\ HeldSum(o)' = rest + Carry(o, r)'
  <1>1. PICK S, w : S = Held(o) /\ w = [q \in Requests |-> mem[q].act.amount]
    OBVIOUS
  <1>2. PICK T, v : T = Held(o)' /\ v = [q \in Requests |-> mem'[q].act.amount]
    OBVIOUS
  <1>3. Weighed(w, S)
    BY <1>1, HeldWeighed DEF HoldersWeighed
  <1>5. Weighed(v, T)
    BY <1>2, HeldWeighedNext DEF HoldersWeighed
  <1>6. S \ {r} = T \ {r} /\ S \subseteq Requests /\ T \subseteq Requests
    BY <1>1, <1>2 DEF Held, Started, HoldsAs, Alone
  <1>7. \A t \in S \ {r} : v[t] = w[t]
    BY <1>1, <1>2, <1>6 DEF Alone
  <1>8. PICK rest \in Nat : /\ SumBy(w, S) = rest + (IF r \in S THEN w[r] ELSE 0)
                            /\ SumBy(v, T) = rest + (IF r \in T THEN v[r] ELSE 0)
    BY <1>3, <1>5, <1>6, <1>7, SumExchange
  <1>9. SumBy(w, S) = HeldSum(o) /\ SumBy(v, T) = HeldSum(o)'
    BY <1>1, <1>2, Zenon DEF HeldSum
  <1>10. /\ Carry(o, r) = IF r \in S THEN w[r] ELSE 0
         /\ Carry(o, r)' = IF r \in T THEN v[r] ELSE 0
    BY <1>1, <1>2 DEF Carry
  <1> QED BY <1>8, <1>9, <1>10, Zenon

\* A step that concerns row i changes a sum over rows by the share of i.
LEMMA TotalMoves ==
  ASSUME TypeOK, TypeOK', BooksInv, BooksInv', NEW i,
         NEW S \in SUBSET DOMAIN actions, NEW T \in SUBSET DOMAIN actions',
         S \ {i} = T \ {i}, \A j \in S \ {i} : actions'[j].amount = actions[j].amount
  PROVE  \E rest \in Nat : Total(S) = rest + Share(S, i) /\ Total(T)' = rest + Share(T, i)'
  <1>1. PICK w : w = [j \in DOMAIN actions |-> actions[j].amount]
    OBVIOUS
  <1>2. PICK v : v = [j \in DOMAIN actions' |-> actions'[j].amount]
    OBVIOUS
  <1>3. Weighed(w, S) /\ Weighed(v, T)
    <2>1. IsFiniteSet(S) /\ IsFiniteSet(T)
      BY FS_Subset DEF BooksInv
    <2>2. \A j \in DOMAIN actions : actions[j].amount \in Nat
      BY AmountsPositive DEF TypeOK, Rows
    <2>3. \A j \in DOMAIN actions' : actions'[j].amount \in Nat
      BY AmountsPositive DEF TypeOK, Rows
    <2> QED BY <1>1, <1>2, <2>1, <2>2, <2>3 DEF Weighed
  <1>4. \A t \in S \ {i} : v[t] = w[t]
    BY <1>1, <1>2
  <1>5. PICK rest \in Nat : /\ SumBy(w, S) = rest + (IF i \in S THEN w[i] ELSE 0)
                            /\ SumBy(v, T) = rest + (IF i \in T THEN v[i] ELSE 0)
    BY <1>3, <1>4, SumExchange
  <1>6. SumBy(w, S) = Total(S) /\ SumBy(v, T) = Total(T)'
    BY <1>1, <1>2, Zenon DEF Total
  <1>7. /\ Share(S, i) = IF i \in S THEN w[i] ELSE 0
        /\ Share(T, i)' = IF i \in T THEN v[i] ELSE 0
    BY <1>1, <1>2 DEF Share
  <1> QED BY <1>5, <1>6, <1>7, Zenon

-----------------------------------------------------------------------------
(* Frozen money has an owner                                               *)

\* Request q has released what row i claims and is about to save it so.
UndoneBy(q, i) ==
    /\ pc[q] = "save" /\ Kind[q] \in {"reject", "reap"}
    /\ mem[q].aid = i /\ mem[q].expected = actions[i].version

Undone(i) == \E q \in Requests : UndoneBy(q, i)

Claims(o) == {i \in Owing(o) : /\ actions[i].status \in Active /\ actions[i].reserved
                               /\ ~Undone(i)}

\* What is reserved on an order belongs to a row or to a request.
OwnedInv == \A o \in Orders : reserved[o] <= Total(Claims(o)) + HeldSum(o)

\* A step of r that writes no row but i and captures no payment but i's.
Concerns(r, i) ==
    /\ Alone(r)
    /\ DOMAIN actions \subseteq DOMAIN actions' /\ DOMAIN actions' \subseteq DOMAIN actions \cup {i}
    /\ transactions \subseteq transactions'
    /\ \A j \in DOMAIN actions \ {i} :
          /\ actions'[j] = actions[j]
          /\ (\E t \in transactions' : t.key = Key(actions[j])) => Ledger!Paid(Key(actions[j]))

\* ... and that undoes the claim of no other row.
Undoes(r, i) == \A j \in DOMAIN actions \ {i} : ~UndoneBy(r, j) /\ ~UndoneBy(r, j)'

LEMMA ClaimsBut ==
  ASSUME NEW r \in Requests, NEW i, Concerns(r, i), Undoes(r, i), NEW o
  PROVE  Claims(o) \ {i} = Claims(o)' \ {i}
  <1>1. ASSUME NEW j \in DOMAIN actions \ {i} PROVE Undone(j)' <=> Undone(j)
    <2>1. \A q \in Requests \ {r} : UndoneBy(q, j)' <=> UndoneBy(q, j)
      BY DEF Concerns, Alone, UndoneBy
    <2>2. ~UndoneBy(r, j) /\ ~UndoneBy(r, j)'
      BY DEF Undoes
    <2> QED BY <2>1, <2>2 DEF Undone
  <1>2. ASSUME NEW j \in DOMAIN actions \ {i} PROVE j \in Claims(o)' <=> j \in Claims(o)
    <2>1. actions'[j] = actions[j] /\ j \in DOMAIN actions'
      BY DEF Concerns
    <2>2. Ledger!Paid(Key(actions[j]))' <=> Ledger!Paid(Key(actions[j]))
      BY <2>1 DEF Concerns, Ledger!Paid, Key
    <2>3. j \in Owing(o)' <=> j \in Owing(o)
      BY <2>1, <2>2 DEF Owing
    <2> QED BY <1>1, <2>1, <2>3 DEF Claims
  <1>3. Claims(o) \subseteq DOMAIN actions /\ Claims(o)' \subseteq DOMAIN actions \cup {i}
    BY DEF Claims, Owing, Concerns
  <1> QED BY <1>2, <1>3

\* The pool moves by no more than the shares of the row and of the request.
LEMMA OwnedTurn ==
  ASSUME DeskInv, BooksInv, DeskInv', BooksInv', OwnedInv,
         NEW r \in Requests, NEW i, Concerns(r, i), Undoes(r, i),
         \A o \in Orders :
            \/ reserved'[o] = 0
            \/ reserved'[o] + Share(Claims(o), i) + Carry(o, r)
                  <= reserved[o] + Share(Claims(o), i)' + Carry(o, r)'
  PROVE  OwnedInv'
  <1> SUFFICES ASSUME NEW o \in Orders
               PROVE  reserved'[o] <= Total(Claims(o))' + HeldSum(o)'
    BY DEF OwnedInv
  <1>0. TypeOK /\ TypeOK' /\ Alone(r)
    BY DEF DeskInv, Concerns
  <1>1. PICK S, T : S = Claims(o) /\ T = Claims(o)'
    OBVIOUS
  <1>2. S \in SUBSET DOMAIN actions /\ T \in SUBSET DOMAIN actions' /\ S \ {i} = T \ {i}
    BY <1>1, ClaimsBut DEF Claims, Owing
  <1>3. \A j \in S \ {i} : actions'[j].amount = actions[j].amount
    BY <1>2 DEF Concerns
  <1>4. PICK rest \in Nat : Total(S) = rest + Share(S, i) /\ Total(T)' = rest + Share(T, i)'
    BY <1>0, <1>2, <1>3, TotalMoves
  <1>5. PICK more \in Nat : HeldSum(o) = more + Carry(o, r) /\ HeldSum(o)' = more + Carry(o, r)'
    BY <1>0, HeldMoves
  <1>6. Share(S, i) \in Nat /\ Share(T, i)' \in Nat
    BY <1>0, <1>2, AmountsPositive DEF TypeOK, Rows, Share
  <1>7. Carry(o, r) \in Nat /\ Carry(o, r)' \in Nat
    BY CarryTypes
  <1>8. reserved[o] \in Nat /\ reserved'[o] \in Nat
    BY <1>0 DEF TypeOK
  <1>9. reserved[o] <= Total(S) + HeldSum(o)
    BY <1>1 DEF OwnedInv
  <1>10. PICK s, t, c, d \in Nat : s = Share(S, i) /\ t = Share(T, i)' /\ c = Carry(o, r) /\ d = Carry(o, r)'
    BY <1>6, <1>7
  <1>11. reserved'[o] = 0 \/ reserved'[o] + s + c <= reserved[o] + t + d
    BY <1>1, <1>10
  <1>12. reserved'[o] <= Total(T)' + HeldSum(o)'
    BY <1>4, <1>5, <1>8, <1>9, <1>10, <1>11
  <1> QED BY <1>1, <1>12

\* A step that stores nothing, pays nothing and leaves no row undone, by a request
\* that holds nothing, may only lower the pools.
LEMMA OwnedQuiet ==
  ASSUME DeskInv, BooksInv, DeskInv', BooksInv', OwnedInv, NEW r \in Requests, Alone(r),
         UNCHANGED <<actions, transactions>>, \A o \in Orders : reserved'[o] <= reserved[o],
         ~HoldsAs(r, pc[r], mem[r]), \A j : ~UndoneBy(r, j)'
  PROVE  OwnedInv'
  <1>1. PICK i : i = mem[r].aid
    OBVIOUS
  <1>2. Concerns(r, i) /\ Undoes(r, i)
    BY <1>1 DEF Concerns, Undoes, UndoneBy, Ledger!Paid
  <1>3. ASSUME NEW o \in Orders
        PROVE  reserved'[o] + Share(Claims(o), i) + Carry(o, r)
                  <= reserved[o] + Share(Claims(o), i)' + Carry(o, r)'
    <2>1. Undone(i)' => Undone(i)
      BY DEF Undone, UndoneBy, Alone
    <2>2. Owing(o)' = Owing(o)
      BY DEF Owing, Ledger!Paid, Key
    <2>3. i \in Claims(o) => i \in Claims(o)'
      BY <2>1, <2>2 DEF Claims
    <2>4. Carry(o, r) = 0 /\ Carry(o, r)' \in Nat
      BY CarryTypes DEF Carry, Held
    <2>5. i \in DOMAIN actions => actions[i].amount \in Nat
      BY AmountsPositive DEF DeskInv, TypeOK, Rows
    <2>6. PICK s, t \in Nat : s = Share(Claims(o), i) /\ t = Share(Claims(o), i)' /\ s <= t
      BY <2>3, <2>5 DEF Share, Claims, Owing
    <2>7. reserved[o] \in Nat /\ reserved'[o] \in Nat
      BY DEF DeskInv, TypeOK
    <2> QED BY <2>4, <2>6, <2>7
  <1> QED BY <1>2, <1>3, OwnedTurn

\* A step by which a request takes a share or gives its share back.
LEMMA OwnedHolder ==
  ASSUME DeskInv, BooksInv, DeskInv', BooksInv', OwnedInv, NEW r \in Requests, Alone(r),
         UNCHANGED <<actions, transactions>>, \A j : ~UndoneBy(r, j) /\ ~UndoneBy(r, j)',
         \A o \in Orders : reserved'[o] = 0 \/ reserved'[o] + Carry(o, r) <= reserved[o] + Carry(o, r)'
  PROVE  OwnedInv'
  <1>1. PICK i : i = mem[r].aid
    OBVIOUS
  <1>2. Concerns(r, i) /\ Undoes(r, i)
    BY <1>1 DEF Concerns, Undoes, Ledger!Paid
  <1>3. ASSUME NEW o \in Orders, reserved'[o] # 0
        PROVE  reserved'[o] + Share(Claims(o), i) + Carry(o, r)
                  <= reserved[o] + Share(Claims(o), i)' + Carry(o, r)'
    <2>1. Undone(i)' <=> Undone(i)
      BY DEF Undone, UndoneBy, Alone
    <2>2. Owing(o)' = Owing(o)
      BY DEF Owing, Ledger!Paid, Key
    <2>3. i \in Claims(o)' <=> i \in Claims(o)
      BY <2>1, <2>2 DEF Claims
    <2>4. Carry(o, r) \in Nat /\ Carry(o, r)' \in Nat
      BY CarryTypes
    <2>5. i \in DOMAIN actions => actions[i].amount \in Nat
      BY AmountsPositive DEF DeskInv, TypeOK, Rows
    <2>6. PICK s \in Nat : s = Share(Claims(o), i) /\ s = Share(Claims(o), i)'
      BY <2>3, <2>5 DEF Share, Claims, Owing
    <2>7. reserved[o] \in Nat /\ reserved'[o] \in Nat
      BY DEF DeskInv, TypeOK
    <2>8. reserved'[o] + Carry(o, r) <= reserved[o] + Carry(o, r)'
      BY <1>3
    <2> QED BY <2>4, <2>6, <2>7, <2>8
  <1> QED BY <1>2, <1>3, OwnedTurn

\* A step that takes from the pool what row i may claim.
LEMMA OwnedTakes ==
  ASSUME DeskInv, BooksInv, DeskInv', BooksInv', OwnedInv, NEW r \in Requests,
         ~HoldsAs(r, pc[r], mem[r]), NEW i \in DOMAIN actions, Concerns(r, i), Undoes(r, i),
         UNCHANGED actions,
         \A o \in Orders \ {actions[i].order} : reserved'[o] = reserved[o],
         NEW p, p = actions[i].order,
         reserved'[p] = 0 \/ reserved'[p] + actions[i].amount <= reserved[p]
  PROVE  OwnedInv'
  <1>1. ASSUME NEW o \in Orders, reserved'[o] # 0
        PROVE  reserved'[o] + Share(Claims(o), i) + Carry(o, r)
                  <= reserved[o] + Share(Claims(o), i)' + Carry(o, r)'
    <2>1. Carry(o, r) = 0 /\ Carry(o, r)' \in Nat
      BY CarryTypes DEF Carry, Held
    <2>2. actions[i].amount \in Nat
      BY AmountsPositive DEF DeskInv, TypeOK, Rows
    <2>3. PICK s, t \in Nat :
             /\ s = Share(Claims(o), i) /\ t = Share(Claims(o), i)'
             /\ s <= actions[i].amount /\ (o # p => s = 0)
      BY <2>2 DEF Share, Claims, Owing
    <2>4. reserved[o] \in Nat /\ reserved'[o] \in Nat
      BY DEF DeskInv, TypeOK
    <2>5. reserved'[o] + s <= reserved[o]
      BY <1>1, <2>2, <2>3, <2>4
    <2> QED BY <2>1, <2>3, <2>4, <2>5
  <1> QED BY <1>1, OwnedTurn

LEMMA ReleaseLowers ==
  ASSUME TypeOK, NEW o \in Orders, NEW n \in Nat, Ledger!Release(o, n)
  PROVE  /\ UNCHANGED transactions
         /\ \A p \in Orders \ {o} : reserved'[p] = reserved[p]
         /\ \A p \in Orders : reserved'[p] <= reserved[p]
         /\ reserved'[o] = IF reserved[o] < n THEN 0 ELSE reserved[o] - n
  BY DEF TypeOK, Ledger!Release, Ledger!Released

LEMMA OwnedAbort ==
  ASSUME DeskInv, BooksInv, DeskInv', BooksInv', OwnedInv, NEW r \in Requests, InFlight(r),
         Abort(r), UNCHANGED actions
  PROVE  OwnedInv'
  <1>0. TypeOK /\ HeldAs(r, pc[r], mem[r])
    BY DEF DeskInv, HeldOK
  <1>1. Alone(r) /\ pc'[r] = "failed"
    BY <1>0 DEF TypeOK, Abort, End, Goto, Alone
  <1>2. (\A j : ~UndoneBy(r, j)') /\ \A o : Carry(o, r)' = 0
    BY <1>1 DEF UndoneBy, Carry, Held, HoldsAs
  <1>3. PICK n, p : n = mem[r].act.amount /\ p = mem[r].cas.order
    OBVIOUS
  <1>4. CASE HoldsAs(r, pc[r], mem[r])
    <2>1. /\ n \in Nat /\ p = mem[r].act.order /\ p \in Orders /\ mem[r].act.type = "refund"
          /\ Guarded(r)
      BY <1>3, <1>4, HolderKnows
    <2>2. Ledger!Release(p, n)
      BY <1>3, <1>4, <2>1 DEF Abort, HoldsAs
    <2>3. \A j : ~UndoneBy(r, j)
      BY <1>4 DEF HoldsAs, UndoneBy
    <2>4. /\ UNCHANGED transactions /\ \A o \in Orders \ {p} : reserved'[o] = reserved[o]
          /\ reserved'[p] = IF reserved[p] < n THEN 0 ELSE reserved[p] - n
      BY <1>0, <2>1, <2>2, ReleaseLowers
    <2>5. \A o : Carry(o, r) = IF o = p THEN n ELSE 0
      BY <1>3, <1>4, <2>1 DEF Carry, Held, Started, HoldsAs
    <2>6. ASSUME NEW o \in Orders, reserved'[o] # 0
          PROVE  reserved'[o] + Carry(o, r) <= reserved[o] + Carry(o, r)'
      <3>1. reserved[o] \in Nat
        BY <1>0 DEF TypeOK
      <3> QED BY <1>2, <2>1, <2>4, <2>5, <2>6, <3>1
    <2> QED BY <1>1, <1>2, <2>3, <2>4, <2>6, OwnedHolder
  <1>5. CASE ~HoldsAs(r, pc[r], mem[r])
    <2>1. UNCHANGED transactions /\ \A o \in Orders : reserved'[o] <= reserved[o]
      <3>1. CASE Guarded(r) /\ mem[r].act.type = "refund" /\ mem[r].act.reserved
        <4>1. mem[r].cas \in CaseRows /\ mem[r].act \in Rows
          BY <1>0, <3>1 DEF Guarded, HeldAs, Ended, Writable
        <4>2. p \in Orders /\ n \in Nat /\ Ledger!Release(p, n)
          BY <1>3, <3>1, <4>1, AmountsPositive DEF CaseRows, Rows, Abort
        <4> QED BY <1>0, <4>2, ReleaseLowers
      <3>2. CASE ~(Guarded(r) /\ mem[r].act.type = "refund" /\ mem[r].act.reserved)
        <4>1. UNCHANGED ledger
          BY <3>2 DEF Abort
        <4> QED BY <1>0, <4>1 DEF ledger, TypeOK
      <3> QED BY <3>1, <3>2
    <2> QED BY <1>1, <1>2, <1>5, <2>1, OwnedQuiet
  <1> QED BY <1>4, <1>5

\* A request that ends with no call of the adapter and held nothing.
LEMMA OwnedEnd ==
  ASSUME DeskInv, BooksInv, DeskInv', BooksInv', OwnedInv, NEW r \in Requests, NEW l \in Ended,
         End(r, l), UNCHANGED <<ledger, actions>>, ~HoldsAs(r, pc[r], mem[r])
  PROVE  OwnedInv'
  <1>1. Alone(r) /\ pc'[r] # "save"
    BY DEF DeskInv, TypeOK, End, Goto, Alone, Ended
  <1>2. /\ \A j : ~UndoneBy(r, j)'
        /\ UNCHANGED transactions /\ \A o \in Orders : reserved'[o] <= reserved[o]
    BY <1>1 DEF UndoneBy, ledger, DeskInv, TypeOK
  <1> QED BY <1>1, <1>2, OwnedQuiet

\* A request that goes on with no call of the adapter and held nothing.
LEMMA OwnedGoes ==
  ASSUME DeskInv, BooksInv, DeskInv', BooksInv', OwnedInv, NEW r \in Requests, Alone(r),
         UNCHANGED <<ledger, actions>>, ~HoldsAs(r, pc[r], mem[r]),
         pc'[r] # "save" \/ Kind[r] \in {"approve", "execute"}
  PROVE  OwnedInv'
  <1>1. /\ \A j : ~UndoneBy(r, j)'
        /\ UNCHANGED transactions /\ \A o \in Orders : reserved'[o] <= reserved[o]
    BY DEF UndoneBy, ledger, DeskInv, TypeOK
  <1> QED BY <1>1, OwnedQuiet

\* A step that reserves n on p for a row it has yet to store.
LEMMA OwnedReserves ==
  ASSUME DeskInv, BooksInv, DeskInv', BooksInv', OwnedInv, NEW r \in Requests, Alone(r),
         Kind[r] \in {"create", "approve"}, UNCHANGED actions, pc[r] = "decide",
         NEW p \in Orders, NEW n \in Nat, Ledger!Reserve(p, n),
         HoldsAs(r, pc[r], mem[r])', mem'[r].act.order = p, mem'[r].act.amount = n
  PROVE  OwnedInv'
  <1>1. \A j : ~UndoneBy(r, j) /\ ~UndoneBy(r, j)'
    BY DEF UndoneBy
  <1>2. \A o : Carry(o, r) = 0 /\ Carry(o, r)' = IF o = p THEN n ELSE 0
    BY DEF Carry, Held, HoldsAs, Started
  <1>3. UNCHANGED transactions
    BY DEF Ledger!Reserve
  <1>4. ASSUME NEW o \in Orders PROVE reserved'[o] + Carry(o, r) <= reserved[o] + Carry(o, r)'
    <2>1. reserved \in [Orders -> Nat]
      BY DEF DeskInv, TypeOK
    <2> QED BY <1>2, <2>1 DEF Ledger!Reserve
  <1> QED BY <1>1, <1>3, <1>4, OwnedHolder

LEMMA CreateOwned ==
  ASSUME DeskInv, BooksInv, DeskInv', BooksInv', OwnedInv, NEW r \in Requests, CreateAction(r)
  PROVE  OwnedInv'
  <1>1. PICK o : o = mem[r]
    OBVIOUS
  <1>2. PICK a : a = NewAction(o.cid, o.cas)
    OBVIOUS
  <1>3. /\ TypeOK /\ HeldAs(r, "decide", o) /\ Kind[r] = "create" /\ pc[r] = "decide"
        /\ UNCHANGED actions
    BY <1>1 DEF DeskInv, HeldOK, CreateAction
  <1>4. o.cid \in Cases /\ o.cas \in CaseRows
    BY <1>3 DEF HeldAs, Ended
  <1>5. o.cas.order \in Orders /\ o.cas.plan.amount \in Nat
    BY <1>4, DeskAssumption DEF CaseRows, DeskAssumption, PlanShape
  <1>6. a.order = o.cas.order /\ a.amount = o.cas.plan.amount
    BY <1>2 DEF NewAction
  <1>7. /\ Alone(r) /\ pc'[r] = "insert" /\ mem'[r].act = a
        /\ IF a.reserved THEN Ledger!Reserve(o.cas.order, a.amount) ELSE UNCHANGED ledger
    BY <1>1, <1>2, <1>3 DEF CreateAction, Goto, Alone, TypeOK, Memory
  <1>8. ~HoldsAs(r, pc[r], mem[r])
    BY <1>3 DEF HoldsAs
  <1>9. CASE a.reserved
    <2>1. HoldsAs(r, pc[r], mem[r])'
      BY <1>3, <1>7, <1>9 DEF HoldsAs
    <2> QED BY <1>3, <1>5, <1>6, <1>7, <1>9, <2>1, OwnedReserves
  <1>10. CASE ~a.reserved
    BY <1>3, <1>7, <1>8, <1>10, OwnedGoes
  <1> QED BY <1>9, <1>10

\* Only a first signature brings funds.
LEMMA ApproveOwned ==
  ASSUME DeskInv, BooksInv, DeskInv', BooksInv', OwnedInv, NEW r \in Requests, Approve(r)
  PROVE  OwnedInv'
  <1>1. PICK a : a = mem[r].act
    OBVIOUS
  <1>2. PICK u, v, n : ApproveAs(r, a, u, v, n)
    BY <1>1, ApproveParts
  <1>3. /\ pc[r] = "decide" /\ Kind[r] = "approve" /\ Kind[r] \in DeskKinds /\ Goto(r, "save")
        /\ UNCHANGED actions
    BY DEF Approve, DeskKinds
  <1>4. /\ TypeOK /\ a \in Rows /\ mem[r] \in Memory /\ mem[r].cas.order \in Orders
        /\ HeldFiled(r, "decide", mem[r])
    BY <1>1, <1>3, DeciderKnows DEF BooksInv
  <1>5. Filed(a) /\ a.order = mem[r].cas.order
    BY <1>1, <1>3, <1>4 DEF HeldFiled, Filed, Ended, DeskKinds
  <1>6. /\ CheckDecision(a, u, v) /\ SameContract(a, n) /\ n.signers = Append(a.signers, u)
        /\ n.reserved = (a.type = "refund")
        /\ mem' = [mem EXCEPT ![r].act = n, ![r].expected = v]
        /\ IF NeedsFunds(a) THEN Ledger!Reserve(mem[r].cas.order, a.amount) ELSE UNCHANGED ledger
    BY <1>2 DEF ApproveAs
  <1>7. Alone(r) /\ pc'[r] = "save" /\ mem'[r].act = n
    BY <1>3, <1>4, <1>6 DEF TypeOK, Memory, Goto, Alone
  <1>8. ~HoldsAs(r, pc[r], mem[r])
    BY <1>3 DEF HoldsAs
  <1>9. CASE NeedsFunds(a)
    <2>1. a.signers = <<>>
      <3>1. a.status = "pending_approval" /\ now < a.expires /\ a.expires \in Nat /\ now \in Nat
        BY <1>4, <1>6 DEF CheckDecision, Rows, TypeOK
      <3> QED BY <1>5, <1>9, <3>1 DEF Filed, NeedsFunds
    <2>2. Len(n.signers) = 1
      BY <1>6, <2>1
    <2>3. HoldsAs(r, pc[r], mem[r])'
      BY <1>3, <1>6, <1>7, <1>9, <2>2 DEF HoldsAs, NeedsFunds
    <2>4. n.order = a.order /\ n.amount = a.amount /\ a.amount \in Nat
      BY <1>4, <1>6, AmountsPositive DEF SameContract, Rows
    <2> QED BY <1>3, <1>4, <1>5, <1>6, <1>7, <1>9, <2>3, <2>4, OwnedReserves
  <1>10. CASE ~NeedsFunds(a)
    BY <1>3, <1>6, <1>7, <1>8, <1>10, OwnedGoes
  <1> QED BY <1>9, <1>10

\* A rejection releases what its row claims, or the row claims nothing.
LEMMA RejectOwned ==
  ASSUME DeskInv, BooksInv, DeskInv', BooksInv', OwnedInv, NEW r \in Requests, Reject(r)
  PROVE  OwnedInv'
  <1>1. PICK a, i : a = mem[r].act /\ i = mem[r].aid
    OBVIOUS
  <1>2. PICK v, n : RejectAs(r, a, v, n)
    BY <1>1, RejectParts
  <1>3. /\ pc[r] = "decide" /\ Kind[r] = "reject" /\ Kind[r] \in DeskKinds /\ Goto(r, "save")
        /\ UNCHANGED actions
    BY DEF Reject, DeskKinds
  <1>4. /\ TypeOK /\ a \in Rows /\ mem[r] \in Memory /\ mem[r].cas.order \in Orders
        /\ HeldFiled(r, "decide", mem[r]) /\ Copy(i, a) /\ i \in DOMAIN actions
        /\ actions[i] \in Rows
    BY <1>1, <1>3, DeciderKnows DEF BooksInv
  <1>5. Filed(a) /\ a.order = mem[r].cas.order
    BY <1>1, <1>3, <1>4 DEF HeldFiled, Filed, Ended, DeskKinds
  <1>6. /\ a.status = "pending_approval" /\ v = a.version /\ now < a.expires
        /\ mem' = [mem EXCEPT ![r].act = n, ![r].expected = v]
        /\ IF a.type = "refund" /\ a.reserved
             THEN Ledger!Release(mem[r].cas.order, a.amount) ELSE UNCHANGED ledger
    BY <1>2 DEF RejectAs
  <1>7. Alone(r) /\ pc'[r] = "save" /\ mem'[r].aid = i /\ mem'[r].expected = v
    BY <1>1, <1>3, <1>4, <1>6 DEF TypeOK, Memory, Goto, Alone
  <1>8. /\ actions[i].order = a.order /\ actions[i].amount = a.amount /\ a.amount \in Nat
        /\ actions[i].type = a.type
    BY <1>4, AmountsPositive DEF Copy, SameContract, Rows
  <1>9. ~HoldsAs(r, pc[r], mem[r])
    BY <1>3 DEF HoldsAs
  <1>10. Undoes(r, i) /\ \A j : ~UndoneBy(r, j)
    BY <1>3, <1>7 DEF Undoes, UndoneBy
  <1>11. CASE a.type = "refund" /\ a.reserved
    <2>1. Ledger!Release(a.order, a.amount) /\ a.order \in Orders
      BY <1>4, <1>5, <1>6, <1>11
    <2>2. /\ UNCHANGED transactions /\ \A p \in Orders \ {a.order} : reserved'[p] = reserved[p]
          /\ reserved'[a.order] = IF reserved[a.order] < a.amount THEN 0
                                  ELSE reserved[a.order] - a.amount
      BY <1>4, <1>8, <2>1, ReleaseLowers
    <2>3. Concerns(r, i)
      BY <1>3, <1>7, <2>2 DEF Concerns, Ledger!Paid
    <2>4. reserved'[a.order] = 0 \/ reserved'[a.order] + a.amount <= reserved[a.order]
      <3>1. reserved[a.order] \in Nat
        BY <1>4, <2>1 DEF TypeOK
      <3> QED BY <1>8, <2>2, <3>1
    <2> QED BY <1>3, <1>4, <1>8, <1>9, <1>10, <2>1, <2>2, <2>3, <2>4, OwnedTakes
  <1>12. CASE ~(a.type = "refund" /\ a.reserved)
    <2>1. UNCHANGED <<transactions, reserved>>
      BY <1>6, <1>12 DEF ledger
    <2>2. Concerns(r, i)
      BY <1>3, <1>7, <2>1 DEF Concerns, Ledger!Paid
    <2>3. ASSUME NEW o \in Orders
          PROVE  reserved'[o] + Share(Claims(o), i) + Carry(o, r)
                    <= reserved[o] + Share(Claims(o), i)' + Carry(o, r)'
      <3>1. Carry(o, r) = 0 /\ Carry(o, r)' = 0
        BY <1>3, <1>9 DEF Carry, Held, HoldsAs
      <3>2. Owing(o)' = Owing(o)
        BY <1>3, <2>1 DEF Owing, Ledger!Paid, Key
      <3>3. UndoneBy(r, i)' => i \notin Claims(o)
        <4>1. SUFFICES ASSUME v = actions[i].version, a.type = "refund" PROVE ~actions[i].reserved
          BY <1>3, <1>7, <1>8 DEF UndoneBy, Claims, Owing
        <4>2. ~a.reserved /\ now \in Nat /\ a.expires \in Nat
          BY <1>4, <1>12, <4>1 DEF TypeOK, Rows
        <4>3. a.signers = <<>>
          BY <1>5, <1>6, <4>1, <4>2 DEF Filed
        <4>4. actions[i].signers = <<>> /\ actions[i].status = "pending_approval"
          BY <1>4, <1>6, <4>1, <4>3 DEF Copy
        <4>5. Filed(actions[i])
          BY <1>4 DEF BooksInv
        <4> QED BY <4>4, <4>5 DEF Filed
      <3>4. Undone(i)' => Undone(i) \/ UndoneBy(r, i)'
        BY <1>3, <1>7 DEF Undone, UndoneBy, Alone
      <3>5. i \in Claims(o) => i \in Claims(o)'
        BY <1>3, <3>2, <3>3, <3>4 DEF Claims
      <3>6. PICK s, t \in Nat : s = Share(Claims(o), i) /\ t = Share(Claims(o), i)' /\ s <= t
        BY <1>3, <1>8, <3>5 DEF Share
      <3>7. reserved[o] \in Nat
        BY <1>4 DEF TypeOK
      <3> QED BY <2>1, <3>1, <3>6, <3>7
    <2> QED BY <1>10, <2>2, <2>3, OwnedTurn
  <1> QED BY <1>11, <1>12

LEMMA ReapOwned ==
  ASSUME DeskInv, BooksInv, DeskInv', BooksInv', OwnedInv, NEW r \in Requests, ReapRelease(r)
  PROVE  OwnedInv'
  <1>1. PICK b, n : ReapAs(r, b, n)
    BY ReapParts
  <1>2. PICK a, i : a = b.act /\ i = b.aid
    OBVIOUS
  <1>3. /\ TypeOK /\ UNCHANGED actions /\ pc[r] = "next" /\ Kind[r] = "reap"
    BY DEF DeskInv, HeldOK, HeldAs, ReapRelease
  <1>4. /\ Copy(i, a) /\ i \in DOMAIN actions /\ a \in Rows
        /\ Ledger!Release(a.order, a.amount)
        /\ mem'[r].aid = i /\ Alone(r) /\ pc'[r] = "save"
    BY <1>1, <1>2 DEF ReapAs, Copy
  <1>5. /\ actions[i].order = a.order /\ actions[i].amount = a.amount /\ a.amount \in Nat
        /\ a.order \in Orders
    BY <1>4, AmountsPositive DEF Copy, SameContract, Rows
  <1>6. ~HoldsAs(r, pc[r], mem[r]) /\ Undoes(r, i)
    BY <1>3, <1>4 DEF HoldsAs, Undoes, UndoneBy
  <1>7. /\ UNCHANGED transactions /\ \A p \in Orders \ {a.order} : reserved'[p] = reserved[p]
        /\ reserved'[a.order] = IF reserved[a.order] < a.amount THEN 0
                                ELSE reserved[a.order] - a.amount
    BY <1>3, <1>4, <1>5, ReleaseLowers
  <1>8. Concerns(r, i)
    BY <1>3, <1>4, <1>7 DEF Concerns, Ledger!Paid
  <1>9. reserved'[a.order] = 0 \/ reserved'[a.order] + a.amount <= reserved[a.order]
    <2>1. reserved[a.order] \in Nat
      BY <1>3, <1>5 DEF TypeOK
    <2> QED BY <1>5, <1>7, <2>1
  <1> QED BY <1>3, <1>4, <1>5, <1>6, <1>7, <1>8, <1>9, OwnedTakes

\* Pay, of the copy a of row i: a replay, or a capture of the payment of i alone.
PayAs(r, i, a) ==
    /\ TypeOK /\ i = mem[r].aid /\ a = mem[r].act /\ Copy(i, a) /\ i \in DOMAIN actions /\ a \in Rows
    /\ a.type = "refund" /\ a.status = "approved"
    /\ Key(actions[i]) = Key(a) /\ actions[i].type = a.type
    /\ actions[i].order = a.order /\ actions[i].amount = a.amount
    /\ a.amount \in Nat /\ a.order \in Orders
    /\ pc[r] = "decide" /\ Kind[r] = "execute" /\ UNCHANGED actions
    /\ Alone(r) /\ pc'[r] = "save"
    /\ \/ Ledger!Paid(Key(a)) /\ UNCHANGED ledger
       \/ ~Ledger!Paid(Key(a)) /\ Ledger!Capture(a.order, a.amount, Key(a)) /\ Concerns(r, i)

LEMMA PayParts ==
  ASSUME DeskInv, BooksInv, NEW r \in Requests, Pay(r)
  PROVE  \E i, a : PayAs(r, i, a)
  <1>1. PICK i, a : i = mem[r].aid /\ a = mem[r].act
    OBVIOUS
  <1>2. /\ pc[r] = "decide" /\ Kind[r] = "execute" /\ Kind[r] \in DeskKinds
        /\ Goto(r, "save") /\ UNCHANGED actions
    BY DEF Pay, DeskKinds
  <1>3. PICK v \in Versions, h \in BOOLEAN :
           /\ PayAllowed(r, v, h)
           /\ IF Ledger!Paid(Key(a)) THEN UNCHANGED ledger
                                     ELSE Ledger!Capture(a.order, a.amount, Key(a))
           /\ mem' = [mem EXCEPT ![r].act = Completed(a), ![r].expected = v]
    BY <1>1 DEF Pay
  <1>4. a.type = "refund" /\ a.status = "approved"
    BY <1>1, <1>3 DEF PayAllowed, ExecuteChecks
  <1>5. /\ TypeOK /\ Copy(i, a) /\ i \in DOMAIN actions /\ a \in Rows /\ a.order \in Orders
        /\ a.amount \in Nat
    BY <1>1, <1>2, DeciderKnows, AmountsPositive
  <1>6. /\ Key(actions[i]) = Key(a) /\ actions[i].type = a.type
        /\ actions[i].order = a.order /\ actions[i].amount = a.amount
    BY <1>5 DEF Copy, SameContract, Key
  <1>7. Alone(r) /\ pc'[r] = "save"
    BY <1>2, <1>3, <1>5 DEF TypeOK, Memory, Goto, Alone
  <1>8. ASSUME Ledger!Capture(a.order, a.amount, Key(a)) PROVE Concerns(r, i)
    <2>1. transactions' = transactions \cup {[key |-> Key(a), order |-> a.order, amount |-> a.amount]}
      BY <1>8 DEF Ledger!Capture
    <2>2. \A j \in DOMAIN actions \ {i} : Key(actions[j]) # Key(a)
      BY <1>5, <1>6 DEF BooksInv, OneRowPerKey
    <2>3. ASSUME NEW j \in DOMAIN actions \ {i}, NEW t \in transactions', t.key = Key(actions[j])
          PROVE  Ledger!Paid(Key(actions[j]))
      BY <2>1, <2>2, <2>3 DEF Ledger!Paid
    <2>4. transactions \subseteq transactions'
      BY <2>1
    <2> QED BY <1>2, <1>7, <2>3, <2>4 DEF Concerns
  <1>9. \/ Ledger!Paid(Key(a)) /\ UNCHANGED ledger
        \/ ~Ledger!Paid(Key(a)) /\ Ledger!Capture(a.order, a.amount, Key(a)) /\ Concerns(r, i)
    BY <1>3, <1>8
  <1>10. PayAs(r, i, a)
    BY <1>1, <1>2, <1>4, <1>5, <1>6, <1>7, <1>9 DEF PayAs
  <1> QED BY <1>10, Zenon

LEMMA PayOwned ==
  ASSUME DeskInv, BooksInv, DeskInv', BooksInv', OwnedInv, NEW r \in Requests, Pay(r)
  PROVE  OwnedInv'
  <1>1. PICK i, a : PayAs(r, i, a)
    BY PayParts
  <1>2. /\ TypeOK /\ i \in DOMAIN actions /\ actions[i].order = a.order
        /\ actions[i].amount = a.amount /\ a.amount \in Nat /\ a.order \in Orders
        /\ pc[r] = "decide" /\ Kind[r] = "execute" /\ UNCHANGED actions
        /\ Alone(r) /\ pc'[r] = "save"
    BY <1>1 DEF PayAs
  <1>3. ~HoldsAs(r, pc[r], mem[r]) /\ Undoes(r, i)
    BY <1>2 DEF HoldsAs, Undoes, UndoneBy
  <1>4. CASE UNCHANGED ledger
    BY <1>2, <1>3, <1>4, OwnedGoes
  <1>5. CASE Ledger!Capture(a.order, a.amount, Key(a)) /\ Concerns(r, i)
    <2>1. /\ \A p \in Orders \ {a.order} : reserved'[p] = reserved[p]
          /\ reserved'[a.order] + a.amount <= reserved[a.order]
      BY <1>2, <1>5 DEF Ledger!Capture, TypeOK
    <2> QED BY <1>2, <1>3, <1>5, <2>1, OwnedTakes
  <1> QED BY <1>1, <1>4, <1>5 DEF PayAs

\* The key of a row that is yet to be stored, or is not fully signed, is unpaid.
LEMMA UnsignedUnpaid ==
  ASSUME DeskInv, BooksInv, NEW k, Ledger!Paid(k)
  PROVE  KeyTaken(k) /\ \A i \in DOMAIN actions : Key(actions[i]) = k => FullySigned(actions[i])
  <1>1. k \in {t.key : t \in transactions}
    BY DEF Ledger!Paid
  <1>2. PICK i \in DOMAIN actions : Key(actions[i]) = k /\ FullySigned(actions[i])
    BY <1>1 DEF DeskInv, MovedWasSigned
  <1>3. \A j \in DOMAIN actions : Key(actions[j]) = k => j = i
    BY <1>2 DEF BooksInv, OneRowPerKey
  <1> QED BY <1>2, <1>3 DEF KeyTaken

LEMMA InsertOwned ==
  ASSUME DeskInv, BooksInv, DeskInv', BooksInv', OwnedInv, NEW r \in Requests, InsertAction(r)
  PROVE  OwnedInv'
  <1>1. PICK i, n : InsertAs(r, i, n)
    BY InsertParts
  <1>2. /\ TypeOK /\ HeldAs(r, "insert", mem[r]) /\ HeldFiled(r, "insert", mem[r])
        /\ pc[r] = "insert" /\ UNCHANGED <<transactions, reserved>>
    BY DEF InsertAction, DeskInv, HeldOK, BooksInv, ledger
  <1>3. /\ i \notin DOMAIN actions /\ n = mem[r].act /\ n \in Rows /\ Insertable(n)
        /\ DOMAIN actions' = DOMAIN actions \cup {i} /\ actions'[i] = n
        /\ \A j \in DOMAIN actions : actions'[j] = actions[j]
        /\ Alone(r) /\ pc'[r] = "refresh"
    BY <1>1 DEF InsertAs
  <1>4. Kind[r] = "create" /\ n.status \in Active
    BY <1>2, <1>3 DEF HeldAs, HeldFiled
  <1>5. Concerns(r, i) /\ Undoes(r, i)
    BY <1>2, <1>3, <1>4 DEF Concerns, Undoes, UndoneBy, Ledger!Paid
  <1>6. ~Ledger!Paid(Key(n))
    BY <1>3, UnsignedUnpaid DEF Insertable
  <1>7. ~Undone(i)'
    <2>1. ASSUME NEW q \in Requests, pc'[q] = "save" PROVE mem'[q].aid # i
      <3>1. q # r /\ pc[q] = "save" /\ mem'[q] = mem[q]
        BY <1>3, <2>1 DEF Alone
      <3>2. HeldAs(q, "save", mem[q])
        BY <3>1 DEF DeskInv, HeldOK
      <3>3. mem[q].aid \in DOMAIN actions
        BY <3>2 DEF HeldAs, Writable
      <3> QED BY <1>3, <3>1, <3>3
    <2> QED BY <2>1 DEF Undone, UndoneBy
  <1>8. ASSUME NEW o \in Orders
        PROVE  reserved'[o] + Share(Claims(o), i) + Carry(o, r)
                  <= reserved[o] + Share(Claims(o), i)' + Carry(o, r)'
    <2>1. Share(Claims(o), i) = 0
      BY <1>3 DEF Share, Claims, Owing
    <2>2. Carry(o, r)' = 0
      BY <1>3 DEF Carry, Held, HoldsAs
    <2>3. n.amount \in Nat /\ reserved[o] \in Nat
      BY <1>2, <1>3, AmountsPositive DEF Rows, TypeOK
    <2>4. CASE r \in Held(o)
      <3>1. n.reserved /\ n.order = o /\ n.type = "refund"
        BY <1>3, <2>4, HolderKnows DEF Held, Started, HoldsAs
      <3>2. ~(Ledger!Paid(Key(actions[i])))'
        BY <1>2, <1>3, <1>6 DEF Ledger!Paid, Key
      <3>3. i \in Claims(o)'
        BY <1>3, <1>4, <1>7, <3>1, <3>2 DEF Claims, Owing
      <3>4. Share(Claims(o), i)' = n.amount /\ Carry(o, r) = n.amount
        BY <1>3, <2>4, <3>3 DEF Share, Carry
      <3> QED BY <1>2, <2>1, <2>2, <2>3, <3>4
    <2>5. CASE r \notin Held(o)
      <3>1. Carry(o, r) = 0 /\ Share(Claims(o), i)' \in Nat
        BY <1>3, <2>3, <2>5 DEF Share, Carry
      <3> QED BY <1>2, <2>1, <2>2, <2>3, <3>1
    <2> QED BY <2>4, <2>5
  <1> QED BY <1>5, <1>8, OwnedTurn

\* A signed row claims what its request held, and keeps what it claimed before.
LEMMA SignedRowClaims ==
  ASSUME DeskInv, BooksInv, NEW r \in Requests, NEW i, NEW n, SaveAs(r, i, n), Kind[r] = "approve",
         UNCHANGED transactions, NEW o \in Orders
  PROVE  /\ n.type = "refund" /\ n.order = o /\ ~Ledger!Paid(Key(n)) => i \in Claims(o)'
         /\ r \in Held(o) => /\ i \notin Claims(o) /\ ~Ledger!Paid(Key(n))
                             /\ n.type = "refund" /\ n.order = o
  <1>1. /\ pc[r] = "save" /\ i = mem[r].aid /\ n = mem[r].act
        /\ i \in DOMAIN actions /\ n \in Rows /\ actions[i] \in Rows
        /\ actions[i].version = mem[r].expected /\ RowStep(actions[i], n)
        /\ Key(n) = Key(actions[i]) /\ DOMAIN actions' = DOMAIN actions /\ actions'[i] = n
        /\ Alone(r) /\ pc'[r] \in {"reread", "next"}
    BY DEF SaveAs
  <1>2. HeldFiled(r, "save", mem[r]) /\ Filed(actions[i])
    BY <1>1 DEF BooksInv
  <1>3. n.status \in Active /\ n.signers # <<>> /\ (n.reserved <=> n.type = "refund")
    BY <1>1, <1>2 DEF HeldFiled
  <1>4. ASSUME n.type = "refund"
        PROVE  /\ actions[i].status = "pending_approval" /\ n.version = actions[i].version + 1
               /\ Len(n.signers) = Len(actions[i].signers) + 1
    <2>1. n.reserved /\ n.status # "rejected" /\ n.status # "completed"
      BY <1>3, <1>4 DEF Active
    <2>2. PICK u \in Admins : n.signers = Append(actions[i].signers, u)
      BY <1>1, <2>1 DEF RowStep
    <2>3. actions[i].signers \in Seq(Users) /\ u \in Users
      BY <1>1, DeskAssumption DEF Rows, DeskAssumption
    <2> QED BY <1>1, <2>1, <2>2, <2>3 DEF RowStep
  <1>5. ASSUME n.type = "refund" PROVE ~Undone(i)'
    <2>1. ASSUME NEW q \in Requests, pc'[q] = "save", mem'[q].aid = i
          PROVE  mem'[q].expected # n.version
      <3>1. q # r /\ pc[q] = "save" /\ mem'[q] = mem[q]
        BY <1>1, <2>1 DEF Alone
      <3>2. HeldAs(q, "save", mem[q]) /\ mem[q] \in Memory
        BY <3>1 DEF DeskInv, HeldOK, TypeOK
      <3>3. mem[q].expected <= actions[i].version /\ mem[q].expected \in Nat
        BY <2>1, <3>1, <3>2 DEF HeldAs, Writable, Memory
      <3>4. actions[i].version \in Nat
        BY <1>1 DEF Rows
      <3> QED BY <1>4, <1>5, <3>1, <3>3, <3>4
    <2> QED BY <1>1, <2>1 DEF Undone, UndoneBy
  <1>6. ASSUME n.type = "refund", n.order = o, ~Ledger!Paid(Key(n)) PROVE i \in Claims(o)'
    <2>1. ~(Ledger!Paid(Key(actions[i])))'
      BY <1>1, <1>6 DEF Ledger!Paid, Key
    <2> QED BY <1>1, <1>3, <1>5, <1>6, <2>1 DEF Claims, Owing
  <1>7. ASSUME r \in Held(o)
        PROVE  i \notin Claims(o) /\ ~Ledger!Paid(Key(n)) /\ n.type = "refund" /\ n.order = o
    <2>1. n.type = "refund" /\ n.order = o /\ Len(n.signers) = 1
      BY <1>1, <1>7, HolderKnows DEF Held, Started, HoldsAs
    <2>2. /\ actions[i].status = "pending_approval" /\ Len(actions[i].signers) = 0
          /\ actions[i].signers = <<>>
      BY <1>1, <1>4, <2>1 DEF Rows
    <2>3. ~actions[i].reserved /\ ~FullySigned(actions[i])
      <3>1. /\ ~actions[i].reserved /\ ~actions[i].auto
            /\ Len(actions[i].signers) < actions[i].need /\ actions[i].need \in {1, 2}
        BY <1>1, <1>2, <2>2 DEF Filed, Rows
      <3> QED BY <2>2, <3>1 DEF FullySigned
    <2>4. ~Ledger!Paid(Key(n))
      BY <1>1, <2>3, UnsignedUnpaid
    <2> QED BY <2>1, <2>3, <2>4 DEF Claims
  <1> QED BY <1>6, <1>7

LEMMA SaveOwned ==
  ASSUME DeskInv, BooksInv, DeskInv', BooksInv', OwnedInv, NoSupplement, NEW r \in Requests,
         SaveAction(r)
  PROVE  OwnedInv'
  <1>1. PICK i, n : SaveAs(r, i, n)
    BY SaveParts
  <1>2. /\ pc[r] = "save" /\ i = mem[r].aid /\ n = mem[r].act
        /\ i \in DOMAIN actions /\ n \in Rows /\ actions[i] \in Rows /\ RowOK(n)
        /\ actions[i].version = mem[r].expected /\ RowStep(actions[i], n)
        /\ Key(n) = Key(actions[i]) /\ DOMAIN actions' = DOMAIN actions /\ actions'[i] = n
        /\ \A j \in DOMAIN actions \ {i} : actions'[j] = actions[j]
        /\ Alone(r) /\ pc'[r] \in {"reread", "next"} /\ Kind[r] \in DeskKinds \cup {"reap"}
    BY <1>1 DEF SaveAs
  <1>3. TypeOK /\ UNCHANGED <<transactions, reserved>> /\ HeldFiled(r, "save", mem[r])
    BY <1>2 DEF SaveAction, ledger, DeskInv, BooksInv
  <1>4. Concerns(r, i) /\ Undoes(r, i)
    BY <1>2, <1>3 DEF Concerns, Undoes, UndoneBy, Ledger!Paid
  <1>5. n.amount \in Nat /\ actions[i].amount = n.amount /\ actions[i].order = n.order
        /\ actions[i].type = n.type
    BY <1>2, AmountsPositive DEF Rows, RowStep, SameContract
  <1>6. \A o \in Orders : Carry(o, r)' = 0
    BY <1>2 DEF Carry, Held, HoldsAs
  <1>7. ASSUME NEW o \in Orders
        PROVE  reserved'[o] + Share(Claims(o), i) + Carry(o, r)
                  <= reserved[o] + Share(Claims(o), i)' + Carry(o, r)'
    <2>1. reserved[o] \in Nat
      BY <1>3 DEF TypeOK
    <2>2. PICK s, t, c \in Nat :
             s = Share(Claims(o), i) /\ t = Share(Claims(o), i)' /\ c = Carry(o, r)
      BY <1>2, <1>5 DEF Share, Carry
    <2>3. CASE Kind[r] = "approve"
      <3>1. /\ n.type = "refund" /\ n.order = o /\ ~Ledger!Paid(Key(n)) => t = n.amount
            /\ r \in Held(o) => /\ s = 0 /\ ~Ledger!Paid(Key(n))
                                /\ n.type = "refund" /\ n.order = o
        BY <1>1, <1>2, <1>3, <2>2, <2>3, SignedRowClaims DEF Share
      <3>2. i \in Claims(o) => n.type = "refund" /\ n.order = o /\ ~Ledger!Paid(Key(n))
        BY <1>2, <1>5 DEF Claims, Owing
      <3>3. s = (IF i \in Claims(o) THEN n.amount ELSE 0) /\ c = (IF r \in Held(o) THEN n.amount ELSE 0)
        BY <1>2, <1>5, <2>2 DEF Share, Carry
      <3>4. s + c <= t
        BY <1>5, <2>2, <3>1, <3>2, <3>3
      <3> QED BY <1>3, <1>6, <2>1, <2>2, <3>4
    <2>4. CASE Kind[r] # "approve"
      <3>1. c = 0
        BY <1>2, <2>2, <2>4 DEF Carry, Held, HoldsAs, DeskKinds
      <3>2. i \notin Claims(o)
        <4>1. CASE Kind[r] \in {"reject", "reap"}
          <5>1. UndoneBy(r, i)
            BY <1>2, <4>1 DEF UndoneBy
          <5> QED BY <5>1 DEF Undone, Claims
        <4>2. CASE Kind[r] = "execute"
          <5>1. n.status = "completed"
            BY <1>2, <1>3, <4>2 DEF HeldFiled
          <5>2. n.type = "refund" => Ledger!Paid(Key(actions[i]))
            BY <1>2, <5>1 DEF RowOK, Receipted
          <5> QED BY <1>5, <5>2 DEF Claims, Owing
        <4> QED BY <1>2, <2>4, <4>1, <4>2 DEF DeskKinds
      <3>3. s = 0
        BY <2>2, <3>2 DEF Share
      <3> QED BY <1>3, <1>6, <2>1, <2>2, <3>1, <3>3
    <2> QED BY <2>3, <2>4
  <1> QED BY <1>4, <1>7, OwnedTurn

\* A step of r that calls no adapter, stores nothing and holds nothing.
LEMMA QuietOwned ==
  ASSUME DeskInv, BooksInv, DeskInv', BooksInv', OwnedInv, NoSupplement, NEW r \in Requests,
         \/ ReadAction(r) \/ ReadActionCase(r) \/ ReadCase(r) \/ Reread(r) \/ Dispatch(r)
         \/ CreateRefused(r) \/ Refuse(r) \/ ReapList(r) \/ ReapDone(r)
         \/ UpdateCase(r) \/ AppendEvent(r)
  PROVE  OwnedInv'
  <1>0. TypeOK /\ HeldAs(r, pc[r], mem[r]) /\ Kind[r] # "supplement"
    BY DEF DeskInv, HeldOK, NoSupplement
  <1>1. CASE CreateRefused(r) \/ Refuse(r) \/ ReapDone(r)
    <2>1. \E l \in Ended : End(r, l) /\ UNCHANGED <<ledger, actions>>
      BY <1>1 DEF CreateRefused, Refuse, ReapDone, Ended
    <2>2. ~HoldsAs(r, pc[r], mem[r])
      BY <1>1 DEF CreateRefused, Refuse, ReapDone, HoldsAs
    <2> QED BY <2>1, <2>2, OwnedEnd
  <1>2. CASE ReadAction(r) \/ ReadActionCase(r) \/ ReadCase(r) \/ ReapList(r)
    <2>1. /\ Alone(r) /\ UNCHANGED <<ledger, actions>> /\ ~HoldsAs(r, pc[r], mem[r])
          /\ pc'[r] # "save"
      BY <1>0, <1>2
         DEF ReadAction, ReadActionCase, ReadCase, ReapList, Goto, Alone, TypeOK, HoldsAs
    <2> QED BY <2>1, OwnedGoes
  <1>3. CASE Reread(r)
    <2>1. /\ Alone(r) /\ UNCHANGED <<ledger, actions>> /\ ~HoldsAs(r, pc[r], mem[r])
          /\ pc'[r] # "save"
      BY <1>0, <1>3 DEF Reread, Goto, Alone, TypeOK, HoldsAs
    <2> QED BY <2>1, OwnedGoes
  <1>4. CASE Dispatch(r)
    <2>1. /\ Alone(r) /\ UNCHANGED <<ledger, actions>> /\ ~HoldsAs(r, pc[r], mem[r])
          /\ Kind[r] = "execute"
      BY <1>0, <1>4 DEF Dispatch, Goto, Alone, TypeOK, HoldsAs
    <2> QED BY <2>1, OwnedGoes
  <1>5. CASE UpdateCase(r)
    <2>1. ~HoldsAs(r, pc[r], mem[r]) /\ UNCHANGED <<ledger, actions>>
      BY <1>5 DEF UpdateCase, WriteCase, HoldsAs
    <2>2. CASE Kind[r] \in {"create", "execute"}
      <3>1. Alone(r) /\ pc'[r] # "save"
        BY <1>0, <1>5, <2>2 DEF UpdateCase, Goto, Alone, TypeOK
      <3> QED BY <2>1, <3>1, OwnedGoes
    <2>3. CASE Kind[r] \notin {"create", "execute"}
      BY <1>5, <2>1, <2>3, OwnedEnd DEF UpdateCase, Ended
    <2> QED BY <2>2, <2>3
  <1>6. CASE AppendEvent(r)
    <2>1. ~HoldsAs(r, pc[r], mem[r]) /\ UNCHANGED <<ledger, actions>>
      BY <1>6 DEF AppendEvent, HoldsAs
    <2>2. CASE Kind[r] \in {"approve", "reject"}
      <3>1. Alone(r) /\ pc'[r] # "save"
        BY <1>0, <1>6, <2>2 DEF AppendEvent, Goto, Alone, TypeOK
      <3> QED BY <2>1, <3>1, OwnedGoes
    <2>3. CASE Kind[r] \notin {"approve", "reject"}
      BY <1>0, <1>6, <2>1, <2>3, OwnedEnd DEF AppendEvent, Ended
    <2> QED BY <2>2, <2>3
  <1> QED BY <1>1, <1>2, <1>3, <1>4, <1>5, <1>6

\* No run cancels a request between a reservation and the row that shows it.
FundsGuarded == \A r \in Tools : Kind[r] \notin {"create", "approve"}

LEMMA OwnedNext ==
  (DeskInv /\ BooksInv /\ DeskInv' /\ BooksInv' /\ NoSupplement /\ FundsGuarded /\ OwnedInv
     /\ [Next]_vars) => OwnedInv'
  <1> SUFFICES ASSUME DeskInv, BooksInv, DeskInv', BooksInv', NoSupplement, FundsGuarded,
                      OwnedInv, [Next]_vars
               PROVE  OwnedInv'
    OBVIOUS
  <1>1. ASSUME NEW r \in Requests, StorageError(r) PROVE OwnedInv'
    BY <1>1, OwnedAbort DEF StorageError
  <1>2. ASSUME NEW r \in Requests, Cancel(r) PROVE OwnedInv'
    <2>1. ~HoldsAs(r, pc[r], mem[r]) /\ End(r, "cancelled") /\ UNCHANGED <<ledger, actions>>
      BY <1>2 DEF Cancel, FundsGuarded, HoldsAs
    <2> QED BY <2>1, OwnedEnd DEF Ended
  <1>3. ASSUME NEW r \in Requests, SaveConflict(r) \/ InsertConflict(r) \/ CaseConflict(r)
        PROVE  OwnedInv'
    <2>1. Abort(r) /\ UNCHANGED actions /\ InFlight(r)
      BY <1>3 DEF SaveConflict, InsertConflict, CaseConflict, InFlight, Ended
    <2> QED BY <2>1, OwnedAbort
  <1>4. ASSUME NEW r \in Requests, Step(r) PROVE OwnedInv'
    <2>1. ~ListActive(r) /\ ~ReleaseInvalidated(r) /\ ~Reassess(r)
      BY DEF ListActive, ReleaseInvalidated, Reassess, DeskInv, HeldOK, HeldAs, NoSupplement
    <2> QED BY <1>3, <1>4, <2>1, QuietOwned, CreateOwned, ApproveOwned, RejectOwned, PayOwned,
               InsertOwned, SaveOwned, ReapOwned DEF Step
  <1>5. ASSUME UNCHANGED <<reserved, transactions, actions, pc, mem>> PROVE OwnedInv'
    <2>1. Started' = Started
      BY <1>5 DEF Started
    <2>2. \A o : Held(o)' = Held(o)
      BY <1>5, <2>1 DEF Held, HoldsAs
    <2>3. \A o : Owing(o)' = Owing(o)
      BY <1>5 DEF Owing, Ledger!Paid, Key
    <2>4. \A o : Claims(o)' = Claims(o)
      BY <1>5, <2>3 DEF Claims, Undone, UndoneBy
    <2>5. \A o : Total(Claims(o))' = Total(Claims(o)) /\ HeldSum(o)' = HeldSum(o)
      BY <1>5, <2>2, <2>4, Zenon DEF Total, HeldSum
    <2> QED BY <1>5, <2>5 DEF OwnedInv
  <1>6. CASE Tick
    BY <1>5, <1>6 DEF Tick, ledger
  <1>7. CASE UNCHANGED vars
    BY <1>5, <1>7 DEF vars, ledger
  <1> QED BY <1>1, <1>2, <1>4, <1>6, <1>7 DEF Next, Wait

LEMMA OwnedInit == Init => OwnedInv
  <1> SUFFICES ASSUME Init, NEW o \in Orders PROVE reserved[o] <= Total(Claims(o)) + HeldSum(o)
    BY DEF OwnedInv
  <1>1. Claims(o) = {} /\ Held(o) = {} /\ reserved[o] = 0
    BY DEF Init, Claims, Owing, Held, Started
  <1>2. Weighed([i \in DOMAIN actions |-> actions[i].amount], {})
        /\ Weighed([r \in Requests |-> mem[r].act.amount], {})
    BY FS_EmptySet DEF Weighed
  <1>3. Total({}) = 0
    BY <1>2, SumRecursion, Zenon DEF Total
  <1>4. HeldSum(o) = 0
    BY <1>1, <1>2, SumRecursion, Zenon DEF HeldSum
  <1> QED BY <1>1, <1>3, <1>4

\* Between requests nobody holds anything and no row is undone.
LEMMA OwnedRests == DeskInv /\ BooksInv /\ OwnedInv => FrozenIsOwned
  <1> SUFFICES ASSUME DeskInv, BooksInv, OwnedInv, Quiescent, NEW o \in Orders
               PROVE  reserved[o] <=
                 Total({i \in Owing(o) : actions[i].status \in Active /\ actions[i].reserved})
    BY DEF FrozenIsOwned
  <1>1. \A r \in Requests : pc[r] \in Ended \cup {"idle"}
    BY DEF Quiescent, InFlight
  <1>2. \A i : ~Undone(i)
    BY <1>1 DEF Undone, UndoneBy, Ended
  <1>3. Held(o) = {}
    BY <1>1 DEF Held, Started, HoldsAs, Ended
  <1>4. Claims(o) = {i \in Owing(o) : actions[i].status \in Active /\ actions[i].reserved}
    BY <1>2 DEF Claims
  <1>5. Weighed([r \in Requests |-> mem[r].act.amount], {})
    BY FS_EmptySet DEF Weighed
  <1>6. HeldSum(o) = 0
    BY <1>3, <1>5, SumRecursion, Zenon DEF HeldSum
  <1>7. Total(Claims(o)) \in Nat
    <2>1. \A i \in DOMAIN actions : actions[i].amount \in Nat
      BY AmountsPositive DEF DeskInv, TypeOK, Rows
    <2>2. Weighed([i \in DOMAIN actions |-> actions[i].amount], Claims(o))
      BY <2>1, FS_Subset DEF BooksInv, Weighed, Claims, Owing
    <2> QED BY <2>2, SumRecursion DEF Total
  <1>8. reserved[o] <= Total(Claims(o)) + HeldSum(o) /\ reserved[o] \in Nat
    BY DEF OwnedInv, DeskInv, TypeOK
  <1>9. reserved[o] <= Total(Claims(o))
    BY <1>6, <1>7, <1>8
  <1> QED BY <1>4, <1>9

\* Between requests, whatever the payment adapter keeps reserved on an order
\* belongs to a stored action, however approvals, rejections, executions and the
\* reaper interleave and however often the database fails: the compensations in
\* create_case_action and approve give back exactly what no row will show.  Two
\* things are left out, because the code does lose money to them: a supplement,
\* which may move the case to an order that the row does not name before approve
\* reserves on it, and a cancelled run, whose CancelledError no except clause
\* catches.
THEOREM DeskFreezesForOwners ==
  ASSUME NoSupplement, FundsGuarded
  PROVE  Spec => []FrozenIsOwned
  <1>1. DeskInv /\ BooksInv /\ [Next]_vars => BooksInv'
    BY BooksNext
  <1>2. DeskInv /\ BooksInv /\ DeskInv' /\ BooksInv' /\ OwnedInv /\ [Next]_vars => OwnedInv'
    BY OwnedNext
  <1> QED BY <1>1, <1>2, DeskInvariant, BooksInit, OwnedInit, OwnedRests, PTL DEF Spec

-----------------------------------------------------------------------------
(* An approval is funded                                                   *)

\* No supplement, no reaper, no storage error, and refunds of one signature.
PlainDesk ==
    /\ \A r \in Requests : Kind[r] \in DeskKinds \cup {"create"}
    /\ MaxFaults = 0
    /\ \A p \in Plans : p.type = "refund" => p.need = 1

Backed(o) == {i \in Owing(o) : actions[i].status = "approved"}

\* The pool of an order covers its approved rows and what requests hold.
FundedInv == \A o \in Orders : Total(Backed(o)) + HeldSum(o) <= reserved[o]

\* What request r, at label l in memory m, may rely on: a rejection still finds
\* its row pending, and an approval that execute has seen is not taken back.
Firm(r, l, m) ==
    /\ Kind[r] = "reject" /\ l = "save" /\ actions[m.aid].version = m.expected =>
          actions[m.aid].status = "pending_approval"
    /\ Kind[r] = "execute" /\ l \in {"readCase", "decide"} /\ m.act.status = "approved" =>
          actions[m.aid].status \in {"approved", "completed"}

FirmInv == \A r \in Requests : Firm(r, pc[r], mem[r])

LEMMA SignedAtOnce ==
  ASSUME PlainDesk, NEW a \in Rows, Filed(a), a.type = "refund"
  PROVE  a.need = 1 /\ (a.status = "pending_approval" => a.signers = <<>> /\ ~a.reserved)
  <1>1. a.need = 1
    BY DEF PlainDesk, Filed
  <1>2. ASSUME a.status = "pending_approval" PROVE a.signers = <<>> /\ ~a.reserved
    <2>1. Len(a.signers) < 1 /\ a.signers \in Seq(Users)
      BY <1>1, <1>2 DEF Filed, Rows
    <2>2. a.signers = <<>>
      BY <2>1
    <2> QED BY <1>2, <2>2 DEF Filed
  <1> QED BY <1>1, <1>2

LEMMA OneSigner ==
  ASSUME NEW s \in Seq(Users), s # <<>>, Len(s) <= 1
  PROVE  Len(s) = 1
  <1>1. ASSUME Len(s) < 1 PROVE s = <<>>
    BY <1>1
  <1>2. ~(Len(s) < 1)
    BY <1>1, Zenon
  <1>3. PICK k \in Nat : k = Len(s)
    OBVIOUS
  <1>4. k <= 1 /\ ~(k < 1)
    BY <1>2, <1>3
  <1>5. k = 1
    BY <1>4
  <1> QED BY <1>3, <1>5

LEMMA BackedBut ==
  ASSUME NEW r \in Requests, NEW i, Concerns(r, i), NEW o
  PROVE  Backed(o) \ {i} = Backed(o)' \ {i}
  <1>1. ASSUME NEW j \in DOMAIN actions \ {i} PROVE j \in Backed(o)' <=> j \in Backed(o)
    <2>1. actions'[j] = actions[j] /\ j \in DOMAIN actions'
      BY DEF Concerns
    <2>2. Ledger!Paid(Key(actions[j]))' <=> Ledger!Paid(Key(actions[j]))
      BY <2>1 DEF Concerns, Ledger!Paid, Key
    <2>3. j \in Owing(o)' <=> j \in Owing(o)
      BY <2>1, <2>2 DEF Owing
    <2> QED BY <2>1, <2>3 DEF Backed
  <1>2. Backed(o) \subseteq DOMAIN actions /\ Backed(o)' \subseteq DOMAIN actions \cup {i}
    BY DEF Backed, Owing, Concerns
  <1> QED BY <1>1, <1>2

LEMMA FundedTurn ==
  ASSUME DeskInv, BooksInv, DeskInv', BooksInv', FundedInv,
         NEW r \in Requests, NEW i, Concerns(r, i),
         \A o \in Orders : reserved[o] + Share(Backed(o), i)' + Carry(o, r)'
                              <= reserved'[o] + Share(Backed(o), i) + Carry(o, r)
  PROVE  FundedInv'
  <1> SUFFICES ASSUME NEW o \in Orders
               PROVE  Total(Backed(o))' + HeldSum(o)' <= reserved'[o]
    BY DEF FundedInv
  <1>0. TypeOK /\ TypeOK' /\ Alone(r)
    BY DEF DeskInv, Concerns
  <1>1. PICK S, T : S = Backed(o) /\ T = Backed(o)'
    OBVIOUS
  <1>2. S \in SUBSET DOMAIN actions /\ T \in SUBSET DOMAIN actions' /\ S \ {i} = T \ {i}
    BY <1>1, BackedBut DEF Backed, Owing
  <1>3. \A j \in S \ {i} : actions'[j].amount = actions[j].amount
    BY <1>2 DEF Concerns
  <1>4. PICK rest \in Nat : Total(S) = rest + Share(S, i) /\ Total(T)' = rest + Share(T, i)'
    BY <1>0, <1>2, <1>3, TotalMoves
  <1>5. PICK more \in Nat : HeldSum(o) = more + Carry(o, r) /\ HeldSum(o)' = more + Carry(o, r)'
    BY <1>0, HeldMoves
  <1>6. Share(S, i) \in Nat /\ Share(T, i)' \in Nat
    BY <1>0, <1>2, AmountsPositive DEF TypeOK, Rows, Share
  <1>7. Carry(o, r) \in Nat /\ Carry(o, r)' \in Nat
    BY CarryTypes
  <1>8. reserved[o] \in Nat /\ reserved'[o] \in Nat
    BY <1>0 DEF TypeOK
  <1>9. Total(S) + HeldSum(o) <= reserved[o]
    BY <1>1 DEF FundedInv
  <1>10. PICK s, t, c, d \in Nat : s = Share(S, i) /\ t = Share(T, i)' /\ c = Carry(o, r) /\ d = Carry(o, r)'
    BY <1>6, <1>7
  <1>11. reserved[o] + t + d <= reserved'[o] + s + c
    BY <1>1, <1>10
  <1>12. Total(T)' + HeldSum(o)' <= reserved'[o]
    BY <1>4, <1>5, <1>8, <1>9, <1>10, <1>11
  <1> QED BY <1>1, <1>12

\* A step by which a request takes a share or gives its share back.
LEMMA FundedHolder ==
  ASSUME DeskInv, BooksInv, DeskInv', BooksInv', FundedInv, NEW r \in Requests, Alone(r),
         UNCHANGED <<actions, transactions>>,
         \A o \in Orders : reserved[o] + Carry(o, r)' <= reserved'[o] + Carry(o, r)
  PROVE  FundedInv'
  <1>1. PICK i : i = mem[r].aid
    OBVIOUS
  <1>2. Concerns(r, i)
    BY <1>1 DEF Concerns, Ledger!Paid
  <1>3. ASSUME NEW o \in Orders
        PROVE  reserved[o] + Share(Backed(o), i)' + Carry(o, r)'
                  <= reserved'[o] + Share(Backed(o), i) + Carry(o, r)
    <2>1. Owing(o)' = Owing(o)
      BY DEF Owing, Ledger!Paid, Key
    <2>2. i \in Backed(o)' <=> i \in Backed(o)
      BY <2>1 DEF Backed
    <2>3. Carry(o, r) \in Nat /\ Carry(o, r)' \in Nat
      BY CarryTypes
    <2>4. i \in DOMAIN actions => actions[i].amount \in Nat
      BY AmountsPositive DEF DeskInv, TypeOK, Rows
    <2>5. PICK s \in Nat : s = Share(Backed(o), i) /\ s = Share(Backed(o), i)'
      BY <2>2, <2>4 DEF Share, Backed, Owing
    <2>6. reserved[o] \in Nat /\ reserved'[o] \in Nat
      BY DEF DeskInv, TypeOK
    <2>7. reserved[o] + Carry(o, r)' <= reserved'[o] + Carry(o, r)
      OBVIOUS
    <2> QED BY <2>3, <2>5, <2>6, <2>7
  <1> QED BY <1>2, <1>3, FundedTurn

\* A step with no call of the adapter, after which the request holds nothing.
LEMMA FundedGoes ==
  ASSUME DeskInv, BooksInv, DeskInv', BooksInv', FundedInv, NEW r \in Requests, Alone(r),
         UNCHANGED <<ledger, actions>>, ~HoldsAs(r, pc[r], mem[r])'
  PROVE  FundedInv'
  <1>1. UNCHANGED <<transactions, reserved>>
    BY DEF ledger
  <1>2. \A o \in Orders : /\ Carry(o, r) \in Nat /\ Carry(o, r)' = 0
                          /\ reserved[o] \in Nat /\ reserved'[o] = reserved[o]
    BY <1>1, CarryTypes DEF Carry, Held, DeskInv, TypeOK
  <1> QED BY <1>1, <1>2, FundedHolder

LEMMA BackedTypes ==
  ASSUME DeskInv, BooksInv, NEW o
  PROVE  Total(Backed(o)) \in Nat /\ Weighed([i \in DOMAIN actions |-> actions[i].amount], Backed(o))
  <1>1. \A i \in DOMAIN actions : actions[i].amount \in Nat
    BY AmountsPositive DEF DeskInv, TypeOK, Rows
  <1>2. Weighed([i \in DOMAIN actions |-> actions[i].amount], Backed(o))
    BY <1>1, FS_Subset DEF BooksInv, Weighed, Backed, Owing
  <1> QED BY <1>2, SumRecursion DEF Total

LEMMA FundedAbort ==
  ASSUME PlainDesk, DeskInv, BooksInv, DeskInv', BooksInv', FundedInv, NEW r \in Requests,
         pc[r] \in {"insert", "save", "updateCase"}, Abort(r), UNCHANGED actions
  PROVE  FundedInv'
  <1>0. TypeOK /\ HeldAs(r, pc[r], mem[r]) /\ HeldFiled(r, pc[r], mem[r])
    BY DEF DeskInv, HeldOK, BooksInv
  <1>1. Alone(r) /\ pc'[r] = "failed"
    BY <1>0 DEF TypeOK, Abort, End, Goto, Alone
  <1>2. \A o : ~HoldsAs(r, pc[r], mem[r])' /\ Carry(o, r)' = 0
    BY <1>1 DEF HoldsAs, Carry, Held
  <1>3. CASE Guarded(r) /\ mem[r].act.type = "refund" /\ mem[r].act.reserved
    <2>1. HoldsAs(r, pc[r], mem[r])
      <3>1. CASE Kind[r] = "create"
        BY <1>3, <3>1 DEF Guarded, HoldsAs
      <3>2. CASE Kind[r] = "approve"
        <4>1. pc[r] = "save"
          BY <1>3, <3>2 DEF Guarded
        <4>2. mem[r].act \in Rows /\ Filed(mem[r].act) /\ mem[r].act.signers # <<>>
              /\ Len(mem[r].act.signers) <= mem[r].act.need
          BY <1>0, <3>2, <4>1 DEF HeldAs, Writable, HeldFiled
        <4>3. mem[r].act.need = 1 /\ mem[r].act.signers \in Seq(Users)
          BY <1>3, <4>2, SignedAtOnce DEF Rows
        <4>4. PICK s \in Seq(Users) : s = mem[r].act.signers
          BY <4>3
        <4>5. s # <<>> /\ Len(s) <= 1
          BY <4>2, <4>3, <4>4
        <4>6. Len(s) = 1
          BY <4>5, OneSigner
        <4> QED BY <1>3, <3>2, <4>1, <4>4, <4>6 DEF HoldsAs
      <3> QED BY <1>3, <3>1, <3>2 DEF Guarded
    <2>2. PICK n, p : n = mem[r].act.amount /\ p = mem[r].cas.order
      OBVIOUS
    <2>3. n \in Nat /\ p = mem[r].act.order /\ p \in Orders
      BY <2>1, <2>2, HolderKnows
    <2>4. Ledger!Release(p, n)
      BY <1>3, <2>2 DEF Abort
    <2>5. \A o : Carry(o, r) = IF o = p THEN n ELSE 0
      BY <2>1, <2>2, <2>3 DEF Carry, Held, Started, HoldsAs
    <2>6. /\ UNCHANGED transactions /\ \A o \in Orders \ {p} : reserved'[o] = reserved[o]
          /\ reserved'[p] = IF reserved[p] < n THEN 0 ELSE reserved[p] - n
      BY <1>0, <2>3, <2>4, ReleaseLowers
    <2>7. n <= reserved[p] /\ reserved \in [Orders -> Nat]
      <3>1. PICK rest \in Nat : HeldSum(p) = rest + Carry(p, r)
        BY <1>1, HeldMoves
      <3>2. Total(Backed(p)) \in Nat
        BY BackedTypes
      <3>3. Total(Backed(p)) + HeldSum(p) <= reserved[p] /\ reserved \in [Orders -> Nat]
        BY <1>0, <2>3 DEF FundedInv, TypeOK
      <3>4. reserved[p] \in Nat /\ HeldSum(p) = rest + n
        BY <2>3, <2>5, <3>1, <3>3
      <3> QED BY <2>3, <3>1, <3>2, <3>3, <3>4
    <2>8. \A o \in Orders : reserved[o] + Carry(o, r)' <= reserved'[o] + Carry(o, r)
      BY <1>2, <2>3, <2>5, <2>6, <2>7
    <2> QED BY <1>1, <2>6, <2>8, FundedHolder
  <1>4. CASE ~(Guarded(r) /\ mem[r].act.type = "refund" /\ mem[r].act.reserved)
    <2>1. UNCHANGED <<ledger, actions>>
      BY <1>4 DEF Abort
    <2> QED BY <1>1, <1>2, <2>1, FundedGoes
  <1> QED BY <1>3, <1>4

\* A step that reserves n on p for a row it has yet to store.
LEMMA FundedReserves ==
  ASSUME DeskInv, BooksInv, DeskInv', BooksInv', FundedInv, NEW r \in Requests, Alone(r),
         UNCHANGED actions, NEW p \in Orders, NEW n \in Nat, Ledger!Reserve(p, n),
         mem'[r].act.order = p, mem'[r].act.amount = n
  PROVE  FundedInv'
  <1>1. \A o : Carry(o, r) \in Nat /\ Carry(o, r)' \in Nat
    BY CarryTypes
  <1>2. \A o : Carry(o, r)' <= IF o = p THEN n ELSE 0
    BY DEF Carry, Held
  <1>3. UNCHANGED transactions
    BY DEF Ledger!Reserve
  <1>4. ASSUME NEW o \in Orders PROVE reserved[o] + Carry(o, r)' <= reserved'[o] + Carry(o, r)
    <2>1. reserved \in [Orders -> Nat]
      BY DEF DeskInv, TypeOK
    <2>2. reserved'[o] = reserved[o] + (IF o = p THEN n ELSE 0)
      BY <2>1 DEF Ledger!Reserve
    <2>3. PICK c, d, x \in Nat : c = Carry(o, r) /\ d = Carry(o, r)' /\ x = reserved[o]
      BY <1>1, <2>1
    <2>4. d <= IF o = p THEN n ELSE 0
      BY <1>2, <2>3
    <2> QED BY <2>2, <2>3, <2>4
  <1> QED BY <1>3, <1>4, FundedHolder

LEMMA CreateFunded ==
  ASSUME DeskInv, BooksInv, DeskInv', BooksInv', FundedInv, NEW r \in Requests, CreateAction(r)
  PROVE  FundedInv'
  <1>1. PICK o : o = mem[r]
    OBVIOUS
  <1>2. PICK a : a = NewAction(o.cid, o.cas)
    OBVIOUS
  <1>3. /\ TypeOK /\ HeldAs(r, "decide", o) /\ Kind[r] = "create" /\ UNCHANGED actions
    BY <1>1 DEF DeskInv, HeldOK, CreateAction
  <1>4. o.cid \in Cases /\ o.cas \in CaseRows
    BY <1>3 DEF HeldAs, Ended
  <1>5. o.cas.order \in Orders /\ o.cas.plan.amount \in Nat
    BY <1>4, DeskAssumption DEF CaseRows, DeskAssumption, PlanShape
  <1>6. a.order = o.cas.order /\ a.amount = o.cas.plan.amount
    BY <1>2 DEF NewAction
  <1>7. /\ Alone(r) /\ mem'[r].act = a
        /\ IF a.reserved THEN Ledger!Reserve(o.cas.order, a.amount) ELSE UNCHANGED ledger
    BY <1>1, <1>2, <1>3 DEF CreateAction, Goto, Alone, TypeOK, Memory
  <1>8. CASE a.reserved
    BY <1>3, <1>5, <1>6, <1>7, <1>8, FundedReserves
  <1>9. CASE ~a.reserved
    <2>1. ~HoldsAs(r, pc[r], mem[r])'
      BY <1>7, <1>9 DEF HoldsAs
    <2> QED BY <1>3, <1>7, <1>9, <2>1, FundedGoes
  <1> QED BY <1>8, <1>9

LEMMA ApproveFunded ==
  ASSUME PlainDesk, DeskInv, BooksInv, DeskInv', BooksInv', FundedInv, NEW r \in Requests,
         Approve(r)
  PROVE  FundedInv'
  <1>1. PICK a : a = mem[r].act
    OBVIOUS
  <1>2. PICK u, v, n : ApproveAs(r, a, u, v, n)
    BY <1>1, ApproveParts
  <1>3. /\ pc[r] = "decide" /\ Kind[r] = "approve" /\ Kind[r] \in DeskKinds /\ Goto(r, "save")
        /\ UNCHANGED actions
    BY DEF Approve, DeskKinds
  <1>4. /\ TypeOK /\ a \in Rows /\ mem[r] \in Memory /\ mem[r].cas.order \in Orders
        /\ HeldFiled(r, "decide", mem[r])
    BY <1>1, <1>3, DeciderKnows DEF BooksInv
  <1>5. Filed(a) /\ a.order = mem[r].cas.order
    BY <1>1, <1>3, <1>4 DEF HeldFiled, Filed, Ended, DeskKinds
  <1>6. /\ CheckDecision(a, u, v) /\ SameContract(a, n) /\ n.reserved = (a.type = "refund")
        /\ mem' = [mem EXCEPT ![r].act = n, ![r].expected = v]
        /\ IF NeedsFunds(a) THEN Ledger!Reserve(mem[r].cas.order, a.amount) ELSE UNCHANGED ledger
    BY <1>2 DEF ApproveAs
  <1>7. Alone(r) /\ pc'[r] = "save" /\ mem'[r].act = n
    BY <1>3, <1>4, <1>6 DEF TypeOK, Memory, Goto, Alone
  <1>8. n.order = a.order /\ n.amount = a.amount /\ a.amount \in Nat
    BY <1>4, <1>6, AmountsPositive DEF SameContract, Rows
  <1>9. CASE NeedsFunds(a)
    BY <1>3, <1>4, <1>5, <1>6, <1>7, <1>8, <1>9, FundedReserves
  <1>10. CASE ~NeedsFunds(a)
    <2>1. a.type # "refund"
      BY <1>4, <1>5, <1>6, <1>10, SignedAtOnce DEF NeedsFunds, CheckDecision
    <2>2. ~HoldsAs(r, pc[r], mem[r])'
      BY <1>6, <1>7, <2>1 DEF HoldsAs
    <2> QED BY <1>3, <1>6, <1>7, <1>10, <2>2, FundedGoes
  <1> QED BY <1>9, <1>10

\* Nothing was reserved for a row that is still to be signed.
LEMMA RejectFunded ==
  ASSUME PlainDesk, DeskInv, BooksInv, DeskInv', BooksInv', FundedInv, NEW r \in Requests,
         Reject(r)
  PROVE  FundedInv'
  <1>1. PICK a : a = mem[r].act
    OBVIOUS
  <1>2. PICK v, n : RejectAs(r, a, v, n)
    BY <1>1, RejectParts
  <1>3. /\ pc[r] = "decide" /\ Kind[r] = "reject" /\ Kind[r] \in DeskKinds /\ Goto(r, "save")
        /\ UNCHANGED actions
    BY DEF Reject, DeskKinds
  <1>4. /\ TypeOK /\ a \in Rows /\ HeldFiled(r, "decide", mem[r])
    BY <1>1, <1>3, DeciderKnows DEF BooksInv
  <1>5. Filed(a)
    BY <1>1, <1>3, <1>4 DEF HeldFiled
  <1>6. /\ a.status = "pending_approval"
        /\ mem' = [mem EXCEPT ![r].act = n, ![r].expected = v]
        /\ IF a.type = "refund" /\ a.reserved
             THEN Ledger!Release(mem[r].cas.order, a.amount) ELSE UNCHANGED ledger
    BY <1>2 DEF RejectAs
  <1>7. Alone(r)
    BY <1>3, <1>4, <1>6 DEF TypeOK, Goto, Alone
  <1>8. UNCHANGED ledger
    BY <1>4, <1>5, <1>6, SignedAtOnce
  <1>9. ~HoldsAs(r, pc[r], mem[r])'
    BY <1>3 DEF HoldsAs
  <1> QED BY <1>3, <1>7, <1>8, <1>9, FundedGoes

\* What is captured is what its row was backed by.
LEMMA PayFunded ==
  ASSUME DeskInv, BooksInv, DeskInv', BooksInv', FundedInv, FirmInv, NEW r \in Requests, Pay(r)
  PROVE  FundedInv'
  <1>1. PICK i, a : PayAs(r, i, a)
    BY PayParts
  <1>2. /\ TypeOK /\ i \in DOMAIN actions /\ actions[i].order = a.order
        /\ actions[i].amount = a.amount /\ a.amount \in Nat /\ a.order \in Orders
        /\ pc[r] = "decide" /\ Kind[r] = "execute" /\ UNCHANGED actions
        /\ Alone(r) /\ Key(actions[i]) = Key(a) /\ actions[i].type = "refund"
        /\ a.status = "approved" /\ i = mem[r].aid
    BY <1>1 DEF PayAs
  <1>3. ~HoldsAs(r, pc[r], mem[r])'
    BY <1>2 DEF HoldsAs
  <1>4. CASE UNCHANGED ledger
    BY <1>2, <1>3, <1>4, FundedGoes
  <1>5. CASE /\ ~Ledger!Paid(Key(a)) /\ Ledger!Capture(a.order, a.amount, Key(a))
             /\ Concerns(r, i)
    <2>1. actions[i].status = "approved"
      <3>1. actions[i].status \in {"approved", "completed"}
        BY <1>1, <1>2 DEF FirmInv, Firm, PayAs
      <3>2. actions[i].status # "completed"
        BY <1>2, <1>5 DEF DeskInv, RowsOK, RowOK, Receipted
      <3> QED BY <3>1, <3>2
    <2>2. /\ \A p \in Orders \ {a.order} : reserved'[p] = reserved[p]
          /\ reserved'[a.order] = reserved[a.order] - a.amount
          /\ transactions' = transactions \cup {[key |-> Key(a), order |-> a.order, amount |-> a.amount]}
      BY <1>2, <1>5 DEF Ledger!Capture, TypeOK
    <2>3. \A o : i \notin Backed(o)'
      <3>1. PICK t : t = [key |-> Key(a), order |-> a.order, amount |-> a.amount]
        OBVIOUS
      <3>2. t \in transactions' /\ t.key = Key(actions'[i])
        BY <1>2, <2>2, <3>1
      <3>3. (Ledger!Paid(Key(actions[i])))'
        BY <3>2 DEF Ledger!Paid, Key
      <3> QED BY <3>3 DEF Backed, Owing
    <2>4. i \in Backed(a.order)
      BY <1>2, <1>5, <2>1 DEF Backed, Owing
    <2>5. ASSUME NEW o \in Orders
          PROVE  reserved[o] + Share(Backed(o), i)' + Carry(o, r)'
                    <= reserved'[o] + Share(Backed(o), i) + Carry(o, r)
      <3>1. Share(Backed(o), i)' = 0 /\ Carry(o, r)' = 0
        BY <1>3, <2>3 DEF Share, Carry, Held
      <3>2. PICK x, y, s, c \in Nat : /\ x = reserved[o] /\ y = reserved'[o]
                                      /\ s = Share(Backed(o), i) /\ c = Carry(o, r)
        BY <1>2, CarryTypes DEF Share, DeskInv, TypeOK
      <3>3. o = a.order => s = a.amount /\ y = x - a.amount
        BY <1>2, <2>2, <2>4, <3>2 DEF Share
      <3>4. o # a.order => y = x
        BY <2>2, <3>2
      <3>5. x <= y + s
        BY <1>2, <3>2, <3>3, <3>4
      <3> QED BY <3>1, <3>2, <3>5
    <2> QED BY <1>5, <2>5, FundedTurn
  <1> QED BY <1>1, <1>4, <1>5 DEF PayAs

LEMMA InsertFunded ==
  ASSUME DeskInv, BooksInv, DeskInv', BooksInv', FundedInv, NEW r \in Requests, InsertAction(r)
  PROVE  FundedInv'
  <1>1. PICK i, n : InsertAs(r, i, n)
    BY InsertParts
  <1>2. /\ TypeOK /\ HeldAs(r, "insert", mem[r]) /\ HeldFiled(r, "insert", mem[r])
        /\ pc[r] = "insert" /\ UNCHANGED <<transactions, reserved>>
    BY DEF InsertAction, DeskInv, HeldOK, BooksInv, ledger
  <1>3. /\ i \notin DOMAIN actions /\ n = mem[r].act /\ n \in Rows
        /\ DOMAIN actions' = DOMAIN actions \cup {i} /\ actions'[i] = n
        /\ \A j \in DOMAIN actions : actions'[j] = actions[j]
        /\ Alone(r) /\ pc'[r] = "refresh"
    BY <1>1 DEF InsertAs
  <1>4. Kind[r] = "create" /\ (n.status = "approved" => n.reserved)
    BY <1>2, <1>3 DEF HeldAs, HeldFiled
  <1>5. Concerns(r, i)
    BY <1>2, <1>3 DEF Concerns, Ledger!Paid
  <1>6. ASSUME NEW o \in Orders
        PROVE  reserved[o] + Share(Backed(o), i)' + Carry(o, r)'
                  <= reserved'[o] + Share(Backed(o), i) + Carry(o, r)
    <2>1. Share(Backed(o), i) = 0
      BY <1>3 DEF Share, Backed, Owing
    <2>2. Carry(o, r)' = 0
      BY <1>3 DEF Carry, Held, HoldsAs
    <2>3. i \in Backed(o)' => r \in Held(o)
      BY <1>2, <1>3, <1>4 DEF Backed, Owing, Held, Started, HoldsAs
    <2>4. PICK t, c \in Nat : t = Share(Backed(o), i)' /\ c = Carry(o, r) /\ t <= c
      <3>1. n.amount \in Nat
        BY <1>3, AmountsPositive DEF Rows
      <3> QED BY <1>3, <2>3, <3>1 DEF Share, Carry
    <2>5. reserved[o] \in Nat
      BY <1>2 DEF TypeOK
    <2> QED BY <1>2, <2>1, <2>2, <2>4, <2>5
  <1> QED BY <1>5, <1>6, FundedTurn

\* A save brings a row no more than its request held.
LEMMA SaveFunded ==
  ASSUME PlainDesk, DeskInv, BooksInv, DeskInv', BooksInv', FundedInv, NEW r \in Requests,
         SaveAction(r)
  PROVE  FundedInv'
  <1>0. NoSupplement
    BY DEF PlainDesk, NoSupplement, DeskKinds
  <1>1. PICK i, n : SaveAs(r, i, n)
    BY <1>0, SaveParts
  <1>2. /\ pc[r] = "save" /\ n = mem[r].act
        /\ i \in DOMAIN actions /\ n \in Rows /\ actions[i] \in Rows
        /\ DOMAIN actions' = DOMAIN actions /\ actions'[i] = n
        /\ \A j \in DOMAIN actions \ {i} : actions'[j] = actions[j]
        /\ Alone(r) /\ pc'[r] \in {"reread", "next"} /\ Kind[r] \in DeskKinds
    BY <1>1 DEF SaveAs, PlainDesk
  <1>3. TypeOK /\ UNCHANGED <<transactions, reserved>> /\ HeldFiled(r, "save", mem[r])
    BY <1>2 DEF SaveAction, ledger, DeskInv, BooksInv
  <1>4. Concerns(r, i)
    BY <1>2, <1>3 DEF Concerns, Ledger!Paid
  <1>5. n.amount \in Nat /\ actions[i].amount \in Nat
    BY <1>2, AmountsPositive DEF Rows
  <1>6. ASSUME NEW o \in Orders, i \in Backed(o)' PROVE r \in Held(o)
    <2>1. n.status = "approved" /\ n.type = "refund" /\ n.order = o
      BY <1>2, <1>6 DEF Backed, Owing
    <2>2. Kind[r] = "approve"
      BY <1>2, <1>3, <2>1 DEF HeldFiled, DeskKinds
    <2>3. /\ n.reserved /\ n.signers # <<>> /\ Len(n.signers) <= n.need /\ Filed(n)
      BY <1>2, <1>3, <2>1, <2>2 DEF HeldFiled
    <2>4. n.need = 1 /\ n.signers \in Seq(Users)
      BY <1>2, <2>1, <2>3, SignedAtOnce DEF Rows
    <2>5. Len(n.signers) = 1
      BY <2>3, <2>4, OneSigner
    <2> QED BY <1>2, <2>1, <2>2, <2>3, <2>5 DEF Held, Started, HoldsAs
  <1>7. ASSUME NEW o \in Orders
        PROVE  reserved[o] + Share(Backed(o), i)' + Carry(o, r)'
                  <= reserved'[o] + Share(Backed(o), i) + Carry(o, r)
    <2>1. Carry(o, r)' = 0
      BY <1>2 DEF Carry, Held, HoldsAs
    <2>2. PICK s, t, c \in Nat : /\ s = Share(Backed(o), i) /\ t = Share(Backed(o), i)'
                                 /\ c = Carry(o, r) /\ t <= c
      BY <1>2, <1>5, <1>6 DEF Share, Carry
    <2>3. reserved[o] \in Nat
      BY <1>3 DEF TypeOK
    <2> QED BY <1>3, <2>1, <2>2, <2>3
  <1> QED BY <1>4, <1>7, FundedTurn

\* A step of r that calls no adapter and stores nothing.
LEMMA QuietFunded ==
  ASSUME PlainDesk, DeskInv, BooksInv, DeskInv', BooksInv', FundedInv, NEW r \in Requests,
         \/ ReadAction(r) \/ ReadActionCase(r) \/ ReadCase(r) \/ Reread(r) \/ Dispatch(r)
         \/ CreateRefused(r) \/ Refuse(r) \/ UpdateCase(r) \/ AppendEvent(r) \/ Cancel(r)
  PROVE  FundedInv'
  <1>0. TypeOK /\ HeldAs(r, pc[r], mem[r]) /\ Kind[r] \in DeskKinds \cup {"create"}
    BY DEF DeskInv, HeldOK, PlainDesk
  <1>1. ASSUME NEW l \in Ended, End(r, l), UNCHANGED <<ledger, actions>> PROVE FundedInv'
    <2>1. Alone(r) /\ ~HoldsAs(r, pc[r], mem[r])'
      BY <1>0, <1>1 DEF End, Goto, Alone, TypeOK, HoldsAs, Ended
    <2> QED BY <1>1, <2>1, FundedGoes
  <1>2. CASE CreateRefused(r) \/ Refuse(r) \/ Cancel(r)
    BY <1>1, <1>2 DEF CreateRefused, Refuse, Cancel, Ended
  <1>3. CASE ReadAction(r) \/ ReadActionCase(r) \/ ReadCase(r)
    <2>1. Alone(r) /\ UNCHANGED <<ledger, actions>> /\ pc'[r] \notin {"insert", "save"}
      BY <1>0, <1>3 DEF ReadAction, ReadActionCase, ReadCase, Goto, Alone, TypeOK
    <2>2. ~HoldsAs(r, pc[r], mem[r])'
      BY <2>1 DEF HoldsAs
    <2> QED BY <2>1, <2>2, FundedGoes
  <1>4. CASE Reread(r)
    <2>1. Alone(r) /\ UNCHANGED <<ledger, actions>> /\ pc'[r] \notin {"insert", "save"}
      BY <1>0, <1>4 DEF Reread, Goto, Alone, TypeOK
    <2>2. ~HoldsAs(r, pc[r], mem[r])'
      BY <2>1 DEF HoldsAs
    <2> QED BY <2>1, <2>2, FundedGoes
  <1>5. CASE Dispatch(r)
    <2>1. Alone(r) /\ UNCHANGED <<ledger, actions>> /\ Kind[r] = "execute"
      BY <1>0, <1>5 DEF Dispatch, Goto, Alone, TypeOK
    <2>2. ~HoldsAs(r, pc[r], mem[r])'
      BY <2>1 DEF HoldsAs
    <2> QED BY <2>1, <2>2, FundedGoes
  <1>6. CASE UpdateCase(r)
    <2>1. UNCHANGED <<ledger, actions>>
      BY <1>6 DEF UpdateCase, WriteCase
    <2>2. CASE Kind[r] \in {"create", "execute"}
      <3>1. Alone(r) /\ ~HoldsAs(r, pc[r], mem[r])'
        BY <1>0, <1>6, <2>2 DEF UpdateCase, Goto, Alone, TypeOK, HoldsAs
      <3> QED BY <2>1, <3>1, FundedGoes
    <2>3. CASE Kind[r] \notin {"create", "execute"}
      BY <1>1, <1>6, <2>1, <2>3 DEF UpdateCase, Ended
    <2> QED BY <2>2, <2>3
  <1>7. CASE AppendEvent(r)
    <2>1. UNCHANGED <<ledger, actions>>
      BY <1>7 DEF AppendEvent
    <2>2. CASE Kind[r] \in {"approve", "reject"}
      <3>1. Alone(r) /\ ~HoldsAs(r, pc[r], mem[r])'
        BY <1>0, <1>7, <2>2 DEF AppendEvent, Goto, Alone, TypeOK, HoldsAs
      <3> QED BY <2>1, <3>1, FundedGoes
    <2>3. CASE Kind[r] \notin {"approve", "reject"}
      BY <1>0, <1>1, <1>7, <2>1, <2>3 DEF AppendEvent, Ended, DeskKinds
    <2> QED BY <2>2, <2>3
  <1> QED BY <1>2, <1>3, <1>4, <1>5, <1>6, <1>7

\* What a request relies on stays so while rows stay as they are.
LEMMA FirmSame ==
  ASSUME UNCHANGED actions, NEW r, NEW l, NEW m, Firm(r, l, m)
  PROVE  Firm(r, l, m)'
  BY DEF Firm

\* A step of r that writes no row.
LEMMA FirmTurn ==
  ASSUME FirmInv, NEW r \in Requests, Alone(r), UNCHANGED actions,
         NEW l, NEW m, pc'[r] = l, mem'[r] = m, Firm(r, l, m)
  PROVE  FirmInv'
  <1> SUFFICES ASSUME NEW q \in Requests PROVE Firm(q, pc[q], mem[q])'
    BY DEF FirmInv
  <1>1. CASE q = r
    <2>1. Firm(r, l, m)'
      BY FirmSame
    <2> QED BY <1>1, <2>1
  <1>2. CASE q # r
    <2>1. PICK lq, mq : lq = pc[q] /\ mq = mem[q]
      OBVIOUS
    <2>2. Firm(q, lq, mq)'
      BY <2>1, FirmSame DEF FirmInv
    <2>3. lq = pc'[q] /\ mq = mem'[q]
      BY <1>2, <2>1 DEF Alone
    <2> QED BY <2>2, <2>3
  <1> QED BY <1>1, <1>2

\* A step of r to a label where it relies on nothing.
LEMMA FirmGoes ==
  ASSUME FirmInv, NEW r \in Requests, Alone(r), UNCHANGED actions,
         \/ pc'[r] \notin {"readCase", "decide", "save"}
         \/ Kind[r] \notin {"reject", "execute"}
         \/ Kind[r] = "execute" /\ pc'[r] = "save"
  PROVE  FirmInv'
  <1>1. PICK l, m : l = pc'[r] /\ m = mem'[r]
    OBVIOUS
  <1>2. Firm(r, l, m)
    BY <1>1 DEF Firm
  <1> QED BY <1>1, <1>2, FirmTurn

\* A row that is written keeps what others rely on: a save of the row that a
\* rejection was computed from changes its version or keeps its status, and only a
\* rejection, which found it pending, could reject an approved row.
LEMMA FirmWrite ==
  ASSUME PlainDesk, DeskInv, BooksInv, FirmInv, NEW r \in Requests, SaveAction(r)
  PROVE  FirmInv'
  <1>0. NoSupplement
    BY DEF PlainDesk, NoSupplement, DeskKinds
  <1>1. PICK i, n : SaveAs(r, i, n)
    BY <1>0, SaveParts
  <1>2. /\ pc[r] = "save" /\ i = mem[r].aid /\ n = mem[r].act
        /\ i \in DOMAIN actions /\ n \in Rows /\ actions[i] \in Rows
        /\ actions[i].version = mem[r].expected /\ RowStep(actions[i], n)
        /\ DOMAIN actions' = DOMAIN actions /\ actions'[i] = n
        /\ \A j \in DOMAIN actions \ {i} : actions'[j] = actions[j]
        /\ Alone(r) /\ pc'[r] \in {"reread", "next"} /\ Kind[r] \in DeskKinds
    BY <1>1 DEF SaveAs, PlainDesk
  <1>3. HeldFiled(r, "save", mem[r]) /\ Firm(r, "save", mem[r])
    BY <1>2 DEF BooksInv, FirmInv
  <1>4. actions[i].version <= n.version /\ (n.version = actions[i].version => n.status = actions[i].status)
    BY <1>2, RowStepVersion
  <1>5. actions[i].status \in {"approved", "completed"} => n.status \in {"approved", "completed"}
    <2>1. CASE Kind[r] = "reject"
      BY <1>2, <1>3, <2>1 DEF Firm
    <2>2. CASE Kind[r] = "execute"
      BY <1>2, <1>3, <2>2 DEF HeldFiled
    <2>3. CASE Kind[r] = "approve"
      <3>1. n.status # "rejected"
        BY <1>2, <1>3, <2>3 DEF HeldFiled, Active
      <3> QED BY <1>2, <3>1 DEF RowStep
    <2> QED BY <1>2, <2>1, <2>2, <2>3 DEF DeskKinds
  <1> SUFFICES ASSUME NEW q \in Requests PROVE Firm(q, pc[q], mem[q])'
    BY DEF FirmInv
  <1>6. CASE q = r
    BY <1>2, <1>6 DEF Firm
  <1>7. CASE q # r
    <2>1. PICK l, m : l = pc[q] /\ m = mem[q]
      OBVIOUS
    <2>2. /\ HeldAs(q, l, m) /\ Firm(q, l, m) /\ m \in Memory
          /\ l = pc'[q] /\ m = mem'[q]
      BY <1>2, <1>7, <2>1 DEF DeskInv, HeldOK, TypeOK, FirmInv, Alone
    <2>3. Firm(q, l, m)'
      <3>1. ASSUME Kind[q] = "reject", l = "save", actions'[m.aid].version = m.expected
            PROVE  actions'[m.aid].status = "pending_approval"
        <4>1. /\ m.aid \in DOMAIN actions /\ m.expected <= actions[m.aid].version
              /\ m.expected \in Nat
          BY <2>2, <3>1 DEF HeldAs, Writable, Memory
        <4>2. actions[i].version \in Nat /\ n.version \in Nat
          BY <1>2 DEF Rows
        <4>3. CASE m.aid = i
          <5>1. n.version = actions[i].version /\ actions[i].version = m.expected
            BY <1>2, <1>4, <3>1, <4>1, <4>2, <4>3
          <5>2. actions[i].status = "pending_approval"
            BY <2>2, <3>1, <4>3, <5>1 DEF Firm
          <5> QED BY <1>2, <1>4, <4>3, <5>1, <5>2
        <4>4. CASE m.aid # i
          <5>1. actions'[m.aid] = actions[m.aid]
            BY <1>2, <4>1, <4>4
          <5> QED BY <2>2, <3>1, <5>1 DEF Firm
        <4> QED BY <4>3, <4>4
      <3>2. ASSUME Kind[q] = "execute", l \in {"readCase", "decide"}, m.act.status = "approved"
            PROVE  actions'[m.aid].status \in {"approved", "completed"}
        <4>1. /\ m.aid \in DOMAIN actions
              /\ actions[m.aid].status \in {"approved", "completed"}
          BY <2>2, <3>2 DEF HeldAs, Copy, Firm, DeskKinds
        <4>2. actions'[m.aid] = IF m.aid = i THEN n ELSE actions[m.aid]
          BY <1>2, <4>1
        <4> QED BY <1>5, <4>1, <4>2
      <3> QED BY <3>1, <3>2 DEF Firm
    <2> QED BY <2>2, <2>3
  <1> QED BY <1>6, <1>7

LEMMA FirmInsert ==
  ASSUME DeskInv, BooksInv, FirmInv, NEW r \in Requests, InsertAction(r)
  PROVE  FirmInv'
  <1>1. PICK i, n : InsertAs(r, i, n)
    BY InsertParts
  <1>2. /\ i \notin DOMAIN actions /\ \A j \in DOMAIN actions : actions'[j] = actions[j]
        /\ Alone(r) /\ pc'[r] = "refresh"
    BY <1>1 DEF InsertAs
  <1> SUFFICES ASSUME NEW q \in Requests PROVE Firm(q, pc[q], mem[q])'
    BY DEF FirmInv
  <1>3. CASE q = r
    BY <1>2, <1>3 DEF Firm
  <1>4. CASE q # r
    <2>1. PICK l, m : l = pc[q] /\ m = mem[q]
      OBVIOUS
    <2>2. HeldAs(q, l, m) /\ Firm(q, l, m) /\ l = pc'[q] /\ m = mem'[q]
      BY <1>2, <1>4, <2>1 DEF DeskInv, HeldOK, FirmInv, Alone
    <2>3. \/ m.aid \in DOMAIN actions
          \/ l \notin {"readCase", "decide", "save"} \/ Kind[q] \notin {"reject", "execute"}
      BY <2>2 DEF HeldAs, Copy, Writable, DeskKinds
    <2>4. Firm(q, l, m)'
      BY <1>2, <2>2, <2>3 DEF Firm
    <2> QED BY <2>2, <2>4
  <1> QED BY <1>3, <1>4

LEMMA FirmReads ==
  ASSUME DeskInv, FirmInv, NEW r \in Requests, ReadAction(r) \/ ReadActionCase(r) \/ Reject(r)
  PROVE  FirmInv'
  <1>0. TypeOK /\ mem[r] \in Memory /\ UNCHANGED actions /\ Firm(r, pc[r], mem[r])
    BY DEF DeskInv, TypeOK, FirmInv, ReadAction, ReadActionCase, Reject
  <1>1. PICK m : m = mem'[r]
    OBVIOUS
  <1>2. CASE ReadAction(r)
    <2>1. PICK i \in DOMAIN actions :
             mem' = [mem EXCEPT ![r] = [Blank EXCEPT !.aid = i, !.act = actions[i]]]
      BY <1>2 DEF ReadAction
    <2>2. Alone(r) /\ pc'[r] = "readCase" /\ m.act = actions[i] /\ m.aid = i
      BY <1>0, <1>1, <1>2, <2>1 DEF ReadAction, Goto, Alone, TypeOK, Blank
    <2>3. Firm(r, "readCase", m)
      BY <2>2 DEF Firm
    <2> QED BY <1>0, <1>1, <2>2, <2>3, FirmTurn
  <1>3. CASE ReadActionCase(r)
    <2>1. Alone(r) /\ pc'[r] = "decide" /\ m.act = mem[r].act /\ m.aid = mem[r].aid
      BY <1>0, <1>1, <1>3 DEF ReadActionCase, Goto, Alone, TypeOK, Memory
    <2>2. Firm(r, "decide", m)
      BY <1>0, <1>3, <2>1 DEF Firm, ReadActionCase
    <2> QED BY <1>0, <1>1, <2>1, <2>2, FirmTurn
  <1>4. CASE Reject(r)
    <2>1. PICK a, i : a = mem[r].act /\ i = mem[r].aid
      OBVIOUS
    <2>2. PICK v, n : RejectAs(r, a, v, n)
      BY <1>4, <2>1, RejectParts
    <2>3. /\ Kind[r] = "reject" /\ Goto(r, "save") /\ Copy(i, a)
      BY <1>4, <2>1, DeciderKnows DEF Reject, DeskKinds
    <2>4. /\ a.status = "pending_approval" /\ v = a.version
          /\ mem' = [mem EXCEPT ![r].act = n, ![r].expected = v]
      BY <2>2 DEF RejectAs
    <2>5. Alone(r) /\ pc'[r] = "save" /\ m.aid = i /\ m.expected = v
      BY <1>0, <1>1, <2>1, <2>3, <2>4 DEF TypeOK, Memory, Goto, Alone
    <2>6. Firm(r, "save", m)
      BY <2>3, <2>4, <2>5 DEF Firm, Copy
    <2> QED BY <1>0, <1>1, <2>5, <2>6, FirmTurn
  <1> QED BY <1>2, <1>3, <1>4

\* The other steps of r take it to labels where it relies on nothing.
LEMMA FirmOthers ==
  ASSUME PlainDesk, DeskInv, FirmInv, NEW r \in Requests,
         \/ ReadCase(r) \/ Reread(r) \/ CreateAction(r) \/ CreateRefused(r) \/ InsertConflict(r)
         \/ Approve(r) \/ Pay(r) \/ Dispatch(r) \/ Refuse(r) \/ SaveConflict(r)
         \/ UpdateCase(r) \/ CaseConflict(r) \/ AppendEvent(r) \/ Cancel(r)
  PROVE  FirmInv'
  <1>0. TypeOK /\ HeldAs(r, pc[r], mem[r]) /\ Kind[r] \in DeskKinds \cup {"create"}
    BY DEF DeskInv, HeldOK, PlainDesk
  <1>1. ASSUME NEW l \in Ended, End(r, l), UNCHANGED actions PROVE FirmInv'
    <2>1. Alone(r) /\ pc'[r] \notin {"readCase", "decide", "save"}
      BY <1>0, <1>1 DEF End, Goto, Alone, TypeOK, Ended
    <2> QED BY <1>1, <2>1, FirmGoes
  <1>2. CASE CreateRefused(r) \/ Refuse(r) \/ Cancel(r)
    BY <1>1, <1>2 DEF CreateRefused, Refuse, Cancel, Ended
  <1>3. CASE InsertConflict(r) \/ SaveConflict(r) \/ CaseConflict(r)
    BY <1>1, <1>3 DEF InsertConflict, SaveConflict, CaseConflict, Abort, Ended
  <1>4. CASE ReadCase(r)
    <2>1. Alone(r) /\ UNCHANGED actions /\ Kind[r] \notin {"reject", "execute"}
      BY <1>0, <1>4 DEF ReadCase, Goto, Alone, TypeOK
    <2> QED BY <2>1, FirmGoes
  <1>5. CASE Reread(r)
    <2>1. Alone(r) /\ UNCHANGED actions /\ pc'[r] \in {"event", "updateCase"}
      BY <1>0, <1>5 DEF Reread, Goto, Alone, TypeOK
    <2> QED BY <2>1, FirmGoes
  <1>6. CASE CreateAction(r)
    <2>1. Alone(r) /\ UNCHANGED actions /\ pc'[r] = "insert"
      BY <1>0, <1>6 DEF CreateAction, Goto, Alone, TypeOK
    <2> QED BY <2>1, FirmGoes
  <1>7. CASE Approve(r)
    <2>1. UNCHANGED actions /\ Kind[r] = "approve" /\ Goto(r, "save")
      BY <1>7 DEF Approve
    <2>2. PICK u, v, n : ApproveAs(r, mem[r].act, u, v, n)
      BY <1>7, ApproveParts
    <2>3. Alone(r)
      BY <1>0, <2>1, <2>2 DEF ApproveAs, Goto, Alone, TypeOK
    <2> QED BY <2>1, <2>3, FirmGoes
  <1>8. CASE Pay(r) \/ Dispatch(r)
    <2>1. Alone(r) /\ UNCHANGED actions /\ pc'[r] = "save" /\ Kind[r] = "execute"
      BY <1>0, <1>8 DEF Pay, Dispatch, Goto, Alone, TypeOK
    <2> QED BY <2>1, FirmGoes
  <1>9. CASE UpdateCase(r)
    <2>1. UNCHANGED actions
      BY <1>9 DEF UpdateCase, WriteCase
    <2>2. CASE Kind[r] \in {"create", "execute"}
      <3>1. Alone(r) /\ pc'[r] = "event"
        BY <1>0, <1>9, <2>2 DEF UpdateCase, Goto, Alone, TypeOK
      <3> QED BY <2>1, <3>1, FirmGoes
    <2>3. CASE Kind[r] \notin {"create", "execute"}
      BY <1>1, <1>9, <2>1, <2>3 DEF UpdateCase, Ended
    <2> QED BY <2>2, <2>3
  <1>10. CASE AppendEvent(r)
    <2>1. UNCHANGED actions
      BY <1>10 DEF AppendEvent
    <2>2. CASE Kind[r] \in {"approve", "reject"}
      <3>1. Alone(r) /\ pc'[r] = "updateCase"
        BY <1>0, <1>10, <2>2 DEF AppendEvent, Goto, Alone, TypeOK
      <3> QED BY <2>1, <3>1, FirmGoes
    <2>3. CASE Kind[r] \notin {"approve", "reject"}
      BY <1>0, <1>1, <1>10, <2>1, <2>3 DEF AppendEvent, Ended, DeskKinds
    <2> QED BY <2>2, <2>3
  <1> QED BY <1>2, <1>3, <1>4, <1>5, <1>6, <1>7, <1>8, <1>9, <1>10

LEMMA FundedNext ==
  (DeskInv /\ BooksInv /\ DeskInv' /\ BooksInv' /\ PlainDesk /\ FundedInv /\ FirmInv
     /\ [Next]_vars) => FundedInv' /\ FirmInv'
  <1> SUFFICES ASSUME DeskInv, BooksInv, DeskInv', BooksInv', PlainDesk, FundedInv, FirmInv,
                      [Next]_vars
               PROVE  FundedInv' /\ FirmInv'
    OBVIOUS
  <1>1. \A r \in Requests : ~StorageError(r)
    BY DEF PlainDesk, StorageError, DeskInv, TypeOK
  <1>2. ASSUME NEW r \in Requests, Cancel(r) PROVE FundedInv' /\ FirmInv'
    BY <1>2, QuietFunded, FirmOthers
  <1>3. ASSUME NEW r \in Requests, SaveConflict(r) \/ InsertConflict(r) \/ CaseConflict(r)
        PROVE  FundedInv' /\ FirmInv'
    <2>1. Abort(r) /\ UNCHANGED actions /\ pc[r] \in {"insert", "save", "clear", "updateCase"}
      BY <1>3 DEF SaveConflict, InsertConflict, CaseConflict
    <2>2. pc[r] # "clear"
      BY DEF DeskInv, HeldOK, HeldAs, PlainDesk, DeskKinds
    <2> QED BY <1>3, <2>1, <2>2, FundedAbort, FirmOthers
  <1>4. ASSUME NEW r \in Requests, Step(r) PROVE FundedInv' /\ FirmInv'
    <2>1. Kind[r] \in DeskKinds \cup {"create"} /\ HeldAs(r, pc[r], mem[r])
      BY DEF PlainDesk, DeskInv, HeldOK
    <2>2. ~ListActive(r) /\ ~ReleaseInvalidated(r) /\ ~Reassess(r)
      BY <2>1 DEF ListActive, ReleaseInvalidated, Reassess, HeldAs, DeskKinds
    <2>3. ~ReapList(r) /\ ~ReapRelease(r) /\ ~ReapDone(r)
      BY <2>1 DEF ReapList, ReapRelease, ReapDone, HeldAs, DeskKinds
    <2>4. CASE ReadAction(r) \/ ReadActionCase(r)
      BY <2>4, QuietFunded, FirmReads
    <2>5. CASE \/ ReadCase(r) \/ Reread(r) \/ Dispatch(r) \/ CreateRefused(r) \/ Refuse(r)
               \/ UpdateCase(r) \/ AppendEvent(r)
      BY <2>5, QuietFunded, FirmOthers
    <2>6. CASE CreateAction(r)
      BY <2>6, CreateFunded, FirmOthers
    <2>7. CASE Approve(r)
      BY <2>7, ApproveFunded, FirmOthers
    <2>8. CASE Reject(r)
      BY <2>8, RejectFunded, FirmReads
    <2>9. CASE Pay(r)
      BY <2>9, PayFunded, FirmOthers
    <2>10. CASE InsertAction(r)
      BY <2>10, InsertFunded, FirmInsert
    <2>11. CASE SaveAction(r)
      BY <2>11, SaveFunded, FirmWrite
    <2> QED BY <1>3, <1>4, <2>2, <2>3, <2>4, <2>5, <2>6, <2>7, <2>8, <2>9, <2>10, <2>11 DEF Step
  <1>5. ASSUME UNCHANGED <<reserved, transactions, actions, pc, mem>>
        PROVE  FundedInv' /\ FirmInv'
    <2>1. Started' = Started
      BY <1>5 DEF Started
    <2>2. \A o : Held(o)' = Held(o)
      BY <1>5, <2>1 DEF Held, HoldsAs
    <2>3. \A o : Owing(o)' = Owing(o)
      BY <1>5 DEF Owing, Ledger!Paid, Key
    <2>4. \A o : Backed(o)' = Backed(o)
      BY <1>5, <2>3 DEF Backed
    <2>5. \A o : Total(Backed(o))' = Total(Backed(o)) /\ HeldSum(o)' = HeldSum(o)
      BY <1>5, <2>2, <2>4, Zenon DEF Total, HeldSum
    <2>6. FirmInv'
      BY <1>5 DEF FirmInv, Firm
    <2> QED BY <1>5, <2>5, <2>6 DEF FundedInv
  <1>6. CASE Tick
    BY <1>5, <1>6 DEF Tick, ledger
  <1>7. CASE UNCHANGED vars
    BY <1>5, <1>7 DEF vars, ledger
  <1> QED BY <1>1, <1>2, <1>4, <1>6, <1>7 DEF Next, Wait

LEMMA FundedInit == Init => FundedInv /\ FirmInv
  <1> SUFFICES ASSUME Init PROVE FundedInv /\ FirmInv
    OBVIOUS
  <1>1. ASSUME NEW o \in Orders PROVE Total(Backed(o)) + HeldSum(o) <= reserved[o]
    <2>1. Backed(o) = {} /\ Held(o) = {} /\ reserved[o] = 0
      BY DEF Init, Backed, Owing, Held, Started
    <2>2. Weighed([i \in DOMAIN actions |-> actions[i].amount], {})
          /\ Weighed([r \in Requests |-> mem[r].act.amount], {})
      BY FS_EmptySet DEF Weighed
    <2>3. Total({}) = 0
      BY <2>2, SumRecursion, Zenon DEF Total
    <2>4. HeldSum(o) = 0
      BY <2>1, <2>2, SumRecursion, Zenon DEF HeldSum
    <2> QED BY <2>1, <2>3, <2>4
  <1>2. FirmInv
    BY DEF Init, FirmInv, Firm
  <1> QED BY <1>1, <1>2 DEF FundedInv

LEMMA FundedCovers == DeskInv /\ BooksInv /\ FundedInv => ApprovedIsFunded
  <1> SUFFICES ASSUME DeskInv, BooksInv, FundedInv, NEW o \in Orders
               PROVE  reserved[o] >=
                 Total({i \in Owing(o) : actions[i].status = "approved" /\ now < actions[i].expires})
    BY DEF ApprovedIsFunded
  <1>1. PICK w, S, T : /\ w = [i \in DOMAIN actions |-> actions[i].amount] /\ S = Backed(o)
                       /\ T = {i \in Owing(o) : actions[i].status = "approved" /\ now < actions[i].expires}
    OBVIOUS
  <1>2. T \in SUBSET S /\ Weighed(w, S)
    BY <1>1, BackedTypes DEF Backed
  <1>3. SumBy(w, T) \in Nat /\ SumBy(w, S) \in Nat /\ SumBy(w, T) <= SumBy(w, S)
    BY <1>2, SumPart
  <1>4. Total(T) \in Nat /\ Total(S) \in Nat /\ Total(T) <= Total(S)
    BY <1>1, <1>3, Zenon DEF Total
  <1>5. HeldSum(o) \in Nat
    BY HeldWeighed, SumRecursion DEF HoldersWeighed, HeldSum
  <1>6. Total(S) + HeldSum(o) <= reserved[o] /\ reserved[o] \in Nat
    BY <1>1 DEF FundedInv, DeskInv, TypeOK
  <1>7. reserved[o] >= Total(T)
    BY <1>4, <1>5, <1>6
  <1> QED BY <1>1, <1>7

\* The pool of an order holds enough for every approved, unexpired refund on it
\* that has not been paid yet, for any number of orders, cases, operators and
\* interleaved requests of create, approve, reject and execute, agent tools that
\* are cancelled and approvals by policy included: an approval reserves before it
\* is stored, and only a capture for its own key, or a request that gives its own
\* reservation up, takes from the pool.  The desk is the plain one, because each
\* of the others breaks it: a second signature whose save conflicts, a storage
\* error after the commit, a supplement and a reaper that meets an execution or
\* another reaper release what a row counts on.
THEOREM DeskFundsApprovals ==
  ASSUME PlainDesk
  PROVE  Spec => []ApprovedIsFunded
  <1>0. NoSupplement
    BY DEF PlainDesk, NoSupplement, DeskKinds
  <1>1. DeskInv /\ BooksInv /\ [Next]_vars => BooksInv'
    BY <1>0, BooksNext
  <1>2. DeskInv /\ BooksInv /\ DeskInv' /\ BooksInv' /\ FundedInv /\ FirmInv /\ [Next]_vars
           => FundedInv' /\ FirmInv'
    BY FundedNext
  <1> QED BY <1>1, <1>2, DeskInvariant, BooksInit, FundedInit, FundedCovers, PTL DEF Spec

=============================================================================
