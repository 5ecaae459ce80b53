---------------------------- MODULE RefundLedger ----------------------------
(***************************************************************************)
(* The payment adapter MockRefundExecutor (app/after_sales/actions.py): an *)
(* in-memory authorize-then-capture ledger.  Each order has an available   *)
(* and a reserved pool; approval moves money from the first to the second, *)
(* execution captures it from the second, rejection and expiry give it     *)
(* back.  Every method changes state under one threading.Lock, so each is  *)
(* one atomic action.                                                      *)
(***************************************************************************)
EXTENDS Integers, FiniteSets

CONSTANTS
    Orders,     \* order ids known to the payment channel
    Balance,    \* Balance[o]: refundable balance the executor starts with
    Keys,       \* idempotency keys
    Amounts     \* amounts a refund may have

ASSUME LedgerAssumption ==
    /\ Balance \in [Orders -> Nat]
    /\ Amounts \subseteq Nat \ {0}

VARIABLES
    available,     \* self._available
    reserved,      \* self._reserved
    transactions,  \* self.transactions, one receipt per captured key
    settled,       \* self._settled
    captured       \* history: what has left the merchant, per order

ledgerVars == <<available, reserved, transactions, settled, captured>>

\* What the digest of a transaction id is computed from.
Receipts == [key : Keys, order : Orders, amount : Amounts]

\* idempotency_key in self.transactions
Paid(k) == \E t \in transactions : t.key = k

LedgerTypeOK ==
    /\ available \in [Orders -> Nat]
    /\ reserved \in [Orders -> Nat]
    /\ transactions \subseteq Receipts
    /\ settled \subseteq Keys
    /\ captured \in [Orders -> Nat]

LedgerInit ==
    /\ available = Balance
    /\ reserved = [o \in Orders |-> 0]
    /\ transactions = {}
    /\ settled = {}
    /\ captured = [o \in Orders |-> 0]

-----------------------------------------------------------------------------

\* reserve() returns False, and changes nothing, when this does not hold.
CanReserve(o, n) == available[o] >= n

\* Mutant of Reserve: the available pool is not charged.
ReserveUncharged(o, n) ==
    /\ CanReserve(o, n)
    /\ reserved' = [reserved EXCEPT ![o] = @ + n]
    /\ UNCHANGED <<available, transactions, settled, captured>>

Reserve(o, n) ==
    /\ CanReserve(o, n)
    /\ available' = [available EXCEPT ![o] = @ - n]
    /\ reserved' = [reserved EXCEPT ![o] = @ + n]
    /\ UNCHANGED <<transactions, settled, captured>>

\* release() never fails: it gives back what is there, at most n.
Released(o, n) == IF reserved[o] < n THEN reserved[o] ELSE n

Release(o, n) ==
    /\ reserved' = [reserved EXCEPT ![o] = @ - Released(o, n)]
    /\ available' = [available EXCEPT ![o] = @ + Released(o, n)]
    /\ UNCHANGED <<transactions, settled, captured>>

\* refund() of a new key; it raises ActionConflict without funds in reserve.
CanCapture(o, n) == reserved[o] >= n

Capture(o, n, k) ==
    /\ ~Paid(k)
    /\ CanCapture(o, n)
    /\ transactions' = transactions \cup {[key |-> k, order |-> o, amount |-> n]}
    /\ reserved' = [reserved EXCEPT ![o] = @ - n]
    /\ captured' = [captured EXCEPT ![o] = @ + n]
    /\ UNCHANGED <<available, settled>>

\* refund() of a known key returns the receipt it already has.
Replay(k) == Paid(k) /\ UNCHANGED ledgerVars

\* settle(): the bank confirms a captured refund.
Settle(k) ==
    /\ Paid(k)
    /\ settled' = settled \cup {k}
    /\ UNCHANGED <<available, reserved, transactions, captured>>

LedgerNext ==
    \/ \E o \in Orders, n \in Amounts : Reserve(o, n)
    \/ \E o \in Orders, n \in Amounts : Release(o, n)
    \/ \E o \in Orders, n \in Amounts, k \in Keys : Capture(o, n, k)
    \/ \E k \in Keys : Replay(k)
    \/ \E k \in Keys : Settle(k)

LedgerSpec == LedgerInit /\ [][LedgerNext]_ledgerVars

-----------------------------------------------------------------------------

\* Money is neither created nor destroyed: for every order, what is available,
\* what reserve() froze and what refund() captured add up to the opening
\* balance, so that no sequence of calls refunds more than was paid.
Conservation ==
    \A o \in Orders : available[o] + reserved[o] + captured[o] = Balance[o]

\* A key is captured once: two receipts never share an idempotency key, however
\* often refund() is retried and with whatever order and amount.
OneReceiptPerKey ==
    \A t, u \in transactions : t.key = u.key => t = u

=============================================================================
