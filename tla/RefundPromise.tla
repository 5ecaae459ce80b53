--------------------------- MODULE RefundPromise ----------------------------
(***************************************************************************)
(* What the approval desk promises about money, with no requests, rows,    *)
(* versions or reservations in it: a payment is identified by its          *)
(* idempotency key; it is signed, by as many people as it needs, before it *)
(* is paid; signatures and payments are never taken back.                  *)
(***************************************************************************)
CONSTANT Payments

VARIABLES signed, paid

promiseVars == <<signed, paid>>

PromiseInit == signed = {} /\ paid = {}

Sign(k) ==
    /\ signed' = signed \cup {k}
    /\ UNCHANGED paid

Pay(k) ==
    /\ k \in signed \ paid
    /\ paid' = paid \cup {k}
    /\ UNCHANGED signed

PromiseNext == \E k \in Payments : Sign(k) \/ Pay(k)

PromiseSpec == PromiseInit /\ [][PromiseNext]_promiseVars

=============================================================================
