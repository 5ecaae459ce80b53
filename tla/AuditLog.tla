------------------------------ MODULE AuditLog ------------------------------
(***************************************************************************)
(* What the audit trail of a case promises: one sequence of events, which  *)
(* only ever grows at its end, each event in it once.                      *)
(***************************************************************************)
EXTENDS Sequences

CONSTANT Entries

VARIABLE log

LogInit == log = <<>>

\* One append_event call takes effect.
Record(e) ==
    /\ \A n \in DOMAIN log : log[n] # e
    /\ log' = Append(log, e)

LogNext == \E e \in Entries : Record(e)

LogSpec == LogInit /\ [][LogNext]_log

=============================================================================
