---------------------------- MODULE MCActionDesk ----------------------------
(***************************************************************************)
(* Instances of ActionDesk.  Each configuration is a script: the handlers  *)
(* that run, once each, in every order and interleaving.                   *)
(***************************************************************************)
EXTENDS ActionDesk, TLC, Filters

CONSTANTS o1, o2, c1, c2, ann, bob, cyd, dan, i1, i2,
          mk1, mk2, ap1, ap2, ap3, rj, ex1, ex2, su, rp1, rp2

\* ann owns the cases and is herself a supervisor: the maker-checker rule has
\* something to refuse.
MCOwner == [c \in Cases |-> ann]

Refund(amount, auto, need) ==
    [type |-> "refund", amount |-> amount, auto |-> auto, need |-> need, needsReturn |-> FALSE]
Resend == [type |-> "resend", amount |-> 1, auto |-> FALSE, need |-> 1, needsReturn |-> FALSE]
Manual == [type |-> "manual", amount |-> 1, auto |-> FALSE, need |-> 1, needsReturn |-> FALSE]
OneSignature == {Refund(2, FALSE, 1)}
FourEyes == {Refund(2, FALSE, 2)}
ByPolicy == {Refund(2, TRUE, 1)}
OneResend == {Resend}
AfterReturn == [Refund(2, TRUE, 1) EXCEPT !.needsReturn = TRUE]

Revisions == {AfterReturn, Manual} \cup ByPolicy

MCBalance == [o \in Orders |-> 4]
MCTight == [o \in Orders |-> 3]
MCOpening == [c \in Cases |-> [order |-> o1, plan |-> CHOOSE p \in Plans : p.type # "manual" /\ ~p.needsReturn]]

\* Every request that a script may have, and the handler it runs.
MCKind == [r \in Requests |->
              CASE r \in {mk1, mk2} -> "create"
                [] r \in {ap1, ap2, ap3} -> "approve"
                [] r = rj -> "reject"
                [] r \in {ex1, ex2} -> "execute"
                [] r = su -> "supplement"
                [] r \in {rp1, rp2} -> "reap"]

\* Supervisors other than ann, and requests of one kind, are interchangeable.
MCSymmetry == Permutations(Requests \cap {ap1, ap2, ap3})
              \cup Permutations(Requests \cap {ex1, ex2})
              \cup Permutations(Users \ {ann})

-----------------------------------------------------------------------------

Owing(o) == {i \in DOMAIN actions :
                /\ actions[i].type = "refund" /\ actions[i].order = o
                /\ ~Ledger!Paid(Key(actions[i]))}
Total(ids) == SumBy([i \in DOMAIN actions |-> actions[i].amount], ids)

\* An approval is never unfunded: the pool of an order holds enough for every
\* approved, unexpired refund on it that has not been paid yet.
ApprovedIsFunded ==
    \A o \in Orders :
        reserved[o] >= Total({i \in Owing(o) : actions[i].status = "approved" /\ now < actions[i].expires})

\* No money stays frozen for nobody: between requests, whatever is reserved on
\* an order belongs to a stored action that says so and that execute, reject,
\* a supplement or the reaper can still capture or release.
FrozenIsOwned ==
    Quiescent => \A o \in Orders :
        reserved[o] <= Total({i \in Owing(o) : actions[i].status \in Active /\ actions[i].reserved})

=============================================================================
