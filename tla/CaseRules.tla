------------------------------ MODULE CaseRules -----------------------------
(***************************************************************************)
(* The deterministic rules of a service case: how a complaint is evaluated *)
(* (intake.py, workflow.py), which refund the policy and the risk          *)
(* scorecard give it (decision.py, risk_scoring.py), which reverse plan    *)
(* its costs give it (reverse.py), what action may be asked for on that    *)
(* plan (operations.py, actions.py), and how a return moves to settlement  *)
(* (the disposition graph of workflow.py over reverse_execution.py).       *)
(*                                                                         *)
(* A case is opened once, by the intake or by POST /cases, and then        *)
(* supplemented any number of times, by a regular operator or a            *)
(* supervisor; every supplement evaluates the whole claim again.  A        *)
(* supplement here changes one field: a request that changes several is    *)
(* that many supplements.  How an action is stored, signed and paid is     *)
(* ActionDesk's subject.                                                   *)
(*                                                                         *)
(* Every order of the data set has a logistics row, so the rule that asks  *)
(* for a missing one is left out, as are wording, reasons and signals that *)
(* only explain a decision.                                                *)
(***************************************************************************)
EXTENDS Integers

CONSTANTS
    Dossiers,        \* order id -> what the mock systems hold of it
    Covered,         \* PolicySnapshot.covered_issues
    ManualReview, HighValue, DualApproval,
    RoleLimit,       \* ROLE_REFUND_LIMITS: role -> limit
    Damages          \* the damage levels supplements report

\* What the orders, payments, logistics, risk and inventory mocks hold of an order.
Dossier == [item : Nat, shipping : Nat, balance : Nat, pod : BOOLEAN, claims : Nat, cases : Nat,
            hastyOrLate : BOOLEAN, young : BOOLEAN, rate : {"low", "elevated", "high"},
            moved : BOOLEAN, shared : BOOLEAN, recovery : Nat, back : Nat, replacement : Nat,
            stock : Nat, replaceable : BOOLEAN]

ASSUME RulesAssumption ==
    /\ \A order \in DOMAIN Dossiers : Dossiers[order] \in Dossier
    /\ {ManualReview, HighValue, DualApproval} \subseteq Nat
    /\ RoleLimit \in [{"user", "admin"} -> Nat]
    /\ "minor" \in Damages /\ Damages \subseteq {"none", "minor", "major", "destroyed"}

Issues == {"delivery_not_received", "damaged_item", "wrong_item", "quality_issue",
           "refund_amount_dispute"}
RefundShipping == {"delivery_not_received"}
ReturnRequired == {"damaged_item", "wrong_item"}
ReverseIssues == {"damaged_item", "wrong_item", "quality_issue"}

VARIABLES case, action

rulesVars == <<case, action>>

-----------------------------------------------------------------------------
(* The risk scorecard *)

Points(b, n) == IF b THEN n ELSE 0

\* A claim of non-delivery that the carrier's proof contradicts.
Contradicted(d, issue) == issue = "delivery_not_received" /\ d.pod

Decisive(d, issue) == d.claims >= 3 \/ Contradicted(d, issue)

Score(d, issue, amount) ==
    Points(d.claims >= 3, 40) + Points(d.claims = 2, 20)
    + Points(Contradicted(d, issue), 30)
    + Points(amount >= HighValue, 15)
    + Points(d.cases >= 5, 10) + Points(d.cases \in {3, 4}, 5)
    + Points(d.hastyOrLate, 15) + Points(d.young, 8)
    + Points(d.rate = "high", 15) + Points(d.rate = "elevated", 8)
    + Points(d.moved, 10) + Points(d.shared, 20)

RiskLevel(d, issue, amount) ==
    LET score == Score(d, issue, amount)
    IN  IF Decisive(d, issue) \/ score >= 60 THEN "high"
        ELSE IF d.claims = 2 \/ amount >= HighValue \/ score >= 30 THEN "medium"
        ELSE "low"

RiskTier(level, amount) ==
    CASE level = "high" -> IF amount >= DualApproval THEN "four_eyes" ELSE "supervisor"
      [] level = "medium" -> "review"
      [] OTHER -> "auto"

-----------------------------------------------------------------------------
(* The refund decision *)

Minimum(a, b) == IF a <= b THEN a ELSE b
NonNegative(n) == IF n < 0 THEN 0 ELSE n

NoPlan == [route |-> "none", eligibility |-> "none", action |-> "manual_review",
           amount |-> 0, level |-> "low", tier |-> "auto", approval |-> FALSE,
           missing |-> FALSE, returns |-> FALSE, grade |-> "none"]

RefundPlan == [NoPlan EXCEPT !.route = "refund"]

NeedsPicture(issue, confirmed) == issue \in {"damaged_item", "wrong_item"} /\ ~ confirmed

RefundAmount(d, issue) ==
    Minimum(d.item + Points(issue \in RefundShipping, d.shipping), d.balance)

\* A bug: only a high risk asks for a human, not a medium one.
NeedsApprovalHighOnly(amount, limit, level, tier) ==
    amount > limit \/ amount >= ManualReview \/ level = "high"

\* What asks for a human: the operator's limit, the policy's threshold, the risk.
NeedsApproval(amount, limit, level, tier) ==
    \/ amount > limit
    \/ amount >= ManualReview
    \/ level = "high"
    \/ tier # "auto"

DecideResolution(d, issue, confirmed, limit) ==
    LET amount == RefundAmount(d, issue)
        level == RiskLevel(d, issue, amount)
        tier == RiskTier(level, amount)
        approval == NeedsApproval(amount, limit, level, tier)
    IN  IF issue \notin Covered THEN [RefundPlan EXCEPT !.eligibility = "ineligible"]
        ELSE IF NeedsPicture(issue, confirmed)
        THEN [RefundPlan EXCEPT !.eligibility = "needs_evidence", !.missing = TRUE]
        ELSE IF d.balance = 0 THEN [RefundPlan EXCEPT !.eligibility = "ineligible"]
        ELSE [RefundPlan EXCEPT
                 !.eligibility = IF approval THEN "eligible_with_approval" ELSE "eligible",
                 !.action = IF issue \in ReturnRequired THEN "return_and_refund"
                                                        ELSE "refund_original_payment",
                 !.amount = amount, !.level = level, !.tier = tier, !.approval = approval]

-----------------------------------------------------------------------------
(* The reverse plan *)

\* Tenths of the expected recovery value that survive the damage; recovery values
\* are multiples of ten, as in the data set, so round() never has to round.
RecoveryFactor == [none |-> 10, minor |-> 7, major |-> 4, destroyed |-> 0]
Recovery(d, damage) == (d.recovery * RecoveryFactor[damage]) \div 10

Grade == [none |-> "a", minor |-> "b", major |-> "c", destroyed |-> "d"]
Disposition == [a |-> "restock", b |-> "refurbish", c |-> "liquidate", d |-> "dispose"]

ReversePlan == [NoPlan EXCEPT !.route = "reverse", !.eligibility = "decided"]

\* Goods that come back with another serial number than the one shipped.
SerialHold(issue, serial) == serial = "mismatch" /\ issue # "wrong_item"

\* Worth receiving back: what is recovered pays for the way back.
WorthReturning(d, damage) == Recovery(d, damage) >= d.back

\* The reverse graph is only entered for a replacement, on a supported issue.
DecideReverse(d, issue, confirmed, damage, serial) ==
    LET extra == d.back - Recovery(d, damage)
        refund == Minimum(d.item, d.balance)
        graded == [ReversePlan EXCEPT !.grade = Grade[damage],
                                      !.returns = WorthReturning(d, damage)]
    IN  IF ~ confirmed
        THEN [ReversePlan EXCEPT !.eligibility = "needs_evidence", !.missing = TRUE]
        ELSE IF SerialHold(issue, serial) THEN [ReversePlan EXCEPT !.returns = TRUE]
        ELSE CASE d.stock > 0 /\ graded.returns ->
                    [graded EXCEPT !.action = "replace_after_return",
                                   !.amount = NonNegative(d.replacement + extra)]
               [] d.stock > 0 /\ ~ graded.returns ->
                    [graded EXCEPT !.action = "resend_without_return", !.amount = d.replacement]
               [] d.stock = 0 /\ graded.returns ->
                    [graded EXCEPT !.action = "return_and_refund",
                                   !.amount = NonNegative(refund + extra)]
               [] d.stock = 0 /\ ~ graded.returns ->
                    [graded EXCEPT !.action = "refund_without_return", !.amount = refund]

-----------------------------------------------------------------------------
(* Evaluating a claim *)

Claims == [order : DOMAIN Dossiers \cup {"none", "unknown"},
           issue : Issues \cup {"none"},
           wants : {"none", "refund", "replacement"},
           confirmed : BOOLEAN,
           damage : Damages \cup {"none"},
           serial : {"none", "match", "mismatch"}]

TakesReverse(claim) == claim.issue \in ReverseIssues /\ claim.wants = "replacement"

Clarify == [status |-> "awaiting_clarification", plan |-> NoPlan]

\* A claim that names no order or no issue, an order that is not on file, or a
\* replacement of an article without stock and cost records, asks the customer.
Unclear(claim) ==
    \/ claim.order \notin DOMAIN Dossiers
    \/ claim.issue = "none"
    \/ TakesReverse(claim) /\ ~ Dossiers[claim.order].replaceable

EvaluateIntake(claim, role) ==
    IF Unclear(claim) THEN Clarify
    ELSE LET d == Dossiers[claim.order]
             plan == IF TakesReverse(claim)
                     THEN DecideReverse(d, claim.issue, claim.confirmed, claim.damage, claim.serial)
                     ELSE DecideResolution(d, claim.issue, claim.confirmed, RoleLimit[role])
             open == plan.missing \/ (plan.route = "refund" /\ Contradicted(d, claim.issue))
         IN  [status |-> IF open THEN "awaiting_evidence" ELSE "decided", plan |-> plan]

-----------------------------------------------------------------------------
(* Cases and actions *)

NoAction == [kind |-> "none", amount |-> 0, status |-> "none", signers |-> 0]

RulesInit ==
    /\ case = [status |-> "none", plan |-> NoPlan, role |-> "user", shown |-> FALSE,
               claim |-> [order |-> "none", issue |-> "none", wants |-> "none",
                          confirmed |-> FALSE, damage |-> "none", serial |-> "none"]]
    /\ action = NoAction

Evaluated(claim, role) ==
    LET e == EvaluateIntake(claim, role)
    IN  [status |-> e.status, plan |-> e.plan, role |-> role, shown |-> claim.confirmed,
         claim |-> claim]

\* POST /cases/intake, or the agent's tool: pictures come with a supplement.
IntakeCase(role, order, issue, wants) ==
    /\ case.status = "none"
    /\ case' = Evaluated([case.claim EXCEPT !.order = order, !.issue = issue, !.wants = wants], role)
    /\ UNCHANGED action

\* POST /cases: always the refund rules, and "decided" whatever they say.  It keeps
\* no intake, so a later supplement does not know that a picture was confirmed.
CreateCase(role, order, issue, confirmed) ==
    /\ case.status = "none" /\ order \in DOMAIN Dossiers
    /\ case' = [status |-> "decided", role |-> role, shown |-> confirmed,
                plan |-> DecideResolution(Dossiers[order], issue, confirmed, RoleLimit[role]),
                claim |-> [case.claim EXCEPT !.order = order, !.issue = issue]]
    /\ UNCHANGED action

\* The parts of a claim a supplement may give; only the first three can be cleared.
Supplied ==
    {<<"order", v>> : v \in DOMAIN Dossiers \cup {"none", "unknown"}}
    \cup {<<"issue", v>> : v \in Issues \cup {"none"}}
    \cup {<<"wants", v>> : v \in {"none", "refund", "replacement"}}
    \cup {<<"damage", v>> : v \in Damages}
    \cup {<<"serial", v>> : v \in {"match", "mismatch"}}

\* Whatever the case's status, the claim is evaluated again and an action that was
\* waiting is withdrawn.
Supplement(role, claim) ==
    /\ case.status # "none"
    /\ case' = Evaluated(claim, role)
    /\ action' = NoAction

SupplementField(role, field, value) ==
    Supplement(role, [case.claim EXCEPT ![field] = value])

SupplementPicture(role, confirmed) ==
    Supplement(role, [case.claim EXCEPT !.confirmed = confirmed])

\* A refund the rules let through without a human is approved at once.
AutoApproved(plan) == ~ plan.approval /\ plan.level # "high"

Executable(plan) ==
    /\ plan.eligibility \in {"eligible", "eligible_with_approval"}
    /\ plan.action \in {"refund_original_payment", "return_and_refund"}
    /\ plan.amount > 0

RefundAction(plan) ==
    [kind |-> "refund", amount |-> plan.amount,
     status |-> IF AutoApproved(plan) THEN "approved" ELSE "pending_approval",
     signers |-> IF plan.tier = "four_eyes" THEN 2 ELSE 1]

ResendAction(plan) ==
    [kind |-> "resend", amount |-> plan.amount, status |-> "pending_approval", signers |-> 1]

\* Asking for the action of a decided case: the one reverse plan that is carried
\* out is a resend without return.
RequestAction ==
    /\ case.status = "decided" /\ action = NoAction
    /\ \/ /\ case.plan.route = "reverse" /\ case.plan.action = "resend_without_return"
          /\ action' = ResendAction(case.plan)
       \/ /\ case.plan.route = "refund" /\ Executable(case.plan)
          /\ action' = RefundAction(case.plan)
    /\ case' = [case EXCEPT !.status = action'.status]

-----------------------------------------------------------------------------
(* A return on its way to settlement: one synchronous run of the graph *)

AllowedTransitions ==
    {<<"pending", "return_label_issued">>, <<"pending", "settled">>, <<"pending", "cancelled">>,
     <<"return_label_issued", "warehouse_received">>, <<"return_label_issued", "cancelled">>,
     <<"warehouse_received", "inspected">>, <<"inspected", "settled">>}

\* A transition that is not allowed raises, and nothing leaves "refused".
Advance(current, target) ==
    IF <<current, target>> \in AllowedTransitions THEN target ELSE "refused"

\* A plan without a return is settled as its disposition is built.
BuildDisposition(plan) == IF plan.returns THEN "pending" ELSE "settled"

MarkReceived(current) ==
    Advance(Advance(current, "return_label_issued"), "warehouse_received")

DispositionSettle(current) == IF current = "settled" THEN current ELSE Advance(current, "settled")

\* Destroyed goods are written off; a plan without a grade goes back into stock.
DispositionLifecycle(plan) ==
    LET built == BuildDisposition(plan)
        handled == IF plan.returns THEN Advance(MarkReceived(built), "inspected") ELSE built
    IN  [status |-> DispositionSettle(handled),
         route |-> IF plan.returns /\ plan.grade = "d" THEN "dispose"
                   ELSE IF plan.grade = "none" THEN "restock" ELSE Disposition[plan.grade]]

-----------------------------------------------------------------------------

RulesNext ==
    \/ \E role \in {"user", "admin"} :
          \/ \E s \in Supplied : SupplementField(role, s[1], s[2])
          \/ \E b \in BOOLEAN : SupplementPicture(role, b)
          \/ \E issue \in Issues, order \in DOMAIN Dossiers, b \in BOOLEAN : CreateCase(role, order, issue, b)
          \/ \E issue \in Issues \cup {"none"}, order \in DOMAIN Dossiers \cup {"none", "unknown"},
                wants \in {"none", "refund", "replacement"} : IntakeCase(role, order, issue, wants)
    \/ RequestAction

RulesSpec == RulesInit /\ [][RulesNext]_rulesVars

-----------------------------------------------------------------------------
(* Properties *)

RulesTypeOK ==
    /\ case.claim \in Claims
    /\ case.status \in {"none", "awaiting_clarification", "awaiting_evidence", "decided",
                        "approved", "pending_approval"}
    /\ case.plan.amount \in Nat
    /\ action.amount \in Nat

\* A refund that no human signs, whatever supplements led to it, is one the
\* operator may give, below the policy's review line, within the balance, of a
\* customer without a decisive signal, with the picture confirmed that it needs.
AutoIsSafe ==
    action.kind = "refund" /\ action.status = "approved" =>
        LET d == Dossiers[case.claim.order]
        IN  /\ action.amount <= RoleLimit[case.role]
            /\ action.amount < ManualReview
            /\ action.amount <= d.balance
            /\ ~ Decisive(d, case.claim.issue)
            /\ d.claims < 2 /\ action.amount < HighValue
            /\ case.claim.issue \in {"damaged_item", "wrong_item"} => case.shown

\* The dossiers that are worse than d in exactly one risk signal.
Worse(d) ==
    {[d EXCEPT !.claims = @ + 1], [d EXCEPT !.cases = @ + 1], [d EXCEPT !.pod = TRUE],
     [d EXCEPT !.hastyOrLate = TRUE], [d EXCEPT !.young = TRUE],
     [d EXCEPT !.moved = TRUE], [d EXCEPT !.shared = TRUE],
     [d EXCEPT !.rate = IF @ = "low" THEN "elevated" ELSE "high"]}

Weight == [auto |-> 0, review |-> 1, supervisor |-> 2, four_eyes |-> 3]

\* The scorecard is monotone: one more risk signal never takes a case to a lighter
\* tier, nor spares it the approval it needed.
WorseIsNoLighter ==
    case.plan.route = "refund" /\ case.plan.amount > 0 =>
        \A w \in Worse(Dossiers[case.claim.order]) :
            LET p == DecideResolution(w, case.claim.issue, case.shown, RoleLimit[case.role])
            IN  Weight[p.tier] >= Weight[case.plan.tier] /\ (case.plan.approval => p.approval)

\* Of having the goods back or not, a graded plan is the cheaper one.
CheapestPlan ==
    case.plan.grade # "none" =>
        LET d == Dossiers[case.claim.order]
            base == IF case.plan.action \in {"replace_after_return", "resend_without_return"}
                    THEN d.replacement ELSE Minimum(d.item, d.balance)
            back == NonNegative(base + d.back - Recovery(d, case.claim.damage))
        IN  case.plan.amount = Minimum(base, back)

\* The disposition graph never asks the state machine for a step it refuses, and
\* goods that were graded go where their grade says.
ReturnsSettle ==
    case.plan.route = "reverse" =>
        LET r == DispositionLifecycle(case.plan)
        IN  /\ r.status = "settled"
            /\ case.plan.grade # "none" => r.route = Disposition[case.plan.grade]

\* What the rules decide, after any sequence of supplements by any operators: no
\* unsigned refund the policy would have reviewed, a monotone scorecard, the
\* cheaper reverse plan, and returns that settle by their grade.
DecisionSound == AutoIsSafe /\ WorseIsNoLighter /\ CheapestPlan /\ ReturnsSettle

=============================================================================
