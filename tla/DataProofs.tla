----------------------------- MODULE DataProofs -----------------------------
(***************************************************************************)
(* Proofs about the money and the rules of a case, for every set of        *)
(* orders, keys and amounts, every order on file, every threshold and      *)
(* limit, and any sequence of calls and of supplements; and about all the  *)
(* stores together.                                                        *)
(*                                                                         *)
(* RefundLedger.  The inductive invariant is the conjunction of the type   *)
(* invariant, conservation and receipt uniqueness: the first needs         *)
(* Released to be bounded by the reserved pool, the third that Capture     *)
(* looks the key up.  That the captures of an order are the sum of its     *)
(* receipts needs there to be finitely many, and a sum that does not       *)
(* depend on the order its terms are taken in (SumAdds of FilterProofs).   *)
(*                                                                         *)
(* CaseRules.  The plan of a case is always the decision on the claim the  *)
(* case holds (Decided), and an action that no human signs was asked for   *)
(* on that very plan (ActionIsPlanned); what remains is arithmetic about   *)
(* the rules.                                                              *)
(*                                                                         *)
(* MCStores.  The components share no variable, so that each keeps its     *)
(* invariant in the composition (StoresInv).                               *)
(***************************************************************************)
EXTENDS MCStores, StoreProofs, SandboxProofs, SchemaProofs

-----------------------------------------------------------------------------
(* The payment ledger *)

LedgerInv == LedgerTypeOK /\ Conservation /\ OneReceiptPerKey

LEMMA LedgerInitInv == LedgerInit => LedgerInv
  BY LedgerAssumption
     DEF LedgerInit, LedgerInv, LedgerTypeOK, Conservation, OneReceiptPerKey

\* release() gives back at most what was asked for and at most what is there.
LEMMA ReleasedBounded ==
  ASSUME LedgerTypeOK, NEW o \in Orders, NEW n \in Amounts
  PROVE  Released(o, n) \in Nat /\ Released(o, n) <= reserved[o] /\ Released(o, n) <= n
  BY LedgerAssumption DEF LedgerTypeOK, Released

LEMMA ReserveInv ==
  ASSUME LedgerInv, NEW o \in Orders, NEW n \in Amounts, Reserve(o, n)
  PROVE  LedgerInv'
  <1>1. LedgerTypeOK'
    BY LedgerAssumption DEF LedgerInv, LedgerTypeOK, Reserve, CanReserve
  <1>2. Conservation'
    BY LedgerAssumption DEF LedgerInv, LedgerTypeOK, Conservation, Reserve, CanReserve
  <1>3. OneReceiptPerKey'
    BY DEF LedgerInv, OneReceiptPerKey, Reserve
  <1> QED BY <1>1, <1>2, <1>3 DEF LedgerInv

LEMMA ReleaseInv ==
  ASSUME LedgerInv, NEW o \in Orders, NEW n \in Amounts, Release(o, n)
  PROVE  LedgerInv'
  <1>0. Released(o, n) \in Nat /\ Released(o, n) <= reserved[o]
    BY ReleasedBounded DEF LedgerInv
  <1>1. LedgerTypeOK'
    BY <1>0 DEF LedgerInv, LedgerTypeOK, Release
  <1>2. Conservation'
    BY <1>0, LedgerAssumption DEF LedgerInv, LedgerTypeOK, Conservation, Release
  <1>3. OneReceiptPerKey'
    BY DEF LedgerInv, OneReceiptPerKey, Release
  <1> QED BY <1>1, <1>2, <1>3 DEF LedgerInv

LEMMA CaptureInv ==
  ASSUME LedgerInv, NEW o \in Orders, NEW n \in Amounts, NEW k \in Keys, Capture(o, n, k)
  PROVE  LedgerInv'
  <1>1. LedgerTypeOK'
    BY LedgerAssumption DEF LedgerInv, LedgerTypeOK, Receipts, Capture, CanCapture
  <1>2. Conservation'
    BY LedgerAssumption DEF LedgerInv, LedgerTypeOK, Conservation, Capture, CanCapture
  <1>3. OneReceiptPerKey'
    BY DEF LedgerInv, OneReceiptPerKey, Capture, Paid
  <1> QED BY <1>1, <1>2, <1>3 DEF LedgerInv

LEMMA LedgerStepInv == LedgerInv /\ [LedgerNext]_ledgerVars => LedgerInv'
  <1> SUFFICES ASSUME LedgerInv, [LedgerNext]_ledgerVars PROVE LedgerInv'
    OBVIOUS
  <1>1. CASE UNCHANGED ledgerVars
    BY <1>1 DEF LedgerInv, LedgerTypeOK, Conservation, OneReceiptPerKey, ledgerVars
  <1>2. CASE \E o \in Orders, n \in Amounts : Reserve(o, n)
    BY <1>2, ReserveInv
  <1>3. CASE \E o \in Orders, n \in Amounts : Release(o, n)
    BY <1>3, ReleaseInv
  <1>4. CASE \E o \in Orders, n \in Amounts, k \in Keys : Capture(o, n, k)
    BY <1>4, CaptureInv
  <1>5. CASE \E k \in Keys : Replay(k)
    BY <1>5, <1>1 DEF Replay
  <1>6. CASE \E k \in Keys : Settle(k)
    BY <1>6 DEF LedgerInv, LedgerTypeOK, Conservation, OneReceiptPerKey, Settle
  <1> QED BY <1>1, <1>2, <1>3, <1>4, <1>5, <1>6 DEF LedgerNext

\* The pools of MockRefundExecutor never go negative and its receipts are well
\* formed, for any balances and any interleaving of calls.
THEOREM LedgerTypeCorrect == LedgerSpec => []LedgerTypeOK
  <1>1. LedgerInv => LedgerTypeOK
    BY DEF LedgerInv
  <1> QED BY LedgerInitInv, LedgerStepInv, <1>1, PTL DEF LedgerSpec

\* No sequence of reserve, release, refund and settle calls creates or loses
\* money on any order.
THEOREM LedgerConserves == LedgerSpec => []Conservation
  <1>1. LedgerInv => Conservation
    BY DEF LedgerInv
  <1> QED BY LedgerInitInv, LedgerStepInv, <1>1, PTL DEF LedgerSpec

\* refund() issues at most one receipt per idempotency key.
THEOREM LedgerPaysOnce == LedgerSpec => []OneReceiptPerKey
  <1>1. LedgerInv => OneReceiptPerKey
    BY DEF LedgerInv
  <1> QED BY LedgerInitInv, LedgerStepInv, <1>1, PTL DEF LedgerSpec

-----------------------------------------------------------------------------
(* The scorecard *)

LEMMA AmountWithinBalance ==
    ASSUME NEW d \in Dossier, NEW issue
    PROVE  RefundAmount(d, issue) \in Nat /\ RefundAmount(d, issue) <= d.balance
<1>1. d.item \in Nat /\ d.shipping \in Nat /\ d.balance \in Nat
  BY DEF Dossier
<1> QED
  BY <1>1 DEF RefundAmount, Minimum, Points

LEMMA ScoreType ==
    ASSUME NEW d \in Dossier, NEW issue, NEW amount \in Nat
    PROVE  Score(d, issue, amount) \in Nat
  BY DEF Score, Points

\* One more risk signal leaves the money alone, adds points, and keeps a decisive
\* signal and a second claim what they are or worse.
LEMMA WorseSignals ==
    ASSUME NEW d \in Dossier, NEW w \in Worse(d), NEW issue, NEW amount \in Nat
    PROVE  /\ w \in Dossier
           /\ RefundAmount(w, issue) = RefundAmount(d, issue) /\ w.balance = d.balance
           /\ Decisive(d, issue) => Decisive(w, issue)
           /\ d.claims = 2 => w.claims = 2 \/ Decisive(w, issue)
           /\ Score(d, issue, amount) <= Score(w, issue, amount)
<1>1. /\ d.claims \in Nat /\ d.cases \in Nat /\ d.rate \in {"low", "elevated", "high"}
      /\ d.pod \in BOOLEAN /\ d.hastyOrLate \in BOOLEAN /\ d.young \in BOOLEAN
      /\ d.moved \in BOOLEAN /\ d.shared \in BOOLEAN
  BY DEF Dossier
<1>2. w \in Dossier
  <2>1. PICK n \in Nat : n = d.claims + 1
    BY <1>1
  <2>2. PICK m \in Nat : m = d.cases + 1
    BY <1>1
  <2>3. PICK r \in {"low", "elevated", "high"} : r = IF d.rate = "low" THEN "elevated" ELSE "high"
    OBVIOUS
  <2>4. \/ w = [d EXCEPT !.claims = n] \/ w = [d EXCEPT !.cases = m] \/ w = [d EXCEPT !.rate = r]
        \/ w = [d EXCEPT !.pod = TRUE] \/ w = [d EXCEPT !.hastyOrLate = TRUE]
        \/ w = [d EXCEPT !.young = TRUE] \/ w = [d EXCEPT !.moved = TRUE]
        \/ w = [d EXCEPT !.shared = TRUE]
    BY <2>1, <2>2, <2>3 DEF Worse
  <2>5. [d EXCEPT !.claims = n] \in Dossier /\ [d EXCEPT !.cases = m] \in Dossier
    BY DEF Dossier
  <2>6. [d EXCEPT !.rate = r] \in Dossier /\ [d EXCEPT !.pod = TRUE] \in Dossier
    BY DEF Dossier
  <2>7. [d EXCEPT !.hastyOrLate = TRUE] \in Dossier /\ [d EXCEPT !.young = TRUE] \in Dossier
    BY DEF Dossier
  <2>8. [d EXCEPT !.moved = TRUE] \in Dossier /\ [d EXCEPT !.shared = TRUE] \in Dossier
    BY DEF Dossier
  <2> QED
    BY <2>4, <2>5, <2>6, <2>7, <2>8
<1>3. w.item = d.item /\ w.shipping = d.shipping /\ w.balance = d.balance
  BY DEF Worse, Dossier
<1>4. /\ w.claims \in {d.claims, d.claims + 1}
      /\ w.cases \in {d.cases, d.cases + 1}
      /\ d.pod => w.pod
      /\ d.hastyOrLate => w.hastyOrLate
      /\ d.young => w.young
      /\ d.moved => w.moved
      /\ d.shared => w.shared
      /\ w.rate = d.rate \/ w.rate = IF d.rate = "low" THEN "elevated" ELSE "high"
  BY DEF Worse, Dossier
<1>5. RefundAmount(w, issue) = RefundAmount(d, issue)
  BY <1>3 DEF RefundAmount
<1>6. Decisive(d, issue) => Decisive(w, issue)
  BY <1>1, <1>4 DEF Decisive, Contradicted
<1>7. d.claims = 2 => w.claims = 2 \/ Decisive(w, issue)
  BY <1>1, <1>4 DEF Decisive
<1>8. Score(d, issue, amount) <= Score(w, issue, amount)
  BY <1>1, <1>4, SMTT(60) DEF Score, Points, Contradicted
<1> QED
  BY <1>2, <1>3, <1>5, <1>6, <1>7, <1>8

\* The scorecard is monotone.
LEMMA WorseLevel ==
    ASSUME NEW d \in Dossier, NEW w \in Worse(d), NEW issue, NEW amount \in Nat
    PROVE  /\ RiskLevel(d, issue, amount) = "high" => RiskLevel(w, issue, amount) = "high"
           /\ RiskLevel(d, issue, amount) = "medium" =>
                RiskLevel(w, issue, amount) \in {"medium", "high"}
<1>1. /\ Decisive(d, issue) => Decisive(w, issue)
      /\ d.claims = 2 => w.claims = 2 \/ Decisive(w, issue)
      /\ Score(d, issue, amount) <= Score(w, issue, amount)
      /\ w \in Dossier
  BY WorseSignals
<1>2. Score(d, issue, amount) \in Nat /\ Score(w, issue, amount) \in Nat
  BY <1>1, ScoreType
<1> QED
  BY <1>1, <1>2 DEF RiskLevel

LEMMA LevelKinds ==
    ASSUME NEW d, NEW issue, NEW amount
    PROVE  RiskLevel(d, issue, amount) \in {"low", "medium", "high"}
  BY DEF RiskLevel

LEMMA HeavierTier ==
    ASSUME NEW l \in {"low", "medium", "high"}, NEW h \in {"low", "medium", "high"},
           NEW amount \in Nat,
           l = "high" => h = "high", l = "medium" => h \in {"medium", "high"}
    PROVE  /\ Weight[RiskTier(h, amount)] >= Weight[RiskTier(l, amount)]
           /\ RiskTier(l, amount) # "auto" => RiskTier(h, amount) # "auto"
  BY DEF RiskTier, Weight

-----------------------------------------------------------------------------
(* The decisions *)

\* A refund the rules give, and the fields it is given with.
Given(p, d, issue, confirmed, limit) ==
    /\ issue \in Covered /\ ~ NeedsPicture(issue, confirmed) /\ d.balance # 0
    /\ p.amount = RefundAmount(d, issue)
    /\ p.level = RiskLevel(d, issue, p.amount)
    /\ p.tier = RiskTier(p.level, p.amount)
    /\ p.approval = NeedsApproval(p.amount, limit, p.level, p.tier)

LEMMA RefundDecision ==
    ASSUME NEW d \in Dossier, NEW issue, NEW confirmed, NEW limit, NEW p,
           p = DecideResolution(d, issue, confirmed, limit)
    PROVE  /\ p.route = "refund" /\ p.grade = "none" /\ p.amount \in Nat
           /\ \/ /\ p.amount = 0 /\ p.action = "manual_review"
                 /\ issue \notin Covered \/ NeedsPicture(issue, confirmed) \/ d.balance = 0
              \/ Given(p, d, issue, confirmed, limit)
<1> DEFINE amount == RefundAmount(d, issue)
           level == RiskLevel(d, issue, amount)
           tier == RiskTier(level, amount)
           approval == NeedsApproval(amount, limit, level, tier)
<1>1. CASE issue \notin Covered
  <2>1. p = [RefundPlan EXCEPT !.eligibility = "ineligible"]
    BY <1>1 DEF DecideResolution
  <2> QED
    BY <1>1, <2>1 DEF RefundPlan, NoPlan
<1>2. CASE issue \in Covered /\ NeedsPicture(issue, confirmed)
  <2>1. p = [RefundPlan EXCEPT !.eligibility = "needs_evidence", !.missing = TRUE]
    BY <1>2 DEF DecideResolution
  <2> QED
    BY <1>2, <2>1 DEF RefundPlan, NoPlan
<1>3. CASE issue \in Covered /\ ~ NeedsPicture(issue, confirmed) /\ d.balance = 0
  <2>1. p = [RefundPlan EXCEPT !.eligibility = "ineligible"]
    BY <1>3 DEF DecideResolution
  <2> QED
    BY <1>3, <2>1 DEF RefundPlan, NoPlan
<1>4. CASE issue \in Covered /\ ~ NeedsPicture(issue, confirmed) /\ d.balance # 0
  <2>1. PICK A, L, T, B, E, X :
          /\ A = amount /\ L = level /\ T = tier /\ B = approval
          /\ E = (IF approval THEN "eligible_with_approval" ELSE "eligible")
          /\ X = (IF issue \in ReturnRequired THEN "return_and_refund"
                                              ELSE "refund_original_payment")
    OBVIOUS
  <2>2. p = [RefundPlan EXCEPT !.eligibility = E, !.action = X, !.amount = A, !.level = L,
                               !.tier = T, !.approval = B]
    BY <1>4, <2>1 DEF DecideResolution
  <2>3. /\ p.route = "refund" /\ p.grade = "none" /\ p.amount = A /\ p.level = L
        /\ p.tier = T /\ p.approval = B
    BY <2>2 DEF RefundPlan, NoPlan
  <2>4. A \in Nat
    BY <2>1, AmountWithinBalance
  <2>5. Given(p, d, issue, confirmed, limit)
    BY <1>4, <2>1, <2>3 DEF Given
  <2> QED
    BY <2>3, <2>4, <2>5
<1> QED
  BY <1>1, <1>2, <1>3, <1>4

\* One more risk signal never makes the decision lighter.
LEMMA WorseDecision ==
    ASSUME NEW d \in Dossier, NEW w \in Worse(d), NEW issue, NEW confirmed, NEW limit \in Nat,
           NEW p, p = DecideResolution(d, issue, confirmed, limit), p.amount > 0,
           NEW q, q = DecideResolution(w, issue, confirmed, limit)
    PROVE  Weight[q.tier] >= Weight[p.tier] /\ (p.approval => q.approval)
<1>1. /\ w \in Dossier /\ w.balance = d.balance
      /\ RefundAmount(w, issue) = RefundAmount(d, issue)
  BY WorseSignals, 0 \in Nat
<1>2. p.amount \in Nat /\ Given(p, d, issue, confirmed, limit)
  BY RefundDecision
<1>3. Given(q, w, issue, confirmed, limit)
  BY <1>1, <1>2, RefundDecision DEF Given
<1>4. q.amount = p.amount
  BY <1>1, <1>2, <1>3 DEF Given
<1>5. /\ p.level \in {"low", "medium", "high"} /\ q.level \in {"low", "medium", "high"}
      /\ p.level = "high" => q.level = "high"
      /\ p.level = "medium" => q.level \in {"medium", "high"}
  BY <1>2, <1>3, <1>4, LevelKinds, WorseLevel DEF Given
<1>6. /\ Weight[q.tier] >= Weight[p.tier]
      /\ p.tier # "auto" => q.tier # "auto"
  BY <1>2, <1>3, <1>4, <1>5, HeavierTier DEF Given
<1>7. p.approval => q.approval
  BY <1>2, <1>3, <1>4, <1>5, <1>6 DEF Given, NeedsApproval
<1> QED
  BY <1>6, <1>7

\* A refund approved at once is one the rules let through.
LEMMA AutoDecision ==
    ASSUME NEW d \in Dossier, NEW issue, NEW confirmed, NEW limit \in Nat,
           NEW p, p = DecideResolution(d, issue, confirmed, limit),
           Executable(p), AutoApproved(p)
    PROVE  /\ p.amount <= limit /\ p.amount < ManualReview /\ p.amount <= d.balance
           /\ ~ Decisive(d, issue)
           /\ d.claims < 2 /\ p.amount < HighValue
           /\ issue \in {"damaged_item", "wrong_item"} => confirmed
<1>1. p.amount \in Nat /\ Given(p, d, issue, confirmed, limit)
  BY RefundDecision DEF Executable
<1>2. ManualReview \in Nat /\ HighValue \in Nat
  BY RulesAssumption DEF RulesAssumption
<1>3. p.amount <= limit /\ p.amount < ManualReview /\ p.level # "high" /\ p.tier = "auto"
  BY <1>1, <1>2 DEF AutoApproved, Given, NeedsApproval
<1>4. p.amount <= d.balance
  BY <1>1, AmountWithinBalance DEF Given
<1>5. p.level = "low"
  BY <1>1, <1>3, LevelKinds DEF Given, RiskTier
<1>6. d.claims \in Nat
  BY DEF Dossier
<1>7. ~ Decisive(d, issue) /\ d.claims # 2 /\ p.amount < HighValue
  BY <1>1, <1>2, <1>5 DEF Given, RiskLevel
<1>8. d.claims < 2
  BY <1>6, <1>7 DEF Decisive
<1>9. issue \in {"damaged_item", "wrong_item"} => confirmed
  BY <1>1 DEF Given, NeedsPicture
<1> QED
  BY <1>3, <1>4, <1>7, <1>8, <1>9

Damage == {"none", "minor", "major", "destroyed"}

LEMMA RecoveryType ==
    ASSUME NEW d \in Dossier, NEW damage \in Damage
    PROVE  Recovery(d, damage) \in Nat
<1>1. PICK n \in Nat : n = d.recovery
  BY DEF Dossier
<1>2. PICK f \in Nat : f = RecoveryFactor[damage]
  BY DEF RecoveryFactor, Damage
<1>3. n * f \in Nat
  OBVIOUS
<1>4. \A m \in Nat : m \div 10 \in Nat
  OBVIOUS
<1> QED
  BY <1>1, <1>2, <1>3, <1>4 DEF Recovery

\* The cost of a graded plan without, and with, the goods coming back.
Base(p, d) ==
    IF p.action \in {"replace_after_return", "resend_without_return"}
    THEN d.replacement ELSE Minimum(d.item, d.balance)
Back(p, d, damage) == NonNegative(Base(p, d) + d.back - Recovery(d, damage))

\* The reverse rules take the cheaper one, and grade by the damage.
LEMMA ReverseDecision ==
    ASSUME NEW d \in Dossier, NEW issue, NEW confirmed, NEW damage \in Damage, NEW serial, NEW p,
           p = DecideReverse(d, issue, confirmed, damage, serial)
    PROVE  /\ p.route = "reverse" /\ p.amount \in Nat /\ p.returns \in BOOLEAN
           /\ p.grade \in {"none", "a", "b", "c", "d"}
           /\ p.grade # "none" => p.amount = Minimum(Base(p, d), Back(p, d, damage))
<1>1. CASE ~ confirmed
  <2>1. p = [ReversePlan EXCEPT !.eligibility = "needs_evidence", !.missing = TRUE]
    BY <1>1 DEF DecideReverse
  <2> QED
    BY <2>1 DEF ReversePlan, NoPlan
<1>2. CASE confirmed /\ SerialHold(issue, serial)
  <2>1. p = [ReversePlan EXCEPT !.returns = TRUE]
    BY <1>2 DEF DecideReverse
  <2> QED
    BY <2>1 DEF ReversePlan, NoPlan
<1>3. CASE confirmed /\ ~ SerialHold(issue, serial)
  <2>1. PICK G \in {"a", "b", "c", "d"} : G = Grade[damage]
    BY DEF Grade, Damage
  <2>2. PICK R \in BOOLEAN : R = WorthReturning(d, damage)
    <3>1. WorthReturning(d, damage) \in BOOLEAN
      BY DEF WorthReturning
    <3> QED
      BY <3>1, Zenon
  <2>3. PICK rec \in Nat : rec = Recovery(d, damage)
    BY RecoveryType
  <2>4. /\ d.back \in Nat /\ d.replacement \in Nat /\ d.item \in Nat /\ d.balance \in Nat
        /\ d.stock \in Nat
    BY DEF Dossier
  <2>5. PICK refund \in Nat : refund = Minimum(d.item, d.balance)
    BY <2>4 DEF Minimum
  <2>6. R <=> rec >= d.back
    BY <2>2, <2>3 DEF WorthReturning
  <2>7. PICK g : g = [ReversePlan EXCEPT !.grade = G, !.returns = R]
    OBVIOUS
  <2>8. p = CASE d.stock > 0 /\ g.returns ->
                    [g EXCEPT !.action = "replace_after_return",
                              !.amount = NonNegative(d.replacement + (d.back - rec))]
               [] d.stock > 0 /\ ~ g.returns ->
                    [g EXCEPT !.action = "resend_without_return", !.amount = d.replacement]
               [] d.stock = 0 /\ g.returns ->
                    [g EXCEPT !.action = "return_and_refund",
                              !.amount = NonNegative(refund + (d.back - rec))]
               [] d.stock = 0 /\ ~ g.returns ->
                    [g EXCEPT !.action = "refund_without_return", !.amount = refund]
    BY <1>3, <2>1, <2>2, <2>3, <2>5, <2>7 DEF DecideReverse
  <2>9. g.returns = R
    BY <2>7 DEF ReversePlan, NoPlan
  <2>10. PICK act, amount :
           /\ p = [g EXCEPT !.action = act, !.amount = amount]
           /\ \/ R /\ act = "replace_after_return"
                 /\ amount = NonNegative(d.replacement + (d.back - rec))
              \/ ~ R /\ act = "resend_without_return" /\ amount = d.replacement
              \/ R /\ act = "return_and_refund"
                 /\ amount = NonNegative(refund + (d.back - rec))
              \/ ~ R /\ act = "refund_without_return" /\ amount = refund
    <3>1. CASE d.stock > 0 /\ R
      <4>1. p = [g EXCEPT !.action = "replace_after_return",
                          !.amount = NonNegative(d.replacement + (d.back - rec))]
        BY <2>4, <2>8, <2>9, <3>1
      <4> QED BY <3>1, <4>1
    <3>2. CASE d.stock > 0 /\ ~ R
      <4>1. p = [g EXCEPT !.action = "resend_without_return", !.amount = d.replacement]
        BY <2>4, <2>8, <2>9, <3>2
      <4> QED BY <3>2, <4>1
    <3>3. CASE d.stock = 0 /\ R
      <4>1. p = [g EXCEPT !.action = "return_and_refund",
                          !.amount = NonNegative(refund + (d.back - rec))]
        BY <2>4, <2>8, <2>9, <3>3
      <4> QED BY <3>3, <4>1
    <3>4. CASE d.stock = 0 /\ ~ R
      <4>1. p = [g EXCEPT !.action = "refund_without_return", !.amount = refund]
        BY <2>4, <2>8, <2>9, <3>4
      <4> QED BY <3>4, <4>1
    <3>5. d.stock > 0 \/ d.stock = 0
      BY <2>4
    <3> QED
      BY <3>1, <3>2, <3>3, <3>4, <3>5, Zenon
  <2>11. p.route = "reverse" /\ p.returns = R /\ p.grade = G /\ p.action = act /\ p.amount = amount
    BY <2>7, <2>10 DEF ReversePlan, NoPlan
  <2>12. PICK base \in Nat : base = Base(p, d)
    BY <2>4, <2>5 DEF Base
  <2>13. amount = IF R THEN NonNegative(base + (d.back - rec)) ELSE base
    BY <2>5, <2>10, <2>11, <2>12 DEF Base
  <2>14. amount \in Nat
    BY <2>3, <2>4, <2>13 DEF NonNegative
  <2>15. amount = Minimum(base, NonNegative(base + d.back - rec))
    BY <2>4, <2>6, <2>13 DEF Minimum, NonNegative
  <2> QED
    BY <2>3, <2>11, <2>12, <2>14, <2>15 DEF Back
<1> QED
  BY <1>1, <1>2, <1>3

\* Every plan's return ends settled, where its grade says.
LEMMA LifecycleSettles ==
    ASSUME NEW p, p.returns \in BOOLEAN, p.grade \in {"none", "a", "b", "c", "d"}
    PROVE  /\ DispositionLifecycle(p).status = "settled"
           /\ p.grade # "none" => DispositionLifecycle(p).route = Disposition[p.grade]
<1>1. CASE p.returns
  <2>1. BuildDisposition(p) = "pending"
    BY <1>1 DEF BuildDisposition
  <2>2. MarkReceived("pending") = "warehouse_received"
    BY DEF MarkReceived, Advance, AllowedTransitions
  <2>3. Advance("warehouse_received", "inspected") = "inspected"
    BY DEF Advance, AllowedTransitions
  <2>4. DispositionSettle("inspected") = "settled"
    BY DEF DispositionSettle, Advance, AllowedTransitions
  <2>5. DispositionLifecycle(p).status = "settled"
    BY <1>1, <2>1, <2>2, <2>3, <2>4 DEF DispositionLifecycle
  <2>6. p.grade # "none" => DispositionLifecycle(p).route = Disposition[p.grade]
    BY <1>1 DEF DispositionLifecycle, Disposition
  <2> QED
    BY <2>5, <2>6
<1>2. CASE ~ p.returns
  <2>1. BuildDisposition(p) = "settled"
    BY <1>2 DEF BuildDisposition
  <2>2. DispositionLifecycle(p).status = "settled"
    BY <1>2, <2>1 DEF DispositionLifecycle, DispositionSettle
  <2>3. p.grade # "none" => DispositionLifecycle(p).route = Disposition[p.grade]
    BY <1>2 DEF DispositionLifecycle
  <2> QED
    BY <2>2, <2>3
<1> QED
  BY <1>1, <1>2

-----------------------------------------------------------------------------
(* The case *)

\* The plan of a case is the decision on the claim it holds.
Decided(c) ==
    \/ c.plan = NoPlan
    \/ /\ c.claim.order \in DOMAIN Dossiers
       /\ c.plan = DecideResolution(Dossiers[c.claim.order], c.claim.issue, c.shown,
                                    RoleLimit[c.role])
    \/ /\ c.claim.order \in DOMAIN Dossiers
       /\ c.plan = DecideReverse(Dossiers[c.claim.order], c.claim.issue, c.claim.confirmed,
                                 c.claim.damage, c.claim.serial)

CaseStatus == {"none", "awaiting_clarification", "awaiting_evidence", "decided", "approved",
               "pending_approval"}

\* A case, of any claim.
CaseShape(c) ==
    /\ c.claim \in Claims /\ c.status \in CaseStatus /\ c.role \in {"user", "admin"}
    /\ Decided(c)

\* A refund without a signature was asked for on the plan the case still has.
ActionIsPlanned ==
    /\ action.amount \in Nat
    /\ action.kind = "refund" /\ action.status = "approved" =>
         /\ case.status # "none"
         /\ case.plan.route = "refund"
         /\ Executable(case.plan) /\ AutoApproved(case.plan)
         /\ action.amount = case.plan.amount

\* The fields of a case, as every action writes it.
IsCase == \E s, p, r, h, c : case = [status |-> s, plan |-> p, role |-> r, shown |-> h, claim |-> c]

RulesInv == IsCase /\ CaseShape(case) /\ ActionIsPlanned

LEMMA NoPlanFields ==
    NoPlan.route = "none" /\ NoPlan.amount = 0 /\ NoPlan.grade = "none"
  BY DEF NoPlan

LEMMA ClaimDamage == \A c \in Claims : c.damage \in Damage
  BY RulesAssumption DEF Claims, Damage, RulesAssumption

LEMMA PlanAmounts ==
    ASSUME NEW c, CaseShape(c)
    PROVE  c.plan.amount \in Nat
<1>1. \A o \in DOMAIN Dossiers : Dossiers[o] \in Dossier
  BY RulesAssumption DEF RulesAssumption
<1>2. c.claim.damage \in Damage
  BY ClaimDamage DEF CaseShape
<1> QED
  BY <1>1, <1>2, NoPlanFields, RefundDecision, ReverseDecision DEF CaseShape, Decided

LEMMA RulesInvTypes == RulesInv => RulesTypeOK
  BY PlanAmounts DEF RulesInv, RulesTypeOK, CaseShape, CaseStatus, ActionIsPlanned

LEMMA RulesInvSound == RulesInv => DecisionSound
<1> SUFFICES ASSUME RulesInv PROVE DecisionSound
  OBVIOUS
<1>1. \A o \in DOMAIN Dossiers : Dossiers[o] \in Dossier
  BY RulesAssumption DEF RulesAssumption
<1>2. PICK d : d = Dossiers[case.claim.order]
  OBVIOUS
<1>3. case.claim.damage \in Damage
  BY ClaimDamage DEF RulesInv, CaseShape
<1>4. PICK limit \in Nat : limit = RoleLimit[case.role]
  BY RulesAssumption DEF RulesInv, CaseShape, RulesAssumption
<1>5. PICK p : p = case.plan
  OBVIOUS
<1>6. CASE p = NoPlan
  BY <1>5, <1>6, NoPlanFields
     DEF RulesInv, ActionIsPlanned, DecisionSound, AutoIsSafe, WorseIsNoLighter, CheapestPlan,
         ReturnsSettle
<1>7. CASE d \in Dossier /\ p = DecideResolution(d, case.claim.issue, case.shown, limit)
  <2>1. p.route = "refund" /\ p.grade = "none"
    BY <1>7, RefundDecision
  <2>2. AutoIsSafe
    BY <1>2, <1>4, <1>5, <1>7, AutoDecision DEF RulesInv, ActionIsPlanned, AutoIsSafe
  <2>3. WorseIsNoLighter
    BY <1>2, <1>4, <1>5, <1>7, WorseDecision DEF WorseIsNoLighter
  <2> QED
    BY <1>5, <2>1, <2>2, <2>3 DEF DecisionSound, CheapestPlan, ReturnsSettle
<1>8. CASE d \in Dossier /\ p = DecideReverse(d, case.claim.issue, case.claim.confirmed,
                                              case.claim.damage, case.claim.serial)
  <2>1. /\ p.route = "reverse" /\ p.returns \in BOOLEAN
        /\ p.grade \in {"none", "a", "b", "c", "d"}
        /\ p.grade # "none" => p.amount = Minimum(Base(p, d), Back(p, d, case.claim.damage))
    BY <1>3, <1>8, ReverseDecision
  <2>2. CheapestPlan
    BY <1>2, <1>5, <2>1 DEF CheapestPlan, Base, Back
  <2>3. ReturnsSettle
    BY <1>5, <2>1, LifecycleSettles DEF ReturnsSettle
  <2> QED
    BY <1>5, <2>1, <2>2, <2>3
       DEF DecisionSound, RulesInv, ActionIsPlanned, AutoIsSafe, WorseIsNoLighter
<1> QED
  BY <1>1, <1>2, <1>4, <1>5, <1>6, <1>7, <1>8 DEF RulesInv, CaseShape, Decided

\* What evaluate_intake gives a claim.
LEMMA EvaluatedShape ==
    ASSUME NEW claim \in Claims, NEW role \in {"user", "admin"}
    PROVE  CaseShape(Evaluated(claim, role)) /\ Evaluated(claim, role).status # "none"
<1>1. PICK e : e = EvaluateIntake(claim, role)
  OBVIOUS
<1>2. PICK v : v = [status |-> e.status, plan |-> e.plan, role |-> role,
                    shown |-> claim.confirmed, claim |-> claim]
  OBVIOUS
<1>3. Evaluated(claim, role) = v
  BY <1>1, <1>2 DEF Evaluated
<1>4. /\ v.status = e.status /\ v.plan = e.plan /\ v.role = role
      /\ v.shown = claim.confirmed /\ v.claim = claim
  BY <1>2
<1>5. CASE Unclear(claim)
  <2>1. e = Clarify
    BY <1>1, <1>5 DEF EvaluateIntake
  <2>2. v.status = "awaiting_clarification" /\ v.plan = NoPlan
    BY <1>4, <2>1 DEF Clarify
  <2> QED
    BY <1>3, <1>4, <2>2 DEF CaseShape, CaseStatus, Decided
<1>6. CASE ~ Unclear(claim)
  <2>1. claim.order \in DOMAIN Dossiers
    BY <1>6 DEF Unclear
  <2>2. PICK pl : pl = IF TakesReverse(claim)
                           THEN DecideReverse(Dossiers[claim.order], claim.issue, claim.confirmed,
                                              claim.damage, claim.serial)
                           ELSE DecideResolution(Dossiers[claim.order], claim.issue,
                                                 claim.confirmed, RoleLimit[role])
    OBVIOUS
  <2>3. e = [status |-> IF pl.missing \/ (pl.route = "refund"
                                             /\ Contradicted(Dossiers[claim.order], claim.issue))
                        THEN "awaiting_evidence" ELSE "decided",
             plan |-> pl]
    BY <1>1, <1>6, <2>2 DEF EvaluateIntake
  <2>4. v.status \in {"awaiting_evidence", "decided"} /\ v.plan = pl
    BY <1>4, <2>3
  <2>5. Decided(v)
    BY <1>4, <2>1, <2>2, <2>4 DEF Decided
  <2> QED
    BY <1>3, <1>4, <2>4, <2>5 DEF CaseShape, CaseStatus
<1> QED
  BY <1>5, <1>6

LEMMA EvaluatedIsCase ==
    ASSUME NEW claim, NEW role
    PROVE  \E s, p, r, h, c :
             Evaluated(claim, role) = [status |-> s, plan |-> p, role |-> r, shown |-> h, claim |-> c]
  BY DEF Evaluated

LEMMA RulesInitInv == RulesInit => RulesInv
<1> SUFFICES ASSUME RulesInit PROVE RulesInv
  OBVIOUS
<1>1. PICK none : none = [order |-> "none", issue |-> "none", wants |-> "none",
                          confirmed |-> FALSE, damage |-> "none", serial |-> "none"]
  OBVIOUS
<1>2. none \in Claims
  BY <1>1 DEF Claims
<1>3. case = [status |-> "none", plan |-> NoPlan, role |-> "user", shown |-> FALSE, claim |-> none]
  BY <1>1 DEF RulesInit
<1>4. IsCase
  BY <1>3 DEF IsCase
<1>5. CaseShape(case)
  BY <1>2, <1>3 DEF CaseShape, CaseStatus, Decided
<1>6. ActionIsPlanned
  BY DEF RulesInit, NoAction, ActionIsPlanned
<1> QED
  BY <1>4, <1>5, <1>6 DEF RulesInv

\* A supplement evaluates the whole claim again and withdraws the action.
LEMMA SupplementInv ==
    ASSUME RulesInv, NEW claim \in Claims, NEW role \in {"user", "admin"}, Supplement(role, claim)
    PROVE  RulesInv'
<1>1. case' = Evaluated(claim, role) /\ action' = NoAction
  BY DEF Supplement
<1>2. IsCase'
  BY <1>1, EvaluatedIsCase DEF IsCase
<1>3. CaseShape(case')
  BY <1>1, EvaluatedShape
<1>4. ActionIsPlanned'
  BY <1>1 DEF ActionIsPlanned, NoAction
<1> QED
  BY <1>2, <1>3, <1>4 DEF RulesInv, CaseShape, Decided

\* A case that is opened has no action yet.
LEMMA OpenedInv ==
    ASSUME RulesInv, case.status = "none", UNCHANGED action, IsCase', CaseShape(case)'
    PROVE  RulesInv'
  BY DEF RulesInv, ActionIsPlanned

LEMMA IntakeInv ==
    ASSUME RulesInv, NEW role \in {"user", "admin"}, NEW order \in DOMAIN Dossiers \cup {"none", "unknown"},
           NEW issue \in Issues \cup {"none"}, NEW wants \in {"none", "refund", "replacement"},
           IntakeCase(role, order, issue, wants)
    PROVE  RulesInv'
<1>1. PICK claim : claim = [case.claim EXCEPT !.order = order, !.issue = issue, !.wants = wants]
  OBVIOUS
<1>2. claim \in Claims
  BY <1>1 DEF RulesInv, CaseShape, Claims
<1>3. case' = Evaluated(claim, role) /\ case.status = "none" /\ UNCHANGED action
  BY <1>1 DEF IntakeCase
<1>4. IsCase'
  BY <1>3, EvaluatedIsCase DEF IsCase
<1>5. CaseShape(case)'
  BY <1>2, <1>3, EvaluatedShape DEF CaseShape, Decided
<1> QED
  BY <1>3, <1>4, <1>5, OpenedInv

LEMMA CreateInv ==
    ASSUME RulesInv, NEW role \in {"user", "admin"}, NEW order \in DOMAIN Dossiers,
           NEW issue \in Issues, NEW confirmed \in BOOLEAN,
           CreateCase(role, order, issue, confirmed)
    PROVE  RulesInv'
<1>1. PICK claim : claim = [case.claim EXCEPT !.order = order, !.issue = issue]
  OBVIOUS
<1>2. claim \in Claims /\ claim.order = order /\ claim.issue = issue
  BY <1>1 DEF RulesInv, CaseShape, Claims
<1>3. PICK pl : pl = DecideResolution(Dossiers[order], issue, confirmed, RoleLimit[role])
  OBVIOUS
<1>4. /\ case' = [status |-> "decided", role |-> role, shown |-> confirmed, plan |-> pl,
                  claim |-> claim]
      /\ case.status = "none" /\ UNCHANGED action
  BY <1>1, <1>3 DEF CreateCase
<1>5. IsCase'
  BY <1>4 DEF IsCase
<1>6. CaseShape(case)'
  BY <1>2, <1>3, <1>4 DEF CaseShape, CaseStatus, Decided
<1> QED
  BY <1>4, <1>5, <1>6, OpenedInv

LEMMA RequestInv ==
    ASSUME RulesInv, RequestAction
    PROVE  RulesInv'
<1>1. PICK s, p, r, h, c :
        case = [status |-> s, plan |-> p, role |-> r, shown |-> h, claim |-> c]
  BY DEF RulesInv, IsCase
<1>2. PICK st : st = action'.status
  OBVIOUS
<1>3. case' = [status |-> st, plan |-> p, role |-> r, shown |-> h, claim |-> c]
  <2>1. case' = [case EXCEPT !.status = st]
    BY <1>2 DEF RequestAction
  <2> QED
    BY <1>1, <2>1
<1>4. p.amount \in Nat
  BY <1>1, PlanAmounts DEF RulesInv
<1>5. st \in {"approved", "pending_approval"} /\ action'.amount = p.amount
  BY <1>1, <1>2 DEF RequestAction, ResendAction, RefundAction
<1>6. action'.kind = "refund" /\ action'.status = "approved" =>
        p.route = "refund" /\ Executable(p) /\ AutoApproved(p)
  BY <1>1 DEF RequestAction, ResendAction, RefundAction
<1>7. IsCase'
  BY <1>3 DEF IsCase
<1>8. CaseShape(case)'
  BY <1>1, <1>3, <1>5 DEF RulesInv, CaseShape, CaseStatus, Decided
<1>9. ActionIsPlanned'
  BY <1>3, <1>4, <1>5, <1>6 DEF ActionIsPlanned
<1> QED
  BY <1>7, <1>8, <1>9 DEF RulesInv

LEMMA RulesNextInv == RulesInv /\ [RulesNext]_rulesVars => RulesInv'
<1> SUFFICES ASSUME RulesInv, [RulesNext]_rulesVars PROVE RulesInv'
  OBVIOUS
<1>1. ASSUME NEW role \in {"user", "admin"}, NEW s \in Supplied, SupplementField(role, s[1], s[2])
      PROVE  RulesInv'
  <2>1. PICK claim : claim = [case.claim EXCEPT ![s[1]] = s[2]]
    OBVIOUS
  <2>2. case.claim \in Claims
    BY DEF RulesInv, CaseShape
  <2>3. claim \in Claims
    BY <2>1, <2>2 DEF Supplied, Claims
  <2> QED
    BY <1>1, <2>1, <2>3, SupplementInv DEF SupplementField
<1>2. ASSUME NEW role \in {"user", "admin"}, NEW b \in BOOLEAN, SupplementPicture(role, b)
      PROVE  RulesInv'
  <2>1. PICK claim : claim = [case.claim EXCEPT !.confirmed = b]
    OBVIOUS
  <2>2. claim \in Claims
    BY <2>1 DEF RulesInv, CaseShape, Claims
  <2> QED
    BY <1>2, <2>1, <2>2, SupplementInv DEF SupplementPicture
<1>3. CASE UNCHANGED rulesVars
  BY <1>3 DEF rulesVars, RulesInv, IsCase, CaseShape, Decided, ActionIsPlanned
<1> QED
  BY <1>1, <1>2, <1>3, IntakeInv, CreateInv, RequestInv DEF RulesNext

\* Intakes, supplements and requests for actions keep the invariant of the rules.
THEOREM RulesInvariant == RulesSpec => []RulesInv
  BY RulesInitInv, RulesNextInv, PTL DEF RulesSpec

\* DecisionSound holds of every case, for every order on file, every threshold and
\* limit, after any supplements by any operators: a refund that decide_resolution
\* lets through without a signature is within the operator's limit, the review
\* line, the balance and the risk rules; one more risk signal never lightens the
\* scorecard's tier; decide_reverse takes the cheaper of having the goods back or
\* not; and the disposition graph settles every return where its grade says.
THEOREM DecisionsAreSound == RulesSpec => []DecisionSound
  BY RulesInvariant, RulesInvSound, PTL

-----------------------------------------------------------------------------
(* The receipts of the ledger *)

\* What a set of receipts adds up to.
SumOf(S) == SumBy([t \in Receipts |-> t.amount], S)

\* What the captured refunds of an order add up to, and that there are finitely many.
SumsUp == \A o \in Orders : captured[o] = SumOf({t \in transactions : t.order = o})
ReceiptInv == LedgerInv /\ IsFiniteSet(transactions) /\ SumsUp

\* A ledger starts without receipts and captures.
LEMMA ReceiptInitInv == LedgerInit => ReceiptInv
<1> SUFFICES ASSUME LedgerInit PROVE ReceiptInv
  OBVIOUS
<1>1. LedgerInv
  BY LedgerInitInv
<1>2. IsFiniteSet(transactions)
  BY FS_EmptySet DEF LedgerInit
<1>3. SumOf({}) = 0
  BY SumRecursion, FS_EmptySet DEF SumOf, Weighed
<1>4. \A o \in Orders : captured[o] = SumOf({t \in transactions : t.order = o})
  <2>1. \A o \in Orders : captured[o] = 0 /\ {t \in transactions : t.order = o} = {}
    BY DEF LedgerInit
  <2> QED
    BY <1>3, <2>1
<1> QED
  BY <1>1, <1>2, <1>4, Zenon DEF ReceiptInv, SumsUp

\* refund() on a new key adds one receipt and its amount.
LEMMA ReceiptCapture ==
    ASSUME ReceiptInv, NEW o \in Orders, NEW n \in Amounts, NEW k \in Keys, Capture(o, n, k)
    PROVE  IsFiniteSet(transactions)' /\ SumsUp'
<1> DEFINE Of(p) == {t \in transactions : t.order = p}
           OfNext(p) == {t \in transactions' : t.order = p}
<1>0. LedgerTypeOK /\ IsFiniteSet(transactions)
  BY DEF ReceiptInv, LedgerInv
<1>1. PICK r : r = [key |-> k, order |-> o, amount |-> n]
  OBVIOUS
<1>2. /\ transactions' = transactions \cup {r} /\ r \notin transactions
      /\ captured' = [captured EXCEPT ![o] = @ + n]
  BY <1>1 DEF Capture, Paid
<1>3. r.order = o /\ r.amount = n /\ n \in Nat
  BY <1>1, LedgerAssumption
<1>4. \A p \in Orders : captured[p] = SumOf(Of(p))
  BY DEF ReceiptInv, SumsUp
<1>5. \A t \in Receipts : t.amount \in Nat
  BY LedgerAssumption DEF Receipts
<1>6. ASSUME NEW p \in Orders
      PROVE  captured'[p] = SumOf(OfNext(p))
  <2>1. CASE p = o
    <3>1. PICK T : T = Of(o)
      OBVIOUS
    <3>2. OfNext(o) = T \cup {r} /\ r \notin T
      BY <1>2, <1>3, <3>1
    <3>3. PICK w : w = [t \in Receipts |-> t.amount]
      OBVIOUS
    <3>4. SumOf(T \cup {r}) = n + SumOf(T)
      <4>1. IsFiniteSet(T) /\ T \subseteq Receipts
        BY <1>0, <3>1, FS_Subset DEF LedgerTypeOK
      <4>2. r \in Receipts /\ w[r] = n
        BY <1>1, <3>3 DEF Receipts
      <4>3. Weighed(w, T)
        BY <1>5, <3>3, <4>1 DEF Weighed
      <4>4. SumBy(w, T \cup {r}) = w[r] + SumBy(w, T)
        BY <1>3, <3>2, <4>2, <4>3, SumAdds
      <4> QED
        BY <3>3, <4>2, <4>4 DEF SumOf
    <3>5. captured'[o] = captured[o] + n /\ captured[o] \in Nat
      BY <1>0, <1>2 DEF LedgerTypeOK
    <3>6. captured[o] = SumOf(T)
      BY <1>4, <3>1
    <3> HIDE DEF Of, OfNext
    <3> QED
      BY <1>3, <2>1, <3>2, <3>4, <3>5, <3>6
  <2>2. CASE p # o
    <3>1. OfNext(p) = Of(p)
      BY <1>2, <1>3, <2>2
    <3>2. captured'[p] = captured[p]
      BY <1>0, <1>2, <2>2 DEF LedgerTypeOK
    <3> HIDE DEF Of, OfNext
    <3> QED
      BY <1>4, <3>1, <3>2
  <2> QED
    BY <2>1, <2>2
<1>7. IsFiniteSet(transactions')
  BY <1>0, <1>2, FS_AddElement
<1> QED
  BY <1>6, <1>7, Zenon DEF SumsUp

\* No other call touches the receipts.
LEMMA ReceiptStepInv == ReceiptInv /\ [LedgerNext]_ledgerVars => ReceiptInv'
<1> SUFFICES ASSUME ReceiptInv, [LedgerNext]_ledgerVars PROVE ReceiptInv'
  OBVIOUS
<1>1. LedgerInv'
  BY LedgerStepInv DEF ReceiptInv
<1>2. CASE transactions' = transactions /\ captured' = captured
  BY <1>1, <1>2 DEF ReceiptInv, SumsUp
<1>3. CASE \E o \in Orders, n \in Amounts, k \in Keys : Capture(o, n, k)
  BY <1>1, <1>3, ReceiptCapture DEF ReceiptInv
<1> QED
  BY <1>2, <1>3 DEF LedgerNext, ledgerVars, Reserve, Release, Replay, Settle

\* What refund() captured on every order is the sum of the receipts it issued for it:
\* no replay of a key, no release or fresh reservation between two calls moves money
\* that no receipt shows.
THEOREM LedgerReceipts == LedgerSpec => []CapturedIsReceipted
<1>1. ReceiptInv => CapturedIsReceipted
  BY Zenon DEF ReceiptInv, SumsUp, CapturedIsReceipted, SumOf
<1> QED BY ReceiptInitInv, ReceiptStepInv, <1>1, PTL DEF LedgerSpec

(***************************************************************************)
(* MCStores.  A behaviour of the stores is, for each component, a          *)
(* behaviour of its own specification: a step of another component leaves  *)
(* it alone, and the instances in focus only take steps away.  What was    *)
(* proved of a component therefore holds of the stores together.           *)
(***************************************************************************)

\* A step of the stores, as every component of the data sees it.
LEMMA DataSteps ==
  ASSUME [StoresNext]_storesVars
  PROVE  /\ [LedgerNext]_ledgerVars /\ [McpNext]_mcpVars /\ [FileNext]_fileVars
         /\ [FactsNext]_factVars /\ [AioNext]_aioVars /\ [RulesNext]_rulesVars
         /\ [BootNext]_bootVars
         /\ focus' = focus
         /\ focus # "facts" => UNCHANGED factVars
  BY DEF StoresNext, storesVars, dataVars, Sandboxes

\* And as every component of the agent's loop sees it.
LEMMA AgentSteps ==
  ASSUME [StoresNext]_storesVars
  PROVE  /\ [GateNext]_gateVars /\ [ProgressNext]_progressVars /\ [TurnsNext]_turnVars
         /\ [E2bNext]_e2bVars
  BY DEF StoresNext, AgentsNext, Turns, Machines, storesVars, agentVars

\* The run over the stores checks the components themselves: each of its behaviours is
\* one of every component's specification, the memory's when it is in focus.
THEOREM StoresImplement ==
  StoresSpec =>
    /\ LedgerSpec /\ McpInit /\ [][McpNext]_mcpVars /\ FileSpec /\ AioSpec /\ RulesSpec
    /\ BootSpec /\ GateSpec /\ ProgressSpec /\ TurnsSpec /\ E2bSpec
    /\ focus = "facts" => FactsSpec
<1>1. StoresInit => /\ LedgerInit /\ McpInit /\ FileInit /\ AioInit /\ RulesInit
                    /\ BootInit /\ GateInit /\ ProgressInit /\ TurnsInit /\ E2bInit
                    /\ focus = "facts" => FactsInit
  BY DEF StoresInit
<1>2. [StoresNext]_storesVars =>
         /\ [LedgerNext]_ledgerVars /\ [McpNext]_mcpVars /\ [FileNext]_fileVars
         /\ [FactsNext]_factVars /\ [AioNext]_aioVars /\ [RulesNext]_rulesVars
         /\ [BootNext]_bootVars
  BY DataSteps
<1>3. [StoresNext]_storesVars =>
         /\ [GateNext]_gateVars /\ [ProgressNext]_progressVars /\ [TurnsNext]_turnVars
         /\ [E2bNext]_e2bVars
  BY AgentSteps
<1> QED
  BY <1>1, <1>2, <1>3, PTL
     DEF StoresSpec, LedgerSpec, FileSpec, AioSpec, RulesSpec, BootSpec, GateSpec,
         ProgressSpec, TurnsSpec, E2bSpec, FactsSpec

\* What the stores keep together, each component its own.
StoresInv ==
    /\ focus \in {"ledger", "sessions", "file", "facts", "contention", "eviction",
                  "rules", "schema", "gate", "progress", "turns", "compaction",
                  "machines", "outages"}
    /\ ReceiptInv /\ McpInv /\ FileInv /\ AioInv /\ RulesInv /\ BootTypeInv
    /\ GateInv /\ ProgressInv /\ TurnsInv /\ E2bInv
    /\ focus = "facts" => FactsInv

\* They have it at the start.
LEMMA StoresInitInv == StoresInit => StoresInv
  BY ReceiptInitInv, McpInitInv, FileInitInv, AioInitInv, RulesInitInv, BootTypeInit,
     GateInitInv, ProgressInitInv, TurnsInitInv, E2bInitInv, FactsInitInv
     DEF StoresInit, StoresInv

\* And every step keeps it.
LEMMA StoresNextInv == StoresInv /\ [StoresNext]_storesVars => StoresInv'
<1> SUFFICES ASSUME StoresInv, [StoresNext]_storesVars PROVE StoresInv'
  OBVIOUS
<1>1. ReceiptInv' /\ McpInv' /\ FileInv' /\ AioInv' /\ RulesInv' /\ BootTypeInv'
  BY DataSteps, ReceiptStepInv, McpNextInv, FileNextInv, AioNextInv, RulesNextInv, BootTypeStep
     DEF StoresInv
<1>2. GateInv' /\ ProgressInv' /\ TurnsInv' /\ E2bInv'
  BY AgentSteps, GateNextInv, ProgressStep, TurnsStep, E2bNextInv DEF StoresInv
<1>3. focus' = focus
  BY DataSteps
<1>4. focus' = "facts" => FactsInv'
  BY <1>3, DataSteps, FactsStepInv DEF StoresInv
<1> QED
  BY <1>1, <1>2, <1>3, <1>4 DEF StoresInv

\* What the invariants of the components say of the data in focus.
LEMMA DataSound ==
  ASSUME StoresInv
  PROVE  /\ LedgerTypeOK /\ OneReceiptPerKey /\ CapturedIsReceipted
         /\ McpTypeOK /\ EntryIsLive /\ FileTypeOK /\ CacheWasOnDisk
         /\ AioTypeOK /\ RulesTypeOK /\ BootTypeOK
         /\ focus = "facts" => FactsTypeOK
<1>1. LedgerTypeOK /\ OneReceiptPerKey
  BY DEF StoresInv, ReceiptInv, LedgerInv
<1>2. CapturedIsReceipted
  <2>1. SumsUp
    BY DEF StoresInv, ReceiptInv
  <2> QED
    BY <2>1, Zenon DEF SumsUp, CapturedIsReceipted, SumOf
<1>3. /\ McpTypeOK /\ EntryIsLive /\ FileTypeOK /\ CacheWasOnDisk
      /\ AioTypeOK /\ RulesTypeOK /\ BootTypeOK
  BY RulesInvTypes DEF StoresInv, McpInv, FileInv, AioInv, BootTypeInv
<1>4. focus = "facts" => FactsTypeOK
  BY DEF StoresInv, FactsInv, FactsTypeOK
<1> QED
  BY <1>1, <1>2, <1>3, <1>4

\* And of the agent's loop.
LEMMA AgentsSound ==
  ASSUME StoresInv
  PROVE  /\ GateTypeOK /\ ReplacesWhatItRead /\ MarkIsShown
         /\ ProgressTypeOK /\ BlockIsFinal /\ BlockHasCause /\ NoPhantomHints
         /\ TurnsTypeOK /\ CutOffNeverRuns /\ BudgetHolds
         /\ E2bTypeOK /\ OwnVmOnly /\ OneVmPerThread
<1>1. GateTypeOK /\ ReplacesWhatItRead /\ MarkIsShown
  BY DEF StoresInv, GateInv, ReplacesWhatItRead, MarkIsShown
<1>2. ProgressTypeOK /\ BlockIsFinal /\ BlockHasCause /\ NoPhantomHints
  BY ProgressInvSound DEF StoresInv, ProgressInv
<1>3. TurnsTypeOK /\ CutOffNeverRuns /\ BudgetHolds
  BY TurnsInvSound DEF StoresInv, TurnsInv
<1>4. E2bTypeOK /\ OwnVmOnly /\ OneVmPerThread
  BY E2bInvOwn, E2bInvSingle DEF StoresInv, E2bInv
<1> QED
  BY <1>1, <1>2, <1>3, <1>4

\* Whichever component is in focus keeps what StoresInvariant asks of it: the ledger one
\* receipt per key and captures that are the sum of the receipts, the pool live sessions,
\* the gate marks of what was shown, the guard final blocks with a cause, the loop its
\* budget and cut-off calls that never run, the provider one machine per thread, the
\* memory cache what was on disk - and every one of them its type.
THEOREM StoresAreSafe == StoresSpec => []StoresInvariant
<1>1. StoresInv => StoresInvariant
  <2> SUFFICES ASSUME StoresInv PROVE StoresInvariant
    OBVIOUS
  <2>1. focus \in {"ledger", "sessions", "file", "facts", "contention", "eviction",
                   "rules", "schema", "gate", "progress", "turns", "compaction",
                   "machines", "outages"}
    BY DEF StoresInv
  <2>2. CASE focus = "ledger"
    BY <2>2, DataSound DEF StoresInvariant
  <2>3. CASE focus = "sessions"
    BY <2>3, DataSound DEF StoresInvariant
  <2>4. CASE focus = "file"
    BY <2>4, DataSound DEF StoresInvariant
  <2>5. CASE focus = "facts"
    BY <2>5, DataSound DEF StoresInvariant
  <2>6. CASE focus = "contention"
    BY <2>6, DataSound DEF StoresInvariant
  <2>7. CASE focus = "eviction"
    BY <2>7, DataSound DEF StoresInvariant
  <2>8. CASE focus = "rules"
    BY <2>8, DataSound DEF StoresInvariant
  <2>9. CASE focus = "schema"
    BY <2>9, DataSound DEF StoresInvariant
  <2>10. CASE focus = "gate"
    BY <2>10, AgentsSound DEF StoresInvariant
  <2>11. CASE focus = "progress"
    BY <2>11, AgentsSound DEF StoresInvariant
  <2>12. CASE focus = "turns"
    BY <2>12, AgentsSound DEF StoresInvariant
  <2>13. CASE focus = "compaction"
    BY <2>13, AgentsSound DEF StoresInvariant
  <2>14. CASE focus = "machines"
    BY <2>14, AgentsSound DEF StoresInvariant
  <2>15. CASE focus = "outages"
    BY <2>15, AgentsSound DEF StoresInvariant
  <2> QED
    BY <2>1, <2>2, <2>3, <2>4, <2>5, <2>6, <2>7, <2>8, <2>9, <2>10, <2>11, <2>12, <2>13, <2>14, <2>15
<1> QED
  BY StoresInitInv, StoresNextInv, <1>1, PTL DEF StoresSpec

\* Everything else the run over the stores asks for, of its own specification: the
\* money of an order is conserved, no write loses what its author has not read, every
\* request is well formed, no owner task and no container leaks, a hit of the memory
\* cache is fresh, decisions follow from their claims, a process that is up is up on the
\* head of the schema, and no update of the memory and no stale probe takes away what it
\* must not.
THEOREM StoresKeepTheirPromises ==
  StoresSpec =>
    /\ [](Conservation /\ OverwritesWhatWasRead /\ RequestAccepted /\ NoLostOwner)
    /\ [](HitIsFresh /\ NothingLeaks /\ DecisionSound /\ BootsToHead)
    /\ UpdateSound /\ StaleProbeSpares
<1>1. McpInit /\ [][McpNext]_mcpVars => []NoLostOwner
  BY McpInitInv, McpNextInv, PTL DEF McpInv
<1>2. ~(focus = "facts") /\ [StoresNext]_storesVars => ~(focus = "facts")' /\ UNCHANGED factVars
  BY DataSteps
<1>3. StoresSpec /\ ~(focus = "facts") => UpdateSound
  BY <1>2, PTL DEF StoresSpec, UpdateSound, NothingSilentlyLost, LimitsHold
<1>4. StoresSpec /\ focus = "facts" => UpdateSound
  BY StoresImplement, FactsUpdateSound, PTL
<1> QED
  BY <1>1, <1>3, <1>4, StoresImplement, LedgerConserves, GatedWritesSeeDisk,
     RequestsAreAccepted, HitsAreFresh, NoContainerLeaks, DecisionsAreSound,
     BootReachesHead, StaleProbesSpare, PTL

=============================================================================
