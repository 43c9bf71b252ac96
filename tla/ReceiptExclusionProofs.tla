----------------------- MODULE ReceiptExclusionProofs -----------------------
(***************************************************************************)
(* Proofs about module ReceiptExclusion, for any rows, batches and users.  *)
(*                                                                         *)
(* Neither OneActiveRulePerReceipt nor FrozenMonthKept is inductive: the   *)
(* first speaks of rules that are active already, the second of rows that  *)
(* are written already, while the checks that protect them were made by    *)
(* the preflight, before.  IInv carries what the preflight has established *)
(* along with the call, which nobody can outdate while it has the lease.   *)
(***************************************************************************)
EXTENDS ReceiptExclusion, TLAPS

\* The rules a confirmation is about to activate fit the active ones.
PickedFits ==
    call # None /\ call.step = "activate" =>
        \A x, y \in Active \union call.picked : ReceiptOf[x] = ReceiptOf[y] => x = y

\* The preflight's verdict on the prepared rows still holds.
PreparedFits == call # None => ~Drifts(Upserted(rows, call.prepared))

\* ... and it has none of the rows whose rules are active, or will be with it.
PreparedFree == call # None => call.prepared \intersect (Active \union call.picked) = {}

IInv ==
    /\ TypeOK
    /\ OneActiveRulePerReceipt
    /\ FrozenMonthKept
    /\ ActivatesOnlyNewRules
    /\ PickedFits
    /\ PreparedFits
    /\ PreparedFree

-----------------------------------------------------------------------------

\* What the database becomes by a commit is a set of rows.
LEMMA UpsertedType ==
    ASSUME NEW t \in SUBSET Rows, NEW b \in SUBSET Rows
    PROVE  Upserted(t, b) \in SUBSET Rows
BY DEF Upserted, Written

\* A proposal offers rows of the batch without an active rule, and the batch
\* collides with no active rule (run_upload_preflight returns before).
LEMMA ProposalFacts ==
    ASSUME TypeOK, NEW b \in Batches, ProposalFor(b) # None
    PROVE  /\ ~Collides(b, Active, {})
           /\ ProposalFor(b).candidates \subseteq b \ Active
           /\ ProposalFor(b) \in Proposal
<1>1. /\ ~Collides(b, Active, {})
      /\ ProposalFor(b) =
            [batch |-> b, candidates |-> Candidates(rows, b \ Active), revision |-> Active,
             total |-> Revenue(Upserted(rows, b \ Active))]
  BY DEF ProposalFor
<1>2. Candidates(rows, b \ Active) \subseteq b \ Active
  BY DEF Candidates
<1>3. /\ rows \in SUBSET Rows /\ b \in SUBSET Rows
      /\ Active \in SUBSET Rows /\ b \ Active \in SUBSET Rows
  BY RowsAssumption DEF Active, TypeOK
<1>4. Revenue(Upserted(rows, b \ Active)) \in Revenues
  BY <1>3, UpsertedType DEF Revenues
<1> QED
  BY <1>1, <1>2, <1>3, <1>4 DEF Proposal

\* match_receipt_exclusions on a batch that holds a picked row: the picked
\* row is the only rule of its receipt, active or overlaid.
LEMMA NoCollisionNoSharing ==
    ASSUME NEW b \in Batches, NEW picked \in SUBSET b,
           ~Collides(b, Active, {}), ~Collides(b, Active, picked),
           NEW x \in picked, NEW y \in Active \union picked,
           ReceiptOf[x] = ReceiptOf[y]
    PROVE  x = y
<1>1. RulesFor(x, Active, {}) \in {{}, {x}} /\ RulesFor(x, Active, picked) \in {{}, {x}}
  BY DEF Collides
<1>2. CASE y \in picked
  <2>1. y \in RulesFor(x, Active, picked)
    BY <1>2 DEF RulesFor
  <2> QED
    BY <1>1, <2>1
<1>3. CASE y \in Active
  <2>1. y \in RulesFor(x, Active, {})
    BY <1>3 DEF RulesFor
  <2> QED
    BY <1>1, <2>1
<1> QED
  BY <1>2, <1>3

LEMMA StaleType == ASSUME TypeOK PROVE Stale \in [Sessions -> Preview \union {None}]
BY DEF TypeOK, Stale, Preview

LEMMA InitIInv == Init => IInv
<1> SUFFICES ASSUME Init PROVE IInv
  OBVIOUS
<1> USE RowsAssumption
<1>1. TypeOK
  BY DEF Init, TypeOK, RuleStatus
<1>2. Active = {}
  BY DEF Init, Active
<1>3. FrozenMonthKept
  BY FrozenAssumption DEF Init, FrozenMonthKept, Drifts, Revenue, Sum, Counted, Orders
<1> QED
  BY <1>1, <1>2, <1>3
     DEF Init, IInv, OneActiveRulePerReceipt, ActivatesOnlyNewRules, PickedFits, PreparedFits,
         PreparedFree

-----------------------------------------------------------------------------
(* The inductive step: one lemma for each action that disturbs a conjunct *)

LEMMA UploadMatchedStep ==
    ASSUME IInv, NEW s \in Sessions, NEW b \in Batches, UploadMatched(s, b)
    PROVE  IInv'
<1> USE DEF UploadMatched
<1>1. Active' = Active
  BY DEF Active
<1>2. b \ Active \in SUBSET Rows
  BY RowsAssumption
<1>3. TypeOK'
  BY <1>2 DEF IInv, TypeOK, Call
<1>4. call' # None =>
         call'.step = "commit" /\ call'.prepared = b \ Active /\ call'.picked = {}
  OBVIOUS
<1>5. PreparedFits'
  BY <1>4 DEF PreparedFits, Drifts, Counted, Orders, Upserted, Written
<1> QED
  BY <1>1, <1>3, <1>4, <1>5
     DEF IInv, OneActiveRulePerReceipt, FrozenMonthKept, ActivatesOnlyNewRules, PickedFits,
         PreparedFree, Drifts, Counted

LEMMA UploadConfirmedStep ==
    ASSUME IInv, NEW s \in Sessions, NEW b \in Batches, NEW picked \in SUBSET b,
           UploadConfirmed(s, b, picked)
    PROVE  IInv'
<1> USE DEF UploadConfirmed
<1>1. Active' = Active
  BY DEF Active
<1>2. /\ ~Collides(b, Active, {})
      /\ picked \subseteq b \ Active
  BY ProposalFacts DEF IInv
<1>3. picked \in SUBSET Rows /\ b \ (Active \union picked) \in SUBSET Rows
  BY RowsAssumption
<1>4. TypeOK'
  BY <1>3 DEF IInv, TypeOK, Call
<1>5. call'.picked = picked /\ call'.prepared = b \ (Active \union picked)
  OBVIOUS
<1>6. PreparedFits'
  BY <1>5 DEF PreparedFits, Drifts, Counted, Orders, Upserted, Written
<1>7. PickedFits'
  <2> SUFFICES ASSUME NEW x \in Active \union picked, NEW y \in Active \union picked,
                      ReceiptOf[x] = ReceiptOf[y]
               PROVE  x = y
    BY <1>1, <1>5 DEF PickedFits
  <2>1. CASE x \in Active /\ y \in Active
    BY <2>1 DEF IInv, OneActiveRulePerReceipt
  <2>2. CASE x \in picked
    BY <1>2, <2>2, NoCollisionNoSharing
  <2>3. CASE y \in picked
    BY <1>2, <2>3, NoCollisionNoSharing
  <2> QED
    BY <2>1, <2>2, <2>3
<1> QED
  BY <1>1, <1>2, <1>4, <1>5, <1>6, <1>7
     DEF IInv, OneActiveRulePerReceipt, FrozenMonthKept, ActivatesOnlyNewRules,
         PreparedFree, Drifts, Counted

LEMMA ActivateStep ==
    ASSUME IInv, Activate
    PROVE  IInv'
<1> USE DEF Activate
<1>1. call \in Call /\ call.picked \in SUBSET Rows
  BY DEF IInv, TypeOK, Call
<1>2. Active' = Active \union call.picked
  BY <1>1 DEF IInv, TypeOK, Active
<1>3. call' \in Call /\ call'.step = "commit" /\ call'.prepared = call.prepared
      /\ call'.picked = call.picked
  BY <1>1 DEF Call
<1>4. TypeOK'
  <2>1. registry' \in [Rows -> RuleStatus]
    BY DEF IInv, TypeOK, RuleStatus
  <2>2. preview' \in [Sessions -> Preview \union {None}]
    BY StaleType DEF IInv
  <2> QED
    BY <1>3, <2>1, <2>2 DEF IInv, TypeOK
<1>5. OneActiveRulePerReceipt'
  BY <1>2 DEF IInv, PickedFits, OneActiveRulePerReceipt
<1>6. PreparedFits' /\ FrozenMonthKept'
  BY <1>3 DEF IInv, PreparedFits, FrozenMonthKept, Drifts, Counted, Orders, Upserted, Written
<1>7. PreparedFree'
  BY <1>2, <1>3 DEF IInv, PreparedFree
<1> QED
  BY <1>3, <1>4, <1>5, <1>6, <1>7 DEF IInv, ActivatesOnlyNewRules, PickedFits

LEMMA CommitStep ==
    ASSUME IInv, Commit
    PROVE  IInv'
<1> USE DEF Commit
<1>1. call \in Call
  BY DEF IInv, TypeOK
<1>2. rows' \in SUBSET Rows
  BY <1>1, UpsertedType DEF IInv, TypeOK, Call
<1>3. TypeOK'
  BY <1>2, StaleType DEF IInv, TypeOK
<1>4. FrozenMonthKept'
  BY DEF IInv, PreparedFits, FrozenMonthKept, Drifts, Counted
<1>5. OneActiveRulePerReceipt'
  BY DEF IInv, OneActiveRulePerReceipt, Active
<1> QED
  BY <1>3, <1>4, <1>5 DEF IInv, ActivatesOnlyNewRules, PickedFits, PreparedFits,
                              PreparedFree

LEMMA StopStep ==
    ASSUME IInv, Stop
    PROVE  IInv'
<1> USE DEF Stop
<1>1. TypeOK'
  BY StaleType DEF IInv, TypeOK
<1> QED
  BY <1>1 DEF IInv, OneActiveRulePerReceipt, Active, FrozenMonthKept, Drifts, Counted,
              ActivatesOnlyNewRules, PickedFits, PreparedFits, PreparedFree

\* Revocations run without a call in progress and only take rules away.
LEMMA RevokeStep ==
    ASSUME IInv, NEW s \in Sessions, Revoke(s)
    PROVE  IInv'
<1> USE DEF Revoke, LeaseFree
<1>1. preview[s] \in Preview /\ preview[s].rule \in Rows
  BY DEF IInv, TypeOK, Preview
<1>2. TypeOK'
  <2>1. registry' \in [Rows -> RuleStatus]
    BY <1>1 DEF IInv, TypeOK, RuleStatus
  <2>2. Stale[s] \in Preview
    BY <1>1 DEF Stale, Preview
  <2>3. preview' \in [Sessions -> Preview \union {None}]
    BY <2>2, StaleType DEF IInv, Preview
  <2> QED
    BY <2>1, <2>3 DEF IInv, TypeOK
<1>3. Active' \subseteq Active
  BY DEF IInv, TypeOK, Active
<1> QED
  BY <1>2, <1>3 DEF IInv, OneActiveRulePerReceipt, FrozenMonthKept, Drifts, Counted,
                    ActivatesOnlyNewRules, PickedFits, PreparedFits, PreparedFree

\* Steps that change only what the users are shown.
LEMMA ShownStep ==
    ASSUME IInv, TypeOK', UNCHANGED <<rows, registry, call>>
    PROVE  IInv'
BY DEF IInv, OneActiveRulePerReceipt, Active, FrozenMonthKept, Drifts, Counted,
       ActivatesOnlyNewRules, PickedFits, PreparedFits, PreparedFree, Orders, Upserted, Written

LEMMA UploadProposedStep ==
    ASSUME IInv, NEW s \in Sessions, NEW b \in Batches, UploadProposed(s, b)
    PROVE  IInv'
<1>1. ProposalFor(b) \in Proposal
  BY ProposalFacts DEF UploadProposed, IInv
<1>2. TypeOK'
  BY <1>1 DEF UploadProposed, IInv, TypeOK
<1> QED
  BY <1>2, ShownStep DEF UploadProposed

LEMMA PreviewStep ==
    ASSUME IInv, NEW s \in Sessions, NEW x \in Rows, PreviewRevocation(s, x)
    PROVE  IInv'
<1>1. TypeOK'
  BY DEF PreviewRevocation, IInv, TypeOK, Preview, Readmits, Drifts
<1> QED
  BY <1>1, ShownStep DEF PreviewRevocation

LEMMA RefusedStep ==
    ASSUME IInv, NEW s \in Sessions, ConfirmRefused(s)
    PROVE  IInv'
<1>1. preview[s] \in Preview
  BY DEF ConfirmRefused, IInv, TypeOK
<1>2. PICK answer \in {"stale", "not_active"} : preview' = [preview EXCEPT ![s].answer = answer]
  BY DEF ConfirmRefused
<1>3. TypeOK'
  BY <1>1, <1>2 DEF ConfirmRefused, IInv, TypeOK, Preview
<1> QED
  BY <1>3, ShownStep DEF ConfirmRefused

LEMMA NextIInv == IInv /\ [Next]_vars => IInv'
<1> SUFFICES ASSUME IInv, [Next]_vars PROVE IInv'
  OBVIOUS
<1>1. CASE \E s \in Sessions, b \in Batches : UploadMatched(s, b)
  BY <1>1, UploadMatchedStep
<1>2. CASE \E s \in Sessions, b \in Batches : UploadProposed(s, b)
  BY <1>2, UploadProposedStep
<1>3. CASE \E s \in Sessions, b \in Batches : \E picked \in SUBSET b : UploadConfirmed(s, b, picked)
  BY <1>3, UploadConfirmedStep
<1>4. CASE Activate
  BY <1>4, ActivateStep
<1>5. CASE Commit
  BY <1>5, CommitStep
<1>6. CASE Stop
  BY <1>6, StopStep
<1>7. CASE \E s \in Sessions : \E x \in Rows : PreviewRevocation(s, x)
  BY <1>7, PreviewStep
<1>8. CASE \E s \in Sessions : ConfirmRefused(s)
  BY <1>8, RefusedStep
<1>9. CASE \E s \in Sessions : Revoke(s)
  BY <1>9, RevokeStep
<1>10. CASE UNCHANGED vars
  <2>1. TypeOK'
    BY <1>10 DEF vars, IInv, TypeOK
  <2> QED
    BY <1>10, <2>1, ShownStep DEF vars
<1> QED
  BY <1>1, <1>2, <1>3, <1>4, <1>5, <1>6, <1>7, <1>8, <1>9, <1>10 DEF Next

THEOREM InductiveInvariant == Spec => []IInv
BY InitIInv, NextIInv, PTL DEF Spec

-----------------------------------------------------------------------------

\* Every reachable state of the registry, the call and what users were shown
\* is of its type.
THEOREM ReceiptTypeCorrect == Spec => []TypeOK
<1>1. IInv => TypeOK
  BY DEF IInv
<1> QED
  BY <1>1, InductiveInvariant, PTL

\* For any exports and any users, no receipt number ever has two active rules,
\* so the matcher's dictionary loses none.
THEOREM OneRulePerReceipt == Spec => []OneActiveRulePerReceipt
<1>1. IInv => OneActiveRulePerReceipt
  BY DEF IInv
<1> QED
  BY <1>1, InductiveInvariant, PTL

\* No sequence of uploads, confirmations and revocations moves the total of
\* the frozen month from its baseline by the tolerance or more.
THEOREM BaselineKept == Spec => []FrozenMonthKept
<1>1. IInv => FrozenMonthKept
  BY DEF IInv
<1> QED
  BY <1>1, InductiveInvariant, PTL

\* activate_receipt_exclusions never meets a rule that is active already.
THEOREM OnlyNewRules == Spec => []ActivatesOnlyNewRules
<1>1. IInv => ActivatesOnlyNewRules
  BY DEF IInv
<1> QED
  BY <1>1, InductiveInvariant, PTL

\* A rule is never reactivated once revoked, and never lost once active.
THEOREM RulesAdvance == Spec => RulesOnlyAdvance
<1> DEFINE Advance ==
      \A x \in Rows :
          /\ registry[x] = "active" => registry'[x] # "absent"
          /\ registry[x] = "revoked" => registry'[x] = "revoked"
<1>1. IInv /\ [Next]_vars => [Advance]_vars
  <2> SUFFICES ASSUME IInv, Next PROVE Advance
    BY DEF vars
  <2>1. CASE Activate
    BY <2>1 DEF Activate, IInv, TypeOK, Call
  <2>2. CASE \E s \in Sessions : Revoke(s)
    BY <2>2 DEF Revoke, IInv, TypeOK
  <2>3. CASE UNCHANGED registry
    BY <2>3
  <2> QED
    BY <2>1, <2>2, <2>3
       DEF Next, UploadMatched, UploadProposed, UploadConfirmed, Commit, Stop,
           PreviewRevocation, ConfirmRefused
<1> QED
  BY <1>1, InductiveInvariant, PTL DEF Spec, RulesOnlyAdvance

\* No accepted upload brings in a row whose rule is active by then: the rows
\* the commit writes were cleaned of them, and of those it activates itself,
\* by a preflight nobody has outdated since.
THEOREM NoneWritten == Spec => NoActiveRuleWritten
<1> DEFINE NoneNew == \A x \in rows' \ rows : registry'[x] # "active"
<1>1. IInv /\ [Next]_vars => [NoneNew]_vars
  <2> SUFFICES ASSUME IInv, Next PROVE NoneNew
    BY DEF vars
  <2>1. CASE Commit
    <3>1. call.prepared \in SUBSET Rows /\ call.prepared \intersect Active = {}
          /\ registry' = registry /\ rows' \ rows \subseteq call.prepared
      BY <2>1 DEF Commit, IInv, TypeOK, Call, PreparedFree, Upserted, Written
    <3> QED
      BY <3>1 DEF Active
  <2>2. CASE UNCHANGED rows
    BY <2>2
  <2> QED
    BY <2>1, <2>2
       DEF Next, UploadMatched, UploadProposed, UploadConfirmed, Activate, Stop,
           PreviewRevocation, ConfirmRefused, Revoke
<1> QED
  BY <1>1, InductiveInvariant, PTL DEF Spec, NoActiveRuleWritten
=============================================================================
