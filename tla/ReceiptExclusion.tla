-------------------------- MODULE ReceiptExclusion --------------------------
(***************************************************************************)
(* Permanent exclusion of receipts: the registry of rules in the live      *)
(* database, the proposal an upload offers when excluded receipts make a   *)
(* frozen month drift, its confirmation by a second upload, and the        *)
(* revocation of a rule in two steps.                                      *)
(* backend/services/receipt_exclusion_*.py, the confirmation part of       *)
(* execute_upload_operation, and the two callers of the revocation.        *)
(*                                                                         *)
(* Every writer here holds the upload lease, so one upload is in progress  *)
(* at a time and a revocation meets none.  A user's confirmation comes in  *)
(* a later call than the proposal, and other users' calls come between.    *)
(*                                                                         *)
(* A row is a line of the main export; its receipt, order and kind are its *)
(* identity.  One row of an excluded kind takes its whole order out of the *)
(* revenue.  Frozen is the month whose total the gate compares with the    *)
(* baseline, up to a tolerance (HKD 1.0).                                  *)
(***************************************************************************)
EXTENDS Integers, FiniteSetsExt

CONSTANTS Rows,            \* lines of the exports
          ReceiptOf,       \* the receipt number of a row
          OrderOf,         \* the order the row belongs to
          Excluded,        \* rows of an excluded kind
          Frozen,          \* rows of the frozen month
          Amount,          \* the amount of a row
          Baseline,        \* expectedTotal of the frozen month
          Tolerance,       \* the least difference that is a drift
          InitialRows,     \* the database at the start
          Batches,         \* the main exports users upload
          Sessions,        \* users: browser sessions, API clients
          SharedOperation, \* does a confirmation carry its preview's operation id
          None             \* no call, no proposal, no preview

ASSUME RowsAssumption ==
    /\ Excluded \subseteq Rows /\ Frozen \subseteq Rows
    /\ InitialRows \subseteq Rows
    /\ Batches \subseteq SUBSET Rows
    /\ SharedOperation \in BOOLEAN
    /\ Amount \in [Rows -> Int] /\ Baseline \in Int /\ Tolerance \in Nat \ {0}

-----------------------------------------------------------------------------
(* The gate *)

Orders(t) == {OrderOf[r] : r \in t}

\* build_revenue_scope_frames: orders with an excluded row count for nothing.
Counted(t) ==
    LET out == Orders(t \intersect Excluded)
    IN  {r \in t : OrderOf[r] \notin out}

Sum(t) == MapThenSumSet(LAMBDA r : Amount[r], t)

\* The total of the frozen month.
Revenue(t) == Sum(Counted(t) \intersect Frozen)

Apart(a, b) == a - b >= Tolerance \/ b - a >= Tolerance

Drifts(t) == Apart(Revenue(t), Baseline)

\* The month was frozen with the total it has at the start.
ASSUME FrozenAssumption == ~Drifts(InitialRows)

-----------------------------------------------------------------------------
VARIABLES rows,       \* the live revenue tables
          registry,   \* the status of the rule of each row's identity
          call,       \* the upload holding the lease
          shown,      \* the last proposal each session was offered
          preview     \* the last revocation preview each session was shown

vars == <<rows, registry, call, shown, preview>>

RuleStatus == {"absent", "active", "revoked"}

Active == {x \in Rows : registry[x] = "active"}

\* prepared: the rows the preflight has cleaned, and the commit writes.
Call == [session : Sessions, step : {"activate", "commit"},
         picked : SUBSET Rows, prepared : SUBSET Rows]

Revenues == {Revenue(t) : t \in SUBSET Rows}

\* What proposalFingerprint hashes: the batch, the candidates, the registry
\* revision and the total of the diagnosis.
Proposal == [batch : SUBSET Rows, candidates : SUBSET Rows,
             revision : SUBSET Rows, total : Revenues]

\* unchanged: the live database still has the size and time of the preview,
\* and so the registry revision and the gate it was computed from.
Preview == [rule : Rows, ready : BOOLEAN, unchanged : BOOLEAN,
            answer : {"none", "revoked", "stale", "not_active"}]

TypeOK ==
    /\ rows \in SUBSET Rows
    /\ registry \in [Rows -> RuleStatus]
    /\ call \in Call \union {None}
    /\ shown \in [Sessions -> Proposal \union {None}]
    /\ preview \in [Sessions -> Preview \union {None}]

Init ==
    /\ rows = InitialRows
    /\ registry = [x \in Rows |-> "absent"]
    /\ call = None
    /\ shown = [s \in Sessions |-> None]
    /\ preview = [s \in Sessions |-> None]

-----------------------------------------------------------------------------
(* The upsert *)

\* upsert_to_db writes no excluded row, unless its receipt is already there;
\* the orders it writes are replaced.
Written(t, b) ==
    {r \in b : r \in Excluded => \E q \in t : ReceiptOf[q] = ReceiptOf[r]}

Upserted(t, b) ==
    LET new == Written(t, b)
        replaced == Orders(new)
    IN  {r \in t : OrderOf[r] \notin replaced} \union new

-----------------------------------------------------------------------------
(* The matcher and the proposal *)

\* match_receipt_exclusions looks a rule up by its receipt number alone; a
\* rule overlaid for a confirmation hides an active one.
RulesFor(r, active, overlay) ==
    LET same(rules) == {x \in rules : ReceiptOf[x] = ReceiptOf[r]}
    IN  IF same(overlay) # {} THEN same(overlay) ELSE same(active)

\* A row whose receipt has a rule of another identity stops the upload.
Collides_OverlayUnchecked(b, active, overlay) ==
    \E r \in b : RulesFor(r, active, {}) \notin {{}, {r}}
Collides(b, active, overlay) ==
    \E r \in b : RulesFor(r, active, overlay) \notin {{}, {r}}

\* build_upload_drift_diagnosis: orders whose share of the frozen month differs
\* between the databases t and t2 by the tolerance, or whose exclusion does.
Touched(t, t2) ==
    LET share(s, o) == Sum({r \in Counted(s) \intersect Frozen : OrderOf[r] = o})
        frozen == Orders((t \union t2) \intersect Frozen)
    IN  {o \in frozen :
            \/ Apart(share(t, o), share(t2, o))
            \/ ~(o \in Orders(t \intersect Excluded) <=> o \in Orders(t2 \intersect Excluded))}

\* _resolve_candidate_evidence: all excluded rows of the batch in an order
\* whose exclusion drives the drift.
Candidates(t, b) ==
    LET t2 == Upserted(t, b)
        drivers == Touched(t, t2) \intersect Orders(t2 \intersect Excluded)
    IN  {x \in b \intersect Excluded : OrderOf[x] \in drivers}

\* What run_upload_preflight says of a batch: the proposal, or None.
ProposalFor(b) ==
    LET prepared == b \ Active
    IN  IF \/ Collides(b, Active, {})
           \/ ~Drifts(Upserted(rows, prepared))
           \/ Candidates(rows, prepared) = {}
        THEN None
        ELSE [batch |-> b, candidates |-> Candidates(rows, prepared), revision |-> Active,
              total |-> Revenue(Upserted(rows, prepared))]

-----------------------------------------------------------------------------
(* Uploads *)

LeaseFree == call = None

\* A write to the live database changes the file the previews were made of.
Stale == [s \in Sessions |->
            IF preview[s] = None THEN None ELSE [preview[s] EXCEPT !.unchanged = FALSE]]

\* An upload without confirmation whose preflight passes.
UploadMatched(s, b) ==
    /\ LeaseFree
    /\ ~Collides(b, Active, {})
    /\ ~Drifts(Upserted(rows, b \ Active))
    /\ call' = [session |-> s, step |-> "commit", picked |-> {}, prepared |-> b \ Active]
    /\ UNCHANGED <<rows, registry, shown, preview>>

\* One that is blocked and offers a proposal.
UploadProposed(s, b) ==
    /\ LeaseFree
    /\ ProposalFor(b) # None
    /\ shown' = [shown EXCEPT ![s] = ProposalFor(b)]
    /\ UNCHANGED <<rows, registry, call, preview>>

\* An upload that confirms the proposal the session was shown: the preflight
\* must compute the same proposal again, and pass with the picked rules laid
\* over the active ones.  Otherwise it is blocked and changes nothing.
UploadConfirmed_TrustsSubmitted(s, b, picked) ==
    LET prepared == b \ (Active \union picked)
    IN  /\ LeaseFree
        /\ shown[s] # None
        /\ picked # {} /\ picked \subseteq shown[s].candidates
        /\ ~Collides(b, Active, picked)
        /\ ~Drifts(Upserted(rows, prepared))
        /\ call' = [session |-> s, step |-> "activate", picked |-> picked, prepared |-> prepared]
        /\ UNCHANGED <<rows, registry, shown, preview>>
UploadConfirmed_NoOverlay(s, b, picked) ==
    /\ LeaseFree
    /\ shown[s] # None
    /\ picked # {} /\ picked \subseteq shown[s].candidates
    /\ ProposalFor(b) = shown[s]
    /\ call' = [session |-> s, step |-> "activate", picked |-> picked,
                prepared |-> b \ (Active \union picked)]
    /\ UNCHANGED <<rows, registry, shown, preview>>
UploadConfirmed(s, b, picked) ==
    LET prepared == b \ (Active \union picked)
    IN  /\ LeaseFree
        /\ shown[s] # None
        /\ picked # {} /\ picked \subseteq shown[s].candidates
        /\ ProposalFor(b) = shown[s]
        /\ ~Collides(b, Active, picked)
        /\ ~Drifts(Upserted(rows, prepared))
        /\ call' = [session |-> s, step |-> "activate", picked |-> picked, prepared |-> prepared]
        /\ UNCHANGED <<rows, registry, shown, preview>>

\* activate_receipt_exclusions, one transaction: an active rule is reused, a
\* revoked one makes the whole activation fail (see Stop).
Activate_Reactivates ==
    /\ call # None /\ call.step = "activate"
    /\ registry' = [x \in Rows |-> IF x \in call.picked THEN "active" ELSE registry[x]]
    /\ call' = [call EXCEPT !.step = "commit"]
    /\ preview' = Stale
    /\ UNCHANGED <<rows, shown>>
Activate ==
    /\ call # None /\ call.step = "activate"
    /\ \A x \in call.picked : registry[x] # "revoked"
    /\ registry' = [x \in Rows |-> IF x \in call.picked THEN "active" ELSE registry[x]]
    /\ call' = [call EXCEPT !.step = "commit"]
    /\ preview' = Stale
    /\ UNCHANGED <<rows, shown>>

\* _commit_matched_upload, accepted: the prepared rows of the last preflight.
Commit_FirstPreflight ==
    /\ call # None /\ call.step = "commit"
    /\ rows' = Upserted(rows, call.prepared \union call.picked)
    /\ call' = None
    /\ preview' = Stale
    /\ UNCHANGED <<registry, shown>>
Commit ==
    /\ call # None /\ call.step = "commit"
    /\ rows' = Upserted(rows, call.prepared)
    /\ call' = None
    /\ preview' = Stale
    /\ UNCHANGED <<registry, shown>>

\* The call ends without rows written: the activation failed, nothing was
\* left to write, an exception, a rollback, or the death of the process.
\* Rules it has activated stay: the backup of a rollback has them.
Stop ==
    /\ call # None
    /\ call' = None
    /\ preview' \in {preview, Stale}
    /\ UNCHANGED <<rows, registry, shown>>

-----------------------------------------------------------------------------
(* Revocation *)

\* The gate on a copy into which the quarantined row is upserted.
Readmits(x) == ~Drifts(Upserted(rows, {x}))

\* preview_receipt_exclusion_revocation; a rule without evidence is an error.
PreviewRevocation(s, x) ==
    /\ LeaseFree
    /\ registry[x] # "absent"
    /\ preview' = [preview EXCEPT ![s] =
          [rule |-> x, ready |-> Readmits(x), unchanged |-> TRUE, answer |-> "none"]]
    /\ UNCHANGED <<rows, registry, call, shown>>

\* confirm_receipt_exclusion_revocation runs the preview again and compares
\* the fingerprints.  They hash the operation id, and both callers take a new
\* lease, with a new operation, for the confirmation.
SameFingerprint(p) == p.unchanged /\ SharedOperation

ConfirmRefused(s) ==
    /\ LeaseFree
    /\ preview[s] # None /\ preview[s].answer = "none"
    /\ LET p == preview[s]
           fresh == SameFingerprint(p) /\ p.ready
       IN  \/ ~fresh /\ preview' = [preview EXCEPT ![s].answer = "stale"]
           \/ /\ fresh /\ registry[p.rule] # "active"
              /\ preview' = [preview EXCEPT ![s].answer = "not_active"]
    /\ UNCHANGED <<rows, registry, call, shown>>

\* commit_receipt_exclusion_revocation.
Revoke_Deletes(s) ==
    /\ LeaseFree
    /\ preview[s] # None /\ preview[s].answer = "none"
    /\ SameFingerprint(preview[s]) /\ preview[s].ready
    /\ registry[preview[s].rule] = "active"
    /\ registry' = [registry EXCEPT ![preview[s].rule] = "deleted"]
    /\ preview' = [Stale EXCEPT ![s].answer = "revoked"]
    /\ UNCHANGED <<rows, call, shown>>
Revoke(s) ==
    /\ LeaseFree
    /\ preview[s] # None /\ preview[s].answer = "none"
    /\ SameFingerprint(preview[s]) /\ preview[s].ready
    /\ registry[preview[s].rule] = "active"
    /\ registry' = [registry EXCEPT ![preview[s].rule] = "revoked"]
    /\ preview' = [Stale EXCEPT ![s].answer = "revoked"]
    /\ UNCHANGED <<rows, call, shown>>

Next ==
    \/ \E s \in Sessions, b \in Batches :
          \/ UploadMatched(s, b)
          \/ UploadProposed(s, b)
          \/ \E picked \in SUBSET b : UploadConfirmed(s, b, picked)
    \/ Activate \/ Commit \/ Stop
    \/ \E s \in Sessions :
          \/ \E x \in Rows : PreviewRevocation(s, x)
          \/ ConfirmRefused(s)
          \/ Revoke(s)

Spec == Init /\ [][Next]_vars

-----------------------------------------------------------------------------
(* Properties *)

\* At most one active rule for a receipt number.  The registry's UNIQUE
\* constraint is on the whole identity and would allow more, and the matcher,
\* which keeps one rule per receipt number, would ignore all but one of them.
OneActiveRulePerReceipt ==
    \A x, y \in Active : ReceiptOf[x] = ReceiptOf[y] => x = y

\* Rules only go from absent to active to revoked, although an old proposal
\* fits the registry again once the rule it led to is revoked.
RulesOnlyAdvance ==
    [][\A x \in Rows :
          /\ registry[x] = "active" => registry'[x] # "absent"
          /\ registry[x] = "revoked" => registry'[x] = "revoked"]_vars

\* Whatever users upload, confirm and revoke, the total of the frozen month
\* stays within the tolerance of its baseline, also through a long sequence of
\* uploads that each change it by less.
FrozenMonthKept == ~Drifts(rows)

\* No accepted upload brings in a row whose rule is active, including the rules
\* its own confirmation has activated.
NoActiveRuleWritten ==
    [][\A x \in rows' \ rows : registry'[x] # "active"]_vars

\* A confirmation never meets a rule that is already active: what a second
\* user confirms of the same proposal is stale by then.
ActivatesOnlyNewRules ==
    call # None /\ call.step = "activate" => call.picked \intersect Active = {}

\* A confirmed revocation is refused only if the preview was not ready or the
\* database or the registry has changed since.
RefusedOnlyIfChanged ==
    [][\A s \in Sessions :
          preview[s] # None /\ preview[s].answer = "none" /\ preview'[s] # None
          /\ preview'[s].answer = "stale"
            => ~(preview[s].ready /\ preview[s].unchanged)]_vars
=============================================================================
