----------------------------- MODULE RefundLedger -----------------------------
(***************************************************************************)
(* The formal GMV refund ledger: refund files are previewed against the    *)
(* current state of the refunds, confirmed under the upload lease, and     *)
(* each confirmation makes a new immutable version the active one.         *)
(* backend/services/gmv_refund_service.py, gmv_refund_models.py and        *)
(* gmv_refund_repository.py, as app_pages.py calls them.                   *)
(*                                                                         *)
(* A revenue content maps each receipt to the amount its formal rows add   *)
(* up to; its token is the content itself (revenue_state_token hashes it). *)
(* A refund file is a set of observations.  Its hash, and the hash of a    *)
(* set of refund states, are the file and the states themselves.           *)
(***************************************************************************)
EXTENDS Integers, Sequences, FiniteSets, FiniteSetsExt

CONSTANTS Orders,        \* refund order numbers
          Receipts,      \* source receipt numbers
          MaxAmount,     \* bound of an amount, in minor units
          Days,          \* refund dates
          Files,         \* the refund files users upload
          Revenues,      \* the contents the revenue tables take
          InitialRevenue, \* the content at the start
          Uploads, Repairs, \* the changes an upload, a repair may make
          Sessions,      \* browser sessions on the GMV page
          Operator,      \* the caller of rebuild_gmv_scope
          None,          \* no holder, no version, no rebuild
          MaxVersions, MaxEvents   \* bounds of the ledger

Statuses == {"pending", "paid"}

Refund == [receipt : Receipts, amount : 0..MaxAmount, status : Statuses, day : Days]

Observation == [order : Orders, receipt : Receipts, amount : 0..MaxAmount,
                status : Statuses, day : Days]

\* A state of the refunds: what is known of the orders seen so far.
Refunds == UNION {[S -> Refund] : S \in SUBSET Orders}

ASSUME LedgerAssumption ==
    /\ Files \subseteq SUBSET Observation
    /\ Revenues \subseteq [Receipts -> 0..MaxAmount]
    /\ InitialRevenue \in Revenues
    /\ Uploads \subseteq Revenues \X Revenues /\ Repairs \subseteq Revenues \X Revenues
    /\ Operator \notin Sessions /\ None \notin Sessions \cup {Operator}
    /\ MaxAmount \in Nat /\ MaxVersions \in Nat /\ MaxEvents \in Nat

VARIABLES revenue,    \* the formal revenue frames in the database
          current,    \* gmv_refund_current
          versions,   \* gmv_scope_versions with its snapshots, oldest first
          events,     \* gmv_scope_events, oldest first
          batches,    \* gmv_refund_batches
          lease,      \* holder of the upload lease
          merge,      \* what each page run has read, previewed, confirmed
          rebuild     \* what the rebuild in progress has read

ledger == <<current, versions, events, batches>>
ledgerVars == <<revenue, ledger, lease, merge, rebuild>>

\* frames: the revenue the reconciliation rows were computed from.
Version == [token : Revenues, frames : Revenues, states : Refunds,
            status : {"ACTIVE", "RETIRED"}]

Event == [type : {"ACTIVATE", "DEACTIVATE", "ROLLBACK"},
          from : 0..MaxVersions, to : 0..MaxVersions]

Batch == [file : Files, token : Revenues, version : 1..MaxVersions]

Idle == [step |-> "idle"]

\* base, proposed: current and proposed states of the preview.
Merge == {Idle}
    \union [step : {"loaded"}, frames : Revenues]
    \union [step : {"previewed", "checked"}, frames : Revenues, file : Files,
            base : Refunds, proposed : Refunds]
    \union [step : {"merged"}, frames : Revenues, version : 1..MaxVersions,
            affected : SUBSET Receipts]

LedgerTypeOK ==
    /\ revenue \in Revenues
    /\ current \in Refunds
    /\ versions \in Seq(Version) /\ Len(versions) <= MaxVersions
    /\ events \in Seq(Event) /\ Len(events) <= MaxEvents
    /\ batches \in SUBSET Batch
    /\ lease \in Sessions \union {Operator, None}
    /\ merge \in [Sessions -> Merge]
    /\ rebuild \in [token : Revenues, states : Refunds] \union {None}

LedgerInit ==
    /\ revenue = InitialRevenue
    /\ current = << >>
    /\ versions = << >>
    /\ events = << >>
    /\ batches = {}
    /\ lease = None
    /\ merge = [s \in Sessions |-> Idle]
    /\ rebuild = None

-----------------------------------------------------------------------------
(* The preview *)

OrdersIn(file) == {o.order : o \in file}

\* classify_refund_changes: the conflicts that block a preview.
Conflict(file, base) ==
    \/ \E o, p \in file : o # p /\ o.order = p.order
    \/ \E o \in file : /\ o.order \in DOMAIN base
                       /\ \/ base[o.order].receipt # o.receipt
                          \/ base[o.order].amount # o.amount

NewOrChanged(file, base) ==
    {o \in file : o.order \in DOMAIN base => base[o.order].status # o.status}

StateOf(o) ==
    [receipt |-> o.receipt, amount |-> o.amount, status |-> o.status, day |-> o.day]

\* The current states with the file's new and changed refunds over them.
Proposed(file, base) ==
    LET taken == NewOrChanged(file, base)
    IN  [x \in DOMAIN base \union OrdersIn(taken) |->
            IF x \in OrdersIn(taken)
            THEN StateOf(CHOOSE o \in taken : o.order = x)
            ELSE base[x]]

\* classify_refund_state_delta: receipts whose refunds differ.
Affected(base, proposed) ==
    {proposed[x].receipt : x \in {y \in DOMAIN proposed :
        y \in DOMAIN base => \/ base[y].amount # proposed[y].amount
                             \/ base[y].status # proposed[y].status}}

LoadPage(s) ==
    /\ merge[s] = Idle
    /\ merge' = [merge EXCEPT ![s] = [step |-> "loaded", frames |-> revenue]]
    /\ UNCHANGED <<revenue, ledger, lease, rebuild>>

\* A blocked preview stops the page, before anything is written.
Preview(s, file) ==
    /\ merge[s].step = "loaded"
    /\ merge' = [merge EXCEPT ![s] =
          IF Conflict(file, current) THEN Idle
          ELSE [step |-> "previewed", frames |-> merge[s].frames, file |-> file,
                base |-> current, proposed |-> Proposed(file, current)]]
    /\ UNCHANGED <<revenue, ledger, lease, rebuild>>

-----------------------------------------------------------------------------
(* The confirmation *)

Confirmed(s) ==
    {b \in batches : b.file = merge[s].file /\ b.token = merge[s].frames}

Fresh_RevenueOnly(s) == revenue = merge[s].frames
Fresh(s) == current = merge[s].base /\ revenue = merge[s].frames

\* The batch was confirmed before: its receipt is returned, whatever became
\* of its version.
ConfirmDuplicate(s) ==
    /\ merge[s].step = "previewed" /\ lease = None
    /\ \E b \in Confirmed(s) :
          merge' = [merge EXCEPT ![s] =
             [step |-> "merged", frames |-> merge[s].frames, version |-> b.version,
              affected |-> {o.receipt : o \in merge[s].file}]]
    /\ UNCHANGED <<revenue, ledger, lease, rebuild>>

ConfirmStale(s) ==
    /\ merge[s].step = "previewed" /\ lease = None
    /\ Confirmed(s) = {} /\ ~Fresh(s)
    /\ merge' = [merge EXCEPT ![s] = Idle]
    /\ UNCHANGED <<revenue, ledger, lease, rebuild>>

ConfirmAccept(s) ==
    /\ merge[s].step = "previewed" /\ lease = None
    /\ Confirmed(s) = {} /\ Fresh(s)
    /\ lease' = s
    /\ merge' = [merge EXCEPT ![s].step = "checked"]
    /\ UNCHANGED <<revenue, ledger, rebuild>>

\* The upsert of gmv_refund_current leaves the date of a known refund alone.
Upsert(proposed, file) ==
    [x \in DOMAIN current \union OrdersIn(file) |->
        IF x \notin OrdersIn(file) THEN current[x]
        ELSE IF x \in DOMAIN current
             THEN [proposed[x] EXCEPT !.day = current[x].day]
             ELSE proposed[x]]

ActiveVersions == {i \in DOMAIN versions : versions[i].status = "ACTIVE"}

\* load_active_scope: the active version's number, 0 if there is none.
Active == IF ActiveVersions = {} THEN 0 ELSE Max(ActiveVersions)

Retired_Archived(i) ==
    IF i = 0 THEN versions ELSE [versions EXCEPT ![i].status = "ARCHIVED"]
Retired(i) ==
    IF i = 0 THEN versions ELSE [versions EXCEPT ![i].status = "RETIRED"]

Record(type, from, to) ==
    events' = Append(events, [type |-> type, from |-> from, to |-> to])

\* calculation_sha256 is UNIQUE: without refunds nothing in it is random, so
\* a second version of the same revenue fails.
NewCalculation(token, states) ==
    states = << >> => \A i \in DOMAIN versions :
                          versions[i].states # << >> \/ versions[i].token # token

\* The end of both transactions: retire, insert the new version, its
\* reconciliation rows from a second read of the revenue, and the event.
Activate(token, states) ==
    /\ Len(versions) < MaxVersions /\ Len(events) < MaxEvents
    /\ NewCalculation(token, states)
    /\ versions' = Append(Retired(Active),
                     [token |-> token, frames |-> revenue, states |-> states,
                      status |-> "ACTIVE"])
    /\ Record("ACTIVATE", Active, Len(versions) + 1)

ConfirmCommit(s) ==
    /\ merge[s].step = "checked"
    /\ Activate(merge[s].frames, merge[s].proposed)
    /\ current' = Upsert(merge[s].proposed, merge[s].file)
    /\ batches' = batches \union
          {[file |-> merge[s].file, token |-> merge[s].frames, version |-> Len(versions) + 1]}
    /\ merge' = [merge EXCEPT ![s] =
          [step |-> "merged", frames |-> merge[s].frames, version |-> Len(versions) + 1,
           affected |-> Affected(merge[s].base, merge[s].proposed)]]
    /\ lease' = None
    /\ UNCHANGED <<revenue, rebuild>>

\* An error in the transaction, the user leaving, or a crash (the lease of a
\* dead process ends by its TTL).
Abandon(s) ==
    /\ merge[s].step \in {"loaded", "previewed", "checked"}
    /\ merge' = [merge EXCEPT ![s] = Idle]
    /\ lease' = IF lease = s THEN None ELSE lease
    /\ UNCHANGED <<revenue, ledger, rebuild>>

-----------------------------------------------------------------------------
(* The operations on versions, and the writers of the revenue *)

Deactivate ==
    /\ lease = None /\ Len(events) < MaxEvents
    /\ versions' = Retired(Active)
    /\ Record("DEACTIVATE", Active, 0)
    /\ UNCHANGED <<revenue, current, batches, lease, merge, rebuild>>

Rollback_RetiresNothing(target) ==
    /\ lease = None /\ Len(events) < MaxEvents
    /\ target # Active
    /\ versions' = [versions EXCEPT ![target].status = "ACTIVE"]
    /\ Record("ROLLBACK", Active, target)
    /\ UNCHANGED <<revenue, current, batches, lease, merge, rebuild>>
Rollback(target) ==
    /\ lease = None /\ Len(events) < MaxEvents
    /\ target # Active
    /\ versions' = [Retired(Active) EXCEPT ![target].status = "ACTIVE"]
    /\ Record("ROLLBACK", Active, target)
    /\ UNCHANGED <<revenue, current, batches, lease, merge, rebuild>>

RebuildRead ==
    /\ lease = None
    /\ lease' = Operator
    /\ rebuild' = [token |-> revenue, states |-> current]
    /\ UNCHANGED <<revenue, ledger, merge>>

RebuildCommit ==
    /\ rebuild # None
    /\ Activate(rebuild.token, rebuild.states)
    /\ rebuild' = None /\ lease' = None
    /\ UNCHANGED <<revenue, current, batches, merge>>

RebuildAbandon ==
    /\ rebuild # None
    /\ rebuild' = None /\ lease' = None
    /\ UNCHANGED <<revenue, ledger, merge>>

\* An upload writes revenue under the lease; the repairs at page load do not.
Upload ==
    /\ lease = None
    /\ \E r \in Revenues : <<revenue, r>> \in Uploads /\ revenue' = r
    /\ UNCHANGED <<ledger, lease, merge, rebuild>>

Repair ==
    /\ \E r \in Revenues : <<revenue, r>> \in Repairs /\ revenue' = r
    /\ UNCHANGED <<ledger, lease, merge, rebuild>>

LedgerNext ==
    \/ \E s \in Sessions :
          \/ LoadPage(s)
          \/ \E file \in Files : Preview(s, file)
          \/ ConfirmDuplicate(s) \/ ConfirmStale(s) \/ ConfirmAccept(s)
          \/ ConfirmCommit(s) \/ Abandon(s)
    \/ Deactivate
    \/ \E target \in DOMAIN versions : Rollback(target)
    \/ RebuildRead \/ RebuildCommit \/ RebuildAbandon
    \/ Upload \/ Repair

-----------------------------------------------------------------------------
(* Properties of the ledger *)

\* What the events say is active: the target of the last one, or nothing.
Replayed == IF events = << >> THEN 0 ELSE events[Len(events)].to

\* The event ledger explains the versions: exactly the version the last
\* event names is ACTIVE, and each event starts where the one before ended.
EventsExplainActive ==
    /\ ActiveVersions = {Replayed} \ {0}
    /\ \A i \in 1..Len(events) :
          events[i].from = (IF i = 1 THEN 0 ELSE events[i - 1].to)

\* What the deductions depend on: everything of a refund but its date.
Business(states) ==
    [x \in DOMAIN states |-> [receipt |-> states[x].receipt,
        amount |-> states[x].amount, status |-> states[x].status]]

\* The version made last holds the refunds gmv_refund_current holds: no
\* confirmation is built on a preview another session has overtaken, and no
\* refund of an earlier file is lost from the next version.
NewestIsCurrent ==
    versions # << >> => Business(versions[Len(versions)].states) = Business(current)

=============================================================================
