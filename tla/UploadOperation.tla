--------------------------- MODULE UploadOperation ---------------------------
(***************************************************************************)
(* One upload at a time against the live revenue database:                 *)
(* backend/services/upload_orchestrator_service.py with the preflight,     *)
(* the upsert and restore of database.py and the rollback handler.  What   *)
(* it does to the generation file is in module CacheGeneration.            *)
(*                                                                         *)
(* Uploads hold the lease (module UploadLease) from their first step to    *)
(* their answer, so one record, job, is enough for the upload in progress. *)
(* Three writers of the same data take no lease: the repairs run before   *)
(* a Streamlit page loads, the promotion of monthly baselines, and         *)
(* clear_database.                                                         *)
(*                                                                         *)
(* A table is the set of what was merged into it: the initial rows, the    *)
(* batch of each upload, and the repaired assignment of the initial rows;  *)
(* the orders of two batches are disjoint.                                 *)
(* An upload's steps may fail by an exception, and its process may die     *)
(* between any two of them.                                                *)
(***************************************************************************)
CONSTANTS Uploads,      \* calls of execute_upload_operation
          Excludable,   \* batches that drift unless a receipt is excluded
          Shifting,     \* batches that change a month still in monitoring
          Base,         \* the rows the database starts with
          Repaired,     \* the repaired assignment of those rows
          None          \* no upload, no backup

ASSUME UploadsAssumption ==
    /\ Excludable \subseteq Uploads
    /\ Shifting \subseteq Uploads
    /\ {Base, Repaired, None} \intersect Uploads = {}
    /\ Base # Repaired

VARIABLES live,         \* the live database
          mode,         \* the monthly baseline registry: monitoring, blocking
          job,          \* the upload holding the lease
          reply,        \* what each upload was answered
          repair,       \* the repairs before a page load
          promo,        \* promote_monthly_baselines
          cleared,      \* whether clear_database has run
          disturbed     \* whether a writer without lease met the upload

vars == <<live, mode, job, reply, repair, promo, cleared, disturbed>>

Items == Uploads \union {Base, Repaired}

Tables == [tour : SUBSET Items, others : SUBSET Items]

Database == [tables : Tables, rules : SUBSET Uploads, history : SUBSET Uploads,
             stable : BOOLEAN, promoted : BOOLEAN]

Steps == {"preflight", "activate", "backup", "tour", "others", "gate", "restore",
          "verify", "advance", "derive", "history", "refresh", "answer"}

FinalStatus == {"pending", "accepted", "rejected_rolled_back", "rollback_failed"}

PublicStatus == {"success", "warning", "degraded", "error"}

Job == [op : Uploads \union {None}, step : Steps, confirmed : BOOLEAN,
        backup : Database \union {None}, status : FinalStatus, public : PublicStatus,
        stable : BOOLEAN, advanced : BOOLEAN, cacheError : BOOLEAN]

Replies == {"none", "blocked", "raised", "died", "success", "warning", "degraded",
            "rolled_back", "rollback_failed"}

RepairStages == {"idle", "planned"}

PromotionStages == {"idle", "evaluated", "swapped", "recorded", "done"}

TypeOK ==
    /\ live \in Database
    /\ mode \in {"monitoring", "blocking"}
    /\ job \in Job
    /\ reply \in [Uploads -> Replies]
    /\ repair \in RepairStages
    /\ promo \in PromotionStages
    /\ cleared \in BOOLEAN
    /\ disturbed \in BOOLEAN

InitialTables == [tour |-> {Base}, others |-> {Base}]

NoJob == [op |-> None, step |-> "answer", confirmed |-> FALSE,
          backup |-> None, status |-> "pending", public |-> "success",
          stable |-> FALSE, advanced |-> FALSE, cacheError |-> FALSE]

Init ==
    /\ live = [tables |-> InitialTables, rules |-> {}, history |-> {},
               stable |-> FALSE, promoted |-> FALSE]
    /\ mode = "monitoring"
    /\ job = NoJob
    /\ reply = [u \in Uploads |-> "none"]
    /\ repair = "idle"
    /\ promo = "idle"
    /\ cleared = FALSE
    /\ disturbed = FALSE

-----------------------------------------------------------------------------
(* Helpers *)

\* What upsert_to_db leaves in a database holding t.
Merged(t, u) == [tour |-> t.tour \union {u}, others |-> t.others \union {u}]

\* Batches that took a month away from its baseline.
Shifted(t) == (t.tour \union t.others) \intersect Shifting

\* build_governed_stability_gate: the core checks need the frozen rows, and a
\* blocking month refuses the batches that change it.
Drifts(t, m) ==
    \/ Base \notin t.tour \intersect t.others
    \/ m = "blocking" /\ Shifted(t) # {}

\* evaluate_monthly_baselines: monitoring months count here too.
AllMatched(t) == ~Drifts(t, "blocking")

At(step) == job.op # None /\ job.step = step

Goto(step) == job' = [job EXCEPT !.step = step]

\* The call ends with this answer, and the lease is released.
Answer(answer) ==
    /\ reply' = [reply EXCEPT ![job.op] = answer]
    /\ job' = NoJob
    /\ disturbed' = FALSE

\* A writer without lease changed what the upload in progress works on.
Disturb == disturbed' = (job.op # None \/ disturbed)

NoWriter == UNCHANGED <<repair, promo, cleared>>

-----------------------------------------------------------------------------
(* The upload *)

\* acquire_upload_lease, then execute_upload_operation starts; the user may
\* have confirmed an exclusion proposal of an earlier attempt.
Begin(u) ==
    /\ job.op = None
    /\ reply[u] = "none"
    /\ \E confirmed \in BOOLEAN :
          job' = [NoJob EXCEPT !.op = u, !.step = "preflight", !.confirmed = confirmed]
    /\ UNCHANGED <<live, mode, reply, disturbed>> /\ NoWriter

\* run_upload_preflight on a temporary copy, once, or twice with a
\* confirmation: the first finds the drift the proposal is about, the second
\* overlays the exclusions.
Preflight_OfLiveTables ==
    /\ At("preflight")
    /\ \/ /\ ~Drifts(live.tables, mode)
          /\ Goto(IF job.confirmed THEN "activate" ELSE "backup")
          /\ UNCHANGED <<reply, disturbed>>
       \/ Answer("raised")
    /\ UNCHANGED <<live, mode>> /\ NoWriter
Preflight ==
    /\ At("preflight")
    /\ LET u == job.op
           predicted == Merged(live.tables, u)
           proposal == u \in Excludable \ live.rules
           matched == ~Drifts(predicted, mode) /\ (proposal <=> job.confirmed)
       IN  \/ /\ matched
              /\ Goto(IF job.confirmed THEN "activate" ELSE "backup")
              /\ UNCHANGED <<reply, disturbed>>
           \/ ~matched /\ Answer("blocked")
           \/ Answer("raised")
    /\ UNCHANGED <<live, mode>> /\ NoWriter

WithRule == [live EXCEPT !.rules = @ \union {job.op}]

\* activate_receipt_exclusions: all rules of the proposal, or none; it commits
\* to the live database before the backup is taken.  The registry is read
\* again after the commit, so the upload may be blocked with its rules active.
Activate ==
    /\ At("activate")
    /\ \/ /\ live' = WithRule
          /\ Goto("backup")
          /\ UNCHANGED <<reply, disturbed>>
       \/ /\ live' \in {live, WithRule}
          /\ Answer("blocked")
    /\ UNCHANGED <<mode>> /\ NoWriter

\* _commit_matched_upload: blocked when no row is left to write; otherwise
\* hot_backup_database, the first step of upsert_to_db.
Backup_BeforeActivation ==
    /\ At("backup")
    /\ job' = [job EXCEPT !.step = "tour",
                          !.backup = [live EXCEPT !.rules = @ \ {job.op}]]
    /\ UNCHANGED <<live, mode, reply, disturbed>> /\ NoWriter
Backup ==
    /\ At("backup")
    /\ \/ /\ job' = [job EXCEPT !.step = "tour", !.backup = live]
          /\ UNCHANGED <<reply, disturbed>>
       \/ \E answer \in {"blocked", "raised"} : Answer(answer)
    /\ UNCHANGED <<live, mode>> /\ NoWriter

\* The rows of tour_data: to_sql commits them before others_data is touched.
UpsertTour_BackedUpAfter ==
    /\ At("tour")
    /\ live' = [live EXCEPT !.tables.tour = @ \union {job.op}]
    /\ job' = [job EXCEPT !.step = "others", !.backup = live']
    /\ UNCHANGED <<mode, reply, disturbed>> /\ NoWriter
UpsertTour ==
    /\ At("tour")
    /\ \/ /\ live' = [live EXCEPT !.tables.tour = @ \union {job.op}]
          /\ Goto("others")
          /\ UNCHANGED <<reply, disturbed>>
       \/ /\ Answer("raised")
          /\ UNCHANGED live
    /\ UNCHANGED <<mode>> /\ NoWriter

UpsertOthers_ErrorIgnored ==
    /\ At("others")
    /\ live' \in {live, [live EXCEPT !.tables.others = @ \union {job.op}]}
    /\ Goto("gate")
    /\ UNCHANGED <<mode, reply, disturbed>> /\ NoWriter
UpsertOthers ==
    /\ At("others")
    /\ \/ /\ live' = [live EXCEPT !.tables.others = @ \union {job.op}]
          /\ Goto("gate")
          /\ UNCHANGED <<reply, disturbed>>
       \/ /\ Answer("raised")
          /\ UNCHANGED live
    /\ UNCHANGED <<mode>> /\ NoWriter

\* load_all_data_from_db, the governed gate on the live database, and the
\* decision of handle_core_drift_rollback.
Gate ==
    /\ At("gate")
    /\ \/ /\ ~Drifts(live.tables, mode)
          /\ job' = [job EXCEPT !.step = "advance", !.status = "accepted",
                                !.stable = AllMatched(live.tables)]
          /\ UNCHANGED <<reply, disturbed>>
       \/ /\ Drifts(live.tables, mode)
          /\ Goto("restore")
          /\ UNCHANGED <<reply, disturbed>>
       \/ Answer("raised")
    /\ UNCHANGED <<live, mode>> /\ NoWriter

RollbackFailed ==
    job' = [job EXCEPT !.step = "history", !.status = "rollback_failed", !.public = "error"]

\* restore_database_from_backup replaces the whole file, then checks it: an
\* exception comes before or after the replacement.
Restore_Retries ==
    /\ At("restore")
    /\ \/ live' = job.backup /\ Goto("verify")
       \/ UNCHANGED live /\ Goto("gate")
    /\ UNCHANGED <<mode, reply, disturbed>> /\ NoWriter
Restore ==
    /\ At("restore")
    /\ \/ live' = job.backup /\ Goto("verify")
       \/ live' \in {live, job.backup} /\ RollbackFailed
    /\ UNCHANGED <<mode, reply, disturbed>> /\ NoWriter

\* The gate after the rollback; an exception in it counts as a failed restore.
VerifyRollback_DefaultStatus ==
    /\ At("verify")
    /\ \/ /\ ~Drifts(live.tables, mode)
          /\ job' = [job EXCEPT !.step = "advance", !.status = "accepted"]
       \/ RollbackFailed
    /\ UNCHANGED <<live, mode, reply, disturbed>> /\ NoWriter
VerifyRollback ==
    /\ At("verify")
    /\ \/ /\ ~Drifts(live.tables, mode)
          /\ job' = [job EXCEPT !.step = "advance", !.status = "rejected_rolled_back",
                                !.public = "error"]
       \/ RollbackFailed
    /\ UNCHANGED <<live, mode, reply, disturbed>> /\ NoWriter

\* advance_cache_generation, for an accepted or a rolled back upload; an error
\* leaves the old generation in place.
AdvanceGeneration ==
    /\ At("advance")
    /\ \E error \in BOOLEAN :
          job' = [job EXCEPT !.step = IF job.status = "accepted" THEN "derive" ELSE "history",
                             !.advanced = ~error, !.cacheError = error]
    /\ UNCHANGED <<live, mode, reply, disturbed>> /\ NoWriter

\* What an accepted upload derives: the Beta seller scope, which may be
\* unusable or report a variance, and the cache, whose rebuild is skipped
\* after a generation error and may fail itself.
DeriveCaches ==
    /\ At("derive")
    /\ \E beta \in {"success", "warning", "degraded"}, failed \in BOOLEAN :
          LET error == job.cacheError \/ failed
          IN  job' = [job EXCEPT !.step = "history", !.cacheError = error,
                                 !.public = IF error THEN "degraded" ELSE beta]
    /\ UNCHANGED <<live, mode, reply, disturbed>> /\ NoWriter

Degrade(public) == IF public = "success" THEN "degraded" ELSE public

\* record_stability_history, whose error degrades a success.  The generation
\* is refreshed only after a stored record and an error-free generation.
RecordHistory_Silent ==
    /\ At("history")
    /\ \/ live' = [live EXCEPT !.history = @ \union {job.op}] /\ Goto("answer")
       \/ UNCHANGED live /\ Goto("answer")
    /\ UNCHANGED <<mode, reply, disturbed>> /\ NoWriter
RecordHistory ==
    /\ At("history")
    /\ \/ /\ live' = [live EXCEPT
                !.history = @ \union {job.op},
                !.stable = IF job.status = "accepted" THEN job.stable ELSE @]
          /\ Goto(IF job.advanced /\ ~job.cacheError THEN "refresh" ELSE "answer")
       \/ /\ job' = [job EXCEPT !.step = "answer", !.public = Degrade(@)]
          /\ UNCHANGED live
    /\ UNCHANGED <<mode, reply, disturbed>> /\ NoWriter

\* refresh_cache_generation_signature, or the error that degrades a success.
RefreshGeneration ==
    /\ At("refresh")
    /\ \/ Goto("answer")
       \/ job' = [job EXCEPT !.step = "answer", !.cacheError = TRUE, !.public = Degrade(@)]
    /\ UNCHANGED <<live, mode, reply, disturbed>> /\ NoWriter

\* The response, and the end of the lease.
Finish_PublicStatus ==
    At("answer") /\ Answer(job.public) /\ UNCHANGED <<live, mode>> /\ NoWriter
Finish ==
    /\ At("answer")
    /\ Answer(CASE job.status = "accepted" -> job.public
                [] job.status = "rejected_rolled_back" -> "rolled_back"
                [] OTHER -> "rollback_failed")
    /\ UNCHANGED <<live, mode>> /\ NoWriter

\* The process dies: the lease is free again, nothing is cleaned up.
Die ==
    /\ job.op # None
    /\ Answer("died")
    /\ UNCHANGED <<live, mode>> /\ NoWriter

UploadStep ==
    \/ Preflight \/ Activate \/ Backup \/ UpsertTour \/ UpsertOthers
    \/ Gate \/ Restore \/ VerifyRollback
    \/ AdvanceGeneration \/ DeriveCaches \/ RecordHistory
    \/ RefreshGeneration \/ Finish

-----------------------------------------------------------------------------
(* _run_persistent_repairs_before_load.  The checked token only spares a     *)
(* page load that finds nothing new to repair; it is not modelled.           *)

\* The repair functions read the rows on one connection...
RepairPlan ==
    /\ repair = "idle"
    /\ Base \in live.tables.tour \intersect live.tables.others
    /\ Repaired \notin live.tables.tour \union live.tables.others
    /\ repair' = "planned"
    /\ UNCHANGED <<live, mode, job, reply, promo, cleared, disturbed>>

\* ... and update them on another; an error is only shown to the user.
RepairCommit ==
    /\ repair = "planned"
    /\ repair' = "idle"
    /\ \/ /\ Base \in live.tables.tour \intersect live.tables.others
          /\ live' = [live EXCEPT !.tables = Merged(@, Repaired)]
          /\ Disturb
       \/ UNCHANGED <<live, disturbed>>
    /\ UNCHANGED <<mode, job, reply, promo, cleared>>

-----------------------------------------------------------------------------
(* promote_monthly_baselines, at most once *)

\* All months match and so did those of the latest accepted upload.
PromoteEvaluate ==
    /\ promo = "idle"
    /\ mode = "monitoring"
    /\ AllMatched(live.tables) /\ live.stable
    /\ promo' = "evaluated"
    /\ UNCHANGED <<live, mode, job, reply, repair, cleared, disturbed>>

\* The registry file is replaced: every month blocks from now on.
PromoteSwap ==
    /\ promo = "evaluated"
    /\ promo' = "swapped"
    /\ mode' = "blocking"
    /\ Disturb
    /\ UNCHANGED <<live, job, reply, repair, cleared>>

PromoteRecord ==
    /\ promo = "swapped"
    /\ promo' = "recorded"
    /\ live' = [live EXCEPT !.promoted = TRUE]
    /\ Disturb
    /\ UNCHANGED <<mode, job, reply, repair, cleared>>

\* The generation is refreshed last.  An error after the swap copies the old
\* registry back; a committed event stays.
PromoteEnd ==
    /\ \/ promo = "recorded" /\ UNCHANGED <<mode, disturbed>>
       \/ promo \in {"swapped", "recorded"} /\ mode' = "monitoring" /\ Disturb
    /\ promo' = "done"
    /\ UNCHANGED <<live, job, reply, repair, cleared>>

-----------------------------------------------------------------------------

\* clear_database drops both revenue tables, at most once; the registry of
\* exclusions and the history stay.
Clear ==
    /\ ~cleared
    /\ cleared' = TRUE
    /\ live' = [live EXCEPT !.tables = [tour |-> {}, others |-> {}]]
    /\ Disturb
    /\ UNCHANGED <<mode, job, reply, repair, promo>>

Unleased ==
    \/ RepairPlan \/ RepairCommit
    \/ PromoteEvaluate \/ PromoteSwap \/ PromoteRecord \/ PromoteEnd
    \/ Clear

Next == (\E u \in Uploads : Begin(u)) \/ UploadStep \/ Die \/ Unleased

Spec == Init /\ [][Next]_vars

\* The call runs on by itself: it waits for nobody once it has the lease.
FairSpec == Spec /\ WF_vars(UploadStep)

-----------------------------------------------------------------------------
(* Properties *)

Accepted(u) == reply[u] \in {"success", "warning", "degraded"}

\* An upload answered "rolled back" has left nothing in either table, and no
\* later restore brings its rows back (handle_core_drift_rollback).
RolledBackLeavesNoTrace ==
    \A u \in Uploads :
        reply[u] = "rolled_back" => u \notin live.tables.tour \union live.tables.others

\* A batch that was accepted or rolled back is in both tables or in neither,
\* although upsert_to_db commits the tables one after the other.
AnsweredBatchIsWhole ==
    \A u \in Uploads :
        Accepted(u) \/ reply[u] = "rolled_back" =>
            (u \in live.tables.tour <=> u \in live.tables.others)

\* No rollback of a later upload removes an accepted batch: its rows stay
\* until the database is cleared.
AcceptedIsKept ==
    \A u \in Uploads :
        Accepted(u) /\ ~cleared => u \in live.tables.tour \intersect live.tables.others

\* A full success has its stability history record, also after the rollback
\* of a later upload has replaced the database file.
SuccessIsRecorded ==
    \A u \in Uploads : reply[u] = "success" => u \in live.history

\* A rollback keeps the exclusion rules the upload's user confirmed: they are
\* committed before the backup is taken.
RulesOutliveRollback == [][live.rules \subseteq live'.rules]_vars

\* The preflight on a copy predicts the live gate: without a writer that
\* ignores the lease, what passed the preflight is never rolled back.
RollbackMeansDisturbed == At("restore") => disturbed

\* Every upload that got the lease is answered, so the lease comes free.
UploadAnswered == \A u \in Uploads : job.op = u ~> reply[u] # "none"
=============================================================================
