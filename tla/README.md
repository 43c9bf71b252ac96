# Verification of the protocols of nbs_analytics

This directory specifies, model-checks and proves properties of the parts of
`nbs_analytics` that keep state between calls: who may write the SQLite revenue
database, what an upload's answer means, which cached figures are served
afterwards, which receipts are kept out for good, how GMV refunds become
versions and exports, and the two machines of the development side, the agent
workflow and the parallel acceptance run, whose verdicts decide what is shipped.
The rest of the repository (pipelines of data frames, forecasts, pages, read
models) is listed below with the reason it is left out.

## 1. Inventory

| Component | State it keeps | Operations | Meets others through |
|---|---|---|---|
| Upload lease, `backend/services/upload_lock_service.py` | flock on `<db>.lock`, SQLite EXCLUSIVE lock, owner file | `acquire_upload_lease`, `UploadLease.release`, `probe_upload_lease` | every leased writer, in any process; the health check probes it |
| Upload operation, `upload_orchestrator_service.py`, `upload_action_service.py`, `upload_preflight_service.py`, `upload_rollback_service.py`, `stability_history_service.py` | the live database, a backup file, history rows | preflight on a copy, confirmation, upsert, gate, restore, history, answer | lease, database, registry, generation file, Beta frames |
| Revenue database, `database.py` | `tour_data`, `others_data` | upsert, backup, restore, load, the two repairs, clear | everything; repairs and clear take no lease |
| Monthly baselines, `monthly_baseline_service.py`, `stability_service.py` | baseline registry file, promotion events | evaluate, governed gate, promote | gate of the uploads; promotion takes no lease |
| Cache generation, `cache_generation_service.py`, `revenue_generation_service.py` | `data_generation.json` | load, advance, refresh | uploads advance, repairs and promotion refresh, readers load |
| Facts and quality caches, `dashboard_facts_service.py`, `data_quality_service.py` | one file per token | look up, build, save | sessions and snapshot requests |
| Application snapshot, `application_snapshot_service.py` | none | build in two attempts | generation, both caches |
| Beta seller scope, `beta_seller_scope_service.py` | stored frames with a generation number | persist, load | uploads persist, sessions load |
| Streamlit session cache, `app_workflows.py` | loaded frames and their token, per session | check, load, repair before load | generation, facts cache, database |
| Receipt exclusion, `receipt_exclusion_*_service.py`, `receipt_exclusion_matcher.py`, `drift_diagnosis_service.py`, `revenue_scope_service.py`, `backend/routers/upload.py` | rules, evidence and events in the live database | match, propose, confirm, activate, preview and confirm a revocation | uploads; users in later calls |
| GMV refund ledger, `gmv_refund_service.py`, `gmv_refund_models.py`, `gmv_refund_repository.py` | current refunds, scope versions with their snapshots, events, batches | preview, confirm, deactivate, roll back, rebuild | lease; uploads and repairs change the revenue under it |
| GMV export artifacts, `gmv_export_*_service.py`, `gmv_trusted_reference_service.py` | one published cache per version, one trusted reference per fingerprint | build with gate and fallback, publish, display | ledger; holds no lease |
| Agent workflow, `workflow_orchestrator.py`, `workflow_store.py`, `workflow_retention.py`, `documentation_workflow.py`, `governance_graph_service.py`, `canonical_evidence_writer.py` | a directory per run: status, event log, approval, artifacts, advisory lock | start, approve, stages, document, project, write evidence, prune | processes share only the files and the lock |
| Acceptance runner, `acceptance_parallel_runner.py`, `acceptance_shard_runtime.py`, `full_pytest_shard*.py` | worker threads, barriers, process groups, fixture roots, a registry of runtimes | allocate, launch, common start, clean up, cancel, aggregate | its verdict is the full-verification gate of the workflow |
| Verification chain, review agent, memory hub, sidecar | documents and read models | validate, project | their verdict is an input of the workflow |
| Pipeline, forecasting, other pages, API, frontend, service manager | none that outlives a run, apart from export and AI caches and a pid file | | call the services above |

What is hard here: several processes (Streamlit, FastAPI, launch scripts) share
one database file and several JSON or pickle files; only some writers take the
lease; an upload is about a dozen steps, each of which may raise, and its
process may die between any two; SQLite commits happen in the middle of a
function; a rollback swaps the file under readers; a token is read before the
rows it names; a user's confirmation arrives in a later call than the proposal
it is about; a refund file is previewed in one run of the page and confirmed in
another while a version is rolled back or rebuilt; a build publishes without a
lease; workers, children and a controller each give up at their own time; a
process of the workflow stops between an event and the status it announces.
`PROJECT.json` lists these hazards at their lines, with the
property that covers each one or the reason none does yet.

What makes each component correct:

- lease: one writer at a time, on every error path; no lock kept by a refusal, a
  handled error or a release; no refusal without a contender; the owner record is only removed by its owner;
- upload: an answer tells the truth about the database, now and after later
  rollbacks; what passed the preflight passes the live gate;
- generation and caches: no reader shows rows other than those its token names;
- Beta frames: no upload, failed advance or rollback makes them be served for rows
  they were not accepted with, and they never hold rows taken back (a repair beside
  the lease does mix them, by keeping the number);
- exclusion: the total of the frozen month stays within the tolerance of its
  baseline, one rule per receipt, rules only advance, a confirmation acts on what its user saw;
- refund ledger: the events explain which version is active, no refund of an
  earlier file is lost from a later version;
- exports: what is published or shown is the full calculation of one version over
  the revenue its token names;
- acceptance runner: tests start together and once, and an answer never claims
  more than has been cleaned up; the controller always returns;
- workflow: the log explains the status, and a status is worth the gates it claims.

## 2. Modules

| Module | Models | Checked by |
|---|---|---|
| `ExclusiveWriter` | the abstract promise of the lease | refined by `UploadLease` |
| `UploadLease` | the lease, step by step | `lease`; `UploadLeaseProofs` |
| `UploadOperation` | one upload at a time beside writers without lease | `upload`; `UploadOperationProofs` |
| `CacheGeneration` | generation file, caches, sessions, snapshots | `gen_leased`, `gen_unleased`, `gen_lost`, `snapshot_aba`; `CacheGenerationProofs`, `CacheLeasedProofs` |
| `ReceiptExclusion` | registry, proposal, confirmation, revocation | `receipts`, `receipt_revocation`; `ReceiptExclusionProofs` |
| `PublishedLedger` | the abstract promise of the ledger and its exports | refined by `RefundExport`, in `RefundExportProofs` |
| `RefundLedger` | the GMV refund ledger beside the writers of the revenue | `gmv`; `RefundExportProofs` |
| `RefundExport` | the export builds and displays, composed with the ledger (EXTENDS) | `gmv`; `RefundExportProofs` |
| `ParallelShards` | controller, workers and children of a parallel acceptance run | `shards`; `ParallelShardsProofs` |
| `AgentWorkflow` | the runs of the development workflow and every process that writes them | `workflow`; `AgentWorkflowProofs` |

They fit together through the lease. `UploadLease` shows that the section
between a successful `acquire_upload_lease` and `release` is exclusive
(`ImplementsExclusiveWriter`, `MutualExclusion`); `UploadOperation`,
`CacheGeneration`, `ReceiptExclusion` and `RefundLedger` use exactly that, by
keeping one record or one holder for the call in progress, and give the writers
without lease actions of their own that interleave with everything.
`UploadsAreWriters` proves that for `UploadOperation`: its uploads are operations
of `ExclusiveWriter`.
`ParallelShards` and `AgentWorkflow` stand apart: the acceptance stage of the
workflow sees of a parallel run only whether it passed.

### UploadLease

One call of `acquire_upload_lease` is one operation (the code draws a new
`operation_id` for each); `pc[o]` is where it stands.

| Action | Code |
|---|---|
| `TryFlock` | `_acquire_process_lock`; skipped without `fcntl`, busy, or another error |
| `BeginExclusive` | `sqlite3.connect` and `BEGIN EXCLUSIVE`, which gives up after the busy timeout |
| `UnlockAfterError` | `_release_process_lock` in the handlers of `acquire_upload_lease`, before the exception leaves |
| `Escape`, `Collect` | an exception with no handler (a `DatabaseError` that is no `OperationalError`, an error while the operation is built, a rollback that raises) leaves with the locks; the interpreter closes the handle and the connection when the traceback is dropped |
| `WriteOwner`, `AbortRollback` | `_write_owner` by `os.replace`, or its failure |
| `CompareOwner`, `Unlink` | the two steps of removing the owner file in `release` |
| `ReleaseRollback`, `ReleaseFlock` | the nested `finally` blocks of `release` |
| `Crash` | death of the process; the kernel drops the locks, the file stays |

`probe_upload_lease` is an `acquire` and a `release`, so the health check is one
of the operations. `fcntlHost` is chosen in `Init` and never changes.

### UploadOperation

`job` is the upload that holds the lease, with the locals of
`_commit_matched_upload` that later steps read; `live` is the database file,
with the registry rules and the history in it, because a restore replaces them
all at once. A table is the set of what was merged into it: the initial rows,
the batch of each upload, the repaired rows. The actions from `Begin` to
`Finish` follow `execute_upload_operation` in order; every one that calls
something that may raise has the alternative, and `Die` ends any of them.
`RepairPlan` and `RepairCommit` are the two connections of the repairs;
`PromoteEvaluate` to `PromoteEnd` are `promote_monthly_baselines` with its error
path; `Clear` is `clear_database`. `disturbed` is a history variable: a writer
without lease has changed something since the upload began.

A batch in `Excludable` drifts unless its user confirmed an exclusion; a batch
in `Shifting` changes a month that is still monitored, so it passes the gate
until that month blocks.

### CacheGeneration

The token of `_derived_generation` is a pair of the number in the file and the
signature of the rows. Equal rows have equal signatures: a content is a number,
fresh for each write, and a restore returns to the number of the backup, which
is what makes the token of a rolled-back upload return. `advance` and `refresh`
are three steps each (read the number, sign the rows, replace the file), since
that is where processes interleave; readers read the number and sign the rows
in two steps for the same reason. The rows themselves are two tables which
`load_all_data_from_db` reads one after the other without a transaction, so what
a reader holds is the set of the contents its tables come from: `LoadFacts` and
`LoadOthers` of a session, `BuildFacts`, `ReadFactsOthers`, `BuildQuality` and
`ReadQualityOthers` of a request. Both row properties speak of that set, so they
also say that no page mixes one table from before and one from after an
accepted upload. `undone` remembers the contents a rollback
has taken back, `unretired` that a rollback ended before its new generation was
written, `meddled` whether a writer without the lease has changed rows or the file
since the running upload, or the one that persisted the Beta frames, took its
lease; all three are history variables that no guard reads. `BetaMatchesRows`
needs the last: the frames are keyed by the number alone, a repair followed by
`refresh_cache_generation_signature` (`app_workflows.py:2466`) keeps it, and the
stored frames are then served over the repaired rows.

### ReceiptExclusion

A row has a receipt number, an order, and possibly an excluded kind. `Counted`
is `build_revenue_scope_frames`: one excluded row takes its whole order out.
`Drifts` compares the total of the counted rows of the frozen month with
`Baseline`, as the gate does; `Tolerance` is the difference from which it calls
them different (HKD 1.0). Rows may therefore change as long as their sum does not
move far: `FrozenMonthKept` speaks of the total, and of its sum over any number of
uploads, since each is measured from the baseline and not from the last one.
`Collides` and `RulesFor` are the matcher with its dictionary keyed by receipt
number alone; `Written` is the filter that lets an excluded row in when its
receipt is already stored; `Candidates` and `Touched` are the diagnosis and the
evidence behind a proposal. `shown[s]` and `preview[s]` are what a session was
shown and may confirm in a later call. `SharedOperation` says whether a
confirmation of a revocation carries the operation id of its preview: the tests
of the service do so, both callers in the product do not.

### RefundLedger and RefundExport

A revenue content maps each receipt to the amount of its formal rows and is its
own token; a refund file is a set of observations and its own hash. `merge[s]`
is where the page run of a session stands between the preview and the end of its
build; `Idle` is a page with nothing pending.

| Action | Code |
|---|---|
| `LoadPage`, `Preview` | `_render_gmv_exclusion_tab` loads the frames, `preview_refund_batch` classifies the file against `gmv_refund_current`; conflicts block it |
| `ConfirmDuplicate`, `ConfirmStale`, `ConfirmAccept` | `confirm_refund_batch` under the lease: the receipt of an earlier confirmation, a stale preview, or the checks passed |
| `ConfirmCommit` | the transaction: upsert, retirement, the new version with reconciliation rows from a second read of the revenue, event, batch |
| `Deactivate`, `Rollback`, `RebuildRead`, `RebuildCommit` | `deactivate_gmv_scope`, `rollback_gmv_scope`, `rebuild_gmv_scope` |
| `Upload`, `Repair` | the revenue changes with the lease, or without it |
| `BuildInactive`, `BuildStart`, `BuildSeed` | `build_gmv_formal_artifacts_fast_or_legacy` up to a trusted reference |
| `PublishCandidate`, `BuildFails`, `Fallback`, `FullStart`, `FullEnd` | `_run_fast_export_gate` and the publication, or any exception and what is answered then; a calculation asks whether its version is active when it begins, and may publish after that has ended |
| `ViewScope`, `ViewCache`, `ViewModel` | the page without an upload: scope, cache and `build_active_gmv_read_model`, three reads of the database |

`frames` of a version is the revenue its reconciliation rows were computed from,
which a repair may change after the token was compared; the candidate takes its
totals from them and the comparison with the trusted reference is what keeps a
mixed one from being published.

### ParallelShards

`pc[i]` is where worker thread `i` stands in `one_shard` and
`run_pytest_shard`, `child[i]` the process group of its pytest child. A shard
without tests takes the same callbacks without a child, as in the code.

| Action | Code |
|---|---|
| `Begin`, `Allocate`, `Register`, `Launch` | the start of `one_shard`, `allocate_shard_runtime`, `observe_runtime`, `launch_process_with_port_handoff`, each with its failure |
| `Handshake`, `Wake`, `Start`, `WriteStart` | `complete_port_handoff` with its readiness and start callbacks; a barrier releases its waiters one by one and may be aborted meanwhile |
| `Communicate`, `Cleanup`, `Unregister` | the end or timeout of the child, `cleanup_once`, the registry |
| `ChildReady`, `ChildEnds`, `ChildDies` | the child: adopts its sockets, runs its tests, may leave processes behind |
| `Collect`, `Stop`, `TimeOut`, `EndDrain`, `Assess` | `run_parallel_shards`: `resolve_future`, `terminate_active_runtimes`, the bounded wait, `finish_result` |
| `Exit` | the process ends, and its daemon workers with it |

`expired` is the controller's deadline, which may pass at any moment; every
shorter wait may time out at any moment.

### AgentWorkflow

`proc[p]` is a command-line process, `lock` the pairs of a process and the run
whose `.lock` it holds. The lock is only ever tried. `Stage` is a table of what
each stage writes and where it leads, so `Execute`, `ExecuteFails`,
`CloseArtifact` and `Decide` serve all seven.

| Action | Code |
|---|---|
| `Create`, `Decide`, `Replace` | `start`; a transition appends its event under the lock and then replaces `status.json` |
| `Authorize`, `Approved`, `RefuseApproval`, `AnswerApproval` | `_authorize_approval`: `approval.json`, event and status under one lock |
| `Execute`, `ExecuteFails`, `CloseArtifact` | a gate answers, fails or times out; the artifact and the rewritten status |
| `Document`, `Project`, `WriteEvidence`, `WriteBeside` | the other writers of a run |
| `Inspect`, `SkipLocked`, `Select` | `WorkflowRetention.plan`, at the end of `start` or by command |
| `Compact`, `Summarise`, `Unlink`, `SkipCandidate`, `ApplyRaises` | `WorkflowRetention.apply`, one candidate after the other |
| `LockedOut`, `Stop` | `WorkflowLockedError`; death or an exception nobody catches, at any step |

`implemented`, `sides` and `stops` are history variables: how often the
implementation agent was run, and how many commands and stops have been spent.

## 3. What is checked

| Run | Instance | Shows |
|---|---|---|
| `lease` | three calls, one of them a probe; failures and deaths everywhere | mutual exclusion, both locks given back on every handled path, the owner file explained, refusal only under contention, locks freed again, refinement of `ExclusiveWriter` |
| `upload` | two uploads (a plain batch; one that shifts a monitored month and needs an exclusion), a repair that may run again after a rollback, one promotion, one clear | the answers are true, a rollback keeps confirmed rules, a rollback needs an unleased writer, every upload is answered |
| `gen_leased` | uploads in any number within 2 writes and 2 generations, one session | the session's rows, the retirement of caches by a rollback, a generation that never goes back |
| `gen_unleased` | uploads within 2 writes and 1 generation, one refresher, one request | the rows of a returned snapshot and of the Beta frames, also beside a writer without the lease |
| `receipts` | six rows around one shared receipt and one shared order, two of them below the tolerance, six batches, two users | total of the frozen month, one rule per receipt, rules only advance, no excluded row written |
| `gmv` | two sessions, two files (one whose refund is first pending, then paid on a later date; one whose refund exceeds its receipt), two revenue contents, 2 versions, 3 events, one build or display at a time | the events explain the active version, the newest version has the current refunds, what is published or shown is the full calculation of one version |
| `shards` | two workers, a manifest of one test (an empty shard) or three | tests start together and once, no false claim of termination, the controller returns |
| `workflow` | two processes, two runs of which one is approved, one command beside the orchestrator or one stop | the log explains the status, a claimed stage has its gates, approval and single implementation; retention removes the evidence of the gates only where it may |
| `gen_lost`, `snapshot_aba`, `receipt_revocation` | the smallest instance that has the actors involved | three divergences of section 6 |
| `workflow_retention` | that of `workflow` | the fourth |

Bounds and why they suffice. Three calls of the lease give a holder, a waiter
and a third that arrives when the first ends. Two uploads are what the
properties about a later rollback need: the first is answered, the second rolls
back; a third would repeat the second. In `CacheGeneration`, `MaxContent` bounds
the writes and `MaxNumber` the generations: two writes after the first content
allow one rolled back, whose old token returns, and an accepted one that leaves
it again, in either order; the two numbers cover a rollback's new generation
after an accepted one. With three writes the run has 18.4 million states and
shows no error either, which takes minutes longer than is worth repeating.
The bounds guard `WriteRows` and `AdvanceRead` only, so they stop new work and
never a step under way. The rows of `MCReceiptExclusion` are chosen so that each
relation the code distinguishes occurs: same receipt in the same order and in
another one, same order with another receipt, a harmless row in the same file.
Amounts are in half dollars: `split` and `fixed` are below the tolerance one by one
and reach it together, so a run of uploads that each pass on their own is among the
behaviours. A seventh row, a second payment of the excluded order, gives 1.1 million
states and shows no error either.
In `receipts` the two users are interchangeable: no definition names one of
them, the start state treats them alike and the run checks safety only, so TLC
explores one state of each pair that differs by swapping them
(`SYMMETRY SessionSymmetry`).
In `gmv` two versions are what a rollback, an overtaken preview and a rebuild need,
and three events allow an activation, its successor and one operation on them;
`MaxPages` lets one build or display be in progress beside everything the other
session does with the ledger. With `MaxPages = 2`, where both sessions build or
look at once, the run has 2.1 million states and shows no error either.
In `shards` two workers are the least for a barrier that is aborted while its
waiters wake; one test gives an empty shard, three an uneven split. The safety
properties were also checked with three workers and four tests (9.7 million
states). In `workflow` two runs and `Retain = 1` let retention take an old run and
keep the newer one; `MaxApproved` and `MaxDisturbed` bound how many runs are
approved and how often a command writes beside the orchestrator or a process
stops. The run with two disturbances (4.2 million states) shows no error either.
The sessions of `gmv` and the processes of `workflow` are interchangeable and only
safety is checked there, so these runs use symmetry as well.
The proofs of section 4 drop these bounds for the properties they cover.

Deadlock is checked in `gen_leased`, `receipts`, `gmv` and `workflow`, which run
forever. The other instances end (`CHECK_DEADLOCK FALSE`): every call of the lease or upload happens
once, and a returned request stays returned, and a parallel run
ends with its process.

Fairness. `UploadLease!FairSpec` and `UploadOperation!FairSpec` assume weak
fairness of the steps of a call that has begun: the code waits for nobody
without a timeout (`LOCK_NB`, `busy_timeout`) and leaves the lease through `with`
or `finally`. Nothing assumes that a call begins, that a lock is granted, that
a process survives, or that the interpreter ever collects what an escaped call has
left behind: `LeaseFreedAgain` ends where a call escapes. `LeaseFreedAgain` and `UploadAnswered` need no more; the
safety runs need none. `ParallelShards!Spec` assumes weak fairness of the
controller alone: each of its waits has a timeout, while workers and children may
hang, so `ControllerReturns` needs nothing of them.

Each property of a passing run has a mutant in `PROJECT.json`: a plausible slip
in the code, kept next to the definition it replaces (`Unlink_Empties`,
`Backup_BeforeActivation`, ...), under which the property fails. They document
what the property guards.

## 4. What is proved

The TLA+ proof system checks these for every value of the constants, from the
assumptions on the constants named in the modules. Every safety property of a
passing run is the statement of a theorem, the type invariants included. The
inductive invariants were checked by TLC on the instances of section 3 before
they were proved. How each proof goes:

- `UploadLeaseProofs`: `MutualExclusion`, `LocksGivenBack`,
  `OwnerFileExplained`, `UnlinksOnlyOwnRecord`, `BusyOnlyWhileContended` and
  `ImplementsExclusiveWriter`, for any set of calls; the only assumption is that
  `None` is not a call. Mutual exclusion is not inductive: it
  says nothing of who holds the locks. `LockInv` ties each lock to the program
  counters that may hold it, in both directions, with the flock conditional on
  `fcntlHost`; the exclusive lock alone then carries mutual exclusion. `OwnerInv`
  adds that an operation about to unlink still finds its own record, which holds
  because only a holder of the lock writes the file. The refinement needs
  `LockInv` in one step, `WriteOwner`, which may enter only when nobody is inside;
  every other step of a call leaves, is refused or is not seen (`StepMaps`).

- `UploadOperationProofs`: `RolledBackLeavesNoTrace`, `AnsweredBatchIsWhole`,
  `AcceptedIsKept`, `SuccessIsRecorded`, `RollbackMeansDisturbed` and
  `RulesOutliveRollback`, for any uploads and batches. A restore replaces the whole
  database by the backup, so whatever is claimed of the live rows must hold of the
  backup too: `Kept` is stated of a database and used of both (`BackupRight`). What
  will be claimed once an upload is answered must hold from the step that settles
  the answer (`JobRight`), in between `clear_database` may run and leave half a
  batch, but then the frozen rows are gone and the gate refuses it.
  `PredictionStands` carries the verdict of the preflight on the copy to the gate on
  the live tables for as long as nobody without the lease has interfered.
  `UploadsAreWriters` is a refinement: an upload is an operation of
  `ExclusiveWriter`, whichever step raises, is blocked or dies.

- `CacheGenerationProofs`: `RenderedRowsNamedOrUndone` and
  `SnapshotNamedOrUndone`, for any number of refreshers, sessions, requests,
  writes and generations. The invariant orders contents by age. A cache entry of
  token content `c` holds rows `d` (`Read(c, d)`) that are `c`, or undone, or newer
  while `c` is either undone itself or strictly older than the rows in the
  database. A token that is current again therefore either names the rows of the
  entry or had a rollback in between, which put the rows of the entry into
  `undone`. One lemma per group of steps shows that what is past or read stays so
  under writes and rollbacks (`PastStable`, `ReadStable`). Both properties are
  proved of both tables: the invariant says of every content a reader has read
  from (`ReadAll`) what it said of one, and each table read adds one content that
  is current.

- `CacheLeasedProofs`: `BetaMatchesRows` beside any refreshers, and
  `GenerationNeverGoesBack` and `RollbackRetiresCaches` under the hypothesis
  `Refreshers = {}`. The hypothesis is part of the statement because the run
  `gen_lost` refutes the first of the two without it: a refresh beside the lease may
  put an old number back. Sessions, requests, uploads, writes and generations are
  unbounded. `UploadAhead` says that the number an upload is about to write is the
  file's plus one and that the signature it has made is still that of the rows, as
  long as nobody without the lease has met it; `BetaSigned` that Beta frames nobody
  has met carry the signature of the rows they were made from; `BetaKept` that what
  frames are made of is never newer than the backup a rollback returns to. `Behind`
  says that rows a rollback has taken back are
  only held under a number that is older than the file's once the rollback has its
  generation, by caches and by the readers that are about to fill one.

- `ReceiptExclusionProofs`: `OneActiveRulePerReceipt`, `FrozenMonthKept`,
  `ActivatesOnlyNewRules`, `RulesOnlyAdvance`, `NoActiveRuleWritten`, for any rows,
  receipts, orders, amounts, batches and users, and any baseline and tolerance the
  start state meets (`FrozenAssumption`). They speak of rules and rows at the commit,
  while the checks that protect them were made earlier by the preflight;
  `PickedFits`, `PreparedFits` and `PreparedFree` carry those verdicts along with
  the call until it commits, which works because nobody else writes rules or rows
  while it has the lease.

- `RefundExportProofs`: `EventsExplainActive`, `NewestIsCurrent`, `PublishedIsFull`,
  `ShownIsOfItsRevenue` and `TypeOK`, for any orders, receipts, files, revenue
  contents, sessions and bounds, of the ledger and the exports composed.
  `NewestIsCurrent` needs what a confirmation between its check and its commit, and a
  rebuild between its read and its commit, still know of the current refunds
  (`CheckedHolds`, `RebuildHolds`), and that rests on who has the lease. The builds
  have no lease: what they have read belongs to an immutable version (`MergedKnown`,
  `BuildKnown`, `ViewKnown`), and a reference is the full calculation of its own
  fingerprint (`ReferencesAreFull`), so it does not matter what became current
  meanwhile. Two action properties follow: `VersionsStand`, no step changes what a
  version is of, and `ReportsStand`, no step replaces or removes a published report.
  `ImplementsPublishedLedger` puts them together with `EventsExplainActive` and
  `PublishedIsFull` in a refinement: a commit of a confirmation or a rebuild is
  `Make`, a deactivation or rollback `Enforce`, the first publication of a version
  `Publish`, and everything else, a second publication included, is not seen.
  `TypeOK` bounds sums over the orders and the receipts, which are assumed finite
  (`ExportAssumption`; a database holds finitely many). The sum operator of the
  library is a recursive function over subsets. `SmallestSubset` gives a least
  counterexample, from the well-foundedness of strict inclusion on a finite set, and
  with it the lemmas show that the function exists (`SumsExist`) and what bounds it
  (`SumsNatural`, `SumsBounded`).

- `ParallelShardsProofs`: `SoundRun` and `TerminationClaimTrue`, for any workers and
  any manifest. A test runs only after all workers went through both callbacks
  because the release of the start barrier, which the last arrival causes by counting
  the waiters, is what they remember when they wake one by one (`AllCalled`). What a
  passed run claims rests on what each artifact meant when its worker returned it,
  and on nothing reviving a process group after that.

- `AgentWorkflowProofs`: `LogExplainsStatus` and `GatesPassed`, for any runs,
  processes and limits. A run's lock is held for single writes and so does not keep
  its history straight. What does is that a run has one driver at a time
  (`OneDriver`): its creator, and after the approval the process that approved. A
  driver knows the status without a lock, as nobody else can move it (`PlaceRight`).
  Events no status followed are counted against the processes that stopped
  (`Counted`), so `LogExplainsStatus` allows exactly as many. `StatusesMove` is an
  action property: a run is created once, moves along the legal transitions only
  and stays where it ended, although the status is written a step after it was
  judged and one path judges nothing.

Only model-checked: the liveness properties `LeaseFreedAgain`, `UploadAnswered` and
`ControllerReturns`, which are out of this prover's reach like everything about
fairness. The runs that expect a violation refute a property and have nothing to
prove. What the fast candidate computes is not compared with the full calculation
for all inputs: the proofs need only that a published one matched its reference.

## 5. Abstractions

- Lease: the handlers of `acquire_upload_lease` catch any error of `connect` and of
  the owner file, but of the PRAGMA and `BEGIN EXCLUSIVE` only `OperationalError`
  (line 175). `Escape` is the way past them, so nothing here says that no error
  leaks a lock; how long an escaped call keeps it is the interpreter's matter
  (`Collect`, without fairness). The design
  (`docs/superpowers/specs/2026-07-11-p0-upload-single-writer-contract-design.md:90`)
  wants every release in a `finally`. An unreadable owner file is left in place by `release`, which is the
  second disjunct of `CompareOwner`; closing the connection is part of the
  rollback, and a `finally` step that raises still runs the next one.
- `UploadOperation`: rows are whole batches with disjoint orders; what the gate
  computes is whether the frozen rows are there and whether a blocking month was
  shifted (`ReceiptExclusion` has the amounts and the tolerance). A preflight may fail for any other reason (`raised`). The token that
  spares the repairs a second look is left out: it only skips work.
- `CacheGeneration`: a write yields a content never seen before, so only a restore
  brings a signature back. A signature that cannot be read makes a token of its
  own in the code (`cache_generation_service.py:85-90, 124`: the number and
  `missing`), shared by all contents whose read failed; the models sign every time.
  The two tables are signed in one step: a signature over
  tables of two contents is that of no rows, so its token is never current again
  and its cache entry never found. A read that is under way while a restore
  replaces the file goes on in the old file, which the model allows too, as one
  content among those read. The fingerprint
  of the business rules, part of the facts key, does not change. The read-model
  cache derived from the facts is not kept apart. Each reader is a process of its
  own: the in-process lock per key orders threads of one process, not processes.
  A session that finds an empty database loads nothing and is left out.
- `ReceiptExclusion`: one revenue table and one frozen month; evidence is
  unambiguous, so a proposal offers every excluded row of an order that drives the
  drift; a row and its identity are the same thing; a blocked call changes
  nothing. When the check that drifts is the older core check, the diagnosis
  compares the orders of all months (`drift_diagnosis_service.py:316-317`), and it
  keeps 50 rows; `Touched` is that of a monthly check, uncut (in the run every row
  is of the frozen month, so both agree). `FrozenAssumption`: the database starts
  within the tolerance, as it was when the month was frozen. `unchanged` stands for the equality of the size and time of the
  database file. `Stop` covers a failed activation, an exception, a rollback and
  death, all of which leave rows as they were and rules as activated.

- `RefundLedger`: hashes are the data they hash. The upsert of a known order
  leaves its `refund_date`, while the version's snapshot has the new one
  (`Upsert`); `NewestIsCurrent` therefore speaks of everything but the date. A file
  confirmed before is answered with its old receipt, whatever has become of its
  version (`ConfirmDuplicate`). A file that changes nothing still makes a new
  version. Uploads and repairs are pairs of contents they may lead from and to.
- `RefundExport`: a workbook is the amounts in it; the file-level steps of one
  publication are one step, and `BuildSeed` joins the seed's calculation with the
  write of the reference. A lock file left by a process that died is never broken,
  so its builds take the fallback, which `BuildStart` always allows. A page without
  a usable cache shows no amounts: the model of `build_active_gmv_read_model` then
  lacks `before_gmv`, and the page warns (`app_pages.py:3049-3056, 3217-3221`).
- `ParallelShards`: left out are the identity checks before the start, which ports
  a runtime gets, `KeyboardInterrupt`, a runtime registered twice, and every field
  of an artifact but its verdict and its cleanup.
- `AgentWorkflow`: a payload is whether its gate passes; notifications, the warning
  about the size of a run and the events that are no transitions are left out. The
  age of a run is asked of completed runs only, and the order in which the files of
  a run are unlinked is that of their names. The plan reads a run in the step that
  tries its lock. Retention judges a blocked graph projection in its plan and not
  again when it applies the plan, and so does the model (section 6). Commands that touch no
  file are stuttering steps.

## 6. Findings

1. `gen_lost`: a refresh without the lease is a read-modify-write and may put back
   the number of a generation that has advanced meanwhile.
2. `snapshot_aba`: a snapshot may carry the rows of an upload that was rolled back
   while it was built, since the signature returns and the generation advances
   only after the restore. Proved is the weaker statement that rows other than
   the token's are always rows taken back.
3. `receipt_revocation`: the fingerprint of a revocation preview hashes the
   operation id, and the confirmation runs under another operation, so no
   revocation can be confirmed through the API or the page. The service's tests
   pass one operation to both calls.
4. `workflow_retention`: the contract of the governance graph
   (`docs/agents/NBS_GOVERNANCE_GRAPH_CONTRACT.md:111-114`) lets no apply delete
   the events of a run and keeps every blocked projection; `plan` puts
   `events.jsonl` on the list (lines 161-162) and `apply` unlinks it, which the run
   finds first. The other conjunct is violated as well: with the first left out
   and `MaxDisturbed = 2` TLC finds that a projection that passed when the plan was
   made is replaced by a blocked one, and `apply`, which asks for status, age and
   rank again but not for the graph (209-213), unlinks it; the two projections are
   the two disturbances. `GatesPassed` says nothing of the events.

Not a finding, since no document says what should happen: a restore replaces the
whole file, so it takes back what a writer without the lease has committed since
the backup was made. In `UploadOperation` that is a repair, a promotion's event or
a `clear_database`; `RollbackMeansDisturbed` says that a rollback has such a
writer, or a promotion, before it.

## 7. Not modelled, and the plan

Modelled, checked and proved: lease, upload, generation and caches with two-table
reads, receipt exclusion, GMV ledger and exports, acceptance runner, agent
workflow. What is left, in this order:

1. The other users of the lease as operations of `ExclusiveWriter`, as
   `UploadsAreWriters` does it: a confirmation and a rebuild of `RefundLedger`, a
   confirmation of `ReceiptExclusion`. They need an identity per call, which the
   models so far leave out.
2. The upload's answer and the generation composed in one module: that an
   accepted answer without a cache error has its own token.

Not modelled, and why:

- The row semantics of `upsert_to_db`: an order that moves from one table to the
  other, and rows without an order id. No document says what should become of
  them, so there is nothing to check them against; elsewhere a table is a set of
  batches. For the same reason the merge of the Beta frames stays a replacement.
- A generation file that cannot be read, and the legacy format: the file is only
  ever replaced by a rename.
- `verification_chain.py`, `review_agent_service.py` and the guards validate
  documents; the workflow sees their verdict. The second version of the
  documentation targets and the session binding add files no gate reads.
- The attempt log (`acceptance_attempts.py`) counts attempts for the retries of the
  verification chain, append by append under its own lock; the
  port locks (`acceptance_port_lock.py`) are one flock per reserved port.
- The service manager (`scripts/system_manager.py`) starts and stops the local
  servers by a pid file; it meets the revenue path only in the health report.
- Cleaning pipeline, entity resolution, forecasting and workbook layout are
  numerical functions of spreadsheets without a protocol; pages, API adapters and
  the frontend render; memory hub and sidecar project documents. In the models
  their effect is an input: a batch, a token, a verdict, a click.
