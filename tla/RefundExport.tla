----------------------------- MODULE RefundExport -----------------------------
(***************************************************************************)
(* The export caches of the GMV versions: after a confirmation the page    *)
(* builds both refund dimensions once, by a fast candidate that must match *)
(* a trusted reference, or by the full (legacy) calculation; a page opened *)
(* without an upload shows the cache of the active version.                *)
(* build_gmv_formal_artifacts_fast_or_legacy and what it calls,            *)
(* gmv_export_cache_service.py, gmv_trusted_reference_service.py.          *)
(*                                                                         *)
(* A build holds no lease, so any operation of the ledger may come between *)
(* two of its steps.  Two steps that nobody can observe between are one.   *)
(***************************************************************************)
EXTENDS RefundLedger

CONSTANT MaxPages    \* bound of the builds and views in progress at once

ASSUME ExportAssumption ==
    MaxPages \in Nat /\ IsFiniteSet(Orders) /\ IsFiniteSet(Receipts)

VARIABLES caches,     \* active.json of each version: the report it points to
          references, \* trusted reference of each fingerprint
          build,      \* the build in progress of each page run
          shown       \* what each page run displays

exportVars == <<caches, references, build, shown>>
vars == <<ledgerVars, exportVars>>

Dimensions == {"total", "paid"}

\* deduction: taken from each receipt's rows; applied: the summary's total.
Report == [deduction : [Dimensions -> [Receipts -> 0..MaxAmount]],
           applied : [Dimensions -> 0..(MaxAmount * Cardinality(Receipts))]]

\* What a reference, and so a build, is keyed by.
Fingerprint == [token : Revenues, states : Refunds]

NoBuild == [step |-> "idle"]

\* previous: a ready cache of the version at the start; seed: an unpublished
\* full calculation.
Build == {NoBuild}
    \union [step : {"seed", "gate", "fallback", "full"}, version : 1..MaxVersions,
            frames : Revenues, affected : SUBSET Receipts,
            previous : BOOLEAN, seed : Report \union {None}]

\* A page view: its frames, the scope and the cache it has read, its display.
View == [step : {"loaded", "cached", "displayed"}, frames : Revenues,
         scope : 0..MaxVersions, cache : Report \union {None}, report : Report \union {None}]

ExportTypeOK ==
    /\ \A i \in DOMAIN caches : i \in DOMAIN versions /\ caches[i] \in Report
    /\ \A f \in DOMAIN references : f \in Fingerprint /\ references[f] \in Report
    /\ build \in [Sessions -> Build]
    /\ shown \in [Sessions -> View \union {None}]

TypeOK == LedgerTypeOK /\ ExportTypeOK

Init ==
    /\ LedgerInit
    /\ caches = << >>
    /\ references = << >>
    /\ build = [s \in Sessions |-> NoBuild]
    /\ shown = [s \in Sessions |-> None]

-----------------------------------------------------------------------------
(* The calculation *)

RefundedOf(states, dim, r) ==
    MapThenSumSet(LAMBDA x : states[x].amount,
        {x \in DOMAIN states : states[x].receipt = r
                               /\ (dim = "paid" => states[x].status = "paid")})

\* _apply_gmv_refund_adjustments: a receipt loses at most what it holds.
Applied(frames, states, dim, r) ==
    Min({RefundedOf(states, dim, r), frames[r]})

Summary(frames, states) ==
    [dim \in Dimensions |-> MapThenSumSet(LAMBDA r : Applied(frames, states, dim, r), Receipts)]

FullReport(frames, states) ==
    [deduction |-> [dim \in Dimensions |->
                       [r \in Receipts |-> Applied(frames, states, dim, r)]],
     applied |-> Summary(frames, states)]

\* The fast candidate: deductions of the affected receipts only, the totals
\* from the version's reconciliation rows; everything when none is affected.
Candidate(frames, version, affected) ==
    IF affected = {} THEN FullReport(frames, version.states)
    ELSE [deduction |-> [dim \in Dimensions |->
             [r \in Receipts |-> IF r \in affected
                                 THEN Applied(frames, version.states, dim, r) ELSE 0]],
          applied |-> Summary(version.frames, version.states)]

FingerprintOf(i) == [token |-> versions[i].token, states |-> versions[i].states]

-----------------------------------------------------------------------------
(* The build after a confirmation: whether the version is active is asked   *)
(* when a calculation begins, not when its result is written or published. *)

Go(s, step) == build' = [build EXCEPT ![s].step = step]

EndBuild(s) == build' = [build EXCEPT ![s] = NoBuild]

PageFree ==
    Cardinality({s \in Sessions : build[s] # NoBuild \/ shown[s] # None}) < MaxPages

Begin(s, step, previous) ==
    /\ merge[s].step = "merged" /\ PageFree
    /\ merge' = [merge EXCEPT ![s] = Idle]
    /\ build' = [build EXCEPT ![s] =
          [step |-> step, version |-> merge[s].version, frames |-> merge[s].frames,
           affected |-> merge[s].affected, previous |-> previous, seed |-> None]]
    /\ UNCHANGED <<revenue, ledger, lease, rebuild, caches, shown>>

\* The version is looked up before its cache and its reference are: if it is
\* not active the fallback knows of no cache.
BuildInactive(s) ==
    /\ merge[s].step = "merged" /\ merge[s].version # Active
    /\ Begin(s, "fallback", FALSE)
    /\ UNCHANGED references

\* A reference that fails its checks is unlinked and counts as missing; a
\* lock that cannot be had (a process that died inside it leaves it behind)
\* ends in the fallback.
BuildStart(s) ==
    /\ merge[s].step = "merged" /\ merge[s].version = Active
    /\ LET f == FingerprintOf(Active)
           cached == Active \in DOMAIN caches
       IN  \/ Begin(s, "fallback", cached) /\ UNCHANGED references
           \/ f \in DOMAIN references /\ Begin(s, "gate", cached) /\ UNCHANGED references
           \/ /\ Begin(s, "seed", cached)
              /\ references' = [g \in DOMAIN references \ {f} |-> references[g]]

\* build_gmv_formal_artifacts, not published, is the full calculation over
\* the frames the page loaded; write_trusted_reference keeps the reference of
\* the first valid writer.  The write may fail and leave only the seed.
BuildSeed(s) ==
    /\ build[s].step = "seed"
    /\ LET i == build[s].version
           f == FingerprintOf(i)
           seed == FullReport(build[s].frames, versions[i].states)
           Seeded(step) == build' = [build EXCEPT ![s].step = step, ![s].seed = seed]
       IN  \/ /\ references' = [g \in DOMAIN references \union {f} |->
                    IF g \in DOMAIN references THEN references[g] ELSE seed]
              /\ Seeded("gate")
           \/ UNCHANGED references /\ Seeded("fallback")
    /\ UNCHANGED <<ledgerVars, caches, shown>>

Matches_AnyReference(s) == FingerprintOf(build[s].version) \in DOMAIN references
Matches(s) ==
    LET i == build[s].version
    IN  /\ FingerprintOf(i) \in DOMAIN references
        /\ references[FingerprintOf(i)] =
              Candidate(build[s].frames, versions[i], build[s].affected)

SetCache(i, report) ==
    caches' = [j \in DOMAIN caches \union {i} |-> IF j = i THEN report ELSE caches[j]]

\* _run_fast_export_gate and the publication of its candidate.
PublishCandidate(s) ==
    /\ build[s].step = "gate"
    /\ Matches(s)
    /\ SetCache(build[s].version,
          Candidate(build[s].frames, versions[build[s].version], build[s].affected))
    /\ EndBuild(s)
    /\ UNCHANGED <<ledgerVars, references, shown>>

\* Any exception: a version that is no longer active, a lock timeout, a
\* mismatch, a baseline or a serializer that does not pass, a failed write.
\* An artifact that fails to be written leaves no seed.
BuildFails(s) ==
    /\ build[s].step \in {"seed", "gate"}
    /\ Go(s, "fallback")
    /\ UNCHANGED <<ledgerVars, caches, references, shown>>

\* The cached report is answered as it is, else the seed is published, else
\* the full calculation is made again, or refused: the version is not active.
Fallback(s) ==
    /\ build[s].step = "fallback"
    /\ LET i == build[s].version
       IN  \/ build[s].previous /\ UNCHANGED caches
           \/ ~build[s].previous /\ build[s].seed # None /\ SetCache(i, build[s].seed)
           \/ /\ ~build[s].previous /\ build[s].seed = None /\ i # Active
              /\ UNCHANGED caches
    /\ EndBuild(s)
    /\ UNCHANGED <<ledgerVars, references, shown>>

FullStart(s) ==
    /\ build[s].step = "fallback"
    /\ ~build[s].previous /\ build[s].seed = None /\ build[s].version = Active
    /\ Go(s, "full")
    /\ UNCHANGED <<ledgerVars, caches, references, shown>>

FullEnd(s) ==
    /\ build[s].step = "full"
    /\ LET i == build[s].version
       IN  SetCache(i, FullReport(build[s].frames, versions[i].states))
    /\ EndBuild(s)
    /\ UNCHANGED <<ledgerVars, references, shown>>

\* The process dies, or the full calculation fails.
BuildCrash(s) ==
    /\ build[s].step # "idle"
    /\ EndBuild(s)
    /\ UNCHANGED <<ledgerVars, caches, references, shown>>

-----------------------------------------------------------------------------
(* The page without an upload *)

ViewScope(s) ==
    /\ merge[s].step = "loaded" /\ PageFree
    /\ shown' = [shown EXCEPT ![s] =
          IF Active = 0 THEN None
          ELSE [step |-> "loaded", frames |-> merge[s].frames, scope |-> Active,
                cache |-> None, report |-> None]]
    /\ merge' = [merge EXCEPT ![s] = Idle]
    /\ UNCHANGED <<revenue, ledger, lease, rebuild, caches, references, build>>

\* load_gmv_export_cache: the cache key holds the token of the page's frames.
CacheOf_VersionOnly(i, token) ==
    IF i \in DOMAIN caches THEN caches[i] ELSE None
CacheOf(i, token) ==
    IF i \in DOMAIN caches /\ versions[i].token = token THEN caches[i] ELSE None

ViewCache(s) ==
    /\ shown[s] # None /\ shown[s].step = "loaded"
    /\ shown' = [shown EXCEPT ![s].step = "cached",
                    ![s].cache = CacheOf(shown[s].scope, shown[s].frames)]
    /\ UNCHANGED <<ledgerVars, caches, references, build>>

\* build_active_gmv_read_model looks the active version up again; none or
\* another token shows no amounts.  Without a cache it calculates them, but not
\* the revenue before refunds, and the page warns and shows none either.
ViewModel(s) ==
    /\ shown[s] # None /\ shown[s].step = "cached"
    /\ shown' = [shown EXCEPT ![s].step = "displayed", ![s].report =
          IF Active = 0 \/ versions[Active].token # shown[s].frames THEN None
          ELSE shown[s].cache]
    /\ UNCHANGED <<ledgerVars, caches, references, build>>

ClosePage(s) ==
    /\ shown[s] # None
    /\ shown' = [shown EXCEPT ![s] = None]
    /\ UNCHANGED <<ledgerVars, caches, references, build>>

ExportNext ==
    \E s \in Sessions :
        \/ BuildInactive(s) \/ BuildStart(s) \/ BuildSeed(s)
        \/ PublishCandidate(s) \/ BuildFails(s) \/ Fallback(s)
        \/ FullStart(s) \/ FullEnd(s) \/ BuildCrash(s)
        \/ ViewScope(s) \/ ViewCache(s) \/ ViewModel(s) \/ ClosePage(s)

\* A session runs one script at a time: it loads the page again only when
\* its build has ended and what it displayed is gone.
OneRun ==
    \A s \in Sessions :
        merge'[s] # merge[s] => build[s] = NoBuild /\ shown[s] = None

Next ==
    \/ LedgerNext /\ OneRun /\ UNCHANGED exportVars
    \/ ExportNext

Spec == Init /\ [][Next]_vars

-----------------------------------------------------------------------------
(* Properties *)

\* Whatever a build went through, every published report is the full
\* calculation of its version's refunds over the revenue of its token, even
\* when the version's reconciliation rows come from revenue that a repair
\* changed under the confirmation.
PublishedIsFull ==
    \A i \in DOMAIN caches :
        caches[i] = FullReport(versions[i].token, versions[i].states)

\* A page never shows amounts of another revenue than the one it loaded, nor
\* amounts that are those of no version with that token.
ShownIsOfItsRevenue ==
    \A s \in Sessions :
        shown[s] # None /\ shown[s].report # None =>
            \E i \in DOMAIN versions :
                /\ versions[i].token = shown[s].frames
                /\ shown[s].report = FullReport(shown[s].frames, versions[i].states)

=============================================================================
