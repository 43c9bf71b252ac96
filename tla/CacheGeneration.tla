--------------------------- MODULE CacheGeneration ---------------------------
(***************************************************************************)
(* The generation file and the caches keyed by it:                         *)
(* backend/services/cache_generation_service.py, dashboard_facts_service   *)
(* and data_quality_service, application_snapshot_service, and the session *)
(* cache of app_workflows.py.                                              *)
(*                                                                         *)
(* A cache token is the generation number of the file together with the    *)
(* signature of the revenue rows in the database.  The signature of equal  *)
(* rows is equal, so a rollback brings the old signature back: a content   *)
(* is a number, a fresh one for each write, and a restore returns to the   *)
(* content of the backup.                                                  *)
(*                                                                         *)
(* An upload holds the lease; the refreshers (repairs before a page load,  *)
(* promote_monthly_baselines, clear_database) and the readers (Streamlit   *)
(* sessions, snapshot requests of the API) hold none.  Every reader is a   *)
(* process of its own.  Calls are modelled as they are: the file is read,  *)
(* the rows are signed and the file is replaced in three steps, and an     *)
(* error or a crash may end a writer between any two.  The rows of a       *)
(* reader are two tables read one after the other without a transaction:   *)
(* they are the set of the contents they come from, {} before any is read. *)
(***************************************************************************)
EXTENDS Integers

CONSTANTS Refreshers,   \* writers without the lease, one call each
          Sessions,     \* Streamlit sessions
          Requests,     \* snapshot requests, one each
          MaxContent,   \* bound on the writes to the database
          MaxNumber,    \* bound on the generation numbers
          None          \* no number, no signature

ASSUME BoundsAssumption ==
    /\ MaxContent \in Nat
    /\ MaxNumber \in Nat
    /\ None \notin Int
    /\ Sessions \intersect Requests = {}

VARIABLES content,      \* the rows now in the database
          fresh,        \* the last content written
          undone,       \* contents a rollback has taken back
          file,         \* data_generation.json
          beta,         \* the Beta seller scope frames on disk
          facts,        \* the facts cache on disk
          quality,      \* the data quality cache on disk
          upload,       \* the upload holding the lease
          refresher,    \* each refresher
          session,      \* each Streamlit session
          request,      \* each snapshot request
          unretired,    \* whether a rollback ended without its new generation
          meddled       \* whom a writer without the lease has met: the upload since
                        \* it took the lease, the stored Beta frames since their
                        \* upload did

vars == <<content, fresh, undone, file, beta, facts, quality, upload, refresher,
          session, request, unretired, meddled>>

Contents == 0 .. MaxContent

Numbers == 0 .. MaxNumber

Tokens == Numbers \X Contents

\* The contents the two tables of a reader come from.
Rows == SUBSET Contents

Cache == [Tokens -> Rows]

Generation == [number : Numbers, signature : Contents \union {None}]

UploadStages == {"idle", "write", "gate", "advance", "sign", "replace", "reload",
                 "persist", "persistUnnumbered", "refresh", "refreshSign", "refreshReplace"}

RefresherStages == {"start", "refresh", "refreshSign", "refreshReplace", "done"}

\* A reader reads the number, then signs the rows: its token.  It looks the
\* token up in a cache, or reads both tables and saves them under the token.
SessionStages == {"load", "loadSign", "facts", "others", "save", "loaded", "checkSign", "render"}

RequestStages == {"start", "startSign", "facts", "factsOthers", "saveFacts",
                  "quality", "qualityOthers", "saveQuality",
                  "end", "endSign", "returned", "conflict"}

Frames == [number : Numbers \union {None}, content : Contents]

UploadCall == [stage : UploadStages, base : Contents, restored : BOOLEAN,
               number : Numbers \union {None}, signature : Contents]

RefreshCall == [stage : RefresherStages, number : Numbers, signature : Contents]

SessionState == [stage : SessionStages, number : Numbers, token : Tokens,
                 data : Rows]

RequestState == [stage : RequestStages, attempt : {1, 2}, number : Numbers, token : Tokens,
                 facts : Rows, quality : Rows]

TypeOK ==
    /\ content \in Contents /\ fresh \in Contents
    /\ undone \subseteq Contents
    /\ file \in Generation
    /\ beta \in Frames
    /\ facts \in Cache /\ quality \in Cache
    /\ upload \in UploadCall
    /\ refresher \in [Refreshers -> RefreshCall]
    /\ session \in [Sessions -> SessionState]
    /\ request \in [Requests -> RequestState]
    /\ unretired \in BOOLEAN
    /\ meddled \subseteq {"upload", "beta"}

NoUpload == [stage |-> "idle", base |-> 0, restored |-> FALSE, number |-> None,
             signature |-> 0]

Init ==
    /\ content = 0 /\ fresh = 0 /\ undone = {}
    /\ file = [number |-> 0, signature |-> None]
    /\ beta = [number |-> None, content |-> 0]
    /\ facts = [t \in Tokens |-> {}]
    /\ quality = [t \in Tokens |-> {}]
    /\ upload = NoUpload
    /\ refresher = [r \in Refreshers |-> [stage |-> "start", number |-> 0, signature |-> 0]]
    /\ session = [s \in Sessions |->
                    [stage |-> "load", number |-> 0, token |-> <<0, 0>>, data |-> {}]]
    /\ request = [q \in Requests |->
                    [stage |-> "start", attempt |-> 1, number |-> 0, token |-> <<0, 0>>,
                     facts |-> {}, quality |-> {}]]
    /\ unretired = FALSE /\ meddled = {}

Database == <<content, fresh, undone>>

Caches == <<facts, quality>>

Reading == <<session, request>>

\* What no guard reads.
History == <<unretired, meddled>>

WriteRows ==
    /\ fresh < MaxContent
    /\ fresh' = fresh + 1
    /\ content' = fresh + 1
    /\ UNCHANGED undone

-----------------------------------------------------------------------------
(* The upload holding the lease *)

\* The restored rows have no generation of their own yet.
RetirementDue == upload.restored /\ upload.stage \in {"advance", "sign", "replace"}

\* acquire_upload_lease and hot_backup_database.
BeginUpload ==
    /\ upload.stage = "idle"
    /\ upload' = [NoUpload EXCEPT !.stage = "write", !.base = content]
    /\ meddled' = meddled \ {"upload"}
    /\ UNCHANGED <<Database, file, beta, Caches, refresher, Reading, unretired>>

\* upsert_to_db; the tables are committed one after the other.
UpsertRows ==
    /\ upload.stage = "write"
    /\ WriteRows
    /\ upload' \in {upload, [upload EXCEPT !.stage = "gate"]}
    /\ UNCHANGED <<file, beta, Caches, refresher, Reading, History>>

Accept ==
    /\ upload.stage = "gate"
    /\ upload' = [upload EXCEPT !.stage = "advance"]
    /\ UNCHANGED <<Database, file, beta, Caches, refresher, Reading, History>>

\* handle_core_drift_rollback: the rows of the backup are back, and all that
\* was written since the backup is undone.
Restore ==
    /\ upload.stage = "gate"
    /\ content' = upload.base
    /\ undone' = undone \union (upload.base + 1 .. fresh)
    /\ upload' = [upload EXCEPT !.stage = "advance", !.restored = TRUE]
    /\ UNCHANGED <<fresh, file, beta, Caches, refresher, Reading, History>>

\* advance_cache_generation reads the number it counts from...
AdvanceRead_Refreshing ==
    /\ upload.stage = "advance"
    /\ upload' = [upload EXCEPT !.stage = "sign", !.number = file.number]
    /\ UNCHANGED <<Database, file, beta, Caches, refresher, Reading, History>>
AdvanceRead_TakesBack ==
    /\ upload.stage = "advance"
    /\ file.number < MaxNumber
    /\ upload' = [upload EXCEPT !.stage = "sign",
                                !.number = IF ~upload.restored THEN file.number + 1
                                           ELSE IF file.number = 0 THEN 0 ELSE file.number - 1]
    /\ UNCHANGED <<Database, file, beta, Caches, refresher, Reading, History>>
AdvanceRead ==
    /\ upload.stage = "advance"
    /\ file.number < MaxNumber
    /\ upload' = [upload EXCEPT !.stage = "sign", !.number = file.number + 1]
    /\ UNCHANGED <<Database, file, beta, Caches, refresher, Reading, History>>

\* ... signs the rows ...
AdvanceSign ==
    /\ upload.stage = "sign"
    /\ upload' = [upload EXCEPT !.stage = "replace", !.signature = content]
    /\ UNCHANGED <<Database, file, beta, Caches, refresher, Reading, History>>

\* ... and replaces the file.
AdvanceReplace ==
    /\ upload.stage = "replace"
    /\ file' = [number |-> upload.number, signature |-> upload.signature]
    /\ upload' = [upload EXCEPT !.stage = IF upload.restored THEN "refresh" ELSE "reload"]
    /\ UNCHANGED <<Database, beta, Caches, refresher, Reading, History>>

\* The generation advance_cache_generation returns: the number counts for the
\* Beta frames only when the rows are the signed ones.
AdvanceReload ==
    /\ upload.stage = "reload"
    /\ upload' = [upload EXCEPT !.stage = "persist",
                                !.number = IF file.signature = content THEN file.number
                                           ELSE None]
    /\ UNCHANGED <<Database, file, beta, Caches, refresher, Reading, History>>

\* An error in advance_cache_generation: the Beta frames of an accepted upload
\* are persisted without a number, and the refresh is skipped.
AdvanceError_StillRefreshes ==
    /\ upload.stage \in {"advance", "sign", "replace", "reload"}
    /\ upload' = [upload EXCEPT !.stage = "persist", !.number = None]
    /\ UNCHANGED <<Database, file, beta, Caches, refresher, Reading, History>>
AdvanceError ==
    /\ upload.stage \in {"advance", "sign", "replace", "reload"}
    /\ ~upload.restored
    /\ upload' = [upload EXCEPT !.stage = "persistUnnumbered", !.number = None]
    /\ UNCHANGED <<Database, file, beta, Caches, refresher, Reading, History>>

\* persist_beta_seller_scope_frames, or its error.
PersistBeta ==
    /\ upload.stage \in {"persist", "persistUnnumbered"}
    /\ \/ /\ beta' = [number |-> upload.number, content |-> upload.signature]
          /\ meddled' = IF "upload" \in meddled THEN {"upload", "beta"} ELSE {}
       \/ UNCHANGED <<beta, meddled>>
    /\ upload' = IF upload.stage = "persist" THEN [upload EXCEPT !.stage = "refresh"]
                 ELSE NoUpload
    /\ UNCHANGED <<Database, file, Caches, refresher, Reading, unretired>>

\* refresh_cache_generation_signature after the stability history is stored.
RefreshRead ==
    /\ upload.stage = "refresh"
    /\ upload' = [upload EXCEPT !.stage = "refreshSign", !.number = file.number]
    /\ UNCHANGED <<Database, file, beta, Caches, refresher, Reading, History>>

RefreshSign ==
    /\ upload.stage = "refreshSign"
    /\ upload' = [upload EXCEPT !.stage = "refreshReplace", !.signature = content]
    /\ UNCHANGED <<Database, file, beta, Caches, refresher, Reading, History>>

RefreshReplace ==
    /\ upload.stage = "refreshReplace"
    /\ file' = [number |-> upload.number, signature |-> upload.signature]
    /\ upload' = NoUpload
    /\ UNCHANGED <<Database, beta, Caches, refresher, Reading, History>>

\* The upload ends early: by an error, which is only reported, or because its
\* process died.
EndUpload ==
    /\ upload.stage # "idle"
    /\ unretired' = (unretired \/ RetirementDue)
    /\ upload' = NoUpload
    /\ UNCHANGED <<Database, file, beta, Caches, refresher, Reading, meddled>>

Upload ==
    \/ BeginUpload \/ UpsertRows \/ Accept \/ Restore
    \/ AdvanceRead \/ AdvanceSign \/ AdvanceReplace \/ AdvanceReload \/ AdvanceError
    \/ PersistBeta
    \/ RefreshRead \/ RefreshSign \/ RefreshReplace
    \/ EndUpload

-----------------------------------------------------------------------------
(* Writers without the lease *)

\* The repair, or nothing for the promotion, whose rows stay the same;
\* clear_database ends here.
ChangeRows(r) ==
    /\ refresher[r].stage = "start"
    /\ refresher' = [refresher EXCEPT ![r].stage = "refresh"]
    /\ \/ WriteRows /\ meddled' = {"upload", "beta"}
       \/ UNCHANGED <<Database, meddled>>
    /\ UNCHANGED <<file, beta, Caches, upload, Reading, unretired>>

UnleasedRead(r) ==
    /\ refresher[r].stage = "refresh"
    /\ refresher' = [refresher EXCEPT ![r].stage = "refreshSign", ![r].number = file.number]
    /\ UNCHANGED <<Database, file, beta, Caches, upload, Reading, History>>

UnleasedSign(r) ==
    /\ refresher[r].stage = "refreshSign"
    /\ refresher' = [refresher EXCEPT ![r].stage = "refreshReplace", ![r].signature = content]
    /\ UNCHANGED <<Database, file, beta, Caches, upload, Reading, History>>

UnleasedReplace(r) ==
    /\ refresher[r].stage = "refreshReplace"
    /\ file' = [number |-> refresher[r].number, signature |-> refresher[r].signature]
    /\ refresher' = [refresher EXCEPT ![r].stage = "done"]
    /\ meddled' = {"upload", "beta"}
    /\ UNCHANGED <<Database, beta, Caches, upload, Reading, unretired>>

Refresh(r) == ChangeRows(r) \/ UnleasedRead(r) \/ UnleasedSign(r) \/ UnleasedReplace(r)

-----------------------------------------------------------------------------
(* Streamlit sessions: _invalidate_session_cache_if_generation_changed, then *)
(* _load_and_compute_cache when nothing is loaded                            *)

Writing == <<content, fresh, undone, file, beta, upload, refresher, unretired, meddled>>

\* A script run begins: the number of the token to compare with.
CheckNumber(s) ==
    /\ session[s].stage \in {"loaded", "render"}
    /\ session' = [session EXCEPT ![s].stage = "checkSign", ![s].number = file.number]
    /\ UNCHANGED <<Writing, Caches, request>>

\* The page is rendered from the session, unless the token has changed.
CheckToken_NumberOnly(s) ==
    /\ session[s].stage = "checkSign"
    /\ session' = [session EXCEPT ![s].stage =
                     IF session[s].token[1] = session[s].number THEN "render" ELSE "load",
                   ![s].token = <<session[s].number, content>>]
    /\ UNCHANGED <<Writing, Caches, request>>
CheckToken(s) ==
    /\ session[s].stage = "checkSign"
    /\ LET current == <<session[s].number, content>>
       IN  session' = [session EXCEPT
             ![s] = IF @.token = current THEN [@ EXCEPT !.stage = "render"]
                    ELSE [@ EXCEPT !.stage = "load", !.token = current, !.data = {}]]
    /\ UNCHANGED <<Writing, Caches, request>>

LoadNumber(s) ==
    /\ session[s].stage = "load"
    /\ session' = [session EXCEPT ![s].stage = "loadSign", ![s].number = file.number]
    /\ UNCHANGED <<Writing, Caches, request>>

LoadToken(s) ==
    /\ session[s].stage = "loadSign"
    /\ session' = [session EXCEPT ![s].stage = "facts",
                                  ![s].token = <<session[s].number, content>>]
    /\ UNCHANGED <<Writing, Caches, request>>

\* build_dashboard_facts: a hit, or the tour table as it is now ...
LoadFacts(s) ==
    /\ session[s].stage = "facts"
    /\ LET hit == facts[session[s].token]
       IN  session' = [session EXCEPT
             ![s].stage = IF hit # {} THEN "loaded" ELSE "others",
             ![s].data = IF hit # {} THEN hit ELSE {content}]
    /\ UNCHANGED <<Writing, Caches, request>>

\* ... and the other one as it is when that has been read.
LoadOthers(s) ==
    /\ session[s].stage = "others"
    /\ session' = [session EXCEPT ![s].stage = "save", ![s].data = @ \union {content}]
    /\ UNCHANGED <<Writing, Caches, request>>

SaveFacts(s) ==
    /\ session[s].stage = "save"
    /\ facts' = [facts EXCEPT ![session[s].token] = session[s].data]
    /\ session' = [session EXCEPT ![s].stage = "loaded"]
    /\ UNCHANGED <<Writing, quality, request>>

Session(s) ==
    \/ CheckNumber(s) \/ CheckToken(s)
    \/ LoadNumber(s) \/ LoadToken(s) \/ LoadFacts(s) \/ LoadOthers(s) \/ SaveFacts(s)

-----------------------------------------------------------------------------
(* ApplicationSnapshotService.build: two attempts *)

StartNumber(q) ==
    /\ request[q].stage = "start"
    /\ request' = [request EXCEPT ![q].stage = "startSign", ![q].number = file.number]
    /\ UNCHANGED <<Writing, Caches, session>>

StartToken(q) ==
    /\ request[q].stage = "startSign"
    /\ request' = [request EXCEPT ![q].stage = "facts",
                                  ![q].token = <<request[q].number, content>>]
    /\ UNCHANGED <<Writing, Caches, session>>

\* The facts, and after them the quality report: each from its cache or from
\* the two tables, each as it is when it is read.
BuildFacts(q) ==
    /\ request[q].stage = "facts"
    /\ LET hit == facts[request[q].token]
       IN  request' = [request EXCEPT
             ![q].stage = IF hit # {} THEN "quality" ELSE "factsOthers",
             ![q].facts = IF hit # {} THEN hit ELSE {content}]
    /\ UNCHANGED <<Writing, Caches, session>>

ReadFactsOthers(q) ==
    /\ request[q].stage = "factsOthers"
    /\ request' = [request EXCEPT ![q].stage = "saveFacts", ![q].facts = @ \union {content}]
    /\ UNCHANGED <<Writing, Caches, session>>

SaveRequestFacts(q) ==
    /\ request[q].stage = "saveFacts"
    /\ facts' = [facts EXCEPT ![request[q].token] = request[q].facts]
    /\ request' = [request EXCEPT ![q].stage = "quality"]
    /\ UNCHANGED <<Writing, quality, session>>

BuildQuality(q) ==
    /\ request[q].stage = "quality"
    /\ LET hit == quality[request[q].token]
       IN  request' = [request EXCEPT
             ![q].stage = IF hit # {} THEN "end" ELSE "qualityOthers",
             ![q].quality = IF hit # {} THEN hit ELSE {content}]
    /\ UNCHANGED <<Writing, Caches, session>>

ReadQualityOthers(q) ==
    /\ request[q].stage = "qualityOthers"
    /\ request' = [request EXCEPT ![q].stage = "saveQuality",
                                  ![q].quality = @ \union {content}]
    /\ UNCHANGED <<Writing, Caches, session>>

SaveQuality(q) ==
    /\ request[q].stage = "saveQuality"
    /\ quality' = [quality EXCEPT ![request[q].token] = request[q].quality]
    /\ request' = [request EXCEPT ![q].stage = "end"]
    /\ UNCHANGED <<Writing, facts, session>>

EndNumber(q) ==
    /\ request[q].stage = "end"
    /\ request' = [request EXCEPT ![q].stage = "endSign", ![q].number = file.number]
    /\ UNCHANGED <<Writing, Caches, session>>

\* The snapshot is returned when the token is the one it started with; after
\* two attempts the request ends in SnapshotGenerationConflict.
EndToken_LastAttemptReturns(q) ==
    /\ request[q].stage = "endSign"
    /\ request' = [request EXCEPT
         ![q] = IF @.token = <<@.number, content>> \/ @.attempt = 2
                  THEN [@ EXCEPT !.stage = "returned"]
                  ELSE [@ EXCEPT !.stage = "start", !.attempt = 2]]
    /\ UNCHANGED <<Writing, Caches, session>>
EndToken_ThreeAttempts(q) ==
    /\ request[q].stage = "endSign"
    /\ request' = [request EXCEPT
         ![q] = IF @.token = <<@.number, content>> THEN [@ EXCEPT !.stage = "returned"]
                ELSE [@ EXCEPT !.stage = "start", !.attempt = @ + 1]]
    /\ UNCHANGED <<Writing, Caches, session>>
EndToken(q) ==
    /\ request[q].stage = "endSign"
    /\ request' = [request EXCEPT
         ![q] = CASE @.token = <<@.number, content>> -> [@ EXCEPT !.stage = "returned"]
                  [] @.token # <<@.number, content>> /\ @.attempt = 1 ->
                       [@ EXCEPT !.stage = "start", !.attempt = 2]
                  [] OTHER -> [@ EXCEPT !.stage = "conflict"]]
    /\ UNCHANGED <<Writing, Caches, session>>

Request(q) ==
    \/ StartNumber(q) \/ StartToken(q)
    \/ BuildFacts(q) \/ ReadFactsOthers(q) \/ SaveRequestFacts(q)
    \/ BuildQuality(q) \/ ReadQualityOthers(q) \/ SaveQuality(q)
    \/ EndNumber(q) \/ EndToken(q)

-----------------------------------------------------------------------------

Next ==
    \/ Upload
    \/ \E r \in Refreshers : Refresh(r)
    \/ \E s \in Sessions : Session(s)
    \/ \E q \in Requests : Request(q)

Spec == Init /\ [][Next]_vars

-----------------------------------------------------------------------------
(* Properties *)

CurrentToken == <<file.number, content>>

\* A page rendered from the session after its check shows in both tables the
\* rows its token names, or rows a rollback has taken back: never rows simply
\* superseded, nor one table from before and one from after an upload.
RenderedRowsNamedOrUndone ==
    \A s \in Sessions :
        session[s].stage = "render" =>
            session[s].data \subseteq {session[s].token[2]} \union undone

\* A snapshot answered as consistent has facts and quality of the rows its
\* token names, or of rows that a rollback has taken back, in both tables.
SnapshotNamedOrUndone ==
    \A q \in Requests :
        request[q].stage = "returned" =>
            request[q].facts \union request[q].quality \subseteq
                {request[q].token[2]} \union undone

\* The new generation of a verified rollback retires the cache entries that
\* hold the rows it has taken back: under the current token there are none,
\* but between a restore and its generation, or when that one failed.
RollbackRetiresCaches ==
    \/ unretired
    \/ RetirementDue
    \/ (facts[CurrentToken] \union quality[CurrentToken]) \intersect undone = {}

\* load_beta_seller_scope_frames serves the stored frames when their number is
\* that of the generation file and the rows are signed.  They are then frames of
\* the rows in the database, unless a writer without the lease has changed rows
\* or the file since the upload that persisted them took the lease: a repair
\* keeps the number, and the frames go on being served over the repaired rows.
\* Frames of rows a rollback has taken back are never stored.
BetaMatchesRows ==
    /\ "beta" \notin meddled /\ beta.number = file.number /\ file.signature = content =>
          beta.content = content
    /\ beta.content \notin undone

\* The generation number never goes back: accepted uploads and verified
\* rollbacks advance it, a refresh keeps it.
GenerationNeverGoesBack == [][file'.number >= file.number]_vars

\* A snapshot answered as consistent was built while the data generation did
\* not change: its facts and quality are of the rows its token names.
SnapshotIsConsistent ==
    \A q \in Requests :
        request[q].stage = "returned" =>
            request[q].facts \union request[q].quality = {request[q].token[2]}
=============================================================================
