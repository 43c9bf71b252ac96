------------------------ MODULE CacheGenerationProofs ------------------------
(***************************************************************************)
(* Proofs about CacheGeneration for any number of refreshers, sessions and *)
(* requests and any bounds: what a reader shows is named by its token or   *)
(* was taken back by a rollback.                                           *)
(*                                                                         *)
(* The argument: contents only grow, but for a rollback, which undoes all  *)
(* that is newer than its backup.  A cache entry whose rows are not those  *)
(* of its key is therefore of a key that cannot be current again (its      *)
(* content is undone, or older than the rows now in the database), unless  *)
(* a rollback brings it back; but then the rows of the entry are undone.   *)
(***************************************************************************)
EXTENDS CacheGeneration, TLAPS

\* The signature of a token has been that of the database.
Past(c) == c <= content \/ c \in undone

\* Rows of content d may have been read for a token of content c.
Read(c, d) ==
    /\ d \in Contents /\ d <= fresh
    /\ \/ d = c
       \/ d \in undone
       \/ c \in undone
       \/ c < d /\ c < content

\* The two tables that were read for a token, each as it was at its time.
ReadAll(c, rows) == \A d \in rows : Read(c, d)

UploadNumbered ==
    upload.stage \in {"sign", "replace", "refreshSign", "refreshReplace"} =>
        upload.number \in Numbers

HistoryOrdered ==
    /\ content <= fresh
    /\ content \notin undone
    /\ 0 \notin undone
    /\ undone \subseteq 0 .. fresh
    /\ upload.base <= fresh
    /\ upload.base \notin undone

CacheRead(cache) == \A t \in Tokens : ReadAll(t[2], cache[t])

\* What a session has loaded and shows.
SessionOf(s) ==
    /\ session[s].stage \notin {"load", "loadSign"} => Past(session[s].token[2])
    /\ session[s].stage \in {"others", "save", "loaded", "checkSign", "render"} =>
          ReadAll(session[s].token[2], session[s].data)
    /\ session[s].stage = "render" =>
          session[s].data \subseteq {session[s].token[2]} \union undone

\* What a request has built and returns.
RequestOf(q) ==
    /\ request[q].stage \notin {"start", "startSign"} => Past(request[q].token[2])
    /\ request[q].stage \notin {"start", "startSign", "facts"} =>
          ReadAll(request[q].token[2], request[q].facts)
    /\ request[q].stage \notin {"start", "startSign", "facts", "factsOthers", "saveFacts",
                               "quality"} =>
          ReadAll(request[q].token[2], request[q].quality)
    /\ request[q].stage = "returned" =>
          request[q].facts \union request[q].quality
             \subseteq {request[q].token[2]} \union undone

Inductive ==
    /\ TypeOK
    /\ UploadNumbered
    /\ HistoryOrdered
    /\ CacheRead(facts)
    /\ CacheRead(quality)
    /\ \A s \in Sessions : SessionOf(s)
    /\ \A q \in Requests : RequestOf(q)

\* Contents are written in order, and the bounds are numbers.
LEMMA Bounds == Contents \subseteq Nat /\ Numbers \subseteq Nat /\ 0 \in Contents /\ 0 \in Numbers
  BY BoundsAssumption DEF Contents, Numbers

LEMMA InitInductive == Init => Inductive
  <1> SUFFICES ASSUME Init PROVE Inductive
    OBVIOUS
  <1>1. TypeOK
    <2> USE Bounds DEF Init
    <2>1. file \in Generation /\ beta \in Frames
      BY DEF Generation, Frames
    <2>2. facts \in Cache /\ quality \in Cache
      BY DEF Cache, Rows
    <2>3. upload \in UploadCall
      BY DEF UploadCall, UploadStages, NoUpload
    <2>4. refresher \in [Refreshers -> RefreshCall]
      BY DEF RefreshCall, RefresherStages
    <2>5. session \in [Sessions -> SessionState]
      BY DEF SessionState, SessionStages, Tokens, Rows
    <2>6. request \in [Requests -> RequestState]
      BY DEF RequestState, RequestStages, Tokens, Rows
    <2> QED BY <2>1, <2>2, <2>3, <2>4, <2>5, <2>6 DEF TypeOK
  <1>2. UploadNumbered /\ HistoryOrdered
    BY Bounds DEF Init, UploadNumbered, HistoryOrdered, NoUpload
  <1>3. CacheRead(facts) /\ CacheRead(quality)
    BY DEF Init, CacheRead, ReadAll
  <1>4. (\A s \in Sessions : SessionOf(s)) /\ (\A q \in Requests : RequestOf(q))
    BY DEF Init, SessionOf, RequestOf
  <1> QED BY <1>1, <1>2, <1>3, <1>4 DEF Inductive

-----------------------------------------------------------------------------
(* Type correctness, one lemma per kind of actor. *)

LEMMA TypeUpload ==
    ASSUME TypeOK, UploadNumbered, Upload
    PROVE  TypeOK' /\ UploadNumbered'
  <1> USE DEF TypeOK, UploadNumbered, UploadCall, UploadStages, Database, Caches, Reading, History
  <1>1. CASE BeginUpload BY <1>1, Bounds DEF BeginUpload, NoUpload
  <1>2. CASE UpsertRows
    <2>1. fresh' \in Contents /\ content' \in Contents
      BY <1>2, BoundsAssumption DEF UpsertRows, WriteRows, Contents
    <2> QED BY <1>2, <2>1 DEF UpsertRows, WriteRows
  <1>3. CASE Accept BY <1>3 DEF Accept
  <1>4. CASE Restore
    <2>1. undone' \subseteq Contents
      BY <1>4, BoundsAssumption DEF Restore, Contents
    <2> QED BY <1>4, <2>1 DEF Restore
  <1>5. CASE AdvanceRead
    <2>1. upload'.number \in Numbers
      BY <1>5, BoundsAssumption DEF AdvanceRead, Numbers, Generation
    <2> QED BY <1>5, <2>1 DEF AdvanceRead
  <1>6. CASE AdvanceSign BY <1>6 DEF AdvanceSign
  <1>7. CASE AdvanceReplace BY <1>7 DEF AdvanceReplace, Generation
  <1>8. CASE AdvanceReload BY <1>8 DEF AdvanceReload, Generation
  <1>9. CASE AdvanceError BY <1>9 DEF AdvanceError
  <1>10. CASE PersistBeta BY <1>10, Bounds DEF PersistBeta, Frames, NoUpload
  <1>11. CASE RefreshRead BY <1>11 DEF RefreshRead, Generation
  <1>12. CASE RefreshSign BY <1>12 DEF RefreshSign
  <1>13. CASE RefreshReplace BY <1>13, Bounds DEF RefreshReplace, Generation, NoUpload
  <1>14. CASE EndUpload BY <1>14, Bounds DEF EndUpload, RetirementDue, NoUpload
  <1> QED BY <1>1, <1>2, <1>3, <1>4, <1>5, <1>6, <1>7, <1>8, <1>9, <1>10, <1>11, <1>12,
             <1>13, <1>14 DEF Upload

LEMMA TypeRefresh ==
    ASSUME TypeOK, UploadNumbered, NEW r \in Refreshers, Refresh(r)
    PROVE  TypeOK' /\ UploadNumbered'
  <1> USE DEF TypeOK, UploadNumbered, RefreshCall, RefresherStages, Database, Caches, Reading, History
  <1>1. CASE ChangeRows(r)
    <2>1. fresh' \in Contents /\ content' \in Contents /\ undone' = undone
      BY <1>1, BoundsAssumption DEF ChangeRows, WriteRows, Contents
    <2> QED BY <1>1, <2>1 DEF ChangeRows
  <1>2. CASE UnleasedRead(r) BY <1>2 DEF UnleasedRead, Generation
  <1>3. CASE UnleasedSign(r) BY <1>3 DEF UnleasedSign
  <1>4. CASE UnleasedReplace(r) BY <1>4 DEF UnleasedReplace, Generation
  <1> QED BY <1>1, <1>2, <1>3, <1>4 DEF Refresh

\* A token names a content.
LEMMA TokenOf ==
    ASSUME NEW t \in Tokens
    PROVE  t[1] \in Numbers /\ t[2] \in Contents
  BY DEF Tokens

LEMMA CacheOf ==
    ASSUME NEW cache \in Cache, NEW t \in Tokens
    PROVE  cache[t] \in Rows
  BY DEF Cache

LEMMA CacheSaved ==
    ASSUME NEW cache \in Cache, NEW t \in Tokens, NEW d \in Rows
    PROVE  [cache EXCEPT ![t] = d] \in Cache
  BY DEF Cache

LEMMA RowsRead ==
    ASSUME NEW rows \in Rows, NEW c \in Contents
    PROVE  {} \in Rows /\ {c} \in Rows /\ rows \union {c} \in Rows
  BY DEF Rows

LEMMA TypeSession ==
    ASSUME TypeOK, UploadNumbered, NEW s \in Sessions, Session(s)
    PROVE  TypeOK' /\ UploadNumbered'
  <1> USE DEF TypeOK, UploadNumbered, SessionState, SessionStages, Writing, Caches
  <1>1. CASE CheckNumber(s)
    <2> file.number \in Numbers
      BY DEF Generation
    <2>1. session'[s] \in SessionState
      BY <1>1 DEF CheckNumber
    <2>2. session' = [session EXCEPT ![s] = session'[s]]
      BY <1>1 DEF CheckNumber
    <2> QED BY <1>1, <2>1, <2>2 DEF CheckNumber
  <1>2. CASE CheckToken(s)
    <2>1. session'[s] \in SessionState
      BY <1>2, RowsRead DEF CheckToken, Tokens
    <2>2. session' = [session EXCEPT ![s] = session'[s]]
      BY <1>2 DEF CheckToken
    <2> QED BY <1>2, <2>1, <2>2 DEF CheckToken
  <1>3. CASE LoadNumber(s)
    <2> file.number \in Numbers
      BY DEF Generation
    <2>1. session'[s] \in SessionState
      BY <1>3 DEF LoadNumber
    <2>2. session' = [session EXCEPT ![s] = session'[s]]
      BY <1>3 DEF LoadNumber
    <2> QED BY <1>3, <2>1, <2>2 DEF LoadNumber
  <1>4. CASE LoadToken(s)
    <2>1. session'[s] \in SessionState
      BY <1>4 DEF LoadToken, Tokens
    <2>2. session' = [session EXCEPT ![s] = session'[s]]
      BY <1>4 DEF LoadToken
    <2> QED BY <1>4, <2>1, <2>2 DEF LoadToken
  <1>5. CASE LoadFacts(s)
    <2>1. facts[session[s].token] \in Rows
      BY CacheOf
    <2>2. session'[s] \in SessionState
      BY <1>5, <2>1, RowsRead DEF LoadFacts
    <2>3. session' = [session EXCEPT ![s] = session'[s]]
      BY <1>5 DEF LoadFacts
    <2> QED BY <1>5, <2>2, <2>3 DEF LoadFacts
  <1>6. CASE LoadOthers(s)
    <2>1. session'[s] \in SessionState
      BY <1>6, RowsRead DEF LoadOthers
    <2>2. session' = [session EXCEPT ![s] = session'[s]]
      BY <1>6 DEF LoadOthers
    <2> QED BY <1>6, <2>1, <2>2 DEF LoadOthers
  <1>7. CASE SaveFacts(s)
    <2>1. facts' \in Cache
      BY <1>7, CacheSaved DEF SaveFacts
    <2>2. session'[s] \in SessionState
      BY <1>7 DEF SaveFacts
    <2>3. session' = [session EXCEPT ![s] = session'[s]]
      BY <1>7 DEF SaveFacts
    <2> QED BY <1>7, <2>1, <2>2, <2>3 DEF SaveFacts
  <1> QED BY <1>1, <1>2, <1>3, <1>4, <1>5, <1>6, <1>7 DEF Session

LEMMA TypeRequest ==
    ASSUME TypeOK, UploadNumbered, NEW q \in Requests, Request(q)
    PROVE  TypeOK' /\ UploadNumbered'
  <1> USE DEF TypeOK, UploadNumbered, RequestState, RequestStages, Writing, Caches
  <1>1. CASE StartNumber(q)
    <2>1. request'[q] \in RequestState
      BY <1>1 DEF StartNumber, Generation
    <2>2. request' = [request EXCEPT ![q] = request'[q]]
      BY <1>1 DEF StartNumber
    <2> QED BY <1>1, <2>1, <2>2 DEF StartNumber
  <1>2. CASE StartToken(q)
    <2>1. request'[q] \in RequestState
      BY <1>2 DEF StartToken, Tokens
    <2>2. request' = [request EXCEPT ![q] = request'[q]]
      BY <1>2 DEF StartToken
    <2> QED BY <1>2, <2>1, <2>2 DEF StartToken
  <1>3. CASE BuildFacts(q)
    <2>1. facts[request[q].token] \in Rows
      BY CacheOf
    <2>2. request'[q] \in RequestState
      <3>1. CASE facts[request[q].token] # {}
        BY <1>3, <2>1, <3>1 DEF BuildFacts
      <3>2. CASE facts[request[q].token] = {}
        BY <1>3, <3>2, RowsRead DEF BuildFacts
      <3> QED BY <3>1, <3>2
    <2>3. request' = [request EXCEPT ![q] = request'[q]]
      BY <1>3 DEF BuildFacts
    <2> QED BY <1>3, <2>2, <2>3 DEF BuildFacts
  <1>4. CASE ReadFactsOthers(q) \/ ReadQualityOthers(q)
    <2>1. request'[q] \in RequestState
      BY <1>4, RowsRead DEF ReadFactsOthers, ReadQualityOthers
    <2>2. request' = [request EXCEPT ![q] = request'[q]]
      BY <1>4 DEF ReadFactsOthers, ReadQualityOthers
    <2> QED BY <1>4, <2>1, <2>2 DEF ReadFactsOthers, ReadQualityOthers
  <1>5. CASE SaveRequestFacts(q)
    <2>1. facts' \in Cache
      BY <1>5, CacheSaved DEF SaveRequestFacts
    <2>2. request'[q] \in RequestState
      BY <1>5 DEF SaveRequestFacts
    <2>3. request' = [request EXCEPT ![q] = request'[q]]
      BY <1>5 DEF SaveRequestFacts
    <2> QED BY <1>5, <2>1, <2>2, <2>3 DEF SaveRequestFacts
  <1>6. CASE BuildQuality(q)
    <2>1. quality[request[q].token] \in Rows
      BY CacheOf
    <2>2. request'[q] \in RequestState
      <3>1. CASE quality[request[q].token] # {}
        BY <1>6, <2>1, <3>1 DEF BuildQuality
      <3>2. CASE quality[request[q].token] = {}
        BY <1>6, <3>2, RowsRead DEF BuildQuality
      <3> QED BY <3>1, <3>2
    <2>3. request' = [request EXCEPT ![q] = request'[q]]
      BY <1>6 DEF BuildQuality
    <2> QED BY <1>6, <2>2, <2>3 DEF BuildQuality
  <1>7. CASE SaveQuality(q)
    <2>1. quality' \in Cache
      BY <1>7, CacheSaved DEF SaveQuality
    <2>2. request'[q] \in RequestState
      BY <1>7 DEF SaveQuality
    <2>3. request' = [request EXCEPT ![q] = request'[q]]
      BY <1>7 DEF SaveQuality
    <2> QED BY <1>7, <2>1, <2>2, <2>3 DEF SaveQuality
  <1>8. CASE EndNumber(q)
    <2>1. request'[q] \in RequestState
      BY <1>8 DEF EndNumber, Generation
    <2>2. request' = [request EXCEPT ![q] = request'[q]]
      BY <1>8 DEF EndNumber
    <2> QED BY <1>8, <2>1, <2>2 DEF EndNumber
  <1>9. CASE EndToken(q)
    <2>1. request'[q] \in RequestState
      BY <1>9 DEF EndToken
    <2>2. request' = [request EXCEPT ![q] = request'[q]]
      BY <1>9 DEF EndToken
    <2> QED BY <1>9, <2>1, <2>2 DEF EndToken
  <1> QED BY <1>1, <1>2, <1>3, <1>4, <1>5, <1>6, <1>7, <1>8, <1>9 DEF Request
-----------------------------------------------------------------------------
(* What may have been read for a token stays so in every step. *)

RollBack ==
    /\ content' = upload.base
    /\ undone' = undone \union (upload.base + 1 .. fresh)
    /\ fresh' = fresh

LEMMA DatabaseSteps ==
    ASSUME [Next]_vars
    PROVE  UNCHANGED Database \/ WriteRows \/ RollBack
  <1> USE DEF Database
  <1>1. CASE Upload
    BY <1>1 DEF Upload, BeginUpload, UpsertRows, Accept, Restore, RollBack, AdvanceRead,
       AdvanceSign, AdvanceReplace, AdvanceReload, AdvanceError, PersistBeta, RefreshRead,
       RefreshSign, RefreshReplace, EndUpload
  <1>2. ASSUME NEW r \in Refreshers, Refresh(r) PROVE UNCHANGED Database \/ WriteRows
    BY <1>2 DEF Refresh, ChangeRows, UnleasedRead, UnleasedSign, UnleasedReplace
  <1>3. ASSUME NEW s \in Sessions, Session(s) PROVE UNCHANGED Database
    BY <1>3 DEF Session, CheckNumber, CheckToken, LoadNumber, LoadToken, LoadFacts, LoadOthers,
       SaveFacts, Writing
  <1>4. ASSUME NEW q \in Requests, Request(q) PROVE UNCHANGED Database
    BY <1>4 DEF Request, StartNumber, StartToken, BuildFacts, ReadFactsOthers,
       SaveRequestFacts, BuildQuality, ReadQualityOthers, SaveQuality, EndNumber, EndToken, Writing
  <1>5. CASE UNCHANGED vars
    BY <1>5 DEF vars
  <1> QED BY <1>1, <1>2, <1>3, <1>4, <1>5 DEF Next

LEMMA PastStable ==
    ASSUME TypeOK, HistoryOrdered, [Next]_vars, NEW c \in Contents, Past(c)
    PROVE  Past(c)'
  <1> USE Bounds DEF TypeOK, UploadCall, HistoryOrdered, Past
  <1>0. content \in Nat /\ fresh \in Nat /\ c \in Nat /\ upload.base \in Nat
    OBVIOUS
  <1>1. CASE UNCHANGED Database
    BY <1>1 DEF Database
  <1>2. CASE WriteRows
    BY <1>0, <1>2 DEF WriteRows
  <1>3. CASE RollBack
    BY <1>0, <1>3 DEF RollBack
  <1> QED BY <1>1, <1>2, <1>3, DatabaseSteps

LEMMA ReadStable ==
    ASSUME TypeOK, HistoryOrdered, [Next]_vars, NEW c \in Contents, NEW d, Read(c, d)
    PROVE  Read(c, d)'
  <1> USE Bounds DEF TypeOK, UploadCall, HistoryOrdered, Read
  <1>0. content \in Nat /\ fresh \in Nat /\ c \in Nat /\ d \in Nat /\ upload.base \in Nat
    OBVIOUS
  <1>1. CASE UNCHANGED Database
    BY <1>1 DEF Database
  <1>2. CASE WriteRows
    BY <1>0, <1>2 DEF WriteRows
  <1>3. CASE RollBack
    <2>1. fresh' = fresh /\ undone \subseteq undone' /\ content' = upload.base
      BY <1>3 DEF RollBack
    <2>2. CASE c < d /\ c < content
      <3>1. CASE c < upload.base
        BY <1>0, <2>1, <2>2, <3>1
      <3>2. CASE c = upload.base
        <4>1. d \in upload.base + 1 .. fresh
          BY <1>0, <2>2, <3>2
        <4> QED BY <1>3, <2>1, <4>1 DEF RollBack
      <3>3. CASE c > upload.base
        <4>1. c \in upload.base + 1 .. fresh
          BY <1>0, <2>2, <3>3
        <4> QED BY <1>3, <2>1, <4>1 DEF RollBack
      <3> QED BY <1>0, <3>1, <3>2, <3>3
    <2>3. CASE d = c \/ d \in undone \/ c \in undone
      BY <2>1, <2>3
    <2> QED BY <2>2, <2>3
  <1> QED BY <1>1, <1>2, <1>3, DatabaseSteps

\* Only the upload restores, and it restores to the content it began with.
LEMMA HistoryStep ==
    ASSUME TypeOK, HistoryOrdered, [Next]_vars
    PROVE  HistoryOrdered'
  <1> USE Bounds DEF TypeOK, UploadCall, HistoryOrdered
  <1>0. content \in Nat /\ fresh \in Nat /\ upload.base \in Nat
    OBVIOUS
  <1>1. /\ content' <= fresh' /\ content' \notin undone' /\ 0 \notin undone'
        /\ undone' \subseteq 0 .. fresh' /\ fresh <= fresh' /\ fresh' \in Nat
        /\ upload.base \notin undone'
    <2>1. CASE UNCHANGED Database
      BY <1>0, <2>1 DEF Database
    <2>2. CASE WriteRows
      BY <1>0, <2>2 DEF WriteRows
    <2>3. CASE RollBack
      <3>1. content' = upload.base /\ fresh' = fresh
        BY <2>3 DEF RollBack
      <3>2. \A c : c \in undone' <=> c \in undone \/ c \in upload.base + 1 .. fresh
        BY <2>3 DEF RollBack
      <3>3. upload.base \notin undone' /\ 0 \notin undone'
        <4>1. upload.base \notin upload.base + 1 .. fresh /\ 0 \notin upload.base + 1 .. fresh
          BY <1>0
        <4>2. upload.base \notin undone /\ 0 \notin undone
          OBVIOUS
        <4> HIDE DEF TypeOK, UploadCall, HistoryOrdered
        <4> QED BY <3>2, <4>1, <4>2, Zenon
      <3>4. undone' \subseteq 0 .. fresh'
        <4>1. upload.base + 1 .. fresh \subseteq 0 .. fresh /\ undone \subseteq 0 .. fresh
          BY <1>0
        <4> HIDE DEF TypeOK, UploadCall, HistoryOrdered
        <4> QED BY <3>1, <3>2, <4>1
      <3> QED BY <1>0, <3>1, <3>3, <3>4
    <2> QED BY <2>1, <2>2, <2>3, DatabaseSteps
  <1>2. upload'.base \in {0, upload.base} \/ (upload'.base = content /\ UNCHANGED Database)
    <2>1. CASE Upload
      <3>1. CASE BeginUpload
        BY <3>1 DEF BeginUpload, NoUpload
      <3>2. CASE UpsertRows
        BY <3>2 DEF UpsertRows
      <3>3. CASE Accept \/ Restore \/ AdvanceRead \/ AdvanceSign \/ AdvanceReplace
        BY <3>3 DEF Accept, Restore, AdvanceRead, AdvanceSign, AdvanceReplace
      <3>4. CASE AdvanceReload \/ AdvanceError \/ RefreshRead \/ RefreshSign
        BY <3>4 DEF AdvanceReload, AdvanceError, RefreshRead, RefreshSign
      <3>5. CASE PersistBeta \/ RefreshReplace \/ EndUpload
        BY <3>5 DEF PersistBeta, RefreshReplace, EndUpload, NoUpload
      <3> QED BY <2>1, <3>1, <3>2, <3>3, <3>4, <3>5 DEF Upload
    <2>2. ASSUME NEW r \in Refreshers, Refresh(r) PROVE upload' = upload
      BY <2>2 DEF Refresh, ChangeRows, UnleasedRead, UnleasedSign, UnleasedReplace
    <2>3. ASSUME NEW s \in Sessions, Session(s) PROVE upload' = upload
      BY <2>3 DEF Session, CheckNumber, CheckToken, LoadNumber, LoadToken, LoadFacts, LoadOthers,
         SaveFacts, Writing
    <2>4. ASSUME NEW q \in Requests, Request(q) PROVE upload' = upload
      BY <2>4 DEF Request, StartNumber, StartToken, BuildFacts, ReadFactsOthers,
       SaveRequestFacts, BuildQuality, ReadQualityOthers, SaveQuality, EndNumber, EndToken, Writing
    <2>5. CASE UNCHANGED vars
      BY <2>5 DEF vars
    <2> QED BY <2>1, <2>2, <2>3, <2>4, <2>5 DEF Next
  <1>3. CASE upload'.base \in {0, upload.base}
    BY <1>0, <1>1, <1>3
  <1>4. CASE upload'.base = content /\ UNCHANGED Database
    BY <1>0, <1>1, <1>4 DEF Database
  <1> QED BY <1>2, <1>3, <1>4

-----------------------------------------------------------------------------
(* The caches and the readers. *)

LEMMA ReadAllStable ==
    ASSUME TypeOK, HistoryOrdered, [Next]_vars, NEW c \in Contents, NEW rows,
           ReadAll(c, rows)
    PROVE  ReadAll(c, rows)'
  BY ReadStable DEF ReadAll

LEMMA CachesKept ==
    ASSUME TypeOK, HistoryOrdered, [Next]_vars
    PROVE  /\ CacheRead(facts) /\ facts' = facts => CacheRead(facts)'
           /\ CacheRead(quality) /\ quality' = quality => CacheRead(quality)'
  BY ReadStable, TokenOf DEF CacheRead, ReadAll

LEMMA FactsSaved ==
    ASSUME TypeOK, HistoryOrdered, [Next]_vars, CacheRead(facts),
           NEW t \in Tokens, NEW rows, ReadAll(t[2], rows),
           facts' = [facts EXCEPT ![t] = rows]
    PROVE  CacheRead(facts)'
  <1> SUFFICES ASSUME NEW u \in Tokens, NEW d \in facts'[u] PROVE Read(u[2], d)'
    BY DEF CacheRead, ReadAll
  <1>1. u[2] \in Contents
    BY TokenOf
  <1>2. d \in (IF u = t THEN rows ELSE facts[u])
    BY DEF TypeOK, Cache
  <1>3. Read(u[2], d)
    BY <1>2 DEF CacheRead, ReadAll
  <1> QED BY <1>1, <1>3, ReadStable

LEMMA QualitySaved ==
    ASSUME TypeOK, HistoryOrdered, [Next]_vars, CacheRead(quality),
           NEW t \in Tokens, NEW rows, ReadAll(t[2], rows),
           quality' = [quality EXCEPT ![t] = rows]
    PROVE  CacheRead(quality)'
  <1> SUFFICES ASSUME NEW u \in Tokens, NEW d \in quality'[u] PROVE Read(u[2], d)'
    BY DEF CacheRead, ReadAll
  <1>1. u[2] \in Contents
    BY TokenOf
  <1>2. d \in (IF u = t THEN rows ELSE quality[u])
    BY DEF TypeOK, Cache
  <1>3. Read(u[2], d)
    BY <1>2 DEF CacheRead, ReadAll
  <1> QED BY <1>1, <1>3, ReadStable

\* The rows in the database may be read for a token that has been current.
LEMMA ReadNow ==
    ASSUME TypeOK, HistoryOrdered, NEW c \in Contents, Past(c)
    PROVE  Read(c, content)
  BY Bounds DEF TypeOK, HistoryOrdered, Past, Read

\* What was read for the current token is named by it or undone.
LEMMA ReadCurrent ==
    ASSUME TypeOK, HistoryOrdered, NEW rows, ReadAll(content, rows)
    PROVE  rows \subseteq {content} \union undone
  BY Bounds DEF TypeOK, HistoryOrdered, Read, ReadAll

LEMMA UndoneGrows ==
    ASSUME [Next]_vars
    PROVE  undone \subseteq undone'
  BY DatabaseSteps DEF Database, WriteRows, RollBack

LEMMA SessionKept ==
    ASSUME TypeOK, HistoryOrdered, [Next]_vars, NEW s \in Sessions, SessionOf(s),
           session'[s] = session[s]
    PROVE  SessionOf(s)'
  <1>1. session[s].token[2] \in Contents
    BY TokenOf DEF TypeOK, SessionState
  <1> QED BY <1>1, PastStable, ReadAllStable, UndoneGrows DEF SessionOf

LEMMA SessionMoves ==
    ASSUME TypeOK, HistoryOrdered, CacheRead(facts), NEW s \in Sessions, SessionOf(s),
           Session(s)
    PROVE  SessionOf(s)'
  <1> DEFINE c == session[s].token[2]
  <1>1. session[s] \in SessionState /\ session[s].token \in Tokens /\ c \in Contents
    BY TokenOf DEF TypeOK, SessionState
  <1>2. UNCHANGED <<content, fresh, undone>>
    BY DEF Session, CheckNumber, CheckToken, LoadNumber, LoadToken, LoadFacts, LoadOthers, SaveFacts,
       Writing
  <1>3. \A e, rows : (Past(e)' <=> Past(e)) /\ (ReadAll(e, rows)' <=> ReadAll(e, rows))
    BY <1>2 DEF Past, Read, ReadAll
  <1>4. CASE CheckNumber(s)
    <2>1. /\ session'[s].stage = "checkSign" /\ session'[s].token = session[s].token
          /\ session'[s].data = session[s].data
          /\ session[s].stage \in {"loaded", "render"}
      BY <1>1, <1>4 DEF CheckNumber, TypeOK, SessionState
    <2> QED BY <1>3, <2>1 DEF SessionOf
  <1>5. CASE CheckToken(s)
    <2>1. CASE session[s].token = <<session[s].number, content>>
      <3>1. /\ session'[s].stage = "render" /\ session'[s].token = session[s].token
            /\ session'[s].data = session[s].data
            /\ session[s].stage = "checkSign"
        BY <1>1, <1>5, <2>1 DEF CheckToken, TypeOK, SessionState
      <3>2. session[s].data \subseteq {content} \union undone /\ c = content
        BY <2>1, <3>1, ReadCurrent DEF SessionOf
      <3> QED BY <1>2, <1>3, <3>1, <3>2 DEF SessionOf
    <2>2. CASE session[s].token # <<session[s].number, content>>
      BY <1>1, <1>5, <2>2 DEF CheckToken, TypeOK, SessionState, SessionOf
    <2> QED BY <2>1, <2>2
  <1>6. CASE LoadNumber(s)
    BY <1>1, <1>6 DEF LoadNumber, TypeOK, SessionState, SessionOf
  <1>7. CASE LoadToken(s)
    <2>1. session'[s].stage = "facts" /\ session'[s].token[2] = content
      BY <1>1, <1>7 DEF LoadToken, TypeOK, SessionState
    <2>2. Past(content)
      BY Bounds DEF Past, TypeOK
    <2> QED BY <1>3, <2>1, <2>2 DEF SessionOf
  <1>8. CASE LoadFacts(s)
    <2>1. /\ session'[s].stage \in {"loaded", "others"} /\ session'[s].token = session[s].token
          /\ session[s].stage = "facts"
      BY <1>1, <1>8 DEF LoadFacts, TypeOK, SessionState
    <2>2. Past(c)
      BY <2>1 DEF SessionOf
    <2>3. ReadAll(c, session'[s].data)
      <3>1. CASE facts[session[s].token] # {}
        <4>1. session'[s].data = facts[session[s].token]
          BY <1>1, <1>8, <3>1 DEF LoadFacts, TypeOK, SessionState
        <4> QED BY <1>1, <3>1, <4>1 DEF CacheRead
      <3>2. CASE facts[session[s].token] = {}
        <4>1. session'[s].data = {content}
          BY <1>1, <1>8, <3>2 DEF LoadFacts, TypeOK, SessionState
        <4> QED BY <1>1, <2>2, <4>1, ReadNow DEF ReadAll
      <3> QED BY <3>1, <3>2
    <2> QED BY <1>3, <2>1, <2>2, <2>3 DEF SessionOf
  <1>9. CASE LoadOthers(s)
    <2>1. /\ session'[s].stage = "save" /\ session'[s].token = session[s].token
          /\ session'[s].data = session[s].data \union {content}
          /\ session[s].stage = "others"
      BY <1>1, <1>9 DEF LoadOthers, TypeOK, SessionState
    <2>2. Past(c) /\ ReadAll(c, session[s].data)
      BY <2>1 DEF SessionOf
    <2>3. ReadAll(c, session'[s].data)
      BY <1>1, <2>1, <2>2, ReadNow DEF ReadAll
    <2> QED BY <1>3, <2>1, <2>2, <2>3 DEF SessionOf
  <1>10. CASE SaveFacts(s)
    <2>1. /\ session'[s].stage = "loaded" /\ session'[s].token = session[s].token
          /\ session'[s].data = session[s].data
          /\ session[s].stage = "save"
      BY <1>1, <1>10 DEF SaveFacts, TypeOK, SessionState
    <2> QED BY <1>3, <2>1 DEF SessionOf
  <1> QED BY <1>4, <1>5, <1>6, <1>7, <1>8, <1>9, <1>10 DEF Session

LEMMA RequestKept ==
    ASSUME TypeOK, HistoryOrdered, [Next]_vars, NEW q \in Requests, RequestOf(q),
           request'[q] = request[q]
    PROVE  RequestOf(q)'
  <1>1. request[q].token[2] \in Contents
    BY TokenOf DEF TypeOK, RequestState
  <1> QED BY <1>1, PastStable, ReadAllStable, UndoneGrows DEF RequestOf

LEMMA RequestMoves ==
    ASSUME TypeOK, HistoryOrdered, CacheRead(facts), CacheRead(quality),
           NEW q \in Requests, RequestOf(q), Request(q)
    PROVE  RequestOf(q)'
  <1> DEFINE c == request[q].token[2]
  <1>1. request[q] \in RequestState /\ request[q].token \in Tokens /\ c \in Contents
    BY TokenOf DEF TypeOK, RequestState
  <1>2. UNCHANGED <<content, fresh, undone>>
    BY DEF Request, StartNumber, StartToken, BuildFacts, ReadFactsOthers,
       SaveRequestFacts, BuildQuality, ReadQualityOthers, SaveQuality, EndNumber, EndToken, Writing
  <1>3. \A e, rows : (Past(e)' <=> Past(e)) /\ (ReadAll(e, rows)' <=> ReadAll(e, rows))
    BY <1>2 DEF Past, Read, ReadAll
  <1>4. CASE StartNumber(q)
    BY <1>1, <1>4 DEF StartNumber, TypeOK, RequestState, RequestOf
  <1>5. CASE StartToken(q)
    <2>1. request'[q].stage = "facts" /\ request'[q].token[2] = content
      BY <1>1, <1>5 DEF StartToken, TypeOK, RequestState
    <2>2. Past(content)
      BY Bounds DEF Past, TypeOK
    <2> QED BY <1>3, <2>1, <2>2 DEF RequestOf
  <1>6. CASE BuildFacts(q)
    <2>1. /\ request'[q].stage \in {"quality", "factsOthers"}
          /\ request'[q].token = request[q].token /\ request[q].stage = "facts"
      BY <1>1, <1>6 DEF BuildFacts, TypeOK, RequestState
    <2>2. Past(c)
      BY <2>1 DEF RequestOf
    <2>3. ReadAll(c, request'[q].facts)
      <3>1. CASE facts[request[q].token] # {}
        <4>1. request'[q].facts = facts[request[q].token]
          BY <1>1, <1>6, <3>1 DEF BuildFacts, TypeOK, RequestState
        <4> QED BY <1>1, <3>1, <4>1 DEF CacheRead
      <3>2. CASE facts[request[q].token] = {}
        <4>1. request'[q].facts = {content}
          BY <1>1, <1>6, <3>2 DEF BuildFacts, TypeOK, RequestState
        <4> QED BY <1>1, <2>2, <4>1, ReadNow DEF ReadAll
      <3> QED BY <3>1, <3>2
    <2> QED BY <1>3, <2>1, <2>2, <2>3 DEF RequestOf
  <1>7. CASE SaveRequestFacts(q)
    <2>1. /\ request'[q].stage = "quality" /\ request'[q].token = request[q].token
          /\ request'[q].facts = request[q].facts /\ request[q].stage = "saveFacts"
      BY <1>1, <1>7 DEF SaveRequestFacts, TypeOK, RequestState
    <2> QED BY <1>3, <2>1 DEF RequestOf
  <1>8. CASE BuildQuality(q)
    <2>1. /\ request'[q].stage \in {"end", "qualityOthers"}
          /\ request'[q].token = request[q].token
          /\ request'[q].facts = request[q].facts /\ request[q].stage = "quality"
      BY <1>1, <1>8 DEF BuildQuality, TypeOK, RequestState
    <2>2. Past(c) /\ ReadAll(c, request[q].facts)
      BY <2>1 DEF RequestOf
    <2>3. ReadAll(c, request'[q].quality)
      <3>1. CASE quality[request[q].token] # {}
        <4>1. request'[q].quality = quality[request[q].token]
          BY <1>1, <1>8, <3>1 DEF BuildQuality, TypeOK, RequestState
        <4> QED BY <1>1, <3>1, <4>1 DEF CacheRead
      <3>2. CASE quality[request[q].token] = {}
        <4>1. request'[q].quality = {content}
          BY <1>1, <1>8, <3>2 DEF BuildQuality, TypeOK, RequestState
        <4> QED BY <1>1, <2>2, <4>1, ReadNow DEF ReadAll
      <3> QED BY <3>1, <3>2
    <2> QED BY <1>3, <2>1, <2>2, <2>3 DEF RequestOf
  <1>9. CASE SaveQuality(q) \/ EndNumber(q)
    <2>1. /\ request'[q].stage \in {"end", "endSign"}
          /\ request'[q].token = request[q].token
          /\ request'[q].facts = request[q].facts
          /\ request'[q].quality = request[q].quality
          /\ request[q].stage \in {"saveQuality", "end"}
      BY <1>1, <1>9 DEF SaveQuality, EndNumber, TypeOK, RequestState
    <2> QED BY <1>3, <2>1 DEF RequestOf
  <1>10. CASE EndToken(q)
    <2>1. /\ request'[q].stage \in {"returned", "start", "conflict"}
          /\ request'[q].token = request[q].token
          /\ request'[q].facts = request[q].facts
          /\ request'[q].quality = request[q].quality
          /\ request[q].stage = "endSign"
          /\ request'[q].stage = "returned" => request[q].token = <<request[q].number, content>>
      BY <1>1, <1>10 DEF EndToken, TypeOK, RequestState
    <2>2. Past(c) /\ ReadAll(c, request[q].facts) /\ ReadAll(c, request[q].quality)
      BY <2>1 DEF RequestOf
    <2>3. request'[q].stage = "returned" =>
             request[q].facts \subseteq {c} \union undone
             /\ request[q].quality \subseteq {c} \union undone
      BY <2>1, <2>2, ReadCurrent
    <2> QED BY <1>2, <1>3, <2>1, <2>2, <2>3 DEF RequestOf
  <1>11. CASE ReadFactsOthers(q)
    <2>1. /\ request'[q].stage = "saveFacts" /\ request'[q].token = request[q].token
          /\ request'[q].facts = request[q].facts \union {content}
          /\ request[q].stage = "factsOthers"
      BY <1>1, <1>11 DEF ReadFactsOthers, TypeOK, RequestState
    <2>2. Past(c) /\ ReadAll(c, request[q].facts)
      BY <2>1 DEF RequestOf
    <2>3. ReadAll(c, request'[q].facts)
      BY <1>1, <2>1, <2>2, ReadNow DEF ReadAll
    <2> QED BY <1>3, <2>1, <2>2, <2>3 DEF RequestOf
  <1>12. CASE ReadQualityOthers(q)
    <2>1. /\ request'[q].stage = "saveQuality" /\ request'[q].token = request[q].token
          /\ request'[q].facts = request[q].facts
          /\ request'[q].quality = request[q].quality \union {content}
          /\ request[q].stage = "qualityOthers"
      BY <1>1, <1>12 DEF ReadQualityOthers, TypeOK, RequestState
    <2>2. Past(c) /\ ReadAll(c, request[q].facts) /\ ReadAll(c, request[q].quality)
      BY <2>1 DEF RequestOf
    <2>3. ReadAll(c, request'[q].quality)
      BY <1>1, <2>1, <2>2, ReadNow DEF ReadAll
    <2> QED BY <1>3, <2>1, <2>2, <2>3 DEF RequestOf
  <1> QED BY <1>4, <1>5, <1>6, <1>7, <1>8, <1>9, <1>10, <1>11, <1>12 DEF Request

-----------------------------------------------------------------------------
(* The inductive invariant and the theorems. *)

LEMMA InductiveStep == Inductive /\ [Next]_vars => Inductive'
  <1> SUFFICES ASSUME Inductive, [Next]_vars PROVE Inductive'
    OBVIOUS
  <1> USE DEF Inductive
  <1>1. TypeOK' /\ UploadNumbered'
    <2>1. CASE UNCHANGED vars
      BY <2>1 DEF vars, TypeOK, UploadNumbered
    <2> QED BY <2>1, TypeUpload, TypeRefresh, TypeSession, TypeRequest DEF Next
  <1>2. HistoryOrdered'
    BY HistoryStep
  <1>3. CASE UNCHANGED <<facts, quality, session, request>>
    <2>1. CacheRead(facts)' /\ CacheRead(quality)'
      BY <1>3, CachesKept
    <2>2. \A s \in Sessions : SessionOf(s)'
      BY <1>3, SessionKept
    <2>3. \A q \in Requests : RequestOf(q)'
      BY <1>3, RequestKept
    <2> QED BY <1>1, <1>2, <2>1, <2>2, <2>3
  <1>4. CASE Upload
    <2>1. UNCHANGED <<facts, quality, session, request>>
      BY <1>4 DEF Upload, BeginUpload, UpsertRows, Accept, Restore, AdvanceRead, AdvanceSign,
         AdvanceReplace, AdvanceReload, AdvanceError, PersistBeta, RefreshRead, RefreshSign,
         RefreshReplace, EndUpload, Caches, Reading
    <2> QED BY <1>3, <2>1
  <1>5. ASSUME NEW r \in Refreshers, Refresh(r) PROVE Inductive'
    <2>1. UNCHANGED <<facts, quality, session, request>>
      BY <1>5 DEF Refresh, ChangeRows, UnleasedRead, UnleasedSign, UnleasedReplace, Caches,
         Reading
    <2> QED BY <1>3, <2>1
  <1>6. ASSUME NEW s \in Sessions, Session(s) PROVE Inductive'
    <2>1. quality' = quality /\ request' = request /\
          \A u \in Sessions \ {s} : session'[u] = session[u]
      BY <1>6 DEF Session, CheckNumber, CheckToken, LoadNumber, LoadToken, LoadFacts, LoadOthers,
         SaveFacts, Caches, TypeOK
    <2>2. CacheRead(facts)'
      <3>1. CASE SaveFacts(s)
        <4>1. session[s].token \in Tokens
          BY DEF TypeOK, SessionState
        <4>2. ReadAll(session[s].token[2], session[s].data)
          BY <3>1 DEF SaveFacts, SessionOf
        <4> QED BY <3>1, <4>1, <4>2, FactsSaved DEF SaveFacts
      <3>2. CASE facts' = facts
        BY <3>2, CachesKept
      <3> QED BY <1>6, <3>1, <3>2 DEF Session, CheckNumber, CheckToken, LoadNumber, LoadToken,
              LoadFacts, LoadOthers, Caches
    <2>3. \A u \in Sessions : SessionOf(u)'
      BY <1>6, <2>1, SessionKept, SessionMoves
    <2>4. \A q \in Requests : RequestOf(q)'
      BY <2>1, RequestKept
    <2> QED BY <1>1, <1>2, <2>1, <2>2, <2>3, <2>4, CachesKept
  <1>7. ASSUME NEW q \in Requests, Request(q) PROVE Inductive'
    <2>1. session' = session /\ \A u \in Requests \ {q} : request'[u] = request[u]
      BY <1>7 DEF Request, StartNumber, StartToken, BuildFacts, ReadFactsOthers,
       SaveRequestFacts, BuildQuality, ReadQualityOthers, SaveQuality, EndNumber, EndToken, Caches, TypeOK
    <2>2. CacheRead(facts)' /\ CacheRead(quality)'
      <3>1. request[q].token \in Tokens
        BY DEF TypeOK, RequestState
      <3>2. CASE SaveRequestFacts(q)
        <4>1. ReadAll(request[q].token[2], request[q].facts) /\ quality' = quality
          BY <3>2 DEF SaveRequestFacts, RequestOf
        <4> QED BY <3>1, <3>2, <4>1, FactsSaved, CachesKept DEF SaveRequestFacts
      <3>3. CASE SaveQuality(q)
        <4>1. ReadAll(request[q].token[2], request[q].quality) /\ facts' = facts
          BY <3>3 DEF SaveQuality, RequestOf
        <4> QED BY <3>1, <3>3, <4>1, QualitySaved, CachesKept DEF SaveQuality
      <3>4. CASE UNCHANGED <<facts, quality>>
        BY <3>4, CachesKept
      <3> QED BY <1>7, <3>2, <3>3, <3>4 DEF Request, StartNumber, StartToken, BuildFacts,
              ReadFactsOthers, BuildQuality, ReadQualityOthers, EndNumber, EndToken, Caches
    <2>3. \A s \in Sessions : SessionOf(s)'
      BY <2>1, SessionKept
    <2>4. \A u \in Requests : RequestOf(u)'
      BY <1>7, <2>1, RequestKept, RequestMoves
    <2> QED BY <1>1, <1>2, <2>2, <2>3, <2>4
  <1>8. CASE UNCHANGED vars
    BY <1>3, <1>8 DEF vars
  <1> QED BY <1>4, <1>5, <1>6, <1>7, <1>8 DEF Next

THEOREM InductiveInvariant == Spec => []Inductive
  BY InitInductive, InductiveStep, PTL DEF Spec

\* Every variable keeps its type (cache_generation_service and its readers).
THEOREM GenerationTypeCorrect == Spec => []TypeOK
  <1>1. Inductive => TypeOK
    BY DEF Inductive
  <1> QED BY InductiveInvariant, <1>1, PTL

\* _invalidate_session_cache_if_generation_changed: a page rendered from the
\* session shows the rows its token names or rows a rollback has taken back,
\* whatever uploads, repairs, crashes and other readers do.
THEOREM RenderedRows == Spec => []RenderedRowsNamedOrUndone
  <1>1. Inductive => RenderedRowsNamedOrUndone
    BY DEF Inductive, SessionOf, RenderedRowsNamedOrUndone
  <1> QED BY InductiveInvariant, <1>1, PTL

\* ApplicationSnapshotService.build: a returned snapshot has facts and quality
\* of the rows its token names or of rows a rollback has taken back.
THEOREM SnapshotRows == Spec => []SnapshotNamedOrUndone
  <1>1. Inductive => SnapshotNamedOrUndone
    BY DEF Inductive, RequestOf, SnapshotNamedOrUndone
  <1> QED BY InductiveInvariant, <1>1, PTL
=============================================================================
