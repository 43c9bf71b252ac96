-------------------------- MODULE CacheLeasedProofs --------------------------
(***************************************************************************)
(* Proofs about CacheGeneration that rest on the lease, for any number of  *)
(* uploads, sessions and requests and any bounds.                          *)
(*                                                                         *)
(* Fenced holds beside any writers without the lease: what an upload knows *)
(* of the file and the rows stands until such a writer meddles, and so     *)
(* does what the stored Beta frames are of.                                *)
(*                                                                         *)
(* Leased holds where every writer takes the lease.  A writer without it   *)
(* breaks what follows (run gen_lost), so Refreshers = {} is a hypothesis  *)
(* of those theorems.  The number of a token is read before anything else  *)
(* of it, so no reader and no cache key is ahead of the file.  Rows a      *)
(* rollback takes back were read under the number of that time at most,    *)
(* and the rollback then advances the number, if it gets that far.         *)
(***************************************************************************)
EXTENDS CacheGenerationProofs

\* What an upload nobody has met has read of the file and the rows is still so.
UploadAhead ==
    "upload" \notin meddled =>
        /\ upload.stage \in {"sign", "replace"} => upload.number = file.number + 1
        /\ upload.stage \in {"refreshSign", "refreshReplace"} => upload.number = file.number
        /\ upload.stage \in {"replace", "reload", "persist", "refreshReplace"} =>
              upload.signature = content
        /\ upload.stage \in {"reload", "persist"} => file.signature = content
        /\ upload.stage = "persist" => upload.number \in {file.number, None}
        /\ upload.stage = "persistUnnumbered" => upload.number = None

\* Stored Beta frames nobody has met belong to the signature of their number.
BetaSigned ==
    "beta" \notin meddled =>
        /\ "upload" \notin meddled
        /\ beta.number # None => beta.number <= file.number
        /\ upload.stage \in {"reload", "persist"} => beta.number # file.number
        /\ beta.number = file.number => beta.content = file.signature
        /\ upload.stage \in {"refresh", "refreshSign", "refreshReplace"}
              /\ beta.number = file.number => beta.content = content

\* What frames are made of is not newer than a rollback may go back to.
BetaKept ==
    /\ beta.content <= content /\ beta.content \notin undone
    /\ upload.signature <= content /\ upload.signature \notin undone
    /\ upload.stage \in {"write", "gate"} =>
          upload.signature = 0 /\ beta.content <= upload.base

Fenced ==
    /\ Inductive
    /\ UploadAhead
    /\ BetaSigned
    /\ BetaKept

\* Rows read under number n are not ahead of the file, and what is taken back
\* of them is behind it, or will be when the rollback has its generation.
Behind(n, rows) ==
    /\ n <= file.number
    /\ rows \intersect undone # {} => unretired \/ RetirementDue \/ n < file.number

CacheBehind(cache) == \A t \in Tokens : cache[t] # {} => Behind(t[1], cache[t])

SessionBehind(s) ==
    /\ session[s].number <= file.number
    /\ session[s].token[1] <= file.number
    /\ session[s].stage \in {"others", "save"} => Behind(session[s].token[1], session[s].data)

RequestBehind(q) ==
    /\ request[q].number <= file.number
    /\ request[q].stage \in {"factsOthers", "saveFacts"} =>
          Behind(request[q].token[1], request[q].facts)
    /\ request[q].stage \in {"qualityOthers", "saveQuality"} =>
          Behind(request[q].token[1], request[q].quality)
    /\ request[q].stage \notin {"start", "startSign"} => request[q].token[1] <= file.number

Leased ==
    /\ Fenced
    /\ meddled = {}
    /\ CacheBehind(facts) /\ CacheBehind(quality)
    /\ \A s \in Sessions : SessionBehind(s)
    /\ \A q \in Requests : RequestBehind(q)

-----------------------------------------------------------------------------
(* The initial state *)

LEMMA InitFenced == Init => Fenced
  <1> SUFFICES ASSUME Init PROVE Fenced
    OBVIOUS
  <1>1. Inductive
    BY InitInductive
  <1>2. UploadAhead /\ BetaSigned /\ BetaKept
    BY Bounds, BoundsAssumption DEF Init, UploadAhead, BetaSigned, BetaKept, NoUpload
  <1> QED BY <1>1, <1>2 DEF Fenced

LEMMA InitLeased == Init => Leased
  <1> SUFFICES ASSUME Init PROVE Leased
    OBVIOUS
  <1>1. Fenced /\ meddled = {}
    BY InitFenced DEF Init
  <1>2. CacheBehind(facts) /\ CacheBehind(quality)
    BY DEF Init, CacheBehind
  <1>3. (\A s \in Sessions : SessionBehind(s)) /\ (\A q \in Requests : RequestBehind(q))
    BY DEF Init, SessionBehind, RequestBehind
  <1> QED BY <1>1, <1>2, <1>3 DEF Leased

-----------------------------------------------------------------------------
(* The fence, beside any writer *)

LEMMA Numbered ==
    ASSUME Inductive
    PROVE  /\ upload \in UploadCall /\ file \in Generation /\ beta \in Frames
           /\ file.number \in Nat /\ None \notin Nat /\ beta.number \in Nat \union {None}
           /\ meddled \subseteq {"upload", "beta"}
  <1>1. None \notin Nat
    BY BoundsAssumption
  <1>2. upload \in UploadCall /\ file \in Generation /\ beta \in Frames
        /\ meddled \subseteq {"upload", "beta"}
    BY DEF Inductive, TypeOK
  <1>3. file.number \in Nat
    BY <1>2, Bounds DEF Generation
  <1>4. beta.number \in Nat \union {None}
    BY <1>2, Bounds DEF Frames
  <1> QED BY <1>1, <1>2, <1>3, <1>4

LEMMA UploadStep ==
    ASSUME Fenced, Upload
    PROVE  UploadAhead' /\ BetaSigned'
  <1>1. /\ upload \in UploadCall /\ file \in Generation /\ beta \in Frames
        /\ file.number \in Nat /\ None \notin Nat /\ beta.number \in Nat \union {None}
        /\ UploadAhead /\ BetaSigned
    BY Numbered DEF Fenced
  <1> USE <1>1 DEF UploadAhead, BetaSigned, UploadCall
  <1>2. CASE BeginUpload
    BY <1>2 DEF BeginUpload, NoUpload, Database
  <1>3. CASE UpsertRows
    BY <1>3 DEF UpsertRows, History
  <1>4. CASE Accept
    BY <1>4 DEF Accept, Database, History
  <1>5. CASE Restore
    BY <1>5 DEF Restore, History
  <1>6. CASE AdvanceRead
    BY <1>6 DEF AdvanceRead, Database, History
  <1>7. CASE AdvanceSign
    BY <1>7 DEF AdvanceSign, Database, History
  <1>8. CASE AdvanceReplace
    <2>1. /\ file' = [number |-> upload.number, signature |-> upload.signature]
          /\ upload'.stage \in {"refresh", "reload"} /\ upload'.signature = upload.signature
          /\ content' = content /\ beta' = beta /\ meddled' = meddled
          /\ upload.stage = "replace"
      BY <1>8 DEF AdvanceReplace, Database, History
    <2>2. "upload" \notin meddled => file'.number = file.number + 1 /\ file'.signature = content
      BY <2>1
    <2>3. "beta" \notin meddled => beta.number # file'.number
      BY <2>2
    <2>4. UploadAhead'
      BY <2>1, <2>2
    <2> QED BY <2>1, <2>2, <2>3, <2>4
  <1>9. CASE AdvanceReload
    BY <1>9 DEF AdvanceReload, Database, History
  <1>10. CASE AdvanceError
    BY <1>10 DEF AdvanceError, Database, History
  <1>11. CASE PersistBeta
    <2>1. file' = file /\ content' = content
      BY <1>11 DEF PersistBeta, Database
    <2>2. \/ beta' = beta /\ meddled' = meddled
          \/ /\ beta'.number = upload.number /\ beta'.content = upload.signature
             /\ meddled' = IF "upload" \in meddled THEN {"upload", "beta"} ELSE {}
      BY <1>11 DEF PersistBeta
    <2>3. CASE upload.stage = "persist"
      <3>1. upload'.stage = "refresh"
        BY <1>11, <2>3 DEF PersistBeta
      <3> QED BY <2>1, <2>2, <2>3, <3>1
    <2>4. CASE upload.stage = "persistUnnumbered"
      <3>1. upload'.stage = "idle"
        BY <1>11, <2>4 DEF PersistBeta, NoUpload
      <3> QED BY <2>1, <2>2, <2>4, <3>1
    <2> QED BY <1>11, <2>3, <2>4 DEF PersistBeta
  <1>12. CASE RefreshRead
    BY <1>12 DEF RefreshRead, Database, History
  <1>13. CASE RefreshSign
    BY <1>13 DEF RefreshSign, Database, History
  <1>14. CASE RefreshReplace
    BY <1>14 DEF RefreshReplace, NoUpload, Database, History
  <1>15. CASE EndUpload
    BY <1>15 DEF EndUpload, NoUpload, Database
  <1> QED BY <1>2, <1>3, <1>4, <1>5, <1>6, <1>7, <1>8, <1>9, <1>10, <1>11, <1>12, <1>13, <1>14,
             <1>15 DEF Upload

\* Frames are stored of accepted rows only, and no rollback reaches behind the
\* backup of its own upload.
LEMMA BetaStep ==
    ASSUME Fenced, Upload
    PROVE  BetaKept'
  <1>1. /\ upload \in UploadCall /\ beta \in Frames
        /\ content \in Nat /\ fresh \in Nat /\ upload.base \in Nat
        /\ beta.content \in Nat /\ upload.signature \in Nat
        /\ HistoryOrdered /\ BetaKept
    BY Bounds DEF Fenced, Inductive, TypeOK, UploadCall, Frames
  <1> USE <1>1 DEF BetaKept, UploadCall, HistoryOrdered
  <1>2. CASE BeginUpload
    BY <1>2 DEF BeginUpload, NoUpload, Database
  <1>3. CASE UpsertRows
    BY <1>3 DEF UpsertRows, WriteRows
  <1>4. CASE Accept
    BY <1>4 DEF Accept, Database
  <1>5. CASE Restore
    <2>1. /\ content' = upload.base /\ undone' = undone \union (upload.base + 1 .. fresh)
          /\ upload'.signature = 0 /\ upload'.stage = "advance" /\ beta' = beta
          /\ beta.content <= upload.base
      BY <1>5 DEF Restore
    <2> QED BY <2>1
  <1>6. CASE AdvanceSign \/ RefreshSign
    <2>1. /\ UNCHANGED Database /\ beta' = beta /\ upload'.signature = content
          /\ upload'.stage \notin {"write", "gate"}
      BY <1>6 DEF AdvanceSign, RefreshSign
    <2> QED BY <2>1 DEF Database
  <1>7. CASE PersistBeta
    <2>1. /\ UNCHANGED Database
          /\ beta'.content \in {beta.content, upload.signature}
          /\ \/ upload'.stage = "refresh" /\ upload'.signature = upload.signature
             \/ upload' = NoUpload
      BY <1>7 DEF PersistBeta
    <2> QED BY <2>1 DEF Database, NoUpload
  <1>8. CASE AdvanceRead \/ AdvanceReplace \/ AdvanceReload \/ AdvanceError \/ RefreshRead
    <2>1. /\ UNCHANGED Database /\ beta' = beta /\ upload'.signature = upload.signature
          /\ upload'.stage \notin {"write", "gate"}
      BY <1>8 DEF AdvanceRead, AdvanceReplace, AdvanceReload, AdvanceError, RefreshRead
    <2> QED BY <2>1 DEF Database
  <1>9. CASE RefreshReplace \/ EndUpload
    BY <1>9 DEF RefreshReplace, EndUpload, NoUpload, Database
  <1> QED BY <1>2, <1>3, <1>4, <1>5, <1>6, <1>7, <1>8, <1>9 DEF Upload

\* A writer without the lease is seen to meddle when it changes something.
LEMMA RefreshFenced ==
    ASSUME Fenced, NEW r \in Refreshers, Refresh(r)
    PROVE  UploadAhead' /\ BetaSigned' /\ BetaKept'
  <1>1. UploadAhead /\ BetaSigned /\ BetaKept
    BY DEF Fenced
  <1>2. upload' = upload /\ beta' = beta
    BY DEF Refresh, ChangeRows, UnleasedRead, UnleasedSign, UnleasedReplace
  <1>3. \/ UNCHANGED <<content, undone, file, meddled>>
        \/ meddled' = {"upload", "beta"}
    BY DEF Refresh, ChangeRows, UnleasedRead, UnleasedSign, UnleasedReplace, Database, History
  <1>4. UploadAhead' /\ BetaSigned'
    BY <1>1, <1>2, <1>3 DEF UploadAhead, BetaSigned
  <1>5. undone' = undone /\ (content' = content \/ content' = fresh + 1)
    BY DEF Refresh, ChangeRows, UnleasedRead, UnleasedSign, UnleasedReplace, WriteRows, Database
  <1>6. /\ content \in Nat /\ fresh \in Nat /\ beta.content \in Nat
        /\ upload.signature \in Nat /\ content <= fresh
    BY Bounds DEF Fenced, Inductive, HistoryOrdered, TypeOK, UploadCall, Frames
  <1>7. BetaKept'
    BY <1>1, <1>2, <1>5, <1>6 DEF BetaKept
  <1> QED BY <1>4, <1>7

LEMMA ReadersFenced ==
    ASSUME Fenced, UNCHANGED Writing
    PROVE  UploadAhead' /\ BetaSigned' /\ BetaKept'
  BY DEF Fenced, Writing, UploadAhead, BetaSigned, BetaKept

LEMMA FencedStep == ASSUME Fenced, [Next]_vars PROVE Fenced'
  <1>1. Inductive'
    BY InductiveStep DEF Fenced
  <1>2. CASE Upload
    BY <1>1, <1>2, UploadStep, BetaStep DEF Fenced
  <1>3. ASSUME NEW r \in Refreshers, Refresh(r) PROVE Fenced'
    BY <1>1, <1>3, RefreshFenced DEF Fenced
  <1>4. ASSUME NEW s \in Sessions, Session(s) PROVE Fenced'
    <2>1. UNCHANGED Writing
      BY <1>4 DEF Session, CheckNumber, CheckToken, LoadNumber, LoadToken, LoadFacts,
         LoadOthers, SaveFacts
    <2> QED BY <1>1, <2>1, ReadersFenced DEF Fenced
  <1>5. ASSUME NEW q \in Requests, Request(q) PROVE Fenced'
    <2>1. UNCHANGED Writing
      BY <1>5 DEF Request, StartNumber, StartToken, BuildFacts, ReadFactsOthers,
         SaveRequestFacts, BuildQuality, ReadQualityOthers, SaveQuality, EndNumber, EndToken
    <2> QED BY <1>1, <2>1, ReadersFenced DEF Fenced
  <1>6. CASE UNCHANGED vars
    <2>1. UNCHANGED Writing
      BY <1>6 DEF vars, Writing
    <2> QED BY <1>1, <2>1, ReadersFenced DEF Fenced
  <1> QED BY <1>2, <1>3, <1>4, <1>5, <1>6 DEF Next

-----------------------------------------------------------------------------
(* The upload, where every writer takes the lease *)

LEMMA NumberKept ==
    ASSUME Leased, Upload
    PROVE  file'.number >= file.number /\ meddled' = {}
  <1>1. /\ upload \in UploadCall /\ file \in Generation /\ file.number \in Nat
        /\ UploadAhead /\ meddled = {}
    BY Numbered DEF Leased, Fenced
  <1> USE <1>1 DEF UploadAhead, UploadCall
  <1>2. CASE AdvanceReplace \/ RefreshReplace
    BY <1>2 DEF AdvanceReplace, RefreshReplace, History
  <1>3. CASE file' = file /\ meddled' \subseteq meddled
    BY <1>3
  <1> QED BY <1>2, <1>3 DEF Upload, BeginUpload, UpsertRows, Accept, Restore, AdvanceRead,
             AdvanceSign, AdvanceReload, AdvanceError, PersistBeta, RefreshRead, RefreshSign,
             EndUpload, History

\* No step of the upload brings rows it has taken back under its number.
LEMMA BehindKept ==
    ASSUME Leased, Upload, NEW n \in Numbers, NEW rows, Behind(n, rows)
    PROVE  Behind(n, rows)'
  <1>1. upload \in UploadCall /\ file.number \in Nat /\ n \in Nat
        /\ UploadAhead /\ meddled = {}
    BY Bounds DEF Leased, Fenced, Inductive, TypeOK, Generation
  <1> USE <1>1 DEF Behind, RetirementDue, UploadAhead, UploadCall
  <1>2. CASE Restore
    BY <1>2 DEF Restore, History
  <1>3. CASE AdvanceReplace
    <2>1. file'.number = file.number + 1
      BY <1>3 DEF AdvanceReplace
    <2> QED BY <1>3, <2>1 DEF AdvanceReplace, Database, History
  <1>4. CASE RefreshReplace
    BY <1>4 DEF RefreshReplace, NoUpload, Database, History
  <1>5. CASE EndUpload
    BY <1>5 DEF EndUpload, Database, History
  <1>6. CASE BeginUpload \/ UpsertRows \/ Accept
    BY <1>6 DEF BeginUpload, UpsertRows, Accept, WriteRows, Database, History
  <1>7. CASE AdvanceRead \/ AdvanceSign
    BY <1>7 DEF AdvanceRead, AdvanceSign, Database, History
  <1>8. CASE AdvanceReload \/ AdvanceError \/ PersistBeta
    BY <1>8 DEF AdvanceReload, AdvanceError, PersistBeta, Database, History
  <1>9. CASE RefreshRead \/ RefreshSign
    BY <1>9 DEF RefreshRead, RefreshSign, Database, History
  <1> QED BY <1>2, <1>3, <1>4, <1>5, <1>6, <1>7, <1>8, <1>9 DEF Upload

LEMMA UploadLeased == ASSUME Leased, Upload, Fenced' PROVE Leased'
  <1>1. /\ UNCHANGED <<facts, quality, session, request>>
        /\ TypeOK /\ file'.number \in Nat /\ file.number \in Nat
    BY Bounds DEF Upload, BeginUpload, UpsertRows, Accept, Restore, AdvanceRead, AdvanceSign,
       AdvanceReplace, AdvanceReload, AdvanceError, PersistBeta, RefreshRead, RefreshSign,
       RefreshReplace, EndUpload, Caches, Reading, Leased, Fenced, Inductive, TypeOK, Generation
  <1>2. file'.number >= file.number /\ meddled' = {}
    BY NumberKept
  <1>3. CacheBehind(facts)' /\ CacheBehind(quality)'
    BY <1>1, BehindKept, TokenOf DEF Leased, CacheBehind
  <1>4. ASSUME NEW s \in Sessions PROVE SessionBehind(s)'
    <2>1. SessionBehind(s) /\ session[s].number \in Nat /\ session[s].token[1] \in Nat
          /\ session[s].token[1] \in Numbers
      BY <1>1, Bounds, TokenOf DEF Leased, TypeOK, SessionState
    <2> QED BY <1>1, <1>2, <2>1, BehindKept DEF SessionBehind
  <1>5. ASSUME NEW q \in Requests PROVE RequestBehind(q)'
    <2>1. RequestBehind(q) /\ request[q].number \in Nat /\ request[q].token[1] \in Nat
          /\ request[q].token[1] \in Numbers
      BY <1>1, Bounds, TokenOf DEF Leased, TypeOK, RequestState
    <2> QED BY <1>1, <1>2, <2>1, BehindKept DEF RequestBehind
  <1> QED BY <1>2, <1>3, <1>4, <1>5 DEF Leased

-----------------------------------------------------------------------------
(* The readers *)

LEMMA WriterStands ==
    ASSUME Leased, UNCHANGED Writing
    PROVE  /\ meddled' = {}
           /\ file' = file /\ content' = content /\ undone' = undone
           /\ \A n, rows : Behind(n, rows)' <=> Behind(n, rows)
  BY DEF Leased, Writing, Behind, RetirementDue

\* What is read now was not taken back.
LEMMA BehindNow ==
    ASSUME Leased, NEW n, n <= file.number
    PROVE  /\ Behind(n, {content})
           /\ \A rows : Behind(n, rows) => Behind(n, rows \union {content})
  BY DEF Leased, Fenced, Inductive, HistoryOrdered, Behind

\* An entry just saved was read under the number of its key.
LEMMA SavedBehind ==
    ASSUME NEW cache \in Cache, CacheBehind(cache), NEW t \in Tokens, NEW rows,
           Behind(t[1], rows)
    PROVE  CacheBehind([cache EXCEPT ![t] = rows])
  BY DEF CacheBehind, Cache

LEMMA SessionLeased ==
    ASSUME Leased, NEW s \in Sessions, Session(s), Fenced'
    PROVE  Leased'
  <1>1. UNCHANGED Writing /\ quality' = quality /\ request' = request
        /\ \A u \in Sessions \ {s} : session'[u] = session[u]
    BY DEF Session, CheckNumber, CheckToken, LoadNumber, LoadToken, LoadFacts, LoadOthers,
       SaveFacts, Caches, Leased, Fenced, Inductive, TypeOK
  <1>2. /\ session[s] \in SessionState /\ session[s].token \in Tokens
        /\ session[s].token[1] \in Nat /\ session[s].number \in Nat
        /\ file.number \in Nat /\ session \in [Sessions -> SessionState]
        /\ facts \in Cache
    BY Bounds, TokenOf DEF Leased, Fenced, Inductive, TypeOK, SessionState, Generation
  <1>3. meddled' = {} /\ file' = file /\ content' = content
        /\ \A n, rows : Behind(n, rows)' <=> Behind(n, rows)
    BY <1>1, WriterStands
  <1>4. SessionBehind(s) /\ CacheBehind(facts) /\ CacheBehind(quality)
    BY DEF Leased
  <1>5. CacheBehind(quality)'
    BY <1>1, <1>3, <1>4 DEF CacheBehind
  <1>6. CacheBehind(facts)'
    <2>1. CASE SaveFacts(s)
      <3>1. Behind(session[s].token[1], session[s].data)
            /\ facts' = [facts EXCEPT ![session[s].token] = session[s].data]
        BY <1>4, <2>1 DEF SaveFacts, SessionBehind
      <3>2. CacheBehind([facts EXCEPT ![session[s].token] = session[s].data])
        BY <1>2, <1>4, <3>1, SavedBehind
      <3> QED BY <1>3, <3>1, <3>2 DEF CacheBehind
    <2>2. CASE facts' = facts
      BY <1>3, <1>4, <2>2 DEF CacheBehind
    <2> QED BY <2>1, <2>2 DEF Session, CheckNumber, CheckToken, LoadNumber, LoadToken,
            LoadFacts, LoadOthers, Caches
  <1>7. SessionBehind(s)'
    <2> USE <1>2
    <2>1. CASE CheckNumber(s) \/ LoadNumber(s)
      <3>1. session'[s].number = file.number /\ session'[s].token = session[s].token
            /\ session'[s].stage \in {"checkSign", "loadSign"}
        BY <2>1 DEF CheckNumber, LoadNumber, SessionState
      <3> QED BY <1>3, <1>4, <3>1 DEF SessionBehind
    <2>2. CASE CheckToken(s) \/ LoadToken(s)
      <3>1. session'[s].number = session[s].number
            /\ session'[s].token[1] \in {session[s].token[1], session[s].number}
            /\ session'[s].stage \in {"render", "load", "facts"}
        <4>1. CASE LoadToken(s)
          BY <4>1 DEF LoadToken, SessionState, Tokens
        <4>2. CASE CheckToken(s)
          <5>1. CASE session[s].token = <<session[s].number, content>>
            BY <4>2, <5>1 DEF CheckToken, SessionState
          <5>2. CASE session[s].token # <<session[s].number, content>>
            BY <4>2, <5>2 DEF CheckToken, SessionState
          <5> QED BY <5>1, <5>2
        <4> QED BY <2>2, <4>1, <4>2
      <3> QED BY <1>3, <1>4, <3>1 DEF SessionBehind
    <2>3. CASE LoadFacts(s)
      <3>1. /\ session'[s].number = session[s].number /\ session'[s].token = session[s].token
            /\ session'[s].stage \in {"loaded", "others"}
            /\ session'[s].stage = "others" => session'[s].data = {content}
        BY <2>3 DEF LoadFacts, SessionState
      <3>2. Behind(session[s].token[1], {content})
        BY <1>4, BehindNow DEF SessionBehind
      <3> QED BY <1>3, <1>4, <3>1, <3>2 DEF SessionBehind
    <2>4. CASE LoadOthers(s)
      <3>1. session'[s].number = session[s].number /\ session'[s].token = session[s].token
            /\ session[s].stage = "others"
            /\ session'[s].data = session[s].data \union {content}
        BY <2>4 DEF LoadOthers, SessionState
      <3>2. Behind(session[s].token[1], session[s].data \union {content})
        BY <1>4, <3>1, BehindNow DEF SessionBehind
      <3> QED BY <1>3, <1>4, <3>1, <3>2 DEF SessionBehind
    <2>5. CASE SaveFacts(s)
      <3>1. session'[s].number = session[s].number /\ session'[s].token = session[s].token
            /\ session'[s].stage = "loaded"
        BY <2>5 DEF SaveFacts, SessionState
      <3> QED BY <1>3, <1>4, <3>1 DEF SessionBehind
    <2> QED BY <2>1, <2>2, <2>3, <2>4, <2>5 DEF Session
  <1>8. ASSUME NEW u \in Sessions PROVE SessionBehind(u)'
    <2>1. CASE u = s
      BY <1>7, <2>1
    <2>2. CASE u # s
      BY <1>1, <1>3, <2>2 DEF Leased, SessionBehind
    <2> QED BY <2>1, <2>2
  <1>9. ASSUME NEW q \in Requests PROVE RequestBehind(q)'
    BY <1>1, <1>3 DEF Leased, RequestBehind
  <1> QED BY <1>3, <1>5, <1>6, <1>8, <1>9 DEF Leased

LEMMA RequestLeased ==
    ASSUME Leased, NEW q \in Requests, Request(q), Fenced'
    PROVE  Leased'
  <1>1. UNCHANGED Writing /\ session' = session
        /\ \A u \in Requests \ {q} : request'[u] = request[u]
    BY DEF Request, StartNumber, StartToken, BuildFacts, ReadFactsOthers, SaveRequestFacts,
       BuildQuality, ReadQualityOthers, SaveQuality, EndNumber, EndToken, Leased, Fenced, Inductive,
       TypeOK
  <1>2. /\ request[q] \in RequestState /\ request[q].token \in Tokens
        /\ request[q].token[1] \in Nat /\ request[q].number \in Nat
        /\ file.number \in Nat /\ request \in [Requests -> RequestState]
        /\ facts \in Cache /\ quality \in Cache
    BY Bounds, TokenOf DEF Leased, Fenced, Inductive, TypeOK, RequestState, Generation
  <1>3. meddled' = {} /\ file' = file /\ content' = content
        /\ \A n, rows : Behind(n, rows)' <=> Behind(n, rows)
    BY <1>1, WriterStands
  <1>4. RequestBehind(q) /\ CacheBehind(facts) /\ CacheBehind(quality)
    BY DEF Leased
  <1> DEFINE n == request[q].token[1]
             Same == request'[q].number = request[q].number /\ request'[q].token = request[q].token
  <1>5. CacheBehind(facts)' /\ CacheBehind(quality)'
    <2>1. CASE SaveRequestFacts(q)
      <3>1. Behind(n, request[q].facts) /\ quality' = quality
            /\ facts' = [facts EXCEPT ![request[q].token] = request[q].facts]
        BY <1>4, <2>1 DEF SaveRequestFacts, RequestBehind
      <3>2. CacheBehind([facts EXCEPT ![request[q].token] = request[q].facts])
        BY <1>2, <1>4, <3>1, SavedBehind
      <3> QED BY <1>3, <1>4, <3>1, <3>2 DEF CacheBehind
    <2>2. CASE SaveQuality(q)
      <3>1. Behind(n, request[q].quality) /\ facts' = facts
            /\ quality' = [quality EXCEPT ![request[q].token] = request[q].quality]
        BY <1>4, <2>2 DEF SaveQuality, RequestBehind
      <3>2. CacheBehind([quality EXCEPT ![request[q].token] = request[q].quality])
        BY <1>2, <1>4, <3>1, SavedBehind
      <3> QED BY <1>3, <1>4, <3>1, <3>2 DEF CacheBehind
    <2>3. CASE UNCHANGED Caches
      BY <1>3, <1>4, <2>3 DEF CacheBehind, Caches
    <2> QED BY <2>1, <2>2, <2>3 DEF Request, StartNumber, StartToken, BuildFacts,
            ReadFactsOthers, BuildQuality, ReadQualityOthers, EndNumber, EndToken
  <1>6. RequestBehind(q)'
    <2> USE <1>2
    <2>1. CASE StartNumber(q) \/ EndNumber(q)
      <3>1. /\ request'[q].number = file.number /\ request'[q].token = request[q].token
            /\ request'[q].stage = "startSign" \/
               (request'[q].stage = "endSign" /\ request[q].stage = "end")
        BY <2>1 DEF StartNumber, EndNumber, RequestState
      <3> QED BY <1>3, <1>4, <3>1 DEF RequestBehind
    <2>2. CASE StartToken(q)
      <3>1. request'[q].number = request[q].number /\ request'[q].stage = "facts"
            /\ request'[q].token[1] = request[q].number
        BY <2>2 DEF StartToken, RequestState, Tokens
      <3> QED BY <1>3, <1>4, <3>1 DEF RequestBehind
    <2>3. CASE BuildFacts(q)
      <3>1. /\ Same /\ request[q].stage = "facts"
            /\ request'[q].stage \in {"quality", "factsOthers"}
            /\ request'[q].stage = "factsOthers" => request'[q].facts = {content}
        BY <2>3 DEF BuildFacts, RequestState
      <3>2. n <= file.number /\ Behind(n, {content})
        BY <1>4, <3>1, BehindNow DEF RequestBehind
      <3> QED BY <1>3, <1>4, <3>1, <3>2 DEF RequestBehind
    <2>4. CASE ReadFactsOthers(q)
      <3>1. /\ Same /\ request[q].stage = "factsOthers" /\ request'[q].stage = "saveFacts"
            /\ request'[q].facts = request[q].facts \union {content}
        BY <2>4 DEF ReadFactsOthers, RequestState
      <3>2. n <= file.number /\ Behind(n, request[q].facts \union {content})
        BY <1>4, <3>1, BehindNow DEF RequestBehind
      <3> QED BY <1>3, <1>4, <3>1, <3>2 DEF RequestBehind
    <2>5. CASE BuildQuality(q)
      <3>1. /\ Same /\ request[q].stage = "quality"
            /\ request'[q].stage \in {"end", "qualityOthers"}
            /\ request'[q].stage = "qualityOthers" => request'[q].quality = {content}
        BY <2>5 DEF BuildQuality, RequestState
      <3>2. n <= file.number /\ Behind(n, {content})
        BY <1>4, <3>1, BehindNow DEF RequestBehind
      <3> QED BY <1>3, <1>4, <3>1, <3>2 DEF RequestBehind
    <2>6. CASE ReadQualityOthers(q)
      <3>1. /\ Same /\ request[q].stage = "qualityOthers" /\ request'[q].stage = "saveQuality"
            /\ request'[q].quality = request[q].quality \union {content}
        BY <2>6 DEF ReadQualityOthers, RequestState
      <3>2. n <= file.number /\ Behind(n, request[q].quality \union {content})
        BY <1>4, <3>1, BehindNow DEF RequestBehind
      <3> QED BY <1>3, <1>4, <3>1, <3>2 DEF RequestBehind
    <2>7. CASE SaveRequestFacts(q) \/ SaveQuality(q) \/ EndToken(q)
      <3>1. /\ Same /\ request[q].stage \in {"saveFacts", "saveQuality", "endSign"}
            /\ request'[q].stage \in {"quality", "end", "start", "returned", "conflict"}
        <4>1. CASE SaveRequestFacts(q) \/ SaveQuality(q)
          BY <4>1 DEF SaveRequestFacts, SaveQuality, RequestState
        <4>2. CASE EndToken(q)
          <5>1. CASE request[q].token = <<request[q].number, content>>
            BY <4>2, <5>1 DEF EndToken, RequestState
          <5>2. CASE request[q].token # <<request[q].number, content>> /\ request[q].attempt = 1
            BY <4>2, <5>2 DEF EndToken, RequestState
          <5>3. CASE request[q].token # <<request[q].number, content>> /\ request[q].attempt # 1
            BY <4>2, <5>3 DEF EndToken, RequestState
          <5> QED BY <5>1, <5>2, <5>3
        <4> QED BY <2>7, <4>1, <4>2
      <3> QED BY <1>3, <1>4, <3>1 DEF RequestBehind
    <2> QED BY <2>1, <2>2, <2>3, <2>4, <2>5, <2>6, <2>7 DEF Request
  <1>7. ASSUME NEW u \in Requests PROVE RequestBehind(u)'
    <2>1. CASE u = q
      BY <1>6, <2>1
    <2>2. CASE u # q
      BY <1>1, <1>3, <2>2 DEF Leased, RequestBehind
    <2> QED BY <2>1, <2>2
  <1>8. ASSUME NEW s \in Sessions PROVE SessionBehind(s)'
    BY <1>1, <1>3 DEF Leased, SessionBehind
  <1> QED BY <1>3, <1>5, <1>7, <1>8 DEF Leased

-----------------------------------------------------------------------------
(* The theorems *)

LEMMA LeasedStep == ASSUME Refreshers = {}, Leased, [Next]_vars PROVE Leased'
  <1>1. Fenced'
    BY FencedStep DEF Leased
  <1>2. CASE UNCHANGED vars
    <2>1. UNCHANGED Writing /\ UNCHANGED <<facts, quality, session, request>>
      BY <1>2 DEF vars, Writing
    <2>2. meddled' = {} /\ file' = file
          /\ \A n, rows : Behind(n, rows)' <=> Behind(n, rows)
      BY <2>1, WriterStands
    <2> QED BY <1>1, <2>1, <2>2 DEF Leased, CacheBehind, SessionBehind, RequestBehind
  <1> QED BY <1>1, <1>2, UploadLeased, SessionLeased, RequestLeased DEF Next

\* cache_generation_service: with the lease alone, uploads and rollbacks
\* advance the generation number and nothing takes it back.
THEOREM NumberAdvances == ASSUME Refreshers = {} PROVE Spec => GenerationNeverGoesBack
  <1>1. Leased /\ [Next]_vars => [file'.number >= file.number]_vars
    <2> SUFFICES ASSUME Leased, [Next]_vars PROVE [file'.number >= file.number]_vars
      OBVIOUS
    <2>1. file.number \in Nat
      BY Bounds DEF Leased, Fenced, Inductive, TypeOK, Generation
    <2>2. CASE Upload
      BY <2>2, NumberKept
    <2>3. ASSUME NEW s \in Sessions, Session(s) PROVE file'.number >= file.number
      BY <2>1, <2>3 DEF Session, CheckNumber, CheckToken, LoadNumber, LoadToken, LoadFacts,
         LoadOthers, SaveFacts, Writing
    <2>4. ASSUME NEW q \in Requests, Request(q) PROVE file'.number >= file.number
      BY <2>1, <2>4 DEF Request, StartNumber, StartToken, BuildFacts, ReadFactsOthers,
         SaveRequestFacts, BuildQuality, ReadQualityOthers, SaveQuality, EndNumber, EndToken,
         Writing
    <2> QED BY <2>2, <2>3, <2>4 DEF Next
  <1> QED BY <1>1, InitLeased, LeasedStep, PTL DEF Spec, GenerationNeverGoesBack

\* load_beta_seller_scope_frames: beside any writers without the lease, frames
\* served for the current generation belong to the rows in the database unless
\* such a writer has met them, and none are of rows that were taken back.
THEOREM BetaOfItsRows == Spec => []BetaMatchesRows
  <1>1. Fenced => BetaMatchesRows
    BY DEF Fenced, BetaSigned, BetaKept, BetaMatchesRows
  <1> QED BY <1>1, InitFenced, FencedStep, PTL DEF Spec

\* handle_core_drift_rollback and advance_cache_generation: after a verified
\* rollback that has its generation, no cache entry of the current token holds
\* rows the rollback has taken back.
THEOREM CachesRetired == ASSUME Refreshers = {} PROVE Spec => []RollbackRetiresCaches
  <1>1. Leased => RollbackRetiresCaches
    <2> SUFFICES ASSUME Leased, ~unretired, ~RetirementDue
                 PROVE (facts[CurrentToken] \union quality[CurrentToken]) \intersect undone = {}
      BY DEF RollbackRetiresCaches
    <2>1. CurrentToken \in Tokens /\ CurrentToken[1] = file.number /\ file.number \in Nat
      BY Bounds DEF Leased, Fenced, Inductive, TypeOK, Generation, CurrentToken, Tokens
    <2>2. facts[CurrentToken] # {} => Behind(file.number, facts[CurrentToken])
      BY <2>1 DEF Leased, CacheBehind
    <2>3. quality[CurrentToken] # {} => Behind(file.number, quality[CurrentToken])
      BY <2>1 DEF Leased, CacheBehind
    <2> QED BY <2>1, <2>2, <2>3 DEF Behind
  <1> QED BY <1>1, InitLeased, LeasedStep, PTL DEF Spec

=============================================================================
