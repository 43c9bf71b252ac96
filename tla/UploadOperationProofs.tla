----------------------- MODULE UploadOperationProofs -----------------------
(***************************************************************************)
(* Proofs about module UploadOperation, for any uploads and any batches.   *)
(*                                                                         *)
(* A restore replaces the whole database, so what is claimed of the live   *)
(* rows must hold of the backup an upload has taken as well (Kept, of      *)
(* both).  And a claim about an answer must hold of the upload in progress *)
(* from the step on where its answer is settled (JobRight): between the    *)
(* two tables a batch is partly written, and clear_database may run there  *)
(* too, but then the frozen rows are gone and the gate refuses.            *)
(***************************************************************************)
EXTENDS UploadOperation, TLAPS

Rows(D) == D.tables.tour \union D.tables.others

Whole(D, u) == u \in D.tables.tour <=> u \in D.tables.others

InBoth(D, u) == u \in D.tables.tour \intersect D.tables.others

\* What the answers given so far say of database D, live or backup.
Kept(D) ==
    \A u \in Uploads :
        /\ Accepted(u) => Whole(D, u) /\ (cleared \/ InBoth(D, u))
        /\ reply[u] = "rolled_back" \/ (reply[u] = "none" /\ u # job.op) => u \notin Rows(D)
        /\ reply[u] = "success" => u \in D.history

BackedUp == {"tour", "others", "gate", "restore"}

Predicted == {"activate", "backup", "tour", "others", "gate"}

Unsettled == {"preflight", "verify"} \union Predicted \union BackedUp

\* What each step knows of the upload in progress.
JobRight ==
    LET u == job.op
        step == job.step
        status == job.status IN
    u # None =>
      /\ reply[u] = "none"
      /\ step \in Unsettled => status = "pending"
      /\ status \in {"pending", "accepted"} => job.public # "error"
      /\ step \in {"preflight", "activate", "backup", "tour", "verify"} => u \notin Rows(live)
      /\ step = "others" /\ InBoth(live, Base) => u \in live.tables.tour
      /\ step = "gate" /\ InBoth(live, Base) => InBoth(live, u)
      /\ status = "rejected_rolled_back" => u \notin Rows(live)
      /\ status = "accepted" => Whole(live, u) /\ (cleared \/ InBoth(live, u))
      /\ status = "accepted" /\ job.public = "success" /\ step \in {"refresh", "answer"} =>
            u \in live.history

\* The backup is of this upload's database before its first row.
BackupRight ==
    job.op # None /\ job.step \in BackedUp =>
        /\ job.backup \in Database /\ Kept(job.backup)
        /\ job.op \notin Rows(job.backup)
        /\ live.rules \subseteq job.backup.rules

\* Undisturbed, the prediction of the preflight stands.
PredictionStands ==
    /\ job.op # None /\ job.step \in Predicted /\ ~disturbed =>
          ~Drifts(Merged(live.tables, job.op), mode)
    /\ RollbackMeansDisturbed

IInv == TypeOK /\ Kept(live) /\ JobRight /\ BackupRight /\ PredictionStands

-----------------------------------------------------------------------------
(* What stays *)

\* A step of the upload in progress: the earlier answers keep their rows.
LEMMA KeptLive ==
    ASSUME IInv, job.op # None, reply' = reply, job'.op = job.op, cleared' = cleared,
           \A u \in Uploads \ {job.op} :
              /\ u \in live'.tables.tour <=> u \in live.tables.tour
              /\ u \in live'.tables.others <=> u \in live.tables.others
              /\ u \in live.history => u \in live'.history
    PROVE  Kept(live)'
<1>1. Kept(live) /\ reply[job.op] = "none"
  BY DEF IInv, JobRight
<1> QED
  BY <1>1 DEF Kept, Accepted, Whole, InBoth, Rows

LEMMA BackupStays ==
    ASSUME BackupRight, reply' = reply, job'.op = job.op, job'.backup = job.backup,
           cleared => cleared', live'.rules = live.rules,
           job'.step \in BackedUp => job.step \in BackedUp
    PROVE  BackupRight'
<1> SUFFICES ASSUME job'.op # None, job'.step \in BackedUp
             PROVE  /\ job'.backup \in Database /\ Kept(job.backup)'
                    /\ job'.op \notin Rows(job'.backup)
                    /\ live'.rules \subseteq job'.backup.rules
  BY DEF BackupRight, Rows
<1>1. /\ job.backup \in Database /\ Kept(job.backup)
      /\ job.op \notin Rows(job.backup)
      /\ live.rules \subseteq job.backup.rules
  BY DEF BackupRight
<1> QED
  BY <1>1 DEF Kept, Accepted, Whole, InBoth, Rows

\* A call that ends: what its answer claims, its job has shown.
LEMMA AnswerStep ==
    ASSUME IInv, job.op # None, NEW a \in Replies \ {"none"}, Answer(a),
           live' \in Database, live'.tables = live.tables, live'.history = live.history,
           UNCHANGED mode, NoWriter,
           a \in {"success", "warning", "degraded"} => job.status = "accepted" /\ job.step = "answer",
           a = "success" => job.public = "success",
           a = "rolled_back" => job.status = "rejected_rolled_back"
    PROVE  IInv'
<1>1. TypeOK /\ Kept(live) /\ JobRight /\ job.op \in Uploads
  BY DEF IInv, TypeOK, Job
<1>2. /\ reply' = [reply EXCEPT ![job.op] = a] /\ job' = NoJob /\ disturbed' = FALSE
      /\ UNCHANGED <<repair, promo, cleared>>
  BY DEF Answer, NoWriter
<1>3. job' \in Job /\ job'.op = None /\ job'.step = "answer"
  BY <1>2 DEF NoJob, Job, Steps, FinalStatus, PublicStatus
<1>4. TypeOK'
  BY <1>1, <1>2, <1>3 DEF TypeOK
<1>5. Kept(live)'
  <2> SUFFICES ASSUME NEW u \in Uploads
               PROVE  /\ Accepted(u)' => Whole(live, u)' /\ (cleared' \/ InBoth(live, u)')
                      /\ reply'[u] = "rolled_back" \/ (reply'[u] = "none" /\ u # job'.op) =>
                            u \notin Rows(live)'
                      /\ reply'[u] = "success" => u \in live'.history
    BY DEF Kept
  <2>1. CASE u # job.op
    <3>1. reply'[u] = reply[u]
      BY <1>1, <1>2, <2>1 DEF TypeOK
    <3> QED
      BY <1>1, <1>2, <2>1, <3>1 DEF Kept, Accepted, Whole, InBoth, Rows
  <2>2. CASE u = job.op
    <3>1. reply'[u] = a
      BY <1>1, <1>2, <2>2 DEF TypeOK
    <3> QED
      BY <1>1, <1>2, <2>2, <3>1 DEF JobRight, Accepted, Whole, InBoth, Rows
  <2> QED
    BY <2>1, <2>2
<1>6. JobRight' /\ BackupRight' /\ PredictionStands'
  BY <1>3 DEF JobRight, BackupRight, PredictionStands, RollbackMeansDisturbed, At
<1> QED
  BY <1>4, <1>5, <1>6 DEF IInv

-----------------------------------------------------------------------------
(* The steps of the upload *)

LEMMA BeginStep == ASSUME IInv, NEW u \in Uploads, Begin(u) PROVE IInv'
<1>1. PICK confirmed \in BOOLEAN :
          job' = [NoJob EXCEPT !.op = u, !.step = "preflight", !.confirmed = confirmed]
  BY DEF Begin
<1>2. /\ TypeOK /\ Kept(live) /\ job.op = None /\ reply[u] = "none" /\ u # None
      /\ UNCHANGED <<live, mode, reply, disturbed, repair, promo, cleared>>
  BY UploadsAssumption DEF IInv, Begin, NoWriter
<1>3. /\ job' \in Job /\ job'.op = u /\ job'.step = "preflight" /\ job'.status = "pending"
      /\ job'.public = "success"
  BY <1>1 DEF NoJob, Job, Steps, FinalStatus, PublicStatus
<1>4. TypeOK'
  BY <1>2, <1>3 DEF TypeOK
<1>5. Kept(live)'
  BY <1>2, <1>3, UploadsAssumption DEF Kept, Accepted, Whole, InBoth, Rows
<1>6. JobRight'
  BY <1>2, <1>3 DEF JobRight, Kept, Rows
<1>7. BackupRight' /\ PredictionStands'
  BY <1>3 DEF BackupRight, PredictionStands, RollbackMeansDisturbed, At, BackedUp, Predicted
<1> QED
  BY <1>4, <1>5, <1>6, <1>7 DEF IInv

LEMMA PreflightStep == ASSUME IInv, Preflight PROVE IInv'
<1>1. /\ TypeOK /\ Kept(live) /\ JobRight /\ BackupRight /\ job.op # None /\ job.step = "preflight"
      /\ UNCHANGED <<live, mode, repair, promo, cleared>>
  BY DEF IInv, Preflight, At, NoWriter
<1>2. CASE Answer("blocked") \/ Answer("raised")
  BY <1>1, <1>2, AnswerStep DEF TypeOK, Replies, NoWriter
<1>3. CASE /\ ~Drifts(Merged(live.tables, job.op), mode)
           /\ Goto(IF job.confirmed THEN "activate" ELSE "backup")
           /\ UNCHANGED <<reply, disturbed>>
  <2>1. PICK step \in {"activate", "backup"} : job' = [job EXCEPT !.step = step]
    BY <1>3 DEF Goto
  <2>2. job' \in Job /\ job'.op = job.op /\ job'.step = step /\ job'.status = job.status
        /\ job'.public = job.public /\ job'.backup = job.backup
    BY <1>1, <2>1 DEF TypeOK, Job, Steps
  <2>3. TypeOK' /\ Kept(live)'
    BY <1>1, <1>3, <2>2, KeptLive DEF TypeOK
  <2>4. JobRight'
    BY <1>1, <1>3, <2>2 DEF JobRight, Rows, Unsettled, Predicted
  <2>5. BackupRight'
    BY <2>2 DEF BackupRight, BackedUp
  <2>6. PredictionStands'
    BY <1>1, <1>3, <2>2 DEF PredictionStands, Drifts, Merged, Shifted, RollbackMeansDisturbed, At
  <2> QED
    BY <2>3, <2>4, <2>5, <2>6 DEF IInv
<1> QED
  BY <1>2, <1>3 DEF Preflight

LEMMA ActivateStep == ASSUME IInv, Activate PROVE IInv'
<1>1. /\ TypeOK /\ Kept(live) /\ JobRight /\ PredictionStands /\ job.op # None
      /\ job.op \in Uploads /\ job.step = "activate"
      /\ UNCHANGED <<mode, repair, promo, cleared>> /\ live' \in {live, WithRule}
  BY DEF IInv, Activate, At, NoWriter, TypeOK, Job
<1>2. live' \in Database /\ live'.tables = live.tables /\ live'.history = live.history
  BY <1>1 DEF WithRule, TypeOK, Database
<1>3. CASE Answer("blocked")
  BY <1>1, <1>2, <1>3, AnswerStep DEF Replies, NoWriter
<1>4. CASE Goto("backup") /\ UNCHANGED <<reply, disturbed>>
  <2>1. job' \in Job /\ job'.op = job.op /\ job'.step = "backup" /\ job'.status = job.status
        /\ job'.public = job.public
    BY <1>1, <1>4 DEF TypeOK, Job, Steps, Goto
  <2>2. TypeOK' /\ Kept(live)'
    BY <1>1, <1>2, <1>4, <2>1, KeptLive DEF TypeOK
  <2>3. JobRight'
    BY <1>1, <1>2, <1>4, <2>1 DEF JobRight, Rows, Unsettled, Predicted
  <2>4. BackupRight'
    BY <2>1 DEF BackupRight, BackedUp
  <2>5. PredictionStands'
    BY <1>1, <1>2, <1>4, <2>1
       DEF PredictionStands, Predicted, Drifts, Merged, Shifted, RollbackMeansDisturbed, At
  <2> QED
    BY <2>2, <2>3, <2>4, <2>5 DEF IInv
<1> QED
  BY <1>3, <1>4 DEF Activate

LEMMA BackupStep == ASSUME IInv, Backup PROVE IInv'
<1>1. /\ TypeOK /\ Kept(live) /\ JobRight /\ PredictionStands /\ job.op # None
      /\ job.step = "backup" /\ UNCHANGED <<live, mode, repair, promo, cleared>>
  BY DEF IInv, Backup, At, NoWriter
<1>2. CASE \E answer \in {"blocked", "raised"} : Answer(answer)
  BY <1>1, <1>2, AnswerStep DEF Replies, NoWriter, TypeOK
<1>3. CASE job' = [job EXCEPT !.step = "tour", !.backup = live] /\ UNCHANGED <<reply, disturbed>>
  <2>1. job' \in Job /\ job'.op = job.op /\ job'.step = "tour" /\ job'.status = job.status
        /\ job'.public = job.public /\ job'.backup = live
    BY <1>1, <1>3 DEF TypeOK, Job, Steps
  <2>2. TypeOK' /\ Kept(live)'
    BY <1>1, <1>3, <2>1, KeptLive DEF TypeOK
  <2>3. JobRight'
    BY <1>1, <1>3, <2>1 DEF JobRight, Rows, Unsettled, Predicted
  <2>4. BackupRight'
    <3>1. Kept(job.backup)'
      BY <1>1, <2>1, <2>2 DEF Kept, Accepted, Whole, InBoth, Rows
    <3> QED
      BY <1>1, <2>1, <3>1 DEF BackupRight, JobRight, Rows, TypeOK
  <2>5. PredictionStands'
    BY <1>1, <1>3, <2>1
       DEF PredictionStands, Predicted, Drifts, Merged, Shifted, RollbackMeansDisturbed, At
  <2> QED
    BY <2>2, <2>3, <2>4, <2>5 DEF IInv
<1> QED
  BY <1>2, <1>3 DEF Backup

LEMMA UpsertTourStep == ASSUME IInv, UpsertTour PROVE IInv'
<1>1. /\ TypeOK /\ Kept(live) /\ JobRight /\ BackupRight /\ PredictionStands /\ job.op # None
      /\ job.op \in Uploads /\ job.step = "tour" /\ UNCHANGED <<mode, repair, promo, cleared>>
  BY DEF IInv, UpsertTour, At, NoWriter, TypeOK, Job
<1>2. CASE Answer("raised") /\ UNCHANGED live
  BY <1>1, <1>2, AnswerStep DEF Replies, NoWriter, TypeOK
<1>3. CASE /\ live' = [live EXCEPT !.tables.tour = @ \union {job.op}]
           /\ Goto("others") /\ UNCHANGED <<reply, disturbed>>
  <2>1. job' \in Job /\ job'.op = job.op /\ job'.step = "others" /\ job'.status = job.status
        /\ job'.public = job.public /\ job'.backup = job.backup
    BY <1>1, <1>3 DEF TypeOK, Job, Steps, Goto
  <2>2. /\ live' \in Database /\ live'.tables.tour = live.tables.tour \union {job.op}
        /\ live'.tables.others = live.tables.others /\ live'.history = live.history
        /\ live'.rules = live.rules
    BY <1>1, <1>3 DEF TypeOK, Database, Tables, Items
  <2>3. TypeOK' /\ Kept(live)'
    BY <1>1, <1>3, <2>1, <2>2, KeptLive DEF TypeOK
  <2>4. JobRight'
    BY <1>1, <1>3, <2>1, <2>2 DEF JobRight, Rows, Unsettled, BackedUp
  <2>5. BackupRight'
    BY <1>1, <1>3, <2>1, <2>2, BackupStays DEF BackedUp
  <2>6. PredictionStands'
    <3>1. Merged(live.tables, job.op)' = Merged(live.tables, job.op)
      BY <2>1, <2>2 DEF Merged
    <3> QED
      BY <1>1, <1>3, <2>1, <3>1
         DEF PredictionStands, Predicted, Drifts, Shifted, RollbackMeansDisturbed, At
  <2> QED
    BY <2>3, <2>4, <2>5, <2>6 DEF IInv
<1> QED
  BY <1>2, <1>3 DEF UpsertTour

LEMMA UpsertOthersStep == ASSUME IInv, UpsertOthers PROVE IInv'
<1>1. /\ TypeOK /\ Kept(live) /\ JobRight /\ BackupRight /\ PredictionStands /\ job.op # None
      /\ job.op \in Uploads /\ job.step = "others" /\ UNCHANGED <<mode, repair, promo, cleared>>
  BY DEF IInv, UpsertOthers, At, NoWriter, TypeOK, Job
<1>2. CASE Answer("raised") /\ UNCHANGED live
  BY <1>1, <1>2, AnswerStep DEF Replies, NoWriter, TypeOK
<1>3. CASE /\ live' = [live EXCEPT !.tables.others = @ \union {job.op}]
           /\ Goto("gate") /\ UNCHANGED <<reply, disturbed>>
  <2>1. job' \in Job /\ job'.op = job.op /\ job'.step = "gate" /\ job'.status = job.status
        /\ job'.public = job.public /\ job'.backup = job.backup
    BY <1>1, <1>3 DEF TypeOK, Job, Steps, Goto
  <2>2. /\ live' \in Database /\ live'.tables.others = live.tables.others \union {job.op}
        /\ live'.tables.tour = live.tables.tour /\ live'.history = live.history
        /\ live'.rules = live.rules
    BY <1>1, <1>3 DEF TypeOK, Database, Tables, Items
  <2>3. TypeOK' /\ Kept(live)'
    BY <1>1, <1>3, <2>1, <2>2, KeptLive DEF TypeOK
  <2>4. JobRight'
    BY <1>1, <1>3, <2>1, <2>2, UploadsAssumption DEF JobRight, Rows, Unsettled, BackedUp, InBoth
  <2>5. BackupRight'
    BY <1>1, <1>3, <2>1, <2>2, BackupStays DEF BackedUp
  <2>6. PredictionStands'
    <3>1. Merged(live.tables, job.op)' = Merged(live.tables, job.op)
      BY <2>1, <2>2 DEF Merged
    <3> QED
      BY <1>1, <1>3, <2>1, <3>1
         DEF PredictionStands, Predicted, Drifts, Shifted, RollbackMeansDisturbed, At
  <2> QED
    BY <2>3, <2>4, <2>5, <2>6 DEF IInv
<1> QED
  BY <1>2, <1>3 DEF UpsertOthers

\* The gate accepts only what is in both tables, and refuses nothing that was
\* predicted, unless somebody interfered.
LEMMA GateStep == ASSUME IInv, Gate PROVE IInv'
<1>1. /\ TypeOK /\ Kept(live) /\ JobRight /\ BackupRight /\ PredictionStands /\ job.op # None
      /\ job.op \in Uploads /\ job.step = "gate" /\ UNCHANGED <<live, mode, repair, promo, cleared>>
  BY DEF IInv, Gate, At, NoWriter, TypeOK, Job
<1>2. CASE Answer("raised")
  BY <1>1, <1>2, AnswerStep DEF Replies, NoWriter, TypeOK
<1>3. CASE /\ ~Drifts(live.tables, mode)
           /\ job' = [job EXCEPT !.step = "advance", !.status = "accepted",
                                 !.stable = AllMatched(live.tables)]
           /\ UNCHANGED <<reply, disturbed>>
  <2>1. AllMatched(live.tables) \in BOOLEAN
    BY DEF AllMatched, Drifts
  <2>2. job' \in Job /\ job'.op = job.op /\ job'.step = "advance" /\ job'.status = "accepted"
        /\ job'.public = job.public
    BY <1>1, <1>3, <2>1 DEF TypeOK, Job, Steps, FinalStatus
  <2>3. TypeOK' /\ Kept(live)'
    BY <1>1, <1>3, <2>2, KeptLive DEF TypeOK
  <2>4. InBoth(live, job.op)
    BY <1>1, <1>3 DEF JobRight, Drifts, InBoth
  <2>5. JobRight'
    BY <1>1, <1>3, <2>2, <2>4 DEF JobRight, Rows, Unsettled, BackedUp, Predicted, Whole, InBoth
  <2>6. BackupRight' /\ PredictionStands'
    BY <2>2 DEF BackupRight, BackedUp, PredictionStands, Predicted, RollbackMeansDisturbed, At
  <2> QED
    BY <2>3, <2>5, <2>6 DEF IInv
<1>4. CASE /\ Drifts(live.tables, mode) /\ Goto("restore") /\ UNCHANGED <<reply, disturbed>>
  <2>1. job' \in Job /\ job'.op = job.op /\ job'.step = "restore" /\ job'.status = job.status
        /\ job'.public = job.public /\ job'.backup = job.backup
    BY <1>1, <1>4 DEF TypeOK, Job, Steps, Goto
  <2>2. TypeOK' /\ Kept(live)'
    BY <1>1, <1>4, <2>1, KeptLive DEF TypeOK
  <2>3. JobRight'
    BY <1>1, <1>4, <2>1 DEF JobRight, Rows, Unsettled, BackedUp, Predicted
  <2>4. BackupRight'
    BY <1>1, <1>4, <2>1, BackupStays DEF BackedUp
  <2>5. disturbed
    <3> SUFFICES ASSUME ~disturbed PROVE FALSE
      BY <1>1 DEF TypeOK
    <3>1. ~Drifts(Merged(live.tables, job.op), mode)
      BY <1>1 DEF PredictionStands, Predicted
    <3>2. InBoth(live, Base)
      BY <1>1, <3>1, UploadsAssumption DEF Drifts, Merged, InBoth
    <3>3. Merged(live.tables, job.op).tour = live.tables.tour
          /\ Merged(live.tables, job.op).others = live.tables.others
      BY <1>1, <3>2 DEF JobRight, InBoth, Merged
    <3> QED
      BY <1>4, <3>1, <3>3 DEF Drifts, Shifted
  <2>6. PredictionStands'
    BY <1>4, <2>1, <2>5 DEF PredictionStands, Predicted, RollbackMeansDisturbed, At
  <2> QED
    BY <2>2, <2>3, <2>4, <2>6 DEF IInv
<1> QED
  BY <1>2, <1>3, <1>4 DEF Gate

\* A restore that is not confirmed: an error, whatever has been replaced.
LEMMA RollbackFailedStep ==
    ASSUME IInv, job.op # None, RollbackFailed, live' \in Database, Kept(live)',
           UNCHANGED <<mode, reply, disturbed, repair, promo, cleared>>
    PROVE  IInv'
<1>1. TypeOK /\ JobRight
  BY DEF IInv
<1>2. job' \in Job /\ job'.op = job.op /\ job'.step = "history" /\ job'.status = "rollback_failed"
  BY <1>1 DEF RollbackFailed, TypeOK, Job, Steps, FinalStatus, PublicStatus
<1>3. TypeOK'
  BY <1>1, <1>2 DEF TypeOK
<1>4. JobRight'
  BY <1>1, <1>2 DEF JobRight, Unsettled, BackedUp, Predicted
<1>5. BackupRight' /\ PredictionStands'
  BY <1>2 DEF BackupRight, BackedUp, PredictionStands, Predicted, RollbackMeansDisturbed, At
<1> QED
  BY <1>3, <1>4, <1>5 DEF IInv

LEMMA RestoreStep == ASSUME IInv, Restore PROVE IInv'
<1>1. /\ TypeOK /\ Kept(live) /\ JobRight /\ job.op # None
      /\ job.op \in Uploads /\ job.step = "restore"
      /\ UNCHANGED <<mode, reply, disturbed, repair, promo, cleared>>
      /\ job.backup \in Database /\ Kept(job.backup) /\ job.op \notin Rows(job.backup)
  BY DEF IInv, Restore, At, NoWriter, TypeOK, Job, BackupRight, BackedUp
<1>2. ASSUME live' \in {live, job.backup}, job'.op = job.op
      PROVE  live' \in Database /\ Kept(live)'
  <2>1. CASE live' = live
    BY <1>1, <1>2, <2>1, KeptLive DEF TypeOK
  <2>2. CASE live' = job.backup
    BY <1>1, <1>2, <2>2 DEF Kept, Accepted, Whole, InBoth, Rows
  <2> QED
    BY <1>2, <2>1, <2>2
<1>3. CASE live' = job.backup /\ Goto("verify")
  <2>1. job' \in Job /\ job'.op = job.op /\ job'.step = "verify" /\ job'.status = job.status
        /\ job'.public = job.public
    BY <1>1, <1>3 DEF TypeOK, Job, Steps, Goto
  <2>2. TypeOK' /\ Kept(live)'
    BY <1>1, <1>2, <1>3, <2>1 DEF TypeOK
  <2>3. JobRight'
    BY <1>1, <1>3, <2>1 DEF JobRight, Rows, Unsettled, BackedUp, Predicted
  <2>4. BackupRight' /\ PredictionStands'
    BY <2>1 DEF BackupRight, BackedUp, PredictionStands, Predicted, RollbackMeansDisturbed, At
  <2> QED
    BY <2>2, <2>3, <2>4 DEF IInv
<1>4. CASE live' \in {live, job.backup} /\ RollbackFailed
  <2>1. job'.op = job.op
    BY <1>1, <1>4 DEF RollbackFailed, TypeOK, Job
  <2> QED
    BY <1>1, <1>2, <1>4, <2>1, RollbackFailedStep
<1> QED
  BY <1>3, <1>4 DEF Restore

\* The steps after the decision: status is settled, tables stay.
LEMMA SettledStep ==
    ASSUME IInv, job.op # None, job' \in Job, job'.op = job.op,
           job'.step \in {"advance", "derive", "history", "refresh", "answer"},
           live' \in Database, live'.tables = live.tables,
           UNCHANGED <<mode, reply, disturbed, repair, promo, cleared>>,
           live.history \subseteq live'.history,
           \/ job'.status = job.status
           \/ job'.status = "rejected_rolled_back" /\ job.step = "verify",
           job'.status = "accepted" => job'.public # "error",
           job'.status = "pending" => job'.public # "error",
           job'.status = "accepted" /\ job'.public = "success" /\ job'.step \in {"refresh", "answer"}
              => job.op \in live'.history
    PROVE  IInv'
<1>1. TypeOK /\ JobRight
  BY DEF IInv
<1>2. TypeOK' /\ Kept(live)'
  BY <1>1, KeptLive DEF TypeOK
<1>3. JobRight'
  BY <1>1 DEF JobRight, Unsettled, BackedUp, Predicted, Rows, Whole, InBoth
<1>4. BackupRight' /\ PredictionStands'
  BY DEF BackupRight, BackedUp, PredictionStands, Predicted, RollbackMeansDisturbed, At
<1> QED
  BY <1>2, <1>3, <1>4 DEF IInv

LEMMA VerifyRollbackStep == ASSUME IInv, VerifyRollback PROVE IInv'
<1>1. /\ TypeOK /\ JobRight /\ job.op # None /\ job.step = "verify"
      /\ UNCHANGED <<live, mode, reply, disturbed, repair, promo, cleared>>
  BY DEF IInv, VerifyRollback, At, NoWriter
<1>2. CASE job' = [job EXCEPT !.step = "advance", !.status = "rejected_rolled_back",
                              !.public = "error"]
  <2>1. job' \in Job /\ job'.op = job.op /\ job'.step = "advance"
        /\ job'.status = "rejected_rolled_back"
    BY <1>1, <1>2 DEF TypeOK, Job, Steps, FinalStatus, PublicStatus
  <2> QED
    BY <1>1, <2>1, SettledStep DEF TypeOK
<1>3. CASE RollbackFailed
  <2>1. job'.op = job.op
    BY <1>1, <1>3 DEF RollbackFailed, TypeOK, Job
  <2>2. Kept(live)'
    BY <1>1, <2>1, KeptLive
  <2> QED
    BY <1>1, <1>3, <2>2, RollbackFailedStep DEF TypeOK
<1> QED
  BY <1>2, <1>3 DEF VerifyRollback

LEMMA AdvanceGenerationStep == ASSUME IInv, AdvanceGeneration PROVE IInv'
<1>1. /\ TypeOK /\ JobRight /\ job.op # None /\ job.step = "advance"
      /\ UNCHANGED <<live, mode, reply, disturbed, repair, promo, cleared>>
  BY DEF IInv, AdvanceGeneration, At, NoWriter
<1>2. PICK error \in BOOLEAN, step \in {"derive", "history"} :
          job' = [job EXCEPT !.step = step, !.advanced = ~error, !.cacheError = error]
  BY DEF AdvanceGeneration
<1>3. job' \in Job /\ job'.op = job.op /\ job'.step = step /\ job'.status = job.status
      /\ job'.public = job.public
  BY <1>1, <1>2 DEF TypeOK, Job, Steps
<1> QED
  BY <1>1, <1>3, SettledStep DEF TypeOK, JobRight

LEMMA DeriveCachesStep == ASSUME IInv, DeriveCaches PROVE IInv'
<1>1. /\ TypeOK /\ JobRight /\ job.op # None /\ job.step = "derive"
      /\ UNCHANGED <<live, mode, reply, disturbed, repair, promo, cleared>>
  BY DEF IInv, DeriveCaches, At, NoWriter
<1>2. PICK public \in {"success", "warning", "degraded"}, error \in BOOLEAN :
          job' = [job EXCEPT !.step = "history", !.cacheError = error, !.public = public]
  <2>1. PICK beta \in {"success", "warning", "degraded"}, failed \in BOOLEAN :
          job' = [job EXCEPT !.step = "history", !.cacheError = (job.cacheError \/ failed),
                             !.public = IF job.cacheError \/ failed THEN "degraded" ELSE beta]
    BY DEF DeriveCaches
  <2> QED
    BY <2>1
<1>3. job' \in Job /\ job'.op = job.op /\ job'.step = "history" /\ job'.status = job.status
      /\ job'.public = public
  BY <1>1, <1>2 DEF TypeOK, Job, Steps, PublicStatus
<1> QED
  BY <1>1, <1>3, SettledStep DEF TypeOK

LEMMA RecordHistoryStep == ASSUME IInv, RecordHistory PROVE IInv'
<1>1. /\ TypeOK /\ JobRight /\ job.op # None /\ job.op \in Uploads /\ job.step = "history"
      /\ UNCHANGED <<mode, reply, disturbed, repair, promo, cleared>>
  BY DEF IInv, RecordHistory, At, NoWriter, TypeOK, Job
<1>2. CASE /\ live' = [live EXCEPT
                !.history = @ \union {job.op},
                !.stable = IF job.status = "accepted" THEN job.stable ELSE @]
           /\ Goto(IF job.advanced /\ ~job.cacheError THEN "refresh" ELSE "answer")
  <2>1. PICK step \in {"refresh", "answer"} : job' = [job EXCEPT !.step = step]
    BY <1>2 DEF Goto
  <2>2. job' \in Job /\ job'.op = job.op /\ job'.step = step /\ job'.status = job.status
        /\ job'.public = job.public
    BY <1>1, <2>1 DEF TypeOK, Job, Steps
  <2>3. live' \in Database /\ live'.tables = live.tables
        /\ live'.history = live.history \union {job.op}
    BY <1>1, <1>2 DEF TypeOK, Database, Job
  <2> QED
    BY <1>1, <2>2, <2>3, SettledStep DEF JobRight
<1>3. CASE job' = [job EXCEPT !.step = "answer", !.public = Degrade(@)] /\ UNCHANGED live
  <2>1. PICK public : public = Degrade(job.public)
    OBVIOUS
  <2>2. public \in PublicStatus \ {"success"} /\ (job.public # "error" => public # "error")
    BY <1>1, <2>1 DEF Degrade, TypeOK, Job, PublicStatus
  <2>3. job' \in Job /\ job'.op = job.op /\ job'.step = "answer" /\ job'.status = job.status
        /\ job'.public = public
    BY <1>1, <1>3, <2>1, <2>2 DEF TypeOK, Job, Steps
  <2> QED
    BY <1>1, <1>3, <2>2, <2>3, SettledStep DEF TypeOK, JobRight
<1> QED
  BY <1>2, <1>3 DEF RecordHistory

LEMMA RefreshGenerationStep == ASSUME IInv, RefreshGeneration PROVE IInv'
<1>1. /\ TypeOK /\ JobRight /\ job.op # None /\ job.step = "refresh"
      /\ UNCHANGED <<live, mode, reply, disturbed, repair, promo, cleared>>
  BY DEF IInv, RefreshGeneration, At, NoWriter
<1>2. CASE Goto("answer")
  <2>1. job' \in Job /\ job'.op = job.op /\ job'.step = "answer" /\ job'.status = job.status
        /\ job'.public = job.public
    BY <1>1, <1>2 DEF Goto, TypeOK, Job, Steps
  <2> QED
    BY <1>1, <2>1, SettledStep DEF TypeOK, JobRight
<1>3. CASE job' = [job EXCEPT !.step = "answer", !.cacheError = TRUE, !.public = Degrade(@)]
  <2>1. PICK public : public = Degrade(job.public)
    OBVIOUS
  <2>2. public \in PublicStatus \ {"success"} /\ (job.public # "error" => public # "error")
    BY <1>1, <2>1 DEF Degrade, TypeOK, Job, PublicStatus
  <2>3. job' \in Job /\ job'.op = job.op /\ job'.step = "answer" /\ job'.status = job.status
        /\ job'.public = public
    BY <1>1, <1>3, <2>1, <2>2 DEF TypeOK, Job, Steps
  <2> QED
    BY <1>1, <2>2, <2>3, SettledStep DEF TypeOK, JobRight
<1> QED
  BY <1>2, <1>3 DEF RefreshGeneration

LEMMA FinishStep == ASSUME IInv, Finish PROVE IInv'
<1>1. /\ TypeOK /\ JobRight /\ job.op # None /\ job.step = "answer"
      /\ UNCHANGED <<live, mode, repair, promo, cleared>>
  BY DEF IInv, Finish, At, NoWriter
<1>2. CASE job.status = "accepted"
  <2>1. Answer(job.public) /\ job.public \in {"success", "warning", "degraded"}
    BY <1>1, <1>2 DEF Finish, TypeOK, Job, PublicStatus, JobRight
  <2> QED
    BY <1>1, <1>2, <2>1, AnswerStep DEF TypeOK, Replies, NoWriter
<1>3. CASE job.status = "rejected_rolled_back"
  <2>1. Answer("rolled_back")
    BY <1>3 DEF Finish
  <2> QED
    BY <1>1, <1>3, <2>1, AnswerStep DEF TypeOK, Replies, NoWriter
<1>4. CASE job.status \notin {"accepted", "rejected_rolled_back"}
  <2>1. Answer("rollback_failed")
    BY <1>4 DEF Finish
  <2> QED
    BY <1>1, <2>1, AnswerStep DEF TypeOK, Replies, NoWriter
<1> QED
  BY <1>2, <1>3, <1>4

LEMMA DieStep == ASSUME IInv, Die PROVE IInv'
BY AnswerStep DEF IInv, Die, NoWriter, TypeOK, Replies

-----------------------------------------------------------------------------
(* The writers without a lease *)

\* They add no batch and remove none, unless it is all of them; what they
\* change is marked as a disturbance.
LEMMA UnleasedStep ==
    ASSUME IInv, TypeOK', UNCHANGED <<job, reply>>,
           live'.history = live.history, live'.rules = live.rules,
           cleared => cleared',
           \/ \A u \in Uploads \union {Base} :
                 /\ u \in live'.tables.tour <=> u \in live.tables.tour
                 /\ u \in live'.tables.others <=> u \in live.tables.others
           \/ cleared' /\ live'.tables = [tour |-> {}, others |-> {}],
           (disturbed' = disturbed /\ UNCHANGED <<live, mode>>) \/ Disturb
    PROVE  IInv'
<1>1. TypeOK /\ Kept(live) /\ JobRight /\ BackupRight /\ PredictionStands
  BY DEF IInv
<1>2. job.op # None => job.op \in Uploads
  BY <1>1 DEF TypeOK, Job
<1>3. Kept(live)' /\ JobRight'
  <2>1. CASE \A u \in Uploads \union {Base} :
                 /\ u \in live'.tables.tour <=> u \in live.tables.tour
                 /\ u \in live'.tables.others <=> u \in live.tables.others
    <3>1. Kept(live)'
      BY <1>1, <2>1 DEF Kept, Accepted, Whole, InBoth, Rows
    <3>2. JobRight'
      BY <1>1, <1>2, <2>1 DEF JobRight, Whole, InBoth, Rows
    <3> QED
      BY <3>1, <3>2
  <2>2. CASE cleared' /\ live'.tables = [tour |-> {}, others |-> {}]
    <3>1. Kept(live)'
      BY <1>1, <2>2 DEF Kept, Accepted, Whole, InBoth, Rows
    <3>2. JobRight'
      BY <1>1, <1>2, <2>2 DEF JobRight, Whole, InBoth, Rows
    <3> QED
      BY <3>1, <3>2
  <2> QED
    BY <2>1, <2>2
<1>4. BackupRight'
  BY <1>1, BackupStays
<1>5. PredictionStands'
  BY <1>1 DEF PredictionStands, Disturb, RollbackMeansDisturbed, At, Drifts, Merged, Shifted
<1> QED
  BY <1>3, <1>4, <1>5 DEF IInv

LEMMA RepairStep == ASSUME IInv, RepairPlan \/ RepairCommit PROVE IInv'
<1>1. TypeOK
  BY DEF IInv
<1>2. CASE UNCHANGED <<live, disturbed>>
  <2>1. TypeOK' /\ UNCHANGED <<job, reply, mode, cleared>>
    BY <1>1, <1>2 DEF RepairPlan, RepairCommit, TypeOK, RepairStages
  <2> QED
    BY <1>2, <2>1, UnleasedStep
<1>3. CASE live' = [live EXCEPT !.tables = Merged(@, Repaired)] /\ Disturb
  <2>1. /\ live' \in Database /\ live'.history = live.history /\ live'.rules = live.rules
        /\ live'.tables.tour = live.tables.tour \union {Repaired}
        /\ live'.tables.others = live.tables.others \union {Repaired}
    BY <1>1, <1>3 DEF Merged, TypeOK, Database, Tables, Items
  <2>2. TypeOK' /\ UNCHANGED <<job, reply, mode, cleared>>
    BY <1>1, <1>3, <2>1 DEF RepairPlan, RepairCommit, TypeOK, RepairStages, Disturb
  <2> QED
    BY <1>3, <2>1, <2>2, UploadsAssumption, UnleasedStep
<1> QED
  BY <1>2, <1>3 DEF RepairPlan, RepairCommit

LEMMA PromoteStep ==
    ASSUME IInv, PromoteEvaluate \/ PromoteSwap \/ PromoteRecord \/ PromoteEnd
    PROVE  IInv'
<1>1. TypeOK
  BY DEF IInv
<1>2. UNCHANGED <<job, reply, cleared>> /\ live'.tables = live.tables
      /\ live'.history = live.history /\ live'.rules = live.rules /\ live' \in Database
  BY <1>1 DEF PromoteEvaluate, PromoteSwap, PromoteRecord, PromoteEnd, TypeOK, Database
<1>3. TypeOK'
  BY <1>1, <1>2
     DEF PromoteEvaluate, PromoteSwap, PromoteRecord, PromoteEnd, TypeOK, PromotionStages, Disturb
<1>4. (disturbed' = disturbed /\ UNCHANGED <<live, mode>>) \/ Disturb
  BY DEF PromoteEvaluate, PromoteSwap, PromoteRecord, PromoteEnd
<1> QED
  BY <1>2, <1>3, <1>4, UnleasedStep

LEMMA ClearStep == ASSUME IInv, Clear PROVE IInv'
<1>1. TypeOK
  BY DEF IInv
<1>2. /\ live'.tables = [tour |-> {}, others |-> {}] /\ live'.history = live.history
      /\ live'.rules = live.rules /\ live' \in Database
  BY <1>1 DEF Clear, TypeOK, Database, Tables
<1>3. TypeOK'
  BY <1>1, <1>2 DEF Clear, TypeOK, Disturb
<1> QED
  BY <1>2, <1>3, UnleasedStep DEF Clear

-----------------------------------------------------------------------------
(* The theorems *)

LEMMA InitIInv == Init => IInv
<1> SUFFICES ASSUME Init PROVE IInv
  OBVIOUS
<1> USE UploadsAssumption DEF Init
<1>1. NoJob \in Job /\ NoJob.op = None /\ NoJob.step = "answer"
  BY DEF NoJob, Job, Steps, FinalStatus, PublicStatus
<1>2. live \in Database
  BY DEF Database, Tables, Items, InitialTables
<1>3. TypeOK
  BY <1>1, <1>2 DEF TypeOK, Replies, RepairStages, PromotionStages
<1>4. Kept(live)
  BY DEF Kept, Accepted, Rows, InitialTables
<1>5. JobRight /\ BackupRight /\ PredictionStands
  BY <1>1 DEF JobRight, BackupRight, PredictionStands, RollbackMeansDisturbed, At
<1> QED
  BY <1>3, <1>4, <1>5 DEF IInv

LEMMA StutterStep == ASSUME IInv, UNCHANGED vars PROVE IInv'
<1>1. TypeOK'
  BY DEF vars, IInv, TypeOK
<1> QED
  BY <1>1, UnleasedStep DEF vars

LEMMA NextStep == ASSUME IInv, [Next]_vars PROVE IInv'
<1>1. CASE \E u \in Uploads : Begin(u)
  BY <1>1, BeginStep
<1>2. CASE UploadStep
  BY <1>2, PreflightStep, ActivateStep, BackupStep, UpsertTourStep, UpsertOthersStep, GateStep,
     RestoreStep, VerifyRollbackStep, AdvanceGenerationStep, DeriveCachesStep,
     RecordHistoryStep, RefreshGenerationStep, FinishStep DEF UploadStep
<1>3. CASE Unleased
  BY <1>3, RepairStep, PromoteStep, ClearStep DEF Unleased
<1> QED
  BY <1>1, <1>2, <1>3, DieStep, StutterStep DEF Next

LEMMA Invariance == Spec => []IInv
BY InitIInv, NextStep, PTL DEF Spec

\* execute_upload_operation: the records of the live database, the upload in
\* progress and the answers keep their types.
THEOREM TypeCorrect == Spec => []TypeOK
BY Invariance, PTL DEF IInv

\* handle_core_drift_rollback: an upload answered "rolled back" has left
\* nothing, and no later restore brings its rows back.
THEOREM RolledBack == Spec => []RolledBackLeavesNoTrace
<1>1. IInv => RolledBackLeavesNoTrace
  BY DEF IInv, Kept, Rows, RolledBackLeavesNoTrace
<1> QED
  BY <1>1, Invariance, PTL

\* upsert_to_db: although it commits table by table, an answered batch is in
\* both or in neither.
THEOREM AnsweredWhole == Spec => []AnsweredBatchIsWhole
<1>1. IInv => AnsweredBatchIsWhole
  BY DEF IInv, Kept, Rows, Whole, AnsweredBatchIsWhole
<1> QED
  BY <1>1, Invariance, PTL

\* restore_database_from_backup: no rollback takes an accepted batch away.
THEOREM AcceptedStays == Spec => []AcceptedIsKept
<1>1. IInv => AcceptedIsKept
  BY DEF IInv, Kept, InBoth, AcceptedIsKept
<1> QED
  BY <1>1, Invariance, PTL

\* record_stability_history: a full success keeps its record, whatever is
\* restored later.
THEOREM SuccessStaysRecorded == Spec => []SuccessIsRecorded
<1>1. IInv => SuccessIsRecorded
  BY DEF IInv, Kept, SuccessIsRecorded
<1> QED
  BY <1>1, Invariance, PTL

\* run_upload_preflight: it predicts the live gate, so that a rollback always
\* has a writer without lease to explain it.
THEOREM RollbackExplained == Spec => []RollbackMeansDisturbed
<1>1. IInv => RollbackMeansDisturbed
  BY DEF IInv, PredictionStands
<1> QED
  BY <1>1, Invariance, PTL

\* activate_receipt_exclusions and the restore: no step takes a rule away.
THEOREM RulesOutlive == Spec => RulesOutliveRollback
<1>1. ASSUME IInv, [Next]_vars PROVE [live.rules \subseteq live'.rules]_vars
  <2>1. TypeOK /\ BackupRight
    BY <1>1 DEF IInv
  <2>2. CASE UNCHANGED live
    BY <2>2
  <2>3. CASE Activate
    BY <2>1, <2>3 DEF Activate, WithRule, TypeOK, Database
  <2>4. CASE UpsertTour \/ UpsertOthers \/ RecordHistory
    BY <2>1, <2>4 DEF UpsertTour, UpsertOthers, RecordHistory, TypeOK, Database
  <2>5. CASE Restore
    BY <2>1, <2>5 DEF Restore, At, BackupRight, BackedUp
  <2>6. CASE RepairCommit \/ PromoteRecord \/ Clear
    BY <2>1, <2>6 DEF RepairCommit, PromoteRecord, Clear, TypeOK, Database
  <2> QED
    BY <1>1, <2>2, <2>3, <2>4, <2>5, <2>6
       DEF Next, Begin, UploadStep, Preflight, Backup, Gate, VerifyRollback, AdvanceGeneration,
           DeriveCaches, RefreshGeneration, Finish, Die, Unleased, RepairPlan, PromoteEvaluate,
           PromoteSwap, PromoteEnd, vars
<1> QED
  BY <1>1, Invariance, PTL DEF Spec, RulesOutliveRollback

-----------------------------------------------------------------------------
(* The upload as a user of the lease *)

\* The uploads are operations of ExclusiveWriter, which UploadLease implements:
\* the one with the lease is inside, the answered ones are over.
Writers == {job.op} \ {None}

Over == {u \in Uploads : reply[u] # "none"}

Writer == INSTANCE ExclusiveWriter WITH
              Operations <- Uploads, writers <- Writers, over <- Over

\* The three things a step may do to the holder of the lease.
Holds == job'.op = job.op /\ reply' = reply

Ends == /\ job.op # None /\ job' = NoJob
        /\ \E answer \in Replies \ {"none"} : reply' = [reply EXCEPT ![job.op] = answer]

LEMMA StepOfTheHolder == ASSUME IInv, [Next]_vars
                         PROVE  Holds \/ Ends \/ \E u \in Uploads : Begin(u)
<1>1. TypeOK
  BY DEF IInv
<1>2. job \in Job
  BY <1>1 DEF TypeOK
<1>3. ASSUME NEW step, Goto(step) PROVE job'.op = job.op
  BY <1>2, <1>3 DEF Goto, Job
<1>4. ASSUME NEW answer \in Replies \ {"none"}, Answer(answer), job.op # None PROVE Ends
  BY <1>4 DEF Answer, Ends
<1>5. CASE Preflight \/ Activate \/ Backup \/ UpsertTour \/ UpsertOthers \/ Gate
  <2>1. \/ Answer("blocked") \/ Answer("raised")
        \/ job'.op = job.op /\ reply' = reply
    BY <1>2, <1>3, <1>5 DEF Preflight, Activate, Backup, UpsertTour, UpsertOthers, Gate, Job
  <2>2. job.op # None
    BY <1>5 DEF Preflight, Activate, Backup, UpsertTour, UpsertOthers, Gate, At
  <2> QED
    BY <1>4, <2>1, <2>2 DEF Holds, Replies
<1>6. CASE Restore \/ VerifyRollback \/ AdvanceGeneration \/ DeriveCaches \/ RecordHistory
             \/ RefreshGeneration
  BY <1>2, <1>3, <1>6 DEF Restore, VerifyRollback, RollbackFailed, AdvanceGeneration,
     DeriveCaches, RecordHistory, RefreshGeneration, Job, Holds
<1>7. CASE Finish
  <2>1. JobRight /\ job.op # None
    BY <1>7 DEF IInv, Finish, At
  <2>2. CASE job.status = "accepted"
    <3>1. Answer(job.public) /\ job.public \in Replies \ {"none"}
      BY <1>2, <1>7, <2>1, <2>2 DEF Finish, Job, PublicStatus, JobRight, Replies
    <3> QED
      BY <1>4, <2>1, <3>1
  <2>3. CASE job.status # "accepted"
    <3>1. Answer("rolled_back") \/ Answer("rollback_failed")
      BY <1>7, <2>3 DEF Finish
    <3> QED
      BY <1>4, <2>1, <3>1 DEF Replies
  <2> QED
    BY <2>2, <2>3
<1>8. CASE Die
  BY <1>4, <1>8 DEF Die, Replies
<1>9. CASE Unleased \/ UNCHANGED vars
  BY <1>9 DEF Unleased, RepairPlan, RepairCommit, PromoteEvaluate, PromoteSwap, PromoteRecord,
     PromoteEnd, Clear, vars, Holds
<1> QED
  BY <1>5, <1>6, <1>7, <1>8, <1>9 DEF Next, UploadStep

LEMMA StepRefines == ASSUME IInv, [Next]_vars PROVE [Writer!Next]_(Writer!vars)
<1>1. /\ job \in Job /\ reply \in [Uploads -> Replies]
      /\ None \notin Uploads
  BY UploadsAssumption DEF IInv, TypeOK
<1>2. CASE Holds
  BY <1>2 DEF Holds, Writers, Over, Writer!vars
<1>3. CASE Ends
  <2>1. job.op \in Uploads /\ Writers = {job.op}
    BY <1>1, <1>3 DEF Ends, Job, Writers
  <2>2. Writers' = {}
    BY <1>3 DEF Ends, NoJob, Writers
  <2>3. Over' = Over \union {job.op}
    BY <1>1, <1>3, <2>1 DEF Ends, Over
  <2>4. Writer!Leave(job.op)
    BY <2>1, <2>2, <2>3 DEF Writer!Leave
  <2> QED
    BY <2>1, <2>4 DEF Writer!Next
<1>4. ASSUME NEW u \in Uploads, Begin(u) PROVE [Writer!Next]_(Writer!vars)
  <2>1. Writers = {} /\ u \notin Over /\ UNCHANGED Over
    BY <1>4 DEF Begin, Writers, Over
  <2>2. Writers' = {u}
    BY <1>1, <1>4 DEF Begin, NoJob, Writers
  <2> QED
    BY <2>1, <2>2 DEF Writer!Next, Writer!Enter
<1> QED
  BY <1>2, <1>3, <1>4, StepOfTheHolder

\* execute_upload_operation between acquire_upload_lease and release: whatever
\* raises, is blocked or dies, an upload enters the write section of the lease
\* at most once, alone, and never writes after it was answered.
THEOREM UploadsAreWriters == Spec => Writer!Spec
<1>1. Init => Writer!Init
  BY DEF Init, NoJob, Writer!Init, Writers, Over
<1>2. IInv /\ [Next]_vars => [Writer!Next]_(Writer!vars)
  BY StepRefines
<1> QED
  BY <1>1, <1>2, Invariance, PTL DEF Spec, Writer!Spec

=============================================================================
