---------------------------- MODULE AgentWorkflow ----------------------------
(***************************************************************************)
(* The development workflow and its run directories.  Command-line         *)
(* processes start a run, approve it and carry it through the gates,       *)
(* document it, project its governance graph, write canonical evidence,    *)
(* and prune old runs; they share nothing but the files of a run and its   *)
(* advisory .lock, which is only ever tried (LOCK_NB).                     *)
(* backend/agents/workflow_orchestrator.py, workflow_store.py,             *)
(* workflow_models.py, workflow_retention.py and the callers of the store. *)
(*                                                                         *)
(* A process may stop at any step: it dies, or an exception nobody catches *)
(* ends its command (an oversized artifact, a snapshot that cannot be      *)
(* written, a full disk).  The kernel drops its lock either way.  A        *)
(* command that returns without touching a file is a stuttering step.      *)
(***************************************************************************)
EXTENDS Integers, FiniteSets, Sequences

CONSTANTS MaxRuns,    \* bound: runs are 1..MaxRuns, in the order of createdAt
          Procs,      \* command-line processes at work at the same time
          Retain,     \* retainLatestTerminalRuns
          MaxApproved, \* bound: runs that are approved
          MaxDisturbed    \* bound: commands that write beside the orchestrator, and stops

ASSUME WorkflowAssumption ==
    /\ MaxRuns \in Nat /\ Retain \in Nat \ {0}
    /\ MaxApproved \in Nat /\ MaxDisturbed \in Nat

Runs == 1..MaxRuns

VARIABLES status,       \* status.json, "none" before create_run
          log,          \* the status transitions in events.jsonl
          approved,     \* runs with an approval.json
          file,         \* the other artifacts of each run, and what they show
          summary,      \* runs with an archive-summary.json
          temporary,    \* runs with its .retention-tmp
          lock,         \* holders of .lock: process and run
          old,          \* completed runs from before the retention cutoff
          proc,         \* what each process is doing
          implemented,  \* how often the implementation agent was run
          sides,        \* documentations, projections and evidence begun
          stops         \* processes that stopped half-way

runFiles == <<status, log, approved, file, summary, temporary>>
vars == <<runFiles, lock, old, proc, implemented, sides, stops>>

Terminal == {"completed", "changes_required", "blocked", "failed"}

Transitions ==
    [created |-> {"context_running", "blocked", "failed"},
     context_running |-> {"awaiting_authorization", "blocked", "failed"},
     awaiting_authorization |-> {"implementation_running", "blocked", "failed"},
     implementation_running |-> {"targeted_verification_running", "blocked", "failed"},
     targeted_verification_running |-> {"review_running", "blocked", "failed"},
     review_running |-> {"changes_required", "full_verification_running", "blocked", "failed"},
     full_verification_running |-> {"hermes_running", "blocked", "failed"},
     hermes_running |-> {"completed", "blocked", "failed"}]

Statuses == (DOMAIN Transitions) \union Terminal

Legal(from, to) == from \in DOMAIN Transitions /\ to \in Transitions[from]

(***************************************************************************)
(* What a process does in each stage: the file it writes, the statuses it  *)
(* moves the run to when the gate passes and when it does not, and where   *)
(* an error of the executor leads ("none" where nothing is executed).      *)
(* Full verification is two stages that write the same file.               *)
(***************************************************************************)
Stage ==
    [context |-> [writes |-> "context", pass |-> "awaiting_authorization",
                  fail |-> {"blocked", "failed"}, error |-> "none"],
     implementation |-> [writes |-> "implementation", pass |-> "targeted_verification_running",
                  fail |-> {"failed"}, error |-> "failed"],
     targeted |-> [writes |-> "targeted", pass |-> "review_running",
                  fail |-> {}, error |-> "none"],
     review |-> [writes |-> "review", pass |-> "full_verification_running",
                  fail |-> {"changes_required", "blocked", "failed"}, error |-> "failed"],
     pytest |-> [writes |-> "full", pass |-> "acceptance",
                  fail |-> {"blocked"}, error |-> "blocked"],
     acceptance |-> [writes |-> "full", pass |-> "hermes_running",
                  fail |-> {"blocked"}, error |-> "blocked"],
     hermes |-> [writes |-> "hermes", pass |-> "completed",
                  fail |-> {"blocked"}, error |-> "blocked"]]

FirstStage ==
    [context_running |-> "context", implementation_running |-> "implementation",
     targeted_verification_running |-> "targeted", review_running |-> "review",
     full_verification_running |-> "pytest", hermes_running |-> "hermes"]

\* STAGE_ARTIFACTS in the order they are unlinked; the events come last.
Unlinked == <<"context", "documentation", "full", "graph", "hermes",
              "implementation", "review", "targeted", "events">>

StageFiles == {Unlinked[i] : i \in 1..8}

\* A projection that fails is one that is blocked.
Files == StageFiles \union {"evidence"}

Shows == {"none", "fail", "partial", "pass"}

Idle == [at |-> "idle", run |-> 0, stage |-> "none", shows |-> "none",
         next |-> "none", todo |-> {}, seen |-> {}, paths |-> {}]

Places == {"idle", "run", "write", "written", "decide", "replace", "approved",
           "answer", "plan", "probed", "apply", "summary", "unlink"}

Gone == << <<"gone", "gone">> >>

Event == {e \in Statuses \X Statuses : Legal(e[1], e[2])}

TypeOK ==
    /\ status \in [Runs -> Statuses \union {"none"}]
    /\ \A r \in Runs : log[r] = Gone \/ log[r] \in Seq(Event)
    /\ approved \subseteq Runs /\ old \subseteq Runs
    /\ summary \subseteq Runs /\ temporary \subseteq Runs
    /\ file \in [Runs -> [Files -> Shows]]
    /\ lock \subseteq Procs \X Runs
    /\ \A h, k \in lock : h[2] = k[2] => h = k
    /\ \A p \in Procs :
          /\ proc[p].at \in Places
          /\ proc[p].run \in Runs \union {0}
          /\ proc[p].stage \in (DOMAIN Stage) \union Files \union {"none"}
          /\ proc[p].shows \in Shows
          /\ proc[p].next \in Statuses \union {"acceptance", "none"}
          /\ proc[p].todo \subseteq Runs
          /\ proc[p].seen \subseteq Runs
          /\ proc[p].paths \subseteq Runs \X (StageFiles \union {"events"})
    /\ implemented \in [Runs -> Nat]
    /\ sides \in Nat /\ stops \in Nat /\ sides + stops <= MaxDisturbed

Init ==
    /\ status = [r \in Runs |-> "none"]
    /\ log = [r \in Runs |-> << >>]
    /\ approved = {} /\ summary = {} /\ temporary = {} /\ old = {}
    /\ file = [r \in Runs |-> [f \in Files |-> "none"]]
    /\ lock = {}
    /\ proc = [p \in Procs |-> Idle]
    /\ implemented = [r \in Runs |-> 0]
    /\ sides = 0
    /\ stops = 0

-----------------------------------------------------------------------------
(* run_lock                                                                *)

Free(r) == \A p \in Procs : <<p, r>> \notin lock

\* One try; WorkflowLockedError otherwise.
Take_Blind(p, r) == lock' = lock \union {<<p, r>>}

Take(p, r) == Free(r) /\ lock' = lock \union {<<p, r>>}

Drop(p) == lock' = {h \in lock : h[1] # p}

Goto(p, next) == proc' = [proc EXCEPT ![p] = next]

Exists(r) == status[r] # "none"

LockedOut(p) ==
    /\ proc[p].at \in {"run", "decide", "write"}
    /\ ~Free(proc[p].run)
    /\ Goto(p, Idle)
    /\ UNCHANGED <<runFiles, lock, old, implemented, sides, stops>>

\* An exception removes the temporary file of a summary, a death leaves it.
Stop(p) ==
    /\ proc[p].at # "idle" /\ sides + stops < MaxDisturbed
    /\ stops' = stops + 1
    /\ \/ UNCHANGED temporary
       \/ proc[p].at = "summary" /\ temporary' = temporary \ {proc[p].run}
    /\ Drop(p)
    /\ Goto(p, Idle)
    /\ UNCHANGED <<status, log, approved, file, summary, old, implemented, sides>>

-----------------------------------------------------------------------------
(* The start of a run, and its transitions.                                *)

\* The context stage has run by now; only its result is recorded later.
Create(p, r) ==
    /\ proc[p].at = "idle"
    /\ ~Exists(r) /\ \A s \in 1..(r - 1) : Exists(s)
    /\ status' = [status EXCEPT ![r] = "created"]
    /\ \E next \in {"context_running", "failed"} :
          Goto(p, [Idle EXCEPT !.at = "decide", !.run = r, !.next = next])
    /\ UNCHANGED <<log, approved, file, summary, temporary, lock, old, implemented, sides, stops>>

Transition(p, to) ==
    LET r == proc[p].run IN
    /\ Legal(status[r], to)
    /\ Take(p, r)
    /\ log' = [log EXCEPT ![r] = Append(@, <<status[r], to>>)]
    /\ Goto(p, [proc[p] EXCEPT !.at = "replace", !.next = to])
    /\ UNCHANGED <<status, approved, file, summary, temporary, old, implemented, sides, stops>>

Decide(p) == proc[p].at = "decide" /\ Transition(p, proc[p].next)

\* What the process does once the run has its new status: the next stage, the
\* housekeeping that ends start, or its answer.
AfterStatus(p, to) ==
    IF to \in DOMAIN FirstStage
    THEN [proc[p] EXCEPT !.at = "run", !.stage = FirstStage[to], !.next = "none"]
    ELSE IF to = "awaiting_authorization"
         THEN [Idle EXCEPT !.at = "plan", !.todo = {r \in Runs : Exists(r)}]
         ELSE Idle

Replace(p) ==
    LET to == proc[p].next IN
    /\ proc[p].at = "replace"
    /\ status' = [status EXCEPT ![proc[p].run] = to]
    /\ implemented' = [implemented EXCEPT
          ![proc[p].run] = IF to = "implementation_running" THEN @ + 1 ELSE @]
    /\ Drop(p)
    /\ Goto(p, AfterStatus(p, to))
    /\ UNCHANGED <<log, approved, file, summary, temporary, old, sides, stops>>

-----------------------------------------------------------------------------
(* The approval, under one lock from the check of the status to the new    *)
(* status.                                                                 *)

\* The status is read under the lock.
MayAuthorize_AnyStatus(p, r) ==
    /\ proc[p].at = "idle"
    /\ Exists(r)
    /\ Take(p, r)

MayAuthorize(p, r) ==
    /\ proc[p].at = "idle"
    /\ status[r] = "awaiting_authorization"
    /\ Take(p, r)

\* The runner, the brief, Git, the contract or the plan is not what it was.
RefuseApproval(p, r) ==
    /\ MayAuthorize(p, r)
    /\ log' = [log EXCEPT ![r] = Append(@, <<status[r], "blocked">>)]
    /\ Goto(p, [Idle EXCEPT !.at = "replace", !.run = r, !.next = "blocked"])
    /\ UNCHANGED <<status, approved, file, summary, temporary, old, implemented, sides, stops>>

\* Any other status, or an approval that is there already, is answered as it
\* is; the lock is held meanwhile.
AnswerApproval(p, r) ==
    /\ proc[p].at = "idle"
    /\ Exists(r) /\ (status[r] = "awaiting_authorization" => r \in approved)
    /\ Take(p, r)
    /\ Goto(p, [Idle EXCEPT !.at = "answer", !.run = r])
    /\ UNCHANGED <<runFiles, old, implemented, sides, stops>>

Answered(p) ==
    /\ proc[p].at = "answer"
    /\ Drop(p)
    /\ Goto(p, Idle)
    /\ UNCHANGED <<runFiles, old, implemented, sides, stops>>

Authorize(p, r) ==
    /\ MayAuthorize(p, r)
    /\ r \notin approved /\ Cardinality(approved) < MaxApproved
    /\ approved' = approved \union {r}
    /\ Goto(p, [Idle EXCEPT !.at = "approved", !.run = r, !.next = "implementation_running"])
    /\ UNCHANGED <<status, log, file, summary, temporary, old, implemented, sides, stops>>

\* The approval is on disk: the event, and then the status.
Approved_NoEvent(p) ==
    /\ proc[p].at = "approved"
    /\ Goto(p, [proc[p] EXCEPT !.at = "replace"])
    /\ UNCHANGED <<runFiles, lock, old, implemented, sides, stops>>

Approved(p) ==
    LET r == proc[p].run IN
    /\ proc[p].at = "approved"
    /\ log' = [log EXCEPT ![r] = Append(@, <<status[r], proc[p].next>>)]
    /\ Goto(p, [proc[p] EXCEPT !.at = "replace"])
    /\ UNCHANGED <<status, approved, file, summary, temporary, lock, old, implemented, sides, stops>>

-----------------------------------------------------------------------------
(* The stages.  A process is at "run" while the executor is at work.       *)

ShowsOf(stage, next) ==
    IF next # Stage[stage].pass THEN "fail"
    ELSE IF stage = "pytest" THEN "partial" ELSE "pass"

FileOf(stage) == IF stage \in DOMAIN Stage THEN Stage[stage].writes ELSE stage

WriteArtifact(p, shows) ==
    LET r == proc[p].run IN
    /\ Take(p, r)
    /\ file' = [file EXCEPT ![r][FileOf(proc[p].stage)] = shows]
    /\ UNCHANGED <<status, log, approved, summary, temporary, old, implemented, sides, stops>>

\* The executor has answered: its payload is kept, whatever it says.
Execute(p) ==
    LET stage == Stage[proc[p].stage] IN
    /\ proc[p].at = "run"
    /\ \E next \in {stage.pass} \union stage.fail :
          /\ WriteArtifact(p, ShowsOf(proc[p].stage, next))
          /\ Goto(p, [proc[p] EXCEPT !.at = "written", !.next = next])

\* The executor raised or timed out: no artifact.
ExecuteFails(p) ==
    LET error == Stage[proc[p].stage].error IN
    /\ proc[p].at = "run"
    /\ error # "none"
    /\ Transition(p, error)

WriteBeside(p) ==
    /\ proc[p].at = "write"
    /\ WriteArtifact(p, proc[p].shows)
    /\ Goto(p, [proc[p] EXCEPT !.at = "written"])

\* Where a process goes once its artifact is written.
AfterWrite(p) ==
    CASE proc[p].next = "acceptance" ->
              {[proc[p] EXCEPT !.at = "run", !.stage = "acceptance", !.next = "none"]}
      [] proc[p].stage = "documentation" -> {Idle, [proc[p] EXCEPT !.at = "write"]}
      [] proc[p].stage \in {"graph", "evidence"} -> {Idle}
      [] OTHER -> {[proc[p] EXCEPT !.at = "decide"]}

\* status.json is rewritten with the new artifactBytes, under the same lock.
CloseArtifact(p) ==
    /\ proc[p].at = "written"
    /\ Drop(p)
    /\ \E next \in AfterWrite(p) : Goto(p, next)
    /\ UNCHANGED <<runFiles, old, implemented, sides, stops>>

-----------------------------------------------------------------------------
(* The other writers of a run's directory.                                 *)

Beside(p) ==
    /\ proc[p].at = "idle"
    /\ sides + stops < MaxDisturbed
    /\ sides' = sides + 1

\* The evidence is collected without the lock, and then written in several
\* documents, each under the lock.
Document(p, r) ==
    /\ Beside(p)
    /\ status[r] = "completed"
    /\ r \in approved /\ file[r]["implementation"] # "none" /\ file[r]["targeted"] # "none"
    /\ \A f \in {"review", "full", "hermes"} : file[r][f] = "pass"
    /\ Goto(p, [Idle EXCEPT !.at = "write", !.run = r, !.stage = "documentation", !.shows = "pass"])
    /\ UNCHANGED <<runFiles, lock, old, implemented, stops>>

Project(p, r) ==
    /\ Beside(p)
    /\ Exists(r)
    /\ \E shows \in {"pass", "fail"} :
          Goto(p, [Idle EXCEPT !.at = "write", !.run = r, !.stage = "graph", !.shows = shows])
    /\ UNCHANGED <<runFiles, lock, old, implemented, stops>>

WriteEvidence(p, r) ==
    /\ Beside(p)
    /\ r \in approved
    /\ file[r]["evidence"] = "none"
    /\ Take(p, r)
    /\ file' = [file EXCEPT ![r]["evidence"] = "pass"]
    /\ Goto(p, [Idle EXCEPT !.at = "written", !.run = r, !.stage = "evidence", !.shows = "pass"])
    /\ UNCHANGED <<status, log, approved, summary, temporary, old, implemented, stops>>

-----------------------------------------------------------------------------
(* Retention: plan reads every run and tries its lock, apply compacts the  *)
(* candidates one by one and judges each again under its lock.             *)

\* Only of a completed run is the age ever asked.
Age(r) ==
    /\ status[r] = "completed" /\ r \notin old
    /\ \A s \in 1..(r - 1) : status[s] = "completed" => s \in old
    /\ old' = old \union {r}
    /\ UNCHANGED <<runFiles, lock, proc, implemented, sides, stops>>

Ended == {r \in Runs : status[r] \in Terminal}

Latest(terminal) ==
    {r \in terminal : Cardinality({s \in terminal : s > r}) < Retain}

Prune(p) ==
    /\ proc[p].at = "idle"
    /\ Goto(p, [Idle EXCEPT !.at = "plan", !.todo = {r \in Runs : Exists(r)}])
    /\ UNCHANGED <<runFiles, lock, old, implemented, sides, stops>>

Inspect(p, r) ==
    /\ proc[p].at = "plan" /\ r \in proc[p].todo
    /\ Take(p, r)
    /\ Goto(p, [proc[p] EXCEPT !.at = "probed", !.todo = @ \ {r},
                               !.seen = @ \union ({r} \intersect Ended)])
    /\ UNCHANGED <<runFiles, old, implemented, sides, stops>>

Inspected(p) ==
    /\ proc[p].at = "probed"
    /\ Drop(p)
    /\ Goto(p, [proc[p] EXCEPT !.at = "plan"])
    /\ UNCHANGED <<runFiles, old, implemented, sides, stops>>

SkipLocked(p, r) ==
    /\ proc[p].at = "plan" /\ r \in proc[p].todo
    /\ ~Free(r)
    /\ Goto(p, [proc[p] EXCEPT !.todo = @ \ {r}])
    /\ UNCHANGED <<runFiles, lock, old, implemented, sides, stops>>

Present(r) ==
    LET stage == {f \in StageFiles : file[r][f] # "none"} IN
    IF stage # {} /\ log[r] # Gone THEN stage \union {"events"} ELSE stage

Candidates(seen) ==
    {r \in old : /\ r \in seen /\ r \notin Latest(seen)
                 /\ file[r]["graph"] # "fail"
                 /\ Present(r) # {}}

\* apply goes on with the candidates that are left, and ends with the last.
Apply(p, left) == IF left.todo = {} THEN Goto(p, Idle) ELSE Goto(p, left)

Select(p) ==
    LET candidates == Candidates(proc[p].seen) IN
    /\ proc[p].at = "plan" /\ proc[p].todo = {}
    /\ Apply(p, [Idle EXCEPT !.at = "apply", !.todo = candidates,
                            !.paths = UNION {{r} \X Present(r) : r \in candidates}])
    /\ UNCHANGED <<runFiles, lock, old, implemented, sides, stops>>

Compactable(r) ==
    /\ status[r] = "completed" /\ r \in old
    /\ r \notin Latest(Ended)

\* The files of the plan that are still there.
Remaining(p, r) ==
    {f \in StageFiles \union {"events"} :
        /\ <<r, f>> \in proc[p].paths
        /\ IF f = "events" THEN log[r] # Gone ELSE file[r][f] # "none"}

\* Its temporary file is created exclusively.
Compact(p, r) ==
    /\ proc[p].at = "apply" /\ r \in proc[p].todo
    /\ Compactable(r) /\ Remaining(p, r) # {}
    /\ r \notin temporary
    /\ Take(p, r)
    /\ temporary' = temporary \union {r}
    /\ Goto(p, [proc[p] EXCEPT !.at = "summary", !.run = r, !.todo = @ \ {r}])
    /\ UNCHANGED <<status, log, approved, file, summary, old, implemented, sides, stops>>

Summarise(p) ==
    LET r == proc[p].run IN
    /\ proc[p].at = "summary"
    /\ summary' = summary \union {r}
    /\ temporary' = temporary \ {r}
    /\ Goto(p, [proc[p] EXCEPT !.at = "unlink"])
    /\ UNCHANGED <<status, log, approved, file, lock, old, implemented, sides, stops>>

SkipCandidate(p, r) ==
    /\ proc[p].at = "apply" /\ r \in proc[p].todo
    /\ Free(r)
    /\ ~Compactable(r) \/ Remaining(p, r) = {}
    /\ Apply(p, [proc[p] EXCEPT !.todo = @ \ {r}])
    /\ UNCHANGED <<runFiles, lock, old, implemented, sides, stops>>

\* The lock of a candidate is taken, or its temporary file is still there from
\* a process that died: apply raises, and so ends.
ApplyRaises(p, r) ==
    /\ proc[p].at = "apply" /\ r \in proc[p].todo
    /\ \/ ~Free(r)
       \/ r \in temporary /\ Compactable(r) /\ Remaining(p, r) # {}
    /\ Goto(p, Idle)
    /\ UNCHANGED <<runFiles, lock, old, implemented, sides, stops>>

Unlink(p) ==
    LET r == proc[p].run IN
    /\ proc[p].at = "unlink" /\ Remaining(p, r) # {}
    /\ LET first == CHOOSE i \in 1..9 :
                        /\ Unlinked[i] \in Remaining(p, r)
                        /\ \A j \in 1..(i - 1) : Unlinked[j] \notin Remaining(p, r)
           f == Unlinked[first] IN
       IF f = "events"
       THEN log' = [log EXCEPT ![r] = Gone] /\ UNCHANGED file
       ELSE file' = [file EXCEPT ![r][f] = "none"] /\ UNCHANGED log
    /\ UNCHANGED <<status, approved, summary, temporary, lock, old, proc, implemented, sides, stops>>

Compacted(p) ==
    /\ proc[p].at = "unlink" /\ Remaining(p, proc[p].run) = {}
    /\ Drop(p)
    /\ Apply(p, [proc[p] EXCEPT !.at = "apply", !.run = 0])
    /\ UNCHANGED <<runFiles, old, implemented, sides, stops>>

-----------------------------------------------------------------------------

Orchestrate(p) ==
    \/ \E r \in Runs : \/ Create(p, r) \/ RefuseApproval(p, r)
                       \/ Authorize(p, r) \/ AnswerApproval(p, r)
    \/ Approved(p) \/ Answered(p) \/ Decide(p) \/ Replace(p) \/ LockedOut(p)
    \/ Execute(p) \/ ExecuteFails(p) \/ WriteBeside(p) \/ CloseArtifact(p)

Prunes(p) ==
    \/ Prune(p) \/ Inspected(p) \/ Select(p) \/ Summarise(p) \/ Unlink(p) \/ Compacted(p)
    \/ \E r \in Runs : \/ Inspect(p, r) \/ SkipLocked(p, r)
                       \/ Compact(p, r) \/ SkipCandidate(p, r) \/ ApplyRaises(p, r)

Next ==
    \/ \E p \in Procs :
          \/ Orchestrate(p) \/ Prunes(p) \/ Stop(p)
          \/ \E r \in Runs : Document(p, r) \/ Project(p, r) \/ WriteEvidence(p, r)
    \/ \E r \in Runs : Age(r)

Spec == Init /\ [][Next]_vars

-----------------------------------------------------------------------------
(* Properties.                                                             *)

\* What followed the i-th event of run r: the status the next event left, or
\* the status of the run.
Followed(r, i) == IF i < Len(log[r]) THEN log[r][i + 1][1] ELSE status[r]

Orphans(r) ==
    IF log[r] = Gone THEN {} ELSE {i \in 1..Len(log[r]) : Followed(r, i) # log[r][i][2]}

\* The events of a run explain its status: the log starts at created, each
\* event is a legal transition, and each but the orphans took the run where
\* the next one, or the status, finds it.  An orphan changed nothing, and it
\* is the trace of one process that stopped between the event and the status,
\* or is between them now (workflow_store.py:142, orchestrator:600).
LogExplainsStatus ==
    /\ \A r \in Runs : log[r] # Gone =>
          /\ IF log[r] = << >> THEN status[r] \in {"none", "created"}
                               ELSE log[r][1][1] = "created"
          /\ \A i \in Orphans(r) : Followed(r, i) = log[r][i][1]
    /\ Cardinality(UNION {{r} \X Orphans(r) : r \in Runs})
          <= stops + Cardinality({p \in Procs : proc[p].at = "replace"})

GateFiles == {"context", "implementation", "targeted", "review", "full", "hermes"}

Before ==
    [awaiting_authorization |-> {"context"},
     implementation_running |-> {"context"},
     targeted_verification_running |-> {"context", "implementation"},
     review_running |-> {"context", "implementation", "targeted"},
     changes_required |-> {"context", "implementation", "targeted"},
     full_verification_running |-> {"context", "implementation", "targeted", "review"},
     hermes_running |-> {"context", "implementation", "targeted", "review", "full"},
     completed |-> GateFiles]

\* A status is worth what it says: a run that has come to a stage has the
\* passing artifact of every gate before it, was approved before it was
\* implemented, and was implemented once, whoever approved, stopped or tried
\* again.  The evidence is missing only where retention may remove it: from an
\* old completed run, not among the latest terminal ones, after its summary was
\* written.
GatesPassed ==
    \A r \in Runs :
       LET compacted == r \in summary /\ Compactable(r) IN
       /\ status[r] \in DOMAIN Before =>
             compacted \/ \A f \in Before[status[r]] : file[r][f] = "pass"
       /\ implemented[r] <= 1
       /\ implemented[r] = 1 => r \in approved
       /\ status[r] \in (DOMAIN Before) \ {"awaiting_authorization", "implementation_running"}
             => implemented[r] = 1

\* The contract of the governance graph (section 7) of retention: no apply
\* deletes the events of a run, nor a projection that is blocked by then,
\* whatever it was when the plan was made (workflow_retention.py:161, 139).
RetentionKeepsTheRecord ==
    [][\A r \in Runs :
          /\ log'[r] = Gone => log[r] = Gone
          /\ file[r]["graph"] = "fail" => file'[r]["graph"] # "none"]_vars
==============================================================================
