------------------------ MODULE AgentWorkflowProofs ------------------------
(***************************************************************************)
(* Proofs about module AgentWorkflow, for any runs, processes and limits.  *)
(*                                                                         *)
(* The lock of a run is held only for single writes, so it does not by     *)
(* itself keep a run's history straight.  What does is that a run has one  *)
(* driver at a time: the process that created it, and after the approval   *)
(* the one that approved.  It knows the run's status without a lock, since *)
(* nobody else can move it (PlaceRight, OneDriver), and its artifacts stay *)
(* as it wrote them until the status says so.                              *)
(***************************************************************************)
EXTENDS AgentWorkflow, FiniteSetTheorems, SequenceTheorems, TLAPS

Sides == {"documentation", "graph", "evidence"}

\* The status of a run while a stage of it is at work.
StatusAt ==
    [context |-> "context_running", implementation |-> "implementation_running",
     targeted |-> "targeted_verification_running", review |-> "review_running",
     pytest |-> "full_verification_running", acceptance |-> "full_verification_running",
     hermes |-> "hermes_running"]

Needed(st) == IF st \in DOMAIN Before THEN Before[st] ELSE {}

Passed(r, st) == \A f \in Needed(st) : file[r][f] = "pass"

ProcState ==
    [at : Places, run : Runs \union {0},
     stage : (DOMAIN Stage) \union Files \union {"none"}, shows : Shows,
     next : Statuses \union {"acceptance", "none"}, todo : SUBSET Runs, seen : SUBSET Runs,
     paths : SUBSET (Runs \X (StageFiles \union {"events"}))]

Types ==
    /\ status \in [Runs -> Statuses \union {"none"}]
    /\ log \in [Runs -> Seq(Event) \union {Gone}]
    /\ approved \subseteq Runs /\ old \subseteq Runs
    /\ summary \subseteq Runs /\ temporary \subseteq Runs
    /\ file \in [Runs -> [Files -> Shows]]
    /\ lock \subseteq Procs \X Runs
    /\ proc \in [Procs -> ProcState]
    /\ implemented \in [Runs -> Nat]
    /\ sides \in Nat /\ stops \in Nat /\ sides + stops <= MaxDisturbed

\* Where a process holds a lock, and that it is the one of its run.
Holding == {"written", "replace", "approved", "answer", "probed", "summary", "unlink"}

LockedAt(p) ==
    /\ \A r \in Runs : <<p, r>> \in lock =>
          proc[p].at \in Holding /\ (proc[p].at # "probed" => r = proc[p].run)
    /\ proc[p].at \in Holding \ {"probed"} => <<p, proc[p].run>> \in lock

OneHolder ==
    \A p, q \in Procs, r \in Runs : <<p, r>> \in lock /\ <<q, r>> \in lock => p = q

\* The processes that carry a run through its statuses.
Driving(p) ==
    \/ proc[p].at \in {"run", "decide", "replace", "approved"}
    \/ proc[p].at = "written" /\ proc[p].stage \in DOMAIN Stage

OneDriver ==
    \A p, q \in Procs : Driving(p) /\ Driving(q) /\ proc[p].run = proc[q].run => p = q

IsCompacted(r) == r \in summary /\ Compactable(r)

\* What each place knows of the run the process is at.
PlaceRight(p) ==
    LET r == proc[p].run
        at == proc[p].at
        stage == proc[p].stage
        next == proc[p].next IN
    /\ at \in {"run", "decide", "write", "written", "replace", "approved", "summary", "unlink"} =>
          r \in Runs
    /\ at = "run" => stage \in DOMAIN Stage /\ status[r] = StatusAt[stage]
    /\ at = "written" /\ stage \in DOMAIN Stage =>
          /\ status[r] = StatusAt[stage]
          /\ next \in {Stage[stage].pass} \union Stage[stage].fail
          /\ file[r][Stage[stage].writes] = ShowsOf(stage, next)
    /\ at = "write" \/ (at = "written" /\ stage \notin DOMAIN Stage) =>
          stage \in Sides /\ next = "none"
    /\ at = "decide" =>
          /\ status[r] \in (DOMAIN Transitions) \ {"awaiting_authorization"}
          /\ next \in Statuses /\ Passed(r, next)
    /\ at = "replace" =>
          /\ Legal(status[r], next) /\ Passed(r, next)
          /\ next = "implementation_running" => r \in approved
          /\ log[r] # << >> /\ log[r][Len(log[r])] = <<status[r], next>>
    /\ at = "approved" =>
          /\ status[r] = "awaiting_authorization" /\ next = "implementation_running"
          /\ r \in approved
    /\ at \in {"summary", "unlink"} => Compactable(r)
    /\ at = "unlink" => r \in summary

Unimplemented == {"none", "created", "context_running", "awaiting_authorization"}

Implemented == {"implementation_running", "targeted_verification_running", "review_running",
                "full_verification_running", "hermes_running", "completed", "changes_required"}

RunRight(r) ==
    /\ IsCompacted(r) \/ Passed(r, status[r])
    /\ log[r] = Gone => IsCompacted(r)
    /\ implemented[r] <= 1
    /\ implemented[r] = 1 => r \in approved
    /\ status[r] \in Unimplemented => implemented[r] = 0
    /\ status[r] \in Implemented => implemented[r] = 1

LogRight(r) ==
    /\ status[r] = "none" => log[r] = << >>
    /\ log[r] # Gone =>
          /\ IF log[r] = << >> THEN status[r] \in {"none", "created"}
                               ELSE log[r][1][1] = "created"
          /\ \A i \in Orphans(r) : Followed(r, i) = log[r][i][1]

AllOrphans == UNION {{r} \X Orphans(r) : r \in Runs}

Replacing == {p \in Procs : proc[p].at = "replace"}

Counted ==
    /\ IsFiniteSet(AllOrphans) /\ IsFiniteSet(Replacing)
    /\ Cardinality(AllOrphans) <= stops + Cardinality(Replacing)

IInv ==
    /\ Types /\ OneHolder /\ OneDriver
    /\ \A p \in Procs : LockedAt(p) /\ PlaceRight(p)
    /\ \A r \in Runs : RunRight(r) /\ LogRight(r)
    /\ Counted

-----------------------------------------------------------------------------
(* The tables of statuses, stages and gates *)

Live == {"created", "context_running", "awaiting_authorization", "implementation_running",
         "targeted_verification_running", "review_running", "full_verification_running",
         "hermes_running"}

Stages == {"context", "implementation", "targeted", "review", "pytest", "acceptance", "hermes"}

LEMMA Names ==
    /\ DOMAIN Transitions = Live
    /\ DOMAIN Stage = Stages
    /\ DOMAIN Before = {"awaiting_authorization", "changes_required", "completed"}
          \union (Live \ {"created", "context_running"})
    /\ DOMAIN FirstStage = Live \ {"created", "awaiting_authorization"}
BY DEF Transitions, Stage, Before, FirstStage, Live, Stages

LEMMA TransitionsOf ==
    /\ Transitions["created"] = {"context_running", "blocked", "failed"}
    /\ Transitions["context_running"] = {"awaiting_authorization", "blocked", "failed"}
    /\ Transitions["awaiting_authorization"] = {"implementation_running", "blocked", "failed"}
    /\ Transitions["implementation_running"] =
          {"targeted_verification_running", "blocked", "failed"}
    /\ Transitions["targeted_verification_running"] = {"review_running", "blocked", "failed"}
    /\ Transitions["review_running"] =
          {"changes_required", "full_verification_running", "blocked", "failed"}
    /\ Transitions["full_verification_running"] = {"hermes_running", "blocked", "failed"}
    /\ Transitions["hermes_running"] = {"completed", "blocked", "failed"}
BY DEF Transitions

\* What every legal transition has in common.
LEMMA LegalFacts ==
    ASSUME NEW a, NEW b, Legal(a, b)
    PROVE  /\ a \in Live /\ b \in Statuses \ {"created"} /\ a # b
           /\ a \notin Terminal
           /\ b = "implementation_running" => a = "awaiting_authorization"
           /\ b \in Unimplemented => a \in Unimplemented
           /\ b \in Implemented \ {"implementation_running"} => a \in Implemented
<1>1. a \in Live /\ b \in Transitions[a]
  BY Names DEF Legal
<1>2. b \in (Live \ {"created"}) \union Terminal
  BY <1>1, TransitionsOf DEF Live, Terminal
<1>3. a # b /\ (b = "implementation_running" => a = "awaiting_authorization")
      /\ (b \in Unimplemented => a \in Unimplemented)
      /\ (b \in Implemented \ {"implementation_running"} => a \in Implemented)
  BY <1>1, TransitionsOf DEF Live, Unimplemented, Implemented
<1> QED
  BY <1>1, <1>2, <1>3, Names DEF Statuses, Live, Terminal

LEMMA NeededOf ==
    /\ \A st \in {"none", "created", "context_running", "blocked", "failed"} : Needed(st) = {}
    /\ Needed("awaiting_authorization") = {"context"}
    /\ Needed("implementation_running") = {"context"}
    /\ Needed("targeted_verification_running") = {"context", "implementation"}
    /\ Needed("review_running") = {"context", "implementation", "targeted"}
    /\ Needed("changes_required") = {"context", "implementation", "targeted"}
    /\ Needed("full_verification_running") = {"context", "implementation", "targeted", "review"}
    /\ Needed("hermes_running") = {"context", "implementation", "targeted", "review", "full"}
    /\ Needed("completed") = GateFiles
    /\ \A st \in Statuses : Needed(st) \subseteq GateFiles
BY Names DEF Needed, Before, GateFiles, Statuses, Live, Terminal

\* The table of stages, in the terms the proofs need: what a stage writes is
\* no gate of its own status, and is what its passing adds to the gates.
StageRight(s) ==
    /\ Stage[s].writes \in GateFiles
    /\ StatusAt[s] \in Live \ {"created", "awaiting_authorization"}
    /\ Stage[s].pass \in Statuses \union {"acceptance"}
    /\ Stage[s].fail \subseteq {"blocked", "failed", "changes_required"}
    /\ Stage[s].error \in {"none", "blocked", "failed"}
    /\ Stage[s].pass = "acceptance" <=> s = "pytest"
    /\ Stage[s].writes \notin Needed(StatusAt[s])
    /\ \A n \in Stage[s].fail : Needed(n) \subseteq Needed(StatusAt[s])
    /\ s # "pytest" => Needed(Stage[s].pass) \subseteq Needed(StatusAt[s]) \union {Stage[s].writes}

LEMMA StageFacts == \A s \in Stages : StageRight(s)
<1> USE NeededOf, Names DEF StageRight, GateFiles, Live, Statuses, Terminal
<1>1. StageRight("context") /\ StageRight("implementation")
  BY DEF Stage, StatusAt
<1>2. StageRight("targeted") /\ StageRight("review")
  BY DEF Stage, StatusAt
<1>3. StageRight("pytest") /\ StageRight("acceptance") /\ StageRight("hermes")
  BY DEF Stage, StatusAt
<1> QED
  BY <1>1, <1>2, <1>3 DEF Stages

LEMMA FirstStageFacts ==
    \A st \in DOMAIN FirstStage : FirstStage[st] \in Stages /\ StatusAt[FirstStage[st]] = st
BY Names DEF FirstStage, StatusAt, Stages, Live

LEMMA FileNames ==
    /\ StageFiles = {"context", "documentation", "full", "graph", "hermes",
                     "implementation", "review", "targeted"}
    /\ GateFiles \subseteq Files /\ Sides \subseteq Files /\ Sides \intersect GateFiles = {}
    /\ Sides \intersect Stages = {}
<1>1. /\ Unlinked[1] = "context" /\ Unlinked[2] = "documentation" /\ Unlinked[3] = "full"
      /\ Unlinked[4] = "graph" /\ Unlinked[5] = "hermes" /\ Unlinked[6] = "implementation"
      /\ Unlinked[7] = "review" /\ Unlinked[8] = "targeted"
  BY DEF Unlinked
<1>2. 1..8 = {1, 2, 3, 4, 5, 6, 7, 8}
  OBVIOUS
<1>3. StageFiles = {"context", "documentation", "full", "graph", "hermes",
                    "implementation", "review", "targeted"}
  BY <1>1, <1>2 DEF StageFiles
<1> QED
  BY <1>3 DEF Files, GateFiles, Sides, Stages

\* A log of legal transitions is not the mark of a removed one.
LEMMA GoneNotLog == Gone \notin Seq(Event)
<1> SUFFICES ASSUME Gone \in Seq(Event) PROVE FALSE
  OBVIOUS
<1>1. Len(Gone) = 1 /\ Gone[1] = <<"gone", "gone">>
  BY DEF Gone
<1>2. Gone[1] \in Event
  BY <1>1, ElementOfSeq
<1>3. Legal("gone", "gone")
  BY <1>1, <1>2 DEF Event
<1> QED
  BY <1>3, LegalFacts DEF Live

-----------------------------------------------------------------------------
(* Locks *)

\* What an action may do to the locks: nothing, take a free one, drop its own.
LockMove(p) ==
    \/ lock' = lock
    \/ \E r \in Runs : Take(p, r)
    \/ Drop(p)

LEMMA LockMoved ==
    ASSUME IInv, NEW p \in Procs, LockMove(p)
    PROVE  /\ lock' \subseteq Procs \X Runs /\ OneHolder'
           /\ \A q \in Procs \ {p}, r \in Runs : <<q, r>> \in lock' <=> <<q, r>> \in lock
<1>1. lock \subseteq Procs \X Runs /\ OneHolder
  BY DEF IInv, Types
<1>2. CASE lock' = lock
  BY <1>1, <1>2 DEF OneHolder
<1>3. CASE \E r \in Runs : Take(p, r)
  BY <1>1, <1>3 DEF OneHolder, Take, Free
<1>4. CASE Drop(p)
  BY <1>1, <1>4 DEF OneHolder, Drop
<1> QED
  BY <1>2, <1>3, <1>4 DEF LockMove

-----------------------------------------------------------------------------
(* What stays as it is *)

\* An ended run stays ended, and an old one old, so what retention may take
\* it may take for good.
Forward ==
    /\ \A r \in Runs : status[r] \in Terminal => status'[r] = status[r]
    /\ old \subseteq old' /\ old' \subseteq Runs /\ summary \subseteq summary'

LEMMA CompactableStays ==
    ASSUME Forward, NEW r \in Runs, Compactable(r)
    PROVE  Compactable(r)'
<1>1. status[r] = "completed" /\ r \in old /\ r \in Ended /\ r \notin Latest(Ended)
  BY DEF Compactable, Ended, Terminal
<1>2. status'[r] = "completed" /\ r \in old' /\ Ended \subseteq Ended' /\ r \in Ended'
  BY <1>1 DEF Forward, Ended, Terminal
<1> DEFINE later == {s \in Ended : s > r}
           later2 == {s \in Ended' : s > r}
<1>3. MaxRuns \in Nat /\ Retain \in Nat
  BY WorkflowAssumption
<1>4. IsFiniteSet(Runs) /\ later2 \subseteq Runs /\ later \subseteq later2
  BY <1>2, <1>3, FS_Interval DEF Runs, Ended
<1>5. IsFiniteSet(later2) /\ IsFiniteSet(later)
      /\ Cardinality(later) <= Cardinality(later2)
  <2>1. IsFiniteSet(later2)
    BY <1>4, FS_Subset
  <2> QED
    BY <1>4, <2>1, FS_Subset
<1>6. ~(Cardinality(later) < Retain)
  BY <1>1 DEF Latest
<1>7. ~(Cardinality(later2) < Retain)
  BY <1>3, <1>5, <1>6, FS_CardinalityType
<1> QED
  BY <1>2, <1>7 DEF Compactable, Latest

\* The other processes keep their places, and the files that those know about.
OthersKept(p) ==
    \A q \in Procs \ {p} :
        /\ proc'[q] = proc[q]
        /\ Driving(q) =>
              LET r == proc[q].run IN
              /\ status'[r] = status[r] /\ log'[r] = log[r]
              /\ \A f \in GateFiles : file'[r][f] = file[r][f]

LEMMA OthersRight ==
    ASSUME IInv, NEW p \in Procs, LockMove(p), Forward, approved \subseteq approved',
           OthersKept(p), NEW q \in Procs \ {p}
    PROVE  LockedAt(q)' /\ PlaceRight(q)' /\ (Driving(q)' <=> Driving(q))
<1>1. /\ proc'[q] = proc[q] /\ LockedAt(q) /\ PlaceRight(q) /\ proc[q] \in ProcState
  BY DEF IInv, OthersKept, Types
<1>2. LockedAt(q)'
  <2>1. \A r \in Runs : <<q, r>> \in lock' <=> <<q, r>> \in lock
    BY LockMoved
  <2>2. proc[q].at \in Holding \ {"probed"} => proc[q].run \in Runs
    BY <1>1 DEF LockedAt, IInv, Types
  <2> QED
    BY <1>1, <2>1, <2>2 DEF LockedAt
<1>3. Driving(q)' <=> Driving(q)
  BY <1>1 DEF Driving
<1> DEFINE r == proc[q].run
<1>4. Driving(q) => /\ status'[r] = status[r] /\ log'[r] = log[r]
                    /\ \A f \in GateFiles : file'[r][f] = file[r][f]
  BY DEF OthersKept
<1>5. \A st \in Statuses : Driving(q) /\ Passed(r, st) => Passed(r, st)'
  <2> SUFFICES ASSUME NEW st \in Statuses, Driving(q), Passed(r, st) PROVE Passed(r, st)'
    OBVIOUS
  <2>1. Needed(st) \subseteq GateFiles
    BY NeededOf
  <2>2. \A f \in Needed(st) : file'[r][f] = "pass"
    BY <1>4, <2>1 DEF Passed
  <2> QED
    BY <1>1, <2>2 DEF Passed
<1>6. proc[q].at \in {"summary", "unlink"} => Compactable(r)'
  BY <1>1, CompactableStays DEF PlaceRight
<1>7. proc[q].at = "unlink" => r \in summary'
  BY <1>1 DEF PlaceRight, Forward
<1>8. PlaceRight(q)'
  <2>1. CASE ~Driving(q)
    BY <1>1, <1>6, <1>7, <2>1 DEF PlaceRight, Driving
  <2>2. CASE Driving(q)
    <3>1. \A a, b : Legal(a, b)' <=> Legal(a, b)
      BY DEF Legal
    <3>2. proc[q].stage \in DOMAIN Stage =>
             file'[r][Stage[proc[q].stage].writes] = file[r][Stage[proc[q].stage].writes]
      BY <1>4, <2>2, StageFacts, Names DEF StageRight
    <3>3. proc[q].at = "replace" => Passed(r, proc[q].next)'
      BY <1>1, <1>5, <2>2, LegalFacts DEF PlaceRight
    <3>4. proc[q].at = "decide" => Passed(r, proc[q].next)'
      BY <1>1, <1>5, <2>2 DEF PlaceRight
    <3> QED
      BY <1>1, <1>4, <1>6, <1>7, <2>2, <3>1, <3>2, <3>3, <3>4 DEF PlaceRight, Driving
  <2> QED
    BY <2>1, <2>2
<1> QED
  BY <1>2, <1>3, <1>8

\* What the invariant says of the process that steps.
OwnRight(p) ==
    /\ LockedAt(p)' /\ PlaceRight(p)'
    /\ Driving(p)' => \A q \in Procs \ {p} : Driving(q) => proc[q].run # proc'[p].run

LEMMA OneStep ==
    ASSUME IInv, Types', NEW p \in Procs, LockMove(p), Forward, approved \subseteq approved',
           OthersKept(p), OwnRight(p),
           \A r \in Runs : RunRight(r)' /\ LogRight(r)', Counted'
    PROVE  IInv'
<1>1. OneHolder'
  BY LockMoved
<1>2. \A q \in Procs : LockedAt(q)' /\ PlaceRight(q)'
  BY OthersRight DEF OwnRight
<1>3. OneDriver'
  <2> SUFFICES ASSUME NEW q \in Procs, NEW s \in Procs, Driving(q)', Driving(s)',
                      proc'[q].run = proc'[s].run
               PROVE  q = s
    BY DEF OneDriver
  <2>1. \A u \in Procs \ {p} : proc'[u] = proc[u] /\ (Driving(u)' <=> Driving(u))
    BY OthersRight DEF OthersKept
  <2>2. CASE q # p /\ s # p
    BY <2>1, <2>2 DEF IInv, OneDriver
  <2>3. CASE q = p \/ s = p
    BY <2>1, <2>3 DEF OwnRight
  <2> QED
    BY <2>2, <2>3
<1> QED
  BY <1>1, <1>2, <1>3 DEF IInv

-----------------------------------------------------------------------------
(* The count of the orphans *)

\* Orphans are counted against stops and replacements: a step leaves both
\* alone or only takes orphans away, adds one of each, takes one of each, or
\* turns a replacement into a stop.
LEMMA CountKept ==
    ASSUME IInv, stops' \in Nat, NEW p \in Procs,
           \A q \in Procs \ {p} : proc'[q] = proc[q],
           \/ /\ AllOrphans' \subseteq AllOrphans
              /\ proc'[p].at # "replace"
              /\ IF proc[p].at = "replace" THEN stops' = stops + 1 ELSE stops' >= stops
           \/ /\ \E o : AllOrphans' = AllOrphans \union {o}
              /\ proc[p].at # "replace" /\ proc'[p].at = "replace" /\ stops' = stops
           \/ /\ \E o \in AllOrphans : AllOrphans' = AllOrphans \ {o}
              /\ proc[p].at = "replace" /\ proc'[p].at # "replace" /\ stops' = stops
    PROVE  Counted'
<1>1. /\ IsFiniteSet(AllOrphans) /\ IsFiniteSet(Replacing) /\ stops \in Nat
      /\ Cardinality(AllOrphans) <= stops + Cardinality(Replacing)
  BY DEF IInv, Counted, Types
<1>2. Cardinality(AllOrphans) \in Nat /\ Cardinality(Replacing) \in Nat
  BY <1>1, FS_CardinalityType
<1>3. IF proc'[p].at = "replace" THEN Replacing' = Replacing \union {p}
                                ELSE Replacing' = Replacing \ {p}
  BY DEF Replacing
<1>4. p \in Replacing <=> proc[p].at = "replace"
  BY DEF Replacing
<1> HIDE DEF AllOrphans, Replacing
<1>5. CASE /\ AllOrphans' \subseteq AllOrphans
           /\ proc'[p].at # "replace"
           /\ IF proc[p].at = "replace" THEN stops' = stops + 1 ELSE stops' >= stops
  <2>1. IsFiniteSet(AllOrphans') /\ Cardinality(AllOrphans') <= Cardinality(AllOrphans)
    BY <1>1, <1>5, FS_Subset
  <2>2. Cardinality(AllOrphans') \in Nat
    BY <2>1, FS_CardinalityType
  <2>3. /\ IsFiniteSet(Replacing')
        /\ Cardinality(Replacing') = IF proc[p].at = "replace" THEN Cardinality(Replacing) - 1
                                                              ELSE Cardinality(Replacing)
    BY <1>1, <1>3, <1>4, <1>5, FS_RemoveElement
  <2> QED
    BY <1>1, <1>2, <1>5, <2>1, <2>2, <2>3 DEF Counted
<1>6. CASE /\ \E o : AllOrphans' = AllOrphans \union {o}
           /\ proc[p].at # "replace" /\ proc'[p].at = "replace" /\ stops' = stops
  <2>1. PICK o : AllOrphans' = AllOrphans \union {o}
    BY <1>6
  <2>2. /\ IsFiniteSet(AllOrphans') /\ Cardinality(AllOrphans') \in Nat
        /\ Cardinality(AllOrphans') <= Cardinality(AllOrphans) + 1
    <3>1. /\ IsFiniteSet(AllOrphans \union {o})
          /\ Cardinality(AllOrphans \union {o})
                = IF o \in AllOrphans THEN Cardinality(AllOrphans) ELSE Cardinality(AllOrphans) + 1
      BY <1>1, FS_AddElement
    <3> QED
      BY <1>2, <2>1, <3>1
  <2>3. IsFiniteSet(Replacing') /\ Cardinality(Replacing') = Cardinality(Replacing) + 1
    BY <1>1, <1>3, <1>4, <1>6, FS_AddElement
  <2> QED
    BY <1>1, <1>2, <1>6, <2>2, <2>3 DEF Counted
<1>7. CASE /\ \E o \in AllOrphans : AllOrphans' = AllOrphans \ {o}
           /\ proc[p].at = "replace" /\ proc'[p].at # "replace" /\ stops' = stops
  <2>1. PICK o \in AllOrphans : AllOrphans' = AllOrphans \ {o}
    BY <1>7
  <2>2. IsFiniteSet(AllOrphans') /\ Cardinality(AllOrphans') = Cardinality(AllOrphans) - 1
    BY <1>1, <2>1, FS_RemoveElement
  <2>3. IsFiniteSet(Replacing') /\ Cardinality(Replacing') = Cardinality(Replacing) - 1
    BY <1>1, <1>3, <1>4, <1>7, FS_RemoveElement
  <2> QED
    BY <1>1, <1>2, <1>7, <2>2, <2>3 DEF Counted
<1> QED
  BY <1>5, <1>6, <1>7

\* Where logs and statuses stay, so do the orphans.
LEMMA OrphansKept ==
    ASSUME UNCHANGED <<status, log>>
    PROVE  AllOrphans' = AllOrphans /\ \A r \in Runs : Orphans(r)' = Orphans(r)
BY DEF AllOrphans, Orphans, Followed

-----------------------------------------------------------------------------
(* Steps that write no status, event or artifact *)

LEMMA IdleState == Idle \in ProcState /\ Idle.at = "idle"
BY DEF Idle, ProcState, Places, Shows

Quiet(p, x) ==
    /\ x \in ProcState /\ proc' = [proc EXCEPT ![p] = x]
    /\ UNCHANGED <<status, log, approved, file, summary, old, implemented>>
    /\ temporary' \subseteq Runs
    /\ sides' \in Nat /\ stops' \in Nat /\ sides' + stops' <= MaxDisturbed
    /\ x.at # "replace"
    /\ IF proc[p].at = "replace" THEN stops' = stops + 1 ELSE stops' >= stops

LEMMA QuietStep ==
    ASSUME IInv, NEW p \in Procs, NEW x, Quiet(p, x), LockMove(p), OwnRight(p)
    PROVE  IInv'
<1>1. Types
  BY DEF IInv
<1>2. lock' \subseteq Procs \X Runs
  BY LockMoved
<1>3. Types'
  BY <1>1, <1>2 DEF Types, Quiet
<1>4. Forward /\ approved \subseteq approved'
  BY <1>1 DEF Forward, Quiet, Types
<1>5. OthersKept(p) /\ (\A q \in Procs \ {p} : proc'[q] = proc[q]) /\ proc'[p] = x
  BY <1>1 DEF OthersKept, Quiet, Types
<1>6. Counted'
  <2>1. AllOrphans' \subseteq AllOrphans
    BY OrphansKept DEF Quiet
  <2> QED
    BY <1>5, <2>1, CountKept DEF Quiet
<1>7. ASSUME NEW r \in Runs PROVE RunRight(r)' /\ LogRight(r)'
  <2>1. RunRight(r) /\ LogRight(r)
    BY DEF IInv
  <2>2. RunRight(r)'
    BY <2>1
       DEF RunRight, Quiet, IsCompacted, Compactable, Latest, Ended, Passed, Needed
  <2>3. LogRight(r)'
    BY <2>1, OrphansKept DEF LogRight, Quiet, Followed
  <2> QED
    BY <2>2, <2>3
<1> QED
  BY <1>3, <1>4, <1>5, <1>6, <1>7, OneStep

\* A process that rests holds no lock and drives no run.
LEMMA RestStep ==
    ASSUME IInv, NEW p \in Procs, NEW x, Quiet(p, x), x.at \in {"idle", "plan", "apply"},
           Drop(p) \/ (lock' = lock /\ proc[p].at \notin Holding)
    PROVE  IInv'
<1>1. Types /\ LockedAt(p)
  BY DEF IInv
<1>2. proc'[p] = x
  BY <1>1 DEF Quiet, Types
<1>3. \A r \in Runs : <<p, r>> \notin lock'
  BY <1>1 DEF Drop, LockedAt
<1>4. OwnRight(p)
  BY <1>2, <1>3 DEF OwnRight, LockedAt, PlaceRight, Driving, Holding
<1> QED
  BY <1>4, QuietStep DEF LockMove

LEMMA StopStep == ASSUME IInv, NEW p \in Procs, Stop(p) PROVE IInv'
<1>1. Types
  BY DEF IInv
<1>2. Quiet(p, Idle)
  BY <1>1, IdleState, WorkflowAssumption DEF Stop, Goto, Quiet, Types
<1> QED
  BY <1>2, IdleState, RestStep DEF Stop

\* What all the resting steps share.
LEMMA StillFacts ==
    ASSUME IInv, NEW p \in Procs
    PROVE  /\ Types /\ LockedAt(p) /\ PlaceRight(p) /\ proc[p] \in ProcState
           /\ temporary \subseteq Runs /\ sides \in Nat /\ stops \in Nat
           /\ sides + stops <= MaxDisturbed
BY DEF IInv, Types

LEMMA LockedOutStep == ASSUME IInv, NEW p \in Procs, LockedOut(p) PROVE IInv'
<1>1. Quiet(p, Idle)
  BY StillFacts, IdleState DEF LockedOut, Goto, Quiet, runFiles
<1> QED
  BY <1>1, IdleState, RestStep DEF LockedOut, Holding

LEMMA AnsweredStep == ASSUME IInv, NEW p \in Procs, Answered(p) PROVE IInv'
<1>1. Quiet(p, Idle)
  BY StillFacts, IdleState DEF Answered, Goto, Quiet, runFiles
<1> QED
  BY <1>1, IdleState, RestStep DEF Answered

LEMMA PruneStep == ASSUME IInv, NEW p \in Procs, Prune(p) PROVE IInv'
<1> DEFINE x == [Idle EXCEPT !.at = "plan", !.todo = {r \in Runs : Exists(r)}]
<1>1. x \in ProcState /\ x.at = "plan"
  BY IdleState DEF ProcState, Places
<1> HIDE DEF x
<1>2. proc' = [proc EXCEPT ![p] = x] /\ proc[p].at = "idle"
      /\ UNCHANGED <<runFiles, lock, old, implemented, sides, stops>>
  BY DEF Prune, Goto, x
<1>3. Quiet(p, x)
  BY <1>1, <1>2, StillFacts DEF Quiet, runFiles
<1> QED
  BY <1>1, <1>2, <1>3, RestStep DEF Holding

LEMMA InspectedStep == ASSUME IInv, NEW p \in Procs, Inspected(p) PROVE IInv'
<1> DEFINE x == [proc[p] EXCEPT !.at = "plan"]
<1>1. x \in ProcState /\ x.at = "plan"
  BY StillFacts DEF ProcState, Places
<1> HIDE DEF x
<1>2. proc' = [proc EXCEPT ![p] = x] /\ proc[p].at = "probed" /\ Drop(p)
      /\ UNCHANGED <<runFiles, old, implemented, sides, stops>>
  BY DEF Inspected, Goto, x
<1>3. Quiet(p, x)
  BY <1>1, <1>2, StillFacts DEF Quiet, runFiles
<1> QED
  BY <1>1, <1>2, <1>3, RestStep

LEMMA SkipLockedStep ==
    ASSUME IInv, NEW p \in Procs, NEW r \in Runs, SkipLocked(p, r) PROVE IInv'
<1> DEFINE x == [proc[p] EXCEPT !.todo = @ \ {r}]
<1>1. x \in ProcState /\ x.at = proc[p].at
  BY StillFacts DEF ProcState
<1> HIDE DEF x
<1>2. proc' = [proc EXCEPT ![p] = x] /\ proc[p].at = "plan"
      /\ UNCHANGED <<runFiles, lock, old, implemented, sides, stops>>
  BY DEF SkipLocked, Goto, x
<1>3. Quiet(p, x)
  BY <1>1, <1>2, StillFacts DEF Quiet, runFiles
<1> QED
  BY <1>1, <1>2, <1>3, RestStep DEF Holding

LEMMA SelectStep == ASSUME IInv, NEW p \in Procs, Select(p) PROVE IInv'
<1> DEFINE candidates == Candidates(proc[p].seen)
           left == [Idle EXCEPT !.at = "apply", !.todo = candidates,
                                !.paths = UNION {{r} \X Present(r) : r \in candidates}]
           x == IF left.todo = {} THEN Idle ELSE left
<1>1. candidates \subseteq Runs
  BY StillFacts DEF Candidates, Types
<1>2. \A r \in Runs : Present(r) \subseteq StageFiles \union {"events"}
  BY DEF Present
<1>3. UNION {{r} \X Present(r) : r \in candidates} \subseteq Runs \X (StageFiles \union {"events"})
  BY <1>1, <1>2
<1> HIDE DEF candidates
<1>4. left \in ProcState /\ left.at = "apply"
  BY <1>1, <1>3, IdleState DEF ProcState, Places
<1> HIDE DEF left
<1>5. x \in ProcState /\ x.at \in {"idle", "apply"}
  BY <1>4, IdleState
<1>6. proc' = [proc EXCEPT ![p] = x] /\ proc[p].at = "plan"
      /\ UNCHANGED <<runFiles, lock, old, implemented, sides, stops>>
  BY DEF Select, Apply, Goto, left, candidates
<1> HIDE DEF x
<1>7. Quiet(p, x)
  BY <1>5, <1>6, StillFacts DEF Quiet, runFiles
<1> QED
  BY <1>5, <1>6, <1>7, RestStep DEF Holding

LEMMA SkipCandidateStep ==
    ASSUME IInv, NEW p \in Procs, NEW r \in Runs, SkipCandidate(p, r) PROVE IInv'
<1> DEFINE left == [proc[p] EXCEPT !.todo = @ \ {r}]
           x == IF left.todo = {} THEN Idle ELSE left
<1>1. left \in ProcState /\ left.at = proc[p].at
  BY StillFacts DEF ProcState
<1> HIDE DEF left
<1>2. proc' = [proc EXCEPT ![p] = x] /\ proc[p].at = "apply"
      /\ UNCHANGED <<runFiles, lock, old, implemented, sides, stops>>
  BY DEF SkipCandidate, Apply, Goto, left
<1>3. x \in ProcState /\ x.at \in {"idle", "apply"}
  BY <1>1, <1>2, IdleState
<1> HIDE DEF x
<1>4. Quiet(p, x)
  BY <1>2, <1>3, StillFacts DEF Quiet, runFiles
<1> QED
  BY <1>2, <1>3, <1>4, RestStep DEF Holding

LEMMA ApplyRaisesStep ==
    ASSUME IInv, NEW p \in Procs, NEW r \in Runs, ApplyRaises(p, r) PROVE IInv'
<1>1. Quiet(p, Idle)
  BY StillFacts, IdleState DEF ApplyRaises, Goto, Quiet, runFiles
<1> QED
  BY <1>1, IdleState, RestStep DEF ApplyRaises, Holding

LEMMA CompactedStep == ASSUME IInv, NEW p \in Procs, Compacted(p) PROVE IInv'
<1> DEFINE left == [proc[p] EXCEPT !.at = "apply", !.run = 0]
           x == IF left.todo = {} THEN Idle ELSE left
<1>1. left \in ProcState /\ left.at = "apply"
  BY StillFacts DEF ProcState, Places
<1> HIDE DEF left
<1>2. proc' = [proc EXCEPT ![p] = x] /\ proc[p].at = "unlink" /\ Drop(p)
      /\ UNCHANGED <<runFiles, old, implemented, sides, stops>>
  BY DEF Compacted, Apply, Goto, left
<1>3. x \in ProcState /\ x.at \in {"idle", "apply"}
  BY <1>1, IdleState
<1> HIDE DEF x
<1>4. Quiet(p, x)
  BY <1>2, <1>3, StillFacts DEF Quiet, runFiles
<1> QED
  BY <1>2, <1>3, <1>4, RestStep

\* A lock is taken, kept, or not held.
LEMMA TakenRight ==
    ASSUME IInv, NEW p \in Procs, NEW r \in Runs, proc[p].at \notin Holding, Take(p, r),
           proc'[p].at \in Holding, proc'[p].at # "probed" => proc'[p].run = r
    PROVE  LockedAt(p)' /\ LockMove(p)
BY StillFacts DEF LockedAt, Take, LockMove

LEMMA KeptRight ==
    ASSUME IInv, NEW p \in Procs, lock' = lock, proc[p].at \in Holding \ {"probed"},
           proc'[p].at \in Holding \ {"probed"}, proc'[p].run = proc[p].run
    PROVE  LockedAt(p)' /\ LockMove(p)
BY StillFacts DEF LockedAt, LockMove

LEMMA NoneRight ==
    ASSUME IInv, NEW p \in Procs, Drop(p) \/ (lock' = lock /\ proc[p].at \notin Holding),
           proc'[p].at \notin Holding
    PROVE  LockedAt(p)' /\ LockMove(p)
BY StillFacts DEF LockedAt, LockMove, Drop

LEMMA AnswerApprovalStep ==
    ASSUME IInv, NEW p \in Procs, NEW r \in Runs, AnswerApproval(p, r) PROVE IInv'
<1> DEFINE x == [Idle EXCEPT !.at = "answer", !.run = r]
<1>1. x \in ProcState /\ x.at = "answer" /\ x.run = r
  BY IdleState DEF ProcState, Places
<1> HIDE DEF x
<1>2. proc' = [proc EXCEPT ![p] = x] /\ proc[p].at = "idle" /\ Take(p, r)
      /\ UNCHANGED <<runFiles, old, implemented, sides, stops>>
  BY DEF AnswerApproval, Goto, x
<1>3. Quiet(p, x) /\ proc'[p] = x
  BY <1>1, <1>2, StillFacts DEF Quiet, runFiles, Types
<1>4. LockedAt(p)' /\ LockMove(p)
  BY <1>1, <1>2, <1>3, TakenRight DEF Holding
<1>5. PlaceRight(p)' /\ ~Driving(p)'
  BY <1>1, <1>3 DEF PlaceRight, Driving
<1> QED
  BY <1>3, <1>4, <1>5, QuietStep DEF OwnRight

LEMMA InspectStep ==
    ASSUME IInv, NEW p \in Procs, NEW r \in Runs, Inspect(p, r) PROVE IInv'
<1> DEFINE x == [proc[p] EXCEPT !.at = "probed", !.todo = @ \ {r},
                                !.seen = @ \union ({r} \intersect Ended)]
<1>1. x \in ProcState /\ x.at = "probed"
  BY StillFacts DEF ProcState, Places
<1> HIDE DEF x
<1>2. proc' = [proc EXCEPT ![p] = x] /\ proc[p].at = "plan" /\ Take(p, r)
      /\ UNCHANGED <<runFiles, old, implemented, sides, stops>>
  BY DEF Inspect, Goto, x
<1>3. Quiet(p, x) /\ proc'[p] = x
  BY <1>1, <1>2, StillFacts DEF Quiet, runFiles, Types
<1>4. LockedAt(p)' /\ LockMove(p)
  BY <1>1, <1>2, <1>3, TakenRight DEF Holding
<1>5. PlaceRight(p)' /\ ~Driving(p)'
  BY <1>1, <1>3 DEF PlaceRight, Driving
<1> QED
  BY <1>3, <1>4, <1>5, QuietStep DEF OwnRight

\* A documentation or a projection: it drives nothing.
LEMMA BesideStep ==
    ASSUME IInv, NEW p \in Procs, NEW r \in Runs, Document(p, r) \/ Project(p, r) PROVE IInv'
<1>1. PICK stage \in {"documentation", "graph"}, shows \in {"pass", "fail"} :
          proc' = [proc EXCEPT ![p] =
             [Idle EXCEPT !.at = "write", !.run = r, !.stage = stage, !.shows = shows]]
  BY DEF Document, Project, Goto
<1> DEFINE x == [Idle EXCEPT !.at = "write", !.run = r, !.stage = stage, !.shows = shows]
<1>2. stage \in Sides /\ stage \in Files /\ shows \in Shows
  BY FileNames DEF Sides, Shows
<1>3. x \in ProcState /\ x.at = "write" /\ x.run = r /\ x.stage = stage /\ x.next = "none"
  BY <1>2, IdleState DEF ProcState, Places, Idle
<1> HIDE DEF x
<1>4. proc' = [proc EXCEPT ![p] = x] /\ proc[p].at = "idle"
      /\ UNCHANGED <<runFiles, lock, old, implemented, stops>>
      /\ sides + stops < MaxDisturbed /\ sides' = sides + 1
  BY <1>1 DEF Document, Project, Beside, x
<1>5. Quiet(p, x) /\ proc'[p] = x
  BY <1>3, <1>4, StillFacts, WorkflowAssumption DEF Quiet, runFiles, Types
<1>6. LockedAt(p)' /\ LockMove(p)
  BY <1>3, <1>4, <1>5, NoneRight DEF Holding
<1>7. PlaceRight(p)' /\ ~Driving(p)'
  BY <1>2, <1>3, <1>5 DEF PlaceRight, Driving
<1> QED
  BY <1>5, <1>6, <1>7, QuietStep DEF OwnRight

LEMMA CompactStep ==
    ASSUME IInv, NEW p \in Procs, NEW r \in Runs, Compact(p, r) PROVE IInv'
<1> DEFINE x == [proc[p] EXCEPT !.at = "summary", !.run = r, !.todo = @ \ {r}]
<1>1. x \in ProcState /\ x.at = "summary" /\ x.run = r
  BY StillFacts DEF ProcState, Places
<1> HIDE DEF x
<1>2. proc' = [proc EXCEPT ![p] = x] /\ proc[p].at = "apply" /\ Take(p, r) /\ Compactable(r)
      /\ UNCHANGED <<status, log, approved, file, summary, old, implemented, sides, stops>>
      /\ temporary' = temporary \union {r}
  BY DEF Compact, Goto, x
<1>3. Quiet(p, x) /\ proc'[p] = x
  BY <1>1, <1>2, StillFacts DEF Quiet, Types
<1>4. LockedAt(p)' /\ LockMove(p)
  BY <1>1, <1>2, <1>3, TakenRight DEF Holding
<1>5. Forward
  BY <1>2, StillFacts DEF Forward, Types
<1>6. Compactable(r)'
  BY <1>2, <1>5, CompactableStays
<1>7. PlaceRight(p)' /\ ~Driving(p)'
  BY <1>1, <1>3, <1>6 DEF PlaceRight, Driving
<1> QED
  BY <1>3, <1>4, <1>7, QuietStep DEF OwnRight

\* A driver that closes its artifact goes on with what the artifact says.
LEMMA CloseArtifactStep == ASSUME IInv, NEW p \in Procs, CloseArtifact(p) PROVE IInv'
<1>1. PICK x \in AfterWrite(p) : proc' = [proc EXCEPT ![p] = x]
  BY DEF CloseArtifact, Goto
<1>2. /\ proc[p].at = "written" /\ Drop(p)
      /\ UNCHANGED <<runFiles, old, implemented, sides, stops>>
  BY DEF CloseArtifact
<1> DEFINE r == proc[p].run
           stage == proc[p].stage
           next == proc[p].next
<1>3. r \in Runs /\ PlaceRight(p) /\ proc[p] \in ProcState
  BY <1>2, StillFacts DEF PlaceRight
<1>4. CASE x = Idle
  <2>1. Quiet(p, Idle)
    BY <1>1, <1>2, <1>4, StillFacts, IdleState DEF Quiet, runFiles
  <2> QED
    BY <1>2, <2>1, IdleState, RestStep
<1>5. CASE /\ stage \notin DOMAIN Stage /\ x = [proc[p] EXCEPT !.at = "write"]
  <2>1. x \in ProcState /\ x.at = "write" /\ x.run = r /\ x.stage = stage /\ x.next = next
    BY <1>3, <1>5 DEF ProcState, Places
  <2>2. Quiet(p, x) /\ proc'[p] = x
    BY <1>1, <1>2, <2>1, StillFacts DEF Quiet, runFiles, Types
  <2>3. LockedAt(p)' /\ LockMove(p)
    BY <1>2, <2>1, <2>2, NoneRight DEF Holding
  <2>4. PlaceRight(p)' /\ ~Driving(p)'
    BY <1>2, <1>3, <1>5, <2>1, <2>2 DEF PlaceRight, Driving
  <2> QED
    BY <2>2, <2>3, <2>4, QuietStep DEF OwnRight
<1>6. CASE /\ stage \in DOMAIN Stage
           /\ \/ next = "acceptance"
                 /\ x = [proc[p] EXCEPT !.at = "run", !.stage = "acceptance", !.next = "none"]
              \/ next # "acceptance" /\ x = [proc[p] EXCEPT !.at = "decide"]
  <2>1. /\ status[r] = StatusAt[stage] /\ next \in {Stage[stage].pass} \union Stage[stage].fail
        /\ file[r][Stage[stage].writes] = ShowsOf(stage, next) /\ StageRight(stage)
    BY <1>2, <1>3, <1>6, StageFacts, Names DEF PlaceRight
  <2>2. CASE next = "acceptance"
    <3>1. x = [proc[p] EXCEPT !.at = "run", !.stage = "acceptance", !.next = "none"]
      BY <1>6, <2>2
    <3>2. x \in ProcState /\ x.at = "run" /\ x.run = r /\ x.stage = "acceptance"
      BY <1>3, <3>1, Names DEF ProcState, Places, Stages
    <3>3. stage = "pytest" /\ status[r] = StatusAt["acceptance"]
      BY <2>1, <2>2 DEF StageRight, StatusAt
    <3>4. Quiet(p, x) /\ proc'[p] = x
      BY <1>1, <1>2, <3>2, StillFacts DEF Quiet, runFiles, Types
    <3>5. LockedAt(p)' /\ LockMove(p)
      BY <1>2, <3>2, <3>4, NoneRight DEF Holding
    <3>6. PlaceRight(p)'
      BY <1>2, <1>3, <3>2, <3>3, <3>4, Names DEF PlaceRight, runFiles, Stages
    <3>7. \A q \in Procs \ {p} : Driving(q) => proc[q].run # proc'[p].run
      BY <1>2, <1>6, <3>2, <3>4 DEF IInv, OneDriver, Driving
    <3> QED
      BY <3>4, <3>5, <3>6, <3>7, QuietStep DEF OwnRight
  <2>3. CASE next # "acceptance"
    <3>1. x = [proc[p] EXCEPT !.at = "decide"]
      BY <1>6, <2>3
    <3>2. x \in ProcState /\ x.at = "decide" /\ x.run = r /\ x.next = next
      BY <1>3, <3>1 DEF ProcState, Places
    <3>3. Quiet(p, x) /\ proc'[p] = x
      BY <1>1, <1>2, <3>2, StillFacts DEF Quiet, runFiles, Types
    <3>4. LockedAt(p)' /\ LockMove(p)
      BY <1>2, <3>2, <3>3, NoneRight DEF Holding
    <3>5. next \in Statuses
      BY <2>1, <2>3 DEF StageRight, Statuses, Terminal
    <3>6. Passed(r, status[r])
      <4>1. RunRight(r)
        BY <1>3 DEF IInv
      <4>2. ~IsCompacted(r)
        BY <2>1 DEF StageRight, IsCompacted, Compactable, Live
      <4> QED
        BY <4>1, <4>2 DEF RunRight
    <3>7. Passed(r, next)
      <4>1. CASE next \in Stage[stage].fail
        BY <2>1, <3>6, <4>1 DEF StageRight, Passed
      <4>2. CASE next = Stage[stage].pass
        <5>1. file[r][Stage[stage].writes] = "pass"
          BY <2>1, <2>3, <4>2 DEF ShowsOf, StageRight
        <5> QED
          BY <2>1, <2>3, <3>6, <4>2, <5>1 DEF StageRight, Passed
      <4> QED
        BY <2>1, <4>1, <4>2
    <3>8. Passed(r, next)'
      BY <1>2, <3>2, <3>3, <3>7 DEF Passed, Needed, runFiles
    <3>9. PlaceRight(p)'
      BY <1>2, <1>3, <2>1, <3>2, <3>3, <3>5, <3>8, Names DEF PlaceRight, runFiles, StageRight
    <3>10. \A q \in Procs \ {p} : Driving(q) => proc[q].run # proc'[p].run
      BY <1>2, <1>6, <3>2, <3>3 DEF IInv, OneDriver, Driving
    <3> QED
      BY <3>3, <3>4, <3>9, <3>10, QuietStep DEF OwnRight
  <2> QED
    BY <2>2, <2>3
<1>7. stage \in DOMAIN Stage \/ (stage \in Sides /\ next = "none")
  BY <1>2, <1>3 DEF PlaceRight
<1> QED
  <2>1. CASE stage \in DOMAIN Stage
    <3>1. stage \notin Sides
      BY <2>1, FileNames, Names
    <3> QED
      BY <1>6, <2>1, <3>1 DEF AfterWrite, Sides
  <2>2. CASE stage \in Sides /\ next = "none" /\ stage \notin DOMAIN Stage
    BY <1>4, <1>5, <2>2 DEF AfterWrite, Sides
  <2> QED
    BY <1>7, <2>1, <2>2

-----------------------------------------------------------------------------
(* Steps that write an artifact, an approval or a summary *)

\* A step that leaves statuses and events alone keeps the history of every
\* run, and what it claims, if it takes no passing gate away from it.
LEMMA SameHistory ==
    ASSUME IInv, NEW p \in Procs, NEW x, UNCHANGED <<status, log, implemented, stops>>,
           proc' = [proc EXCEPT ![p] = x], x.at # "replace", proc[p].at # "replace",
           Forward, approved \subseteq approved',
           NEW r \in Runs,
           IsCompacted(r) \/ \A f \in Needed(status[r]) : file[r][f] = "pass" => file'[r][f] = "pass"
    PROVE  RunRight(r)' /\ LogRight(r)' /\ Counted'
<1>1. RunRight(r) /\ LogRight(r) /\ Types
  BY DEF IInv
<1>2. IsCompacted(r) => IsCompacted(r)'
  BY CompactableStays DEF IsCompacted, Forward
<1>3. IsCompacted(r) \/ Passed(r, status[r])'
  BY <1>1 DEF RunRight, Passed, Needed
<1>4. RunRight(r)'
  BY <1>1, <1>2, <1>3 DEF RunRight
<1>5. LogRight(r)'
  BY <1>1, OrphansKept DEF LogRight, Followed
<1>6. AllOrphans' \subseteq AllOrphans
  BY OrphansKept
<1>7. (\A q \in Procs \ {p} : proc'[q] = proc[q]) /\ proc'[p] = x
  BY <1>1 DEF Types
<1>8. stops \in Nat
  BY <1>1 DEF Types
<1>9. Counted'
  BY <1>6, <1>7, <1>8, CountKept
<1> QED
  BY <1>4, <1>5, <1>9

\* A run that is driven has begun and has not ended.
LEMMA DrivenLive ==
    ASSUME IInv, NEW q \in Procs, Driving(q)
    PROVE  proc[q].run \in Runs /\ status[proc[q].run] \in Live
<1>1. PlaceRight(q)
  BY DEF IInv
<1> QED
  BY <1>1, StageFacts, Names, LegalFacts DEF PlaceRight, Driving, StageRight, Live

LEMMA CreateStep ==
    ASSUME IInv, NEW p \in Procs, NEW r \in Runs, Create(p, r) PROVE IInv'
<1>1. PICK next \in {"context_running", "failed"} :
          proc' = [proc EXCEPT ![p] = [Idle EXCEPT !.at = "decide", !.run = r, !.next = next]]
  BY DEF Create, Goto
<1> DEFINE x == [Idle EXCEPT !.at = "decide", !.run = r, !.next = next]
<1>2. next \in Statuses /\ Needed(next) = {}
  BY Names, NeededOf DEF Statuses, Live, Terminal
<1>3. x \in ProcState /\ x.at = "decide" /\ x.run = r /\ x.next = next
  BY <1>2, IdleState DEF ProcState, Places
<1> HIDE DEF x
<1>4. /\ proc' = [proc EXCEPT ![p] = x] /\ proc[p].at = "idle"
      /\ status[r] = "none" /\ status' = [status EXCEPT ![r] = "created"]
      /\ UNCHANGED <<log, approved, file, summary, temporary, lock, old, implemented, sides, stops>>
  BY <1>1 DEF Create, Exists, x
<1>5. Types
  BY DEF IInv
<1>6. Types'
  BY <1>3, <1>4, <1>5, Names DEF Types, Statuses, Live
<1>7. Forward
  BY <1>4, <1>5 DEF Forward, Types, Terminal
<1>8. \A q \in Procs : Driving(q) => proc[q].run # r
  BY <1>4, DrivenLive DEF Live
<1>9. proc'[p] = x /\ OthersKept(p)
  BY <1>4, <1>5, <1>8 DEF OthersKept, Types
<1>10. LockedAt(p)' /\ LockMove(p)
  BY <1>3, <1>4, <1>9, NoneRight DEF Holding
<1>11. status'[r] = "created"
  BY <1>4, <1>5 DEF Types
<1>12. PlaceRight(p)'
  BY <1>2, <1>3, <1>9, <1>11, Names DEF PlaceRight, Passed, Live
<1>13. OwnRight(p)
  BY <1>3, <1>8, <1>9, <1>10, <1>12 DEF OwnRight
<1>14. log[r] = << >> /\ log[r] # Gone /\ Orphans(r) = {} /\ Orphans(r)' = {}
  <2>1. log[r] = << >>
    BY <1>4 DEF IInv, LogRight
  <2>2. Len(log[r]) = 0 /\ log'[r] = log[r] /\ 1..0 = {}
    BY <1>4, <2>1
  <2>3. Orphans(r) = {}
    BY <2>2 DEF Orphans
  <2>4. Orphans(r)' = {}
    BY <2>2 DEF Orphans
  <2> QED
    BY <2>1, <2>3, <2>4 DEF Gone
<1>15. \A s \in Runs : Orphans(s)' = Orphans(s)
  <2> SUFFICES ASSUME NEW s \in Runs PROVE Orphans(s)' = Orphans(s)
    OBVIOUS
  <2>1. CASE s = r
    BY <1>14, <2>1
  <2>2. CASE s # r
    BY <1>4, <1>5, <2>2 DEF Orphans, Followed, Types
  <2> QED
    BY <2>1, <2>2
<1>16. Counted'
  <2>1. AllOrphans' \subseteq AllOrphans /\ stops \in Nat
    BY <1>5, <1>15 DEF AllOrphans, Types
  <2> QED
    BY <1>3, <1>4, <1>9, <2>1, CountKept DEF OthersKept
<1>17. ASSUME NEW s \in Runs PROVE RunRight(s)' /\ LogRight(s)'
  <2>1. RunRight(s) /\ LogRight(s)
    BY DEF IInv
  <2>2. CASE s = r
    <3>1. Needed("created") = {}
      BY NeededOf
    <3>2. implemented[r] = 0
      BY <1>4, <2>1, <2>2 DEF RunRight, Unimplemented
    <3>3. RunRight(r)'
      BY <1>4, <1>11, <1>14, <3>1, <3>2 DEF RunRight, Passed, Implemented
    <3>4. LogRight(r)'
      BY <1>4, <1>11, <1>14, <1>15 DEF LogRight
    <3> QED
      BY <2>2, <3>3, <3>4
  <2>3. CASE s # r
    <3>1. status'[s] = status[s]
      BY <1>4, <1>5, <2>3 DEF Types
    <3>2. IsCompacted(s) => IsCompacted(s)'
      BY <1>4, <1>7, CompactableStays DEF IsCompacted
    <3>3. RunRight(s)'
      BY <1>4, <2>1, <3>1, <3>2 DEF RunRight, Passed, Needed
    <3>4. LogRight(s)'
      BY <1>4, <1>15, <2>1, <3>1 DEF LogRight, Followed
    <3> QED
      BY <3>3, <3>4
  <2> QED
    BY <2>2, <2>3
<1> QED
  BY <1>4, <1>6, <1>7, <1>9, <1>10, <1>13, <1>16, <1>17, OneStep

\* A run that waits for its authorization, its lock free, has no driver.
LEMMA NoDriver ==
    ASSUME IInv, NEW r \in Runs, status[r] = "awaiting_authorization", Free(r),
           NEW q \in Procs, Driving(q)
    PROVE  proc[q].run # r
<1> SUFFICES ASSUME proc[q].run = r PROVE FALSE
  OBVIOUS
<1>1. PlaceRight(q) /\ LockedAt(q) /\ <<q, r>> \notin lock
  BY DEF IInv, Free
<1>2. proc[q].at \notin {"replace", "approved"}
  BY <1>1 DEF LockedAt, Holding
<1> QED
  BY <1>1, <1>2, StageFacts, Names DEF PlaceRight, Driving, StageRight

LEMMA AuthorizeStep ==
    ASSUME IInv, NEW p \in Procs, NEW r \in Runs, Authorize(p, r) PROVE IInv'
<1> DEFINE x == [Idle EXCEPT !.at = "approved", !.run = r, !.next = "implementation_running"]
<1>1. x \in ProcState /\ x.at = "approved" /\ x.run = r /\ x.next = "implementation_running"
  BY Names, IdleState DEF ProcState, Places, Statuses, Live
<1> HIDE DEF x
<1>2. /\ proc' = [proc EXCEPT ![p] = x] /\ proc[p].at = "idle"
      /\ status[r] = "awaiting_authorization" /\ Take(p, r) /\ Free(r)
      /\ approved' = approved \union {r}
      /\ UNCHANGED <<status, log, file, summary, temporary, old, implemented, sides, stops>>
  BY DEF Authorize, MayAuthorize, Goto, Take, x
<1>3. Types
  BY DEF IInv
<1>4. proc'[p] = x /\ OthersKept(p)
  BY <1>2, <1>3 DEF OthersKept, Types
<1>5. LockedAt(p)' /\ LockMove(p)
  BY <1>1, <1>2, <1>4, TakenRight DEF Holding
<1>6. Types'
  BY <1>1, <1>2, <1>3, <1>5, LockMoved DEF Types
<1>7. Forward
  BY <1>2, <1>3 DEF Forward, Types
<1>8. PlaceRight(p)'
  BY <1>1, <1>2, <1>4 DEF PlaceRight
<1>9. OwnRight(p)
  BY <1>1, <1>2, <1>4, <1>5, <1>8, NoDriver DEF OwnRight
<1>10. \A s \in Runs : RunRight(s)' /\ LogRight(s)' /\ Counted'
  BY <1>1, <1>2, <1>7, SameHistory
<1> QED
  BY <1>2, <1>4, <1>5, <1>6, <1>7, <1>9, <1>10, OneStep

\* An artifact is written under the lock of its run.
LEMMA ArtifactStep ==
    ASSUME IInv, NEW p \in Procs, NEW r \in Runs, NEW f \in Files, NEW shows \in Shows,
           NEW x, x \in ProcState, x.at = "written", x.run = r,
           proc' = [proc EXCEPT ![p] = x], Take(p, r),
           file' = [file EXCEPT ![r][f] = shows],
           UNCHANGED <<status, log, approved, summary, temporary, old, implemented, stops>>,
           sides' \in Nat, sides' + stops <= MaxDisturbed,
           PlaceRight(p)',
           IF f \in GateFiles
           THEN Driving(p) /\ proc[p].run = r /\ f \notin Needed(status[r])
                /\ proc[p].at \in {"run", "decide"}
           ELSE proc[p].at \in {"idle", "write"} /\ x.stage \notin Stages
    PROVE  IInv'
<1>1. Types
  BY DEF IInv
<1>2. proc'[p] = x /\ \A q \in Procs \ {p} : proc'[q] = proc[q]
  BY <1>1 DEF Types
<1>3. \A s \in Runs, g \in Files : s # r \/ g # f => file'[s][g] = file[s][g]
  BY <1>1 DEF Types
<1>4. \A q \in Procs \ {p} : Driving(q) => proc[q].run \in Runs
  BY DEF IInv, PlaceRight, Driving
<1>5. OthersKept(p)
  <2> SUFFICES ASSUME NEW q \in Procs \ {p}, Driving(q), NEW g \in GateFiles
               PROVE  file'[proc[q].run][g] = file[proc[q].run][g]
    BY <1>2 DEF OthersKept
  <2>1. f \in GateFiles => proc[q].run # r
    BY DEF IInv, OneDriver
  <2> QED
    BY <1>3, <1>4, <2>1, FileNames
<1>6. proc[p].at \notin Holding
  BY DEF Holding
<1>7. LockedAt(p)' /\ LockMove(p)
  BY <1>2, <1>6, TakenRight DEF Holding
<1>8. Types'
  BY <1>1, <1>7, LockMoved DEF Types
<1>9. Forward
  BY <1>1 DEF Forward, Types
<1>10. OwnRight(p)
  <2>1. ASSUME Driving(p)', NEW q \in Procs \ {p}, Driving(q) PROVE proc[q].run # proc'[p].run
    <3>1. f \in GateFiles
      BY <1>2, <2>1, Names DEF Driving
    <3> QED
      BY <1>2, <2>1, <3>1 DEF IInv, OneDriver
  <2> QED
    BY <1>7, <2>1 DEF OwnRight
<1>11. \A s \in Runs : RunRight(s)' /\ LogRight(s)' /\ Counted'
  <2> SUFFICES ASSUME NEW s \in Runs PROVE RunRight(s)' /\ LogRight(s)' /\ Counted'
    OBVIOUS
  <2>1. Needed(status[s]) \subseteq GateFiles
    BY <1>1, NeededOf DEF Types
  <2>2. \A g \in Needed(status[s]) : file'[s][g] = file[s][g]
    BY <1>3, <2>1, FileNames
  <2> QED
    BY <1>9, <2>2, SameHistory
<1> QED
  BY <1>2, <1>5, <1>7, <1>8, <1>9, <1>10, <1>11, OneStep

LEMMA ExecuteStep == ASSUME IInv, NEW p \in Procs, Execute(p) PROVE IInv'
<1> DEFINE s == proc[p].stage
           r == proc[p].run
<1>1. PICK next \in {Stage[s].pass} \union Stage[s].fail :
          /\ WriteArtifact(p, ShowsOf(s, next))
          /\ Goto(p, [proc[p] EXCEPT !.at = "written", !.next = next])
  BY DEF Execute
<1> DEFINE x == [proc[p] EXCEPT !.at = "written", !.next = next]
<1>2. proc[p].at = "run" /\ r \in Runs /\ s \in DOMAIN Stage /\ status[r] = StatusAt[s]
      /\ StageRight(s)
  BY StillFacts, StageFacts, Names DEF Execute, PlaceRight
<1>3. next \in Statuses \union {"acceptance"}
  BY <1>2, NeededOf DEF StageRight, Statuses, Terminal
<1>4. x \in ProcState /\ x.at = "written" /\ x.run = r /\ x.stage = s /\ x.next = next
  BY <1>3, StillFacts DEF ProcState, Places
<1>5. proc' = [proc EXCEPT ![p] = x]
  BY <1>1 DEF Goto
<1> HIDE DEF x
<1> DEFINE f == Stage[s].writes
           shows == ShowsOf(s, next)
<1>6. /\ Take(p, r) /\ file' = [file EXCEPT ![r][f] = shows]
      /\ UNCHANGED <<status, log, approved, summary, temporary, old, implemented, sides, stops>>
  BY <1>1, <1>2 DEF WriteArtifact, FileOf
<1>7. f \in GateFiles /\ f \in Files /\ f \notin Needed(status[r]) /\ shows \in Shows
  BY <1>2, FileNames DEF StageRight, ShowsOf, Shows
<1>8. proc'[p] = x /\ file'[r][f] = shows
  BY <1>5, <1>6, <1>2, <1>7, StillFacts DEF Types
<1>9. PlaceRight(p)'
  <2>1. proc'[p].run = r /\ proc'[p].stage = s /\ proc'[p].next = next
        /\ status'[r] = StatusAt[s] /\ file'[r][Stage[s].writes] = ShowsOf(s, next)
    BY <1>2, <1>4, <1>6, <1>8
  <2> HIDE DEF s, r, f, shows
  <2>2. proc'[p].at = "written" /\ next \in {Stage[s].pass} \union Stage[s].fail
    BY <1>4, <1>8
  <2>3. s \in DOMAIN Stage /\ r \in Runs
    BY <1>2
  <2> QED
    BY <2>1, <2>2, <2>3 DEF PlaceRight
<1>10. Driving(p)
  BY <1>2 DEF Driving
<1>11. sides' \in Nat /\ sides' + stops <= MaxDisturbed /\ stops' = stops
  BY <1>6, StillFacts
<1> HIDE DEF s, r, f, shows
<1> QED
  BY <1>2, <1>4, <1>5, <1>6, <1>7, <1>9, <1>10, <1>11, ArtifactStep DEF r

LEMMA WriteBesideStep == ASSUME IInv, NEW p \in Procs, WriteBeside(p) PROVE IInv'
<1> DEFINE x == [proc[p] EXCEPT !.at = "written"]
           r == proc[p].run
           f == proc[p].stage
           shows == proc[p].shows
<1>1. proc[p].at = "write" /\ r \in Runs /\ f \in Sides /\ proc[p].next = "none"
  BY StillFacts DEF WriteBeside, PlaceRight
<1>2. x \in ProcState /\ x.at = "written" /\ x.run = r /\ x.stage = f /\ x.next = "none"
      /\ shows \in Shows
  BY <1>1, StillFacts DEF ProcState, Places
<1>3. f \in Files /\ f \notin GateFiles /\ f \notin Stages /\ f \notin DOMAIN Stage
  BY <1>1, FileNames, Names
<1>4. /\ proc' = [proc EXCEPT ![p] = x] /\ Take(p, r)
      /\ file' = [file EXCEPT ![r][f] = shows]
      /\ UNCHANGED <<status, log, approved, summary, temporary, old, implemented, sides, stops>>
  BY <1>3 DEF WriteBeside, WriteArtifact, FileOf, Goto
<1> HIDE DEF x
<1>5. proc'[p] = x
  BY <1>4, StillFacts DEF Types
<1>6. PlaceRight(p)'
  BY <1>1, <1>2, <1>3, <1>5 DEF PlaceRight
<1>7. sides' \in Nat /\ sides' + stops <= MaxDisturbed /\ stops' = stops
  BY <1>4, StillFacts
<1> HIDE DEF r, f, shows
<1> QED
  BY <1>1, <1>2, <1>3, <1>4, <1>6, <1>7, ArtifactStep

LEMMA WriteEvidenceStep ==
    ASSUME IInv, NEW p \in Procs, NEW r \in Runs, WriteEvidence(p, r) PROVE IInv'
<1> DEFINE x == [Idle EXCEPT !.at = "written", !.run = r, !.stage = "evidence", !.shows = "pass"]
<1>1. "evidence" \in Sides /\ "evidence" \in Files /\ "pass" \in Shows
  BY FileNames DEF Sides, Shows
<1>2. x \in ProcState /\ x.at = "written" /\ x.run = r /\ x.stage = "evidence" /\ x.next = "none"
  BY <1>1, IdleState DEF ProcState, Places, Idle
<1> HIDE DEF x
<1>3. /\ proc' = [proc EXCEPT ![p] = x] /\ Take(p, r) /\ proc[p].at = "idle"
      /\ file' = [file EXCEPT ![r]["evidence"] = "pass"]
      /\ UNCHANGED <<status, log, approved, summary, temporary, old, implemented, stops>>
      /\ sides + stops < MaxDisturbed /\ sides' = sides + 1
  BY DEF WriteEvidence, Beside, Goto, x
<1>4. "evidence" \notin GateFiles /\ "evidence" \notin Stages /\ "evidence" \notin DOMAIN Stage
  BY <1>1, FileNames, Names
<1>5. proc'[p] = x
  BY <1>3, StillFacts DEF Types
<1>6. PlaceRight(p)'
  BY <1>1, <1>2, <1>4, <1>5 DEF PlaceRight
<1>7. sides' \in Nat /\ sides' + stops <= MaxDisturbed
  BY <1>3, StillFacts, WorkflowAssumption
<1> QED
  BY <1>1, <1>2, <1>3, <1>4, <1>6, <1>7, ArtifactStep

LEMMA SummariseStep == ASSUME IInv, NEW p \in Procs, Summarise(p) PROVE IInv'
<1>0. PICK r \in Runs : r = proc[p].run
  BY StillFacts DEF Summarise, PlaceRight
<1> DEFINE x == [proc[p] EXCEPT !.at = "unlink"]
<1>1. x \in ProcState /\ x.at = "unlink" /\ x.run = r
  BY <1>0, StillFacts DEF ProcState, Places
<1> HIDE DEF x
<1>2. /\ proc' = [proc EXCEPT ![p] = x] /\ proc[p].at = "summary" /\ lock' = lock
      /\ summary' = summary \union {r} /\ temporary' = temporary \ {r}
      /\ UNCHANGED <<status, log, approved, file, old, implemented, sides, stops>>
  BY <1>0 DEF Summarise, Goto, x
<1>3. Types /\ Compactable(r)
  BY <1>0, <1>2, StillFacts DEF PlaceRight
<1>4. proc'[p] = x /\ OthersKept(p)
  BY <1>2, <1>3 DEF OthersKept, Types
<1>5. LockedAt(p)' /\ LockMove(p)
  BY <1>0, <1>1, <1>2, <1>4, KeptRight DEF Holding
<1>6. Types'
  BY <1>1, <1>2, <1>3 DEF Types
<1>7. Forward
  BY <1>2, <1>3 DEF Forward, Types
<1>8. Compactable(r)'
  BY <1>3, <1>7, CompactableStays
<1>9. PlaceRight(p)' /\ ~Driving(p)'
  BY <1>1, <1>2, <1>3, <1>4, <1>8 DEF PlaceRight, Driving
<1>10. \A s \in Runs : RunRight(s)' /\ LogRight(s)' /\ Counted'
  BY <1>1, <1>2, <1>7, SameHistory
<1> QED
  BY <1>2, <1>4, <1>5, <1>6, <1>7, <1>9, <1>10, OneStep DEF OwnRight

LEMMA UnlinkStep == ASSUME IInv, NEW p \in Procs, Unlink(p) PROVE IInv'
<1>1. PICK r \in Runs : r = proc[p].run
  BY StillFacts DEF Unlink, PlaceRight
<1>2. /\ proc[p].at = "unlink"
      /\ UNCHANGED <<status, approved, summary, temporary, lock, old, proc, implemented, sides, stops>>
      /\ \/ log' = [log EXCEPT ![r] = Gone] /\ UNCHANGED file
         \/ (\E f : file' = [file EXCEPT ![r][f] = "none"]) /\ UNCHANGED log
  BY <1>1 DEF Unlink
<1>3. Types /\ IsCompacted(r) /\ Compactable(r)
  BY <1>1, <1>2, StillFacts DEF PlaceRight, IsCompacted
<1>4. Types'
  <2>1. log' \in [Runs -> Seq(Event) \union {Gone}]
    BY <1>2, <1>3 DEF Types
  <2>2. file' \in [Runs -> [Files -> Shows]]
    <3>1. CASE UNCHANGED file
      BY <1>3, <3>1 DEF Types
    <3>2. CASE \E f : file' = [file EXCEPT ![r][f] = "none"]
      <4>1. PICK f : file' = [file EXCEPT ![r] = [file[r] EXCEPT ![f] = "none"]]
        BY <3>2
      <4>2. [file[r] EXCEPT ![f] = "none"] \in [Files -> Shows]
        BY <1>3 DEF Types, Shows
      <4> QED
        BY <1>3, <4>1, <4>2 DEF Types
    <3> QED
      BY <1>2, <3>1, <3>2
  <2> QED
    BY <1>2, <1>3, <2>1, <2>2 DEF Types
<1>5. Forward
  BY <1>2, <1>3 DEF Forward, Types
<1>6. Compactable(r)' /\ IsCompacted(r)'
  BY <1>2, <1>3, <1>5, CompactableStays DEF IsCompacted
<1>7. \A s \in Runs \ {r} : log'[s] = log[s] /\ file'[s] = file[s]
  BY <1>2, <1>3 DEF Types
<1>8. OthersKept(p)
  <2>1. \A q \in Procs : Driving(q) => proc[q].run \in Runs \ {r}
    BY <1>3, DrivenLive DEF Compactable, Live
  <2> QED
    BY <1>2, <1>7, <2>1 DEF OthersKept
<1>9. LockedAt(p)' /\ LockMove(p)
  BY <1>2, KeptRight DEF Holding
<1>10. PlaceRight(p)' /\ ~Driving(p)'
  BY <1>1, <1>2, <1>3, <1>6 DEF PlaceRight, Driving, IsCompacted
<1>11. /\ Orphans(r)' \subseteq Orphans(r)
       /\ \A s \in Runs \ {r} : Orphans(s)' = Orphans(s)
       /\ \A s \in Runs, i \in Nat : log'[s] # Gone => Followed(s, i)' = Followed(s, i)
  <2>1. \A s \in Runs : log'[s] = log[s] \/ (s = r /\ log'[s] = Gone)
    BY <1>2, <1>3 DEF Types
  <2>2. \A s \in Runs, i \in Nat : log'[s] # Gone => Followed(s, i)' = Followed(s, i)
    BY <1>2, <2>1 DEF Followed
  <2>3. \A s \in Runs : Orphans(s)' \subseteq Orphans(s)
    BY <1>2, <2>1 DEF Orphans, Followed
  <2>4. \A s \in Runs \ {r} : Orphans(s)' = Orphans(s)
    BY <1>2, <1>7 DEF Orphans, Followed
  <2> QED
    BY <2>2, <2>3, <2>4
<1>12. Counted'
  <2>1. AllOrphans' \subseteq AllOrphans /\ stops \in Nat
    BY <1>3, <1>11 DEF AllOrphans, Types
  <2> QED
    BY <1>2, <2>1, CountKept
<1>13. ASSUME NEW s \in Runs PROVE RunRight(s)' /\ LogRight(s)'
  <2>1. RunRight(s) /\ LogRight(s)
    BY DEF IInv
  <2>2. CASE s = r
    <3>1. RunRight(r)'
      BY <1>2, <1>6, <2>1, <2>2 DEF RunRight
    <3>2. CASE log'[r] = Gone
      BY <1>2, <1>3, <2>2, <3>1, <3>2 DEF LogRight, Compactable
    <3>3. CASE log'[r] = log[r]
      <4>1. Orphans(r)' = Orphans(r)
        BY <1>2, <3>3 DEF Orphans, Followed
      <4> QED
        BY <1>2, <2>1, <2>2, <3>1, <3>3, <4>1 DEF LogRight, Followed
    <3> QED
      BY <1>2, <1>3, <3>2, <3>3 DEF Types
  <2>3. CASE s # r
    <3>1. IsCompacted(s) => IsCompacted(s)'
      BY <1>2, <1>5, CompactableStays DEF IsCompacted
    <3>2. RunRight(s)'
      BY <1>2, <1>7, <2>1, <2>3, <3>1 DEF RunRight, Passed, Needed
    <3>3. LogRight(s)'
      BY <1>2, <1>7, <1>11, <2>1, <2>3 DEF LogRight, Followed
    <3> QED
      BY <3>2, <3>3
  <2> QED
    BY <2>2, <2>3
<1> QED
  BY <1>2, <1>4, <1>5, <1>8, <1>9, <1>10, <1>12, <1>13, OneStep DEF OwnRight

\* Ageing, or nothing at all.
LEMMA AgeStep ==
    ASSUME IInv, UNCHANGED <<runFiles, lock, proc, implemented, sides, stops>>,
           old \subseteq old', old' \subseteq Runs
    PROVE  IInv'
<1> USE DEF runFiles
<1>1. Types /\ Types'
  BY DEF IInv, Types
<1>2. Forward
  BY <1>1 DEF Forward, Types
<1>3. OneHolder' /\ OneDriver'
  BY DEF IInv, OneHolder, OneDriver, Driving
<1>4. ASSUME NEW q \in Procs PROVE LockedAt(q)' /\ PlaceRight(q)'
  <2>1. LockedAt(q) /\ PlaceRight(q)
    BY DEF IInv
  <2>2. LockedAt(q)'
    BY <2>1 DEF LockedAt
  <2>3. proc[q].at \in {"summary", "unlink"} => Compactable(proc[q].run)'
    BY <1>2, <2>1, CompactableStays DEF PlaceRight
  <2>4. PlaceRight(q)'
    BY <2>1, <2>3 DEF PlaceRight, Passed, Needed
  <2> QED
    BY <2>2, <2>4
<1>5. ASSUME NEW r \in Runs PROVE RunRight(r)' /\ LogRight(r)'
  <2>1. RunRight(r) /\ LogRight(r)
    BY DEF IInv
  <2>2. IsCompacted(r) => IsCompacted(r)'
    BY <1>2, CompactableStays DEF IsCompacted
  <2>3. RunRight(r)'
    BY <2>1, <2>2 DEF RunRight, Passed, Needed
  <2>4. LogRight(r)'
    BY <2>1 DEF LogRight, Orphans, Followed
  <2> QED
    BY <2>3, <2>4
<1>6. Counted'
  <2>1. AllOrphans' = AllOrphans /\ Replacing' = Replacing
    BY OrphansKept DEF Replacing
  <2> QED
    BY <2>1 DEF IInv, Counted
<1> QED
  BY <1>1, <1>3, <1>4, <1>5, <1>6 DEF IInv

-----------------------------------------------------------------------------
(* The events, and the statuses that follow them *)

\* An event of a run that goes on becomes the run's one new orphan, until the
\* status follows.
LEMMA EventStep ==
    ASSUME IInv, NEW p \in Procs, NEW r \in Runs, NEW to, Legal(status[r], to), Passed(r, to),
           to = "implementation_running" => r \in approved,
           log' = [log EXCEPT ![r] = Append(@, <<status[r], to>>)],
           UNCHANGED <<status, approved, file, summary, temporary, old, implemented, sides, stops>>,
           NEW x, x \in ProcState, x.at = "replace", x.run = r, x.next = to,
           proc' = [proc EXCEPT ![p] = x], proc[p].at # "replace",
           LockedAt(p)', LockMove(p),
           \A q \in Procs \ {p} : Driving(q) => proc[q].run # r
    PROVE  IInv'
<1>1. Types /\ RunRight(r) /\ LogRight(r)
  BY DEF IInv
<1>2. status[r] \in Live /\ status[r] # "none" /\ status[r] \notin Terminal /\ status[r] # to
      /\ to \in Statuses
  BY LegalFacts DEF Live
<1>3. log[r] # Gone /\ log[r] \in Seq(Event)
  BY <1>1, <1>2 DEF RunRight, IsCompacted, Compactable, Terminal, Types
<1> DEFINE s == log[r]
           e == <<status[r], to>>
<1>0. PICK n \in Nat : n = Len(s)
  BY <1>3, LenProperties
<1>4. e \in Event
  BY <1>1, <1>2, Names DEF Event, Types, Statuses
<1>5. /\ log'[r] = Append(s, e) /\ log'[r] \in Seq(Event) /\ Len(log'[r]) = n + 1
      /\ \A i \in 1..n : log'[r][i] = s[i]
      /\ log'[r][n + 1] = e /\ log'[r] # << >>
  <2>1. log'[r] = Append(s, e)
    BY <1>1 DEF Types
  <2> HIDE DEF s, e
  <2>2. s \in Seq(Event) /\ n = Len(s)
    BY <1>0, <1>3 DEF s
  <2>3. /\ Append(s, e) \in Seq(Event) /\ Append(s, e) # << >> /\ Len(Append(s, e)) = n + 1
        /\ \A i \in 1..n : Append(s, e)[i] = s[i]
        /\ Append(s, e)[n + 1] = e
    BY <1>4, <2>2, AppendProperties
  <2> QED
    BY <2>1, <2>2, <2>3
<1>6. log'[r] # Gone /\ log'[r] # << >>
  <2> HIDE DEF s, e
  <2> QED
    BY <1>5, GoneNotLog
<1>7. \A t \in Runs \ {r} : log'[t] = log[t]
  BY <1>1 DEF Types
<1>8. proc'[p] = x /\ OthersKept(p) /\ \A q \in Procs \ {p} : proc'[q] = proc[q]
  <2>1. \A q \in Procs \ {p} : Driving(q) => proc[q].run \in Runs \ {r}
    BY DrivenLive
  <2> QED
    BY <1>1, <1>7, <2>1 DEF OthersKept, Types
<1>9. Types'
  <2>1. log' \in [Runs -> Seq(Event) \union {Gone}]
    BY <1>1, <1>5 DEF Types
  <2> QED
    BY <1>1, <2>1, LockMoved DEF Types
<1>10. Forward
  BY <1>1 DEF Forward, Types
<1>11. OwnRight(p)
  <2>1. log'[r][Len(log'[r])] = <<status'[r], to>>
    BY <1>5
  <2>2. Passed(r, to)' /\ Legal(status[r], to)'
    BY DEF Passed, Needed, Legal
  <2> HIDE DEF s, e
  <2>3. PlaceRight(p)'
    BY <1>6, <1>8, <2>1, <2>2 DEF PlaceRight
  <2> QED
    BY <1>8, <2>3 DEF OwnRight
<1>12. /\ \A i \in 1..n : Followed(r, i)' = Followed(r, i)
       /\ Followed(r, n + 1)' = status[r]
  <2>1. \A i \in 1..n : Followed(r, i)' = Followed(r, i)
    <3> SUFFICES ASSUME NEW i \in 1..n PROVE Followed(r, i)' = Followed(r, i)
      OBVIOUS
    <3>1. CASE i < n
      BY <1>0, <1>5, <3>1 DEF Followed
    <3>2. CASE i = n
      BY <1>0, <1>5, <3>2 DEF Followed
    <3> QED
      BY <1>5, <3>1, <3>2
  <2>2. Followed(r, n + 1)' = status[r]
    BY <1>5 DEF Followed
  <2> QED
    BY <2>1, <2>2
<1>13. Orphans(r)' = Orphans(r) \union {n + 1}
  <2>1. Orphans(r)' = {i \in 1..(n + 1) : Followed(r, i)' # log'[r][i][2]}
    BY <1>5, <1>6 DEF Orphans
  <2>2. Orphans(r) = {i \in 1..n : Followed(r, i) # s[i][2]}
    BY <1>0, <1>3 DEF Orphans
  <2>3. 1..(n + 1) = (1..n) \union {n + 1}
    BY <1>5
  <2>4. Followed(r, n + 1)' # log'[r][n + 1][2]
    BY <1>2, <1>5, <1>12
  <2>5. \A i \in 1..n : Followed(r, i)' # log'[r][i][2] <=> Followed(r, i) # s[i][2]
    BY <1>5, <1>12
  <2>6. ASSUME NEW i PROVE i \in Orphans(r)' <=> i \in Orphans(r) \/ i = n + 1
    <3> HIDE DEF s, e
    <3>1. CASE i \in 1..n
      BY <2>1, <2>2, <2>3, <2>5, <3>1, <1>5
    <3>2. CASE i = n + 1
      BY <2>1, <2>3, <2>4, <3>2
    <3>3. CASE i \notin (1..n) \union {n + 1}
      BY <2>1, <2>2, <2>3, <3>3
    <3> QED
      BY <3>1, <3>2, <3>3
  <2> HIDE DEF s, e
  <2> QED
    BY <2>6
<1>14. \A t \in Runs \ {r} : Orphans(t)' = Orphans(t) /\ \A i \in Nat : Followed(t, i)' = Followed(t, i)
  BY <1>7 DEF Orphans, Followed
<1>15. Counted'
  <2>1. AllOrphans' = AllOrphans \union {<<r, n + 1>>}
    BY <1>13, <1>14 DEF AllOrphans
  <2>2. stops \in Nat
    BY <1>1 DEF Types
  <2> QED
    BY <1>8, <2>1, <2>2, CountKept
<1>16. ASSUME NEW t \in Runs PROVE RunRight(t)' /\ LogRight(t)'
  <2>1. RunRight(t) /\ LogRight(t)
    BY DEF IInv
  <2>2. IsCompacted(t) => IsCompacted(t)'
    BY <1>10, CompactableStays DEF IsCompacted
  <2>3. RunRight(t)'
    BY <1>6, <1>7, <2>1, <2>2 DEF RunRight, Passed, Needed
  <2>4. CASE t = r
    <3>1. log'[r][1][1] = "created"
      <4>1. CASE log[r] = << >>
        BY <1>0, <1>1, <1>2, <1>3, <1>5, <4>1 DEF LogRight
      <4>2. CASE log[r] # << >>
        <5>1. n # 0
          BY <1>0, <1>3, <4>2, EmptySeq
        <5> QED
          BY <1>0, <1>1, <1>3, <1>5, <4>2, <5>1 DEF LogRight
      <4> QED
        BY <4>1, <4>2
    <3>2. \A i \in Orphans(r)' : Followed(r, i)' = log'[r][i][1]
      <4>1. \A i \in Orphans(r) : i \in 1..n /\ Followed(r, i) = s[i][1]
        BY <1>0, <1>1, <1>3 DEF LogRight, Orphans
      <4>2. Followed(r, n + 1)' = log'[r][n + 1][1]
        BY <1>5, <1>12
      <4> SUFFICES ASSUME NEW i \in Orphans(r)' PROVE Followed(r, i)' = log'[r][i][1]
        OBVIOUS
      <4>3. CASE i \in Orphans(r)
        <5>1. i \in 1..n /\ log'[r][i] = s[i] /\ Followed(r, i)' = Followed(r, i)
          BY <1>5, <1>12, <4>1, <4>3
        <5> QED
          BY <4>1, <4>3, <5>1
      <4>4. i \in Orphans(r) \/ i = n + 1
        BY <1>13
      <4> QED
        BY <4>2, <4>3, <4>4
    <3> QED
      BY <1>2, <1>6, <2>3, <2>4, <3>1, <3>2 DEF LogRight
  <2>5. CASE t # r
    <3>1. \A i \in Orphans(t) : i \in Nat
      BY DEF Orphans
    <3> QED
      BY <1>7, <1>14, <2>1, <2>3, <2>5, <3>1 DEF LogRight
  <2> QED
    BY <2>4, <2>5
<1> QED
  BY <1>8, <1>9, <1>10, <1>11, <1>15, <1>16, OneStep

\* A driver moves its run on, or records that the executor failed.
LEMMA TransitionStep ==
    ASSUME IInv, NEW p \in Procs, NEW to, Transition(p, to), proc[p].at \in {"run", "decide"},
           Passed(proc[p].run, to)
    PROVE  IInv'
<1>1. PlaceRight(p) /\ Driving(p) /\ proc[p] \in ProcState /\ Types
  BY StillFacts DEF Driving
<1>2. PICK r \in Runs : r = proc[p].run
  BY <1>1 DEF PlaceRight
<1> DEFINE x == [proc[p] EXCEPT !.at = "replace", !.next = to]
<1>3. /\ Legal(status[r], to) /\ Take(p, r)
      /\ log' = [log EXCEPT ![r] = Append(@, <<status[r], to>>)]
      /\ proc' = [proc EXCEPT ![p] = x]
      /\ UNCHANGED <<status, approved, file, summary, temporary, old, implemented, sides, stops>>
  BY <1>2 DEF Transition, Goto
<1>4. x \in ProcState /\ x.at = "replace" /\ x.run = r /\ x.next = to
  BY <1>1, <1>2, <1>3, LegalFacts DEF ProcState, Places
<1> HIDE DEF x
<1>5. proc'[p] = x
  BY <1>1, <1>3 DEF Types
<1>6. LockedAt(p)' /\ LockMove(p)
  BY <1>3, <1>4, <1>5, TakenRight DEF Holding
<1>7. \A q \in Procs \ {p} : Driving(q) => proc[q].run # r
  BY <1>1, <1>2 DEF IInv, OneDriver
<1>8. to # "implementation_running"
  BY <1>1, <1>2, <1>3, LegalFacts, StageFacts, Names DEF PlaceRight, StageRight
<1> QED
  BY <1>2, <1>3, <1>4, <1>6, <1>7, <1>8, EventStep

LEMMA DecideStep == ASSUME IInv, NEW p \in Procs, Decide(p) PROVE IInv'
BY StillFacts, TransitionStep DEF Decide, PlaceRight

LEMMA ExecuteFailsStep == ASSUME IInv, NEW p \in Procs, ExecuteFails(p) PROVE IInv'
<1> DEFINE error == Stage[proc[p].stage].error
<1>1. proc[p].at = "run" /\ error # "none" /\ Transition(p, error)
  BY DEF ExecuteFails
<1>2. error \in {"blocked", "failed"}
  BY <1>1, StillFacts, StageFacts, Names DEF PlaceRight, StageRight
<1>3. Passed(proc[p].run, error)
  BY <1>2, NeededOf DEF Passed
<1> HIDE DEF error
<1> QED
  BY <1>1, <1>3, TransitionStep

LEMMA RefuseApprovalStep ==
    ASSUME IInv, NEW p \in Procs, NEW r \in Runs, RefuseApproval(p, r) PROVE IInv'
<1> DEFINE x == [Idle EXCEPT !.at = "replace", !.run = r, !.next = "blocked"]
<1>1. x \in ProcState /\ x.at = "replace" /\ x.run = r /\ x.next = "blocked"
  BY IdleState DEF ProcState, Places, Statuses, Terminal
<1> HIDE DEF x
<1>2. /\ proc' = [proc EXCEPT ![p] = x] /\ proc[p].at = "idle"
      /\ status[r] = "awaiting_authorization" /\ Take(p, r) /\ Free(r)
      /\ log' = [log EXCEPT ![r] = Append(@, <<status[r], "blocked">>)]
      /\ UNCHANGED <<status, approved, file, summary, temporary, old, implemented, sides, stops>>
  BY DEF RefuseApproval, MayAuthorize, Goto, Take, x
<1>3. proc'[p] = x
  BY <1>2, StillFacts DEF Types
<1>4. LockedAt(p)' /\ LockMove(p)
  BY <1>1, <1>2, <1>3, TakenRight DEF Holding
<1>5. Legal(status[r], "blocked") /\ Passed(r, "blocked")
  BY <1>2, Names, NeededOf, TransitionsOf DEF Legal, Live, Passed
<1>6. \A q \in Procs \ {p} : Driving(q) => proc[q].run # r
  BY <1>2, NoDriver
<1> QED
  BY <1>1, <1>2, <1>4, <1>5, <1>6, EventStep

LEMMA ApprovedStep == ASSUME IInv, NEW p \in Procs, Approved(p) PROVE IInv'
<1>1. /\ proc[p].at = "approved" /\ PlaceRight(p) /\ LockedAt(p) /\ Driving(p)
      /\ proc[p] \in ProcState /\ Types
  BY StillFacts DEF Approved, Driving
<1>2. PICK r \in Runs : r = proc[p].run
  BY <1>1 DEF PlaceRight
<1> DEFINE x == [proc[p] EXCEPT !.at = "replace"]
           to == "implementation_running"
<1>3. status[r] = "awaiting_authorization" /\ proc[p].next = to /\ r \in approved
  BY <1>1, <1>2 DEF PlaceRight
<1>4. /\ log' = [log EXCEPT ![r] = Append(@, <<status[r], to>>)]
      /\ proc' = [proc EXCEPT ![p] = x] /\ lock' = lock
      /\ UNCHANGED <<status, approved, file, summary, temporary, old, implemented, sides, stops>>
  BY <1>2, <1>3 DEF Approved, Goto
<1>5. x \in ProcState /\ x.at = "replace" /\ x.run = r /\ x.next = to
  BY <1>1, <1>2, <1>3 DEF ProcState, Places
<1> HIDE DEF x
<1>6. proc'[p] = x
  BY <1>1, <1>4 DEF Types
<1>7. LockedAt(p)' /\ LockMove(p)
  BY <1>1, <1>2, <1>4, <1>5, <1>6, KeptRight DEF Holding
<1>8. \A q \in Procs \ {p} : Driving(q) => proc[q].run # r
  BY <1>1, <1>2 DEF IInv, OneDriver
<1>9. Legal(status[r], to)
  BY <1>3, Names, TransitionsOf DEF Legal, Live
<1>10. Passed(r, to)
  <2>1. RunRight(r) /\ ~IsCompacted(r)
    BY <1>3 DEF IInv, IsCompacted, Compactable
  <2> QED
    BY <1>3, <2>1, NeededOf DEF RunRight, Passed
<1> QED
  BY <1>1, <1>3, <1>4, <1>5, <1>7, <1>8, <1>9, <1>10, EventStep

\* The status follows its event, which is an orphan no more.
LEMMA ReplaceStep == ASSUME IInv, NEW p \in Procs, Replace(p) PROVE IInv'
<1>1. /\ proc[p].at = "replace" /\ PlaceRight(p) /\ Driving(p)
      /\ proc[p] \in ProcState /\ Types
  BY StillFacts DEF Replace, Driving
<1>2. PICK r \in Runs, to \in Statuses : r = proc[p].run /\ to = proc[p].next
  BY <1>1, LegalFacts DEF PlaceRight
<1>3. /\ Legal(status[r], to) /\ Passed(r, to) /\ (to = "implementation_running" => r \in approved)
      /\ log[r] # << >> /\ log[r][Len(log[r])] = <<status[r], to>>
  BY <1>1, <1>2 DEF PlaceRight
<1>4. /\ status' = [status EXCEPT ![r] = to] /\ Drop(p)
      /\ implemented' = [implemented EXCEPT
             ![r] = IF to = "implementation_running" THEN @ + 1 ELSE @]
      /\ proc' = [proc EXCEPT ![p] = AfterStatus(p, to)]
      /\ UNCHANGED <<log, approved, file, summary, temporary, old, sides, stops>>
  BY <1>2 DEF Replace, Goto
<1> DEFINE x == AfterStatus(p, to)
<1>5. /\ x \in ProcState /\ x.at \in {"run", "plan", "idle"}
      /\ x.at = "run" => x.run = r /\ x.stage \in DOMAIN Stage /\ StatusAt[x.stage] = to
  <2>1. CASE to \in DOMAIN FirstStage
    <3>1. FirstStage[to] \in DOMAIN Stage /\ StatusAt[FirstStage[to]] = to
      BY <2>1, FirstStageFacts, Names
    <3>2. x = [proc[p] EXCEPT !.at = "run", !.stage = FirstStage[to], !.next = "none"]
      BY <2>1 DEF AfterStatus
    <3> QED
      BY <1>1, <1>2, <3>1, <3>2 DEF ProcState, Places
  <2>2. CASE to \notin DOMAIN FirstStage /\ to = "awaiting_authorization"
    <3>1. x = [Idle EXCEPT !.at = "plan", !.todo = {s \in Runs : Exists(s)}]
      BY <2>2 DEF AfterStatus
    <3> QED
      BY <3>1, IdleState DEF ProcState, Places
  <2>3. CASE to \notin DOMAIN FirstStage /\ to # "awaiting_authorization"
    BY <2>3, IdleState DEF AfterStatus
  <2> QED
    BY <2>1, <2>2, <2>3
<1> HIDE DEF x
<1>6. proc'[p] = x /\ \A q \in Procs \ {p} : proc'[q] = proc[q]
  BY <1>1, <1>4 DEF x, Types
<1>7. status'[r] = to /\ \A s \in Runs \ {r} : status'[s] = status[s] /\ implemented'[s] = implemented[s]
  BY <1>1, <1>4 DEF Types
<1>8. status[r] \in Live /\ status[r] \notin Terminal /\ status[r] # to /\ to \notin {"none", "created"}
  BY <1>3, LegalFacts, Names DEF Statuses, Live, Terminal
<1>9. Forward
  BY <1>1, <1>4, <1>7, <1>8 DEF Forward, Types
<1>10. \A q \in Procs \ {p} : Driving(q) => proc[q].run \in Runs \ {r}
  BY <1>1, <1>2, DrivenLive DEF IInv, OneDriver
<1>11. OthersKept(p)
  BY <1>4, <1>6, <1>7, <1>10 DEF OthersKept
<1>12. LockedAt(p)' /\ LockMove(p)
  BY <1>4, <1>5, <1>6, NoneRight DEF Holding
<1>13. PlaceRight(p)'
  BY <1>5, <1>6, <1>7 DEF PlaceRight
<1>14. OwnRight(p)
  BY <1>5, <1>6, <1>10, <1>12, <1>13 DEF OwnRight, Driving
<1>15. Types'
  <2>1. implemented' \in [Runs -> Nat]
    BY <1>1, <1>4 DEF Types
  <2>2. status' \in [Runs -> Statuses \union {"none"}] /\ proc' \in [Procs -> ProcState]
    BY <1>1, <1>4, <1>5 DEF Types, x
  <2> QED
    BY <1>1, <1>4, <1>12, <2>1, <2>2, LockMoved DEF Types
<1>16. log[r] # Gone /\ log[r] \in Seq(Event)
  <2>1. RunRight(r)
    BY DEF IInv
  <2> QED
    BY <1>1, <1>8, <2>1 DEF RunRight, IsCompacted, Compactable, Terminal, Types
<1>17. PICK n \in Nat \ {0} : n = Len(log[r])
  BY <1>3, <1>16, EmptySeq
<1>18. /\ \A i \in 1..(n - 1) : Followed(r, i)' = Followed(r, i)
       /\ Followed(r, n)' = to /\ Followed(r, n) = status[r]
  BY <1>4, <1>7, <1>17 DEF Followed
<1>19. n \in Orphans(r) /\ Orphans(r)' = Orphans(r) \ {n}
  <2>1. Orphans(r) = {i \in 1..n : Followed(r, i) # log[r][i][2]}
    BY <1>16, <1>17 DEF Orphans
  <2>2. Orphans(r)' = {i \in 1..n : Followed(r, i)' # log[r][i][2]}
    BY <1>4, <1>16, <1>17 DEF Orphans
  <2>3. log[r][n][2] = to
    BY <1>3, <1>17
  <2>4. ASSUME NEW i PROVE i \in Orphans(r)' <=> i \in Orphans(r) /\ i # n
    <3>1. CASE i \in 1..(n - 1)
      BY <1>18, <2>1, <2>2, <3>1
    <3>2. CASE i = n
      BY <1>18, <2>2, <2>3, <3>2
    <3>3. CASE i \notin 1..n
      BY <2>1, <2>2, <3>3
    <3> QED
      BY <3>1, <3>2, <3>3
  <2>5. n \in Orphans(r)
    BY <1>8, <1>18, <2>1, <2>3
  <2> QED
    BY <2>4, <2>5
<1>20. \A s \in Runs \ {r} : Orphans(s)' = Orphans(s) /\ \A i \in Nat : Followed(s, i)' = Followed(s, i)
  BY <1>4, <1>7 DEF Orphans, Followed
<1>21. Counted'
  <2>1. AllOrphans' = AllOrphans \ {<<r, n>>} /\ <<r, n>> \in AllOrphans
    BY <1>19, <1>20 DEF AllOrphans
  <2>2. stops \in Nat /\ stops' = stops /\ proc'[p].at # "replace"
    BY <1>1, <1>4, <1>5, <1>6 DEF Types
  <2> QED
    BY <1>1, <1>6, <2>1, <2>2, CountKept
<1>22. RunRight(r)'
  <2>1. RunRight(r) /\ implemented'[r] = IF to = "implementation_running" THEN implemented[r] + 1
                                                                        ELSE implemented[r]
    BY <1>1, <1>4 DEF IInv, Types
  <2>2. Passed(r, status[r])'
    BY <1>3, <1>4, <1>7 DEF Passed, Needed
  <2>3. log'[r] # Gone
    BY <1>4, <1>16
  <2>4. CASE to = "implementation_running"
    <3>1. implemented[r] = 0 /\ r \in approved
      BY <1>3, <2>1, <2>4, LegalFacts DEF RunRight, Unimplemented
    <3> QED
      BY <1>4, <1>7, <2>1, <2>2, <2>3, <2>4, <3>1 DEF RunRight, Unimplemented
  <2>5. CASE to # "implementation_running"
    <3>1. /\ to \in Unimplemented => status[r] \in Unimplemented
          /\ to \in Implemented => status[r] \in Implemented
      BY <1>3, <2>5, LegalFacts
    <3> QED
      BY <1>4, <1>7, <2>1, <2>2, <2>3, <2>5, <3>1 DEF RunRight
  <2> QED
    BY <2>4, <2>5
<1>23. LogRight(r)'
  <2>1. LogRight(r) /\ log'[r] = log[r]
    BY <1>4 DEF IInv
  <2>2. \A i \in Orphans(r)' : Followed(r, i)' = log[r][i][1]
    <3> SUFFICES ASSUME NEW i \in Orphans(r)' PROVE Followed(r, i)' = log[r][i][1]
      OBVIOUS
    <3>1. i \in Orphans(r) /\ i \in 1..(n - 1)
      BY <1>16, <1>17, <1>19 DEF Orphans
    <3> QED
      BY <1>16, <1>18, <2>1, <3>1 DEF LogRight
  <2> QED
    BY <1>3, <1>7, <1>8, <1>16, <2>1, <2>2 DEF LogRight
<1>24. ASSUME NEW s \in Runs \ {r} PROVE RunRight(s)' /\ LogRight(s)'
  <2>1. RunRight(s) /\ LogRight(s)
    BY DEF IInv
  <2>2. IsCompacted(s) => IsCompacted(s)'
    BY <1>4, <1>9, CompactableStays DEF IsCompacted
  <2>3. RunRight(s)'
    BY <1>4, <1>7, <2>1, <2>2 DEF RunRight, Passed, Needed
  <2>4. \A i \in Orphans(s) : i \in Nat
    BY DEF Orphans
  <2>5. LogRight(s)'
    BY <1>4, <1>7, <1>20, <2>1, <2>4 DEF LogRight
  <2> QED
    BY <2>3, <2>5
<1> QED
  BY <1>4, <1>9, <1>11, <1>12, <1>14, <1>15, <1>21, <1>22, <1>23, <1>24, OneStep

-----------------------------------------------------------------------------
(* The theorems *)

LEMMA InitIInv == Init => IInv
<1> SUFFICES ASSUME Init PROVE IInv
  OBVIOUS
<1> USE DEF Init
<1>1. Types
  BY IdleState, WorkflowAssumption, EmptySeq DEF Types, Shows
<1>2. OneHolder /\ OneDriver /\ \A p \in Procs : LockedAt(p) /\ PlaceRight(p)
  BY IdleState DEF OneHolder, OneDriver, LockedAt, PlaceRight, Driving, Holding
<1>3. \A r \in Runs : Orphans(r) = {}
  BY DEF Orphans, Gone
<1>4. \A r \in Runs : RunRight(r) /\ LogRight(r)
  BY <1>3, NeededOf DEF RunRight, LogRight, Passed, Gone, Implemented
<1>5. Counted
  <2>1. AllOrphans = {} /\ Replacing = {}
    BY <1>3, IdleState DEF AllOrphans, Replacing
  <2> QED
    BY <2>1, FS_EmptySet DEF Counted
<1> QED
  BY <1>1, <1>2, <1>4, <1>5 DEF IInv

LEMMA Invariance == Spec => []IInv
<1>1. IInv /\ [Next]_vars => IInv'
  <2> SUFFICES ASSUME IInv, [Next]_vars PROVE IInv'
    OBVIOUS
  <2>1. CASE UNCHANGED vars
    BY <2>1, StillFacts, AgeStep DEF vars, IInv, Types
  <2>2. CASE \E r \in Runs : Age(r)
    BY <2>2, AgeStep DEF Age, IInv, Types
  <2>3. ASSUME NEW p \in Procs, Orchestrate(p) PROVE IInv'
    BY <2>3, CreateStep, RefuseApprovalStep, AuthorizeStep, AnswerApprovalStep, ApprovedStep,
       AnsweredStep, DecideStep, ReplaceStep, LockedOutStep, ExecuteStep, ExecuteFailsStep,
       WriteBesideStep, CloseArtifactStep DEF Orchestrate
  <2>4. ASSUME NEW p \in Procs, Prunes(p) PROVE IInv'
    BY <2>4, PruneStep, InspectedStep, SelectStep, SummariseStep, UnlinkStep, CompactedStep,
       InspectStep, SkipLockedStep, CompactStep, SkipCandidateStep, ApplyRaisesStep DEF Prunes
  <2> QED
    BY <2>1, <2>2, <2>3, <2>4, StopStep, BesideStep, WriteEvidenceStep DEF Next
<1> QED
  BY InitIInv, <1>1, PTL DEF Spec

\* workflow_orchestrator and workflow_retention: statuses, events, artifacts
\* and locks keep their types, and a run's lock has one holder.
THEOREM TypeCorrect == Spec => []TypeOK
<1>1. IInv => TypeOK
  <2> SUFFICES ASSUME IInv PROVE TypeOK
    OBVIOUS
  <2>1. Types /\ OneHolder
    BY DEF IInv
  <2>2. \A h, k \in lock : h[2] = k[2] => h = k
    BY <2>1 DEF Types, OneHolder
  <2>3. \A p \in Procs : proc[p] \in ProcState
    BY <2>1 DEF Types
  <2> QED
    BY <2>1, <2>2, <2>3 DEF TypeOK, Types, ProcState
<1> QED
  BY <1>1, Invariance, PTL

\* workflow_store.py and workflow_orchestrator.py: the events of a run explain
\* its status, and each event that does not is the trace of one process that
\* stopped between the event and the status, or is between them.
THEOREM EventsExplain == Spec => []LogExplainsStatus
<1>1. IInv => LogExplainsStatus
  BY DEF IInv, LogRight, Counted, LogExplainsStatus, AllOrphans, Replacing
<1> QED
  BY <1>1, Invariance, PTL

\* workflow_orchestrator.py: a status is worth the gates it names, for any
\* number of processes that approve, drive, document and prune at once.
THEOREM Gates == Spec => []GatesPassed
<1>1. IInv => GatesPassed
  <2> SUFFICES ASSUME IInv, NEW r \in Runs PROVE
         /\ status[r] \in DOMAIN Before =>
               IsCompacted(r) \/ \A f \in Before[status[r]] : file[r][f] = "pass"
         /\ implemented[r] <= 1
         /\ implemented[r] = 1 => r \in approved
         /\ status[r] \in (DOMAIN Before) \ {"awaiting_authorization", "implementation_running"}
              => implemented[r] = 1
    BY DEF GatesPassed, IsCompacted
  <2>1. RunRight(r)
    BY DEF IInv
  <2>2. (DOMAIN Before) \ {"awaiting_authorization", "implementation_running"} \subseteq Implemented
    BY Names DEF Live, Implemented
  <2> QED
    BY <2>1, <2>2 DEF RunRight, Passed, Needed
<1> QED
  BY <1>1, Invariance, PTL

-----------------------------------------------------------------------------
(* The statuses themselves *)

\* A run is created once, moves along TRANSITIONS (workflow_models.py), and
\* stays where it has ended.
MovesLegally ==
    \A r \in Runs :
        \/ status'[r] = status[r]
        \/ status[r] = "none" /\ status'[r] = "created"
        \/ Legal(status[r], status'[r]) /\ status[r] \notin Terminal

LEMMA NextMovesLegally == ASSUME IInv, [Next]_vars PROVE MovesLegally
<1>1. Types
  BY DEF IInv
<1>2. ASSUME NEW p \in Procs, NEW r \in Runs, Create(p, r) PROVE MovesLegally
  <2>1. status[r] = "none" /\ status' = [status EXCEPT ![r] = "created"]
    BY <1>2 DEF Create, Exists
  <2> QED
    BY <1>1, <2>1 DEF Types, MovesLegally
<1>3. ASSUME NEW p \in Procs, Replace(p) PROVE MovesLegally
  <2> DEFINE r == proc[p].run
  <2>1. r \in Runs /\ Legal(status[r], proc[p].next)
    BY <1>3 DEF Replace, IInv, PlaceRight
  <2>2. status' = [status EXCEPT ![r] = proc[p].next]
    BY <1>3 DEF Replace
  <2>3. status[r] \notin Terminal
    BY <2>1, LegalFacts
  <2> QED
    BY <1>1, <2>1, <2>2, <2>3 DEF Types, MovesLegally
<1>4. CASE UNCHANGED status
  BY <1>4 DEF MovesLegally
<1>5. CASE UNCHANGED vars
  BY <1>4, <1>5 DEF vars, runFiles
<1>6. ASSUME NEW p \in Procs, Orchestrate(p) PROVE MovesLegally
  <2>1. \/ \E r \in Runs : Create(p, r)
        \/ Replace(p)
        \/ UNCHANGED status
    BY <1>6 DEF Orchestrate, runFiles, RefuseApproval, Authorize, AnswerApproval, Approved,
       Answered, Decide, Transition, LockedOut, Execute, ExecuteFails, WriteArtifact,
       WriteBeside, CloseArtifact
  <2> QED
    BY <1>2, <1>3, <1>4, <2>1
<1>7. ASSUME NEW p \in Procs, Prunes(p) PROVE MovesLegally
  BY <1>4, <1>7 DEF Prunes, runFiles, Prune, Inspect, Inspected, SkipLocked, Select, Compact,
     Summarise, SkipCandidate, ApplyRaises, Unlink, Compacted
<1>8. ASSUME Next, ~\E p \in Procs : Orchestrate(p) \/ Prunes(p) PROVE UNCHANGED status
  BY <1>8 DEF Next, runFiles, Age, Stop, Document, Project, WriteEvidence
<1> QED
  BY <1>4, <1>5, <1>6, <1>7, <1>8

\* transition (workflow_store.py) judges a move before it writes the event, and
\* _transition_locked (workflow_orchestrator.py) judges none: still, when the
\* status is written nobody has changed the one it was meant for, so no run is
\* created twice, skips a stage or leaves the status it ended with.
THEOREM StatusesMove == Spec => [][MovesLegally]_vars
<1>1. IInv /\ [Next]_vars => [MovesLegally]_vars
  BY NextMovesLegally
<1> QED
  BY <1>1, Invariance, PTL DEF Spec

=============================================================================
