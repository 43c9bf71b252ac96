------------------------ MODULE ParallelShardsProofs ------------------------
(***************************************************************************)
(* Proofs about module ParallelShards, for any number of shards and any    *)
(* manifest.                                                               *)
(*                                                                         *)
(* None of the three properties is inductive.  That a test runs only after *)
(* all workers went through both callbacks rests on the start barrier: its *)
(* release, which the last arrival causes by counting the waiters, is what *)
(* the waiters remember when they wake one by one (AllCalled).  What a     *)
(* passed run claims rests on what each artifact meant when its worker     *)
(* returned it, and on nothing reviving a process group after that.        *)
(***************************************************************************)
EXTENDS ParallelShards, FiniteSetTheorems, TLAPS

AllCalled == \A j \in Shards : called[j] = 2

\* Where a worker is tells what its shard has done so far.
WorkerPlaces ==
    \A i \in Shards :
        /\ pc[i] \in {"queued", "allocate", "register", "launch"} => child[i] = "none"
        /\ pc[i] \in {"queued", "allocate", "register", "launch", "handshake"} => called[i] = 0
        /\ pc[i] = "launch" => i \in seen
        /\ pc[i] = "atStart" => called[i] = 2

\* The release of the start barrier is remembered by those who pass it.
StartReleased ==
    /\ barrier["start"] = "draining" => AllCalled
    /\ \A i \in Shards : pc[i] = "go" \/ child[i] = "running" \/ ran[i] # {} => AllCalled

\* What a child's exit shows, and what it started.
ChildEvidence ==
    \A i \in Shards :
        /\ i \notin seen => child[i] = "none"
        /\ evidence[i] = "none" => ran[i] = {}
        /\ evidence[i] # "none" => child[i] \in {"gone", "leftover"}
        /\ ran[i] \subseteq Assigned(i)
        /\ evidence[i] = "complete" => ran[i] = Assigned(i)

\* What an artifact, and the registry of cleanups, say of the shard.
ArtifactMeaning ==
    \A i \in Shards :
        /\ artifact[i].passed =>
              ran[i] = Assigned(i) /\ pc[i] \in {"cleanup", "unregister", "done"}
        /\ artifact[i].clean /\ pc[i] \in {"unregister", "done"} => child[i] \notin Alive
        /\ i \in confirmed => i \in Ended /\ child[i] \notin Alive
        /\ i \in collected => pc[i] = "done"

\* A run is told to stop only by its deadline, or by a failure it has seen.
CancelKnown ==
    /\ cancel \/ ctl = "stop" =>
          \/ ctl \in {"drain", "returned", "exited"}
          \/ \E i \in collected : ~artifact[i].passed
    /\ ctl = "assess" => collected = Shards

\* What was answered stays so.
AnswerStands ==
    /\ result.passed \/ result.terminated => ctl \in {"returned", "exited"}
    /\ result.terminated => \A i \in Shards : i \in Ended /\ child[i] \notin Alive
    /\ result.passed =>
          /\ \A i \in Shards : pc[i] = "done" /\ child[i] \notin Alive /\ ran[i] = Assigned(i)
          /\ root = {} /\ ~cancel

IInv ==
    /\ TypeOK /\ WorkerPlaces /\ StartReleased /\ ChildEvidence /\ ArtifactMeaning
    /\ CancelKnown /\ AnswerStands

-----------------------------------------------------------------------------
(* Lemmas about the helpers *)

ChildStates == {"none", "gone"} \union Alive

Barriers == {"readiness", "start"}

\* Killing makes nothing alive.
LEMMA KilledFacts ==
    ASSUME TypeOK, NEW S
    PROVE  /\ Killed(S) \in [Shards -> ChildStates]
           /\ \A j \in Shards :
                 /\ Killed(S)[j] \in {child[j], "gone"}
                 /\ Killed(S)[j] \in Alive => child[j] \in Alive /\ j \notin S
                 /\ child[j] \notin Alive \/ j \notin S => Killed(S)[j] = child[j]
BY DEF TypeOK, Killed, ChildStates, Alive

\* What a cleanup of shard i may do to it, and that it leaves others alone.
CleanedUp(i, clean) ==
    /\ child' \in [Shards -> ChildStates]
    /\ \A j \in Shards \ {i} : child'[j] = child[j]
    /\ child'[i] \in {child[i], "gone"}
    /\ child[i] \notin Alive => child'[i] = child[i]
    /\ clean => child'[i] \notin Alive
    /\ root' \subseteq root

LEMMA RuntimeCleanupFacts ==
    ASSUME TypeOK, NEW i \in Shards, NEW clean \in BOOLEAN, RuntimeCleanup(i, clean)
    PROVE  CleanedUp(i, clean)
<1>1. Killed({i}) \in [Shards -> ChildStates] /\ child \in [Shards -> ChildStates]
  BY KilledFacts DEF TypeOK, ChildStates
<1>2. child' \in {child, Killed({i})} /\ (clean => child' = Killed({i})) /\ root' \subseteq root
  BY DEF RuntimeCleanup
<1> QED
  BY <1>1, <1>2, KilledFacts DEF CleanedUp

\* force_cleanup: a clean answer is right, and only that confirms.
ForceCleaned(i, clean) ==
    /\ CleanedUp(i, clean)
    /\ seen' = seen /\ active' \subseteq active
    /\ confirmed' = confirmed \/ (clean /\ confirmed' = confirmed \union {i})

LEMMA ForceCleanupFacts ==
    ASSUME TypeOK, ChildEvidence, ArtifactMeaning, NEW i \in Shards, NEW clean \in BOOLEAN,
           ForceCleanup(i, clean)
    PROVE  ForceCleaned(i, clean)
<1>1. CASE i \in confirmed /\ clean /\ UNCHANGED <<child, root, registry>>
  BY <1>1 DEF ForceCleaned, CleanedUp, registry, TypeOK, ChildStates, ArtifactMeaning
<1>2. CASE /\ i \notin confirmed /\ i \notin active
           /\ clean = (i \notin seen)
           /\ confirmed' = IF clean THEN confirmed \union {i} ELSE confirmed
           /\ UNCHANGED <<child, root, seen, active>>
  BY <1>2 DEF ForceCleaned, CleanedUp, TypeOK, ChildStates, ChildEvidence, Alive
<1>3. CASE /\ i \notin confirmed /\ i \in active
           /\ RuntimeCleanup(i, clean)
           /\ active' = active \ {i}
           /\ confirmed' = IF clean THEN confirmed \union {i} ELSE confirmed
           /\ UNCHANGED seen
  <2>1. CleanedUp(i, clean)
    BY <1>3, RuntimeCleanupFacts
  <2> QED
    BY <1>3, <2>1 DEF ForceCleaned
<1> QED
  BY <1>1, <1>2, <1>3 DEF ForceCleanup

\* one_shard's handlers end the worker with a failure, barriers broken.
Raised(i) ==
    /\ barrier' = [b \in Barriers |-> "broken"]
    /\ pc' = [pc EXCEPT ![i] = "done"]
    /\ \E clean \in BOOLEAN :
          /\ artifact' = [artifact EXCEPT ![i] = [passed |-> FALSE, clean |-> clean]]
          /\ ForceCleaned(i, clean)

LEMMA RaiseFacts ==
    ASSUME TypeOK, ChildEvidence, ArtifactMeaning, NEW i \in Shards, Raise(i)
    PROVE  Raised(i)
BY ForceCleanupFacts DEF Raise, Abort, Return, Go, Raised, Barriers

-----------------------------------------------------------------------------
(* The steps of the workers *)

Early == {"queued", "allocate", "register", "launch"}

\* A step of worker i leaves the other shards, the controller and what the
\* children did alone.
OwnShardOnly(i) ==
    /\ UNCHANGED <<nodes, evidence, ran, controllerVars>>
    /\ \A j \in Shards \ {i} :
          /\ pc'[j] = pc[j] /\ called'[j] = called[j] /\ child'[j] = child[j]
          /\ artifact'[j] = artifact[j]
          /\ (j \in seen' <=> j \in seen) /\ (j \in confirmed' <=> j \in confirmed)

\* What the invariant says of shard i, after the step.
OwnShardRight(i) ==
    /\ pc'[i] \in Early => child'[i] = "none"
    /\ pc'[i] \in Early \union {"handshake"} => called'[i] = 0
    /\ pc'[i] = "launch" => i \in seen'
    /\ pc'[i] = "atStart" => called'[i] = 2
    /\ i \notin seen' => child'[i] = "none"
    /\ child'[i] = "none" => child[i] = "none"
    /\ child[i] \in {"gone", "leftover"} => child'[i] \in {"gone", "leftover"}
    /\ artifact'[i].passed =>
          ran[i] = Assigned(i) /\ pc'[i] \in {"cleanup", "unregister", "done"}
    /\ artifact'[i].clean /\ pc'[i] \in {"unregister", "done"} => child'[i] \notin Alive
    /\ i \in confirmed' => pc'[i] \in {"done", "cancelled"} /\ child'[i] \notin Alive

\* Nobody is past the start barrier who was not, unless all have been called.
BarrierRight(i) ==
    /\ called[i] = 2 => called'[i] = 2
    /\ barrier'["start"] = "draining" \/ pc'[i] = "go" \/ child'[i] = "running" =>
          \/ barrier["start"] = "draining" \/ pc[i] = "go" \/ child[i] = "running"
          \/ \A j \in Shards : called'[j] = 2

\* A worker that has not ended, its step right by the three.
LEMMA WorkerStep ==
    ASSUME IInv, NEW i \in Shards, pc[i] \notin {"done", "cancelled"},
           OwnShardOnly(i), OwnShardRight(i), BarrierRight(i), TypeOK'
    PROVE  IInv'
<1>1. /\ TypeOK /\ WorkerPlaces /\ StartReleased /\ ChildEvidence /\ ArtifactMeaning
      /\ CancelKnown /\ AnswerStands
  BY DEF IInv
<1>2. UNCHANGED <<nodes, evidence, ran, expired, cancel, ctl, collected, result>>
  BY DEF OwnShardOnly, controllerVars
<1>3. WorkerPlaces'
  BY <1>1 DEF WorkerPlaces, OwnShardOnly, OwnShardRight, Early
<1>4. StartReleased'
  <2>1. AllCalled => AllCalled'
    BY DEF AllCalled, OwnShardOnly, BarrierRight
  <2>2. barrier'["start"] = "draining" => AllCalled'
    BY <1>1, <2>1 DEF StartReleased, BarrierRight, AllCalled
  <2>3. \A j \in Shards : pc'[j] = "go" \/ child'[j] = "running" \/ ran'[j] # {} => AllCalled'
    BY <1>1, <1>2, <2>1 DEF StartReleased, BarrierRight, OwnShardOnly, AllCalled
  <2> QED
    BY <2>2, <2>3 DEF StartReleased
<1>5. ChildEvidence'
  BY <1>1, <1>2 DEF ChildEvidence, OwnShardOnly, OwnShardRight, Assigned
<1>6. ArtifactMeaning'
  BY <1>1, <1>2 DEF ArtifactMeaning, OwnShardOnly, OwnShardRight, Assigned, Ended
<1>7. CancelKnown'
  <2>1. \A j \in collected : artifact'[j] = artifact[j]
    BY <1>1 DEF TypeOK, ArtifactMeaning, OwnShardOnly
  <2> QED
    BY <1>1, <1>2, <2>1 DEF CancelKnown
<1>8. AnswerStands'
  BY <1>1, <1>2 DEF AnswerStands, OwnShardOnly, Ended
<1> QED
  BY <1>3, <1>4, <1>5, <1>6, <1>7, <1>8 DEF IInv

\* A worker that ends by an exception.
LEMMA RaisedStep ==
    ASSUME IInv, NEW i \in Shards, pc[i] \notin {"done", "cancelled"}, Raised(i),
           called' \in [Shards -> 0..2], \A j \in Shards \ {i} : called'[j] = called[j],
           called[i] = 2 => called'[i] = 2,
           UNCHANGED <<nodes, evidence, ran, controllerVars>>
    PROVE  IInv'
<1>1. TypeOK /\ ChildEvidence /\ ArtifactMeaning
  BY DEF IInv
<1>2. PICK clean \in BOOLEAN :
          /\ artifact' = [artifact EXCEPT ![i] = [passed |-> FALSE, clean |-> clean]]
          /\ ForceCleaned(i, clean)
  BY DEF Raised
<1>3. /\ barrier' = [b \in Barriers |-> "broken"] /\ pc' = [pc EXCEPT ![i] = "done"]
      /\ seen' = seen /\ active' \subseteq active /\ root' \subseteq root
      /\ child' \in [Shards -> ChildStates]
      /\ confirmed' = confirmed \/ confirmed' = confirmed \union {i}
  BY <1>2 DEF Raised, ForceCleaned, CleanedUp
<1>4. TypeOK'
  BY <1>1, <1>2, <1>3
     DEF TypeOK, controllerVars, Barriers, ChildStates, Artifact, Workers
<1>5. OwnShardOnly(i)
  BY <1>1, <1>2, <1>3 DEF OwnShardOnly, TypeOK, ForceCleaned, CleanedUp
<1>6. OwnShardRight(i)
  <2>1. pc'[i] = "done" /\ artifact'[i] = [passed |-> FALSE, clean |-> clean]
    BY <1>1, <1>2, <1>3 DEF TypeOK
  <2>2. /\ child'[i] \in {child[i], "gone"}
        /\ child[i] \notin Alive => child'[i] = child[i]
        /\ clean => child'[i] \notin Alive
    BY <1>2 DEF ForceCleaned, CleanedUp
  <2>3. i \in confirmed' => child'[i] \notin Alive
    BY <1>1, <1>2, <2>2 DEF ForceCleaned, ArtifactMeaning
  <2> QED
    BY <1>1, <1>3, <2>1, <2>2, <2>3 DEF OwnShardRight, ChildEvidence, Early, Alive
<1>7. BarrierRight(i)
  <2>1. barrier'["start"] = "broken" /\ pc'[i] = "done"
    BY <1>1, <1>3 DEF Barriers, TypeOK
  <2>2. child'[i] = "running" => child[i] = "running"
    BY <1>2 DEF ForceCleaned, CleanedUp
  <2> QED
    BY <2>1, <2>2 DEF BarrierRight
<1> QED
  BY <1>4, <1>5, <1>6, <1>7, WorkerStep

\* The last one to arrive finds all the others waiting.
LEMMA AllOthersWait ==
    ASSUME NEW i \in Shards, NEW step, pc[i] # step,
           Cardinality(Waiting(step)) = ShardCount - 1
    PROVE  \A j \in Shards \ {i} : pc[j] = step
<1>1. ShardCount \in Nat \ {0}
  BY ShardAssumption
<1>2. IsFiniteSet(Shards) /\ Cardinality(Shards) = ShardCount
  BY <1>1, FS_Interval DEF Shards
<1>3. IsFiniteSet(Shards \ {i}) /\ Cardinality(Shards \ {i}) = ShardCount - 1
  BY <1>2, FS_RemoveElement
<1>4. Waiting(step) \in SUBSET (Shards \ {i})
  BY DEF Waiting
<1>5. Waiting(step) = Shards \ {i}
  BY <1>3, <1>4, FS_Subset
<1> QED
  BY <1>5 DEF Waiting

LEMMA BeginStep ==
    ASSUME IInv, NEW i \in Shards, Begin(i)
    PROVE  IInv'
<1>1. /\ TypeOK /\ WorkerPlaces /\ ChildEvidence /\ ArtifactMeaning
      /\ pc[i] = "queued" /\ UNCHANGED <<nodes, called, evidence, ran, controllerVars>>
  BY DEF IInv, Begin
<1>2. child[i] = "none" /\ called[i] = 0
  BY <1>1 DEF WorkerPlaces
<1>3. CASE Raise(i)
  <2>1. Raised(i)
    BY <1>1, <1>3, RaiseFacts
  <2> QED
    BY <1>1, <1>2, <2>1, RaisedStep DEF TypeOK
<1>4. CASE Go(i, "allocate") /\ UNCHANGED <<child, root, registry, artifact, barrier>>
  <2> USE DEF Go, registry
  <2>1. TypeOK'
    BY <1>1, <1>4 DEF TypeOK, controllerVars, Workers
  <2>2. OwnShardOnly(i)
    BY <1>1, <1>4 DEF OwnShardOnly, TypeOK
  <2>3. OwnShardRight(i) /\ BarrierRight(i)
    BY <1>1, <1>2, <1>4 DEF OwnShardRight, BarrierRight, TypeOK, ArtifactMeaning, Early, Ended
  <2> QED
    BY <1>1, <2>1, <2>2, <2>3, WorkerStep
<1>5. CASE Return(i, FALSE, TRUE) /\ UNCHANGED <<child, root, registry, barrier>>
  <2> USE DEF Return, Go, registry
  <2>1. TypeOK'
    BY <1>1, <1>5 DEF TypeOK, controllerVars, Workers, Artifact
  <2>2. OwnShardOnly(i)
    BY <1>1, <1>5 DEF OwnShardOnly, TypeOK
  <2>3. OwnShardRight(i) /\ BarrierRight(i)
    BY <1>1, <1>2, <1>5
       DEF OwnShardRight, BarrierRight, TypeOK, ArtifactMeaning, Early, Alive
  <2> QED
    BY <1>1, <2>1, <2>2, <2>3, WorkerStep
<1> QED
  BY <1>3, <1>4, <1>5 DEF Begin

LEMMA AllocateStep ==
    ASSUME IInv, NEW i \in Shards, Allocate(i)
    PROVE  IInv'
<1>1. /\ TypeOK /\ WorkerPlaces /\ ChildEvidence /\ ArtifactMeaning
      /\ pc[i] = "allocate" /\ UNCHANGED <<nodes, called, evidence, ran, controllerVars>>
  BY DEF IInv, Allocate
<1>2. child[i] = "none" /\ called[i] = 0
  BY <1>1 DEF WorkerPlaces
<1>3. CASE Raise(i)
  <2>1. Raised(i)
    BY <1>1, <1>3, RaiseFacts
  <2> QED
    BY <1>1, <1>2, <2>1, RaisedStep DEF TypeOK
<1>4. CASE /\ root' = root \union {i} /\ Go(i, "register")
           /\ UNCHANGED <<child, registry, artifact, barrier>>
  <2> USE DEF Go, registry
  <2>1. TypeOK'
    BY <1>1, <1>4 DEF TypeOK, controllerVars, Workers
  <2>2. OwnShardOnly(i)
    BY <1>1, <1>4 DEF OwnShardOnly, TypeOK
  <2>3. OwnShardRight(i) /\ BarrierRight(i)
    BY <1>1, <1>2, <1>4 DEF OwnShardRight, BarrierRight, TypeOK, ArtifactMeaning, Early, Ended
  <2> QED
    BY <1>1, <2>1, <2>2, <2>3, WorkerStep
<1>5. CASE Abort /\ Return(i, FALSE, FALSE) /\ UNCHANGED <<child, root, registry>>
  <2> USE DEF Abort, Return, Go, registry
  <2>1. TypeOK'
    BY <1>1, <1>5 DEF TypeOK, controllerVars, Workers, Artifact
  <2>2. OwnShardOnly(i)
    BY <1>1, <1>5 DEF OwnShardOnly, TypeOK
  <2>3. OwnShardRight(i) /\ BarrierRight(i)
    BY <1>1, <1>2, <1>5
       DEF OwnShardRight, BarrierRight, TypeOK, ArtifactMeaning, Early, Alive
  <2> QED
    BY <1>1, <2>1, <2>2, <2>3, WorkerStep
<1> QED
  BY <1>3, <1>4, <1>5 DEF Allocate

LEMMA RegisterStep ==
    ASSUME IInv, NEW i \in Shards, Register(i)
    PROVE  IInv'
<1>1. /\ TypeOK /\ WorkerPlaces /\ ChildEvidence /\ ArtifactMeaning
      /\ pc[i] = "register" /\ UNCHANGED <<nodes, called, evidence, ran, controllerVars>>
      /\ seen' = seen \union {i}
  BY DEF IInv, Register
<1>2. child[i] = "none" /\ called[i] = 0
  BY <1>1 DEF WorkerPlaces
<1>3. CASE cancel
  <2>1. PICK clean \in BOOLEAN :
            /\ RuntimeCleanup(i, clean)
            /\ confirmed' = IF clean THEN confirmed \union {i} ELSE confirmed
            /\ Return(i, FALSE, clean)
    BY <1>3 DEF Register
  <2>2. CleanedUp(i, clean)
    BY <1>1, <2>1, RuntimeCleanupFacts
  <2>3. child' = child
    BY <1>1, <1>2, <2>2 DEF CleanedUp, TypeOK, Alive
  <2>4. Abort /\ UNCHANGED active /\ root' \subseteq root
    BY <1>3, <2>2 DEF Register, CleanedUp
  <2> USE DEF Return, Go, Abort
  <2>5. TypeOK'
    BY <1>1, <2>1, <2>3, <2>4 DEF TypeOK, controllerVars, Workers, Artifact
  <2>6. OwnShardOnly(i)
    BY <1>1, <2>1, <2>3, <2>4 DEF OwnShardOnly, TypeOK
  <2>7. OwnShardRight(i) /\ BarrierRight(i)
    BY <1>1, <1>2, <2>1, <2>3, <2>4
       DEF OwnShardRight, BarrierRight, TypeOK, ArtifactMeaning, Early, Alive
  <2> QED
    BY <1>1, <2>5, <2>6, <2>7, WorkerStep
<1>4. CASE ~cancel
  <2>1. PICK step \in {"handshake", "launch"} : pc' = [pc EXCEPT ![i] = step]
    BY <1>4 DEF Register, Go
  <2>2. active' = active \union {i} /\ UNCHANGED <<child, root, confirmed, artifact, barrier>>
    BY <1>4 DEF Register
  <2>3. TypeOK'
    BY <1>1, <2>1, <2>2 DEF TypeOK, controllerVars, Workers
  <2>4. OwnShardOnly(i)
    BY <1>1, <2>1, <2>2 DEF OwnShardOnly, TypeOK
  <2>5. OwnShardRight(i) /\ BarrierRight(i)
    BY <1>1, <1>2, <2>1, <2>2
       DEF OwnShardRight, BarrierRight, TypeOK, ArtifactMeaning, Early, Ended
  <2> QED
    BY <1>1, <2>3, <2>4, <2>5, WorkerStep
<1> QED
  BY <1>3, <1>4

LEMMA LaunchStep ==
    ASSUME IInv, NEW i \in Shards, Launch(i)
    PROVE  IInv'
<1>1. /\ TypeOK /\ WorkerPlaces /\ ChildEvidence /\ ArtifactMeaning
      /\ pc[i] = "launch"
      /\ UNCHANGED <<nodes, called, evidence, ran, root, registry, artifact, barrier,
                     controllerVars>>
  BY DEF IInv, Launch
<1>2. child[i] = "none" /\ called[i] = 0 /\ i \in seen
  BY <1>1 DEF WorkerPlaces
<1>3. PICK c \in {"booting", "none"}, step \in {"handshake", "cleanup"} :
          child' = [child EXCEPT ![i] = c] /\ pc' = [pc EXCEPT ![i] = step]
  BY <1>1, <1>2 DEF Launch, Go, TypeOK
<1> USE DEF registry
<1>4. TypeOK'
  BY <1>1, <1>3 DEF TypeOK, controllerVars, Workers, Alive
<1>5. OwnShardOnly(i)
  BY <1>1, <1>3 DEF OwnShardOnly, TypeOK
<1>6. OwnShardRight(i) /\ BarrierRight(i)
  BY <1>1, <1>2, <1>3
     DEF OwnShardRight, BarrierRight, TypeOK, ArtifactMeaning, Early, Ended
<1> QED
  BY <1>1, <1>4, <1>5, <1>6, WorkerStep

\* The start barrier is released only by an arrival.
BarrierKept ==
    /\ barrier' \in [Barriers -> {"filling", "draining", "broken"}]
    /\ barrier'["start"] = "draining" => barrier["start"] = "draining"

AtCallback == {"handshake", "atReady", "released", "atStart"}

\* An exception out of a callback, with or without tests in the shard.
LEMMA CallbackFailsStep ==
    ASSUME IInv, NEW i \in Shards, pc[i] \in AtCallback, CallbackFails(i),
           Assigned(i) # {} => BarrierKept,
           called' \in [Shards -> 0..2], \A j \in Shards \ {i} : called'[j] = called[j],
           called[i] = 2 => called'[i] = 2,
           UNCHANGED <<nodes, evidence, ran, controllerVars>>
    PROVE  IInv'
<1>1. TypeOK /\ WorkerPlaces /\ ChildEvidence /\ ArtifactMeaning
      /\ pc[i] \notin {"done", "cancelled"}
  BY DEF IInv, AtCallback
<1>2. CASE Assigned(i) = {}
  <2>1. Raised(i)
    BY <1>1, <1>2, RaiseFacts DEF CallbackFails
  <2> QED
    BY <1>1, <2>1, RaisedStep
<1>3. CASE Assigned(i) # {}
  <2>1. /\ pc' = [pc EXCEPT ![i] = "cleanup"] /\ UNCHANGED <<child, root, registry, artifact>>
        /\ BarrierKept
    BY <1>3 DEF CallbackFails, Go
  <2> USE DEF registry
  <2>2. TypeOK'
    BY <1>1, <2>1 DEF TypeOK, controllerVars, Workers, BarrierKept, Barriers
  <2>3. OwnShardOnly(i)
    BY <1>1, <2>1 DEF OwnShardOnly, TypeOK
  <2>4. OwnShardRight(i)
    BY <1>1, <2>1
       DEF OwnShardRight, TypeOK, ArtifactMeaning, ChildEvidence, Early, Ended, AtCallback
  <2>5. BarrierRight(i)
    BY <1>1, <2>1 DEF BarrierRight, BarrierKept, TypeOK
  <2> QED
    BY <1>1, <2>2, <2>3, <2>4, <2>5, WorkerStep
<1> QED
  BY <1>2, <1>3

\* A worker moves on between the callbacks: its shard keeps what it has.
LEMMA MoveStep ==
    ASSUME IInv, NEW i \in Shards, pc[i] \in AtCallback,
           NEW step \in {"atReady", "released", "atStart", "go"},
           pc' = [pc EXCEPT ![i] = step],
           called' \in [Shards -> 0..2], \A j \in Shards \ {i} : called'[j] = called[j],
           called[i] = 2 => called'[i] = 2,
           step = "atStart" => called'[i] = 2,
           barrier' \in [Barriers -> {"filling", "draining", "broken"}],
           step = "go" \/ barrier'["start"] = "draining" =>
               barrier["start"] = "draining" \/ \A j \in Shards : called'[j] = 2,
           UNCHANGED <<child, root, registry, artifact>>,
           UNCHANGED <<nodes, evidence, ran, controllerVars>>
    PROVE  IInv'
<1>1. TypeOK /\ WorkerPlaces /\ ChildEvidence /\ ArtifactMeaning
      /\ pc[i] \notin {"done", "cancelled"}
  BY DEF IInv, AtCallback
<1> USE DEF registry
<1>2. TypeOK'
  BY <1>1 DEF TypeOK, controllerVars, Workers, Barriers
<1>3. OwnShardOnly(i)
  BY <1>1 DEF OwnShardOnly, TypeOK
<1>4. OwnShardRight(i)
  BY <1>1 DEF OwnShardRight, TypeOK, ArtifactMeaning, ChildEvidence, Early, Ended, AtCallback
<1>5. BarrierRight(i)
  BY <1>1 DEF BarrierRight, TypeOK
<1> QED
  BY <1>1, <1>2, <1>3, <1>4, <1>5, WorkerStep

LEMMA HandshakeStep ==
    ASSUME IInv, NEW i \in Shards, Handshake(i)
    PROVE  IInv'
<1>1. /\ TypeOK /\ WorkerPlaces /\ ChildEvidence /\ ArtifactMeaning
      /\ pc[i] = "handshake" /\ UNCHANGED <<nodes, evidence, ran, controllerVars>>
  BY DEF IInv, Handshake
<1>2. called[i] = 0 /\ pc[i] \in AtCallback
  BY <1>1 DEF WorkerPlaces, AtCallback
<1>3. CASE /\ called' = [called EXCEPT ![i] = 1]
           /\ Arrive(i, "readiness", "atReady", "released")
  <2>1. /\ called' \in [Shards -> 0..2] /\ \A j \in Shards \ {i} : called'[j] = called[j]
    BY <1>1, <1>3 DEF TypeOK
  <2>2. CASE CallbackFails(i) /\ (Assigned(i) # {} => UNCHANGED barrier)
    <3>1. Assigned(i) # {} => BarrierKept
      BY <1>1, <2>2 DEF BarrierKept, TypeOK, Barriers
    <3> QED
      BY <1>1, <1>2, <2>1, <2>2, <3>1, CallbackFailsStep
  <2>3. CASE /\ barrier' = [barrier EXCEPT !["readiness"] = "draining"]
             /\ Go(i, "released") /\ UNCHANGED <<child, root, registry, artifact>>
    <3>1. barrier' \in [Barriers -> {"filling", "draining", "broken"}]
          /\ barrier'["start"] = barrier["start"]
      BY <1>1, <2>3 DEF TypeOK, Barriers
    <3>2. /\ pc' = [pc EXCEPT ![i] = "released"] /\ ~(called[i] = 2)
          /\ UNCHANGED <<child, root, registry, artifact>>
      BY <1>2, <2>3 DEF Go
    <3> QED
      BY <1>1, <1>2, <2>1, <3>1, <3>2, MoveStep
  <2>4. CASE Go(i, "atReady") /\ UNCHANGED <<child, root, registry, artifact, barrier>>
    <3>1. barrier' \in [Barriers -> {"filling", "draining", "broken"}]
      BY <1>1, <2>4 DEF TypeOK, Barriers
    <3>2. /\ pc' = [pc EXCEPT ![i] = "atReady"] /\ ~(called[i] = 2)
          /\ barrier' = barrier /\ UNCHANGED <<child, root, registry, artifact>>
      BY <1>2, <2>4 DEF Go
    <3> QED
      BY <1>1, <1>2, <2>1, <3>1, <3>2, MoveStep
  <2> QED
    BY <1>3, <2>2, <2>3, <2>4 DEF Arrive
<1>4. CASE /\ Assigned(i) # {} /\ Go(i, "cleanup")
           /\ UNCHANGED <<called, child, root, registry, artifact, barrier>>
  <2>1. CallbackFails(i) /\ BarrierKept
    BY <1>1, <1>4 DEF CallbackFails, BarrierKept, TypeOK, Barriers
  <2> QED
    BY <1>1, <1>2, <1>4, <2>1, CallbackFailsStep DEF TypeOK
<1> QED
  BY <1>3, <1>4 DEF Handshake

LEMMA WakeStep ==
    ASSUME IInv, NEW i \in Shards,
           \/ Wake(i, "readiness", "atReady", "released")
           \/ Wake(i, "start", "atStart", "go")
    PROVE  IInv'
<1>1. /\ TypeOK /\ WorkerPlaces /\ pc[i] \in AtCallback
      /\ UNCHANGED <<nodes, called, evidence, ran, controllerVars>>
  BY DEF IInv, Wake, AtCallback
<1>2. ASSUME NEW b \in Barriers, CallbackFails(i),
             Assigned(i) # {} => barrier' = [barrier EXCEPT ![b] = "broken"]
      PROVE  IInv'
  <2>1. Assigned(i) # {} => BarrierKept
    BY <1>1, <1>2 DEF BarrierKept, TypeOK, Barriers
  <2> QED
    BY <1>1, <1>2, <2>1, CallbackFailsStep DEF TypeOK
<1>3. ASSUME NEW step \in {"released", "go"}, Go(i, step),
             step = "go" => barrier["start"] = "draining",
             UNCHANGED <<child, root, registry, artifact, barrier>>
      PROVE  IInv'
  <2>1. barrier' \in [Barriers -> {"filling", "draining", "broken"}]
    BY <1>1, <1>3 DEF TypeOK, Barriers
  <2> QED
    BY <1>1, <1>3, <2>1, MoveStep DEF Go, TypeOK
<1> QED
  BY <1>2, <1>3 DEF Wake, Barriers

\* The last arrival at the start barrier has been called, and all the others
\* wait behind their own call.
LEMMA StartStep ==
    ASSUME IInv, NEW i \in Shards, Start(i)
    PROVE  IInv'
<1>1. /\ TypeOK /\ WorkerPlaces /\ pc[i] = "released" /\ pc[i] \in AtCallback
      /\ called' = [called EXCEPT ![i] = 2] /\ UNCHANGED <<nodes, evidence, ran, controllerVars>>
  BY DEF IInv, Start, AtCallback
<1>2. /\ called' \in [Shards -> 0..2] /\ \A j \in Shards \ {i} : called'[j] = called[j]
      /\ called'[i] = 2
  BY <1>1 DEF TypeOK
<1>3. CASE CallbackFails(i) /\ (Assigned(i) # {} => UNCHANGED barrier)
  <2>1. Assigned(i) # {} => BarrierKept
    BY <1>1, <1>3 DEF BarrierKept, TypeOK, Barriers
  <2> QED
    BY <1>1, <1>2, <1>3, <2>1, CallbackFailsStep
<1>4. CASE /\ Cardinality(Waiting("atStart")) = ShardCount - 1
           /\ barrier' = [barrier EXCEPT !["start"] = "draining"]
           /\ Go(i, "go") /\ UNCHANGED <<child, root, registry, artifact>>
  <2>1. \A j \in Shards \ {i} : pc[j] = "atStart"
    BY <1>1, <1>4, AllOthersWait
  <2>2. \A j \in Shards : called'[j] = 2
    BY <1>1, <1>2, <2>1 DEF WorkerPlaces
  <2>3. barrier' \in [Barriers -> {"filling", "draining", "broken"}]
    BY <1>1, <1>4 DEF TypeOK, Barriers
  <2> QED
    BY <1>1, <1>2, <1>4, <2>2, <2>3, MoveStep DEF Go
<1>5. CASE Go(i, "atStart") /\ UNCHANGED <<child, root, registry, artifact, barrier>>
  <2>1. barrier' \in [Barriers -> {"filling", "draining", "broken"}]
    BY <1>1, <1>5 DEF TypeOK, Barriers
  <2> QED
    BY <1>1, <1>2, <1>5, <2>1, MoveStep DEF Go
<1> QED
  BY <1>3, <1>4, <1>5 DEF Start, Arrive

LEMMA WriteStartStep ==
    ASSUME IInv, NEW i \in Shards, WriteStart(i)
    PROVE  IInv'
<1>1. /\ TypeOK /\ WorkerPlaces /\ ChildEvidence /\ ArtifactMeaning
      /\ pc[i] = "go"
      /\ UNCHANGED <<nodes, called, evidence, ran, root, registry, artifact, barrier,
                     controllerVars>>
  BY DEF IInv, WriteStart
<1> USE DEF registry
<1>2. PICK step \in {"communicate", "cleanup"} :
          /\ pc' = [pc EXCEPT ![i] = step]
          /\ \/ child' = child
             \/ child[i] = "ready" /\ child' = [child EXCEPT ![i] = "running"]
  BY DEF WriteStart, Go
<1>3. TypeOK'
  BY <1>1, <1>2 DEF TypeOK, controllerVars, Workers, Alive
<1>4. OwnShardOnly(i)
  BY <1>1, <1>2 DEF OwnShardOnly, TypeOK
<1>5. OwnShardRight(i)
  BY <1>1, <1>2
     DEF OwnShardRight, TypeOK, ArtifactMeaning, ChildEvidence, Early, Ended
<1>6. BarrierRight(i)
  BY <1>1, <1>2 DEF BarrierRight, TypeOK
<1> QED
  BY <1>1, <1>3, <1>4, <1>5, <1>6, WorkerStep

\* An artifact passes only if the child's exit shows that all its tests ran.
LEMMA CommunicateStep ==
    ASSUME IInv, NEW i \in Shards, Communicate(i)
    PROVE  IInv'
<1>1. /\ TypeOK /\ WorkerPlaces /\ ChildEvidence /\ ArtifactMeaning
      /\ pc[i] = "communicate" /\ pc' = [pc EXCEPT ![i] = "cleanup"]
      /\ UNCHANGED <<nodes, called, evidence, ran, root, registry, barrier, controllerVars>>
  BY DEF IInv, Communicate, Go
<1> USE DEF registry
<1>2. /\ child' \in [Shards -> ChildStates]
      /\ \A j \in Shards \ {i} : child'[j] = child[j]
      /\ child'[i] \in {child[i], "gone"}
      /\ child[i] \notin Alive => child'[i] = child[i]
  BY <1>1, KilledFacts DEF Communicate, TypeOK, ChildStates
<1>3. /\ artifact' \in [Shards -> Artifact]
      /\ \A j \in Shards \ {i} : artifact'[j] = artifact[j]
      /\ artifact'[i].passed => evidence[i] = "complete"
  <2>1. CASE artifact' = artifact
    BY <1>1, <2>1 DEF TypeOK, ArtifactMeaning
  <2>2. CASE artifact' = [artifact EXCEPT ![i].passed = (evidence[i] = "complete")]
    <3> DEFINE a == [artifact[i] EXCEPT !.passed = (evidence[i] = "complete")]
    <3>1. artifact[i] \in Artifact
      BY <1>1 DEF TypeOK
    <3>2. a \in Artifact /\ (a.passed <=> evidence[i] = "complete")
      BY <3>1 DEF Artifact
    <3>3. artifact' = [artifact EXCEPT ![i] = a]
      BY <2>2
    <3> HIDE DEF a
    <3> QED
      BY <1>1, <3>2, <3>3 DEF TypeOK
  <2> QED
    BY <2>1, <2>2 DEF Communicate
<1>4. TypeOK'
  BY <1>1, <1>2, <1>3 DEF TypeOK, controllerVars, Workers, ChildStates
<1>5. OwnShardOnly(i)
  BY <1>1, <1>2, <1>3 DEF OwnShardOnly, TypeOK
<1>6. OwnShardRight(i)
  BY <1>1, <1>2, <1>3
     DEF OwnShardRight, TypeOK, ArtifactMeaning, ChildEvidence, Early, Ended, Alive
<1>7. BarrierRight(i)
  BY <1>1, <1>2 DEF BarrierRight, TypeOK
<1> QED
  BY <1>1, <1>4, <1>5, <1>6, <1>7, WorkerStep

LEMMA CleanupStep ==
    ASSUME IInv, NEW i \in Shards, Cleanup(i)
    PROVE  IInv'
<1>1. /\ TypeOK /\ WorkerPlaces /\ ChildEvidence /\ ArtifactMeaning
      /\ pc[i] = "cleanup"
      /\ UNCHANGED <<nodes, called, evidence, ran, registry, barrier, controllerVars>>
  BY DEF IInv, Cleanup
<1> USE DEF registry
<1>2. PICK clean \in BOOLEAN :
         /\ RuntimeCleanup(i, clean)
         /\ artifact' = [artifact EXCEPT ![i] =
               [passed |-> clean /\ (artifact[i].passed \/ Assigned(i) = {}), clean |-> clean]]
  BY DEF Cleanup
<1>3. PICK step \in {"done", "unregister"} : pc' = [pc EXCEPT ![i] = step]
  BY DEF Cleanup, Go
<1>4. CleanedUp(i, clean)
  BY <1>1, <1>2, RuntimeCleanupFacts
<1> DEFINE passed == clean /\ (artifact[i].passed \/ Assigned(i) = {})
<1>5. passed \in BOOLEAN /\ (passed => ran[i] = Assigned(i))
  BY <1>1 DEF ArtifactMeaning, ChildEvidence
<1>6. artifact' = [artifact EXCEPT ![i] = [passed |-> passed, clean |-> clean]]
  BY <1>2
<1> HIDE DEF passed
<1>7. TypeOK'
  BY <1>1, <1>3, <1>4, <1>5, <1>6
     DEF TypeOK, controllerVars, Workers, ChildStates, CleanedUp, Artifact
<1>8. OwnShardOnly(i)
  BY <1>1, <1>3, <1>4, <1>6 DEF OwnShardOnly, TypeOK, CleanedUp
<1>9. OwnShardRight(i)
  BY <1>1, <1>3, <1>4, <1>5, <1>6
     DEF OwnShardRight, TypeOK, ArtifactMeaning, ChildEvidence, Early, Ended, Alive, CleanedUp
<1>10. BarrierRight(i)
  BY <1>1, <1>3, <1>4 DEF BarrierRight, TypeOK, CleanedUp
<1> QED
  BY <1>1, <1>7, <1>8, <1>9, <1>10, WorkerStep

LEMMA UnregisterStep ==
    ASSUME IInv, NEW i \in Shards, Unregister(i)
    PROVE  IInv'
<1>1. /\ TypeOK /\ WorkerPlaces /\ ChildEvidence /\ ArtifactMeaning
      /\ pc[i] = "unregister" /\ pc' = [pc EXCEPT ![i] = "done"]
      /\ active' = active \ {i}
      /\ confirmed' = IF artifact[i].clean THEN confirmed \union {i} ELSE confirmed
      /\ UNCHANGED <<nodes, called, childVars, root, seen, artifact, controllerVars>>
  BY DEF IInv, Unregister, Go
<1>2. BarrierKept
  BY <1>1 DEF BarrierKept, Barriers, Unregister, Abort, TypeOK
<1>3. TypeOK'
  BY <1>1, <1>2 DEF TypeOK, controllerVars, childVars, Workers, BarrierKept, Barriers
<1>4. OwnShardOnly(i)
  BY <1>1 DEF OwnShardOnly, TypeOK, childVars
<1>5. OwnShardRight(i)
  BY <1>1 DEF OwnShardRight, TypeOK, ArtifactMeaning, ChildEvidence, Early, Ended, childVars
<1>6. BarrierRight(i)
  BY <1>1, <1>2 DEF BarrierRight, BarrierKept, TypeOK, childVars
<1> QED
  BY <1>1, <1>3, <1>4, <1>5, <1>6, WorkerStep

LEMMA WorkerKeeps == ASSUME IInv, NEW i \in Shards, Worker(i) PROVE IInv'
BY BeginStep, AllocateStep, RegisterStep, LaunchStep, HandshakeStep, WakeStep, StartStep,
   WriteStartStep, CommunicateStep, CleanupStep, UnregisterStep DEF Worker

-----------------------------------------------------------------------------
(* The steps of the children, the controller and the caller *)

LEMMA ChildStep ==
    ASSUME IInv, NEW i \in Shards, Child(i)
    PROVE  IInv'
<1>1. /\ TypeOK /\ WorkerPlaces /\ StartReleased /\ ChildEvidence /\ ArtifactMeaning
      /\ CancelKnown /\ AnswerStands
      /\ UNCHANGED <<nodes, pc, called, root, registry, artifact, barrier, controllerVars>>
  BY DEF IInv, Child
<1> USE DEF registry, controllerVars
<1>2. PICK c \in ChildStates, S \in SUBSET Assigned(i), e \in {"none", "complete", "failed"} :
          /\ child' = [child EXCEPT ![i] = c]
          /\ ran' = [ran EXCEPT ![i] = S]
          /\ evidence' = [evidence EXCEPT ![i] = e]
          /\ child[i] \in {"booting", "ready", "running"} /\ c \notin {"none", "booting", "running"}
          /\ \/ S = ran[i] /\ e = evidence[i]
             \/ child[i] = "running" /\ c \in {"gone", "leftover"} /\ e # "none"
                /\ (e = "complete" => S = Assigned(i))
  <2>1. CASE ChildReady(i) \/ ChildDies(i)
    <3>1. /\ ran' = [ran EXCEPT ![i] = ran[i]] /\ evidence' = [evidence EXCEPT ![i] = evidence[i]]
          /\ ran[i] \in SUBSET Assigned(i) /\ evidence[i] \in {"none", "complete", "failed"}
      BY <1>1, <2>1 DEF ChildReady, ChildDies, TypeOK, ChildEvidence
    <3> QED
      BY <2>1, <3>1 DEF ChildReady, ChildDies, ChildStates, Alive
  <2>2. CASE ChildEnds(i)
    BY <2>2 DEF ChildEnds, ChildStates, Alive
  <2> QED
    BY <2>1, <2>2 DEF Child
<1>3. Assigned(i) \subseteq nodes /\ Assigned(i)' = Assigned(i)
      /\ \A j \in Shards : Assigned(j)' = Assigned(j)
  BY <1>1 DEF Assigned
<1>4. TypeOK'
  BY <1>1, <1>2, <1>3 DEF TypeOK, ChildStates
<1>5. /\ child'[i] = c /\ ran'[i] = S /\ evidence'[i] = e
      /\ \A j \in Shards \ {i} :
            child'[j] = child[j] /\ ran'[j] = ran[j] /\ evidence'[j] = evidence[j]
  BY <1>1, <1>2 DEF TypeOK
<1>6. ~(artifact[i].clean /\ pc[i] \in {"unregister", "done"}) /\ i \notin confirmed
  BY <1>1, <1>2 DEF ArtifactMeaning, Alive
<1>7. WorkerPlaces'
  BY <1>1, <1>2, <1>5 DEF WorkerPlaces, Alive
<1>8. StartReleased'
  BY <1>1, <1>2, <1>5 DEF StartReleased, AllCalled
<1>9. ChildEvidence'
  <2>1. i \in seen' /\ seen' = seen /\ evidence[i] = "none" /\ ran[i] = {}
    BY <1>1, <1>2 DEF ChildEvidence
  <2>2. /\ i \notin seen' => child'[i] = "none"
        /\ evidence'[i] = "none" => ran'[i] = {}
        /\ evidence'[i] # "none" => child'[i] \in {"gone", "leftover"}
        /\ ran'[i] \subseteq Assigned(i)'
        /\ evidence'[i] = "complete" => ran'[i] = Assigned(i)'
    BY <1>2, <1>3, <1>5, <2>1
  <2> QED
    BY <1>1, <1>3, <1>5, <2>1, <2>2 DEF ChildEvidence
<1>10. ArtifactMeaning'
  <2>1. artifact[i].passed => S = Assigned(i)
    <3>1. ran[i] = {} /\ (artifact[i].passed => ran[i] = Assigned(i))
      BY <1>1, <1>2 DEF ArtifactMeaning, ChildEvidence
    <3> QED
      BY <1>2, <3>1
  <2> QED
    BY <1>1, <1>3, <1>5, <1>6, <2>1 DEF ArtifactMeaning, Ended
<1>11. CancelKnown'
  BY <1>1 DEF CancelKnown
<1>12. AnswerStands'
  BY <1>1, <1>2 DEF AnswerStands, Ended, Alive
<1> QED
  BY <1>4, <1>7, <1>8, <1>9, <1>10, <1>11, <1>12 DEF IInv

\* What the controller may do to the shards: end what is alive, remove their
\* roots and clear the registry, of workers that have ended where it says so.
ShardsKept ==
    /\ UNCHANGED <<nodes, called, evidence, ran, artifact, seen>>
    /\ child' \in [Shards -> ChildStates]
    /\ \A j \in Shards :
          /\ child'[j] \in {child[j], "gone"}
          /\ child[j] \notin Alive => child'[j] = child[j]
          /\ j \in confirmed' => j \in confirmed \/ (j \in Ended' /\ child'[j] \notin Alive)
          /\ pc'[j] = pc[j] \/ (pc[j] = "queued" /\ pc'[j] = "cancelled")
          /\ j \in collected' => pc'[j] = "done"
    /\ pc' \in [Shards -> Workers]
    /\ barrier' \in [Barriers -> {"filling", "draining", "broken"}]
    /\ barrier'["start"] = "draining" => barrier["start"] = "draining"
    /\ root' \subseteq root /\ active' \subseteq active /\ confirmed' \subseteq Shards
    /\ collected' \subseteq Shards

LEMMA ControllerKeeps ==
    ASSUME IInv, ShardsKept
    PROVE  WorkerPlaces' /\ StartReleased' /\ ChildEvidence' /\ ArtifactMeaning'
<1>1. /\ TypeOK /\ WorkerPlaces /\ StartReleased /\ ChildEvidence /\ ArtifactMeaning
  BY DEF IInv
<1> USE DEF ShardsKept
<1>2. WorkerPlaces'
  BY <1>1 DEF WorkerPlaces, Alive
<1>3. StartReleased'
  BY <1>1 DEF StartReleased, AllCalled
<1>4. ChildEvidence'
  BY <1>1 DEF ChildEvidence, Assigned, Alive
<1>5. ArtifactMeaning'
  BY <1>1 DEF ArtifactMeaning, Assigned, Ended, Alive
<1> QED
  BY <1>2, <1>3, <1>4, <1>5

LEMMA DeadlineStep == ASSUME IInv, Deadline PROVE IInv'
<1>1. TypeOK /\ CancelKnown /\ AnswerStands /\ ArtifactMeaning
      /\ UNCHANGED <<nodes, pc, called, childVars, root, registry, artifact, barrier,
                     cancel, ctl, collected, result>> /\ expired' = TRUE
  BY DEF IInv, Deadline
<1> USE DEF registry, childVars
<1>2. TypeOK'
  BY <1>1 DEF TypeOK
<1>3. ShardsKept
  BY <1>1 DEF ShardsKept, TypeOK, ChildStates, Barriers, ArtifactMeaning
<1>4. CancelKnown' /\ AnswerStands'
  BY <1>1 DEF CancelKnown, AnswerStands, Ended, Assigned
<1> QED
  BY <1>2, <1>3, <1>4, ControllerKeeps DEF IInv

LEMMA CollectStep == ASSUME IInv, NEW i \in Shards, Collect(i) PROVE IInv'
<1>1. /\ TypeOK /\ CancelKnown /\ AnswerStands /\ ArtifactMeaning /\ ChildEvidence
      /\ ctl \in {"wait", "grace"} /\ pc[i] = "done"
      /\ collected' = collected \union {i}
      /\ ctl' = IF ctl = "wait" /\ ~artifact[i].passed THEN "stop"
                ELSE IF collected' = Shards THEN "assess" ELSE ctl
      /\ UNCHANGED <<nodes, pc, called, evidence, ran, artifact, barrier, expired, cancel, result>>
  BY DEF IInv, Collect
<1>2. /\ \E clean \in BOOLEAN : CleanedUp(i, clean)
      /\ seen' = seen /\ active' \subseteq active
      /\ confirmed' = confirmed \/ (child'[i] \notin Alive /\ confirmed' = confirmed \union {i})
  <2>1. CASE UNCHANGED <<child, root, registry>>
    <3>1. CleanedUp(i, FALSE)
      BY <1>1, <2>1 DEF CleanedUp, TypeOK, ChildStates
    <3> QED
      BY <2>1, <3>1 DEF registry
  <2>2. CASE \E clean \in BOOLEAN : ForceCleanup(i, clean)
    <3>1. PICK clean \in BOOLEAN : ForceCleaned(i, clean)
      BY <1>1, <2>2, ForceCleanupFacts
    <3> QED
      BY <3>1 DEF ForceCleaned, CleanedUp
  <2> QED
    BY <2>1, <2>2 DEF Collect
<1>3. ShardsKept
  BY <1>1, <1>2 DEF ShardsKept, CleanedUp, TypeOK, Barriers, ArtifactMeaning, Ended
<1>4. TypeOK'
  BY <1>1, <1>3 DEF TypeOK, ShardsKept, ChildStates
<1>5. CancelKnown'
  BY <1>1 DEF CancelKnown
<1>6. AnswerStands'
  BY <1>1 DEF AnswerStands
<1> QED
  BY <1>3, <1>4, <1>5, <1>6, ControllerKeeps DEF IInv

LEMMA StopStep == ASSUME IInv, Stop PROVE IInv'
<1>1. /\ TypeOK /\ CancelKnown /\ AnswerStands /\ ArtifactMeaning
      /\ ctl = "stop" /\ cancel' = TRUE
      /\ barrier' = [b \in Barriers |-> "broken"]
      /\ ctl' = IF collected = Shards THEN "assess" ELSE "grace"
      /\ UNCHANGED <<nodes, pc, called, evidence, ran, root, registry, artifact,
                     expired, collected, result>>
  BY DEF IInv, Stop, TerminateActive, Abort, Barriers
<1>2. PICK S \in SUBSET active : child' = Killed(S)
  BY DEF Stop, TerminateActive
<1> USE DEF registry
<1>3. ShardsKept
  BY <1>1, <1>2, KilledFacts DEF ShardsKept, TypeOK, Barriers, ArtifactMeaning
<1>4. TypeOK'
  BY <1>1, <1>3 DEF TypeOK, ShardsKept, ChildStates, Barriers
<1>5. CancelKnown' /\ AnswerStands'
  BY <1>1 DEF CancelKnown, AnswerStands
<1> QED
  BY <1>3, <1>4, <1>5, ControllerKeeps DEF IInv

LEMMA TimeOutStep == ASSUME IInv, TimeOut PROVE IInv'
<1>1. /\ TypeOK /\ CancelKnown /\ AnswerStands /\ ArtifactMeaning
      /\ ctl \in {"wait", "grace"} /\ cancel' = TRUE
      /\ barrier' = [b \in Barriers |-> "broken"]
      /\ pc' = [i \in Shards |-> IF pc[i] = "queued" THEN "cancelled" ELSE pc[i]]
      /\ ctl' = "drain"
      /\ UNCHANGED <<nodes, called, evidence, ran, root, registry, artifact, expired,
                     collected, result>>
  BY DEF IInv, TimeOut, TerminateActive, Abort, Barriers
<1>2. PICK S \in SUBSET active : child' = Killed(S)
  BY DEF TimeOut, TerminateActive
<1> USE DEF registry
<1>3. ShardsKept
  BY <1>1, <1>2, KilledFacts DEF ShardsKept, TypeOK, Barriers, ArtifactMeaning, Workers
<1>4. TypeOK'
  BY <1>1, <1>3 DEF TypeOK, ShardsKept, ChildStates, Barriers
<1>5. CancelKnown' /\ AnswerStands'
  BY <1>1 DEF CancelKnown, AnswerStands
<1> QED
  BY <1>3, <1>4, <1>5, ControllerKeeps DEF IInv

\* After a timeout the answer claims termination only when every worker has
\* ended and every shard is confirmed, was never seen, or is cleaned up now.
LEMMA EndDrainStep == ASSUME IInv, EndDrain PROVE IInv'
<1>1. /\ TypeOK /\ CancelKnown /\ AnswerStands /\ ArtifactMeaning /\ ChildEvidence
      /\ ctl = "drain" /\ ctl' = "returned"
      /\ UNCHANGED <<nodes, pc, called, evidence, ran, seen, artifact, barrier,
                     expired, cancel, collected>>
  BY DEF IInv, EndDrain
<1>2. PICK clean \in SUBSET (Ended \intersect active), joined \in BOOLEAN :
          LET cleaned == confirmed \union (Ended \ seen) \union clean
          IN  /\ joined => Ended = Shards
              /\ child' = Killed(clean) /\ root' = root \ clean
              /\ active' = active \ Ended
              /\ confirmed' = cleaned
              /\ result' = [returned |-> TRUE, passed |-> FALSE,
                   terminated |-> joined /\ cleaned = Shards
                      /\ \A i \in Shards : pc[i] = "cancelled" \/ artifact[i].clean]
  BY DEF EndDrain
<1>3. Ended' = Ended /\ Ended \subseteq Shards
  BY <1>1 DEF Ended
<1>4. \A j \in Shards : j \in confirmed' => j \in Ended /\ child'[j] \notin Alive
  BY <1>1, <1>2, KilledFacts DEF ArtifactMeaning, ChildEvidence, Alive
<1>5. ShardsKept
  BY <1>1, <1>2, <1>3, <1>4, KilledFacts DEF ShardsKept, TypeOK, Barriers, ArtifactMeaning
<1> DEFINE t == /\ joined /\ confirmed' = Shards
                /\ \A i \in Shards : pc[i] = "cancelled" \/ artifact[i].clean
<1>6. result' = [returned |-> TRUE, passed |-> FALSE, terminated |-> t]
  BY <1>2
<1>7. t \in BOOLEAN /\ (t => confirmed' = Shards)
  OBVIOUS
<1> HIDE DEF t
<1>8. TypeOK'
  BY <1>1, <1>5, <1>6, <1>7 DEF TypeOK, ShardsKept, ChildStates, Barriers
<1>9. CancelKnown'
  BY <1>1 DEF CancelKnown
<1>10. AnswerStands'
  BY <1>1, <1>3, <1>4, <1>6, <1>7 DEF AnswerStands
<1> QED
  BY <1>5, <1>8, <1>9, <1>10, ControllerKeeps DEF IInv

\* When all futures are resolved, each artifact says what its shard did.
LEMMA AssessStep == ASSUME IInv, Assess PROVE IInv'
<1>1. /\ TypeOK /\ CancelKnown /\ AnswerStands /\ ArtifactMeaning
      /\ ctl = "assess" /\ ctl' = "returned" /\ collected = Shards
      /\ UNCHANGED <<nodes, pc, called, childVars, root, registry, artifact, barrier,
                     expired, cancel, collected>>
  BY DEF IInv, Assess, CancelKnown
<1> DEFINE clean == \A i \in Shards : artifact[i].clean
           passing == /\ \A i \in Shards : artifact[i].passed
                      /\ clean /\ active = {} /\ confirmed = Shards /\ root = {}
                      /\ Covered
<1>2. PICK p \in BOOLEAN :
         /\ p => passing
         /\ result' = [returned |-> TRUE, passed |-> p, terminated |-> clean]
  BY DEF Assess
<1> USE DEF registry, childVars
<1>3. clean \in BOOLEAN
  OBVIOUS
<1>4. clean => \A i \in Shards : i \in Ended' /\ child'[i] \notin Alive
  BY <1>1 DEF ArtifactMeaning, Ended
<1>5. p => /\ \A i \in Shards : /\ pc'[i] = "done" /\ child'[i] \notin Alive
                                 /\ ran'[i] = Assigned(i)'
           /\ root' = {} /\ ~cancel'
  BY <1>1, <1>2 DEF ArtifactMeaning, CancelKnown, Assigned
<1> HIDE DEF clean
<1>6. result' \in [returned : BOOLEAN, passed : BOOLEAN, terminated : BOOLEAN]
      /\ result'.passed = p /\ result'.terminated = clean
  BY <1>2, <1>3
<1> HIDE DEF passing
<1>7. TypeOK'
  BY <1>1, <1>6 DEF TypeOK
<1>8. ShardsKept
  BY <1>1 DEF ShardsKept, TypeOK, ChildStates, Barriers, ArtifactMeaning
<1>9. CancelKnown'
  BY <1>1 DEF CancelKnown
<1>10. AnswerStands'
  BY <1>1, <1>4, <1>5, <1>6 DEF AnswerStands
<1> QED
  BY <1>7, <1>8, <1>9, <1>10, ControllerKeeps DEF IInv

LEMMA ExitStep == ASSUME IInv, Exit \/ UNCHANGED vars PROVE IInv'
<1>1. /\ TypeOK /\ CancelKnown /\ AnswerStands /\ ArtifactMeaning
      /\ \/ ctl' = ctl
         \/ ctl = "returned" /\ ctl' = "exited"
      /\ UNCHANGED <<nodes, pc, called, childVars, root, registry, artifact, barrier,
                     expired, cancel, collected, result>>
  BY DEF IInv, Exit, vars, controllerVars
<1> USE DEF registry, childVars
<1>2. TypeOK'
  BY <1>1 DEF TypeOK
<1>3. ShardsKept
  BY <1>1 DEF ShardsKept, TypeOK, ChildStates, Barriers, ArtifactMeaning
<1>4. CancelKnown' /\ AnswerStands'
  BY <1>1 DEF CancelKnown, AnswerStands, Ended, Assigned
<1> QED
  BY <1>2, <1>3, <1>4, ControllerKeeps DEF IInv

-----------------------------------------------------------------------------
(* The theorems *)

LEMMA InitIInv == Init => IInv
<1> SUFFICES ASSUME Init PROVE IInv
  OBVIOUS
<1> USE DEF Init
<1>1. TypeOK
  <2>1. (\E n \in NodeCounts : nodes = 0..(n - 1)) /\ pc \in [Shards -> Workers]
        /\ called \in [Shards -> 0..2]
    BY DEF Workers
  <2>2. child \in [Shards -> {"none", "gone"} \union Alive] /\ ran \in [Shards -> SUBSET nodes]
        /\ evidence \in [Shards -> {"none", "complete", "failed"}]
    OBVIOUS
  <2>3. artifact \in [Shards -> Artifact]
    BY DEF Artifact, Pending
  <2>4. barrier \in [{"readiness", "start"} -> {"filling", "draining", "broken"}]
    OBVIOUS
  <2>5. result \in [returned : BOOLEAN, passed : BOOLEAN, terminated : BOOLEAN]
    BY DEF Running
  <2> QED
    BY <2>1, <2>2, <2>3, <2>4, <2>5 DEF TypeOK
<1>2. WorkerPlaces /\ StartReleased /\ ChildEvidence /\ ArtifactMeaning
  BY DEF WorkerPlaces, StartReleased, ChildEvidence, ArtifactMeaning, Pending, Assigned
<1>3. CancelKnown /\ AnswerStands
  BY DEF CancelKnown, AnswerStands, Running
<1> QED
  BY <1>1, <1>2, <1>3 DEF IInv

LEMMA Invariance == Spec => []IInv
<1>1. IInv /\ [Next]_vars => IInv'
  BY WorkerKeeps, ChildStep, DeadlineStep, CollectStep, StopStep, TimeOutStep, EndDrainStep,
     AssessStep, ExitStep DEF Next, Controller
<1> QED
  BY InitIInv, <1>1, PTL DEF Spec

\* The threads, process groups and registry of run_parallel_shards keep
\* their types.
THEOREM TypeCorrect == Spec => []TypeOK
BY Invariance, PTL DEF IInv

\* A shard's remainder is one shard, so a test is assigned to exactly one.
LEMMA AssignedOnce ==
    ASSUME NEW n \in nodes, nodes \subseteq Nat
    PROVE  Cardinality({i \in Shards : n \in Assigned(i)}) = 1
<1>1. ShardCount \in Nat \ {0} /\ n \in Nat
  BY ShardAssumption
<1>2. n % ShardCount \in Shards
  BY <1>1 DEF Shards
<1>3. {i \in Shards : n \in Assigned(i)} = {n % ShardCount}
  BY <1>2 DEF Assigned
<1> QED
  BY <1>3, FS_Singleton

\* run_parallel_shards, one_shard and run_pytest_shard: tests start on a
\* common boundary, and a run that passed ran every test once and left
\* nothing behind, for any number of shards.
THEOREM Sound == Spec => []SoundRun
<1>1. IInv => SoundRun
  <2> SUFFICES ASSUME IInv PROVE SoundRun
    OBVIOUS
  <2>1. TypeOK /\ StartReleased /\ AnswerStands
    BY DEF IInv
  <2>2. StartedTogether
    BY <2>1 DEF StartedTogether, StartReleased, AllCalled
  <2>3. nodes \subseteq Nat
    BY <2>1, ShardAssumption DEF TypeOK
  <2>4. ASSUME result.passed, NEW n \in nodes
        PROVE  Cardinality({i \in Shards : n \in ran[i]}) = 1
    <3>1. {i \in Shards : n \in ran[i]} = {i \in Shards : n \in Assigned(i)}
      BY <2>1, <2>4 DEF AnswerStands
    <3> QED
      BY <2>3, <3>1, AssignedOnce
  <2>5. PassMeansRunOnce
    BY <2>1, <2>4 DEF PassMeansRunOnce, AnswerStands
  <2> QED
    BY <2>2, <2>5 DEF SoundRun
<1> QED
  BY Invariance, <1>1, PTL

\* The answer of run_parallel_shards that everything has terminated is true,
\* also after its deadline.
THEOREM TerminationTrue == Spec => []TerminationClaimTrue
<1>1. IInv => TerminationClaimTrue
  BY DEF IInv, AnswerStands, TerminationClaimTrue
<1> QED
  BY Invariance, <1>1, PTL
=============================================================================
