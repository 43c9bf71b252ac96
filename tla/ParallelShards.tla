---------------------------- MODULE ParallelShards ----------------------------
(***************************************************************************)
(* The parallel acceptance run: a controller gives each shard of the test  *)
(* manifest to a worker thread, which runs one pytest child in a process   *)
(* group of its own; all children start together, and the run passes only  *)
(* if every test ran once and nothing is left behind.                      *)
(* backend/agents/acceptance_parallel_runner.py, acceptance_shard_runtime, *)
(* scripts/full_pytest_shard.py and full_pytest_shard_aggregate.py.        *)
(*                                                                         *)
(* Time is two flags: the controller's deadline may pass at any moment,    *)
(* and any shorter wait may time out at any moment.  Artifacts are reduced *)
(* to whether they pass and whether their cleanup was clean.               *)
(***************************************************************************)
EXTENDS Integers, FiniteSets

CONSTANTS ShardCount,   \* shards, and worker threads
          NodeCounts    \* sizes of the manifests that are run

ASSUME ShardAssumption ==
    ShardCount \in Nat \ {0} /\ NodeCounts \subseteq Nat

Shards == 0..(ShardCount - 1)

VARIABLES nodes,      \* the node ids of the manifest, by position
          pc,         \* where each worker is
          called,     \* callbacks called: 0 none, 1 readiness, 2 start
          child,      \* the process group of each shard
          evidence,   \* what the child's exit shows
          ran,        \* the node ids each child started
          root,       \* fixture roots that exist
          seen, active, confirmed,  \* runtime_seen, active_runtimes, cleanup_confirmed
          artifact,   \* what each worker has returned
          barrier,    \* readiness_barrier and start_barrier
          expired,    \* controller_deadline has passed
          cancel,     \* cancel_requested
          ctl,        \* where the controller is
          collected,  \* futures it has resolved
          result      \* what run_parallel_shards has returned

childVars == <<child, evidence, ran>>
registry == <<seen, active, confirmed>>
controllerVars == <<expired, cancel, ctl, collected, result>>
vars == <<nodes, pc, called, childVars, root, registry, artifact, barrier, controllerVars>>

Workers == {"queued", "allocate", "register", "launch", "handshake", "atReady",
            "released", "atStart", "go", "communicate", "cleanup", "unregister",
            "done", "cancelled"}

Alive == {"booting", "ready", "running", "leftover"}

\* passed: pytest's outcome, then the artifact's; clean: _cleanup_ok.
Artifact == [passed : BOOLEAN, clean : BOOLEAN]

Pending == [passed |-> FALSE, clean |-> FALSE]

Running == [returned |-> FALSE, passed |-> FALSE, terminated |-> FALSE]

TypeOK ==
    /\ \E n \in NodeCounts : nodes = 0..(n - 1)
    /\ pc \in [Shards -> Workers]
    /\ called \in [Shards -> 0..2]
    /\ child \in [Shards -> {"none", "gone"} \union Alive]
    /\ evidence \in [Shards -> {"none", "complete", "failed"}]
    /\ ran \in [Shards -> SUBSET nodes]
    /\ root \subseteq Shards
    /\ seen \subseteq Shards /\ active \subseteq seen /\ confirmed \subseteq Shards
    /\ artifact \in [Shards -> Artifact]
    /\ barrier \in [{"readiness", "start"} -> {"filling", "draining", "broken"}]
    /\ expired \in BOOLEAN /\ cancel \in BOOLEAN
    /\ ctl \in {"wait", "stop", "grace", "drain", "assess", "returned", "exited"}
    /\ collected \subseteq Shards
    /\ result \in [returned : BOOLEAN, passed : BOOLEAN, terminated : BOOLEAN]

Init ==
    /\ \E n \in NodeCounts : nodes = 0..(n - 1)
    /\ pc = [i \in Shards |-> "queued"]
    /\ called = [i \in Shards |-> 0]
    /\ child = [i \in Shards |-> "none"]
    /\ evidence = [i \in Shards |-> "none"]
    /\ ran = [i \in Shards |-> {}]
    /\ root = {} /\ seen = {} /\ active = {} /\ confirmed = {}
    /\ artifact = [i \in Shards |-> Pending]
    /\ barrier = [b \in {"readiness", "start"} |-> "filling"]
    /\ expired = FALSE /\ cancel = FALSE
    /\ ctl = "wait" /\ collected = {} /\ result = Running

\* select_shard_nodeids
Assigned(i) == {p \in nodes : p % ShardCount = i}

-----------------------------------------------------------------------------
(* Helpers of both threads *)

Go(i, step) == pc' = [pc EXCEPT ![i] = step]

Abort == barrier' = [b \in {"readiness", "start"} |-> "broken"]

\* SIGKILL to the groups of some shards: what does not die now may be killed
\* by a cleanup.
Killed(S) ==
    [i \in Shards |-> IF i \in S /\ child[i] \in Alive THEN "gone" ELSE child[i]]

\* ShardRuntime.cleanup of shard i: everything gone, or a report that says
\* something is left.
RuntimeCleanup(i, clean) ==
    \/ /\ clean
       /\ child' = Killed({i}) /\ root' = root \ {i}
    \/ /\ ~clean
       /\ child' \in {child, Killed({i})} /\ root' \in {root, root \ {i}}

\* force_cleanup of shard i by its own worker, or after that has ended.
ForceCleanup(i, clean) ==
    \/ /\ i \in confirmed /\ clean
       /\ UNCHANGED <<child, root, registry>>
    \/ /\ i \notin confirmed /\ i \notin active
       /\ clean = (i \notin seen)
       /\ confirmed' = IF clean THEN confirmed \union {i} ELSE confirmed
       /\ UNCHANGED <<child, root, seen, active>>
    \/ /\ i \notin confirmed /\ i \in active
       /\ RuntimeCleanup(i, clean)
       /\ active' = active \ {i}
       /\ confirmed' = IF clean THEN confirmed \union {i} ELSE confirmed
       /\ UNCHANGED seen

Return(i, passed, clean) ==
    /\ artifact' = [artifact EXCEPT ![i] = [passed |-> passed, clean |-> clean]]
    /\ Go(i, "done")

\* one_shard's handlers: abort both barriers, clean up, return BLOCKED.
Raise(i) ==
    /\ Abort
    /\ \E clean \in BOOLEAN : ForceCleanup(i, clean) /\ Return(i, FALSE, clean)

-----------------------------------------------------------------------------
(* A worker: one_shard and run_pytest_shard *)

Begin(i) ==
    /\ pc[i] = "queued"
    /\ \/ ~cancel /\ ~expired /\ Go(i, "allocate")
          /\ UNCHANGED <<child, root, registry, artifact, barrier>>
       \/ cancel /\ Raise(i)
       \/ ~cancel /\ expired /\ Return(i, FALSE, TRUE)
          /\ UNCHANGED <<child, root, registry, barrier>>
    /\ UNCHANGED <<nodes, called, evidence, ran, controllerVars>>

\* The allocation may fail: a port that is taken is answered without a
\* confirmed termination, an OSError is one_shard's.
Allocate(i) ==
    /\ pc[i] = "allocate"
    /\ \/ root' = root \union {i} /\ Go(i, "register")
          /\ UNCHANGED <<child, registry, artifact, barrier>>
       \/ Abort /\ Return(i, FALSE, FALSE) /\ UNCHANGED <<child, root, registry>>
       \/ Raise(i)
    /\ UNCHANGED <<nodes, called, evidence, ran, controllerVars>>

\* observe_runtime("registered"); an empty shard goes to the callbacks.
Register_NotSeen(i) ==
    /\ pc[i] = "register" /\ ~cancel
    /\ active' = active \union {i}
    /\ Go(i, IF Assigned(i) = {} THEN "handshake" ELSE "launch")
    /\ UNCHANGED <<nodes, called, childVars, root, seen, confirmed, artifact, barrier,
                   controllerVars>>
Register(i) ==
    /\ pc[i] = "register"
    /\ IF cancel
       THEN /\ seen' = seen \union {i}
            /\ Abort
            /\ \E clean \in BOOLEAN :
                  /\ RuntimeCleanup(i, clean)
                  /\ confirmed' = IF clean THEN confirmed \union {i} ELSE confirmed
                  /\ Return(i, FALSE, clean)
            /\ UNCHANGED active
       ELSE /\ seen' = seen \union {i} /\ active' = active \union {i}
            /\ Go(i, IF Assigned(i) = {} THEN "handshake" ELSE "launch")
            /\ UNCHANGED <<child, root, confirmed, artifact, barrier>>
    /\ UNCHANGED <<nodes, called, evidence, ran, controllerVars>>

Launch(i) ==
    /\ pc[i] = "launch"
    /\ \/ child' = [child EXCEPT ![i] = "booting"] /\ Go(i, "handshake")
       \/ child' = child /\ Go(i, "cleanup")
    /\ UNCHANGED <<nodes, called, evidence, ran, root, registry, artifact, barrier, controllerVars>>

\* An exception out of a callback: run_pytest_shard turns it into a failure
\* and cleans up, but for an empty shard it is raised to one_shard.
CallbackFails(i) ==
    IF Assigned(i) = {} THEN Raise(i)
    ELSE Go(i, "cleanup") /\ UNCHANGED <<child, root, registry, artifact>>

Waiting(step) == {j \in Shards : pc[j] = step}

\* Barrier.wait: the last one releases the others, which wake one by one.
Arrive_OneShort(i, b, waitStep, nextStep) ==
    \/ /\ barrier[b] = "broken"
       /\ CallbackFails(i)
       /\ (Assigned(i) # {} => UNCHANGED barrier)
    \/ /\ barrier[b] = "filling" /\ Cardinality(Waiting(waitStep)) = ShardCount - 2
       /\ barrier' = [barrier EXCEPT ![b] = "draining"]
       /\ Go(i, nextStep)
       /\ UNCHANGED <<child, root, registry, artifact>>
    \/ /\ barrier[b] = "filling" /\ Cardinality(Waiting(waitStep)) # ShardCount - 2
       /\ Go(i, waitStep)
       /\ UNCHANGED <<child, root, registry, artifact, barrier>>
Arrive(i, b, waitStep, nextStep) ==
    \/ /\ barrier[b] = "broken"
       /\ CallbackFails(i)
       /\ (Assigned(i) # {} => UNCHANGED barrier)
    \/ /\ barrier[b] = "filling" /\ Cardinality(Waiting(waitStep)) = ShardCount - 1
       /\ barrier' = [barrier EXCEPT ![b] = "draining"]
       /\ Go(i, nextStep)
       /\ UNCHANGED <<child, root, registry, artifact>>
    \/ /\ barrier[b] = "filling" /\ Cardinality(Waiting(waitStep)) # ShardCount - 1
       /\ Go(i, waitStep)
       /\ UNCHANGED <<child, root, registry, artifact, barrier>>

\* A waiter wakes when the barrier is released, or raises when it is broken
\* first, even after the release; at the deadline it breaks the barrier.
Wake(i, b, waitStep, nextStep) ==
    /\ pc[i] = waitStep
    /\ \/ /\ barrier[b] = "draining" /\ Go(i, nextStep)
          /\ UNCHANGED <<child, root, registry, artifact, barrier>>
       \/ /\ barrier[b] = "broken" \/ (barrier[b] = "filling" /\ expired)
          /\ CallbackFails(i)
          /\ (Assigned(i) # {} => barrier' = [barrier EXCEPT ![b] = "broken"])
    /\ UNCHANGED <<nodes, called, evidence, ran, controllerVars>>

\* complete_port_handoff up to the readiness callback.
Handshake(i) ==
    /\ pc[i] = "handshake"
    /\ \/ /\ child[i] = "ready" \/ Assigned(i) = {}
          /\ called' = [called EXCEPT ![i] = 1]
          /\ Arrive(i, "readiness", "atReady", "released")
       \/ /\ Assigned(i) # {}
          /\ Go(i, "cleanup")
          /\ UNCHANGED <<called, child, root, registry, artifact, barrier>>
    /\ UNCHANGED <<nodes, evidence, ran, controllerVars>>

\* child_start
Start(i) ==
    /\ pc[i] = "released"
    /\ called' = [called EXCEPT ![i] = 2]
    /\ \/ expired /\ CallbackFails(i) /\ (Assigned(i) # {} => UNCHANGED barrier)
       \/ ~expired /\ Arrive(i, "start", "atStart", "go")
    /\ UNCHANGED <<nodes, evidence, ran, controllerVars>>

\* START is written; the pipe of a child that is gone is broken.
WriteStart(i) ==
    /\ pc[i] = "go"
    /\ \/ /\ child[i] = "ready"
          /\ child' = [child EXCEPT ![i] = "running"] /\ Go(i, "communicate")
       \/ /\ child[i] # "ready"
          /\ Go(i, "cleanup") /\ UNCHANGED child
    /\ UNCHANGED <<nodes, called, evidence, ran, root, registry, artifact, barrier, controllerVars>>

\* The child has ended, or the shard's timeout has passed.
Communicate(i) ==
    /\ pc[i] = "communicate"
    /\ \/ child[i] \in {"gone", "leftover"} /\ UNCHANGED child
          /\ artifact' = [artifact EXCEPT ![i].passed = (evidence[i] = "complete")]
       \/ child' \in {child, Killed({i})} /\ UNCHANGED artifact
    /\ Go(i, "cleanup")
    /\ UNCHANGED <<nodes, called, evidence, ran, root, registry, barrier, controllerVars>>

\* cleanup_once: a cleanup that is not clean turns the artifact to BLOCKED.
\* The runtime of an empty shard is never unregistered.
Cleanup(i) ==
    /\ pc[i] = "cleanup"
    /\ \E clean \in BOOLEAN :
          LET passed == clean /\ (artifact[i].passed \/ Assigned(i) = {})
          IN  /\ RuntimeCleanup(i, clean)
              /\ artifact' = [artifact EXCEPT ![i] = [passed |-> passed, clean |-> clean]]
              /\ Go(i, IF Assigned(i) = {} THEN "done" ELSE "unregister")
    /\ UNCHANGED <<nodes, called, evidence, ran, registry, barrier, controllerVars>>

\* observe_runtime("unregistered"), and the end of one_shard: a shard that
\* fails before its start callback aborts the barriers.
Unregister(i) ==
    /\ pc[i] = "unregister"
    /\ active' = active \ {i}
    /\ confirmed' = IF artifact[i].clean THEN confirmed \union {i} ELSE confirmed
    /\ IF ~artifact[i].passed /\ called[i] < 2 THEN Abort ELSE UNCHANGED barrier
    /\ Go(i, "done")
    /\ UNCHANGED <<nodes, called, childVars, root, seen, artifact, controllerVars>>

Worker(i) ==
    /\ ctl # "exited"
    /\ \/ Begin(i) \/ Allocate(i) \/ Register(i) \/ Launch(i) \/ Handshake(i)
       \/ Wake(i, "readiness", "atReady", "released")
       \/ Start(i)
       \/ Wake(i, "start", "atStart", "go")
       \/ WriteStart(i) \/ Communicate(i) \/ Cleanup(i) \/ Unregister(i)

-----------------------------------------------------------------------------
(* The children *)

\* The child adopts the reserved sockets and writes READY.
ChildReady(i) ==
    /\ child[i] = "booting"
    /\ child' = [child EXCEPT ![i] = "ready"]
    /\ UNCHANGED <<evidence, ran>>

\* pytest ends: every assigned test started and none failed, or some of them
\* started.  Processes of its group may outlive it.
ChildEnds(i) ==
    /\ child[i] = "running"
    /\ child' \in {[child EXCEPT ![i] = "gone"], [child EXCEPT ![i] = "leftover"]}
    /\ \/ ran' = [ran EXCEPT ![i] = Assigned(i)]
          /\ evidence' = [evidence EXCEPT ![i] = "complete"]
       \/ \E S \in SUBSET Assigned(i) : ran' = [ran EXCEPT ![i] = S]
          /\ evidence' = [evidence EXCEPT ![i] = "failed"]

\* It dies, or gives up waiting for START.
ChildDies(i) ==
    /\ child[i] \in {"booting", "ready"}
    /\ child' = [child EXCEPT ![i] = "gone"]
    /\ UNCHANGED <<evidence, ran>>

Child(i) ==
    /\ ChildReady(i) \/ ChildEnds(i) \/ ChildDies(i)
    /\ UNCHANGED <<nodes, pc, called, root, registry, artifact, barrier, controllerVars>>

-----------------------------------------------------------------------------
(* The controller: run_parallel_shards *)

Deadline ==
    /\ ~expired
    /\ expired' = TRUE
    /\ UNCHANGED <<nodes, pc, called, childVars, root, registry, artifact, barrier,
                   cancel, ctl, collected, result>>

\* terminate_active_runtimes
TerminateActive ==
    /\ cancel' = TRUE
    /\ Abort
    /\ \E S \in SUBSET active : child' = Killed(S)

\* resolve_future; the first shard that has not passed stops the others.
Collect(i) ==
    /\ ctl \in {"wait", "grace"} /\ pc[i] = "done" /\ i \notin collected
    /\ collected' = collected \union {i}
    /\ \/ artifact[i].clean /\ UNCHANGED <<child, root, registry>>
       \/ ~artifact[i].clean /\ \E clean \in BOOLEAN : ForceCleanup(i, clean)
    /\ ctl' = IF ctl = "wait" /\ ~artifact[i].passed THEN "stop"
              ELSE IF collected' = Shards THEN "assess" ELSE ctl
    /\ UNCHANGED <<nodes, pc, called, evidence, ran, artifact, barrier, expired,
                   cancel, result>>

Stop ==
    /\ ctl = "stop"
    /\ TerminateActive
    /\ ctl' = IF collected = Shards THEN "assess" ELSE "grace"
    /\ UNCHANGED <<nodes, pc, called, evidence, ran, root, registry, artifact,
                   expired, collected, result>>

\* The deadline, or the end of the grace a failed shard gives the others:
\* what has not begun is cancelled, the rest told to stop.
TimeOut ==
    /\ \/ ctl = "wait" /\ expired
       \/ ctl = "grace" /\ \E i \in Shards \ collected : pc[i] # "done"
    /\ TerminateActive
    /\ pc' = [i \in Shards |-> IF pc[i] = "queued" THEN "cancelled" ELSE pc[i]]
    /\ ctl' = "drain"
    /\ UNCHANGED <<nodes, called, evidence, ran, root, registry, artifact, expired,
                   collected, result>>

Ended == {i \in Shards : pc[i] \in {"done", "cancelled"}}

\* After a bounded wait: the runtimes of workers that have ended are cleaned
\* up, and the others stay unconfirmed.
EndDrain_EveryWorkerJoins ==
    /\ ctl = "drain" /\ Ended = Shards
    /\ ctl' = "returned"
    /\ result' = [returned |-> TRUE, passed |-> FALSE, terminated |-> FALSE]
    /\ UNCHANGED <<nodes, pc, called, childVars, root, registry, artifact, barrier,
                   expired, cancel, collected>>
EndDrain_CountsAllConfirmed ==
    /\ ctl = "drain"
    /\ ctl' = "returned"
    /\ result' = [returned |-> TRUE, passed |-> FALSE,
                  terminated |-> \A i \in Ended : pc[i] = "cancelled" \/ artifact[i].clean]
    /\ UNCHANGED <<nodes, pc, called, childVars, root, registry, artifact, barrier,
                   expired, cancel, collected>>
EndDrain ==
    /\ ctl = "drain"
    /\ \E clean \in SUBSET (Ended \intersect active), joined \in BOOLEAN :
          LET unseen == Ended \ seen
              cleaned == confirmed \union unseen \union clean
          IN  /\ joined => Ended = Shards
              /\ child' = Killed(clean)
              /\ root' = root \ clean
              /\ active' = active \ Ended
              /\ confirmed' = cleaned
              /\ result' = [returned |-> TRUE, passed |-> FALSE,
                   terminated |-> joined /\ cleaned = Shards
                      /\ \A i \in Shards : pc[i] = "cancelled" \/ artifact[i].clean]
    /\ ctl' = "returned"
    /\ UNCHANGED <<nodes, pc, called, evidence, ran, seen, artifact, barrier,
                   expired, cancel, collected>>

\* validate_shard_set: every node id in exactly one shard.
Covered ==
    /\ UNION {Assigned(i) : i \in Shards} = nodes
    /\ \A i, j \in Shards : i # j => Assigned(i) \intersect Assigned(j) = {}

\* All futures are resolved: the run passes when every shard has, and the
\* registry and the fixture roots are clear; writing the artifacts may fail.
Assess ==
    /\ ctl = "assess"
    /\ LET clean == \A i \in Shards : artifact[i].clean
           passing == /\ \A i \in Shards : artifact[i].passed
                      /\ clean /\ active = {} /\ confirmed = Shards /\ root = {}
                      /\ Covered
       IN  \E written \in BOOLEAN :
              result' = [returned |-> TRUE, passed |-> passing /\ written,
                         terminated |-> clean]
    /\ ctl' = "returned"
    /\ UNCHANGED <<nodes, pc, called, childVars, root, registry, artifact, barrier,
                   expired, cancel, collected>>

Controller ==
    \/ Deadline
    \/ \E i \in Shards : Collect(i)
    \/ Stop \/ TimeOut \/ EndDrain \/ Assess

\* The process ends with the caller, and its daemon workers with it.
Exit ==
    /\ ctl = "returned"
    /\ ctl' = "exited"
    /\ UNCHANGED <<nodes, pc, called, childVars, root, registry, artifact, barrier,
                   expired, cancel, collected, result>>

Next ==
    \/ \E i \in Shards : Worker(i) \/ Child(i)
    \/ Controller
    \/ Exit

\* Only the controller's waits are bounded by the code itself; nothing is
\* assumed of workers and children.
Spec == Init /\ [][Next]_vars /\ WF_vars(Controller)

-----------------------------------------------------------------------------
(* Properties *)

\* No test starts before every worker has been through both callbacks, even
\* when a barrier is aborted while its waiters wake.
StartedTogether ==
    \A i \in Shards : child[i] = "running" \/ ran[i] # {} =>
        \A j \in Shards : called[j] = 2

\* A run that passed started every test once, in one shard, and has left no
\* process and no fixture root; it was never stopped.
PassMeansRunOnce ==
    result.passed =>
        /\ \A n \in nodes : Cardinality({i \in Shards : n \in ran[i]}) = 1
        /\ \A i \in Shards : child[i] \notin Alive
        /\ root = {} /\ ~cancel

\* What a parallel run is compared by with the serial one: the tests, started
\* on a common boundary.
SoundRun == StartedTogether /\ PassMeansRunOnce

\* The answer says that all process groups have ended only when they have,
\* also after a timeout, when workers may still be running.
TerminationClaimTrue ==
    result.terminated => \A i \in Shards : child[i] \notin Alive

\* run_parallel_shards returns, whatever workers and children do or fail to do.
ControllerReturns == <>result.returned

=============================================================================
