----------------------------- MODULE UploadLease -----------------------------
(***************************************************************************)
(* The cross-process lease of backend/services/upload_lock_service.py.     *)
(*                                                                         *)
(* An operation is one call of acquire_upload_lease: it draws a fresh      *)
(* operation_id, so operations and calls are the same thing here.  The     *)
(* call takes an flock on <db>.lock (where the host has fcntl), then       *)
(* SQLite's BEGIN EXCLUSIVE on the coordination database, then replaces    *)
(* the owner file.  UploadLease.release undoes this: it unlinks the owner  *)
(* file if it is still its own, rolls the transaction back, and unlocks.   *)
(* A process may die at any point: the operating system then drops both    *)
(* locks, and the owner file stays.  An exception that no handler of       *)
(* acquire_upload_lease covers leaves the call with its locks: they go     *)
(* when the interpreter collects the handle and the connection.            *)
(***************************************************************************)

CONSTANTS Operations,   \* calls of acquire_upload_lease, those of the health
                        \* check's probe_upload_lease included
          None          \* no operation

ASSUME NoneAssumption == None \notin Operations

VARIABLES fcntlHost,    \* whether the host has the fcntl module
          flock,        \* operation holding the flock on <db>.lock
          exclusive,    \* operation holding SQLite's EXCLUSIVE lock
          ownerFile,    \* operation named by <db>_owner.json
          pc,           \* where each call stands
          leftover      \* operations whose release could not remove the file

vars == <<fcntlHost, flock, exclusive, ownerFile, pc, leftover>>

Ended == {"released", "busy", "failed", "dead"}

\* Left through an exception that no handler covers, nothing collected yet.
Escaped(o) == pc[o] = "escaped"

HoldsExclusive == {"exclusive", "held", "unlinking", "rollback", "abort"}

HoldsFlock == HoldsExclusive \union {"flocked", "refused", "unlock", "giveup"}

TypeOK ==
    /\ fcntlHost \in BOOLEAN
    /\ flock \in Operations \union {None}
    /\ exclusive \in Operations \union {None}
    /\ ownerFile \in Operations \union {None}
    /\ pc \in [Operations -> {"idle", "escaped"} \union HoldsFlock \union Ended]
    /\ leftover \subseteq Operations

Init ==
    /\ fcntlHost \in BOOLEAN
    /\ flock = None
    /\ exclusive = None
    /\ ownerFile = None
    /\ pc = [o \in Operations |-> "idle"]
    /\ leftover = {}

Goto(o, from, to) == pc[o] = from /\ pc' = [pc EXCEPT ![o] = to]

\* Closing the handle of <db>.lock: a no-op where there is none.
DropFlock(o) == flock' = IF flock = o THEN None ELSE flock

-----------------------------------------------------------------------------
(* acquire_upload_lease *)

\* Slip: the owner file is written before the lease is won.
TryFlock_OwnerFirst(o) ==
    /\ \/ /\ fcntlHost => flock = None
          /\ Goto(o, "idle", "flocked")
          /\ flock' = IF fcntlHost THEN o ELSE flock
          /\ ownerFile' = o
       \/ /\ fcntlHost /\ flock # None
          /\ Goto(o, "idle", "busy")
          /\ UNCHANGED <<flock, ownerFile>>
    /\ UNCHANGED <<fcntlHost, exclusive, leftover>>

\* Slip: an existing owner file counts as a running upload.
TryFlock_TrustsFile(o) ==
    /\ \/ /\ ownerFile = None /\ (fcntlHost => flock = None)
          /\ Goto(o, "idle", "flocked")
          /\ flock' = IF fcntlHost THEN o ELSE flock
       \/ /\ ownerFile # None \/ (fcntlHost /\ flock # None)
          /\ Goto(o, "idle", "busy")
          /\ UNCHANGED flock
    /\ UNCHANGED <<fcntlHost, exclusive, ownerFile, leftover>>

\* _acquire_process_lock: LOCK_EX | LOCK_NB, skipped without fcntl.
TryFlock(o) ==
    /\ \/ /\ ~fcntlHost
          /\ Goto(o, "idle", "flocked")
          /\ UNCHANGED flock
       \/ /\ fcntlHost /\ flock = None
          /\ Goto(o, "idle", "flocked")
          /\ flock' = o
       \/ /\ fcntlHost /\ flock # None          \* EACCES or EAGAIN
          /\ Goto(o, "idle", "busy")
          /\ UNCHANGED flock
       \/ /\ fcntlHost                          \* any other OSError
          /\ Goto(o, "idle", "failed")
          /\ UNCHANGED flock
    /\ UNCHANGED <<fcntlHost, exclusive, ownerFile, leftover>>

\* Slip: BEGIN instead of BEGIN EXCLUSIVE, which takes no lock.
BeginExclusive_Deferred(o) ==
    /\ Goto(o, "flocked", "exclusive")
    /\ UNCHANGED <<fcntlHost, flock, exclusive, ownerFile, leftover>>

\* sqlite3.connect and BEGIN EXCLUSIVE, which gives up after busy_timeout.
\* What is handled here is an error of connect and an OperationalError.
BeginExclusive(o) ==
    /\ \/ /\ exclusive = None
          /\ Goto(o, "flocked", "exclusive")
          /\ exclusive' = o
       \/ /\ exclusive # None                   \* "database is locked"
          /\ Goto(o, "flocked", "refused")
          /\ UNCHANGED exclusive
       \/ /\ Goto(o, "flocked", "giveup")       \* any other of these
          /\ UNCHANGED exclusive
    /\ UNCHANGED <<fcntlHost, flock, ownerFile, leftover>>

\* Slip: the lock file's handle is kept when the call fails.
UnlockAfterError_Leaks(o) ==
    /\ \/ Goto(o, "refused", "busy")
       \/ Goto(o, "giveup", "failed")
    /\ UNCHANGED <<fcntlHost, flock, exclusive, ownerFile, leftover>>

\* _release_process_lock on the error paths, before the exception leaves.
UnlockAfterError(o) ==
    /\ \/ Goto(o, "refused", "busy")
       \/ Goto(o, "giveup", "failed")
    /\ DropFlock(o)
    /\ UNCHANGED <<fcntlHost, exclusive, ownerFile, leftover>>

\* _write_owner: temporary file and os.replace, under both locks.
WriteOwner(o) ==
    /\ \/ /\ Goto(o, "exclusive", "held")
          /\ ownerFile' = o
       \/ /\ Goto(o, "exclusive", "abort")
          /\ UNCHANGED ownerFile
    /\ UNCHANGED <<fcntlHost, flock, exclusive, leftover>>

\* Slip: the transaction stays open when the owner cannot be written.
AbortRollback_KeepsTransaction(o) ==
    /\ Goto(o, "abort", "giveup")
    /\ UNCHANGED <<fcntlHost, flock, exclusive, ownerFile, leftover>>

\* The owner could not be written: connection.rollback() and close().
AbortRollback(o) ==
    /\ Goto(o, "abort", "giveup")
    /\ exclusive' = None
    /\ UNCHANGED <<fcntlHost, flock, ownerFile, leftover>>

\* The exceptions without a handler: a sqlite3.DatabaseError of the PRAGMA or
\* of BEGIN EXCLUSIVE (the file is no database), any error while the operation
\* is built, and a rollback that raises itself.
Escape(o) ==
    /\ \/ Goto(o, "flocked", "escaped")
       \/ Goto(o, "exclusive", "escaped")
       \/ Goto(o, "abort", "escaped")
    /\ UNCHANGED <<fcntlHost, flock, exclusive, ownerFile, leftover>>

\* The traceback is dropped, and with it the handle and the connection; when
\* that happens the callers of the lease do not decide.
Collect(o) ==
    /\ Goto(o, "escaped", "failed")
    /\ DropFlock(o)
    /\ exclusive' = IF exclusive = o THEN None ELSE exclusive
    /\ UNCHANGED <<fcntlHost, ownerFile, leftover>>

-----------------------------------------------------------------------------
(* UploadLease.release *)

\* Slip: the locks are given up before the owner file is removed.
CompareOwner_UnlocksFirst(o) ==
    /\ ownerFile = o
    /\ Goto(o, "held", "unlinking")
    /\ DropFlock(o)
    /\ exclusive' = None
    /\ UNCHANGED <<fcntlHost, ownerFile, leftover>>

\* Reads the owner file and compares its operation_id; an unreadable file
\* reads as {} and is then left in place.
CompareOwner(o) ==
    /\ \/ /\ ownerFile = o
          /\ Goto(o, "held", "unlinking")
          /\ UNCHANGED leftover
       \/ /\ Goto(o, "held", "rollback")
          /\ leftover' = leftover \union {o}
    /\ UNCHANGED <<fcntlHost, flock, exclusive, ownerFile>>

\* Slip: the path is emptied instead of removed.
Unlink_Empties(o) ==
    /\ Goto(o, "unlinking", "rollback")
    /\ ownerFile' = {}
    /\ UNCHANGED <<fcntlHost, flock, exclusive, leftover>>

\* unlink removes the path, whatever it holds by now; an OSError is swallowed.
Unlink(o) ==
    /\ Goto(o, "unlinking", "rollback")
    /\ \/ ownerFile' = None /\ UNCHANGED leftover
       \/ leftover' = leftover \union {o} /\ UNCHANGED ownerFile
    /\ UNCHANGED <<fcntlHost, flock, exclusive>>

ReleaseRollback(o) ==
    /\ Goto(o, "rollback", "unlock")
    /\ exclusive' = None
    /\ UNCHANGED <<fcntlHost, flock, ownerFile, leftover>>

ReleaseFlock(o) ==
    /\ Goto(o, "unlock", "released")
    /\ DropFlock(o)
    /\ UNCHANGED <<fcntlHost, exclusive, ownerFile, leftover>>

-----------------------------------------------------------------------------

\* The process dies and the operating system drops its locks.
Crash(o) ==
    /\ pc[o] \in HoldsFlock \union {"escaped"}
    /\ pc' = [pc EXCEPT ![o] = "dead"]
    /\ DropFlock(o)
    /\ exclusive' = IF exclusive = o THEN None ELSE exclusive
    /\ UNCHANGED <<fcntlHost, ownerFile, leftover>>

\* What a started call does next.
Continue(o) ==
    \/ BeginExclusive(o) \/ UnlockAfterError(o)
    \/ WriteOwner(o) \/ AbortRollback(o) \/ Escape(o)
    \/ CompareOwner(o) \/ Unlink(o)
    \/ ReleaseRollback(o) \/ ReleaseFlock(o)

Next == \E o \in Operations : TryFlock(o) \/ Continue(o) \/ Collect(o) \/ Crash(o)

Spec == Init /\ [][Next]_vars

\* A started call runs on: nothing in it waits without a timeout, and every
\* caller leaves the lease through "with" or "finally".  Nothing is assumed of
\* the collection of what an escaped call has left behind.
FairSpec == Spec /\ \A o \in Operations : WF_vars(Continue(o))

-----------------------------------------------------------------------------
(* Properties *)

InProgress(o) == pc[o] \in HoldsFlock

\* This step finds a lock taken: the call will raise UploadBusyError.
FindsLocked(o) ==
    /\ pc[o] \in {"idle", "flocked"}
    /\ pc'[o] \in {"busy", "refused"}

\* Two operations are never in the write section together, whether the host
\* has fcntl or relies on SQLite alone (acquire_upload_lease).
MutualExclusion ==
    \A o, q \in Operations : pc[o] = "held" /\ pc[q] = "held" => o = q

\* Every refusal, handled error, release and death gives both locks back: who
\* holds one is still in its call, or left it through one of the exceptions
\* acquire_upload_lease has no handler for.
LocksGivenBack ==
    \A o \in Operations :
        flock = o \/ exclusive = o => InProgress(o) \/ Escaped(o)

\* The owner file names an operation that still holds the lease, or one whose
\* process died or whose release could not remove the file: the 409 answer
\* never names an upload that ended well.
OwnerFileExplained ==
    ownerFile # None =>
        \/ pc[ownerFile] \in {"held", "unlinking", "dead"}
        \/ ownerFile \in leftover

\* release() reads the owner file and then unlinks the path: no other
\* operation's record is ever removed by the second step.
UnlinksOnlyOwnRecord ==
    [][\A o \in Operations :
          ownerFile = o /\ ownerFile' = None => pc[o] = "unlinking" /\ pc'[o] # pc[o]]_vars

\* A call is refused as busy only while another call is in progress, or has
\* left its locks to the interpreter: the owner file a dead process left behind
\* refuses nobody.
BusyOnlyWhileContended ==
    [][\A o \in Operations :
          FindsLocked(o) => \E q \in Operations \ {o} : InProgress(q) \/ Escaped(q)]_vars

\* The locks of a call come free again, whatever fails or dies on the way, but
\* for an exception without a handler.
LeaseFreedAgain ==
    \A o \in Operations :
        (flock = o \/ exclusive = o) ~> ((flock # o /\ exclusive # o) \/ Escaped(o))

Past == Ended \union {"escaped", "unlinking", "rollback", "unlock"}

\* The lease implements the exclusive write section.
Abstract == INSTANCE ExclusiveWriter WITH
    writers <- {o \in Operations : pc[o] = "held"},
    over <- {o \in Operations : pc[o] \in Past}

ImplementsExclusiveWriter == Abstract!Spec
=============================================================================
