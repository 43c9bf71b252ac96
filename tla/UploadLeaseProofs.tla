-------------------------- MODULE UploadLeaseProofs --------------------------
(***************************************************************************)
(* The safety of the upload lease, for any number of operations.           *)
(***************************************************************************)
EXTENDS UploadLease, TLAPS

\* Each lock's holder is the operation whose program counter says so, or one
\* that escaped with it; on a host without fcntl nobody holds the flock.
LockInv ==
    /\ \A o \in Operations : pc[o] \in HoldsExclusive => exclusive = o
    /\ \A o \in Operations : exclusive = o => pc[o] \in HoldsExclusive \/ Escaped(o)
    /\ \A o \in Operations : fcntlHost /\ (pc[o] \in HoldsFlock \/ Escaped(o)) <=> flock = o

\* The owner file is explained, and an operation about to unlink the path
\* still finds its own record there.
OwnerInv ==
    /\ OwnerFileExplained
    /\ \A o \in Operations : pc[o] = "unlinking" => ownerFile = o

IInv == TypeOK /\ LockInv /\ OwnerInv

USE NoneAssumption

\* Every variable keeps its type (acquire_upload_lease, UploadLease.release).
THEOREM TypeCorrect == Spec => []TypeOK
<1>1. Init => TypeOK
  BY DEF Init, TypeOK
<1>2. TypeOK /\ [Next]_vars => TypeOK'
  <2> SUFFICES ASSUME TypeOK, [Next]_vars PROVE TypeOK'
    OBVIOUS
  <2> USE DEF TypeOK, Goto, DropFlock, HoldsExclusive, HoldsFlock, Ended, Escaped
  <2>1. ASSUME NEW o \in Operations, TryFlock(o) PROVE TypeOK'
    BY <2>1 DEF TryFlock
  <2>2. ASSUME NEW o \in Operations, BeginExclusive(o) PROVE TypeOK'
    BY <2>2 DEF BeginExclusive
  <2>3. ASSUME NEW o \in Operations, UnlockAfterError(o) PROVE TypeOK'
    BY <2>3 DEF UnlockAfterError
  <2>4. ASSUME NEW o \in Operations, WriteOwner(o) PROVE TypeOK'
    BY <2>4 DEF WriteOwner
  <2>5. ASSUME NEW o \in Operations, AbortRollback(o) PROVE TypeOK'
    BY <2>5 DEF AbortRollback
  <2>6. ASSUME NEW o \in Operations, CompareOwner(o) PROVE TypeOK'
    BY <2>6 DEF CompareOwner
  <2>7. ASSUME NEW o \in Operations, Unlink(o) PROVE TypeOK'
    BY <2>7 DEF Unlink
  <2>8. ASSUME NEW o \in Operations, ReleaseRollback(o) PROVE TypeOK'
    BY <2>8 DEF ReleaseRollback
  <2>9. ASSUME NEW o \in Operations, ReleaseFlock(o) PROVE TypeOK'
    BY <2>9 DEF ReleaseFlock
  <2>10. ASSUME NEW o \in Operations, Crash(o) PROVE TypeOK'
    BY <2>10 DEF Crash
  <2>11. ASSUME NEW o \in Operations, Escape(o) PROVE TypeOK'
    BY <2>11 DEF Escape
  <2>12. ASSUME NEW o \in Operations, Collect(o) PROVE TypeOK'
    BY <2>12 DEF Collect
  <2>13. CASE UNCHANGED vars
    BY <2>13 DEF vars
  <2>14. QED
    BY <2>1, <2>2, <2>3, <2>4, <2>5, <2>6, <2>7, <2>8, <2>9, <2>10, <2>11, <2>12, <2>13
       DEF Next, Continue
<1>3. QED
  BY <1>1, <1>2, PTL DEF Spec

LEMMA InvInit == Init => IInv
BY DEF Init, IInv, TypeOK, LockInv, OwnerInv, OwnerFileExplained,
       HoldsExclusive, HoldsFlock, Ended, Escaped

\* A step preserves who holds which lock.
LEMMA LockInvStep == TypeOK /\ LockInv /\ [Next]_vars => LockInv'
<1> SUFFICES ASSUME TypeOK, LockInv, [Next]_vars PROVE LockInv'
  OBVIOUS
<1> USE DEF TypeOK, LockInv, Goto, DropFlock, HoldsExclusive, HoldsFlock, Ended, Escaped
<1>1. ASSUME NEW o \in Operations, TryFlock(o) PROVE LockInv'
  BY <1>1 DEF TryFlock
<1>2. ASSUME NEW o \in Operations, BeginExclusive(o) PROVE LockInv'
  BY <1>2 DEF BeginExclusive
<1>3. ASSUME NEW o \in Operations, UnlockAfterError(o) PROVE LockInv'
  BY <1>3 DEF UnlockAfterError
<1>4. ASSUME NEW o \in Operations, WriteOwner(o) PROVE LockInv'
  BY <1>4 DEF WriteOwner
<1>5. ASSUME NEW o \in Operations, AbortRollback(o) PROVE LockInv'
  BY <1>5 DEF AbortRollback
<1>6. ASSUME NEW o \in Operations, CompareOwner(o) PROVE LockInv'
  BY <1>6 DEF CompareOwner
<1>7. ASSUME NEW o \in Operations, Unlink(o) PROVE LockInv'
  BY <1>7 DEF Unlink
<1>8. ASSUME NEW o \in Operations, ReleaseRollback(o) PROVE LockInv'
  BY <1>8 DEF ReleaseRollback
<1>9. ASSUME NEW o \in Operations, ReleaseFlock(o) PROVE LockInv'
  BY <1>9 DEF ReleaseFlock
<1>10. ASSUME NEW o \in Operations, Crash(o) PROVE LockInv'
  BY <1>10 DEF Crash
<1>11. ASSUME NEW o \in Operations, Escape(o) PROVE LockInv'
  BY <1>11 DEF Escape
<1>12. ASSUME NEW o \in Operations, Collect(o) PROVE LockInv'
  BY <1>12 DEF Collect
<1>13. CASE UNCHANGED vars
  BY <1>13 DEF vars
<1>14. QED
  BY <1>1, <1>2, <1>3, <1>4, <1>5, <1>6, <1>7, <1>8, <1>9, <1>10, <1>11, <1>12, <1>13
     DEF Next, Continue

\* A step keeps the owner file explained: the operations that write or unlink
\* it hold the EXCLUSIVE lock, so no two of them meet.
LEMMA OwnerInvStep == IInv /\ [Next]_vars => OwnerInv'
<1> SUFFICES ASSUME IInv, [Next]_vars PROVE OwnerInv'
  OBVIOUS
<1> USE DEF IInv, TypeOK, OwnerInv, OwnerFileExplained, Goto
<1>1. ASSUME NEW o \in Operations, TryFlock(o) PROVE OwnerInv'
  BY <1>1 DEF TryFlock
<1>2. ASSUME NEW o \in Operations, BeginExclusive(o) PROVE OwnerInv'
  BY <1>2 DEF BeginExclusive
<1>3. ASSUME NEW o \in Operations, UnlockAfterError(o) PROVE OwnerInv'
  BY <1>3 DEF UnlockAfterError
<1>4. ASSUME NEW o \in Operations, WriteOwner(o) PROVE OwnerInv'
  BY <1>4 DEF WriteOwner, LockInv, HoldsExclusive
<1>5. ASSUME NEW o \in Operations, AbortRollback(o) PROVE OwnerInv'
  BY <1>5 DEF AbortRollback
<1>6. ASSUME NEW o \in Operations, CompareOwner(o) PROVE OwnerInv'
  BY <1>6 DEF CompareOwner
<1>7. ASSUME NEW o \in Operations, Unlink(o) PROVE OwnerInv'
  BY <1>7 DEF Unlink, LockInv, HoldsExclusive
<1>8. ASSUME NEW o \in Operations, ReleaseRollback(o) PROVE OwnerInv'
  BY <1>8 DEF ReleaseRollback
<1>9. ASSUME NEW o \in Operations, ReleaseFlock(o) PROVE OwnerInv'
  BY <1>9 DEF ReleaseFlock
<1>10. ASSUME NEW o \in Operations, Crash(o) PROVE OwnerInv'
  BY <1>10 DEF Crash
<1>11. ASSUME NEW o \in Operations, Escape(o) PROVE OwnerInv'
  BY <1>11 DEF Escape
<1>12. ASSUME NEW o \in Operations, Collect(o) PROVE OwnerInv'
  BY <1>12 DEF Collect
<1>13. CASE UNCHANGED vars
  BY <1>13 DEF vars
<1>14. QED
  BY <1>1, <1>2, <1>3, <1>4, <1>5, <1>6, <1>7, <1>8, <1>9, <1>10, <1>11, <1>12, <1>13
     DEF Next, Continue

LEMMA InvariantHolds == Spec => []IInv
<1>1. IInv /\ [Next]_vars => LockInv'
  BY LockInvStep DEF IInv
<1>2. QED
  BY InvInit, OwnerInvStep, TypeCorrect, <1>1, PTL DEF Spec, IInv

\* Two upload operations are never in the write section together, on a host
\* with fcntl or without (acquire_upload_lease).
THEOREM LeaseMutualExclusion == Spec => []MutualExclusion
<1>1. IInv => MutualExclusion
  BY DEF IInv, LockInv, MutualExclusion, HoldsExclusive
<1>2. QED
  BY InvariantHolds, <1>1, PTL

\* No refusal, handled error, release or death leaves a lock behind: its holder
\* is in its call or escaped from it (acquire_upload_lease, UploadLease.release).
THEOREM LocksAreGivenBack == Spec => []LocksGivenBack
<1>1. IInv => LocksGivenBack
  BY DEF IInv, LockInv, LocksGivenBack, InProgress, HoldsFlock
<1>2. QED
  BY InvariantHolds, <1>1, PTL

\* The owner file never names an operation that released it.
THEOREM OwnerFileIsExplained == Spec => []OwnerFileExplained
<1>1. IInv => OwnerFileExplained
  BY DEF IInv, OwnerInv
<1>2. QED
  BY InvariantHolds, <1>1, PTL

\* UploadLease.release never removes another operation's owner record,
\* although it compares and unlinks in two steps.
THEOREM ReleaseUnlinksOwnRecord == Spec => UnlinksOnlyOwnRecord
<1> DEFINE OwnUnlink(o) ==
      ownerFile = o /\ ownerFile' = None => pc[o] = "unlinking" /\ pc'[o] # pc[o]
<1>1. IInv /\ [Next]_vars => \A o \in Operations : OwnUnlink(o)
  <2> SUFFICES ASSUME IInv, [Next]_vars, NEW o \in Operations,
                      ownerFile = o, ownerFile' = None
               PROVE  pc[o] = "unlinking" /\ pc'[o] # pc[o]
    OBVIOUS
  <2> USE DEF IInv, TypeOK, OwnerInv, Goto
  <2>1. PICK q \in Operations : Unlink(q)
    BY DEF Next, Continue, vars, TryFlock, BeginExclusive, UnlockAfterError,
           WriteOwner, AbortRollback, CompareOwner, ReleaseRollback, ReleaseFlock, Crash,
           Escape, Collect
  <2>2. q = o
    BY <2>1 DEF Unlink
  <2>3. QED
    BY <2>1, <2>2 DEF Unlink
<1>2. IInv /\ [Next]_vars => [\A o \in Operations : OwnUnlink(o)]_vars
  BY <1>1
<1>3. QED
  BY InvariantHolds, <1>2, PTL DEF Spec, UnlinksOnlyOwnRecord

\* A call is refused as busy only while another call is in progress or has
\* escaped: each lock found taken has a holder, and the holder is one of them.
THEOREM RefusedOnlyUnderContention == Spec => BusyOnlyWhileContended
<1> DEFINE Contended(o) == FindsLocked(o) => \E q \in Operations \ {o} : InProgress(q) \/ Escaped(q)
<1>1. IInv /\ [Next]_vars => \A o \in Operations : Contended(o)
  <2> SUFFICES ASSUME IInv, [Next]_vars, NEW o \in Operations, FindsLocked(o)
               PROVE  \E q \in Operations \ {o} : InProgress(q) \/ Escaped(q)
    OBVIOUS
  <2> USE DEF IInv, TypeOK, Goto, FindsLocked
  <2>1. PICK q \in Operations : TryFlock(q) \/ BeginExclusive(q)
    BY DEF Next, Continue, vars, UnlockAfterError, WriteOwner, AbortRollback,
           CompareOwner, Unlink, ReleaseRollback, ReleaseFlock, Crash, Escape, Collect
  <2>2. CASE TryFlock(q)
    <3>1. q = o /\ pc[o] = "idle" /\ fcntlHost /\ flock # None
      BY <2>2 DEF TryFlock
    <3>2. flock # o /\ (pc[flock] \in HoldsFlock \/ Escaped(flock))
      BY <3>1 DEF LockInv, HoldsFlock, HoldsExclusive, Escaped
    <3>3. QED
      BY <3>1, <3>2 DEF InProgress
  <2>3. CASE BeginExclusive(q)
    <3>1. q = o /\ exclusive # None
      BY <2>3 DEF BeginExclusive
    <3>2. exclusive # o /\ (pc[exclusive] \in HoldsExclusive \/ Escaped(exclusive))
      BY <3>1 DEF LockInv, HoldsExclusive, Escaped
    <3>3. QED
      BY <3>1, <3>2 DEF InProgress, HoldsFlock
  <2>4. QED
    BY <2>1, <2>2, <2>3
<1>2. IInv /\ [Next]_vars => [\A o \in Operations : Contended(o)]_vars
  BY <1>1
<1>3. QED
  BY InvariantHolds, <1>2, PTL DEF Spec, BusyOnlyWhileContended

-----------------------------------------------------------------------------
(* The refinement of ExclusiveWriter *)

Writers == {o \in Operations : pc[o] = "held"}
Over == {o \in Operations : pc[o] \in Past}

\* A step of the call o that leaves the others where they are, stated for the
\* abstract state: it enters, leaves, is refused, or nothing is seen of it.
LEMMA StepMaps ==
    ASSUME TypeOK, NEW o \in Operations, NEW to, pc' = [pc EXCEPT ![o] = to],
           \/ pc[o] = "exclusive" /\ to = "held" /\ Writers = {}
           \/ o \in Writers /\ to \in {"unlinking", "rollback", "dead"}
           \/ o \notin Writers \union Over /\ to \in Ended \union {"escaped"}
           \/ /\ (o \in Over) <=> (to \in Past)
              /\ pc[o] # "held" /\ to # "held"
    PROVE  Abstract!Next \/ UNCHANGED <<Writers, Over>>
<1> USE DEF TypeOK, Writers, Over, Past, Ended
<1>1. CASE pc[o] = "exclusive" /\ to = "held" /\ Writers = {}
  <2>1. Writers' = {o} /\ Over' = Over /\ o \notin Over
    BY <1>1
  <2>2. QED
    BY <1>1, <2>1 DEF Abstract!Next, Abstract!Enter
<1>2. CASE o \in Writers /\ to \in {"unlinking", "rollback", "dead"}
  <2>1. Writers' = Writers \ {o} /\ Over' = Over \union {o}
    BY <1>2
  <2>2. QED
    BY <1>2, <2>1 DEF Abstract!Next, Abstract!Leave
<1>3. CASE o \notin Writers \union Over /\ to \in Ended \union {"escaped"}
  <2>1. Writers' = Writers /\ Over' = Over \union {o}
    BY <1>3
  <2>2. QED
    BY <1>3, <2>1 DEF Abstract!Next, Abstract!Refuse
<1>4. CASE /\ (o \in Over) <=> (to \in Past)
           /\ pc[o] # "held" /\ to # "held"
  BY <1>4
<1>5. QED
  BY <1>1, <1>2, <1>3, <1>4

\* The steps of a call, seen from the abstract specification.
LEMMA CallRefines ==
    ASSUME IInv, NEW o \in Operations,
           TryFlock(o) \/ Continue(o) \/ Collect(o) \/ Crash(o)
    PROVE  Abstract!Next \/ UNCHANGED <<Writers, Over>>
<1> USE DEF IInv, Goto, Writers, Over, Past, Ended
<1>1. CASE TryFlock(o)
  BY <1>1, StepMaps DEF TryFlock
<1>2. CASE BeginExclusive(o)
  BY <1>2, StepMaps DEF BeginExclusive
<1>3. CASE UnlockAfterError(o)
  BY <1>3, StepMaps DEF UnlockAfterError
<1>4. CASE WriteOwner(o)
  <2>1. CASE Goto(o, "exclusive", "held")
    <3>1. Writers = {}
      BY <2>1 DEF LockInv, HoldsExclusive
    <3>2. QED
      BY <2>1, <3>1, StepMaps
  <2>2. CASE Goto(o, "exclusive", "abort")
    BY <2>2, StepMaps
  <2>3. QED
    BY <1>4, <2>1, <2>2 DEF WriteOwner
<1>5. CASE AbortRollback(o)
  BY <1>5, StepMaps DEF AbortRollback
<1>6. CASE CompareOwner(o)
  BY <1>6, StepMaps DEF CompareOwner
<1>7. CASE Unlink(o)
  BY <1>7, StepMaps DEF Unlink
<1>8. CASE ReleaseRollback(o)
  BY <1>8, StepMaps DEF ReleaseRollback
<1>9. CASE ReleaseFlock(o)
  BY <1>9, StepMaps DEF ReleaseFlock
<1>10. CASE Crash(o)
  <2>1. pc' = [pc EXCEPT ![o] = "dead"] /\ pc[o] \notin Ended
    BY <1>10 DEF Crash, HoldsFlock, HoldsExclusive
  <2>2. CASE o \in Writers
    BY <2>1, <2>2, StepMaps
  <2>3. CASE o \in Over
    BY <2>1, <2>3, StepMaps
  <2>4. CASE o \notin Writers \union Over
    BY <2>1, <2>4, StepMaps
  <2>5. QED
    BY <2>2, <2>3, <2>4
<1>11. CASE Escape(o)
  BY <1>11, StepMaps DEF Escape
<1>12. CASE Collect(o)
  BY <1>12, StepMaps DEF Collect
<1>13. QED
  BY <1>1, <1>2, <1>3, <1>4, <1>5, <1>6, <1>7, <1>8, <1>9, <1>10, <1>11, <1>12 DEF Continue

\* The lease is an exclusive write section: acquire_upload_lease and release
\* let operations in one at a time, each at most once.
THEOREM LeaseImplementsExclusiveWriter == Spec => ImplementsExclusiveWriter
<1>1. Init => Abstract!Init
  BY DEF Init, Abstract!Init, Past, Ended
<1>2. IInv /\ [Next]_vars => [Abstract!Next]_(Abstract!vars)
  <2> SUFFICES ASSUME IInv, [Next]_vars PROVE [Abstract!Next]_(Abstract!vars)
    OBVIOUS
  <2>1. CASE Next
    BY <2>1, CallRefines DEF Next, Abstract!vars, Writers, Over
  <2>2. CASE UNCHANGED vars
    BY <2>2 DEF vars, Abstract!vars
  <2>3. QED
    BY <2>1, <2>2
<1>3. QED
  BY InvariantHolds, <1>1, <1>2, PTL DEF Spec, Abstract!Spec, ImplementsExclusiveWriter
=============================================================================
