--------------------------- MODULE ExclusiveWriter ---------------------------
(***************************************************************************)
(* What the upload lease of backend/services/upload_lock_service.py        *)
(* promises its callers: operations enter the write section one at a time, *)
(* each at most once, and an operation that is over (it left, it was       *)
(* refused, or its process died) never writes again.  UploadLease          *)
(* implements this specification.                                          *)
(***************************************************************************)

CONSTANT Operations

VARIABLES writers,  \* operations inside the write section
          over      \* operations that left it, or never got in

vars == <<writers, over>>

Init == writers = {} /\ over = {}

Enter(o) ==
    /\ writers = {}
    /\ o \notin over
    /\ writers' = {o}
    /\ UNCHANGED over

Leave(o) ==
    /\ o \in writers
    /\ writers' = writers \ {o}
    /\ over' = over \union {o}

Refuse(o) ==
    /\ o \notin writers \union over
    /\ over' = over \union {o}
    /\ UNCHANGED writers

Next == \E o \in Operations : Enter(o) \/ Leave(o) \/ Refuse(o)

Spec == Init /\ [][Next]_vars
=============================================================================
