--------------------------- MODULE PublishedLedger ---------------------------
(***************************************************************************)
(* What the GMV refund ledger and its exports promise to whoever reads     *)
(* them: versions are numbered from 1 and never change, at most one is in  *)
(* force, and a version has at most one report, the one its content        *)
(* determines, which stays once it is published.  RefundExport implements  *)
(* this specification.                                                     *)
(***************************************************************************)
EXTENDS Naturals, Sequences

CONSTANTS Contents,  \* what a version may be of
          ReportOf   \* the report of each content

VARIABLES made,      \* the content of each version, oldest first
          active,    \* the version in force, 0 if there is none
          reports    \* the reports published so far, by version

vars == <<made, active, reports>>

Init == made = << >> /\ active = 0 /\ reports = << >>

\* A confirmation or a rebuild: the new version is in force at once.
Make(content) ==
    /\ made' = Append(made, content)
    /\ active' = Len(made) + 1
    /\ UNCHANGED reports

\* A deactivation, or a rollback to an earlier version.
Enforce(version) ==
    /\ active' = version
    /\ UNCHANGED <<made, reports>>

Publish(version) ==
    /\ version \notin DOMAIN reports
    /\ reports' = [v \in DOMAIN reports \union {version} |->
                      IF v = version THEN ReportOf[made[v]] ELSE reports[v]]
    /\ UNCHANGED <<made, active>>

Next ==
    \/ \E content \in Contents : Make(content)
    \/ \E version \in {0} \union DOMAIN made : Enforce(version)
    \/ \E version \in DOMAIN made : Publish(version)

Spec == Init /\ [][Next]_vars
=============================================================================
