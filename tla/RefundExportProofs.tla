------------------------- MODULE RefundExportProofs -------------------------
(***************************************************************************)
(* Proofs about modules RefundLedger and RefundExport, for any orders,     *)
(* receipts, files, revenue contents and sessions and any bounds.          *)
(*                                                                         *)
(* NewestIsCurrent is not inductive: it needs what a confirmation between  *)
(* its check and its commit, and a rebuild between its read and its        *)
(* commit, still know of gmv_refund_current (CheckedHolds, RebuildHolds),  *)
(* and that rests on who holds the lease.  PublishedIsFull needs the same  *)
(* of a build that holds no lease at all: everything it has read is of an  *)
(* immutable version (MergedKnown, BuildKnown, ReferencesAreFull), so it   *)
(* does not matter what became current meanwhile.                          *)
(*                                                                         *)
(* In these the calculation (FullReport, Candidate) stays unexpanded: they *)
(* use that equal inputs give equal reports.  TypeOK needs what it adds    *)
(* up to: sums over finite sets of orders and of receipts.                 *)
(***************************************************************************)
EXTENDS RefundExport, FiniteSetTheorems, SequenceTheorems, TLAPS

\* The merge of a session knows what its preview was made of.
PreviewHolds ==
    \A s \in Sessions :
        merge[s].step \in {"previewed", "checked"} =>
            merge[s].proposed = Proposed(merge[s].file, merge[s].base)

\* Between check and commit a confirmation has the lease, and what it checked
\* is still so.
CheckedHolds ==
    \A s \in Sessions :
        merge[s].step = "checked" => lease = s /\ merge[s].base = current

\* So it is for a rebuild that has read the current refunds.
RebuildHolds == rebuild # None => lease = Operator /\ rebuild.states = current

\* A receipt names a version of its own revenue.
BatchesKnown ==
    \A b \in batches : b.version \in DOMAIN versions /\ versions[b.version].token = b.token

LedgerInv ==
    /\ LedgerTypeOK
    /\ EventsExplainActive /\ NewestIsCurrent
    /\ PreviewHolds /\ CheckedHolds /\ RebuildHolds /\ BatchesKnown

-----------------------------------------------------------------------------

\* All a publication may be: the full calculation of some refunds.
FullReports == {FullReport(f[1], f[2]) : f \in Revenues \X Refunds}

FullBuild == {NoBuild}
    \union [step : {"seed", "gate", "fallback", "full"}, version : 1..MaxVersions,
            frames : Revenues, affected : SUBSET Receipts,
            previous : BOOLEAN, seed : FullReports \union {None}]

FullView == [step : {"loaded", "cached", "displayed"}, frames : Revenues,
             scope : 0..MaxVersions, cache : FullReports \union {None},
             report : FullReports \union {None}]

\* ExportTypeOK, with the calculated reports in place of all reports.
FullTypeOK ==
    /\ DOMAIN caches \subseteq DOMAIN versions
    /\ \A f \in DOMAIN references : f \in Fingerprint
    /\ build \in [Sessions -> FullBuild]
    /\ shown \in [Sessions -> FullView \union {None}]

\* A confirmed page has the revenue its version is of.
MergedKnown ==
    \A s \in Sessions :
        merge[s].step = "merged" =>
            /\ merge[s].version \in DOMAIN versions
            /\ versions[merge[s].version].token = merge[s].frames

\* So has its build, and its seed is what the version should publish.
BuildKnown ==
    \A s \in Sessions :
        build[s].step # "idle" =>
            /\ build[s].version \in DOMAIN versions
            /\ versions[build[s].version].token = build[s].frames
            /\ build[s].seed # None =>
                  build[s].seed =
                      FullReport(build[s].frames, versions[build[s].version].states)

ReferencesAreFull ==
    \A f \in DOMAIN references : references[f] = FullReport(f.token, f.states)

\* The cache a page has read is that of a version of its revenue.
ViewKnown ==
    \A s \in Sessions :
        shown[s] # None /\ shown[s].cache # None =>
            \E i \in DOMAIN versions :
                /\ versions[i].token = shown[s].frames
                /\ shown[s].cache = FullReport(shown[s].frames, versions[i].states)

ExportInv ==
    /\ FullTypeOK
    /\ MergedKnown /\ BuildKnown /\ ReferencesAreFull /\ ViewKnown
    /\ PublishedIsFull /\ ShownIsOfItsRevenue

IInv == LedgerInv /\ ExportInv

-----------------------------------------------------------------------------
(* Lemmas about the operators of the ledger *)

LEMMA RefundsAreFunctions ==
    ASSUME NEW c \in Refunds
    PROVE  /\ DOMAIN c \subseteq Orders
           /\ c \in [DOMAIN c -> Refund]
BY DEF Refunds

LEMMA FunctionsAreRefunds ==
    ASSUME NEW D \in SUBSET Orders, NEW c \in [D -> Refund]
    PROVE  c \in Refunds
BY DEF Refunds

LEMMA EmptyRefunds == << >> \in Refunds
<1>1. << >> = [x \in {} |-> << >>]
  OBVIOUS
<1>2. [x \in {} |-> << >>] \in [{} -> Refund]
  OBVIOUS
<1> QED
  BY <1>1, <1>2, FunctionsAreRefunds

\* With the events' explanation load_active_scope finds the last one's target.
LEMMA ActiveIsReplayed ==
    ASSUME LedgerTypeOK, EventsExplainActive
    PROVE  /\ Active = Replayed
           /\ Active \in 0..Len(versions)
           /\ Active \in 0..MaxVersions
           /\ \A i \in DOMAIN versions : versions[i].status = "ACTIVE" <=> i = Active
<1>1. Replayed \in 0..MaxVersions
  <2>1. CASE events = << >>
    BY <2>1, LedgerAssumption DEF Replayed
  <2>2. CASE events # << >>
    <3>1. Len(events) \in 1..Len(events)
      BY <2>2, EmptySeq DEF LedgerTypeOK
    <3>2. events[Len(events)] \in Event
      BY <3>1, ElementOfSeq DEF LedgerTypeOK
    <3> QED
      BY <2>2, <3>2 DEF Replayed, Event
  <2> QED
    BY <2>1, <2>2
<1>2. ActiveVersions = {Replayed} \ {0}
  BY DEF EventsExplainActive
<1>3. Active = Replayed
  <2>1. CASE Replayed = 0
    BY <1>2, <2>1 DEF Active
  <2>2. CASE Replayed # 0
    <3>1. Max({Replayed}) \in {Replayed}
      BY <1>1 DEF Max
    <3> QED
      BY <1>2, <2>2, <3>1 DEF Active
  <2> QED
    BY <2>1, <2>2
<1>4. DOMAIN versions = 1..Len(versions) /\ Len(versions) \in Nat
  BY LenProperties DEF LedgerTypeOK
<1>5. \A i \in DOMAIN versions : versions[i].status = "ACTIVE" <=> i = Active
  BY <1>2, <1>3, <1>4 DEF ActiveVersions
<1>6. Active = 0 \/ Active \in DOMAIN versions
  BY <1>2, <1>3 DEF ActiveVersions
<1> QED
  BY <1>1, <1>3, <1>4, <1>5, <1>6

\* Retiring changes the status of one version and nothing else.
LEMMA RetiredFacts ==
    ASSUME LedgerTypeOK, NEW i \in 0..Len(versions)
    PROVE  /\ Retired(i) \in Seq(Version)
           /\ Len(Retired(i)) = Len(versions)
           /\ DOMAIN Retired(i) = DOMAIN versions
           /\ \A j \in DOMAIN versions :
                 /\ Retired(i)[j].token = versions[j].token
                 /\ Retired(i)[j].frames = versions[j].frames
                 /\ Retired(i)[j].states = versions[j].states
                 /\ Retired(i)[j].status = (IF j = i THEN "RETIRED" ELSE versions[j].status)
<1>1. /\ versions \in Seq(Version) /\ Len(versions) \in Nat
      /\ DOMAIN versions = 1..Len(versions)
  BY LenProperties DEF LedgerTypeOK
<1>2. CASE i = 0
  BY <1>1, <1>2 DEF Retired
<1>3. CASE i # 0
  <2> DEFINE new == [versions[i] EXCEPT !.status = "RETIRED"]
  <2>1. i \in 1..Len(versions)
    BY <1>1, <1>3
  <2>2. versions[i] \in Version
    BY <1>1, <2>1, ElementOfSeq
  <2>3. /\ new \in Version
        /\ new.token = versions[i].token /\ new.frames = versions[i].frames
        /\ new.states = versions[i].states /\ new.status = "RETIRED"
    BY <2>2 DEF Version
  <2>4. Retired(i) = [versions EXCEPT ![i] = new]
    BY <1>3 DEF Retired
  <2> HIDE DEF new
  <2>5. /\ Retired(i) \in Seq(Version) /\ Len(Retired(i)) = Len(versions)
        /\ \A j \in 1..Len(versions) : Retired(i)[j] = IF j = i THEN new ELSE versions[j]
    BY <1>1, <2>1, <2>3, <2>4, ExceptSeq
  <2>6. DOMAIN Retired(i) = DOMAIN versions
    BY <1>1, <2>4
  <2> QED
    BY <1>1, <2>3, <2>5, <2>6
<1> QED
  BY <1>2, <1>3

\* What a preview proposes is a state of the refunds.
LEMMA ProposedType ==
    ASSUME NEW file \in Files, NEW base \in Refunds
    PROVE  /\ Proposed(file, base) \in Refunds
           /\ DOMAIN Proposed(file, base) = DOMAIN base \union OrdersIn(file)
           /\ \A x \in DOMAIN base \ OrdersIn(file) : Proposed(file, base)[x] = base[x]
<1> DEFINE taken == NewOrChanged(file, base)
           P == Proposed(file, base)
<1>1. file \subseteq Observation
  BY LedgerAssumption
<1>2. DOMAIN base \subseteq Orders /\ base \in [DOMAIN base -> Refund]
  BY RefundsAreFunctions
<1>3. taken \subseteq file
  BY DEF NewOrChanged
<1>4. OrdersIn(file) \subseteq Orders /\ OrdersIn(taken) \subseteq OrdersIn(file)
  BY <1>1, <1>3 DEF OrdersIn, Observation
<1>5. OrdersIn(file) \subseteq DOMAIN base \union OrdersIn(taken)
  BY DEF OrdersIn, NewOrChanged
<1>6. DOMAIN P = DOMAIN base \union OrdersIn(file)
  BY <1>4, <1>5 DEF Proposed
<1>7. ASSUME NEW x \in DOMAIN base \ OrdersIn(file) PROVE P[x] = base[x]
  BY <1>4, <1>7 DEF Proposed
<1>8. ASSUME NEW x \in OrdersIn(taken) PROVE P[x] \in Refund
  <2> DEFINE o == CHOOSE o \in taken : o.order = x
  <2>1. \E z \in taken : z.order = x
    BY <1>8 DEF OrdersIn
  <2>2. o \in taken
    BY <2>1
  <2>3. o \in Observation
    BY <1>1, <1>3, <2>2
  <2> HIDE DEF o
  <2>4. StateOf(o) \in Refund
    BY <2>3 DEF StateOf, Observation, Refund
  <2> USE DEF o
  <2>5. P[x] = StateOf(o)
    BY <1>8 DEF Proposed
  <2> QED
    BY <2>4, <2>5
<1>9. ASSUME NEW x \in DOMAIN base \ OrdersIn(taken) PROVE P[x] \in Refund
  BY <1>2, <1>9 DEF Proposed
<1>10. P = [x \in DOMAIN P |-> P[x]]
  BY DEF Proposed
<1>11. \A x \in DOMAIN P : P[x] \in Refund
  BY <1>4, <1>5, <1>6, <1>8, <1>9
<1> HIDE DEF P
<1>12. P \in [DOMAIN P -> Refund] /\ DOMAIN P \subseteq Orders
  BY <1>2, <1>4, <1>6, <1>10, <1>11
<1>13. P \in Refunds
  BY <1>12, FunctionsAreRefunds
<1> QED
  BY <1>6, <1>7, <1>13 DEF P

\* The upsert of what was proposed for the current refunds differs from it in
\* dates only.
LEMMA UpsertKeepsBusiness ==
    ASSUME NEW file \in Files, current \in Refunds,
           NEW P, P = Proposed(file, current)
    PROVE  /\ Upsert(P, file) \in Refunds
           /\ Business(Upsert(P, file)) = Business(P)
<1> DEFINE U == Upsert(P, file)
<1>1. /\ P \in Refunds
      /\ DOMAIN P = DOMAIN current \union OrdersIn(file)
      /\ \A x \in DOMAIN current \ OrdersIn(file) : P[x] = current[x]
  BY ProposedType
<1>2. DOMAIN P \subseteq Orders /\ P \in [DOMAIN P -> Refund]
  BY <1>1, RefundsAreFunctions
<1>3. DOMAIN current \subseteq Orders /\ current \in [DOMAIN current -> Refund]
  BY RefundsAreFunctions
<1>4. DOMAIN U = DOMAIN P
  BY <1>1 DEF Upsert
<1>5. ASSUME NEW x \in DOMAIN P
      PROVE  /\ U[x] \in Refund
             /\ U[x].receipt = P[x].receipt /\ U[x].amount = P[x].amount
             /\ U[x].status = P[x].status
  <2>1. P[x] \in Refund
    BY <1>2
  <2>2. CASE x \notin OrdersIn(file)
    <3>1. U[x] = P[x]
      BY <1>1, <2>2 DEF Upsert
    <3> QED
      BY <2>1, <3>1
  <2>3. CASE x \in OrdersIn(file) /\ x \in DOMAIN current
    <3>1. U[x] = [P[x] EXCEPT !.day = current[x].day]
      BY <1>1, <2>3 DEF Upsert
    <3>2. current[x] \in Refund
      BY <1>3, <2>3
    <3> QED
      BY <2>1, <3>1, <3>2 DEF Refund
  <2>4. CASE x \in OrdersIn(file) /\ x \notin DOMAIN current
    <3>1. U[x] = P[x]
      BY <1>1, <2>4 DEF Upsert
    <3> QED
      BY <2>1, <3>1
  <2> QED
    BY <2>2, <2>3, <2>4
<1>6. U = [x \in DOMAIN U |-> U[x]]
  BY DEF Upsert
<1> HIDE DEF U
<1>7. U \in [DOMAIN U -> Refund] /\ DOMAIN U \subseteq Orders
  BY <1>2, <1>4, <1>5, <1>6
<1>8. U \in Refunds
  BY <1>7, FunctionsAreRefunds
<1>9. Business(U) = Business(P)
  BY <1>4, <1>5 DEF Business
<1> QED
  BY <1>8, <1>9 DEF U

LEMMA AffectedType ==
    ASSUME NEW base \in Refunds, NEW proposed \in Refunds
    PROVE  Affected(base, proposed) \in SUBSET Receipts
<1>1. proposed \in [DOMAIN proposed -> Refund]
  BY RefundsAreFunctions
<1>2. \A x \in DOMAIN proposed : proposed[x].receipt \in Receipts
  BY <1>1 DEF Refund
<1> QED
  BY <1>2 DEF Affected

\* Each event starts where the one before ended.
Chained ==
    \A i \in 1..Len(events) : events[i].from = (IF i = 1 THEN 0 ELSE events[i - 1].to)

\* The new event starts at the active version, the target of the one before.
LEMMA RecordFacts ==
    ASSUME LedgerTypeOK, EventsExplainActive, Len(events) < MaxEvents,
           NEW type \in {"ACTIVATE", "DEACTIVATE", "ROLLBACK"}, NEW to \in 0..MaxVersions,
           Record(type, Active, to)
    PROVE  /\ events' \in Seq(Event) /\ Len(events') <= MaxEvents
           /\ Replayed' = to /\ Chained'
<1> DEFINE e == [type |-> type, from |-> Active, to |-> to]
<1>1. events \in Seq(Event) /\ Len(events) \in Nat /\ MaxEvents \in Nat
  BY LenProperties, LedgerAssumption DEF LedgerTypeOK
<1>2. Active = Replayed /\ Active \in 0..MaxVersions
  BY ActiveIsReplayed
<1>3. e \in Event
  BY <1>2 DEF Event
<1>4. events' = Append(events, e)
  BY DEF Record
<1>a. e.from = Replayed /\ e.to = to
  BY <1>2
<1> HIDE DEF e
<1>5. /\ events' \in Seq(Event) /\ events' # << >> /\ Len(events') = Len(events) + 1
      /\ \A i \in 1..Len(events) : events'[i] = events[i]
      /\ events'[Len(events) + 1] = e
  BY <1>1, <1>3, <1>4, AppendProperties
<1>6. Replayed' = to
  BY <1>a, <1>5 DEF Replayed
<1>7. Chained'
  <2> SUFFICES ASSUME NEW i \in 1..(Len(events) + 1)
               PROVE  events'[i].from = (IF i = 1 THEN 0 ELSE events'[i - 1].to)
    BY <1>5 DEF Chained
  <2>1. CASE i \in 1..Len(events)
    <3>1. i # 1 => i - 1 \in 1..Len(events)
      BY <1>1, <2>1
    <3>2. events[i].from = (IF i = 1 THEN 0 ELSE events[i - 1].to)
      BY <2>1 DEF EventsExplainActive
    <3> QED
      BY <1>5, <2>1, <3>1, <3>2
  <2>2. CASE i = Len(events) + 1
    <3>1. CASE Len(events) = 0
      <4>1. events = << >>
        BY <1>1, <3>1, EmptySeq
      <4> QED
        BY <1>a, <1>5, <2>2, <3>1, <4>1 DEF Replayed
    <3>2. CASE Len(events) # 0
      <4>1. events # << >> /\ Len(events) \in 1..Len(events) /\ i - 1 = Len(events) /\ i # 1
        BY <1>1, <2>2, <3>2, EmptySeq
      <4> QED
        BY <1>a, <1>5, <2>2, <4>1 DEF Replayed
    <3> QED
      BY <3>1, <3>2
  <2> QED
    BY <1>1, <2>1, <2>2
<1> QED
  BY <1>1, <1>5, <1>6, <1>7

\* What both transactions end with: one more version, the only active one.
LEMMA ActivateFacts ==
    ASSUME LedgerTypeOK, EventsExplainActive,
           NEW token \in Revenues, NEW states \in Refunds, Activate(token, states)
    PROVE  /\ versions' \in Seq(Version)
           /\ Len(versions') = Len(versions) + 1 /\ Len(versions') <= MaxVersions
           /\ events' \in Seq(Event) /\ Len(events') <= MaxEvents
           /\ EventsExplainActive'
           /\ versions'[Len(versions')].token = token
           /\ versions'[Len(versions')].states = states
           /\ \A i \in DOMAIN versions :
                 /\ i \in DOMAIN versions'
                 /\ versions'[i].token = versions[i].token
                 /\ versions'[i].states = versions[i].states
<1> DEFINE v == [token |-> token, frames |-> revenue, states |-> states, status |-> "ACTIVE"]
<1>1. /\ versions \in Seq(Version) /\ Len(versions) \in Nat /\ MaxVersions \in Nat
      /\ DOMAIN versions = 1..Len(versions)
  BY LenProperties, LedgerAssumption DEF LedgerTypeOK
<1>2. v \in Version
  BY DEF Version, LedgerTypeOK
<1>3. /\ Active \in 0..Len(versions)
      /\ \A i \in DOMAIN versions : versions[i].status = "ACTIVE" <=> i = Active
  BY ActiveIsReplayed
<1>4. /\ Retired(Active) \in Seq(Version) /\ Len(Retired(Active)) = Len(versions)
      /\ \A j \in DOMAIN versions :
            /\ Retired(Active)[j].token = versions[j].token
            /\ Retired(Active)[j].states = versions[j].states
            /\ Retired(Active)[j].status # "ACTIVE"
  BY <1>3, RetiredFacts
<1>5. versions' = Append(Retired(Active), v)
  BY DEF Activate
<1>6. v.token = token /\ v.states = states /\ v.status = "ACTIVE"
  OBVIOUS
<1> HIDE DEF v
<1>7. /\ versions' \in Seq(Version) /\ Len(versions') = Len(versions) + 1
      /\ \A i \in 1..Len(versions) : versions'[i] = Retired(Active)[i]
      /\ versions'[Len(versions) + 1] = v
  BY <1>2, <1>4, <1>5, AppendProperties
<1>8. DOMAIN versions' = 1..(Len(versions) + 1)
  BY <1>7, LenProperties
<1>9. Len(versions) + 1 <= MaxVersions /\ Len(versions) + 1 \in 0..MaxVersions
  BY <1>1 DEF Activate
<1>10. /\ events' \in Seq(Event) /\ Len(events') <= MaxEvents
       /\ Replayed' = Len(versions) + 1 /\ Chained'
  BY <1>9, RecordFacts DEF Activate
<1>11. ActiveVersions' = {Len(versions) + 1}
  BY <1>1, <1>4, <1>6, <1>7, <1>8 DEF ActiveVersions
<1>12. EventsExplainActive'
  BY <1>1, <1>10, <1>11 DEF EventsExplainActive, Chained
<1> QED
  BY <1>1, <1>4, <1>6, <1>7, <1>8, <1>9, <1>10, <1>12

-----------------------------------------------------------------------------
(* LedgerInv is kept by every operation of the ledger *)

LEMMA InitLedgerInv == LedgerInit => LedgerInv
<1> SUFFICES ASSUME LedgerInit PROVE LedgerInv
  OBVIOUS
<1> USE DEF LedgerInit
<1>1. << >> \in Seq(Version) /\ << >> \in Seq(Event) /\ Len(<< >>) = 0
  BY EmptySeq
<1>2. LedgerTypeOK
  BY <1>1, EmptyRefunds, LedgerAssumption DEF LedgerTypeOK, Merge
<1>3. EventsExplainActive
  BY <1>1 DEF EventsExplainActive, ActiveVersions, Replayed
<1>4. NewestIsCurrent
  BY DEF NewestIsCurrent
<1>5. PreviewHolds /\ CheckedHolds /\ RebuildHolds /\ BatchesKnown
  BY DEF PreviewHolds, CheckedHolds, RebuildHolds, BatchesKnown, Idle
<1> QED
  BY <1>2, <1>3, <1>4, <1>5 DEF LedgerInv

\* A step that leaves the four tables alone.
LEMMA LedgerKept ==
    ASSUME LedgerInv, UNCHANGED ledger
    PROVE  EventsExplainActive' /\ NewestIsCurrent' /\ BatchesKnown'
BY DEF LedgerInv, ledger, EventsExplainActive, ActiveVersions, Replayed, NewestIsCurrent,
       Business, BatchesKnown

\* The steps of one session before its commit.
LEMMA PageStep ==
    ASSUME LedgerInv, NEW s \in Sessions,
           \/ LoadPage(s)
           \/ \E file \in Files : Preview(s, file)
           \/ ConfirmDuplicate(s) \/ ConfirmStale(s) \/ ConfirmAccept(s) \/ Abandon(s)
    PROVE  LedgerInv'
<1>1. LedgerTypeOK /\ PreviewHolds /\ CheckedHolds /\ RebuildHolds /\ BatchesKnown
  BY DEF LedgerInv
<1>2. merge[s] \in Merge /\ merge \in [Sessions -> Merge]
  BY <1>1 DEF LedgerTypeOK
<1>3. UNCHANGED ledger
  BY DEF LoadPage, Preview, ConfirmDuplicate, ConfirmStale, ConfirmAccept, Abandon
<1>4. EventsExplainActive' /\ NewestIsCurrent' /\ BatchesKnown'
  BY <1>3, LedgerKept
<1>5. CASE LoadPage(s)
  <2>1. merge' \in [Sessions -> Merge]
    BY <1>1, <1>2, <1>5 DEF LoadPage, Merge, LedgerTypeOK
  <2> QED
    BY <1>1, <1>2, <1>4, <1>5, <2>1 DEF LoadPage, LedgerInv, LedgerTypeOK, ledger,
       PreviewHolds, CheckedHolds, RebuildHolds
<1>6. ASSUME NEW file \in Files, Preview(s, file) PROVE LedgerInv'
  <2> DEFINE m == [step |-> "previewed", frames |-> merge[s].frames, file |-> file,
                   base |-> current, proposed |-> Proposed(file, current)]
  <2>1. Proposed(file, current) \in Refunds
    BY <1>1, ProposedType DEF LedgerTypeOK
  <2>2. merge[s].frames \in Revenues
    BY <1>2, <1>6 DEF Preview, Merge, Idle
  <2>3. m \in Merge
    BY <1>1, <2>1, <2>2 DEF Merge, LedgerTypeOK
  <2>4. Idle \in Merge /\ Idle.step = "idle"
    BY DEF Merge, Idle
  <2>5. m.step = "previewed" /\ m.proposed = Proposed(m.file, m.base)
    OBVIOUS
  <2>6. \/ merge' = [merge EXCEPT ![s] = Idle]
        \/ merge' = [merge EXCEPT ![s] = m]
    BY <1>6 DEF Preview
  <2> HIDE DEF m
  <2>7. merge' \in [Sessions -> Merge]
    BY <1>2, <2>3, <2>4, <2>6
  <2> QED
    BY <1>1, <1>2, <1>4, <1>6, <2>4, <2>5, <2>6, <2>7
       DEF Preview, LedgerInv, LedgerTypeOK, ledger, PreviewHolds, CheckedHolds, RebuildHolds
<1>7. CASE ConfirmDuplicate(s)
  <2>1. PICK b \in Confirmed(s) :
          merge' = [merge EXCEPT ![s] =
             [step |-> "merged", frames |-> merge[s].frames, version |-> b.version,
              affected |-> {o.receipt : o \in merge[s].file}]]
    BY <1>7 DEF ConfirmDuplicate
  <2>2. b \in Batch
    BY <1>1, <2>1 DEF Confirmed, LedgerTypeOK
  <2>3. merge[s].frames \in Revenues /\ merge[s].file \in Files
    BY <1>2, <1>7 DEF ConfirmDuplicate, Merge, Idle
  <2>4. {o.receipt : o \in merge[s].file} \in SUBSET Receipts
    BY <2>3, LedgerAssumption DEF Observation
  <2>5. merge' \in [Sessions -> Merge]
    BY <1>2, <2>1, <2>2, <2>3, <2>4 DEF Merge, Batch
  <2> QED
    BY <1>1, <1>2, <1>4, <1>7, <2>1, <2>5 DEF ConfirmDuplicate, LedgerInv, LedgerTypeOK, ledger,
       PreviewHolds, CheckedHolds, RebuildHolds
<1>8. CASE ConfirmStale(s) \/ Abandon(s)
  <2>1. Idle \in Merge /\ Idle.step = "idle"
    BY DEF Merge, Idle
  <2>2. merge' = [merge EXCEPT ![s] = Idle] /\ UNCHANGED <<revenue, ledger, rebuild>>
    BY <1>8 DEF ConfirmStale, Abandon
  <2>3. lease' = lease \/ (lease = s /\ lease' = None)
    BY <1>8 DEF ConfirmStale, Abandon
  <2>4. merge' \in [Sessions -> Merge]
    BY <1>2, <2>1, <2>2
  <2>5. LedgerTypeOK'
    BY <1>1, <2>2, <2>3, <2>4 DEF LedgerTypeOK, ledger
  <2>6. PreviewHolds' /\ CheckedHolds'
    BY <1>1, <1>2, <2>1, <2>2, <2>3 DEF PreviewHolds, CheckedHolds, ledger
  <2>7. RebuildHolds'
    BY <1>1, <2>2, <2>3, LedgerAssumption DEF RebuildHolds, ledger
  <2> QED
    BY <1>4, <2>5, <2>6, <2>7 DEF LedgerInv
<1>9. CASE ConfirmAccept(s)
  <2>1. /\ merge[s].step = "previewed" /\ merge[s].base = current
        /\ lease = None /\ lease' = s
        /\ merge' = [merge EXCEPT ![s] = [merge[s] EXCEPT !.step = "checked"]]
        /\ UNCHANGED <<revenue, ledger, rebuild>>
    BY <1>9 DEF ConfirmAccept, Fresh
  <2> DEFINE m == [merge[s] EXCEPT !.step = "checked"]
  <2>2. /\ m \in Merge /\ m.step = "checked" /\ m.base = merge[s].base
        /\ m.proposed = merge[s].proposed /\ m.file = merge[s].file
    BY <1>2, <2>1 DEF Merge, Idle
  <2>3. merge' = [merge EXCEPT ![s] = m]
    BY <2>1
  <2> HIDE DEF m
  <2>4. LedgerTypeOK'
    BY <1>1, <1>2, <2>1, <2>2, <2>3 DEF LedgerTypeOK, ledger
  <2>5. PreviewHolds'
    BY <1>1, <1>2, <2>1, <2>2, <2>3 DEF PreviewHolds
  <2>6. CheckedHolds'
    BY <1>1, <1>2, <2>1, <2>2, <2>3, LedgerAssumption DEF CheckedHolds, ledger
  <2>7. RebuildHolds'
    BY <1>1, <2>1, LedgerAssumption DEF RebuildHolds, ledger
  <2> QED
    BY <1>4, <2>4, <2>5, <2>6, <2>7 DEF LedgerInv
<1> QED
  BY <1>5, <1>6, <1>7, <1>8, <1>9

\* The new version holds what gmv_refund_current becomes, but for dates: the
\* lease kept it as the preview saw it.
LEMMA ConfirmCommitStep ==
    ASSUME LedgerInv, NEW s \in Sessions, ConfirmCommit(s)
    PROVE  LedgerInv'
<1> DEFINE m == merge[s]
           m2 == [step |-> "merged", frames |-> m.frames, version |-> Len(versions) + 1,
                  affected |-> Affected(m.base, m.proposed)]
<1>1. /\ LedgerTypeOK /\ EventsExplainActive
      /\ PreviewHolds /\ CheckedHolds /\ RebuildHolds /\ BatchesKnown
  BY DEF LedgerInv
<1>2. m \in Merge /\ m.step = "checked" /\ merge \in [Sessions -> Merge]
  BY <1>1 DEF LedgerTypeOK, ConfirmCommit
<1>3. /\ m.frames \in Revenues /\ m.file \in Files
      /\ m.base \in Refunds /\ m.proposed \in Refunds
  BY <1>2 DEF Merge, Idle
<1>4. lease = s /\ m.base = current /\ m.proposed = Proposed(m.file, current)
  BY <1>1, <1>2 DEF CheckedHolds, PreviewHolds
<1>5. current \in Refunds
  BY <1>1 DEF LedgerTypeOK
<1>6. /\ Activate(m.frames, m.proposed)
      /\ current' = Upsert(m.proposed, m.file)
      /\ batches' = batches \union
            {[file |-> m.file, token |-> m.frames, version |-> Len(versions) + 1]}
      /\ merge' = [merge EXCEPT ![s] = m2]
      /\ lease' = None
      /\ UNCHANGED <<revenue, rebuild>>
  BY DEF ConfirmCommit
<1>7. /\ versions' \in Seq(Version)
      /\ Len(versions') = Len(versions) + 1 /\ Len(versions') <= MaxVersions
      /\ events' \in Seq(Event) /\ Len(events') <= MaxEvents
      /\ EventsExplainActive'
      /\ versions'[Len(versions')].token = m.frames
      /\ versions'[Len(versions')].states = m.proposed
      /\ \A i \in DOMAIN versions :
            i \in DOMAIN versions' /\ versions'[i].token = versions[i].token
  BY <1>1, <1>3, <1>6, ActivateFacts
<1>8. Len(versions) \in Nat /\ Len(versions) + 1 \in 1..MaxVersions
      /\ DOMAIN versions' = 1..(Len(versions) + 1)
  BY <1>1, <1>7, LenProperties, LedgerAssumption DEF LedgerTypeOK
<1>9. current' \in Refunds /\ Business(current') = Business(m.proposed)
  BY <1>3, <1>4, <1>5, <1>6, UpsertKeepsBusiness
<1>10. Affected(m.base, m.proposed) \in SUBSET Receipts
  BY <1>3, AffectedType
<1>11. m2 \in Merge /\ m2.step = "merged"
  BY <1>3, <1>8, <1>10 DEF Merge
<1>12. [file |-> m.file, token |-> m.frames, version |-> Len(versions) + 1] \in Batch
  BY <1>3, <1>8 DEF Batch
<1> HIDE DEF m, m2
<1>13. LedgerTypeOK'
  BY <1>1, <1>2, <1>6, <1>7, <1>9, <1>11, <1>12 DEF LedgerTypeOK
<1>14. NewestIsCurrent'
  BY <1>7, <1>9 DEF NewestIsCurrent, Business
<1>15. PreviewHolds' /\ CheckedHolds'
  <2> SUFFICES ASSUME NEW u \in Sessions, merge'[u].step \in {"previewed", "checked"}
               PROVE  /\ merge'[u].proposed = Proposed(merge'[u].file, merge'[u].base)
                      /\ merge'[u].step = "checked" =>
                            lease' = u /\ merge'[u].base = current'
    BY DEF PreviewHolds, CheckedHolds
  <2>1. u # s /\ merge'[u] = merge[u]
    BY <1>2, <1>6, <1>11
  <2>2. merge[u].step # "checked"
    BY <1>1, <1>4, <2>1 DEF CheckedHolds
  <2> QED
    BY <1>1, <2>1, <2>2 DEF PreviewHolds
<1>16. RebuildHolds'
  BY <1>1, <1>4, <1>6, LedgerAssumption DEF RebuildHolds
<1>17. BatchesKnown'
  <2> SUFFICES ASSUME NEW b \in batches'
               PROVE  b.version \in DOMAIN versions' /\ versions'[b.version].token = b.token
    BY DEF BatchesKnown
  <2>1. CASE b \in batches
    BY <1>1, <1>7, <2>1 DEF BatchesKnown
  <2>2. CASE b = [file |-> m.file, token |-> m.frames, version |-> Len(versions) + 1]
    BY <1>7, <1>8, <2>2
  <2> QED
    BY <1>6, <2>1, <2>2
<1> QED
  BY <1>7, <1>13, <1>14, <1>15, <1>16, <1>17 DEF LedgerInv

LEMMA RebuildCommitStep ==
    ASSUME LedgerInv, RebuildCommit
    PROVE  LedgerInv'
<1>1. /\ LedgerTypeOK /\ EventsExplainActive
      /\ PreviewHolds /\ CheckedHolds /\ RebuildHolds /\ BatchesKnown
  BY DEF LedgerInv
<1>2. /\ rebuild # None /\ Activate(rebuild.token, rebuild.states)
      /\ rebuild' = None /\ lease' = None
      /\ UNCHANGED <<revenue, current, batches, merge>>
  BY DEF RebuildCommit
<1>3. /\ rebuild.token \in Revenues /\ rebuild.states \in Refunds
      /\ lease = Operator /\ rebuild.states = current
  BY <1>1, <1>2 DEF LedgerTypeOK, RebuildHolds
<1>4. /\ versions' \in Seq(Version)
      /\ Len(versions') = Len(versions) + 1 /\ Len(versions') <= MaxVersions
      /\ events' \in Seq(Event) /\ Len(events') <= MaxEvents
      /\ EventsExplainActive'
      /\ versions'[Len(versions')].states = rebuild.states
      /\ \A i \in DOMAIN versions :
            i \in DOMAIN versions' /\ versions'[i].token = versions[i].token
  BY <1>1, <1>2, <1>3, ActivateFacts
<1>5. LedgerTypeOK'
  BY <1>1, <1>2, <1>4 DEF LedgerTypeOK
<1>6. NewestIsCurrent'
  BY <1>2, <1>3, <1>4 DEF NewestIsCurrent, Business
<1>7. PreviewHolds' /\ CheckedHolds'
  BY <1>1, <1>2, <1>3, LedgerAssumption DEF PreviewHolds, CheckedHolds
<1>8. RebuildHolds' /\ BatchesKnown'
  BY <1>1, <1>2, <1>4 DEF RebuildHolds, BatchesKnown
<1> QED
  BY <1>4, <1>5, <1>6, <1>7, <1>8 DEF LedgerInv

\* A step that changes the status of versions and records an event.
LEMMA StatusStep ==
    ASSUME LedgerInv, Len(events) < MaxEvents,
           NEW type \in {"ACTIVATE", "DEACTIVATE", "ROLLBACK"},
           NEW to \in 0..MaxVersions, Record(type, Active, to),
           versions' \in Seq(Version), Len(versions') = Len(versions),
           \A i \in DOMAIN versions :
               /\ versions'[i].token = versions[i].token
               /\ versions'[i].states = versions[i].states
               /\ versions'[i].status = "ACTIVE" <=> i = to,
           to # 0 => to \in DOMAIN versions,
           UNCHANGED <<revenue, current, batches, lease, merge, rebuild>>
    PROVE  LedgerInv'
<1>1. /\ LedgerTypeOK /\ EventsExplainActive
      /\ PreviewHolds /\ CheckedHolds /\ RebuildHolds /\ BatchesKnown /\ NewestIsCurrent
  BY DEF LedgerInv
<1>2. /\ events' \in Seq(Event) /\ Len(events') <= MaxEvents
      /\ Replayed' = to /\ Chained'
  BY <1>1, RecordFacts
<1>3. /\ DOMAIN versions' = 1..Len(versions) /\ DOMAIN versions = 1..Len(versions)
      /\ Len(versions) \in Nat
  BY <1>1, LenProperties DEF LedgerTypeOK
<1>4. ActiveVersions' = {to} \ {0}
  BY <1>3 DEF ActiveVersions
<1>5. EventsExplainActive'
  BY <1>2, <1>4 DEF EventsExplainActive, Chained
<1>6. LedgerTypeOK'
  BY <1>1, <1>2 DEF LedgerTypeOK
<1>7. NewestIsCurrent'
  <2>1. CASE versions = << >>
    BY <1>3, <2>1, EmptySeq DEF NewestIsCurrent
  <2>2. CASE versions # << >>
    <3>1. Len(versions) \in DOMAIN versions
      BY <1>1, <1>3, <2>2, EmptySeq DEF LedgerTypeOK
    <3>2. versions'[Len(versions')].states = versions[Len(versions)].states
      BY <3>1
    <3> QED
      BY <1>1, <2>2, <3>2 DEF NewestIsCurrent, Business
  <2> QED
    BY <2>1, <2>2
<1>8. PreviewHolds' /\ CheckedHolds' /\ RebuildHolds' /\ BatchesKnown'
  BY <1>1, <1>3 DEF PreviewHolds, CheckedHolds, RebuildHolds, BatchesKnown
<1> QED
  BY <1>5, <1>6, <1>7, <1>8 DEF LedgerInv

LEMMA DeactivateStep == ASSUME LedgerInv, Deactivate PROVE LedgerInv'
<1>1. LedgerTypeOK /\ EventsExplainActive
  BY DEF LedgerInv
<1>2. Active \in 0..Len(versions)
      /\ \A i \in DOMAIN versions : versions[i].status = "ACTIVE" <=> i = Active
  BY <1>1, ActiveIsReplayed
<1>3. /\ Retired(Active) \in Seq(Version) /\ Len(Retired(Active)) = Len(versions)
      /\ \A j \in DOMAIN versions :
            /\ Retired(Active)[j].token = versions[j].token
            /\ Retired(Active)[j].states = versions[j].states
            /\ Retired(Active)[j].status # "ACTIVE"
  BY <1>1, <1>2, RetiredFacts
<1>4. 0 \in 0..MaxVersions
  BY LedgerAssumption
<1>5. \A j \in DOMAIN versions : j # 0
  BY <1>1, LenProperties DEF LedgerTypeOK
<1> QED
  BY <1>3, <1>4, <1>5, StatusStep DEF Deactivate

LEMMA RollbackStep ==
    ASSUME LedgerInv, NEW target \in DOMAIN versions, Rollback(target)
    PROVE  LedgerInv'
<1> DEFINE old == Retired(Active)
           new == [old[target] EXCEPT !.status = "ACTIVE"]
<1>1. /\ LedgerTypeOK /\ EventsExplainActive
      /\ DOMAIN versions = 1..Len(versions) /\ Len(versions) \in Nat
      /\ Len(versions) <= MaxVersions /\ MaxVersions \in Nat
  BY LenProperties, LedgerAssumption DEF LedgerInv, LedgerTypeOK
<1>2. Active \in 0..Len(versions)
      /\ \A i \in DOMAIN versions : versions[i].status = "ACTIVE" <=> i = Active
  BY <1>1, ActiveIsReplayed
<1>3. /\ old \in Seq(Version) /\ Len(old) = Len(versions) /\ DOMAIN old = DOMAIN versions
      /\ \A j \in DOMAIN versions :
            /\ old[j].token = versions[j].token
            /\ old[j].states = versions[j].states
            /\ old[j].status # "ACTIVE"
  BY <1>1, <1>2, RetiredFacts
<1>4. old[target] \in Version
  BY <1>1, <1>3, ElementOfSeq
<1> HIDE DEF old
<1>5. /\ new \in Version /\ new.status = "ACTIVE"
      /\ new.token = versions[target].token /\ new.states = versions[target].states
  BY <1>3, <1>4 DEF Version
<1>6. versions' = [old EXCEPT ![target] = new]
  BY DEF Rollback, old
<1> HIDE DEF new
<1>7. /\ versions' \in Seq(Version) /\ Len(versions') = Len(versions)
      /\ \A j \in 1..Len(versions) : versions'[j] = IF j = target THEN new ELSE old[j]
  BY <1>1, <1>3, <1>5, <1>6, ExceptSeq
<1>8. target \in 0..MaxVersions
  BY <1>1
<1>9. \A i \in DOMAIN versions :
          /\ versions'[i].token = versions[i].token
          /\ versions'[i].states = versions[i].states
          /\ versions'[i].status = "ACTIVE" <=> i = target
  BY <1>1, <1>3, <1>5, <1>7
<1> QED
  BY <1>7, <1>8, <1>9, StatusStep DEF Rollback

\* What leaves the pages and the four tables alone: reading for a rebuild,
\* giving it up, and the writers of the revenue.
LEMMA OutsideStep ==
    ASSUME LedgerInv, RebuildRead \/ RebuildAbandon \/ Upload \/ Repair
    PROVE  LedgerInv'
<1>1. LedgerTypeOK /\ PreviewHolds /\ CheckedHolds /\ RebuildHolds
  BY DEF LedgerInv
<1>2. UNCHANGED <<ledger, merge>>
  BY DEF RebuildRead, RebuildAbandon, Upload, Repair
<1>3. EventsExplainActive' /\ NewestIsCurrent' /\ BatchesKnown'
  BY <1>2, LedgerKept
<1>4. PreviewHolds'
  BY <1>1, <1>2 DEF PreviewHolds
<1>5. CASE RebuildRead
  <2>1. LedgerTypeOK'
    BY <1>1, <1>2, <1>5 DEF LedgerTypeOK, ledger, RebuildRead
  <2>2. CheckedHolds' /\ RebuildHolds'
    BY <1>1, <1>2, <1>5, LedgerAssumption
       DEF CheckedHolds, RebuildHolds, ledger, RebuildRead
  <2> QED
    BY <1>3, <1>4, <2>1, <2>2 DEF LedgerInv
<1>6. CASE RebuildAbandon
  <2>1. LedgerTypeOK'
    BY <1>1, <1>2, <1>6 DEF LedgerTypeOK, ledger, RebuildAbandon
  <2>2. CheckedHolds' /\ RebuildHolds'
    BY <1>1, <1>2, <1>6, LedgerAssumption
       DEF CheckedHolds, RebuildHolds, ledger, RebuildAbandon
  <2> QED
    BY <1>3, <1>4, <2>1, <2>2 DEF LedgerInv
<1>7. CASE Upload \/ Repair
  <2>1. UNCHANGED <<ledger, merge, lease, rebuild>> /\ revenue' \in Revenues
    BY <1>7 DEF Upload, Repair
  <2>2. LedgerTypeOK'
    BY <1>1, <2>1 DEF LedgerTypeOK, ledger
  <2>3. CheckedHolds' /\ RebuildHolds'
    BY <1>1, <2>1 DEF CheckedHolds, RebuildHolds, ledger
  <2> QED
    BY <1>3, <1>4, <2>2, <2>3 DEF LedgerInv
<1> QED
  BY <1>5, <1>6, <1>7

LEMMA LedgerStep == ASSUME LedgerInv, LedgerNext PROVE LedgerInv'
BY PageStep, ConfirmCommitStep, DeactivateStep, RollbackStep, RebuildCommitStep, OutsideStep
   DEF LedgerNext

\* A page run that ends, and steps that do not touch the ledger.
LEMMA LedgerIdleStep ==
    ASSUME LedgerInv, UNCHANGED <<revenue, ledger, lease, rebuild>>,
           merge' \in [Sessions -> Merge],
           \A s \in Sessions : merge'[s] = merge[s] \/
               (merge'[s] = Idle /\ merge[s].step # "checked")
    PROVE  LedgerInv'
<1>1. LedgerTypeOK /\ PreviewHolds /\ CheckedHolds /\ RebuildHolds
  BY DEF LedgerInv
<1>2. EventsExplainActive' /\ NewestIsCurrent' /\ BatchesKnown'
  BY LedgerKept
<1>3. LedgerTypeOK'
  BY <1>1 DEF LedgerTypeOK, ledger
<1>4. PreviewHolds' /\ CheckedHolds' /\ RebuildHolds'
  BY <1>1 DEF PreviewHolds, CheckedHolds, RebuildHolds, Idle, ledger
<1> QED
  BY <1>2, <1>3, <1>4 DEF LedgerInv

-----------------------------------------------------------------------------
(* Versions are immutable but for their status *)

VersionsKept ==
    \A i \in DOMAIN versions :
        /\ i \in DOMAIN versions'
        /\ versions'[i].token = versions[i].token
        /\ versions'[i].states = versions[i].states

LEMMA NextKeepsVersions ==
    ASSUME LedgerInv, [Next]_vars
    PROVE  VersionsKept
<1>1. /\ LedgerTypeOK /\ EventsExplainActive /\ RebuildHolds
      /\ DOMAIN versions = 1..Len(versions)
  BY LenProperties DEF LedgerInv, LedgerTypeOK
<1>2. /\ Active \in 0..Len(versions)
  BY <1>1, ActiveIsReplayed
<1>3. /\ DOMAIN Retired(Active) = DOMAIN versions
      /\ \A j \in DOMAIN versions :
            /\ Retired(Active)[j].token = versions[j].token
            /\ Retired(Active)[j].states = versions[j].states
      /\ Retired(Active) \in Seq(Version)
      /\ Len(Retired(Active)) = Len(versions)
  BY <1>1, <1>2, RetiredFacts
<1>4. ASSUME NEW s \in Sessions, ConfirmCommit(s) PROVE VersionsKept
  <2>1. merge[s] \in Merge /\ merge[s].step = "checked"
    BY <1>1, <1>4 DEF LedgerTypeOK, ConfirmCommit
  <2>2. merge[s].frames \in Revenues /\ merge[s].proposed \in Refunds
    BY <2>1 DEF Merge, Idle
  <2> QED
    BY <1>1, <1>4, <2>2, ActivateFacts DEF ConfirmCommit, VersionsKept
<1>5. CASE RebuildCommit
  <2>1. rebuild.token \in Revenues /\ rebuild.states \in Refunds
    BY <1>1, <1>5 DEF LedgerTypeOK, RebuildCommit
  <2> QED
    BY <1>1, <1>5, <2>1, ActivateFacts DEF RebuildCommit, VersionsKept
<1>6. CASE Deactivate
  BY <1>3, <1>6 DEF Deactivate, VersionsKept
<1>7. ASSUME NEW target \in DOMAIN versions, Rollback(target) PROVE VersionsKept
  <2> DEFINE old == Retired(Active)
             new == [old[target] EXCEPT !.status = "ACTIVE"]
  <2>1. old[target] \in Version
    BY <1>1, <1>3, ElementOfSeq
  <2>2. new.token = old[target].token /\ new.states = old[target].states
    BY <2>1 DEF Version
  <2>3. versions' = [old EXCEPT ![target] = new]
    BY <1>7 DEF Rollback
  <2>4. DOMAIN old = DOMAIN versions
    BY <1>3
  <2> HIDE DEF new, old
  <2>5. DOMAIN versions' = DOMAIN versions
        /\ \A j \in DOMAIN versions : versions'[j] = IF j = target THEN new ELSE old[j]
    BY <2>3, <2>4
  <2>6. \A j \in DOMAIN versions :
            old[j].token = versions[j].token /\ old[j].states = versions[j].states
    BY <1>3 DEF old
  <2> QED
    BY <2>2, <2>5, <2>6 DEF VersionsKept
<1>8. CASE UNCHANGED versions
  BY <1>8 DEF VersionsKept
<1> QED
  BY <1>4, <1>5, <1>6, <1>7, <1>8 DEF Next, LedgerNext, ExportNext, vars, ledgerVars, ledger,
     LoadPage, Preview, ConfirmDuplicate, ConfirmStale, ConfirmAccept, Abandon,
     RebuildRead, RebuildAbandon, Upload, Repair, BuildInactive, BuildStart, Begin, BuildSeed,
     PublishCandidate, BuildFails, Fallback, FullStart, FullEnd, BuildCrash, ViewScope,
     ViewCache, ViewModel, ClosePage

-----------------------------------------------------------------------------
(* ExportInv is kept by every step *)

LEMMA FullReportType ==
    ASSUME NEW r \in Revenues, NEW c \in Refunds
    PROVE  FullReport(r, c) \in FullReports
<1>1. <<r, c>> \in Revenues \X Refunds
  OBVIOUS
<1> QED
  BY <1>1 DEF FullReports

LEMMA VersionFacts ==
    ASSUME LedgerTypeOK
    PROVE  /\ DOMAIN versions = 1..Len(versions) /\ Len(versions) \in Nat
           /\ DOMAIN versions \subseteq 1..MaxVersions
           /\ \A i \in DOMAIN versions :
                 /\ versions[i].token \in Revenues /\ versions[i].states \in Refunds
                 /\ FingerprintOf(i) \in Fingerprint
                 /\ FingerprintOf(i).token = versions[i].token
                 /\ FingerprintOf(i).states = versions[i].states
<1>1. DOMAIN versions = 1..Len(versions) /\ Len(versions) \in Nat
  BY LenProperties DEF LedgerTypeOK
<1>2. \A i \in DOMAIN versions : versions[i] \in Version
  BY <1>1, ElementOfSeq DEF LedgerTypeOK
<1>3. DOMAIN versions \subseteq 1..MaxVersions
  BY <1>1, LedgerAssumption DEF LedgerTypeOK
<1> QED
  BY <1>1, <1>2, <1>3 DEF Version, FingerprintOf, Fingerprint

LEMMA InitExportInv == Init => ExportInv
<1> SUFFICES ASSUME Init PROVE ExportInv
  OBVIOUS
<1> USE DEF Init
<1>1. caches = [x \in {} |-> << >>] /\ references = [x \in {} |-> << >>]
  OBVIOUS
<1>2. DOMAIN caches = {} /\ DOMAIN references = {}
  BY <1>1
<1>3. FullTypeOK
  BY <1>2 DEF FullTypeOK, FullBuild
<1>4. \A s \in Sessions : merge[s].step = "idle" /\ build[s].step = "idle" /\ shown[s] = None
  BY DEF LedgerInit, Idle, NoBuild
<1> QED
  BY <1>2, <1>3, <1>4 DEF ExportInv, MergedKnown, BuildKnown, ReferencesAreFull, ViewKnown,
     PublishedIsFull, ShownIsOfItsRevenue

\* A step of the ledger: what the builds and pages know is of versions that
\* keep their refunds and their revenue.
LEMMA ExportKept ==
    ASSUME ExportInv, VersionsKept, UNCHANGED exportVars
    PROVE  /\ FullTypeOK' /\ BuildKnown' /\ ReferencesAreFull' /\ ViewKnown'
           /\ PublishedIsFull' /\ ShownIsOfItsRevenue'
<1> USE DEF ExportInv, exportVars, VersionsKept
<1>1. FullTypeOK'
  BY DEF FullTypeOK
<1>2. BuildKnown'
  BY DEF BuildKnown
<1>3. ReferencesAreFull'
  BY DEF ReferencesAreFull
<1>4. ViewKnown'
  BY DEF ViewKnown
<1>5. PublishedIsFull'
  BY DEF PublishedIsFull, FullTypeOK
<1>6. ShownIsOfItsRevenue'
  BY DEF ShownIsOfItsRevenue
<1> QED
  BY <1>1, <1>2, <1>3, <1>4, <1>5, <1>6

\* A confirmed page knows a version of its revenue, be it the one it made or
\* the one of a batch confirmed before.
LEMMA MergedKnownStep ==
    ASSUME LedgerInv, ExportInv, LedgerNext, VersionsKept
    PROVE  MergedKnown'
<1> SUFFICES ASSUME NEW u \in Sessions, merge'[u].step = "merged"
             PROVE  /\ merge'[u].version \in DOMAIN versions'
                    /\ versions'[merge'[u].version].token = merge'[u].frames
  BY DEF MergedKnown
<1>1. /\ LedgerTypeOK /\ EventsExplainActive /\ BatchesKnown /\ MergedKnown
      /\ merge \in [Sessions -> Merge]
  BY DEF LedgerInv, ExportInv, LedgerTypeOK
<1>2. CASE merge'[u] = merge[u]
  BY <1>1, <1>2 DEF MergedKnown, VersionsKept
<1>3. CASE ConfirmDuplicate(u)
  <2>1. PICK b \in Confirmed(u) :
          merge' = [merge EXCEPT ![u] =
             [step |-> "merged", frames |-> merge[u].frames, version |-> b.version,
              affected |-> {o.receipt : o \in merge[u].file}]]
    BY <1>3 DEF ConfirmDuplicate
  <2>2. b \in batches /\ b.token = merge[u].frames
    BY <2>1 DEF Confirmed
  <2>3. merge'[u].version = b.version /\ merge'[u].frames = merge[u].frames
    BY <1>1, <2>1
  <2> QED
    BY <1>1, <2>2, <2>3 DEF BatchesKnown, VersionsKept
<1>4. CASE ConfirmCommit(u)
  <2>1. merge[u] \in Merge /\ merge[u].step = "checked"
    BY <1>1, <1>4 DEF ConfirmCommit
  <2>2. merge[u].frames \in Revenues /\ merge[u].proposed \in Refunds
    BY <2>1 DEF Merge, Idle
  <2>3. /\ versions' \in Seq(Version) /\ Len(versions') = Len(versions) + 1
        /\ versions'[Len(versions')].token = merge[u].frames
    BY <1>1, <1>4, <2>2, ActivateFacts DEF ConfirmCommit
  <2>4. Len(versions) + 1 \in DOMAIN versions'
    BY <1>1, <2>3, LenProperties DEF LedgerTypeOK
  <2>5. merge'[u].version = Len(versions) + 1 /\ merge'[u].frames = merge[u].frames
    BY <1>1, <1>4 DEF ConfirmCommit
  <2> QED
    BY <2>3, <2>4, <2>5
<1>5. ASSUME NEW s \in Sessions,
             \/ LoadPage(s) \/ \E file \in Files : Preview(s, file)
             \/ ConfirmStale(s) \/ ConfirmAccept(s) \/ Abandon(s),
             merge'[u] # merge[u]
      PROVE  FALSE
  <2>1. merge[s] \in Merge
    BY <1>1
  <2>2. u = s
    BY <1>1, <1>5 DEF LoadPage, Preview, ConfirmStale, ConfirmAccept, Abandon
  <2>3. CASE ConfirmAccept(s)
    <3>1. /\ merge' = [merge EXCEPT ![s] = [merge[s] EXCEPT !.step = "checked"]]
          /\ merge[s].step = "previewed"
      BY <2>3 DEF ConfirmAccept
    <3>2. [merge[s] EXCEPT !.step = "checked"].step = "checked"
      BY <2>1, <3>1 DEF Merge, Idle
    <3>3. merge'[s] = [merge[s] EXCEPT !.step = "checked"]
      BY <1>1, <3>1
    <3> QED
      BY <2>2, <3>2, <3>3
  <2>4. CASE \/ LoadPage(s) \/ \E file \in Files : Preview(s, file)
             \/ ConfirmStale(s) \/ Abandon(s)
    <3>1. merge'[s].step \in {"loaded", "previewed", "idle"}
      BY <1>1, <2>4 DEF LoadPage, Preview, ConfirmStale, Abandon, Idle
    <3> QED
      BY <2>2, <3>1
  <2> QED
    BY <1>5, <2>3, <2>4
<1>6. \A s \in Sessions :
          (ConfirmDuplicate(s) \/ ConfirmCommit(s)) /\ merge'[u] # merge[u] => s = u
  BY <1>1 DEF ConfirmDuplicate, ConfirmCommit
<1>7. CASE Deactivate \/ (\E target \in DOMAIN versions : Rollback(target))
           \/ RebuildRead \/ RebuildCommit \/ RebuildAbandon \/ Upload \/ Repair
  BY <1>2, <1>7 DEF Deactivate, Rollback, RebuildRead, RebuildCommit, RebuildAbandon, Upload, Repair
<1> QED
  BY <1>2, <1>3, <1>4, <1>5, <1>6, <1>7 DEF LedgerNext

\* The start of a build: the page's run hands over what it knows.
LEMMA BeginStep ==
    ASSUME LedgerInv, ExportInv, NEW s \in Sessions,
           NEW step \in {"seed", "gate", "fallback"}, NEW previous \in BOOLEAN,
           Begin(s, step, previous),
           \A f \in DOMAIN references' :
               f \in DOMAIN references /\ references'[f] = references[f]
    PROVE  LedgerInv' /\ ExportInv'
<1> DEFINE b == [step |-> step, version |-> merge[s].version, frames |-> merge[s].frames,
                 affected |-> merge[s].affected, previous |-> previous, seed |-> None]
<1>1. /\ merge[s].step = "merged"
      /\ merge' = [merge EXCEPT ![s] = Idle] /\ build' = [build EXCEPT ![s] = b]
      /\ UNCHANGED <<revenue, ledger, lease, rebuild, caches, shown>>
  BY DEF Begin
<1>2. merge \in [Sessions -> Merge] /\ Idle \in Merge
  BY DEF LedgerInv, LedgerTypeOK, Merge
<1>3. LedgerInv'
  BY <1>1, <1>2, LedgerIdleStep
<1>4. versions' = versions
  BY <1>1 DEF ledger
<1>5. /\ merge[s].version \in 1..MaxVersions /\ merge[s].frames \in Revenues
      /\ merge[s].affected \in SUBSET Receipts
  BY <1>1, <1>2 DEF Merge, Idle
<1>6. b \in FullBuild
  BY <1>5 DEF FullBuild
<1>7. /\ b.version = merge[s].version /\ b.frames = merge[s].frames /\ b.seed = None
  OBVIOUS
<1> HIDE DEF b
<1>8. /\ FullTypeOK /\ MergedKnown /\ BuildKnown /\ ReferencesAreFull /\ ViewKnown
      /\ PublishedIsFull /\ ShownIsOfItsRevenue
  BY DEF ExportInv
<1>9. FullTypeOK'
  BY <1>1, <1>4, <1>6, <1>8 DEF FullTypeOK
<1>10. MergedKnown'
  BY <1>1, <1>2, <1>4, <1>8 DEF MergedKnown, Idle
<1>11. BuildKnown'
  BY <1>1, <1>4, <1>7, <1>8 DEF BuildKnown, MergedKnown, FullTypeOK
<1>12. ReferencesAreFull'
  BY <1>8 DEF ReferencesAreFull
<1>13. ViewKnown' /\ PublishedIsFull' /\ ShownIsOfItsRevenue'
  BY <1>1, <1>4, <1>8 DEF ViewKnown, PublishedIsFull, ShownIsOfItsRevenue
<1> QED
  BY <1>3, <1>9, <1>10, <1>11, <1>12, <1>13 DEF ExportInv

LEMMA BuildStartStep ==
    ASSUME LedgerInv, ExportInv, NEW s \in Sessions, BuildInactive(s) \/ BuildStart(s)
    PROVE  LedgerInv' /\ ExportInv'
<1> DEFINE cached == Active \in DOMAIN caches
<1>1. cached \in BOOLEAN
  OBVIOUS
<1> HIDE DEF cached
<1>2. PICK step \in {"seed", "gate", "fallback"}, previous \in BOOLEAN :
          /\ Begin(s, step, previous)
          /\ \/ references' = references
             \/ references' = [g \in DOMAIN references \ {FingerprintOf(Active)} |-> references[g]]
  BY <1>1 DEF BuildInactive, BuildStart, cached
<1>3. \A f \in DOMAIN references' :
          f \in DOMAIN references /\ references'[f] = references[f]
  BY <1>2
<1> QED
  BY <1>2, <1>3, BeginStep

\* A step of a build that has begun leaves the ledger alone.
LEMMA BuildLedgerKept ==
    ASSUME LedgerInv, UNCHANGED ledgerVars
    PROVE  LedgerInv' /\ versions' = versions /\ Active' = Active
<1>1. UNCHANGED <<revenue, ledger, lease, rebuild, merge>>
  BY DEF ledgerVars
<1>2. LedgerInv'
  BY <1>1, LedgerIdleStep DEF LedgerInv, LedgerTypeOK
<1> QED
  BY <1>1, <1>2 DEF ledger, Active, ActiveVersions

\* The reference that is seeded, and the seed, are the full calculation over
\* the frames the page loaded, which are the version's.
LEMMA BuildSeedStep ==
    ASSUME LedgerInv, ExportInv, NEW s \in Sessions, BuildSeed(s)
    PROVE  LedgerInv' /\ ExportInv'
<1> DEFINE i == build[s].version
           f == FingerprintOf(i)
           seed == FullReport(build[s].frames, versions[i].states)
<1>1. /\ build[s].step = "seed"
      /\ UNCHANGED <<ledgerVars, caches, shown>>
  BY DEF BuildSeed
<1>2. LedgerInv' /\ versions' = versions /\ Active' = Active
  BY <1>1, BuildLedgerKept
<1>3. /\ FullTypeOK /\ MergedKnown /\ BuildKnown /\ ReferencesAreFull /\ ViewKnown
      /\ PublishedIsFull /\ ShownIsOfItsRevenue /\ LedgerTypeOK
  BY DEF ExportInv, LedgerInv
<1>4. build[s] \in FullBuild /\ build \in [Sessions -> FullBuild]
  BY <1>3 DEF FullTypeOK
<1>5. /\ i \in DOMAIN versions
      /\ versions[i].token = build[s].frames
  BY <1>1, <1>3 DEF BuildKnown
<1>6. /\ f \in Fingerprint /\ f.token = build[s].frames /\ f.states = versions[i].states
      /\ seed \in FullReports
  BY <1>3, <1>5, VersionFacts, FullReportType
<1> HIDE DEF f, seed
<1>7. PICK step \in {"gate", "fallback"} :
         build' = [build EXCEPT ![s] = [build[s] EXCEPT !.step = step, !.seed = seed]]
  BY DEF BuildSeed, seed
<1> DEFINE b == [build[s] EXCEPT !.step = step, !.seed = seed]
<1>8. /\ b \in FullBuild /\ b.seed = seed /\ b.frames = build[s].frames
      /\ b.version = i
  <2>1. build[s] \in [step : {"seed", "gate", "fallback", "full"}, version : 1..MaxVersions,
                     frames : Revenues, affected : SUBSET Receipts,
                     previous : BOOLEAN, seed : FullReports \union {None}]
    BY <1>1, <1>4 DEF FullBuild, NoBuild
  <2> DEFINE c == [build[s] EXCEPT !.step = step]
  <2>2. /\ c \in [step : {"seed", "gate", "fallback", "full"}, version : 1..MaxVersions,
                  frames : Revenues, affected : SUBSET Receipts,
                  previous : BOOLEAN, seed : FullReports \union {None}]
        /\ c.frames = build[s].frames /\ c.version = build[s].version
    BY <2>1
  <2>3. b = [c EXCEPT !.seed = seed]
    OBVIOUS
  <2> HIDE DEF c, b
  <2>4. /\ b \in [step : {"seed", "gate", "fallback", "full"}, version : 1..MaxVersions,
                  frames : Revenues, affected : SUBSET Receipts,
                  previous : BOOLEAN, seed : FullReports \union {None}]
        /\ b.seed = seed /\ b.frames = c.frames /\ b.version = c.version
    BY <1>6, <2>2, <2>3
  <2> QED
    BY <1>1, <2>2, <2>4 DEF FullBuild
<1>9. build' = [build EXCEPT ![s] = b]
  BY <1>7
<1> HIDE DEF b
<1>10. \A g \in DOMAIN references' :
          \/ g \in DOMAIN references /\ references'[g] = references[g]
          \/ g = f /\ references'[g] = seed
  BY DEF BuildSeed, f, seed
<1>11. FullTypeOK'
  BY <1>1, <1>2, <1>3, <1>6, <1>8, <1>9, <1>10 DEF FullTypeOK
<1>12. MergedKnown'
  BY <1>1, <1>2, <1>3 DEF MergedKnown, ledgerVars
<1>13. BuildKnown'
  <2> SUFFICES ASSUME NEW u \in Sessions, build'[u].step # "idle"
               PROVE  /\ build'[u].version \in DOMAIN versions
                      /\ versions[build'[u].version].token = build'[u].frames
                      /\ build'[u].seed # None =>
                            build'[u].seed =
                               FullReport(build'[u].frames, versions[build'[u].version].states)
    BY <1>2 DEF BuildKnown
  <2>1. CASE u = s
    BY <1>4, <1>5, <1>8, <1>9, <2>1 DEF seed
  <2>2. CASE u # s
    BY <1>3, <1>4, <1>9, <2>2 DEF BuildKnown
  <2> QED
    BY <2>1, <2>2
<1>14. ReferencesAreFull'
  BY <1>3, <1>6, <1>10 DEF ReferencesAreFull, seed
<1>15. ViewKnown' /\ PublishedIsFull' /\ ShownIsOfItsRevenue'
  BY <1>1, <1>2, <1>3 DEF ViewKnown, PublishedIsFull, ShownIsOfItsRevenue
<1> QED
  BY <1>2, <1>11, <1>12, <1>13, <1>14, <1>15 DEF ExportInv

\* The end of a build, with or without a publication.
LEMMA EndBuildStep ==
    ASSUME LedgerInv, ExportInv, NEW s \in Sessions, build[s].step # "idle", EndBuild(s),
           UNCHANGED <<ledgerVars, references, shown>>,
           \/ UNCHANGED caches
           \/ \E report : /\ SetCache(build[s].version, report)
                          /\ report = FullReport(versions[build[s].version].token,
                                                 versions[build[s].version].states)
    PROVE  LedgerInv' /\ ExportInv'
<1>1. LedgerInv' /\ versions' = versions /\ Active' = Active
  BY BuildLedgerKept
<1>2. /\ FullTypeOK /\ MergedKnown /\ BuildKnown /\ ReferencesAreFull /\ ViewKnown
      /\ PublishedIsFull /\ ShownIsOfItsRevenue /\ LedgerTypeOK
  BY DEF ExportInv, LedgerInv
<1>3. build' = [build EXCEPT ![s] = NoBuild] /\ build \in [Sessions -> FullBuild]
  BY <1>2 DEF EndBuild, FullTypeOK
<1>4. build[s].version \in DOMAIN versions
  BY <1>2 DEF BuildKnown
<1>5. \A i \in DOMAIN caches' :
         \/ i \in DOMAIN caches /\ caches'[i] = caches[i]
         \/ i = build[s].version /\ caches'[i] = FullReport(versions[i].token, versions[i].states)
  BY DEF SetCache
<1>6. NoBuild \in FullBuild /\ NoBuild.step = "idle"
  BY DEF FullBuild, NoBuild
<1>7. FullTypeOK'
  BY <1>1, <1>2, <1>3, <1>4, <1>5, <1>6 DEF FullTypeOK
<1>8. PublishedIsFull'
  BY <1>1, <1>2, <1>5 DEF PublishedIsFull
<1>9. BuildKnown'
  BY <1>1, <1>2, <1>3, <1>6 DEF BuildKnown
<1>10. MergedKnown' /\ ReferencesAreFull' /\ ViewKnown' /\ ShownIsOfItsRevenue'
  BY <1>1, <1>2 DEF MergedKnown, ReferencesAreFull, ViewKnown, ShownIsOfItsRevenue, ledgerVars
<1> QED
  BY <1>1, <1>7, <1>8, <1>9, <1>10 DEF ExportInv

\* A candidate is published when it equals the reference of the version's
\* revenue and refunds, a fallback publishes the seed or the full calculation.
LEMMA PublishStep ==
    ASSUME LedgerInv, ExportInv, NEW s \in Sessions,
           PublishCandidate(s) \/ Fallback(s) \/ FullEnd(s) \/ BuildCrash(s)
    PROVE  LedgerInv' /\ ExportInv'
<1> DEFINE i == build[s].version
<1>1. LedgerTypeOK /\ BuildKnown /\ ReferencesAreFull
  BY DEF ExportInv, LedgerInv
<1>2. /\ build[s].step # "idle" /\ EndBuild(s)
      /\ UNCHANGED <<ledgerVars, references, shown>>
  BY DEF PublishCandidate, Fallback, FullEnd, BuildCrash
<1>3. /\ i \in DOMAIN versions /\ versions[i].token = build[s].frames
      /\ build[s].seed # None => build[s].seed = FullReport(versions[i].token, versions[i].states)
  BY <1>1, <1>2 DEF BuildKnown
<1>4. FingerprintOf(i).token = versions[i].token /\ FingerprintOf(i).states = versions[i].states
  BY <1>1, <1>3, VersionFacts
<1>5. \/ UNCHANGED caches
      \/ \E report : /\ SetCache(i, report)
                     /\ report = FullReport(versions[i].token, versions[i].states)
  <2>1. CASE PublishCandidate(s)
    <3>1. /\ FingerprintOf(i) \in DOMAIN references
          /\ SetCache(i, references[FingerprintOf(i)])
      BY <2>1 DEF PublishCandidate, Matches
    <3> QED
      BY <1>1, <1>4, <3>1 DEF ReferencesAreFull
  <2>2. CASE Fallback(s)
    <3>1. \/ UNCHANGED caches
          \/ build[s].seed # None /\ SetCache(i, build[s].seed)
      BY <2>2 DEF Fallback
    <3> QED
      BY <1>3, <3>1
  <2>3. CASE FullEnd(s)
    BY <1>3, <2>3 DEF FullEnd
  <2>4. CASE BuildCrash(s)
    BY <2>4 DEF BuildCrash
  <2> QED
    BY <2>1, <2>2, <2>3, <2>4
<1> QED
  BY <1>2, <1>5, EndBuildStep

\* A build goes on to another calculation.
LEMMA BuildFailsStep ==
    ASSUME LedgerInv, ExportInv, NEW s \in Sessions, BuildFails(s) \/ FullStart(s)
    PROVE  LedgerInv' /\ ExportInv'
<1> PICK step \in {"fallback", "full"} : Go(s, step)
  BY DEF BuildFails, FullStart
<1> DEFINE b == [build[s] EXCEPT !.step = step]
<1>1. LedgerInv' /\ versions' = versions /\ Active' = Active
  BY BuildLedgerKept DEF BuildFails, FullStart
<1>2. /\ FullTypeOK /\ MergedKnown /\ BuildKnown /\ ReferencesAreFull /\ ViewKnown
      /\ PublishedIsFull /\ ShownIsOfItsRevenue
  BY DEF ExportInv
<1>3. /\ build[s].step # "idle" /\ build' = [build EXCEPT ![s] = b]
      /\ UNCHANGED <<ledgerVars, caches, references, shown>>
  BY DEF BuildFails, FullStart, Go
<1>4. build[s] \in FullBuild /\ build \in [Sessions -> FullBuild]
  BY <1>2 DEF FullTypeOK
<1>5. /\ b \in FullBuild /\ b.seed = build[s].seed /\ b.frames = build[s].frames
      /\ b.version = build[s].version
  BY <1>3, <1>4 DEF FullBuild, NoBuild
<1> HIDE DEF b
<1>6. FullTypeOK'
  BY <1>1, <1>2, <1>3, <1>4, <1>5 DEF FullTypeOK
<1>7. BuildKnown'
  BY <1>1, <1>2, <1>3, <1>4, <1>5 DEF BuildKnown
<1>8. /\ MergedKnown' /\ ReferencesAreFull' /\ ViewKnown' /\ PublishedIsFull'
      /\ ShownIsOfItsRevenue'
  BY <1>1, <1>2, <1>3 DEF MergedKnown, ReferencesAreFull, ViewKnown, PublishedIsFull,
     ShownIsOfItsRevenue, ledgerVars
<1> QED
  BY <1>1, <1>6, <1>7, <1>8 DEF ExportInv

LEMMA ViewScopeStep ==
    ASSUME LedgerInv, ExportInv, NEW s \in Sessions, ViewScope(s)
    PROVE  LedgerInv' /\ ExportInv'
<1> DEFINE v == [step |-> "loaded", frames |-> merge[s].frames, scope |-> Active,
                 cache |-> None, report |-> None]
<1>1. /\ FullTypeOK /\ MergedKnown /\ BuildKnown /\ ReferencesAreFull /\ ViewKnown
      /\ PublishedIsFull /\ ShownIsOfItsRevenue /\ LedgerTypeOK /\ EventsExplainActive
  BY DEF ExportInv, LedgerInv
<1>2. /\ merge[s].step = "loaded" /\ merge' = [merge EXCEPT ![s] = Idle]
      /\ \/ shown' = [shown EXCEPT ![s] = None]
         \/ shown' = [shown EXCEPT ![s] = v]
      /\ UNCHANGED <<revenue, ledger, lease, rebuild, caches, references, build>>
  BY DEF ViewScope
<1>3. merge \in [Sessions -> Merge] /\ Idle \in Merge
  BY <1>1 DEF LedgerTypeOK, Merge
<1>4. LedgerInv'
  BY <1>2, <1>3, LedgerIdleStep
<1>5. versions' = versions
  BY <1>2 DEF ledger
<1>6. merge[s].frames \in Revenues
  BY <1>2, <1>3 DEF Merge, Idle
<1>7. Active \in 0..MaxVersions
  BY <1>1, ActiveIsReplayed
<1>8. v \in FullView /\ v.cache = None /\ v.report = None
  BY <1>6, <1>7 DEF FullView
<1> HIDE DEF v
<1>9. FullTypeOK'
  BY <1>1, <1>2, <1>5, <1>8 DEF FullTypeOK
<1>10. MergedKnown'
  BY <1>1, <1>2, <1>3, <1>5 DEF MergedKnown, Idle
<1>11. \A u \in Sessions : shown'[u] = shown[u] \/ shown'[u] = None \/ shown'[u] = v
  BY <1>1, <1>2 DEF FullTypeOK
<1>12. ViewKnown' /\ ShownIsOfItsRevenue'
  BY <1>1, <1>5, <1>8, <1>11 DEF ViewKnown, ShownIsOfItsRevenue
<1>13. BuildKnown' /\ ReferencesAreFull' /\ PublishedIsFull'
  BY <1>1, <1>2, <1>5 DEF BuildKnown, ReferencesAreFull, PublishedIsFull
<1> QED
  BY <1>4, <1>9, <1>10, <1>12, <1>13 DEF ExportInv

\* A step of a page view that changes what it has read or displays.
LEMMA ViewStep ==
    ASSUME LedgerInv, ExportInv, NEW s \in Sessions,
           UNCHANGED <<ledgerVars, caches, references, build>>,
           NEW v \in FullView \union {None}, shown' = [shown EXCEPT ![s] = v],
           v # None /\ v.cache # None =>
               \E i \in DOMAIN versions :
                   /\ versions[i].token = v.frames
                   /\ v.cache = FullReport(v.frames, versions[i].states),
           v # None /\ v.report # None =>
               \E i \in DOMAIN versions :
                   /\ versions[i].token = v.frames
                   /\ v.report = FullReport(v.frames, versions[i].states)
    PROVE  LedgerInv' /\ ExportInv'
<1>1. LedgerInv' /\ versions' = versions
  BY BuildLedgerKept
<1>2. /\ FullTypeOK /\ MergedKnown /\ BuildKnown /\ ReferencesAreFull /\ ViewKnown
      /\ PublishedIsFull /\ ShownIsOfItsRevenue
  BY DEF ExportInv
<1>3. FullTypeOK'
  BY <1>1, <1>2 DEF FullTypeOK
<1>4. \A u \in Sessions : shown'[u] = shown[u] \/ shown'[u] = v
  BY <1>2 DEF FullTypeOK
<1>5. ViewKnown'
  BY <1>1, <1>2, <1>4 DEF ViewKnown
<1>6. ShownIsOfItsRevenue'
  BY <1>1, <1>2, <1>4 DEF ShownIsOfItsRevenue
<1>7. MergedKnown' /\ BuildKnown' /\ ReferencesAreFull' /\ PublishedIsFull'
  BY <1>1, <1>2 DEF MergedKnown, BuildKnown, ReferencesAreFull, PublishedIsFull, ledgerVars
<1> QED
  BY <1>1, <1>3, <1>5, <1>6, <1>7 DEF ExportInv

LEMMA ViewCacheStep ==
    ASSUME LedgerInv, ExportInv, NEW s \in Sessions, ViewCache(s)
    PROVE  LedgerInv' /\ ExportInv'
<1> DEFINE c == CacheOf(shown[s].scope, shown[s].frames)
           w == [shown[s] EXCEPT !.step = "cached"]
           v == [w EXCEPT !.cache = c]
<1>1. FullTypeOK /\ PublishedIsFull /\ ShownIsOfItsRevenue /\ LedgerTypeOK
  BY DEF ExportInv, LedgerInv
<1>2. shown[s] \in FullView
  BY <1>1 DEF ViewCache, FullTypeOK
<1>3. c # None =>
         \E i \in DOMAIN versions :
             /\ versions[i].token = shown[s].frames
             /\ c = FullReport(shown[s].frames, versions[i].states)
  BY <1>1 DEF CacheOf, PublishedIsFull, FullTypeOK
<1>4. c \in FullReports \union {None}
  BY <1>1, <1>3, VersionFacts, FullReportType
<1>5. shown' = [shown EXCEPT ![s] = v]
  BY DEF ViewCache
<1> HIDE DEF c
<1>6. w \in FullView /\ w.frames = shown[s].frames /\ w.report = shown[s].report
  BY <1>2 DEF FullView
<1> HIDE DEF w
<1>7. v \in FullView /\ v.frames = w.frames /\ v.report = w.report /\ v.cache = c
  BY <1>4, <1>6 DEF FullView
<1> HIDE DEF v
<1>8. v.report # None =>
         \E i \in DOMAIN versions :
             /\ versions[i].token = v.frames
             /\ v.report = FullReport(v.frames, versions[i].states)
  BY <1>1, <1>6, <1>7 DEF ShownIsOfItsRevenue, ViewCache
<1>9. v.cache # None =>
         \E i \in DOMAIN versions :
             /\ versions[i].token = v.frames
             /\ v.cache = FullReport(v.frames, versions[i].states)
  BY <1>3, <1>6, <1>7
<1>10. UNCHANGED <<ledgerVars, caches, references, build>>
  BY DEF ViewCache
<1>11. v \in FullView \union {None}
  BY <1>7
<1> QED
  BY <1>5, <1>8, <1>9, <1>10, <1>11, ViewStep

\* The read model looks the version up again, but answers only for the
\* revenue of the page; the cache it may show was read for that revenue too.
LEMMA ViewModelStep ==
    ASSUME LedgerInv, ExportInv, NEW s \in Sessions, ViewModel(s)
    PROVE  LedgerInv' /\ ExportInv'
<1> DEFINE r == IF Active = 0 \/ versions[Active].token # shown[s].frames THEN None
                ELSE shown[s].cache
           w == [shown[s] EXCEPT !.step = "displayed"]
           v == [w EXCEPT !.report = r]
<1>1. FullTypeOK /\ ViewKnown /\ LedgerTypeOK /\ EventsExplainActive
  BY DEF ExportInv, LedgerInv
<1>2. shown[s] \in FullView /\ shown[s] # None
  BY <1>1 DEF ViewModel, FullTypeOK
<1>3. Active # 0 => Active \in DOMAIN versions
  BY <1>1, ActiveIsReplayed, VersionFacts
<1>4. r # None =>
         \E i \in DOMAIN versions :
             /\ versions[i].token = shown[s].frames
             /\ r = FullReport(shown[s].frames, versions[i].states)
  BY <1>1, <1>2, <1>3 DEF ViewKnown
<1>5. r \in FullReports \union {None}
  BY <1>1, <1>4, VersionFacts, FullReportType
<1>6. shown' = [shown EXCEPT ![s] = v]
  BY DEF ViewModel
<1> HIDE DEF r
<1>7. w \in FullView /\ w.frames = shown[s].frames /\ w.cache = shown[s].cache
  BY <1>2 DEF FullView
<1> HIDE DEF w
<1>8. v \in FullView /\ v.frames = w.frames /\ v.cache = w.cache /\ v.report = r
  BY <1>5, <1>7 DEF FullView
<1> HIDE DEF v
<1>9. v.cache # None =>
         \E i \in DOMAIN versions :
             /\ versions[i].token = v.frames
             /\ v.cache = FullReport(v.frames, versions[i].states)
  BY <1>1, <1>2, <1>7, <1>8 DEF ViewKnown
<1>10. v.report # None =>
         \E i \in DOMAIN versions :
             /\ versions[i].token = v.frames
             /\ v.report = FullReport(v.frames, versions[i].states)
  BY <1>4, <1>7, <1>8
<1>11. UNCHANGED <<ledgerVars, caches, references, build>>
  BY DEF ViewModel
<1>12. v \in FullView \union {None}
  BY <1>8
<1> QED
  BY <1>6, <1>9, <1>10, <1>11, <1>12, ViewStep

LEMMA ClosePageStep ==
    ASSUME LedgerInv, ExportInv, NEW s \in Sessions, ClosePage(s)
    PROVE  LedgerInv' /\ ExportInv'
BY ViewStep DEF ClosePage

LEMMA ExportStep == ASSUME LedgerInv, ExportInv, ExportNext PROVE LedgerInv' /\ ExportInv'
BY BuildStartStep, BuildSeedStep, PublishStep, BuildFailsStep, ViewScopeStep, ViewCacheStep,
   ViewModelStep, ClosePageStep DEF ExportNext

LEMMA Step == ASSUME IInv, [Next]_vars PROVE IInv'
<1>1. LedgerInv /\ ExportInv
  BY DEF IInv
<1>2. VersionsKept
  BY <1>1, NextKeepsVersions
<1>3. CASE LedgerNext /\ UNCHANGED exportVars
  <2>1. LedgerInv' /\ MergedKnown'
    BY <1>1, <1>2, <1>3, LedgerStep, MergedKnownStep
  <2> QED
    BY <1>1, <1>2, <1>3, <2>1, ExportKept DEF ExportInv, IInv
<1>4. CASE ExportNext
  BY <1>1, <1>4, ExportStep DEF IInv
<1>5. CASE UNCHANGED vars
  <2>1. LedgerInv'
    BY <1>1, <1>5, BuildLedgerKept DEF vars
  <2>2. MergedKnown'
    BY <1>1, <1>5 DEF ExportInv, MergedKnown, vars, ledgerVars, ledger
  <2> QED
    BY <1>1, <1>2, <1>5, <2>1, <2>2, ExportKept DEF ExportInv, IInv, vars
<1> QED
  BY <1>3, <1>4, <1>5 DEF Next

LEMMA Invariance == Spec => []IInv
<1>1. Init => IInv
  BY InitLedgerInv, InitExportInv DEF IInv, Init
<1> QED
  BY <1>1, Step, PTL DEF Spec

-----------------------------------------------------------------------------
(* Sums over a finite set.  MapThenSumSet is a recursive function over the  *)
(* subsets, and what it computes is shown by least counterexample.          *)

Picked(s) == CHOOSE x \in s : TRUE

\* The least-counterexample form of induction over the subsets of a finite set.
LEMMA SmallestSubset ==
    ASSUME NEW S, IsFiniteSet(S), NEW T \in SUBSET (SUBSET S), T # {}
    PROVE  \E s \in T : \A t \in T : ~ (t \subseteq s /\ t # s)
<1>1. FiniteSubsetsOf(S) = SUBSET S
  BY FS_FiniteSubsetsOfFinite
<1>2. IsWellFoundedOn(StrictSubsetOrdering(S), FiniteSubsetsOf(S))
  BY FS_StrictSubsetOrderingWellFounded
<1>3. \E s \in T : \A t \in T : ~ (<<t, s>> \in StrictSubsetOrdering(S))
  BY <1>1, <1>2, WFMin
<1> QED
  BY <1>3 DEF StrictSubsetOrdering

\* g holds the sums of F over the subsets of S, as MapThenSumSet adds them.
SumsOf(F, S, g) ==
    g = [s \in SUBSET S |-> IF s = {} THEN 0 ELSE F[Picked(s)] + g[s \ {Picked(s)}]]

LEMMA PickedIsIn == ASSUME NEW s, s # {} PROVE Picked(s) \in s
BY DEF Picked

LEMMA SumsStep ==
    ASSUME NEW S, NEW F, NEW g, SumsOf(F, S, g), NEW s \in SUBSET S
    PROVE  g[s] = IF s = {} THEN 0 ELSE F[Picked(s)] + g[s \ {Picked(s)}]
BY DEF SumsOf

LEMMA SumsAgree ==
    ASSUME NEW S, IsFiniteSet(S), NEW F, NEW A \in SUBSET S, NEW B \in SUBSET S,
           NEW g, SumsOf(F, A, g), NEW h, SumsOf(F, B, h)
    PROVE  \A s \in SUBSET (A \intersect B) : g[s] = h[s]
<1> DEFINE T == {s \in SUBSET (A \intersect B) : g[s] # h[s]}
<1> SUFFICES ASSUME T # {} PROVE FALSE
  OBVIOUS
<1>1. PICK s \in T : \A t \in T : ~ (t \subseteq s /\ t # s)
  <2>1. T \in SUBSET (SUBSET S)
    OBVIOUS
  <2> HIDE DEF T
  <2> QED
    BY <2>1, SmallestSubset
<1>2. g[s] = IF s = {} THEN 0 ELSE F[Picked(s)] + g[s \ {Picked(s)}]
  BY SumsStep
<1>3. h[s] = IF s = {} THEN 0 ELSE F[Picked(s)] + h[s \ {Picked(s)}]
  BY SumsStep
<1>4. s # {}
  BY <1>2, <1>3
<1>5. s \ {Picked(s)} \notin T
  BY <1>1, <1>4, PickedIsIn
<1> QED
  BY <1>2, <1>3, <1>5

LEMMA SumsExist ==
    ASSUME NEW S, IsFiniteSet(S), NEW F
    PROVE  \E g : SumsOf(F, S, g)
<1> DEFINE T == {t \in SUBSET S : \A g : ~SumsOf(F, t, g)}
<1> SUFFICES ASSUME T # {} PROVE FALSE
  OBVIOUS
<1>1. PICK t \in T : \A u \in T : ~ (u \subseteq t /\ u # t)
  <2>1. T \in SUBSET (SUBSET S)
    OBVIOUS
  <2> HIDE DEF T
  <2> QED
    BY <2>1, SmallestSubset
<1> DEFINE Sum(u) == (CHOOSE g : SumsOf(F, u, g))[u]
           total == [s \in SUBSET t |-> IF s = {} THEN 0 ELSE F[Picked(s)] + Sum(s \ {Picked(s)})]
<1>2. ASSUME NEW u \in SUBSET t, u # t
      PROVE  SumsOf(F, u, CHOOSE g : SumsOf(F, u, g))
  <2>1. \E g : SumsOf(F, u, g)
    BY <1>1, <1>2
  <2> QED
    BY <2>1
<1>3. ASSUME NEW u \in SUBSET t, u # t
      PROVE  Sum(u) = IF u = {} THEN 0 ELSE F[Picked(u)] + Sum(u \ {Picked(u)})
  <2> DEFINE g == CHOOSE g1 : SumsOf(F, u, g1)
             w == u \ {Picked(u)}
             h == CHOOSE g1 : SumsOf(F, w, g1)
  <2>1. SumsOf(F, u, g)
    BY <1>2, <1>3
  <2>2. g[u] = IF u = {} THEN 0 ELSE F[Picked(u)] + g[w]
    BY <2>1, SumsStep
  <2>3. CASE u # {}
    <3>1. w \in SUBSET t /\ w # t /\ w \subseteq u
      BY <1>3
    <3>2. SumsOf(F, w, h)
      BY <1>2, <3>1
    <3>3. u \in SUBSET S /\ w \in SUBSET S
      BY <3>1
    <3> HIDE DEF g, h
    <3>4. \A s \in SUBSET (u \intersect w) : g[s] = h[s]
      BY <2>1, <3>2, <3>3, SumsAgree
    <3>5. g[w] = h[w]
      BY <3>1, <3>4
    <3> QED
      BY <2>2, <2>3, <3>5 DEF g, h
  <2> QED
    BY <2>2, <2>3
<1>4. ASSUME NEW s \in SUBSET t, s # {}
      PROVE  total[s \ {Picked(s)}] = Sum(s \ {Picked(s)})
  <2>1. s \ {Picked(s)} \in SUBSET t /\ s \ {Picked(s)} # t
    BY <1>4, PickedIsIn
  <2> HIDE DEF Sum
  <2> QED
    BY <1>3, <2>1
<1>5. SumsOf(F, t, total)
  <2> HIDE DEF Sum
  <2>1. \A s \in SUBSET t :
          total[s] = IF s = {} THEN 0 ELSE F[Picked(s)] + total[s \ {Picked(s)}]
    BY <1>4
  <2> QED
    BY <2>1 DEF SumsOf
<1> QED
  BY <1>1, <1>5

\* A sum of naturals is a natural, and bounded if they are.
LEMMA SumsBounded ==
    ASSUME NEW S, IsFiniteSet(S), NEW M \in Nat, NEW F \in [S -> 0..M],
           NEW g, SumsOf(F, S, g)
    PROVE  g[S] \in 0..(M * Cardinality(S))
<1> DEFINE T == {s \in SUBSET S : g[s] \notin 0..(M * Cardinality(s))}
<1> SUFFICES ASSUME T # {} PROVE FALSE
  OBVIOUS
<1>1. PICK s \in T : \A t \in T : ~ (t \subseteq s /\ t # s)
  <2>1. T \in SUBSET (SUBSET S)
    OBVIOUS
  <2> HIDE DEF T
  <2> QED
    BY <2>1, SmallestSubset
<1> DEFINE x == Picked(s)
           u == s \ {x}
<1>2. g[s] = IF s = {} THEN 0 ELSE F[x] + g[u]
  BY SumsStep
<1>3. IsFiniteSet(s) /\ Cardinality(s) \in Nat
  BY FS_Subset, FS_CardinalityType
<1>4. s # {}
  BY <1>1, <1>2, <1>3, FS_EmptySet
<1>5. x \in s /\ F[x] \in 0..M
  BY <1>4, PickedIsIn
<1>6. u \in SUBSET S /\ u \notin T
  BY <1>1, <1>5
<1>7. Cardinality(u) = Cardinality(s) - 1
  BY <1>3, <1>5, FS_RemoveElement
<1>8. g[u] \in 0..(M * (Cardinality(s) - 1))
  BY <1>6, <1>7
<1> HIDE DEF x, u
<1>9. M * (Cardinality(s) - 1) = M * Cardinality(s) - M
  BY <1>3
<1>10. M * Cardinality(s) \in Nat /\ M * (Cardinality(s) - 1) \in Int
  BY <1>3
<1>11. F[x] + g[u] \in 0..(M * Cardinality(s))
  BY <1>5, <1>8, <1>9, <1>10
<1> QED
  BY <1>1, <1>2, <1>4, <1>11

LEMMA SumsNatural ==
    ASSUME NEW S, IsFiniteSet(S), NEW F \in [S -> Nat], NEW g, SumsOf(F, S, g)
    PROVE  g[S] \in Nat
<1> DEFINE T == {s \in SUBSET S : g[s] \notin Nat}
<1> SUFFICES ASSUME T # {} PROVE FALSE
  OBVIOUS
<1>1. PICK s \in T : \A t \in T : ~ (t \subseteq s /\ t # s)
  <2>1. T \in SUBSET (SUBSET S)
    OBVIOUS
  <2> HIDE DEF T
  <2> QED
    BY <2>1, SmallestSubset
<1>2. g[s] = IF s = {} THEN 0 ELSE F[Picked(s)] + g[s \ {Picked(s)}]
  BY SumsStep
<1>3. s # {}
  BY <1>1, <1>2
<1>4. F[Picked(s)] \in Nat /\ g[s \ {Picked(s)}] \in Nat
  BY <1>1, <1>3, PickedIsIn
<1> QED
  BY <1>1, <1>2, <1>3, <1>4

-----------------------------------------------------------------------------
(* Every full calculation is a Report *)

LEMMA RefundedIsNatural ==
    ASSUME NEW states \in Refunds, NEW dim, NEW r
    PROVE  RefundedOf(states, dim, r) \in Nat
<1> DEFINE A == {x \in DOMAIN states : states[x].receipt = r
                                       /\ (dim = "paid" => states[x].status = "paid")}
           F == [x \in A |-> states[x].amount]
<1>1. /\ A \subseteq Orders /\ A \subseteq DOMAIN states
      /\ states \in [DOMAIN states -> Refund]
  BY RefundsAreFunctions
<1>2. IsFiniteSet(A)
  BY <1>1, ExportAssumption, FS_Subset
<1>3. F \in [A -> Nat]
  <2>1. \A x \in A : states[x].amount \in 0..MaxAmount
    BY <1>1 DEF Refund
  <2> QED
    BY <2>1, LedgerAssumption
<1> HIDE DEF A
<1>4. \A g : SumsOf(F, A, g) <=>
                g = [s \in SUBSET A |-> IF s = {} THEN 0
                                        ELSE states[Picked(s)].amount + g[s \ {Picked(s)}]]
  BY PickedIsIn DEF SumsOf
<1>5. \E g : SumsOf(F, A, g)
  BY <1>2, SumsExist
<1> HIDE DEF F
<1>6. \E g : g = [s \in SUBSET A |-> IF s = {} THEN 0
                                     ELSE states[Picked(s)].amount + g[s \ {Picked(s)}]]
  BY <1>4, <1>5
<1>7. \E g : /\ g = [s \in SUBSET A |-> IF s = {} THEN 0
                                        ELSE states[Picked(s)].amount + g[s \ {Picked(s)}]]
             /\ MapThenSumSet(LAMBDA x : states[x].amount, A) = g[A]
  BY <1>6 DEF MapThenSumSet, MapThenFoldSet, Picked
<1>8. \A g : SumsOf(F, A, g) => g[A] \in Nat
  BY <1>2, <1>3, SumsNatural
<1> DEFINE total == MapThenSumSet(LAMBDA x : states[x].amount, A)
<1>9. \E g : SumsOf(F, A, g) /\ total = g[A]
  BY <1>4, <1>7
<1> HIDE DEF total
<1>10. total \in Nat
  BY <1>8, <1>9
<1> QED
  BY <1>10 DEF RefundedOf, A, total

LEMMA AppliedType ==
    ASSUME NEW frames \in Revenues, NEW states \in Refunds, NEW dim, NEW r \in Receipts
    PROVE  Applied(frames, states, dim, r) \in 0..MaxAmount
<1> DEFINE x == RefundedOf(states, dim, r)
           y == frames[r]
<1>1. x \in Nat
  BY RefundedIsNatural
<1>2. y \in 0..MaxAmount
  BY LedgerAssumption
<1> HIDE DEF x, y
<1>3. Min({x, y}) \in {x, y} /\ Min({x, y}) <= y
  <2>1. \E m \in {x, y} : \A z \in {x, y} : m <= z
    BY <1>1, <1>2
  <2> QED
    BY <2>1 DEF Min
<1>4. Min({x, y}) \in 0..MaxAmount
  BY <1>1, <1>2, <1>3, LedgerAssumption
<1> QED
  BY <1>4 DEF Applied, x, y

LEMMA SummaryType ==
    ASSUME NEW frames \in Revenues, NEW states \in Refunds
    PROVE  Summary(frames, states) \in
               [Dimensions -> 0..(MaxAmount * Cardinality(Receipts))]
<1> SUFFICES ASSUME NEW dim \in Dimensions
             PROVE  MapThenSumSet(LAMBDA r : Applied(frames, states, dim, r), Receipts)
                       \in 0..(MaxAmount * Cardinality(Receipts))
  BY DEF Summary
<1> DEFINE F == [r \in Receipts |-> Applied(frames, states, dim, r)]
<1>1. F \in [Receipts -> 0..MaxAmount]
  BY AppliedType
<1>2. IsFiniteSet(Receipts) /\ MaxAmount \in Nat
  BY ExportAssumption, LedgerAssumption
<1>3. \A g : SumsOf(F, Receipts, g) <=>
                g = [s \in SUBSET Receipts |-> IF s = {} THEN 0
                        ELSE Applied(frames, states, dim, Picked(s)) + g[s \ {Picked(s)}]]
  BY PickedIsIn DEF SumsOf
<1> HIDE DEF F
<1>4. \E g : SumsOf(F, Receipts, g)
  BY <1>2, SumsExist
<1>5. \E g : g = [s \in SUBSET Receipts |-> IF s = {} THEN 0
                     ELSE Applied(frames, states, dim, Picked(s)) + g[s \ {Picked(s)}]]
  BY <1>3, <1>4
<1>6. \E g : /\ g = [s \in SUBSET Receipts |-> IF s = {} THEN 0
                        ELSE Applied(frames, states, dim, Picked(s)) + g[s \ {Picked(s)}]]
             /\ MapThenSumSet(LAMBDA r : Applied(frames, states, dim, r), Receipts)
                   = g[Receipts]
  BY <1>5 DEF MapThenSumSet, MapThenFoldSet, Picked
<1>7. \A g : SumsOf(F, Receipts, g) =>
                g[Receipts] \in 0..(MaxAmount * Cardinality(Receipts))
  BY <1>1, <1>2, SumsBounded
<1> DEFINE total == MapThenSumSet(LAMBDA r : Applied(frames, states, dim, r), Receipts)
<1>8. \E g : SumsOf(F, Receipts, g) /\ total = g[Receipts]
  BY <1>3, <1>6
<1> HIDE DEF total
<1>9. total \in 0..(MaxAmount * Cardinality(Receipts))
  BY <1>7, <1>8
<1> QED
  BY <1>9 DEF total

LEMMA ReportsAreTyped == FullReports \subseteq Report
<1> SUFFICES ASSUME NEW r \in Revenues, NEW c \in Refunds
             PROVE  FullReport(r, c) \in Report
  BY DEF FullReports
<1>1. Summary(r, c) \in [Dimensions -> 0..(MaxAmount * Cardinality(Receipts))]
  BY SummaryType
<1>2. [dim \in Dimensions |-> [x \in Receipts |-> Applied(r, c, dim, x)]]
         \in [Dimensions -> [Receipts -> 0..MaxAmount]]
  BY AppliedType
<1> QED
  BY <1>1, <1>2 DEF FullReport, Report

LEMMA TypesFromInv == IInv => TypeOK
<1> SUFFICES ASSUME IInv PROVE ExportTypeOK
  BY DEF IInv, LedgerInv, TypeOK
<1> USE DEF IInv, LedgerInv, ExportInv, FullTypeOK
<1>1. \A i \in DOMAIN caches : i \in DOMAIN versions /\ caches[i] \in Report
  BY VersionFacts, FullReportType, ReportsAreTyped DEF PublishedIsFull
<1>2. \A f \in DOMAIN references : f \in Fingerprint /\ references[f] \in Report
  BY FullReportType, ReportsAreTyped DEF ReferencesAreFull, Fingerprint
<1>3. FullBuild \subseteq Build /\ FullView \subseteq View
  BY ReportsAreTyped DEF FullBuild, Build, FullView, View
<1>4. build \in [Sessions -> Build] /\ shown \in [Sessions -> View \union {None}]
  BY <1>3
<1> QED
  BY <1>1, <1>2, <1>4 DEF ExportTypeOK

-----------------------------------------------------------------------------
(* What is published stays *)

ReportsKept ==
    \A i \in DOMAIN caches : i \in DOMAIN caches' /\ caches'[i] = caches[i]

LEMMA NextKeepsReports ==
    ASSUME IInv, IInv', [Next]_vars
    PROVE  ReportsKept
<1>1. VersionsKept
  BY NextKeepsVersions DEF IInv
<1>2. DOMAIN caches \subseteq DOMAIN caches'
  <2>1. ASSUME NEW i, NEW report, SetCache(i, report)
        PROVE  DOMAIN caches \subseteq DOMAIN caches'
    BY <2>1 DEF SetCache
  <2> QED
    BY <2>1 DEF Next, ExportNext, vars, exportVars, BuildInactive, BuildStart, Begin, BuildSeed,
       PublishCandidate, BuildFails, Fallback, FullStart, FullEnd, BuildCrash, ViewScope,
       ViewCache, ViewModel, ClosePage
<1>3. DOMAIN caches \subseteq DOMAIN versions
  BY DEF IInv, ExportInv, FullTypeOK
<1>4. /\ \A i \in DOMAIN caches :
            caches[i] = FullReport(versions[i].token, versions[i].states)
      /\ \A i \in DOMAIN caches' :
            caches'[i] = FullReport(versions'[i].token, versions'[i].states)
  BY DEF IInv, ExportInv, PublishedIsFull
<1> QED
  BY <1>1, <1>2, <1>3, <1>4 DEF VersionsKept, ReportsKept

-----------------------------------------------------------------------------
(* The theorems *)

\* What the ledger, the caches and the pages hold is typed; so every deduction
\* is within its receipt's bound and every total within theirs.
THEOREM TypeCorrect == Spec => []TypeOK
BY Invariance, TypesFromInv, PTL

\* activate, deactivate, rollback and rebuild (gmv_refund_repository.py): the
\* event ledger names the one active version, and its events are a chain,
\* whatever confirmations and rebuilds come between.
THEOREM EventsExplain == Spec => []EventsExplainActive
BY Invariance, PTL DEF IInv, LedgerInv

\* confirm_refund_merge: no confirmation loses a refund another one added
\* between its preview and its commit, for any number of sessions.
THEOREM NewestCurrent == Spec => []NewestIsCurrent
BY Invariance, PTL DEF IInv, LedgerInv

\* build_gmv_formal_artifacts_fast_or_legacy: fast candidate, seed or
\* fallback, a published report is the full calculation of its version.
THEOREM PublishedFull == Spec => []PublishedIsFull
BY Invariance, PTL DEF IInv, ExportInv

\* build_active_gmv_read_model: a page shows amounts of the revenue it loaded.
THEOREM ShownOfRevenue == Spec => []ShownIsOfItsRevenue
BY Invariance, PTL DEF IInv, ExportInv

\* gmv_scope_versions is append-only but for a version's status: no step
\* takes a version away or changes the revenue and the refunds it is of.
THEOREM VersionsStand == Spec => [][VersionsKept]_vars
<1>1. ASSUME LedgerInv, [Next]_vars PROVE [VersionsKept]_vars
  BY <1>1, NextKeepsVersions
<1>2. Spec => []LedgerInv
  BY Invariance, PTL DEF IInv
<1> QED
  BY <1>1, <1>2, PTL DEF Spec

\* A published report is never taken away, nor replaced by another one, by a
\* second build of its version or by one that began before it.
THEOREM ReportsStand == Spec => [][ReportsKept]_vars
<1>1. ASSUME IInv, IInv', [Next]_vars PROVE [ReportsKept]_vars
  BY <1>1, NextKeepsReports
<1> QED
  BY <1>1, Invariance, PTL DEF Spec

-----------------------------------------------------------------------------
(* The refinement of PublishedLedger *)

Made == [i \in 1..Len(versions) |-> FingerprintOf(i)]

Reported == [i \in DOMAIN caches |-> caches[i]]

Publication == INSTANCE PublishedLedger WITH
    Contents <- Fingerprint,
    ReportOf <- [f \in Fingerprint |-> FullReport(f.token, f.states)],
    made <- Made, active <- Active, reports <- Reported

LEMMA LatestEventActive ==
    ASSUME LedgerInv, LedgerInv', Len(events) < MaxEvents,
           NEW type \in {"ACTIVATE", "DEACTIVATE", "ROLLBACK"}, NEW to \in 0..MaxVersions,
           Record(type, Active, to)
    PROVE  Active' = to
<1>1. Replayed' = to
  BY RecordFacts DEF LedgerInv
<1>2. ActiveVersions' = {to} \ {0}
  BY <1>1 DEF LedgerInv, EventsExplainActive
<1>3. to \in Nat
  BY LedgerAssumption
<1>4. CASE to = 0
  BY <1>2, <1>4 DEF Active
<1>5. CASE to # 0
  <2>1. Max({to}) = to
    BY <1>3 DEF Max
  <2> QED
    BY <1>2, <1>5, <2>1 DEF Active
<1> QED
  BY <1>4, <1>5

LEMMA MadeStays ==
    ASSUME LedgerInv, VersionsKept, Len(versions') = Len(versions)
    PROVE  Made' = Made
<1>1. DOMAIN versions = 1..Len(versions)
  BY VersionFacts DEF LedgerInv
<1>2. \A i \in 1..Len(versions) : FingerprintOf(i)' = FingerprintOf(i)
  BY <1>1 DEF VersionsKept, FingerprintOf
<1> QED
  BY <1>2 DEF Made

LEMMA MadeGrows ==
    ASSUME LedgerInv, VersionsKept, NEW c \in Fingerprint,
           Len(versions') = Len(versions) + 1,
           versions'[Len(versions')].token = c.token,
           versions'[Len(versions')].states = c.states
    PROVE  Made' = Append(Made, c) /\ Len(Made) = Len(versions)
<1>1. /\ DOMAIN versions = 1..Len(versions) /\ Len(versions) \in Nat
      /\ \A i \in DOMAIN versions : FingerprintOf(i) \in Fingerprint
  BY VersionFacts DEF LedgerInv
<1>2. \A i \in 1..Len(versions) : FingerprintOf(i)' = FingerprintOf(i)
  BY <1>1 DEF VersionsKept, FingerprintOf
<1>3. \A i : i = Len(versions) + 1 => FingerprintOf(i)' = c
  <2>1. c = [token |-> c.token, states |-> c.states]
    BY DEF Fingerprint
  <2> QED
    BY <2>1 DEF FingerprintOf
<1>4. Made \in Seq(Fingerprint) /\ Len(Made) = Len(versions)
  BY <1>1 DEF Made
<1>5. /\ Append(Made, c) \in Seq(Fingerprint)
      /\ Len(Append(Made, c)) = Len(versions) + 1
      /\ \A i \in 1..Len(versions) : Append(Made, c)[i] = Made[i]
      /\ Append(Made, c)[Len(versions) + 1] = c
  BY <1>4, AppendProperties
<1>6. /\ Made' = [i \in 1..(Len(versions) + 1) |-> FingerprintOf(i)']
      /\ \A i \in 1..(Len(versions) + 1) : i \in 1..Len(versions) \/ i = Len(versions) + 1
  BY <1>1 DEF Made
<1>7. \A i \in 1..(Len(versions) + 1) : Made'[i] = Append(Made, c)[i]
  BY <1>1, <1>2, <1>3, <1>5, <1>6 DEF Made
<1>8. Append(Made, c) \in [1..(Len(versions) + 1) -> Fingerprint]
  BY <1>5, LenProperties
<1>9. Made' = Append(Made, c)
  BY <1>6, <1>7, <1>8
<1> QED
  BY <1>4, <1>9

LEMMA ActivateRefines ==
    ASSUME LedgerInv, LedgerInv', VersionsKept, UNCHANGED caches,
           NEW token \in Revenues, NEW states \in Refunds, Activate(token, states)
    PROVE  Publication!Next
<1> DEFINE c == [token |-> token, states |-> states]
<1>1. c \in Fingerprint /\ c.token = token /\ c.states = states
  BY DEF Fingerprint
<1>2. /\ Len(versions') = Len(versions) + 1 /\ Len(versions') <= MaxVersions
      /\ Len(versions) \in Nat
      /\ versions'[Len(versions')].token = token
      /\ versions'[Len(versions')].states = states
  BY ActivateFacts, VersionFacts DEF LedgerInv
<1> HIDE DEF c
<1>3. Made' = Append(Made, c) /\ Len(Made) = Len(versions)
  BY <1>1, <1>2, MadeGrows
<1>4. Active' = Len(versions) + 1
  BY <1>2, LatestEventActive, LedgerAssumption DEF Activate
<1>5. Reported' = Reported
  BY DEF Reported
<1>6. Publication!Make(c)
  BY <1>3, <1>4, <1>5 DEF Publication!Make
<1> QED
  BY <1>1, <1>6 DEF Publication!Next

LEMMA EnforceRefines ==
    ASSUME LedgerInv, LedgerInv', VersionsKept, UNCHANGED caches,
           NEW to \in {0} \union DOMAIN versions, NEW type \in {"DEACTIVATE", "ROLLBACK"},
           Len(events) < MaxEvents, Record(type, Active, to),
           Len(versions') = Len(versions)
    PROVE  Publication!Next
<1>1. /\ DOMAIN versions = 1..Len(versions) /\ Len(versions) \in Nat
      /\ DOMAIN versions \subseteq 1..MaxVersions
  BY VersionFacts DEF LedgerInv
<1>2. to \in 0..MaxVersions /\ to \in Nat
  BY <1>1, LedgerAssumption
<1>3. Active' = to
  BY <1>2, LatestEventActive
<1>4. Made' = Made /\ DOMAIN Made = DOMAIN versions
  BY <1>1, MadeStays DEF Made
<1>5. Reported' = Reported
  BY DEF Reported
<1>6. Publication!Enforce(to)
  BY <1>3, <1>4, <1>5 DEF Publication!Enforce
<1> QED
  BY <1>4, <1>6 DEF Publication!Next

\* A second publication of a version changes nothing; the first is Publish.
LEMMA SetCacheRefines ==
    ASSUME IInv, IInv', ReportsKept, UNCHANGED versions,
           NEW i \in DOMAIN versions, NEW report, SetCache(i, report)
    PROVE  [Publication!Next]_(Publication!vars)
<1>1. /\ DOMAIN versions = 1..Len(versions) /\ FingerprintOf(i) \in Fingerprint /\ i \in Nat
      /\ FingerprintOf(i).token = versions[i].token
      /\ FingerprintOf(i).states = versions[i].states
  BY VersionFacts DEF IInv, LedgerInv
<1>2. /\ DOMAIN caches' = DOMAIN caches \union {i}
      /\ caches'[i] = FullReport(versions[i].token, versions[i].states)
  BY DEF SetCache, IInv, ExportInv, PublishedIsFull
<1>3. UNCHANGED <<Made, Active>>
  BY DEF Made, FingerprintOf, Active, ActiveVersions
<1>4. CASE i \in DOMAIN caches
  <2>1. Reported' = Reported
    BY <1>2, <1>4 DEF Reported, ReportsKept
  <2> QED
    BY <1>3, <2>1 DEF Publication!vars
<1>5. CASE i \notin DOMAIN caches
  <2> DEFINE ReportOf == [f \in Fingerprint |-> FullReport(f.token, f.states)]
  <2>1. Made[i] = FingerprintOf(i) /\ DOMAIN Made = DOMAIN versions
    BY <1>1 DEF Made
  <2>2. ReportOf[Made[i]] = caches'[i]
    BY <1>1, <1>2, <2>1
  <2>3. DOMAIN Reported = DOMAIN caches
    BY DEF Reported
  <2> HIDE DEF ReportOf
  <2>4. Reported' = [v \in DOMAIN caches \union {i} |->
                        IF v = i THEN ReportOf[Made[v]] ELSE Reported[v]]
    BY <1>2, <1>5, <2>2 DEF Reported, ReportsKept
  <2>5. Publication!Publish(i)
    BY <1>3, <1>5, <2>1, <2>3, <2>4 DEF Publication!Publish, ReportOf
  <2> QED
    BY <2>1, <2>5 DEF Publication!Next
<1> QED
  BY <1>4, <1>5

LEMMA StepRefines ==
    ASSUME IInv, IInv', [Next]_vars
    PROVE  [Publication!Next]_(Publication!vars)
<1>1. /\ LedgerInv /\ LedgerInv' /\ LedgerTypeOK /\ EventsExplainActive
  BY DEF IInv, LedgerInv
<1>2. VersionsKept /\ ReportsKept
  BY <1>1, NextKeepsVersions, NextKeepsReports
<1>3. CASE UNCHANGED <<versions, caches>>
  BY <1>3 DEF Publication!vars, Made, FingerprintOf, Active, ActiveVersions, Reported
<1>4. ASSUME NEW s \in Sessions, ConfirmCommit(s), UNCHANGED caches PROVE Publication!Next
  <2>1. merge[s] \in Merge /\ merge[s].step = "checked"
    BY <1>1, <1>4 DEF LedgerTypeOK, ConfirmCommit
  <2>2. merge[s].frames \in Revenues /\ merge[s].proposed \in Refunds
    BY <2>1 DEF Merge, Idle
  <2> QED
    BY <1>1, <1>2, <1>4, <2>2, ActivateRefines DEF ConfirmCommit
<1>5. CASE RebuildCommit /\ UNCHANGED caches
  <2>1. rebuild.token \in Revenues /\ rebuild.states \in Refunds
    BY <1>1, <1>5 DEF LedgerTypeOK, RebuildCommit
  <2> QED
    BY <1>1, <1>2, <1>5, <2>1, ActivateRefines DEF RebuildCommit
<1>6. Len(Retired(Active)) = Len(versions) /\ Retired(Active) \in Seq(Version)
      /\ DOMAIN Retired(Active) = DOMAIN versions
  BY <1>1, ActiveIsReplayed, RetiredFacts
<1>7. CASE Deactivate /\ UNCHANGED caches
  BY <1>1, <1>2, <1>6, <1>7, EnforceRefines DEF Deactivate
<1>8. ASSUME NEW target \in DOMAIN versions, Rollback(target), UNCHANGED caches
      PROVE  Publication!Next
  <2>1. versions' \in Seq(Version) /\ DOMAIN versions' = DOMAIN versions
    BY <1>1, <1>6, <1>8 DEF Rollback, LedgerInv, LedgerTypeOK
  <2>2. Len(versions') = Len(versions)
    BY <1>1, <2>1, LenProperties DEF LedgerTypeOK
  <2> QED
    BY <1>1, <1>2, <1>8, <2>2, EnforceRefines DEF Rollback
<1>9. ASSUME NEW s \in Sessions, NEW report, build[s].step # "idle",
             SetCache(build[s].version, report), UNCHANGED versions
      PROVE  [Publication!Next]_(Publication!vars)
  <2>1. build[s].version \in DOMAIN versions
    BY <1>9 DEF IInv, ExportInv, BuildKnown
  <2> QED
    BY <1>2, <1>9, <2>1, SetCacheRefines
<1>10. ASSUME NEW s \in Sessions, PublishCandidate(s) \/ Fallback(s) \/ FullEnd(s)
       PROVE  [Publication!Next]_(Publication!vars)
  BY <1>3, <1>9, <1>10 DEF PublishCandidate, Fallback, FullEnd, ledgerVars, ledger
<1>11. CASE LedgerNext /\ UNCHANGED exportVars
  BY <1>3, <1>4, <1>5, <1>7, <1>8, <1>11 DEF LedgerNext, exportVars, ledger,
     LoadPage, Preview, ConfirmDuplicate, ConfirmStale, ConfirmAccept, Abandon,
     RebuildRead, RebuildAbandon, Upload, Repair
<1>12. CASE ExportNext
  BY <1>3, <1>10, <1>12 DEF ExportNext, BuildInactive, BuildStart, Begin, BuildSeed,
     BuildFails, FullStart, BuildCrash, ViewScope, ViewCache, ViewModel, ClosePage, ledgerVars, ledger
<1> QED
  BY <1>3, <1>11, <1>12 DEF Next, vars, ledgerVars, ledger, exportVars

\* gmv_refund_service.py and gmv_export_cache_service.py: sessions, previews,
\* leases, references and unfinished builds all seen as nothing, what is left
\* is an append-only list of versions, the one in force, and for some of them
\* the report their content determines.
THEOREM ImplementsPublishedLedger == Spec => Publication!Spec
<1>1. Init => Publication!Init
  <2> SUFFICES ASSUME Init PROVE Publication!Init
    OBVIOUS
  <2>1. versions = << >> /\ caches = << >> /\ Len(versions) = 0 /\ DOMAIN caches = {}
    BY DEF Init, LedgerInit
  <2>2. Made = << >> /\ Reported = << >>
    BY <2>1 DEF Made, Reported
  <2>3. Active = 0
    BY <2>1 DEF Active, ActiveVersions
  <2> QED
    BY <2>2, <2>3 DEF Publication!Init
<1>2. IInv /\ IInv' /\ [Next]_vars => [Publication!Next]_(Publication!vars)
  BY StepRefines
<1> QED
  BY <1>1, <1>2, Invariance, PTL DEF Spec, Publication!Spec

=============================================================================
