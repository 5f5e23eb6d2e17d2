--------------------------- MODULE Records_proofs ---------------------------
(***************************************************************************)
(* What holds of the records a reviewer works on for any number of cases,  *)
(* commits, audits, signings and blind comparisons.                        *)
(***************************************************************************)
EXTENDS PostMergeMonitoring, BaselineSigning, TelemetryAudit, BlindComparison,
        FiniteSetTheorems, SequenceTheorems, TLAPS

-----------------------------------------------------------------------------
(* What is said of a merge *)

LEMMA StatesAre ==
  /\ States[1] = "merged" /\ States[2] = "monitored" /\ Len(States) = 2 /\ DOMAIN States = {1, 2}
  /\ Rank("merged") = 1 /\ Rank("monitored") = 2
<1>1. States[1] = "merged" /\ States[2] = "monitored" /\ Len(States) = 2 /\ DOMAIN States = {1, 2}
  BY DEF States
<1>2. \A n \in DOMAIN States : (States[n] = "merged" <=> n = 1) /\ (States[n] = "monitored" <=> n = 2)
  BY <1>1
<1>3. Rank("merged") = 1
  BY <1>1, <1>2 DEF Rank
<1>4. Rank("monitored") = 2
  BY <1>1, <1>2 DEF Rank
<1> QED BY <1>1, <1>3, <1>4

\* What an event of a case says at its place in the chain is so, now and for good.
Warranted(e, n) ==
  /\ n \in {1, 2} /\ e.state = States[n] /\ e.why \in 0..main /\ carries[e.why]
  /\ e.state = "monitored" => \E m \in merges : m.merged /\ m.main \in below[e.why]

MonTyped ==
  /\ main \in Commits /\ verified \in 0..main
  /\ carries \in [Commits -> BOOLEAN] /\ below \in [Commits -> SUBSET Commits]
  /\ merges \subseteq [main : 0..main, merged : BOOLEAN]
  /\ DOMAIN chains = Linked
  /\ \A c \in Linked : chains[c] \in Seq([state : {"merged", "monitored"}, why : Commits])
  /\ remote \in {"none", "branch", "draft", "other"}

EvidenceInv ==
  /\ \A m \in merges : m.merged => carries[m.main]
  /\ \A r \in releases : r.monitored => r.commit \in 0..main /\ carries[r.commit]
  /\ \A e \in returned : e.case \in Linked /\ e.parent \in {0, 1} /\ Warranted(e, e.parent + 1)

ChainsInv == \A c \in Linked : \A n \in 1..Len(chains[c]) : Warranted(chains[c][n], n)

ReportInv == ReportStands /\ (report.ready => report.release.monitored)

MonInv ==
  MonTyped /\ EvidenceInv /\ ChainsInv /\ ReportInv /\ RecoveryKeepsCourse

LEMMA MonInvInit == MonInit => MonInv
<1> SUFFICES ASSUME MonInit PROVE MonInv
  OBVIOUS
<1>1. MonTyped
  BY MonitoringAssumption DEF MonInit, MonTyped, Commits
<1>2. EvidenceInv /\ ChainsInv
  BY DEF MonInit, EvidenceInv, ChainsInv
<1>3. ReportInv /\ RecoveryKeepsCourse
  BY DEF MonInit, ReportInv, ReportStands, RecoveryKeepsCourse, NoReport, NoWork, NoOutcome
<1> QED BY <1>1, <1>2, <1>3 DEF MonInv

\* Main goes on, and what was known of its commits stays.
Onward ==
  /\ main' \in Commits /\ main <= main' /\ merges \subseteq merges'
  /\ \A k \in 0..main : carries'[k] = carries[k] /\ below'[k] = below[k]

LEMMA WarrantKept ==
  ASSUME MonTyped, Onward, NEW e, NEW n, Warranted(e, n)
  PROVE  Warranted(e, n)'
<1>1. e.why \in 0..main /\ e.why \in 0..main'
  BY DEF MonTyped, Onward, Warranted, Commits
<1>2. carries'[e.why] /\ below'[e.why] = below[e.why]
  BY <1>1 DEF Onward, Warranted
<1>3. e.state = "monitored" => \E m \in merges' : m.merged /\ m.main \in below'[e.why]
  BY <1>2 DEF Onward, Warranted
<1> QED BY <1>1, <1>2, <1>3 DEF Warranted

LEMMA ChainsKept ==
  ASSUME MonTyped, Onward, ChainsInv, chains' = chains
  PROVE  ChainsInv'
<1> SUFFICES ASSUME NEW c \in Linked, NEW n \in 1..Len(chains[c])
             PROVE  Warranted(chains[c][n], n)'
  BY DEF ChainsInv
<1> DEFINE e == chains[c][n]
<1>1. Warranted(e, n)
  BY DEF ChainsInv
<1>2. e' = e
  OBVIOUS
<1>3. \A d : Warranted(d, n) => Warranted(d, n)'
  BY WarrantKept
<1> QED BY <1>1, <1>2, <1>3

\* A step that only adds to the evidence what is warranted.
LEMMA EvidenceKept ==
  ASSUME MonTyped, Onward, EvidenceInv,
         \A m \in merges' \ merges : m.merged => carries'[m.main],
         \A r \in releases' \ releases : r.monitored => r.commit \in 0..main' /\ carries'[r.commit],
         \A e \in returned' \ returned :
           e.case \in Linked /\ e.parent \in {0, 1} /\ Warranted(e, e.parent + 1)'
  PROVE  EvidenceInv'
<1>1. \A m \in merges' : m.merged => carries'[m.main]
  BY DEF EvidenceInv, Onward, MonTyped
<1>2. \A r \in releases' : r.monitored => r.commit \in 0..main' /\ carries'[r.commit]
  BY DEF EvidenceInv, Onward, MonTyped, Commits
<1>3. ASSUME NEW e \in returned'
      PROVE  e.case \in Linked /\ e.parent \in {0, 1} /\ Warranted(e, e.parent + 1)'
  BY <1>3, WarrantKept DEF EvidenceInv
<1> QED BY <1>1, <1>2, <1>3 DEF EvidenceInv

LEMMA ReportKept ==
  ASSUME MonTyped, Onward, EvidenceInv, ReportInv, report' = report, releases \subseteq releases'
  PROVE  ReportInv'
<1>1. report.ready => report.merge.main \in 0..main /\ report.release.commit \in 0..main
  BY DEF MonTyped, EvidenceInv, ReportInv, ReportStands
<1> QED BY <1>1 DEF Onward, ReportInv, ReportStands

\* What a transition event says is warranted when its reason is.
LEMMA TransitionsWarranted ==
  ASSUME MonTyped, NEW held \in Snapshots, NEW target \in {"merged", "monitored"}, NEW why \in 0..main,
         Eligible(held, target), carries[why],
         target = "monitored" => \E m \in merges : m.merged /\ m.main \in below[why],
         NEW e \in TransitionEvents(held, target, why)
  PROVE  e.case \in Linked /\ e.parent \in {0, 1} /\ Warranted(e, e.parent + 1)
<1>1. PICK c \in Linked : /\ held[c] < Rank(target)
                          /\ e = [case |-> c, state |-> target, parent |-> held[c], why |-> why]
  BY DEF TransitionEvents
<1>2. held[c] \in 0..Len(States) /\ held[c] + 1 >= Rank(target)
  BY DEF Snapshots, Eligible
<1>3. held[c] \in {0, 1} /\ target = States[held[c] + 1] /\ held[c] + 1 \in {1, 2}
  BY <1>1, <1>2, StatesAre
<1> QED BY <1>1, <1>3 DEF Warranted

\* Nothing of the evidence changes.
LEMMA WorldKept ==
  ASSUME MonInv, UNCHANGED <<main, carries, below, verified, merges, releases, returned, chains, report>>,
         remote' \in {"none", "branch", "draft", "other"}
  PROVE  Onward /\ MonTyped' /\ EvidenceInv' /\ ChainsInv' /\ ReportInv'
<1>1. Onward
  BY MonitoringAssumption DEF Onward, MonInv, MonTyped, Commits
<1>2. EvidenceInv'
  BY <1>1, EvidenceKept DEF MonInv
<1>3. ChainsInv' /\ ReportInv'
  BY <1>1, ChainsKept, ReportKept DEF MonInv
<1>4. MonTyped'
  BY DEF MonInv, MonTyped
<1> QED BY <1>1, <1>2, <1>3, <1>4

\* The part of the world that the operations under way do not touch, and they in turn.
LEMMA EvidenceStep ==
  ASSUME MonInv, Onward, UNCHANGED <<chains, report, work, remote, outcome>>,
         main' = main \/ verified' = verified,
         verified' \in 0..main', carries' \in [Commits -> BOOLEAN],
         below' \in [Commits -> SUBSET Commits], merges' \subseteq [main : 0..main', merged : BOOLEAN],
         releases \subseteq releases', EvidenceInv'
  PROVE  MonInv'
<1>1. MonTyped'
  BY DEF MonInv, MonTyped, Onward
<1>2. ChainsInv' /\ ReportInv'
  BY ChainsKept, ReportKept DEF MonInv
<1>3. RecoveryKeepsCourse'
  BY DEF MonInv, RecoveryKeepsCourse
<1> QED BY <1>1, <1>2, <1>3 DEF MonInv

LEMMA MonMoves == ASSUME MonInv, NEW how, MoveMain(how) PROVE MonInv'
<1> USE MonitoringAssumption
<1>1. main' = main + 1 /\ main' \in Commits /\ main \in Nat
  BY DEF MoveMain, MonInv, MonTyped, Commits
<1>2. carries' \in [Commits -> BOOLEAN] /\ \A k \in 0..main : carries'[k] = carries[k]
  BY <1>1 DEF MoveMain, MonInv, MonTyped, Commits
<1>3. below' \in [Commits -> SUBSET Commits] /\ \A k \in 0..main : below'[k] = below[k]
  BY <1>1 DEF MoveMain, MonInv, MonTyped, Commits
<1>4. Onward
  BY <1>1, <1>2, <1>3 DEF Onward, MoveMain, Commits
<1>5. EvidenceInv'
  BY <1>4, EvidenceKept DEF MoveMain, MonInv
<1>6. merges' \subseteq [main : 0..main', merged : BOOLEAN] /\ verified' \in 0..main'
  BY <1>1 DEF MoveMain, MonInv, MonTyped, Commits
<1> QED BY <1>2, <1>3, <1>4, <1>5, <1>6, EvidenceStep DEF MoveMain

LEMMA MonVerifies == ASSUME MonInv, VerifyMain PROVE MonInv'
<1>1. Onward
  BY MonitoringAssumption DEF Onward, VerifyMain, MonInv, MonTyped, Commits
<1>2. EvidenceInv'
  BY <1>1, EvidenceKept DEF VerifyMain, MonInv
<1>3. verified' \in 0..main'
  BY MonitoringAssumption DEF VerifyMain, MonInv, MonTyped, Commits
<1> QED BY <1>1, <1>2, <1>3, EvidenceStep DEF VerifyMain, MonInv, MonTyped

LEMMA MonDetects == ASSUME MonInv, Detect PROVE MonInv'
<1> USE MonitoringAssumption
<1> PICK held \in Snapshots :
      /\ carries[main] => Eligible(held, "merged")
      /\ merges' = merges \cup {[main |-> verified, merged |-> carries[main]]}
      /\ returned' = returned \cup
           (IF carries[main] THEN TransitionEvents(held, "merged", verified) ELSE {})
  BY DEF Detect
<1>1. verified = main /\ UNCHANGED <<main, carries, below, verified, releases>>
  BY DEF Detect, StillMain
<1>2. Onward
  BY <1>1 DEF Onward, MonInv, MonTyped, Commits
<1>3. main \in 0..main /\ carries[main] \in BOOLEAN
  BY DEF MonInv, MonTyped, Commits
<1>4. ASSUME NEW e \in returned' \ returned
      PROVE  e.case \in Linked /\ e.parent \in {0, 1} /\ Warranted(e, e.parent + 1)'
  <2>1. carries[main] /\ e \in TransitionEvents(held, "merged", main)
    BY <1>1, <1>4
  <2>2. e.case \in Linked /\ e.parent \in {0, 1} /\ Warranted(e, e.parent + 1)
    BY <1>3, <2>1, TransitionsWarranted DEF MonInv
  <2> QED BY <1>2, <2>2, WarrantKept DEF MonInv
<1>5. EvidenceInv'
  BY <1>1, <1>2, <1>4, EvidenceKept DEF MonInv
<1>6. merges' \subseteq [main : 0..main', merged : BOOLEAN]
  BY <1>1, <1>3 DEF MonInv, MonTyped
<1> QED BY <1>1, <1>2, <1>5, <1>6, EvidenceStep DEF Detect, MonInv, MonTyped

LEMMA MonReleases == ASSUME MonInv, VerifyRelease PROVE MonInv'
<1> USE MonitoringAssumption
<1> PICK m \in merges, r \in 0..main, held \in Snapshots :
      /\ m.merged /\ Descends(r, m) /\ Eligible(held, "monitored")
      /\ releases' = releases \cup {[commit |-> r, merge |-> m.main, monitored |-> TRUE]}
      /\ returned' = returned \cup TransitionEvents(held, "monitored", r)
  BY DEF VerifyRelease
<1>1. UNCHANGED <<main, carries, below, verified, merges>>
  BY DEF VerifyRelease
<1>2. Onward
  BY <1>1 DEF Onward, MonInv, MonTyped, Commits
<1>3. m.main \in below[r] /\ carries[r]
  BY DEF Descends
<1>4. ASSUME NEW e \in returned' \ returned
      PROVE  e.case \in Linked /\ e.parent \in {0, 1} /\ Warranted(e, e.parent + 1)'
  <2>1. e.case \in Linked /\ e.parent \in {0, 1} /\ Warranted(e, e.parent + 1)
    BY <1>3, <1>4, TransitionsWarranted DEF MonInv
  <2> QED BY <1>2, <2>1, WarrantKept DEF MonInv
<1>5. EvidenceInv'
  BY <1>1, <1>2, <1>3, <1>4, EvidenceKept DEF MonInv
<1> QED BY <1>1, <1>2, <1>5, EvidenceStep DEF VerifyRelease, MonInv, MonTyped

LEMMA MonUnavailable == ASSUME MonInv, ReleaseUnavailable PROVE MonInv'
<1>1. UNCHANGED <<main, carries, below, verified, merges, returned>>
  BY DEF ReleaseUnavailable
<1>2. Onward
  BY <1>1, MonitoringAssumption DEF Onward, MonInv, MonTyped, Commits
<1>3. releases \subseteq releases' /\ \A r \in releases' \ releases : ~r.monitored
  BY DEF ReleaseUnavailable
<1>4. EvidenceInv'
  BY <1>1, <1>2, <1>3, EvidenceKept DEF MonInv
<1> QED BY <1>1, <1>2, <1>3, <1>4, EvidenceStep DEF ReleaseUnavailable, MonInv, MonTyped

LEMMA LongerBy ==
  ASSUME NEW S, NEW q \in Seq(S), NEW x \in S
  PROVE  /\ Append(q, x) \in Seq(S) /\ Len(Append(q, x)) = Len(q) + 1 /\ Len(q) \in Nat
         /\ Append(q, x)[Len(q) + 1] = x /\ \A n \in 1..Len(q) : Append(q, x)[n] = q[n]
<1>1. Len(q) \in Nat
  OBVIOUS
<1> QED BY <1>1, AppendProperties

LEMMA MonAppends == ASSUME MonInv, AppendReturned PROVE MonInv'
<1> USE MonitoringAssumption
<1> PICK e \in returned :
      /\ returned' = returned \ {e}
      /\ chains' = IF e.parent = Len(chains[e.case])
                     THEN [chains EXCEPT ![e.case] = Append(@, [state |-> e.state, why |-> e.why])]
                     ELSE chains
  BY DEF AppendReturned
<1>1. UNCHANGED <<main, carries, below, verified, merges, releases, report, work, remote, outcome>>
  BY DEF AppendReturned
<1>2. Onward
  BY <1>1 DEF Onward, MonInv, MonTyped, Commits
<1>3. EvidenceInv' /\ ReportInv' /\ RecoveryKeepsCourse'
  BY <1>1, <1>2, EvidenceKept, ReportKept DEF MonInv, RecoveryKeepsCourse
<1>4. CASE chains' = chains
  BY <1>1, <1>2, <1>3, <1>4, ChainsKept DEF MonInv, MonTyped
<1>5. CASE e.parent = Len(chains[e.case])
  <2> DEFINE c == e.case
             x == [state |-> e.state, why |-> e.why]
             S == [state : {"merged", "monitored"}, why : Commits]
  <2>1. c \in Linked /\ Warranted(e, e.parent + 1)
    BY DEF MonInv, EvidenceInv
  <2>2. x \in S
    BY <2>1, StatesAre DEF Warranted, MonInv, MonTyped, Commits
  <2>3. chains[c] \in Seq(S)
    BY <2>1 DEF MonInv, MonTyped
  <2>4. chains'[c] = Append(chains[c], x) /\ DOMAIN chains' = Linked
        /\ \A d \in Linked : d # c => chains'[d] = chains[d]
    BY <1>5, <2>1 DEF MonInv, MonTyped
  <2>5. Warranted(x, Len(chains[c]) + 1)
    BY <1>5, <2>1 DEF Warranted
  <2> HIDE DEF x, S
  <2>6. /\ chains'[c] \in Seq(S) /\ Len(chains'[c]) = Len(chains[c]) + 1 /\ Len(chains[c]) \in Nat
        /\ chains'[c][Len(chains[c]) + 1] = x
        /\ \A n \in 1..Len(chains[c]) : chains'[c][n] = chains[c][n]
    BY <2>2, <2>3, <2>4, LongerBy
  <2>7. ASSUME NEW d \in Linked, NEW n \in 1..Len(chains'[d]) PROVE Warranted(chains'[d][n], n)
    <3>1. CASE d # c
      BY <2>4, <2>7, <3>1 DEF MonInv, ChainsInv
    <3>2. CASE d = c /\ n = Len(chains[c]) + 1
      BY <2>5, <2>6, <3>2
    <3>3. CASE d = c /\ n \in 1..Len(chains[c])
      BY <2>1, <2>6, <3>3 DEF MonInv, ChainsInv
    <3> QED BY <2>6, <2>7, <3>1, <3>2, <3>3
  <2>8. ChainsInv'
    <3> SUFFICES ASSUME NEW d \in Linked, NEW n \in 1..Len(chains'[d]) PROVE Warranted(chains[d][n], n)'
      BY DEF ChainsInv
    <3>1. Warranted(chains'[d][n], n)
      BY <2>7
    <3> QED BY <1>1, <3>1 DEF Warranted
  <2>9. \A d \in Linked : chains'[d] \in Seq(S)
    BY <2>1, <2>4, <2>6 DEF MonInv, MonTyped, S
  <2>10. MonTyped'
    BY <1>1, <2>4, <2>9 DEF MonInv, MonTyped, S
  <2> QED BY <1>1, <1>3, <2>8, <2>10 DEF MonInv
<1> QED BY <1>4, <1>5

\* All documents hang together with the merge, when a release was monitored and a
\* comparison made: none of them is foreign.
LEMMA NoneForeign ==
  ASSUME NEW foreign \in SUBSET (Documents \ {"merge"}), OfOneRefinement(foreign, TRUE, TRUE)
  PROVE  foreign = {}
<1>1. \A pair \in Bound(TRUE, TRUE) : pair \subseteq foreign \/ pair \cap foreign = {}
  BY DEF OfOneRefinement
<1>2. "merge" \notin foreign
  OBVIOUS
<1>3. /\ {"merge", "receipt"} \in Bound(TRUE, TRUE) /\ {"merge", "roster"} \in Bound(TRUE, TRUE)
      /\ {"merge", "draft"} \in Bound(TRUE, TRUE) /\ {"admission", "merge"} \in Bound(TRUE, TRUE)
      /\ {"calibration", "merge"} \in Bound(TRUE, TRUE) /\ {"holdout", "merge"} \in Bound(TRUE, TRUE)
      /\ {"dump", "receipt"} \in Bound(TRUE, TRUE) /\ {"admission", "release"} \in Bound(TRUE, TRUE)
      /\ {"dashboard", "release"} \in Bound(TRUE, TRUE) /\ {"telemetry", "receipt"} \in Bound(TRUE, TRUE)
  BY DEF Bound
<1>4. "receipt" \notin foreign /\ "roster" \notin foreign /\ "draft" \notin foreign
      /\ "admission" \notin foreign /\ "calibration" \notin foreign /\ "holdout" \notin foreign
  BY <1>1, <1>2, <1>3
<1>5. "dump" \notin foreign /\ "release" \notin foreign /\ "telemetry" \notin foreign
  BY <1>1, <1>3, <1>4
<1>6. "dashboard" \notin foreign
  BY <1>1, <1>3, <1>5
<1> QED BY <1>2, <1>4, <1>5, <1>6 DEF Documents

LEMMA MonReports == ASSUME MonInv, BuildReport PROVE MonInv'
<1> PICK b \in Bindable, m \in merges, r \in releases, passed \in BOOLEAN :
      /\ b.monitored = r.monitored
      /\ report' = [ready |-> m.merged /\ r.monitored /\ b.compared /\ passed,
                     merge |-> m, release |-> r, foreign |-> b.foreign]
  BY DEF BuildReport
<1>1. UNCHANGED <<main, carries, below, verified, merges, releases, returned, chains, work, remote,
                  outcome>>
  BY DEF BuildReport
<1>2. /\ b.monitored \in BOOLEAN /\ b.compared \in BOOLEAN
      /\ b.foreign \in SUBSET (Documents \ {"merge"})
      /\ OfOneRefinement(b.foreign, b.monitored, b.compared)
  BY DEF Bindable
<1>3. ReportInv'
  <2> SUFFICES ASSUME m.merged, r.monitored, b.compared PROVE b.foreign = {}
    BY <1>1 DEF ReportInv, ReportStands, MonInv, EvidenceInv
  <2> QED BY <1>2, NoneForeign
<1>4. MonTyped' /\ EvidenceInv' /\ ChainsInv' /\ RecoveryKeepsCourse'
  <2>1. Onward
    BY <1>1, MonitoringAssumption DEF Onward, MonInv, MonTyped, Commits
  <2>2. EvidenceInv' /\ ChainsInv'
    BY <1>1, <2>1, EvidenceKept, ChainsKept DEF MonInv
  <2> QED BY <1>1, <2>2 DEF MonInv, MonTyped, RecoveryKeepsCourse
<1> QED BY <1>1, <1>3, <1>4 DEF MonInv

LEMMA MonWorks ==
  ASSUME MonInv, Attempt \/ OthersPush \/ \E kind \in Operations : StartWork(kind)
  PROVE  MonInv'
<1>1. remote' \in {"none", "branch", "draft", "other"}
  BY DEF MonInv, MonTyped, Attempt, OthersPush, StartWork
<1>2. MonTyped' /\ EvidenceInv' /\ ChainsInv' /\ ReportInv'
  BY <1>1, WorldKept DEF Attempt, OthersPush, StartWork
<1>3. outcome' \in {outcome, NoOutcome}
  BY DEF Attempt, OthersPush, StartWork
<1>4. RecoveryKeepsCourse'
  BY <1>3 DEF MonInv, RecoveryKeepsCourse, NoOutcome, NoWork
<1> QED BY <1>2, <1>4 DEF MonInv

LEMMA MonRecovers == ASSUME MonInv, RecoverInterruptedOperation PROVE MonInv'
<1> PICK fresh, needsDraft, journal, descriptor \in BOOLEAN :
      /\ work # NoWork
      /\ outcome' = [action |-> Recovery(work, main, fresh, remote, needsDraft, journal, descriptor),
                      of |-> work, main |-> main, fresh |-> fresh, remote |-> remote]
      /\ work' = NoWork
      /\ UNCHANGED <<main, carries, below, verified, merges, releases, returned, chains, report, remote>>
  BY DEF RecoverInterruptedOperation
<1>1. MonTyped' /\ EvidenceInv' /\ ChainsInv' /\ ReportInv'
  BY WorldKept DEF MonInv, MonTyped
<1> DEFINE a == Recovery(work, main, fresh, remote, needsDraft, journal, descriptor)
<1>2. work.main # main \/ ~fresh => a = "REBUILD_REVIEW_REQUIRED"
  BY DEF Recovery
<1>3. work.kind = "push" => a \in {"REBUILD_REVIEW_REQUIRED", "ALREADY_COMPLETE", "HUMAN_CONFIRMATION_REQUIRED"}
  BY DEF Recovery
<1>4. a = "ALREADY_COMPLETE" => remote \in {"branch", "draft"}
  BY DEF Recovery
<1> HIDE DEF a
<1>5. RecoveryKeepsCourse'
  BY <1>2, <1>3, <1>4 DEF RecoveryKeepsCourse, MonInv, a
<1> QED BY <1>1, <1>5 DEF MonInv, NoWork

LEMMA MonInductive == MonInv /\ [EvidenceNext \/ RecoveryNext]_monVars => MonInv'
<1> SUFFICES ASSUME MonInv, [EvidenceNext \/ RecoveryNext]_monVars PROVE MonInv'
  OBVIOUS
<1>1. CASE UNCHANGED monVars
  <2>1. MonTyped' /\ EvidenceInv' /\ ChainsInv' /\ ReportInv'
    BY <1>1, WorldKept DEF monVars, MonInv, MonTyped
  <2> QED BY <1>1, <2>1 DEF monVars, MonInv, RecoveryKeepsCourse
<1>2. CASE EvidenceNext
  BY <1>2, MonMoves, MonVerifies, MonDetects, MonReleases, MonUnavailable, MonAppends, MonReports
     DEF EvidenceNext
<1>3. CASE RecoveryNext
  BY <1>3, MonMoves, MonWorks, MonRecovers DEF RecoveryNext
<1> QED BY <1>1, <1>2, <1>3

\* What is said of a merge stands for any number of cases and moves of main, however
\* often it is detected and its events appended: a case is merged by a main that carried
\* the commit and monitored by a release that descends from such a main, once each and in
\* this order, a report that is ready binds documents of one refinement, and an
\* interrupted operation goes on only in the world of its checkpoint
\* (postMergeMonitoring.ts).
THEOREM MonitoringIsWarrantedAlways == MonSpec => []MonitoringHolds
<1>1. MonInv => MonitoringHolds
  <2> SUFFICES ASSUME MonInv PROVE CasesFollow
    BY DEF MonInv, ReportInv, MonitoringHolds, MonitoringIsWarranted
  <2>1. ASSUME NEW c \in Linked, NEW n \in DOMAIN chains[c] PROVE Warranted(chains[c][n], n)
    <3>1. chains[c] \in Seq([state : {"merged", "monitored"}, why : Commits])
      BY DEF MonInv, MonTyped
    <3>2. n \in 1..Len(chains[c])
      BY <3>1
    <3> QED BY <3>2 DEF MonInv, ChainsInv
  <2> QED BY <2>1 DEF CasesFollow, Warranted
<1> QED BY <1>1, MonInvInit, MonInductive, PTL DEF MonSpec

\* The types of the evidence and of the chains of events (postMergeMonitoring.ts).
THEOREM MonitoringTypeCorrect == MonSpec => []MonTypeOK
<1>1. MonInv => MonTypeOK
  <2> SUFFICES ASSUME MonInv PROVE MonTypeOK
    OBVIOUS
  <2>1. MonTyped /\ ChainsInv
    BY DEF MonInv
  <2>2. 0..main \subseteq Commits
    BY <2>1, MonitoringAssumption DEF MonTyped, Commits
  <2>3. merges \subseteq [main : Commits, merged : BOOLEAN]
    BY <2>1, <2>2 DEF MonTyped
  <2>4. ASSUME NEW c \in Linked PROVE Len(chains[c]) <= Len(States)
    <3>1. Len(chains[c]) \in Nat
      BY <2>1 DEF MonTyped
    <3>2. \A n \in 1..Len(chains[c]) : n \in {1, 2}
      BY <2>1 DEF ChainsInv, Warranted
    <3> QED
      BY <3>1, <3>2, StatesAre
  <2> QED
    BY <2>1, <2>3, <2>4 DEF MonTypeOK, MonTyped
<1> QED BY <1>1, MonInvInit, MonInductive, PTL DEF MonSpec

-----------------------------------------------------------------------------
(* The approvals of the baselines *)

ProbeApprovals == [of : Versions, prior : Versions, form : Forms]
OrderApprovals == [of : Taken, prior : Taken, form : Forms]
NotesOfForms == {f.notes : f \in Forms} \cup {NoForm}
Trees == [probes : Versions, ordering : Taken, probesApproval : ProbeApprovals,
          orderingApproval : OrderApprovals, notes : [Dates -> NotesOfForms]]
Pages == [form : Forms, probesApproval : ProbeApprovals, orderingApproval : OrderApprovals]

SignTyped ==
  /\ code \in Versions /\ files \in Trees /\ committed \in Trees
  /\ page # NoForm => page \in Pages
  /\ writing \in [next : {"none", "record", "probes", "ordering"}, files : Pages \cup {NoForm},
                  began : Nat]
  /\ writing = Idle <=> writing.next = "none"
  /\ writing # Idle => writing.files \in Pages
  /\ cuts \in Nat /\ since \in Nat

\* Both approvals are of one signing and one engine, beside their record.
OneSigning(f) ==
  /\ f.probesApproval.form = f.orderingApproval.form
  /\ Identity[f.probesApproval.of] = f.orderingApproval.of.engine
  /\ Evidenced(f)

\* A write, as far as it has come.
WriteGoesOn ==
  LET w == writing.files IN
  /\ w.probesApproval.form = w.form /\ w.orderingApproval.form = w.form
  /\ Identity[w.probesApproval.of] = w.orderingApproval.of.engine
  /\ writing.next \in {"probes", "ordering"} => files.notes[w.form.date] = w.form.notes
  /\ writing.next = "ordering" => files.probesApproval = w.probesApproval
  /\ since >= 1
  /\ since = 1 => /\ w.probesApproval.prior = committed.probesApproval.of
                  /\ w.orderingApproval.prior = committed.orderingApproval.of

\* What no write is under way for.
TreeAtRest ==
  /\ OneSigning(files)
  /\ since = 0 => /\ files.probesApproval = committed.probesApproval
                  /\ files.orderingApproval = committed.orderingApproval
  /\ since = 1 => /\ files.probesApproval.prior = committed.probesApproval.of
                  /\ files.orderingApproval.prior = committed.orderingApproval.of

SignInv ==
  /\ SignTyped
  /\ cuts = 0 => /\ OneSigning(committed)
                 /\ writing = Idle => TreeAtRest
                 /\ writing # Idle => WriteGoesOn

LEMMA SignInvInit == SignInit => SignInv
<1> SUFFICES ASSUME SignInit PROVE SignInv
  OBVIOUS
<1> USE SigningAssumption
<1> PICK f \in Forms :
       files = [probes |-> 0, ordering |-> Snapshot(0),
                probesApproval |-> [of |-> 0, prior |-> 0, form |-> f],
                orderingApproval |-> [of |-> Snapshot(0), prior |-> Snapshot(0), form |-> f],
                notes |-> [d \in Dates |-> IF d = f.date THEN f.notes ELSE NoForm]]
  BY DEF SignInit
<1>1. 0 \in Versions /\ Snapshot(0) \in Taken /\ f.date \in Dates
  BY DEF Versions, Taken, Dates
<1>2. files \in Trees
  BY <1>1 DEF Trees, ProbeApprovals, OrderApprovals, NotesOfForms
<1>3. SignTyped
  BY <1>1, <1>2 DEF SignInit, SignTyped, Idle
<1>4. OneSigning(files)
  BY <1>1 DEF OneSigning, Evidenced, Snapshot
<1>5. committed = files /\ writing = Idle /\ since = 0
  BY DEF SignInit
<1> QED BY <1>3, <1>4, <1>5 DEF SignInv, TreeAtRest, OneSigning, Evidenced

\* What is said of a tree is said of its approvals and its notes.
SameApprovals(f, g) ==
  f.probesApproval = g.probesApproval /\ f.orderingApproval = g.orderingApproval /\ f.notes = g.notes

LEMMA SignedSame ==
  ASSUME NEW f, NEW g, SameApprovals(f, g), OneSigning(g)
  PROVE  OneSigning(f)
BY DEF SameApprovals, OneSigning, Evidenced

LEMMA SnapshotsTaken == ASSUME NEW n \in Versions PROVE Snapshot(n) \in Taken
BY DEF Taken

\* Steps that change baselines only, or nothing of the trees.
LEMMA BaselinesMove ==
  ASSUME SignInv, UNCHANGED <<writing, cuts, since>>, files' \in Trees, committed' \in Trees,
         SameApprovals(files', files), SameApprovals(committed', committed),
         code' \in Versions, page' # NoForm => page' \in Pages
  PROVE  SignInv'
<1>1. SignTyped'
  BY DEF SignInv, SignTyped
<1> SUFFICES ASSUME cuts = 0
             PROVE  /\ OneSigning(committed)' /\ (writing = Idle => TreeAtRest')
                    /\ (writing # Idle => WriteGoesOn')
  BY <1>1 DEF SignInv
<1>2. OneSigning(committed')
  BY SignedSame DEF SignInv
<1>3. ASSUME writing = Idle PROVE TreeAtRest'
  <2>1. OneSigning(files')
    BY <1>3, SignedSame DEF SignInv, TreeAtRest
  <2> QED BY <1>3, <2>1 DEF SignInv, TreeAtRest, SameApprovals, OneSigning, Evidenced
<1>4. ASSUME writing # Idle PROVE WriteGoesOn'
  BY <1>4 DEF SignInv, WriteGoesOn, SameApprovals
<1> QED BY <1>2, <1>3, <1>4 DEF OneSigning, Evidenced

LEMMA SignOthers ==
  ASSUME SignInv, MoveCode \/ Regenerate \/ CommitBaselines \/ \E f \in Forms : Preview(f)
  PROVE  SignInv'
<1> USE SigningAssumption
<1>1. CASE MoveCode
  BY <1>1, BaselinesMove DEF MoveCode, SignInv, SignTyped, SameApprovals
<1>2. CASE Regenerate
  <2>1. PICK both \in BOOLEAN :
          files' = [files EXCEPT !.probes = code, !.ordering = IF both THEN Snapshot(code) ELSE @]
    BY <1>2 DEF Regenerate
  <2>2. files' \in Trees /\ SameApprovals(files', files)
    BY <2>1, SnapshotsTaken DEF SignInv, SignTyped, Trees, SameApprovals
  <2> QED BY <1>2, <2>2, BaselinesMove DEF Regenerate, SignInv, SignTyped, SameApprovals
<1>3. CASE CommitBaselines
  <2>1. committed' \in Trees /\ SameApprovals(committed', committed)
    BY <1>3 DEF CommitBaselines, SignInv, SignTyped, Trees, SameApprovals
  <2> QED BY <1>3, <2>1, BaselinesMove DEF CommitBaselines, SignInv, SignTyped, SameApprovals
<1>4. ASSUME NEW f \in Forms, Preview(f) PROVE SignInv'
  <2>1. Approvals(f) \in Pages
    BY DEF Approvals, Pages, SignInv, SignTyped, Trees, ProbeApprovals, OrderApprovals
  <2> QED BY <1>4, <2>1, BaselinesMove DEF Preview, SignInv, SignTyped, SameApprovals
<1> QED BY <1>1, <1>2, <1>3, <1>4

LEMMA SignConfirms == ASSUME SignInv, Confirm PROVE SignInv'
<1>1. /\ page \in Pages /\ writing = Idle /\ page = Approvals(page.form) /\ Verdict = "stale"
      /\ writing' = [next |-> "record", files |-> page, began |-> cuts]
      /\ page' = NoForm /\ since' = since + 1 /\ UNCHANGED <<code, files, committed, cuts>>
  BY DEF Confirm, StillShown, Signable, SignInv, SignTyped
<1>2. writing'.next = "record" /\ writing'.files = page /\ writing' # Idle /\ Idle.next = "none"
  BY <1>1 DEF Idle
<1>3. SignTyped'
  BY <1>1, <1>2 DEF SignInv, SignTyped, Idle
<1>4. Identity[files.probes] = files.ordering.engine
  BY <1>1 DEF Verdict
<1>5. /\ page.probesApproval = [of |-> files.probes, prior |-> files.probesApproval.of, form |-> page.form]
      /\ page.orderingApproval = [of |-> files.ordering, prior |-> files.orderingApproval.of, form |-> page.form]
  BY <1>1 DEF Approvals
<1>6. cuts = 0 => WriteGoesOn'
  BY <1>1, <1>2, <1>4, <1>5 DEF SignInv, SignTyped, TreeAtRest, WriteGoesOn
<1> QED BY <1>1, <1>2, <1>3, <1>6 DEF SignInv, OneSigning, Evidenced

LEMMA SignWrites == ASSUME SignInv, WriteNext PROVE SignInv'
<1> DEFINE w == writing.files
<1>1. /\ writing # Idle /\ w \in Pages /\ w.form.date \in Dates /\ w.form.notes \in NotesOfForms
      /\ writing.next \in {"record", "probes", "ordering"}
      /\ UNCHANGED <<code, committed, page, cuts, since>>
  BY DEF WriteNext, SignInv, SignTyped, Pages, Dates, NotesOfForms
<1>2. /\ w.probesApproval \in ProbeApprovals /\ w.orderingApproval \in OrderApprovals
      /\ files \in Trees /\ files.notes \in [Dates -> NotesOfForms]
  BY <1>1 DEF Pages, SignInv, SignTyped, Trees
<1>3. cuts = 0 => OneSigning(committed)'
  BY <1>1 DEF SignInv, OneSigning, Evidenced
<1>4. CASE writing.next = "record"
  <2>1. /\ files' = [files EXCEPT !.notes = [files.notes EXCEPT ![w.form.date] = w.form.notes]]
        /\ writing' = [writing EXCEPT !.next = "probes"]
    BY <1>4 DEF WriteNext
  <2>2. files' \in Trees /\ files'.notes[w.form.date] = w.form.notes
    BY <1>1, <1>2, <2>1 DEF Trees
  <2>3. /\ writing' \in [next : {"none", "record", "probes", "ordering"}, files : Pages \cup {NoForm},
                         began : Nat]
        /\ writing'.next = "probes" /\ writing'.files = w /\ writing' # Idle
    BY <2>1, <1>1 DEF SignInv, SignTyped, Idle
  <2>4. SignTyped'
    BY <1>1, <2>2, <2>3 DEF SignInv, SignTyped
  <2>5. cuts = 0 => WriteGoesOn'
    BY <1>1, <2>2, <2>3 DEF SignInv, WriteGoesOn
  <2> QED BY <1>1, <1>3, <2>3, <2>4, <2>5 DEF SignInv
<1>5. CASE writing.next = "probes"
  <2>1. /\ files' = [files EXCEPT !.probesApproval = w.probesApproval]
        /\ writing' = [writing EXCEPT !.next = "ordering"]
    BY <1>5 DEF WriteNext
  <2>2. files' \in Trees /\ files'.probesApproval = w.probesApproval /\ files'.notes = files.notes
    BY <1>2, <2>1 DEF Trees
  <2>3. /\ writing' \in [next : {"none", "record", "probes", "ordering"}, files : Pages \cup {NoForm},
                         began : Nat]
        /\ writing'.next = "ordering" /\ writing'.files = w /\ writing' # Idle
    BY <2>1, <1>1 DEF SignInv, SignTyped, Idle
  <2>4. SignTyped'
    BY <1>1, <2>2, <2>3 DEF SignInv, SignTyped
  <2>5. cuts = 0 => WriteGoesOn'
    BY <1>1, <1>5, <2>2, <2>3 DEF SignInv, WriteGoesOn
  <2> QED BY <1>1, <1>3, <2>3, <2>4, <2>5 DEF SignInv
<1>6. CASE writing.next = "ordering"
  <2>1. files' = [files EXCEPT !.orderingApproval = w.orderingApproval] /\ writing' = Idle
    BY <1>6 DEF WriteNext
  <2>2. /\ files' \in Trees /\ files'.orderingApproval = w.orderingApproval
        /\ files'.probesApproval = files.probesApproval /\ files'.notes = files.notes
    BY <1>2, <2>1 DEF Trees
  <2>3. SignTyped'
    BY <1>1, <2>1, <2>2 DEF SignInv, SignTyped, Idle
  <2>4. ASSUME cuts = 0 PROVE TreeAtRest'
    <3>1. files.probesApproval = w.probesApproval /\ files.notes[w.form.date] = w.form.notes
      BY <1>1, <1>6, <2>4 DEF SignInv, WriteGoesOn
    <3>2. OneSigning(files')
      BY <1>1, <2>2, <2>4, <3>1 DEF SignInv, WriteGoesOn, OneSigning, Evidenced
    <3>3. since >= 1 /\ since \in Nat
      BY <1>1, <2>4 DEF SignInv, SignTyped, WriteGoesOn
    <3> QED BY <1>1, <2>2, <2>4, <3>1, <3>2, <3>3
            DEF SignInv, WriteGoesOn, TreeAtRest, OneSigning, Evidenced
  <2> QED BY <1>1, <1>3, <2>1, <2>3, <2>4 DEF SignInv
<1> QED BY <1>1, <1>4, <1>5, <1>6

LEMMA SignServerDies == ASSUME SignInv, SigningServerDies PROVE SignInv'
<1>1. /\ UNCHANGED <<code, files, committed, page, since>> /\ writing' = Idle
      /\ cuts' = cuts + (IF writing = Idle THEN 0 ELSE 1)
  BY DEF SigningServerDies
<1>2. SignTyped'
  BY <1>1 DEF SignInv, SignTyped, Idle
<1>3. cuts' = 0 => cuts = 0 /\ writing = Idle
  BY <1>1 DEF SignInv, SignTyped
<1> QED BY <1>1, <1>2, <1>3 DEF SignInv, TreeAtRest, OneSigning, Evidenced

\* The approvals of the tree become those of HEAD, one way or the other.
LEMMA SignCommits == ASSUME SignInv, CommitSigned \/ Discard PROVE SignInv'
<1>1. /\ writing = Idle /\ since' = 0 /\ UNCHANGED <<code, page, writing, cuts>>
  BY DEF CommitSigned, Discard
<1>2. CASE CommitSigned
  <2>1. /\ files' = files /\ committed' \in Trees /\ SameApprovals(committed', files)
    BY <1>2 DEF CommitSigned, SignInv, SignTyped, Trees, SameApprovals
  <2>2. SignTyped'
    BY <1>1, <2>1 DEF SignInv, SignTyped
  <2>3. cuts = 0 => OneSigning(committed') /\ OneSigning(files)
    BY <1>1, <2>1, SignedSame DEF SignInv, TreeAtRest
  <2> QED BY <1>1, <2>1, <2>2, <2>3
          DEF SignInv, TreeAtRest, OneSigning, Evidenced, SameApprovals
<1>3. CASE Discard
  <2>1. files' = committed /\ committed' = committed
    BY <1>3 DEF Discard
  <2>2. SignTyped'
    BY <1>1, <2>1 DEF SignInv, SignTyped
  <2> QED BY <1>1, <2>1, <2>2 DEF SignInv, TreeAtRest, OneSigning, Evidenced
<1> QED BY <1>2, <1>3

LEMMA SignInductive == SignInv /\ [SignNext]_signVars => SignInv'
<1> SUFFICES ASSUME SignInv, [SignNext]_signVars PROVE SignInv'
  OBVIOUS
<1>1. CASE UNCHANGED signVars
  BY <1>1, BaselinesMove DEF signVars, SignInv, SignTyped, SameApprovals
<1> QED BY <1>1, SignOthers, SignConfirms, SignWrites, SignServerDies, SignCommits DEF SignNext

\* For any versions of the code, forms and signings: while no write was cut short, both
\* approvals are of one signing and one engine and stand beside their record, and the
\* first signing after a commit is chained to the approvals that are committed, so that
\* the tripwire sees an ordering that moved without its engine (write(),
\* findPriorByCanonicalSha).
THEOREM SigningIsChained == SignSpec => []SigningHolds
<1>1. SignInv => SigningHolds
  <2> SUFFICES ASSUME SignInv, writing = Idle, cuts = 0
               PROVE  /\ OneSigning(files)
                      /\ since = 1 =>
                           /\ files.probesApproval.prior = committed.probesApproval.of
                           /\ files.orderingApproval.prior = committed.orderingApproval.of
                           /\ Accepted(files) /\ files.ordering.lists # committed.orderingApproval.of.lists
                                => files.ordering.engine # committed.orderingApproval.of.engine
    BY DEF SigningHolds, SignedTogether, ChainedToCommitted, OneSigning
  <2>1. TreeAtRest
    BY DEF SignInv
  <2> QED BY <2>1 DEF TreeAtRest, Accepted, Tripped
<1> QED BY <1>1, SignInvInit, SignInductive, PTL DEF SignSpec

\* The identity a server keeps is one of a version.
SignDerives == derived \in {Identity[n] : n \in Versions} \cup {NoForm}

LEMMA SignDerivesInductive == SignInv /\ SignDerives /\ [SignNext]_signVars => SignDerives'
<1> SUFFICES ASSUME SignInv, SignDerives, [SignNext]_signVars PROVE SignDerives'
  OBVIOUS
<1>1. DeriveIdentity \in {Identity[n] : n \in Versions} \cup {NoForm}
  BY DEF DeriveIdentity, SignDerives, SignInv, SignTyped
<1>2. derived' \in {derived, DeriveIdentity, NoForm}
  BY DEF SignNext, Preview, Confirm, WriteNext, SigningServerDies, MoveCode, Regenerate, CommitBaselines,
         CommitSigned, Discard, signVars
<1> QED BY <1>1, <1>2 DEF SignDerives

\* The types of the two trees, of what is written and of the identity that is kept
\* (signingOperations.ts).
THEOREM SigningTypeCorrect == SignSpec => []SignTypeOK
<1>1. SignInit => SignDerives
  BY DEF SignInit, SignDerives
<1>2. SignInv /\ SignDerives => SignTypeOK
  BY DEF SignInv, SignTyped, SignDerives, SignTypeOK, Trees, Idle
<1> QED BY <1>1, <1>2, SignInvInit, SignInductive, SignDerivesInductive, PTL DEF SignSpec

-----------------------------------------------------------------------------
(* Telemetry audits *)

LEMMA PathsDiffer ==
  /\ Master \in Paths /\ CaseEvents \in Paths /\ Master # CaseEvents
  /\ \A a \in Audits : /\ Pending(a) \in Paths /\ Receipt(a) \in Paths
                       /\ Pending(a) \notin {Master, CaseEvents} /\ Receipt(a) \notin {Master, CaseEvents}
  /\ \A a, b \in Audits : /\ Pending(a) # Receipt(b)
                          /\ a # b => Pending(a) # Pending(b) /\ Receipt(a) # Receipt(b)
BY DEF Paths, Master, CaseEvents, Pending, Receipt

\* What the files are.
DiskTyped(d) ==
  /\ DOMAIN d = Paths
  /\ "holds" \in DOMAIN d[Master] /\ d[Master].holds \in Seq(Audits)
  /\ "holds" \in DOMAIN d[CaseEvents]
  /\ \A a \in Audits : /\ "status" \in DOMAIN d[Receipt(a)]
                       /\ d[Receipt(a)].status \in {"missing", "applied", "closed"}

MergedOnce(d, a) ==
  \E i \in DOMAIN d[Master].holds : \A j \in DOMAIN d[Master].holds : d[Master].holds[j] = a <=> j = i

\* AuditsWhole, of a disk.
WholeOn(d) ==
  \A a \in Audits :
    /\ d[Receipt(a)].status = "missing" =>
         (\A j \in DOMAIN d[Master].holds : d[Master].holds[j] # a) /\ a \notin d[CaseEvents].holds
    /\ d[Receipt(a)].status # "missing" => MergedOnce(d, a) /\ a \in d[CaseEvents].holds
    /\ d[Receipt(a)].status = "applied" => d[Pending(a)] = Present

\* A disk with a plan carried out.
PlannedOf(d, p) ==
  [q \in Paths |->
    IF \E i \in DOMAIN p : p[i].path = q THEN p[CHOOSE i \in DOMAIN p : p[i].path = q].after ELSE d[q]]

\* The plans, and how far a disk may be when one is open.
PlanToApply(p, d, a) ==
  /\ DOMAIN p = 1..4 /\ Len(p) = 4 /\ p[1].path = Master /\ p[2].path = Pending(a)
  /\ p[3].path = Receipt(a) /\ p[4].path = CaseEvents
  /\ p[3].after.status = "applied" /\ d[Receipt(a)].status # "closed"
PlanToClose(p, d, a) ==
  /\ DOMAIN p = 1..2 /\ Len(p) = 2 /\ p[1].path = Pending(a) /\ p[2].path = Receipt(a)
  /\ p[1].after = Missing /\ p[2].after.status = "closed"
  /\ d[Receipt(a)].status = "closed" => d[Pending(a)] = Missing

JournalInv ==
  \/ jnl = NoJnl
  \/ /\ "state" \in DOMAIN jnl /\ "plan" \in DOMAIN jnl
     /\ jnl.state \in {"prepared", "committing", "committed"}
     /\ DiskTyped(PlannedOf(disk, jnl.plan)) /\ WholeOn(PlannedOf(disk, jnl.plan))
     /\ \E a \in Audits : PlanToApply(jnl.plan, disk, a) \/ PlanToClose(jnl.plan, disk, a)

CallersInv ==
  /\ DOMAIN audit = Callers
  /\ \A c \in Callers : audit[c].at # "rest" =>
       /\ {"op", "at", "digest", "done"} \subseteq DOMAIN audit[c]
       /\ audit[c].op \in {"preview", "apply", "close"} /\ audit[c].digest \in Audits
       /\ audit[c].at # "journal" => audit[c].done = 0
  /\ \A c \in Callers : audit[c].at = "journal" =>
       /\ jnl # NoJnl /\ \A d \in Callers : audit[d].at = "journal" => d = c
       /\ audit[c].done \in Nat /\ (jnl.state = "prepared" => audit[c].done = 0)
       /\ jnl.state = "committing" => \A i \in DOMAIN jnl.plan :
            i <= audit[c].done /\ jnl.plan[i].path # CaseEvents => disk[jnl.plan[i].path] = jnl.plan[i].after

TelInv ==
  /\ DiskTyped(disk) /\ CallersInv /\ JournalInv /\ IsFiniteSet(acked)
  /\ jnl.state \in {"none", "prepared"} => WholeOn(disk)
  /\ \A a \in Audits : StatusOf(a) = "closed" => disk[Pending(a)] # Present

LEMMA TelInvInit == TelInit => TelInv
<1> SUFFICES ASSUME TelInit PROVE TelInv
  OBVIOUS
<1>1. /\ disk[Master].holds = <<>> /\ disk[CaseEvents].holds = {} /\ DOMAIN disk = Paths
      /\ "holds" \in DOMAIN disk[Master] /\ "holds" \in DOMAIN disk[CaseEvents]
      /\ \A a \in Audits : disk[Receipt(a)] = Missing /\ disk[Pending(a)] = Missing
  BY PathsDiffer DEF TelInit, Content
<1>2. DiskTyped(disk)
  BY <1>1 DEF DiskTyped, Missing
<1>3. WholeOn(disk)
  BY <1>1 DEF WholeOn, Missing
<1>4. CallersInv /\ JournalInv /\ IsFiniteSet(acked)
  BY FS_EmptySet DEF TelInit, CallersInv, JournalInv, Resting
<1>5. \A a \in Audits : StatusOf(a) # "closed"
  BY <1>1 DEF StatusOf, Missing
<1> QED BY <1>2, <1>3, <1>4, <1>5 DEF TelInv

\* A journal's state says whether there is one.
LEMMA JournalStates ==
  ASSUME TelInv
  PROVE  /\ jnl.state = "none" <=> jnl = NoJnl
         /\ jnl.state \in {"none", "prepared", "committing", "committed"}
BY DEF TelInv, JournalInv, NoJnl

\* Nothing of the files changes, and nobody begins a journal.
LEMMA TelRests ==
  ASSUME TelInv, UNCHANGED <<disk, jnl, acked>>, DOMAIN audit' = Callers,
         \A c \in Callers : \/ audit'[c] = audit[c]
                            \/ audit'[c].at = "rest"
                            \/ /\ audit'[c].at \notin {"rest", "journal"}
                               /\ {"op", "at", "digest", "done"} \subseteq DOMAIN audit'[c]
                               /\ audit'[c].op \in {"preview", "apply", "close"}
                               /\ audit'[c].digest \in Audits /\ audit'[c].done = 0
  PROVE  TelInv'
<1>1. CallersInv'
  BY DEF TelInv, CallersInv
<1>2. JournalInv'
  BY DEF TelInv, JournalInv
<1> QED BY <1>1, <1>2 DEF TelInv, DiskTyped, WholeOn, MergedOnce, StatusOf

LEMMA TelQuiet ==
  ASSUME TelInv, NEW c \in Callers,
         \/ \E op \in {"preview", "apply", "close"} : AskAudit(c, op)
         \/ Conflict(c) \/ PreviewLook(c) \/ PreviewConfirm(c) \/ LoadAudit(c)
  PROVE  TelInv'
<1>1. CASE \E op \in {"preview", "apply", "close"} : AskAudit(c, op)
  <2>1. PICK op \in {"preview", "apply", "close"}, a \in Audits :
          audit' = [audit EXCEPT ![c] = [op |-> op, digest |-> a, at |-> "look", done |-> 0,
                                         seen |-> IF op = "apply" THEN previews[a] ELSE NoPreview]]
    BY <1>1 DEF AskAudit
  <2>2. /\ DOMAIN audit' = Callers /\ \A d \in Callers : d # c => audit'[d] = audit[d]
        /\ audit'[c].at = "look" /\ {"op", "at", "digest", "done"} \subseteq DOMAIN audit'[c]
        /\ audit'[c].op = op /\ audit'[c].digest = a /\ audit'[c].done = 0
    BY <2>1 DEF TelInv, CallersInv
  <2> QED BY <1>1, <2>2, TelRests DEF AskAudit
<1> DEFINE Ended == /\ DOMAIN audit' = Callers /\ audit'[c].at = "rest"
                    /\ \A d \in Callers : d # c => audit'[d] = audit[d]
           Moved(at) == /\ DOMAIN audit' = Callers /\ \A d \in Callers : d # c => audit'[d] = audit[d]
                        /\ audit'[c].at = at /\ {"op", "at", "digest", "done"} \subseteq DOMAIN audit'[c]
                        /\ audit'[c].op = audit[c].op /\ audit'[c].digest = audit[c].digest
                        /\ audit'[c].done = audit[c].done
<1>2. Ends(c) => Ended
  BY DEF Ends, Resting, TelInv, CallersInv
<1>3. \A at \in {"confirm", "write"} : audit[c].at # "rest" /\ GoesTo(c, at) => Moved(at)
  BY DEF GoesTo, TelInv, CallersInv
<1>4. audit[c].at # "rest" /\ audit' = [audit EXCEPT ![c].at = "stage", ![c].seen = Seen] => Moved("stage")
  BY DEF TelInv, CallersInv
<1>5. ASSUME UNCHANGED <<disk, jnl, acked>>, audit[c].at \notin {"rest", "journal"},
             Ended \/ Moved("confirm") \/ Moved("write") \/ Moved("stage")
      PROVE  TelInv'
  BY <1>5, TelRests DEF TelInv, CallersInv
<1> HIDE DEF Ended, Moved
<1>6. CASE Conflict(c)
  <2>1. Ended
    BY <1>2, <1>6 DEF Conflict
  <2> QED BY <1>6, <2>1, TelRests DEF Conflict, Ended
<1>7. CASE PreviewLook(c)
  BY <1>2, <1>4, <1>5, <1>7 DEF PreviewLook, ShowReceipt
<1>8. CASE PreviewConfirm(c)
  BY <1>2, <1>5, <1>8 DEF PreviewConfirm, ShowReceipt
<1>9. CASE LoadAudit(c)
  BY <1>2, <1>3, <1>5, <1>9 DEF LoadAudit
<1> QED BY <1>1, <1>6, <1>7, <1>8, <1>9

\* What follows from the lock: no journal is open and nobody holds one.
LEMMA WhenLocked ==
  ASSUME TelInv, Locked
  PROVE  jnl = NoJnl /\ WholeOn(disk) /\ \A d \in Callers : audit[d].at # "journal"
BY DEF Locked, Holder, TelInv, NoJnl

LEMMA TelStages == ASSUME TelInv, NEW c \in Callers, PreviewStage(c) PROVE TelInv'
<1> DEFINE a == audit[c].digest
<1>1. /\ a \in Audits /\ audit[c].at = "stage" /\ jnl = NoJnl /\ UNCHANGED <<jnl, acked>>
      /\ WholeOn(disk) /\ audit[c].done = 0
      /\ {"op", "at", "digest", "done"} \subseteq DOMAIN audit[c] /\ audit[c].op = "preview"
  BY WhenLocked DEF PreviewStage, TelInv, CallersInv
<1>2. Ends(c) \/ GoesTo(c, "confirm")
  BY DEF PreviewStage
<1>3. CallersInv'
  <2>1. DOMAIN audit' = Callers /\ \A d \in Callers : d # c => audit'[d] = audit[d]
    BY <1>2 DEF Ends, GoesTo, TelInv, CallersInv
  <2>2. \/ audit'[c].at = "rest"
        \/ /\ audit'[c].at = "confirm" /\ {"op", "at", "digest", "done"} \subseteq DOMAIN audit'[c]
           /\ audit'[c].op = "preview" /\ audit'[c].digest = a /\ audit'[c].done = 0
    BY <1>1, <1>2 DEF Ends, GoesTo, Resting, TelInv, CallersInv
  <2>3. \A d \in Callers : audit'[d].at # "journal"
    BY <2>1, <2>2, WhenLocked DEF PreviewStage
  <2> QED BY <1>1, <2>1, <2>2, <2>3 DEF TelInv, CallersInv
<1>4. CASE disk' = disk
  BY <1>1, <1>3, <1>4 DEF TelInv, JournalInv, StatusOf, WholeOn, MergedOnce, DiskTyped
<1>5. CASE MayStage(a) /\ disk' = [disk EXCEPT ![Pending(a)] = Present]
  <2>1. /\ DOMAIN disk' = Paths /\ disk'[Master] = disk[Master] /\ disk'[CaseEvents] = disk[CaseEvents]
        /\ \A b \in Audits : disk'[Receipt(b)] = disk[Receipt(b)]
        /\ \A b \in Audits : b # a => disk'[Pending(b)] = disk[Pending(b)]
        /\ disk'[Pending(a)] = Present /\ StatusOf(a) = "missing"
    <3>1. DOMAIN disk = Paths /\ Pending(a) \in Paths /\ StatusOf(a) = "missing"
      BY <1>1, <1>5, PathsDiffer DEF MayStage, TelInv, DiskTyped
    <3>2. \A q \in Paths : q # Pending(a) => disk'[q] = disk[q]
      BY <1>5, <3>1
    <3>3. disk'[Pending(a)] = Present
      BY <1>5, <3>1
    <3>4. /\ Master \in Paths /\ Master # Pending(a) /\ CaseEvents \in Paths /\ CaseEvents # Pending(a)
          /\ \A b \in Audits : Receipt(b) \in Paths /\ Receipt(b) # Pending(a)
      BY <1>1, PathsDiffer
    <3>5. \A b \in Audits : b # a => Pending(b) \in Paths /\ Pending(b) # Pending(a)
      BY <1>1, PathsDiffer
    <3>6. DOMAIN disk' = Paths
      BY <1>5, <3>1
    <3> QED BY <3>1, <3>2, <3>3, <3>4, <3>5, <3>6
  <2>2. DiskTyped(disk')
    BY <2>1 DEF TelInv, DiskTyped
  <2>3. WholeOn(disk')
    BY <1>1, <2>1 DEF WholeOn, MergedOnce
  <2>4. \A b \in Audits : StatusOf(b)' = "closed" => disk'[Pending(b)] # Present
    BY <2>1 DEF TelInv, StatusOf
  <2> QED BY <1>1, <1>3, <2>2, <2>3, <2>4
          DEF TelInv, JournalInv, DiskTyped, WholeOn, MergedOnce
<1> QED BY <1>4, <1>5 DEF PreviewStage

-----------------------------------------------------------------------------
(* What a plan makes of the files *)

LEMMA PlannedAt ==
  ASSUME NEW d, NEW p, NEW q \in Paths, NEW k \in DOMAIN p,
         \A i \in DOMAIN p : p[i].path = q <=> i = k
  PROVE  PlannedOf(d, p)[q] = p[k].after
<1>1. (CHOOSE i \in DOMAIN p : p[i].path = q) = k
  OBVIOUS
<1> QED BY <1>1 DEF PlannedOf

LEMMA PlannedElsewhere ==
  ASSUME NEW d, NEW p, NEW q \in Paths, \A i \in DOMAIN p : p[i].path # q
  PROVE  PlannedOf(d, p)[q] = d[q]
BY DEF PlannedOf

LEMMA PlannedKept ==
  ASSUME NEW d, NEW e, NEW p,
         \A q \in Paths : (\A i \in DOMAIN p : p[i].path # q) => e[q] = d[q]
  PROVE  PlannedOf(e, p) = PlannedOf(d, p)
BY DEF PlannedOf

LEMMA ApplyMakes ==
  ASSUME NEW d, NEW p, NEW a \in Audits, DOMAIN p = 1..4, p[1].path = Master,
         p[2].path = Pending(a), p[3].path = Receipt(a), p[4].path = CaseEvents
  PROVE  LET e == PlannedOf(d, p) IN
         /\ DOMAIN e = Paths /\ e[Master] = p[1].after /\ e[Pending(a)] = p[2].after
         /\ e[Receipt(a)] = p[3].after /\ e[CaseEvents] = p[4].after
         /\ \A b \in Audits : b # a => e[Pending(b)] = d[Pending(b)] /\ e[Receipt(b)] = d[Receipt(b)]
<1>1. \A i \in DOMAIN p : /\ p[i].path = Master <=> i = 1
                          /\ p[i].path = Pending(a) <=> i = 2
                          /\ p[i].path = Receipt(a) <=> i = 3
                          /\ p[i].path = CaseEvents <=> i = 4
  BY PathsDiffer
<1>2. /\ PlannedOf(d, p)[Master] = p[1].after /\ PlannedOf(d, p)[Pending(a)] = p[2].after
      /\ PlannedOf(d, p)[Receipt(a)] = p[3].after /\ PlannedOf(d, p)[CaseEvents] = p[4].after
  <2>1. PlannedOf(d, p)[Master] = p[1].after
    BY <1>1, PathsDiffer, PlannedAt
  <2>2. PlannedOf(d, p)[Pending(a)] = p[2].after
    BY <1>1, PathsDiffer, PlannedAt
  <2>3. PlannedOf(d, p)[Receipt(a)] = p[3].after
    BY <1>1, PathsDiffer, PlannedAt
  <2>4. PlannedOf(d, p)[CaseEvents] = p[4].after
    BY <1>1, PathsDiffer, PlannedAt
  <2> QED BY <2>1, <2>2, <2>3, <2>4
<1>3. ASSUME NEW b \in Audits, b # a
      PROVE  PlannedOf(d, p)[Pending(b)] = d[Pending(b)] /\ PlannedOf(d, p)[Receipt(b)] = d[Receipt(b)]
  <2>1. /\ Pending(b) \notin {Master, Pending(a), Receipt(a), CaseEvents} /\ Pending(b) \in Paths
        /\ Receipt(b) \notin {Master, Pending(a), Receipt(a), CaseEvents} /\ Receipt(b) \in Paths
    BY <1>3, PathsDiffer
  <2>2. \A i \in DOMAIN p : p[i].path \in {Master, Pending(a), Receipt(a), CaseEvents}
    OBVIOUS
  <2>3. \A i \in DOMAIN p : p[i].path # Pending(b) /\ p[i].path # Receipt(b)
    BY <2>1, <2>2
  <2> QED BY <2>1, <2>3, PlannedElsewhere
<1>4. DOMAIN PlannedOf(d, p) = Paths
  BY DEF PlannedOf
<1> QED BY <1>2, <1>3, <1>4

LEMMA CloseMakes ==
  ASSUME NEW d, NEW p, NEW a \in Audits, DOMAIN p = 1..2,
         p[1].path = Pending(a), p[2].path = Receipt(a)
  PROVE  LET e == PlannedOf(d, p) IN
         /\ DOMAIN e = Paths /\ e[Master] = d[Master] /\ e[CaseEvents] = d[CaseEvents]
         /\ e[Pending(a)] = p[1].after /\ e[Receipt(a)] = p[2].after
         /\ \A b \in Audits : b # a => e[Pending(b)] = d[Pending(b)] /\ e[Receipt(b)] = d[Receipt(b)]
<1>1. \A i \in DOMAIN p : /\ p[i].path # Master /\ p[i].path # CaseEvents
                          /\ p[i].path = Pending(a) <=> i = 1
                          /\ p[i].path = Receipt(a) <=> i = 2
  BY PathsDiffer
<1>2. PlannedOf(d, p)[Pending(a)] = p[1].after
  BY <1>1, PathsDiffer, PlannedAt
<1>3. PlannedOf(d, p)[Receipt(a)] = p[2].after
  BY <1>1, PathsDiffer, PlannedAt
<1>4. PlannedOf(d, p)[Master] = d[Master] /\ PlannedOf(d, p)[CaseEvents] = d[CaseEvents]
  BY <1>1, PathsDiffer, PlannedElsewhere
<1>5. ASSUME NEW b \in Audits, b # a
      PROVE  PlannedOf(d, p)[Pending(b)] = d[Pending(b)] /\ PlannedOf(d, p)[Receipt(b)] = d[Receipt(b)]
  <2>1. /\ Pending(b) \notin {Pending(a), Receipt(a)} /\ Pending(b) \in Paths
        /\ Receipt(b) \notin {Pending(a), Receipt(a)} /\ Receipt(b) \in Paths
    BY <1>5, PathsDiffer
  <2>2. \A i \in DOMAIN p : p[i].path \in {Pending(a), Receipt(a)}
    OBVIOUS
  <2>3. \A i \in DOMAIN p : p[i].path # Pending(b) /\ p[i].path # Receipt(b)
    BY <2>1, <2>2
  <2> QED BY <2>1, <2>3, PlannedElsewhere
<1>6. DOMAIN PlannedOf(d, p) = Paths
  BY DEF PlannedOf
<1> QED BY <1>2, <1>3, <1>4, <1>5, <1>6

\* A fresh audit applied leaves everything whole.
LEMMA ApplyIsWhole ==
  ASSUME DiskTyped(disk), WholeOn(disk), NEW a \in Audits, StatusOf(a) = "missing"
  PROVE  LET p == Plan("apply", a) e == PlannedOf(disk, p) IN
         PlanToApply(p, disk, a) /\ DiskTyped(e) /\ WholeOn(e)
<1> DEFINE m == disk[Master].holds
           cs == disk[CaseEvents].holds
           master == Content(Append(m, a))
           cases == Content(cs \cup {a})
           p == Plan("apply", a)
           e == PlannedOf(disk, p)
<1>1. p = <<Change(Master, master), Change(Pending(a), Present),
            Change(Receipt(a), Issued("applied", master, cases)), Change(CaseEvents, cases)>>
  BY DEF Plan
<1>2. /\ DOMAIN p = 1..4 /\ Len(p) = 4 /\ p[1].path = Master /\ p[1].after = master
      /\ p[2].path = Pending(a) /\ p[2].after = Present
      /\ p[3].path = Receipt(a) /\ p[3].after = Issued("applied", master, cases)
      /\ p[4].path = CaseEvents /\ p[4].after = cases
  BY <1>1 DEF Change
<1>3. PlanToApply(p, disk, a)
  BY <1>2 DEF PlanToApply, Issued, StatusOf
<1>4. /\ master.holds = Append(m, a) /\ "holds" \in DOMAIN master
      /\ cases.holds = cs \cup {a} /\ "holds" \in DOMAIN cases
      /\ Issued("applied", master, cases).status = "applied"
      /\ "status" \in DOMAIN Issued("applied", master, cases)
  BY DEF Content, Issued
<1> HIDE DEF p, master, cases
<1>5. /\ DOMAIN e = Paths /\ e[Master] = master /\ e[Pending(a)] = Present
      /\ e[Receipt(a)] = Issued("applied", master, cases) /\ e[CaseEvents] = cases
      /\ \A b \in Audits : b # a => e[Pending(b)] = disk[Pending(b)] /\ e[Receipt(b)] = disk[Receipt(b)]
  BY <1>2, ApplyMakes
<1> HIDE DEF e
<1>6. /\ Append(m, a) \in Seq(Audits) /\ Len(Append(m, a)) = Len(m) + 1 /\ Len(m) \in Nat
      /\ Append(m, a)[Len(m) + 1] = a /\ \A n \in 1..Len(m) : Append(m, a)[n] = m[n]
      /\ DOMAIN Append(m, a) = 1..Len(m) + 1 /\ DOMAIN m = 1..Len(m)
  BY LongerBy DEF DiskTyped
<1>7. DiskTyped(e)
  BY <1>4, <1>5, <1>6 DEF DiskTyped
<1>8. WholeOn(e)
  <2> SUFFICES ASSUME NEW b \in Audits
               PROVE  /\ e[Receipt(b)].status = "missing" =>
                            (\A j \in DOMAIN e[Master].holds : e[Master].holds[j] # b)
                            /\ b \notin e[CaseEvents].holds
                      /\ e[Receipt(b)].status # "missing" => MergedOnce(e, b) /\ b \in e[CaseEvents].holds
                      /\ e[Receipt(b)].status = "applied" => e[Pending(b)] = Present
    BY DEF WholeOn
  <2>1. CASE b = a
    <3>1. \A j \in 1..Len(m) + 1 : Append(m, a)[j] = a => j = Len(m) + 1
      <4>1. \A j \in DOMAIN m : m[j] # a
        BY DEF WholeOn, StatusOf
      <4> QED BY <1>6, <4>1
    <3>2. MergedOnce(e, a)
      <4>1. DOMAIN e[Master].holds = 1..Len(m) + 1 /\ e[Master].holds = Append(m, a)
        BY <1>4, <1>5, <1>6
      <4>2. Len(m) + 1 \in 1..Len(m) + 1
        BY <1>6
      <4>3. Append(m, a)[Len(m) + 1] = a
        BY <1>6
      <4> HIDE DEF m
      <4> QED BY <1>6, <3>1, <4>1, <4>2, <4>3 DEF MergedOnce
    <3> QED BY <1>4, <1>5, <2>1, <3>2
  <2>2. CASE b # a
    <3>1. \A j \in 1..Len(m) + 1 : Append(m, a)[j] = b => j \in 1..Len(m) /\ m[j] = b
      BY <1>6, <2>2
    <3>2. MergedOnce(disk, b) => MergedOnce(e, b)
      <4> SUFFICES ASSUME MergedOnce(disk, b) PROVE MergedOnce(e, b)
        OBVIOUS
      <4>1. PICK i \in DOMAIN m : \A j \in DOMAIN m : m[j] = b <=> j = i
        BY DEF MergedOnce
      <4> HIDE DEF m
      <4>2. i \in 1..Len(m) + 1 /\ Append(m, a)[i] = b
        BY <1>6, <4>1
      <4>4. \A j \in 1..Len(m) + 1 : Append(m, a)[j] = b => j = i
        BY <1>6, <3>1, <4>1
      <4>3. DOMAIN e[Master].holds = 1..Len(m) + 1 /\ e[Master].holds = Append(m, a)
        BY <1>4, <1>5, <1>6
      <4> QED BY <1>6, <4>2, <4>3, <4>4 DEF MergedOnce
    <3>3. (\A j \in DOMAIN m : m[j] # b) => \A j \in DOMAIN e[Master].holds : e[Master].holds[j] # b
      BY <1>4, <1>5, <1>6, <3>1
    <3> QED BY <1>4, <1>5, <2>2, <3>2, <3>3 DEF WholeOn
  <2> QED BY <2>1, <2>2
<1> QED BY <1>3, <1>7, <1>8 DEF p, e

\* So does closing one.
LEMMA CloseIsWhole ==
  ASSUME DiskTyped(disk), WholeOn(disk), NEW a \in Audits, StatusOf(a) = "applied"
  PROVE  LET p == Plan("close", a) e == PlannedOf(disk, p) IN
         PlanToClose(p, disk, a) /\ DiskTyped(e) /\ WholeOn(e)
<1> DEFINE receipt == [disk[Receipt(a)] EXCEPT !.status = "closed"]
           p == Plan("close", a)
           e == PlannedOf(disk, p)
<1>1. p = <<Change(Pending(a), Missing), Change(Receipt(a), receipt)>>
  BY DEF Plan
<1>2. /\ DOMAIN p = 1..2 /\ Len(p) = 2 /\ p[1].path = Pending(a) /\ p[1].after = Missing
      /\ p[2].path = Receipt(a) /\ p[2].after = receipt
  BY <1>1 DEF Change
<1>3. receipt.status = "closed" /\ "status" \in DOMAIN receipt
  BY DEF DiskTyped
<1>4. PlanToClose(p, disk, a)
  BY <1>2, <1>3 DEF PlanToClose, StatusOf
<1> HIDE DEF p, receipt
<1>5. /\ DOMAIN e = Paths /\ e[Master] = disk[Master] /\ e[CaseEvents] = disk[CaseEvents]
      /\ e[Pending(a)] = Missing /\ e[Receipt(a)] = receipt
      /\ \A b \in Audits : b # a => e[Pending(b)] = disk[Pending(b)] /\ e[Receipt(b)] = disk[Receipt(b)]
  BY <1>2, CloseMakes
<1> HIDE DEF e
<1>6. DiskTyped(e)
  BY <1>3, <1>5 DEF DiskTyped
<1>7. WholeOn(e)
  BY <1>3, <1>5 DEF WholeOn, MergedOnce, StatusOf
<1> QED BY <1>4, <1>6, <1>7 DEF p, e

-----------------------------------------------------------------------------
(* The steps that change the files or the journal *)

\* Between two disks every file is of one of them.
LEMMA TypedBetween ==
  ASSUME NEW d, NEW e, NEW g, DiskTyped(d), DiskTyped(e), DOMAIN g = Paths,
         \A q \in Paths : g[q] = d[q] \/ g[q] = e[q]
  PROVE  DiskTyped(g)
<1>1. g[Master] \in {d[Master], e[Master]} /\ g[CaseEvents] \in {d[CaseEvents], e[CaseEvents]}
  BY PathsDiffer
<1>2. \A a \in Audits : g[Receipt(a)] \in {d[Receipt(a)], e[Receipt(a)]}
  BY PathsDiffer
<1> QED BY <1>1, <1>2 DEF DiskTyped

LEMMA WholeAlike ==
  ASSUME NEW d, NEW e, WholeOn(d), \A q \in Paths : e[q] = d[q]
  PROVE  WholeOn(e)
<1>1. e[Master] = d[Master] /\ e[CaseEvents] = d[CaseEvents]
  BY PathsDiffer
<1>2. \A a \in Audits : e[Receipt(a)] = d[Receipt(a)] /\ e[Pending(a)] = d[Pending(a)]
  BY PathsDiffer
<1> QED BY <1>1, <1>2 DEF WholeOn, MergedOnce

\* An appended event is no audit's case.
LEMMA MoreEvents ==
  ASSUME NEW d, NEW e, NEW n \in Nat, DOMAIN e = Paths,
         \A q \in Paths : q # CaseEvents => e[q] = d[q],
         "holds" \in DOMAIN e[CaseEvents], e[CaseEvents].holds = d[CaseEvents].holds \cup {n}
  PROVE  (DiskTyped(d) => DiskTyped(e)) /\ (WholeOn(d) => WholeOn(e))
<1> USE TelemetryAssumption
<1>1. e[Master] = d[Master]
  BY PathsDiffer
<1>2. \A a \in Audits : e[Receipt(a)] = d[Receipt(a)] /\ e[Pending(a)] = d[Pending(a)]
  BY PathsDiffer
<1>3. \A a \in Audits : a \in e[CaseEvents].holds <=> a \in d[CaseEvents].holds
  OBVIOUS
<1>4. DiskTyped(d) => DiskTyped(e)
  BY <1>1, <1>2 DEF DiskTyped
<1>5. WholeOn(d) => WholeOn(e)
  BY <1>1, <1>2, <1>3 DEF WholeOn, MergedOnce
<1> QED BY <1>4, <1>5

\* A plan's paths are paths, and its entries are of different ones.
LEMMA PlanPaths ==
  ASSUME NEW p, NEW d, NEW a \in Audits, PlanToApply(p, d, a) \/ PlanToClose(p, d, a)
  PROVE  /\ \A i \in DOMAIN p : p[i].path \in Paths
         /\ \A i, j \in DOMAIN p : p[i].path = p[j].path => i = j
         /\ Len(p) \in Nat /\ DOMAIN p = 1..Len(p)
<1>1. CASE PlanToApply(p, d, a)
  <2>1. DOMAIN p = 1..4 /\ Len(p) = 4 /\ p[1].path = Master /\ p[2].path = Pending(a)
        /\ p[3].path = Receipt(a) /\ p[4].path = CaseEvents
    BY <1>1 DEF PlanToApply
  <2>2. /\ {Master, Pending(a), Receipt(a), CaseEvents} \subseteq Paths
        /\ Master # Pending(a) /\ Master # Receipt(a) /\ Master # CaseEvents
        /\ Pending(a) # Receipt(a) /\ Pending(a) # CaseEvents /\ Receipt(a) # CaseEvents
    BY PathsDiffer
  <2> QED BY <2>1, <2>2
<1>2. CASE PlanToClose(p, d, a)
  BY <1>2, PathsDiffer DEF PlanToClose
<1> QED BY <1>1, <1>2

LEMMA TelWrites == ASSUME TelInv, NEW c \in Callers, WriteAudit(c) PROVE TelInv'
<1> DEFINE a == audit[c].digest
           op == audit[c].op
<1>1. /\ a \in Audits /\ audit[c].at = "write" /\ jnl = NoJnl /\ UNCHANGED <<disk, acked>>
      /\ WholeOn(disk) /\ audit[c].done = 0 /\ op \in {"apply", "close"}
      /\ {"op", "at", "digest", "done"} \subseteq DOMAIN audit[c]
      /\ \A d \in Callers : audit[d].at # "journal"
  BY WhenLocked DEF WriteAudit, BeginJournal, TelInv, CallersInv
<1>2. CASE Ends(c) /\ jnl' = jnl
  <2>1. /\ DOMAIN audit' = Callers /\ audit'[c].at = "rest"
        /\ \A d \in Callers : d # c => audit'[d] = audit[d]
    BY <1>2 DEF Ends, Resting, TelInv, CallersInv
  <2> QED BY <1>1, <1>2, <2>1, TelRests
<1>3. CASE MayWrite(c, a) /\ BeginJournal(c, op)
  <2> DEFINE p == Plan(op, a)
  <2>1. jnl' = [state |-> "prepared", plan |-> p]
    BY <1>3 DEF BeginJournal
  <2>2. /\ (PlanToApply(p, disk, a) \/ PlanToClose(p, disk, a))
        /\ DiskTyped(PlannedOf(disk, p)) /\ WholeOn(PlannedOf(disk, p))
    <3>1. CASE op = "apply"
      <4>1. StatusOf(a) = "missing"
        BY <1>3, <3>1 DEF MayWrite, Fresh1
      <4> QED BY <1>1, <3>1, <4>1, ApplyIsWhole DEF TelInv
    <3>2. CASE op = "close"
      <4>1. StatusOf(a) = "applied"
        BY <1>3, <3>2 DEF MayWrite, Closable
      <4> QED BY <1>1, <3>2, <4>1, CloseIsWhole DEF TelInv
    <3> QED BY <1>1, <3>1, <3>2
  <2> HIDE DEF p
  <2>3. jnl'.state = "prepared" /\ jnl'.plan = p /\ "state" \in DOMAIN jnl' /\ "plan" \in DOMAIN jnl' /\ jnl' # NoJnl
    BY <2>1 DEF NoJnl
  <2>4. JournalInv'
    BY <1>1, <2>2, <2>3 DEF JournalInv
  <2>5. /\ DOMAIN audit' = Callers /\ \A d \in Callers : d # c => audit'[d] = audit[d]
        /\ audit'[c].at = "journal" /\ DOMAIN audit'[c] = DOMAIN audit[c]
        /\ audit'[c].op = op /\ audit'[c].digest = a /\ audit'[c].done = 0
    BY <1>1, <1>3 DEF BeginJournal, GoesTo, TelInv, CallersInv
  <2>6. CallersInv'
    BY <1>1, <2>3, <2>5 DEF TelInv, CallersInv
  <2> QED BY <1>1, <2>3, <2>4, <2>6 DEF TelInv, StatusOf
<1> QED BY <1>2, <1>3 DEF WriteAudit

LEMMA TelMarks == ASSUME TelInv, NEW c \in Callers, MarkCommit(c) \/ MarkDone(c) PROVE TelInv'
<1>1. /\ audit[c].at = "journal" /\ jnl # NoJnl /\ UNCHANGED <<disk, acked>>
      /\ "state" \in DOMAIN jnl /\ "plan" \in DOMAIN jnl
  BY DEF MarkCommit, MarkDone, TelInv, CallersInv, JournalInv
<1>2. CASE Ends(c) /\ jnl' = jnl
  <2>1. /\ DOMAIN audit' = Callers /\ audit'[c].at = "rest"
        /\ \A d \in Callers : d # c => audit'[d] = audit[d]
    BY <1>2 DEF Ends, Resting, TelInv, CallersInv
  <2> QED BY <1>1, <1>2, <2>1, TelRests
<1>3. ASSUME NEW s \in {"committing", "committed"}, jnl' = [jnl EXCEPT !.state = s], audit' = audit,
             s = "committing" => audit[c].done = 0
      PROVE  TelInv'
  <2>1. jnl'.state = s /\ jnl'.plan = jnl.plan /\ "state" \in DOMAIN jnl' /\ "plan" \in DOMAIN jnl' /\ jnl' # NoJnl
    BY <1>1, <1>3 DEF NoJnl
  <2>2. JournalInv'
    BY <1>1, <2>1 DEF TelInv, JournalInv
  <2>3. PICK a \in Audits : PlanToApply(jnl.plan, disk, a) \/ PlanToClose(jnl.plan, disk, a)
    BY <1>1 DEF TelInv, JournalInv
  <2>4. \A i \in DOMAIN jnl.plan : ~(i <= 0)
    BY <2>3 DEF PlanToApply, PlanToClose
  <2>5. CallersInv'
    BY <1>1, <1>3, <2>1, <2>4 DEF TelInv, CallersInv
  <2> QED BY <1>1, <2>1, <2>2, <2>5 DEF TelInv, StatusOf
<1>4. CASE MarkCommit(c)
  BY <1>1, <1>2, <1>3, <1>4 DEF MarkCommit, TelInv, CallersInv
<1>5. CASE MarkDone(c)
  BY <1>1, <1>2, <1>3, <1>5 DEF MarkDone
<1> QED BY <1>4, <1>5

\* An installed file is as planned; what is planned stays.
LEMMA InstallMakes ==
  ASSUME TelInv, NEW c \in Callers, InstallNext(c), NEW k, k = audit[c].done + 1
  PROVE  LET p == jnl.plan IN
         /\ jnl.state = "committing" /\ jnl' = jnl /\ jnl # NoJnl /\ k \in DOMAIN p
         /\ DOMAIN disk = Paths /\ DOMAIN disk' = Paths
         /\ p[k].path \in Paths /\ disk'[p[k].path] = p[k].after
         /\ \A q \in Paths : q # p[k].path => disk'[q] = disk[q]
         /\ PlannedOf(disk', p) = PlannedOf(disk, p)
         /\ \A i \in DOMAIN p : i \in Nat /\ (i < k /\ p[i].path # CaseEvents => disk[p[i].path] = p[i].after)
<1> DEFINE p == jnl.plan
<1>1. /\ audit[c].at = "journal" /\ jnl.state = "committing" /\ jnl' = jnl /\ jnl # NoJnl
      /\ audit[c].done < Len(p) /\ audit[c].done \in Nat
      /\ disk' = [disk EXCEPT ![p[audit[c].done + 1].path] = p[audit[c].done + 1].after]
  BY DEF InstallNext, TelInv, CallersInv
<1>2. PICK a \in Audits : PlanToApply(p, disk, a) \/ PlanToClose(p, disk, a)
  BY <1>1 DEF TelInv, JournalInv
<1>3. /\ \A i \in DOMAIN p : p[i].path \in Paths
      /\ Len(p) \in Nat /\ DOMAIN p = 1..Len(p)
  BY <1>2, PlanPaths
<1>4. \A i \in DOMAIN p : i <= audit[c].done /\ p[i].path # CaseEvents => disk[p[i].path] = p[i].after
  BY <1>1 DEF TelInv, CallersInv
<1>5. k \in DOMAIN p /\ \A i \in DOMAIN p : i \in Nat /\ (i < k => i <= audit[c].done)
  BY <1>1, <1>3
<1>6. DOMAIN disk = Paths
  BY DEF TelInv, DiskTyped
<1> HIDE DEF p
<1>7. /\ DOMAIN disk' = Paths /\ disk'[p[k].path] = p[k].after
      /\ \A q \in Paths : q # p[k].path => disk'[q] = disk[q]
  BY <1>1, <1>3, <1>5, <1>6
<1>8. PlannedOf(disk', p) = PlannedOf(disk, p)
  <2>1. \A q \in Paths : (\A i \in DOMAIN p : p[i].path # q) => disk'[q] = disk[q]
    BY <1>5, <1>7
  <2> QED BY <2>1, PlannedKept
<1> QED BY <1>1, <1>3, <1>4, <1>5, <1>6, <1>7, <1>8 DEF p

LEMMA TelInstalls ==
  ASSUME TelInv, NEW c \in Callers, InstallNext(c)
  PROVE  TelInv' /\ \A a \in Audits : StatusOf(a) = "closed" => StatusOf(a)' = "closed"
<1> DEFINE p == jnl.plan
           k == audit[c].done + 1
<1>1. /\ jnl.state = "committing" /\ jnl' = jnl /\ jnl # NoJnl /\ k \in DOMAIN p
      /\ DOMAIN disk = Paths /\ DOMAIN disk' = Paths
      /\ p[k].path \in Paths /\ disk'[p[k].path] = p[k].after
      /\ \A q \in Paths : q # p[k].path => disk'[q] = disk[q]
      /\ PlannedOf(disk', p) = PlannedOf(disk, p)
      /\ \A i \in DOMAIN p : i \in Nat /\ (i < k /\ p[i].path # CaseEvents => disk[p[i].path] = p[i].after)
  BY InstallMakes
<1>2. PICK a \in Audits : PlanToApply(p, disk, a) \/ PlanToClose(p, disk, a)
  BY <1>1 DEF TelInv, JournalInv
<1>3. /\ DiskTyped(PlannedOf(disk, p)) /\ WholeOn(PlannedOf(disk, p)) /\ acked' = acked
      /\ "state" \in DOMAIN jnl /\ "plan" \in DOMAIN jnl
  BY <1>1 DEF TelInv, JournalInv, InstallNext
<1>4. /\ audit[c].at = "journal" /\ audit[c].done \in Nat /\ DOMAIN audit = Callers
      /\ {"op", "at", "digest", "done"} \subseteq DOMAIN audit[c]
      /\ audit' = [audit EXCEPT ![c].done = @ + 1]
  BY DEF InstallNext, TelInv, CallersInv
<1>5. /\ \A i \in DOMAIN p : p[i].path \in Paths
      /\ \A i, j \in DOMAIN p : p[i].path = p[j].path => i = j
  BY <1>2, PlanPaths
<1> HIDE DEF p
<1>6. PlannedOf(disk, p)[p[k].path] = p[k].after
  <2>1. \A i \in DOMAIN p : p[i].path = p[k].path <=> i = k
    BY <1>1, <1>5
  <2> QED BY <1>1, <2>1, PlannedAt
<1>7. DiskTyped(disk')
  <2>1. \A q \in Paths : disk'[q] = disk[q] \/ disk'[q] = PlannedOf(disk, p)[q]
    BY <1>1, <1>6
  <2> QED BY <1>1, <1>3, <2>1, TypedBetween DEF TelInv
<1>8. \A b \in Audits : b # a => disk'[Receipt(b)] = disk[Receipt(b)] /\ disk'[Pending(b)] = disk[Pending(b)]
  <2> SUFFICES ASSUME NEW b \in Audits, b # a
               PROVE  disk'[Receipt(b)] = disk[Receipt(b)] /\ disk'[Pending(b)] = disk[Pending(b)]
    OBVIOUS
  <2>1. /\ Pending(b) \notin {Master, Pending(a), Receipt(a), CaseEvents} /\ Pending(b) \in Paths
        /\ Receipt(b) \notin {Master, Pending(a), Receipt(a), CaseEvents} /\ Receipt(b) \in Paths
    BY PathsDiffer
  <2>2. \A i \in DOMAIN p : p[i].path \in {Master, Pending(a), Receipt(a), CaseEvents}
    BY <1>2 DEF PlanToApply, PlanToClose
  <2> QED BY <1>1, <2>1, <2>2
<1>9. /\ PlanToApply(p, disk', a) \/ PlanToClose(p, disk', a)
      /\ disk[Receipt(a)].status = "closed" => disk'[Receipt(a)].status = "closed"
      /\ disk'[Receipt(a)].status = "closed" => disk'[Pending(a)] # Present
  <2>1. /\ Pending(a) \in Paths /\ Receipt(a) \in Paths /\ Pending(a) # Receipt(a)
        /\ Pending(a) # CaseEvents /\ Missing # Present
    BY PathsDiffer DEF Missing, Present
  <2>2. CASE PlanToApply(p, disk, a)
    <3>1. /\ p[3].path = Receipt(a) /\ p[3].after.status = "applied" /\ 3 \in DOMAIN p
          /\ disk[Receipt(a)].status # "closed"
      BY <2>2 DEF PlanToApply
    <3>2. disk'[Receipt(a)].status # "closed"
      <4>1. CASE k = 3
        BY <1>1, <3>1, <4>1
      <4>2. CASE k # 3
        <5>1. p[k].path # Receipt(a)
          BY <1>1, <1>5, <3>1, <4>2
        <5> QED BY <1>1, <2>1, <3>1, <5>1
      <4> QED BY <4>1, <4>2
    <3> QED BY <2>2, <3>1, <3>2 DEF PlanToApply
  <2>3. CASE PlanToClose(p, disk, a)
    <3>1. /\ DOMAIN p = 1..2 /\ p[1].path = Pending(a) /\ p[2].path = Receipt(a)
          /\ p[1].after = Missing /\ p[2].after.status = "closed"
      BY <2>3 DEF PlanToClose
    <3>2. k \in {1, 2} /\ 1 \in DOMAIN p
      BY <1>1, <3>1
    <3>3. disk'[Pending(a)] = Missing
      <4>1. CASE k = 1
        BY <1>1, <3>1, <4>1
      <4>2. CASE k = 2
        BY <1>1, <2>1, <3>1, <3>2, <4>2
      <4> QED BY <3>2, <4>1, <4>2
    <3>4. disk[Receipt(a)].status = "closed" => disk'[Receipt(a)].status = "closed"
      <4>1. CASE k = 1
        BY <1>1, <2>1, <3>1, <4>1
      <4>2. CASE k = 2
        BY <1>1, <2>1, <3>1, <4>2
      <4> QED BY <3>2, <4>1, <4>2
    <3> QED BY <2>1, <2>3, <3>3, <3>4 DEF PlanToClose
  <2> QED BY <1>2, <2>2, <2>3
<1>10. /\ DOMAIN audit' = Callers /\ \A d \in Callers : d # c => audit'[d] = audit[d]
       /\ DOMAIN audit'[c] = DOMAIN audit[c] /\ audit'[c].at = "journal" /\ audit'[c].done = k
       /\ audit'[c].op = audit[c].op /\ audit'[c].digest = audit[c].digest
  BY <1>4
<1>11. \A i \in DOMAIN p : i <= k /\ p[i].path # CaseEvents => disk'[p[i].path] = p[i].after
  <2> SUFFICES ASSUME NEW i \in DOMAIN p, i <= k, p[i].path # CaseEvents
               PROVE  disk'[p[i].path] = p[i].after
    OBVIOUS
  <2>1. CASE i = k
    BY <1>1, <2>1
  <2>2. CASE i # k
    <3>1. i < k
      BY <1>1, <1>4, <2>2
    <3> QED BY <1>1, <1>5, <2>2, <3>1
  <2> QED BY <2>1, <2>2
<1>12. k \in Nat /\ p = jnl.plan
  BY <1>4 DEF p
<1> HIDE DEF k
<1>13. CallersInv'
  BY <1>1, <1>4, <1>10, <1>11, <1>12 DEF TelInv, CallersInv
<1>14. JournalInv'
  BY <1>1, <1>3, <1>9, <1>12 DEF JournalInv
<1>15. \A b \in Audits : /\ disk[Receipt(b)].status = "closed" => disk'[Receipt(b)].status = "closed"
                         /\ disk'[Receipt(b)].status = "closed" => disk'[Pending(b)] # Present
  BY <1>8, <1>9 DEF TelInv, StatusOf
<1>16. IsFiniteSet(acked)' /\ jnl'.state = "committing" /\ DiskTyped(disk)'
  BY <1>1, <1>3, <1>7 DEF TelInv
<1>17. \A b \in Audits : /\ StatusOf(b) = "closed" => StatusOf(b)' = "closed"
                         /\ StatusOf(b)' = "closed" => disk'[Pending(b)] # Present
  BY <1>15 DEF StatusOf, Receipt, Pending
<1>18. TelInv'
  BY <1>13, <1>14, <1>16, <1>17 DEF TelInv, Pending
<1> QED BY <1>17, <1>18

LEMMA TelFinishes == ASSUME TelInv, NEW c \in Callers, FinishWrite(c) PROVE TelInv'
<1> DEFINE p == jnl.plan
<1>1. /\ audit[c].at = "journal" /\ UNCHANGED <<disk, acked>> /\ Ends(c)
      /\ jnl.state = "committed" /\ jnl # NoJnl
  BY DEF FinishWrite, TelInv, CallersInv
<1>2. /\ DOMAIN audit' = Callers /\ audit'[c].at = "rest"
      /\ \A d \in Callers : d # c => audit'[d] = audit[d]
  BY <1>1 DEF Ends, Resting, TelInv, CallersInv
<1>3. CASE jnl' = jnl
  BY <1>1, <1>2, <1>3, TelRests
<1>4. CASE AllAfter(p) /\ jnl' = NoJnl
  <2>1. \A q \in Paths : disk[q] = PlannedOf(disk, p)[q]
    <3> SUFFICES ASSUME NEW q \in Paths PROVE disk[q] = PlannedOf(disk, p)[q]
      OBVIOUS
    <3>1. CASE \E i \in DOMAIN p : p[i].path = q
      <4> DEFINE k == CHOOSE i \in DOMAIN p : p[i].path = q
      <4>1. k \in DOMAIN p /\ p[k].path = q
        BY <3>1
      <4>2. disk[p[k].path] = p[k].after
        BY <1>4, <4>1 DEF AllAfter, IsAfter
      <4> QED BY <3>1, <4>1, <4>2 DEF PlannedOf
    <3>2. CASE ~\E i \in DOMAIN p : p[i].path = q
      BY <3>2, PlannedElsewhere
    <3> QED BY <3>1, <3>2
  <2>2. WholeOn(PlannedOf(disk, p))
    BY <1>1 DEF TelInv, JournalInv
  <2> HIDE DEF p
  <2>3. WholeOn(disk)
    BY <2>1, <2>2, WholeAlike
  <2>4. \A d \in Callers : audit'[d].at # "journal"
    BY <1>1, <1>2 DEF TelInv, CallersInv
  <2>5. CallersInv'
    BY <1>2, <2>4 DEF TelInv, CallersInv
  <2> QED BY <1>1, <1>4, <2>3, <2>5 DEF TelInv, JournalInv, StatusOf
<1> QED BY <1>3, <1>4 DEF FinishWrite

LEMMA TelRecovers ==
  ASSUME TelInv, NEW c \in Callers, Recover(c)
  PROVE  TelInv' /\ \A a \in Audits : StatusOf(a) = "closed" => StatusOf(a)' = "closed"
<1> DEFINE p == jnl.plan
           e == PlannedOf(disk, p)
<1>1. /\ jnl # NoJnl /\ jnl' = NoJnl /\ UNCHANGED <<audit, acked>> /\ disk' = Recovered
      /\ \A d \in Callers : audit[d].at # "journal"
  BY DEF Recover, Holder
<1>2. (disk' = disk /\ WholeOn(disk)) \/ disk' = e
  BY <1>1, JournalStates DEF Recovered, Redone, PlannedOf, TelInv
<1>3. DiskTyped(e) /\ WholeOn(e)
  BY <1>1 DEF TelInv, JournalInv
<1>4. PICK a \in Audits : PlanToApply(p, disk, a) \/ PlanToClose(p, disk, a)
  BY <1>1 DEF TelInv, JournalInv
<1> HIDE DEF p
<1>5. \A b \in Audits : /\ disk[Receipt(b)].status = "closed" => e[Receipt(b)].status = "closed"
                        /\ e[Receipt(b)].status = "closed" => e[Pending(b)] # Present
  <2>1. CASE PlanToApply(p, disk, a)
    <3>1. e[Receipt(a)].status = "applied" /\ disk[Receipt(a)].status # "closed"
      BY <2>1, ApplyMakes DEF PlanToApply
    <3>2. \A b \in Audits : b # a => e[Pending(b)] = disk[Pending(b)] /\ e[Receipt(b)] = disk[Receipt(b)]
      BY <2>1, ApplyMakes DEF PlanToApply
    <3> QED BY <3>1, <3>2 DEF TelInv, StatusOf
  <2>2. CASE PlanToClose(p, disk, a)
    <3>1. e[Receipt(a)].status = "closed" /\ e[Pending(a)] = Missing /\ Missing # Present
      BY <2>2, CloseMakes DEF PlanToClose, Missing, Present
    <3>2. \A b \in Audits : b # a => e[Pending(b)] = disk[Pending(b)] /\ e[Receipt(b)] = disk[Receipt(b)]
      BY <2>2, CloseMakes DEF PlanToClose
    <3> QED BY <3>1, <3>2 DEF TelInv, StatusOf
  <2> QED BY <1>4, <2>1, <2>2
<1> HIDE DEF e
<1>6. CallersInv'
  BY <1>1 DEF TelInv, CallersInv
<1>7. DiskTyped(disk') /\ WholeOn(disk')
  BY <1>2, <1>3 DEF TelInv
<1>8. \A b \in Audits : /\ disk[Receipt(b)].status = "closed" => disk'[Receipt(b)].status = "closed"
                        /\ disk'[Receipt(b)].status = "closed" => disk'[Pending(b)] # Present
  BY <1>2, <1>5 DEF TelInv, StatusOf
<1>9. \A b \in Audits : /\ StatusOf(b) = "closed" => StatusOf(b)' = "closed"
                        /\ StatusOf(b)' = "closed" => disk'[Pending(b)] # Present
  BY <1>8 DEF StatusOf, Receipt, Pending
<1>10. TelInv'
  BY <1>1, <1>6, <1>7, <1>9 DEF TelInv, JournalInv, Pending
<1> QED BY <1>9, <1>10

LEMMA TelAppends ==
  ASSUME TelInv, AppendEvent
  PROVE  TelInv' /\ \A a \in Audits : StatusOf(a) = "closed" => StatusOf(a)' = "closed"
<1> DEFINE n == Cardinality(acked) + 1
           p == jnl.plan
<1>1. n \in Nat
  BY FS_CardinalityType DEF TelInv
<1>2. acked' = acked \cup {n} /\ UNCHANGED <<jnl, audit>> /\ disk' = [disk EXCEPT ![CaseEvents].holds = @ \cup {n}]
  BY DEF AppendEvent
<1> HIDE DEF n, p
<1>3. /\ DOMAIN disk = Paths /\ DOMAIN disk' = Paths /\ \A q \in Paths : q # CaseEvents => disk'[q] = disk[q]
      /\ "holds" \in DOMAIN disk'[CaseEvents]
      /\ disk'[CaseEvents].holds = disk[CaseEvents].holds \cup {n}
  BY <1>2, PathsDiffer DEF TelInv, DiskTyped
<1>4. DiskTyped(disk') /\ (WholeOn(disk) => WholeOn(disk'))
  BY <1>1, <1>3, MoreEvents DEF TelInv
<1>5. \A a \in Audits : disk'[Receipt(a)] = disk[Receipt(a)] /\ disk'[Pending(a)] = disk[Pending(a)]
  BY <1>3, PathsDiffer
<1>6. IsFiniteSet(acked')
  BY <1>2, FS_AddElement DEF TelInv
<1>7. ASSUME jnl # NoJnl
      PROVE  /\ \A i \in DOMAIN p : p[i].path \in Paths
             /\ DiskTyped(PlannedOf(disk', p)) /\ WholeOn(PlannedOf(disk', p))
             /\ \E a \in Audits : PlanToApply(p, disk', a) \/ PlanToClose(p, disk', a)
  <2>1. PICK a \in Audits : PlanToApply(p, disk, a) \/ PlanToClose(p, disk, a)
    BY <1>7 DEF TelInv, JournalInv, p
  <2>2. DiskTyped(PlannedOf(disk, p)) /\ WholeOn(PlannedOf(disk, p))
    BY <1>7 DEF TelInv, JournalInv, p
  <2>3. PlanToApply(p, disk', a) \/ PlanToClose(p, disk', a)
    BY <1>5, <2>1 DEF PlanToApply, PlanToClose
  <2>4. \A i \in DOMAIN p : p[i].path \in Paths
    BY <2>1, PlanPaths
  <2>5. CASE PlanToApply(p, disk, a)
    <3>1. \A q \in Paths : (\A i \in DOMAIN p : p[i].path # q) => q # CaseEvents
      BY <2>5 DEF PlanToApply
    <3>2. PlannedOf(disk', p) = PlannedOf(disk, p)
      BY <1>3, <3>1, PlannedKept
    <3> QED BY <2>2, <2>3, <2>4, <3>2
  <2>6. CASE PlanToClose(p, disk, a)
    <3> DEFINE d == PlannedOf(disk, p)
               e == PlannedOf(disk', p)
    <3>1. DOMAIN p = 1..2 /\ p[1].path = Pending(a) /\ p[2].path = Receipt(a)
      BY <2>6 DEF PlanToClose
    <3>2. /\ d[CaseEvents] = disk[CaseEvents] /\ e[CaseEvents] = disk'[CaseEvents]
          /\ DOMAIN d = Paths /\ DOMAIN e = Paths
      BY <3>1, CloseMakes
    <3>3. \A q \in Paths : q # CaseEvents => e[q] = d[q]
      BY <1>3 DEF PlannedOf
    <3> HIDE DEF d, e
    <3>4. DiskTyped(e) /\ WholeOn(e)
      BY <1>1, <1>3, <2>2, <3>2, <3>3, MoreEvents DEF d
    <3> QED BY <2>3, <2>4, <3>4 DEF e
  <2> QED BY <2>1, <2>5, <2>6
<1>8. JournalInv'
  BY <1>2, <1>7 DEF TelInv, JournalInv, p
<1>9. CallersInv'
  <2>1. \A c \in Callers : audit[c].at = "journal" => \A i \in DOMAIN p :
          p[i].path # CaseEvents => disk'[p[i].path] = disk[p[i].path]
    BY <1>3, <1>7 DEF TelInv, CallersInv
  <2> QED BY <1>2, <2>1 DEF TelInv, CallersInv, p
<1> QED BY <1>2, <1>4, <1>5, <1>6, <1>8, <1>9 DEF TelInv, StatusOf

LEMMA TelDies == ASSUME TelInv, StudioDies PROVE TelInv'
<1>1. UNCHANGED <<disk, jnl, acked>> /\ DOMAIN audit' = Callers /\ \A c \in Callers : audit'[c].at = "rest"
  BY DEF StudioDies, Resting
<1> QED BY <1>1, TelRests

LEMMA TelInductive == TelInv /\ [TelNext]_telVars => TelInv'
<1> SUFFICES ASSUME TelInv, [TelNext]_telVars PROVE TelInv'
  OBVIOUS
<1>1. CASE UNCHANGED telVars
  BY <1>1, TelRests DEF telVars, TelInv, CallersInv
<1>2. ASSUME NEW c \in Callers, AuditStep(c) \/ \E op \in {"preview", "apply", "close"} : AskAudit(c, op)
      PROVE  TelInv'
  BY <1>2, TelQuiet, TelRecovers, TelStages, TelWrites, TelFinishes, TelMarks, TelInstalls DEF AuditStep
<1>3. CASE AppendEvent
  BY <1>3, TelAppends
<1>4. CASE StudioDies
  BY <1>4, TelDies
<1> QED BY <1>1, <1>2, <1>3, <1>4 DEF TelNext

LEMMA ClosedRemains ==
  ASSUME TelInv, [TelNext]_telVars, NEW a \in Audits, StatusOf(a) = "closed"
  PROVE  StatusOf(a)' = "closed" /\ disk'[Pending(a)] # Present
<1>1. StatusOf(a)' = "closed"
  <2>1. CASE disk' = disk
    BY <2>1 DEF StatusOf
  <2>2. ASSUME NEW c \in Callers, PreviewStage(c) PROVE StatusOf(a)' = "closed"
    <3>1. CASE disk' = [disk EXCEPT ![Pending(audit[c].digest)] = Present]
      <4>1. audit[c].digest \in Audits /\ DOMAIN disk = Paths
        BY <2>2 DEF TelInv, CallersInv, DiskTyped, PreviewStage
      <4> QED BY <3>1, <4>1, PathsDiffer DEF StatusOf
    <3> QED BY <2>1, <2>2, <3>1 DEF PreviewStage
  <2>3. ASSUME NEW c \in Callers, InstallNext(c) PROVE StatusOf(a)' = "closed"
    BY <2>3, TelInstalls
  <2>4. ASSUME NEW c \in Callers, Recover(c) PROVE StatusOf(a)' = "closed"
    BY <2>4, TelRecovers
  <2>5. CASE AppendEvent
    BY <2>5, TelAppends
  <2>6. ASSUME NEW c \in Callers, AuditStep(c) PROVE StatusOf(a)' = "closed"
    BY <2>1, <2>2, <2>3, <2>4, <2>6
       DEF AuditStep, Conflict, PreviewLook, PreviewConfirm, LoadAudit, WriteAudit, BeginJournal,
           FinishWrite, MarkCommit, MarkDone
  <2> QED BY <2>1, <2>5, <2>6 DEF TelNext, AskAudit, StudioDies, telVars
<1>2. disk'[Pending(a)] # Present
  BY <1>1, TelInductive DEF TelInv, StatusOf
<1> QED BY <1>1, <1>2

LEMMA MergedIsOne ==
  ASSUME NEW d, NEW a, MergedOnce(d, a)
  PROVE  Cardinality({i \in DOMAIN d[Master].holds : d[Master].holds[i] = a}) = 1
<1>1. PICK i \in DOMAIN d[Master].holds : \A j \in DOMAIN d[Master].holds : d[Master].holds[j] = a <=> j = i
  BY DEF MergedOnce
<1>2. {j \in DOMAIN d[Master].holds : d[Master].holds[j] = a} = {i}
  BY <1>1
<1> QED BY <1>2, FS_Singleton

LEMMA TelImpliesWhole == TelInv => AuditsWhole
<1> SUFFICES ASSUME TelInv, jnl = NoJnl, NEW a \in Audits
             PROVE  LET merged == {i \in DOMAIN disk[Master].holds : disk[Master].holds[i] = a}
                    IN /\ StatusOf(a) = "missing" => merged = {} /\ a \notin disk[CaseEvents].holds
                       /\ StatusOf(a) # "missing" => Cardinality(merged) = 1 /\ a \in disk[CaseEvents].holds
                       /\ StatusOf(a) = "applied" => disk[Pending(a)] = Present
  BY DEF AuditsWhole
<1>1. WholeOn(disk)
  BY DEF TelInv, NoJnl
<1> QED BY <1>1, MergedIsOne DEF WholeOn, StatusOf

\* However previews, applications and deletions of audits repeat, race and are
\* interrupted, and whenever cases are appended meanwhile: with no journal open
\* an audit has a receipt exactly if it was merged once (telemetryAudit.ts).
THEOREM AuditsAreWhole == TelSpec => []AuditsWhole
<1>1. TelSpec => []TelInv
  BY TelInvInit, TelInductive, PTL DEF TelSpec
<1> QED BY <1>1, TelImpliesWhole, PTL

\* A closed audit stays closed and its distillates deleted (telemetryAudit.ts:
\* the staging of a preview looks for the receipt again).
THEOREM ClosedIsFinal == TelSpec => ClosedStaysDeleted
<1>1. TelSpec => []TelInv
  BY TelInvInit, TelInductive, PTL DEF TelSpec
<1>2. TelInv /\ [TelNext]_telVars =>
        [\A a \in Audits : StatusOf(a) = "closed" =>
           StatusOf(a)' = "closed" /\ disk'[Pending(a)] # Present]_telVars
  BY ClosedRemains
<1> QED BY <1>1, <1>2, PTL DEF TelSpec, ClosedStaysDeleted

\* Where a caller is, and what a preview says.
TelSteps == {"rest", "look", "stage", "confirm", "write", "journal"}
TelTyped ==
  /\ \A c \in Callers : audit[c].at \in TelSteps
  /\ DOMAIN previews = Audits /\ \A a \in Audits : previews[a].status \in {"none", "ready", "applied", "closed"}

LEMMA TelPreviewsKept ==
  ASSUME TelInv, TelTyped, NEW a \in Audits, NEW status \in {"ready", "applied", "closed"}, Remember(a, status)
  PROVE  DOMAIN previews' = Audits /\ \A b \in Audits : previews'[b].status \in {"none", "ready", "applied", "closed"}
<1>1. Seen.status = "ready"
  BY DEF Seen
<1> QED BY <1>1 DEF Remember, TelTyped

LEMMA TelTypesKept == TelInv /\ TelTyped /\ [TelNext]_telVars => TelTyped'
<1> SUFFICES ASSUME TelInv, TelTyped, [TelNext]_telVars PROVE TelTyped'
  OBVIOUS
<1> DEFINE Kept == DOMAIN previews' = Audits
                   /\ \A b \in Audits : previews'[b].status \in {"none", "ready", "applied", "closed"}
<1>1. DOMAIN audit = Callers /\ \A a \in Audits : StatusOf(a) \in {"missing", "applied", "closed"}
  BY DEF TelInv, CallersInv, DiskTyped, StatusOf
<1>2. \A c \in Callers : Ends(c) => \A d \in Callers : audit'[d].at \in TelSteps
  BY <1>1 DEF Ends, Resting, TelTyped, TelSteps
<1>3. \A c \in Callers : audit[c].at # "rest" => "at" \in DOMAIN audit[c] /\ audit[c].digest \in Audits
  BY DEF TelInv, CallersInv
<1>4. \A c \in Callers, at \in TelSteps :
        audit[c].at # "rest" /\ GoesTo(c, at) => \A d \in Callers : audit'[d].at \in TelSteps
  BY <1>1, <1>3 DEF GoesTo, TelTyped
<1>5. \A a \in Audits : \A status \in {"ready", "applied", "closed"} : Remember(a, status) => Kept
  BY TelPreviewsKept
<1>6. UNCHANGED previews => Kept
  BY DEF TelTyped
<1>7. UNCHANGED audit => \A d \in Callers : audit'[d].at \in TelSteps
  BY DEF TelTyped
<1>8. \A c \in Callers : \A a \in Audits : StatusOf(a) # "missing" /\ ShowReceipt(c, a) => TelTyped'
  BY <1>1, <1>2, <1>5, <1>6 DEF ShowReceipt, TelTyped
<1>9. \A c \in Callers : \A a \in Audits : Reports(c, a) => Kept
  BY <1>5 DEF Reports
<1> HIDE DEF Kept
<1>10. CASE UNCHANGED telVars
  BY <1>10 DEF telVars, TelTyped
<1>11. ASSUME NEW c \in Callers, NEW op \in {"preview", "apply", "close"}, AskAudit(c, op) PROVE TelTyped'
  <2>1. \A d \in Callers : audit'[d].at \in TelSteps
    BY <1>1, <1>11 DEF AskAudit, TelTyped, TelSteps
  <2> QED BY <1>6, <1>11, <2>1 DEF AskAudit, TelTyped, Kept
<1>12. ASSUME NEW c \in Callers, Recover(c) \/ Conflict(c) PROVE TelTyped'
  BY <1>2, <1>6, <1>7, <1>12 DEF Recover, Conflict, TelTyped, Kept
<1>13. ASSUME NEW c \in Callers, PreviewLook(c) PROVE TelTyped'
  <2>1. audit[c].at # "rest" /\ audit[c].digest \in Audits
    BY <1>3, <1>13 DEF PreviewLook
  <2>2. CASE StatusOf(audit[c].digest) # "missing"
    BY <1>8, <1>13, <2>1, <2>2 DEF PreviewLook
  <2>3. CASE audit' = [audit EXCEPT ![c].at = "stage", ![c].seen = Seen] /\ UNCHANGED previews
    <3>1. audit'[c].at = "stage" /\ \A d \in Callers \ {c} : audit'[d] = audit[d]
      BY <1>1, <1>3, <2>1, <2>3
    <3>2. \A d \in Callers : audit'[d].at \in TelSteps
      BY <3>1 DEF TelTyped, TelSteps
    <3> QED BY <1>6, <2>3, <3>2 DEF TelTyped, Kept
  <2> QED BY <1>13, <2>2, <2>3 DEF PreviewLook
<1>14. ASSUME NEW c \in Callers, PreviewStage(c) PROVE TelTyped'
  BY <1>2, <1>4, <1>6, <1>14 DEF PreviewStage, TelTyped, Kept, TelSteps
<1>15. ASSUME NEW c \in Callers, PreviewConfirm(c) PROVE TelTyped'
  <2>1. audit[c].digest \in Audits
    BY <1>3, <1>15 DEF PreviewConfirm
  <2>2. CASE StatusOf(audit[c].digest) # "missing"
    BY <1>8, <1>15, <2>1, <2>2 DEF PreviewConfirm
  <2>3. CASE Ends(c) /\ (Remember(audit[c].digest, "ready") \/ UNCHANGED previews)
    BY <1>2, <1>5, <1>6, <2>1, <2>3 DEF TelTyped, Kept
  <2> QED BY <1>15, <2>2, <2>3 DEF PreviewConfirm
<1>16. ASSUME NEW c \in Callers, LoadAudit(c) PROVE TelTyped'
  <2>1. audit[c].at # "rest" /\ audit[c].digest \in Audits
    BY <1>3, <1>16 DEF LoadAudit
  <2>2. Kept
    BY <1>6, <1>9, <1>16, <2>1 DEF LoadAudit
  <2>3. \A d \in Callers : audit'[d].at \in TelSteps
    BY <1>2, <1>4, <1>16, <2>1 DEF LoadAudit, TelSteps
  <2> QED BY <2>2, <2>3 DEF TelTyped, Kept
<1>17. ASSUME NEW c \in Callers, WriteAudit(c) PROVE TelTyped'
  <2>1. audit[c].at # "rest" /\ audit[c].digest \in Audits
    BY <1>3, <1>17 DEF WriteAudit
  <2>2. Kept
    BY <1>6, <1>9, <1>17, <2>1 DEF WriteAudit, BeginJournal
  <2>3. \A d \in Callers : audit'[d].at \in TelSteps
    BY <1>2, <1>4, <1>17, <2>1 DEF WriteAudit, BeginJournal, TelSteps
  <2> QED BY <2>2, <2>3 DEF TelTyped, Kept
<1>18. ASSUME NEW c \in Callers, FinishWrite(c) PROVE TelTyped'
  <2>1. audit[c].digest \in Audits /\ Ends(c)
    BY <1>3, <1>18 DEF FinishWrite
  <2>2. Kept
    BY <1>6, <1>9, <1>18, <2>1 DEF FinishWrite
  <2> QED BY <1>2, <2>1, <2>2 DEF TelTyped, Kept
<1>19. ASSUME NEW c \in Callers, MarkCommit(c) \/ MarkDone(c) PROVE TelTyped'
  BY <1>2, <1>6, <1>7, <1>19 DEF MarkCommit, MarkDone, TelTyped, Kept
<1>20. ASSUME NEW c \in Callers, InstallNext(c) PROVE TelTyped'
  <2>1. audit' = [audit EXCEPT ![c].done = @ + 1] /\ UNCHANGED previews
    BY <1>20 DEF InstallNext
  <2>2. \A d \in Callers : audit'[d].at = audit[d].at
    BY <1>1, <2>1
  <2> QED BY <1>6, <2>1, <2>2 DEF TelTyped, Kept
<1>21. CASE AppendEvent
  BY <1>21 DEF AppendEvent, TelTyped
<1>22. CASE StudioDies
  BY <1>22 DEF StudioDies, TelTyped, TelSteps, Resting, NoPreview
<1> QED BY <1>10, <1>11, <1>12, <1>13, <1>14, <1>15, <1>16, <1>17, <1>18, <1>19, <1>20, <1>21, <1>22
           DEF TelNext, AuditStep

\* One caller at most is between the first and the last write of a plan, and the journal,
\* the callers and the previews keep their types (withRepositoryLockWaiting).
THEOREM AuditsTypeCorrect == TelSpec => []TelTypeOK
<1>1. TelInit => TelTyped
  BY DEF TelInit, TelTyped, TelSteps, Resting, NoPreview
<1>2. TelInv /\ TelTyped => TelTypeOK
  <2> SUFFICES ASSUME TelInv, TelTyped PROVE TelTypeOK
    OBVIOUS
  <2>1. Cardinality(Holder) <= 1
    <3>1. Holder = {} \/ \E c : Holder = {c}
      BY DEF Holder, TelInv, CallersInv
    <3>2. CASE Holder = {}
      BY <3>2, FS_EmptySet
    <3>3. ASSUME NEW c, Holder = {c} PROVE Cardinality(Holder) <= 1
      BY <3>3, FS_Singleton
    <3> QED BY <3>1, <3>2, <3>3
  <2>2. jnl.state \in {"none", "prepared", "committing", "committed"}
    BY DEF TelInv, JournalInv, NoJnl
  <2> QED BY <2>1, <2>2 DEF TelInv, DiskTyped, TelTyped, TelSteps, TelTypeOK
<1> QED BY <1>1, <1>2, TelInvInit, TelInductive, TelTypesKept, PTL DEF TelSpec

-----------------------------------------------------------------------------
(* Blind comparisons *)

BlindStages == {"unsent", "waiting", "planned", "committed", "ok", "refused", "lost"}
AskRecords == [at : BlindStages, server : Servers \cup {"none"}, base : Nat, kind : Kinds \cup {"none"},
               revision : Nat, query : Queries \cup {"none"}, choice : Opinions \cup {"none"}]
BlindEvents == [request : Requests, kind : Kinds, revision : Nat, query : Queries \cup {"none"},
                choice : Opinions \cup {"none"}]

BlindTyped ==
  /\ ask \in [Requests -> AskRecords] /\ blindLog \in Seq(BlindEvents)
  /\ serving \in [Servers -> Requests \cup {NoRequest}]
  /\ \A r \in Requests : ask[r].at # "unsent" => ask[r].server \in Servers /\ ask[r].kind \in Kinds
  /\ \A r \in Requests : ask[r].at \in {"planned", "committed"} => serving[ask[r].server] = r

\* What is logged is what its request still asks for, but for the opinion.
AskedAsLogged ==
  \A n \in DOMAIN blindLog :
    LET r == blindLog[n].request IN
    ask[r].at # "unsent" /\ ask[r].kind = blindLog[n].kind /\ ask[r].revision = blindLog[n].revision

\* A request that may be appended to the log as it is.
FitsNext(r) ==
  IF ask[r].kind = "session-created" THEN blindLog = <<>>
  ELSE /\ blindLog # <<>> /\ \A n \in DOMAIN blindLog : blindLog[n].request # r
       /\ ask[r].revision = RevisionNow
       /\ ask[r].kind = "judgment-recorded" => ~Judged(ask[r].query)

\* A plan fits the log it was made for.
PlansFit == \A r \in Requests : ask[r].at = "planned" => ask[r].base <= Len(blindLog) /\ (SameLog(r) => FitsNext(r))
CommitsLogged == \A r \in Requests : ask[r].at = "committed" => Logged(EventOf(r))

BlindInv == BlindTyped /\ AskedAsLogged /\ PlansFit /\ CommitsLogged /\ LogFolds /\ RepliesStand

LEMMA BlindInvInit == BlindInit => BlindInv
<1> SUFFICES ASSUME BlindInit PROVE BlindInv
  OBVIOUS
<1>1. NoAsk \in AskRecords /\ NoAsk.at = "unsent"
  BY DEF NoAsk, AskRecords, BlindStages
<1>2. BlindTyped
  BY <1>1 DEF BlindInit, BlindTyped
<1>3. \A r \in Requests : ask[r].at = "unsent"
  BY <1>1 DEF BlindInit
<1>4. AskedAsLogged /\ LogFolds
  BY DEF BlindInit, AskedAsLogged, LogFolds
<1>5. PlansFit /\ CommitsLogged /\ RepliesStand
  BY <1>3 DEF PlansFit, CommitsLogged, RepliesStand
<1> QED BY <1>2, <1>4, <1>5 DEF BlindInv

\* A step that leaves the log alone, and every request what it asks for, once it was
\* sent, but for where it is.
OnlyMoves ==
  /\ blindLog' = blindLog
  /\ \A r \in Requests : /\ ask'[r].kind = ask[r].kind /\ ask'[r].revision = ask[r].revision
                         /\ ask'[r].query = ask[r].query /\ ask'[r].choice = ask[r].choice
                         /\ ask[r].at # "unsent" => ask'[r].at # "unsent"

LEMMA LoggedTyped == ASSUME BlindInv PROVE \A n \in DOMAIN blindLog : blindLog[n].request \in Requests
<1> SUFFICES ASSUME NEW n \in DOMAIN blindLog PROVE blindLog[n].request \in Requests
  OBVIOUS
<1>1. blindLog \in Seq(BlindEvents) /\ n \in 1..Len(blindLog)
  BY LenProperties DEF BlindInv, BlindTyped
<1>2. blindLog[n] \in BlindEvents
  BY <1>1, ElementOfSeq
<1> QED BY <1>2 DEF BlindEvents

LEMMA MovesKeepLog ==
  ASSUME BlindInv, OnlyMoves
  PROVE  /\ AskedAsLogged' /\ LogFolds'
         /\ \A r \in Requests : EventOf(r)' = EventOf(r) /\ FitsNext(r)' = FitsNext(r)
         /\ \A e : Logged(e)' = Logged(e)
<1>1. \A n \in DOMAIN blindLog : blindLog[n].request \in Requests
  BY LoggedTyped
<1>2. AskedAsLogged'
  BY <1>1 DEF BlindInv, AskedAsLogged, OnlyMoves
<1>3. LogFolds'
  BY DEF BlindInv, LogFolds, OnlyMoves
<1>4. \A r \in Requests : EventOf(r)' = EventOf(r)
  BY DEF EventOf, OnlyMoves
<1>5. \A q : Judged(q)' = Judged(q)
  BY DEF Judged, OnlyMoves
<1>6. \A r \in Requests : FitsNext(r)' = FitsNext(r)
  BY <1>5 DEF FitsNext, OnlyMoves, RevisionNow
<1>7. \A e : Logged(e)' = Logged(e)
  BY DEF Logged, OnlyMoves
<1> QED BY <1>2, <1>3, <1>4, <1>6, <1>7

\* A step of one request that only moves it.
LEMMA MovePreserves ==
  ASSUME BlindInv, NEW r \in Requests, OnlyMoves, BlindTyped',
         \A x \in Requests \ {r} : ask'[x] = ask[x],
         ask'[r].at \in {"waiting", "planned", "ok", "refused"},
         ask'[r].at = "planned" => ask'[r].base = Len(blindLog) /\ FitsNext(r),
         ask'[r].at = "ok" => IF ask[r].kind = "session-created" THEN blindLog # <<>> ELSE Logged(EventOf(r)),
         ask'[r].at = "refused" => ~Logged(EventOf(r))
  PROVE  BlindInv'
<1>1. /\ AskedAsLogged' /\ LogFolds' /\ blindLog' = blindLog
      /\ \A x \in Requests : EventOf(x)' = EventOf(x) /\ FitsNext(x)' = FitsNext(x) /\ ask'[x].kind = ask[x].kind
      /\ \A e : Logged(e)' = Logged(e)
  BY MovesKeepLog DEF OnlyMoves
<1>2. Len(blindLog) \in Nat
  BY LenProperties DEF BlindInv, BlindTyped
<1>3. PlansFit'
  <2> SUFFICES ASSUME NEW x \in Requests, ask'[x].at = "planned"
               PROVE  ask'[x].base <= Len(blindLog) /\ (ask'[x].base = Len(blindLog) => FitsNext(x))
    BY <1>1 DEF PlansFit, SameLog
  <2>1. CASE x = r
    BY <2>1, <1>2
  <2>2. CASE x # r
    BY <2>2 DEF BlindInv, PlansFit, SameLog
  <2> QED BY <2>1, <2>2
<1>4. CommitsLogged'
  <2> SUFFICES ASSUME NEW x \in Requests, ask'[x].at = "committed" PROVE Logged(EventOf(x))
    BY <1>1 DEF CommitsLogged
  <2> QED BY DEF BlindInv, CommitsLogged
<1>5. RepliesStand'
  <2> SUFFICES ASSUME NEW x \in Requests
               PROVE  /\ ask'[x].at = "ok" => IF ask[x].kind = "session-created" THEN blindLog # <<>> ELSE Logged(EventOf(x))
                      /\ ask'[x].at = "refused" => ~Logged(EventOf(x))
    BY <1>1 DEF RepliesStand
  <2>1. CASE x = r
    BY <2>1
  <2>2. CASE x # r
    BY <2>2 DEF BlindInv, RepliesStand
  <2> QED BY <2>1, <2>2
<1> QED BY <1>1, <1>3, <1>4, <1>5 DEF BlindInv

-----------------------------------------------------------------------------
\* What a request may be told of the log as it is.
LEMMA ResolutionStands ==
  ASSUME BlindInv, NEW r \in Requests, ask[r].at # "unsent"
  PROVE  /\ Resolve(r) \in {"return", "refuse", "append"}
         /\ Resolve(r) = "return" => IF ask[r].kind = "session-created" THEN blindLog # <<>> ELSE Logged(EventOf(r))
         /\ Resolve(r) = "refuse" => ~Logged(EventOf(r))
         /\ Resolve(r) = "append" => FitsNext(r)
<1>0. blindLog \in Seq(BlindEvents) /\ Len(blindLog) \in Nat /\ DOMAIN blindLog = 1..Len(blindLog)
      /\ (blindLog = <<>> <=> Len(blindLog) = 0)
  BY LenProperties, EmptySeq DEF BlindInv, BlindTyped
<1>1. CASE ask[r].kind = "session-created"
  BY <1>1 DEF Resolve, ResolveStart, FitsNext
<1>2. CASE ask[r].kind # "session-created"
  <2> DEFINE created == blindLog = <<>> \/ blindLog[1].request = r
             judged == ask[r].kind = "judgment-recorded" /\ Judged(ask[r].query)
  <2>1. Resolve(r) = IF created THEN "refuse"
                    ELSE IF Prior(r) # {} THEN IF Logged(EventOf(r)) THEN "return" ELSE "refuse"
                    ELSE IF ask[r].revision # RevisionNow THEN "refuse"
                    ELSE IF judged THEN "refuse" ELSE "append"
    BY <1>2 DEF Resolve, ResolveMutation
  <2>2. created => ~Logged(EventOf(r))
    <3> SUFFICES ASSUME created, NEW n \in DOMAIN blindLog, blindLog[n] = EventOf(r) PROVE FALSE
      BY DEF Logged
    <3>1. 1 \in DOMAIN blindLog /\ blindLog[1].request = r
      BY <1>0
    <3>2. ask[r].kind = blindLog[1].kind
      BY <3>1 DEF BlindInv, AskedAsLogged
    <3> QED BY <3>1, <3>2, <1>2 DEF BlindInv, LogFolds
  <2>3. ASSUME ~created, Prior(r) = {}, NEW n \in DOMAIN blindLog PROVE blindLog[n].request # r
    BY <2>3, <1>0 DEF Prior
  <2>4. ~created /\ Prior(r) = {} => ~Logged(EventOf(r))
    BY <2>3 DEF Logged, EventOf
  <2>5. /\ Resolve(r) \in {"return", "refuse", "append"}
        /\ Resolve(r) = "return" => Logged(EventOf(r))
        /\ Resolve(r) = "refuse" => created \/ (~created /\ Prior(r) = {}) \/ ~Logged(EventOf(r))
        /\ Resolve(r) = "append" => ~created /\ Prior(r) = {} /\ ask[r].revision = RevisionNow /\ ~judged
    <3> HIDE DEF created, judged
    <3>1. CASE created BY <2>1, <3>1
    <3>2. CASE ~created /\ Prior(r) # {}
      <4>1. Resolve(r) = IF Logged(EventOf(r)) THEN "return" ELSE "refuse"
        BY <2>1, <3>2
      <4>2. CASE Logged(EventOf(r)) BY <4>1, <4>2
      <4>3. CASE ~Logged(EventOf(r)) BY <4>1, <4>3
      <4> QED BY <4>2, <4>3
    <3>3. CASE ~created /\ Prior(r) = {} /\ ask[r].revision # RevisionNow BY <2>1, <3>3
    <3>4. CASE ~created /\ Prior(r) = {} /\ ask[r].revision = RevisionNow /\ judged BY <2>1, <3>4
    <3>5. CASE ~created /\ Prior(r) = {} /\ ask[r].revision = RevisionNow /\ ~judged BY <2>1, <3>5
    <3> QED BY <3>1, <3>2, <3>3, <3>4, <3>5
  <2>6. Resolve(r) = "append" => FitsNext(r)
    <3> SUFFICES ASSUME Resolve(r) = "append" PROVE FitsNext(r)
      OBVIOUS
    <3>1. \A n \in DOMAIN blindLog : blindLog[n].request # r
      BY <2>3, <2>5
    <3> QED BY <3>1, <2>5, <1>2 DEF FitsNext
  <2>7. Resolve(r) = "refuse" => ~Logged(EventOf(r))
    BY <2>2, <2>4, <2>5
  <2> QED BY <2>5, <2>6, <2>7, <1>2
<1> QED BY <1>1, <1>2

LEMMA SubmitInductive == ASSUME BlindInv, NEW r \in Requests, Submit(r) PROVE BlindInv'
<1>1. PICK s \in Servers, kind \in Kinds, revision \in 0..Len(blindLog), q \in Queries, choice \in Opinions :
        /\ ask[r].at \in {"unsent", "lost"}
        /\ ask[r].at = "lost" => kind = ask[r].kind /\ revision = ask[r].revision
        /\ kind = "session-created" => /\ revision = 0 /\ q = CHOOSE x \in Queries : TRUE
                                       /\ choice = CHOOSE x \in Opinions : TRUE
        /\ ask' = [ask EXCEPT ![r] = [NoAsk EXCEPT !.at = "waiting", !.server = s, !.kind = kind,
                                               !.revision = revision, !.query = q, !.choice = choice]]
        /\ UNCHANGED <<blindLog, serving, restarts>>
  BY DEF Submit
<1> DEFINE new == [NoAsk EXCEPT !.at = "waiting", !.server = s, !.kind = kind,
                                !.revision = revision, !.query = q, !.choice = choice]
<1>2. /\ new \in AskRecords /\ new.at = "waiting" /\ new.server = s /\ new.kind = kind
      /\ new.revision = revision
  <2>1. revision \in Nat
    BY LenProperties DEF BlindInv, BlindTyped
  <2> QED BY <2>1 DEF NoAsk, AskRecords, BlindStages
<1>3. ask \in [Requests -> AskRecords]
  BY DEF BlindInv, BlindTyped
<1>4. /\ ask' \in [Requests -> AskRecords] /\ ask'[r] = new
      /\ \A x \in Requests \ {r} : ask'[x] = ask[x]
  BY <1>1, <1>2, <1>3
<1> HIDE DEF new
<1>5. BlindTyped'
  BY <1>1, <1>2, <1>4 DEF BlindInv, BlindTyped
<1>6. \A n \in DOMAIN blindLog : blindLog[n].request \in Requests
  BY LoggedTyped
<1>7. AskedAsLogged'
  BY <1>1, <1>2, <1>4, <1>6 DEF BlindInv, AskedAsLogged
<1>8. LogFolds'
  BY <1>1 DEF BlindInv, LogFolds
<1>9. \A x \in Requests \ {r} : EventOf(x)' = EventOf(x) /\ FitsNext(x)' = FitsNext(x) /\ SameLog(x)' = SameLog(x)
  BY <1>1, <1>4 DEF EventOf, FitsNext, SameLog, RevisionNow, Judged
<1>10. \A x \in Requests \ {r} : Logged(EventOf(x))' = Logged(EventOf(x))
  BY <1>1, <1>9 DEF Logged
<1>11. PlansFit'
  <2> SUFFICES ASSUME NEW x \in Requests, ask'[x].at = "planned"
               PROVE  ask'[x].base <= Len(blindLog') /\ (SameLog(x)' => FitsNext(x)')
    BY DEF PlansFit
  <2>1. x # r /\ ask'[x] = ask[x]
    BY <1>2, <1>4
  <2> QED BY <2>1, <1>1, <1>9 DEF BlindInv, PlansFit
<1>12. CommitsLogged'
  <2> SUFFICES ASSUME NEW x \in Requests, ask'[x].at = "committed" PROVE Logged(EventOf(x))'
    BY DEF CommitsLogged
  <2>1. x # r /\ ask'[x] = ask[x]
    BY <1>2, <1>4
  <2> QED BY <2>1, <1>9, <1>10 DEF BlindInv, CommitsLogged
<1>13. RepliesStand'
  <2> SUFFICES ASSUME NEW x \in Requests, ask'[x].at \in {"ok", "refused"}
               PROVE  /\ ask'[x].at = "ok" => IF ask'[x].kind = "session-created" THEN blindLog' # <<>> ELSE Logged(EventOf(x))'
                      /\ ask'[x].at = "refused" => ~Logged(EventOf(x))'
    BY DEF RepliesStand
  <2>1. x # r /\ ask'[x] = ask[x]
    BY <1>2, <1>4
  <2> QED BY <2>1, <1>1, <1>9, <1>10 DEF BlindInv, RepliesStand
<1> QED BY <1>5, <1>7, <1>8, <1>11, <1>12, <1>13 DEF BlindInv

\* The server of a request serves no other.
LEMMA ServedAlone ==
  ASSUME BlindInv, NEW r \in Requests, ask[r].at \in {"waiting", "planned", "committed"},
         serving[ask[r].server] \in {NoRequest, r}
  PROVE  /\ ask \in [Requests -> AskRecords] /\ ask[r] \in AskRecords /\ ask[r].server \in Servers
         /\ serving \in [Servers -> Requests \cup {NoRequest}] /\ Len(blindLog) \in Nat
         /\ \A x \in Requests : ask[x].at \in {"planned", "committed"} /\ ask[x].server = ask[r].server => x = r
<1>1. /\ ask \in [Requests -> AskRecords] /\ ask[r] \in AskRecords /\ ask[r].server \in Servers
      /\ serving \in [Servers -> Requests \cup {NoRequest}]
  BY DEF BlindInv, BlindTyped
<1>2. Len(blindLog) \in Nat
  BY LenProperties DEF BlindInv, BlindTyped
<1>3. \A x \in Requests : ask[x].at \in {"planned", "committed"} /\ ask[x].server = ask[r].server => x = r
  BY <1>1, BlindAssumption DEF BlindInv, BlindTyped, NoRequest
<1> QED BY <1>1, <1>2, <1>3

LEMMA TellPreserves ==
  ASSUME BlindInv, NEW r \in Requests, ask[r].at \in {"waiting", "planned", "committed"},
         serving[ask[r].server] \in {NoRequest, r},
         NEW what \in {"ok", "refused"}, Tell(r, what), blindLog' = blindLog,
         what = "ok" => IF ask[r].kind = "session-created" THEN blindLog # <<>> ELSE Logged(EventOf(r)),
         what = "refused" => ~Logged(EventOf(r))
  PROVE  BlindInv'
<1>1. /\ ask \in [Requests -> AskRecords] /\ ask[r] \in AskRecords /\ ask[r].server \in Servers
      /\ serving \in [Servers -> Requests \cup {NoRequest}]
      /\ \A x \in Requests : ask[x].at \in {"planned", "committed"} /\ ask[x].server = ask[r].server => x = r
  BY ServedAlone
<1>2. /\ ask' = [ask EXCEPT ![r] = [ask[r] EXCEPT !.at = what]] /\ [ask[r] EXCEPT !.at = what] \in AskRecords
      /\ serving' = [serving EXCEPT ![ask[r].server] = NoRequest]
  BY <1>1 DEF AskRecords, BlindStages, Tell
<1>3. /\ ask' \in [Requests -> AskRecords] /\ \A x \in Requests \ {r} : ask'[x] = ask[x]
      /\ ask'[r].at = what /\ ask'[r].server = ask[r].server
      /\ ask'[r].kind = ask[r].kind /\ ask'[r].revision = ask[r].revision
      /\ ask'[r].query = ask[r].query /\ ask'[r].choice = ask[r].choice
  BY <1>2, <1>1 DEF AskRecords
<1>4. OnlyMoves
  BY <1>3 DEF OnlyMoves
<1>5. /\ serving' \in [Servers -> Requests \cup {NoRequest}]
      /\ \A s \in Servers \ {ask[r].server} : serving'[s] = serving[s]
  BY <1>2, <1>1
<1>6. BlindTyped'
  BY <1>1, <1>3, <1>5 DEF BlindInv, BlindTyped
<1> QED BY <1>3, <1>4, <1>6, MovePreserves

LEMMA ReadAndResolveInductive == ASSUME BlindInv, NEW r \in Requests, ReadAndResolve(r) PROVE BlindInv'
<1>0. ask[r].at = "waiting" /\ serving[ask[r].server] \in {NoRequest, r}
  BY DEF ReadAndResolve
<1>1. /\ ask \in [Requests -> AskRecords] /\ ask[r] \in AskRecords /\ ask[r].server \in Servers
      /\ serving \in [Servers -> Requests \cup {NoRequest}] /\ Len(blindLog) \in Nat
      /\ \A x \in Requests : ask[x].at \in {"planned", "committed"} /\ ask[x].server = ask[r].server => x = r
  BY <1>0, ServedAlone
<1>4. CASE Resolve(r) = "append"
  <2>1. /\ ask' = [ask EXCEPT ![r].at = "planned", ![r].base = Len(blindLog)]
        /\ serving' = [serving EXCEPT ![ask[r].server] = r] /\ blindLog' = blindLog
    BY <1>4 DEF ReadAndResolve
  <2>2. /\ ask' = [ask EXCEPT ![r] = [ask[r] EXCEPT !.at = "planned", !.base = Len(blindLog)]]
        /\ [ask[r] EXCEPT !.at = "planned", !.base = Len(blindLog)] \in AskRecords
    BY <2>1, <1>1 DEF AskRecords, BlindStages
  <2>3. /\ ask' \in [Requests -> AskRecords] /\ \A x \in Requests \ {r} : ask'[x] = ask[x]
        /\ ask'[r].at = "planned" /\ ask'[r].base = Len(blindLog) /\ ask'[r].server = ask[r].server
        /\ ask'[r].kind = ask[r].kind /\ ask'[r].revision = ask[r].revision
        /\ ask'[r].query = ask[r].query /\ ask'[r].choice = ask[r].choice
    BY <2>2, <1>1 DEF AskRecords
  <2>4. OnlyMoves
    BY <2>1, <2>3 DEF OnlyMoves
  <2>5. BlindTyped'
    <3>1. serving' \in [Servers -> Requests \cup {NoRequest}] /\ serving'[ask[r].server] = r
          /\ \A s \in Servers \ {ask[r].server} : serving'[s] = serving[s]
      BY <2>1, <1>1
    <3>2. \A x \in Requests : ask'[x].at \in {"planned", "committed"} => serving'[ask'[x].server] = x
      <4> SUFFICES ASSUME NEW x \in Requests, ask'[x].at \in {"planned", "committed"}
                   PROVE  serving'[ask'[x].server] = x
        OBVIOUS
      <4>1. CASE x = r BY <4>1, <2>3, <3>1
      <4>2. CASE x # r
        <5>1. ask'[x] = ask[x] /\ ask[x].server \in Servers /\ serving[ask[x].server] = x
          BY <4>2, <2>3 DEF BlindInv, BlindTyped
        <5>2. ask[x].server # ask[r].server
          BY <5>1, <4>2, <1>1
        <5> QED BY <5>1, <5>2, <3>1
      <4> QED BY <4>1, <4>2
    <3>3. \A x \in Requests : ask'[x].at # "unsent" => ask'[x].server \in Servers /\ ask'[x].kind \in Kinds
      BY <2>3, <1>0 DEF BlindInv, BlindTyped
    <3> QED BY <2>1, <2>3, <3>1, <3>2, <3>3 DEF BlindInv, BlindTyped
  <2> QED BY <2>3, <2>4, <2>5, <1>0, <1>4, ResolutionStands, MovePreserves
<1>6. CASE Resolve(r) = "return"
  <2>1. Tell(r, "ok") /\ blindLog' = blindLog
    BY <1>6 DEF ReadAndResolve
  <2> QED BY <2>1, <1>0, <1>6, ResolutionStands, TellPreserves
<1>7. CASE Resolve(r) = "refuse"
  <2>1. Tell(r, "refused") /\ blindLog' = blindLog
    BY <1>7 DEF ReadAndResolve
  <2> QED BY <2>1, <1>0, <1>7, ResolutionStands, TellPreserves
<1> QED BY <1>4, <1>6, <1>7, <1>0, ResolutionStands

LEMMA ApplyEventInductive == ASSUME BlindInv, NEW r \in Requests, ApplyEvent(r) PROVE BlindInv'
<1> DEFINE e == EventOf(r)
<1>1. /\ ask \in [Requests -> AskRecords] /\ ask[r] \in AskRecords /\ ask[r].at = "planned"
      /\ ask[r].server \in Servers /\ ask[r].kind \in Kinds /\ serving[ask[r].server] = r
  BY DEF BlindInv, BlindTyped, ApplyEvent
<1>2. e \in BlindEvents /\ e.request = r /\ e.kind = ask[r].kind /\ e.revision = ask[r].revision /\ e.query = ask[r].query
  BY <1>1 DEF EventOf, BlindEvents, AskRecords
<1>3. FitsNext(r)
  BY <1>1 DEF BlindInv, PlansFit, ApplyEvent
<1>4. blindLog \in Seq(BlindEvents) /\ Len(blindLog) \in Nat /\ DOMAIN blindLog = 1..Len(blindLog)
      /\ (blindLog = <<>> <=> Len(blindLog) = 0)
  BY LenProperties, EmptySeq DEF BlindInv, BlindTyped
<1>5. /\ blindLog' \in Seq(BlindEvents) /\ Len(blindLog') = Len(blindLog) + 1
      /\ DOMAIN blindLog' = 1..Len(blindLog) + 1
      /\ \A n \in 1..Len(blindLog) : blindLog'[n] = blindLog[n]
      /\ blindLog'[Len(blindLog) + 1] = e
  <2>1. blindLog' = Append(blindLog, e)
    BY DEF ApplyEvent
  <2> HIDE DEF e
  <2> QED BY <2>1, <1>2, <1>4, AppendProperties
<1>6. /\ ask' = [ask EXCEPT ![r] = [ask[r] EXCEPT !.at = "committed"]]
      /\ [ask[r] EXCEPT !.at = "committed"] \in AskRecords
      /\ serving' = serving
  BY <1>1 DEF AskRecords, BlindStages, ApplyEvent
<1>7. /\ ask' \in [Requests -> AskRecords] /\ \A x \in Requests \ {r} : ask'[x] = ask[x]
      /\ ask'[r].at = "committed" /\ ask'[r].server = ask[r].server
      /\ ask'[r].kind = ask[r].kind /\ ask'[r].revision = ask[r].revision
      /\ ask'[r].query = ask[r].query /\ ask'[r].choice = ask[r].choice
  BY <1>6, <1>1 DEF AskRecords
<1> HIDE DEF e
<1>8. \A x \in Requests : EventOf(x)' = EventOf(x) /\ EventOf(x).request = x
  BY <1>7 DEF EventOf
<1>9. \A x \in Requests : Logged(EventOf(x))' <=> Logged(EventOf(x)) \/ x = r
  <2> SUFFICES ASSUME NEW x \in Requests
               PROVE  (\E n \in DOMAIN blindLog' : blindLog'[n] = EventOf(x)) <=> Logged(EventOf(x)) \/ x = r
    BY <1>8 DEF Logged
  <2>1. (\E n \in DOMAIN blindLog' : blindLog'[n] = EventOf(x)) <=> Logged(EventOf(x)) \/ e = EventOf(x)
    <3>1. \A n \in DOMAIN blindLog' : n \in 1..Len(blindLog) \/ n = Len(blindLog) + 1
      BY <1>4, <1>5
    <3>2. 1..Len(blindLog) \subseteq DOMAIN blindLog' /\ Len(blindLog) + 1 \in DOMAIN blindLog'
      BY <1>4, <1>5
    <3> QED BY <3>1, <3>2, <1>4, <1>5 DEF Logged
  <2>2. e = EventOf(x) <=> x = r
    BY <1>2, <1>8 DEF e
  <2> QED BY <2>1, <2>2
<1>10. BlindTyped'
  BY <1>1, <1>5, <1>6, <1>7 DEF BlindInv, BlindTyped
<1>11. \A n \in 1..Len(blindLog) : blindLog[n].request \in Requests
  BY <1>4, LoggedTyped
<1>12. AskedAsLogged'
  <2> SUFFICES ASSUME NEW n \in 1..Len(blindLog) + 1
               PROVE  LET x == blindLog'[n].request IN
                      ask'[x].at # "unsent" /\ ask'[x].kind = blindLog'[n].kind /\ ask'[x].revision = blindLog'[n].revision
    BY <1>5 DEF AskedAsLogged
  <2>1. CASE n = Len(blindLog) + 1
    BY <2>1, <1>2, <1>5, <1>7
  <2>2. CASE n \in 1..Len(blindLog)
    BY <2>2, <1>4, <1>5, <1>7, <1>11 DEF BlindInv, AskedAsLogged
  <2> QED BY <2>1, <2>2, <1>4
<1>13. LogFolds'
  <2> DEFINE L == Len(blindLog)
  <2>1. /\ L = 0 <=> e.kind = "session-created"
        /\ L # 0 => e.revision = L - 1 /\ \A n \in 1..L : blindLog[n].request # r
        /\ L # 0 /\ e.kind = "judgment-recorded" =>
             \A n \in 1..L : ~(blindLog[n].kind = "judgment-recorded" /\ blindLog[n].query = e.query)
    BY <1>2, <1>3, <1>4 DEF FitsNext, RevisionNow, Judged
  <2>2. /\ \A n \in 1..L : blindLog[n].kind = "session-created" <=> n = 1
        /\ \A n \in 2..L : blindLog[n].revision = n - 2
        /\ \A m, n \in 1..L : blindLog[m].request = blindLog[n].request => m = n
        /\ \A m, n \in 2..L :
             /\ blindLog[m].kind = "judgment-recorded" /\ blindLog[n].kind = "judgment-recorded"
             /\ blindLog[m].query = blindLog[n].query
             => m = n
    BY <1>4 DEF BlindInv, LogFolds
  <2>3. /\ L \in Nat /\ Len(blindLog') = L + 1 /\ DOMAIN blindLog' = 1..L + 1
        /\ \A n \in 1..L : blindLog'[n] = blindLog[n]
        /\ blindLog'[L + 1] = e /\ e.request = r
    BY <1>2, <1>4, <1>5
  <2> HIDE DEF L
  <2>4. \A n \in 1..L + 1 : n \in 1..L \/ n = L + 1
    BY <2>3
  <2>5. \A n \in 1..L + 1 : blindLog'[n].kind = "session-created" <=> n = 1
    BY <2>1, <2>2, <2>3, <2>4
  <2>6. \A n \in 2..L + 1 : blindLog'[n].revision = n - 2
    BY <2>1, <2>2, <2>3, <2>4
  <2>7. \A m, n \in 1..L + 1 : blindLog'[m].request = blindLog'[n].request => m = n
    BY <2>1, <2>2, <2>3, <2>4
  <2>8. \A m, n \in 2..L + 1 :
             /\ blindLog'[m].kind = "judgment-recorded" /\ blindLog'[n].kind = "judgment-recorded"
             /\ blindLog'[m].query = blindLog'[n].query
             => m = n
    BY <2>1, <2>2, <2>3, <2>4
  <2> QED BY <2>3, <2>5, <2>6, <2>7, <2>8 DEF LogFolds
<1>14. PlansFit'
  <2> SUFFICES ASSUME NEW x \in Requests, ask'[x].at = "planned"
               PROVE  ask'[x].base <= Len(blindLog') /\ Len(blindLog') # ask'[x].base
    BY DEF PlansFit, SameLog
  <2>1. x # r /\ ask'[x] = ask[x]
    BY <1>7
  <2>2. ask[x].base <= Len(blindLog) /\ ask[x].base \in Nat
    BY <2>1, <1>1 DEF BlindInv, PlansFit, AskRecords
  <2> QED BY <2>1, <2>2, <1>4, <1>5
<1>15. CommitsLogged'
  <2> SUFFICES ASSUME NEW x \in Requests, ask'[x].at = "committed" PROVE Logged(EventOf(x))'
    BY DEF CommitsLogged
  <2> QED BY <1>7, <1>9 DEF BlindInv, CommitsLogged
<1>16. RepliesStand'
  <2> SUFFICES ASSUME NEW x \in Requests, ask'[x].at \in {"ok", "refused"}
               PROVE  /\ ask'[x].at = "ok" => IF ask'[x].kind = "session-created" THEN blindLog' # <<>> ELSE Logged(EventOf(x))'
                      /\ ask'[x].at = "refused" => ~Logged(EventOf(x))'
    BY DEF RepliesStand
  <2>1. x # r /\ ask'[x] = ask[x]
    BY <1>7
  <2>2. blindLog' # <<>>
    BY <1>4, <1>5
  <2> QED BY <2>1, <2>2, <1>9 DEF BlindInv, RepliesStand
<1> QED BY <1>10, <1>12, <1>13, <1>14, <1>15, <1>16 DEF BlindInv

LEMMA ResolveAgainInductive == ASSUME BlindInv, NEW r \in Requests, ResolveAgain(r) PROVE BlindInv'
<1>0. ask[r].at = "planned" /\ serving[ask[r].server] \in {NoRequest, r}
  BY DEF ResolveAgain, BlindInv, BlindTyped
<1>1. /\ ask \in [Requests -> AskRecords] /\ ask[r] \in AskRecords
  BY <1>0, ServedAlone
<1>2. CASE Resolve(r) = "append"
  <2>1. ask' = [ask EXCEPT ![r].at = "waiting"] /\ serving' = serving /\ blindLog' = blindLog
    BY <1>2 DEF ResolveAgain
  <2>2. /\ ask' = [ask EXCEPT ![r] = [ask[r] EXCEPT !.at = "waiting"]]
        /\ [ask[r] EXCEPT !.at = "waiting"] \in AskRecords
    BY <2>1, <1>1 DEF AskRecords, BlindStages
  <2>3. /\ ask' \in [Requests -> AskRecords] /\ \A x \in Requests \ {r} : ask'[x] = ask[x]
        /\ ask'[r].at = "waiting" /\ ask'[r].server = ask[r].server
        /\ ask'[r].kind = ask[r].kind /\ ask'[r].revision = ask[r].revision
        /\ ask'[r].query = ask[r].query /\ ask'[r].choice = ask[r].choice
    BY <2>2, <1>1 DEF AskRecords
  <2>4. OnlyMoves
    BY <2>1, <2>3 DEF OnlyMoves
  <2>5. BlindTyped'
    BY <2>1, <2>3, <1>0 DEF BlindInv, BlindTyped
  <2> QED BY <2>3, <2>4, <2>5, MovePreserves
<1>3. CASE Resolve(r) = "return"
  <2>1. Tell(r, "ok") /\ blindLog' = blindLog
    BY <1>3 DEF ResolveAgain
  <2> QED BY <2>1, <1>0, <1>3, ResolutionStands, TellPreserves
<1>4. CASE Resolve(r) = "refuse"
  <2>1. Tell(r, "refused") /\ blindLog' = blindLog
    BY <1>4 DEF ResolveAgain
  <2> QED BY <2>1, <1>0, <1>4, ResolutionStands, TellPreserves
<1> QED BY <1>2, <1>3, <1>4, <1>0, ResolutionStands

LEMMA CommittedSessionInductive == ASSUME BlindInv, NEW r \in Requests, CommittedSession(r) PROVE BlindInv'
<1>1. ask[r].at = "committed" /\ serving[ask[r].server] \in {NoRequest, r} /\ Logged(EventOf(r))
  BY DEF CommittedSession, BlindInv, BlindTyped, CommitsLogged
<1>2. Tell(r, "ok") /\ blindLog' = blindLog /\ blindLog # <<>>
  BY <1>1 DEF CommittedSession, Logged
<1> QED BY <1>1, <1>2, TellPreserves

LEMMA BlindServerDiesInductive == ASSUME BlindInv, NEW s \in Servers, BlindServerDies(s) PROVE BlindInv'
<1>1. ask \in [Requests -> AskRecords] /\ serving \in [Servers -> Requests \cup {NoRequest}]
  BY DEF BlindInv, BlindTyped
<1>2. /\ ask' \in [Requests -> AskRecords]
      /\ \A x \in Requests :
           /\ ask'[x].kind = ask[x].kind /\ ask'[x].revision = ask[x].revision
           /\ ask'[x].query = ask[x].query /\ ask'[x].choice = ask[x].choice
           /\ ask'[x].server = ask[x].server /\ ask'[x].base = ask[x].base
           /\ ask'[x].at = "lost" \/ (ask'[x] = ask[x] /\ (ask[x].at \in {"planned", "committed"} => ask[x].server # s))
           /\ ask[x].at = "unsent" => ask'[x] = ask[x]
           /\ ask'[x].at = "unsent" => ask[x].at = "unsent"
  <2> SUFFICES ASSUME NEW x \in Requests
               PROVE  /\ ask'[x] \in AskRecords
                      /\ ask'[x].kind = ask[x].kind /\ ask'[x].revision = ask[x].revision
                      /\ ask'[x].query = ask[x].query /\ ask'[x].choice = ask[x].choice
                      /\ ask'[x].server = ask[x].server /\ ask'[x].base = ask[x].base
                      /\ ask'[x].at = "lost" \/ (ask'[x] = ask[x] /\ (ask[x].at \in {"planned", "committed"} => ask[x].server # s))
                      /\ ask[x].at = "unsent" => ask'[x] = ask[x]
                      /\ ask'[x].at = "unsent" => ask[x].at = "unsent"
    BY DEF BlindServerDies
  <2>1. ask[x] \in AskRecords
    BY <1>1
  <2>2. CASE ask[x].server = s /\ ask[x].at \in {"waiting", "planned", "committed"}
    BY <2>1, <2>2 DEF BlindServerDies, AskRecords, BlindStages
  <2>3. CASE ~(ask[x].server = s /\ ask[x].at \in {"waiting", "planned", "committed"})
    BY <2>1, <2>3 DEF BlindServerDies
  <2> QED BY <2>2, <2>3
<1>3. OnlyMoves
  BY <1>2 DEF OnlyMoves, BlindServerDies
<1>4. /\ AskedAsLogged' /\ LogFolds' /\ blindLog' = blindLog
      /\ \A x \in Requests : EventOf(x)' = EventOf(x) /\ FitsNext(x)' = FitsNext(x)
      /\ \A e : Logged(e)' = Logged(e)
  BY <1>3, MovesKeepLog DEF OnlyMoves
<1>5. BlindTyped'
  <2>1. /\ serving' \in [Servers -> Requests \cup {NoRequest}]
        /\ \A x \in Servers \ {s} : serving'[x] = serving[x]
    BY <1>1 DEF BlindServerDies
  <2> QED BY <1>2, <1>4, <2>1 DEF BlindInv, BlindTyped
<1>6. PlansFit' /\ CommitsLogged' /\ RepliesStand'
  <2>1. PlansFit'
    <3> SUFFICES ASSUME NEW x \in Requests, ask'[x].at = "planned"
                 PROVE  ask'[x].base <= Len(blindLog) /\ (Len(blindLog) = ask'[x].base => FitsNext(x))
      BY <1>4 DEF PlansFit, SameLog
    <3> QED BY <1>2 DEF BlindInv, PlansFit, SameLog
  <2>2. CommitsLogged'
    <3> SUFFICES ASSUME NEW x \in Requests, ask'[x].at = "committed" PROVE Logged(EventOf(x))
      BY <1>4 DEF CommitsLogged
    <3> QED BY <1>2 DEF BlindInv, CommitsLogged
  <2>3. RepliesStand'
    <3> SUFFICES ASSUME NEW x \in Requests, ask'[x].at \in {"ok", "refused"}
                 PROVE  /\ ask'[x].at = "ok" => IF ask[x].kind = "session-created" THEN blindLog # <<>> ELSE Logged(EventOf(x))
                        /\ ask'[x].at = "refused" => ~Logged(EventOf(x))
      BY <1>4, <1>2 DEF RepliesStand
    <3> QED BY <1>2 DEF BlindInv, RepliesStand
  <2> QED BY <2>1, <2>2, <2>3
<1> QED BY <1>4, <1>5, <1>6 DEF BlindInv

LEMMA BlindInductive == BlindInv /\ [BlindNext]_blindVars => BlindInv'
<1> SUFFICES ASSUME BlindInv, [BlindNext]_blindVars PROVE BlindInv'
  OBVIOUS
<1>1. CASE UNCHANGED blindVars
  <2>1. UNCHANGED <<blindLog, ask, serving, restarts>>
    BY <1>1 DEF blindVars
  <2> QED BY <2>1 DEF BlindInv, BlindTyped, AskedAsLogged, PlansFit, SameLog, FitsNext, RevisionNow, Judged,
                      CommitsLogged, Logged, EventOf, LogFolds, RepliesStand
<1>2. CASE BlindNext
  BY <1>2, SubmitInductive, ReadAndResolveInductive, ApplyEventInductive, ResolveAgainInductive,
     CommittedSessionInductive, BlindServerDiesInductive DEF BlindNext, BlindStep
<1> QED BY <1>1, <1>2

\* However requests for one comparison are repeated, delayed and replayed by servers that
\* die: the log folds, no query is judged twice, and every verdict a reviewer was told is in
\* it (blindComparison.ts).
THEOREM BlindVerdictsStand == BlindSpec => []BlindHolds
<1>1. BlindSpec => []BlindInv
  BY BlindInvInit, BlindInductive, PTL DEF BlindSpec
<1>2. BlindInv => BlindHolds
  BY DEF BlindInv, BlindHolds
<1> QED BY <1>1, <1>2, PTL

\* Requests and servers keep the form their handlers expect.
THEOREM BlindTypeCorrect == BlindSpec => []BlindTypeOK
<1>1. BlindSpec => []BlindInv
  BY BlindInvInit, BlindInductive, PTL DEF BlindSpec
<1>2. BlindInv => BlindTypeOK
  BY DEF BlindInv, BlindTyped, BlindTypeOK, AskRecords, BlindStages
<1> QED BY <1>1, <1>2, PTL
=============================================================================
