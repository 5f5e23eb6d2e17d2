----------------------------- MODULE Admission -----------------------------
(***************************************************************************)
(* runAdmission of admission.ts.  A call previews the reviewed evidence,    *)
(* replays the change in a detached worktree of its own, rebuilds, verifies *)
(* and audits it, and records the admission in a manifest whose name is the *)
(* digest of the preview and of the signed decisions.  The worktree is      *)
(* removed or set aside when the call ends, unless its process dies.        *)
(*                                                                         *)
(* One proposal.  Calls may be made one after the other, with new or with   *)
(* the same signed decisions, or at the same time from two processes.       *)
(***************************************************************************)
EXTENDS Integers, FiniteSets

CONSTANTS
  Admissions,  \* the calls, each made at most once
  Decisions,   \* signed sets of decisions; signing again gives another one
  Evidence,    \* the reviewed evidence a proposal may come with
  Reds,        \* findings of failing gates
  Inherited,   \* those the control run finds at the base commit
  Predicted,   \* those the deferred-signing marker predicts
  MaxKills, MaxTroubles, MaxMischief

ASSUME EvidenceAssumption == \A e \in Evidence : e.lane \in {"full", "fixture"}

VARIABLES
  evidence,    \* the evidence of this proposal
  moved,       \* main is no longer the reviewed one
  drifted,     \* a source or the candidate differs from what was reviewed
  manifests,   \* the admission manifests
  adm,         \* the calls
  site,        \* the worktree of each call
  stray,       \* something unreviewed has been written into it
  kills, troubles, mischief

admVars == <<evidence, moved, drifted, manifests, adm, site, stray, kills, troubles, mischief>>
outside == <<evidence, moved, drifted>>
counted == <<kills, troubles, mischief>>

AdmInit ==
  /\ evidence \in Evidence /\ moved = FALSE /\ drifted = FALSE /\ manifests = {}
  /\ adm = [a \in Admissions |-> [pc |-> "new", decisions |-> {}, reds |-> {},
                                  tree |-> "none", outcome |-> "none"]]
  /\ site = [a \in Admissions |-> "absent"] /\ stray = [a \in Admissions |-> FALSE]
  /\ kills = 0 /\ troubles = 0 /\ mischief = 0

-----------------------------------------------------------------------------
(* The preview: which evidence can be admitted at all                      *)

\* The lane is derived from the operations: only an all-fixture proposal may come
\* without candidate, comparison and gauntlet.
LaneFits == evidence.lane = "full" \/ evidence.fixtures
Exempt == evidence.fixtures \/ evidence.lane = "fixture"

\* The candidate's bytes, its descriptor, the comparison and its publication all
\* name the same identities.
CandidateBound == evidence.lane = "full" => evidence.bound

\* A gauntlet report blocks on any red; a rejection may be deferred to a
\* classification for release reports only.
Acceptable(reds, tolerate) == reds = {} \/ tolerate
CandidateGauntlet == evidence.lane = "full" => Acceptable(evidence.reds, FALSE)

\* Exactly the queries whose top ten changed have been reviewed.
ComparisonReviewed == evidence.lane = "full" => evidence.reviewed = evidence.changed
Measured == evidence.lane = "full" /\ (evidence.changed # {} \/ evidence.improved)

\* A moved baseline travels with its re-issued approval, or with a marker that
\* names the identity it was regenerated for; an approval never travels alone.
Paired(pair) ==
  \/ pair = "still"
  \/ pair = "bound"
  \/ pair = "moved" /\ evidence.marker = "matching"

Previewable ==
  /\ LaneFits /\ CandidateBound /\ CandidateGauntlet /\ ComparisonReviewed
  /\ Paired(evidence.probe) /\ Paired(evidence.ordering)
  /\ ~drifted

\* The state check repeated before every irreversible step.
StateHolds == ~moved /\ Previewable

-----------------------------------------------------------------------------
(* Steps of a call                                                          *)

Is(a, pc) == adm[a].pc = pc
To(a, pc) == adm' = [adm EXCEPT ![a].pc = pc]
End(a, outcome) == adm' = [adm EXCEPT ![a].pc = "ended", ![a].outcome = outcome]
Abort(a) == adm' = [adm EXCEPT ![a].pc = "cleanup", ![a].outcome = "refused"]
Trouble == troubles < MaxTroubles /\ troubles' = troubles + 1 /\ UNCHANGED <<kills, mischief>>

\* The worktree is at the base commit and differs from it by the reviewed
\* changes and the measured outputs only.
Audited(a) == ~stray[a]

Admit(a, d) ==
  /\ Is(a, "new")
  /\ adm' = [adm EXCEPT ![a].pc = "preview", ![a].decisions = {d}]
  /\ UNCHANGED <<outside, manifests, site, stray, counted>>

PreviewEvidence(a) ==
  /\ Is(a, "preview")
  /\ \/ ~StateHolds /\ End(a, "refused")
     \/ StateHolds /\ ~Measured /\ ~Exempt /\ End(a, "NO_MEASURABLE_EFFECT")
     \/ StateHolds /\ (Measured \/ Exempt) /\ To(a, "look")
  /\ UNCHANGED <<outside, manifests, site, stray, counted>>

Existing(a) == {m \in manifests : m.decisions = adm[a].decisions}

\* Under the repository lock, after recovery; then the state check.
LookForManifest(a) ==
  /\ Is(a, "look")
  /\ \/ Existing(a) # {} /\ End(a, "ALREADY_ADMITTED")
     \/ Existing(a) = {} /\ StateHolds /\ To(a, "add")
     \/ Existing(a) = {} /\ ~StateHolds /\ End(a, "refused")
  /\ UNCHANGED <<outside, manifests, site, stray, counted>>

AddSite(a) ==
  /\ Is(a, "add")
  /\ \/ site' = [site EXCEPT ![a] = "base"] /\ To(a, "provision") /\ UNCHANGED counted
     \/ site' = [site EXCEPT ![a] = "base"] /\ Abort(a) /\ Trouble  \* made all the same
     \/ UNCHANGED site /\ End(a, "refused") /\ Trouble
  /\ UNCHANGED <<outside, manifests, stray>>

\* The shared inputs are linked in, then two audits find the base commit.
ProvisionSite(a) ==
  /\ Is(a, "provision")
  /\ IF Audited(a) THEN To(a, "apply") ELSE Abort(a)
  /\ UNCHANGED <<outside, manifests, site, stray, counted>>

ApplySources(a) ==
  /\ Is(a, "apply") /\ site' = [site EXCEPT ![a] = "applied"]
  /\ IF Audited(a) THEN To(a, "rebuild") ELSE Abort(a)
  /\ UNCHANGED <<outside, manifests, stray, counted>>

\* The rebuild must reproduce the reviewed identities.
Rebuild(a) ==
  /\ Is(a, "rebuild")
  /\ \/ /\ site' = [site EXCEPT ![a] = "rebuilt"]
        /\ IF Audited(a) THEN To(a, "verify") ELSE Abort(a)
        /\ UNCHANGED counted
     \/ UNCHANGED site /\ Abort(a) /\ Trouble
  /\ UNCHANGED <<outside, manifests, stray>>

Tolerated == evidence.lane = "fixture" \/ evidence.marker # "none"

\* A red release report passes only when every red is inherited from the base
\* commit, or exactly what the marker predicts.
Classified(reds) ==
  IF evidence.lane = "fixture" THEN reds \subseteq Inherited
  ELSE evidence.marker # "none" /\ reds \subseteq Predicted

VerifySite(a) ==
  /\ Is(a, "verify")
  /\ \/ /\ \E reds \in SUBSET Reds :
             IF /\ Acceptable(reds, Tolerated) /\ (reds # {} => Classified(reds))
                /\ Audited(a)
             THEN adm' = [adm EXCEPT ![a].pc = "hash", ![a].reds = reds]
             ELSE Abort(a)
        /\ UNCHANGED counted
     \/ Abort(a) /\ Trouble
  /\ UNCHANGED <<outside, manifests, site, stray>>

\* The rebuilt outputs are put back before the tree is hashed.
HashTree(a) ==
  /\ Is(a, "hash") /\ site' = [site EXCEPT ![a] = "restored"]
  /\ adm' = [adm EXCEPT ![a].pc = "audit", ![a].tree = IF stray[a] THEN "other" ELSE "reviewed"]
  /\ UNCHANGED <<outside, manifests, stray, counted>>

AuditTree(a) ==
  /\ Is(a, "audit")
  /\ IF Audited(a) /\ StateHolds THEN To(a, "publish") ELSE Abort(a)
  /\ UNCHANGED <<outside, manifests, site, stray, counted>>

\* Mutant: the manifest is written without looking for one under the lock.
PublishManifest_Blind(a) ==
  /\ Is(a, "publish")
  /\ \/ ~StateHolds /\ Abort(a) /\ UNCHANGED manifests
     \/ /\ StateHolds
        /\ manifests' = manifests \cup
             {[decisions |-> adm[a].decisions, by |-> a, tree |-> adm[a].tree, reds |-> adm[a].reds]}
        /\ adm' = [adm EXCEPT ![a].pc = "after", ![a].outcome = "ADMITTED"]
  /\ UNCHANGED <<outside, site, stray, counted>>

\* One locked mutation: the state check, a last look for the manifest, and the
\* write, which the apply journal makes whole.
PublishManifest(a) ==
  /\ Is(a, "publish")
  /\ \/ ~StateHolds /\ Abort(a) /\ UNCHANGED manifests
     \/ /\ StateHolds /\ Existing(a) # {} /\ UNCHANGED manifests
        /\ adm' = [adm EXCEPT ![a].pc = "after", ![a].outcome = "ALREADY_ADMITTED"]
     \/ /\ StateHolds /\ Existing(a) = {}
        /\ manifests' = manifests \cup
             {[decisions |-> adm[a].decisions, by |-> a, tree |-> adm[a].tree, reds |-> adm[a].reds]}
        /\ adm' = [adm EXCEPT ![a].pc = "after", ![a].outcome = "ADMITTED"]
  /\ UNCHANGED <<outside, site, stray, counted>>

\* The last audit may still turn a recorded admission into an error.
AfterPublish(a) ==
  /\ Is(a, "after")
  /\ IF Audited(a) THEN To(a, "cleanup") ELSE Abort(a)
  /\ UNCHANGED <<outside, manifests, site, stray, counted>>

\* Mutant: a worktree is only removed after an admission.
CleanUp_OnSuccess(a) ==
  /\ Is(a, "cleanup")
  /\ IF adm[a].outcome = "refused" THEN UNCHANGED site
     ELSE site' = [site EXCEPT ![a] = "absent"]
  /\ To(a, "ended") /\ UNCHANGED counted
  /\ UNCHANGED <<outside, manifests, stray>>

CleanUp(a) ==
  /\ Is(a, "cleanup")
  /\ \/ site' = [site EXCEPT ![a] = "absent"] /\ To(a, "ended") /\ UNCHANGED counted
     \/ site' = [site EXCEPT ![a] = "quarantined"] /\ To(a, "ended") /\ Trouble
     \/ UNCHANGED site /\ End(a, "cleanup_failed") /\ Trouble
  /\ UNCHANGED <<outside, manifests, stray>>

AdmStep(a) ==
  \/ PreviewEvidence(a) \/ LookForManifest(a) \/ AddSite(a) \/ ProvisionSite(a)
  \/ ApplySources(a) \/ Rebuild(a) \/ VerifySite(a) \/ HashTree(a) \/ AuditTree(a)
  \/ PublishManifest(a) \/ AfterPublish(a) \/ CleanUp(a)

Kill(a) ==
  /\ adm[a].pc \notin {"new", "ended"} /\ kills < MaxKills /\ kills' = kills + 1
  /\ End(a, "killed")
  /\ UNCHANGED <<outside, manifests, site, stray, troubles, mischief>>

\* What others do: main moves, a source or the candidate changes, something is
\* written into a worktree.
Mischief ==
  /\ mischief < MaxMischief /\ mischief' = mischief + 1
  /\ \/ ~moved /\ moved' = TRUE /\ UNCHANGED <<drifted, stray>>
     \/ ~drifted /\ drifted' = TRUE /\ UNCHANGED <<moved, stray>>
     \/ \E a \in Admissions :
          /\ site[a] \notin {"absent", "quarantined"} /\ ~stray[a]
          /\ stray' = [stray EXCEPT ![a] = TRUE] /\ UNCHANGED <<moved, drifted>>
  /\ UNCHANGED <<evidence, manifests, adm, site, kills, troubles>>

AdmNext ==
  \/ \E a \in Admissions : AdmStep(a) \/ Kill(a) \/ \E d \in Decisions : Admit(a, d)
  \/ Mischief

AdmSpec == AdmInit /\ [][AdmNext]_admVars

-----------------------------------------------------------------------------
(* Properties                                                              *)

(* A manifest warrants what it says: the hashed tree is the reviewed one,   *)
(* whatever was written into the worktree and whenever, and no red of the   *)
(* release run is in it that is neither inherited nor predicted.            *)
ManifestsWarranted ==
  \A m \in manifests :
    /\ m.tree = "reviewed"
    /\ m.reds # {} => Classified(m.reds)
    /\ evidence.reviewed = evidence.changed \/ evidence.lane = "fixture"

(* The same decisions are admitted once: of the calls that carry them,      *)
(* whether they overlap or follow one another, at most one is told it       *)
(* admitted, and nobody is told so without a manifest.                      *)
AdmittedOnce ==
  /\ \A m, n \in manifests : m.decisions = n.decisions => m = n
  /\ \A a, b \in Admissions :
       adm[a].outcome = "ADMITTED" /\ adm[b].outcome = "ADMITTED" =>
         a = b \/ adm[a].decisions # adm[b].decisions
  /\ \A a \in Admissions :
       adm[a].outcome \in {"ADMITTED", "ALREADY_ADMITTED"} => Existing(a) # {}

(* What admission promises of its manifests.                               *)
AdmissionHolds == ManifestsWarranted /\ AdmittedOnce

(* A call that ends leaves no worktree in place, unless its process was     *)
(* killed or it said that it could not clean up.                            *)
SitesAccounted ==
  \A a \in Admissions :
    adm[a].pc = "ended" /\ adm[a].outcome \notin {"killed", "cleanup_failed"}
      => site[a] \in {"absent", "quarantined"}
=============================================================================
