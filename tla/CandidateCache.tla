--------------------------- MODULE CandidateCache ---------------------------
(***************************************************************************)
(* buildCandidate.ts and candidateBuilder.ts: a candidate artifact is      *)
(* built by a process of its own, at a path that its base, its proposal    *)
(* and the policy name, and not the reviewed sources, which the descriptor *)
(* inside names.  Builders of one path are kept apart by a lock directory, *)
(* and a lock whose owner is dead is reclaimed: renamed away, looked at    *)
(* once more, and removed with what its owner left, or put back.           *)
(*                                                                         *)
(* One path is modelled.  A lock directory is made first and named an      *)
(* owner in a second step, so that one without an owner can be met.        *)
(***************************************************************************)
EXTENDS Integers, FiniteSets

CONSTANTS
  Builders,   \* the processes that build
  Ghost,      \* one of an earlier day, dead
  SourceDigests,  \* digests of the reviewed sources
  Nobody,     \* the owner of a lock not yet written
  NoDir,      \* no directory
  MaxMishaps  \* bound on the builders that die and the moves of the base

ASSUME CacheAssumption ==
  /\ Ghost \notin Builders /\ Nobody \notin Builders \cup {Ghost}
  /\ NoDir \notin [owner : Builders \cup {Ghost, Nobody}, old : BOOLEAN]
  /\ NoDir \notin [of : SourceDigests, whole : BOOLEAN]
  /\ MaxMishaps \in Nat

VARIABLES
  builds,     \* each builder: where it is, its snapshot, the owner it saw in a lock, its result
  cacheLock,       \* the lock directory: its owner, and whether a minute has passed
  claimed,    \* what each builder renamed away to reclaim it
  staging,    \* what each builder has staged: "none", "marked", "built", "sealed" or "torn"
  candidate,  \* what is published: the snapshot it was built from, and whether it is whole
  moved,      \* the base artifact is no longer the one the builders were asked for
  mishaps,
  robbed      \* the lock of a live builder was renamed away or over, having changed hands unseen

cacheVars == <<builds, cacheLock, claimed, staging, candidate, moved, mishaps, robbed>>

Finished == {"failed", "report", "accepted", "refused"}
Inside == {"verify", "aside", "stage", "build", "seal", "publish", "release"}

\* processIsAlive of the process that owns a lock.
ProcessIsAlive(o) == o \in Builders /\ builds[o].at \notin Finished

CacheInit ==
  /\ builds \in [Builders -> [at : {"claims"}, of : SourceDigests, saw : {Nobody}, result : {FALSE}]]
  /\ \E o \in {NoDir, Nobody, Ghost} :
       /\ cacheLock = (IF o = NoDir THEN NoDir ELSE [owner |-> o, old |-> TRUE])
       /\ staging = [b \in Builders \cup {Ghost} |-> IF b = o THEN "marked" ELSE "none"]
  /\ claimed = [b \in Builders |-> NoDir]
  /\ candidate = NoDir /\ moved = FALSE /\ mishaps = 0 /\ robbed = FALSE

Goes(b, at) == builds' = [builds EXCEPT ![b].at = at]
Resumes(b) == builds' = [builds EXCEPT ![b].at = "claims", ![b].saw = Nobody]
Fails(b) == /\ staging' = [staging EXCEPT ![b] = "none"]
            /\ builds' = [builds EXCEPT ![b].at = "release", ![b].result = FALSE]

-----------------------------------------------------------------------------
\* acquireCacheLock.  Everybody honours the claims of the others.
ReclaimClaims == {c \in Builders : claimed[c] # NoDir}

LookForClaims(b) ==
  /\ builds[b].at = "claims" /\ ReclaimClaims = {} /\ Goes(b, "mkdir")
  /\ UNCHANGED <<cacheLock, claimed, staging, candidate, moved, mishaps, robbed>>

MakeLock(b) ==
  /\ builds[b].at = "mkdir"
  /\ IF cacheLock = NoDir
     THEN cacheLock' = [owner |-> Nobody, old |-> FALSE] /\ Goes(b, "owner")
     ELSE UNCHANGED cacheLock /\ Goes(b, "observe")
  /\ UNCHANGED <<claimed, staging, candidate, moved, mishaps, robbed>>

\* owner.json is written "wx" at the path of the lock, whoever made what is there now;
\* when that fails the path is removed.
WriteOwner(b) ==
  /\ builds[b].at = "owner"
  /\ IF cacheLock # NoDir /\ cacheLock.owner = Nobody
     THEN cacheLock' = [owner |-> b, old |-> FALSE] /\ Goes(b, "recheck")
     ELSE cacheLock' = NoDir /\ Goes(b, "failed")
  /\ UNCHANGED <<claimed, staging, candidate, moved, mishaps, robbed>>

Recheck(b) ==
  /\ builds[b].at = "recheck"
  /\ IF ReclaimClaims = {} THEN Goes(b, "verify") /\ UNCHANGED cacheLock
     ELSE Goes(b, "claims") /\ cacheLock' = NoDir
  /\ UNCHANGED <<claimed, staging, candidate, moved, mishaps, robbed>>

TimesOut(b) ==
  /\ \/ builds[b].at = "claims" /\ ReclaimClaims # {}
     \/ builds[b].at = "observe" /\ cacheLock # NoDir
  /\ Goes(b, "failed")
  /\ UNCHANGED <<cacheLock, claimed, staging, candidate, moved, mishaps, robbed>>

-----------------------------------------------------------------------------
\* tryReclaimStaleLock: what was observed may have changed when it is claimed.
\* Mutant: a lock a minute old is stale whoever holds it.
Observe_Old(b) ==
  /\ builds[b].at = "observe"
  /\ IF cacheLock # NoDir /\ cacheLock.old
     THEN builds' = [builds EXCEPT ![b].at = "claim", ![b].saw = cacheLock.owner]
     ELSE Resumes(b)
  /\ UNCHANGED <<cacheLock, claimed, staging, candidate, moved, mishaps, robbed>>
Observe(b) ==
  /\ builds[b].at = "observe"
  /\ IF cacheLock # NoDir /\ cacheLock.old /\ ~ProcessIsAlive(cacheLock.owner)
     THEN builds' = [builds EXCEPT ![b].at = "claim", ![b].saw = cacheLock.owner]
     ELSE Resumes(b)
  /\ UNCHANGED <<cacheLock, claimed, staging, candidate, moved, mishaps, robbed>>

\* The lock that a live builder is about to write its name into.
BeingMade == /\ cacheLock # NoDir /\ cacheLock.owner = Nobody
             /\ \E c \in Builders : builds[c].at = "owner"

\* Or the lock of a live builder that came after the look at it.
ChangedHands(b) == BeingMade \/ (builds[b].saw # cacheLock.owner /\ ProcessIsAlive(cacheLock.owner))

Claim(b) ==
  /\ builds[b].at = "claim"
  /\ IF cacheLock = NoDir THEN Resumes(b) /\ UNCHANGED <<cacheLock, claimed>>
     ELSE claimed' = [claimed EXCEPT ![b] = cacheLock] /\ cacheLock' = NoDir /\ Goes(b, "judge")
  /\ robbed' = (robbed \/ (cacheLock # NoDir /\ ChangedHands(b)))
  /\ UNCHANGED <<staging, candidate, moved, mishaps>>

\* An owner that could not be read is taken to be any owner.
SameOwner(b) == builds[b].saw \in {Nobody, claimed[b].owner}

Judge(b) ==
  /\ builds[b].at = "judge"
  /\ Goes(b, IF SameOwner(b) THEN "marker" ELSE "restore")
  /\ UNCHANGED <<cacheLock, claimed, staging, candidate, moved, mishaps, robbed>>

\* Put back once nobody else holds the path, which is looked at before the rename: an
\* empty directory made since is replaced, one with an owner stops the builder.
Wait(b) ==
  /\ builds[b].at = "restore" /\ cacheLock = NoDir /\ Goes(b, "rename")
  /\ UNCHANGED <<cacheLock, claimed, staging, candidate, moved, mishaps, robbed>>

GiveUp(b) ==
  /\ builds[b].at = "restore" /\ cacheLock # NoDir /\ Resumes(b)
  /\ claimed' = [claimed EXCEPT ![b] = IF @.owner = Nobody THEN NoDir ELSE @]
  /\ UNCHANGED <<cacheLock, staging, candidate, moved, mishaps, robbed>>

Restore(b) ==
  /\ builds[b].at = "rename"
  /\ IF cacheLock = NoDir \/ cacheLock.owner = Nobody
     THEN /\ cacheLock' = claimed[b] /\ claimed' = [claimed EXCEPT ![b] = NoDir] /\ Resumes(b)
     ELSE /\ claimed' = [claimed EXCEPT ![b] = IF @.owner = Nobody THEN NoDir ELSE @]
          /\ builds' = [builds EXCEPT ![b].at = "failed", ![b].saw = Nobody] /\ UNCHANGED cacheLock
  /\ robbed' = (robbed \/ BeingMade)
  /\ UNCHANGED <<staging, candidate, moved, mishaps>>

\* cleanupOwnedStaging: the marker is read first, the files go one after the other, and
\* then the claim.
ReadMarker(b) ==
  /\ builds[b].at = "marker"
  /\ Goes(b, IF claimed[b].owner # Nobody /\ staging[claimed[b].owner] \in {"marked", "built"}
             THEN "tear" ELSE "sweep")
  /\ UNCHANGED <<cacheLock, claimed, staging, candidate, moved, mishaps, robbed>>

Tear(b) ==
  /\ builds[b].at = "tear" /\ Goes(b, "sweep")
  /\ staging' = [staging EXCEPT ![claimed[b].owner] = IF @ = "none" THEN @ ELSE "torn"]
  /\ UNCHANGED <<cacheLock, claimed, candidate, moved, mishaps, robbed>>

Sweep(b) ==
  /\ builds[b].at = "sweep" /\ Resumes(b)
  /\ staging' = [o \in DOMAIN staging |->
                   IF o = claimed[b].owner /\ staging[o] = "torn" THEN "none" ELSE staging[o]]
  /\ claimed' = [claimed EXCEPT ![b] = NoDir]
  /\ UNCHANGED <<cacheLock, candidate, moved, mishaps, robbed>>

-----------------------------------------------------------------------------
\* verifyCandidateDirectory, and the base looked at again.
Verified(b) == candidate # NoDir /\ candidate.whole /\ candidate.of = builds[b].of /\ ~moved

Verify(b) ==
  /\ builds[b].at = "verify"
  /\ builds' = [builds EXCEPT
       ![b].at = IF candidate = NoDir THEN "stage" ELSE IF Verified(b) THEN "release" ELSE "aside",
       ![b].result = Verified(b)]
  /\ UNCHANGED <<cacheLock, claimed, staging, candidate, moved, mishaps, robbed>>

\* What does not verify is renamed, and stays for nobody to find.
SetAside(b) ==
  /\ builds[b].at = "aside" /\ candidate' = NoDir
  /\ Goes(b, IF candidate = NoDir THEN "release" ELSE "stage")
  /\ UNCHANGED <<cacheLock, claimed, staging, moved, mishaps, robbed>>

Stage(b) ==
  /\ builds[b].at = "stage" /\ Goes(b, "build") /\ staging' = [staging EXCEPT ![b] = "marked"]
  /\ UNCHANGED <<cacheLock, claimed, candidate, moved, mishaps, robbed>>

BuildLayer(b) ==
  /\ builds[b].at = "build"
  /\ IF staging[b] = "marked" /\ ~moved
     THEN Goes(b, "seal") /\ staging' = [staging EXCEPT ![b] = "built"] ELSE Fails(b)
  /\ UNCHANGED <<cacheLock, claimed, candidate, moved, mishaps, robbed>>

\* Everything is read again, the base too, and the marker is removed.
Seal(b) ==
  /\ builds[b].at = "seal"
  /\ IF staging[b] = "built" /\ ~moved
     THEN Goes(b, "publish") /\ staging' = [staging EXCEPT ![b] = "sealed"] ELSE Fails(b)
  /\ UNCHANGED <<cacheLock, claimed, candidate, moved, mishaps, robbed>>

\* The staging is renamed whole; the winner of a race is verified in its place.
PublishCandidate(b) ==
  /\ builds[b].at = "publish"
  /\ \/ /\ staging[b] # "none" /\ candidate = NoDir
        /\ candidate' = [of |-> builds[b].of, whole |-> staging[b] = "sealed"]
        /\ staging' = [staging EXCEPT ![b] = "none"]
        /\ builds' = [builds EXCEPT ![b].at = "release", ![b].result = TRUE]
     \/ /\ staging[b] # "none" /\ Verified(b) /\ UNCHANGED candidate
        /\ staging' = [staging EXCEPT ![b] = "none"]
        /\ builds' = [builds EXCEPT ![b].at = "release", ![b].result = TRUE]
     \/ /\ staging[b] = "none" \/ (candidate # NoDir /\ ~Verified(b))
        /\ Fails(b) /\ UNCHANGED candidate
  /\ UNCHANGED <<cacheLock, claimed, moved, mishaps, robbed>>

\* releaseCacheLock, at the end of the process.
ReleaseCacheLock(b) ==
  /\ builds[b].at = "release"
  /\ cacheLock' = (IF cacheLock # NoDir /\ cacheLock.owner = b THEN NoDir ELSE cacheLock)
  /\ Goes(b, IF builds[b].result THEN "report" ELSE "failed")
  /\ UNCHANGED <<claimed, staging, candidate, moved, mishaps, robbed>>

\* parseCandidateCliResult: the bytes, the descriptor and the base, once more.
Accept(b) ==
  /\ builds[b].at = "report" /\ Goes(b, IF Verified(b) THEN "accepted" ELSE "refused")
  /\ UNCHANGED <<cacheLock, claimed, staging, candidate, moved, mishaps, robbed>>

-----------------------------------------------------------------------------
BuilderDies(b) ==
  /\ builds[b].at \notin Finished /\ mishaps < MaxMishaps /\ mishaps' = mishaps + 1 /\ Goes(b, "failed")
  /\ UNCHANGED <<cacheLock, claimed, staging, candidate, moved, robbed>>

MinutePasses ==
  /\ cacheLock # NoDir /\ ~cacheLock.old /\ cacheLock' = [cacheLock EXCEPT !.old = TRUE]
  /\ UNCHANGED <<builds, claimed, staging, candidate, moved, mishaps, robbed>>

MoveBase ==
  /\ ~moved /\ mishaps < MaxMishaps /\ moved' = TRUE /\ mishaps' = mishaps + 1
  /\ UNCHANGED <<builds, cacheLock, claimed, staging, candidate, robbed>>

CacheNext ==
  \/ \E b \in Builders :
       \/ LookForClaims(b) \/ MakeLock(b) \/ WriteOwner(b) \/ Recheck(b) \/ TimesOut(b)
       \/ Observe(b) \/ Claim(b) \/ Judge(b) \/ Wait(b) \/ GiveUp(b) \/ Restore(b)
       \/ ReadMarker(b) \/ Tear(b) \/ Sweep(b)
       \/ Verify(b) \/ SetAside(b) \/ Stage(b) \/ BuildLayer(b) \/ Seal(b) \/ PublishCandidate(b)
       \/ ReleaseCacheLock(b) \/ Accept(b) \/ BuilderDies(b)
  \/ MinutePasses \/ MoveBase

CacheSpec == CacheInit /\ [][CacheNext]_cacheVars

-----------------------------------------------------------------------------
\* The types of the state (CacheLockOwner, CandidateBuildResult).
CacheTypeOK ==
  /\ \A b \in Builders : builds[b].saw \in Builders \cup {Ghost, Nobody}
  /\ \A d \in {cacheLock} \cup {claimed[b] : b \in Builders} :
       d = NoDir \/ d.owner \in Builders \cup {Ghost, Nobody}
  /\ \A o \in DOMAIN staging : staging[o] \in {"none", "marked", "built", "sealed", "torn"}

\* Unless the lock of a live builder changed hands unseen and was renamed away or over, one
\* builder at a time is inside the path (acquireCacheLock, tryReclaimStaleLock).
AloneInside == ~robbed => Cardinality({b \in Builders : builds[b].at \in Inside}) <= 1

\* and what is published is whole, whoever died, reclaimed or raced.
PublishedWhole == ~robbed /\ candidate # NoDir => candidate.whole

\* What a builder was told it has is refused only if the base moved, or a builder of
\* other sources set the candidate aside, which has the same path (cacheKey).
RefusedForAReason ==
  ~robbed => \A b \in Builders : builds[b].at = "refused" =>
                    moved \/ \E c \in Builders : builds[c].of # builds[b].of

\* A claim, which stops every builder of the path, is given back or swept by the builder
\* that made it, unless one died or a lock changed hands.
NoClaimLeft ==
  mishaps = 0 /\ ~robbed =>
    \A b \in Builders : claimed[b] # NoDir =>
      builds[b].at \in {"judge", "restore", "rename", "marker", "tear", "sweep"}

\* What the cache of candidates promises.
CacheHolds == AloneInside /\ PublishedWhole /\ RefusedForAReason /\ NoClaimLeft
=============================================================================
