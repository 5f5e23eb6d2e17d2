------------------------ MODULE Coordination_proofs ------------------------
(***************************************************************************)
(* What holds of the protocols that keep processes apart for any number of *)
(* calls, processes, builders, checks and deaths: the guard of the         *)
(* repository lock admits one reclaimer, the cache of candidates one       *)
(* builder, and admission covers the process of a check.                   *)
(***************************************************************************)
EXTENDS MCCoordination, FiniteSetTheorems, TLAPS

-----------------------------------------------------------------------------
(* The repository lock *)

\* Where a reclaimer's own guard file must be about, under one name or another.
Guarded == {"guardCreated", "guardWritten"} \cup Reclaiming
GuardPresent == \A t \in Tasks : Alive(t) /\ pc[t] \in Guarded => t \in Barriers

GuardInv == LockTypeOK /\ GuardPresent /\ GuardExclusive

LEMMA GuardInvInit == LockInit => GuardInv
BY TasksAssumption DEF LockInit, GuardInv, LockTypeOK, GuardPresent, GuardExclusive, Guarded,
   Reclaiming,
   Alive, Barriers

USE DEF lockVars, lockFiles, guardFiles, LockGoto

LEMMA LockTypedNext == LockTypeOK /\ [LockNext]_lockVars => LockTypeOK'
<1> SUFFICES ASSUME LockTypeOK, [LockNext]_lockVars PROVE LockTypeOK'
  OBVIOUS
<1> USE TasksAssumption DEF LockTypeOK, Barriers
<1>1. ASSUME NEW t \in Tasks, Acquire(t) PROVE LockTypeOK'
  BY <1>1 DEF Acquire, RemoveDeadBarrier, Busy, BarrierPresent, BarrierAbsent, Create, Exists,
     WriteRecord, Register
<1>2. ASSUME NEW t \in Tasks, Reclaim(t) PROVE LockTypeOK'
  <2>1. CASE ReadClaim(t) \/ RemoveDeadClaim(t) \/ LiveClaim(t) \/ ClaimUnreadable(t)
    BY <2>1 DEF ReadClaim, RemoveDeadClaim, LiveClaim, ClaimUnreadable
  <2>2. CASE \/ CanCreateGuard(t) \/ CreateGuard(t) \/ WriteGuard(t) \/ GuardHeld(t)
             \/ GuardContended(t)
    BY <2>2 DEF CanCreateGuard, CreateGuard, WriteGuard, GuardHeld, GuardContended
  <2>3. CASE GuardExists(t) \/ ReadGuard(t) \/ GuardUnreadable(t) \/ GuardBusy(t)
    BY <2>3 DEF GuardExists, ReadGuard, GuardUnreadable, GuardBusy
  <2>4. CASE ClaimGuard(t)
    BY <2>4 DEF ClaimGuard
  <2>5. CASE \/ LockGone(t) \/ ReadLock(t) \/ LockActive(t) \/ JudgeLock(t)
             \/ ReadMalformed(t) \/ LockYoung(t) \/ LockOld(t)
    BY <2>5 DEF LockGone, ReadLock, LockActive, JudgeLock, ReadMalformed, LockYoung, LockOld
  <2>6. CASE ClaimLock(t) \/ RemoveClaim(t) \/ RestoreClaim(t) \/ LeaveClaim(t)
    BY <2>6 DEF ClaimLock, RemoveClaim, RestoreClaim, LeaveClaim
  <2>7. CASE \/ Withdraw(t, "retreat", "start") \/ Withdraw(t, "reclaimed", "start")
             \/ Withdraw(t, "abandon", "failed")
    BY <2>7 DEF Withdraw
  <2> QED
    BY <1>2, <2>1, <2>2, <2>3, <2>4, <2>5, <2>6, <2>7 DEF Reclaim
<1>3. ASSUME NEW t \in Tasks, LetGo(t) PROVE LockTypeOK'
  BY <1>3 DEF LetGo, ReleaseLock, ReadOwned, NotOwned, Unlink
<1>4. ASSUME NEW p \in Procs, ProcessDies(p) \/ ProcessEnds(p) PROVE LockTypeOK'
  BY <1>4 DEF ProcessDies, ProcessEnds, Gone
<1>5. CASE UNCHANGED lockVars
  BY <1>5
<1> QED
  BY <1>1, <1>2, <1>3, <1>4, <1>5 DEF LockNext

\* A live reclaimer's guard file is only ever renamed by the others, and while it is
\* about under any name, nobody else comes to hold the guard.
LEMMA GuardNext == GuardInv /\ [LockNext]_lockVars => GuardPresent' /\ GuardExclusive'
<1> SUFFICES ASSUME GuardInv, [LockNext]_lockVars PROVE GuardPresent' /\ GuardExclusive'
  OBVIOUS
<1> USE TasksAssumption DEF GuardInv, LockTypeOK, GuardPresent, GuardExclusive, Guarded,
     Reclaiming,
    Alive, GuardAlive, Barriers
<1>1. ASSUME NEW t \in Tasks, Acquire(t) PROVE GuardPresent' /\ GuardExclusive'
  BY <1>1 DEF Acquire, RemoveDeadBarrier, Busy, BarrierPresent, BarrierAbsent, Create, Exists,
     WriteRecord, Register
<1>2. ASSUME NEW t \in Tasks, Reclaim(t) PROVE GuardPresent' /\ GuardExclusive'
  <2>1. CASE ReadClaim(t) \/ RemoveDeadClaim(t) \/ LiveClaim(t) \/ ClaimUnreadable(t)
    BY <2>1 DEF ReadClaim, RemoveDeadClaim, LiveClaim, ClaimUnreadable
  <2>2. CASE CanCreateGuard(t) \/ CreateGuard(t) \/ WriteGuard(t) \/ GuardContended(t)
    BY <2>2 DEF CanCreateGuard, CreateGuard, WriteGuard, GuardContended
  <2>3. CASE GuardHeld(t)
    <3>1. t \in Barriers /\ aside = {}
      BY <2>3 DEF GuardHeld
    <3>2. \A u \in Tasks : Alive(u) /\ pc[u] \in Guarded => u = t
      BY <3>1
    <3> QED
      BY <2>3, <3>2 DEF GuardHeld
  <2>4. CASE GuardExists(t) \/ ReadGuard(t) \/ GuardUnreadable(t) \/ GuardBusy(t)
    BY <2>4 DEF GuardExists, ReadGuard, GuardUnreadable, GuardBusy
  <2>5. CASE ClaimGuard(t)
    BY <2>5 DEF ClaimGuard
  <2>6. CASE \/ LockGone(t) \/ ReadLock(t) \/ LockActive(t) \/ JudgeLock(t)
             \/ ReadMalformed(t) \/ LockYoung(t) \/ LockOld(t)
    BY <2>6 DEF LockGone, ReadLock, LockActive, JudgeLock, ReadMalformed, LockYoung, LockOld
  <2>7. CASE ClaimLock(t) \/ RemoveClaim(t) \/ RestoreClaim(t) \/ LeaveClaim(t)
    BY <2>7 DEF ClaimLock, RemoveClaim, RestoreClaim, LeaveClaim
  <2>8. CASE \/ Withdraw(t, "retreat", "start") \/ Withdraw(t, "reclaimed", "start")
             \/ Withdraw(t, "abandon", "failed")
    BY <2>8 DEF Withdraw
  <2> QED
    BY <1>2, <2>1, <2>2, <2>3, <2>4, <2>5, <2>6, <2>7, <2>8 DEF Reclaim
<1>3. ASSUME NEW t \in Tasks, LetGo(t) PROVE GuardPresent' /\ GuardExclusive'
  BY <1>3 DEF LetGo, ReleaseLock, ReadOwned, NotOwned, Unlink
<1>4. ASSUME NEW p \in Procs, ProcessDies(p) \/ ProcessEnds(p)
     PROVE GuardPresent' /\ GuardExclusive'
  BY <1>4 DEF ProcessDies, ProcessEnds, Gone
<1>5. CASE UNCHANGED lockVars
  BY <1>5
<1> QED
  BY <1>1, <1>2, <1>3, <1>4, <1>5 DEF LockNext

LEMMA GuardInductive == LockSpec => []GuardInv
<1>1. GuardInv /\ [LockNext]_lockVars => GuardInv'
  BY LockTypedNext, GuardNext DEF GuardInv
<1> QED
  BY GuardInvInit, <1>1, PTL DEF LockSpec

\* Every variable of the lock keeps its type, whoever dies and whatever is renamed.
THEOREM LockTypeCorrect == LockSpec => []LockTypeOK
BY GuardInductive, PTL DEF GuardInv

\* One reclaimer at a time inspects, renames or restores the lock file: for any number of
\* calls in any processes, with guards of dead and competing reclaimers renamed at will.
THEOREM GuardIsExclusive == LockSpec => []GuardExclusive
BY GuardInductive, PTL DEF GuardInv

\* Who is past its second look for barriers has its record in its lock file; and a
\* reclaimer of another process that came after it has read that record.
Recorded == \A u \in Tasks : pc[u] \in {"written"} \cup Secured => u \in ownerRecord
Spared ==
  \A t, u \in Tasks :
    /\ ProcOf[t] # ProcOf[u] /\ lockFile = u /\ Alive(u) /\ pc[u] \in Secured /\ Alive(t)
    => /\ pc[t] \notin {"malformed", "judged", "claimed"}
       /\ pc[t] = "lockRead" => judged[t] = u

SparedInv == GuardInv /\ Recorded /\ Spared

LEMMA SparedNext == SparedInv /\ [LockNext]_lockVars => Recorded' /\ Spared'
<1> SUFFICES ASSUME SparedInv, [LockNext]_lockVars PROVE Recorded' /\ Spared'
  OBVIOUS
<1> USE TasksAssumption DEF SparedInv, GuardInv, LockTypeOK, Recorded, Spared, Secured, Alive
<1>1. ASSUME NEW t \in Tasks, Acquire(t) PROVE Recorded' /\ Spared'
  <2>1. CASE \/ RemoveDeadBarrier(t) \/ Busy(t) \/ BarrierAbsent(t, "start", "create")
             \/ BarrierPresent(t, "written", "withdraw")
    BY <2>1 DEF RemoveDeadBarrier, Busy, BarrierAbsent, BarrierPresent
  <2>2. CASE Create(t) \/ Exists(t) \/ WriteRecord(t) \/ Register(t)
    BY <2>2 DEF Create, Exists, WriteRecord, Register
  <2>3. CASE BarrierAbsent(t, "written", "syncing")
    <3>1. \A u \in Tasks : Alive(u) => pc[u] \notin Reclaiming
      BY <2>3 DEF BarrierAbsent, GuardPresent, Guarded
    <3> QED
      BY <2>3, <3>1 DEF BarrierAbsent, Reclaiming
  <2> QED
    BY <1>1, <2>1, <2>2, <2>3 DEF Acquire
<1>2. ASSUME NEW t \in Tasks, Reclaim(t) PROVE Recorded' /\ Spared'
  <2>1. CASE ReadClaim(t) \/ RemoveDeadClaim(t) \/ LiveClaim(t) \/ ClaimUnreadable(t)
    BY <2>1 DEF ReadClaim, RemoveDeadClaim, LiveClaim, ClaimUnreadable
  <2>2. CASE \/ CanCreateGuard(t) \/ CreateGuard(t) \/ WriteGuard(t) \/ GuardHeld(t)
             \/ GuardContended(t)
    BY <2>2 DEF CanCreateGuard, CreateGuard, WriteGuard, GuardHeld, GuardContended
  <2>3. CASE GuardExists(t) \/ ReadGuard(t) \/ GuardUnreadable(t) \/ GuardBusy(t)
    BY <2>3 DEF GuardExists, ReadGuard, GuardUnreadable, GuardBusy
  <2>4. CASE ClaimGuard(t)
    BY <2>4 DEF ClaimGuard
  <2>5. CASE LockGone(t) \/ ReadLock(t) \/ LockActive(t) \/ LockYoung(t) \/ LockOld(t)
    BY <2>5 DEF LockGone, ReadLock, LockActive, LockYoung, LockOld
  <2>6. CASE JudgeLock(t)
    BY <2>6 DEF JudgeLock, OwnerActive
  <2>7. CASE ReadMalformed(t)
    BY <2>7 DEF ReadMalformed
  <2>8. CASE ClaimLock(t) \/ RemoveClaim(t) \/ LeaveClaim(t)
    BY <2>8 DEF ClaimLock, RemoveClaim, LeaveClaim
  <2>9. CASE RestoreClaim(t)
    <3>1. \A u \in Tasks : Alive(u) /\ pc[u] \in Reclaiming => u = t
      BY <2>9 DEF RestoreClaim, GuardExclusive, Reclaiming
    <3>2. Recorded'
      BY <2>9 DEF RestoreClaim
    <3>3. \A u \in Tasks : u # t /\ Alive(u) =>
            pc[u] \notin {"malformed", "judged", "claimed", "lockRead"}
      BY <3>1 DEF Reclaiming
    <3>4. pc' = [pc EXCEPT ![t] = "retreat"] /\ dead' = dead
      BY <2>9 DEF RestoreClaim
    <3> QED
      BY <3>2, <3>3, <3>4
  <2>10. CASE \/ Withdraw(t, "retreat", "start") \/ Withdraw(t, "reclaimed", "start")
              \/ Withdraw(t, "abandon", "failed")
    BY <2>10 DEF Withdraw
  <2> QED
    BY <1>2, <2>1, <2>2, <2>3, <2>4, <2>5, <2>6, <2>7, <2>8, <2>9, <2>10 DEF Reclaim
<1>3. ASSUME NEW t \in Tasks, LetGo(t) PROVE Recorded' /\ Spared'
  BY <1>3 DEF LetGo, ReleaseLock, ReadOwned, NotOwned, Unlink
<1>4. ASSUME NEW p \in Procs, ProcessDies(p) \/ ProcessEnds(p) PROVE Recorded' /\ Spared'
  BY <1>4 DEF ProcessDies, ProcessEnds, Gone
<1>5. CASE UNCHANGED lockVars
  BY <1>5
<1> QED
  BY <1>1, <1>2, <1>3, <1>4, <1>5 DEF LockNext

\* Past its second look for barriers a live call is safe from the reclaimers of other
\* processes: none of them renames its lock file away or puts another one over it, for any
\* number of calls and processes, whoever dies or ends and whatever names guards have.
THEOREM ReclaimersSpare == LockSpec => ReclaimSpares
<1>1. LockInit => SparedInv
  <2>1. LockInit => Recorded /\ Spared
    BY TasksAssumption DEF LockInit, Recorded, Spared, Secured
  <2> QED
    BY <2>1, GuardInvInit DEF SparedInv
<1>2. SparedInv /\ [LockNext]_lockVars => SparedInv'
  BY LockTypedNext, GuardNext, SparedNext DEF SparedInv, GuardInv
<1>3. SparedInv =>
        \A u \in Tasks \cap {lockFile} : Alive(u) /\ pc[u] \in Secured =>
          \A t \in Tasks :
            /\ pc[t] \in {"judged", "claimed"} /\ pc'[t] # pc[t]
            /\ Alive(t) /\ ProcOf[t] # ProcOf[u]
            => lockFile' = u
  BY DEF SparedInv, Spared
<1> QED
  BY <1>1, <1>2, <1>3, PTL DEF LockSpec, ReclaimSpares

\* What the guard cannot promise: whoever renames a lock file away takes that of a dead
\* process, and the one that was judged (or one without a record).  Three kinds of calls
\* break it: the registry does not know a call of the same process that has not registered
\* yet or is releasing, and between judging and renaming the file may have been replaced.
TakesTheDead ==
  \A t \in Tasks : ClaimLock(t) /\ lockFile # NoOwner =>
    ~Alive(lockFile) /\ judged[t] \in {NoOwner, lockFile}

\* From creating its lock file to removing it, a call has it in place.
Owned == {"created", "written", "syncing", "held", "withdraw", "unlink"}
FilesInPlace == \A t \in Tasks : Alive(t) /\ pc[t] \in Owned => lockFile = t
ClaimsAreJudged ==
  \A t \in Tasks : Alive(t) /\ pc[t] = "claimed" => judged[t] \in {NoOwner, claim[t]}

FilesInv == LockTypeOK /\ FilesInPlace /\ ClaimsAreJudged

LEMMA FilesInvInit == LockInit => FilesInv
BY GuardInvInit DEF LockInit, GuardInv, FilesInv, FilesInPlace, ClaimsAreJudged, Owned

LEMMA FilesNext ==
  FilesInv /\ [LockNext /\ TakesTheDead]_lockVars => FilesInPlace' /\ ClaimsAreJudged'
<1> SUFFICES ASSUME FilesInv, [LockNext /\ TakesTheDead]_lockVars
             PROVE FilesInPlace' /\ ClaimsAreJudged'
  OBVIOUS
<1> USE TasksAssumption DEF FilesInv, LockTypeOK, FilesInPlace, ClaimsAreJudged, Owned, Alive
<1>1. ASSUME NEW t \in Tasks, Acquire(t) PROVE FilesInPlace' /\ ClaimsAreJudged'
  BY <1>1 DEF Acquire, RemoveDeadBarrier, Busy, BarrierPresent, BarrierAbsent, Create, Exists,
     WriteRecord, Register
<1>2. ASSUME NEW t \in Tasks, Reclaim(t), TakesTheDead
      PROVE FilesInPlace' /\ ClaimsAreJudged'
  <2>1. CASE ReadClaim(t) \/ RemoveDeadClaim(t) \/ LiveClaim(t) \/ ClaimUnreadable(t)
    BY <2>1 DEF ReadClaim, RemoveDeadClaim, LiveClaim, ClaimUnreadable
  <2>2. CASE \/ CanCreateGuard(t) \/ CreateGuard(t) \/ WriteGuard(t) \/ GuardHeld(t)
             \/ GuardContended(t)
    BY <2>2 DEF CanCreateGuard, CreateGuard, WriteGuard, GuardHeld, GuardContended
  <2>3. CASE GuardExists(t) \/ ReadGuard(t) \/ GuardUnreadable(t) \/ GuardBusy(t)
    BY <2>3 DEF GuardExists, ReadGuard, GuardUnreadable, GuardBusy
  <2>4. CASE ClaimGuard(t)
    BY <2>4 DEF ClaimGuard
  <2>5. CASE \/ LockGone(t) \/ ReadLock(t) \/ LockActive(t) \/ JudgeLock(t)
             \/ ReadMalformed(t) \/ LockYoung(t) \/ LockOld(t)
    BY <2>5 DEF LockGone, ReadLock, LockActive, JudgeLock, ReadMalformed, LockYoung, LockOld
  <2>6. CASE ClaimLock(t)
    <3>1. lockFile # NoOwner => ~Alive(lockFile) /\ judged[t] \in {NoOwner, lockFile}
      BY <1>2, <2>6 DEF TakesTheDead
    <3>2. \A u \in Tasks : Alive(u) => pc[u] \notin Owned
      BY <3>1
    <3> QED
      BY <2>6, <3>1, <3>2 DEF ClaimLock
  <2>7. CASE RemoveClaim(t) \/ RestoreClaim(t) \/ LeaveClaim(t)
    BY <2>7 DEF RemoveClaim, RestoreClaim, LeaveClaim
  <2>8. CASE \/ Withdraw(t, "retreat", "start") \/ Withdraw(t, "reclaimed", "start")
             \/ Withdraw(t, "abandon", "failed")
    BY <2>8 DEF Withdraw
  <2> QED
    BY <1>2, <2>1, <2>2, <2>3, <2>4, <2>5, <2>6, <2>7, <2>8 DEF Reclaim
<1>3. ASSUME NEW t \in Tasks, LetGo(t) PROVE FilesInPlace' /\ ClaimsAreJudged'
  BY <1>3 DEF LetGo, ReleaseLock, ReadOwned, NotOwned, Unlink
<1>4. ASSUME NEW p \in Procs, ProcessDies(p) \/ ProcessEnds(p)
      PROVE FilesInPlace' /\ ClaimsAreJudged'
  BY <1>4 DEF ProcessDies, ProcessEnds, Gone
<1>5. CASE UNCHANGED lockVars
  BY <1>5
<1> QED
  BY <1>1, <1>2, <1>3, <1>4, <1>5 DEF LockNext

\* As long as only the judged files of dead processes are renamed away, whoever holds the
\* lock has its own file in place, and so one call holds it: for any number of calls and
\* processes, with deaths at any point, the two files are enough.  That nothing else can
\* break the lock but the rename of reclaimStaleLock and reclaimInvalidLock is the point.
THEOREM HolderKeepsFile ==
  LockSpec /\ [][TakesTheDead]_lockVars => [](HolderHasFile /\ MutualExclusion)
<1>1. FilesInv /\ [LockNext]_lockVars /\ [TakesTheDead]_lockVars => FilesInv'
  BY FilesNext, LockTypedNext DEF FilesInv
<1>2. FilesInv => HolderHasFile /\ MutualExclusion
  BY DEF FilesInv, FilesInPlace, HolderHasFile, MutualExclusion, Holding, Owned
<1> QED
  BY FilesInvInit, <1>1, <1>2, PTL DEF LockSpec

-----------------------------------------------------------------------------
(* The candidate cache *)

\* A lock directory, what is published, and where a builder can be.
Dirs == [owner : Builders \cup {Ghost, Nobody}, old : BOOLEAN]
Candidates == [of : SourceDigests, whole : BOOLEAN]
Judging == {"judge", "restore", "rename", "marker", "tear", "sweep"}
Owning == Inside \cup {"recheck"}
CacheStages == {"claims", "mkdir", "owner", "observe", "claim"} \cup Judging \cup Owning \cup Finished

BuildRecords == [at : CacheStages, of : SourceDigests,
                 saw : Builders \cup {Ghost, Nobody}, result : BOOLEAN]

CacheTyped ==
  /\ builds \in [Builders -> BuildRecords]
  /\ cacheLock \in Dirs \cup {NoDir}
  /\ claimed \in [Builders -> Dirs \cup {NoDir}]
  /\ staging \in [Builders \cup {Ghost} -> {"none", "marked", "built", "sealed", "torn"}]
  /\ candidate \in Candidates \cup {NoDir}
  /\ moved \in BOOLEAN /\ robbed \in BOOLEAN /\ mishaps \in Nat

\* Who is inside, or about to be, is named in the lock; one builder at a time is about
\* to write its name.
LockNames ==
  /\ \A b \in Builders : builds[b].at \in Owning => cacheLock # NoDir /\ cacheLock.owner = b
  /\ \A b \in Builders : builds[b].at = "owner" => cacheLock # NoDir /\ cacheLock.owner = Nobody
  /\ \A b, c \in Builders : builds[b].at = "owner" /\ builds[c].at = "owner" => b = c

\* What is reclaimed belongs to the dead.
ClaimsTheDead ==
  /\ \A b \in Builders : builds[b].at = "claim" => ~ProcessIsAlive(builds[b].saw)
  /\ \A b \in Builders : claimed[b] # NoDir => ~ProcessIsAlive(claimed[b].owner)
  /\ \A b \in Builders : builds[b].at \in Judging => claimed[b] # NoDir

\* What is about to be published was sealed, and what is published was.
SealedFirst ==
  /\ \A b \in Builders : builds[b].at = "publish" => staging[b] = "sealed"
  /\ candidate # NoDir => candidate.whole

\* A builder is refused because the base moved, or other sources were built at the path.
Excused(b) == moved \/ \E c \in Builders : builds[c].of # builds[b].of

\* Who was told it has a candidate has it, unless there is an excuse.
Served ==
  /\ candidate # NoDir => \E b \in Builders : builds[b].of = candidate.of
  /\ \A b \in Builders : builds[b].at \in {"aside", "refused"} => Excused(b)
  /\ \A b \in Builders : builds[b].result =>
       Excused(b) \/ (candidate # NoDir /\ candidate.of = builds[b].of)
  /\ \A b \in Builders : builds[b].at = "report" => builds[b].result

\* While nobody dies, the only locks of the dead are those of an earlier day.
OfEarlier ==
  mishaps = 0 =>
    /\ cacheLock # NoDir => \/ cacheLock.owner \in {Ghost, Nobody}
                            \/ builds[cacheLock.owner].at \in Owning
    /\ \A b \in Builders : claimed[b] # NoDir =>
         builds[b].at \in Judging /\ claimed[b].owner \in {Ghost, Nobody}
    /\ \A b \in Builders : builds[b].at \in {"claim", "judge", "restore", "rename"} =>
         builds[b].saw \in {Ghost, Nobody}
    /\ \A b \in Builders : builds[b].at \in {"restore", "rename"} =>
         builds[b].saw \notin {Nobody, claimed[b].owner}

CacheInv ==
  CacheTyped /\ (~robbed => LockNames /\ ClaimsTheDead /\ SealedFirst /\ Served /\ OfEarlier)

USE DEF cacheVars

LEMMA Resumed ==
  ASSUME builds \in [Builders -> BuildRecords], NEW b \in Builders, Resumes(b)
  PROVE  builds' \in [Builders -> BuildRecords]
BY DEF Resumes, BuildRecords, CacheStages

LEMMA Looked ==
  ASSUME builds \in [Builders -> BuildRecords], NEW b \in Builders,
         NEW step \in CacheStages, NEW r \in BOOLEAN
  PROVE  [builds EXCEPT ![b].at = step, ![b].result = r] \in [Builders -> BuildRecords]
BY DEF BuildRecords

LEMMA DirTyped ==
  ASSUME NEW o \in Builders \cup {Ghost, Nobody}, NEW x \in BOOLEAN
  PROVE  [owner |-> o, old |-> x] \in Dirs
BY DEF Dirs

LEMMA CandidateTyped ==
  ASSUME NEW o \in SourceDigests, NEW x \in BOOLEAN
  PROVE  [of |-> o, whole |-> x] \in Candidates
BY DEF Candidates

LEMMA CacheTypedNext ==
  ASSUME CacheTyped, [CacheNext]_cacheVars
  PROVE  CacheTyped'
<1> USE CacheAssumption DEF CacheTyped, BuildRecords, Dirs, Candidates, CacheStages, Judging,
     Owning, Inside, Finished
<1>1. ASSUME NEW b \in Builders, LookForClaims(b) PROVE CacheTyped'
  BY <1>1 DEF LookForClaims, Goes, Resumes, Fails, ReclaimClaims
<1>2. ASSUME NEW b \in Builders, MakeLock(b) PROVE CacheTyped'
  <2>1. builds' \in [Builders -> BuildRecords]
    BY <1>2 DEF MakeLock, Goes
  <2>2. cacheLock' \in Dirs \cup {NoDir}
    <3>1. [owner |-> Nobody, old |-> FALSE] \in Dirs
      BY DirTyped
    <3> HIDE DEF Dirs
    <3> QED
      BY <1>2, <3>1 DEF MakeLock
  <2> QED
    BY <1>2, <2>1, <2>2 DEF MakeLock
<1>3. ASSUME NEW b \in Builders, WriteOwner(b) PROVE CacheTyped'
  <2>1. builds' \in [Builders -> BuildRecords]
    BY <1>3 DEF WriteOwner, Goes
  <2>2. cacheLock' \in Dirs \cup {NoDir}
    <3>1. [owner |-> b, old |-> FALSE] \in Dirs
      BY DirTyped
    <3> HIDE DEF Dirs
    <3> QED
      BY <1>3, <3>1 DEF WriteOwner
  <2> QED
    BY <1>3, <2>1, <2>2 DEF WriteOwner
<1>4. ASSUME NEW b \in Builders, Recheck(b) PROVE CacheTyped'
  BY <1>4 DEF Recheck, Goes, Resumes, Fails, ReclaimClaims
<1>5. ASSUME NEW b \in Builders, TimesOut(b) PROVE CacheTyped'
  BY <1>5 DEF TimesOut, Goes, Resumes, Fails, ReclaimClaims
<1>6. ASSUME NEW b \in Builders, Observe(b) PROVE CacheTyped'
  BY <1>6 DEF Observe, Goes, Resumes, Fails, ProcessIsAlive
<1>7. ASSUME NEW b \in Builders, Claim(b) PROVE CacheTyped'
  BY <1>7 DEF Claim, Goes, Resumes, Fails, ChangedHands, BeingMade
<1>8. ASSUME NEW b \in Builders, Judge(b) PROVE CacheTyped'
  BY <1>8 DEF Judge, Goes, Resumes, Fails, SameOwner
<1>9. ASSUME NEW b \in Builders, Wait(b) PROVE CacheTyped'
  BY <1>9 DEF Wait, Goes, Resumes, Fails
<1>10. ASSUME NEW b \in Builders, GiveUp(b) PROVE CacheTyped'
  <2>1. builds' \in [Builders -> BuildRecords]
    BY <1>10, Resumed DEF GiveUp
  <2>2. claimed' \in [Builders -> Dirs \cup {NoDir}]
    BY <1>10 DEF GiveUp
  <2> QED
    BY <1>10, <2>1, <2>2 DEF GiveUp
<1>11. ASSUME NEW b \in Builders, Restore(b) PROVE CacheTyped'
  BY <1>11 DEF Restore, Goes, Resumes, Fails, BeingMade
<1>12. ASSUME NEW b \in Builders, ReadMarker(b) PROVE CacheTyped'
  BY <1>12 DEF ReadMarker, Goes, Resumes, Fails
<1>13. ASSUME NEW b \in Builders, Tear(b) PROVE CacheTyped'
  <2>1. builds' \in [Builders -> BuildRecords]
    BY <1>13 DEF Tear, Goes
  <2>2. staging' \in [Builders \cup {Ghost} -> {"none", "marked", "built", "sealed", "torn"}]
    BY <1>13 DEF Tear
  <2> QED
    BY <1>13, <2>1, <2>2 DEF Tear
<1>14. ASSUME NEW b \in Builders, Sweep(b) PROVE CacheTyped'
  <2>1. builds' \in [Builders -> BuildRecords]
    BY <1>14, Resumed DEF Sweep
  <2>2. staging' \in [Builders \cup {Ghost} -> {"none", "marked", "built", "sealed", "torn"}]
    BY <1>14 DEF Sweep
  <2>3. claimed' \in [Builders -> Dirs \cup {NoDir}]
    BY <1>14 DEF Sweep
  <2> QED
    BY <1>14, <2>1, <2>2, <2>3 DEF Sweep
<1>15. ASSUME NEW b \in Builders, Verify(b) PROVE CacheTyped'
  <2>1. builds' \in [Builders -> BuildRecords]
    <3>1. Verified(b) \in BOOLEAN
      BY DEF Verified
    <3>2. PICK step \in CacheStages : builds' = [builds EXCEPT ![b].at = step, ![b].result = Verified(b)]
      BY <1>15 DEF Verify
    <3> HIDE DEF BuildRecords
    <3> QED
      BY <3>1, <3>2, Looked
  <2> QED
    BY <1>15, <2>1 DEF Verify
<1>16. ASSUME NEW b \in Builders, SetAside(b) PROVE CacheTyped'
  BY <1>16 DEF SetAside, Goes, Resumes, Fails
<1>17. ASSUME NEW b \in Builders, Stage(b) PROVE CacheTyped'
  BY <1>17 DEF Stage, Goes, Resumes, Fails
<1>18. ASSUME NEW b \in Builders, BuildLayer(b) PROVE CacheTyped'
  BY <1>18 DEF BuildLayer, Goes, Resumes, Fails
<1>19. ASSUME NEW b \in Builders, Seal(b) PROVE CacheTyped'
  BY <1>19 DEF Seal, Goes, Resumes, Fails
<1>20. ASSUME NEW b \in Builders, PublishCandidate(b) PROVE CacheTyped'
  <2>1. builds' \in [Builders -> BuildRecords]
    BY <1>20 DEF PublishCandidate, Fails
  <2>2. candidate' \in Candidates \cup {NoDir}
    <3>1. builds[b].of \in SourceDigests /\ (staging[b] = "sealed") \in BOOLEAN
      OBVIOUS
    <3>2. [of |-> builds[b].of, whole |-> staging[b] = "sealed"] \in Candidates
      BY <3>1, CandidateTyped
    <3> HIDE DEF Candidates, BuildRecords
    <3> QED
      BY <1>20, <3>2 DEF PublishCandidate
  <2>3. staging' \in [Builders \cup {Ghost} -> {"none", "marked", "built", "sealed", "torn"}]
    BY <1>20 DEF PublishCandidate, Fails
  <2> QED
    BY <1>20, <2>1, <2>2, <2>3 DEF PublishCandidate
<1>21. ASSUME NEW b \in Builders, ReleaseCacheLock(b) PROVE CacheTyped'
  BY <1>21 DEF ReleaseCacheLock, Goes, Resumes, Fails
<1>22. ASSUME NEW b \in Builders, Accept(b) PROVE CacheTyped'
  BY <1>22 DEF Accept, Goes, Resumes, Fails, Verified
<1>23. ASSUME NEW b \in Builders, BuilderDies(b) PROVE CacheTyped'
  BY <1>23 DEF BuilderDies, Goes, Resumes, Fails
<1>24. CASE MinutePasses \/ MoveBase \/ UNCHANGED cacheVars
  <2>1. CASE MinutePasses
    <3>1. [cacheLock EXCEPT !.old = TRUE] \in Dirs
      BY <2>1 DEF MinutePasses
    <3> HIDE DEF Dirs, BuildRecords, Candidates
    <3> QED
      BY <2>1, <3>1 DEF MinutePasses
  <2>2. CASE MoveBase
    BY <2>2 DEF MoveBase
  <2>3. CASE UNCHANGED cacheVars
    BY <2>3
  <2> QED
    BY <1>24, <2>1, <2>2, <2>3
<1> QED
  BY <1>1, <1>2, <1>3, <1>4, <1>5, <1>6, <1>7, <1>8, <1>9, <1>10, <1>11, <1>12, <1>13, <1>14,
     <1>15, <1>16, <1>17, <1>18, <1>19, <1>20, <1>21, <1>22, <1>23, <1>24 DEF CacheNext

LEMMA Moves ==
  ASSUME CacheTyped, NEW b \in Builders, NEW step, Goes(b, step)
  PROVE  /\ \A c \in Builders \ {b} : builds'[c] = builds[c]
         /\ builds'[b].at = step /\ builds'[b].saw = builds[b].saw
BY DEF CacheTyped, BuildRecords, Goes

LEMMA MovesBack ==
  ASSUME CacheTyped, NEW b \in Builders, Resumes(b)
  PROVE  /\ \A c \in Builders \ {b} : builds'[c] = builds[c]
         /\ builds'[b].at = "claims"
BY DEF CacheTyped, BuildRecords, Resumes

LEMMA LockTyped ==
  /\ CacheTyped /\ cacheLock # NoDir => cacheLock.owner \in Builders \cup {Ghost, Nobody}
  /\ \A o \in Builders \cup {Ghost, Nobody}, x \in BOOLEAN :
       [owner |-> o, old |-> x] # NoDir /\ [owner |-> o, old |-> x].owner = o
BY CacheAssumption DEF CacheTyped, Dirs

\* Who builds stays inside, and leaves the lock and the claims alone.
LEMMA Building ==
  ASSUME CacheTyped, NEW b \in Builders,
         Verify(b) \/ SetAside(b) \/ Stage(b) \/ BuildLayer(b) \/ Seal(b) \/
         PublishCandidate(b)
  PROVE  /\ \A c \in Builders \ {b} : builds'[c] = builds[c]
         /\ builds[b].at \in Inside /\ builds'[b].at \in Inside
         /\ UNCHANGED <<cacheLock, claimed, mishaps>>
<1> USE DEF CacheTyped, BuildRecords, Inside, Goes, Resumes, Fails
<1>1. CASE Verify(b)
  BY <1>1 DEF Verify
<1>2. CASE SetAside(b)
  BY <1>2 DEF SetAside
<1>3. CASE Stage(b)
  BY <1>3 DEF Stage
<1>4. CASE BuildLayer(b)
  BY <1>4 DEF BuildLayer
<1>5. CASE Seal(b)
  BY <1>5 DEF Seal
<1>6. CASE PublishCandidate(b)
  BY <1>6 DEF PublishCandidate
<1> QED
  BY <1>1, <1>2, <1>3, <1>4, <1>5, <1>6

\* Who deals with the lock leaves the candidate alone.
LEMMA LockingOnly ==
  ASSUME CacheTyped, NEW b \in Builders,
         LookForClaims(b) \/ MakeLock(b) \/ WriteOwner(b) \/ Recheck(b) \/
         TimesOut(b) \/ Observe(b) \/ Claim(b) \/ Judge(b) \/ Wait(b) \/ GiveUp(b) \/
         Restore(b) \/ ReadMarker(b) \/ Tear(b) \/ Sweep(b) \/ BuilderDies(b)
  PROVE  /\ \A c \in Builders \ {b} : builds'[c] = builds[c]
         /\ builds'[b].of = builds[b].of /\ builds'[b].result = builds[b].result
         /\ builds'[b].at \notin {"publish", "aside", "report", "refused"}
         /\ UNCHANGED <<candidate, moved>>
<1> USE DEF CacheTyped, BuildRecords, Inside, Finished, Goes, Resumes, Fails
<1>1. CASE LookForClaims(b)
  BY <1>1 DEF LookForClaims
<1>2. CASE MakeLock(b)
  BY <1>2 DEF MakeLock
<1>3. CASE WriteOwner(b)
  BY <1>3 DEF WriteOwner
<1>4. CASE Recheck(b)
  BY <1>4 DEF Recheck
<1>5. CASE TimesOut(b)
  BY <1>5 DEF TimesOut
<1>6. CASE Observe(b)
  BY <1>6 DEF Observe
<1>7. CASE Claim(b)
  BY <1>7 DEF Claim
<1>8. CASE Judge(b)
  BY <1>8 DEF Judge
<1>9. CASE Wait(b)
  BY <1>9 DEF Wait
<1>10. CASE GiveUp(b)
  BY <1>10 DEF GiveUp
<1>11. CASE Restore(b)
  BY <1>11 DEF Restore
<1>12. CASE ReadMarker(b)
  BY <1>12 DEF ReadMarker
<1>13. CASE Tear(b)
  BY <1>13 DEF Tear
<1>14. CASE Sweep(b)
  BY <1>14 DEF Sweep
<1>15. CASE BuilderDies(b)
  BY <1>15 DEF BuilderDies
<1> QED
  BY <1>1, <1>2, <1>3, <1>4, <1>5, <1>6, <1>7, <1>8, <1>9, <1>10, <1>11, <1>12, <1>13, <1>14,
     <1>15

LEMMA LockNamesNext ==
  ASSUME CacheTyped, ~robbed', LockNames, ClaimsTheDead, [CacheNext]_cacheVars
  PROVE  LockNames'
<1> USE CacheAssumption DEF LockNames, ClaimsTheDead, ProcessIsAlive, CacheStages, Judging,
     Owning, Inside, Finished
<1>1. ASSUME NEW b \in Builders, LookForClaims(b) PROVE LockNames'
  BY <1>1, Moves, MovesBack DEF LookForClaims, ReclaimClaims
<1>2. ASSUME NEW b \in Builders, MakeLock(b) PROVE LockNames'
  <2>1. CASE cacheLock = NoDir
    <3>1. Goes(b, "owner") /\ cacheLock' = [owner |-> Nobody, old |-> FALSE]
      BY <1>2, <2>1 DEF MakeLock
    <3>2. cacheLock' # NoDir /\ cacheLock'.owner = Nobody
      BY <3>1, LockTyped
    <3>3. \A c \in Builders \ {b} : builds'[c].at \notin Owning \cup {"owner"}
      BY <2>1, <3>1, Moves
    <3> QED
      BY <3>1, <3>2, <3>3, Moves
  <2>2. CASE cacheLock # NoDir
    <3>1. Goes(b, "observe") /\ cacheLock' = cacheLock
      BY <1>2, <2>2 DEF MakeLock
    <3> QED
      BY <3>1, Moves
  <2> QED
    BY <2>1, <2>2
<1>3. ASSUME NEW b \in Builders, WriteOwner(b) PROVE LockNames'
  <2>1. cacheLock # NoDir /\ cacheLock.owner = Nobody
    BY <1>3 DEF WriteOwner
  <2>2. Goes(b, "recheck") /\ cacheLock' = [owner |-> b, old |-> FALSE]
    BY <1>3, <2>1 DEF WriteOwner
  <2>3. cacheLock' # NoDir /\ cacheLock'.owner = b
    BY <2>2, LockTyped
  <2>4. \A c \in Builders \ {b} : builds'[c].at \notin Owning \cup {"owner"}
    BY <1>3, <2>1, <2>2, Moves DEF WriteOwner
  <2> QED
    BY <2>2, <2>3, <2>4, Moves
<1>4. ASSUME NEW b \in Builders, Recheck(b) PROVE LockNames'
  <2>1. \A c \in Builders \ {b} : builds[c].at \notin Owning \cup {"owner"}
    BY <1>4 DEF Recheck
  <2>2. CASE ReclaimClaims = {}
    <3>1. Goes(b, "verify") /\ cacheLock' = cacheLock
      BY <1>4, <2>2 DEF Recheck
    <3>2. cacheLock # NoDir /\ cacheLock.owner = b
      BY <1>4 DEF Recheck
    <3> QED
      BY <2>1, <3>1, <3>2, Moves
  <2>3. CASE ReclaimClaims # {}
    <3>1. Goes(b, "claims")
      BY <1>4, <2>3 DEF Recheck
    <3> QED
      BY <2>1, <3>1, Moves
  <2> QED
    BY <2>2, <2>3
<1>5. ASSUME NEW b \in Builders, TimesOut(b) PROVE LockNames'
  BY <1>5, Moves, MovesBack DEF TimesOut, ReclaimClaims
<1>6. ASSUME NEW b \in Builders, Observe(b) PROVE LockNames'
  <2>1. /\ \A c \in Builders \ {b} : builds'[c] = builds[c]
        /\ builds'[b].at = "claims" \/ (builds'[b].at = "claim" /\ ~ProcessIsAlive(builds'[b].saw))
        /\ builds[b].at = "observe"
    BY <1>6 DEF Observe, Resumes, CacheTyped, BuildRecords
  <2>2. cacheLock' = cacheLock
    BY <1>6 DEF Observe
  <2> QED
    BY <2>1, <2>2
<1>7. ASSUME NEW b \in Builders, Claim(b) PROVE LockNames'
  <2>1. CASE cacheLock = NoDir
    <3>1. Resumes(b) /\ cacheLock' = cacheLock
      BY <1>7, <2>1 DEF Claim
    <3> QED
      BY <3>1, MovesBack
  <2>2. CASE cacheLock # NoDir
    <3>1. Goes(b, "judge") /\ ~ChangedHands(b) /\ builds[b].at = "claim"
      BY <1>7, <2>2 DEF Claim
    <3>2. ~ProcessIsAlive(cacheLock.owner)
      BY <3>1 DEF ChangedHands
    <3>3. \A c \in Builders : builds[c].at \notin Owning \cup {"owner"}
      BY <2>2, <3>1, <3>2 DEF ChangedHands, BeingMade
    <3> QED
      BY <3>1, <3>3, Moves
  <2> QED
    BY <2>1, <2>2
<1>8. ASSUME NEW b \in Builders, Judge(b) PROVE LockNames'
  BY <1>8, Moves, MovesBack DEF Judge, SameOwner
<1>9. ASSUME NEW b \in Builders, Wait(b) PROVE LockNames'
  BY <1>9, Moves, MovesBack DEF Wait
<1>10. ASSUME NEW b \in Builders, GiveUp(b) PROVE LockNames'
  BY <1>10, Moves, MovesBack DEF GiveUp
<1>11. ASSUME NEW b \in Builders, Restore(b) PROVE LockNames'
  <2>1. \A c \in Builders \ {b} : builds'[c] = builds[c]
    BY <1>11 DEF Restore, Resumes, CacheTyped, BuildRecords
  <2>2. builds'[b].at \in {"claims", "failed"}
    BY <1>11 DEF Restore, Resumes, CacheTyped, BuildRecords
  <2>3. CASE cacheLock = NoDir \/ cacheLock.owner = Nobody
    <3>1. \A c \in Builders : builds[c].at \notin Owning \cup {"owner"}
      BY <1>11, <2>3, CacheAssumption DEF Restore, BeingMade
    <3> QED
      BY <2>1, <2>2, <3>1
  <2>4. CASE ~(cacheLock = NoDir \/ cacheLock.owner = Nobody)
    <3>1. cacheLock' = cacheLock
      BY <1>11, <2>4 DEF Restore
    <3> QED
      BY <2>1, <2>2, <3>1
  <2> QED
    BY <2>3, <2>4
<1>12. ASSUME NEW b \in Builders, ReadMarker(b) PROVE LockNames'
  BY <1>12, Moves, MovesBack DEF ReadMarker
<1>13. ASSUME NEW b \in Builders, Tear(b) PROVE LockNames'
  BY <1>13, Moves, MovesBack DEF Tear
<1>14. ASSUME NEW b \in Builders, Sweep(b) PROVE LockNames'
  BY <1>14, Moves, MovesBack DEF Sweep
<1>15. ASSUME NEW b \in Builders, ReleaseCacheLock(b) PROVE LockNames'
  BY <1>15, Moves, MovesBack DEF ReleaseCacheLock
<1>16. ASSUME NEW b \in Builders, Accept(b) PROVE LockNames'
  BY <1>16, Moves, MovesBack DEF Accept, Verified
<1>17. ASSUME NEW b \in Builders, BuilderDies(b) PROVE LockNames'
  BY <1>17, Moves, MovesBack DEF BuilderDies
<1>18. CASE MinutePasses \/ MoveBase \/ UNCHANGED cacheVars
  <2>1. CASE MinutePasses
    <3>1. cacheLock' # NoDir /\ cacheLock'.owner = cacheLock.owner
      BY <2>1 DEF MinutePasses, CacheTyped, Dirs
    <3> QED
      BY <2>1, <3>1 DEF MinutePasses
  <2> QED
    BY <1>18, <2>1 DEF MoveBase
<1>19. ASSUME NEW b \in Builders,
              Verify(b) \/ SetAside(b) \/ Stage(b)
              \/ BuildLayer(b) \/ Seal(b) \/ PublishCandidate(b)
      PROVE  LockNames'
  BY <1>19, Building
<1> QED
  BY <1>1, <1>2, <1>3, <1>4, <1>5, <1>6, <1>7, <1>8, <1>9, <1>10, <1>11, <1>12, <1>13, <1>14,
     <1>15, <1>16, <1>17, <1>18, <1>19 DEF CacheNext

LEMMA ClaimsTheDeadNext ==
  ASSUME CacheTyped, ~robbed', LockNames, ClaimsTheDead, [CacheNext]_cacheVars
  PROVE  ClaimsTheDead'
<1> USE CacheAssumption DEF LockNames, ClaimsTheDead, ProcessIsAlive, CacheStages, Judging,
     Owning, Inside, Finished
<1>1. ASSUME NEW b \in Builders, LookForClaims(b) PROVE ClaimsTheDead'
  BY <1>1, Moves, MovesBack DEF LookForClaims, ReclaimClaims
<1>2. ASSUME NEW b \in Builders, MakeLock(b) PROVE ClaimsTheDead'
  BY <1>2, Moves, MovesBack DEF MakeLock
<1>3. ASSUME NEW b \in Builders, WriteOwner(b) PROVE ClaimsTheDead'
  BY <1>3, Moves, MovesBack DEF WriteOwner
<1>4. ASSUME NEW b \in Builders, Recheck(b) PROVE ClaimsTheDead'
  BY <1>4, Moves, MovesBack DEF Recheck, ReclaimClaims
<1>5. ASSUME NEW b \in Builders, TimesOut(b) PROVE ClaimsTheDead'
  BY <1>5, Moves, MovesBack DEF TimesOut, ReclaimClaims
<1>6. ASSUME NEW b \in Builders, Observe(b) PROVE ClaimsTheDead'
  <2>1. /\ \A c \in Builders \ {b} : builds'[c] = builds[c]
        /\ builds'[b].at = "claims" \/ (builds'[b].at = "claim" /\ ~ProcessIsAlive(builds'[b].saw))
        /\ builds[b].at = "observe"
    BY <1>6 DEF Observe, Resumes, CacheTyped, BuildRecords
  <2>2. claimed' = claimed
    BY <1>6 DEF Observe
  <2> QED
    BY <2>1, <2>2
<1>7. ASSUME NEW b \in Builders, Claim(b) PROVE ClaimsTheDead'
  <2>1. CASE cacheLock = NoDir
    <3>1. Resumes(b) /\ claimed' = claimed
      BY <1>7, <2>1 DEF Claim
    <3> QED
      BY <1>7, <3>1, MovesBack DEF Claim
  <2>2. CASE cacheLock # NoDir
    <3>1. Goes(b, "judge") /\ ~ChangedHands(b) /\ builds[b].at = "claim"
      BY <1>7, <2>2 DEF Claim
    <3>2. ~ProcessIsAlive(cacheLock.owner)
      BY <3>1 DEF ChangedHands
    <3>3. claimed' = [claimed EXCEPT ![b] = cacheLock]
      BY <1>7, <2>2 DEF Claim
    <3>4. claimed'[b] = cacheLock /\ \A c \in Builders \ {b} : claimed'[c] = claimed[c]
      BY <3>3 DEF CacheTyped
    <3> QED
      BY <2>2, <3>1, <3>2, <3>4, Moves
  <2> QED
    BY <2>1, <2>2
<1>8. ASSUME NEW b \in Builders, Judge(b) PROVE ClaimsTheDead'
  BY <1>8, Moves, MovesBack DEF Judge, SameOwner
<1>9. ASSUME NEW b \in Builders, Wait(b) PROVE ClaimsTheDead'
  BY <1>9, Moves, MovesBack DEF Wait
<1>10. ASSUME NEW b \in Builders, GiveUp(b) PROVE ClaimsTheDead'
  <2>1. /\ \A c \in Builders \ {b} : claimed'[c] = claimed[c]
        /\ claimed'[b] \in {NoDir, claimed[b]}
    BY <1>10 DEF GiveUp, CacheTyped
  <2> QED
    BY <1>10, <2>1, MovesBack DEF GiveUp
<1>11. ASSUME NEW b \in Builders, Restore(b) PROVE ClaimsTheDead'
  <2>1. /\ \A c \in Builders \ {b} : builds'[c] = builds[c] /\ claimed'[c] = claimed[c]
        /\ builds'[b].at \in {"claims", "failed"} /\ builds[b].at = "rename"
    BY <1>11 DEF Restore, Resumes, CacheTyped, BuildRecords
  <2>2. claimed'[b] \in {NoDir, claimed[b]}
    BY <1>11 DEF Restore, CacheTyped
  <2> QED
    BY <2>1, <2>2
<1>12. ASSUME NEW b \in Builders, ReadMarker(b) PROVE ClaimsTheDead'
  BY <1>12, Moves, MovesBack DEF ReadMarker
<1>13. ASSUME NEW b \in Builders, Tear(b) PROVE ClaimsTheDead'
  BY <1>13, Moves, MovesBack DEF Tear
<1>14. ASSUME NEW b \in Builders, Sweep(b) PROVE ClaimsTheDead'
  <2>1. /\ Resumes(b) /\ builds[b].at = "sweep"
        /\ claimed'[b] = NoDir /\ \A c \in Builders \ {b} : claimed'[c] = claimed[c]
    BY <1>14 DEF Sweep, CacheTyped
  <2> QED
    BY <2>1, MovesBack
<1>15. ASSUME NEW b \in Builders, ReleaseCacheLock(b) PROVE ClaimsTheDead'
  BY <1>15, Moves, MovesBack DEF ReleaseCacheLock
<1>16. ASSUME NEW b \in Builders, Accept(b) PROVE ClaimsTheDead'
  BY <1>16, Moves, MovesBack DEF Accept, Verified
<1>17. ASSUME NEW b \in Builders, BuilderDies(b) PROVE ClaimsTheDead'
  BY <1>17, Moves, MovesBack DEF BuilderDies
<1>18. CASE MinutePasses \/ MoveBase \/ UNCHANGED cacheVars
  BY <1>18 DEF MinutePasses, MoveBase
<1>19. ASSUME NEW b \in Builders,
              Verify(b) \/ SetAside(b) \/ Stage(b)
              \/ BuildLayer(b) \/ Seal(b) \/ PublishCandidate(b)
      PROVE  ClaimsTheDead'
  BY <1>19, Building
<1> QED
  BY <1>1, <1>2, <1>3, <1>4, <1>5, <1>6, <1>7, <1>8, <1>9, <1>10, <1>11, <1>12, <1>13, <1>14,
     <1>15, <1>16, <1>17, <1>18, <1>19 DEF CacheNext

LEMMA SealedFirstNext ==
  ASSUME CacheTyped, ~robbed', ClaimsTheDead, SealedFirst, [CacheNext]_cacheVars
  PROVE  SealedFirst'
<1> USE CacheAssumption DEF SealedFirst, ClaimsTheDead, ProcessIsAlive, CacheStages, Judging,
     Owning, Inside, Finished
<1>1. ASSUME NEW b \in Builders, Tear(b) PROVE SealedFirst'
  BY <1>1 DEF CacheTyped, BuildRecords, Dirs, Candidates, Tear, Goes, Resumes, Fails
<1>2. ASSUME NEW b \in Builders, Sweep(b) PROVE SealedFirst'
  BY <1>2 DEF CacheTyped, BuildRecords, Dirs, Candidates, Sweep, Goes, Resumes, Fails
<1>3. ASSUME NEW b \in Builders, SetAside(b) PROVE SealedFirst'
  BY <1>3 DEF CacheTyped, BuildRecords, Dirs, Candidates, SetAside, Goes, Resumes, Fails
<1>4. ASSUME NEW b \in Builders, Verify(b) PROVE SealedFirst'
  BY <1>4 DEF CacheTyped, BuildRecords, Dirs, Candidates, Verify, Goes, Resumes, Fails, Verified
<1>5. ASSUME NEW b \in Builders, Stage(b) PROVE SealedFirst'
  BY <1>5 DEF CacheTyped, BuildRecords, Dirs, Candidates, Stage, Goes, Resumes, Fails
<1>6. ASSUME NEW b \in Builders, BuildLayer(b) PROVE SealedFirst'
  BY <1>6 DEF CacheTyped, BuildRecords, Dirs, Candidates, BuildLayer, Goes, Resumes, Fails
<1>7. ASSUME NEW b \in Builders, Seal(b) PROVE SealedFirst'
  BY <1>7 DEF CacheTyped, BuildRecords, Dirs, Candidates, Seal, Goes, Resumes, Fails
<1>8. ASSUME NEW b \in Builders, PublishCandidate(b) PROVE SealedFirst'
  BY <1>8 DEF CacheTyped, BuildRecords, Dirs, Candidates, PublishCandidate, Goes, Resumes, Fails,
     Verified
<1>9. ASSUME NEW b \in Builders, ReleaseCacheLock(b) PROVE SealedFirst'
  BY <1>9 DEF CacheTyped, BuildRecords, Dirs, Candidates, ReleaseCacheLock, Goes, Resumes, Fails
<1>10. ASSUME NEW b \in Builders, Accept(b) PROVE SealedFirst'
  BY <1>10 DEF CacheTyped, BuildRecords, Dirs, Candidates, Accept, Goes, Resumes, Fails, Verified
<1>11. CASE MinutePasses \/ MoveBase \/ UNCHANGED cacheVars
  BY <1>11 DEF CacheTyped, BuildRecords, Dirs, Candidates, MinutePasses, MoveBase
<1>12. ASSUME NEW b \in Builders,
              LookForClaims(b) \/ MakeLock(b) \/ WriteOwner(b) \/ Recheck(b) \/ TimesOut(b) \/ Observe(b) \/ Claim(b) \/
              Judge(b) \/ Wait(b) \/ GiveUp(b) \/ Restore(b) \/ ReadMarker(b) \/ BuilderDies(b)
      PROVE  SealedFirst'
  <2>1. staging' = staging
    BY <1>12 DEF LookForClaims, MakeLock, WriteOwner, Recheck, TimesOut, Observe, Claim,
       Judge, Wait, GiveUp, Restore, ReadMarker, BuilderDies
  <2> QED
    BY <1>12, <2>1, LockingOnly
<1> QED
  BY <1>1, <1>2, <1>3, <1>4, <1>5, <1>6, <1>7, <1>8, <1>9, <1>10, <1>11, <1>12 DEF CacheNext

LEMMA ServedNext ==
  ASSUME CacheTyped, ~robbed', SealedFirst, Served, [CacheNext]_cacheVars
  PROVE  Served'
<1> USE CacheAssumption DEF SealedFirst, Served, Excused, CacheStages, Judging, Owning, Inside,
     Finished
<1>1. ASSUME NEW b \in Builders, SetAside(b) PROVE Served'
  BY <1>1 DEF CacheTyped, BuildRecords, Candidates, SetAside, Goes, Resumes, Fails
<1>2. ASSUME NEW b \in Builders, Verify(b) PROVE Served'
  BY <1>2 DEF CacheTyped, BuildRecords, Candidates, Verify, Goes, Resumes, Fails, Verified
<1>3. ASSUME NEW b \in Builders, Stage(b) PROVE Served'
  BY <1>3 DEF CacheTyped, BuildRecords, Candidates, Stage, Goes, Resumes, Fails
<1>4. ASSUME NEW b \in Builders, BuildLayer(b) PROVE Served'
  BY <1>4 DEF CacheTyped, BuildRecords, Candidates, BuildLayer, Goes, Resumes, Fails
<1>5. ASSUME NEW b \in Builders, Seal(b) PROVE Served'
  BY <1>5 DEF CacheTyped, BuildRecords, Candidates, Seal, Goes, Resumes, Fails
<1>6. ASSUME NEW b \in Builders, PublishCandidate(b) PROVE Served'
  BY <1>6 DEF CacheTyped, BuildRecords, Candidates, PublishCandidate, Goes, Resumes, Fails,
     Verified
<1>7. ASSUME NEW b \in Builders, ReleaseCacheLock(b) PROVE Served'
  BY <1>7 DEF CacheTyped, BuildRecords, Candidates, ReleaseCacheLock, Goes, Resumes, Fails
<1>8. ASSUME NEW b \in Builders, Accept(b) PROVE Served'
  BY <1>8 DEF CacheTyped, BuildRecords, Candidates, Accept, Goes, Resumes, Fails, Verified
<1>9. CASE MinutePasses \/ MoveBase \/ UNCHANGED cacheVars
  BY <1>9 DEF CacheTyped, BuildRecords, Candidates, MinutePasses, MoveBase
<1>10. ASSUME NEW b \in Builders,
              LookForClaims(b) \/ MakeLock(b) \/ WriteOwner(b) \/ Recheck(b) \/ TimesOut(b) \/ Observe(b) \/ Claim(b) \/
              Judge(b) \/ Wait(b) \/ GiveUp(b) \/ Restore(b) \/ ReadMarker(b) \/ Tear(b) \/ Sweep(b) \/ BuilderDies(b)
      PROVE  Served'
  BY <1>10, LockingOnly
<1> QED
  BY <1>1, <1>2, <1>3, <1>4, <1>5, <1>6, <1>7, <1>8, <1>9, <1>10 DEF CacheNext

LEMMA OfEarlierNext ==
  ASSUME CacheTyped, ~robbed', LockNames, ClaimsTheDead, OfEarlier, [CacheNext]_cacheVars
  PROVE  OfEarlier'
<1> USE CacheAssumption DEF LockNames, ClaimsTheDead, OfEarlier, ProcessIsAlive, CacheStages,
     Judging, Owning, Inside, Finished
<1>1. ASSUME NEW b \in Builders, LookForClaims(b) PROVE OfEarlier'
  BY <1>1 DEF CacheTyped, BuildRecords, Dirs, LookForClaims, Goes, Resumes, Fails, ReclaimClaims
<1>2. ASSUME NEW b \in Builders, MakeLock(b) PROVE OfEarlier'
  BY <1>2 DEF CacheTyped, BuildRecords, Dirs, MakeLock, Goes, Resumes, Fails
<1>3. ASSUME NEW b \in Builders, WriteOwner(b) PROVE OfEarlier'
  BY <1>3 DEF CacheTyped, BuildRecords, Dirs, WriteOwner, Goes, Resumes, Fails
<1>4. ASSUME NEW b \in Builders, Recheck(b) PROVE OfEarlier'
  <2>1. builds[b].at = "recheck" /\ cacheLock # NoDir /\ cacheLock.owner = b
    BY <1>4 DEF Recheck
  <2>2. /\ builds'[b].at \in {"verify", "claims"}
        /\ \A c \in Builders \ {b} : builds'[c] = builds[c]
        /\ builds'[b].at = "verify" => cacheLock' = cacheLock
        /\ builds'[b].at = "claims" => cacheLock' = NoDir
    BY <1>4 DEF Recheck, Goes, CacheTyped, BuildRecords
  <2>3. UNCHANGED <<claimed, mishaps>>
    BY <1>4 DEF Recheck
  <2> QED
    BY <2>1, <2>2, <2>3
<1>5. ASSUME NEW b \in Builders, TimesOut(b) PROVE OfEarlier'
  BY <1>5 DEF CacheTyped, BuildRecords, Dirs, TimesOut, Goes, Resumes, Fails, ReclaimClaims
<1>6. ASSUME NEW b \in Builders, Observe(b) PROVE OfEarlier'
  BY <1>6 DEF CacheTyped, BuildRecords, Dirs, Observe, Goes, Resumes, Fails, ProcessIsAlive
<1>7. ASSUME NEW b \in Builders, Claim(b) PROVE OfEarlier'
  <2>1. CASE cacheLock = NoDir
    <3>1. Resumes(b) /\ claimed' = claimed
      BY <1>7, <2>1 DEF Claim
    <3> QED
      BY <1>7, <2>1, <3>1, MovesBack DEF Claim
  <2>2. CASE cacheLock # NoDir
    <3>1. Goes(b, "judge") /\ ~ChangedHands(b) /\ builds[b].at = "claim"
      BY <1>7, <2>2 DEF Claim
    <3>2. ~ProcessIsAlive(cacheLock.owner)
      BY <3>1 DEF ChangedHands
    <3>3. claimed' = [claimed EXCEPT ![b] = cacheLock] /\ cacheLock' = NoDir /\ mishaps' = mishaps
      BY <1>7, <2>2 DEF Claim
    <3>4. claimed'[b] = cacheLock /\ \A c \in Builders \ {b} : claimed'[c] = claimed[c]
      BY <3>3 DEF CacheTyped
    <3>5. mishaps = 0 => cacheLock.owner \in {Ghost, Nobody}
      BY <2>2, <3>2, LockTyped
    <3> QED
      BY <3>1, <3>3, <3>4, <3>5, Moves
  <2> QED
    BY <2>1, <2>2
<1>8. ASSUME NEW b \in Builders, Judge(b) PROVE OfEarlier'
  BY <1>8 DEF CacheTyped, BuildRecords, Dirs, Judge, Goes, Resumes, Fails, SameOwner
<1>9. ASSUME NEW b \in Builders, Wait(b) PROVE OfEarlier'
  BY <1>9 DEF CacheTyped, BuildRecords, Dirs, Wait, Goes, Resumes, Fails
<1>10. ASSUME NEW b \in Builders, GiveUp(b) PROVE OfEarlier'
  BY <1>10 DEF CacheTyped, BuildRecords, Dirs, GiveUp, Goes, Resumes, Fails
<1>11. ASSUME NEW b \in Builders, Restore(b) PROVE OfEarlier'
  BY <1>11 DEF CacheTyped, BuildRecords, Dirs, Restore, Goes, Resumes, Fails, BeingMade
<1>12. ASSUME NEW b \in Builders, ReadMarker(b) PROVE OfEarlier'
  BY <1>12 DEF CacheTyped, BuildRecords, Dirs, ReadMarker, Goes, Resumes, Fails
<1>13. ASSUME NEW b \in Builders, Tear(b) PROVE OfEarlier'
  BY <1>13 DEF CacheTyped, BuildRecords, Dirs, Tear, Goes, Resumes, Fails
<1>14. ASSUME NEW b \in Builders, Sweep(b) PROVE OfEarlier'
  BY <1>14 DEF CacheTyped, BuildRecords, Dirs, Sweep, Goes, Resumes, Fails
<1>15. ASSUME NEW b \in Builders, ReleaseCacheLock(b) PROVE OfEarlier'
  BY <1>15 DEF CacheTyped, BuildRecords, Dirs, ReleaseCacheLock, Goes, Resumes, Fails
<1>16. ASSUME NEW b \in Builders, Accept(b) PROVE OfEarlier'
  BY <1>16 DEF CacheTyped, BuildRecords, Dirs, Accept, Goes, Resumes, Fails, Verified
<1>17. ASSUME NEW b \in Builders, BuilderDies(b) PROVE OfEarlier'
  BY <1>17 DEF CacheTyped, BuildRecords, Dirs, BuilderDies, Goes, Resumes, Fails
<1>18. CASE MinutePasses \/ MoveBase \/ UNCHANGED cacheVars
  BY <1>18 DEF CacheTyped, BuildRecords, Dirs, MinutePasses, MoveBase
<1>19. ASSUME NEW b \in Builders,
              Verify(b) \/ SetAside(b) \/ Stage(b)
              \/ BuildLayer(b) \/ Seal(b) \/ PublishCandidate(b)
      PROVE  OfEarlier'
  BY <1>19, Building, LockTyped
<1> QED
  BY <1>1, <1>2, <1>3, <1>4, <1>5, <1>6, <1>7, <1>8, <1>9, <1>10, <1>11, <1>12, <1>13, <1>14,
     <1>15, <1>16, <1>17, <1>18, <1>19 DEF CacheNext

LEMMA CacheInvInit == CacheInit => CacheInv
<1> SUFFICES ASSUME CacheInit PROVE CacheInv
  OBVIOUS
<1> USE CacheAssumption DEF CacheInit, CacheStages, Judging, Owning, Inside, Finished
<1>1. builds \in [Builders -> BuildRecords]
  BY DEF BuildRecords
<1>2. \A b \in Builders : builds[b].at = "claims" /\ ~builds[b].result
  OBVIOUS
<1>3. cacheLock \in Dirs \cup {NoDir} /\ (cacheLock # NoDir => cacheLock.owner \in {Ghost, Nobody})
  <2>1. PICK o \in {NoDir, Nobody, Ghost} :
          cacheLock = (IF o = NoDir THEN NoDir ELSE [owner |-> o, old |-> TRUE])
    OBVIOUS
  <2>2. CASE o = NoDir
    BY <2>1, <2>2
  <2>3. CASE o # NoDir
    <3>1. [owner |-> o, old |-> TRUE] \in Dirs
      BY <2>3, DirTyped
    <3> QED
      BY <2>1, <2>3, <3>1
  <2> QED
    BY <2>2, <2>3
<1>4. CacheTyped
  BY <1>1, <1>3 DEF CacheTyped
<1>5. LockNames /\ ClaimsTheDead /\ SealedFirst /\ Served
  BY <1>2 DEF LockNames, ClaimsTheDead, SealedFirst, Served
<1>6. OfEarlier
  BY <1>2, <1>3 DEF OfEarlier
<1> QED
  BY <1>4, <1>5, <1>6 DEF CacheInv

LEMMA CacheInvNext == CacheInv /\ [CacheNext]_cacheVars => CacheInv'
<1> SUFFICES ASSUME CacheInv, [CacheNext]_cacheVars PROVE CacheInv'
  OBVIOUS
<1>1. CacheTyped'
  BY CacheTypedNext DEF CacheInv
<1>2. ASSUME ~robbed' PROVE ~robbed
  BY <1>2 DEF CacheNext, LookForClaims, MakeLock, WriteOwner, Recheck, TimesOut, Observe, Claim,
     Judge, Wait, GiveUp, Restore, ReadMarker, Tear, Sweep, Verify, SetAside, Stage, BuildLayer,
     Seal, PublishCandidate, ReleaseCacheLock, Accept, BuilderDies, MinutePasses, MoveBase
<1>3. ASSUME ~robbed'
      PROVE  LockNames' /\ ClaimsTheDead' /\ SealedFirst' /\ Served' /\ OfEarlier'
  <2>1. CacheTyped /\ LockNames /\ ClaimsTheDead /\ SealedFirst /\ Served /\ OfEarlier
    BY <1>2, <1>3 DEF CacheInv
  <2> QED
    BY <1>3, <2>1, LockNamesNext, ClaimsTheDeadNext, SealedFirstNext, ServedNext, OfEarlierNext
<1> QED
  BY <1>1, <1>3 DEF CacheInv

LEMMA CacheInvHolds == CacheInv => CacheHolds
<1> SUFFICES ASSUME CacheInv PROVE CacheHolds
  OBVIOUS
<1>1. ASSUME ~robbed PROVE Cardinality({b \in Builders : builds[b].at \in Inside}) <= 1
  <2> DEFINE In == {b \in Builders : builds[b].at \in Inside}
  <2>1. \A b, c \in In : b = c
    BY <1>1 DEF CacheInv, LockNames, Owning
  <2>2. CASE In = {}
    BY <2>2, FS_EmptySet
  <2>3. CASE In # {}
    <3>1. PICK b : In = {b}
      <4>1. PICK b \in In : TRUE
        BY <2>3
      <4> QED
        BY <2>1, <4>1
    <3>2. Cardinality({b}) = 1
      BY FS_Singleton
    <3>3. Cardinality(In) = 1
      BY <3>1, <3>2
    <3> QED
      BY <3>3
  <2> QED
    BY <2>2, <2>3
<1>2. AloneInside
  BY <1>1 DEF AloneInside
<1>3. PublishedWhole
  BY DEF PublishedWhole, CacheInv, SealedFirst
<1>4. RefusedForAReason
  BY DEF RefusedForAReason, CacheInv, Served, Excused
<1>5. NoClaimLeft
  BY DEF NoClaimLeft, CacheInv, OfEarlier, Judging
<1> QED
  BY <1>2, <1>3, <1>4, <1>5 DEF CacheHolds

\* For any number of builders, deaths and minutes: unless a live builder's lock changes hands
\* unseen, one at a time is inside the path, what is published was sealed whole, what a
\* builder was told it has is refused for a reason only, and no claim is left behind.
THEOREM CacheIsHeld == CacheSpec => []CacheHolds
BY CacheInvInit, CacheInvNext, CacheInvHolds, PTL DEF CacheSpec

-----------------------------------------------------------------------------
(* The job runner *)

\* Stages in which a run holds the lock, and in which it is the active run.
Working == {"spawning", "binding", "running", "release", "recovering"}
Running == {"locking", "publish", "recover"} \cup Working

JobTyped ==
  /\ up \in BOOLEAN /\ active \in Jobs \cup {None} /\ at \in [Jobs -> Stages]
  /\ child \subseteq Jobs /\ mine \subseteq Jobs /\ timed \subseteq Jobs
  /\ proc \in [Jobs -> {"none", "alive", "exited"}]
  /\ requested \in [Jobs -> Terminal \cup {None}]
  /\ stop \in [Jobs -> {None, "cancelled", "timed-out"}]
  /\ diskErrors \in Nat

\* One run is under way, and the lock is its own from the spawn to the release.
OneRun ==
  /\ \A j \in Jobs : at[j] \in Running => active = j
  /\ \A j \in Jobs : at[j] \in Working => lock = j

\* A process that has not closed belongs to a run that waits for it and has no result,
\* nothing has a result before it has a process, and timers belong to runs that began;
\* a server that is down has none of them.
ProcessAwaited ==
  /\ \A j \in child : at[j] \in {"binding", "running"} /\ requested[j] = None
  /\ \A j \in mine : proc[j] = "alive" => j \in child
  /\ \A j \in timed : at[j] \in {"running", "release", "publish"}
  /\ \A j \in Jobs : at[j] = "spawning" => requested[j] = None
  /\ ~up => child = {} /\ mine = {} /\ timed = {}

AdmissionInv == JobTyped /\ (diskErrors = 0 => OneRun /\ ProcessAwaited)

USE NoneAssumption, HistoryAssumption, SpawnAssumption, BoundsAssumption
    DEF vars, disk, world, server, record, process, result, timers, faults, Goto, Persist, Save,
        Stages, States, Active, Terminal

LEMMA AdmissionInit == Init => AdmissionInv
BY DEF Init, AdmissionInv, JobTyped, OneRun, ProcessAwaited, Running, Working

\* Two unfinished files stop createJobRunner, so the one it takes over is the only one.
LEMMA TakenOver ==
  ASSUME IsFiniteSet(Jobs), Cardinality(Unfinished) <= 1, NEW j \in Unfinished
  PROVE  Unfinished # {} /\ (CHOOSE k \in Unfinished : TRUE) = j
<1>1. IsFiniteSet(Unfinished)
  BY FS_Subset DEF Unfinished
<1>2. Cardinality(Unfinished) = 1
  <2>1. Cardinality(Unfinished) \in Nat
    BY <1>1, FS_CardinalityType
  <2>2. Cardinality(Unfinished) # 0
    BY <1>1, FS_EmptySet
  <2> QED
    BY <2>1, <2>2
<1>3. PICK k : Unfinished = {k}
  BY <1>1, <1>2, FS_Singleton
<1> QED
  BY <1>3

LEMMA AdmissionNext ==
  ASSUME IsFiniteSet(Jobs), ~SlowSpawn, AdmissionInv, [Next]_vars
  PROVE  AdmissionInv'
<1> USE DEF AdmissionInv, JobTyped, OneRun, ProcessAwaited, Running, Working, SignalProcessResult
<1>1. ASSUME NEW j \in Jobs, Enqueue(j) PROVE AdmissionInv'
  BY <1>1 DEF Enqueue, Admit, Free
<1>2. ASSUME NEW j \in Jobs, EnqueueUnsynced(j) PROVE AdmissionInv'
  BY <1>2 DEF EnqueueUnsynced, Admit, Free
<1>3. ASSUME NEW j \in Jobs, Run(j) PROVE AdmissionInv'
  <2>1. CASE LockGranted(j) \/ LockRefused(j)
    BY <2>1 DEF LockGranted, LockRefused
  <2>2. CASE Spawned(j) \/ SpawnFailed(j)
    BY <2>2 DEF Spawned, SpawnFailed
  <2>3. CASE Bound(j) \/ BindFailed(j) \/ ResultFirst(j)
    BY <2>3 DEF Bound, BindFailed, ResultFirst
  <2>4. CASE BoundUnsynced(j)
    BY <2>4 DEF BoundUnsynced
  <2>5. CASE ProcessResult(j) \/ Release(j) \/ RecoveryLocked(j) \/ Recovered(j)
    BY <2>5 DEF ProcessResult, Release, RecoveryLocked, Recovered
  <2>6. CASE RecoveryFails(j)
    BY <2>6 DEF RecoveryFails, Forget
  <2>7. CASE Publish(j)
    BY <2>7 DEF Publish
  <2> QED
    BY <1>3, <2>1, <2>2, <2>3, <2>4, <2>5, <2>6, <2>7 DEF Run
<1>4. ASSUME NEW j \in Jobs, Cancel(j) \/ Timeout(j) PROVE AdmissionInv'
  BY <1>4 DEF Cancel, Timeout, RequestStop, Reachable
<1>5. ASSUME NEW j \in Jobs, Unconfirmed(j) \/ Kill(j) \/ KillFails(j) \/ Exits(j)
     PROVE AdmissionInv'
  BY <1>5 DEF Unconfirmed, Kill, KillFails, Exits
<1>6. ASSUME NEW j \in Jobs, Close(j) PROVE AdmissionInv'
  <2>1. CloseResults(j) \subseteq Terminal
    BY DEF CloseResults
  <2>2. UNCHANGED <<up, active, at, mine, proc, stop, diskErrors, lock>>
    BY <1>6 DEF Close
  <2>3. /\ child' = child \ {j} /\ proc[j] = "exited" /\ timed' \subseteq timed
        /\ requested' \in [Jobs -> Terminal \cup {None}]
        /\ \A k \in Jobs \ {j} : requested'[k] = requested[k]
    BY <1>6, <2>1 DEF Close
  <2>4. diskErrors = 0 => at[j] # "spawning"
    BY <1>6 DEF Close
  <2> QED
    BY <2>2, <2>3, <2>4
<1>7. ASSUME NEW j \in Jobs, PublishCut(j) PROVE AdmissionInv'
  BY <1>7 DEF PublishCut, Forget
<1>8. CASE Crash
  BY <1>8 DEF Crash, Forget
<1>9. CASE ShutdownEnds
  BY <1>9 DEF ShutdownEnds, Forget
<1>10. CASE ShutdownBegins
  BY <1>10 DEF ShutdownBegins, RequestStop, Reachable
<1>11. CASE Restart
  <2>1. \A j \in Jobs : at'[j] = "recover" => active' = j
    BY <1>11, TakenOver DEF Restart, Unfinished
  <2>2. \A j \in Jobs : at'[j] \in {"recover", "none"}
    BY <1>11 DEF Restart
  <2>3. active' \in Jobs \cup {None} /\ at' \in [Jobs -> Stages] /\ up'
    BY <1>11 DEF Restart, Unfinished
  <2>4. UNCHANGED <<world, process, timers, result, diskErrors>>
    BY <1>11 DEF Restart
  <2> QED
    BY <1>11, <2>1, <2>2, <2>3, <2>4 DEF Restart
<1>12. CASE TakeLock
  BY <1>12 DEF TakeLock
<1>13. CASE UNCHANGED vars
  BY <1>13
<1> QED
  BY <1>1, <1>2, <1>3, <1>4, <1>5, <1>6, <1>7, <1>8, <1>9, <1>10, <1>11, <1>12, <1>13 DEF Next

\* Until the sync of a directory fails, and where a spawn does not wait, the process of a
\* check never outlives its admission: whatever is cancelled, timed out, killed, shut down
\* or crashed, no other check and no other mutation gets in beside a process of this server.
THEOREM AdmissionIsCovering ==
  ASSUME IsFiniteSet(Jobs), ~SlowSpawn
  PROVE  Spec => [](diskErrors = 0 => AdmissionCovers)
<1>1. AdmissionInv /\ [Next]_vars => AdmissionInv'
  BY AdmissionNext
<1>2. AdmissionInv => (diskErrors = 0 => AdmissionCovers)
  BY DEF AdmissionInv, JobTyped, OneRun, ProcessAwaited, AdmissionCovers, Running, Working
<1> QED
  BY AdmissionInit, <1>1, <1>2, PTL DEF Spec

-----------------------------------------------------------------------------
(* What the job runner leaves on disk *)

\* One run is under way in the memory of a server, and what it knows of a run it knows of
\* one that was born and not forgotten since.
Known(j) == \E n \in DOMAIN born : born[n] = j
Admitted ==
  /\ \A j \in Jobs : at[j] \in Running => active = j
  /\ active # None => at[active] \in Running
  /\ \A j \in Jobs : at[j] # "none" => up
  /\ \A j \in Jobs : at[j] \in {"release", "publish"} => outcome[j] # None
  /\ \A j \in Jobs : at[j] # "none" \/ file[j] # "none" \/ j \in settled => Known(j)
  /\ \A j \in Jobs : stop[j] # None \/ j \in timed \cup confirming \cup killing => at[j] # "none"

\* Once its timeout has fired, a run has no result but that, or a failure.
Stopped == {None, "timed-out", "failed"}
StopKept ==
  /\ \A j \in timed : at[j] = "running" /\ requested[j] = None
  /\ \A j \in Jobs : at[j] \in {"spawning", "binding", "running"} => outcome[j] = None
  /\ \A j \in Jobs : stop[j] = "timed-out" =>
       /\ at[j] \in {"running", "release", "publish", "done"}
       /\ requested[j] \in Stopped /\ outcome[j] \in Stopped
       /\ j \in settled => state[j] \in {"timed-out", "failed"}

JobsInv == TypeOK /\ Admitted /\ StopKept

LEMMA JobsInit == Init => JobsInv
<1> SUFFICES ASSUME Init PROVE JobsInv
  OBVIOUS
<1>1. TypeOK
  BY DEF Init, TypeOK
<1>2. Admitted
  BY DEF Init, Admitted, Running, Working
<1>3. StopKept
  BY DEF Init, StopKept, Stopped
<1> QED
  BY <1>1, <1>2, <1>3 DEF JobsInv

LEMMA BornGrows ==
  ASSUME born \in Seq(Jobs), NEW j \in Jobs, born' = Append(born, j)
  PROVE  /\ born' \in Seq(Jobs) /\ Known(j)'
         /\ \A k \in Jobs : Known(k) => Known(k)'
         /\ DOMAIN born' = DOMAIN born \cup {Len(born) + 1} /\ born'[Len(born) + 1] = j
         /\ \A n \in DOMAIN born : n # Len(born) + 1 /\ born'[n] = born[n]
BY DEF Known

LEMMA BornStays == born' = born => \A j \in Jobs : Known(j)' = Known(j)
BY DEF Known

\* A server that goes down forgets all of it.
LEMMA Forgotten ==
  ASSUME TypeOK, Forget
  PROVE  /\ up' = FALSE /\ active' = None /\ runs' = {} /\ bound' = {} /\ settled' = {}
         /\ state' \in [Jobs -> States] /\ at' \in [Jobs -> Stages]
         /\ \A j \in Jobs : at'[j] = "none" /\ state'[j] = "none" /\ stop'[j] = None
                            /\ requested'[j] = None /\ outcome'[j] = None
         /\ child' = {} /\ mine' = {} /\ errored' = {} /\ killing' = {}
         /\ timed' = {} /\ confirming' = {}
         /\ stop' \in [Jobs -> {None, "cancelled", "timed-out"}]
         /\ requested' \in [Jobs -> Terminal \cup {None}]
         /\ outcome' \in [Jobs -> Terminal \cup {None}]
         /\ lock' \in Jobs \cup {None, Others}
BY DEF TypeOK, Forget

\* The first result counts; a stop gives a run without a process its result at once.
LEMMA Signalled ==
  ASSUME TypeOK, NEW j \in Jobs, NEW s \in Terminal, SignalProcessResult(j, s)
  PROVE  /\ requested' \in [Jobs -> Terminal \cup {None}]
         /\ timed' \subseteq timed /\ confirming' \subseteq confirming
         /\ \A k \in Jobs : k # j => requested'[k] = requested[k]
         /\ requested[j] # None => requested'[j] = requested[j]
         /\ requested[j] = None => requested'[j] = s /\ j \notin timed'
BY DEF TypeOK, SignalProcessResult

LEMMA StopRequested ==
  ASSUME TypeOK, NEW j \in Jobs, NEW reason \in {"cancelled", "timed-out"},
         RequestStop(j, reason)
  PROVE  /\ j \notin settled /\ stop[j] = None
         /\ stop' \in [Jobs -> {None, "cancelled", "timed-out"}]
         /\ stop'[j] = reason /\ \A k \in Jobs : k # j => stop'[k] = stop[k]
         /\ requested' \in [Jobs -> Terminal \cup {None}]
         /\ \A k \in Jobs : k # j => requested'[k] = requested[k]
         /\ requested'[j] \in {requested[j], reason}
         /\ requested[j] # None => requested'[j] = requested[j]
         /\ requested'[j] # requested[j] => j \notin timed'
         /\ timed' \subseteq timed /\ confirming' \subseteq confirming \cup {j}
         /\ killing' \subseteq killing \cup {j}
         /\ file' \in [Jobs -> States] /\ filed' \subseteq Jobs
         /\ \/ file' = file /\ filed' = filed
            \/ Save(j)
<1>1. reason \in Terminal
  OBVIOUS
<1>2. CASE j \in child
  BY <1>2 DEF TypeOK, RequestStop
<1>3. CASE j \notin child
  <2>1. SignalProcessResult(j, reason) /\ Save(j) /\ killing' = killing
    BY <1>3 DEF RequestStop
  <2>2. file' \in [Jobs -> States] /\ filed' \subseteq Jobs
    BY <2>1 DEF TypeOK
  <2> QED
    BY <1>1, <2>1, <2>2, Signalled DEF TypeOK, RequestStop
<1> QED
  BY <1>2, <1>3

LEMMA JobsTypedNext ==
  ASSUME TypeOK, Admitted, [Next]_vars
  PROVE  TypeOK'
<1> USE DEF TypeOK, Admitted
<1>1. ASSUME NEW j \in Jobs, Enqueue(j) PROVE TypeOK'
  BY <1>1 DEF Enqueue, Admit, Free
<1>2. ASSUME NEW j \in Jobs, EnqueueUnsynced(j) PROVE TypeOK'
  BY <1>2 DEF EnqueueUnsynced, Admit, Free
<1>3. ASSUME NEW j \in Jobs, Run(j) PROVE TypeOK'
  <2>1. CASE LockGranted(j)
    BY <2>1 DEF LockGranted
  <2>2. CASE LockRefused(j)
    BY <2>2 DEF LockRefused
  <2>3. CASE Spawned(j) \/ SpawnFailed(j)
    <3>1. CASE Spawned(j)
      BY <3>1 DEF Spawned
    <3>2. CASE SpawnFailed(j)
      BY <3>2, Signalled DEF SpawnFailed
    <3> QED
      BY <2>3, <3>1, <3>2
  <2>4. CASE Bound(j)
    BY <2>4 DEF Bound
  <2>5. CASE BindFailed(j) \/ ResultFirst(j)
    BY <2>5 DEF BindFailed, ResultFirst
  <2>6. CASE BoundUnsynced(j)
    <3>1. file' \in [Jobs -> States] /\ filed' \subseteq Jobs
      <4>1. CASE Persist(j, "running", {j})
        BY <4>1 DEF Persist
      <4>2. CASE UNCHANGED <<file, filed>>
        BY <4>2
      <4> QED
        BY <2>6, <4>1, <4>2 DEF BoundUnsynced
    <3>2. /\ at' \in [Jobs -> Stages] /\ state' \in [Jobs -> States]
          /\ outcome' \in [Jobs -> Terminal \cup {None}] /\ bound' \subseteq Jobs
          /\ diskErrors' \in 0..MaxDiskErrors
      BY <2>6 DEF BoundUnsynced, Goto
    <3>3. /\ UNCHANGED <<born, world, server, settled, process, stop, requested, timers>>
          /\ UNCHANGED <<crashes, killFails>>
      BY <2>6 DEF BoundUnsynced
    <3> QED
      BY <3>1, <3>2, <3>3 DEF world, server, process, timers
  <2>7. CASE ProcessResult(j) \/ Release(j)
    <3>1. CASE ProcessResult(j)
      BY <3>1 DEF ProcessResult
    <3>2. CASE Release(j)
      BY <3>2 DEF Release
    <3> QED
      BY <2>7, <3>1, <3>2
  <2>8. CASE RecoveryLocked(j) \/ Recovered(j)
    <3>1. CASE RecoveryLocked(j)
      BY <3>1 DEF RecoveryLocked
    <3>2. CASE Recovered(j)
      BY <3>2 DEF Recovered
    <3> QED
      BY <2>8, <3>1, <3>2
  <2>9. CASE RecoveryFails(j)
    BY <2>9, Forgotten DEF RecoveryFails
  <2>10. CASE Publish(j)
    BY <2>10 DEF Publish, Pruned
  <2> QED
    BY <1>3, <2>1, <2>2, <2>3, <2>4, <2>5, <2>6, <2>7, <2>8, <2>9, <2>10 DEF Run
<1>4. ASSUME NEW j \in Jobs, Cancel(j) \/ Timeout(j) PROVE TypeOK'
  <2>1. PICK reason \in {"cancelled", "timed-out"} : RequestStop(j, reason)
    BY <1>4 DEF Cancel, Timeout
  <2> QED
    BY <1>4, <2>1, StopRequested DEF Cancel, Timeout
<1>5. ASSUME NEW j \in Jobs, Unconfirmed(j) \/ Kill(j) \/ KillFails(j) \/ Exits(j) PROVE TypeOK'
  BY <1>5 DEF Unconfirmed, Kill, KillFails, Exits
<1>6. ASSUME NEW j \in Jobs, Close(j) PROVE TypeOK'
  BY <1>6, Signalled DEF Close, CloseResults
<1>7. ASSUME NEW j \in Jobs, PublishCut(j) PROVE TypeOK'
  <2>1. file' \in [Jobs -> States] /\ filed' \subseteq Jobs
    BY <1>7 DEF PublishCut
  <2>2. /\ up \in BOOLEAN /\ crashes' \in 0..MaxCrashes
        /\ UNCHANGED <<born, proc, accepting, killFails, diskErrors>>
    BY <1>7 DEF PublishCut
  <2>3. Forget
    BY <1>7 DEF PublishCut
  <2> QED
    BY <2>1, <2>2, <2>3, Forgotten
<1>8. CASE Crash
  <2>1. /\ crashes' \in 0..MaxCrashes /\ Forget
        /\ UNCHANGED <<file, filed, born, proc, accepting, killFails, diskErrors>>
    BY <1>8 DEF Crash
  <2> QED
    BY <2>1, Forgotten
<1>9. CASE ShutdownEnds
  BY <1>9, Forgotten DEF ShutdownEnds
<1>10. CASE ShutdownBegins
  <2>1. CASE active # None /\ RequestStop(active, "cancelled")
    <3>1. /\ UNCHANGED <<born, world, up, active, runs, record, at, child, mine, errored, outcome,
                         faults>>
          /\ accepting' = FALSE
      BY <1>10 DEF ShutdownBegins
    <3>2. active \in Jobs /\ "cancelled" \in {"cancelled", "timed-out"}
      BY <2>1
    <3>3. /\ stop' \in [Jobs -> {None, "cancelled", "timed-out"}]
          /\ requested' \in [Jobs -> Terminal \cup {None}]
          /\ file' \in [Jobs -> States] /\ filed' \subseteq Jobs
          /\ timed' \subseteq Jobs /\ confirming' \subseteq Jobs /\ killing' \subseteq Jobs
      BY <2>1, <3>2, StopRequested
    <3> QED
      BY <3>1, <3>3
  <2>2. CASE UNCHANGED <<stop, requested, timers, killing, file, filed>>
    BY <1>10, <2>2 DEF ShutdownBegins
  <2> QED
    BY <1>10, <2>1, <2>2 DEF ShutdownBegins
<1>11. CASE Restart
  BY <1>11 DEF Restart, Unfinished, Pruned
<1>12. CASE TakeLock
  BY <1>12 DEF TakeLock
<1>13. CASE UNCHANGED vars
  BY <1>13 DEF vars
<1> QED
  BY <1>1, <1>2, <1>3, <1>4, <1>5, <1>6, <1>7, <1>8, <1>9, <1>10, <1>11, <1>12, <1>13 DEF Next

LEMMA AdmittedNext ==
  ASSUME IsFiniteSet(Jobs), TypeOK, Admitted, [Next]_vars
  PROVE  Admitted'
<1> USE BornStays DEF TypeOK, Admitted, Running, Working, SignalProcessResult
<1>1. ASSUME NEW j \in Jobs, Enqueue(j) PROVE Admitted'
  BY <1>1, BornGrows DEF Enqueue, Admit, Free
<1>2. ASSUME NEW j \in Jobs, EnqueueUnsynced(j) PROVE Admitted'
  BY <1>2, BornGrows DEF EnqueueUnsynced, Admit, Free
<1>3. ASSUME NEW j \in Jobs, Run(j) PROVE Admitted'
  <2>1. CASE LockGranted(j)
    BY <2>1 DEF LockGranted
  <2>2. CASE LockRefused(j)
    BY <2>2 DEF LockRefused
  <2>3. CASE Spawned(j) \/ SpawnFailed(j)
    BY <2>3 DEF Spawned, SpawnFailed
  <2>4. CASE Bound(j)
    BY <2>4 DEF Bound
  <2>5. CASE BindFailed(j) \/ ResultFirst(j)
    BY <2>5 DEF BindFailed, ResultFirst
  <2>6. CASE BoundUnsynced(j)
    BY <2>6 DEF BoundUnsynced
  <2>7. CASE ProcessResult(j) \/ Release(j)
    BY <2>7 DEF ProcessResult, Release
  <2>8. CASE RecoveryLocked(j) \/ Recovered(j)
    BY <2>8 DEF RecoveryLocked, Recovered
  <2>9. CASE RecoveryFails(j)
    BY <2>9, Forgotten DEF RecoveryFails
  <2>10. CASE Publish(j)
    BY <2>10 DEF Publish, Pruned
  <2> QED
    BY <1>3, <2>1, <2>2, <2>3, <2>4, <2>5, <2>6, <2>7, <2>8, <2>9, <2>10 DEF Run
<1>4. ASSUME NEW j \in Jobs, Cancel(j) \/ Timeout(j) PROVE Admitted'
  BY <1>4 DEF Cancel, Timeout, RequestStop, Reachable
<1>5. ASSUME NEW j \in Jobs, Unconfirmed(j) \/ Kill(j) \/ KillFails(j) \/ Exits(j) PROVE Admitted'
  BY <1>5 DEF Unconfirmed, Kill, KillFails, Exits
<1>6. ASSUME NEW j \in Jobs, Close(j) PROVE Admitted'
  BY <1>6 DEF Close, CloseResults
<1>7. ASSUME NEW j \in Jobs, PublishCut(j) PROVE Admitted'
  <2>1. Known(j) /\ born' = born
    BY <1>7 DEF PublishCut
  <2>2. \A k \in Jobs : k # j => file'[k] = file[k]
    BY <1>7 DEF PublishCut
  <2> QED
    BY <1>7, <2>1, <2>2, BornStays, Forgotten DEF PublishCut
<1>8. CASE Crash
  BY <1>8, Forgotten DEF Crash
<1>9. CASE ShutdownEnds
  BY <1>9, Forgotten DEF ShutdownEnds
<1>10. CASE ShutdownBegins
  BY <1>10 DEF ShutdownBegins, RequestStop, Reachable
<1>11. CASE Restart
  <2>1. \A j \in Jobs : at'[j] = "recover" => active' = j
    BY <1>11, TakenOver DEF Restart, Unfinished
  <2>2. active' # None => active' \in Jobs /\ at'[active'] = "recover"
    BY <1>11 DEF Restart, Unfinished
  <2>3. \A j \in Jobs : at'[j] \in {"recover", "none"}
    BY <1>11 DEF Restart
  <2>4. \A j \in Jobs :
          at'[j] # "none" \/ file'[j] # "none" \/ j \in settled' => file[j] # "none"
    BY <1>11 DEF Restart, Unfinished
  <2>5. UNCHANGED <<born, stop, timed, confirming, killing>> /\ up' /\ ~up
    BY <1>11 DEF Restart
  <2> QED
    BY <1>11, <2>1, <2>2, <2>3, <2>4, <2>5, BornStays
<1>12. CASE TakeLock
  BY <1>12 DEF TakeLock
<1>13. CASE UNCHANGED vars
  BY <1>13 DEF vars
<1> QED
  BY <1>1, <1>2, <1>3, <1>4, <1>5, <1>6, <1>7, <1>8, <1>9, <1>10, <1>11, <1>12, <1>13 DEF Next

LEMMA StopKeptNext ==
  ASSUME TypeOK, Admitted, StopKept, [Next]_vars
  PROVE  StopKept'
<1> USE DEF TypeOK, StopKept, Admitted, Stopped, Running, Working, SignalProcessResult
<1>1. ASSUME NEW j \in Jobs, Enqueue(j) PROVE StopKept'
  <2>1. at[j] = "none" /\ stop[j] = None
    BY <1>1 DEF Enqueue, Admit, Known
  <2> QED
    BY <1>1, <2>1 DEF Enqueue
<1>2. ASSUME NEW j \in Jobs, EnqueueUnsynced(j) PROVE StopKept'
  BY <1>2 DEF EnqueueUnsynced, Admit, Free
<1>3. ASSUME NEW j \in Jobs, Run(j) PROVE StopKept'
  <2>1. CASE LockGranted(j)
    BY <2>1 DEF LockGranted
  <2>2. CASE LockRefused(j)
    BY <2>2 DEF LockRefused
  <2>3. CASE Spawned(j) \/ SpawnFailed(j)
    BY <2>3 DEF Spawned, SpawnFailed
  <2>4. CASE Bound(j)
    BY <2>4 DEF Bound
  <2>5. CASE BindFailed(j) \/ ResultFirst(j)
    BY <2>5 DEF BindFailed, ResultFirst
  <2>6. CASE BoundUnsynced(j)
    BY <2>6 DEF BoundUnsynced
  <2>7. CASE ProcessResult(j) \/ Release(j)
    BY <2>7 DEF ProcessResult, Release
  <2>8. CASE RecoveryLocked(j) \/ Recovered(j)
    <3>1. CASE RecoveryLocked(j)
      BY <3>1 DEF RecoveryLocked
    <3>2. CASE Recovered(j)
      BY <3>2 DEF Recovered
    <3> QED
      BY <2>8, <3>1, <3>2
  <2>9. CASE RecoveryFails(j)
    BY <2>9, Forgotten DEF RecoveryFails
  <2>10. CASE Publish(j)
    BY <2>10 DEF Publish, Pruned
  <2> QED
    BY <1>3, <2>1, <2>2, <2>3, <2>4, <2>5, <2>6, <2>7, <2>8, <2>9, <2>10 DEF Run
<1>4. ASSUME NEW j \in Jobs, Cancel(j) \/ Timeout(j) PROVE StopKept'
  BY <1>4 DEF Cancel, Timeout, RequestStop, Reachable
<1>5. ASSUME NEW j \in Jobs, Unconfirmed(j) \/ Kill(j) \/ KillFails(j) \/ Exits(j) PROVE StopKept'
  BY <1>5 DEF Unconfirmed, Kill, KillFails, Exits
<1>6. ASSUME NEW j \in Jobs, Close(j) PROVE StopKept'
  BY <1>6 DEF Close, CloseResults
<1>7. ASSUME NEW j \in Jobs, PublishCut(j) PROVE StopKept'
  BY <1>7, Forgotten DEF PublishCut
<1>8. CASE Crash
  BY <1>8, Forgotten DEF Crash
<1>9. CASE ShutdownEnds
  BY <1>9, Forgotten DEF ShutdownEnds
<1>10. CASE ShutdownBegins
  BY <1>10 DEF ShutdownBegins, RequestStop, Reachable
<1>11. CASE Restart
  <2>1. ~up /\ UNCHANGED <<timed, outcome, requested, stop>>
    BY <1>11 DEF Restart
  <2>2. timed = {} /\ \A j \in Jobs : stop[j] = None /\ at'[j] \in {"recover", "none"}
    BY <1>11, <2>1 DEF Restart
  <2> QED
    BY <2>1, <2>2
<1>12. CASE TakeLock
  BY <1>12 DEF TakeLock
<1>13. CASE UNCHANGED vars
  BY <1>13 DEF vars
<1> QED
  BY <1>1, <1>2, <1>3, <1>4, <1>5, <1>6, <1>7, <1>8, <1>9, <1>10, <1>11, <1>12, <1>13 DEF Next

LEMMA JobsNext == ASSUME IsFiniteSet(Jobs), JobsInv, [Next]_vars PROVE JobsInv'
BY JobsTypedNext, AdmittedNext, StopKeptNext DEF JobsInv

\* The file of the run under way says what the memory says; no other file is unfinished, and
\* the finished ones are those of the settled runs that are remembered.
Kept == {j \in Jobs : file[j] # "none"}
FilesAgree ==
  /\ \A j \in Jobs : j \in filed <=> file[j] = "running"
  /\ \A j, k \in Jobs : file[j] \in Active /\ file[k] \in Active => j = k
  /\ up => \A j \in Jobs : file[j] \in Active => active = j
  /\ \A j \in Jobs : at[j] \in Running =>
       /\ state[j] \in Active /\ file[j] = state[j]
       /\ j \in bound <=> state[j] = "running"
       /\ j \notin settled
  /\ \A j \in Jobs : at[j] \in {"locking", "spawning", "binding"} => state[j] = "queued"
  /\ \A j \in confirming \cup bound : at[j] \in Running
  /\ \A j \in killing : at[j] \in Running \/ j \in settled
  /\ up => /\ runs = Kept
           /\ \A j \in Jobs : file[j] \in Terminal <=> j \in settled /\ j \in runs

\* The files are those of the runs born last, one more than maxHistory at most, and all but
\* the very last are of finished runs.
Limit(act) == MaxHistory + (IF act = None THEN 0 ELSE 1)
KeptLatest ==
  /\ \A m, n \in DOMAIN born : born[m] = born[n] => m = n
  /\ \A m, n \in DOMAIN born : m < n /\ file[born[m]] # "none" =>
        file[born[n]] # "none" /\ file[born[m]] \in Terminal
  /\ Cardinality(Kept) <= MaxHistory + (IF up /\ active = None THEN 0 ELSE 1)

LEMMA OneIsOldest ==
  ASSUME born \in Seq(Jobs), \A m, n \in DOMAIN born : born[m] = born[n] => m = n,
         NEW S \in SUBSET Jobs, IsFiniteSet(S), S # {}
  PROVE  \E j \in S : {k \in S : Before(k, j)} = {}
<1> DEFINE Older(j) == {k \in S : Before(k, j)}
           R == StrictSubsetOrdering(S)
<1>1. IsWellFoundedOn(R, SUBSET S)
  BY FS_StrictSubsetOrderingWellFounded, FS_FiniteSubsetsOfFinite
<1>2. {Older(j) : j \in S} \subseteq SUBSET S /\ {Older(j) : j \in S} # {}
  <2>1. \A j \in S : Older(j) \in SUBSET S /\ Older(j) \in {Older(k) : k \in S}
    OBVIOUS
  <2> HIDE DEF Older
  <2> QED
    BY <2>1
<1>3. PICK A \in {Older(j) : j \in S} : \A B \in {Older(j) : j \in S} : <<B, A>> \notin R
  <2> HIDE DEF R, Older
  <2> QED
    BY <1>1, <1>2, WFMin
<1>4. PICK j \in S : A = Older(j)
  OBVIOUS
<1>5. ASSUME NEW k \in S, Before(k, j) PROVE FALSE
  <2>1. Older(k) \subseteq Older(j) /\ k \in Older(j) /\ k \notin Older(k)
    BY <1>5 DEF Before
  <2>2. <<Older(k), Older(j)>> \in R
    BY <2>1 DEF StrictSubsetOrdering
  <2> QED
    BY <1>3, <1>4, <2>2
<1> QED
  BY <1>5

\* pruneHistory takes settled runs only, the older before the younger, and one is enough.
LEMMA Pruning ==
  ASSUME born \in Seq(Jobs), \A m, n \in DOMAIN born : born[m] = born[n] => m = n,
         IsFiniteSet(Jobs), NEW rs \in SUBSET Jobs, NEW done \in SUBSET Jobs,
         NEW act \in Jobs \cup {None}
  PROVE  /\ Pruned(rs, done, act) \subseteq rs
         /\ rs \ Pruned(rs, done, act) \subseteq done \ {act}
         /\ \A m, n \in DOMAIN born :
              /\ m < n /\ born[m] \in (rs \cap done) \ {act}
              /\ born[n] \in rs \ Pruned(rs, done, act)
              => born[m] \notin Pruned(rs, done, act)
         /\ Cardinality(rs) <= Limit(act) => Pruned(rs, done, act) = rs
         /\ Cardinality(rs) <= Limit(act) + 1 /\ (rs \cap done) \ {act} # {}
            => Cardinality(Pruned(rs, done, act)) <= Limit(act)
<1> DEFINE left == Pruned(rs, done, act)
           limit == Limit(act)
           old == (rs \cap done) \ {act}
           excess == Cardinality(rs) - limit
           Older(j) == {k \in old : Before(k, j)}
<1>0. limit \in Nat
  BY DEF Limit
<1>1. /\ IsFiniteSet(rs) /\ IsFiniteSet(old) /\ Cardinality(rs) \in Nat
      /\ \A j : IsFiniteSet(Older(j)) /\ Cardinality(Older(j)) \in Nat
  <2>1. IsFiniteSet(rs) /\ IsFiniteSet(old)
    BY FS_Subset
  <2>2. \A j : IsFiniteSet(Older(j))
    BY <2>1, FS_Subset
  <2> QED
    BY <2>1, <2>2, FS_CardinalityType
<1>2. left = IF excess > 0 THEN rs \ {j \in old : Cardinality(Older(j)) < excess} ELSE rs
  BY DEF Pruned, Oldest, Limit
<1> HIDE DEF left, limit
<1>3. ASSUME NEW m \in DOMAIN born, NEW n \in DOMAIN born, m < n,
             born[m] \in old, born[n] \in rs \ left
      PROVE  born[m] \notin left
  <2>1. excess > 0 /\ Cardinality(Older(born[n])) < excess
    BY <1>2, <1>3
  <2>2. Older(born[m]) \in SUBSET Older(born[n])
    BY <1>3 DEF Before
  <2>3. Cardinality(Older(born[m])) <= Cardinality(Older(born[n]))
    BY <1>1, <2>2, FS_Subset
  <2>4. Cardinality(Older(born[m])) < excess
    <3>1. /\ Cardinality(Older(born[m])) \in Nat /\ Cardinality(Older(born[n])) \in Nat
      BY <1>1
    <3>2. excess \in Int
      <4> HIDE DEF Older, old
      <4> QED
        BY <1>0, <1>1
    <3> HIDE DEF Older, excess
    <3> QED
      BY <2>1, <2>3, <3>1, <3>2
  <2> QED
    BY <1>2, <1>3, <2>1, <2>4
<1>4. ASSUME Cardinality(rs) <= limit + 1, old # {} PROVE Cardinality(left) <= limit
  <2>1. CASE excess > 0
    <3>1. PICK j \in old : Older(j) = {}
      BY <1>1, <1>4, OneIsOldest
    <3>2. Cardinality(Older(j)) < excess
      BY <2>1, <3>1, FS_EmptySet
    <3>3. left \in SUBSET (rs \ {j})
      BY <1>2, <2>1, <3>2
    <3>4. IsFiniteSet(rs \ {j}) /\ Cardinality(rs \ {j}) = Cardinality(rs) - 1
      BY <1>1, FS_RemoveElement
    <3>5. IsFiniteSet(left) /\ Cardinality(left) <= Cardinality(rs \ {j})
      BY <3>3, <3>4, FS_Subset
    <3> QED
      BY <1>0, <1>1, <1>4, <3>4, <3>5, FS_CardinalityType
  <2>2. CASE ~(excess > 0)
    BY <1>0, <1>1, <1>2, <2>2
  <2> QED
    BY <2>1, <2>2
<1>5. left \subseteq rs /\ rs \ left \subseteq old
  BY <1>2
<1>6. Cardinality(rs) <= limit => left = rs
  BY <1>0, <1>1, <1>2
<1> QED
  BY <1>3, <1>4, <1>5, <1>6 DEF left, limit

LEMMA PrunedOldest ==
  ASSUME IsFiniteSet(Jobs), TypeOK, KeptLatest
  PROVE  \A rs, done \in SUBSET Jobs : \A act \in Jobs \cup {None} :
           /\ Pruned(rs, done, act) \subseteq rs
           /\ rs \ Pruned(rs, done, act) \subseteq done \ {act}
           /\ \A m, n \in DOMAIN born :
                /\ m < n /\ born[m] \in (rs \cap done) \ {act}
                /\ born[n] \in rs \ Pruned(rs, done, act)
                => born[m] \notin Pruned(rs, done, act)
           /\ Cardinality(rs) <= Limit(act) => Pruned(rs, done, act) = rs
           /\ Cardinality(rs) <= Limit(act) + 1 /\ (rs \cap done) \ {act} # {}
              => Cardinality(Pruned(rs, done, act)) <= Limit(act)
<1>1. born \in Seq(Jobs) /\ \A m, n \in DOMAIN born : born[m] = born[n] => m = n
  BY DEF TypeOK, KeptLatest
<1> QED
  BY <1>1, Pruning

LEMMA PrunedSettled ==
  ASSUME IsFiniteSet(Jobs), TypeOK, KeptLatest
  PROVE  \A rs, done \in SUBSET Jobs : \A act \in Jobs \cup {None} :
           /\ Pruned(rs, done, act) \subseteq rs
           /\ rs \ Pruned(rs, done, act) \subseteq done \ {act}
BY PrunedOldest

\* What is saved again is what is there.
LEMMA SavedAgain ==
  ASSUME TypeOK, FilesAgree, NEW j \in Jobs, at[j] \in Running, Save(j)
  PROVE  file' = file /\ filed' = filed
BY DEF TypeOK, FilesAgree

LEMMA FilesAgreeNext ==
  ASSUME IsFiniteSet(Jobs), JobsInv, FilesAgree, KeptLatest, diskErrors' = 0, [Next]_vars
  PROVE  FilesAgree'
<1> USE DEF JobsInv, TypeOK, StopKept, Admitted, FilesAgree, Running, Working, Kept
<1>1. ASSUME NEW j \in Jobs, Enqueue(j) PROVE FilesAgree'
  <2>1. at[j] = "none" /\ file[j] = "none" /\ j \notin settled
    BY <1>1 DEF Enqueue, Admit, Known
  <2>2. up /\ active = None /\ \A k \in Jobs : at[k] \notin Running /\ file[k] \notin Active
    BY <1>1 DEF Enqueue, Admit, Free
  <2>3. /\ file' = [file EXCEPT ![j] = "queued"] /\ filed' = filed \ {j}
        /\ state' = [state EXCEPT ![j] = "queued"] /\ at' = [at EXCEPT ![j] = "locking"]
        /\ active' = j /\ runs' = runs \cup {j}
        /\ UNCHANGED <<up, settled, bound, confirming, killing>>
    BY <1>1 DEF Enqueue
  <2>4. confirming = {} /\ killing \subseteq settled /\ j \notin runs
        /\ j \notin bound
    BY <2>1, <2>2
  <2> QED
    BY <2>1, <2>2, <2>3, <2>4
<1>2. ASSUME NEW j \in Jobs, EnqueueUnsynced(j) PROVE FilesAgree'
  BY <1>2 DEF EnqueueUnsynced, Admit, Free
<1>3. ASSUME NEW j \in Jobs, Run(j) PROVE FilesAgree'
  <2>1. CASE LockGranted(j)
    BY <2>1 DEF LockGranted
  <2>2. CASE LockRefused(j)
    BY <2>2 DEF LockRefused
  <2>3. CASE Spawned(j) \/ SpawnFailed(j)
    <3>1. CASE Spawned(j)
      BY <3>1 DEF Spawned
    <3>2. CASE SpawnFailed(j)
      BY <3>2, Signalled DEF SpawnFailed
    <3> QED
      BY <2>3, <3>1, <3>2
  <2>4. CASE Bound(j)
    BY <2>4 DEF Bound
  <2>5. CASE BindFailed(j) \/ ResultFirst(j)
    BY <2>5 DEF BindFailed, ResultFirst
  <2>6. CASE BoundUnsynced(j)
    BY <2>6 DEF BoundUnsynced
  <2>7. CASE ProcessResult(j) \/ Release(j)
    BY <2>7 DEF ProcessResult, Release
  <2>8. CASE RecoveryLocked(j) \/ Recovered(j)
    BY <2>8 DEF RecoveryLocked, Recovered
  <2>9. CASE RecoveryFails(j)
    BY <2>9, Forgotten DEF RecoveryFails
  <2>10. CASE Publish(j)
    <3>1. /\ runs' \subseteq runs /\ runs \ runs' \subseteq settled \cup {j}
      <4>1. /\ settled' \in SUBSET Jobs /\ active' \in Jobs \cup {None}
            /\ runs' = Pruned(runs, settled', active') /\ settled' = settled \cup {j}
        BY <2>10 DEF Publish
      <4> QED
        BY <4>1, PrunedSettled
    <3>2. /\ settled' = settled \cup {j} /\ active = j /\ active' = None
          /\ state' = [state EXCEPT ![j] = outcome[j]] /\ at' = [at EXCEPT ![j] = "done"]
          /\ bound' = bound \ {j} /\ confirming' = confirming \ {j}
          /\ file' = [k \in Jobs |-> IF k \in runs \ runs' THEN "none"
                                     ELSE IF k = j THEN outcome[j] ELSE file[k]]
          /\ filed' = filed \ ((runs \ runs') \cup {j})
          /\ UNCHANGED <<up, killing>>
      BY <2>10 DEF Publish
    <3>3. outcome[j] \in Terminal /\ j \in runs /\ up
      BY <2>10 DEF Publish
    <3>4. \A k \in Jobs : k # j => file[k] \notin Active /\ at[k] \notin Running
      BY <2>10 DEF Publish
    <3> QED
      BY <3>1, <3>2, <3>3, <3>4
  <2> QED
    BY <1>3, <2>1, <2>2, <2>3, <2>4, <2>5, <2>6, <2>7, <2>8, <2>9, <2>10 DEF Run
<1>4. ASSUME NEW j \in Jobs, Cancel(j) \/ Timeout(j) PROVE FilesAgree'
  <2>1. PICK reason \in {"cancelled", "timed-out"} : RequestStop(j, reason)
    BY <1>4 DEF Cancel, Timeout
  <2>2. at[j] \in Running
    BY <1>4 DEF Cancel, Timeout, Reachable
  <2>3. file' = file /\ filed' = filed
    <3>1. (file' = file /\ filed' = filed) \/ Save(j)
      BY <2>1, StopRequested
    <3>2. CASE Save(j)
      BY <2>2, <3>2, SavedAgain
    <3> QED
      BY <3>1, <3>2
  <2>4. UNCHANGED <<born, world, server, record, at, child, mine, errored, outcome, faults>>
    BY <1>4 DEF Cancel, Timeout
  <2> QED
    BY <2>1, <2>2, <2>3, <2>4, StopRequested
<1>5. ASSUME NEW j \in Jobs, Unconfirmed(j) \/ Kill(j) \/ KillFails(j) \/ Exits(j) PROVE FilesAgree'
  <2>1. CASE Unconfirmed(j)
    <3>1. at[j] \in Running /\ Save(j)
      BY <2>1 DEF Unconfirmed
    <3> QED
      BY <2>1, <3>1, SavedAgain DEF Unconfirmed
  <2>2. CASE KillFails(j)
    <3>1. \/ at[j] \in Running /\ Save(j)
          \/ UNCHANGED <<file, filed>>
      BY <2>2 DEF KillFails
    <3>2. file' = file /\ filed' = filed
      BY <3>1, SavedAgain
    <3> QED
      BY <2>2, <3>2 DEF KillFails
  <2>3. CASE Kill(j) \/ Exits(j)
    BY <2>3 DEF Kill, Exits
  <2> QED
    BY <1>5, <2>1, <2>2, <2>3
<1>6. ASSUME NEW j \in Jobs, Close(j) PROVE FilesAgree'
  <2>1. CloseResults(j) \subseteq Terminal
    BY DEF CloseResults
  <2>2. UNCHANGED <<disk, world, server, record, at, killing, stop>>
    BY <1>6 DEF Close
  <2>3. confirming' \subseteq confirming
    BY <1>6, <2>1, Signalled DEF Close
  <2> QED
    BY <2>2, <2>3
<1>7. ASSUME NEW j \in Jobs, PublishCut(j) PROVE FilesAgree'
  <2>1. /\ file' = [file EXCEPT ![j] = outcome[j]] /\ filed' = filed \ {j}
        /\ outcome[j] \in Terminal /\ file[j] \in Active
    BY <1>7 DEF PublishCut
  <2>2. Forget
    BY <1>7 DEF PublishCut
  <2>3. /\ \A k \in Jobs : file'[k] \in Active => file[k] \in Active
        /\ \A k \in Jobs : k \in filed' <=> file'[k] = "running"
    BY <2>1
  <2>4. /\ up' = FALSE /\ confirming' = {} /\ killing' = {}
        /\ bound' = {} /\ \A k \in Jobs : at'[k] = "none"
    BY <2>2, Forgotten
  <2> QED
    BY <2>3, <2>4
<1>8. CASE Crash
  BY <1>8, Forgotten DEF Crash
<1>9. CASE ShutdownEnds
  BY <1>9, Forgotten DEF ShutdownEnds
<1>10. CASE ShutdownBegins
  <2>1. CASE active # None /\ RequestStop(active, "cancelled")
    <3>1. /\ UNCHANGED <<born, world, up, active, runs, record, at, child, mine, errored, outcome,
                         faults>>
          /\ accepting' = FALSE /\ active \in Jobs /\ at[active] \in Running
      BY <1>10, <2>1 DEF ShutdownBegins
    <3>2. file' = file /\ filed' = filed
      <4>1. (file' = file /\ filed' = filed) \/ Save(active)
        BY <2>1, <3>1, StopRequested
      <4>2. CASE Save(active)
        BY <3>1, <4>2, SavedAgain
      <4> QED
        BY <4>1, <4>2
    <3> QED
      BY <2>1, <3>1, <3>2, StopRequested
  <2>2. CASE UNCHANGED <<stop, requested, timers, killing, file, filed>>
    BY <1>10, <2>2 DEF ShutdownBegins
  <2> QED
    BY <1>10, <2>1, <2>2 DEF ShutdownBegins
<1>11. CASE Restart
  <2>1. \A j \in Jobs : file[j] \in Active => active' = j
    BY <1>11, TakenOver DEF Restart, Unfinished
  <2>2. Kept \in SUBSET Jobs /\ runs' = Pruned(Kept, settled', active')
        /\ settled' = {j \in Jobs : file[j] \in Terminal}
    BY <1>11 DEF Restart
  <2>3. active' \in Jobs \cup {None}
    BY <1>11 DEF Restart, Unfinished
  <2>4. runs' \subseteq Kept /\ Kept \ runs' \subseteq settled'
    <3>1. settled' \in SUBSET Jobs
      BY <2>2
    <3>2. /\ Pruned(Kept, settled', active') \subseteq Kept
          /\ Kept \ Pruned(Kept, settled', active') \subseteq settled' \ {active'}
      BY <2>2, <2>3, <3>1, PrunedSettled
    <3> QED
      BY <2>2, <3>2
  <2>5. /\ file' = [j \in Jobs |-> IF j \in Kept \ runs' THEN "none" ELSE file[j]]
        /\ filed' = filed \ (Kept \ runs')
        /\ state' = file /\ bound' = filed /\ up'
        /\ at' = [j \in Jobs |-> IF file[j] \in Active THEN "recover" ELSE "none"]
        /\ UNCHANGED <<confirming, killing>> /\ confirming \cup killing = {}
    BY <1>11 DEF Restart, Unfinished
  <2> QED
    BY <2>1, <2>2, <2>4, <2>5
<1>12. CASE TakeLock
  BY <1>12 DEF TakeLock
<1>13. CASE UNCHANGED vars
  BY <1>13 DEF vars
<1> QED
  BY <1>1, <1>2, <1>3, <1>4, <1>5, <1>6, <1>7, <1>8, <1>9, <1>10, <1>11, <1>12, <1>13 DEF Next

LEMMA KeptLatestNext ==
  ASSUME IsFiniteSet(Jobs), JobsInv, FilesAgree, KeptLatest, [Next]_vars, diskErrors' = 0,
         FilesAgree', TypeOK'
  PROVE  KeptLatest'
<1> USE DEF JobsInv
<1>0. ASSUME born' = born, Kept' = Kept, up' /\ active' = None => up /\ active = None,
             \A j \in Jobs : file[j] \in Terminal => file'[j] \in Terminal
      PROVE  KeptLatest'
  <2>1. \A n \in DOMAIN born : born[n] \in Jobs
    BY DEF TypeOK
  <2>2. Cardinality(Kept) \in Nat
    BY FS_Subset, FS_CardinalityType DEF Kept
  <2>3. \A n \in DOMAIN born : file[born[n]] # "none" <=> file'[born[n]] # "none"
    BY <1>0, <2>1 DEF Kept
  <2>4. Cardinality(Kept') <= MaxHistory + (IF up' /\ active' = None THEN 0 ELSE 1)
    BY <1>0, <2>2 DEF KeptLatest
  <2> QED
    BY <1>0, <2>1, <2>3, <2>4 DEF KeptLatest
<1>1. ASSUME NEW j \in Jobs, Enqueue(j) PROVE KeptLatest'
  <2>1. /\ ~Known(j) /\ file[j] = "none" /\ up /\ active = None /\ active' = j
        /\ file' = [file EXCEPT ![j] = "queued"] /\ born' = Append(born, j)
    BY <1>1 DEF Enqueue, Admit, Free, Known, Admitted
  <2>2. \A m, n \in DOMAIN born' : born'[m] = born'[n] => m = n
    BY <2>1, BornGrows DEF TypeOK, KeptLatest, Known
  <2>3. ASSUME NEW m \in DOMAIN born', NEW n \in DOMAIN born', m < n, file'[born'[m]] # "none"
        PROVE  file'[born'[n]] # "none" /\ file'[born'[m]] \in Terminal
    <3>1. /\ m \in DOMAIN born /\ born'[m] = born[m] /\ born[m] \in Jobs /\ born[m] # j
      BY <2>1, <2>3 DEF TypeOK, Known
    <3>2. file[born[m]] \in Terminal
      BY <2>1, <2>3, <3>1 DEF FilesAgree, TypeOK
    <3>3. CASE n \in DOMAIN born
      BY <2>1, <2>3, <3>1, <3>2, <3>3, BornGrows DEF TypeOK, KeptLatest
    <3>4. CASE n \notin DOMAIN born
      <4>1. born'[n] = j
        BY <2>1, <3>4, BornGrows DEF TypeOK
      <4> QED
        BY <2>1, <3>1, <3>2, <4>1 DEF TypeOK
    <3> QED
      BY <3>3, <3>4
  <2>4. Cardinality(Kept') <= MaxHistory + 1
    <3>1. IsFiniteSet(Kept) /\ Kept' = Kept \cup {j} /\ j \notin Kept
      BY <2>1, FS_Subset DEF Kept, TypeOK
    <3>2. Cardinality(Kept) \in Nat /\ Cardinality(Kept') = Cardinality(Kept) + 1
      BY <3>1, FS_AddElement, FS_CardinalityType
    <3> QED
      BY <2>1, <3>2 DEF KeptLatest
  <2> QED
    BY <2>1, <2>2, <2>3, <2>4 DEF KeptLatest
<1>2. ASSUME NEW rs \in SUBSET Jobs, rs = Kept, runs' = Pruned(rs, settled', active'),
             Kept' = runs', born' = born, up',
             \A k \in Jobs : file'[k] # "none" /\ file[k] \in Terminal => file'[k] = file[k],
             \A k \in rs : file[k] \in Terminal => k \in settled' /\ k # active',
             active' = None => Cardinality(rs) <= MaxHistory \/ rs \cap settled' # {}
      PROVE  KeptLatest'
  <2>1. /\ settled' \in SUBSET Jobs /\ active' \in Jobs \cup {None}
        /\ \A n \in DOMAIN born : born[n] \in Jobs
    BY DEF TypeOK
  <2>2. /\ runs' \subseteq rs
        /\ \A m, n \in DOMAIN born :
             m < n /\ born[m] \in (rs \cap settled') \ {active'} /\ born[n] \in rs \ runs'
             => born[m] \notin runs'
        /\ Cardinality(rs) <= Limit(active') => runs' = rs
        /\ Cardinality(rs) <= Limit(active') + 1 /\ (rs \cap settled') \ {active'} # {}
            => Cardinality(runs') <= Limit(active')
    BY <1>2, <2>1, PrunedOldest
  <2>3. ASSUME NEW m \in DOMAIN born, NEW n \in DOMAIN born, m < n, file'[born[m]] # "none"
        PROVE  file'[born[n]] # "none" /\ file'[born[m]] \in Terminal
    <3>1. born[m] \in runs'
      BY <1>2, <2>1, <2>3 DEF Kept
    <3>2. file[born[m]] \in Terminal /\ file[born[n]] # "none"
      BY <1>2, <2>1, <2>2, <2>3, <3>1 DEF Kept, KeptLatest
    <3>3. born[n] \in runs'
      BY <1>2, <2>1, <2>2, <2>3, <3>1, <3>2 DEF Kept
    <3> QED
      BY <1>2, <2>1, <2>3, <3>2, <3>3 DEF Kept
  <2>4. Cardinality(Kept') <= Limit(active')
    <3>1. Cardinality(rs) \in Nat /\ Cardinality(rs) <= MaxHistory + 1
      BY <1>2, FS_Subset, FS_CardinalityType DEF KeptLatest
    <3>2. CASE active' # None
      BY <1>2, <2>2, <3>1, <3>2 DEF Limit
    <3>3. CASE active' = None
      BY <1>2, <2>1, <2>2, <3>1, <3>3 DEF Limit
    <3> QED
      BY <3>2, <3>3
  <2> QED
    BY <1>2, <2>3, <2>4 DEF KeptLatest, Limit
<1>3. ASSUME NEW j \in Jobs, Publish(j) PROVE KeptLatest'
  <2>1. /\ up /\ active = j /\ active' = None /\ outcome[j] \in Terminal /\ born' = born /\ up'
        /\ runs = Kept /\ runs' = Pruned(runs, settled', active') /\ settled' = settled \cup {j}
        /\ file' = [k \in Jobs |-> IF k \in runs \ runs' THEN "none"
                                   ELSE IF k = j THEN outcome[j] ELSE file[k]]
        /\ file[j] \in Active
    BY <1>3 DEF Publish, FilesAgree, Admitted, Running, TypeOK
  <2>2. Kept' = runs' /\ j \in runs
    BY <2>1 DEF FilesAgree, Kept
  <2>3. \A k \in runs : file[k] \in Terminal => k \in settled' /\ k # active'
    BY <2>1 DEF FilesAgree, TypeOK
  <2> QED
    BY <1>2, <2>1, <2>2, <2>3 DEF TypeOK
<1>4. CASE Restart
  <2>1. /\ born' = born /\ up' /\ runs' = Pruned(Kept, settled', active')
        /\ settled' = {k \in Jobs : file[k] \in Terminal}
        /\ file' = [k \in Jobs |-> IF k \in Kept \ runs' THEN "none" ELSE file[k]]
    BY <1>4 DEF Restart, Kept
  <2>2. active' # None => file[active'] \in Active
    BY <1>4 DEF Restart, Unfinished
  <2>3. active' = None => \A k \in Kept : file[k] \in Terminal
    BY <1>4 DEF Restart, Unfinished, Kept, TypeOK
  <2>4. Kept' = runs'
    BY <2>1 DEF FilesAgree
  <2>5. Cardinality(Kept) <= MaxHistory \/ Kept # {}
    BY FS_EmptySet
  <2>6. Kept \in SUBSET Jobs
    BY DEF Kept
  <2>7. \A k \in Kept : file[k] \in Terminal => k \in settled' /\ k # active'
    BY <2>1, <2>2, <2>6 DEF TypeOK
  <2>8. active' = None => Cardinality(Kept) <= MaxHistory \/ Kept \cap settled' # {}
    BY <2>1, <2>3, <2>5, <2>6
  <2>9. \A k \in Jobs : file'[k] # "none" => file'[k] = file[k]
    BY <2>1
  <2> QED
    BY <1>2, <2>1, <2>4, <2>6, <2>7, <2>8, <2>9
<1>5. ASSUME NEW j \in Jobs, PublishCut(j) PROVE KeptLatest'
  <2>1. /\ born' = born /\ up' = FALSE
        /\ file' = [file EXCEPT ![j] = outcome[j]] /\ outcome[j] \in Terminal
        /\ file[j] \in Active
    BY <1>5 DEF PublishCut, Forget, FilesAgree, Admitted, Running, TypeOK
  <2> QED
    BY <1>0, <2>1 DEF Kept, TypeOK
<1>6. CASE Crash \/ ShutdownEnds \/ \E j \in Jobs : RecoveryFails(j)
  <2>1. born' = born /\ file' = file /\ up' = FALSE
    BY <1>6 DEF Crash, ShutdownEnds, RecoveryFails, Forget
  <2> QED
    BY <1>0, <2>1 DEF Kept
<1>7. ASSUME NEW j \in Jobs,
             \/ LockGranted(j) \/ LockRefused(j) \/ Spawned(j) \/ SpawnFailed(j) \/ ResultFirst(j)
             \/ BindFailed(j) \/ ProcessResult(j) \/ Release(j) \/ RecoveryLocked(j)
             \/ Recovered(j) \/ Kill(j) \/ Exits(j) \/ Close(j)
      PROVE  KeptLatest'
  <2>1. UNCHANGED <<born, file, up, active>>
    BY <1>7 DEF LockGranted, LockRefused, Spawned, SpawnFailed, ResultFirst, BindFailed,
       ProcessResult, Release, RecoveryLocked, Recovered, Kill, Exits, Close
  <2> QED
    BY <1>0, <2>1 DEF Kept
<1>8. ASSUME NEW j \in Jobs, Bound(j) PROVE KeptLatest'
  <2>1. /\ UNCHANGED <<born, up, active>> /\ file' = [file EXCEPT ![j] = "running"]
        /\ file[j] \in Active
    BY <1>8 DEF Bound, FilesAgree, Running, Working
  <2> QED
    BY <1>0, <2>1 DEF Kept, TypeOK
<1>9. ASSUME NEW j \in Jobs, Cancel(j) \/ Timeout(j) PROVE KeptLatest'
  <2>1. PICK reason \in {"cancelled", "timed-out"} : RequestStop(j, reason)
    BY <1>9 DEF Cancel, Timeout
  <2>2. at[j] \in Running
    BY <1>9 DEF Cancel, Timeout, Reachable, Running, Working, StopKept
  <2>3. file' = file
    BY <2>1, <2>2, StopRequested, SavedAgain
  <2>4. UNCHANGED <<born, up, active>>
    BY <1>9 DEF Cancel, Timeout
  <2> QED
    BY <1>0, <2>3, <2>4 DEF Kept
<1>10. ASSUME NEW j \in Jobs, Unconfirmed(j) \/ KillFails(j) PROVE KeptLatest'
  <2>1. (at[j] \in Running /\ Save(j)) \/ file' = file
    BY <1>10 DEF Unconfirmed, KillFails, FilesAgree
  <2>2. file' = file
    BY <2>1, SavedAgain
  <2>3. UNCHANGED <<born, up, active>>
    BY <1>10 DEF Unconfirmed, KillFails
  <2> QED
    BY <1>0, <2>2, <2>3 DEF Kept
<1>11. CASE ShutdownBegins
  <2>1. UNCHANGED <<born, up, active>>
    BY <1>11 DEF ShutdownBegins
  <2>2. file' = file
    <3>1. CASE active # None /\ RequestStop(active, "cancelled")
      BY <3>1, StopRequested, SavedAgain DEF Admitted, TypeOK
    <3>2. CASE UNCHANGED <<stop, requested, timers, killing, file, filed>>
      BY <3>2
    <3> QED
      BY <1>11, <3>1, <3>2 DEF ShutdownBegins
  <2> QED
    BY <1>0, <2>1, <2>2 DEF Kept
<1>12. CASE TakeLock \/ UNCHANGED vars
  <2>1. UNCHANGED <<born, file, up, active>>
    BY <1>12 DEF TakeLock
  <2> QED
    BY <1>0, <2>1 DEF Kept
<1>13. ASSUME NEW j \in Jobs PROVE ~EnqueueUnsynced(j) /\ ~BoundUnsynced(j)
  BY DEF EnqueueUnsynced, BoundUnsynced, TypeOK
<1> QED
  BY <1>1, <1>3, <1>4, <1>5, <1>6, <1>7, <1>8, <1>9, <1>10, <1>11, <1>12, <1>13 DEF Next, Run

LEMMA DiskErrorsGrow == JobsInv /\ [Next]_vars => (diskErrors' = 0 => diskErrors = 0)
BY DEF JobsInv, TypeOK, Next, Run, Enqueue, EnqueueUnsynced, LockGranted, LockRefused, Spawned,
   SpawnFailed, ResultFirst, Bound, BoundUnsynced, BindFailed, ProcessResult, Release, Publish,
   RecoveryLocked, Recovered, RecoveryFails, Cancel, Timeout, Unconfirmed, Kill, KillFails, Exits,
   Close, PublishCut, Crash, ShutdownBegins, ShutdownEnds, Restart, TakeLock

HistoryInv == JobsInv /\ (diskErrors = 0 => FilesAgree /\ KeptLatest)

LEMMA HistoryInit == IsFiniteSet(Jobs) /\ Init => HistoryInv
<1> SUFFICES ASSUME Init PROVE HistoryInv
  OBVIOUS
<1>1. Kept = {} /\ Cardinality(Kept) = 0
  BY FS_EmptySet DEF Init, Kept
<1>2. FilesAgree
  BY <1>1 DEF Init, FilesAgree, Running, Working
<1>3. KeptLatest
  BY <1>1 DEF Init, KeptLatest
<1> QED
  BY <1>2, <1>3, JobsInit DEF HistoryInv

LEMMA HistoryNext == ASSUME IsFiniteSet(Jobs), HistoryInv, [Next]_vars PROVE HistoryInv'
<1>1. JobsInv'
  BY JobsNext DEF HistoryInv
<1>2. ASSUME diskErrors' = 0 PROVE FilesAgree' /\ KeptLatest'
  <2>1. JobsInv /\ FilesAgree /\ KeptLatest
    BY <1>2, DiskErrorsGrow DEF HistoryInv
  <2> QED
    BY <1>1, <1>2, <2>1, FilesAgreeNext, KeptLatestNext DEF JobsInv
<1> QED
  BY <1>1, <1>2 DEF HistoryInv

LEMMA HistoryInvHolds ==
  ASSUME IsFiniteSet(Jobs), HistoryInv, diskErrors = 0
  PROVE  HistoryHolds
<1>1. RestartAccepted
  <2>1. Unfinished = {} \/ \E j \in Jobs : Unfinished = {j}
    BY DEF HistoryInv, FilesAgree, Unfinished
  <2>2. Cardinality(Unfinished) \in {0, 1}
    BY <2>1, FS_EmptySet, FS_Singleton
  <2> QED
    BY <2>2 DEF HistoryInv, FilesAgree, RestartAccepted
<1>2. HistoryKeepsLatest
  <2>1. DOMAIN born = 1..Len(born)
    BY DEF HistoryInv, JobsInv, TypeOK
  <2>2. Cardinality(Kept) \in Nat
    BY FS_Subset, FS_CardinalityType DEF Kept
  <2> QED
    BY <2>1, <2>2 DEF HistoryInv, KeptLatest, HistoryKeepsLatest, Kept
<1>3. TimeoutHonoured
  BY DEF HistoryInv, JobsInv, TypeOK, StopKept, TimeoutHonoured
<1> QED
  BY <1>1, <1>2, <1>3 DEF HistoryHolds

\* Until the sync of a directory fails, whatever point a server dies at, it leaves files that
\* the next one starts from; the runs that are kept are the latest ones, one at most beyond
\* maxHistory; and a timeout that fired is what its run is remembered for.
THEOREM HistoryIsKept ==
  ASSUME IsFiniteSet(Jobs)
  PROVE  Spec => [](diskErrors = 0 => HistoryHolds)
<1>1. HistoryInv /\ [Next]_vars => HistoryInv'
  BY HistoryNext
<1>2. HistoryInv => (diskErrors = 0 => HistoryHolds)
  BY HistoryInvHolds
<1>3. Init => HistoryInv
  BY HistoryInit
<1> QED
  BY <1>1, <1>2, <1>3, PTL DEF Spec

-----------------------------------------------------------------------------
(* The three protocols together *)

\* Whichever of the protocols runs, the variables of all three keep their types.
THEOREM CoordinationIsTyped ==
  ASSUME IsFiniteSet(Jobs)
  PROVE  MCSpec => []CoordinationTypeOK
<1> DEFINE Typed == LockTypeOK /\ JobsInv /\ CacheInv
<1>1. MCInit => Typed
  BY GuardInvInit, JobsInit, CacheInvInit DEF MCInit, GuardInv
<1>2. Typed /\ [MCNext]_all => Typed'
  <2> SUFFICES ASSUME Typed, [MCNext]_all PROVE Typed'
    OBVIOUS
  <2>1. [LockNext]_lockVars /\ [Next]_vars /\ [CacheNext]_cacheVars
    BY DEF MCNext, OfLock, OfJobs, OfCandidates, all
  <2> QED
    BY <2>1, LockTypedNext, JobsNext, CacheInvNext
<1>3. Typed => CoordinationTypeOK
  <2> SUFFICES ASSUME Typed PROVE CacheTypeOK
    BY DEF CoordinationTypeOK, JobsInv
  <2> QED
    BY DEF CacheInv, CacheTyped, CacheTypeOK, BuildRecords, Dirs
<1> QED
  BY <1>1, <1>2, <1>3, PTL DEF MCSpec
=============================================================================
