--------------------------- MODULE RepositoryLock --------------------------
(***************************************************************************)
(* workbench/src/applyJournal.ts: how a call gets the repository lock.     *)
(*                                                                         *)
(* The lock is a file created with O_EXCL that names its owner and the     *)
(* owner's pid.  Whoever finds it taken may judge the owner gone and       *)
(* remove the file, which takes a second file, the reclaim guard.  A guard *)
(* can itself be abandoned, and it is moved aside under another name by    *)
(* everyone who inspects it; under any name it is a barrier that stops     *)
(* acquirers.                                                              *)
(*                                                                         *)
(* A task is one call of acquireRepositoryLock in some process.  Its lock  *)
(* file and its guard file are named after it: the owner id in the record. *)
(***************************************************************************)
EXTENDS FiniteSets

CONSTANTS Tasks,     \* acquisitions, each with a fresh owner id
          Procs,     \* processes (pids are not reused)
          ProcOf,    \* the process a task runs in
          ProcessesEnd, \* whether processes end while others contend
          Left,      \* a task whose process died with its lock file in place, or NoOwner
          NoOwner    \* no file, no task

ASSUME TasksAssumption == /\ ProcOf \in [Tasks -> Procs] /\ NoOwner \notin Tasks
                          /\ ProcessesEnd \in BOOLEAN /\ Left \in Tasks \cup {NoOwner}

VARIABLES
  dead,      \* processes that died
  lockFile,  \* whose file is at mutation-apply.lock
  ownerRecord, \* tasks whose lock file has its owner record written
  registry,  \* heldLockOwnerIds, of all processes
  guard,     \* whose file is at mutation-apply.reclaim-guard
  aside,     \* whose guard files are under a claim, probe or withdrawal name
  guardRecord, \* tasks whose guard file has its owner record written
  pc,        \* where each task is
  judged,    \* the owner a task has judged gone
  claim      \* whose lock file a task has renamed away

lockVars == <<dead, lockFile, ownerRecord, registry, guard, aside, guardRecord, pc, judged, claim>>
guardFiles == <<guard, aside, guardRecord>>
lockFiles  == <<lockFile, ownerRecord, registry>>

Alive(t) == ProcOf[t] \notin dead
Holding  == {t \in Tasks : pc[t] = "held" /\ Alive(t)}
Barriers == aside \cup ({guard} \ {NoOwner})

LockInit ==
  /\ dead = {ProcOf[t] : t \in {Left} \ {NoOwner}}
  /\ lockFile = Left /\ ownerRecord \in SUBSET ({Left} \ {NoOwner}) /\ registry = {}
  /\ guard = NoOwner /\ aside = {} /\ guardRecord = {}
  /\ pc = [t \in Tasks |-> "start"]
  /\ judged = [t \in Tasks |-> NoOwner] /\ claim = [t \in Tasks |-> NoOwner]

LockGoto(t, from, to) == pc[t] = from /\ Alive(t) /\ pc' = [pc EXCEPT ![t] = to]

-----------------------------------------------------------------------------
(* reclaimBarrierPresent *)

\* pidIsAlive of the owner of a guard; a malformed guard counts as alive.
GuardAlive(g) == Alive(g) \/ g \notin guardRecord

\* Every guard file that is looked at is first renamed to a probe name.
\* One that belongs to a dead process is deleted and the scan goes on.
RemoveDeadBarrier(t) ==
  /\ pc[t] \in {"start", "written"} /\ Alive(t)
  /\ \E g \in Barriers :
       /\ ~GuardAlive(g)
       /\ aside' = aside \ {g}
       /\ guard' = IF guard = g THEN NoOwner ELSE guard
  /\ UNCHANGED <<dead, lockFiles, guardRecord, pc, judged, claim>>

\* The barrier is there: the guard just probed has a live owner and stays under
\* its probe name, or another one shows up in the last look.
BarrierPresent(t, from, to) ==
  /\ LockGoto(t, from, to)
  /\ Barriers # {}
  /\ \/ \E g \in Barriers : /\ GuardAlive(g)
                            /\ aside' = aside \cup {g}
                            /\ guard' = IF guard = g THEN NoOwner ELSE guard
     \/ UNCHANGED <<guard, aside>>
  /\ UNCHANGED <<dead, lockFiles, guardRecord, judged, claim>>

\* Mutant: only the guard under its own name counts.
BarrierAbsent_InPlace(t, from, to) ==
  /\ LockGoto(t, from, to)
  /\ guard = NoOwner
  /\ UNCHANGED <<dead, lockFiles, guardFiles, judged, claim>>

BarrierAbsent(t, from, to) ==
  /\ LockGoto(t, from, to)
  /\ Barriers = {}
  /\ UNCHANGED <<dead, lockFiles, guardFiles, judged, claim>>

-----------------------------------------------------------------------------
(* acquireRepositoryLock and releaseRepositoryLock *)

\* lock_busy; callers that wait try again.
Busy(t) == BarrierPresent(t, "start", "start")

Create(t) ==
  /\ LockGoto(t, "create", "created")
  /\ lockFile = NoOwner /\ lockFile' = t
  /\ UNCHANGED <<dead, ownerRecord, registry, guardFiles, judged, claim>>

\* EEXIST: see whether the owner is gone.
Exists(t) ==
  /\ LockGoto(t, "create", "guard")
  /\ lockFile # NoOwner
  /\ UNCHANGED <<dead, lockFiles, guardFiles, judged, claim>>

WriteRecord(t) ==
  /\ LockGoto(t, "created", "written")
  /\ ownerRecord' = ownerRecord \cup {t}
  /\ UNCHANGED <<dead, lockFile, registry, guardFiles, judged, claim>>

\* removeOwnedFile, releaseRepositoryLock: read the record, and if it is one's
\* own unlink whatever is there by then.
ReadOwned(t) ==
  /\ lockFile = t /\ LockGoto(t, "withdraw", "unlink")
  /\ UNCHANGED <<dead, lockFiles, guardFiles, judged, claim>>
NotOwned(t) ==
  /\ lockFile # t /\ LockGoto(t, "withdraw", "done")
  /\ UNCHANGED <<dead, lockFiles, guardFiles, judged, claim>>
Unlink(t) ==
  /\ LockGoto(t, "unlink", "done")
  /\ lockFile' = NoOwner
  /\ UNCHANGED <<dead, ownerRecord, registry, guardFiles, judged, claim>>

\* The directory has been synced; only now is the owner registered.
Register(t) ==
  /\ LockGoto(t, "syncing", "held")
  /\ registry' = registry \cup {t}
  /\ UNCHANGED <<dead, lockFile, ownerRecord, guardFiles, judged, claim>>

ReleaseLock(t) ==
  /\ LockGoto(t, "held", "withdraw")
  /\ registry' = registry \ {t}
  /\ UNCHANGED <<dead, lockFile, ownerRecord, guardFiles, judged, claim>>

Acquire(t) ==
  \/ RemoveDeadBarrier(t)
  \/ Busy(t)
  \/ BarrierAbsent(t, "start", "create")
  \/ Create(t) \/ Exists(t) \/ WriteRecord(t)
  \/ BarrierPresent(t, "written", "withdraw")
  \/ BarrierAbsent(t, "written", "syncing")
  \/ Register(t)

-----------------------------------------------------------------------------
(* acquireReclaimGuard and withdrawReclaimGuard *)

\* A guard set aside by someone: remove it if its owner is dead, else give up.
ReadClaim(t) ==
  /\ LockGoto(t, "guard", "guardClaim")
  /\ \E g \in aside : judged' = [judged EXCEPT ![t] = g]
  /\ UNCHANGED <<dead, lockFiles, guardFiles, claim>>
RemoveDeadClaim(t) ==
  /\ LockGoto(t, "guardClaim", "guard")
  /\ judged[t] \in aside /\ ~GuardAlive(judged[t])
  /\ aside' = aside \ {judged[t]}
  /\ UNCHANGED <<dead, lockFiles, guard, guardRecord, judged, claim>>
LiveClaim(t) ==
  /\ LockGoto(t, "guardClaim", "start")
  /\ judged[t] \in aside \cap guardRecord /\ Alive(judged[t])
  /\ UNCHANGED <<dead, lockFiles, guardFiles, judged, claim>>
\* A claim that has vanished since it was listed, or that has no record yet, is
\* no lock_busy: not even a caller that waits tries again.
ClaimUnreadable(t) ==
  /\ LockGoto(t, "guardClaim", "failed")
  /\ judged[t] \notin aside \cap guardRecord
  /\ UNCHANGED <<dead, lockFiles, guardFiles, judged, claim>>

CanCreateGuard(t) ==
  /\ LockGoto(t, "guard", "guardCreate")
  /\ aside = {}
  /\ UNCHANGED <<dead, lockFiles, guardFiles, judged, claim>>

CreateGuard(t) ==
  /\ LockGoto(t, "guardCreate", "guardCreated")
  /\ guard = NoOwner /\ guard' = t
  /\ guardRecord' = guardRecord \ {t}
  /\ UNCHANGED <<dead, lockFiles, aside, judged, claim>>
WriteGuard(t) ==
  /\ LockGoto(t, "guardCreated", "guardWritten")
  /\ guardRecord' = guardRecord \cup {t}
  /\ UNCHANGED <<dead, lockFiles, guard, aside, judged, claim>>

\* Mutant: competing guards that were set aside do not count.
GuardHeld_Alone(t) ==
  /\ LockGoto(t, "guardWritten", "guarding")
  /\ UNCHANGED <<dead, lockFiles, guardFiles, judged, claim>>

\* The guard is held only if nobody else's is about, aside or not.
GuardHeld(t) ==
  /\ LockGoto(t, "guardWritten", "guarding")
  /\ aside = {}
  /\ UNCHANGED <<dead, lockFiles, guardFiles, judged, claim>>
GuardContended(t) ==
  /\ LockGoto(t, "guardWritten", "retreat")
  /\ aside # {}
  /\ UNCHANGED <<dead, lockFiles, guardFiles, judged, claim>>

\* Somebody's guard is in place: if its owner is dead, claim it by renaming.
GuardExists(t) ==
  /\ LockGoto(t, "guardCreate", "guardExists")
  /\ guard # NoOwner
  /\ UNCHANGED <<dead, lockFiles, guardFiles, judged, claim>>
ReadGuard(t) ==
  /\ LockGoto(t, "guardExists", "guardRead")
  /\ guard \in guardRecord
  /\ judged' = [judged EXCEPT ![t] = guard]
  /\ UNCHANGED <<dead, lockFiles, guardFiles, claim>>
\* It was in place when O_EXCL failed; now it is gone, or it is another one whose
\* record is not written yet.
GuardUnreadable(t) ==
  /\ LockGoto(t, "guardExists", "failed")
  /\ guard \notin guardRecord
  /\ UNCHANGED <<dead, lockFiles, guardFiles, judged, claim>>
GuardBusy(t) ==
  /\ LockGoto(t, "guardRead", "start")
  /\ Alive(judged[t])
  /\ UNCHANGED <<dead, lockFiles, guardFiles, judged, claim>>

\* Mutant: what was renamed is set aside whether there was a guard or not.
ClaimGuard_Always(t) ==
  /\ pc[t] = "guardRead" /\ Alive(t) /\ ~Alive(judged[t])
  /\ pc' = [pc EXCEPT ![t] = "start"] /\ aside' = aside \cup {guard}
  /\ guard' = NoOwner /\ judged' = [judged EXCEPT ![t] = NoOwner]
  /\ UNCHANGED <<dead, lockFiles, guardRecord, claim>>

\* What was renamed may be a newer guard by now: then it stays aside, a barrier
\* under another name, and this task gives up.
ClaimGuard(t) ==
  /\ pc[t] = "guardRead" /\ Alive(t) /\ ~Alive(judged[t])
  /\ IF guard \in {NoOwner, judged[t]}
       THEN pc' = [pc EXCEPT ![t] = "guard"] /\ UNCHANGED aside
       ELSE pc' = [pc EXCEPT ![t] = "start"] /\ aside' = aside \cup {guard}
  /\ guard' = NoOwner /\ judged' = [judged EXCEPT ![t] = NoOwner]
  /\ UNCHANGED <<dead, lockFiles, guardRecord, claim>>

\* Withdrawal looks for the task's own guard under every name and moves the
\* guards of others aside on the way.
Withdraw(t, from, to) ==
  /\ LockGoto(t, from, to)
  /\ guard' = NoOwner
  /\ aside' = Barriers \ {t}
  /\ UNCHANGED <<dead, lockFiles, guardRecord, judged, claim>>

-----------------------------------------------------------------------------
(* Reclaiming the lock, under the guard *)

\* Mutants: the registry decides for every record; an owner is never judged gone.
OwnerActive_Registry(t, u) == ProcOf[u] = ProcOf[t] /\ u \in registry
OwnerActive_Never(t, u) == TRUE

\* lockOwnerIsActive: the registry speaks for one's own process, the pid for
\* others.
OwnerActive(t, u) == IF ProcOf[u] = ProcOf[t] THEN u \in registry ELSE Alive(u)

LockGone(t) ==
  /\ LockGoto(t, "guarding", "reclaimed")
  /\ lockFile = NoOwner
  /\ UNCHANGED <<dead, lockFiles, guardFiles, judged, claim>>
ReadLock(t) ==
  /\ LockGoto(t, "guarding", "lockRead")
  /\ lockFile \in ownerRecord
  /\ judged' = [judged EXCEPT ![t] = lockFile]
  /\ UNCHANGED <<dead, lockFiles, guardFiles, claim>>
LockActive(t) ==
  /\ LockGoto(t, "lockRead", "retreat")
  /\ OwnerActive(t, judged[t])
  /\ UNCHANGED <<dead, lockFiles, guardFiles, judged, claim>>
JudgeLock(t) ==
  /\ LockGoto(t, "lockRead", "judged")
  /\ ~OwnerActive(t, judged[t])
  /\ UNCHANGED <<dead, lockFiles, guardFiles, judged, claim>>

\* A lock file without a record may be taken once it is five minutes old; the
\* model takes it that by then its creator would have written it or is dead.
ReadMalformed(t) ==
  /\ LockGoto(t, "guarding", "malformed")
  /\ lockFile \notin ownerRecord \cup {NoOwner}
  /\ judged' = [judged EXCEPT ![t] = NoOwner]
  /\ UNCHANGED <<dead, lockFiles, guardFiles, claim>>
LockYoung(t) ==
  /\ LockGoto(t, "malformed", "retreat")
  /\ lockFile # NoOwner
  /\ UNCHANGED <<dead, lockFiles, guardFiles, judged, claim>>
LockOld(t) ==
  /\ LockGoto(t, "malformed", "judged")
  /\ lockFile # NoOwner => ~Alive(lockFile)
  /\ UNCHANGED <<dead, lockFiles, guardFiles, judged, claim>>

\* The lock file is renamed away before anyone looks whose it is by now.
ClaimLock(t) ==
  /\ LockGoto(t, "judged", IF lockFile = NoOwner THEN "reclaimed" ELSE "claimed")
  /\ claim' = [claim EXCEPT ![t] = lockFile]
  /\ lockFile' = NoOwner
  /\ UNCHANGED <<dead, ownerRecord, registry, guardFiles, judged>>
\* reclaimInvalidLock removes what it has renamed, reclaimStaleLock if it is the
\* lock that was judged.
RemoveClaim(t) ==
  /\ LockGoto(t, "claimed", "reclaimed")
  /\ judged[t] \in {NoOwner, claim[t]}
  /\ claim' = [claim EXCEPT ![t] = NoOwner]
  /\ UNCHANGED <<dead, lockFiles, guardFiles, judged>>
\* The ABA case: another owner's lock was renamed, and rename puts it back,
\* over whatever has been created meanwhile.
RestoreClaim(t) ==
  /\ LockGoto(t, "claimed", "retreat")
  /\ judged[t] \notin {NoOwner, claim[t]} /\ claim[t] \in ownerRecord
  /\ lockFile' = claim[t]
  /\ claim' = [claim EXCEPT ![t] = NoOwner]
  /\ UNCHANGED <<dead, ownerRecord, registry, guardFiles, judged>>
\* The other owner has not written its record yet: lock_invalid, and the file
\* stays under its claim name.
LeaveClaim(t) ==
  /\ LockGoto(t, "claimed", "abandon")
  /\ judged[t] \notin {NoOwner, claim[t]} /\ claim[t] \notin ownerRecord
  /\ UNCHANGED <<dead, lockFiles, guardFiles, judged, claim>>

Reclaim(t) ==
  \/ ReadClaim(t) \/ RemoveDeadClaim(t) \/ LiveClaim(t) \/ ClaimUnreadable(t)
  \/ CanCreateGuard(t) \/ CreateGuard(t) \/ WriteGuard(t)
  \/ GuardHeld(t) \/ GuardContended(t)
  \/ GuardExists(t) \/ ReadGuard(t) \/ GuardUnreadable(t) \/ GuardBusy(t) \/ ClaimGuard(t)
  \/ LockGone(t) \/ ReadLock(t) \/ LockActive(t) \/ JudgeLock(t)
  \/ ReadMalformed(t) \/ LockYoung(t) \/ LockOld(t)
  \/ ClaimLock(t) \/ RemoveClaim(t) \/ RestoreClaim(t) \/ LeaveClaim(t)
  \/ Withdraw(t, "retreat", "start") \/ Withdraw(t, "reclaimed", "start")
  \/ Withdraw(t, "abandon", "failed")

-----------------------------------------------------------------------------
LetGo(t) == ReleaseLock(t) \/ ReadOwned(t) \/ NotOwned(t) \/ Unlink(t)

Ended(p) == \A t \in Tasks : ProcOf[t] = p => pc[t] \in {"done", "failed"}
Gone(p) ==
  /\ p \notin dead /\ dead' = dead \cup {p}
  /\ registry' = {t \in registry : ProcOf[t] # p}
  /\ UNCHANGED <<lockFile, ownerRecord, guardFiles, pc, judged, claim>>

\* A process dies in the middle of its work; its files stay.
ProcessDies(p) == ~Ended(p) /\ Gone(p)

\* A process ends after its work, while others may still be looking at a record
\* it has removed.
ProcessEnds(p) == ProcessesEnd /\ Ended(p) /\ Gone(p)

LockNext == \/ \E t \in Tasks : Acquire(t) \/ Reclaim(t) \/ LetGo(t)
            \/ \E p \in Procs : ProcessDies(p) \/ ProcessEnds(p)

LockSpec == LockInit /\ [][LockNext]_lockVars

\* As long as a call waits some call runs (withRepositoryLockWaiting polls), scans
\* delete the dead barriers they meet, and a lock file grows old.
LockFairness == /\ WF_lockVars(\E t \in Tasks : Acquire(t) \/ Reclaim(t) \/ LetGo(t))
                /\ SF_lockVars(\E t \in Tasks : RemoveDeadBarrier(t))
                /\ SF_lockVars(\E t \in Tasks : LockOld(t))
LockFairSpec == LockSpec /\ LockFairness

-----------------------------------------------------------------------------
LockTypeOK ==
  /\ dead \subseteq Procs
  /\ lockFile \in Tasks \cup {NoOwner} /\ guard \in Tasks \cup {NoOwner}
  /\ ownerRecord \subseteq Tasks /\ registry \subseteq Tasks
  /\ aside \subseteq Tasks /\ guardRecord \subseteq Tasks
  /\ pc \in [Tasks -> {"start", "create", "created", "written", "syncing", "held",
       "withdraw", "unlink", "done", "guard", "guardCreate", "guardCreated",
       "guardWritten", "guarding", "guardClaim", "guardExists", "guardRead",
       "lockRead", "malformed", "judged", "claimed", "reclaimed", "retreat", "abandon",
       "failed"}]
  /\ judged \in [Tasks -> Tasks \cup {NoOwner}] /\ claim \in [Tasks -> Tasks \cup {NoOwner}]

\* Only one call is between acquireRepositoryLock and releaseRepositoryLock,
\* whoever died, was judged gone or had its file renamed meanwhile.
MutualExclusion == \A t, u \in Holding : t = u

\* Whoever holds the lock has its own file in place.
HolderHasFile == \A t \in Holding : lockFile = t

Reclaiming == {"guarding", "lockRead", "malformed", "judged", "claimed"}

\* One reclaimer at a time inspects, renames or restores the lock file, whatever
\* names the guards of live, dead and competing reclaimers have been moved to.
GuardExclusive ==
  \A t, u \in Tasks :
    /\ Alive(t) /\ pc[t] \in Reclaiming
    /\ Alive(u) /\ pc[u] \in Reclaiming
    => t = u

Secured == {"syncing", "held"}

\* A reclaimer renames whatever file it finds and may put it back over another one; but
\* never over, nor away, the file of a live call of another process that is past its second
\* look for barriers: a reclaimer whose guard that call did not see reads the lock after it.
ReclaimSpares ==
  [][\A u \in Tasks \cap {lockFile} : Alive(u) /\ pc[u] \in Secured =>
       \A t \in Tasks :
         /\ pc[t] \in {"judged", "claimed"} /\ pc'[t] # pc[t]
         /\ Alive(t) /\ ProcOf[t] # ProcOf[u]
         => lockFile' = u]_lockVars

Survivors == {t \in Tasks : Alive(t) /\ pc[t] \notin {"done", "failed"}}

\* A guard whose creator died before writing its record is a barrier for ever:
\* nobody can tell that its creator is dead.
TornBarrier == \E g \in Barriers : ~Alive(g) /\ GuardAlive(g)

\* The lock of a dead owner does not stay, whatever guards dead reclaimers left:
\* the last call that keeps trying reclaims it.
ReclaimedEventually ==
  \A t \in Tasks : lockFile = t /\ ~Alive(t) /\ Cardinality(Survivors) = 1
    ~> lockFile # t \/ Survivors = {} \/ TornBarrier
=============================================================================
