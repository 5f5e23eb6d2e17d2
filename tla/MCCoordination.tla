-------------------------- MODULE MCCoordination ---------------------------
(***************************************************************************)
(* The protocols that keep processes apart, for TLC in one state graph: a  *)
(* run first chooses which of them it follows, and the others rest.  The   *)
(* configuration says which calls, checks and builders there are.          *)
(*   "lock"        the repository lock and its reclaim guard               *)
(*   "jobs"        the runner of the repository checks                     *)
(*   "candidates"  the cache that candidates are built in                  *)
(***************************************************************************)
EXTENDS RepositoryLock, JobRunner, CandidateCache, TLC

CONSTANTS t1, t2, t3, q1, q2, q3

\* Every call in a process of its own, or two calls in one.
Separate == (t1 :> q1) @@ (t2 :> q2) @@ (t3 :> q3)
Shared   == (t1 :> q1) @@ (t2 :> q1) @@ (t3 :> q2)

\* Two builders of the same sources, and one of others.
CONSTANTS b1, b2, b3, d1, d2
SourcesOf == (b1 :> d1) @@ (b2 :> d1) @@ (b3 :> d2)

VARIABLE which
all == <<which, lockVars, vars, cacheVars>>

MCInit == /\ which \in {"lock", "jobs", "candidates"} /\ LockInit /\ Init /\ CacheInit
          /\ which # "lock" => ownerRecord = {}
          /\ which # "candidates" => cacheLock = NoDir
          /\ [b \in Builders |-> builds[b].of] = SourcesOf

OfLock(A) == which = "lock" /\ A /\ UNCHANGED <<which, vars, cacheVars>>
OfJobs(A) == which = "jobs" /\ A /\ UNCHANGED <<which, lockVars, cacheVars>>
OfCandidates(A) == which = "candidates" /\ A /\ UNCHANGED <<which, lockVars, vars>>
MCNext == OfLock(LockNext) \/ OfJobs(Next) \/ OfCandidates(CacheNext)
MCSpec == MCInit /\ [][MCNext]_all

\* The fairness of the lock and of the runner, each where it is the one that runs; of the
\* cache nothing is promised to happen.
MCLiveInit == MCInit /\ which # "candidates"
MCFairSpec ==
  /\ MCLiveInit /\ [][MCNext]_all
  /\ WF_lockVars(OfLock(\E t \in Tasks : Acquire(t) \/ Reclaim(t) \/ LetGo(t)))
  /\ SF_lockVars(OfLock(\E t \in Tasks : RemoveDeadBarrier(t)))
  /\ SF_lockVars(OfLock(\E t \in Tasks : LockOld(t)))
  /\ \A j \in Jobs : /\ WF_vars(OfJobs(Run(j))) /\ WF_vars(OfJobs(Timeout(j)))
                     /\ WF_vars(OfJobs(Kill(j))) /\ WF_vars(OfJobs(Close(j)))

Symmetry == Permutations(Jobs)

\* The types of the lock, of the job runner and of the cache.
CoordinationTypeOK == LockTypeOK /\ TypeOK /\ (which = "candidates" => CacheTypeOK)
=============================================================================
