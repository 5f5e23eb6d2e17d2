----------------------------- MODULE JobRunner -----------------------------
(***************************************************************************)
(* workbench/src/jobRunner.ts: the repository checks a workbench server    *)
(* runs, one at a time.                                                    *)
(*                                                                         *)
(* A job is admitted, waits for the repository lock, spawns a process it   *)
(* owns, binds the identity of that process to its state file, runs under  *)
(* a timeout, and publishes a terminal record only after the process has   *)
(* closed and the lock has been released.  Between two awaits the server   *)
(* runs alone; cancellations, timers and process events fall in between.   *)
(* The server may die at any of these points; the next one restores what   *)
(* the state files say and first stops the job that was under way.         *)
(***************************************************************************)
EXTENDS Naturals, FiniteSets, Sequences

CONSTANTS Jobs,          \* runs, each with a fresh run id
          None,          \* no job
          Others,        \* a call outside the runner that holds the repository lock
          MaxHistory,    \* maxHistory
          SlowSpawn,     \* whether ownedSpawn waits for its helper (Windows)
          MaxCrashes,    \* deaths of the server
          MaxKillFails,  \* times killProcessTree may fail
          MaxDiskErrors  \* times a directory sync may fail

Active   == {"queued", "running"}
Terminal == {"passed", "failed", "timed-out", "cancelled", "interrupted"}

ASSUME NoneAssumption == None \notin Jobs \cup {Others} \cup Terminal /\ Others \notin Jobs
ASSUME HistoryAssumption == MaxHistory \in Nat \ {0}
ASSUME SpawnAssumption == SlowSpawn \in BOOLEAN
ASSUME BoundsAssumption ==
  MaxCrashes \in Nat /\ MaxKillFails \in Nat /\ MaxDiskErrors \in Nat

VARIABLES
  \* durable, and the world
  file,       \* state in the file of a job, or "none"
  filed,      \* jobs whose file names a child process
  born,       \* jobs by queuedAt
  proc,       \* the process of each job: "none", "alive", "exited"
  lock,       \* who holds the repository lock
  \* memory of the server
  up, accepting,
  active,     \* activeRunId
  runs,       \* the runs it remembers; their order is that of born
  state,      \* JobRecord.state
  bound,      \* runs with a persistedChildPid
  at,         \* where start() or the recovery of a run is
  child,      \* runs with a child whose close event is still to come
  mine,       \* jobs whose process this server has spawned
  stop,       \* stopReason
  requested,  \* terminalRequested, which resolves processResult
  outcome,    \* what start() is going to publish
  errored,    \* processError
  settled,
  timed, confirming,  \* runs whose timeout, or close confirmation, is armed
  killing,    \* runs whose process tree is being killed
  crashes, killFails, diskErrors

disk    == <<file, filed, born>>
world   == <<proc, lock>>
server  == <<up, accepting, active, runs>>
record  == <<state, bound, settled>>
process == <<child, mine, errored, killing>>
result  == <<stop, requested, outcome>>
timers  == <<timed, confirming>>
faults  == <<crashes, killFails, diskErrors>>
vars == <<disk, world, server, record, at, process, result, timers, faults>>

Init ==
  /\ file = [j \in Jobs |-> "none"] /\ filed = {} /\ born = <<>>
  /\ proc = [j \in Jobs |-> "none"] /\ lock = None
  /\ up = TRUE /\ accepting = TRUE /\ active = None /\ runs = {}
  /\ state = [j \in Jobs |-> "none"] /\ bound = {} /\ settled = {}
  /\ at = [j \in Jobs |-> "none"]
  /\ child = {} /\ mine = {} /\ errored = {} /\ killing = {}
  /\ stop = [j \in Jobs |-> None] /\ requested = [j \in Jobs |-> None]
  /\ outcome = [j \in Jobs |-> None]
  /\ timed = {} /\ confirming = {}
  /\ crashes = 0 /\ killFails = 0 /\ diskErrors = 0

-----------------------------------------------------------------------------
(* Helpers *)

Goto(j, from, to) == up /\ at[j] = from /\ at' = [at EXCEPT ![j] = to]

\* persistState: the file says what the run says, s its state and pids {j} or {}.
Persist(j, s, pids) ==
  /\ file' = [file EXCEPT ![j] = s]
  /\ filed' = (filed \ {j}) \cup pids

Save(j) == Persist(j, state[j], bound \cap {j})

\* Mutant: the timers of a finished process keep running.
SignalProcessResult_TimersStay(j, s) ==
  /\ requested' = IF requested[j] = None THEN [requested EXCEPT ![j] = s] ELSE requested
  /\ UNCHANGED <<timed, confirming>>

\* signalProcessResult: the first result counts, and stops the timers.
SignalProcessResult(j, s) ==
  IF requested[j] # None
    THEN UNCHANGED <<requested, timed, confirming>>
    ELSE /\ requested' = [requested EXCEPT ![j] = s]
         /\ timed' = timed \ {j} /\ confirming' = confirming \ {j}

\* Mutant: nothing is ever dropped.
Pruned_Never(rs, done, act) == rs

\* The first n of a set of runs, in the order in which the map and the restart list them.
Before(k, j) == \E m, n \in DOMAIN born : m < n /\ born[m] = k /\ born[n] = j
Oldest(n, S) == {j \in S : Cardinality({k \in S : Before(k, j)}) < n}

\* pruneHistory: the oldest settled runs go, and their files with them.
Pruned(rs, done, act) ==
  LET limit  == MaxHistory + (IF act = None THEN 0 ELSE 1)
      excess == Cardinality(rs) - limit
  IN  IF excess > 0 THEN rs \ Oldest(excess, (rs \cap done) \ {act}) ELSE rs

-----------------------------------------------------------------------------
(* Admission *)

\* Mutant: admission looks at the state of the active run, not at activeRunId.
Free_Stopping == \A j \in Jobs : active = j => stop[j] # None
Free == active = None

Admit(j) ==
  /\ up /\ accepting /\ Free
  /\ \A i \in DOMAIN born : born[i] # j
  /\ born' = Append(born, j)

Enqueue(j) ==
  /\ Admit(j)
  /\ active' = j /\ runs' = runs \cup {j}
  /\ state' = [state EXCEPT ![j] = "queued"]
  /\ at' = [at EXCEPT ![j] = "locking"]
  /\ Persist(j, "queued", {})
  /\ UNCHANGED <<world, up, accepting, bound, settled, process, result, timers, faults>>

\* persistState renames the file into place and then fails to sync the directory:
\* the run is forgotten, its file stays.
EnqueueUnsynced(j) ==
  /\ Admit(j)
  /\ diskErrors < MaxDiskErrors /\ diskErrors' = diskErrors + 1
  /\ Persist(j, "queued", {})
  /\ UNCHANGED <<world, server, record, at, process, result, timers, crashes, killFails>>

-----------------------------------------------------------------------------
(* start and startLocked *)

LockGranted(j) ==
  /\ Goto(j, "locking", IF requested[j] # None THEN "release" ELSE "spawning")
  /\ lock = None /\ lock' = j
  /\ outcome' = [outcome EXCEPT ![j] = requested[j]]
  /\ UNCHANGED <<disk, proc, server, record, process, stop, requested, timers, faults>>

\* The lock is busy, or the recovery of a mutation under it failed.
LockRefused(j) ==
  /\ Goto(j, "locking", "publish")
  /\ outcome' = [outcome EXCEPT ![j] = "failed"]
  /\ UNCHANGED <<disk, world, server, record, process, stop, requested, timers, faults>>

Spawned(j) ==
  /\ Goto(j, "spawning", "binding")
  /\ proc' = [proc EXCEPT ![j] = "alive"]
  /\ child' = child \cup {j} /\ mine' = mine \cup {j}
  /\ UNCHANGED <<disk, lock, server, record, errored, killing, result, timers, faults>>

SpawnFailed(j) ==
  /\ Goto(j, "spawning", "running")
  /\ SignalProcessResult(j, "failed")
  /\ UNCHANGED <<disk, world, server, record, process, stop, outcome, faults>>

\* A result that came while the identity was being captured ends the run here.
ResultFirst(j) ==
  /\ Goto(j, "binding", "release")
  /\ requested[j] # None
  /\ outcome' = [outcome EXCEPT ![j] = requested[j]]
  /\ UNCHANGED <<disk, world, server, record, process, stop, requested, timers, faults>>

Bound(j) ==
  /\ Goto(j, "binding", "running")
  /\ requested[j] = None
  /\ state' = [state EXCEPT ![j] = "running"] /\ bound' = bound \cup {j}
  /\ Persist(j, "running", {j})
  /\ timed' = timed \cup {j}
  /\ UNCHANGED <<born, world, server, settled, process, result, confirming, faults>>

\* The run could not be made durable as running, in whole or in part: start()
\* takes the exception for a lock it did not get.
BoundUnsynced(j) ==
  /\ Goto(j, "binding", "release")
  /\ requested[j] = None
  /\ diskErrors < MaxDiskErrors /\ diskErrors' = diskErrors + 1
  /\ state' = [state EXCEPT ![j] = "running"] /\ bound' = bound \cup {j}
  /\ \/ Persist(j, "running", {j})
     \/ UNCHANGED <<file, filed>>
  /\ outcome' = [outcome EXCEPT ![j] = "failed"]
  /\ UNCHANGED <<born, world, server, settled, process, stop, requested, timers,
                 crashes, killFails>>

\* Mutant: the process whose identity is unknown is left alone.
BindFailed_NotKilled(j) ==
  /\ Goto(j, "binding", "running")
  /\ requested[j] = None
  /\ errored' = errored \cup {j}
  /\ UNCHANGED <<disk, world, server, record, child, mine, killing, result, timers, faults>>

\* No timer is armed; the process is killed and its close awaited.
BindFailed(j) ==
  /\ Goto(j, "binding", "running")
  /\ requested[j] = None
  /\ errored' = errored \cup {j} /\ killing' = killing \cup {j}
  /\ UNCHANGED <<disk, world, server, record, child, mine, result, timers, faults>>

\* Mutant: the result of the process is not awaited.
ProcessResult_NotAwaited(j) ==
  /\ Goto(j, "running", "release")
  /\ outcome' = [outcome EXCEPT ![j] = requested[j]]
  /\ UNCHANGED <<disk, world, server, record, process, stop, requested, timers, faults>>

ProcessResult(j) ==
  /\ Goto(j, "running", "release")
  /\ requested[j] # None
  /\ outcome' = [outcome EXCEPT ![j] = requested[j]]
  /\ UNCHANGED <<disk, world, server, record, process, stop, requested, timers, faults>>

Release(j) ==
  /\ Goto(j, "release", "publish")
  /\ lock' = None
  /\ UNCHANGED <<disk, proc, server, record, process, result, timers, faults>>

\* publishTerminal
Publish(j) ==
  /\ Goto(j, "publish", "done")
  /\ settled' = settled \cup {j}
  /\ state' = [state EXCEPT ![j] = outcome[j]] /\ bound' = bound \ {j}
  /\ timed' = timed \ {j} /\ confirming' = confirming \ {j}
  /\ active' = IF active = j THEN None ELSE active
  /\ runs' = Pruned(runs, settled', active')
  /\ LET gone == runs \ runs'
     IN  /\ file' = [k \in Jobs |-> IF k \in gone THEN "none"
                                    ELSE IF k = j THEN outcome[j] ELSE file[k]]
         /\ filed' = filed \ (gone \cup {j})
  /\ UNCHANGED <<born, world, up, accepting, process, result, faults>>

-----------------------------------------------------------------------------
(* Stopping *)

\* Mutant: stopping a run ends it at once.
RequestStop_AtOnce(j, reason) ==
  /\ j \notin settled /\ stop[j] = None
  /\ stop' = [stop EXCEPT ![j] = reason]
  /\ SignalProcessResult(j, reason)
  /\ killing' = IF j \in child THEN killing \cup {j} ELSE killing
  /\ UNCHANGED <<file, filed>>

\* requestStop: a run without a process gets its result at once, one with a
\* process when the process closes.
RequestStop(j, reason) ==
  /\ j \notin settled /\ stop[j] = None
  /\ stop' = [stop EXCEPT ![j] = reason]
  /\ IF j \in child
       THEN /\ confirming' = confirming \cup {j} /\ killing' = killing \cup {j}
            /\ UNCHANGED <<requested, timed, file, filed>>
       ELSE SignalProcessResult(j, reason) /\ Save(j) /\ UNCHANGED killing

\* Nothing can come between the awaits of a spawn that does not wait, and the
\* server listens only when recovery is over.
Reachable(j) ==
  /\ up /\ j \in runs
  /\ at[j] \in {"locking", "binding", "running", "release", "publish"}
               \cup (IF SlowSpawn THEN {"spawning"} ELSE {})
  /\ outcome[j] # "interrupted"

Cancel(j) ==
  /\ Reachable(j)
  /\ RequestStop(j, "cancelled")
  /\ UNCHANGED <<born, world, server, record, at, child, mine, errored, outcome, faults>>

\* A timer that fires on a run already stopped changes nothing.
Timeout(j) ==
  /\ up /\ j \in timed
  /\ RequestStop(j, "timed-out")
  /\ UNCHANGED <<born, world, server, record, at, child, mine, errored, outcome, faults>>

\* Close was not confirmed in time: admission stays locked.
Unconfirmed(j) ==
  /\ up /\ j \in confirming /\ confirming' = confirming \ {j}
  /\ errored' = errored \cup {j}
  /\ Save(j)
  /\ UNCHANGED <<born, world, server, record, at, child, mine, killing, result, timed, faults>>

Kill(j) ==
  /\ up /\ j \in killing /\ proc[j] = "alive"
  /\ proc' = [proc EXCEPT ![j] = "exited"]
  /\ killing' = killing \ {j}
  /\ UNCHANGED <<disk, lock, server, record, at, child, mine, errored, result, timers, faults>>

KillFails(j) ==
  /\ up /\ j \in killing
  /\ killFails < MaxKillFails /\ killFails' = killFails + 1
  /\ killing' = killing \ {j}
  /\ IF j \in settled
       THEN UNCHANGED <<errored, file, filed>>
       ELSE errored' = errored \cup {j} /\ Save(j)
  /\ UNCHANGED <<born, world, server, record, at, child, mine, result, timers, crashes, diskErrors>>

-----------------------------------------------------------------------------
(* The process *)

\* It ends by itself, or because its launcher sees that the server is gone.
Exits(j) ==
  /\ proc[j] = "alive"
  /\ proc' = [proc EXCEPT ![j] = "exited"]
  /\ UNCHANGED <<disk, lock, server, record, at, process, result, timers, faults>>

CloseResults(j) ==
  IF j \in errored THEN {"failed"}
  ELSE IF stop[j] # None THEN {stop[j]}
  ELSE {"passed", "failed"}

Close(j) ==
  /\ up /\ j \in child /\ proc[j] = "exited"
  /\ child' = child \ {j}
  /\ \E s \in CloseResults(j) : SignalProcessResult(j, s)
  /\ UNCHANGED <<disk, world, server, record, at, mine, errored, killing, stop, outcome, faults>>

-----------------------------------------------------------------------------
(* Death, shutdown and restart of the server *)

Forget ==
  /\ up' = FALSE
  /\ active' = None /\ runs' = {} /\ bound' = {} /\ settled' = {}
  /\ state' = [j \in Jobs |-> "none"] /\ at' = [j \in Jobs |-> "none"]
  /\ child' = {} /\ mine' = {} /\ errored' = {} /\ killing' = {}
  /\ stop' = [j \in Jobs |-> None] /\ requested' = [j \in Jobs |-> None]
  /\ outcome' = [j \in Jobs |-> None]
  /\ timed' = {} /\ confirming' = {}
  /\ lock' = IF lock = Others THEN Others ELSE None

Crash ==
  /\ up /\ crashes < MaxCrashes /\ crashes' = crashes + 1
  /\ Forget
  /\ UNCHANGED <<disk, proc, accepting, killFails, diskErrors>>

\* The server dies inside publishTerminal, its record written and old ones not yet
\* dropped: by accident, or by the unhandled rejection of a write that failed.
PublishCut(j) ==
  /\ up /\ at[j] = "publish"
  /\ crashes < MaxCrashes /\ crashes' = crashes + 1
  /\ Persist(j, outcome[j], {})
  /\ Forget
  /\ UNCHANGED <<born, proc, accepting, killFails, diskErrors>>

ShutdownBegins ==
  /\ up /\ accepting /\ accepting' = FALSE
  /\ IF active # None /\ Reachable(active) /\ active \notin settled /\ stop[active] = None
       THEN RequestStop(active, "cancelled")
       ELSE UNCHANGED <<stop, requested, timers, killing, file, filed>>
  /\ active # None => Reachable(active)
  /\ UNCHANGED <<born, world, up, active, runs, record, at, child, mine, errored, outcome, faults>>

ShutdownEnds ==
  /\ up /\ ~accepting /\ active = None
  /\ Forget
  /\ UNCHANGED <<disk, proc, accepting, faults>>

Unfinished == {j \in Jobs : file[j] \in Active}

\* createJobRunner restores every run; it throws when two of them are unfinished.
Restart ==
  /\ ~up
  /\ Cardinality(Unfinished) <= 1
  /\ up' = TRUE /\ accepting' = TRUE
  /\ state' = file /\ bound' = filed
  /\ settled' = {j \in Jobs : file[j] \in Terminal}
  /\ active' = IF Unfinished = {} THEN None ELSE CHOOSE j \in Unfinished : TRUE
  /\ runs' = Pruned({j \in Jobs : file[j] # "none"}, settled', active')
  /\ at' = [j \in Jobs |-> IF j \in Unfinished THEN "recover" ELSE "none"]
  /\ LET gone == {j \in Jobs : file[j] # "none"} \ runs'
     IN  /\ file' = [j \in Jobs |-> IF j \in gone THEN "none" ELSE file[j]]
         /\ filed' = filed \ gone
  /\ UNCHANGED <<born, world, process, result, timers, faults>>

RecoveryLocked(j) ==
  /\ Goto(j, "recover", "recovering")
  /\ lock = None /\ lock' = j
  /\ \/ UNCHANGED killing
     \/ j \in bound /\ proc[j] = "alive" /\ killing' = killing \cup {j}
  /\ UNCHANGED <<disk, proc, server, record, child, mine, errored, result, timers, faults>>

\* The recorded process is gone, or its identity could not be proven and it was
\* left alone.
Recovered(j) ==
  /\ Goto(j, "recovering", "release")
  /\ j \in killing => proc[j] = "exited"
  /\ outcome' = [outcome EXCEPT ![j] = "interrupted"]
  /\ killing' = killing \ {j}
  /\ UNCHANGED <<disk, world, server, record, child, mine, errored, stop, requested, timers, faults>>

\* The lock is busy, or the process does not stop: the server does not start.
RecoveryFails(j) ==
  /\ up
  /\ \/ at[j] = "recover" /\ lock # None
     \/ at[j] = "recovering" /\ j \in killing
  /\ Forget
  /\ UNCHANGED <<disk, proc, accepting, faults>>

-----------------------------------------------------------------------------
TakeLock == /\ lock \in {None, Others}
            /\ lock' = IF lock = None THEN Others ELSE None
            /\ UNCHANGED <<disk, proc, server, record, at, process, result, timers, faults>>

Run(j) == \/ LockGranted(j) \/ LockRefused(j) \/ Spawned(j) \/ SpawnFailed(j)
          \/ ResultFirst(j) \/ Bound(j) \/ BoundUnsynced(j) \/ BindFailed(j) \/ ProcessResult(j)
          \/ Release(j) \/ Publish(j)
          \/ RecoveryLocked(j) \/ Recovered(j) \/ RecoveryFails(j)

Next ==
  \/ \E j \in Jobs : \/ Enqueue(j) \/ EnqueueUnsynced(j) \/ Run(j)
                     \/ Cancel(j) \/ Timeout(j) \/ Unconfirmed(j)
                     \/ Kill(j) \/ KillFails(j) \/ Exits(j) \/ Close(j)
                     \/ PublishCut(j)
  \/ Crash \/ ShutdownBegins \/ ShutdownEnds \/ Restart
  \/ TakeLock

Spec == Init /\ [][Next]_vars

\* Awaited calls return, timers fire, signals reach processes and events are
\* delivered.  Nothing makes a process end by itself.
Fairness == \A j \in Jobs : /\ WF_vars(Run(j)) /\ WF_vars(Timeout(j))
                            /\ WF_vars(Kill(j)) /\ WF_vars(Close(j))
FairSpec == Spec /\ Fairness

-----------------------------------------------------------------------------
(* Properties *)

States == {"none"} \cup Active \cup Terminal
Stages == {"none", "locking", "spawning", "binding", "running", "release", "publish",
           "done", "recover", "recovering"}

\* The shape of the files, of the world and of the memory of the server.
TypeOK ==
  /\ file \in [Jobs -> States] /\ filed \subseteq Jobs /\ born \in Seq(Jobs)
  /\ proc \in [Jobs -> {"none", "alive", "exited"}] /\ lock \in Jobs \cup {None, Others}
  /\ up \in BOOLEAN /\ accepting \in BOOLEAN
  /\ active \in Jobs \cup {None} /\ runs \subseteq Jobs
  /\ state \in [Jobs -> States] /\ at \in [Jobs -> Stages]
  /\ bound \subseteq Jobs /\ settled \subseteq Jobs
  /\ child \subseteq Jobs /\ mine \subseteq Jobs
  /\ errored \subseteq Jobs /\ killing \subseteq Jobs
  /\ timed \subseteq Jobs /\ confirming \subseteq Jobs
  /\ stop \in [Jobs -> {None, "cancelled", "timed-out"}]
  /\ requested \in [Jobs -> Terminal \cup {None}]
  /\ outcome \in [Jobs -> Terminal \cup {None}]
  /\ crashes \in 0..MaxCrashes /\ killFails \in 0..MaxKillFails
  /\ diskErrors \in 0..MaxDiskErrors

\* As long as a process this server spawned is alive, its run holds both the
\* admission of the runner and the repository lock: no other check is admitted and
\* no other call mutates the repository under it, whatever was cancelled, timed
\* out, failed to bind or failed to die ("Admission remains locked until close is
\* observed", requestStop and startLocked).
AdmissionCovers ==
  \A j \in mine : proc[j] = "alive" => active = j /\ lock = j

\* The files a server leaves, at whatever point it dies, are files the next one
\* accepts: createJobRunner throws when two of them are unfinished, and
\* parsePersistedState when one names a process and is not running, or is running
\* and names none.
RestartAccepted ==
  /\ Cardinality(Unfinished) <= 1
  /\ \A j \in Jobs : j \in filed <=> file[j] = "running"

\* pruneHistory, with any number of restarts between: the files stay within the
\* limit and the run in progress, and the finished runs that are kept are the
\* latest ones.
HistoryKeepsLatest ==
  /\ Cardinality({j \in Jobs : file[j] # "none"}) <= MaxHistory + 1
  /\ \A i, k \in 1..Len(born) :
       i < k /\ file[born[i]] \in Terminal => file[born[k]] # "none"

\* A run whose timeout fired is recorded as timed out, or as failed when its process
\* could not be stopped as asked: a close that comes late, a cancellation or a
\* process that ends with 0 in the meantime does not make it passed.
TimeoutHonoured ==
  \A j \in settled : stop[j] = "timed-out" => state[j] \in {"timed-out", "failed"}

\* What is on disk can be started from, keeps the latest runs and says how they ended.
HistoryHolds == RestartAccepted /\ HistoryKeepsLatest /\ TimeoutHonoured

\* When signals reach processes, every run the server admitted or took over ends,
\* also one whose process never would: by its timeout, or because it could not be
\* bound and was killed; unless the server goes down first.
EventuallySettled ==
  \A j \in Jobs : (up /\ state[j] \in Active) ~> (~up \/ state[j] \in Terminal)
=============================================================================
