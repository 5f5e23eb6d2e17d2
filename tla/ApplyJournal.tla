---------------------------- MODULE ApplyJournal ---------------------------
(***************************************************************************)
(* workbench/src/applyJournal.ts: multi-file mutations made atomic by a    *)
(* journal under workbench/.state/journals.                                *)
(*                                                                         *)
(* One call at a time holds the repository lock (RepositoryLock models how *)
(* it gets it).  It first recovers what earlier calls left behind, then    *)
(* reads, or applies its own plan:                                         *)
(*                                                                         *)
(*   artifact directories, journal "prepared", staged bytes, backups,      *)
(*   journal "committing" (the point of no return), one install per file,  *)
(*   journal "committed", cleanup with the journal file last.              *)
(*                                                                         *)
(* A call may die or throw between any two writes, or in the middle of     *)
(* writing a temporary; all that survives is on disk.  Every write of the  *)
(* code is followed by fsync of the file and of its directory, so the disk *)
(* state is the durable state.                                             *)
(***************************************************************************)
EXTENDS Naturals

CONSTANTS Ops,         \* calls of applyMutationPlan, each with a fresh operation id
          Paths,       \* repository files a plan may name
          Bytes,       \* file contents
          Absent,      \* the content of a file that does not exist
          Mutations,   \* the plans callers ask for: [paths, after]
          Initial,     \* the states of the repository to start from
          Reader,      \* a call that only recovers and reads
          NoCall,      \* nobody holds the lock
          NoEntry,     \* no install is half done
          Nobody,      \* no reader is at work
          MaxCrashes,  \* calls that die or throw
          MaxEdits     \* files edited by somebody who ignores the protocol

Contents == Bytes \cup {Absent}
Kinds    == {"staging", "backups"}
Entries  == Ops \X Paths

ASSUME AbsentAssumption == Absent \notin Bytes
ASSUME MutationsAssumption ==
  \A m \in Mutations : /\ m.paths \in SUBSET Paths
                       /\ m.after \in [Paths -> Contents]
ASSUME InitialAssumption == Initial \subseteq [Paths -> Contents]
ASSUME CallAssumption ==
  /\ Reader \notin Ops
  /\ NoCall \notin Ops \cup {Reader}
  /\ NoEntry \notin Entries
  /\ Nobody \notin [Paths -> Contents]
ASSUME BoundAssumption == MaxCrashes \in Nat /\ MaxEdits \in Nat

VARIABLES
  disk,      \* content of every repository file
  journal,   \* state written in the journal file of an operation, or "none"
  dirs,      \* artifact directories that exist: <<operation, kind>>
  files,     \* artifacts in them: <<operation, kind, path>>
  spoiled,   \* backups and tombstones whose bytes are not the expected ones
  torn,      \* directories holding an interrupted artifact temporary
  temps,     \* whole target temporaries (.apply-tmp): <<operation, path>>
  partials,  \* target temporaries cut short by a crash
  tombs,     \* target tombstones (.apply-delete)
  holder,    \* the call that holds the repository lock
  pc,        \* where that call is
  work,      \* operations whose journal it is processing
  todo,      \* entries it has not yet brought to their after state
  at,        \* the entry whose rename is next: its temporary written, or its target checked
  plan,      \* mutation plan of each operation
  fate,      \* history: what became of each operation
  seen,      \* what the reader at work has read, or Nobody
  edited,    \* history: files edited by others since a call last compared them
  blocked,   \* history: the last recovery refused to finish
  crashes, edits

names   == <<dirs, files, spoiled, torn>>
targets == <<disk, temps, partials, tombs>>
call    == <<holder, pc, work, todo, at>>
history == <<fate, seen, edited, blocked>>
faults  == <<crashes, edits>>
vars    == <<targets, journal, names, call, plan, history, faults>>

\* What the caller of a plan may believe its files contain.
Digests(m) == {b \in [Paths -> Contents] : \A p \in Paths \ m.paths : b[p] = Absent}

NoPlan == [paths |-> {}, before |-> [p \in Paths |-> Absent],
                         after  |-> [p \in Paths |-> Absent]]
PlanType == [paths : SUBSET Paths, before : [Paths -> Contents],
                                   after  : [Paths -> Contents]]

-----------------------------------------------------------------------------
(* What the code reads from disk *)

Live         == {o \in Ops : journal[o] # "none"}
EntriesOf(o) == {o} \X plan[o].paths

TargetIsBefore(o, p) == disk[p] = plan[o].before[p]
TargetIsAfter(o, p)  == disk[p] = plan[o].after[p]
AllBefore(o) == \A p \in plan[o].paths : TargetIsBefore(o, p)
AllAfter(o)  == \A p \in plan[o].paths : TargetIsAfter(o, p)
IsDelete(o, p) == plan[o].after[p] = Absent

\* Staged bytes for what is written, backups for what existed.
ExpectedArtifacts(o, k) ==
  {p \in plan[o].paths :
     (IF k = "staging" THEN plan[o].after[p] ELSE plan[o].before[p]) # Absent}
ArtifactsOf(o, k) == {p \in Paths : <<o, k, p>> \in files}

\* preflightJournal, one definition per journal state.
PreparedIsRecoverable(o) ==
  /\ (temps \cup partials \cup tombs) \cap EntriesOf(o) = {}
  /\ AllBefore(o)
  /\ \A k \in Kinds : ArtifactsOf(o, k) \subseteq ExpectedArtifacts(o, k)
  /\ spoiled \cap EntriesOf(o) = {}

CommittingIsRecoverable(o) ==
  /\ \A k \in Kinds : /\ <<o, k>> \in dirs \ torn
                      /\ ArtifactsOf(o, k) = ExpectedArtifacts(o, k)
  /\ spoiled \cap EntriesOf(o) = {}
  /\ \A p \in plan[o].paths : \/ TargetIsAfter(o, p)
                              \/ TargetIsBefore(o, p)
                              \/ disk[p] = Absent /\ ~IsDelete(o, p)

CommittedIsRecoverable(o) ==
  /\ spoiled \cap EntriesOf(o) = {}
  /\ \A p \in plan[o].paths : \/ TargetIsAfter(o, p)
                              \/ IsDelete(o, p) /\ TargetIsBefore(o, p)

Recoverable(o) ==
  CASE journal[o] = "prepared"   -> PreparedIsRecoverable(o)
    [] journal[o] = "committing" -> CommittingIsRecoverable(o)
    [] journal[o] = "committed"  -> CommittedIsRecoverable(o)

Outcome(o) == IF journal[o] = "prepared" THEN "before" ELSE "after"
Desired(o, p) == IF Outcome(o) = "before" THEN plan[o].before[p] ELSE plan[o].after[p]
CompatibleRecovery ==
  \A o1, o2 \in Live : \A p \in plan[o1].paths \cap plan[o2].paths :
     Desired(o1, p) = Desired(o2, p)
RollForward == {o \in Live : Outcome(o) = "after"}

\* A call has compared the files of these plans with what they may be: what is there now
\* is known to it, whoever wrote it.
LookedAt(J) == edited' = edited \ UNION {plan[o].paths : o \in J}

-----------------------------------------------------------------------------
Init ==
  /\ disk \in Initial
  /\ journal = [o \in Ops |-> "none"]
  /\ dirs = {} /\ files = {} /\ spoiled = {} /\ torn = {}
  /\ temps = {} /\ partials = {} /\ tombs = {}
  /\ holder = NoCall /\ pc = "idle" /\ work = {} /\ todo = {} /\ at = NoEntry
  /\ plan = [o \in Ops |-> NoPlan]
  /\ fate = [o \in Ops |-> "new"]
  /\ seen = Nobody /\ edited = {} /\ blocked = FALSE
  /\ crashes = 0 /\ edits = 0

\* The call lets go of the lock, whatever the reason.
Leave == /\ holder' = NoCall /\ pc' = "idle" /\ seen' = Nobody
         /\ work' = {} /\ todo' = {} /\ at' = NoEntry

\* A call that ends before its commit marker has had no effect and never will.
Reject == fate' = IF holder \in Ops /\ fate[holder] = "planned"
                    THEN [fate EXCEPT ![holder] = "rejected"] ELSE fate

\* createMutationPlan runs without the lock; callers may pin digests themselves
\* and files may change between its reads, so any digest may be expected.
CreatePlan(o) ==
  /\ fate[o] = "new"
  /\ \E m \in Mutations : \E b \in Digests(m) :
       plan' = [plan EXCEPT ![o] =
                  [paths |-> m.paths, before |-> b, after |-> m.after]]
  /\ fate' = [fate EXCEPT ![o] = "planned"]
  /\ UNCHANGED <<targets, journal, names, call, seen, edited, blocked, faults>>

\* Mutant: the call goes to work without recovering first.
Acquire_NoRecovery(c) ==
  /\ holder = NoCall
  /\ c = Reader \/ (c \in Ops /\ fate[c] = "planned")
  /\ holder' = c /\ pc' = "recovered"
  /\ UNCHANGED <<targets, journal, names, work, todo, at, plan, history, faults>>

Acquire(c) ==
  /\ holder = NoCall
  /\ c = Reader \/ (c \in Ops /\ fate[c] = "planned")
  /\ holder' = c /\ pc' = "preflight"
  /\ UNCHANGED <<targets, journal, names, work, todo, at, plan, history, faults>>

-----------------------------------------------------------------------------
(* Recovery *)

\* Every journal is checked before any target is touched.  The check itself
\* discards temporaries a crash cut short.
Discarded(J) == {e \in partials : e[1] \in J /\ journal[e[1]] # "prepared"
                                  /\ e[2] \in plan[e[1]].paths}

Preflight ==
  /\ pc = "preflight"
  /\ \A o \in Live : Recoverable(o)
  /\ CompatibleRecovery
  /\ partials' = partials \ Discarded(Live)
  /\ torn' = {d \in torn : journal[d[1]] # "prepared"}
  /\ work' = Live
  /\ todo' = UNION {EntriesOf(o) : o \in RollForward}
  /\ pc' = "redo"
  /\ blocked' = FALSE /\ LookedAt(Live)
  /\ UNCHANGED <<disk, temps, tombs, journal, dirs, files, spoiled, holder, at, plan,
                 fate, seen, faults>>

PreflightRefused ==
  /\ pc = "preflight"
  /\ ~ ((\A o \in Live : Recoverable(o)) /\ CompatibleRecovery)
  /\ \E J \in SUBSET Live : partials' = partials \ Discarded(J)
  /\ blocked' = TRUE
  /\ Reject /\ Leave
  /\ UNCHANGED <<disk, temps, tombs, journal, names, plan, edited, faults>>

\* Recovery passes over an entry that is already in its after state.  Of the others it
\* does not look again whether they are in their before state.
RedoSkip(o, p) ==
  /\ pc = "redo" /\ at = NoEntry /\ <<o, p>> \in todo
  /\ TargetIsAfter(o, p)
  /\ todo' = todo \ {<<o, p>>} /\ edited' = edited \ {p}
  /\ UNCHANGED <<targets, journal, names, holder, pc, work, at, plan, fate, seen, blocked, faults>>

RecoveryMark(o) ==
  /\ pc = "redo" /\ at = NoEntry /\ o \in work
  /\ Outcome(o) = "after" /\ EntriesOf(o) \cap todo = {}
  /\ journal[o] # "committed" /\ AllAfter(o)
  /\ journal' = [journal EXCEPT ![o] = "committed"]
  /\ LookedAt({o})
  /\ UNCHANGED <<targets, names, call, plan, fate, seen, blocked, faults>>

\* The last look before cleanup.
Verify ==
  /\ pc = "redo" /\ todo = {} /\ at = NoEntry
  /\ \A o \in work : IF Outcome(o) = "after"
                       THEN journal[o] = "committed" /\ AllAfter(o)
                       ELSE AllBefore(o)
  /\ pc' = "clean" /\ LookedAt(work)
  /\ UNCHANGED <<targets, journal, names, holder, work, todo, at, plan, fate, seen, blocked,
                 faults>>

\* Recovery gives up: a file is not in the state of its plan when it is looked at again,
\* or what is to be installed was staged no longer.
RecoveryGivesUp ==
  /\ pc = "redo" /\ at = NoEntry
  /\ \/ \E o \in work : Outcome(o) = "after" /\ EntriesOf(o) \cap todo = {} /\ ~AllAfter(o)
     \/ todo = {} /\ \E o \in work : Outcome(o) = "before" /\ ~AllBefore(o)
     \/ \E e \in todo : /\ ~TargetIsAfter(e[1], e[2]) /\ ~IsDelete(e[1], e[2])
                        /\ <<e[1], "staging", e[2]>> \notin files
  /\ blocked' = TRUE
  /\ Reject /\ Leave
  /\ UNCHANGED <<targets, journal, names, plan, edited, faults>>

\* Artifact directories without a journal: their children, then themselves.
CleanOrphan ==
  /\ pc = "clean" /\ work = {}
  /\ \/ \E f \in files : files' = files \ {f} /\ UNCHANGED <<dirs, torn>>
     \/ \E d \in torn  : torn' = torn \ {d} /\ UNCHANGED <<dirs, files>>
     \/ \E d \in dirs \ torn : /\ ArtifactsOf(d[1], d[2]) = {}
                               /\ dirs' = dirs \ {d}
                               /\ UNCHANGED <<files, torn>>
  /\ UNCHANGED <<targets, journal, spoiled, call, plan, history, faults>>

Recovered ==
  /\ pc = "clean" /\ work = {} /\ dirs = {}
  /\ pc' = "recovered"
  /\ UNCHANGED <<targets, journal, names, holder, work, todo, at, plan, history, faults>>

\* The callback of withMutationJournalLock reads; then the call ends.
Read ==
  /\ pc = "recovered" /\ holder = Reader
  /\ seen' = disk /\ pc' = "read"
  /\ UNCHANGED <<targets, journal, names, holder, work, todo, at, plan, fate, edited,
                 blocked, faults>>

-----------------------------------------------------------------------------
(* Applying a plan *)

\* The plan is checked twice around the creation of parent directories, which
\* the model leaves out.
BeginApply ==
  /\ pc = "recovered" /\ holder \in Ops
  /\ AllBefore(holder)
  /\ pc' = "mkdir" /\ LookedAt({holder})
  /\ UNCHANGED <<targets, journal, names, holder, work, todo, at, plan, fate, seen, blocked,
                 faults>>

\* stale_plan, or beforeApply answered "skip".
Decline ==
  /\ pc = "recovered" /\ holder \in Ops
  /\ Reject /\ Leave
  /\ UNCHANGED <<targets, journal, names, plan, edited, blocked, faults>>

MakeDirectory(k) ==
  /\ pc = "mkdir" /\ <<holder, k>> \notin dirs
  /\ k = "backups" => <<holder, "staging">> \in dirs
  /\ dirs' = dirs \cup {<<holder, k>>}
  /\ UNCHANGED <<targets, journal, files, spoiled, torn, call, plan, history, faults>>

Prepare ==
  /\ pc = "mkdir" /\ \A k \in Kinds : <<holder, k>> \in dirs
  /\ journal' = [journal EXCEPT ![holder] = "prepared"]
  /\ work' = {holder} /\ pc' = "staging"
  /\ UNCHANGED <<targets, names, holder, todo, at, plan, history, faults>>

\* The artifacts of kind k that are still to be written.
Missing(k) == ExpectedArtifacts(holder, k) \ ArtifactsOf(holder, k)

WriteArtifact(p) ==
  /\ pc \in Kinds /\ p \in Missing(pc)
  /\ pc = "backups" => TargetIsBefore(holder, p)
  /\ files' = files \cup {<<holder, pc, p>>}
  /\ UNCHANGED <<targets, journal, dirs, spoiled, torn, call, plan, history, faults>>

\* The target was edited after the plan was checked: the copy is left behind with
\* the wrong bytes, or there is nothing to copy, and the call fails.
BackupChanged(p) ==
  /\ pc = "backups" /\ p \in Missing(pc) /\ ~TargetIsBefore(holder, p)
  /\ spoiled' = IF disk[p] = Absent THEN spoiled ELSE spoiled \cup {<<holder, p>>}
  /\ Reject /\ Leave
  /\ UNCHANGED <<targets, journal, dirs, files, torn, plan, edited, blocked, faults>>

Staged ==
  /\ pc = "staging" /\ Missing(pc) = {}
  /\ pc' = "backups"
  /\ UNCHANGED <<targets, journal, names, holder, work, todo, at, plan, history, faults>>

\* Mutant: the marker is written before the backups are complete.
CommitMark_BeforeBackups ==
  /\ pc = "backups"
  /\ AllBefore(holder)
  /\ journal' = [journal EXCEPT ![holder] = "committing"]
  /\ fate' = [fate EXCEPT ![holder] = "committed"]
  /\ todo' = EntriesOf(holder) /\ pc' = "install" /\ LookedAt({holder})
  /\ UNCHANGED <<targets, names, holder, work, at, plan, seen, blocked, faults>>

\* Mutant: the before images are not looked at again.
CommitMark_NoRecheck ==
  /\ pc = "backups" /\ Missing(pc) = {}
  /\ journal' = [journal EXCEPT ![holder] = "committing"]
  /\ fate' = [fate EXCEPT ![holder] = "committed"]
  /\ todo' = EntriesOf(holder) /\ pc' = "install" /\ LookedAt({holder})
  /\ UNCHANGED <<targets, names, holder, work, at, plan, seen, blocked, faults>>

\* Mutant: the work list holds paths instead of entries.
CommitMark_Paths ==
  /\ pc = "backups" /\ Missing(pc) = {}
  /\ AllBefore(holder)
  /\ journal' = [journal EXCEPT ![holder] = "committing"]
  /\ fate' = [fate EXCEPT ![holder] = "committed"]
  /\ todo' = plan[holder].paths /\ pc' = "install" /\ LookedAt({holder})
  /\ UNCHANGED <<targets, names, holder, work, at, plan, seen, blocked, faults>>

\* The commit marker is the point of no return: from here on the plan takes
\* effect, by this call or by whoever recovers.
CommitMark ==
  /\ pc = "backups" /\ Missing(pc) = {}
  /\ AllBefore(holder)
  /\ journal' = [journal EXCEPT ![holder] = "committing"]
  /\ fate' = [fate EXCEPT ![holder] = "committed"]
  /\ todo' = EntriesOf(holder) /\ pc' = "install" /\ LookedAt({holder})
  /\ UNCHANGED <<targets, names, holder, work, at, plan, seen, blocked, faults>>

StaleAtMark ==
  /\ pc = "backups" /\ Missing(pc) = {}
  /\ ~AllBefore(holder)
  /\ Reject /\ Leave
  /\ UNCHANGED <<targets, journal, names, plan, edited, blocked, faults>>

-----------------------------------------------------------------------------
(* Bringing one entry to its after state, in an apply and in recovery *)

Pending(o, p) ==
  /\ pc \in {"redo", "install"} /\ at = NoEntry /\ <<o, p>> \in todo
  /\ pc = "redo" => ~TargetIsAfter(o, p)

\* installBytes writes and syncs a temporary next to the target ...
WriteTemp(o, p) ==
  /\ Pending(o, p) /\ ~IsDelete(o, p) /\ <<o, "staging", p>> \in files
  /\ temps' = temps \cup {<<o, p>>} /\ partials' = partials \ {<<o, p>>}
  /\ at' = <<o, p>>
  /\ UNCHANGED <<disk, tombs, journal, names, holder, pc, work, todo, plan, history, faults>>

\* ... and renames it over the target, whatever that has become.
Install(o, p) ==
  /\ at = <<o, p>> /\ ~IsDelete(o, p)
  /\ disk' = [disk EXCEPT ![p] = plan[o].after[p]]
  /\ temps' = temps \ {<<o, p>>} /\ edited' = edited \ {p}
  /\ todo' = todo \ {<<o, p>>} /\ at' = NoEntry
  /\ UNCHANGED <<partials, tombs, journal, names, holder, pc, work, plan, fate, seen, blocked,
                 faults>>

\* deleteTarget looks whether the target has the bytes the plan expects to delete ...
CheckTarget(o, p) ==
  /\ Pending(o, p) /\ IsDelete(o, p)
  /\ \/ disk[p] = Absent /\ todo' = todo \ {<<o, p>>} /\ UNCHANGED at
     \/ disk[p] # Absent /\ TargetIsBefore(o, p) /\ at' = <<o, p>> /\ UNCHANGED todo
  /\ edited' = edited \ {p}
  /\ UNCHANGED <<targets, journal, names, holder, pc, work, plan, fate, seen, blocked, faults>>

\* ... and renames it to a tombstone, with the bytes it has by then.
DeleteTarget(o, p) ==
  /\ at = <<o, p>> /\ IsDelete(o, p)
  /\ disk' = [disk EXCEPT ![p] = Absent]
  /\ tombs' = IF disk[p] = Absent THEN tombs ELSE tombs \cup {<<o, p>>}
  /\ spoiled' = IF disk[p] = Absent \/ TargetIsBefore(o, p) THEN spoiled ELSE spoiled \cup {<<o, p>>}
  /\ todo' = todo \ {<<o, p>>} /\ at' = NoEntry
  /\ UNCHANGED <<temps, partials, journal, dirs, files, torn, holder, pc, work, plan, history,
                 faults>>

\* The target to delete has other bytes: the apply fails, or the recovery.
DeleteChanged(o, p) ==
  /\ Pending(o, p) /\ IsDelete(o, p) /\ disk[p] # Absent /\ ~TargetIsBefore(o, p)
  /\ blocked' = (blocked \/ pc = "redo")
  /\ Reject /\ Leave
  /\ UNCHANGED <<targets, journal, names, plan, edited, faults>>

\* Mutant: "committed" is written, and cleanup begins, while installs are still to come.
Settle_Early ==
  /\ pc = "install" /\ at = NoEntry
  /\ journal' = [journal EXCEPT ![holder] = "committed"]
  /\ pc' = "finish" /\ LookedAt({holder})
  /\ UNCHANGED <<targets, names, holder, work, todo, at, plan, fate, seen, blocked, faults>>

Settle ==
  /\ pc = "install" /\ todo = {} /\ at = NoEntry
  /\ AllAfter(holder)
  /\ journal' = [journal EXCEPT ![holder] = "committed"]
  /\ pc' = "settled" /\ LookedAt({holder})
  /\ UNCHANGED <<targets, names, holder, work, todo, at, plan, fate, seen, blocked, faults>>

\* The files are looked at once more before cleanup.
Confirm ==
  /\ pc = "settled" /\ AllAfter(holder)
  /\ pc' = "finish" /\ LookedAt({holder})
  /\ UNCHANGED <<targets, journal, names, holder, work, todo, at, plan, fate, seen, blocked,
                 faults>>

\* apply_conflict: the call fails past its point of no return and leaves its journal.
ApplyConflict ==
  /\ pc \in {"install", "settled"} /\ todo = {} /\ at = NoEntry
  /\ ~AllAfter(holder)
  /\ Reject /\ Leave
  /\ UNCHANGED <<targets, journal, names, plan, edited, blocked, faults>>

-----------------------------------------------------------------------------
(* cleanupOperation: the journal file goes last *)

Cleaning(o) == pc \in {"clean", "finish"} /\ o \in work

CleanTarget(o) ==
  /\ Cleaning(o)
  /\ \E e \in (temps \cup partials \cup (tombs \ spoiled)) \cap EntriesOf(o) :
       /\ temps' = temps \ {e} /\ partials' = partials \ {e} /\ tombs' = tombs \ {e}
  /\ UNCHANGED <<disk, journal, names, call, plan, history, faults>>

\* A tombstone that does not hold what was to be deleted stays, and the journal with it.
CleanupRefused(o) ==
  /\ Cleaning(o) /\ tombs \cap spoiled \cap EntriesOf(o) # {}
  /\ blocked' = (blocked \/ pc = "clean")
  /\ Reject /\ Leave
  /\ UNCHANGED <<targets, journal, names, plan, edited, faults>>

CleanArtifacts(o, k) ==
  /\ Cleaning(o)
  /\ (temps \cup partials \cup tombs) \cap EntriesOf(o) = {}
  /\ k = "backups" => <<o, "staging">> \notin dirs
  /\ <<o, k>> \in dirs \ torn
  /\ \/ \E p \in ArtifactsOf(o, k) : files' = files \ {<<o, k, p>>} /\ UNCHANGED dirs
     \/ ArtifactsOf(o, k) = {} /\ dirs' = dirs \ {<<o, k>>} /\ UNCHANGED files
  /\ UNCHANGED <<targets, journal, torn, spoiled, call, plan, history, faults>>

RemoveJournal(o) ==
  /\ Cleaning(o)
  /\ (temps \cup partials \cup tombs) \cap EntriesOf(o) = {}
  /\ \A k \in Kinds : <<o, k>> \notin dirs
  /\ journal' = [journal EXCEPT ![o] = "none"]
  /\ work' = work \ {o}
  /\ UNCHANGED <<targets, names, holder, pc, todo, at, plan, history, faults>>

Done ==
  /\ \/ pc = "finish" /\ work = {}
     \/ pc = "read"
  /\ Leave
  /\ UNCHANGED <<targets, journal, names, plan, fate, edited, blocked, faults>>

-----------------------------------------------------------------------------
(* What goes wrong *)

Crash == crashes < MaxCrashes /\ crashes' = crashes + 1 /\ Reject /\ Leave

\* The call throws or its process dies between two writes.
Interrupt ==
  /\ holder # NoCall
  /\ Crash
  /\ UNCHANGED <<targets, journal, names, plan, edited, blocked, edits>>

\* ... or in the middle of writing a target temporary,
InterruptTemp(o, p) ==
  /\ Pending(o, p) /\ ~IsDelete(o, p)
  /\ partials' = partials \cup {<<o, p>>} /\ temps' = temps \ {<<o, p>>}
  /\ Crash
  /\ UNCHANGED <<disk, tombs, journal, names, plan, edited, blocked, edits>>

\* ... or a staged or backed-up artifact.
InterruptArtifact ==
  /\ pc \in Kinds /\ Missing(pc) # {}
  /\ torn' = torn \cup {<<holder, pc>>}
  /\ Crash
  /\ UNCHANGED <<targets, journal, dirs, files, spoiled, plan, edited, blocked, edits>>

\* Somebody who ignores the protocol edits a file, at any time.
Edit(p) ==
  /\ edits < MaxEdits
  /\ \E c \in Contents \ {disk[p]} : disk' = [disk EXCEPT ![p] = c]
  /\ edits' = edits + 1 /\ edited' = edited \cup {p}
  /\ UNCHANGED <<temps, partials, tombs, journal, names, call, plan, fate, seen,
                 blocked, crashes>>

-----------------------------------------------------------------------------
Recovery ==
  \/ Preflight \/ PreflightRefused \/ Verify \/ RecoveryGivesUp \/ CleanOrphan \/ Recovered
  \/ \E o \in Ops : RecoveryMark(o) \/ \E p \in Paths : RedoSkip(o, p)

Apply ==
  \/ BeginApply \/ Decline \/ Prepare \/ Staged \/ CommitMark \/ StaleAtMark
  \/ Settle \/ Confirm \/ ApplyConflict \/ Done
  \/ \E k \in Kinds : MakeDirectory(k)
  \/ \E p \in Paths : WriteArtifact(p) \/ BackupChanged(p)

Entry == \E o \in Ops, p \in Paths :
  WriteTemp(o, p) \/ Install(o, p) \/ CheckTarget(o, p) \/ DeleteTarget(o, p) \/ DeleteChanged(o, p)

Cleanup == \E o \in Ops : \/ CleanTarget(o) \/ CleanupRefused(o) \/ RemoveJournal(o)
                          \/ \E k \in Kinds : CleanArtifacts(o, k)

\* A step of the call that holds the lock.
Step == Recovery \/ Read \/ Apply \/ Entry \/ Cleanup

Fault == \/ Interrupt \/ InterruptArtifact
         \/ \E o \in Ops, p \in Paths : InterruptTemp(o, p)

Next == \/ \E o \in Ops : CreatePlan(o)
        \/ \E c \in Ops \cup {Reader} : Acquire(c)
        \/ Step
        \/ Fault
        \/ \E p \in Paths : Edit(p)

Spec == Init /\ [][Next]_vars

\* A running call keeps running, and calls that recover keep coming: the server
\* recovers at every start and every reader of the repository recovers first.
Fairness == WF_vars(Step) /\ WF_vars(Acquire(Reader))
FairSpec == Spec /\ Fairness

-----------------------------------------------------------------------------
(* Properties *)

TypeOK ==
  /\ disk \in [Paths -> Contents]
  /\ journal \in [Ops -> {"none", "prepared", "committing", "committed"}]
  /\ dirs \subseteq Ops \X Kinds /\ torn \subseteq Ops \X Kinds
  /\ files \subseteq Ops \X Kinds \X Paths
  /\ spoiled \subseteq Entries /\ edited \subseteq Paths
  /\ temps \subseteq Entries /\ partials \subseteq Entries /\ tombs \subseteq Entries
  /\ holder \in Ops \cup {Reader, NoCall}
  /\ pc \in {"idle", "preflight", "redo", "clean", "recovered", "read", "mkdir", "install",
             "settled", "finish"} \cup Kinds
  /\ work \in SUBSET Ops /\ todo \subseteq Entries /\ at \in Entries \cup {NoEntry}
  /\ plan \in [Ops -> PlanType]
  /\ fate \in [Ops -> {"new", "planned", "committed", "rejected"}]
  /\ seen \in [Paths -> Contents] \cup {Nobody}
  /\ blocked \in BOOLEAN
  /\ crashes \in Nat /\ edits \in Nat

\* The content a file will have once every journal past its point of no return is
\* brought home.
Store == [p \in Paths |->
            IF \E o \in RollForward : p \in plan[o].paths
              THEN plan[CHOOSE o \in RollForward : p \in plan[o].paths].after[p]
              ELSE disk[p]]

\* All-before or all-after: the journal implements a compare-and-swap of several files,
\* whatever dies in between, and readers under the lock see its state.  What somebody
\* edits behind its back may be written over, or show when the journal is gone.
Atomic == INSTANCE AtomicApply WITH store <- Store
AtomicSpec == Atomic!Spec

\* At most one operation has a journal, so recovery never has to reconcile two.
AtMostOneJournal == \A o1, o2 \in Live : o1 = o2

\* Past the point of no return everything needed to finish is on disk: what is
\* still to be installed is staged, and what was replaced is backed up, until
\* "committed" says that nothing more will be needed.
CommitIsPrepared ==
  \A o \in Ops : journal[o] = "committing" =>
    /\ \A k \in Kinds : <<o, k>> \in dirs \ torn
    /\ \A k \in Kinds : ArtifactsOf(o, k) = ExpectedArtifacts(o, k)

\* What recovery relies on: one journal to read, and all that it names at hand.
JournalSafe == AtMostOneJournal /\ CommitIsPrepared

\* Interrupted calls alone never make recovery refuse: every state a crash can leave, in an
\* apply or in a recovery, is one it accepts.  Where it refuses there is a journal with a
\* file that was edited after the last look at it, or whose edited bytes were put aside.
RefusedOnlyIfTampered ==
  blocked => \E o \in Live : plan[o].paths \cap edited # {} \/ EntriesOf(o) \cap spoiled # {}

\* A file changes under the protocol only after the point of no return and only to its
\* after state; and a call writes over bytes that are neither before nor after only if they
\* were put there after it last compared the file: at the marker for a file to replace, at
\* preflight in a recovery, right before the rename for a file to delete.  In that window
\* the code does write over them.
OnlyRollForward ==
  [][\A p \in Paths : pc # "idle" /\ disk'[p] # disk[p] /\ edits' = edits =>
       \E o \in Ops : /\ journal[o] \in {"committing", "committed"}
                      /\ p \in plan[o].paths
                      /\ disk'[p] = plan[o].after[p]
                      /\ disk[p] \in {plan[o].before[p], Absent} \/ p \in edited]_vars

\* A journal is taken away only when its files agree with its outcome, but for those that
\* somebody edited after the last look.
CleanedOnlyWhenWhole ==
  [][\A o \in Ops : journal[o] # "none" /\ journal'[o] = "none" =>
       \A p \in plan[o].paths \ edited :
         IF fate[o] = "committed" THEN TargetIsAfter(o, p) ELSE TargetIsBefore(o, p)]_vars

\* When no file is edited, an unfinished operation is eventually brought home.
EventuallyClean == \A o \in Ops : journal[o] # "none" ~> journal[o] = "none"

-----------------------------------------------------------------------------
(* The inductive invariant behind the two safety invariants *)

\* Which call is where, and which journals it answers for.
ControlInv ==
  /\ holder = NoCall <=> pc = "idle"
  /\ pc \in {"mkdir", "install", "settled"} \cup Kinds => holder \in Ops
  /\ holder \in Ops => fate[holder] # "new"
  /\ \A o \in Live : fate[o] # "new"
  /\ pc \in {"redo", "clean", "finish", "install", "settled"} \cup Kinds => Live = work
  /\ pc \in {"recovered", "read", "mkdir"} => Live = {}
  /\ pc \in Kinds \cup {"install", "settled"} => work = {holder}
  /\ pc \in Kinds => journal[holder] = "prepared"
  /\ pc \in {"clean", "finish", "settled"} => \A o \in work : journal[o] # "committing"

\* What is in the artifact directories while a plan is being prepared.
ArtifactInv ==
  /\ \A o \in Ops, k \in Kinds, p \in Paths : <<o, k, p>> \in files => <<o, k>> \in dirs
  /\ torn \subseteq dirs
  /\ pc \in {"recovered", "mkdir"} => files = {} /\ torn = {}
  /\ pc \in Kinds => /\ torn = {}
                     /\ \A k \in Kinds : /\ <<holder, k>> \in dirs
                                         /\ ArtifactsOf(holder, k) \subseteq
                                              ExpectedArtifacts(holder, k)
  /\ pc = "backups" => ArtifactsOf(holder, "staging") = ExpectedArtifacts(holder, "staging")

IInv == TypeOK /\ ControlInv /\ ArtifactInv /\ AtMostOneJournal /\ CommitIsPrepared

(***************************************************************************)
(* What the steps rest on beyond it: the two action properties and the     *)
(* refinement.                                                             *)
(***************************************************************************)

Repairing == pc \in {"redo", "install"}

\* The call brings home only entries of a plan past its point of no return, whose
\* targets are before, after, or away because a write was cut.
TodoInv ==
  /\ ~Repairing => todo = {} /\ at = NoEntry
  /\ at # NoEntry => at \in todo
  /\ \A o \in Ops, p \in Paths : <<o, p>> \in todo =>
       /\ o \in RollForward /\ p \in plan[o].paths
       /\ TargetIsAfter(o, p) \/ TargetIsBefore(o, p) \/ disk[p] = Absent \/ p \in edited

\* Cleanup starts when the files are whole, and only an edit changes them then.
WholeInv ==
  pc \in {"clean", "finish"} =>
    \A o \in Live : \A p \in plan[o].paths \ edited :
      IF Outcome(o) = "after" THEN TargetIsAfter(o, p) ELSE TargetIsBefore(o, p)

\* A call's fate is decided by the mark in its journal.
FateInv ==
  /\ \A o \in Live : fate[o] = "committed" <=> Outcome(o) = "after"
  /\ holder \in Ops /\ pc \notin {"install", "settled", "finish"} => fate[holder] = "planned"
  /\ pc \in {"install", "settled", "finish"} => holder \in Ops /\ fate[holder] = "committed"
  /\ seen # Nobody => holder = Reader

StepInv == IInv /\ TodoInv /\ WholeInv /\ FateInv
=============================================================================
