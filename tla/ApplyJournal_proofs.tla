------------------------ MODULE ApplyJournal_proofs ------------------------
(***************************************************************************)
(* Proofs about ApplyJournal, for any number of operations, files and      *)
(* contents, any plans, and any number of crashes and edits: its states,   *)
(* what a step may do to a file and to a journal, and that every step is a *)
(* step of AtomicApply or changes nothing AtomicApply sees.                *)
(***************************************************************************)
EXTENDS ApplyJournal, TLAPS

USE DEF Contents, Kinds, Entries, LookedAt

\* The initial states are well typed.
LEMMA InitType == Init => TypeOK
  <1> SUFFICES ASSUME Init PROVE TypeOK
    OBVIOUS
  <1>1. NoPlan \in PlanType
    BY DEF NoPlan, PlanType
  <1>2. disk \in [Paths -> Contents] /\ seen \in [Paths -> Contents] \cup {Nobody}
    BY InitialAssumption DEF Init
  <1> QED
    BY <1>1, <1>2 DEF Init, TypeOK

\* A call that leaves resets what it alone used.
LEMMA LeaveType ==
  ASSUME TypeOK, Leave
  PROVE  /\ holder' \in Ops \cup {Reader, NoCall} /\ pc' = "idle"
         /\ work' = {} /\ todo' = {} /\ at' = NoEntry /\ seen' = Nobody
  BY DEF Leave, TypeOK

\* A rejected call keeps the fates well typed.
LEMMA RejectType ==
  ASSUME TypeOK, Reject
  PROVE  fate' \in [Ops -> {"new", "planned", "committed", "rejected"}]
  BY DEF Reject, TypeOK

\* Recovery and a reader's read keep the types.
LEMMA RecoveryType ==
  ASSUME TypeOK, Recovery \/ Read
  PROVE  TypeOK'
  <1> USE DEF TypeOK, vars, targets, names, call, history, faults
  <1>1. CASE Preflight
    <2>1. UNION {EntriesOf(o) : o \in RollForward} \subseteq Entries
      BY DEF EntriesOf, RollForward, Live, PlanType
    <2> QED BY <1>1, <2>1 DEF Preflight, Live
  <1>2. CASE PreflightRefused
    BY <1>2, LeaveType, RejectType DEF PreflightRefused
  <1>3. CASE Verify
    BY <1>3 DEF Verify
  <1>4. CASE CleanOrphan
    BY <1>4 DEF CleanOrphan
  <1>5. CASE Recovered
    BY <1>5 DEF Recovered
  <1>6. ASSUME NEW o \in Ops, RecoveryMark(o) PROVE TypeOK'
    BY <1>6 DEF RecoveryMark
  <1>7. ASSUME NEW o \in Ops, NEW p \in Paths, RedoSkip(o, p) PROVE TypeOK'
    BY <1>7 DEF RedoSkip
  <1>8. CASE Read
    BY <1>8 DEF Read
  <1>9. CASE RecoveryGivesUp
    BY <1>9, LeaveType, RejectType DEF RecoveryGivesUp
  <1> QED
    BY <1>1, <1>2, <1>3, <1>4, <1>5, <1>6, <1>7, <1>8, <1>9 DEF Recovery

\* Applying a plan keeps the types; the artifacts belong to the operation that
\* holds the lock.
LEMMA ApplyType ==
  ASSUME TypeOK, ControlInv, Apply
  PROVE  TypeOK'
  <1> USE DEF TypeOK, vars, targets, names, call, history, faults
  <1>0. pc \in {"mkdir"} \cup Kinds => holder \in Ops
    BY DEF ControlInv
  <1>1. CASE BeginApply
    BY <1>1 DEF BeginApply
  <1>2. CASE Decline
    BY <1>2, LeaveType, RejectType DEF Decline
  <1>3. CASE Prepare
    BY <1>3, CallAssumption DEF Prepare
  <1>4. CASE Staged
    BY <1>4 DEF Staged
  <1>5. CASE CommitMark
    BY <1>0, <1>5 DEF CommitMark, EntriesOf, PlanType
  <1>6. CASE StaleAtMark
    BY <1>6, LeaveType, RejectType DEF StaleAtMark
  <1>7. CASE Settle
    BY <1>7 DEF Settle
  <1>8. CASE Done
    BY <1>8, LeaveType DEF Done
  <1>9. ASSUME NEW k \in Kinds, MakeDirectory(k) PROVE TypeOK'
    BY <1>0, <1>9 DEF MakeDirectory
  <1>10. ASSUME NEW p \in Paths, WriteArtifact(p) PROVE TypeOK'
    BY <1>0, <1>10 DEF WriteArtifact
  <1>11. ASSUME NEW p \in Paths, BackupChanged(p) PROVE TypeOK'
    BY <1>0, <1>11, LeaveType, RejectType DEF BackupChanged
  <1>12. CASE Confirm
    BY <1>12 DEF Confirm
  <1>13. CASE ApplyConflict
    BY <1>13, LeaveType, RejectType DEF ApplyConflict
  <1> QED
    BY <1>1, <1>2, <1>3, <1>4, <1>5, <1>6, <1>7, <1>8, <1>9, <1>10, <1>11, <1>12, <1>13
    DEF Apply

\* Installing or deleting one file keeps the types.
LEMMA EntryType ==
  ASSUME TypeOK, Entry
  PROVE  TypeOK'
  <1> USE DEF TypeOK, vars, targets, names, call, history, faults
  <1> PICK o \in Ops, p \in Paths :
             \/ WriteTemp(o, p) \/ Install(o, p) \/ CheckTarget(o, p)
             \/ DeleteTarget(o, p) \/ DeleteChanged(o, p)
    BY DEF Entry
  <1>1. plan[o].after[p] \in Contents
    BY DEF PlanType
  <1>2. CASE WriteTemp(o, p)
    BY <1>2 DEF WriteTemp
  <1>3. CASE Install(o, p)
    BY <1>1, <1>3 DEF Install
  <1>4. CASE DeleteTarget(o, p)
    BY <1>4 DEF DeleteTarget
  <1>5. CASE CheckTarget(o, p)
    BY <1>5 DEF CheckTarget
  <1>6. CASE DeleteChanged(o, p)
    BY <1>6, LeaveType, RejectType DEF DeleteChanged
  <1> QED
    BY <1>2, <1>3, <1>4, <1>5, <1>6

\* Cleaning up one operation keeps the types.
LEMMA CleanupType ==
  ASSUME TypeOK, Cleanup
  PROVE  TypeOK'
  <1> USE DEF TypeOK, vars, targets, names, call, history, faults
  <1>1. ASSUME NEW o \in Ops, CleanTarget(o) PROVE TypeOK'
    BY <1>1 DEF CleanTarget
  <1>2. ASSUME NEW o \in Ops, RemoveJournal(o) PROVE TypeOK'
    BY <1>2 DEF RemoveJournal
  <1>3. ASSUME NEW o \in Ops, NEW k \in Kinds, CleanArtifacts(o, k) PROVE TypeOK'
    BY <1>3 DEF CleanArtifacts
  <1>4. ASSUME NEW o \in Ops, CleanupRefused(o) PROVE TypeOK'
    BY <1>4, LeaveType, RejectType DEF CleanupRefused
  <1> QED
    BY <1>1, <1>2, <1>3, <1>4 DEF Cleanup

\* Planning, acquiring, editing and dying keep the types.
LEMMA OtherType ==
  ASSUME TypeOK, ControlInv,
         \/ Fault
         \/ \E o \in Ops : CreatePlan(o)
         \/ \E c \in Ops \cup {Reader} : Acquire(c)
         \/ \E p \in Paths : Edit(p)
  PROVE  TypeOK'
  <1> USE DEF TypeOK, vars, targets, names, call, history, faults
  <1>1. CASE Interrupt
    BY <1>1, LeaveType, RejectType DEF Interrupt, Crash
  <1>2. CASE InterruptArtifact
    <2>1. holder \in Ops /\ pc \in Kinds
      BY <1>2 DEF InterruptArtifact, ControlInv
    <2> QED BY <1>2, <2>1, LeaveType, RejectType DEF InterruptArtifact, Crash
  <1>3. ASSUME NEW o \in Ops, NEW p \in Paths, InterruptTemp(o, p) PROVE TypeOK'
    BY <1>3, LeaveType, RejectType DEF InterruptTemp, Crash
  <1>4. ASSUME NEW o \in Ops, CreatePlan(o) PROVE TypeOK'
    <2>0. PICK m \in Mutations : \E b \in Digests(m) :
            plan' = [plan EXCEPT ![o] =
                       [paths |-> m.paths, before |-> b, after |-> m.after]]
      BY <1>4 DEF CreatePlan
    <2>1. PICK b \in Digests(m) :
            plan' = [plan EXCEPT ![o] =
                       [paths |-> m.paths, before |-> b, after |-> m.after]]
      BY <2>0
    <2>2. [paths |-> m.paths, before |-> b, after |-> m.after] \in PlanType
      BY MutationsAssumption DEF PlanType, Digests
    <2> QED BY <1>4, <2>1, <2>2 DEF CreatePlan
  <1>5. ASSUME NEW c \in Ops \cup {Reader}, Acquire(c) PROVE TypeOK'
    BY <1>5 DEF Acquire
  <1>6. ASSUME NEW p \in Paths, Edit(p) PROVE TypeOK'
    BY <1>6 DEF Edit
  <1> QED
    BY <1>1, <1>2, <1>3, <1>4, <1>5, <1>6 DEF Fault

\* Every step keeps the types.
LEMMA NextType ==
  ASSUME TypeOK, ControlInv, [Next]_vars
  PROVE  TypeOK'
  <1>1. CASE UNCHANGED vars
    BY <1>1 DEF TypeOK, vars, targets, names, call, history, faults
  <1> QED
    BY <1>1, RecoveryType, ApplyType, EntryType, CleanupType, OtherType DEF Next, Step

-----------------------------------------------------------------------------
(* Control: which journals the running call answers for *)

SafetyOK == ControlInv /\ AtMostOneJournal

\* Recovery keeps track of every journal, and of no more than one.
LEMMA RecoveryControl ==
  ASSUME TypeOK, SafetyOK, Recovery \/ Read
  PROVE  SafetyOK'
  <1> USE DEF SafetyOK, ControlInv, AtMostOneJournal, Live, TypeOK,
              vars, targets, names, call, history, faults
  <1>1. CASE Preflight
    BY <1>1 DEF Preflight
  <1>2. CASE PreflightRefused
    BY <1>2, CallAssumption DEF PreflightRefused, Reject, Leave
  <1>3. CASE Verify
    BY <1>3 DEF Verify, Outcome
  <1>4. CASE CleanOrphan
    BY <1>4 DEF CleanOrphan
  <1>5. CASE Recovered
    BY <1>5 DEF Recovered
  <1>6. ASSUME NEW o \in Ops, RecoveryMark(o) PROVE SafetyOK'
    BY <1>6 DEF RecoveryMark
  <1>7. ASSUME NEW o \in Ops, NEW p \in Paths, RedoSkip(o, p) PROVE SafetyOK'
    BY <1>7 DEF RedoSkip
  <1>8. CASE Read
    BY <1>8 DEF Read
  <1>9. CASE RecoveryGivesUp
    BY <1>9, CallAssumption DEF RecoveryGivesUp, Reject, Leave
  <1> QED
    BY <1>1, <1>2, <1>3, <1>4, <1>5, <1>6, <1>7, <1>8, <1>9 DEF Recovery

\* A plan is applied only where no journal is left, so its own is the only one.
LEMMA ApplyControl ==
  ASSUME TypeOK, SafetyOK, Apply
  PROVE  SafetyOK'
  <1> USE DEF SafetyOK, ControlInv, AtMostOneJournal, Live, TypeOK,
              vars, targets, names, call, history, faults
  <1>1. CASE BeginApply
    BY <1>1 DEF BeginApply
  <1>2. CASE Decline
    BY <1>2, CallAssumption DEF Decline, Reject, Leave
  <1>3. CASE Prepare
    BY <1>3 DEF Prepare
  <1>4. CASE Staged
    BY <1>4 DEF Staged
  <1>5. CASE CommitMark
    BY <1>5 DEF CommitMark
  <1>6. CASE StaleAtMark
    BY <1>6, CallAssumption DEF StaleAtMark, Reject, Leave
  <1>7. CASE Settle
    BY <1>7 DEF Settle
  <1>8. CASE Done
    BY <1>8, CallAssumption DEF Done, Leave
  <1>9. ASSUME NEW k \in Kinds, MakeDirectory(k) PROVE SafetyOK'
    BY <1>9 DEF MakeDirectory
  <1>10. ASSUME NEW p \in Paths, WriteArtifact(p) PROVE SafetyOK'
    BY <1>10 DEF WriteArtifact
  <1>11. ASSUME NEW p \in Paths, BackupChanged(p) PROVE SafetyOK'
    BY <1>11, CallAssumption DEF BackupChanged, Reject, Leave
  <1>12. CASE Confirm
    BY <1>12 DEF Confirm
  <1>13. CASE ApplyConflict
    BY <1>13, CallAssumption DEF ApplyConflict, Reject, Leave
  <1> QED
    BY <1>1, <1>2, <1>3, <1>4, <1>5, <1>6, <1>7, <1>8, <1>9, <1>10, <1>11, <1>12, <1>13
    DEF Apply

\* The other steps create no journal.
LEMMA OtherControl ==
  ASSUME TypeOK, SafetyOK,
         \/ Entry \/ Cleanup \/ Fault
         \/ \E o \in Ops : CreatePlan(o)
         \/ \E c \in Ops \cup {Reader} : Acquire(c)
         \/ \E p \in Paths : Edit(p)
  PROVE  SafetyOK'
  <1> USE DEF SafetyOK, ControlInv, AtMostOneJournal, Live, TypeOK,
              vars, targets, names, call, history, faults
  <1>1. ASSUME NEW o \in Ops, NEW p \in Paths,
               WriteTemp(o, p) \/ Install(o, p) \/ CheckTarget(o, p) \/ DeleteTarget(o, p)
        PROVE SafetyOK'
    BY <1>1 DEF WriteTemp, Install, CheckTarget, DeleteTarget
  <1>2. ASSUME NEW o \in Ops, CleanTarget(o) PROVE SafetyOK'
    BY <1>2 DEF CleanTarget
  <1>3. ASSUME NEW o \in Ops, NEW k \in Kinds, CleanArtifacts(o, k) PROVE SafetyOK'
    BY <1>3 DEF CleanArtifacts
  <1>4. ASSUME NEW o \in Ops, RemoveJournal(o) PROVE SafetyOK'
    BY <1>4 DEF RemoveJournal, Cleaning
  <1>5. CASE Fault
    <2>1. Leave /\ Reject /\ UNCHANGED <<journal, plan>>
      BY <1>5 DEF Fault, Interrupt, InterruptArtifact, InterruptTemp, Crash
    <2> QED BY <2>1, CallAssumption DEF Reject, Leave
  <1>6. ASSUME NEW o \in Ops, CreatePlan(o) PROVE SafetyOK'
    BY <1>6 DEF CreatePlan
  <1>7. ASSUME NEW c \in Ops \cup {Reader}, Acquire(c) PROVE SafetyOK'
    BY <1>7, CallAssumption DEF Acquire
  <1>8. ASSUME NEW p \in Paths, Edit(p) PROVE SafetyOK'
    BY <1>8 DEF Edit
  <1>9. ASSUME NEW o \in Ops, CleanupRefused(o) \/ \E p \in Paths : DeleteChanged(o, p)
        PROVE  SafetyOK'
    BY <1>9, CallAssumption DEF CleanupRefused, DeleteChanged, Reject, Leave
  <1> QED
    BY <1>1, <1>2, <1>3, <1>4, <1>5, <1>6, <1>7, <1>8, <1>9 DEF Entry, Cleanup

\* Every step keeps SafetyOK.
LEMMA NextControl ==
  ASSUME TypeOK, SafetyOK, [Next]_vars
  PROVE  SafetyOK'
  <1>1. CASE UNCHANGED vars
    BY <1>1 DEF SafetyOK, ControlInv, AtMostOneJournal, Live,
                vars, targets, names, call, history, faults
  <1> QED
    BY <1>1, RecoveryControl, ApplyControl, OtherControl DEF Next, Step

-----------------------------------------------------------------------------
(* Artifacts: what recovery needs is complete when the marker is written *)

DurableOK == ArtifactInv /\ CommitIsPrepared

\* Whatever leaves journals, plans and artifacts alone keeps DurableOK, as long
\* as it does not start preparing a plan.
LEMMA DurableFrame ==
  ASSUME DurableOK, UNCHANGED <<journal, plan, dirs, files, torn, holder>>,
         pc' \in {"recovered", "mkdir"} \cup Kinds => pc' = pc
  PROVE  DurableOK'
  BY DEF DurableOK, ArtifactInv, CommitIsPrepared, ArtifactsOf, ExpectedArtifacts

\* A call that leaves the lock keeps it too.
LEMMA DurableLeave ==
  ASSUME DurableOK, pc' = "idle", UNCHANGED <<journal, plan, dirs, files, torn>>
  PROVE  DurableOK'
  BY DEF DurableOK, ArtifactInv, CommitIsPrepared, ArtifactsOf, ExpectedArtifacts

\* Recovery touches no artifact of a journal that is still "committing".
LEMMA RecoveryDurable ==
  ASSUME TypeOK, SafetyOK, DurableOK, Recovery \/ Read
  PROVE  DurableOK'
  <1> USE DEF names, call
  <1>1. CASE Preflight
    <2>1. torn' \subseteq torn /\ pc' = "redo"
          /\ UNCHANGED <<journal, plan, dirs, files, holder>>
      BY <1>1 DEF Preflight
    <2> QED BY <2>1 DEF DurableOK, ArtifactInv, CommitIsPrepared, ArtifactsOf,
                        ExpectedArtifacts
  <1>2. CASE PreflightRefused
    BY <1>2, DurableLeave DEF PreflightRefused, Leave
  <1>3. CASE Verify
    BY <1>3, DurableFrame DEF Verify
  <1>4. CASE CleanOrphan
    <2>1. Live = {} /\ pc = "clean" /\ UNCHANGED <<journal, plan, pc>>
      BY <1>4 DEF CleanOrphan, SafetyOK, ControlInv
    <2>2. CommitIsPrepared'
      BY <2>1 DEF CommitIsPrepared, Live
    <2>3. ArtifactInv'
      <3>1. ASSUME NEW f \in files, files' = files \ {f}, UNCHANGED <<dirs, torn>>
            PROVE  ArtifactInv'
        BY <2>1, <3>1 DEF DurableOK, ArtifactInv
      <3>2. ASSUME NEW d \in torn, torn' = torn \ {d}, UNCHANGED <<dirs, files>>
            PROVE  ArtifactInv'
        BY <2>1, <3>2 DEF DurableOK, ArtifactInv
      <3>3. ASSUME NEW d \in dirs \ torn, ArtifactsOf(d[1], d[2]) = {},
                   dirs' = dirs \ {d}, UNCHANGED <<files, torn>>
            PROVE  ArtifactInv'
        <4>1. ASSUME NEW o \in Ops, NEW k \in Kinds, NEW p \in Paths, <<o, k, p>> \in files'
              PROVE  <<o, k>> \in dirs'
          <5>1. <<o, k>> \in dirs
            BY <3>3, <4>1 DEF DurableOK, ArtifactInv
          <5>2. <<o, k>> # d
            BY <3>3, <4>1 DEF ArtifactsOf
          <5> QED BY <3>3, <5>1, <5>2
        <4> QED BY <2>1, <3>3, <4>1 DEF DurableOK, ArtifactInv
      <3> QED BY <1>4, <3>1, <3>2, <3>3 DEF CleanOrphan
    <2> QED BY <2>2, <2>3 DEF DurableOK
  <1>5. CASE Recovered
    <2>1. files = {} /\ torn = {}
      BY <1>5 DEF Recovered, DurableOK, ArtifactInv, TypeOK
    <2> QED BY <1>5, <2>1 DEF Recovered, DurableOK, ArtifactInv, CommitIsPrepared,
                        ArtifactsOf, ExpectedArtifacts
  <1>6. ASSUME NEW o \in Ops, RecoveryMark(o) PROVE DurableOK'
    <2>1. \A l \in Ops : journal'[l] = "committing" => journal[l] = "committing"
      BY <1>6 DEF RecoveryMark, TypeOK
    <2> QED BY <1>6, <2>1 DEF RecoveryMark, DurableOK, ArtifactInv, CommitIsPrepared,
                        ArtifactsOf, ExpectedArtifacts
  <1>7. ASSUME NEW o \in Ops, NEW p \in Paths, RedoSkip(o, p) PROVE DurableOK'
    BY <1>7, DurableFrame DEF RedoSkip
  <1>8. CASE Read
    BY <1>8, DurableFrame DEF Read
  <1>9. CASE RecoveryGivesUp
    BY <1>9, DurableLeave DEF RecoveryGivesUp, Leave
  <1> QED
    BY <1>1, <1>2, <1>3, <1>4, <1>5, <1>6, <1>7, <1>8, <1>9 DEF Recovery

\* A plan's artifacts are complete when the marker is written.
LEMMA ApplyDurable ==
  ASSUME TypeOK, SafetyOK, DurableOK, Apply
  PROVE  DurableOK'
  <1> USE DEF names, call
  <1>1. CASE BeginApply
    BY <1>1 DEF BeginApply, DurableOK, ArtifactInv, CommitIsPrepared, ArtifactsOf,
                ExpectedArtifacts
  <1>2. CASE Decline
    BY <1>2, DurableLeave DEF Decline, Leave
  <1>3. CASE Prepare
    <2>1. holder \in Ops /\ files = {} /\ torn = {} /\ \A k \in Kinds : <<holder, k>> \in dirs
      BY <1>3 DEF Prepare, SafetyOK, ControlInv, DurableOK, ArtifactInv
    <2>2. \A o \in Ops : journal'[o] # "committing"
      BY <1>3 DEF Prepare, SafetyOK, ControlInv, Live, TypeOK
    <2>3. UNCHANGED <<plan, dirs, files, torn, holder>> /\ pc' = "staging"
      BY <1>3 DEF Prepare
    <2> QED BY <2>1, <2>2, <2>3 DEF DurableOK, ArtifactInv, CommitIsPrepared, ArtifactsOf
  <1>4. CASE Staged
    <2>1. ArtifactsOf(holder, "staging") = ExpectedArtifacts(holder, "staging")
      BY <1>4 DEF Staged, Missing, DurableOK, ArtifactInv
    <2> QED BY <1>4, <2>1 DEF Staged, DurableOK, ArtifactInv, CommitIsPrepared,
                        ArtifactsOf, ExpectedArtifacts
  <1>5. CASE CommitMark
    <2>1. \A k \in Kinds : ArtifactsOf(holder, k) = ExpectedArtifacts(holder, k)
      BY <1>5 DEF CommitMark, Missing, DurableOK, ArtifactInv
    <2>2. \A k \in Kinds : <<holder, k>> \in dirs \ torn
      BY <1>5 DEF CommitMark, DurableOK, ArtifactInv
    <2>3. /\ \A o \in Ops : journal'[o] = "committing" => o = holder \/ journal[o] = "committing"
          /\ UNCHANGED <<plan, dirs, files, torn, holder>> /\ pc' = "install"
      BY <1>5 DEF CommitMark, TypeOK
    <2> QED BY <2>1, <2>2, <2>3 DEF DurableOK, ArtifactInv, CommitIsPrepared,
                        ArtifactsOf, ExpectedArtifacts
  <1>6. CASE StaleAtMark
    BY <1>6, DurableLeave DEF StaleAtMark, Leave
  <1>7. CASE Settle
    <2>1. \A l \in Ops : journal'[l] = "committing" => journal[l] = "committing"
      BY <1>7 DEF Settle, TypeOK
    <2> QED BY <1>7, <2>1 DEF Settle, DurableOK, ArtifactInv, CommitIsPrepared,
                        ArtifactsOf, ExpectedArtifacts
  <1>8. CASE Done
    BY <1>8, DurableLeave DEF Done, Leave
  <1>9. ASSUME NEW k \in Kinds, MakeDirectory(k) PROVE DurableOK'
    BY <1>9 DEF MakeDirectory, DurableOK, ArtifactInv, CommitIsPrepared, ArtifactsOf,
                ExpectedArtifacts
  <1>10. ASSUME NEW p \in Paths, WriteArtifact(p) PROVE DurableOK'
    <2>1. \A o \in Ops : journal'[o] # "committing"
      BY <1>10 DEF WriteArtifact, SafetyOK, ControlInv, Live, TypeOK
    <2>2. /\ pc \in Kinds /\ holder \in Ops /\ p \in ExpectedArtifacts(holder, pc)
          /\ files' = files \cup {<<holder, pc, p>>}
          /\ UNCHANGED <<plan, dirs, torn, holder, pc>>
      BY <1>10 DEF WriteArtifact, Missing, SafetyOK, ControlInv
    <2>3. \A k \in Kinds : ArtifactsOf(holder, k)'
            = IF k = pc THEN ArtifactsOf(holder, k) \cup {p} ELSE ArtifactsOf(holder, k)
      BY <2>2 DEF ArtifactsOf
    <2>4. UNCHANGED ExpectedArtifacts(holder, "staging")
          /\ UNCHANGED ExpectedArtifacts(holder, "backups")
      BY <2>2 DEF ExpectedArtifacts
    <2>5. ArtifactInv'
      BY <2>2, <2>3, <2>4 DEF DurableOK, ArtifactInv
    <2> QED BY <2>1, <2>5 DEF DurableOK, CommitIsPrepared
  <1>11. ASSUME NEW p \in Paths, BackupChanged(p) PROVE DurableOK'
    BY <1>11, DurableLeave DEF BackupChanged, Leave
  <1>12. CASE Confirm
    BY <1>12, DurableFrame DEF Confirm
  <1>13. CASE ApplyConflict
    BY <1>13, DurableLeave DEF ApplyConflict, Leave
  <1> QED
    BY <1>1, <1>2, <1>3, <1>4, <1>5, <1>6, <1>7, <1>8, <1>9, <1>10, <1>11, <1>12, <1>13
    DEF Apply

\* Installing, cleaning up, dying, planning, acquiring and editing keep what the
\* commit marker relied on.
LEMMA OtherDurable ==
  ASSUME TypeOK, SafetyOK, DurableOK,
         \/ Entry \/ Cleanup \/ Fault
         \/ \E o \in Ops : CreatePlan(o)
         \/ \E c \in Ops \cup {Reader} : Acquire(c)
         \/ \E p \in Paths : Edit(p)
  PROVE  DurableOK'
  <1> USE DEF names, call
  <1>1. ASSUME NEW o \in Ops, NEW p \in Paths,
               WriteTemp(o, p) \/ Install(o, p) \/ CheckTarget(o, p) \/ DeleteTarget(o, p)
        PROVE DurableOK'
    <2>1. UNCHANGED <<journal, plan, dirs, files, torn, holder, pc>>
      BY <1>1 DEF WriteTemp, Install, CheckTarget, DeleteTarget
    <2> QED BY <2>1, DurableFrame
  <1>2. ASSUME NEW o \in Ops, CleanTarget(o) PROVE DurableOK'
    BY <1>2, DurableFrame DEF CleanTarget
  <1>3. ASSUME NEW o \in Ops, NEW k \in Kinds, CleanArtifacts(o, k) PROVE DurableOK'
    <2>1. \A l \in Ops : journal'[l] # "committing"
      BY <1>3 DEF CleanArtifacts, Cleaning, SafetyOK, ControlInv, Live
    <2>2. pc' = pc /\ pc \in {"clean", "finish"} /\ torn' = torn /\ <<o, k>> \notin torn
      BY <1>3 DEF CleanArtifacts, Cleaning
    <2>3. ASSUME NEW p \in ArtifactsOf(o, k), files' = files \ {<<o, k, p>>}, UNCHANGED dirs
          PROVE ArtifactInv'
      BY <2>2, <2>3 DEF DurableOK, ArtifactInv
    <2>4. ASSUME ArtifactsOf(o, k) = {}, dirs' = dirs \ {<<o, k>>}, UNCHANGED files
          PROVE ArtifactInv'
      BY <2>2, <2>4 DEF DurableOK, ArtifactInv, ArtifactsOf
    <2>5. ArtifactInv'
      BY <1>3, <2>3, <2>4 DEF CleanArtifacts
    <2> QED BY <2>1, <2>5 DEF DurableOK, CommitIsPrepared
  <1>4. ASSUME NEW o \in Ops, RemoveJournal(o) PROVE DurableOK'
    <2>1. \A l \in Ops : journal'[l] # "committing"
      BY <1>4 DEF RemoveJournal, Cleaning, SafetyOK, ControlInv, Live, TypeOK
    <2>2. pc' = pc /\ pc \in {"clean", "finish"} /\ UNCHANGED <<dirs, files, torn>>
      BY <1>4 DEF RemoveJournal, Cleaning
    <2> QED BY <2>1, <2>2 DEF DurableOK, ArtifactInv, CommitIsPrepared
  <1>5. CASE Interrupt
    BY <1>5, DurableLeave DEF Interrupt, Crash, Leave
  <1>6. CASE InterruptArtifact
    <2>1. \A l \in Ops : journal[l] # "committing"
      BY <1>6 DEF InterruptArtifact, SafetyOK, ControlInv, Live
    <2>2. <<holder, pc>> \in dirs
      BY <1>6 DEF InterruptArtifact, DurableOK, ArtifactInv
    <2>3. pc' = "idle" /\ torn' = torn \cup {<<holder, pc>>}
          /\ UNCHANGED <<journal, dirs, files>>
      BY <1>6 DEF InterruptArtifact, Crash, Leave
    <2> QED BY <2>1, <2>2, <2>3 DEF DurableOK, ArtifactInv, CommitIsPrepared
  <1>7. ASSUME NEW o \in Ops, NEW p \in Paths, InterruptTemp(o, p) PROVE DurableOK'
    BY <1>7, DurableLeave DEF InterruptTemp, Crash, Leave
  <1>8. ASSUME NEW o \in Ops, CreatePlan(o) PROVE DurableOK'
    <2>1. fate[o] = "new" /\ journal[o] = "none"
      BY <1>8 DEF CreatePlan, SafetyOK, ControlInv, Live
    <2>2. \A l \in Ops \ {o} : plan'[l] = plan[l]
      BY <1>8 DEF CreatePlan, TypeOK
    <2>3. pc \in Kinds => holder \in Ops \ {o}
      BY <2>1 DEF SafetyOK, ControlInv
    <2>4. UNCHANGED <<journal, dirs, files, torn, holder, pc>>
      BY <1>8 DEF CreatePlan
    <2> QED BY <2>1, <2>2, <2>3, <2>4 DEF DurableOK, ArtifactInv, CommitIsPrepared,
                                          ArtifactsOf, ExpectedArtifacts
  <1>9. ASSUME NEW c \in Ops \cup {Reader}, Acquire(c) PROVE DurableOK'
    BY <1>9 DEF Acquire, DurableOK, ArtifactInv, CommitIsPrepared, ArtifactsOf,
                ExpectedArtifacts
  <1>10. ASSUME NEW p \in Paths, Edit(p) PROVE DurableOK'
    BY <1>10, DurableFrame DEF Edit
  <1>11. ASSUME NEW o \in Ops, CleanupRefused(o) \/ \E p \in Paths : DeleteChanged(o, p)
         PROVE  DurableOK'
    BY <1>11, DurableLeave DEF CleanupRefused, DeleteChanged, Leave
  <1> QED
    BY <1>1, <1>2, <1>3, <1>4, <1>5, <1>6, <1>7, <1>8, <1>9, <1>10, <1>11
    DEF Entry, Cleanup, Fault

\* Every step keeps DurableOK.
LEMMA NextDurable ==
  ASSUME TypeOK, SafetyOK, DurableOK, [Next]_vars
  PROVE  DurableOK'
  <1>1. CASE UNCHANGED vars
    BY <1>1, DurableFrame DEF vars, targets, names, call, history, faults
  <1> QED
    BY <1>1, RecoveryDurable, ApplyDurable, OtherDurable DEF Next, Step

-----------------------------------------------------------------------------
(* The inductive invariant *)

\* Init establishes IInv.
LEMMA InitIInv == Init => IInv
  BY InitType, CallAssumption
  DEF Init, IInv, ControlInv, ArtifactInv, AtMostOneJournal, CommitIsPrepared, Live

\* Every step keeps IInv.
LEMMA NextIInv == IInv /\ [Next]_vars => IInv'
  BY NextType, NextControl, NextDurable DEF IInv, SafetyOK, DurableOK

\* IInv holds in every state the protocol reaches, with any number of
\* operations, files, crashes and edits.
THEOREM Inductive == Spec => []IInv
  BY InitIInv, NextIInv, PTL DEF Spec

\* Every variable keeps its type.
THEOREM TypeCorrect == Spec => []TypeOK
  <1>1. IInv => TypeOK
    BY DEF IInv
  <1> QED BY <1>1, Inductive, PTL

\* However many calls die, and wherever, recovery never finds two journals: the
\* next call always completes or undoes an operation before it starts its own
\* (applyMutationPlanLocked calls recoverLocked first).
THEOREM OneJournal == Spec => []AtMostOneJournal
  <1>1. IInv => AtMostOneJournal
    BY DEF IInv
  <1> QED BY <1>1, Inductive, PTL

\* No journal says "committing" while a staged file or a backup that recovery
\* would need is missing from disk, however calls interleave, die and are edited
\* under (applyMutationPlanLocked writes the marker after every artifact).
THEOREM MarkedIsPrepared == Spec => []CommitIsPrepared
  <1>1. IInv => CommitIsPrepared
    BY DEF IInv
  <1> QED BY <1>1, Inductive, PTL

\* Recovery can rely on both at once: one journal to read, and every artifact it
\* names on disk (recoverLocked).
THEOREM JournalIsSafe == Spec => []JournalSafe
  <1>1. IInv => JournalSafe
    BY DEF IInv, JournalSafe
  <1> QED BY <1>1, Inductive, PTL

-----------------------------------------------------------------------------
(* Steps *)

ProgressOK == TodoInv /\ WholeInv /\ FateInv

-----------------------------------------------------------------------------
(* The strengthened invariant *)

\* A file that is not edited after the step was not edited before it, nor has it changed.
OnlyEditsShow == \A p \in Paths \ edited' : disk'[p] = disk[p] /\ p \notin edited

\* The files of a plan are files.
LEMMA PlanPaths ==
  ASSUME TypeOK
  PROVE  \A o \in Ops : plan[o].paths \subseteq Paths
  BY DEF TypeOK, PlanType

\* Steps of a call between two of its phases, or inside one, that touch neither
\* journals, fates nor the work list, and an edit.
LEMMA ProgressFrame ==
  ASSUME TypeOK, ProgressOK, OnlyEditsShow,
         UNCHANGED <<journal, plan, fate, holder, seen, todo, at>>,
         Repairing' <=> Repairing,
         pc' \in {"clean", "finish"} <=> pc \in {"clean", "finish"},
         pc' \in {"install", "settled", "finish"} <=> pc \in {"install", "settled", "finish"}
  PROVE  ProgressOK'
  <1>1. TodoInv'
    BY DEF ProgressOK, OnlyEditsShow, TodoInv, Repairing, Live, RollForward, Outcome,
           TargetIsAfter, TargetIsBefore
  <1>2. WholeInv'
    <2>1. Live' = Live /\ Live \subseteq Ops /\ \A o \in Ops : Outcome(o)' = Outcome(o)
      BY DEF Live, Outcome
    <2> QED BY <2>1, PlanPaths DEF ProgressOK, OnlyEditsShow, WholeInv, TargetIsAfter,
                                   TargetIsBefore
  <1>3. FateInv'
    BY DEF ProgressOK, FateInv, Live, Outcome
  <1> QED BY <1>1, <1>2, <1>3 DEF ProgressOK

\* A call that leaves or is cut off keeps it; a journal it leaves behind has a mark
\* that agrees with the call's fate.
LEMMA ProgressLeave ==
  ASSUME TypeOK, ProgressOK, Leave, Reject \/ UNCHANGED fate, UNCHANGED <<disk, journal, plan>>
  PROVE  ProgressOK'
  <1>1. TodoInv' /\ WholeInv'
    BY DEF Leave, TodoInv, WholeInv, Repairing
  <1>2. \A o \in Ops : fate'[o] = "committed" <=> fate[o] = "committed"
    BY DEF Reject, TypeOK
  <1>3. FateInv'
    BY <1>2, CallAssumption DEF ProgressOK, FateInv, Leave, Live, Outcome
  <1> QED BY <1>1, <1>3 DEF ProgressOK

\* The work list of recovery is made of entries its preflight has looked at.
LEMMA PreflightProgress ==
  ASSUME IInv, ProgressOK, Preflight
  PROVE  ProgressOK'
  <1> USE DEF call
  <1>1. /\ todo' = UNION {EntriesOf(o) : o \in RollForward} /\ pc' = "redo"
        /\ UNCHANGED <<disk, journal, plan, fate, holder, seen, at>> /\ pc = "preflight"
        /\ \A o \in Live : Recoverable(o)
    BY DEF Preflight
  <1>2. ASSUME NEW o \in Ops, NEW p \in Paths, <<o, p>> \in todo'
        PROVE  /\ o \in RollForward /\ p \in plan[o].paths
               /\ TargetIsAfter(o, p) \/ TargetIsBefore(o, p) \/ disk[p] = Absent
    <2>1. o \in RollForward /\ p \in plan[o].paths
      BY <1>1, <1>2 DEF EntriesOf
    <2>2. o \in Live /\ journal[o] \in {"committing", "committed"}
      BY <2>1 DEF RollForward, Outcome, Live, IInv, TypeOK
    <2>3. CASE journal[o] = "committing"
      <3>1. CommittingIsRecoverable(o)
        BY <1>1, <2>2, <2>3 DEF Recoverable
      <3> QED BY <2>1, <3>1 DEF CommittingIsRecoverable
    <2>4. CASE journal[o] = "committed"
      <3>1. CommittedIsRecoverable(o)
        BY <1>1, <2>2, <2>4 DEF Recoverable
      <3> QED BY <2>1, <3>1 DEF CommittedIsRecoverable
    <2> QED BY <2>1, <2>2, <2>3, <2>4
  <1>3. TodoInv'
    <2>1. at' = NoEntry
      BY <1>1 DEF ProgressOK, TodoInv, Repairing
    <2> QED BY <1>1, <1>2, <2>1 DEF TodoInv, Repairing, RollForward, Live, Outcome,
                                    TargetIsAfter, TargetIsBefore
  <1>4. WholeInv' /\ FateInv'
    BY <1>1 DEF ProgressOK, WholeInv, FateInv, Live, Outcome
  <1> QED BY <1>3, <1>4 DEF ProgressOK

\* Recovery and a reader's read keep ProgressOK.
LEMMA RecoveryProgress ==
  ASSUME IInv, ProgressOK, Recovery \/ Read
  PROVE  ProgressOK'
  <1> USE DEF targets, names, call, history, faults
  <1>1. CASE Preflight
    BY <1>1, PreflightProgress
  <1>2. CASE PreflightRefused
    BY <1>2, ProgressLeave DEF PreflightRefused, IInv
  <1>3. CASE Verify
    <2>1. /\ Live = work /\ pc = "redo" /\ pc' = "clean" /\ todo = {} /\ at = NoEntry
          /\ UNCHANGED <<disk, journal, plan, fate, holder, seen, todo, at>>
      BY <1>3 DEF Verify, IInv, ControlInv
    <2>2. WholeInv'
      BY <1>3, <2>1 DEF Verify, WholeInv, Live, Outcome, AllAfter, AllBefore,
                        TargetIsAfter, TargetIsBefore
    <2>3. TodoInv' /\ FateInv'
      BY <2>1 DEF ProgressOK, TodoInv, FateInv, Repairing, Live, Outcome
    <2> QED BY <2>2, <2>3 DEF ProgressOK
  <1>4. CASE CleanOrphan
    BY <1>4, ProgressFrame DEF CleanOrphan, Repairing, OnlyEditsShow, IInv
  <1>5. CASE Recovered
    <2>1. pc = "clean" /\ pc' = "recovered"
          /\ UNCHANGED <<disk, journal, plan, fate, holder, seen, todo, at>>
      BY <1>5 DEF Recovered
    <2> QED BY <2>1 DEF ProgressOK, TodoInv, WholeInv, FateInv, Repairing, Live, Outcome
  <1>6. ASSUME NEW o \in Ops, RecoveryMark(o) PROVE ProgressOK'
    <2>1. /\ pc = "redo" /\ Outcome(o) = "after" /\ o \in Live
          /\ journal' = [journal EXCEPT ![o] = "committed"]
          /\ edited' = edited \ plan[o].paths /\ AllAfter(o)
          /\ UNCHANGED <<disk, pc, plan, fate, holder, seen, todo, at>>
      BY <1>6 DEF RecoveryMark, IInv, ControlInv
    <2>2. Live' = Live /\ \A l \in Ops : Outcome(l)' = Outcome(l)
      BY <2>1 DEF Live, Outcome, IInv, TypeOK
    <2>3. RollForward' = RollForward
      BY <2>2 DEF RollForward, Live
    <2>4. \A l \in RollForward : l = o
      BY <2>1 DEF RollForward, IInv, AtMostOneJournal
    <2>5. TodoInv'
      BY <2>1, <2>3, <2>4 DEF ProgressOK, TodoInv, Repairing, AllAfter, TargetIsAfter,
                              TargetIsBefore
    <2> QED BY <2>1, <2>2, <2>5 DEF ProgressOK, WholeInv, FateInv, Live
  <1>7. ASSUME NEW o \in Ops, NEW p \in Paths, RedoSkip(o, p) PROVE ProgressOK'
    <2>1. /\ pc = "redo" /\ todo' \subseteq todo /\ at = NoEntry /\ edited' = edited \ {p}
          /\ <<o, p>> \in todo /\ TargetIsAfter(o, p)
          /\ UNCHANGED <<disk, journal, pc, plan, fate, holder, seen, at>>
      BY <1>7 DEF RedoSkip
    <2>2. ASSUME NEW l \in Ops, <<l, p>> \in todo PROVE l = o
      BY <2>1, <2>2 DEF ProgressOK, TodoInv, RollForward, IInv, AtMostOneJournal
    <2>3. TodoInv'
      BY <2>1, <2>2 DEF ProgressOK, TodoInv, Repairing, RollForward, Live, Outcome,
                        TargetIsAfter, TargetIsBefore
    <2> QED BY <2>1, <2>3 DEF ProgressOK, WholeInv, FateInv, Live, Outcome
  <1>8. CASE Read
    <2>1. pc = "recovered" /\ pc' = "read" /\ holder = Reader
          /\ UNCHANGED <<disk, journal, plan, fate, holder, todo, at>>
      BY <1>8 DEF Read
    <2> QED BY <2>1, CallAssumption
            DEF ProgressOK, TodoInv, WholeInv, FateInv, Repairing, Live, Outcome
  <1>9. CASE RecoveryGivesUp
    BY <1>9, ProgressLeave DEF RecoveryGivesUp, IInv
  <1> QED
    BY <1>1, <1>2, <1>3, <1>4, <1>5, <1>6, <1>7, <1>8, <1>9 DEF Recovery

\* Applying a plan keeps it: the mark in the journal and the call's fate change
\* together, and cleanup starts when every file is in its after state.
LEMMA ApplyProgress ==
  ASSUME IInv, ProgressOK, Apply
  PROVE  ProgressOK'
  <1> USE DEF targets, names, call, history, faults
  <1>1. CASE BeginApply
    <2>1. /\ pc = "recovered" /\ pc' = "mkdir"
          /\ UNCHANGED <<disk, journal, plan, fate, holder, seen, todo, at>>
      BY <1>1 DEF BeginApply
    <2> QED BY <2>1 DEF ProgressOK, TodoInv, WholeInv, FateInv, Repairing, Live, Outcome
  <1>2. CASE Decline
    BY <1>2, ProgressLeave DEF Decline, IInv
  <1>3. CASE Prepare
    <2>1. /\ Live = {} /\ holder \in Ops /\ pc = "mkdir" /\ pc' = "staging"
          /\ journal' = [journal EXCEPT ![holder] = "prepared"]
          /\ UNCHANGED <<disk, plan, fate, holder, seen, todo, at>>
      BY <1>3 DEF Prepare, IInv, ControlInv
    <2>2. fate[holder] = "planned" /\ todo = {} /\ at = NoEntry
      BY <2>1 DEF ProgressOK, FateInv, TodoInv, Repairing
    <2>3. \A o \in Live' : o = holder /\ ~(Outcome(o)' = "after")
      BY <2>1 DEF Live, Outcome, IInv, TypeOK
    <2>4. FateInv'
      BY <2>1, <2>2, <2>3 DEF ProgressOK, FateInv, Live
    <2> QED BY <2>1, <2>2, <2>4 DEF ProgressOK, TodoInv, WholeInv, Repairing
  <1>4. CASE Staged
    BY <1>4, ProgressFrame DEF Staged, Repairing, OnlyEditsShow, IInv
  <1>5. CASE CommitMark
    <2>1. /\ Live = {holder} /\ holder \in Ops /\ pc = "backups" /\ pc' = "install"
          /\ journal' = [journal EXCEPT ![holder] = "committing"]
          /\ fate' = [fate EXCEPT ![holder] = "committed"]
          /\ todo' = EntriesOf(holder) /\ AllBefore(holder)
          /\ UNCHANGED <<disk, plan, holder, seen, at>>
      <3>1. pc = "backups" => Live = {holder} /\ holder \in Ops
        BY DEF IInv, ControlInv
      <3> QED BY <1>5, <3>1 DEF CommitMark
    <2>2. Live' = {holder} /\ Outcome(holder)' = "after" /\ fate'[holder] = "committed"
      BY <2>1 DEF Live, Outcome, IInv, TypeOK
    <2>3. at = NoEntry
      BY <2>1 DEF ProgressOK, TodoInv, Repairing
    <2>4. TodoInv'
      BY <2>1, <2>2, <2>3 DEF TodoInv, Repairing, RollForward, EntriesOf, AllBefore,
                              TargetIsAfter, TargetIsBefore
    <2>5. FateInv'
      BY <2>1, <2>2 DEF ProgressOK, FateInv
    <2> QED BY <2>1, <2>4, <2>5 DEF ProgressOK, WholeInv
  <1>6. CASE StaleAtMark
    BY <1>6, ProgressLeave DEF StaleAtMark, IInv
  <1>7. CASE Settle
    <2>1. /\ Live = {holder} /\ holder \in Ops /\ pc = "install" /\ pc' = "settled"
          /\ journal' = [journal EXCEPT ![holder] = "committed"]
          /\ todo = {} /\ at = NoEntry
          /\ UNCHANGED <<disk, plan, fate, holder, seen, todo, at>>
      BY <1>7 DEF Settle, IInv, ControlInv
    <2>2. Live' = {holder} /\ Outcome(holder)' = "after"
      BY <2>1 DEF Live, Outcome, IInv, TypeOK
    <2>3. WholeInv' /\ FateInv'
      BY <2>1, <2>2 DEF ProgressOK, WholeInv, FateInv
    <2> QED BY <2>1, <2>3 DEF ProgressOK, TodoInv, Repairing
  <1>8. CASE Done
    BY <1>8, ProgressLeave DEF Done, IInv
  <1>9. ASSUME NEW k \in Kinds, MakeDirectory(k) PROVE ProgressOK'
    BY <1>9, ProgressFrame DEF MakeDirectory, Repairing, OnlyEditsShow, IInv
  <1>10. ASSUME NEW p \in Paths, WriteArtifact(p) PROVE ProgressOK'
    BY <1>10, ProgressFrame DEF WriteArtifact, Repairing, OnlyEditsShow, IInv
  <1>11. ASSUME NEW p \in Paths, BackupChanged(p) PROVE ProgressOK'
    BY <1>11, ProgressLeave DEF BackupChanged, IInv
  <1>12. CASE Confirm
    <2>1. /\ Live = {holder} /\ pc = "settled" /\ pc' = "finish" /\ AllAfter(holder)
          /\ UNCHANGED <<disk, journal, plan, fate, holder, seen, todo, at>>
      BY <1>12 DEF Confirm, IInv, ControlInv
    <2>2. Live' = {holder} /\ Outcome(holder)' = "after"
      BY <2>1 DEF Live, ProgressOK, FateInv, Outcome
    <2>3. WholeInv'
      BY <2>1, <2>2 DEF WholeInv, AllAfter, TargetIsAfter
    <2>4. TodoInv' /\ FateInv'
      BY <2>1 DEF ProgressOK, TodoInv, FateInv, Repairing, Live, Outcome
    <2> QED BY <2>3, <2>4 DEF ProgressOK
  <1>13. CASE ApplyConflict
    BY <1>13, ProgressLeave DEF ApplyConflict, IInv
  <1> QED
    BY <1>1, <1>2, <1>3, <1>4, <1>5, <1>6, <1>7, <1>8, <1>9, <1>10, <1>11, <1>12, <1>13
    DEF Apply

\* Bringing one file home keeps it: no other entry on the work list names the file,
\* because only one operation has a journal.
LEMMA EntryProgress ==
  ASSUME IInv, ProgressOK, Entry
  PROVE  ProgressOK'
  <1> USE DEF targets, names, history, faults
  <1> PICK o \in Ops, p \in Paths :
             \/ WriteTemp(o, p) \/ Install(o, p) \/ CheckTarget(o, p)
             \/ DeleteTarget(o, p) \/ DeleteChanged(o, p)
    BY DEF Entry
  <1>1. CASE WriteTemp(o, p)
    <2>1. /\ <<o, p>> \in todo /\ at' = <<o, p>> /\ Repairing
          /\ UNCHANGED <<disk, journal, pc, plan, fate, holder, seen, todo, edited>>
      BY <1>1 DEF WriteTemp, Pending, Repairing
    <2> QED BY <2>1 DEF ProgressOK, TodoInv, WholeInv, FateInv, Repairing, RollForward,
                        Live, Outcome, TargetIsAfter, TargetIsBefore
  <1>2. CASE Install(o, p) \/ DeleteTarget(o, p)
    <2>1. at # NoEntry /\ at = <<o, p>>
      BY <1>2, CallAssumption DEF Install, DeleteTarget
    <2>2. /\ <<o, p>> \in todo /\ Repairing
          /\ \A q \in Paths \ {p} : disk'[q] = disk[q] /\ (q \in edited' <=> q \in edited)
          /\ todo' = todo \ {<<o, p>>} /\ at' = NoEntry
          /\ UNCHANGED <<journal, pc, plan, fate, holder, seen>>
      <3>1. at \in todo /\ Repairing
        BY <2>1 DEF ProgressOK, TodoInv
      <3>2. \A q \in Paths \ {p} : disk'[q] = disk[q] /\ (q \in edited' <=> q \in edited)
        BY <1>2 DEF Install, DeleteTarget, IInv, TypeOK
      <3> QED BY <1>2, <2>1, <3>1, <3>2 DEF Install, DeleteTarget
    <2>3. ASSUME NEW l \in Ops, NEW q \in Paths, <<l, q>> \in todo'
          PROVE  q # p
      <3>1. l \in Live /\ o \in Live
        BY <2>2, <2>3 DEF ProgressOK, TodoInv, RollForward
      <3> QED BY <2>2, <2>3, <3>1 DEF IInv, AtMostOneJournal
    <2>4. TodoInv'
      BY <2>2, <2>3 DEF ProgressOK, TodoInv, Repairing, RollForward, Live, Outcome,
                        TargetIsAfter, TargetIsBefore
    <2> QED BY <2>2, <2>4 DEF ProgressOK, WholeInv, FateInv, Repairing, Live, Outcome
  <1>3. CASE CheckTarget(o, p)
    <2>1. /\ <<o, p>> \in todo /\ Repairing /\ at = NoEntry
          /\ edited' = edited \ {p}
          /\ UNCHANGED <<disk, journal, pc, plan, fate, holder, seen>>
      BY <1>3 DEF CheckTarget, Pending, Repairing
    <2>4. \/ todo' = todo \ {<<o, p>>} /\ at' = at
          \/ todo' = todo /\ at' = <<o, p>> /\ TargetIsBefore(o, p)
      BY <1>3 DEF CheckTarget
    <2>2. ASSUME NEW l \in Ops, <<l, p>> \in todo PROVE l = o
      BY <2>1, <2>2 DEF ProgressOK, TodoInv, RollForward, IInv, AtMostOneJournal
    <2>3. TodoInv'
      BY <2>1, <2>2, <2>4 DEF ProgressOK, TodoInv, Repairing, RollForward, Live, Outcome,
                              TargetIsAfter, TargetIsBefore
    <2> QED BY <2>1, <2>3 DEF ProgressOK, WholeInv, FateInv, Repairing, Live, Outcome
  <1>4. CASE DeleteChanged(o, p)
    BY <1>4, ProgressLeave DEF DeleteChanged, IInv
  <1> QED
    BY <1>1, <1>2, <1>3, <1>4

\* Cleaning up, planning, acquiring, editing and dying keep it.
LEMMA OtherProgress ==
  ASSUME IInv, ProgressOK,
         \/ Cleanup \/ Fault
         \/ \E o \in Ops : CreatePlan(o)
         \/ \E c \in Ops \cup {Reader} : Acquire(c)
         \/ \E p \in Paths : Edit(p)
  PROVE  ProgressOK'
  <1> USE DEF targets, names, call, history, faults
  <1>1. ASSUME NEW o \in Ops, CleanTarget(o) PROVE ProgressOK'
    BY <1>1, ProgressFrame DEF CleanTarget, Repairing, OnlyEditsShow, IInv
  <1>2. ASSUME NEW o \in Ops, NEW k \in Kinds, CleanArtifacts(o, k) PROVE ProgressOK'
    BY <1>2, ProgressFrame DEF CleanArtifacts, Repairing, OnlyEditsShow, IInv
  <1>3. ASSUME NEW o \in Ops, RemoveJournal(o) PROVE ProgressOK'
    <2>1. /\ pc \in {"clean", "finish"} /\ journal' = [journal EXCEPT ![o] = "none"]
          /\ UNCHANGED <<disk, pc, plan, fate, holder, seen, todo, at, edited>>
      BY <1>3 DEF RemoveJournal, Cleaning
    <2>2. \A l \in Live' : l \in Live /\ Outcome(l)' = Outcome(l)
      BY <2>1 DEF Live, Outcome, IInv, TypeOK
    <2> QED BY <2>1, <2>2 DEF ProgressOK, TodoInv, WholeInv, FateInv, Repairing, AllAfter,
                              AllBefore, TargetIsAfter, TargetIsBefore
  <1>4. CASE Fault
    <2>1. Leave /\ Reject /\ UNCHANGED <<disk, journal, plan>>
      BY <1>4 DEF Fault, Interrupt, InterruptArtifact, InterruptTemp, Crash
    <2> QED BY <2>1, ProgressLeave DEF IInv
  <1>5. ASSUME NEW o \in Ops, CreatePlan(o) PROVE ProgressOK'
    <2>1. /\ fate[o] = "new" /\ fate' = [fate EXCEPT ![o] = "planned"]
          /\ UNCHANGED <<disk, journal, pc, holder, seen, todo, at, edited>>
      BY <1>5 DEF CreatePlan
    <2>2. \A l \in Ops \ {o} : plan'[l] = plan[l] /\ fate'[l] = fate[l]
      BY <1>5 DEF CreatePlan, IInv, TypeOK
    <2>3. o \notin Live /\ holder # o
      BY <2>1 DEF IInv, ControlInv
    <2>4. Live' = Live /\ RollForward' = RollForward /\ \A l \in Ops : Outcome(l)' = Outcome(l)
      BY <2>1 DEF Live, RollForward, Outcome
    <2>5. TodoInv'
      <3>1. \A l \in Ops, p \in Paths : <<l, p>> \in todo => l # o
        BY <2>3 DEF ProgressOK, TodoInv, RollForward
      <3> QED BY <2>1, <2>2, <2>4, <3>1 DEF ProgressOK, TodoInv, Repairing,
                                            TargetIsAfter, TargetIsBefore
    <2>6. WholeInv'
      <3>1. \A l \in Live : l \in Ops /\ plan'[l] = plan[l]
        BY <2>2, <2>3 DEF Live
      <3> QED BY <2>1, <2>4, <3>1 DEF ProgressOK, WholeInv, TargetIsAfter, TargetIsBefore
    <2>7. FateInv'
      <3>1. \A l \in Live : fate'[l] = fate[l]
        BY <2>2, <2>3 DEF Live
      <3>2. holder \in Ops => fate'[holder] = fate[holder]
        BY <2>2, <2>3
      <3> QED BY <2>1, <2>3, <2>4, <3>1, <3>2 DEF ProgressOK, FateInv, Live
    <2> QED BY <2>5, <2>6, <2>7 DEF ProgressOK
  <1>6. ASSUME NEW c \in Ops \cup {Reader}, Acquire(c) PROVE ProgressOK'
    <2>1. /\ holder = NoCall /\ pc = "idle" /\ holder' = c /\ pc' = "preflight"
          /\ c \in Ops => fate[c] = "planned"
          /\ UNCHANGED <<disk, journal, plan, fate, seen, todo, at>>
      BY <1>6, CallAssumption DEF Acquire, IInv, ControlInv
    <2> QED BY <2>1, CallAssumption
            DEF ProgressOK, TodoInv, WholeInv, FateInv, Repairing, Live, Outcome
  <1>7. ASSUME NEW p \in Paths, Edit(p) PROVE ProgressOK'
    <2>1. UNCHANGED <<journal, pc, plan, fate, holder, seen, todo, at>>
      BY <1>7 DEF Edit
    <2>2. OnlyEditsShow
      BY <1>7 DEF Edit, OnlyEditsShow, IInv, TypeOK
    <2> QED BY <2>1, <2>2, ProgressFrame DEF Repairing, IInv
  <1>8. ASSUME NEW o \in Ops, CleanupRefused(o) PROVE ProgressOK'
    BY <1>8, ProgressLeave DEF CleanupRefused, IInv
  <1> QED
    BY <1>1, <1>2, <1>3, <1>4, <1>5, <1>6, <1>7, <1>8 DEF Cleanup

\* Init establishes StepInv.
LEMMA InitStepInv == Init => StepInv
  BY InitIInv, CallAssumption
  DEF Init, StepInv, TodoInv, WholeInv, FateInv, Repairing, Live

\* Every step keeps StepInv.
LEMMA NextStepInv == StepInv /\ [Next]_vars => StepInv'
  <1> SUFFICES ASSUME StepInv, [Next]_vars PROVE StepInv'
    OBVIOUS
  <1>1. IInv /\ ProgressOK
    BY DEF StepInv, ProgressOK
  <1>2. ASSUME UNCHANGED vars PROVE ProgressOK'
    BY <1>1, <1>2, ProgressFrame
    DEF vars, targets, names, call, history, faults, Repairing, OnlyEditsShow, IInv
  <1>3. ProgressOK'
    BY <1>1, <1>2, RecoveryProgress, ApplyProgress, EntryProgress, OtherProgress DEF Next, Step
  <1> QED BY <1>1, <1>3, NextIInv DEF StepInv, ProgressOK

\* StepInv holds in every state the protocol reaches.
THEOREM StepInductive == Spec => []StepInv
  BY InitStepInv, NextStepInv, PTL DEF Spec

-----------------------------------------------------------------------------
(* The two action properties *)

\* Files change in four actions only.
LEMMA WhoChangesFiles ==
  ASSUME Next, disk' # disk
  PROVE  \/ \E o \in Ops, p \in Paths : Install(o, p) \/ DeleteTarget(o, p)
         \/ \E p \in Paths : Edit(p)
  <1> USE DEF targets, names, call, history, faults
  <1>1. (\E o \in Ops : CreatePlan(o)) => UNCHANGED disk
    BY DEF CreatePlan
  <1>2. (\E c \in Ops \cup {Reader} : Acquire(c)) => UNCHANGED disk
    BY DEF Acquire
  <1>3. Recovery \/ Read => UNCHANGED disk
    BY DEF Recovery, Read, Preflight, PreflightRefused, Verify, RecoveryGivesUp, CleanOrphan,
           Recovered, RecoveryMark, RedoSkip
  <1>4. Apply => UNCHANGED disk
    BY DEF Apply, BeginApply, Decline, Prepare, Staged, CommitMark, StaleAtMark, Settle, Confirm,
           ApplyConflict, Done, MakeDirectory, WriteArtifact, BackupChanged
  <1>5. Cleanup => UNCHANGED disk
    BY DEF Cleanup, CleanTarget, CleanupRefused, CleanArtifacts, RemoveJournal
  <1>6. Fault => UNCHANGED disk
    BY DEF Fault, Interrupt, InterruptArtifact, InterruptTemp
  <1>7. Entry => \/ UNCHANGED disk
                 \/ \E o \in Ops, p \in Paths : Install(o, p) \/ DeleteTarget(o, p)
    BY DEF Entry, WriteTemp, CheckTarget, DeleteChanged
  <1> QED
    BY <1>1, <1>2, <1>3, <1>4, <1>5, <1>6, <1>7 DEF Next, Step

\* What the call brings home is its after state, over what the plan expects or over an edit
\* it has not seen.
LEMMA HomeOnly ==
  ASSUME StepInv, NEW o \in Ops, NEW p \in Paths, Install(o, p) \/ DeleteTarget(o, p)
  PROVE  /\ <<o, p>> \in todo /\ o \in RollForward /\ p \in plan[o].paths
         /\ disk' = [disk EXCEPT ![p] = plan[o].after[p]]
         /\ disk[p] \in {plan[o].before[p], plan[o].after[p], Absent} \/ p \in edited
  <1>1. <<o, p>> \in todo
    BY CallAssumption DEF Install, DeleteTarget, StepInv, TodoInv
  <1>2. /\ o \in RollForward /\ p \in plan[o].paths
        /\ disk[p] \in {plan[o].before[p], plan[o].after[p], Absent} \/ p \in edited
    BY <1>1 DEF StepInv, TodoInv, TargetIsBefore, TargetIsAfter
  <1>3. disk' = [disk EXCEPT ![p] = plan[o].after[p]]
    BY DEF Install, DeleteTarget, IsDelete, StepInv, IInv, TypeOK
  <1> QED
    BY <1>1, <1>2, <1>3

\* A file changes under the protocol only after the point of no return and only to its
\* after state, and bytes that are neither before nor after are written over only if
\* somebody put them there after the call last compared the file (installBytes and
\* deleteTarget, from applyMutationPlanLocked and from recovery alike).
THEOREM RollForwardOnly == Spec => OnlyRollForward
  <1> DEFINE Homeward(p) ==
        pc # "idle" /\ disk'[p] # disk[p] /\ edits' = edits =>
          \E o \in Ops : /\ journal[o] \in {"committing", "committed"}
                         /\ p \in plan[o].paths
                         /\ disk'[p] = plan[o].after[p]
                         /\ disk[p] \in {plan[o].before[p], Absent} \/ p \in edited
  <1>1. ASSUME StepInv, Next, NEW p \in Paths PROVE Homeward(p)
    <2> SUFFICES ASSUME disk'[p] # disk[p], edits' = edits
                 PROVE  \E o \in Ops : /\ journal[o] \in {"committing", "committed"}
                                       /\ p \in plan[o].paths
                                       /\ disk'[p] = plan[o].after[p]
                                       /\ disk[p] \in {plan[o].before[p], Absent} \/ p \in edited
      OBVIOUS
    <2>1. ~ \E q \in Paths : Edit(q)
      BY <1>1 DEF Edit, StepInv, IInv, TypeOK
    <2>2. PICK o \in Ops, q \in Paths : Install(o, q) \/ DeleteTarget(o, q)
      BY <1>1, <2>1, WhoChangesFiles
    <2>3. /\ o \in RollForward /\ q \in plan[o].paths
          /\ disk' = [disk EXCEPT ![q] = plan[o].after[q]]
          /\ disk[q] \in {plan[o].before[q], plan[o].after[q], Absent} \/ q \in edited
      BY <1>1, <2>2, HomeOnly
    <2>4. p = q /\ disk'[p] = plan[o].after[p]
      BY <1>1, <2>3 DEF StepInv, IInv, TypeOK
    <2>5. journal[o] \in {"committing", "committed"}
      BY <1>1, <2>3 DEF RollForward, Live, Outcome, StepInv, IInv, TypeOK
    <2> QED BY <2>3, <2>4, <2>5
  <1>2. StepInv /\ [Next]_vars => [\A p \in Paths : Homeward(p)]_vars
    BY <1>1
  <1> QED
    BY <1>2, StepInductive, PTL DEF Spec, OnlyRollForward

\* A journal is taken away only when its files agree with its outcome: all after for
\* a call that committed, all before for one that did not, but for files edited after
\* the last look at them (cleanupOperation).
THEOREM WholeWhenCleaned == Spec => CleanedOnlyWhenWhole
  <1> DEFINE Whole(o) ==
        journal[o] # "none" /\ journal'[o] = "none" =>
          \A p \in plan[o].paths \ edited :
            IF fate[o] = "committed" THEN TargetIsAfter(o, p) ELSE TargetIsBefore(o, p)
  <1>1. ASSUME StepInv, Next, NEW o \in Ops PROVE Whole(o)
    <2> SUFFICES ASSUME journal[o] # "none", journal'[o] = "none"
                 PROVE  \A p \in plan[o].paths \ edited :
                          IF fate[o] = "committed" THEN TargetIsAfter(o, p)
                                                   ELSE TargetIsBefore(o, p)
      OBVIOUS
    <2> USE DEF targets, names, call, history, faults
    <2>1. pc \in {"clean", "finish"}
      <3>1. ~Fault /\ ~Read
        BY DEF Fault, Read, Interrupt, InterruptArtifact, InterruptTemp
      <3>6. ~Entry
        <4>1. Entry => UNCHANGED journal
          BY DEF Entry, WriteTemp, Install, CheckTarget, DeleteTarget, DeleteChanged
        <4> QED BY <4>1
      <3>2. (~ \E l \in Ops : CreatePlan(l)) /\ (~ \E c \in Ops \cup {Reader} : Acquire(c))
            /\ ~ \E p \in Paths : Edit(p)
        BY DEF CreatePlan, Acquire, Edit
      <3>3. ~Recovery
        <4>1. Recovery => UNCHANGED journal \/ \E l \in Ops : RecoveryMark(l)
          BY DEF Recovery, Preflight, PreflightRefused, Verify, RecoveryGivesUp, CleanOrphan,
                 Recovered, RedoSkip
        <4>2. ~ \E l \in Ops : RecoveryMark(l)
          BY <1>1 DEF RecoveryMark, StepInv, IInv, TypeOK
        <4> QED BY <4>1, <4>2
      <3>4. ~Apply
        BY <1>1 DEF Apply, BeginApply, Decline, Prepare, Staged, CommitMark, StaleAtMark,
                    Settle, Confirm, ApplyConflict, Done, MakeDirectory, WriteArtifact,
                    BackupChanged, StepInv, IInv, TypeOK
      <3>5. Cleanup => pc \in {"clean", "finish"}
        BY DEF Cleanup, CleanTarget, CleanupRefused, CleanArtifacts, RemoveJournal, Cleaning
      <3> QED BY <1>1, <3>1, <3>2, <3>3, <3>4, <3>5, <3>6 DEF Next, Step
    <2>2. o \in Live
      BY DEF Live
    <2> QED BY <1>1, <2>1, <2>2 DEF StepInv, WholeInv, FateInv
  <1>2. StepInv /\ [Next]_vars => [\A o \in Ops : Whole(o)]_vars
    BY <1>1
  <1> QED
    BY <1>2, StepInductive, PTL DEF Spec, CleanedOnlyWhenWhole

-----------------------------------------------------------------------------
(* The refinement: what each step does to the store AtomicApply sees *)

\* The store, without the choice in its definition.
StoreMeans ==
  /\ Store = [p \in Paths |-> Store[p]]
  /\ \A o \in RollForward, p \in Paths : p \in plan[o].paths => Store[p] = plan[o].after[p]
  /\ \A p \in Paths : (\A o \in RollForward : p \notin plan[o].paths) => Store[p] = disk[p]

\* At most one journal, so at most one plan decides what a file will contain.
LEMMA StoreIs == StepInv => StoreMeans
  <1> SUFFICES ASSUME StepInv PROVE StoreMeans
    OBVIOUS
  <1>1. \A o1, o2 \in RollForward : o1 = o2
    BY DEF StepInv, IInv, AtMostOneJournal, RollForward
  <1>2. ASSUME NEW o \in RollForward, NEW p \in Paths, p \in plan[o].paths
        PROVE  Store[p] = plan[o].after[p]
    <2>1. (CHOOSE l \in RollForward : p \in plan[l].paths) \in RollForward
      BY <1>2
    <2>2. (CHOOSE l \in RollForward : p \in plan[l].paths) = o
      BY <1>1, <1>2, <2>1
    <2> QED BY <1>2, <2>2 DEF Store
  <1>3. ASSUME NEW p \in Paths, \A o \in RollForward : p \notin plan[o].paths
        PROVE  Store[p] = disk[p]
    BY <1>3 DEF Store
  <1>4. Store = [p \in Paths |-> Store[p]]
    BY DEF Store
  <1> QED BY <1>2, <1>3, <1>4 DEF StoreMeans

\* The same, after a step.
LEMMA StoreIsNext == StepInv' => StoreMeans'
  BY StoreIs, PTL

\* The store keeps its value while the same plans roll forward and only their own
\* files change.
LEMMA StoreKept ==
  ASSUME StoreMeans, StoreMeans', RollForward' = RollForward,
         \A o \in RollForward : plan'[o] = plan[o],
         \A p \in Paths : \/ disk'[p] = disk[p]
                          \/ \E o \in RollForward : p \in plan[o].paths
  PROVE  Store' = Store
  <1>1. ASSUME NEW p \in Paths PROVE Store'[p] = Store[p]
    <2>1. CASE \E o \in RollForward : p \in plan[o].paths
      BY <2>1 DEF StoreMeans
    <2>2. CASE ~ \E o \in RollForward : p \in plan[o].paths
      BY <2>2 DEF StoreMeans
    <2> QED BY <2>1, <2>2
  <1> QED BY <1>1 DEF StoreMeans

\* In particular when neither files, journals nor plans change.
LEMMA StoreFrame ==
  ASSUME StepInv, StepInv', UNCHANGED <<disk, journal, plan>>
  PROVE  Store' = Store
  <1>1. RollForward' = RollForward
    BY DEF RollForward, Live, Outcome
  <1> QED BY <1>1, StoreIs, StoreIsNext, StoreKept

\* The store holds contents.
StoreTyped == \A p \in Paths : Store[p] \in Contents

\* It does, whether a plan or the disk says what they are.
LEMMA StoreType == StepInv => StoreTyped
  <1> SUFFICES ASSUME StepInv, NEW p \in Paths PROVE Store[p] \in Contents
    BY DEF StoreTyped
  <1>1. CASE \E o \in RollForward : p \in plan[o].paths
    <2>1. PICK o \in RollForward : p \in plan[o].paths
      BY <1>1
    <2>2. o \in Ops
      BY DEF RollForward, Live
    <2> QED BY <2>1, <2>2, StoreIs DEF StoreMeans, StepInv, IInv, TypeOK, PlanType
  <1>2. CASE ~ \E o \in RollForward : p \in plan[o].paths
    BY <1>2, StoreIs DEF StoreMeans, StepInv, IInv, TypeOK
  <1> QED BY <1>1, <1>2

\* The same, after a step.
LEMMA StoreTypeNext == StepInv' => StoreTyped'
  BY StoreType, PTL

\* A step that changes the store at edited files only, or compares some of them.
LEMMA SurfaceStep ==
  ASSUME StepInv, StepInv', UNCHANGED <<plan, fate, seen>>, edited' \subseteq edited,
         \A p \in Paths \ edited : Store'[p] = Store[p]
  PROVE  [Atomic!Next]_(Atomic!vars)
  <1> DEFINE s == [q \in edited |-> Store'[q]]
  <1>1. edited \subseteq Paths
    BY DEF StepInv, IInv, TypeOK
  <1>2. s \in [edited -> Atomic!Contents]
    BY <1>1, StoreTypeNext DEF StoreTyped, Atomic!Contents
  <1>3. Store' = [p \in Paths |-> Store'[p]]
    BY StoreIsNext DEF StoreMeans
  <1>4. Store' = [p \in Paths |-> IF p \in edited THEN s[p] ELSE Store[p]]
    BY <1>3
  <1>5. Atomic!Surface
    BY <1>2, <1>4 DEF Atomic!Surface
  <1> QED BY <1>5 DEF Atomic!Next

\* A call that ends or is cut off before its mark is an abstract rejection; any
\* other is a reader that stops looking, or nothing.
LEMMA LeaveStep ==
  ASSUME StepInv, StepInv', Leave, Reject \/ UNCHANGED fate,
         UNCHANGED <<disk, journal, plan, edited>>
  PROVE  [Atomic!Next]_(Atomic!vars)
  <1>1. Store' = Store /\ seen' = Nobody
    BY StoreFrame DEF Leave
  <1>2. CASE UNCHANGED fate
    BY <1>1, <1>2 DEF Atomic!Next, Atomic!Read
  <1>3. CASE holder \in Ops /\ fate[holder] = "planned"
             /\ fate' = [fate EXCEPT ![holder] = "rejected"]
    <2>1. seen = Nobody
      BY <1>3, CallAssumption DEF StepInv, FateInv
    <2>2. Atomic!Reject(holder)
      BY <1>1, <1>3, <2>1 DEF Atomic!Reject
    <2> QED BY <1>3, <2>2 DEF Atomic!Next
  <1> QED BY <1>2, <1>3 DEF Reject

\* Steps AtomicApply does not see, or sees compare files.
LEMMA SilentStep ==
  ASSUME StepInv, StepInv', UNCHANGED <<disk, journal, plan, fate, seen>>,
         edited' \subseteq edited
  PROVE  [Atomic!Next]_(Atomic!vars)
  BY StoreFrame, SurfaceStep

\* Recovery is invisible; a read takes what the store contains.
LEMMA RecoveryStep ==
  ASSUME StepInv, StepInv', Recovery \/ Read
  PROVE  [Atomic!Next]_(Atomic!vars)
  <1> USE DEF targets, names, call, history, faults
  <1>1. CASE Preflight
    BY <1>1, SilentStep DEF Preflight
  <1>2. CASE PreflightRefused
    BY <1>2, LeaveStep DEF PreflightRefused
  <1>3. CASE Verify
    BY <1>3, SilentStep DEF Verify
  <1>4. CASE CleanOrphan
    BY <1>4, SilentStep DEF CleanOrphan
  <1>5. CASE Recovered
    BY <1>5, SilentStep DEF Recovered
  <1>6. ASSUME NEW o \in Ops, RecoveryMark(o) PROVE [Atomic!Next]_(Atomic!vars)
    <2>1. o \in Live /\ journal' = [journal EXCEPT ![o] = "committed"]
          /\ Outcome(o) = "after" /\ UNCHANGED <<disk, plan, fate, seen>>
          /\ edited' \subseteq edited
      BY <1>6 DEF RecoveryMark, StepInv, IInv, ControlInv
    <2>2. RollForward' = RollForward
      BY <2>1 DEF RollForward, Live, Outcome, StepInv, IInv, TypeOK
    <2>3. Store' = Store
      BY <2>1, <2>2, StoreIs, StoreIsNext, StoreKept
    <2> QED BY <2>1, <2>3, SurfaceStep
  <1>7. ASSUME NEW o \in Ops, NEW p \in Paths, RedoSkip(o, p)
        PROVE [Atomic!Next]_(Atomic!vars)
    BY <1>7, SilentStep DEF RedoSkip
  <1>8. CASE Read
    <2>1. Live = {} /\ seen' = disk /\ UNCHANGED <<disk, journal, plan, fate, edited>>
      BY <1>8 DEF Read, StepInv, IInv, ControlInv
    <2>2. Store = [p \in Paths |-> disk[p]]
      BY <2>1, StoreIs DEF StoreMeans, RollForward
    <2>3. disk = [p \in Paths |-> disk[p]]
      BY DEF StepInv, IInv, TypeOK
    <2>4. Store' = Store
      BY <2>1, StoreFrame
    <2> QED BY <2>1, <2>2, <2>3, <2>4 DEF Atomic!Next, Atomic!Read
  <1>9. CASE RecoveryGivesUp
    BY <1>9, LeaveStep DEF RecoveryGivesUp
  <1> QED
    BY <1>1, <1>2, <1>3, <1>4, <1>5, <1>6, <1>7, <1>8, <1>9 DEF Recovery

\* The mark is the abstract commit: every file of the plan changes at once.
LEMMA MarkIsCommit ==
  ASSUME StepInv, StepInv', CommitMark
  PROVE  Atomic!Commit(holder) /\ holder \in Ops
  <1> USE DEF targets, names
  <1>1. /\ pc = "backups" /\ holder \in Ops /\ Live = {holder} /\ AllBefore(holder)
        /\ journal[holder] = "prepared" /\ fate[holder] = "planned"
    <2>1. pc = "backups"
      BY DEF CommitMark
    <2>2. holder \in Ops /\ Live = {holder} /\ journal[holder] = "prepared"
      BY <2>1 DEF StepInv, IInv, ControlInv
    <2> QED BY <2>1, <2>2 DEF CommitMark, StepInv, FateInv
  <1>2. /\ journal' = [journal EXCEPT ![holder] = "committing"]
        /\ fate' = [fate EXCEPT ![holder] = "committed"]
        /\ edited' = edited \ plan[holder].paths
        /\ UNCHANGED <<disk, plan, seen>>
    BY DEF CommitMark
  <1>3. RollForward = {}
    BY <1>1 DEF RollForward, Outcome
  <1>4. RollForward' = {holder}
    BY <1>1, <1>2 DEF RollForward, Live, Outcome, StepInv, IInv, TypeOK
  <1>5. \A p \in Paths : Store[p] = disk[p]
    BY <1>3, StoreIs DEF StoreMeans
  <1>6. \A p \in Paths : Store'[p] = IF p \in plan[holder].paths THEN plan[holder].after[p]
                                                                 ELSE Store[p]
    BY <1>2, <1>4, <1>5, StoreIsNext DEF StoreMeans
  <1>7. Store' = [p \in Paths |-> IF p \in plan[holder].paths THEN plan[holder].after[p]
                                                              ELSE Store[p]]
    BY <1>6, StoreIsNext DEF StoreMeans
  <1>8. \A p \in plan[holder].paths : Store[p] = plan[holder].before[p]
    BY <1>1, <1>5 DEF AllBefore, TargetIsBefore, StepInv, IInv, TypeOK, PlanType
  <1> QED
    BY <1>1, <1>2, <1>7, <1>8 DEF Atomic!Commit

\* Of the steps of an apply, only the mark changes the store.
LEMMA ApplyStep ==
  ASSUME StepInv, StepInv', Apply
  PROVE  [Atomic!Next]_(Atomic!vars)
  <1> USE DEF targets, names, call, history, faults
  <1>1. CASE BeginApply
    BY <1>1, SilentStep DEF BeginApply
  <1>2. CASE Decline
    BY <1>2, LeaveStep DEF Decline
  <1>3. CASE Prepare
    <2>1. /\ Live = {} /\ holder \in Ops /\ journal' = [journal EXCEPT ![holder] = "prepared"]
          /\ UNCHANGED <<disk, plan, fate, seen, edited>>
      BY <1>3 DEF Prepare, StepInv, IInv, ControlInv
    <2>2. RollForward = {} /\ RollForward' = {}
      BY <2>1 DEF RollForward, Live, Outcome, StepInv, IInv, TypeOK
    <2>3. Store' = Store
      BY <2>1, <2>2, StoreIs, StoreIsNext, StoreKept
    <2> QED BY <2>1, <2>3 DEF Atomic!vars
  <1>4. CASE Staged
    BY <1>4, SilentStep DEF Staged
  <1>5. CASE CommitMark
    BY <1>5, MarkIsCommit DEF Atomic!Next
  <1>6. CASE StaleAtMark
    BY <1>6, LeaveStep DEF StaleAtMark
  <1>7. CASE Settle
    <2>1. /\ pc = "install" /\ holder \in Ops /\ holder \in Live /\ fate[holder] = "committed"
          /\ journal' = [journal EXCEPT ![holder] = "committed"]
          /\ UNCHANGED <<disk, plan, fate, seen>> /\ edited' \subseteq edited
      BY <1>7 DEF Settle, StepInv, IInv, ControlInv, FateInv
    <2>2. Outcome(holder) = "after"
      BY <2>1 DEF StepInv, FateInv
    <2>3. RollForward' = RollForward
      BY <2>1, <2>2 DEF RollForward, Live, Outcome, StepInv, IInv, TypeOK
    <2>4. Store' = Store
      BY <2>1, <2>3, StoreIs, StoreIsNext, StoreKept
    <2> QED BY <2>1, <2>4, SurfaceStep
  <1>8. CASE Done
    BY <1>8, LeaveStep DEF Done
  <1>9. ASSUME NEW k \in Kinds, MakeDirectory(k) PROVE [Atomic!Next]_(Atomic!vars)
    BY <1>9, SilentStep DEF MakeDirectory
  <1>10. ASSUME NEW p \in Paths, WriteArtifact(p) PROVE [Atomic!Next]_(Atomic!vars)
    BY <1>10, SilentStep DEF WriteArtifact
  <1>11. ASSUME NEW p \in Paths, BackupChanged(p) PROVE [Atomic!Next]_(Atomic!vars)
    BY <1>11, LeaveStep DEF BackupChanged
  <1>12. CASE Confirm
    BY <1>12, SilentStep DEF Confirm
  <1>13. CASE ApplyConflict
    BY <1>13, LeaveStep DEF ApplyConflict
  <1> QED
    BY <1>1, <1>2, <1>3, <1>4, <1>5, <1>6, <1>7, <1>8, <1>9, <1>10, <1>11, <1>12, <1>13
    DEF Apply

\* Bringing a file home changes the disk, not the store: it already counted.
LEMMA EntryStep ==
  ASSUME StepInv, StepInv', Entry
  PROVE  [Atomic!Next]_(Atomic!vars)
  <1> USE DEF targets, names, call, history, faults
  <1> PICK o \in Ops, p \in Paths :
             \/ WriteTemp(o, p) \/ Install(o, p) \/ CheckTarget(o, p)
             \/ DeleteTarget(o, p) \/ DeleteChanged(o, p)
    BY DEF Entry
  <1>1. CASE WriteTemp(o, p)
    BY <1>1, SilentStep DEF WriteTemp
  <1>2. CASE Install(o, p) \/ DeleteTarget(o, p)
    <2>1. /\ o \in RollForward /\ p \in plan[o].paths
          /\ disk' = [disk EXCEPT ![p] = plan[o].after[p]]
      BY <1>2, HomeOnly
    <2>2. UNCHANGED <<journal, plan, fate, seen>> /\ edited' \subseteq edited
      BY <1>2 DEF Install, DeleteTarget
    <2>3. \A q \in Paths : disk'[q] = disk[q] \/ q = p
      BY <2>1 DEF StepInv, IInv, TypeOK
    <2>4. RollForward' = RollForward
      BY <2>2 DEF RollForward, Live, Outcome
    <2>5. Store' = Store
      BY <2>1, <2>2, <2>3, <2>4, StoreIs, StoreIsNext, StoreKept
    <2> QED BY <2>2, <2>5, SurfaceStep
  <1>3. CASE CheckTarget(o, p)
    BY <1>3, SilentStep DEF CheckTarget
  <1>4. CASE DeleteChanged(o, p)
    BY <1>4, LeaveStep DEF DeleteChanged
  <1> QED BY <1>1, <1>2, <1>3, <1>4

\* A journal leaves when the disk holds what the store holds; an edit made after the last
\* look at its file, and not before, shows in the store.
LEMMA CleanupStep ==
  ASSUME StepInv, StepInv', Cleanup
  PROVE  [Atomic!Next]_(Atomic!vars)
  <1> USE DEF targets, names, call, history, faults
  <1>1. ASSUME NEW o \in Ops, CleanTarget(o) PROVE [Atomic!Next]_(Atomic!vars)
    BY <1>1, SilentStep DEF CleanTarget
  <1>2. ASSUME NEW o \in Ops, NEW k \in Kinds, CleanArtifacts(o, k)
        PROVE [Atomic!Next]_(Atomic!vars)
    BY <1>2, SilentStep DEF CleanArtifacts
  <1>3. ASSUME NEW o \in Ops, RemoveJournal(o) PROVE [Atomic!Next]_(Atomic!vars)
    <2>1. /\ pc \in {"clean", "finish"} /\ o \in Live
          /\ journal' = [journal EXCEPT ![o] = "none"]
          /\ UNCHANGED <<disk, plan, fate, seen, edited>>
      BY <1>3 DEF RemoveJournal, Cleaning, StepInv, IInv, ControlInv
    <2>2. Live = {o}
      BY <2>1 DEF StepInv, IInv, AtMostOneJournal
    <2>3. RollForward' = {}
      BY <2>1, <2>2 DEF RollForward, Live, StepInv, IInv, TypeOK
    <2>4. \A p \in Paths : Store'[p] = disk[p]
      BY <2>1, <2>3, StoreIsNext DEF StoreMeans
    <2>5. \A p \in Paths \ edited : Store[p] = disk[p]
      <3>1. CASE Outcome(o) = "after"
        <4>1. RollForward = {o} /\ \A p \in plan[o].paths \ edited : TargetIsAfter(o, p)
          BY <2>1, <2>2, <3>1 DEF RollForward, StepInv, WholeInv
        <4> QED BY <2>1, <4>1, StoreIs DEF StoreMeans, TargetIsAfter
      <3>2. CASE Outcome(o) # "after"
        <4>1. RollForward = {}
          BY <2>2, <3>2 DEF RollForward
        <4> QED BY <4>1, StoreIs DEF StoreMeans
      <3> QED BY <3>1, <3>2
    <2> QED BY <2>1, <2>4, <2>5, SurfaceStep
  <1>4. ASSUME NEW o \in Ops, CleanupRefused(o) PROVE [Atomic!Next]_(Atomic!vars)
    BY <1>4, LeaveStep DEF CleanupRefused
  <1> QED
    BY <1>1, <1>2, <1>3, <1>4 DEF Cleanup

\* A plan is created as the abstract plan is; no plan in force changes.
LEMMA CreateStep ==
  ASSUME StepInv, StepInv', NEW o \in Ops, CreatePlan(o)
  PROVE  [Atomic!Next]_(Atomic!vars)
  <1> USE DEF targets, names, call
  <1>1. /\ fate[o] = "new" /\ fate' = [fate EXCEPT ![o] = "planned"]
        /\ UNCHANGED <<disk, journal, seen, edited>>
    BY DEF CreatePlan
  <1>2. \A l \in Ops \ {o} : plan'[l] = plan[l]
    BY DEF CreatePlan, StepInv, IInv, TypeOK
  <1>3. o \notin RollForward
    BY <1>1 DEF RollForward, StepInv, IInv, ControlInv
  <1>4. RollForward' = RollForward
    BY <1>1 DEF RollForward, Live, Outcome
  <1>5. \A l \in RollForward : plan'[l] = plan[l]
    BY <1>2, <1>3 DEF RollForward, Live
  <1>6. Store' = Store
    BY <1>1, <1>4, <1>5, StoreIs, StoreIsNext, StoreKept
  <1>7. PICK m \in Mutations : \E b \in Digests(m) :
          plan' = [plan EXCEPT ![o] = [paths |-> m.paths, before |-> b, after |-> m.after]]
    BY DEF CreatePlan
  <1>8. \E b \in [Paths -> Atomic!Contents] :
          plan' = [plan EXCEPT ![o] = [paths |-> m.paths, before |-> b, after |-> m.after]]
    BY <1>7 DEF Digests, Atomic!Contents
  <1>9. Atomic!Create(o)
    BY <1>1, <1>6, <1>7, <1>8 DEF Atomic!Create
  <1> QED BY <1>9 DEF Atomic!Next

\* An edit of a file is an edit of the store, or one it does not show because a plan in
\* force is going to write over it.
LEMMA EditStep ==
  ASSUME StepInv, StepInv', NEW p \in Paths, Edit(p)
  PROVE  [Atomic!Next]_(Atomic!vars)
  <1> USE DEF names, call
  <1>1. PICK c \in Contents : disk' = [disk EXCEPT ![p] = c]
    BY DEF Edit
  <1>2. UNCHANGED <<journal, plan, fate, seen>> /\ edited' = edited \cup {p}
    BY DEF Edit
  <1>3. RollForward' = RollForward
    BY <1>2 DEF RollForward, Live, Outcome
  <1>4. \A q \in Paths \ {p} : disk'[q] = disk[q]
    BY <1>1 DEF StepInv, IInv, TypeOK
  <1>5. CASE \E o \in RollForward : p \in plan[o].paths
    <2>1. Store' = Store
      BY <1>2, <1>3, <1>4, <1>5, StoreIs, StoreIsNext, StoreKept
    <2>2. Store' = [Store EXCEPT ![p] = Store[p]]
      BY <2>1, StoreIs DEF StoreMeans
    <2>3. Atomic!Edit(p)
      BY <1>2, <2>2, StoreType DEF StoreTyped, Atomic!Edit, Atomic!Contents
    <2> QED BY <2>3 DEF Atomic!Next
  <1>6. CASE ~ \E o \in RollForward : p \in plan[o].paths
    <2>1. Store'[p] = c
      BY <1>1, <1>2, <1>3, <1>6, StoreIsNext DEF StoreMeans, StepInv, IInv, TypeOK
    <2>2. ASSUME NEW q \in Paths \ {p} PROVE Store'[q] = Store[q]
      <3>1. CASE \E o \in RollForward : q \in plan[o].paths
        BY <1>2, <1>3, <3>1, StoreIs, StoreIsNext DEF StoreMeans
      <3>2. CASE ~ \E o \in RollForward : q \in plan[o].paths
        BY <1>2, <1>3, <1>4, <3>2, StoreIs, StoreIsNext DEF StoreMeans
      <3> QED BY <3>1, <3>2
    <2>3. Store' = [Store EXCEPT ![p] = c]
      BY <2>1, <2>2, StoreIs, StoreIsNext DEF StoreMeans
    <2>4. Atomic!Edit(p)
      BY <1>2, <2>3 DEF Atomic!Edit, Atomic!Contents
    <2> QED BY <2>4 DEF Atomic!Next
  <1> QED BY <1>5, <1>6

\* The initial store is the repository as it is found.
LEMMA InitStep == Init => Atomic!Init
  <1> SUFFICES ASSUME Init PROVE Atomic!Init
    OBVIOUS
  <1>1. RollForward = {} /\ disk \in [Paths -> Contents]
    BY InitialAssumption DEF Init, RollForward, Live
  <1>2. Store = [p \in Paths |-> disk[p]]
    BY <1>1, InitStepInv, StoreIs DEF StoreMeans
  <1>3. Store \in Initial
    BY <1>1, <1>2 DEF Init
  <1>4. NoPlan = Atomic!NoPlan
    BY DEF NoPlan, Atomic!NoPlan
  <1> QED BY <1>3, <1>4 DEF Init, Atomic!Init

\* Every step is an abstract step or changes nothing AtomicApply sees.
LEMMA NextStep == StepInv /\ StepInv' /\ [Next]_vars => [Atomic!Next]_(Atomic!vars)
  <1> SUFFICES ASSUME StepInv, StepInv', [Next]_vars PROVE [Atomic!Next]_(Atomic!vars)
    OBVIOUS
  <1> USE DEF targets, names, call, history, faults
  <1>1. CASE UNCHANGED vars
    BY <1>1, SilentStep DEF vars
  <1>2. ASSUME NEW c \in Ops \cup {Reader}, Acquire(c) PROVE [Atomic!Next]_(Atomic!vars)
    BY <1>2, SilentStep DEF Acquire
  <1>3. CASE Fault
    <2>1. Leave /\ Reject /\ UNCHANGED <<disk, journal, plan, edited>>
      BY <1>3 DEF Fault, Interrupt, InterruptArtifact, InterruptTemp, Crash
    <2> QED BY <2>1, LeaveStep
  <1> QED
    BY <1>1, <1>2, <1>3, RecoveryStep, ApplyStep, EntryStep, CleanupStep, CreateStep, EditStep
    DEF Next, Step

\* The journal implements an atomic multi-file compare-and-swap: whatever calls
\* interleave, throw, die and are recovered, and whatever files are edited under
\* them, and when, callers and readers see only what AtomicApply allows.
THEOREM JournalIsAtomic == Spec => AtomicSpec
  <1>1. Spec => []StepInv /\ [][Next]_vars
    BY StepInductive, PTL DEF Spec
  <1> QED
    BY <1>1, InitStep, NextStep, PTL DEF Spec, AtomicSpec, Atomic!Spec

-----------------------------------------------------------------------------
(* Recovery refuses only what was tampered with *)

\* What the state of a journal says of a file of its plan, and recovery takes.
AsExpected(o, p) ==
  \/ journal[o] = "prepared" /\ TargetIsBefore(o, p)
  \/ journal[o] = "committing" /\ \/ TargetIsAfter(o, p) \/ TargetIsBefore(o, p)
                                  \/ disk[p] = Absent /\ ~IsDelete(o, p)
  \/ journal[o] = "committed" /\ (TargetIsAfter(o, p) \/ (IsDelete(o, p) /\ TargetIsBefore(o, p)))

\* A file that nobody edited since it was last looked at is as the journal says, and as it
\* was found when a call starts on its plan.
FilesInv ==
  /\ pc = "mkdir" => \A p \in plan[holder].paths \ edited : TargetIsBefore(holder, p)
  /\ \A o \in Live : \A p \in plan[o].paths \ edited : AsExpected(o, p)

\* What recovery has passed is home.
RedoInv ==
  pc = "redo" => \A o \in RollForward : \A p \in plan[o].paths \ edited :
                   <<o, p>> \notin todo => TargetIsAfter(o, p)

\* Temporaries and tombstones belong to a plan past its point of no return, and a plan
\* that is not there yet has no artifact it does not need.
LeftoversInv ==
  /\ \A o \in Ops, p \in Paths :
       <<o, p>> \in temps \cup partials \cup tombs => o \in RollForward /\ p \in plan[o].paths
  /\ \A o \in Ops, k \in Kinds :
       journal[o] = "prepared" => ArtifactsOf(o, k) \subseteq ExpectedArtifacts(o, k)

\* A journal of which a file was edited, or edited bytes were put aside.
Tampered == \E o \in Live : plan[o].paths \cap edited # {} \/ EntriesOf(o) \cap spoiled # {}

\* Where recovery has refused, and has not been tried again, there is such a journal.
BlockedInv == blocked => pc \in {"idle", "preflight"} /\ Tampered

CalmInv == FilesInv /\ RedoInv /\ LeftoversInv /\ BlockedInv

\* What a step has to leave alone to keep the first, ...
LEMMA FilesFrame ==
  ASSUME TypeOK, FilesInv, OnlyEditsShow, UNCHANGED <<journal, plan>>,
         pc = "mkdir" => holder \in Ops,
         pc' = "mkdir" => pc = "mkdir" /\ holder' = holder
  PROVE  FilesInv'
  <1>1. Live' = Live /\ Live \subseteq Ops
    BY DEF Live
  <1>2. ASSUME NEW o \in Ops, NEW p \in plan[o].paths \ edited'
        PROVE  /\ p \notin edited
               /\ AsExpected(o, p) => AsExpected(o, p)'
               /\ TargetIsBefore(o, p) => TargetIsBefore(o, p)'
    <2>1. p \in Paths
      BY <1>2, PlanPaths
    <2> QED BY <1>2, <2>1 DEF OnlyEditsShow, AsExpected, IsDelete, TargetIsBefore, TargetIsAfter
  <1> QED BY <1>1, <1>2 DEF FilesInv

\* ... the second, ...
LEMMA RedoFrame ==
  ASSUME TypeOK, RedoInv, OnlyEditsShow, UNCHANGED <<journal, plan>>,
         pc' = "redo" => pc = "redo" /\ todo \subseteq todo'
  PROVE  RedoInv'
  <1>1. RollForward' = RollForward /\ RollForward \subseteq Ops
    BY DEF RollForward, Live, Outcome
  <1> QED BY <1>1, PlanPaths DEF RedoInv, OnlyEditsShow, TargetIsAfter

\* ... the third, ...
LEMMA LeftoversFrame ==
  ASSUME LeftoversInv, UNCHANGED <<journal, plan>>, files' \subseteq files,
         temps' \cup partials' \cup tombs' \subseteq temps \cup partials \cup tombs
  PROVE  LeftoversInv'
  <1>1. RollForward' = RollForward
    BY DEF RollForward, Live, Outcome
  <1> QED BY <1>1 DEF LeftoversInv, ArtifactsOf, ExpectedArtifacts

\* ... and the fourth.
LEMMA BlockedFrame ==
  ASSUME BlockedInv, blocked' => blocked, UNCHANGED <<journal, spoiled>>,
         edited \subseteq edited', \A o \in Live : plan'[o] = plan[o],
         pc \in {"idle", "preflight"} => pc' \in {"idle", "preflight"}
  PROVE  BlockedInv'
  <1>1. Live' = Live
    BY DEF Live
  <1> QED BY <1>1 DEF BlockedInv, Tampered, EntriesOf

\* A call at work has not been refused.
LEMMA NotBlocked ==
  ASSUME BlockedInv, pc \notin {"idle", "preflight"}, blocked' = blocked
  PROVE  BlockedInv'
  BY DEF BlockedInv

\* Steps between two looks at the files that take nothing but artifacts and temporaries away.
LEMMA CalmFrame ==
  ASSUME StepInv, CalmInv, UNCHANGED <<disk, journal, plan, spoiled, edited, blocked>>,
         files' \subseteq files,
         temps' \cup partials' \cup tombs' \subseteq temps \cup partials \cup tombs,
         pc' = "mkdir" => pc = "mkdir" /\ holder' = holder,
         pc' = "redo" => pc = "redo" /\ todo' = todo,
         pc \in {"idle", "preflight"} => pc' \in {"idle", "preflight"}
  PROVE  CalmInv'
  <1>1. TypeOK /\ (pc = "mkdir" => holder \in Ops)
    BY DEF StepInv, IInv, ControlInv
  <1>2. OnlyEditsShow
    BY DEF OnlyEditsShow
  <1> QED BY <1>1, <1>2, FilesFrame, RedoFrame, LeftoversFrame, BlockedFrame DEF CalmInv

\* A call that refuses or fails, over a journal that was tampered with.
LEMMA CalmRefusal ==
  ASSUME StepInv, CalmInv, UNCHANGED <<disk, journal, plan, edited, files, temps, tombs>>,
         partials' \subseteq partials, pc' = "idle", spoiled \subseteq spoiled',
         blocked' => Tampered
  PROVE  CalmInv'
  <1>1. TypeOK /\ (pc = "mkdir" => holder \in Ops)
    BY DEF StepInv, IInv, ControlInv
  <1>2. OnlyEditsShow
    BY DEF OnlyEditsShow
  <1>3. FilesInv' /\ RedoInv' /\ LeftoversInv'
    BY <1>1, <1>2, FilesFrame, RedoFrame, LeftoversFrame DEF CalmInv
  <1>4. BlockedInv'
    BY DEF BlockedInv, Tampered, Live, EntriesOf
  <1> QED BY <1>3, <1>4 DEF CalmInv

\* A journal nobody tampered with passes preflight.
LEMMA UntouchedPasses ==
  ASSUME StepInv, CalmInv, ~Tampered
  PROVE  (\A o \in Live : Recoverable(o)) /\ CompatibleRecovery
  <1>1. CompatibleRecovery
    BY DEF CompatibleRecovery, StepInv, IInv, AtMostOneJournal
  <1>2. ASSUME NEW o \in Live PROVE Recoverable(o)
    <2>1. journal[o] \in {"prepared", "committing", "committed"} /\ o \in Ops
      BY DEF Live, StepInv, IInv, TypeOK
    <2>2. spoiled \cap EntriesOf(o) = {} /\ \A p \in plan[o].paths : AsExpected(o, p)
      BY <1>2 DEF Tampered, CalmInv, FilesInv
    <2>3. ASSUME journal[o] = "prepared" PROVE PreparedIsRecoverable(o)
      <3>1. o \notin RollForward
        BY <2>3 DEF RollForward, Outcome
      <3>2. (temps \cup partials \cup tombs) \cap EntriesOf(o) = {}
        <4>1. EntriesOf(o) \subseteq {o} \X Paths
          BY <2>1 DEF EntriesOf, StepInv, IInv, TypeOK, PlanType
        <4> QED BY <2>1, <3>1, <4>1 DEF CalmInv, LeftoversInv
      <3>3. AllBefore(o)
        BY <2>2, <2>3 DEF AllBefore, AsExpected
      <3> QED BY <2>1, <2>2, <2>3, <3>2, <3>3 DEF PreparedIsRecoverable, CalmInv, LeftoversInv
    <2>4. ASSUME journal[o] = "committing" PROVE CommittingIsRecoverable(o)
      BY <2>1, <2>2, <2>4
      DEF CommittingIsRecoverable, AsExpected, StepInv, IInv, CommitIsPrepared
    <2>5. ASSUME journal[o] = "committed" PROVE CommittedIsRecoverable(o)
      BY <2>2, <2>5 DEF CommittedIsRecoverable, AsExpected
    <2> QED BY <2>1, <2>3, <2>4, <2>5 DEF Recoverable
  <1> QED BY <1>1, <1>2

\* Preflight has looked at every file of every journal.
LEMMA PreflightCalm ==
  ASSUME StepInv, CalmInv, Preflight
  PROVE  CalmInv'
  <1> USE DEF names
  <1>1. /\ UNCHANGED <<disk, journal, plan, spoiled, files, temps, tombs>>
        /\ partials' \subseteq partials /\ ~blocked' /\ pc' = "redo"
        /\ todo' = UNION {EntriesOf(o) : o \in RollForward}
        /\ edited' = edited \ UNION {plan[o].paths : o \in Live}
        /\ \A o \in Live : Recoverable(o)
    BY DEF Preflight
  <1>2. ASSUME NEW o \in Live, NEW p \in plan[o].paths PROVE AsExpected(o, p)
    <2>1. journal[o] \in {"prepared", "committing", "committed"} /\ Recoverable(o)
      BY <1>1 DEF Live, StepInv, IInv, TypeOK
    <2> QED BY <2>1 DEF Recoverable, PreparedIsRecoverable, CommittingIsRecoverable,
                        CommittedIsRecoverable, AllBefore, AsExpected
  <1>3. FilesInv'
    BY <1>1, <1>2 DEF FilesInv, Live, AsExpected, IsDelete, TargetIsBefore, TargetIsAfter
  <1>4. RedoInv'
    BY <1>1 DEF RedoInv, RollForward, Live, Outcome, EntriesOf
  <1>5. LeftoversInv'
    BY <1>1, LeftoversFrame DEF CalmInv
  <1>6. BlockedInv'
    BY <1>1 DEF BlockedInv
  <1> QED BY <1>3, <1>4, <1>5, <1>6 DEF CalmInv

\* Recovery gives up only where a file was edited after preflight.
LEMMA GivesUpTampered ==
  ASSUME StepInv, CalmInv, RecoveryGivesUp
  PROVE  Tampered
  <1>1. pc = "redo" /\ Live = work
    BY DEF RecoveryGivesUp, StepInv, IInv, ControlInv
  <1>2. ASSUME NEW o \in Live, NEW p \in plan[o].paths, p \in edited PROVE Tampered
    BY <1>2 DEF Tampered
  <1>3. ASSUME NEW o \in work, Outcome(o) = "after", EntriesOf(o) \cap todo = {}, ~AllAfter(o)
        PROVE  Tampered
    <2>1. PICK p \in plan[o].paths : ~TargetIsAfter(o, p)
      BY <1>3 DEF AllAfter
    <2>2. o \in RollForward /\ <<o, p>> \notin todo
      BY <1>1, <1>3, <2>1 DEF RollForward, EntriesOf
    <2>3. p \in edited
      BY <1>1, <2>1, <2>2 DEF CalmInv, RedoInv
    <2> QED BY <1>1, <1>2, <1>3, <2>1, <2>3
  <1>4. ASSUME NEW o \in work, Outcome(o) = "before", ~AllBefore(o)
        PROVE  Tampered
    <2>1. PICK p \in plan[o].paths : ~TargetIsBefore(o, p)
      BY <1>4 DEF AllBefore
    <2>2. journal[o] = "prepared"
      BY <1>4 DEF Outcome
    <2>3. p \in edited
      BY <1>1, <2>1, <2>2 DEF CalmInv, FilesInv, AsExpected
    <2> QED BY <1>1, <1>2, <1>4, <2>1, <2>3
  <1>5. ASSUME NEW e \in todo, ~TargetIsAfter(e[1], e[2]), ~IsDelete(e[1], e[2]),
               <<e[1], "staging", e[2]>> \notin files
        PROVE  Tampered
    <2>1. PICK o \in Ops, p \in Paths : e = <<o, p>>
      BY <1>5 DEF StepInv, IInv, TypeOK
    <2>2. o \in RollForward /\ o \in Live /\ p \in plan[o].paths
      BY <1>5, <2>1 DEF StepInv, TodoInv, RollForward
    <2>3. ~TargetIsAfter(o, p) /\ ~IsDelete(o, p) /\ <<o, "staging", p>> \notin files
      BY <1>5, <2>1
    <2>4. journal[o] = "committed"
      <3>1. journal[o] \in {"committing", "committed"}
        BY <2>2 DEF RollForward, Outcome, Live, StepInv, IInv, TypeOK
      <3>2. ASSUME journal[o] = "committing" PROVE FALSE
        <4>1. ArtifactsOf(o, "staging") = ExpectedArtifacts(o, "staging")
          BY <2>1, <3>2 DEF StepInv, IInv, CommitIsPrepared
        <4> QED BY <2>2, <2>3, <4>1 DEF ArtifactsOf, ExpectedArtifacts, IsDelete
      <3> QED BY <3>1, <3>2
    <2>5. p \in edited
      BY <2>2, <2>3, <2>4 DEF CalmInv, FilesInv, AsExpected
    <2> QED BY <1>2, <2>2, <2>5
  <1> QED BY <1>3, <1>4, <1>5 DEF RecoveryGivesUp

\* The steps of recovery and a read keep CalmInv.
LEMMA RecoveryCalm ==
  ASSUME StepInv, CalmInv, Recovery \/ Read
  PROVE  CalmInv'
  <1> USE DEF targets, names, call, history, faults
  <1>1. CASE Preflight
    BY <1>1, PreflightCalm
  <1>2. CASE PreflightRefused
    <2>1. Tampered
      BY <1>2, UntouchedPasses DEF PreflightRefused
    <2>2. /\ UNCHANGED <<disk, journal, plan, edited, files, temps, tombs, spoiled>>
          /\ partials' \subseteq partials /\ pc' = "idle"
      BY <1>2 DEF PreflightRefused, Leave
    <2> QED BY <2>1, <2>2, CalmRefusal
  <1>3. CASE Verify
    <2>1. /\ UNCHANGED <<disk, journal, plan, spoiled, files, temps, partials, tombs, blocked>>
          /\ pc = "redo" /\ pc' = "clean" /\ Live = work
          /\ edited' = edited \ UNION {plan[o].paths : o \in work}
      BY <1>3 DEF Verify, StepInv, IInv, ControlInv
    <2>2. \A o \in Live : \A p \in plan[o].paths : AsExpected(o, p)
      <3> TAKE o \in Live
      <3>1. \/ journal[o] = "prepared" /\ AllBefore(o)
            \/ journal[o] = "committed" /\ AllAfter(o)
        <4>1. o \in work
          BY <2>1
        <4> QED BY <1>3, <4>1 DEF Verify, Outcome
      <3> QED BY <3>1 DEF AllBefore, AllAfter, AsExpected
    <2>3. FilesInv'
      BY <2>1, <2>2 DEF FilesInv, Live, AsExpected, IsDelete, TargetIsBefore, TargetIsAfter
    <2> QED BY <2>1, <2>3, LeftoversFrame, NotBlocked DEF CalmInv, RedoInv
  <1>4. CASE CleanOrphan
    <2>1. /\ UNCHANGED <<disk, journal, plan, spoiled, edited, temps, partials, tombs, blocked,
                         pc, holder, todo>>
          /\ files' \subseteq files
      BY <1>4 DEF CleanOrphan
    <2> QED BY <2>1, CalmFrame
  <1>5. CASE Recovered
    BY <1>5, CalmFrame DEF Recovered
  <1>6. ASSUME NEW o \in Ops, RecoveryMark(o) PROVE CalmInv'
    <2>1. /\ pc = "redo" /\ Outcome(o) = "after" /\ o \in Live /\ AllAfter(o)
          /\ journal' = [journal EXCEPT ![o] = "committed"]
          /\ edited' = edited \ plan[o].paths
          /\ UNCHANGED <<targets, names, pc, holder, todo, plan, blocked>>
      BY <1>6 DEF RecoveryMark, StepInv, IInv, ControlInv
    <2>2. Live = {o} /\ Live' = {o} /\ journal'[o] = "committed"
      BY <2>1 DEF Live, StepInv, IInv, TypeOK, AtMostOneJournal
    <2>3. RollForward' = RollForward /\ RollForward = {o}
      BY <2>1, <2>2 DEF RollForward, Outcome
    <2>4. LeftoversInv'
      BY <2>1, <2>2, <2>3 DEF CalmInv, LeftoversInv, ArtifactsOf, ExpectedArtifacts, Live
    <2>5. FilesInv' /\ RedoInv'
      BY <2>1, <2>2, <2>3 DEF FilesInv, RedoInv, AllAfter, AsExpected, TargetIsAfter
    <2> QED BY <2>1, <2>4, <2>5, NotBlocked DEF CalmInv
  <1>7. ASSUME NEW o \in Ops, NEW p \in Paths, RedoSkip(o, p) PROVE CalmInv'
    <2>1. /\ pc = "redo" /\ todo' = todo \ {<<o, p>>} /\ edited' = edited \ {p}
          /\ TargetIsAfter(o, p) /\ <<o, p>> \in todo
          /\ UNCHANGED <<targets, journal, names, holder, pc, plan, blocked>>
      BY <1>7 DEF RedoSkip
    <2>2. o \in RollForward /\ \A l \in Live : l = o
      BY <2>1 DEF StepInv, TodoInv, RollForward, IInv, AtMostOneJournal
    <2>3. FilesInv'
      BY <2>1, <2>2 DEF CalmInv, FilesInv, RollForward, Live, Outcome, AsExpected, IsDelete,
                        TargetIsAfter, TargetIsBefore, StepInv, IInv, TypeOK
    <2>4. RedoInv'
      BY <2>1, <2>2 DEF CalmInv, RedoInv, RollForward, Live, Outcome, TargetIsAfter
    <2> QED BY <2>1, <2>3, <2>4, LeftoversFrame, NotBlocked DEF CalmInv
  <1>8. CASE Read
    BY <1>8, CalmFrame DEF Read
  <1>9. CASE RecoveryGivesUp
    <2>1. /\ UNCHANGED <<disk, journal, plan, edited, files, temps, tombs, partials, spoiled>>
          /\ pc' = "idle"
      BY <1>9 DEF RecoveryGivesUp, Leave
    <2> QED BY <1>9, <2>1, GivesUpTampered, CalmRefusal
  <1> QED
    BY <1>1, <1>2, <1>3, <1>4, <1>5, <1>6, <1>7, <1>8, <1>9 DEF Recovery

\* Applying a plan keeps it: the marker is written, and cleanup begins, over files that have
\* just been looked at.
LEMMA ApplyCalm ==
  ASSUME StepInv, CalmInv, Apply
  PROVE  CalmInv'
  <1> USE DEF targets, names, call, history, faults
  <1>1. CASE BeginApply
    <2>1. /\ UNCHANGED <<disk, journal, plan, spoiled, files, temps, partials, tombs, blocked,
                         holder>>
          /\ pc = "recovered" /\ pc' = "mkdir" /\ Live = {} /\ AllBefore(holder)
      BY <1>1 DEF BeginApply, StepInv, IInv, ControlInv
    <2>2. Live' = {}
      BY <2>1 DEF Live
    <2>3. FilesInv' /\ RedoInv'
      BY <2>1, <2>2 DEF FilesInv, RedoInv, AllBefore, TargetIsBefore
    <2> QED BY <2>1, <2>3, LeftoversFrame, NotBlocked DEF CalmInv
  <1>2. CASE Decline
    <2>1. ~blocked
      BY <1>2 DEF Decline, CalmInv, BlockedInv
    <2> QED BY <1>2, <2>1, CalmRefusal DEF Decline, Leave
  <1>3. CASE Prepare
    <2>1. /\ Live = {} /\ holder \in Ops /\ pc = "mkdir" /\ pc' = "staging" /\ files = {}
          /\ journal' = [journal EXCEPT ![holder] = "prepared"]
          /\ UNCHANGED <<disk, plan, spoiled, edited, files, temps, partials, tombs, blocked,
                         holder>>
      BY <1>3 DEF Prepare, StepInv, IInv, ControlInv, ArtifactInv
    <2>2. journal'[holder] = "prepared" /\ \A l \in Ops \ {holder} : journal'[l] = "none"
      BY <2>1 DEF StepInv, IInv, TypeOK, Live
    <2>3. RollForward = {}
      BY <2>1 DEF RollForward
    <2>4. LeftoversInv'
      BY <2>1, <2>2, <2>3 DEF CalmInv, LeftoversInv, ArtifactsOf
    <2>5. FilesInv' /\ RedoInv'
      BY <2>1, <2>2 DEF CalmInv, FilesInv, RedoInv, Live, AsExpected, TargetIsBefore
    <2> QED BY <2>1, <2>4, <2>5, NotBlocked DEF CalmInv
  <1>4. CASE Staged
    BY <1>4, CalmFrame DEF Staged
  <1>5. CASE CommitMark
    <2>1. /\ Live = {holder} /\ holder \in Ops /\ AllBefore(holder) /\ pc = "backups"
          /\ journal[holder] = "prepared" /\ journal' = [journal EXCEPT ![holder] = "committing"]
          /\ pc' = "install"
          /\ UNCHANGED <<disk, plan, spoiled, files, temps, partials, tombs, blocked>>
      <3>1. pc = "backups"
        BY <1>5 DEF CommitMark
      <3> QED BY <1>5, <3>1 DEF CommitMark, StepInv, IInv, ControlInv
    <2>2. journal'[holder] = "committing" /\ \A l \in Ops \ {holder} : journal'[l] = "none"
      BY <2>1 DEF StepInv, IInv, TypeOK, Live
    <2>3. RollForward = {}
      BY <2>1 DEF RollForward, Outcome
    <2>4. LeftoversInv'
      BY <2>1, <2>2, <2>3 DEF CalmInv, LeftoversInv
    <2>5. FilesInv' /\ RedoInv'
      BY <2>1, <2>2 DEF FilesInv, RedoInv, Live, AllBefore, AsExpected, TargetIsBefore
    <2> QED BY <2>1, <2>4, <2>5, NotBlocked DEF CalmInv
  <1>6. CASE StaleAtMark
    <2>1. ~blocked
      BY <1>6 DEF StaleAtMark, CalmInv, BlockedInv
    <2> QED BY <1>6, <2>1, CalmRefusal DEF StaleAtMark, Leave
  <1>7. CASE Settle
    <2>1. /\ Live = {holder} /\ holder \in Ops /\ AllAfter(holder)
          /\ pc = "install" /\ pc' = "settled"
          /\ journal' = [journal EXCEPT ![holder] = "committed"]
          /\ UNCHANGED <<disk, plan, spoiled, files, temps, partials, tombs, blocked>>
      BY <1>7 DEF Settle, StepInv, IInv, ControlInv
    <2>2. journal'[holder] = "committed" /\ \A l \in Ops \ {holder} : journal'[l] = "none"
      BY <2>1 DEF StepInv, IInv, TypeOK, Live
    <2>3. RollForward \subseteq RollForward'
      BY <2>1, <2>2 DEF RollForward, Live, Outcome
    <2>4. LeftoversInv'
      BY <2>1, <2>2, <2>3 DEF CalmInv, LeftoversInv
    <2>5. FilesInv' /\ RedoInv'
      BY <2>1, <2>2 DEF FilesInv, RedoInv, Live, AllAfter, AsExpected, TargetIsAfter
    <2> QED BY <2>1, <2>4, <2>5, NotBlocked DEF CalmInv
  <1>8. CASE Done
    <2>1. ~blocked
      BY <1>8 DEF Done, CalmInv, BlockedInv
    <2> QED BY <1>8, <2>1, CalmRefusal DEF Done, Leave
  <1>9. ASSUME NEW k \in Kinds, MakeDirectory(k) PROVE CalmInv'
    BY <1>9, CalmFrame DEF MakeDirectory
  <1>10. ASSUME NEW p \in Paths, WriteArtifact(p) PROVE CalmInv'
    <2>1. /\ UNCHANGED <<disk, journal, plan, spoiled, edited, temps, partials, tombs, blocked,
                         holder, pc>>
          /\ files' = files \cup {<<holder, pc, p>>} /\ p \in ExpectedArtifacts(holder, pc)
          /\ pc \in Kinds
      BY <1>10 DEF WriteArtifact, Missing
    <2>2. RollForward' = RollForward
      BY <2>1 DEF RollForward, Live, Outcome
    <2>3. ASSUME NEW o \in Ops, NEW k \in Kinds, journal[o] = "prepared"
          PROVE  ArtifactsOf(o, k)' \subseteq ExpectedArtifacts(o, k)'
      BY <2>1, <2>3 DEF CalmInv, LeftoversInv, ArtifactsOf, ExpectedArtifacts
    <2>4. LeftoversInv'
      BY <2>1, <2>2, <2>3 DEF CalmInv, LeftoversInv
    <2>5. FilesInv' /\ RedoInv'
      BY <2>1 DEF CalmInv, FilesInv, RedoInv, Live, AsExpected, IsDelete, TargetIsBefore,
                  TargetIsAfter
    <2> QED BY <2>1, <2>4, <2>5, NotBlocked DEF CalmInv
  <1>11. ASSUME NEW p \in Paths, BackupChanged(p) PROVE CalmInv'
    <2>1. /\ UNCHANGED <<disk, journal, plan, edited, files, temps, partials, tombs, blocked>>
          /\ spoiled \subseteq spoiled' /\ pc' = "idle" /\ ~blocked
      BY <1>11 DEF BackupChanged, Leave, CalmInv, BlockedInv
    <2> QED BY <2>1, CalmRefusal
  <1>12. CASE Confirm
    <2>1. /\ UNCHANGED <<disk, journal, plan, spoiled, files, temps, partials, tombs, blocked>>
          /\ pc = "settled" /\ pc' = "finish" /\ Live = {holder} /\ journal[holder] = "committed"
          /\ AllAfter(holder)
      <3>1. pc = "settled" /\ Live = {holder} /\ journal[holder] # "committing"
        BY <1>12 DEF Confirm, StepInv, IInv, ControlInv
      <3>2. Outcome(holder) = "after" /\ holder \in Live
        BY <3>1 DEF StepInv, FateInv
      <3>3. journal[holder] = "committed"
        BY <3>1, <3>2 DEF Outcome, Live, StepInv, IInv, TypeOK
      <3> QED BY <1>12, <3>1, <3>3 DEF Confirm
    <2>2. FilesInv' /\ RedoInv'
      BY <2>1 DEF FilesInv, RedoInv, Live, AllAfter, AsExpected, TargetIsAfter
    <2> QED BY <2>1, <2>2, LeftoversFrame, NotBlocked DEF CalmInv
  <1>13. CASE ApplyConflict
    <2>1. ~blocked
      BY <1>13 DEF ApplyConflict, CalmInv, BlockedInv
    <2> QED BY <1>13, <2>1, CalmRefusal DEF ApplyConflict, Leave
  <1> QED
    BY <1>1, <1>2, <1>3, <1>4, <1>5, <1>6, <1>7, <1>8, <1>9, <1>10, <1>11, <1>12, <1>13
    DEF Apply

\* A file on its way home goes to its after state.
LEMMA EntryCalm ==
  ASSUME StepInv, CalmInv, Entry
  PROVE  CalmInv'
  <1> USE DEF targets, names, call, history, faults
  <1>1. ASSUME NEW o \in Ops, NEW p \in Paths, WriteTemp(o, p) PROVE CalmInv'
    <2>1. /\ UNCHANGED <<disk, journal, plan, spoiled, edited, files, tombs, blocked, holder, pc,
                         todo>>
          /\ temps' \cup partials' \subseteq temps \cup partials \cup {<<o, p>>}
          /\ <<o, p>> \in todo /\ pc \in {"redo", "install"}
      BY <1>1 DEF WriteTemp, Pending
    <2>2. o \in RollForward /\ p \in plan[o].paths
      BY <2>1 DEF StepInv, TodoInv
    <2>3. RollForward' = RollForward
      BY <2>1 DEF RollForward, Live, Outcome
    <2>4. LeftoversInv'
      BY <2>1, <2>2, <2>3 DEF CalmInv, LeftoversInv, ArtifactsOf, ExpectedArtifacts
    <2>5. FilesInv' /\ RedoInv'
      BY <2>1, <2>3 DEF CalmInv, FilesInv, RedoInv, Live, AsExpected, IsDelete, TargetIsBefore,
                        TargetIsAfter
    <2> QED BY <2>1, <2>4, <2>5, NotBlocked DEF CalmInv
  <1>2. ASSUME NEW o \in Ops, NEW p \in Paths, Install(o, p) \/ DeleteTarget(o, p) PROVE CalmInv'
    <2>1. <<o, p>> \in todo /\ o \in RollForward /\ p \in plan[o].paths
      BY <1>2, HomeOnly
    <2>2. /\ UNCHANGED <<journal, plan, files, blocked, holder, pc>>
          /\ temps' \cup partials' \cup tombs' \subseteq temps \cup partials \cup tombs \cup {<<o, p>>}
          /\ todo' = todo \ {<<o, p>>} /\ edited \subseteq edited' \cup {p}
      BY <1>2 DEF Install, DeleteTarget
    <2>3. disk'[p] = plan[o].after[p] /\ \A q \in Paths \ {p} : disk'[q] = disk[q]
      <3>1. disk' = [disk EXCEPT ![p] = plan[o].after[p]]
        BY <1>2, HomeOnly
      <3> QED BY <3>1 DEF StepInv, IInv, TypeOK
    <2>4. RollForward' = RollForward /\ Live' = Live /\ \A l \in Live : l = o
      BY <2>1, <2>2 DEF RollForward, Live, Outcome, StepInv, IInv, AtMostOneJournal
    <2>5. LeftoversInv'
      BY <2>1, <2>2, <2>4 DEF CalmInv, LeftoversInv, ArtifactsOf, ExpectedArtifacts
    <2>6. pc \in {"redo", "install"} /\ journal[o] \in {"committing", "committed"}
      BY <2>1 DEF StepInv, TodoInv, Repairing, RollForward, Live, Outcome, IInv, TypeOK
    <2>7. ASSUME NEW q \in plan[o].paths
          PROVE  /\ TargetIsAfter(o, p)'
                 /\ q # p => /\ TargetIsAfter(o, q)' <=> TargetIsAfter(o, q)
                             /\ AsExpected(o, q)' <=> AsExpected(o, q)
                             /\ q \in edited => q \in edited'
                             /\ <<o, q>> \notin todo' => <<o, q>> \notin todo
      <3>1. q \in Paths
        BY <2>1, PlanPaths DEF RollForward, Live, StepInv, IInv
      <3> QED BY <2>2, <2>3, <3>1 DEF TargetIsAfter, TargetIsBefore, AsExpected, IsDelete
    <2>8. FilesInv'
      <3>1. TargetIsAfter(o, p)' => AsExpected(o, p)'
        BY <2>2, <2>6 DEF AsExpected
      <3> QED BY <2>2, <2>4, <2>6, <2>7, <3>1 DEF CalmInv, FilesInv
    <2>9. RedoInv'
      <3>1. RollForward = {o}
        BY <2>1, <2>4 DEF RollForward
      <3> QED BY <2>2, <2>4, <2>7, <3>1 DEF CalmInv, RedoInv
    <2> QED BY <2>2, <2>5, <2>6, <2>8, <2>9, NotBlocked DEF CalmInv
  <1>3. ASSUME NEW o \in Ops, NEW p \in Paths, CheckTarget(o, p) PROVE CalmInv'
    <2>1. /\ UNCHANGED <<disk, journal, plan, spoiled, files, temps, partials, tombs, blocked,
                         holder, pc>>
          /\ edited' = edited \ {p} /\ pc \in {"redo", "install"} /\ <<o, p>> \in todo
          /\ IsDelete(o, p)
      BY <1>3 DEF CheckTarget, Pending
    <2>2. \/ todo' = todo \ {<<o, p>>} /\ TargetIsAfter(o, p)
          \/ todo' = todo /\ TargetIsBefore(o, p)
      BY <1>3, <2>1 DEF CheckTarget, IsDelete, TargetIsAfter
    <2>3. o \in RollForward /\ \A l \in Live : l = o
      BY <2>1 DEF StepInv, TodoInv, RollForward, IInv, AtMostOneJournal
    <2>4. RollForward' = RollForward /\ Live' = Live
      BY <2>1 DEF RollForward, Live, Outcome
    <2>5. journal[o] \in {"committing", "committed"}
      BY <2>3 DEF RollForward, Live, Outcome, StepInv, IInv, TypeOK
    <2>6. AsExpected(o, p)
      BY <2>1, <2>2, <2>5 DEF AsExpected
    <2>7. \A l \in Ops, q \in Paths : AsExpected(l, q)' <=> AsExpected(l, q)
      BY <2>1 DEF AsExpected, IsDelete, TargetIsAfter, TargetIsBefore
    <2>8. FilesInv'
      <3>1. \A q \in plan[o].paths : q \in Paths
        BY <2>3, PlanPaths DEF RollForward, Live, StepInv, IInv
      <3>2. \A l \in Live : l = o /\ l \in Ops
        BY <2>3 DEF Live
      <3> QED BY <2>1, <2>4, <2>6, <2>7, <3>1, <3>2 DEF CalmInv, FilesInv
    <2>9. RedoInv'
      <3>1. \A l \in RollForward : l = o
        BY <2>3 DEF RollForward
      <3> QED BY <2>1, <2>2, <2>4, <3>1 DEF CalmInv, RedoInv, TargetIsAfter
    <2> QED BY <2>1, <2>8, <2>9, LeftoversFrame, NotBlocked DEF CalmInv
  <1>4. ASSUME NEW o \in Ops, NEW p \in Paths, DeleteChanged(o, p) PROVE CalmInv'
    <2>1. /\ UNCHANGED <<disk, journal, plan, edited, files, temps, tombs, partials, spoiled>>
          /\ pc' = "idle" /\ pc \in {"redo", "install"} /\ <<o, p>> \in todo
          /\ IsDelete(o, p) /\ disk[p] # Absent /\ ~TargetIsBefore(o, p)
      BY <1>4 DEF DeleteChanged, Pending, Leave
    <2>2. o \in RollForward /\ o \in Live /\ p \in plan[o].paths
      BY <2>1 DEF StepInv, TodoInv, RollForward
    <2>3. ~AsExpected(o, p)
      BY <2>1, <2>2 DEF AsExpected, IsDelete, TargetIsAfter
    <2>4. Tampered
      BY <2>2, <2>3 DEF CalmInv, FilesInv, Tampered
    <2> QED BY <2>1, <2>4, CalmRefusal
  <1> QED BY <1>1, <1>2, <1>3, <1>4 DEF Entry

\* Cleanup refuses over a tombstone with edited bytes, which was spoiled.
LEMMA CleanupCalm ==
  ASSUME StepInv, CalmInv, Cleanup
  PROVE  CalmInv'
  <1> USE DEF targets, names, call, history, faults
  <1>1. ASSUME NEW o \in Ops, CleanTarget(o) PROVE CalmInv'
    <2>1. /\ UNCHANGED <<disk, journal, plan, spoiled, edited, files, blocked, holder, pc, todo>>
          /\ temps' \cup partials' \cup tombs' \subseteq temps \cup partials \cup tombs
      BY <1>1 DEF CleanTarget
    <2> QED BY <2>1, CalmFrame
  <1>2. ASSUME NEW o \in Ops, NEW k \in Kinds, CleanArtifacts(o, k) PROVE CalmInv'
    <2>1. /\ UNCHANGED <<disk, journal, plan, spoiled, edited, temps, partials, tombs, blocked,
                         holder, pc, todo>>
          /\ files' \subseteq files
      BY <1>2 DEF CleanArtifacts
    <2> QED BY <2>1, CalmFrame
  <1>3. ASSUME NEW o \in Ops, RemoveJournal(o) PROVE CalmInv'
    <2>1. /\ journal' = [journal EXCEPT ![o] = "none"] /\ pc \in {"clean", "finish"}
          /\ (temps \cup partials \cup tombs) \cap EntriesOf(o) = {}
          /\ UNCHANGED <<disk, plan, spoiled, edited, files, temps, partials, tombs, blocked,
                         holder, pc>>
      BY <1>3 DEF RemoveJournal, Cleaning
    <2>2. journal'[o] = "none" /\ \A l \in Ops \ {o} : journal'[l] = journal[l]
      BY <2>1 DEF StepInv, IInv, TypeOK
    <2>3. \A l \in RollForward : l # o => l \in RollForward'
      BY <2>1, <2>2 DEF RollForward, Live, Outcome
    <2>4. \A p \in Paths : <<o, p>> \notin temps \cup partials \cup tombs
      BY <2>1 DEF EntriesOf, CalmInv, LeftoversInv
    <2>5. LeftoversInv'
      BY <2>1, <2>2, <2>3, <2>4 DEF CalmInv, LeftoversInv, ArtifactsOf, ExpectedArtifacts
    <2>6. FilesInv' /\ RedoInv'
      BY <2>1, <2>2 DEF CalmInv, FilesInv, RedoInv, Live, AsExpected, IsDelete, TargetIsBefore,
                        TargetIsAfter
    <2> QED BY <2>1, <2>5, <2>6, NotBlocked DEF CalmInv
  <1>4. ASSUME NEW o \in Ops, CleanupRefused(o) PROVE CalmInv'
    <2>1. /\ UNCHANGED <<disk, journal, plan, edited, files, temps, tombs, partials, spoiled>>
          /\ pc' = "idle" /\ o \in work /\ pc \in {"clean", "finish"}
          /\ spoiled \cap EntriesOf(o) # {}
      BY <1>4 DEF CleanupRefused, Cleaning, Leave
    <2>2. o \in Live
      BY <2>1 DEF StepInv, IInv, ControlInv
    <2> QED BY <2>1, <2>2, CalmRefusal DEF Tampered
  <1> QED BY <1>1, <1>2, <1>3, <1>4 DEF Cleanup

\* So do dying, planning, acquiring and editing.
LEMMA OtherCalm ==
  ASSUME StepInv, CalmInv,
         \/ Fault
         \/ \E o \in Ops : CreatePlan(o)
         \/ \E c \in Ops \cup {Reader} : Acquire(c)
         \/ \E p \in Paths : Edit(p)
  PROVE  CalmInv'
  <1> USE DEF targets, names, call, history, faults
  <1>0. TypeOK /\ (pc = "mkdir" => holder \in Ops)
    BY DEF StepInv, IInv, ControlInv
  <1>1. CASE Interrupt
    BY <1>1, CalmFrame DEF Interrupt, Crash, Leave
  <1>2. CASE InterruptArtifact
    BY <1>2, CalmFrame DEF InterruptArtifact, Crash, Leave
  <1>3. ASSUME NEW o \in Ops, NEW p \in Paths, InterruptTemp(o, p) PROVE CalmInv'
    <2>1. /\ UNCHANGED <<disk, journal, plan, spoiled, edited, files, tombs, blocked>>
          /\ temps' \cup partials' \subseteq temps \cup partials \cup {<<o, p>>}
          /\ <<o, p>> \in todo /\ pc' = "idle" /\ pc \in {"redo", "install"}
      BY <1>3 DEF InterruptTemp, Pending, Crash, Leave
    <2>2. o \in RollForward /\ p \in plan[o].paths
      BY <2>1 DEF StepInv, TodoInv
    <2>3. RollForward' = RollForward
      BY <2>1 DEF RollForward, Live, Outcome
    <2>4. LeftoversInv'
      BY <2>1, <2>2, <2>3 DEF CalmInv, LeftoversInv, ArtifactsOf, ExpectedArtifacts
    <2>5. OnlyEditsShow
      BY <2>1 DEF OnlyEditsShow
    <2>6. FilesInv' /\ RedoInv'
      BY <1>0, <2>1, <2>5, FilesFrame, RedoFrame DEF CalmInv
    <2> QED BY <2>1, <2>4, <2>6, NotBlocked DEF CalmInv
  <1>4. ASSUME NEW o \in Ops, CreatePlan(o) PROVE CalmInv'
    <2>1. /\ UNCHANGED <<disk, journal, spoiled, edited, files, temps, partials, tombs, blocked,
                         holder, pc, todo>>
          /\ fate[o] = "new"
      BY <1>4 DEF CreatePlan
    <2>2. \A l \in Ops \ {o} : plan'[l] = plan[l]
      BY <1>4 DEF CreatePlan, StepInv, IInv, TypeOK
    <2>3. o \notin Live /\ (pc = "mkdir" => holder \in Ops \ {o})
      BY <2>1 DEF StepInv, IInv, ControlInv
    <2>4. journal[o] = "none" /\ o \notin RollForward
      BY <2>3 DEF Live, RollForward
    <2>5. RollForward' = RollForward /\ Live' = Live /\ Live \subseteq Ops \ {o}
      BY <2>1, <2>3 DEF RollForward, Live, Outcome
    <2>6. LeftoversInv'
      BY <2>1, <2>2, <2>4, <2>5 DEF CalmInv, LeftoversInv, ArtifactsOf, ExpectedArtifacts
    <2>7. FilesInv' /\ RedoInv'
      BY <2>1, <2>2, <2>3, <2>4, <2>5
      DEF CalmInv, FilesInv, RedoInv, RollForward, AsExpected, IsDelete, TargetIsBefore,
          TargetIsAfter
    <2>8. BlockedInv'
      BY <2>1, <2>2, <2>5, BlockedFrame DEF CalmInv
    <2> QED BY <2>6, <2>7, <2>8 DEF CalmInv
  <1>5. ASSUME NEW c \in Ops \cup {Reader}, Acquire(c) PROVE CalmInv'
    BY <1>5, CalmFrame DEF Acquire
  <1>6. ASSUME NEW p \in Paths, Edit(p) PROVE CalmInv'
    <2>1. /\ UNCHANGED <<journal, plan, spoiled, files, temps, partials, tombs, blocked, holder,
                         pc, todo>>
          /\ edited' = edited \cup {p}
      BY <1>6 DEF Edit
    <2>2. OnlyEditsShow
      BY <1>6 DEF Edit, OnlyEditsShow, StepInv, IInv, TypeOK
    <2>3. FilesInv' /\ RedoInv' /\ LeftoversInv'
      BY <1>0, <2>1, <2>2, FilesFrame, RedoFrame, LeftoversFrame DEF CalmInv
    <2>4. BlockedInv'
      BY <2>1, BlockedFrame DEF CalmInv
    <2> QED BY <2>3, <2>4 DEF CalmInv
  <1> QED BY <1>1, <1>2, <1>3, <1>4, <1>5, <1>6 DEF Fault

LEMMA CalmInductive == Spec => []CalmInv
  <1>1. Init => CalmInv
    BY DEF Init, CalmInv, FilesInv, RedoInv, LeftoversInv, BlockedInv, Live, RollForward
  <1>2. StepInv /\ CalmInv /\ [Next]_vars => CalmInv'
    <2> SUFFICES ASSUME StepInv, CalmInv, [Next]_vars PROVE CalmInv'
      OBVIOUS
    <2>1. CASE UNCHANGED vars
      BY <2>1, CalmFrame DEF vars, targets, names, call, history
    <2> QED
      BY <2>1, RecoveryCalm, ApplyCalm, EntryCalm, CleanupCalm, OtherCalm DEF Next, Step
  <1> QED
    BY <1>1, <1>2, StepInductive, PTL DEF Spec

\* Recovery refuses to go on only over a journal of which somebody edited a file after the
\* last look at it, or whose edited bytes were put aside: what calls leave behind when they
\* throw or die, anywhere in an apply or in a recovery, it accepts.
THEOREM RefusedIfTampered == Spec => []RefusedOnlyIfTampered
  <1>1. CalmInv => RefusedOnlyIfTampered
    BY DEF CalmInv, BlockedInv, Tampered, RefusedOnlyIfTampered
  <1> QED BY <1>1, CalmInductive, PTL
=============================================================================
