-------------------------- MODULE MCApplyJournal ---------------------------
(* Small instances of ApplyJournal. *)
EXTENDS ApplyJournal, TLC

CONSTANTS p1, p2, a, b

\* Write one file and create or replace the other; replace one and delete the
\* other; touch a single file; touch nothing (a plan used for its lock).
MCMutations ==
  { [paths |-> {p1, p2}, after |-> (p1 :> b) @@ (p2 :> a)],
    [paths |-> {p1, p2}, after |-> (p1 :> a) @@ (p2 :> Absent)],
    [paths |-> {p2},     after |-> (p1 :> Absent) @@ (p2 :> b)],
    [paths |-> {},       after |-> (p1 :> Absent) @@ (p2 :> Absent)] }

MCInitial == { (p1 :> a) @@ (p2 :> Absent), (p1 :> b) @@ (p2 :> a) }

\* Next where nobody edits: what only an edit brings about drops out.
MCUnedited ==
  \/ \E o \in Ops : CreatePlan(o) \/ RecoveryMark(o) \/ \E p \in Paths : RedoSkip(o, p)
  \/ \E c \in Ops \cup {Reader} : Acquire(c)
  \/ Preflight \/ Verify \/ CleanOrphan \/ Recovered \/ Read
  \/ BeginApply \/ Decline \/ Prepare \/ Staged \/ CommitMark \/ Settle \/ Confirm \/ Done
  \/ \E k \in Kinds : MakeDirectory(k)
  \/ \E p \in Paths : WriteArtifact(p)
  \/ \E o \in Ops, p \in Paths : WriteTemp(o, p) \/ Install(o, p) \/ CheckTarget(o, p) \/ DeleteTarget(o, p)
  \/ \E o \in Ops : CleanTarget(o) \/ RemoveJournal(o) \/ \E k \in Kinds : CleanArtifacts(o, k)
  \/ Fault

MCUneditedSpec == Init /\ [][MCUnedited]_vars /\ Fairness
=============================================================================
