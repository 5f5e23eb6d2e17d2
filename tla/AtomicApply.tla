---------------------------- MODULE AtomicApply ----------------------------
(***************************************************************************)
(* What the apply journal promises: a mutation plan is a compare-and-swap  *)
(* over several files.  In one step every file of the plan goes from the   *)
(* digest the plan was created against to its after state, or nothing      *)
(* happens, and a call that was rejected never takes effect later.  A      *)
(* cooperative reader sees the store itself.  Whoever does not follow the  *)
(* protocol may edit a file at any time; of such a file, until it has been *)
(* compared again, the store may show the edit at once, later or never.    *)
(* ApplyJournal implements this with a journal, staged bytes and           *)
(* roll-forward recovery.                                                  *)
(***************************************************************************)
CONSTANTS Ops,        \* calls of applyMutationPlan, each with a fresh operation id
          Paths,      \* repository files a plan may name
          Bytes,      \* file contents
          Absent,     \* the content of a file that does not exist
          Mutations,  \* the plans callers ask for: [paths, after]
          Initial,    \* the states of the repository to start from
          Nobody      \* no reader is at work

Contents == Bytes \cup {Absent}

VARIABLES store,      \* the content of every file
          plan,       \* the mutation plan of each call
          fate,       \* what became of each call
          seen,       \* what the cooperative reader at work has read
          edited      \* files edited by others and not compared since

vars == <<store, plan, fate, seen, edited>>

NoPlan == [paths |-> {}, before |-> [p \in Paths |-> Absent],
                         after  |-> [p \in Paths |-> Absent]]

Init ==
  /\ store \in Initial
  /\ plan = [o \in Ops |-> NoPlan]
  /\ fate = [o \in Ops |-> "new"]
  /\ seen = Nobody /\ edited = {}

\* A plan pins the digest each of its files is expected to have.
Create(o) ==
  /\ fate[o] = "new"
  /\ \E m \in Mutations, b \in [Paths -> Contents] :
       plan' = [plan EXCEPT ![o] =
                  [paths |-> m.paths, before |-> b, after |-> m.after]]
  /\ fate' = [fate EXCEPT ![o] = "planned"]
  /\ UNCHANGED <<store, seen, edited>>

Commit(o) ==
  /\ fate[o] = "planned"
  /\ \A p \in plan[o].paths : store[p] = plan[o].before[p]
  /\ store' = [p \in Paths |-> IF p \in plan[o].paths THEN plan[o].after[p]
                                                      ELSE store[p]]
  /\ fate' = [fate EXCEPT ![o] = "committed"]
  /\ edited' = edited \ plan[o].paths
  /\ UNCHANGED <<plan, seen>>

Reject(o) ==
  /\ fate[o] = "planned"
  /\ fate' = [fate EXCEPT ![o] = "rejected"]
  /\ UNCHANGED <<store, plan, seen, edited>>

\* Somebody who does not follow the protocol writes one file.
Edit(p) ==
  /\ \E c \in Contents : store' = [store EXCEPT ![p] = c]
  /\ edited' = edited \cup {p}
  /\ UNCHANGED <<plan, fate, seen>>

\* The store is what it is said to be again, but for edits that show only now.
Surface ==
  /\ edited' \in SUBSET edited
  /\ \E s \in [edited -> Contents] :
       store' = [p \in Paths |-> IF p \in edited THEN s[p] ELSE store[p]]
  /\ UNCHANGED <<plan, fate, seen>>

Read ==
  /\ seen' \in {store, Nobody}
  /\ UNCHANGED <<store, plan, fate, edited>>

Next == \/ \E o \in Ops : Create(o) \/ Commit(o) \/ Reject(o)
        \/ \E p \in Paths : Edit(p)
        \/ Surface \/ Read

Spec == Init /\ [][Next]_vars
=============================================================================
