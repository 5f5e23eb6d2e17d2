--------------------------- MODULE TelemetryAudit ---------------------------
(***************************************************************************)
(* The life of a telemetry audit (telemetryAudit.ts, behind                *)
(* StudioOperations in studioOperations.ts): preview stages the selected   *)
(* distillates, apply merges them into the master record and appends the   *)
(* candidate cases to workbench/cases.jsonl, close deletes the             *)
(* distillates.  Each takes the repository lock for its reads and again    *)
(* for its journalled writes, and finishes or undoes a left-over journal   *)
(* first (applyJournal.ts, whose crash safety is ApplyJournal's subject;   *)
(* here a recovery is one step).  CaseLog appends to cases.jsonl without   *)
(* the lock, whenever a case is created or moved.                          *)
(***************************************************************************)
EXTENDS Naturals, SequencesExt

CONSTANTS
  Callers,      \* audit requests the server is working on at the same time
  Audits,       \* digests of the selections that are audited
  MaxAppends,   \* bound: events other requests append to cases.jsonl
  MaxCrashes    \* bound: deaths of the server

\* A case an audit makes is not one of the events others append, which are numbers.
ASSUME TelemetryAssumption ==
  MaxAppends \in Nat /\ MaxCrashes \in Nat /\ \A a \in Audits : a \notin Nat

VARIABLES
  disk,         \* what each path holds; a digest is the content itself
  jnl,          \* the journal on disk, or NoJnl
  audit,        \* what each caller is doing
  previews,     \* StudioOperations.#auditPreviews
  acked,        \* events whose append was answered
  crashes

telVars == <<disk, jnl, audit, previews, acked, crashes>>

Pending(a) == <<"pending", a>>
Receipt(a) == <<"receipt", a>>
Master == <<"master", "record">>
CaseEvents == <<"cases", "jsonl">>
Paths == {Master, CaseEvents} \cup {Pending(a) : a \in Audits} \cup {Receipt(a) : a \in Audits}

Missing == [status |-> "missing"]
Present == [status |-> "present"]
Content(x) == [status |-> "present", holds |-> x]
Issued(status, master, cases) == [status |-> status, master |-> master, cases |-> cases]

NoJnl == [state |-> "none"]
NoPreview == [status |-> "none"]
Resting == [op |-> "none", at |-> "rest"]

TelInit ==
  /\ disk = [p \in Paths |->
       IF p = Master THEN Content(<<>>) ELSE IF p = CaseEvents THEN Content({}) ELSE Missing]
  /\ jnl = NoJnl /\ audit = [c \in Callers |-> Resting]
  /\ previews = [a \in Audits |-> NoPreview] /\ acked = {} /\ crashes = 0

-----------------------------------------------------------------------------
(* Plans, and the journal that carries them out. *)

Change(p, after) == [path |-> p, before |-> disk[p], after |-> after]

\* In the order of their paths.
Plan(op, a) ==
  CASE op = "apply" ->
         LET master == Content(Append(disk[Master].holds, a))
             cases == Content(disk[CaseEvents].holds \cup {a})
         IN <<Change(Master, master), Change(Pending(a), Present),
              Change(Receipt(a), Issued("applied", master, cases)), Change(CaseEvents, cases)>>
    [] op = "close" ->
         <<Change(Pending(a), Missing), Change(Receipt(a), [disk[Receipt(a)] EXCEPT !.status = "closed"])>>

IsBefore(e) == disk[e.path] = e.before
IsAfter(e) == disk[e.path] = e.after
AllBefore(plan) == \A i \in DOMAIN plan : IsBefore(plan[i])
AllAfter(plan) == \A i \in DOMAIN plan : IsAfter(plan[i])

\* preflightJournal: whether recovery can tell what to do.
Recoverable ==
  CASE jnl.state = "none" -> TRUE
    [] jnl.state = "prepared" -> AllBefore(jnl.plan)
    [] jnl.state = "committing" ->
         \A i \in DOMAIN jnl.plan :
           \/ IsBefore(jnl.plan[i]) \/ IsAfter(jnl.plan[i])
           \/ disk[jnl.plan[i].path] = Missing   \* the gap of a replacement
    [] jnl.state = "committed" ->
         \A i \in DOMAIN jnl.plan : IsAfter(jnl.plan[i]) \/ (jnl.plan[i].after = Missing /\ IsBefore(jnl.plan[i]))

\* The disk when all that the journal plans is carried out; its paths are distinct.
Redone ==
  [p \in Paths |->
    IF \E i \in DOMAIN jnl.plan : jnl.plan[i].path = p
    THEN jnl.plan[CHOOSE i \in DOMAIN jnl.plan : jnl.plan[i].path = p].after
    ELSE disk[p]]

\* Mutant: a journal that had not committed is dropped, whatever it had installed.
Recovered_Drops == disk

\* recoverLocked: the disk as it is after a recovery.
Recovered == IF jnl.state \in {"committing", "committed"} THEN Redone ELSE disk

Holder == {c \in Callers : audit[c].at = "journal"}

\* Mutant: nobody waits for the lock.
Locked_Free == TRUE

\* withRepositoryLockWaiting and recoverLocked: the lock is free and nothing is left over.
\* What recovery leaves is read in the step that follows it.
Locked == Holder = {} /\ jnl = NoJnl

Recover(c) ==
  /\ Holder = {} /\ jnl # NoJnl /\ Recoverable /\ audit[c].at # "rest"
  /\ disk' = Recovered /\ jnl' = NoJnl
  /\ UNCHANGED <<audit, previews, acked, crashes>>

Ends(c) == audit' = [audit EXCEPT ![c] = Resting]
GoesTo(c, at) == audit' = [audit EXCEPT ![c].at = at]

\* recovery_conflict: the operation fails, and the journal stays for diagnosis.
Conflict(c) ==
  /\ Holder = {} /\ jnl # NoJnl /\ ~Recoverable /\ audit[c].at # "rest"
  /\ Ends(c) /\ UNCHANGED <<disk, jnl, previews, acked, crashes>>

\* applyMutationPlanLocked: all befores hold, and the journal is written.
BeginJournal(c, op) ==
  /\ jnl' = [state |-> "prepared", plan |-> Plan(op, audit[c].digest)]
  /\ GoesTo(c, "journal") /\ UNCHANGED <<disk, previews, acked, crashes>>

\* Every before image is checked again before the commit marker; a stale plan leaves its journal.
MarkCommit(c) ==
  /\ audit[c].at = "journal" /\ jnl.state = "prepared"
  /\ IF AllBefore(jnl.plan) THEN jnl' = [jnl EXCEPT !.state = "committing"] /\ UNCHANGED audit
     ELSE Ends(c) /\ UNCHANGED jnl
  /\ UNCHANGED <<disk, previews, acked, crashes>>

\* The rename of the next file over its target, whatever the target holds by now.
InstallNext(c) ==
  /\ audit[c].at = "journal" /\ jnl.state = "committing" /\ audit[c].done < Len(jnl.plan)
  /\ LET e == jnl.plan[audit[c].done + 1] IN disk' = [disk EXCEPT ![e.path] = e.after]
  /\ audit' = [audit EXCEPT ![c].done = @ + 1]
  /\ UNCHANGED <<jnl, previews, acked, crashes>>

\* The committed marker, if all files are as planned; otherwise the journal stays.
MarkDone(c) ==
  /\ audit[c].at = "journal" /\ jnl.state = "committing" /\ audit[c].done = Len(jnl.plan)
  /\ IF AllAfter(jnl.plan) THEN jnl' = [jnl EXCEPT !.state = "committed"] /\ UNCHANGED audit
     ELSE Ends(c) /\ UNCHANGED jnl
  /\ UNCHANGED <<disk, previews, acked, crashes>>

-----------------------------------------------------------------------------
(* The three operations. *)

StatusOf(a) == disk[Receipt(a)].status

\* assertRetainedReceiptState.
Retained(a) ==
  /\ disk[Master] = disk[Receipt(a)].master /\ disk[CaseEvents] = disk[Receipt(a)].cases
  /\ disk[Pending(a)] = IF StatusOf(a) = "closed" THEN Missing ELSE Present

\* A preview; what it was computed from matters only as long as it is not applied.
Seen == [status |-> "ready", master |-> disk[Master], cases |-> disk[CaseEvents]]
Remember(a, status) == previews' = [previews EXCEPT ![a] = IF status = "ready" THEN Seen ELSE [status |-> status]]

\* previewFromReceipt, after assertRetainedReceiptState.
ShowReceipt(c, a) == Ends(c) /\ IF Retained(a) THEN Remember(a, StatusOf(a)) ELSE UNCHANGED previews

AskAudit(c, op) ==
  /\ audit[c] = Resting
  /\ \E a \in Audits :
       /\ op # "preview" => previews[a] # NoPreview
       /\ audit' = [audit EXCEPT ![c] =
            [op |-> op, digest |-> a, at |-> "look", done |-> 0, seen |-> IF op = "apply" THEN previews[a] ELSE NoPreview]]
  /\ UNCHANGED <<disk, jnl, previews, acked, crashes>>

\* previewTelemetryAudit, its first read.
PreviewLook(c) ==
  /\ audit[c].op = "preview" /\ audit[c].at = "look" /\ Locked
  /\ IF StatusOf(audit[c].digest) # "missing" THEN ShowReceipt(c, audit[c].digest)
     ELSE /\ audit' = [audit EXCEPT ![c].at = "stage", ![c].seen = Seen]
          /\ UNCHANGED previews
  /\ UNCHANGED <<disk, jnl, acked, crashes>>

\* Mutant: beforeApply of the staging does not look for a receipt.
MayStage_Blind(a) == disk[Pending(a)] = Missing

\* beforeApply of the staging: neither a receipt nor the same staging is there by now.
MayStage(a) == disk[Pending(a)] = Missing /\ StatusOf(a) = "missing"

\* The distillates are staged, or were, while the receipt's state is as it was left.
\* Their journal has one file, which nobody else writes: it is taken as one step.
PreviewStage(c) ==
  /\ audit[c].op = "preview" /\ audit[c].at = "stage" /\ Locked
  /\ LET a == audit[c].digest
     IN /\ IF MayStage(a) THEN disk' = [disk EXCEPT ![Pending(a)] = Present] ELSE UNCHANGED disk
        /\ IF StatusOf(a) # "missing" /\ ~Retained(a) THEN Ends(c) ELSE GoesTo(c, "confirm")
  /\ UNCHANGED <<jnl, previews, acked, crashes>>

\* The last read of a preview: nothing it was computed from has changed.
PreviewConfirm(c) ==
  /\ audit[c].op = "preview" /\ audit[c].at = "confirm" /\ Locked
  /\ LET a == audit[c].digest
     IN IF StatusOf(a) # "missing" THEN ShowReceipt(c, a)
        ELSE /\ Ends(c)
             /\ IF disk[Pending(a)] = Present /\ Seen = audit[c].seen
                THEN Remember(a, "ready") ELSE UNCHANGED previews
  /\ UNCHANGED <<disk, jnl, acked, crashes>>

Fresh1(c, a) == StatusOf(a) = "missing" /\ audit[c].seen = Seen /\ disk[Pending(a)] = Present
Closable(a) == StatusOf(a) = "applied" /\ Retained(a)
MayWrite(c, a) == IF audit[c].op = "apply" THEN Fresh1(c, a) ELSE Closable(a)

\* What the operation leaves behind is there already: it answers, idempotently.
DoneBefore(c, a) ==
  StatusOf(a) \in (IF audit[c].op = "apply" THEN {"applied", "closed"} ELSE {"closed"}) /\ Retained(a)

Reports(c, a) == Remember(a, IF audit[c].op = "apply" THEN "applied" ELSE "closed")

\* applyTelemetryAudit and closeTelemetryAudit, their first read.
LoadAudit(c) ==
  /\ audit[c].op \in {"apply", "close"} /\ audit[c].at = "look" /\ Locked
  /\ LET a == audit[c].digest
     IN /\ IF MayWrite(c, a) THEN GoesTo(c, "write") ELSE Ends(c)
        /\ IF DoneBefore(c, a) THEN Reports(c, a) ELSE UNCHANGED previews
  /\ UNCHANGED <<disk, jnl, acked, crashes>>

\* beforeApply of both: another caller was faster, or all is as it was loaded.
WriteAudit(c) ==
  /\ audit[c].op \in {"apply", "close"} /\ audit[c].at = "write" /\ Locked
  /\ LET a == audit[c].digest
     IN IF MayWrite(c, a) THEN BeginJournal(c, audit[c].op)
        ELSE /\ Ends(c)
             /\ IF DoneBefore(c, a) THEN Reports(c, a) ELSE UNCHANGED previews
             /\ UNCHANGED <<disk, jnl, acked, crashes>>

\* afterCommit reads everything once more; then the journal goes and the caller is answered.
FinishWrite(c) ==
  /\ audit[c].at = "journal" /\ jnl.state = "committed"
  /\ IF ~AllAfter(jnl.plan) \/ ~Retained(audit[c].digest) THEN Ends(c) /\ UNCHANGED <<jnl, previews>>
     ELSE jnl' = NoJnl /\ Ends(c) /\ Reports(c, audit[c].digest)
  /\ UNCHANGED <<disk, acked, crashes>>

\* CaseLog.create or CaseLog.transition: one line is appended, without the lock.
AppendEvent ==
  /\ Cardinality(acked) < MaxAppends
  /\ LET n == Cardinality(acked) + 1
     IN /\ disk' = [disk EXCEPT ![CaseEvents].holds = @ \cup {n}]
        /\ acked' = acked \cup {n}
  /\ UNCHANGED <<jnl, audit, previews, crashes>>

\* The server dies; the lock of a dead owner is reclaimed, and the previews are gone.
StudioDies ==
  /\ crashes < MaxCrashes /\ crashes' = crashes + 1
  /\ audit' = [c \in Callers |-> Resting] /\ previews' = [a \in Audits |-> NoPreview]
  /\ UNCHANGED <<disk, jnl, acked>>

AuditStep(c) ==
  \/ Recover(c) \/ Conflict(c) \/ PreviewLook(c) \/ PreviewStage(c) \/ PreviewConfirm(c)
  \/ LoadAudit(c) \/ WriteAudit(c) \/ FinishWrite(c)
  \/ MarkCommit(c) \/ InstallNext(c) \/ MarkDone(c)

TelNext ==
  \/ \E c \in Callers : AuditStep(c) \/ \E op \in {"preview", "apply", "close"} : AskAudit(c, op)
  \/ AppendEvent \/ StudioDies

TelSpec == TelInit /\ [][TelNext]_telVars

-----------------------------------------------------------------------------
(* Properties. *)

\* Types of the journal, the callers and the previews; one caller at most is
\* between the first and the last write of a plan.
TelTypeOK ==
  /\ DOMAIN disk = Paths
  /\ jnl.state \in {"none", "prepared", "committing", "committed"}
  /\ \A c \in Callers : audit[c].at \in {"rest", "look", "stage", "confirm", "write", "journal"}
  /\ \A a \in Audits : previews[a].status \in {"none", "ready", "applied", "closed"}
  /\ Cardinality(Holder) <= 1

\* Whenever no journal is open, whatever was repeated, raced or interrupted: an
\* audit has a receipt exactly if it was merged into the master record, once,
\* and its candidate cases are in cases.jsonl; its distillates are there
\* while it is applied.
AuditsWhole ==
  jnl = NoJnl => \A a \in Audits :
    LET merged == {i \in DOMAIN disk[Master].holds : disk[Master].holds[i] = a}
    IN /\ StatusOf(a) = "missing" => merged = {} /\ a \notin disk[CaseEvents].holds
       /\ StatusOf(a) # "missing" => Cardinality(merged) = 1 /\ a \in disk[CaseEvents].holds
       /\ StatusOf(a) = "applied" => disk[Pending(a)] = Present

\* The deletion is final: once an audit is closed it stays closed, and no
\* preview that was under way stages its distillates again.
ClosedStaysDeleted ==
  [][\A a \in Audits : StatusOf(a) = "closed" =>
       StatusOf(a)' = "closed" /\ disk'[Pending(a)] # Present]_telVars

\* "cases.jsonl [is] append-only local history" (docs/workbench-recovery.md):
\* an event whose append was answered stays in the log.
AppendsKept == acked \subseteq disk[CaseEvents].holds
=============================================================================
