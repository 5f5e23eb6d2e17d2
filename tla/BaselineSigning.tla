-------------------------- MODULE BaselineSigning --------------------------
(***************************************************************************)
(* signingOperations.ts: the baselines of the probes and of the orderings  *)
(* are regenerated by commands, the approvals that bind them are written   *)
(* by the server from a form, as three files one after the other, and a    *)
(* human commits what he likes of it.  The gates read the approvals later: *)
(* what they accept must have been reviewed, and the prior of an approval  *)
(* is what a moved ordering is compared with.                              *)
(*                                                                         *)
(* A version of the code has an engine identity and lists of results; two  *)
(* versions may share one or both.  The probe baseline taken at a version  *)
(* is that version, the ordering snapshot is its identity and its lists.   *)
(***************************************************************************)
EXTENDS Integers, FiniteSets

CONSTANTS
  Identity,     \* the engine identity of each version, a function on 0..n
  Lists,        \* its ordered results
  Forms,        \* what a reviewer may fill in, a set of [date, notes]
  NoForm,       \* none of it
  MaxSignings,  \* bound on the writes
  MaxCuts       \* bound on the deaths of the server

ASSUME SigningAssumption == DOMAIN Lists = DOMAIN Identity /\ 0 \in DOMAIN Lists

VARIABLES
  code,       \* the version checked out
  files,      \* the working tree: both baselines, both approvals, the records by date
  committed,  \* the same at HEAD
  past,       \* the baselines in the history of git, of each kind
  derived,    \* the identity the server derived and keeps, or NoForm
  page,       \* the files of the preview the reviewer has before him, or NoForm
  writing,    \* the write under way: what is still to be written
  signings, cuts,
  since       \* writes since the approvals of the tree were those of HEAD

signVars == <<code, files, committed, past, derived, page, writing, signings, cuts, since>>

Versions == DOMAIN Identity
Dates == {f.date : f \in Forms}
Snapshot(n) == [engine |-> Identity[n], lists |-> Lists[n]]
Taken == {Snapshot(n) : n \in Versions}
Idle == [next |-> "none", files |-> NoForm, began |-> 0]

SignInit ==
  /\ code = 0
  /\ \E f \in Forms :
       files = [probes |-> 0, ordering |-> Snapshot(0),
                probesApproval |-> [of |-> 0, prior |-> 0, form |-> f],
                orderingApproval |-> [of |-> Snapshot(0), prior |-> Snapshot(0), form |-> f],
                notes |-> [d \in Dates |-> IF d = f.date THEN f.notes ELSE NoForm]]
  /\ committed = files /\ past = [probes |-> {0}, ordering |-> {Snapshot(0)}]
  /\ derived = NoForm /\ page = NoForm /\ writing = Idle /\ signings = 0 /\ cuts = 0 /\ since = 0

-----------------------------------------------------------------------------
\* The identity is derived once in the life of a server.
DeriveIdentity == IF derived = NoForm THEN Identity[code] ELSE derived

ProbesBound == files.probesApproval.of = files.probes
OrderingBound == files.orderingApproval.of = files.ordering

\* status(): what the page says of the checkout.
Verdict ==
  IF Identity[files.probes] # files.ordering.engine THEN "unavailable"
  ELSE IF Identity[files.probes] # DeriveIdentity THEN "baselines-behind"
  ELSE IF ProbesBound /\ OrderingBound THEN "current" ELSE "stale"

\* findPriorByCanonicalSha: the baselines the approvals bind are in the history.
PriorFound == /\ files.probesApproval.of \in past.probes
              /\ files.orderingApproval.of \in past.ordering

Signable == Verdict = "stale" /\ PriorFound

\* Mutant: the prior is taken from the baseline that is being replaced in the file.
Approvals_SelfPrior(form) ==
  [form |-> form,
   probesApproval |-> [of |-> files.probes, prior |-> files.probesApproval.of, form |-> form],
   orderingApproval |-> [of |-> files.ordering, prior |-> files.ordering, form |-> form]]
\* The files a write would produce: the record, and both approvals.
Approvals(form) ==
  [form |-> form,
   probesApproval |-> [of |-> files.probes, prior |-> files.probesApproval.of, form |-> form],
   orderingApproval |-> [of |-> files.ordering, prior |-> files.orderingApproval.of, form |-> form]]

Preview(form) ==
  /\ Signable /\ page' = Approvals(form) /\ derived' = DeriveIdentity
  /\ UNCHANGED <<code, files, committed, past, writing, signings, cuts, since>>

\* Mutant: the preview is not made again.
StillShown_Trusts == TRUE
\* The preview made again has the digest of the one confirmed.
StillShown == Signable /\ Approvals(page.form) = page

\* write(): one at a time in a server, which claims activeRepositoryMutation.
Confirm ==
  /\ page # NoForm /\ writing = Idle /\ signings < MaxSignings
  /\ StillShown
  /\ writing' = [next |-> "record", files |-> page, began |-> cuts]
  /\ signings' = signings + 1 /\ page' = NoForm /\ derived' = DeriveIdentity
  /\ since' = since + 1
  /\ UNCHANGED <<code, files, committed, past, cuts>>

\* Each file is written in place, the record first.
WriteNext ==
  /\ writing # Idle
  /\ LET w == writing.files IN
     CASE writing.next = "record" ->
            /\ files' = [files EXCEPT !.notes[w.form.date] = w.form.notes]
            /\ writing' = [writing EXCEPT !.next = "probes"]
       [] writing.next = "probes" ->
            /\ files' = [files EXCEPT !.probesApproval = w.probesApproval]
            /\ writing' = [writing EXCEPT !.next = "ordering"]
       [] writing.next = "ordering" ->
            /\ files' = [files EXCEPT !.orderingApproval = w.orderingApproval]
            /\ writing' = Idle
  /\ UNCHANGED <<code, committed, past, derived, page, signings, cuts, since>>

\* The server dies, in a write or not, and is started again.
SigningServerDies ==
  /\ cuts < MaxCuts
  /\ cuts' = cuts + (IF writing = Idle THEN 0 ELSE 1) /\ writing' = Idle /\ derived' = NoForm
  /\ writing # Idle \/ derived # NoForm
  /\ UNCHANGED <<code, files, committed, past, page, signings, since>>

-----------------------------------------------------------------------------
\* Everybody else: the code moves, baselines are regenerated, one or both, and what is
\* in the tree is committed, or given up for what is committed.
MoveCode == /\ code + 1 \in Versions /\ code' = code + 1
            /\ UNCHANGED <<files, committed, past, derived, page, writing, signings, cuts, since>>

Regenerate ==
  /\ \E both \in BOOLEAN :
       files' = [files EXCEPT !.probes = code, !.ordering = IF both THEN Snapshot(code) ELSE @]
  /\ UNCHANGED <<code, committed, past, derived, page, writing, signings, cuts, since>>

\* Baselines and approvals may be committed apart; an approval goes with its record.
CommitBaselines ==
  /\ committed' = [committed EXCEPT !.probes = files.probes, !.ordering = files.ordering]
  /\ past' = [probes |-> past.probes \cup {files.probes}, ordering |-> past.ordering \cup {files.ordering}]
  /\ UNCHANGED <<code, files, derived, page, writing, signings, cuts, since>>

CommitSigned ==
  /\ writing = Idle
  /\ committed' = [files EXCEPT !.probes = committed.probes, !.ordering = committed.ordering]
  /\ since' = 0
  /\ UNCHANGED <<code, files, past, derived, page, writing, signings, cuts>>

Discard ==
  /\ files # committed /\ writing = Idle /\ files' = committed /\ since' = 0
  /\ UNCHANGED <<code, committed, past, derived, page, writing, signings, cuts>>

SignNext ==
  \/ (\E f \in Forms : Preview(f)) \/ Confirm \/ WriteNext \/ SigningServerDies
  \/ MoveCode \/ Regenerate \/ CommitBaselines \/ CommitSigned \/ Discard

SignSpec == SignInit /\ [][SignNext]_signVars

-----------------------------------------------------------------------------
\* What the gates check of a set of files: the bindings, the record, and the tripwire.
Evidenced(f) == /\ f.notes[f.probesApproval.form.date] = f.probesApproval.form.notes
                /\ f.notes[f.orderingApproval.form.date] = f.orderingApproval.form.notes
Tripped(a) == a.of.lists # a.prior.lists /\ a.of.engine = a.prior.engine
Accepted(f) ==
  /\ f.probesApproval.of = f.probes /\ f.orderingApproval.of = f.ordering
  /\ Evidenced(f) /\ ~Tripped(f.orderingApproval)

\* The types of the state (SigningForm, SigningPreview).
SignTypeOK ==
  /\ code \in Versions /\ derived \in {Identity[n] : n \in Versions} \cup {NoForm}
  /\ \A f \in {files, committed} : f.probes \in Versions /\ f.ordering \in Taken
  /\ writing.next \in {"none", "record", "probes", "ordering"} /\ (writing = Idle <=> writing.next = "none")

\* Unless a write was cut short, both approvals in the tree are of one signing, of one
\* engine, and beside the record they name, whatever is regenerated, committed or given
\* up around them (write(), the three files).
SignedTogether ==
  writing = Idle /\ cuts = 0 =>
    /\ files.probesApproval.form = files.orderingApproval.form
    /\ Identity[files.probesApproval.of] = files.orderingApproval.of.engine
    /\ Evidenced(files)

\* The first signing after a commit is chained to the approvals that are committed, so
\* that an ordering which moved without its engine is not accepted (findPriorByCanonicalSha,
\* orderingSnapshotGate rule 6).
ChainedToCommitted ==
  writing = Idle /\ cuts = 0 /\ since = 1 =>
    /\ files.probesApproval.prior = committed.probesApproval.of
    /\ files.orderingApproval.prior = committed.orderingApproval.of
    /\ Accepted(files) /\ files.ordering.lists # committed.orderingApproval.of.lists
         => files.ordering.engine # committed.orderingApproval.of.engine

\* What is signed belongs together and is chained to what was signed before.
SigningHolds == SignedTogether /\ ChainedToCommitted

=============================================================================
