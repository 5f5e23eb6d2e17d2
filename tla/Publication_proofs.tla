------------------------ MODULE Publication_proofs -------------------------
(***************************************************************************)
(* What holds of DraftPublication for every set of commits and any number  *)
(* of deaths, failures and interferences: a published commit has passed    *)
(* the suites twice, and nothing that is published is ever replaced.  And  *)
(* what holds of Admission for any number of calls, decisions, deaths and  *)
(* disturbances, whatever the evidence: manifests warrant what they say,   *)
(* and the same decisions are admitted once.                               *)
(***************************************************************************)
EXTENDS DraftPublication, Admission, TLAPS

-----------------------------------------------------------------------------
(* The draft of a train *)

USE DraftAssumption DEF draftVars, world, local, spent, At, Goto, Refuse, Keep,
  Fault, Record, Proven, Phases, Published, NoJournal, Journals, Steps, Refusals,
  Statuses, Calls, Idle, StatusOf, DraftTypeOK

Building == {"remove", "add", "name", "created", "provision", "apply",
             "applying", "applied", "verify", "commit", "prove"}
Publishing == {"push", "pushing", "pushed", "view", "create", "opened", "final"}

(* The two runs are bound to a commit exactly when the journal has reached *)
(* the committed phase, and the call in progress agrees with the journal.  *)
JournalBound ==
  /\ journal.evidence = "both" <=> journal.phase \in {"committed"} \cup Published
  /\ journal.evidence = "both" =>
       journal.commit \in Commits /\ checked[journal.commit] = 2
  /\ journal.evidence # "both" => journal.commit = None

CallBound ==
  /\ call.pc \in Building => journal.phase \notin Published
  /\ tree = "branch" => branch = head
  /\ call.pc \in Building \ {"remove", "add", "name"} => tree = "branch"
  /\ call.pc \in Publishing =>
       journal.evidence = "both" /\ branch \in {journal.commit, Foreign}
  /\ call.pc \in {"pushing", "pushed"} => journal.phase = "committed"
  /\ call.pc \in {"create", "opened"} => journal.phase \in Published
  /\ call.pc = "opened" => pull

DraftInv == DraftTypeOK /\ JournalBound /\ CallBound /\ PublishedIsProven

USE DEF Building, Publishing, JournalBound, CallBound, PublishedIsProven

LEMMA CallForms ==
  /\ Idle \in Calls
  /\ call \in Calls => \A pc \in Steps : [call EXCEPT !.pc = pc] \in Calls
  /\ call \in Calls => \A pc \in Steps, status \in Statuses :
                        [call EXCEPT !.pc = pc, !.status = status] \in Calls
<1>1. Idle \in Calls
  OBVIOUS
<1>2. ASSUME call \in Calls, NEW pc \in Steps PROVE [call EXCEPT !.pc = pc] \in Calls
  <2>1. DOMAIN call = {"pc", "push", "open", "status"}
    BY <1>2
  <2> QED BY <1>2, <2>1
<1>3. ASSUME call \in Calls, NEW pc \in Steps, NEW status \in Statuses
      PROVE [call EXCEPT !.pc = pc, !.status = status] \in Calls
  <2> DEFINE stepped == [call EXCEPT !.pc = pc]
  <2>1. stepped \in Calls
    BY <1>2, <1>3
  <2>2. [call EXCEPT !.pc = pc, !.status = status] = [stepped EXCEPT !.status = status]
    OBVIOUS
  <2>3. DOMAIN stepped = {"pc", "push", "open", "status"}
    BY <2>1
  <2> HIDE DEF stepped
  <2>4. [stepped EXCEPT !.status = status] \in Calls
    BY <2>1, <2>3
  <2> QED BY <2>2, <2>4
<1> QED BY <1>1, <1>2, <1>3

LEMMA DraftInvInit == DraftInit => DraftInv
<1> SUFFICES ASSUME DraftInit PROVE DraftInv
  OBVIOUS
<1>1. journal \in Journals /\ call \in Calls /\ JournalBound /\ CallBound
  BY DEF DraftInit
<1>2. checked \in [Commits -> 0 .. 2] /\ PublishedIsProven
  BY DEF DraftInit
<1>3. deaths \in 0 .. MaxDeaths /\ faults \in 0 .. MaxFaults /\ foreign \in 0 .. MaxForeign
  BY DEF DraftInit
<1>4. DraftTypeOK
  BY <1>1, <1>2, <1>3 DEF DraftInit
<1> QED BY <1>1, <1>2, <1>4 DEF DraftInv

LEMMA DraftTyped == DraftInv /\ [DraftNext]_draftVars => DraftTypeOK'
<1> SUFFICES ASSUME DraftInv, [DraftNext]_draftVars PROVE DraftTypeOK'
  OBVIOUS
<1> USE DEF DraftInv
<1>1. ASSUME NEW push \in BOOLEAN, NEW open \in BOOLEAN, Press(push, open)
      PROVE DraftTypeOK'
  BY <1>1 DEF Press
<1>2. CASE Begin
  BY <1>2 DEF Begin
<1>3. CASE ResumeBuilding
  BY <1>3 DEF ResumeBuilding
<1>4. CASE ResumeCommitted
  BY <1>4 DEF ResumeCommitted
<1>5. CASE ResumeUnproven
  BY <1>5 DEF ResumeUnproven
<1>6. CASE StartRefused
  <2>1. call' \in Calls
    <3> HIDE DEF Calls, Idle
    <3> QED BY <1>6, CallForms DEF StartRefused
  <2>2. answer' \in Statuses \cup Refusals \cup {"none"} /\ journal' \in Journals
    BY <1>6 DEF StartRefused
  <2>3. /\ mainMoved' \in BOOLEAN /\ pull' \in BOOLEAN /\ remote' \in Commits \cup {Foreign, None}
    BY <1>6 DEF StartRefused
  <2>4. /\ tree' \in {"absent", "detached", "branch"} /\ provisioned' \in BOOLEAN
        /\ head' \in Commits \cup {Base, Foreign, None}
        /\ files' \in {"before", "mixed", "after"}
        /\ branch' \in Commits \cup {Base, Foreign, None}
        /\ checked' \in [Commits -> 0 .. 2]
    BY <1>6 DEF StartRefused
  <2>5. deaths' \in 0 .. MaxDeaths /\ faults' \in 0 .. MaxFaults /\ foreign' \in 0 .. MaxForeign
    BY <1>6 DEF StartRefused
  <2> QED BY <2>1, <2>2, <2>3, <2>4, <2>5
<1>7. CASE RemoveWorktree
  <2>1. call' \in Calls
    <3> HIDE DEF Calls, Idle
    <3> QED BY <1>7, CallForms DEF RemoveWorktree
  <2>2. answer' \in Statuses \cup Refusals \cup {"none"} /\ journal' \in Journals
    BY <1>7 DEF RemoveWorktree
  <2>3. /\ mainMoved' \in BOOLEAN /\ pull' \in BOOLEAN /\ remote' \in Commits \cup {Foreign, None}
    BY <1>7 DEF RemoveWorktree
  <2>4. /\ tree' \in {"absent", "detached", "branch"} /\ provisioned' \in BOOLEAN
        /\ head' \in Commits \cup {Base, Foreign, None}
        /\ files' \in {"before", "mixed", "after"}
        /\ branch' \in Commits \cup {Base, Foreign, None}
        /\ checked' \in [Commits -> 0 .. 2]
    BY <1>7 DEF RemoveWorktree
  <2>5. deaths' \in 0 .. MaxDeaths /\ faults' \in 0 .. MaxFaults /\ foreign' \in 0 .. MaxForeign
    BY <1>7 DEF RemoveWorktree
  <2> QED BY <2>1, <2>2, <2>3, <2>4, <2>5
<1>8. CASE AddWorktree
  BY <1>8 DEF AddWorktree
<1>9. CASE NameBranch
  BY <1>9 DEF NameBranch
<1>10. CASE RecordCreated
  BY <1>10 DEF RecordCreated
<1>11. CASE Provision
  BY <1>11 DEF Provision
<1>12. CASE Apply
  <2>1. call' \in Calls
    <3> HIDE DEF Calls, Idle
    <3> QED BY <1>12, CallForms DEF Apply
  <2>2. answer' \in Statuses \cup Refusals \cup {"none"} /\ journal' \in Journals
    BY <1>12 DEF Apply
  <2>3. /\ mainMoved' \in BOOLEAN /\ pull' \in BOOLEAN /\ remote' \in Commits \cup {Foreign, None}
    BY <1>12 DEF Apply
  <2>4. /\ tree' \in {"absent", "detached", "branch"} /\ provisioned' \in BOOLEAN
        /\ head' \in Commits \cup {Base, Foreign, None}
        /\ files' \in {"before", "mixed", "after"}
        /\ branch' \in Commits \cup {Base, Foreign, None}
        /\ checked' \in [Commits -> 0 .. 2]
    BY <1>12 DEF Apply
  <2>5. deaths' \in 0 .. MaxDeaths /\ faults' \in 0 .. MaxFaults /\ foreign' \in 0 .. MaxForeign
    BY <1>12 DEF Apply
  <2> QED BY <2>1, <2>2, <2>3, <2>4, <2>5
<1>13. CASE ApplyRest
  BY <1>13 DEF ApplyRest
<1>14. CASE RecordApplied
  BY <1>14 DEF RecordApplied
<1>15. CASE Verify
  BY <1>15 DEF Verify
<1>16. CASE VerifyRefused
  <2>1. call' \in Calls
    <3> HIDE DEF Calls, Idle
    <3> QED BY <1>16, CallForms DEF VerifyRefused
  <2>2. answer' \in Statuses \cup Refusals \cup {"none"} /\ journal' \in Journals
    BY <1>16 DEF VerifyRefused
  <2>3. /\ mainMoved' \in BOOLEAN /\ pull' \in BOOLEAN /\ remote' \in Commits \cup {Foreign, None}
    BY <1>16 DEF VerifyRefused
  <2>4. /\ tree' \in {"absent", "detached", "branch"} /\ provisioned' \in BOOLEAN
        /\ head' \in Commits \cup {Base, Foreign, None}
        /\ files' \in {"before", "mixed", "after"}
        /\ branch' \in Commits \cup {Base, Foreign, None}
        /\ checked' \in [Commits -> 0 .. 2]
    BY <1>16 DEF VerifyRefused
  <2>5. deaths' \in 0 .. MaxDeaths /\ faults' \in 0 .. MaxFaults /\ foreign' \in 0 .. MaxForeign
    BY <1>16 DEF VerifyRefused
  <2> QED BY <2>1, <2>2, <2>3, <2>4, <2>5
<1>17. ASSUME NEW c \in Commits, Commit(c)
      PROVE DraftTypeOK'
  BY <1>17 DEF Commit
<1>18. CASE ProveCommit
  <2>1. call' \in Calls
    <3> HIDE DEF Calls, Idle
    <3> QED BY <1>18, CallForms DEF ProveCommit
  <2>2. answer' \in Statuses \cup Refusals \cup {"none"} /\ journal' \in Journals
    BY <1>18 DEF ProveCommit
  <2>3. /\ mainMoved' \in BOOLEAN /\ pull' \in BOOLEAN /\ remote' \in Commits \cup {Foreign, None}
    BY <1>18 DEF ProveCommit
  <2>4. /\ tree' \in {"absent", "detached", "branch"} /\ provisioned' \in BOOLEAN
        /\ head' \in Commits \cup {Base, Foreign, None}
        /\ files' \in {"before", "mixed", "after"}
        /\ branch' \in Commits \cup {Base, Foreign, None}
        /\ checked' \in [Commits -> 0 .. 2]
    BY <1>18 DEF ProveCommit
  <2>5. deaths' \in 0 .. MaxDeaths /\ faults' \in 0 .. MaxFaults /\ foreign' \in 0 .. MaxForeign
    BY <1>18 DEF ProveCommit
  <2> QED BY <2>1, <2>2, <2>3, <2>4, <2>5
<1>19. CASE ProveRefused
  BY <1>19 DEF ProveRefused
<1>20. CASE LookBeforePush
  <2>1. call' \in Calls
    <3> HIDE DEF Calls, Idle
    <3> QED BY <1>20, CallForms DEF LookBeforePush
  <2>2. answer' \in Statuses \cup Refusals \cup {"none"} /\ journal' \in Journals
    BY <1>20 DEF LookBeforePush
  <2>3. /\ mainMoved' \in BOOLEAN /\ pull' \in BOOLEAN /\ remote' \in Commits \cup {Foreign, None}
    BY <1>20 DEF LookBeforePush
  <2>4. /\ tree' \in {"absent", "detached", "branch"} /\ provisioned' \in BOOLEAN
        /\ head' \in Commits \cup {Base, Foreign, None}
        /\ files' \in {"before", "mixed", "after"}
        /\ branch' \in Commits \cup {Base, Foreign, None}
        /\ checked' \in [Commits -> 0 .. 2]
    BY <1>20 DEF LookBeforePush
  <2>5. deaths' \in 0 .. MaxDeaths /\ faults' \in 0 .. MaxFaults /\ foreign' \in 0 .. MaxForeign
    BY <1>20 DEF LookBeforePush
  <2> QED BY <2>1, <2>2, <2>3, <2>4, <2>5
<1>21. CASE Push
  BY <1>21 DEF Push
<1>22. CASE RecordPushed
  <2>1. call' \in Calls
    <3> HIDE DEF Calls, Idle
    <3> QED BY <1>22, CallForms DEF RecordPushed
  <2>2. answer' \in Statuses \cup Refusals \cup {"none"} /\ journal' \in Journals
    BY <1>22 DEF RecordPushed
  <2>3. /\ mainMoved' \in BOOLEAN /\ pull' \in BOOLEAN /\ remote' \in Commits \cup {Foreign, None}
    BY <1>22 DEF RecordPushed
  <2>4. /\ tree' \in {"absent", "detached", "branch"} /\ provisioned' \in BOOLEAN
        /\ head' \in Commits \cup {Base, Foreign, None}
        /\ files' \in {"before", "mixed", "after"}
        /\ branch' \in Commits \cup {Base, Foreign, None}
        /\ checked' \in [Commits -> 0 .. 2]
    BY <1>22 DEF RecordPushed
  <2>5. deaths' \in 0 .. MaxDeaths /\ faults' \in 0 .. MaxFaults /\ foreign' \in 0 .. MaxForeign
    BY <1>22 DEF RecordPushed
  <2> QED BY <2>1, <2>2, <2>3, <2>4, <2>5
<1>23. CASE ViewPull
  <2>1. call' \in Calls
    <3> HIDE DEF Calls, Idle
    <3> QED BY <1>23, CallForms DEF ViewPull
  <2>2. answer' \in Statuses \cup Refusals \cup {"none"} /\ journal' \in Journals
    BY <1>23 DEF ViewPull
  <2>3. /\ mainMoved' \in BOOLEAN /\ pull' \in BOOLEAN /\ remote' \in Commits \cup {Foreign, None}
    BY <1>23 DEF ViewPull
  <2>4. /\ tree' \in {"absent", "detached", "branch"} /\ provisioned' \in BOOLEAN
        /\ head' \in Commits \cup {Base, Foreign, None}
        /\ files' \in {"before", "mixed", "after"}
        /\ branch' \in Commits \cup {Base, Foreign, None}
        /\ checked' \in [Commits -> 0 .. 2]
    BY <1>23 DEF ViewPull
  <2>5. deaths' \in 0 .. MaxDeaths /\ faults' \in 0 .. MaxFaults /\ foreign' \in 0 .. MaxForeign
    BY <1>23 DEF ViewPull
  <2> QED BY <2>1, <2>2, <2>3, <2>4, <2>5
<1>24. CASE CreatePull
  <2>1. call' \in Calls
    <3> HIDE DEF Calls, Idle
    <3> QED BY <1>24, CallForms DEF CreatePull
  <2>2. answer' \in Statuses \cup Refusals \cup {"none"} /\ journal' \in Journals
    BY <1>24 DEF CreatePull
  <2>3. /\ mainMoved' \in BOOLEAN /\ pull' \in BOOLEAN /\ remote' \in Commits \cup {Foreign, None}
    BY <1>24 DEF CreatePull
  <2>4. /\ tree' \in {"absent", "detached", "branch"} /\ provisioned' \in BOOLEAN
        /\ head' \in Commits \cup {Base, Foreign, None}
        /\ files' \in {"before", "mixed", "after"}
        /\ branch' \in Commits \cup {Base, Foreign, None}
        /\ checked' \in [Commits -> 0 .. 2]
    BY <1>24 DEF CreatePull
  <2>5. deaths' \in 0 .. MaxDeaths /\ faults' \in 0 .. MaxFaults /\ foreign' \in 0 .. MaxForeign
    BY <1>24 DEF CreatePull
  <2> QED BY <2>1, <2>2, <2>3, <2>4, <2>5
<1>25. CASE RecordOpened
  <2>1. call' \in Calls
    <3> HIDE DEF Calls, Idle
    <3> QED BY <1>25, CallForms DEF RecordOpened
  <2>2. answer' \in Statuses \cup Refusals \cup {"none"} /\ journal' \in Journals
    BY <1>25 DEF RecordOpened
  <2>3. /\ mainMoved' \in BOOLEAN /\ pull' \in BOOLEAN /\ remote' \in Commits \cup {Foreign, None}
    BY <1>25 DEF RecordOpened
  <2>4. /\ tree' \in {"absent", "detached", "branch"} /\ provisioned' \in BOOLEAN
        /\ head' \in Commits \cup {Base, Foreign, None}
        /\ files' \in {"before", "mixed", "after"}
        /\ branch' \in Commits \cup {Base, Foreign, None}
        /\ checked' \in [Commits -> 0 .. 2]
    BY <1>25 DEF RecordOpened
  <2>5. deaths' \in 0 .. MaxDeaths /\ faults' \in 0 .. MaxFaults /\ foreign' \in 0 .. MaxForeign
    BY <1>25 DEF RecordOpened
  <2> QED BY <2>1, <2>2, <2>3, <2>4, <2>5
<1>26. CASE Answer
  <2>1. call' \in Calls
    <3> HIDE DEF Calls, Idle
    <3> QED BY <1>26, CallForms DEF Answer
  <2>2. answer' \in Statuses \cup Refusals \cup {"none"} /\ journal' \in Journals
    BY <1>26 DEF Answer
  <2>3. /\ mainMoved' \in BOOLEAN /\ pull' \in BOOLEAN /\ remote' \in Commits \cup {Foreign, None}
    BY <1>26 DEF Answer
  <2>4. /\ tree' \in {"absent", "detached", "branch"} /\ provisioned' \in BOOLEAN
        /\ head' \in Commits \cup {Base, Foreign, None}
        /\ files' \in {"before", "mixed", "after"}
        /\ branch' \in Commits \cup {Base, Foreign, None}
        /\ checked' \in [Commits -> 0 .. 2]
    BY <1>26 DEF Answer
  <2>5. deaths' \in 0 .. MaxDeaths /\ faults' \in 0 .. MaxFaults /\ foreign' \in 0 .. MaxForeign
    BY <1>26 DEF Answer
  <2> QED BY <2>1, <2>2, <2>3, <2>4, <2>5
<1>27. CASE Die
  BY <1>27 DEF Die
<1>28. CASE Others
  <2>1. call' \in Calls
    <3> HIDE DEF Calls, Idle
    <3> QED BY <1>28, CallForms DEF Others
  <2>2. answer' \in Statuses \cup Refusals \cup {"none"} /\ journal' \in Journals
    BY <1>28 DEF Others
  <2>3. /\ mainMoved' \in BOOLEAN /\ pull' \in BOOLEAN /\ remote' \in Commits \cup {Foreign, None}
    BY <1>28 DEF Others
  <2>4. /\ tree' \in {"absent", "detached", "branch"} /\ provisioned' \in BOOLEAN
        /\ head' \in Commits \cup {Base, Foreign, None}
        /\ files' \in {"before", "mixed", "after"}
        /\ branch' \in Commits \cup {Base, Foreign, None}
        /\ checked' \in [Commits -> 0 .. 2]
    BY <1>28 DEF Others
  <2>5. deaths' \in 0 .. MaxDeaths /\ faults' \in 0 .. MaxFaults /\ foreign' \in 0 .. MaxForeign
    BY <1>28 DEF Others
  <2> QED BY <2>1, <2>2, <2>3, <2>4, <2>5
<1>29. CASE UNCHANGED draftVars
  BY <1>29
<1>30. CASE CommitAstray
  <2>1. call' \in Calls
    <3> HIDE DEF Calls, Idle
    <3> QED BY <1>30, CallForms DEF CommitAstray
  <2>2. answer' \in Statuses \cup Refusals \cup {"none"}
    BY <1>30 DEF CommitAstray
  <2>3. UNCHANGED <<world, local, journal, spent>>
    BY <1>30 DEF CommitAstray
  <2> QED BY <2>1, <2>2, <2>3
<1> QED BY <1>1, <1>2, <1>3, <1>4, <1>5, <1>6, <1>7, <1>8, <1>9, <1>10, <1>11, <1>12, <1>13, <1>14, <1>15, <1>16, <1>17, <1>18, <1>19, <1>20, <1>21, <1>22, <1>23, <1>24, <1>25, <1>26, <1>27, <1>28, <1>29, <1>30 DEF DraftNext, DraftStep

LEMMA DraftInvNext == DraftInv /\ [DraftNext]_draftVars => DraftInv'
<1> SUFFICES ASSUME DraftInv, [DraftNext]_draftVars, DraftTypeOK'
             PROVE (JournalBound /\ CallBound /\ PublishedIsProven)'
  BY DraftTyped DEF DraftInv
<1> USE DEF DraftInv
<1>1. ASSUME NEW push \in BOOLEAN, NEW open \in BOOLEAN, Press(push, open)
      PROVE (JournalBound /\ CallBound /\ PublishedIsProven)'
  BY <1>1 DEF Press
<1>2. CASE Begin
  BY <1>2 DEF Begin
<1>3. CASE ResumeBuilding
  BY <1>3 DEF ResumeBuilding
<1>4. CASE ResumeCommitted
  BY <1>4 DEF ResumeCommitted
<1>5. CASE ResumeUnproven
  BY <1>5 DEF ResumeUnproven
<1>6. CASE StartRefused
  BY <1>6 DEF StartRefused
<1>7. CASE RemoveWorktree
  BY <1>7 DEF RemoveWorktree
<1>8. CASE AddWorktree
  BY <1>8 DEF AddWorktree
<1>9. CASE NameBranch
  BY <1>9 DEF NameBranch
<1>10. CASE RecordCreated
  BY <1>10 DEF RecordCreated
<1>11. CASE Provision
  BY <1>11 DEF Provision
<1>12. CASE Apply
  BY <1>12 DEF Apply
<1>13. CASE ApplyRest
  BY <1>13 DEF ApplyRest
<1>14. CASE RecordApplied
  BY <1>14 DEF RecordApplied
<1>15. CASE Verify
  BY <1>15 DEF Verify
<1>16. CASE VerifyRefused
  BY <1>16 DEF VerifyRefused
<1>17. ASSUME NEW c \in Commits, Commit(c)
      PROVE (JournalBound /\ CallBound /\ PublishedIsProven)'
  BY <1>17 DEF Commit
<1>18. CASE ProveCommit
  BY <1>18 DEF ProveCommit
<1>19. CASE ProveRefused
  BY <1>19 DEF ProveRefused
<1>20. CASE LookBeforePush
  <2>1. JournalBound'
    BY <1>20 DEF LookBeforePush
  <2>2. PublishedIsProven'
    BY <1>20 DEF LookBeforePush
  <2>3. CallBound'
    <3> DEFINE to(pc) == call' = [call EXCEPT !.pc = pc, !.status = StatusOf(journal.phase)]
    <3>1. \/ call' = Idle
          \/ to("view")
          \/ (to("pushing") \/ to("pushed")) /\ journal.phase = "committed"
      BY <1>20 DEF LookBeforePush
    <3>2. UNCHANGED <<journal, tree, branch, head, pull>> /\ call.pc = "push"
      BY <1>20 DEF LookBeforePush
    <3> HIDE DEF StatusOf
    <3>3. CASE to("view") BY <3>2, <3>3
    <3>4. CASE call' = Idle BY <3>2, <3>4
    <3>5. CASE to("pushing") /\ journal.phase = "committed" BY <3>2, <3>5
    <3>6. CASE to("pushed") /\ journal.phase = "committed" BY <3>2, <3>6
    <3> QED BY <3>1, <3>3, <3>4, <3>5, <3>6
  <2> QED BY <2>1, <2>2, <2>3
<1>21. CASE Push
  BY <1>21 DEF Push
<1>22. CASE RecordPushed
  <2>1. JournalBound'
    BY <1>22 DEF RecordPushed
  <2>2. PublishedIsProven'
    BY <1>22 DEF RecordPushed
  <2>3. CallBound'
    <3>1. CASE call' = Idle /\ UNCHANGED journal
      BY <1>22, <3>1 DEF RecordPushed
    <3>2. CASE /\ Record("pushed", journal.commit, journal.evidence)
               /\ call' = [call EXCEPT !.pc = "view", !.status = "PUSHED"]
      <4>1. call'.pc = "view"
        BY <3>2
      <4> QED BY <1>22, <2>1, <3>2, <4>1 DEF RecordPushed
    <3> QED BY <1>22, <3>1, <3>2 DEF RecordPushed
  <2> QED BY <2>1, <2>2, <2>3
<1>23. CASE ViewPull
  BY <1>23 DEF ViewPull
<1>24. CASE CreatePull
  BY <1>24 DEF CreatePull
<1>25. CASE RecordOpened
  BY <1>25 DEF RecordOpened
<1>26. CASE Answer
  BY <1>26 DEF Answer
<1>27. CASE Die
  BY <1>27 DEF Die
<1>28. CASE Others
  BY <1>28 DEF Others
<1>29. CASE UNCHANGED draftVars
  BY <1>29
<1>30. CASE CommitAstray
  <2>1. UNCHANGED <<world, local, journal>>
    BY <1>30 DEF CommitAstray
  <2>2. CASE call' = Idle
    BY <2>1, <2>2
  <2>3. CASE call' = [call EXCEPT !.pc = "prove"]
    <3>1. call'.pc = "prove" /\ call.pc = "commit"
      BY <1>30, <2>3 DEF CommitAstray
    <3> QED BY <2>1, <3>1
  <2> QED BY <1>30, <2>2, <2>3 DEF CommitAstray
<1> QED BY <1>1, <1>2, <1>3, <1>4, <1>5, <1>6, <1>7, <1>8, <1>9, <1>10, <1>11, <1>12, <1>13, <1>14, <1>15, <1>16, <1>17, <1>18, <1>19, <1>20, <1>21, <1>22, <1>23, <1>24, <1>25, <1>26, <1>27, <1>28, <1>29, <1>30 DEF DraftNext, DraftStep

LEMMA DraftInvariant == DraftSpec => []DraftInv
BY DraftInvInit, DraftInvNext, PTL DEF DraftSpec

(* For any number of commits, deaths, failures and interferences: whatever  *)
(* of ours is on the remote, or recorded as committed, has passed the       *)
(* suites before and after the commit, and the phases of the journal are    *)
(* true of the remote and of the pull request.                              *)
THEOREM DraftPublishedIsProven == DraftSpec => []PublishedIsProven
<1>1. DraftInv => PublishedIsProven
  BY DEF DraftInv
<1> QED BY DraftInvariant, <1>1, PTL

(* The state keeps its type.                                                *)
THEOREM DraftTypeCorrect == DraftSpec => []DraftTypeOK
<1>1. DraftInv => DraftTypeOK
  BY DEF DraftInv
<1> QED BY DraftInvariant, <1>1, PTL

Kept ==
  /\ remote # None => remote' \in {remote, Foreign}
  /\ journal.phase \in Published =>
       /\ journal'.phase \in Published /\ journal'.commit = journal.commit
       /\ journal.phase = "draft-pr-opened" => journal'.phase = journal.phase

LEMMA KeptNext == DraftInv /\ [DraftNext]_draftVars => Kept
<1> SUFFICES ASSUME DraftInv, [DraftNext]_draftVars PROVE Kept
  OBVIOUS
<1> USE DEF DraftInv, Kept
<1>1. ASSUME NEW push \in BOOLEAN, NEW open \in BOOLEAN, Press(push, open)
      PROVE Kept
  BY <1>1 DEF Press
<1>2. CASE Begin
  BY <1>2 DEF Begin
<1>3. CASE ResumeBuilding
  BY <1>3 DEF ResumeBuilding
<1>4. CASE ResumeCommitted
  BY <1>4 DEF ResumeCommitted
<1>5. CASE ResumeUnproven
  BY <1>5 DEF ResumeUnproven
<1>6. CASE StartRefused
  BY <1>6 DEF StartRefused
<1>7. CASE RemoveWorktree
  BY <1>7 DEF RemoveWorktree
<1>8. CASE AddWorktree
  BY <1>8 DEF AddWorktree
<1>9. CASE NameBranch
  BY <1>9 DEF NameBranch
<1>10. CASE RecordCreated
  BY <1>10 DEF RecordCreated
<1>11. CASE Provision
  BY <1>11 DEF Provision
<1>12. CASE Apply
  BY <1>12 DEF Apply
<1>13. CASE ApplyRest
  BY <1>13 DEF ApplyRest
<1>14. CASE RecordApplied
  BY <1>14 DEF RecordApplied
<1>15. CASE Verify
  BY <1>15 DEF Verify
<1>16. CASE VerifyRefused
  BY <1>16 DEF VerifyRefused
<1>17. ASSUME NEW c \in Commits, Commit(c)
      PROVE Kept
  BY <1>17 DEF Commit
<1>18. CASE ProveCommit
  BY <1>18 DEF ProveCommit
<1>19. CASE ProveRefused
  BY <1>19 DEF ProveRefused
<1>20. CASE LookBeforePush
  BY <1>20 DEF LookBeforePush
<1>21. CASE Push
  BY <1>21 DEF Push
<1>22. CASE RecordPushed
  BY <1>22 DEF RecordPushed
<1>23. CASE ViewPull
  BY <1>23 DEF ViewPull
<1>24. CASE CreatePull
  BY <1>24 DEF CreatePull
<1>25. CASE RecordOpened
  BY <1>25 DEF RecordOpened
<1>26. CASE Answer
  BY <1>26 DEF Answer
<1>27. CASE Die
  BY <1>27 DEF Die
<1>28. CASE Others
  BY <1>28 DEF Others
<1>29. CASE UNCHANGED draftVars
  BY <1>29
<1>30. CASE CommitAstray
  BY <1>30 DEF CommitAstray
<1> QED BY <1>1, <1>2, <1>3, <1>4, <1>5, <1>6, <1>7, <1>8, <1>9, <1>10, <1>11, <1>12, <1>13, <1>14, <1>15, <1>16, <1>17, <1>18, <1>19, <1>20, <1>21, <1>22, <1>23, <1>24, <1>25, <1>26, <1>27, <1>28, <1>29, <1>30 DEF DraftNext, DraftStep

(* No step, of a call, of a death or of a later call, replaces a branch that *)
(* is on the remote or takes back a published phase.                         *)
THEOREM DraftNeverReplaced == DraftSpec => NeverReplaced
<1>1. DraftInv /\ [DraftNext]_draftVars => [Kept]_draftVars
  BY KeptNext
<1> QED BY DraftInvariant, <1>1, PTL DEF DraftSpec, NeverReplaced, Kept

(* What the call in progress will say agrees with the journal, and nothing *)
(* has been said before the call ends.                                     *)
StatusBound ==
  /\ call.pc # "idle" => answer = "none"
  /\ call.pc \in {"pushing", "pushed"} => call.status = "LOCAL_READY"
  /\ call.pc \in {"view", "create", "opened", "final"} =>
       /\ call.status = "PUSHED" => journal.phase = "pushed"
       /\ call.status \in {"DRAFT_PR_OPENED", "ALREADY_PREPARED"} =>
            journal.phase = "draft-pr-opened"
  /\ AnswersBacked

LEMMA StatusNext == DraftInv /\ StatusBound /\ [DraftNext]_draftVars => StatusBound'
<1> SUFFICES ASSUME DraftInv, StatusBound, [DraftNext]_draftVars PROVE StatusBound'
  OBVIOUS
<1> USE DEF DraftInv, StatusBound, AnswersBacked
<1>1. ASSUME NEW push \in BOOLEAN, NEW open \in BOOLEAN, Press(push, open)
      PROVE StatusBound'
  BY <1>1 DEF Press
<1>2. CASE Begin
  BY <1>2 DEF Begin
<1>3. CASE ResumeBuilding
  BY <1>3 DEF ResumeBuilding
<1>4. CASE ResumeCommitted
  BY <1>4 DEF ResumeCommitted
<1>5. CASE ResumeUnproven
  BY <1>5 DEF ResumeUnproven
<1>6. CASE StartRefused
  BY <1>6 DEF StartRefused
<1>7. CASE RemoveWorktree
  BY <1>7 DEF RemoveWorktree
<1>8. CASE AddWorktree
  BY <1>8 DEF AddWorktree
<1>9. CASE NameBranch
  BY <1>9 DEF NameBranch
<1>10. CASE RecordCreated
  BY <1>10 DEF RecordCreated
<1>11. CASE Provision
  BY <1>11 DEF Provision
<1>12. CASE Apply
  BY <1>12 DEF Apply
<1>13. CASE ApplyRest
  BY <1>13 DEF ApplyRest
<1>14. CASE RecordApplied
  BY <1>14 DEF RecordApplied
<1>15. CASE Verify
  BY <1>15 DEF Verify
<1>16. CASE VerifyRefused
  BY <1>16 DEF VerifyRefused
<1>17. ASSUME NEW c \in Commits, Commit(c)
      PROVE StatusBound'
  BY <1>17 DEF Commit
<1>18. CASE ProveCommit
  BY <1>18 DEF ProveCommit
<1>19. CASE ProveRefused
  BY <1>19 DEF ProveRefused
<1>20. CASE LookBeforePush
  <2> DEFINE to(pc) == call' = [call EXCEPT !.pc = pc, !.status = StatusOf(journal.phase)]
  <2>1. \/ call' = Idle /\ answer' \in Refusals
        \/ to("view") /\ UNCHANGED answer
        \/ (to("pushing") \/ to("pushed")) /\ journal.phase = "committed" /\ UNCHANGED answer
    BY <1>20 DEF LookBeforePush
  <2>2. UNCHANGED journal /\ answer = "none" /\ DOMAIN call = {"pc", "push", "open", "status"}
    BY <1>20 DEF LookBeforePush
  <2>3. CASE call' = Idle /\ answer' \in Refusals BY <2>2, <2>3
  <2>4. CASE to("view") /\ UNCHANGED answer
    <3>1. call'.pc = "view" /\ call'.status = StatusOf(journal.phase)
      BY <2>2, <2>4
    <3>2. journal.phase \in {"committed", "pushed", "draft-pr-opened"}
      BY <1>20 DEF LookBeforePush
    <3> QED BY <2>2, <2>4, <3>1, <3>2
  <2>5. CASE (to("pushing") \/ to("pushed")) /\ journal.phase = "committed" /\ UNCHANGED answer
    <3>1. call'.pc \in {"pushing", "pushed"} /\ call'.status = "LOCAL_READY"
      BY <2>2, <2>5
    <3> QED BY <2>2, <2>5, <3>1
  <2> QED BY <2>1, <2>3, <2>4, <2>5
<1>21. CASE Push
  BY <1>21 DEF Push
<1>22. CASE RecordPushed
  <2>1. answer = "none" /\ DOMAIN call = {"pc", "push", "open", "status"}
    BY <1>22 DEF RecordPushed
  <2>2. CASE call' = Idle /\ answer' = "remote_branch_moved" /\ UNCHANGED journal
    BY <2>1, <2>2
  <2>3. CASE /\ Record("pushed", journal.commit, journal.evidence)
             /\ call' = [call EXCEPT !.pc = "view", !.status = "PUSHED"] /\ UNCHANGED answer
    <3>1. call'.pc = "view" /\ call'.status = "PUSHED" /\ answer' = "none"
      BY <2>1, <2>3
    <3>2. journal'.phase = "pushed"
      BY <2>3
    <3> QED BY <3>1, <3>2
  <2> QED BY <1>22, <2>2, <2>3 DEF RecordPushed
<1>23. CASE ViewPull
  BY <1>23 DEF ViewPull
<1>24. CASE CreatePull
  BY <1>24 DEF CreatePull
<1>25. CASE RecordOpened
  BY <1>25 DEF RecordOpened
<1>26. CASE Answer
  BY <1>26 DEF Answer
<1>27. CASE Die
  BY <1>27 DEF Die
<1>28. CASE Others
  BY <1>28 DEF Others
<1>29. CASE UNCHANGED draftVars
  BY <1>29
<1>30. CASE CommitAstray
  BY <1>30 DEF CommitAstray
<1> QED BY <1>1, <1>2, <1>3, <1>4, <1>5, <1>6, <1>7, <1>8, <1>9, <1>10, <1>11, <1>12, <1>13, <1>14, <1>15, <1>16, <1>17, <1>18, <1>19, <1>20, <1>21, <1>22, <1>23, <1>24, <1>25, <1>26, <1>27, <1>28, <1>29, <1>30 DEF DraftNext, DraftStep

(* What a call told the reviewer stays backed by the journal: a prepared    *)
(* branch by its proven commit, a pushed or opened one by its phase.        *)
THEOREM DraftAnswersBacked == DraftSpec => []AnswersBacked
<1>1. DraftInit => StatusBound
  BY DEF DraftInit, StatusBound, AnswersBacked
<1>2. StatusBound => AnswersBacked
  BY DEF StatusBound
<1> QED BY DraftInvariant, StatusNext, <1>1, <1>2, PTL DEF DraftSpec

HIDE DraftAssumption DEF draftVars, world, local, spent, At, Goto, Refuse, Keep,
  Fault, Record, Proven, Phases, Published, NoJournal, Journals, Steps, Refusals,
  Statuses, Calls, Idle, StatusOf, DraftTypeOK
HIDE DEF Building, Publishing, JournalBound, CallBound, PublishedIsProven

-----------------------------------------------------------------------------
(* The admission of its evidence *)

USE EvidenceAssumption DEF admVars, outside, counted, Is, To, End, Abort, Trouble, Audited

Later == {"provision", "apply", "rebuild", "verify", "hash", "audit", "publish", "after", "cleanup"}
Points == {"new", "preview", "look", "add", "ended"} \cup Later
Outcomes == {"none", "refused", "NO_MEASURABLE_EFFECT", "ALREADY_ADMITTED", "ADMITTED",
             "cleanup_failed", "killed"}
CallStates == [pc : Points, decisions : SUBSET Decisions, reds : SUBSET Reds,
               tree : {"none", "reviewed", "other"}, outcome : Outcomes]
Manifests == [decisions : SUBSET Decisions, by : Admissions,
              tree : {"none", "reviewed", "other"}, reds : SUBSET Reds]

AdmTyped ==
  /\ adm \in [Admissions -> CallStates] /\ stray \in [Admissions -> BOOLEAN]
  /\ manifests \subseteq Manifests /\ evidence \in Evidence

(* What a call has established when it reaches a point.                    *)
CallWarrants ==
  \A a \in Admissions :
    /\ adm[a].pc \in {"look", "add"} \cup (Later \ {"cleanup"}) =>
         evidence.reviewed = evidence.changed \/ evidence.lane = "fixture"
    /\ adm[a].pc \in {"hash", "audit", "publish"} => (adm[a].reds # {} => Classified(adm[a].reds))
    /\ adm[a].pc \in {"audit", "publish"} => adm[a].tree = "reviewed" \/ stray[a]
    /\ adm[a].pc = "publish" => adm[a].tree = "reviewed"
    /\ adm[a].pc = "audit" => adm[a].tree # "none"

(* Who wrote a manifest, and who says so.                                  *)
CallOwns ==
  /\ \A m \in manifests : adm[m.by].decisions = m.decisions /\ adm[m.by].pc # "new"
  /\ \A m, n \in manifests : m.decisions = n.decisions => m = n
  /\ \A a \in Admissions :
       /\ adm[a].outcome = "ADMITTED" => \E m \in manifests : m.by = a /\ m.decisions = adm[a].decisions
       /\ adm[a].outcome = "ALREADY_ADMITTED" => \E m \in manifests : m.decisions = adm[a].decisions
       /\ adm[a].pc \notin {"after", "cleanup", "ended"} => adm[a].outcome = "none"

AdmInv == AdmTyped /\ CallWarrants /\ CallOwns /\ ManifestsWarranted

USE DEF Later, Points, Outcomes

LEMMA AdmInvInit == AdmInit => AdmInv
BY DEF AdmInit, AdmInv, AdmTyped, CallStates, CallWarrants, CallOwns, ManifestsWarranted

LEMMA AdmTypedNext == AdmTyped /\ [AdmNext]_admVars => AdmTyped'
<1> SUFFICES ASSUME AdmTyped, [AdmNext]_admVars PROVE AdmTyped'
  OBVIOUS
<1> USE DEF AdmTyped, CallStates, Manifests
<1>1. ASSUME NEW a \in Admissions, NEW d \in Decisions, Admit(a, d)
      PROVE AdmTyped'
  <2>1. [adm[a] EXCEPT !.pc = "preview", !.decisions = {d}] \in CallStates
    <3> DEFINE c == adm[a]
    <3>1. c \in CallStates
      OBVIOUS
    <3> HIDE DEF c
    <3>2. DOMAIN c = {"pc", "decisions", "reds", "tree", "outcome"}
      BY <3>1
    <3> DEFINE d1 == [c EXCEPT !.pc = "preview"]
    <3>3. d1 \in CallStates
      BY <3>1, <3>2
    <3>4. DOMAIN d1 = {"pc", "decisions", "reds", "tree", "outcome"}
      BY <3>3
    <3>5. [c EXCEPT !.pc = "preview", !.decisions = {d}] = [d1 EXCEPT !.decisions = {d}]
      OBVIOUS
    <3> HIDE DEF d1
    <3>6. [d1 EXCEPT !.decisions = {d}] \in CallStates
      BY <3>3, <3>4
    <3> QED BY <3>5, <3>6 DEF c
  <2>2. adm' = [adm EXCEPT ![a] = [adm[a] EXCEPT !.pc = "preview", !.decisions = {d}]]
    BY <1>1 DEF Admit
  <2> HIDE DEF CallStates
  <2> QED BY <1>1, <2>1, <2>2 DEF Admit
<1>2. ASSUME NEW a \in Admissions, PreviewEvidence(a)
      PROVE AdmTyped'
  BY <1>2 DEF PreviewEvidence
<1>3. ASSUME NEW a \in Admissions, LookForManifest(a)
      PROVE AdmTyped'
  BY <1>3 DEF LookForManifest
<1>4. ASSUME NEW a \in Admissions, AddSite(a)
      PROVE AdmTyped'
  BY <1>4 DEF AddSite
<1>5. ASSUME NEW a \in Admissions, ProvisionSite(a)
      PROVE AdmTyped'
  BY <1>5 DEF ProvisionSite
<1>6. ASSUME NEW a \in Admissions, ApplySources(a)
      PROVE AdmTyped'
  BY <1>6 DEF ApplySources
<1>7. ASSUME NEW a \in Admissions, Rebuild(a)
      PROVE AdmTyped'
  BY <1>7 DEF Rebuild
<1>8. ASSUME NEW a \in Admissions, VerifySite(a)
      PROVE AdmTyped'
  BY <1>8 DEF VerifySite
<1>9. ASSUME NEW a \in Admissions, HashTree(a)
      PROVE AdmTyped'
  <2> DEFINE hashed == IF stray[a] THEN "other" ELSE "reviewed"
  <2>1. [adm[a] EXCEPT !.pc = "audit", !.tree = hashed] \in CallStates
    <3> DEFINE c == adm[a]
    <3>1. c \in CallStates
      OBVIOUS
    <3> HIDE DEF c
    <3>2. DOMAIN c = {"pc", "decisions", "reds", "tree", "outcome"}
      BY <3>1
    <3> DEFINE d1 == [c EXCEPT !.pc = "audit"]
    <3>3. d1 \in CallStates
      BY <3>1, <3>2
    <3>4. DOMAIN d1 = {"pc", "decisions", "reds", "tree", "outcome"}
      BY <3>3
    <3>5. [c EXCEPT !.pc = "audit", !.tree = hashed] = [d1 EXCEPT !.tree = hashed]
      OBVIOUS
    <3> HIDE DEF d1
    <3>6. [d1 EXCEPT !.tree = hashed] \in CallStates
      BY <3>3, <3>4
    <3> QED BY <3>5, <3>6 DEF c
  <2>2. adm' = [adm EXCEPT ![a] = [adm[a] EXCEPT !.pc = "audit", !.tree = hashed]]
    BY <1>9 DEF HashTree
  <2> HIDE DEF CallStates, hashed
  <2> QED BY <1>9, <2>1, <2>2 DEF HashTree
<1>10. ASSUME NEW a \in Admissions, AuditTree(a)
      PROVE AdmTyped'
  BY <1>10 DEF AuditTree
<1>11. ASSUME NEW a \in Admissions, PublishManifest(a)
      PROVE AdmTyped'
  BY <1>11 DEF PublishManifest
<1>12. ASSUME NEW a \in Admissions, AfterPublish(a)
      PROVE AdmTyped'
  BY <1>12 DEF AfterPublish
<1>13. ASSUME NEW a \in Admissions, CleanUp(a)
      PROVE AdmTyped'
  BY <1>13 DEF CleanUp
<1>14. ASSUME NEW a \in Admissions, Kill(a)
      PROVE AdmTyped'
  <2>1. [adm[a] EXCEPT !.pc = "ended", !.outcome = "killed"] \in CallStates
    <3> DEFINE c == adm[a]
    <3>1. c \in CallStates
      OBVIOUS
    <3> HIDE DEF c
    <3>2. DOMAIN c = {"pc", "decisions", "reds", "tree", "outcome"}
      BY <3>1
    <3> DEFINE d1 == [c EXCEPT !.pc = "ended"]
    <3>3. d1 \in CallStates
      BY <3>1, <3>2
    <3>4. DOMAIN d1 = {"pc", "decisions", "reds", "tree", "outcome"}
      BY <3>3
    <3>5. [c EXCEPT !.pc = "ended", !.outcome = "killed"] = [d1 EXCEPT !.outcome = "killed"]
      OBVIOUS
    <3> HIDE DEF d1
    <3>6. [d1 EXCEPT !.outcome = "killed"] \in CallStates
      BY <3>3, <3>4
    <3> QED BY <3>5, <3>6 DEF c
  <2>2. adm' = [adm EXCEPT ![a] = [adm[a] EXCEPT !.pc = "ended", !.outcome = "killed"]]
    BY <1>14 DEF Kill
  <2> HIDE DEF CallStates
  <2> QED BY <1>14, <2>1, <2>2 DEF Kill
<1>15. CASE Mischief
  BY <1>15 DEF Mischief
<1>16. CASE UNCHANGED admVars
  BY <1>16
<1> QED BY <1>1, <1>2, <1>3, <1>4, <1>5, <1>6, <1>7, <1>8, <1>9, <1>10, <1>11, <1>12, <1>13, <1>14, <1>15, <1>16 DEF AdmNext, AdmStep

LEMMA EvidenceKept == AdmTyped /\ [AdmNext]_admVars =>
  evidence' = evidence /\ \A reds : Classified(reds)' = Classified(reds)
<1> SUFFICES ASSUME AdmTyped, [AdmNext]_admVars PROVE evidence' = evidence
  BY DEF Classified
<1>1. ASSUME NEW a \in Admissions, NEW d \in Decisions, Admit(a, d)
      PROVE evidence' = evidence
  BY <1>1 DEF Admit
<1>2. ASSUME NEW a \in Admissions, PreviewEvidence(a)
      PROVE evidence' = evidence
  BY <1>2 DEF PreviewEvidence
<1>3. ASSUME NEW a \in Admissions, LookForManifest(a)
      PROVE evidence' = evidence
  BY <1>3 DEF LookForManifest
<1>4. ASSUME NEW a \in Admissions, AddSite(a)
      PROVE evidence' = evidence
  BY <1>4 DEF AddSite
<1>5. ASSUME NEW a \in Admissions, ProvisionSite(a)
      PROVE evidence' = evidence
  BY <1>5 DEF ProvisionSite
<1>6. ASSUME NEW a \in Admissions, ApplySources(a)
      PROVE evidence' = evidence
  BY <1>6 DEF ApplySources
<1>7. ASSUME NEW a \in Admissions, Rebuild(a)
      PROVE evidence' = evidence
  BY <1>7 DEF Rebuild
<1>8. ASSUME NEW a \in Admissions, VerifySite(a)
      PROVE evidence' = evidence
  BY <1>8 DEF VerifySite
<1>9. ASSUME NEW a \in Admissions, HashTree(a)
      PROVE evidence' = evidence
  BY <1>9 DEF HashTree
<1>10. ASSUME NEW a \in Admissions, AuditTree(a)
      PROVE evidence' = evidence
  BY <1>10 DEF AuditTree
<1>11. ASSUME NEW a \in Admissions, PublishManifest(a)
      PROVE evidence' = evidence
  BY <1>11 DEF PublishManifest
<1>12. ASSUME NEW a \in Admissions, AfterPublish(a)
      PROVE evidence' = evidence
  BY <1>12 DEF AfterPublish
<1>13. ASSUME NEW a \in Admissions, CleanUp(a)
      PROVE evidence' = evidence
  BY <1>13 DEF CleanUp
<1>14. ASSUME NEW a \in Admissions, Kill(a)
      PROVE evidence' = evidence
  BY <1>14 DEF Kill
<1>15. CASE Mischief
  BY <1>15 DEF Mischief
<1>16. CASE UNCHANGED admVars
  BY <1>16
<1> QED BY <1>1, <1>2, <1>3, <1>4, <1>5, <1>6, <1>7, <1>8, <1>9, <1>10, <1>11, <1>12, <1>13, <1>14, <1>15, <1>16 DEF AdmNext, AdmStep

LEMMA CallWarrantsNext == AdmInv /\ [AdmNext]_admVars => CallWarrants'
<1> SUFFICES ASSUME AdmInv, [AdmNext]_admVars PROVE CallWarrants'
  OBVIOUS
<1> AdmTyped /\ CallWarrants /\ AdmTyped' /\ evidence' = evidence /\ \A reds : Classified(reds)' = Classified(reds)
  BY AdmTypedNext, EvidenceKept DEF AdmInv
<1> USE DEF AdmTyped, CallStates, CallWarrants
<1>1. ASSUME NEW a \in Admissions, NEW d \in Decisions, Admit(a, d)
      PROVE CallWarrants'
  BY <1>1 DEF Admit
<1>2. ASSUME NEW a \in Admissions, PreviewEvidence(a)
      PROVE CallWarrants'
  <2>1. StateHolds => evidence.reviewed = evidence.changed \/ evidence.lane = "fixture"
    BY DEF StateHolds, Previewable, ComparisonReviewed
  <2>2. \A b \in Admissions \ {a} : adm'[b] = adm[b]
    BY <1>2 DEF PreviewEvidence
  <2>3. adm'[a].pc = "ended" \/ (adm'[a].pc = "look" /\ StateHolds)
    BY <1>2 DEF PreviewEvidence
  <2>4. stray' = stray
    BY <1>2 DEF PreviewEvidence
  <2> HIDE DEF CallStates
  <2> QED BY <2>1, <2>2, <2>3, <2>4
<1>3. ASSUME NEW a \in Admissions, LookForManifest(a)
      PROVE CallWarrants'
  BY <1>3 DEF LookForManifest
<1>4. ASSUME NEW a \in Admissions, AddSite(a)
      PROVE CallWarrants'
  BY <1>4 DEF AddSite
<1>5. ASSUME NEW a \in Admissions, ProvisionSite(a)
      PROVE CallWarrants'
  BY <1>5 DEF ProvisionSite
<1>6. ASSUME NEW a \in Admissions, ApplySources(a)
      PROVE CallWarrants'
  BY <1>6 DEF ApplySources
<1>7. ASSUME NEW a \in Admissions, Rebuild(a)
      PROVE CallWarrants'
  BY <1>7 DEF Rebuild
<1>8. ASSUME NEW a \in Admissions, VerifySite(a)
      PROVE CallWarrants'
  BY <1>8 DEF VerifySite
<1>9. ASSUME NEW a \in Admissions, HashTree(a)
      PROVE CallWarrants'
  BY <1>9 DEF HashTree
<1>10. ASSUME NEW a \in Admissions, AuditTree(a)
      PROVE CallWarrants'
  BY <1>10 DEF AuditTree
<1>11. ASSUME NEW a \in Admissions, PublishManifest(a)
      PROVE CallWarrants'
  BY <1>11 DEF PublishManifest
<1>12. ASSUME NEW a \in Admissions, AfterPublish(a)
      PROVE CallWarrants'
  BY <1>12 DEF AfterPublish
<1>13. ASSUME NEW a \in Admissions, CleanUp(a)
      PROVE CallWarrants'
  BY <1>13 DEF CleanUp
<1>14. ASSUME NEW a \in Admissions, Kill(a)
      PROVE CallWarrants'
  BY <1>14 DEF Kill
<1>15. CASE Mischief
  BY <1>15 DEF Mischief
<1>16. CASE UNCHANGED admVars
  BY <1>16
<1> QED BY <1>1, <1>2, <1>3, <1>4, <1>5, <1>6, <1>7, <1>8, <1>9, <1>10, <1>11, <1>12, <1>13, <1>14, <1>15, <1>16 DEF AdmNext, AdmStep

(* A step of one call that claims nothing new and writes no manifest.      *)
LEMMA OneCallMoves ==
  ASSUME AdmTyped, AdmTyped', CallOwns, NEW a \in Admissions, manifests' = manifests,
         \A b \in Admissions \ {a} : adm'[b] = adm[b],
         adm'[a].decisions = adm[a].decisions, adm'[a].pc # "new",
         adm'[a].outcome \in {adm[a].outcome, "none", "refused", "NO_MEASURABLE_EFFECT",
                              "cleanup_failed", "killed"},
         adm'[a].pc \notin {"after", "cleanup", "ended"} => adm'[a].outcome = "none"
  PROVE  CallOwns'
BY DEF AdmTyped, Manifests, CallOwns

(* A call that has no outcome yet moves on, or gives up.                   *)
LEMMA CallGoesOn ==
  ASSUME AdmTyped, AdmTyped', CallOwns, NEW a \in Admissions, manifests' = manifests,
         adm[a].pc \notin {"after", "cleanup", "ended"},
         NEW pc, pc # "new", To(a, pc) \/ Abort(a)
  PROVE  CallOwns'
<1>1. adm[a] \in CallStates /\ adm[a].outcome = "none"
  BY DEF AdmTyped, CallOwns
<1>2. CASE To(a, pc)
  <2>1. /\ adm'[a].decisions = adm[a].decisions /\ adm'[a].pc # "new"
        /\ adm'[a].outcome = "none"
    BY <1>1, <1>2 DEF AdmTyped, CallStates, To
  <2>2. \A b \in Admissions \ {a} : adm'[b] = adm[b]
    BY <1>2 DEF AdmTyped, To
  <2> QED BY <2>1, <2>2, OneCallMoves
<1>3. CASE Abort(a)
  <2>1. /\ adm'[a].decisions = adm[a].decisions /\ adm'[a].pc = "cleanup"
        /\ adm'[a].outcome = "refused"
    BY <1>1, <1>3 DEF AdmTyped, CallStates, Abort
  <2>2. \A b \in Admissions \ {a} : adm'[b] = adm[b]
    BY <1>3 DEF AdmTyped, Abort
  <2> QED BY <2>1, <2>2, OneCallMoves
<1> QED BY <1>2, <1>3

LEMMA CallOwnsNext == AdmInv /\ [AdmNext]_admVars => CallOwns'
<1> SUFFICES ASSUME AdmInv, [AdmNext]_admVars PROVE CallOwns'
  OBVIOUS
<1> AdmTyped /\ CallOwns /\ AdmTyped'
  BY AdmTypedNext DEF AdmInv
<1> USE DEF AdmTyped, CallStates, Manifests, CallOwns, Existing
<1>1. ASSUME NEW a \in Admissions, NEW d \in Decisions, Admit(a, d)
      PROVE CallOwns'
  BY <1>1 DEF Admit
<1>2. ASSUME NEW a \in Admissions, PreviewEvidence(a)
      PROVE CallOwns'
  <2>1. adm'[a].decisions = adm[a].decisions /\ adm'[a].pc # "new" /\ adm'[a].pc \notin {"after", "cleanup"}
    BY <1>2 DEF PreviewEvidence
  <2>2. /\ adm'[a].outcome \in {"none", "refused", "NO_MEASURABLE_EFFECT"}
        /\ adm'[a].pc # "ended" => adm'[a].outcome = "none"
    <3> adm[a].pc = "preview" /\ adm[a].outcome = "none" /\ adm[a] \in CallStates
      BY <1>2 DEF PreviewEvidence
    <3>1. CASE End(a, "refused")
      BY <3>1
    <3>2. CASE End(a, "NO_MEASURABLE_EFFECT")
      BY <3>2
    <3>3. CASE To(a, "look")
      BY <3>3
    <3> QED BY <1>2, <3>1, <3>2, <3>3 DEF PreviewEvidence
  <2>3. \A b \in Admissions \ {a} : adm'[b] = adm[b]
    BY <1>2 DEF PreviewEvidence
  <2>4. manifests' = manifests
    BY <1>2 DEF PreviewEvidence
  <2> HIDE DEF CallStates, CallOwns, AdmTyped
  <2> QED BY <2>1, <2>2, <2>3, <2>4, OneCallMoves
<1>3. ASSUME NEW a \in Admissions, LookForManifest(a)
      PROVE CallOwns'
  BY <1>3, SMTT(20) DEF LookForManifest
<1>4. ASSUME NEW a \in Admissions, AddSite(a)
      PROVE CallOwns'
  BY <1>4 DEF AddSite
<1>5. ASSUME NEW a \in Admissions, ProvisionSite(a)
      PROVE CallOwns'
  <2> HIDE DEF CallStates, CallOwns, AdmTyped, To, Abort
  <2>1. adm[a].pc \notin {"after", "cleanup", "ended"} /\ manifests' = manifests
    BY <1>5 DEF ProvisionSite, Is
  <2>2. To(a, "apply") \/ Abort(a)
    BY <1>5 DEF ProvisionSite
  <2> QED BY <2>1, <2>2, CallGoesOn
<1>6. ASSUME NEW a \in Admissions, ApplySources(a)
      PROVE CallOwns'
  <2> HIDE DEF CallStates, CallOwns, AdmTyped, To, Abort
  <2>1. adm[a].pc \notin {"after", "cleanup", "ended"} /\ manifests' = manifests
    BY <1>6 DEF ApplySources, Is
  <2>2. To(a, "rebuild") \/ Abort(a)
    BY <1>6 DEF ApplySources
  <2> QED BY <2>1, <2>2, CallGoesOn
<1>7. ASSUME NEW a \in Admissions, Rebuild(a)
      PROVE CallOwns'
  <2> HIDE DEF CallStates, CallOwns, AdmTyped, To, Abort
  <2>1. adm[a].pc \notin {"after", "cleanup", "ended"} /\ manifests' = manifests
    BY <1>7 DEF Rebuild, Is
  <2>2. To(a, "verify") \/ Abort(a)
    BY <1>7 DEF Rebuild
  <2> QED BY <2>1, <2>2, CallGoesOn
<1>8. ASSUME NEW a \in Admissions, VerifySite(a)
      PROVE CallOwns'
  <2>1. /\ adm'[a].decisions = adm[a].decisions /\ adm'[a].pc # "new"
        /\ adm'[a].outcome \in {adm[a].outcome, "refused"}
        /\ adm'[a].pc \notin {"after", "cleanup", "ended"} => adm'[a].outcome = "none"
    <3> adm[a].pc = "verify" /\ adm[a].outcome = "none" /\ adm[a] \in CallStates
      BY <1>8 DEF VerifySite
    <3>1. CASE Abort(a)
      BY <3>1
    <3>2. ASSUME NEW reds \in SUBSET Reds, adm' = [adm EXCEPT ![a].pc = "hash", ![a].reds = reds]
          PROVE /\ adm'[a].decisions = adm[a].decisions /\ adm'[a].pc # "new"
                /\ adm'[a].outcome = adm[a].outcome
      BY <3>2
    <3> QED BY <1>8, <3>1, <3>2 DEF VerifySite
  <2>2. \A b \in Admissions \ {a} : adm'[b] = adm[b]
    BY <1>8 DEF VerifySite
  <2>3. manifests' = manifests
    BY <1>8 DEF VerifySite
  <2> HIDE DEF CallStates, CallOwns, AdmTyped
  <2> QED BY <2>1, <2>2, <2>3, OneCallMoves
<1>9. ASSUME NEW a \in Admissions, HashTree(a)
      PROVE CallOwns'
  BY <1>9 DEF HashTree
<1>10. ASSUME NEW a \in Admissions, AuditTree(a)
      PROVE CallOwns'
  <2> HIDE DEF CallStates, CallOwns, AdmTyped, To, Abort
  <2>1. adm[a].pc \notin {"after", "cleanup", "ended"} /\ manifests' = manifests
    BY <1>10 DEF AuditTree, Is
  <2>2. To(a, "publish") \/ Abort(a)
    BY <1>10 DEF AuditTree
  <2> QED BY <2>1, <2>2, CallGoesOn
<1>11. ASSUME NEW a \in Admissions, PublishManifest(a)
      PROVE CallOwns'
  BY <1>11 DEF PublishManifest
<1>12. ASSUME NEW a \in Admissions, AfterPublish(a)
      PROVE CallOwns'
  BY <1>12, SMTT(20) DEF AfterPublish
<1>13. ASSUME NEW a \in Admissions, CleanUp(a)
      PROVE CallOwns'
  <2>1. /\ adm'[a].decisions = adm[a].decisions /\ adm'[a].pc = "ended"
        /\ adm'[a].outcome \in {adm[a].outcome, "cleanup_failed"}
    <3> adm[a] \in CallStates
      OBVIOUS
    <3>1. CASE To(a, "ended")
      BY <3>1
    <3>2. CASE End(a, "cleanup_failed")
      BY <3>2
    <3> QED BY <1>13, <3>1, <3>2 DEF CleanUp
  <2>2. \A b \in Admissions \ {a} : adm'[b] = adm[b]
    BY <1>13 DEF CleanUp
  <2>3. manifests' = manifests
    BY <1>13 DEF CleanUp
  <2> HIDE DEF CallStates, CallOwns, AdmTyped
  <2> QED BY <2>1, <2>2, <2>3, OneCallMoves
<1>14. ASSUME NEW a \in Admissions, Kill(a)
      PROVE CallOwns'
  BY <1>14 DEF Kill
<1>15. CASE Mischief
  BY <1>15 DEF Mischief
<1>16. CASE UNCHANGED admVars
  BY <1>16
<1> QED BY <1>1, <1>2, <1>3, <1>4, <1>5, <1>6, <1>7, <1>8, <1>9, <1>10, <1>11, <1>12, <1>13, <1>14, <1>15, <1>16 DEF AdmNext, AdmStep

LEMMA WarrantedNext == AdmInv /\ [AdmNext]_admVars => ManifestsWarranted'
<1> SUFFICES ASSUME AdmInv, [AdmNext]_admVars PROVE ManifestsWarranted'
  OBVIOUS
<1> AdmTyped /\ CallWarrants /\ ManifestsWarranted /\ evidence' = evidence /\ \A reds : Classified(reds)' = Classified(reds)
  BY EvidenceKept DEF AdmInv
<1> USE DEF AdmTyped, CallStates, CallWarrants, ManifestsWarranted
<1>1. ASSUME NEW a \in Admissions, NEW d \in Decisions, Admit(a, d)
      PROVE ManifestsWarranted'
  BY <1>1 DEF Admit
<1>2. ASSUME NEW a \in Admissions, PreviewEvidence(a)
      PROVE ManifestsWarranted'
  BY <1>2 DEF PreviewEvidence
<1>3. ASSUME NEW a \in Admissions, LookForManifest(a)
      PROVE ManifestsWarranted'
  BY <1>3 DEF LookForManifest
<1>4. ASSUME NEW a \in Admissions, AddSite(a)
      PROVE ManifestsWarranted'
  BY <1>4 DEF AddSite
<1>5. ASSUME NEW a \in Admissions, ProvisionSite(a)
      PROVE ManifestsWarranted'
  BY <1>5 DEF ProvisionSite
<1>6. ASSUME NEW a \in Admissions, ApplySources(a)
      PROVE ManifestsWarranted'
  BY <1>6 DEF ApplySources
<1>7. ASSUME NEW a \in Admissions, Rebuild(a)
      PROVE ManifestsWarranted'
  BY <1>7 DEF Rebuild
<1>8. ASSUME NEW a \in Admissions, VerifySite(a)
      PROVE ManifestsWarranted'
  BY <1>8 DEF VerifySite
<1>9. ASSUME NEW a \in Admissions, HashTree(a)
      PROVE ManifestsWarranted'
  BY <1>9 DEF HashTree
<1>10. ASSUME NEW a \in Admissions, AuditTree(a)
      PROVE ManifestsWarranted'
  BY <1>10 DEF AuditTree
<1>11. ASSUME NEW a \in Admissions, PublishManifest(a)
      PROVE ManifestsWarranted'
  BY <1>11 DEF PublishManifest
<1>12. ASSUME NEW a \in Admissions, AfterPublish(a)
      PROVE ManifestsWarranted'
  BY <1>12 DEF AfterPublish
<1>13. ASSUME NEW a \in Admissions, CleanUp(a)
      PROVE ManifestsWarranted'
  BY <1>13 DEF CleanUp
<1>14. ASSUME NEW a \in Admissions, Kill(a)
      PROVE ManifestsWarranted'
  BY <1>14 DEF Kill
<1>15. CASE Mischief
  BY <1>15 DEF Mischief
<1>16. CASE UNCHANGED admVars
  BY <1>16
<1> QED BY <1>1, <1>2, <1>3, <1>4, <1>5, <1>6, <1>7, <1>8, <1>9, <1>10, <1>11, <1>12, <1>13, <1>14, <1>15, <1>16 DEF AdmNext, AdmStep

LEMMA AdmInvariant == AdmSpec => []AdmInv
<1>1. AdmInv /\ [AdmNext]_admVars => AdmInv'
  BY AdmTypedNext, CallWarrantsNext, CallOwnsNext, WarrantedNext DEF AdmInv
<1> QED BY AdmInvInit, <1>1, PTL DEF AdmSpec

(* Whatever is written into a worktree and whenever, a manifest names the   *)
(* reviewed tree and no red that is not classified.                         *)
THEOREM AdmissionsAreWarranted == AdmSpec => []ManifestsWarranted
<1>1. AdmInv => ManifestsWarranted
  BY DEF AdmInv
<1> QED BY AdmInvariant, <1>1, PTL

(* The same signed decisions are admitted once, by one call, and no call is  *)
(* told so without a manifest.                                               *)
THEOREM AdmissionIsOnce == AdmSpec => []AdmittedOnce
<1>1. AdmInv => AdmittedOnce
  BY DEF AdmInv, AdmTyped, CallStates, Manifests, CallOwns, AdmittedOnce, Existing
<1> QED BY AdmInvariant, <1>1, PTL

(* Both at once, as the runs check it.                                       *)
THEOREM AdmissionsHold == AdmSpec => []AdmissionHolds
<1>1. ManifestsWarranted /\ AdmittedOnce => AdmissionHolds
  BY DEF AdmissionHolds
<1> QED BY AdmissionsAreWarranted, AdmissionIsOnce, <1>1, PTL

(* Where the worktree of a call is while it goes on: before it is made, and *)
(* after a call that ended by itself, there is none in place.               *)
SitesOwned ==
  \A a \in Admissions :
    /\ adm[a].pc \in {"new", "preview", "look", "add"} => site[a] = "absent"
    /\ adm[a].pc = "ended" /\ adm[a].outcome \notin {"killed", "cleanup_failed"} =>
         site[a] \in {"absent", "quarantined"}
SitesInv == AdmTyped /\ site \in [Admissions -> {"absent", "base", "applied", "rebuilt",
                                                 "restored", "quarantined"}] /\ SitesOwned

LEMMA SitesNext == SitesInv /\ [AdmNext]_admVars => SitesInv'
<1> SUFFICES ASSUME SitesInv, [AdmNext]_admVars, AdmTyped' PROVE SitesInv'
  BY AdmTypedNext DEF SitesInv
<1> USE DEF SitesInv, SitesOwned, AdmTyped, CallStates
<1>1. ASSUME NEW a \in Admissions, NEW d \in Decisions, Admit(a, d)
      PROVE SitesInv'
  BY <1>1 DEF Admit
<1>2. ASSUME NEW a \in Admissions, PreviewEvidence(a)
      PROVE SitesInv'
  BY <1>2 DEF PreviewEvidence
<1>3. ASSUME NEW a \in Admissions, LookForManifest(a)
      PROVE SitesInv'
  BY <1>3 DEF LookForManifest
<1>4. ASSUME NEW a \in Admissions, AddSite(a)
      PROVE SitesInv'
  <2>1. \A b \in Admissions \ {a} : adm'[b] = adm[b] /\ site'[b] = site[b]
    BY <1>4 DEF AddSite
  <2>2. site' \in [Admissions -> {"absent", "base", "applied", "rebuilt",
                                  "restored", "quarantined"}]
    BY <1>4 DEF AddSite
  <2>3. \/ adm'[a].pc \in {"provision", "cleanup"}
        \/ adm'[a].pc = "ended" /\ site'[a] = "absent"
    <3> adm[a].pc = "add" /\ adm[a] \in CallStates
      BY <1>4 DEF AddSite
    <3>1. CASE To(a, "provision")
      BY <3>1
    <3>2. CASE Abort(a)
      BY <3>2
    <3>3. CASE UNCHANGED site /\ End(a, "refused")
      BY <3>3
    <3> QED BY <1>4, <3>1, <3>2, <3>3 DEF AddSite
  <2> HIDE DEF CallStates
  <2> QED BY <2>1, <2>2, <2>3
<1>5. ASSUME NEW a \in Admissions, ProvisionSite(a)
      PROVE SitesInv'
  <2>1. \A b \in Admissions \ {a} : adm'[b] = adm[b]
    BY <1>5 DEF ProvisionSite
  <2>2. adm'[a].pc \in {"apply", "cleanup"}
    <3> adm[a] \in CallStates
      OBVIOUS
    <3>1. CASE To(a, "apply")
      BY <3>1
    <3>2. CASE Abort(a)
      BY <3>2
    <3> QED BY <1>5, <3>1, <3>2 DEF ProvisionSite
  <2>3. UNCHANGED site
    BY <1>5 DEF ProvisionSite
  <2> HIDE DEF CallStates
  <2> QED BY <2>1, <2>2, <2>3
<1>6. ASSUME NEW a \in Admissions, ApplySources(a)
      PROVE SitesInv'
  BY <1>6 DEF ApplySources
<1>7. ASSUME NEW a \in Admissions, Rebuild(a)
      PROVE SitesInv'
  BY <1>7, SMTT(20) DEF Rebuild
<1>8. ASSUME NEW a \in Admissions, VerifySite(a)
      PROVE SitesInv'
  BY <1>8, SMTT(20) DEF VerifySite
<1>9. ASSUME NEW a \in Admissions, HashTree(a)
      PROVE SitesInv'
  BY <1>9 DEF HashTree
<1>10. ASSUME NEW a \in Admissions, AuditTree(a)
      PROVE SitesInv'
  <2>1. \A b \in Admissions \ {a} : adm'[b] = adm[b] /\ site'[b] = site[b]
    BY <1>10 DEF AuditTree
  <2>2. adm'[a].pc \in {"publish", "cleanup"} /\ UNCHANGED site
    <3> adm[a].pc = "audit" /\ adm[a] \in CallStates
      BY <1>10 DEF AuditTree
    <3>1. To(a, "publish") => adm'[a].pc = "publish"
      OBVIOUS
    <3>2. Abort(a) => adm'[a].pc = "cleanup"
      OBVIOUS
    <3> HIDE DEF CallStates, To, Abort
    <3> QED BY <1>10, <3>1, <3>2 DEF AuditTree
  <2> HIDE DEF CallStates
  <2> QED BY <2>1, <2>2
<1>11. ASSUME NEW a \in Admissions, PublishManifest(a)
      PROVE SitesInv'
  BY <1>11 DEF PublishManifest
<1>12. ASSUME NEW a \in Admissions, AfterPublish(a)
      PROVE SitesInv'
  BY <1>12 DEF AfterPublish
<1>13. ASSUME NEW a \in Admissions, CleanUp(a)
      PROVE SitesInv'
  BY <1>13 DEF CleanUp
<1>14. ASSUME NEW a \in Admissions, Kill(a)
      PROVE SitesInv'
  BY <1>14 DEF Kill
<1>15. CASE Mischief
  BY <1>15 DEF Mischief
<1>16. CASE UNCHANGED admVars
  BY <1>16
<1> QED BY <1>1, <1>2, <1>3, <1>4, <1>5, <1>6, <1>7, <1>8, <1>9, <1>10, <1>11, <1>12, <1>13, <1>14, <1>15, <1>16 DEF AdmNext, AdmStep

(* A call that ended by itself left no worktree in place (admission.ts).    *)
THEOREM SitesAreAccounted == AdmSpec => []SitesAccounted
<1>1. AdmInit => SitesInv
  BY AdmInvInit DEF AdmInit, SitesInv, SitesOwned, AdmInv
<1>2. SitesInv => SitesAccounted
  BY DEF SitesInv, SitesOwned, SitesAccounted
<1> QED BY SitesNext, <1>1, <1>2, PTL DEF AdmSpec
=============================================================================
