--------------------------- MODULE Answers_proofs ---------------------------
(***************************************************************************)
(* What a caller can rely on for any number of callers, reports and        *)
(* deaths: a comparison is published as a whole, and once; the reviewer's  *)
(* logs are read as they were written; the answers are kept.               *)
(***************************************************************************)
EXTENDS MCAnswers, Publication_proofs, SequenceTheorems, TLAPS

-----------------------------------------------------------------------------
(* The publication of a comparison *)

LEMMA OneMore ==
  ASSUME NEW S, NEW q \in Seq(S), NEW m \in S, NEW n \in Nat, Len(q) = n
  PROVE  /\ Len(Append(q, m)) = n + 1 /\ DOMAIN Append(q, m) = 1..n + 1
         /\ Append(q, m)[n + 1] = m /\ \A k \in 1..n : Append(q, m)[k] = q[k]
OBVIOUS

LEMMA OrderIs ==
  /\ Len(Order) = 5 /\ DOMAIN Order = 1..5
  /\ FileNames = {"commit", "report", "summary", "markdown", "marker"}
  /\ \A k \in 1..5 : Order[k] \in FileNames /\ (Order[k] = "marker" <=> k = 5)
  /\ \A f \in FileNames : \E k \in 1..5 : Order[k] = f
<1> DEFINE S == {"commit", "report", "summary", "markdown", "marker"}
<1>1. DataFiles \in Seq(S) /\ Len(DataFiles) = 4
  BY DEF DataFiles
<1>2. "marker" \in S
  OBVIOUS
<1>3. /\ Len(Order) = 5 /\ DOMAIN Order = 1..5
      /\ Order[5] = "marker" /\ \A k \in 1..4 : Order[k] = DataFiles[k]
  <2> HIDE DEF S
  <2>1. \A n \in Nat : Len(DataFiles) = n =>
          /\ Len(Order) = n + 1 /\ DOMAIN Order = 1..n + 1
          /\ Order[n + 1] = "marker" /\ \A k \in 1..n : Order[k] = DataFiles[k]
    BY <1>1, <1>2, OneMore DEF Order
  <2> HIDE DEF Order
  <2>2. /\ Len(Order) = 4 + 1 /\ DOMAIN Order = 1..4 + 1
        /\ Order[4 + 1] = "marker" /\ \A k \in 1..4 : Order[k] = DataFiles[k]
    BY <1>1, <2>1, Zenon
  <2> QED BY <2>2
<1>4. Order[1] = "commit" /\ Order[2] = "report" /\ Order[3] = "summary" /\ Order[4] = "markdown"
  BY <1>3 DEF DataFiles
<1>5. \A k \in 1..5 : k = 1 \/ k = 2 \/ k = 3 \/ k = 4 \/ k = 5
  OBVIOUS
<1>6. FileNames = {Order[k] : k \in 1..5}
  BY <1>3 DEF FileNames, ToSet
<1> QED BY <1>3, <1>4, <1>5, <1>6

\* Where a publisher has the lock of the directory.
Inside == {"recover", "redo", "validate", "apply", "mark", "install", "verify"}

CompTyped ==
  /\ candidate \in BOOLEAN
  /\ published \in [FileNames -> Reports \cup {Nothing, Stranger}]
  /\ log \in [state : {"none", "prepared", "marked", "committed"}, report : Reports \cup {Nothing}]
  /\ owner \in Publishers \cup {Nothing}
  /\ pub \in [Publishers -> [pc : {"new", "waiting", "done"} \cup Inside, at : Nat,
                             report : Reports \cup {Nothing},
                             told : {"nothing", "PUBLISHED", "ALREADY_PUBLISHED", "failed"}]]

\* The lock is with the publisher that is inside, who brought a report and was
\* told nothing.
OneInside ==
  \A p \in Publishers :
    /\ pub[p].pc \in Inside <=> owner = p
    /\ pub[p].pc = "new" <=> pub[p].report = Nothing
    /\ pub[p].pc # "done" <=> pub[p].told = "nothing"
    /\ pub[p].at >= 1

\* The journal carries a report: that of the publisher who writes it, or one left over.
LogIsMine ==
  /\ log.state # "none" => log.report # Nothing
  /\ \A p \in Publishers :
       /\ pub[p].pc \in {"mark", "install", "verify"} => log.report = pub[p].report
       /\ pub[p].pc = "mark" => log.state = "prepared"
       /\ pub[p].pc \in {"install", "redo"} => log.state = "marked"
       /\ pub[p].pc = "verify" => log.state = "committed"
       /\ pub[p].pc \in {"validate", "apply"} => log.state = "none"

\* Two files of published reports are of one report, the one the journal carries.
OneReport ==
  \A f \in FileNames : published[f] \in Reports =>
    /\ \A g \in FileNames : published[g] \in Reports => published[g] = published[f]
    /\ log.state # "none" => published[f] = log.report

\* The installation goes on in order, and the marker comes last.
MarkerIsLast ==
  /\ published["marker"] \in Reports => \A f \in FileNames : published[f] # Nothing
  /\ \A p \in Publishers : \A k \in 1..5 : k < pub[p].at => published[Order[k]] # Nothing

\* Whoever was told to be the first was so before anybody else wrote again.
FirstIsFirst ==
  \A q \in Publishers : pub[q].told = "PUBLISHED" =>
    /\ published["marker"] # Nothing
    /\ \A p \in Publishers : pub[p].pc \notin {"mark", "install", "verify"}

CompInv ==
  CompTyped /\ OneInside /\ LogIsMine /\ OneReport /\ MarkerIsLast /\ FirstIsFirst

LEMMA CompInvInit == CompInit => CompInv
<1> SUFFICES ASSUME CompInit PROVE CompInv
  OBVIOUS
<1>1. CompTyped
  BY DEF CompTyped, CompInit, NoLog
<1>2. OneInside /\ LogIsMine /\ OneReport
  BY CompAssumption DEF OneInside, LogIsMine, OneReport, CompInit, NoLog, Inside
<1>3. MarkerIsLast /\ FirstIsFirst
  BY CompAssumption, OrderIs DEF MarkerIsLast, FirstIsFirst, CompInit
<1> QED BY <1>1, <1>2, <1>3 DEF CompInv

USE DEF Stands, Goes, Ends, Mine, NoneExists, AllAre, Inside, NoLog

LEMMA CompBring == ASSUME CompInv, NEW p \in Publishers, NEW r \in Reports, Bring(p, r) PROVE CompInv'
<1> USE CompAssumption, OrderIs DEF CompInv
<1>1. CompTyped'
  <2> DEFINE Call == [pc : {"new", "waiting", "done"} \cup Inside, at : Nat,
                    report : Reports \cup {Nothing},
                    told : {"nothing", "PUBLISHED", "ALREADY_PUBLISHED", "failed"}]
             new == [pub[p] EXCEPT !.pc = "waiting", !.report = r]
  <2>1. pub[p] \in Call /\ pub \in [Publishers -> Call]
    BY DEF CompTyped
  <2>2. new \in Call
    BY <2>1 DEF Bring
  <2>3. pub' = [pub EXCEPT ![p] = new]
    BY <2>1 DEF Bring
  <2> HIDE DEF new
  <2>4. pub' \in [Publishers -> Call]
    BY <2>1, <2>2, <2>3
  <2> QED BY <2>4 DEF CompTyped, Bring
<1>2. OneInside'
  BY DEF CompTyped, OneInside, Bring
<1>3. LogIsMine'
  BY DEF CompTyped, OneInside, LogIsMine, Bring
<1>4. OneReport'
  BY DEF CompTyped, OneInside, LogIsMine, OneReport, Bring
<1>5. MarkerIsLast'
  BY DEF CompTyped, OneInside, LogIsMine, OneReport, MarkerIsLast, Bring
<1>6. FirstIsFirst'
  BY DEF CompTyped, OneInside, LogIsMine, MarkerIsLast, FirstIsFirst, Bring
<1> QED BY <1>1, <1>2, <1>3, <1>4, <1>5, <1>6

LEMMA CompTakeLock == ASSUME CompInv, NEW p \in Publishers, TakeLock(p) PROVE CompInv'
<1> USE CompAssumption, OrderIs DEF CompInv
<1>1. CompTyped'
  BY DEF CompTyped, TakeLock
<1>2. OneInside'
  BY DEF CompTyped, OneInside, TakeLock
<1>3. LogIsMine'
  BY DEF CompTyped, OneInside, LogIsMine, TakeLock
<1>4. OneReport'
  BY DEF CompTyped, OneInside, LogIsMine, OneReport, TakeLock
<1>5. MarkerIsLast'
  BY DEF CompTyped, OneInside, LogIsMine, OneReport, MarkerIsLast, TakeLock
<1>6. FirstIsFirst'
  BY DEF CompTyped, OneInside, LogIsMine, MarkerIsLast, FirstIsFirst, TakeLock
<1> QED BY <1>1, <1>2, <1>3, <1>4, <1>5, <1>6

LEMMA CompRecoverLog == ASSUME CompInv, NEW p \in Publishers, RecoverLog(p) PROVE CompInv'
<1> USE CompAssumption, OrderIs DEF CompInv
<1>1. CompTyped'
  BY DEF CompTyped, RecoverLog, CanRecover
<1>2. OneInside'
  BY DEF CompTyped, OneInside, RecoverLog, CanRecover
<1>3. LogIsMine'
  BY DEF CompTyped, OneInside, LogIsMine, RecoverLog, CanRecover
<1>4. OneReport'
  BY DEF CompTyped, OneInside, LogIsMine, OneReport, RecoverLog, CanRecover
<1>5. MarkerIsLast'
  BY DEF CompTyped, OneInside, LogIsMine, OneReport, MarkerIsLast, RecoverLog, CanRecover
<1>6. FirstIsFirst'
  BY DEF CompTyped, OneInside, LogIsMine, MarkerIsLast, FirstIsFirst, RecoverLog, CanRecover
<1> QED BY <1>1, <1>2, <1>3, <1>4, <1>5, <1>6

LEMMA CompInstallFile == ASSUME CompInv, NEW p \in Publishers, InstallFile(p) PROVE CompInv'
<1> USE CompAssumption, OrderIs DEF CompInv
<1>1. CompTyped'
  <2> DEFINE Call == [pc : {"new", "waiting", "done"} \cup Inside, at : Nat,
                    report : Reports \cup {Nothing},
                    told : {"nothing", "PUBLISHED", "ALREADY_PUBLISHED", "failed"}]
             new == [pub[p] EXCEPT !.at = pub[p].at + 1]
  <2>1. pub[p] \in Call /\ pub \in [Publishers -> Call]
    BY DEF CompTyped
  <2>2. new \in Call
    BY <2>1 DEF InstallFile
  <2>3. pub' = [pub EXCEPT ![p] = new]
    BY <2>1 DEF InstallFile
  <2> HIDE DEF new
  <2>4. pub' \in [Publishers -> Call]
    BY <2>1, <2>2, <2>3
  <2> QED BY <2>4 DEF CompTyped, InstallFile
<1>2. OneInside'
  BY DEF CompTyped, OneInside, InstallFile
<1>3. LogIsMine'
  BY DEF CompTyped, OneInside, LogIsMine, InstallFile
<1>4. OneReport'
  BY DEF CompTyped, OneInside, LogIsMine, OneReport, InstallFile
<1>5. MarkerIsLast'
  BY DEF CompTyped, OneInside, LogIsMine, OneReport, MarkerIsLast, InstallFile
<1>6. FirstIsFirst'
  BY DEF CompTyped, OneInside, LogIsMine, MarkerIsLast, FirstIsFirst, InstallFile
<1> QED BY <1>1, <1>2, <1>3, <1>4, <1>5, <1>6

LEMMA CompInstalled == ASSUME CompInv, NEW p \in Publishers, Installed(p) PROVE CompInv'
<1> USE CompAssumption, OrderIs DEF CompInv
<1>1. CompTyped'
  BY DEF CompTyped, Installed
<1>2. OneInside'
  BY DEF CompTyped, OneInside, Installed
<1>3. LogIsMine'
  BY DEF CompTyped, OneInside, LogIsMine, Installed
<1>4. OneReport'
  BY DEF CompTyped, OneInside, LogIsMine, OneReport, Installed
<1>5. MarkerIsLast'
  BY DEF CompTyped, OneInside, LogIsMine, OneReport, MarkerIsLast, Installed
<1>6. FirstIsFirst'
  BY DEF CompTyped, OneInside, LogIsMine, MarkerIsLast, FirstIsFirst, Installed
<1> QED BY <1>1, <1>2, <1>3, <1>4, <1>5, <1>6

LEMMA CompValidateLocked == ASSUME CompInv, NEW p \in Publishers, ValidateLocked(p) PROVE CompInv'
<1> USE CompAssumption, OrderIs DEF CompInv
<1>1. CompTyped'
  BY DEF CompTyped, ValidateLocked
<1>2. OneInside'
  BY DEF CompTyped, OneInside, ValidateLocked
<1>3. LogIsMine'
  BY DEF CompTyped, OneInside, LogIsMine, ValidateLocked
<1>4. OneReport'
  BY DEF CompTyped, OneInside, LogIsMine, OneReport, ValidateLocked
<1>5. MarkerIsLast'
  BY DEF CompTyped, OneInside, LogIsMine, OneReport, MarkerIsLast, ValidateLocked
<1>6. FirstIsFirst'
  BY DEF CompTyped, OneInside, LogIsMine, MarkerIsLast, FirstIsFirst, ValidateLocked
<1> QED BY <1>1, <1>2, <1>3, <1>4, <1>5, <1>6

LEMMA CompBeginApply == ASSUME CompInv, NEW p \in Publishers, BeginApply(p) PROVE CompInv'
<1> USE CompAssumption, OrderIs DEF CompInv
<1>1. CompTyped'
  BY DEF CompTyped, BeginApply
<1>2. OneInside'
  BY DEF CompTyped, OneInside, BeginApply
<1>3. LogIsMine'
  BY DEF CompTyped, OneInside, LogIsMine, BeginApply
<1>4. OneReport'
  BY DEF CompTyped, OneInside, LogIsMine, OneReport, BeginApply
<1>5. MarkerIsLast'
  BY DEF CompTyped, OneInside, LogIsMine, OneReport, MarkerIsLast, BeginApply
<1>6. FirstIsFirst'
  BY DEF CompTyped, OneInside, LogIsMine, MarkerIsLast, FirstIsFirst, BeginApply
<1> QED BY <1>1, <1>2, <1>3, <1>4, <1>5, <1>6

LEMMA CompMarkLog == ASSUME CompInv, NEW p \in Publishers, MarkLog(p) PROVE CompInv'
<1> USE CompAssumption, OrderIs DEF CompInv
<1>1. CompTyped'
  BY DEF CompTyped, MarkLog
<1>2. OneInside'
  BY DEF CompTyped, OneInside, MarkLog
<1>3. LogIsMine'
  BY DEF CompTyped, OneInside, LogIsMine, MarkLog
<1>4. OneReport'
  BY DEF CompTyped, OneInside, LogIsMine, OneReport, MarkLog
<1>5. MarkerIsLast'
  BY DEF CompTyped, OneInside, LogIsMine, OneReport, MarkerIsLast, MarkLog
<1>6. FirstIsFirst'
  BY DEF CompTyped, OneInside, LogIsMine, MarkerIsLast, FirstIsFirst, MarkLog
<1> QED BY <1>1, <1>2, <1>3, <1>4, <1>5, <1>6

LEMMA CompVerifyCommitted == ASSUME CompInv, NEW p \in Publishers, VerifyCommitted(p) PROVE CompInv'
<1> USE CompAssumption, OrderIs DEF CompInv
<1>1. CompTyped'
  BY DEF CompTyped, VerifyCommitted
<1>2. OneInside'
  BY DEF CompTyped, OneInside, VerifyCommitted
<1>3. LogIsMine'
  BY DEF CompTyped, OneInside, LogIsMine, VerifyCommitted
<1>4. OneReport'
  BY DEF CompTyped, OneInside, LogIsMine, OneReport, VerifyCommitted
<1>5. MarkerIsLast'
  BY DEF CompTyped, OneInside, LogIsMine, OneReport, MarkerIsLast, VerifyCommitted
<1>6. FirstIsFirst'
  BY DEF CompTyped, OneInside, LogIsMine, MarkerIsLast, FirstIsFirst, VerifyCommitted
<1> QED BY <1>1, <1>2, <1>3, <1>4, <1>5, <1>6

LEMMA CompStopPublisher == ASSUME CompInv, NEW p \in Publishers, StopPublisher(p) PROVE CompInv'
<1> USE CompAssumption, OrderIs DEF CompInv
<1>1. CompTyped'
  <2> DEFINE Call == [pc : {"new", "waiting", "done"} \cup Inside, at : Nat,
                    report : Reports \cup {Nothing},
                    told : {"nothing", "PUBLISHED", "ALREADY_PUBLISHED", "failed"}]
             new == [pub[p] EXCEPT !.pc = "done", !.told = "failed"]
  <2>1. pub[p] \in Call /\ pub \in [Publishers -> Call]
    BY DEF CompTyped
  <2>2. new \in Call
    BY <2>1 DEF StopPublisher
  <2>3. pub' = [pub EXCEPT ![p] = new]
    BY <2>1 DEF StopPublisher
  <2> HIDE DEF new
  <2>4. pub' \in [Publishers -> Call]
    BY <2>1, <2>2, <2>3
  <2> QED BY <2>4 DEF CompTyped, StopPublisher
<1>2. OneInside'
  BY DEF CompTyped, OneInside, StopPublisher
<1>3. LogIsMine'
  BY DEF CompTyped, OneInside, LogIsMine, StopPublisher
<1>4. OneReport'
  BY DEF CompTyped, OneInside, LogIsMine, OneReport, StopPublisher
<1>5. MarkerIsLast'
  BY DEF CompTyped, OneInside, LogIsMine, OneReport, MarkerIsLast, StopPublisher
<1>6. FirstIsFirst'
  BY DEF CompTyped, OneInside, LogIsMine, MarkerIsLast, FirstIsFirst, StopPublisher
<1> QED BY <1>1, <1>2, <1>3, <1>4, <1>5, <1>6

LEMMA CompMeddle == ASSUME CompInv, Meddle PROVE CompInv'
<1> USE CompAssumption, OrderIs DEF CompInv
<1>1. CompTyped'
  BY DEF CompTyped, Meddle
<1>2. OneInside'
  BY DEF CompTyped, OneInside, Meddle
<1>3. LogIsMine'
  BY DEF CompTyped, OneInside, LogIsMine, Meddle
<1>4. OneReport'
  BY DEF CompTyped, OneInside, LogIsMine, OneReport, Meddle
<1>5. MarkerIsLast'
  BY DEF CompTyped, OneInside, LogIsMine, OneReport, MarkerIsLast, Meddle
<1>6. FirstIsFirst'
  BY DEF CompTyped, OneInside, LogIsMine, MarkerIsLast, FirstIsFirst, Meddle
<1> QED BY <1>1, <1>2, <1>3, <1>4, <1>5, <1>6

LEMMA CompInductive == CompInv /\ [CompNext]_compVars => CompInv'
<1> SUFFICES ASSUME CompInv, [CompNext]_compVars PROVE CompInv'
  OBVIOUS
<1>1. CASE UNCHANGED compVars
  BY <1>1 DEF compVars, CompInv, CompTyped, OneInside, LogIsMine, OneReport, MarkerIsLast,
     FirstIsFirst
<1>2. ASSUME NEW p \in Publishers, CompStep(p) PROVE CompInv'
  BY <1>2, CompTakeLock, CompRecoverLog, CompInstallFile, CompInstalled, CompValidateLocked,
     CompBeginApply, CompMarkLog, CompVerifyCommitted DEF CompStep
<1> QED BY <1>1, <1>2, CompStopPublisher, CompBring, CompMeddle DEF CompNext

LEMMA CompInvAlways == CompSpec => []CompInv
BY CompInvInit, CompInductive, PTL DEF CompSpec

\* A reader without the lock never sees a marker beside a file that is missing or of
\* another report (publishCandidateComparison, the order of its creations).
THEOREM MarkerCommits == CompSpec => []MarkerCommitsWhole
<1>1. CompInv => MarkerCommitsWhole
  BY CompAssumption, OrderIs
     DEF CompInv, CompTyped, OneReport, MarkerIsLast, MarkerCommitsWhole
<1> QED BY <1>1, CompInvAlways, PTL

-----------------------------------------------------------------------------
(* Publishing is the register that is written once *)

\* What ReportOf is of files that are all there and all the same.
LEMMA ReportOfAll ==
  ASSUME NEW r \in Reports, AllAre(r)
  PROVE  ReportOf = IF log.state = "marked" THEN log.report ELSE r
BY CompAssumption, OrderIs DEF ReportOf

\* Nothing that the register shows has changed.
LEMMA OnceRests ==
  ASSUME ReportOf' = ReportOf,
         \A p \in Publishers : pub'[p].told = pub[p].told /\ pub'[p].report = pub[p].report
  PROVE  UNCHANGED Once!onceVars
BY DEF Once!onceVars

\* One publisher has got its answer.
LEMMA OnceTells ==
  ASSUME CompInv, NEW p \in Publishers, NEW a \in {"PUBLISHED", "ALREADY_PUBLISHED", "failed"},
         pub[p].pc \notin {"new", "done"}, Ends(p, a), ReportOf' = ReportOf,
         a # "failed" => ReportOf = pub[p].report,
         a = "PUBLISHED" => \A q \in Publishers : pub[q].told # "PUBLISHED"
  PROVE  Once!Next
<1>1. /\ pub[p].told = "nothing" /\ pub[p].report # Nothing /\ pub'[p].told = a
      /\ \A q \in Publishers : pub'[q].report = pub[q].report
      /\ \A q \in Publishers : q # p => pub'[q].told = pub[q].told
  BY DEF CompInv, CompTyped, OneInside
<1>2. Once!Tell(p, a)
  BY <1>1 DEF Once!Tell
<1> QED BY <1>2 DEF Once!Next

LEMMA OnceStep ==
  ASSUME CompInv, CompInv', NEW p \in Publishers, CompStep(p)
  PROVE  [Once!Next]_(Once!onceVars)
<1> USE CompAssumption
<1>1. CASE TakeLock(p)
  <2>1. ReportOf' = ReportOf
    BY <1>1 DEF TakeLock, ReportOf
  <2>2. CASE Goes(p, "recover")
    BY <2>1, <2>2, OnceRests DEF CompInv, CompTyped
  <2> QED BY <1>1, <2>1, <2>2, OnceTells DEF TakeLock
<1>2. CASE RecoverLog(p)
  <2>1. CASE Ends(p, "failed") /\ UNCHANGED log
    <3>1. ReportOf' = ReportOf
      BY <1>2, <2>1 DEF RecoverLog, ReportOf
    <3> QED BY <1>2, <2>1, <3>1, OnceTells DEF RecoverLog
  <2>2. CASE Goes(p, "redo") /\ UNCHANGED log
    <3>1. ReportOf' = ReportOf
      BY <1>2, <2>2 DEF RecoverLog, ReportOf
    <3> QED BY <2>2, <3>1, OnceRests DEF CompInv, CompTyped
  <2>3. CASE log.state # "marked" /\ log' = NoLog /\ Goes(p, "validate")
    <3>1. ReportOf' = ReportOf
      BY <1>2, <2>3 DEF RecoverLog, ReportOf
    <3> QED BY <2>3, <3>1, OnceRests DEF CompInv, CompTyped
  <2> QED BY <1>2, <2>1, <2>2, <2>3 DEF RecoverLog
<1>3. CASE InstallFile(p)
  <2>1. log.state = "marked"
    BY <1>3 DEF InstallFile, CompInv, LogIsMine
  <2>2. ReportOf' = ReportOf
    BY <1>3, <2>1 DEF InstallFile, ReportOf
  <2> QED BY <1>3, <2>2, OnceRests DEF InstallFile, CompInv, CompTyped
<1>4. CASE Installed(p)
  <2>1. log.state = "marked" /\ log.report \in Reports
    BY <1>4 DEF Installed, CompInv, CompTyped, LogIsMine
  <2>2. CASE Ends(p, "failed") /\ UNCHANGED log
    <3>1. ReportOf' = ReportOf
      BY <1>4, <2>2 DEF Installed, ReportOf
    <3> QED BY <1>4, <2>2, <3>1, OnceTells DEF Installed
  <2>3. CASE ~(Ends(p, "failed") /\ UNCHANGED log)
    <3>1. /\ AllAre(log.report) /\ log'.state # "marked" /\ published' = published
          /\ Goes(p, "validate") \/ Goes(p, "verify")
      <4>1. AllAre(log.report) /\ published' = published
        BY <1>4, <2>3 DEF Installed
      <4>2. \/ log' = NoLog /\ Goes(p, "validate")
            \/ log' = [log EXCEPT !.state = "committed"] /\ Goes(p, "verify")
        BY <1>4, <2>3 DEF Installed
      <4>3. log'.state # "marked"
        BY <4>2 DEF CompInv, CompTyped
      <4> QED BY <4>1, <4>2, <4>3
    <3>2. ReportOf' = log.report /\ ReportOf = log.report
      BY <2>1, <3>1, ReportOfAll, OrderIs DEF ReportOf
    <3> QED BY <3>1, <3>2, OnceRests DEF CompInv, CompTyped
  <2> QED BY <2>2, <2>3
<1>5. CASE ValidateLocked(p)
  <2>1. ReportOf' = ReportOf
    BY <1>5 DEF ValidateLocked, ReportOf
  <2>2. CASE Ends(p, "failed")
    BY <1>5, <2>1, <2>2, OnceTells DEF ValidateLocked
  <2>3. CASE Goes(p, "apply")
    BY <2>1, <2>3, OnceRests DEF CompInv, CompTyped
  <2>4. CASE AllAre(Mine(p)) /\ Ends(p, "ALREADY_PUBLISHED")
    <3>1. Mine(p) \in Reports /\ log.state = "none"
      BY <1>5 DEF ValidateLocked, CompInv, CompTyped, OneInside, LogIsMine
    <3>2. ReportOf = Mine(p)
      BY <2>4, <3>1, ReportOfAll
    <3> QED BY <1>5, <2>1, <2>4, <3>2, OnceTells DEF ValidateLocked
  <2> QED BY <1>5, <2>2, <2>3, <2>4 DEF ValidateLocked
<1>6. CASE BeginApply(p)
  <2>1. log.state = "none"
    BY <1>6 DEF BeginApply, CompInv, LogIsMine
  <2>2. ReportOf' = ReportOf
    BY <1>6, <2>1 DEF BeginApply, ReportOf
  <2>3. CASE Ends(p, "failed")
    BY <1>6, <2>2, <2>3, OnceTells DEF BeginApply
  <2>4. CASE Goes(p, "mark")
    BY <2>2, <2>4, OnceRests DEF CompInv, CompTyped
  <2> QED BY <1>6, <2>3, <2>4 DEF BeginApply
<1>7. CASE MarkLog(p)
  <2>1. log.state = "prepared" /\ log.report = Mine(p) /\ Mine(p) # Nothing
    BY <1>7 DEF MarkLog, CompInv, LogIsMine, OneInside
  <2>2. CASE Ends(p, "failed") /\ UNCHANGED log
    <3>1. ReportOf' = ReportOf
      BY <1>7, <2>2 DEF MarkLog, ReportOf
    <3> QED BY <1>7, <2>2, <3>1, OnceTells DEF MarkLog
  <2>3. CASE NoneExists /\ log' = [log EXCEPT !.state = "marked"] /\ Goes(p, "install")
    <3>1. ReportOf = Nothing /\ ReportOf' = Mine(p)
      BY <2>1, <2>3 DEF ReportOf, CompInv, CompTyped
    <3>2. \A q \in Publishers : pub'[q].told = pub[q].told /\ pub'[q].report = pub[q].report
      BY <2>3 DEF CompInv, CompTyped
    <3>3. Once!Write(p)
      BY <2>1, <3>1, <3>2 DEF Once!Write
    <3> QED BY <3>3 DEF Once!Next
  <2> QED BY <1>7, <2>2, <2>3 DEF MarkLog
<1>8. CASE VerifyCommitted(p)
  <2>1. /\ log.state = "committed" /\ Mine(p) \in Reports
        /\ \A q \in Publishers : pub[q].told # "PUBLISHED"
    BY <1>8 DEF VerifyCommitted, CompInv, CompTyped, LogIsMine, OneInside, FirstIsFirst
  <2>2. ReportOf' = ReportOf
    BY <1>8, <2>1 DEF VerifyCommitted, ReportOf
  <2>3. CASE Ends(p, "failed")
    BY <1>8, <2>2, <2>3, OnceTells DEF VerifyCommitted
  <2>4. CASE AllAre(Mine(p)) /\ Ends(p, "PUBLISHED")
    <3>1. ReportOf = Mine(p)
      BY <2>1, <2>4, ReportOfAll
    <3> QED BY <1>8, <2>1, <2>2, <2>4, <3>1, OnceTells DEF VerifyCommitted
  <2> QED BY <1>8, <2>3, <2>4 DEF VerifyCommitted
<1> QED BY <1>1, <1>2, <1>3, <1>4, <1>5, <1>6, <1>7, <1>8 DEF CompStep

LEMMA OnceOther ==
  ASSUME CompInv, CompInv',
         \/ Meddle
         \/ \E p \in Publishers : StopPublisher(p) \/ \E r \in Reports : Bring(p, r)
  PROVE  [Once!Next]_(Once!onceVars)
<1> USE CompAssumption
<1>1. ASSUME NEW p \in Publishers, StopPublisher(p) PROVE [Once!Next]_(Once!onceVars)
  <2>1. ReportOf' = ReportOf
    BY <1>1 DEF StopPublisher, ReportOf
  <2> QED BY <1>1, <2>1, OnceTells DEF StopPublisher
<1>2. ASSUME NEW p \in Publishers, NEW r \in Reports, Bring(p, r)
      PROVE [Once!Next]_(Once!onceVars)
  <2>1. ReportOf' = ReportOf
    BY <1>2 DEF Bring, ReportOf
  <2>2. /\ pub[p].report = Nothing /\ pub'[p].report = r
        /\ \A q \in Publishers : q # p => pub'[q].report = pub[q].report
        /\ \A q \in Publishers : pub'[q].told = pub[q].told
    BY <1>2 DEF Bring, CompInv, CompTyped, OneInside
  <2>3. Once!Call(p)
    BY <2>1, <2>2 DEF Once!Call
  <2> QED BY <2>3 DEF Once!Next
<1>3. CASE Meddle
  <2>1. ReportOf' = ReportOf \/ ReportOf' = Stranger
    BY <1>3, OrderIs DEF Meddle, ReportOf, CompInv, CompTyped
  <2>2. CASE ReportOf' = ReportOf
    BY <1>3, <2>2, OnceRests DEF Meddle
  <2>3. CASE ReportOf' = Stranger
    BY <1>3, <2>3 DEF Meddle, Once!Spoil, Once!Next
  <2> QED BY <2>1, <2>2, <2>3
<1> QED BY <1>1, <1>2, <1>3

\* Publishing implements the register that is written once: however publishers overlap
\* and die, nobody is told that a report is published which is not there, one publisher
\* at most is told that it was the first, and no report replaces another.
THEOREM PublishingIsOnce == CompSpec => PublishedOnce
<1>1. CompInit => Once!Init
  <2> SUFFICES ASSUME CompInit PROVE Once!Init
    OBVIOUS
  <2>1. ReportOf = Nothing
    BY DEF CompInit, ReportOf, NoLog
  <2> QED BY <2>1 DEF CompInit, Once!Init
<1>2. CompInv /\ CompInv' /\ [CompNext]_compVars => [Once!Next]_(Once!onceVars)
  <2> SUFFICES ASSUME CompInv, CompInv', [CompNext]_compVars PROVE [Once!Next]_(Once!onceVars)
    OBVIOUS
  <2>1. CASE UNCHANGED compVars
    <3>1. ReportOf' = ReportOf
      BY <2>1 DEF compVars, ReportOf
    <3> QED BY <2>1, <3>1, OnceRests DEF compVars
  <2> QED BY <2>1, OnceStep, OnceOther DEF CompNext
<1> QED BY <1>1, <1>2, CompInvAlways, PTL DEF CompSpec, PublishedOnce, Once!Spec

-----------------------------------------------------------------------------
(* The two logs of the reviewer *)

\* Whoever has the turn on a log is the first on its tail, and what it found
\* readable is so until it has written: nobody else writes there.
CaseWriter(r) == req[r].at = "writing" /\ req[r].op # "judge"
Formed(r) == "at" \in DOMAIN req[r] /\ "op" \in DOMAIN req[r]
JudgeWorker(r) == req[r].at \in {"reading", "writing"} /\ req[r].op = "judge"

TurnInv ==
  /\ DOMAIN req = Handlers /\ caseTail \in Seq(Handlers) /\ judgTail \in Seq(Handlers)
  /\ \A r \in Handlers :
       /\ Formed(r)
       /\ req[r].at = "writing" => req[r].op \in {"create", "state", "judge"}
       /\ req[r].at = "reading" => req[r].op = "judge"
       /\ CaseWriter(r) => caseTail # <<>> /\ r = Head(caseTail) /\ Readable(caseFile)
       /\ JudgeWorker(r) => judgTail # <<>> /\ r = Head(judgTail)
       /\ JudgeWorker(r) /\ req[r].at = "writing" => Readable(judgFile)

LEMMA TailsAreTails ==
  ASSUME NEW S, NEW q \in Seq(S)
  PROVE  /\ q # <<>> => Tail(q) \in Seq(S) /\ Head(q) \in S
         /\ \A x \in S : Append(q, x) \in Seq(S) /\ Append(q, x) # <<>>
                         /\ (q # <<>> => Head(Append(q, x)) = Head(q))
<1>1. q # <<>> => Tail(q) \in Seq(S) /\ Head(q) \in S
  BY HeadTailProperties
<1>2. ASSUME NEW x \in S
      PROVE  Append(q, x) \in Seq(S) /\ Append(q, x) # <<>> /\ (q # <<>> => Head(Append(q, x)) = Head(q))
  <2>1. Append(q, x) \in Seq(S) /\ Append(q, x) # <<>>
    BY AppendProperties
  <2>2. q # <<>> => Head(Append(q, x)) = Head(q)
    BY HeadTailAppend
  <2> QED BY <2>1, <2>2
<1> QED BY <1>1, <1>2

LEMMA TurnInit == ReviewInit => TurnInv
<1> SUFFICES ASSUME ReviewInit PROVE TurnInv
  OBVIOUS
<1>1. caseTail = <<>> /\ judgTail = <<>> /\ req = [r \in Handlers |-> Free]
  BY DEF ReviewInit
<1> QED BY <1>1 DEF TurnInv, Free, CaseWriter, JudgeWorker, Formed

\* What a request becomes.
LEMMA RequestMoves ==
  ASSUME TurnInv, NEW r \in Handlers
  PROVE  /\ Answered(r) => /\ DOMAIN req' = Handlers /\ req'[r] = Free /\ Formed(r)'
                           /\ \A q \in Handlers : q # r => req'[q] = req[q]
         /\ \A to : Moves(r, to) =>
              /\ DOMAIN req' = Handlers /\ req'[r].at = to /\ req'[r].op = req[r].op
              /\ Formed(r)'
              /\ \A q \in Handlers : q # r => req'[q] = req[q]
         /\ \A line : Writes(r, line) =>
              /\ DOMAIN req' = Handlers /\ req'[r].at = "writing" /\ req'[r].op = req[r].op
              /\ Formed(r)'
              /\ \A q \in Handlers : q # r => req'[q] = req[q]
<1>1. ASSUME Answered(r)
      PROVE  /\ DOMAIN req' = Handlers /\ req'[r] = Free /\ Formed(r)'
             /\ \A q \in Handlers : q # r => req'[q] = req[q]
  BY <1>1 DEF Answered, TurnInv, Formed, Free
<1>2. ASSUME NEW to, Moves(r, to)
      PROVE  /\ DOMAIN req' = Handlers /\ req'[r].at = to /\ req'[r].op = req[r].op
             /\ Formed(r)'
             /\ \A q \in Handlers : q # r => req'[q] = req[q]
  BY <1>2 DEF Moves, TurnInv, Formed
<1>3. ASSUME NEW line, Writes(r, line)
      PROVE  /\ DOMAIN req' = Handlers /\ req'[r].at = "writing" /\ req'[r].op = req[r].op
             /\ Formed(r)'
             /\ \A q \in Handlers : q # r => req'[q] = req[q]
  BY <1>3 DEF Writes, TurnInv, Formed
<1> QED BY <1>1, <1>2, <1>3

USE DEF Stays, Free, CaseWriter, JudgeWorker

\* Only one request changes, and it keeps its form.
OnlyMoves(r) ==
  /\ DOMAIN req' = Handlers /\ Formed(r)'
  /\ \A q \in Handlers : q # r => req'[q] = req[q]

LEMMA FormKept == ASSUME TurnInv, NEW r \in Handlers, OnlyMoves(r)
              PROVE  DOMAIN req' = Handlers /\ \A q \in Handlers : Formed(q)'
<1> SUFFICES ASSUME NEW q \in Handlers PROVE Formed(q)'
  BY DEF OnlyMoves
<1>1. CASE q = r
  BY <1>1 DEF OnlyMoves
<1>2. CASE q # r
  BY <1>2 DEF OnlyMoves, TurnInv, Formed
<1> QED BY <1>1, <1>2

LEMMA TurnAsk ==
  ASSUME TurnInv, NEW r \in Handlers, AskCase(r) \/ AskOpen(r) \/ AskJudge(r)
  PROVE  TurnInv'
<1>1. /\ req[r].at = "free" /\ caseFile' = caseFile /\ judgFile' = judgFile
      /\ OnlyMoves(r) /\ req'[r].at = "waiting"
      /\ caseTail' = caseTail \/ caseTail' = Append(caseTail, r)
      /\ judgTail' = judgTail \/ judgTail' = Append(judgTail, r)
  BY DEF AskCase, AskOpen, AskJudge, Receive, TurnInv, OnlyMoves, Formed
<1>2. /\ caseTail' \in Seq(Handlers)
      /\ caseTail # <<>> => caseTail' # <<>> /\ Head(caseTail') = Head(caseTail)
  <2>1. CASE caseTail' = Append(caseTail, r)
    BY <2>1, TailsAreTails DEF TurnInv
  <2> QED BY <1>1, <2>1 DEF TurnInv
<1>3. /\ judgTail' \in Seq(Handlers)
      /\ judgTail # <<>> => judgTail' # <<>> /\ Head(judgTail') = Head(judgTail)
  <2>1. CASE judgTail' = Append(judgTail, r)
    BY <2>1, TailsAreTails DEF TurnInv
  <2> QED BY <1>1, <2>1 DEF TurnInv
<1> QED BY <1>1, <1>2, <1>3, FormKept DEF TurnInv, Readable, OnlyMoves

LEMMA TurnOpen ==
  ASSUME TurnInv, NEW r \in Handlers, OpenCase(r) \/ Capture(r)
  PROVE  TurnInv'
<1>1. /\ req[r].at \in {"waiting", "searching"}
      /\ UNCHANGED <<caseFile, judgFile, caseTail, judgTail>>
      /\ Answered(r) \/ Moves(r, "searching")
  BY DEF OpenCase, Capture
<1>2. OnlyMoves(r) /\ req'[r].at \in {"free", "searching"}
  BY <1>1, RequestMoves DEF OnlyMoves
<1> QED BY <1>1, <1>2, FormKept DEF TurnInv, Readable, OnlyMoves

\* A request of the case log that leaves it, with nothing more to write.
LEMMA TurnCaseEnds ==
  ASSUME TurnInv, NEW r \in Handlers, caseTail # <<>>, r = Head(caseTail), req[r].op # "judge",
         judgFile' = judgFile, judgTail' = judgTail, caseTail' = Tail(caseTail),
         Answered(r) \/ Moves(r, "searching")
  PROVE  TurnInv'
<1>1. OnlyMoves(r) /\ req'[r].at \in {"free", "searching"}
  BY RequestMoves DEF OnlyMoves
<1>2. caseTail' \in Seq(Handlers)
  BY TailsAreTails DEF TurnInv
<1>3. \A q \in Handlers : ~CaseWriter(q)'
  BY <1>1 DEF TurnInv, OnlyMoves
<1>4. \A q \in Handlers : JudgeWorker(q)' => q # r
  BY <1>1 DEF OnlyMoves
<1> QED BY <1>1, <1>2, <1>3, <1>4, FormKept DEF TurnInv, Readable, OnlyMoves

LEMMA TurnCase ==
  ASSUME TurnInv, NEW r \in Handlers, CaseTurn(r) \/ CaseWrite(r)
  PROVE  TurnInv'
<1>1. /\ judgFile' = judgFile /\ judgTail' = judgTail /\ req[r].op \in {"create", "state"}
      /\ caseTail # <<>> /\ r = Head(caseTail)
  BY DEF CaseTurn, CaseWrite, TurnInv
<1>2. ASSUME NEW line, Writes(r, line), Readable(caseFile), caseFile' = caseFile,
             caseTail' = caseTail, req[r].at = "waiting"
      PROVE  TurnInv'
  <2>1. OnlyMoves(r) /\ req'[r].at = "writing" /\ req'[r].op = req[r].op
    BY <1>2, RequestMoves DEF OnlyMoves
  <2> QED BY <1>1, <1>2, <2>1, FormKept DEF TurnInv, Readable, OnlyMoves
<1>3. CASE CaseTurn(r)
  <2>1. CASE Answered(r) /\ caseTail' = Tail(caseTail)
    BY <1>1, <2>1, TurnCaseEnds
  <2>2. CASE ~(Answered(r) /\ caseTail' = Tail(caseTail))
    <3>1. /\ Readable(caseFile) /\ caseFile' = caseFile /\ caseTail' = caseTail
          /\ req[r].at = "waiting" /\ \E line : Writes(r, line)
      BY <1>3, <2>2 DEF CaseTurn
    <3> QED BY <1>2, <3>1
  <2> QED BY <2>1, <2>2
<1>4. CASE CaseWrite(r)
  BY <1>1, <1>4, TurnCaseEnds DEF CaseWrite
<1> QED BY <1>3, <1>4

\* A submission that leaves the judgment log.
LEMMA TurnJudgeEnds ==
  ASSUME TurnInv, NEW r \in Handlers, judgTail # <<>>, r = Head(judgTail), req[r].op = "judge",
         caseFile' = caseFile, caseTail' = caseTail, judgTail' = Tail(judgTail), Answered(r)
  PROVE  TurnInv'
<1>1. OnlyMoves(r) /\ req'[r].at = "free"
  BY RequestMoves DEF OnlyMoves
<1>2. judgTail' \in Seq(Handlers)
  BY TailsAreTails DEF TurnInv
<1>3. \A q \in Handlers : ~JudgeWorker(q)'
  BY <1>1 DEF TurnInv, OnlyMoves
<1>4. \A q \in Handlers : CaseWriter(q)' => q # r
  BY <1>1 DEF OnlyMoves
<1> QED BY <1>1, <1>2, <1>3, <1>4, FormKept DEF TurnInv, Readable, OnlyMoves

LEMMA TurnJudge ==
  ASSUME TurnInv, NEW r \in Handlers, JudgeTurn(r) \/ JudgeRead(r) \/ JudgeWrite(r)
  PROVE  TurnInv'
<1>1. /\ caseFile' = caseFile /\ caseTail' = caseTail /\ req[r].op = "judge"
      /\ judgTail # <<>> /\ r = Head(judgTail)
  BY DEF JudgeTurn, JudgeRead, JudgeWrite, TurnInv
<1>2. CASE Answered(r) /\ judgTail' = Tail(judgTail)
  BY <1>1, <1>2, TurnJudgeEnds
<1>3. CASE Moves(r, "reading") /\ judgTail' = judgTail /\ judgFile' = judgFile
  <2>1. OnlyMoves(r) /\ req'[r].at = "reading" /\ req'[r].op = "judge"
    BY <1>1, <1>3, RequestMoves DEF OnlyMoves
  <2> QED BY <1>1, <1>3, <2>1, FormKept DEF TurnInv, Readable, OnlyMoves
<1>4. CASE /\ \E line : Writes(r, line)
           /\ judgTail' = judgTail /\ judgFile' = judgFile /\ Readable(judgFile)
  <2>1. OnlyMoves(r) /\ req'[r].at = "writing" /\ req'[r].op = "judge"
    BY <1>1, <1>4, RequestMoves DEF OnlyMoves
  <2> QED BY <1>1, <1>4, <2>1, FormKept DEF TurnInv, Readable, OnlyMoves
<1>5. CASE JudgeTurn(r)
  BY <1>2, <1>3, <1>5 DEF JudgeTurn
<1>6. CASE JudgeRead(r)
  BY <1>2, <1>4, <1>6 DEF JudgeRead, HistoryRead
<1>7. CASE JudgeWrite(r)
  BY <1>2, <1>7 DEF JudgeWrite
<1> QED BY <1>5, <1>6, <1>7

LEMMA TurnFalls ==
  ASSUME TurnInv, ServerDies \/ \E r \in Handlers : WriteFails(r)
  PROVE  TurnInv'
<1>1. CASE ServerDies
  BY <1>1 DEF ServerDies, TurnInv, Formed
<1>2. ASSUME NEW r \in Handlers, WriteFails(r) PROVE TurnInv'
  <2>1. CASE req[r].op = "judge"
    BY <1>2, <2>1, TurnJudgeEnds DEF WriteFails, Release, TurnInv
  <2>2. CASE req[r].op # "judge"
    BY <1>2, <2>2, TurnCaseEnds DEF WriteFails, Release, TurnInv
  <2> QED BY <2>1, <2>2
<1> QED BY <1>1, <1>2

LEMMA TurnInductive == TurnInv /\ [ReviewNext]_revVars => TurnInv'
<1> SUFFICES ASSUME TurnInv, [ReviewNext]_revVars PROVE TurnInv'
  OBVIOUS
<1>1. CASE UNCHANGED revVars
  BY <1>1 DEF revVars, TurnInv, Readable, Formed
<1> QED BY <1>1, TurnAsk, TurnOpen, TurnCase, TurnJudge, TurnFalls DEF ReviewNext, ReviewStep

LEMMA TornStays ==
  TurnInv /\ [ReviewNext]_revVars =>
    /\ Junk \in ToSet(caseFile.lines) => caseFile' = caseFile
    /\ Junk \in ToSet(judgFile.lines) => judgFile' = judgFile
<1> SUFFICES ASSUME TurnInv, [ReviewNext]_revVars
             PROVE  /\ ~Readable(caseFile) => caseFile' = caseFile
                    /\ ~Readable(judgFile) => judgFile' = judgFile
  BY DEF Readable
<1>1. ASSUME NEW r \in Handlers, AskCase(r) \/ AskOpen(r) \/ AskJudge(r) \/ CaseTurn(r)
                                 \/ OpenCase(r) \/ Capture(r) \/ JudgeTurn(r) \/ JudgeRead(r)
      PROVE  caseFile' = caseFile /\ judgFile' = judgFile
  BY <1>1 DEF AskCase, AskOpen, AskJudge, CaseTurn, OpenCase, Capture, JudgeTurn, JudgeRead
<1>2. ASSUME NEW r \in Handlers, CaseWrite(r)
      PROVE  Readable(caseFile) /\ judgFile' = judgFile
  BY <1>2 DEF CaseWrite, TurnInv
<1>3. ASSUME NEW r \in Handlers, JudgeWrite(r)
      PROVE  Readable(judgFile) /\ caseFile' = caseFile
  BY <1>3 DEF JudgeWrite, TurnInv
<1>4. ASSUME NEW r \in Handlers, WriteFails(r)
      PROVE  \/ Readable(judgFile) /\ caseFile' = caseFile
             \/ Readable(caseFile) /\ judgFile' = judgFile
  BY <1>4 DEF WriteFails, TurnInv
<1>5. CASE ServerDies
  <2>1. ~Readable(caseFile) => \A q \in Handlers : ~(req[q].at = "writing" /\ req[q].op # "judge")
    BY DEF TurnInv
  <2>2. ~Readable(judgFile) => \A q \in Handlers : ~(req[q].at = "writing" /\ req[q].op = "judge")
    BY DEF TurnInv
  <2> QED BY <1>5, <2>1, <2>2 DEF ServerDies
<1>6. CASE UNCHANGED revVars
  BY <1>6 DEF revVars
<1> QED BY <1>1, <1>2, <1>3, <1>4, <1>5, <1>6 DEF ReviewNext, ReviewStep

\* Nothing is written behind a torn line, for any number of requests, cases and deaths:
\* whoever writes has had the turn on its log since it read all of it (CaseLog.tail,
\* v2JudgmentTail), so a log that no reader accepts stays as it is.
THEOREM TornLineIsLast == ReviewSpec => TornIsLast
<1>1. ReviewSpec => []TurnInv
  BY TurnInit, TurnInductive, PTL DEF ReviewSpec
<1> QED BY <1>1, TornStays, PTL DEF ReviewSpec, TornIsLast

-----------------------------------------------------------------------------
(* What an append leaves, and the chains of the cases *)

FileEnds == {"clean", "open"}
LogFiles(Lines) == [lines : Seq(Lines \cup {Junk}), end : FileEnds]

LEMMA FrontIs ==
  ASSUME NEW S, NEW q \in Seq(S)
  PROVE  Front(q) \in Seq(S)
<1>1. Len(q) \in Nat
  BY LenProperties
<1>2. CASE Len(q) = 0
  <2>1. Front(q) = <<>>
    BY <1>1, <1>2, SubSeqEmpty DEF Front
  <2> QED BY <2>1
<1>3. CASE Len(q) > 0
  BY <1>1, <1>3, SubSeqProperties DEF Front
<1> QED BY <1>1, <1>2, <1>3

LEMMA AppendIs ==
  ASSUME NEW S, NEW q \in Seq(S), NEW e \in S
  PROVE  /\ Append(q, e) \in Seq(S) /\ DOMAIN q = 1..Len(q) /\ Len(q) \in Nat
         /\ Len(Append(q, e)) = Len(q) + 1 /\ DOMAIN Append(q, e) = 1..(Len(q) + 1)
         /\ Append(q, e)[Len(q) + 1] = e
         /\ \A i \in 1..Len(q) : Append(q, e)[i] = q[i]
         /\ ToSet(Append(q, e)) = ToSet(q) \cup {e}
<1>1. /\ Append(q, e) \in Seq(S) /\ DOMAIN q = 1..Len(q) /\ Len(q) \in Nat
      /\ Len(Append(q, e)) = Len(q) + 1 /\ DOMAIN Append(q, e) = 1..(Len(q) + 1)
      /\ Append(q, e)[Len(q) + 1] = e
      /\ \A i \in 1..Len(q) : Append(q, e)[i] = q[i]
  BY AppendProperties, LenProperties
<1>2. ToSet(Append(q, e)) = ToSet(q) \cup {e}
  <2>1. ASSUME NEW x \in ToSet(Append(q, e)) PROVE x \in ToSet(q) \cup {e}
    <3>1. PICK i \in 1..(Len(q) + 1) : x = Append(q, e)[i]
      BY <1>1, <2>1 DEF ToSet
    <3>2. i \in 1..Len(q) \/ i = Len(q) + 1
      BY <1>1, <3>1
    <3> QED BY <1>1, <3>1, <3>2 DEF ToSet
  <2>2. ASSUME NEW x \in ToSet(q) \cup {e} PROVE x \in ToSet(Append(q, e))
    <3>1. CASE x = e
      BY <1>1, <3>1 DEF ToSet
    <3>2. CASE x \in ToSet(q)
      <4>1. PICK i \in 1..Len(q) : x = q[i]
        BY <1>1, <3>2 DEF ToSet
      <4>2. i \in 1..(Len(q) + 1) /\ x = Append(q, e)[i]
        BY <1>1, <4>1
      <4> QED BY <1>1, <4>2 DEF ToSet
    <3> QED BY <2>2, <3>1, <3>2
  <2> QED BY <2>1, <2>2
<1> QED BY <1>1, <1>2

\* An append adds its line, or leaves the file, or leaves what no reader accepts.
LEMMA TornIs ==
  ASSUME NEW Lines, NEW f \in LogFiles(Lines), NEW e \in Lines,
         NEW g \in {f} \cup Torn(f, e)
  PROVE  /\ g \in LogFiles(Lines)
         /\ Readable(g) => g.lines = f.lines \/ g.lines = Append(f.lines, e)
<1> DEFINE S == Lines \cup {Junk}
<1>1. f.lines \in Seq(S) /\ f.end \in FileEnds /\ Front(f.lines) \in Seq(S)
  BY FrontIs DEF LogFiles
<1>2. Complete(f) \in Seq(S)
  BY <1>1 DEF Complete
<1>3. \A x \in S : Append(Complete(f), x) \in Seq(S)
  BY <1>2, AppendIs
<1>4. ~Readable([lines |-> Append(Complete(f), Junk), end |-> "open"])
  <2>1. Junk \in ToSet(Append(Complete(f), Junk))
    BY <1>2, AppendIs
  <2> QED BY <2>1 DEF Readable
<1>5. Written(f, e) = [lines |-> Append(Complete(f), IF f.end = "clean" THEN e ELSE Junk), end |-> "clean"]
  BY DEF Written
<1>6. CASE g = f
  BY <1>6
<1>7. CASE g \in {Written(f, e), [Written(f, e) EXCEPT !.end = "open"]}
  <2>1. g.lines = Append(Complete(f), IF f.end = "clean" THEN e ELSE Junk)
        /\ g \in [lines : {Append(Complete(f), IF f.end = "clean" THEN e ELSE Junk)}, end : FileEnds]
    BY <1>5, <1>7 DEF FileEnds
  <2>2. g \in LogFiles(Lines)
    BY <1>3, <2>1 DEF LogFiles
  <2>3. CASE f.end = "clean"
    BY <2>1, <2>2, <2>3 DEF Complete
  <2>4. CASE f.end # "clean"
    <3>1. Junk \in ToSet(g.lines)
      BY <1>2, <2>1, <2>4, AppendIs
    <3> QED BY <2>2, <3>1 DEF Readable
  <2> QED BY <2>3, <2>4
<1>8. CASE g = [lines |-> Append(Complete(f), Junk), end |-> "open"]
  BY <1>3, <1>4, <1>8 DEF LogFiles, FileEnds
<1> QED BY <1>6, <1>7, <1>8 DEF Torn

CaseStates == {"new", "reviewing", "judged"}
CaseLines == [case : Cases, kind : {"created", "state"}, sequence : Nat, parent : Nat,
              state : CaseStates, time : Nat]

Latest(chain, e) == e \in chain /\ \A f \in chain : f.sequence <= e.sequence

\* What the readers accept, and that each chain has a last event.
CasesOK(lines) ==
  /\ lines \in Seq(CaseLines) /\ CasesValid(lines)
  /\ \A c \in Known(lines) : \E e \in EventsOf(lines, c) : Latest(EventsOf(lines, c), e)

LEMMA LinesAre ==
  ASSUME NEW S, NEW lines \in Seq(S)
  PROVE  /\ ToSet(lines) \subseteq S
         /\ \A i \in DOMAIN lines : lines[i] \in ToSet(lines) /\ lines[i] \in S
         /\ \A x \in ToSet(lines) : \E i \in DOMAIN lines : x = lines[i]
<1>1. \A i \in DOMAIN lines : lines[i] \in S
  BY LenProperties, ElementOfSeq
<1> QED BY <1>1 DEF ToSet

LEMMA EventsGrow ==
  ASSUME NEW lines \in Seq(CaseLines), NEW e \in CaseLines
  PROVE  /\ Known(Append(lines, e)) = Known(lines) \cup {e.case}
         /\ \A c : EventsOf(Append(lines, e), c) =
                     EventsOf(lines, c) \cup {x \in {e} : x.case = c}
<1>1. ToSet(Append(lines, e)) = ToSet(lines) \cup {e}
  BY AppendIs
<1> QED BY <1>1 DEF Known, EventsOf

LEMMA NewestIs ==
  ASSUME NEW lines, CasesOK(lines), NEW c \in Known(lines)
  PROVE  LET e == Newest(EventsOf(lines, c))
         IN /\ Latest(EventsOf(lines, c), e)
            /\ e \in CaseLines /\ e.case = c
<1>1. \E e \in EventsOf(lines, c) : \A f \in EventsOf(lines, c) : f.sequence <= e.sequence
  BY DEF CasesOK, Latest
<1>2. Latest(EventsOf(lines, c), Newest(EventsOf(lines, c)))
  BY <1>1 DEF Newest, Latest
<1>3. EventsOf(lines, c) \subseteq CaseLines
  BY LinesAre DEF CasesOK, EventsOf
<1> QED BY <1>2, <1>3 DEF Latest, EventsOf

\* A case that nobody knows is created by one event.
LEMMA CreatedFits ==
  ASSUME NEW lines, CasesOK(lines), NEW c \in Cases, c \notin Known(lines), NEW now \in Nat
  PROVE  /\ CreatedEvent(c, now) \in CaseLines
         /\ CasesOK(Append(lines, CreatedEvent(c, now)))
<1> DEFINE e == CreatedEvent(c, now)
           more == Append(lines, e)
<1>1. /\ e \in CaseLines /\ e.case = c /\ e.kind = "created" /\ e.sequence = 1
      /\ lines \in Seq(CaseLines)
  BY DEF CreatedEvent, CaseLines, CaseStates, CasesOK
<1> HIDE DEF e
<1>2. /\ more \in Seq(CaseLines) /\ DOMAIN more = 1..(Len(lines) + 1) /\ DOMAIN lines = 1..Len(lines)
      /\ more[Len(lines) + 1] = e /\ Len(lines) \in Nat
      /\ \A i \in 1..Len(lines) : more[i] = lines[i]
  BY <1>1, AppendIs
<1>3. /\ Known(more) = Known(lines) \cup {c}
      /\ \A d : EventsOf(more, d) = EventsOf(lines, d) \cup {x \in {e} : x.case = d}
  BY <1>1, EventsGrow
<1>4. \A i \in 1..Len(lines) : lines[i].case \in Known(lines)
  BY <1>1, <1>2, LinesAre DEF Known
<1> HIDE DEF more
<1>5. EventsOf(lines, c) = {}
  BY DEF EventsOf, Known
<1>6. ChainValid(more, c) /\ Latest(EventsOf(more, c), e)
  <2>1. EventsOf(more, c) = {e}
    BY <1>1, <1>3, <1>5
  <2>2. \A i \in DOMAIN more : more[i].case = c => i = Len(lines) + 1
    BY <1>2, <1>4
  <2> QED BY <1>1, <2>1, <2>2 DEF ChainValid, Latest
<1>7. ASSUME NEW d \in Known(lines) PROVE ChainValid(more, d)
  <2>1. EventsOf(more, d) = EventsOf(lines, d)
    BY <1>1, <1>3
  <2>2. \A i \in DOMAIN more : more[i].case = d => i \in DOMAIN lines /\ more[i] = lines[i]
    BY <1>1, <1>2
  <2>3. ChainValid(lines, d)
    BY DEF CasesOK, CasesValid
  <2> QED BY <2>1, <2>2, <2>3 DEF ChainValid
<1>8. \A d \in Known(lines) : EventsOf(more, d) = EventsOf(lines, d)
  BY <1>1, <1>3
<1>9. CasesOK(more)
  <2>1. CasesValid(more)
    BY <1>3, <1>6, <1>7 DEF CasesValid
  <2>2. ASSUME NEW d \in Known(more) PROVE \E x \in EventsOf(more, d) : Latest(EventsOf(more, d), x)
    <3>1. CASE d = c
      BY <1>6, <3>1 DEF Latest
    <3>2. CASE d # c
      BY <1>3, <1>8, <3>2 DEF CasesOK
    <3> QED BY <3>1, <3>2
  <2> QED BY <1>2, <2>1, <2>2 DEF CasesOK
<1> QED BY <1>1, <1>9 DEF e, more

\* A transition that the last event of a case allows is its next event.
LEMMA StateFits ==
  ASSUME NEW lines, CasesOK(lines), NEW c \in Cases, c \in Known(lines), NEW now \in Nat,
         NEW s \in Transitions[Newest(EventsOf(lines, c)).state]
  PROVE  LET e == StateEvent(c, Newest(EventsOf(lines, c)), s, now)
         IN e \in CaseLines /\ CasesOK(Append(lines, e))
<1> DEFINE chain == EventsOf(lines, c)
           last == Newest(chain)
           e == StateEvent(c, last, s, now)
           more == Append(lines, e)
<1>1. /\ Latest(chain, last) /\ last \in CaseLines /\ last.case = c
      /\ lines \in Seq(CaseLines) /\ ChainValid(lines, c)
  BY NewestIs DEF CasesOK, CasesValid
<1>2. chain \subseteq CaseLines
  BY <1>1, LinesAre DEF EventsOf
<1> HIDE DEF last
<1>3. s \in CaseStates /\ s \in Transitions[last.state]
  <2>1. last.state \in CaseStates
    BY <1>1 DEF CaseLines
  <2> QED BY <2>1 DEF last, Transitions, CaseStates
<1>4. /\ e \in CaseLines /\ e.case = c /\ e.kind = "state" /\ e.sequence = last.sequence + 1
      /\ e.parent = last.sequence /\ e.state = s /\ e.time >= last.time /\ last.sequence \in Nat
  BY <1>1, <1>3 DEF StateEvent, CaseLines
<1> HIDE DEF e
<1>5. /\ more \in Seq(CaseLines) /\ DOMAIN more = 1..(Len(lines) + 1) /\ DOMAIN lines = 1..Len(lines)
      /\ more[Len(lines) + 1] = e /\ Len(lines) \in Nat
      /\ \A i \in 1..Len(lines) : more[i] = lines[i]
  BY <1>1, <1>4, AppendIs
<1>6. /\ Known(more) = Known(lines)
      /\ \A d : EventsOf(more, d) = EventsOf(lines, d) \cup {x \in {e} : x.case = d}
  <2>1. /\ Known(more) = Known(lines) \cup {e.case}
        /\ \A d : EventsOf(more, d) = EventsOf(lines, d) \cup {x \in {e} : x.case = d}
    BY <1>1, <1>4, EventsGrow
  <2> QED BY <1>4, <2>1
<1>7. \A i \in 1..Len(lines) : lines[i].case = c => lines[i] \in chain
  BY <1>1, <1>5, LinesAre DEF EventsOf
<1> HIDE DEF more
<1>8. EventsOf(more, c) = chain \cup {e}
  BY <1>4, <1>6
<1>9. \A f \in chain : f \in CaseLines /\ f.sequence \in Nat /\ f.sequence <= last.sequence
  BY <1>1, <1>2 DEF Latest, CaseLines
<1>10. Latest(EventsOf(more, c), e)
  BY <1>4, <1>8, <1>9 DEF Latest
<1>11. ChainValid(more, c)
  <2>1. ASSUME NEW i \in DOMAIN more, NEW j \in DOMAIN more, i # j, more[i].case = c, more[j].case = c
        PROVE  more[i].sequence # more[j].sequence
    <3>1. CASE i \in DOMAIN lines /\ j \in DOMAIN lines
      BY <1>1, <1>5, <2>1, <3>1 DEF ChainValid
    <3>2. ASSUME NEW k \in DOMAIN lines, more[k].case = c PROVE more[k].sequence # e.sequence
      BY <1>4, <1>5, <1>7, <1>9, <3>2
    <3> QED BY <1>5, <2>1, <3>1, <3>2
  <2>2. ASSUME NEW f \in chain, f.kind = "state"
        PROVE  \E p \in chain :
                 /\ p.sequence = f.parent /\ f.sequence = p.sequence + 1 /\ f.time >= p.time
                 /\ f.state \in Transitions[p.state]
                 /\ \A g \in chain : g.kind = "state" /\ g.parent = f.parent => g = f
    BY <1>1, <2>2 DEF ChainValid
  <2>3. \A f \in chain : f.kind = "state" => f.parent # e.parent
    <3> SUFFICES ASSUME NEW f \in chain, f.kind = "state", f.parent = e.parent PROVE FALSE
      OBVIOUS
    <3>1. PICK p \in chain : p.sequence = f.parent /\ f.sequence = p.sequence + 1
      BY <2>2
    <3> QED BY <1>4, <1>9, <3>1
  <2>4. last \in chain /\ last.sequence # 0
    <3>1. last \in chain /\ last.kind \in {"created", "state"}
      BY <1>1, <1>2 DEF Latest, CaseLines
    <3>2. CASE last.kind = "created"
      BY <1>1, <3>1, <3>2 DEF ChainValid
    <3>3. CASE last.kind = "state"
      <4>1. PICK p \in chain : last.sequence = p.sequence + 1
        BY <2>2, <3>1, <3>3
      <4>2. p.sequence \in Nat
        BY <1>9
      <4> QED BY <3>1, <4>1, <4>2
    <3> QED BY <3>1, <3>2, <3>3
  <2>5. \A f \in chain \cup {e} : (f.kind = "created") = (f.sequence = 1)
    <3>1. e.kind # "created" /\ e.sequence # 1
      BY <1>4, <2>4
    <3>2. \A f \in chain : (f.kind = "created") = (f.sequence = 1)
      BY <1>1 DEF ChainValid
    <3> QED BY <3>1, <3>2
  <2>6. ASSUME NEW f \in chain \cup {e}, f.kind = "state"
        PROVE  \E p \in chain \cup {e} :
                 /\ p.sequence = f.parent /\ f.sequence = p.sequence + 1 /\ f.time >= p.time
                 /\ f.state \in Transitions[p.state]
                 /\ \A g \in chain \cup {e} : g.kind = "state" /\ g.parent = f.parent => g = f
    <3>1. CASE f \in chain
      BY <2>2, <2>3, <2>6, <3>1
    <3>2. CASE f = e
      BY <1>3, <1>4, <2>3, <2>4, <3>2
    <3> QED BY <2>6, <3>1, <3>2
  <2> QED BY <1>8, <2>1, <2>5, <2>6 DEF ChainValid
<1>12. ASSUME NEW d \in Known(lines), d # c
       PROVE  ChainValid(more, d) /\ EventsOf(more, d) = EventsOf(lines, d)
  <2>1. EventsOf(more, d) = EventsOf(lines, d)
    BY <1>4, <1>6, <1>12
  <2>2. \A i \in DOMAIN more : more[i].case = d => i \in DOMAIN lines /\ more[i] = lines[i]
    BY <1>4, <1>5, <1>12
  <2>3. ChainValid(lines, d)
    BY DEF CasesOK, CasesValid
  <2> QED BY <2>1, <2>2, <2>3 DEF ChainValid
<1>13. CasesOK(more)
  <2>1. CasesValid(more)
    BY <1>6, <1>11, <1>12 DEF CasesValid
  <2>2. ASSUME NEW d \in Known(more) PROVE \E x \in EventsOf(more, d) : Latest(EventsOf(more, d), x)
    <3>1. CASE d = c
      BY <1>8, <1>10, <3>1
    <3>2. CASE d # c
      BY <1>6, <1>12, <3>2 DEF CasesOK
    <3> QED BY <3>1, <3>2
  <2> QED BY <1>5, <2>1, <2>2 DEF CasesOK
<1> QED BY <1>4, <1>13 DEF e, more, last

\* What a judgment may be about, and the lines of its log.
Abouts == {<<t>> : t \in Targets} \cup {<<t, u>> : t, u \in Targets}
JudgLines == [id : Nat, case : Cases, action : {"result", "missing", "prefer"}, about : Abouts,
              supersedes : Nat, time : Nat]

\* A judgment with a new id that may correct what it names keeps the corrections chains.
LEMMA CorrectionFits ==
  ASSUME NEW lines \in Seq(JudgLines), GraphValid(lines), NEW r, NEW b \in Bodies, NEW now \in Nat,
         req[r].number \in Nat, req[r].case \in Cases, MayCorrect(lines, req[r].case, b),
         \A p \in ToSet(lines) : p.id # req[r].number
  PROVE  LET j == Judgment(lines, r, b, now)
         IN j \in JudgLines /\ j.id = req[r].number /\ j.case = req[r].case
            /\ GraphValid(Append(lines, j))
<1> DEFINE prior == {p \in ToSet(lines) : p.id = b.supersedes}
           j == Judgment(lines, r, b, now)
           more == Append(lines, j)
<1>1. /\ b.action \in {"result", "missing", "prefer"} /\ b.about \in Abouts /\ b.supersedes \in Nat
  BY ReviewAssumption DEF Bodies, Abouts
<1>2. ToSet(lines) \subseteq JudgLines
  BY LinesAre
<1>3. \A p, q \in prior : p = q
  <2>1. ASSUME NEW p \in prior, NEW q \in prior PROVE p = q
    <3>1. PICK i \in DOMAIN lines : lines[i] = p
      BY LinesAre
    <3>2. PICK k \in DOMAIN lines : lines[k] = q
      BY LinesAre
    <3> QED BY <3>1, <3>2 DEF GraphValid
  <2> QED BY <2>1
<1>4. \A p \in prior : p \in JudgLines /\ p.time \in Nat
  BY <1>2 DEF JudgLines
<1> DEFINE first == CHOOSE p \in prior : TRUE
           stamp == IF \A p \in prior : now > p.time THEN now ELSE first.time + 1
<1>5. stamp \in Nat /\ \A p \in prior : stamp > p.time
  <2>1. CASE \A p \in prior : now > p.time
    BY <2>1
  <2>2. CASE ~\A p \in prior : now > p.time
    <3>1. first \in prior
      BY <2>2
    <3> HIDE DEF first
    <3>2. stamp = first.time + 1
      BY <2>2
    <3>3. \A q \in prior : q = first
      BY <1>3, <3>1
    <3> HIDE DEF prior, stamp
    <3> QED BY <1>4, <3>1, <3>2, <3>3
  <2> QED BY <2>1, <2>2
<1>6. j = [id |-> req[r].number, case |-> req[r].case, action |-> b.action, about |-> b.about,
           supersedes |-> b.supersedes, time |-> stamp]
  BY DEF Judgment
<1> HIDE DEF j, stamp
<1>7. /\ j \in JudgLines /\ j.id = req[r].number /\ j.case = req[r].case /\ j.supersedes = b.supersedes
      /\ j.time = stamp /\ TargetKey(j) = TargetKey(b)
  BY <1>1, <1>5, <1>6 DEF JudgLines, TargetKey
<1>8. /\ DOMAIN more = 1..(Len(lines) + 1) /\ DOMAIN lines = 1..Len(lines)
      /\ more[Len(lines) + 1] = j /\ Len(lines) \in Nat
      /\ \A i \in 1..Len(lines) : more[i] = lines[i]
  BY <1>7, AppendIs
<1> HIDE DEF more
<1>9. \A i \in DOMAIN lines : lines[i] \in ToSet(lines)
  BY LinesAre
<1>10. ASSUME NEW i \in DOMAIN more, NEW k \in DOMAIN more, i # k PROVE more[i].id # more[k].id
  <2>1. CASE i \in DOMAIN lines /\ k \in DOMAIN lines
    BY <1>8, <1>10, <2>1 DEF GraphValid
  <2>2. \A l \in DOMAIN lines : more[l].id # j.id
    BY <1>7, <1>8, <1>9
  <2> QED BY <1>8, <1>10, <2>1, <2>2
<1>11. ASSUME NEW i \in DOMAIN more, more[i].supersedes # 0
       PROVE  \E k \in 1 .. i - 1 :
                /\ more[k].id = more[i].supersedes /\ more[k].case = more[i].case
                /\ TargetKey(more[k]) = TargetKey(more[i]) /\ more[i].time > more[k].time
  <2>1. CASE i \in DOMAIN lines
    <3>1. PICK k \in 1 .. i - 1 :
                /\ lines[k].id = lines[i].supersedes /\ lines[k].case = lines[i].case
                /\ TargetKey(lines[k]) = TargetKey(lines[i]) /\ lines[i].time > lines[k].time
      BY <1>8, <1>11, <2>1 DEF GraphValid
    <3>2. k \in 1..Len(lines)
      BY <1>8, <2>1
    <3> QED BY <1>8, <2>1, <3>1, <3>2
  <2>2. CASE i = Len(lines) + 1
    <3>1. PICK p \in ToSet(lines) : p.id = b.supersedes /\ p.case = req[r].case /\ TargetKey(p) = TargetKey(b)
      BY <1>7, <1>8, <1>11, <2>2 DEF MayCorrect
    <3>2. PICK k \in DOMAIN lines : p = lines[k]
      BY LinesAre
    <3>3. more[k] = p /\ more[i] = j /\ k \in 1 .. i - 1 /\ stamp > p.time
      BY <1>5, <1>8, <2>2, <3>1, <3>2
    <3>4. /\ more[k].id = more[i].supersedes /\ more[k].case = more[i].case
          /\ TargetKey(more[k]) = TargetKey(more[i]) /\ more[i].time > more[k].time
      BY <1>7, <3>1, <3>3
    <3> QED BY <3>3, <3>4
  <2> QED BY <1>8, <2>1, <2>2
<1>12. ASSUME NEW i \in DOMAIN more, NEW k \in DOMAIN more, i # k, more[i].supersedes # 0
       PROVE  more[i].supersedes # more[k].supersedes
  <2>1. CASE i \in DOMAIN lines /\ k \in DOMAIN lines
    BY <1>8, <1>12, <2>1 DEF GraphValid
  <2>2. j.supersedes # 0 => \A l \in DOMAIN lines : more[l].supersedes # j.supersedes
    BY <1>7, <1>8, <1>9 DEF MayCorrect
  <2> QED BY <1>8, <1>12, <2>1, <2>2
<1>13. GraphValid(more)
  BY <1>10, <1>11, <1>12 DEF GraphValid
<1> QED BY <1>7, <1>13 DEF j, more

-----------------------------------------------------------------------------
(* The requests *)

Fields == {"op", "case", "state", "at", "number", "line"}
Busy(r) == req[r].at # "free"

\* Requests in flight have numbers of their own, and those that create a case, cases of their own.
RequestInv ==
  /\ asked \in 0 .. MaxAsked
  /\ \A r \in Handlers :
       /\ ~Busy(r) => req[r] = Free
       /\ Busy(r) => /\ DOMAIN req[r] = Fields /\ req[r].case \in Cases /\ req[r].number \in 1 .. asked
                     /\ req[r].at \in {"waiting", "reading", "writing", "searching"}
                     /\ req[r].op \in {"create", "state", "open", "judge"}
       /\ req[r].at = "searching" => req[r].op \in {"create", "open"}
  /\ \A q, r \in Handlers : q # r /\ Busy(q) /\ Busy(r) =>
       /\ req[q].number # req[r].number
       /\ req[q].op = "create" /\ req[r].op = "create" => req[q].case # req[r].case

\* A request goes on: it keeps everything but where it is and its line.
GoesOn(r, to) ==
  /\ OnlyMoves(r) /\ Busy(r) /\ to # "free" /\ DOMAIN req'[r] = Fields
  /\ req'[r].at = to /\ req'[r].op = req[r].op /\ req'[r].case = req[r].case
  /\ req'[r].number = req[r].number

LEMMA RequestGoesOn ==
  ASSUME TurnInv, RequestInv, NEW r \in Handlers, Busy(r)
  PROVE  /\ \A to : Moves(r, to) /\ to # "free" => GoesOn(r, to) /\ req'[r].line = req[r].line
         /\ \A line : Writes(r, line) => GoesOn(r, "writing") /\ req'[r].line = line
<1>1. DOMAIN req[r] = Fields /\ r \in DOMAIN req
  BY DEF RequestInv, TurnInv
<1>2. ASSUME NEW to, Moves(r, to), to # "free" PROVE GoesOn(r, to) /\ req'[r].line = req[r].line
  <2>1. req'[r] = [req[r] EXCEPT !.at = to]
    BY <1>1, <1>2 DEF Moves
  <2>2. OnlyMoves(r)
    BY <1>2, RequestMoves DEF OnlyMoves
  <2> QED BY <1>1, <1>2, <2>1, <2>2 DEF GoesOn, Fields
<1>3. ASSUME NEW line, Writes(r, line) PROVE GoesOn(r, "writing") /\ req'[r].line = line
  <2>1. req'[r] = [req[r] EXCEPT !.at = "writing", !.line = line]
    BY <1>1, <1>3 DEF Writes
  <2>2. OnlyMoves(r)
    BY <1>3, RequestMoves DEF OnlyMoves
  <2> QED BY <1>1, <1>3, <2>1, <2>2 DEF GoesOn, Fields
<1> QED BY <1>2, <1>3

Leaves(r) == OnlyMoves(r) /\ req'[r] = Free

\* What the steps of a request that is under way do to it.
LEMMA StepsGoOn ==
  ASSUME TurnInv, RequestInv, NEW r \in Handlers, ReviewStep(r)
  PROVE  /\ asked' = asked /\ Busy(r)
         /\ \/ Leaves(r)
            \/ GoesOn(r, "searching") /\ req[r].op \in {"create", "open"}
            \/ GoesOn(r, "reading") /\ req[r].op = "judge"
            \/ GoesOn(r, "writing") /\ req[r].op \in {"create", "state", "judge"}
<1> DEFINE Goal == \/ Leaves(r)
                   \/ GoesOn(r, "searching") /\ req[r].op \in {"create", "open"}
                   \/ GoesOn(r, "reading") /\ req[r].op = "judge"
                   \/ GoesOn(r, "writing") /\ req[r].op \in {"create", "state", "judge"}
<1>1. asked' = asked /\ Busy(r)
  BY DEF ReviewStep, CaseTurn, CaseWrite, OpenCase, Capture, JudgeTurn, JudgeRead, JudgeWrite, WriteFails, Busy
<1>2. ASSUME Answered(r) PROVE Goal
  BY <1>2, RequestMoves DEF Leaves, OnlyMoves
<1>3. ASSUME Moves(r, "searching"), req[r].op \in {"create", "open"} PROVE Goal
  BY <1>1, <1>3, RequestGoesOn
<1>4. ASSUME Moves(r, "reading"), req[r].op = "judge" PROVE Goal
  BY <1>1, <1>4, RequestGoesOn
<1>5. ASSUME NEW line, Writes(r, line), req[r].op \in {"create", "state", "judge"} PROVE Goal
  BY <1>1, <1>5, RequestGoesOn
<1> SUFFICES Goal
  BY <1>1
<1> HIDE DEF Goal
<1>6. CASE CaseTurn(r)
  BY <1>2, <1>5, <1>6 DEF CaseTurn
<1>7. CASE CaseWrite(r)
  BY <1>2, <1>3, <1>7 DEF CaseWrite
<1>8. CASE OpenCase(r)
  BY <1>2, <1>3, <1>8 DEF OpenCase
<1>9. CASE Capture(r) \/ WriteFails(r) \/ JudgeWrite(r)
  BY <1>2, <1>9 DEF Capture, WriteFails, JudgeWrite
<1>10. CASE JudgeTurn(r)
  BY <1>2, <1>4, <1>10 DEF JudgeTurn
<1>11. CASE JudgeRead(r)
  <2>1. req[r].op = "judge"
    BY <1>11 DEF JudgeRead, TurnInv
  <2> QED BY <1>2, <1>5, <1>11, <2>1 DEF JudgeRead
<1> QED BY <1>6, <1>7, <1>8, <1>9, <1>10, <1>11 DEF ReviewStep

\* A request that comes has the next number.
Comes(r) ==
  /\ OnlyMoves(r) /\ ~Busy(r) /\ asked < MaxAsked /\ asked' = asked + 1
  /\ DOMAIN req'[r] = Fields /\ req'[r].case \in Cases /\ req'[r].number = asked + 1
  /\ req'[r].at = "waiting" /\ req'[r].op \in {"create", "state", "open", "judge"}
  /\ req'[r].op = "create" => /\ req'[r].case \notin Known(caseFile.lines)
                              /\ \A q \in Handlers : req[q].op = "create" => req[q].case # req'[r].case

LEMMA AsksCome ==
  ASSUME TurnInv, RequestInv, NEW r \in Handlers, AskCase(r) \/ AskOpen(r) \/ AskJudge(r)
  PROVE  Comes(r) /\ Stays
<1>1. ASSUME NEW op, NEW c, NEW s, Receive(r, op, c, s)
      PROVE  /\ OnlyMoves(r) /\ ~Busy(r) /\ asked < MaxAsked /\ asked' = asked + 1
             /\ DOMAIN req'[r] = Fields /\ req'[r].case = c /\ req'[r].number = asked + 1
             /\ req'[r].at = "waiting" /\ req'[r].op = op
  BY <1>1 DEF Receive, TurnInv, OnlyMoves, Formed, Fields, Busy
<1>2. CASE AskCase(r)
  <2>1. CASE \E c \in Cases \ Known(caseFile.lines) :
               /\ \A q \in Handlers : req[q].op = "create" => req[q].case # c
               /\ Receive(r, "create", c, "new")
    BY <1>1, <1>2, <2>1 DEF AskCase, Comes
  <2>2. CASE \E c \in Cases, s \in {"reviewing", "judged"} : Receive(r, "state", c, s)
    BY <1>1, <1>2, <2>2 DEF AskCase, Comes
  <2> QED BY <1>2, <2>1, <2>2 DEF AskCase
<1>3. CASE AskOpen(r)
  BY <1>1, <1>3 DEF AskOpen, Comes
<1>4. CASE AskJudge(r)
  BY <1>1, <1>4 DEF AskJudge, Comes
<1> QED BY <1>2, <1>3, <1>4

LEMMA RequestInit == ReviewInit => RequestInv
BY ReviewAssumption DEF ReviewInit, RequestInv, Busy

LEMMA RequestNext == TurnInv /\ RequestInv /\ [ReviewNext]_revVars => RequestInv'
<1> SUFFICES ASSUME TurnInv, RequestInv, [ReviewNext]_revVars PROVE RequestInv'
  OBVIOUS
<1>0. MaxAsked \in Nat
  BY ReviewAssumption
<1>1. ASSUME NEW r \in Handlers, Comes(r) PROVE RequestInv'
  <2>1. asked' \in 0 .. MaxAsked
    BY <1>0, <1>1 DEF Comes, RequestInv
  <2>2. ASSUME NEW q \in Handlers
        PROVE  /\ ~Busy(q)' => req'[q] = Free
               /\ Busy(q)' => /\ DOMAIN req'[q] = Fields /\ req'[q].case \in Cases /\ req'[q].number \in 1 .. asked'
                              /\ req'[q].at \in {"waiting", "reading", "writing", "searching"}
                              /\ req'[q].op \in {"create", "state", "open", "judge"}
               /\ req'[q].at = "searching" => req'[q].op \in {"create", "open"}
    <3>1. CASE q = r
      BY <1>1, <3>1 DEF Comes, Busy, RequestInv
    <3>2. CASE q # r
      BY <1>1, <3>2 DEF Comes, Busy, RequestInv, OnlyMoves
    <3> QED BY <3>1, <3>2
  <2>3. \A q \in Handlers : Busy(q) => req[q].number # asked + 1
    BY DEF RequestInv
  <2>4. ASSUME NEW p \in Handlers, NEW q \in Handlers, p # q, Busy(p)', Busy(q)'
        PROVE  /\ req'[p].number # req'[q].number
               /\ req'[p].op = "create" /\ req'[q].op = "create" => req'[p].case # req'[q].case
    <3>1. CASE p = r
      BY <1>1, <2>3, <2>4, <3>1 DEF Comes, Busy, OnlyMoves
    <3>2. CASE q = r
      BY <1>1, <2>3, <2>4, <3>2 DEF Comes, Busy, OnlyMoves
    <3>3. CASE p # r /\ q # r
      BY <1>1, <2>4, <3>3 DEF Comes, Busy, OnlyMoves, RequestInv
    <3> QED BY <3>1, <3>2, <3>3
  <2> QED BY <2>1, <2>2, <2>4 DEF RequestInv
<1>2. ASSUME NEW r \in Handlers, Leaves(r), asked' = asked PROVE RequestInv'
  BY <1>2 DEF RequestInv, Busy, Leaves, OnlyMoves
<1>3. ASSUME NEW r \in Handlers, NEW to \in {"searching", "reading", "writing"}, GoesOn(r, to), asked' = asked,
             to = "searching" => req[r].op \in {"create", "open"}
      PROVE  RequestInv'
  <2>1. ASSUME NEW q \in Handlers
        PROVE  /\ Busy(q)' <=> Busy(q)
               /\ DOMAIN req'[q] = DOMAIN req[q] /\ req'[q].op = req[q].op
               /\ Busy(q) => req'[q].case = req[q].case /\ req'[q].number = req[q].number
               /\ q # r => req'[q] = req[q]
    <3>1. CASE q = r
      BY <1>3, <3>1 DEF GoesOn, Busy, RequestInv
    <3>2. CASE q # r
      BY <1>3, <3>2 DEF GoesOn, Busy, OnlyMoves
    <3> QED BY <3>1, <3>2
  <2>2. Busy(r) /\ req'[r].at = to
    BY <1>3 DEF GoesOn
  <2>3. ASSUME NEW q \in Handlers
        PROVE  /\ ~Busy(q)' => req'[q] = Free
               /\ Busy(q)' => /\ DOMAIN req'[q] = Fields /\ req'[q].case \in Cases /\ req'[q].number \in 1 .. asked'
                              /\ req'[q].at \in {"waiting", "reading", "writing", "searching"}
                              /\ req'[q].op \in {"create", "state", "open", "judge"}
               /\ req'[q].at = "searching" => req'[q].op \in {"create", "open"}
    <3>1. CASE q = r
      BY <1>3, <2>1, <2>2, <3>1 DEF RequestInv
    <3>2. CASE q # r
      BY <1>3, <2>1, <3>2 DEF RequestInv
    <3> QED BY <3>1, <3>2
  <2>4. ASSUME NEW p \in Handlers, NEW q \in Handlers, p # q, Busy(p)', Busy(q)'
        PROVE  /\ req'[p].number # req'[q].number
               /\ req'[p].op = "create" /\ req'[q].op = "create" => req'[p].case # req'[q].case
    BY <2>1, <2>4 DEF RequestInv
  <2> QED BY <1>3, <2>3, <2>4 DEF RequestInv
<1>4. CASE ServerDies
  BY <1>4 DEF ServerDies, RequestInv, Busy
<1>5. CASE UNCHANGED revVars
  BY <1>5 DEF revVars, RequestInv, Busy
<1>6. ASSUME NEW r \in Handlers, ReviewStep(r) PROVE RequestInv'
  BY <1>2, <1>3, <1>6, StepsGoOn
<1> QED BY <1>1, <1>4, <1>5, <1>6, AsksCome DEF ReviewNext

-----------------------------------------------------------------------------
(* The case log *)

\* A case that is asked for is created at most once.
CreatePending(r) == req[r].op = "create" /\ req[r].at \in {"waiting", "writing"}

\* What a request that has its turn is about to append fits what the log holds.
CaseLogInv ==
  /\ caseFile \in LogFiles(CaseLines)
  /\ Readable(caseFile) => CasesOK(caseFile.lines)
  /\ \A r \in Handlers : CaseWriter(r) =>
       /\ req[r].line \in CaseLines /\ req[r].line.case = req[r].case
       /\ CasesOK(Append(caseFile.lines, req[r].line))
       /\ req[r].op = "state" => req[r].case \in Known(caseFile.lines)
  /\ \A r \in Handlers : CreatePending(r) /\ Readable(caseFile) => req[r].case \notin Known(caseFile.lines)

LEMMA ReadableIs ==
  ASSUME NEW Lines, NEW f \in LogFiles(Lines), Readable(f)
  PROVE  f.lines \in Seq(Lines)
<1>1. f.lines \in Seq(Lines \cup {Junk}) /\ Len(f.lines) \in Nat
  BY LenProperties DEF LogFiles
<1>2. \A i \in 1..Len(f.lines) : f.lines[i] \in Lines
  BY <1>1, LinesAre, LenProperties DEF Readable
<1> QED BY <1>1, <1>2, IsASeq

\* A file that is readable after an append was readable before.
LEMMA TornKeeps ==
  ASSUME NEW Lines, NEW f \in LogFiles(Lines), NEW e \in Lines, NEW g \in {f} \cup Torn(f, e), Readable(g)
  PROVE  Readable(f)
<1>1. f.lines \in Seq(Lines \cup {Junk})
  BY DEF LogFiles
<1>2. ToSet(f.lines) \subseteq ToSet(Append(f.lines, e))
  BY <1>1, AppendIs
<1>3. g.lines = f.lines \/ g.lines = Append(f.lines, e)
  BY TornIs
<1> QED BY <1>2, <1>3 DEF Readable

\* The case log with what an append has left of a line that fits.
LEMMA CaseGrows ==
  ASSUME CaseLogInv, NEW e \in CaseLines, CasesOK(Append(caseFile.lines, e)),
         caseFile' \in {caseFile} \cup Torn(caseFile, e)
  PROVE  /\ caseFile' \in LogFiles(CaseLines)
         /\ Readable(caseFile)' =>
              /\ Readable(caseFile) /\ CasesOK(caseFile'.lines)
              /\ Known(caseFile.lines) \subseteq Known(caseFile'.lines)
              /\ Known(caseFile'.lines) \subseteq Known(caseFile.lines) \cup {e.case}
<1>1. caseFile \in LogFiles(CaseLines)
  BY DEF CaseLogInv
<1>2. caseFile' \in LogFiles(CaseLines)
  BY <1>1, TornIs
<1>3. ASSUME Readable(caseFile)'
      PROVE  /\ Readable(caseFile) /\ CasesOK(caseFile'.lines)
             /\ Known(caseFile.lines) \subseteq Known(caseFile'.lines)
             /\ Known(caseFile'.lines) \subseteq Known(caseFile.lines) \cup {e.case}
  <2>1. Readable(caseFile')
    BY <1>3 DEF Readable
  <2>2. Readable(caseFile) /\ (caseFile'.lines = caseFile.lines \/ caseFile'.lines = Append(caseFile.lines, e))
    BY <1>1, <2>1, TornIs, TornKeeps
  <2>3. caseFile.lines \in Seq(CaseLines) /\ CasesOK(caseFile.lines)
    BY <1>1, <2>2, ReadableIs DEF CaseLogInv
  <2>4. Known(Append(caseFile.lines, e)) = Known(caseFile.lines) \cup {e.case}
    BY <2>3, EventsGrow
  <2> QED BY <2>2, <2>3, <2>4
<1> QED BY <1>2, <1>3

LEMMA CaseLogInit == ReviewInit => CaseLogInv
<1> SUFFICES ASSUME ReviewInit PROVE CaseLogInv
  OBVIOUS
<1>1. \A r \in Handlers : ~CaseWriter(r) /\ ~CreatePending(r)
  BY DEF ReviewInit, CreatePending
<1>2. CasesOK(<<>>) /\ <<>> \in Seq(CaseLines \cup {Junk})
  <2>1. <<>> \in Seq(CaseLines) /\ ToSet(<<>>) = {}
    BY EmptySeq DEF ToSet
  <2> QED BY <2>1, EmptySeq DEF CasesOK, CasesValid, Known
<1>3. CASE caseFile = [lines |-> <<>>, end |-> "clean"]
  BY <1>1, <1>2, <1>3 DEF CaseLogInv, LogFiles, FileEnds
<1>4. ASSUME NEW c \in Cases, caseFile = [lines |-> <<CreatedEvent(c, 0)>>, end |-> "clean"]
      PROVE  CaseLogInv
  <2>1. c \notin Known(<<>>) /\ Append(<<>>, CreatedEvent(c, 0)) = <<CreatedEvent(c, 0)>>
    BY DEF Known, ToSet
  <2>2. CasesOK(<<CreatedEvent(c, 0)>>) /\ CreatedEvent(c, 0) \in CaseLines
    BY <1>2, <2>1, CreatedFits
  <2>3. <<CreatedEvent(c, 0)>> \in Seq(CaseLines \cup {Junk})
    BY <2>2
  <2> QED BY <1>1, <1>4, <2>2, <2>3 DEF CaseLogInv, LogFiles, FileEnds
<1>5. (CHOOSE x \in Cases : TRUE) \in Cases
  BY ReviewAssumption
<1> QED BY <1>3, <1>4, <1>5 DEF ReviewInit

\* Steps that leave the log alone and do not write to it.
LEMMA CaseRests ==
  ASSUME TurnInv, RequestInv, CaseLogInv, NEW r \in Handlers, OnlyMoves(r), caseFile' = caseFile,
         ~CaseWriter(r)', ~CreatePending(r)'
  PROVE  CaseLogInv'
<1>1. \A q \in Handlers : CaseWriter(q)' => q # r /\ CaseWriter(q) /\ req'[q] = req[q]
  BY DEF OnlyMoves
<1>2. \A q \in Handlers : CreatePending(q)' => q # r /\ CreatePending(q) /\ req'[q] = req[q]
  BY DEF OnlyMoves, CreatePending
<1> QED BY <1>1, <1>2 DEF CaseLogInv, Readable

LEMMA CaseAsk ==
  ASSUME TurnInv, RequestInv, CaseLogInv, NEW r \in Handlers, Comes(r), Stays
  PROVE  CaseLogInv'
<1>1. \A q \in Handlers : CaseWriter(q)' => q # r /\ CaseWriter(q) /\ req'[q] = req[q]
  BY DEF OnlyMoves, Comes
<1>2. \A q \in Handlers : CreatePending(q)' =>
        \/ q # r /\ CreatePending(q) /\ req'[q] = req[q]
        \/ req'[q].case \notin Known(caseFile.lines)
  BY DEF OnlyMoves, CreatePending, Comes
<1> QED BY <1>1, <1>2 DEF CaseLogInv, Readable

\* It is a request's turn, and it has a line.
LEMMA CaseLine ==
  ASSUME TurnInv, RequestInv, CaseLogInv, NEW r \in Handlers, CaseTurn(r)
  PROVE  CaseLogInv'
<1>1. /\ caseFile' = caseFile /\ req[r].op \in {"create", "state"} /\ req[r].at = "waiting"
      /\ Busy(r) /\ req[r].case \in Cases
  BY DEF CaseTurn, Busy, RequestInv
<1>2. CASE Answered(r)
  <2>1. OnlyMoves(r) /\ req'[r] = Free
    BY <1>2, RequestMoves DEF OnlyMoves
  <2> QED BY <1>1, <2>1, CaseRests DEF CreatePending
<1>3. CASE ~Answered(r)
  <2> DEFINE c == req[r].case
             last == Newest(EventsOf(caseFile.lines, c))
  <2>1. /\ Readable(caseFile)
        /\ req[r].op = "create" \/ (EventsOf(caseFile.lines, c) # {} /\ req[r].state \in Transitions[last.state])
    BY <1>3 DEF CaseTurn
  <2>2. PICK now \in 0 .. MaxClock :
               Writes(r, IF req[r].op = "create" THEN CreatedEvent(c, now)
                         ELSE StateEvent(c, last, req[r].state, now))
    BY <1>3 DEF CaseTurn
  <2>3. now \in Nat /\ CasesOK(caseFile.lines)
    BY <2>1, ReviewAssumption DEF CaseLogInv
  <2>4. PICK e : /\ Writes(r, e) /\ e \in CaseLines /\ e.case = c /\ CasesOK(Append(caseFile.lines, e))
                 /\ req[r].op = "state" => c \in Known(caseFile.lines)
    <3>1. CASE req[r].op = "create"
      <4>1. c \notin Known(caseFile.lines)
        BY <1>1, <2>1, <3>1 DEF CaseLogInv, CreatePending
      <4>2. CreatedEvent(c, now).case = c
        BY DEF CreatedEvent
      <4> QED BY <1>1, <2>2, <2>3, <3>1, <4>1, <4>2, CreatedFits
    <3>2. CASE req[r].op = "state"
      <4>1. c \in Known(caseFile.lines)
        BY <2>1, <3>2 DEF EventsOf, Known
      <4>2. StateEvent(c, last, req[r].state, now).case = c
        BY DEF StateEvent
      <4>3. req[r].state \in Transitions[last.state]
        BY <2>1, <3>2
      <4>4. /\ StateEvent(c, last, req[r].state, now) \in CaseLines
            /\ CasesOK(Append(caseFile.lines, StateEvent(c, last, req[r].state, now)))
        BY <1>1, <2>3, <4>1, <4>3, StateFits
      <4> QED BY <2>2, <3>2, <4>1, <4>2, <4>4
    <3> QED BY <1>1, <3>1, <3>2
  <2>5. GoesOn(r, "writing") /\ req'[r].line = e
    BY <1>1, <2>4, RequestGoesOn
  <2>6. ASSUME NEW q \in Handlers, CaseWriter(q)'
        PROVE  /\ req'[q].line \in CaseLines /\ req'[q].line.case = req'[q].case
               /\ CasesOK(Append(caseFile.lines, req'[q].line))
               /\ req'[q].op = "state" => req'[q].case \in Known(caseFile.lines)
    <3>1. CASE q = r
      BY <2>4, <2>5, <3>1 DEF GoesOn
    <3>2. CASE q # r
      BY <2>5, <2>6, <3>2 DEF GoesOn, OnlyMoves, CaseLogInv
    <3> QED BY <3>1, <3>2
  <2>7. \A q \in Handlers : CreatePending(q)' => CreatePending(q) /\ req'[q].case = req[q].case
    BY <1>1, <2>5 DEF GoesOn, OnlyMoves, CreatePending
  <2> QED BY <1>1, <2>6, <2>7 DEF CaseLogInv, Readable
<1> QED BY <1>2, <1>3

\* An append by whoever has the turn, whole or not.
LEMMA CaseAppends ==
  ASSUME TurnInv, RequestInv, CaseLogInv, NEW r \in Handlers, CaseWriter(r),
         caseFile' \in Torn(caseFile, req[r].line), Leaves(r) \/ GoesOn(r, "searching")
  PROVE  CaseLogInv'
<1> DEFINE e == req[r].line
<1>1. /\ e \in CaseLines /\ e.case = req[r].case /\ CasesOK(Append(caseFile.lines, e))
      /\ req[r].op = "state" => req[r].case \in Known(caseFile.lines)
      /\ Busy(r) /\ req[r].op \in {"create", "state"}
  BY DEF CaseLogInv, Busy, TurnInv
<1>2. OnlyMoves(r) /\ req'[r].at \in {"free", "searching"}
  BY DEF Leaves, GoesOn
<1>3. /\ caseFile' \in LogFiles(CaseLines)
      /\ Readable(caseFile)' =>
           /\ Readable(caseFile) /\ CasesOK(caseFile'.lines)
           /\ Known(caseFile'.lines) \subseteq Known(caseFile.lines) \cup {e.case}
  BY <1>1, CaseGrows
<1>4. \A q \in Handlers : ~CaseWriter(q)'
  BY <1>2 DEF TurnInv, OnlyMoves
<1>5. ASSUME NEW q \in Handlers, CreatePending(q)', Readable(caseFile)'
      PROVE  req'[q].case \notin Known(caseFile'.lines)
  <2>1. q # r /\ CreatePending(q) /\ req'[q] = req[q] /\ Busy(q)
    BY <1>2, <1>5 DEF CreatePending, OnlyMoves, Busy
  <2>2. req[q].case \notin Known(caseFile.lines)
    BY <1>3, <1>5, <2>1 DEF CaseLogInv
  <2>3. req[q].case # req[r].case
    <3>1. CASE req[r].op = "create"
      BY <1>1, <2>1, <3>1 DEF RequestInv, CreatePending
    <3>2. CASE req[r].op = "state"
      BY <1>1, <2>2, <3>2
    <3> QED BY <1>1, <3>1, <3>2
  <2> QED BY <1>1, <1>3, <1>5, <2>1, <2>2, <2>3
<1> QED BY <1>3, <1>4, <1>5 DEF CaseLogInv

LEMMA CaseLogNext == TurnInv /\ RequestInv /\ CaseLogInv /\ [ReviewNext]_revVars => CaseLogInv'
<1> SUFFICES ASSUME TurnInv, RequestInv, CaseLogInv, [ReviewNext]_revVars PROVE CaseLogInv'
  OBVIOUS
<1>1. ASSUME NEW r \in Handlers, CaseWrite(r) PROVE CaseLogInv'
  <2>1. CaseWriter(r) /\ caseFile' \in Torn(caseFile, req[r].line)
    BY <1>1 DEF CaseWrite, Torn
  <2>2. Leaves(r) \/ GoesOn(r, "searching") \/ GoesOn(r, "reading") \/ GoesOn(r, "writing")
    BY <1>1, StepsGoOn DEF ReviewStep
  <2>3. req'[r].at \in {"free", "searching"}
    BY <1>1, RequestMoves DEF CaseWrite
  <2> QED BY <2>1, <2>2, <2>3, CaseAppends DEF GoesOn
<1>2. ASSUME NEW r \in Handlers, WriteFails(r) PROVE CaseLogInv'
  <2>1. Leaves(r)
    BY <1>2, RequestMoves DEF WriteFails, Leaves, OnlyMoves
  <2>2. CASE req[r].op = "judge"
    BY <1>2, <2>1, <2>2, CaseRests DEF WriteFails, Leaves, CreatePending
  <2>3. CASE req[r].op # "judge"
    BY <1>2, <2>1, <2>3, CaseAppends DEF WriteFails
  <2> QED BY <2>2, <2>3
<1>3. ASSUME NEW r \in Handlers, OpenCase(r) \/ Capture(r) \/ JudgeTurn(r) \/ JudgeRead(r) \/ JudgeWrite(r)
      PROVE  CaseLogInv'
  <2>1. caseFile' = caseFile /\ ReviewStep(r)
    BY <1>3 DEF OpenCase, Capture, JudgeTurn, JudgeRead, JudgeWrite, ReviewStep
  <2>2. req[r].op \in {"open", "judge"} \/ req[r].at = "searching"
    BY <1>3 DEF OpenCase, Capture, JudgeTurn, JudgeRead, JudgeWrite, TurnInv
  <2>3. OnlyMoves(r) /\ ~CaseWriter(r)' /\ ~CreatePending(r)'
    <3>1. CASE Capture(r)
      BY <3>1, RequestMoves DEF Capture, CreatePending, OnlyMoves
    <3>2. CASE ~Capture(r)
      <4>1. req[r].op \in {"open", "judge"}
        BY <1>3, <3>2 DEF OpenCase, JudgeTurn, JudgeRead, JudgeWrite, TurnInv
      <4> QED BY <2>1, <4>1, StepsGoOn DEF Leaves, GoesOn, CreatePending
    <3> QED BY <3>1, <3>2
  <2> QED BY <2>1, <2>3, CaseRests
<1>4. CASE ServerDies
  <2>1. \A q \in Handlers : ~CaseWriter(q)' /\ ~CreatePending(q)'
    BY <1>4 DEF ServerDies, CreatePending
  <2>2. CASE caseFile' = caseFile
    BY <2>1, <2>2 DEF CaseLogInv, Readable
  <2>3. CASE caseFile' # caseFile
    <3>1. PICK q \in Handlers : CaseWriter(q) /\ caseFile' \in Torn(caseFile, req[q].line)
      BY <1>4, <2>3 DEF ServerDies
    <3>2. req[q].line \in CaseLines /\ CasesOK(Append(caseFile.lines, req[q].line))
      BY <3>1 DEF CaseLogInv
    <3> QED BY <2>1, <3>1, <3>2, CaseGrows DEF CaseLogInv
  <2> QED BY <2>2, <2>3
<1>5. CASE UNCHANGED revVars
  BY <1>5 DEF revVars, CaseLogInv, Readable, CreatePending
<1>6. ASSUME NEW r \in Handlers, AskCase(r) \/ AskOpen(r) \/ AskJudge(r) PROVE CaseLogInv'
  BY <1>6, AsksCome, CaseAsk
<1> QED BY <1>1, <1>2, <1>3, <1>4, <1>5, <1>6, CaseLine DEF ReviewNext, ReviewStep

-----------------------------------------------------------------------------
(* The judgment log *)

Linked == Readable(caseFile) /\ Readable(judgFile) =>
            \A j \in ToSet(judgFile.lines) : j.case \in Known(caseFile.lines)

JudgeLogInv ==
  /\ judgFile \in LogFiles(JudgLines)
  /\ Readable(judgFile) => GraphValid(judgFile.lines)
  /\ \A p \in ToSet(judgFile.lines) :
       /\ p.id \in 0 .. asked \cup {MaxAsked + 1, MaxAsked + 2}
       /\ \A r \in Handlers : Busy(r) => p.id # req[r].number
  /\ Linked
  /\ \A r \in Handlers : JudgeWorker(r) =>
       /\ Readable(caseFile) => req[r].case \in Known(caseFile.lines)
       /\ req[r].at = "writing" =>
            /\ req[r].line \in JudgLines /\ req[r].line.id = req[r].number /\ req[r].line.case = req[r].case
            /\ GraphValid(Append(judgFile.lines, req[r].line))

\* Whatever a step does to the case log, a case that is known stays known.
KnownStays == Readable(caseFile)' => Readable(caseFile) /\ Known(caseFile.lines) \subseteq Known(caseFile'.lines)

LEMMA KnownGrows == TurnInv /\ RequestInv /\ CaseLogInv /\ [ReviewNext]_revVars => KnownStays
<1> SUFFICES ASSUME TurnInv, RequestInv, CaseLogInv, [ReviewNext]_revVars PROVE KnownStays
  OBVIOUS
<1>1. CASE caseFile' = caseFile
  BY <1>1 DEF KnownStays, Readable
<1>2. ASSUME NEW q \in Handlers, CaseWriter(q), caseFile' \in Torn(caseFile, req[q].line) PROVE KnownStays
  <2>1. req[q].line \in CaseLines /\ CasesOK(Append(caseFile.lines, req[q].line))
    BY <1>2 DEF CaseLogInv
  <2> QED BY <1>2, <2>1, CaseGrows DEF KnownStays
<1>3. ASSUME NEW r \in Handlers, CaseWrite(r) PROVE KnownStays
  BY <1>2, <1>3 DEF CaseWrite, Torn
<1>4. ASSUME NEW r \in Handlers, WriteFails(r) PROVE KnownStays
  BY <1>1, <1>2, <1>4 DEF WriteFails
<1>5. CASE ServerDies
  BY <1>1, <1>2, <1>5 DEF ServerDies
<1>6. ASSUME NEW r \in Handlers, AskCase(r) \/ AskOpen(r) \/ AskJudge(r) PROVE KnownStays
  BY <1>1, <1>6 DEF AskCase, AskOpen, AskJudge
<1>7. ASSUME NEW r \in Handlers, CaseTurn(r) \/ OpenCase(r) \/ Capture(r) \/ JudgeTurn(r) \/ JudgeRead(r) \/ JudgeWrite(r)
      PROVE  KnownStays
  BY <1>1, <1>7 DEF CaseTurn, OpenCase, Capture, JudgeTurn, JudgeRead, JudgeWrite
<1>8. CASE UNCHANGED revVars
  BY <1>1, <1>8 DEF revVars
<1> QED BY <1>3, <1>4, <1>5, <1>6, <1>7, <1>8 DEF ReviewNext, ReviewStep

LEMMA JudgeLogInit == ReviewInit => JudgeLogInv
<1> SUFFICES ASSUME ReviewInit PROVE JudgeLogInv
  OBVIOUS
<1>1. \A r \in Handlers : ~JudgeWorker(r) /\ ~Busy(r)
  BY DEF ReviewInit, Busy
<1>2. <<>> \in Seq(JudgLines \cup {Junk}) /\ ToSet(<<>>) = {} /\ GraphValid(<<>>)
  BY EmptySeq DEF ToSet, GraphValid
<1>3. CASE judgFile = [lines |-> <<>>, end |-> "clean"]
  BY <1>1, <1>2, <1>3 DEF JudgeLogInv, LogFiles, FileEnds, Linked
<1>4. ASSUME NEW c \in Cases, NEW t \in Displayed,
             caseFile = [lines |-> <<CreatedEvent(c, 0)>>, end |-> "clean"],
             judgFile = [lines |-> <<[id |-> MaxAsked + 1, case |-> c, action |-> "result", about |-> <<t>>,
                                      supersedes |-> 0, time |-> MaxClock]>>, end |-> "clean"]
      PROVE  JudgeLogInv
  <2> DEFINE j == [id |-> MaxAsked + 1, case |-> c, action |-> "result", about |-> <<t>>,
                   supersedes |-> 0, time |-> MaxClock]
  <2>1. j \in JudgLines /\ j.case = c /\ j.id = MaxAsked + 1 /\ j.supersedes = 0
    <3>1. <<t>> \in Abouts /\ MaxAsked \in Nat /\ MaxClock \in Nat
      BY ReviewAssumption DEF Abouts
    <3> QED BY <3>1 DEF JudgLines
  <2>2. judgFile.lines = <<j>> /\ judgFile.end = "clean" /\ judgFile \in [lines : {<<j>>}, end : {"clean"}]
    BY <1>4
  <2> HIDE DEF j
  <2>3. <<j>> \in Seq(JudgLines \cup {Junk}) /\ ToSet(<<j>>) = {j} /\ DOMAIN <<j>> = {1} /\ <<j>>[1] = j
    BY <2>1 DEF ToSet
  <2>4. GraphValid(<<j>>)
    BY <2>1, <2>3 DEF GraphValid
  <2>5. c \in Known(caseFile.lines)
    <3>1. ToSet(<<CreatedEvent(c, 0)>>) = {CreatedEvent(c, 0)} /\ CreatedEvent(c, 0).case = c
      BY DEF ToSet, CreatedEvent
    <3> QED BY <1>4, <3>1 DEF Known
  <2> QED BY <1>1, <2>1, <2>2, <2>3, <2>4, <2>5 DEF JudgeLogInv, LogFiles, FileEnds, Linked
<1>5. (CHOOSE x \in Cases : TRUE) \in Cases /\ (CHOOSE x \in Displayed : TRUE) \in Displayed
  BY ReviewAssumption
<1> QED BY <1>3, <1>4, <1>5 DEF ReviewInit

\* Steps that leave the log alone and do not begin to work on it.
LEMMA JudgeRests ==
  ASSUME TurnInv, RequestInv, JudgeLogInv, KnownStays, NEW r \in Handlers, OnlyMoves(r), judgFile' = judgFile,
         ~JudgeWorker(r)', asked' = asked,
         Busy(r)' => Busy(r) /\ req'[r].number = req[r].number
  PROVE  JudgeLogInv'
<1>1. \A q \in Handlers : JudgeWorker(q)' => q # r /\ JudgeWorker(q) /\ req'[q] = req[q]
  BY DEF OnlyMoves
<1>2. \A q \in Handlers : Busy(q)' => Busy(q) /\ req'[q].number = req[q].number
  BY DEF OnlyMoves, Busy
<1>3. Linked'
  BY DEF Linked, KnownStays, JudgeLogInv, Readable
<1>4. \A q \in Handlers : JudgeWorker(q)' => (Readable(caseFile)' => req'[q].case \in Known(caseFile'.lines))
  BY <1>1 DEF KnownStays, JudgeLogInv
<1> QED BY <1>1, <1>2, <1>3, <1>4 DEF JudgeLogInv, Readable

LEMMA JudgeAsk ==
  ASSUME TurnInv, RequestInv, JudgeLogInv, KnownStays, NEW r \in Handlers, Comes(r), Stays
  PROVE  JudgeLogInv'
<1>1. \A q \in Handlers : JudgeWorker(q)' => q # r /\ JudgeWorker(q) /\ req'[q] = req[q]
  BY DEF OnlyMoves, Comes
<1>2. asked \in Nat /\ asked' = asked + 1 /\ asked < MaxAsked /\ MaxAsked \in Nat
  BY ReviewAssumption DEF Comes, RequestInv
<1>3. \A q \in Handlers : Busy(q)' => (Busy(q) /\ req'[q].number = req[q].number) \/ req'[q].number = asked + 1
  BY DEF OnlyMoves, Busy, Comes
<1>4. ASSUME NEW p \in ToSet(judgFile.lines)
      PROVE  /\ p.id \in 0 .. asked' \cup {MaxAsked + 1, MaxAsked + 2}
             /\ \A q \in Handlers : Busy(q)' => p.id # req'[q].number
  <2>1. p.id \in 0 .. asked \cup {MaxAsked + 1, MaxAsked + 2}
    BY DEF JudgeLogInv
  <2>2. p.id # asked + 1 /\ p.id \in 0 .. asked' \cup {MaxAsked + 1, MaxAsked + 2}
    BY <1>2, <2>1
  <2> QED BY <1>3, <2>2 DEF JudgeLogInv
<1>5. Linked'
  BY DEF Linked, KnownStays, JudgeLogInv, Readable
<1> QED BY <1>1, <1>4, <1>5 DEF JudgeLogInv, Readable

\* A submission that has found its case and its snapshot.
LEMMA JudgeBegins ==
  ASSUME TurnInv, RequestInv, JudgeLogInv, KnownStays, NEW r \in Handlers, GoesOn(r, "reading"),
         asked' = asked, judgFile' = judgFile, caseFile' = caseFile, req[r].case \in Known(caseFile.lines)
  PROVE  JudgeLogInv'
<1>1. \A q \in Handlers : q # r => req'[q] = req[q]
  BY DEF GoesOn, OnlyMoves
<1>2. \A q \in Handlers : Busy(q)' => Busy(q) /\ req'[q].number = req[q].number
  BY <1>1 DEF GoesOn, Busy
<1>3. Linked'
  BY DEF Linked, JudgeLogInv, Readable
<1>4. /\ req'[r].at # "writing" /\ req'[r].case \in Known(caseFile.lines)
  BY DEF GoesOn
<1> QED BY <1>1, <1>2, <1>3, <1>4 DEF JudgeLogInv, Readable

\* A judgment that was validated against the whole history.
LEMMA JudgeLine ==
  ASSUME TurnInv, RequestInv, JudgeLogInv, KnownStays, NEW r \in Handlers, JudgeRead(r)
  PROVE  JudgeLogInv'
<1>1. /\ judgFile' = judgFile /\ caseFile' = caseFile /\ asked' = asked /\ JudgeWorker(r) /\ Busy(r)
      /\ req[r].case \in Cases /\ req[r].number \in Nat
  BY DEF JudgeRead, Busy, RequestInv, TurnInv
<1>2. CASE Answered(r)
  <2>1. OnlyMoves(r) /\ req'[r] = Free
    BY <1>2, RequestMoves DEF OnlyMoves
  <2> QED BY <1>1, <2>1, JudgeRests DEF Busy
<1>3. CASE ~Answered(r)
  <2>1. PICK b \in Bodies, now \in 0 .. MaxClock :
          /\ Readable(judgFile) /\ MayCorrect(judgFile.lines, req[r].case, b)
          /\ Writes(r, Judgment(judgFile.lines, r, b, now))
    BY <1>3 DEF JudgeRead, HistoryRead
  <2> DEFINE j == Judgment(judgFile.lines, r, b, now)
  <2>2. /\ j \in JudgLines /\ j.id = req[r].number /\ j.case = req[r].case
        /\ GraphValid(Append(judgFile.lines, j))
    <3>1. judgFile.lines \in Seq(JudgLines) /\ GraphValid(judgFile.lines) /\ now \in Nat
      BY <2>1, ReadableIs, ReviewAssumption DEF JudgeLogInv
    <3>2. \A p \in ToSet(judgFile.lines) : p.id # req[r].number
      BY <1>1 DEF JudgeLogInv
    <3> QED BY <1>1, <2>1, <3>1, <3>2, CorrectionFits
  <2> HIDE DEF j
  <2>3. GoesOn(r, "writing") /\ req'[r].line = j
    BY <1>1, <2>1, RequestGoesOn DEF j
  <2>4. \A q \in Handlers : q # r => req'[q] = req[q]
    BY <2>3 DEF GoesOn, OnlyMoves
  <2>5. \A q \in Handlers : Busy(q)' => Busy(q) /\ req'[q].number = req[q].number
    BY <2>3, <2>4 DEF GoesOn, Busy
  <2>6. Linked'
    BY <1>1 DEF Linked, JudgeLogInv, Readable
  <2>7. ASSUME NEW q \in Handlers, JudgeWorker(q)'
        PROVE  /\ Readable(caseFile) => req'[q].case \in Known(caseFile.lines)
               /\ req'[q].at = "writing" =>
                    /\ req'[q].line \in JudgLines /\ req'[q].line.id = req'[q].number
                    /\ req'[q].line.case = req'[q].case
                    /\ GraphValid(Append(judgFile.lines, req'[q].line))
    <3>1. CASE q = r
      BY <1>1, <2>2, <2>3, <3>1 DEF GoesOn, JudgeLogInv
    <3>2. CASE q # r
      BY <2>4, <2>7, <3>2 DEF JudgeLogInv
    <3> QED BY <3>1, <3>2
  <2> QED BY <1>1, <2>5, <2>6, <2>7 DEF JudgeLogInv, Readable
<1> QED BY <1>2, <1>3

\* An append leaves nothing new but its line and junk.
LEMMA TornAdds ==
  ASSUME NEW Lines, NEW f \in LogFiles(Lines), NEW e \in Lines, NEW g \in Torn(f, e)
  PROVE  ToSet(g.lines) \subseteq ToSet(f.lines) \cup {e, Junk}
<1> DEFINE S == Lines \cup {Junk}
<1>1. f.lines \in Seq(S) /\ Front(f.lines) \in Seq(S)
  BY FrontIs DEF LogFiles
<1>2. ToSet(Front(f.lines)) \subseteq ToSet(f.lines)
  <2>1. Len(f.lines) \in Nat
    BY <1>1, LenProperties
  <2>2. CASE Len(f.lines) = 0
    <3>1. Front(f.lines) = <<>>
      BY <2>1, <2>2, SubSeqEmpty DEF Front
    <3> QED BY <3>1 DEF ToSet
  <2>3. CASE Len(f.lines) > 0
    <3>1. /\ Len(Front(f.lines)) = Len(f.lines) - 1
          /\ \A i \in 1 .. Len(f.lines) - 1 : Front(f.lines)[i] = f.lines[i]
      BY <1>1, <2>1, <2>3, SubSeqProperties DEF Front
    <3>2. DOMAIN Front(f.lines) = 1 .. Len(f.lines) - 1 /\ DOMAIN f.lines = 1 .. Len(f.lines)
      BY <1>1, <3>1, LenProperties
    <3> QED BY <2>1, <3>1, <3>2 DEF ToSet
  <2> QED BY <2>1, <2>2, <2>3
<1>3. Complete(f) \in Seq(S) /\ ToSet(Complete(f)) \subseteq ToSet(f.lines)
  BY <1>1, <1>2 DEF Complete
<1>4. \A x \in {e, Junk} : ToSet(Append(Complete(f), x)) \subseteq ToSet(f.lines) \cup {e, Junk}
  BY <1>3, AppendIs
<1>5. g = f \/ \E x \in {e, Junk} : g.lines = Append(Complete(f), x)
  BY DEF Torn, Written
<1> QED BY <1>4, <1>5

\* An append by whoever has the turn, whole or not.
LEMMA JudgeAppends ==
  ASSUME TurnInv, RequestInv, JudgeLogInv, KnownStays, NEW r \in Handlers,
         JudgeWorker(r), req[r].at = "writing",
         judgFile' \in Torn(judgFile, req[r].line), asked' = asked,
         \A q \in Handlers : Busy(q)' => q # r /\ req'[q] = req[q]
  PROVE  JudgeLogInv'
<1> DEFINE e == req[r].line
<1>1. /\ e \in JudgLines /\ e.id = req[r].number /\ e.case = req[r].case /\ Busy(r)
      /\ GraphValid(Append(judgFile.lines, e)) /\ judgFile \in LogFiles(JudgLines)
      /\ req[r].number \in 1 .. asked /\ asked \in 0 .. MaxAsked /\ MaxAsked \in Nat
      /\ Readable(judgFile)
  BY ReviewAssumption DEF JudgeLogInv, Busy, RequestInv, TurnInv
<1>2. /\ judgFile' \in LogFiles(JudgLines)
      /\ Readable(judgFile') => judgFile'.lines = judgFile.lines \/ judgFile'.lines = Append(judgFile.lines, e)
  BY <1>1, TornIs
<1>3. ToSet(judgFile'.lines) \subseteq ToSet(judgFile.lines) \cup {e, Junk}
  BY <1>1, TornAdds
<1>4. Readable(judgFile)' => GraphValid(judgFile'.lines)
  BY <1>1, <1>2 DEF JudgeLogInv, Readable
<1>5. ASSUME NEW p \in ToSet(judgFile'.lines)
      PROVE  /\ p.id \in 0 .. asked' \cup {MaxAsked + 1, MaxAsked + 2}
             /\ \A q \in Handlers : Busy(q)' => p.id # req'[q].number
  <2>1. \A q \in Handlers : Busy(q)' => /\ Busy(q) /\ req'[q].number = req[q].number
                                        /\ req[q].number # req[r].number /\ req[q].number \in 1 .. asked
    BY <1>1 DEF Busy, RequestInv
  <2>2. CASE p \in ToSet(judgFile.lines)
    BY <2>1, <2>2 DEF JudgeLogInv
  <2>3. CASE p = e
    BY <1>1, <2>1, <2>3
  <2>4. CASE p = Junk
    <3>1. p.id = MaxAsked + 2
      BY <2>4 DEF Junk
    <3>2. \A n \in 1 .. asked : n # MaxAsked + 2
      BY <1>1
    <3> QED BY <2>1, <3>1, <3>2
  <2> QED BY <1>3, <2>2, <2>3, <2>4
<1>6. Linked'
  <2> SUFFICES ASSUME Readable(caseFile)', Readable(judgFile)', NEW p \in ToSet(judgFile'.lines)
               PROVE  p.case \in Known(caseFile'.lines)
    BY DEF Linked, Readable
  <2>1. p # Junk
    BY DEF Readable
  <2>2. Readable(caseFile) /\ Known(caseFile.lines) \subseteq Known(caseFile'.lines)
    BY DEF KnownStays
  <2>3. CASE p \in ToSet(judgFile.lines)
    BY <1>1, <2>2, <2>3 DEF JudgeLogInv, Linked
  <2>4. CASE p = e
    BY <1>1, <2>2, <2>4 DEF JudgeLogInv
  <2> QED BY <1>3, <2>1, <2>3, <2>4
<1>7. \A q \in Handlers : ~JudgeWorker(q)'
  <2>1. \A q \in Handlers : JudgeWorker(q)' => q # r /\ JudgeWorker(q)
    BY DEF Busy
  <2> QED BY <2>1 DEF TurnInv
<1> QED BY <1>2, <1>4, <1>5, <1>6, <1>7 DEF JudgeLogInv

LEMMA JudgeLogNext ==
  TurnInv /\ RequestInv /\ CaseLogInv /\ JudgeLogInv /\ [ReviewNext]_revVars => JudgeLogInv'
<1> SUFFICES ASSUME TurnInv, RequestInv, CaseLogInv, JudgeLogInv, [ReviewNext]_revVars PROVE JudgeLogInv'
  OBVIOUS
<1>1. KnownStays
  BY KnownGrows
<1>2. ASSUME NEW r \in Handlers, CaseTurn(r) \/ CaseWrite(r) \/ OpenCase(r) \/ Capture(r) PROVE JudgeLogInv'
  <2>1. judgFile' = judgFile /\ (req[r].op \in {"create", "state", "open"} \/ req[r].at = "searching")
    BY <1>2 DEF CaseTurn, CaseWrite, OpenCase, Capture
  <2>2. req[r].op # "judge"
    BY <2>1 DEF RequestInv
  <2> QED BY <1>1, <1>2, <2>1, <2>2, StepsGoOn, JudgeRests DEF ReviewStep, Leaves, GoesOn, Busy
<1>3. ASSUME NEW r \in Handlers, JudgeTurn(r) PROVE JudgeLogInv'
  <2>1. judgFile' = judgFile /\ caseFile' = caseFile /\ asked' = asked
    BY <1>3 DEF JudgeTurn
  <2>2. CASE Answered(r)
    <3>1. OnlyMoves(r) /\ req'[r] = Free
      BY <2>2, RequestMoves DEF OnlyMoves
    <3> QED BY <1>1, <2>1, <3>1, JudgeRests DEF Busy
  <2>3. CASE ~Answered(r)
    <3>1. Moves(r, "reading") /\ req[r].case \in Known(caseFile.lines) /\ Busy(r)
      BY <1>3, <2>3 DEF JudgeTurn, Busy
    <3>2. GoesOn(r, "reading")
      BY <3>1, RequestGoesOn
    <3> QED BY <1>1, <2>1, <3>1, <3>2, JudgeBegins
  <2> QED BY <2>2, <2>3
<1>4. ASSUME NEW r \in Handlers, JudgeWrite(r) PROVE JudgeLogInv'
  <2>1. OnlyMoves(r) /\ req'[r] = Free
    BY <1>4, RequestMoves DEF JudgeWrite, OnlyMoves
  <2>2. \A q \in Handlers : Busy(q)' => q # r /\ req'[q] = req[q]
    BY <2>1 DEF OnlyMoves, Busy
  <2> QED BY <1>1, <1>4, <2>2, JudgeAppends DEF JudgeWrite, Torn
<1>5. ASSUME NEW r \in Handlers, WriteFails(r) PROVE JudgeLogInv'
  <2>1. OnlyMoves(r) /\ req'[r] = Free
    BY <1>5, RequestMoves DEF WriteFails, OnlyMoves
  <2>2. \A q \in Handlers : Busy(q)' => q # r /\ req'[q] = req[q]
    BY <2>1 DEF OnlyMoves, Busy
  <2>3. CASE req[r].op = "judge"
    BY <1>1, <1>5, <2>2, <2>3, JudgeAppends DEF WriteFails
  <2>4. CASE req[r].op # "judge"
    BY <1>1, <1>5, <2>1, <2>4, JudgeRests DEF WriteFails, Busy
  <2> QED BY <2>3, <2>4
<1>6. CASE ServerDies
  <2>1. \A q \in Handlers : ~Busy(q)' /\ ~JudgeWorker(q)'
    BY <1>6 DEF ServerDies, Busy
  <2>2. asked' = asked
    BY <1>6 DEF ServerDies
  <2>3. CASE judgFile' = judgFile
    <3>1. Linked'
      BY <1>1, <2>3 DEF Linked, KnownStays, JudgeLogInv, Readable
    <3> QED BY <2>1, <2>2, <2>3, <3>1 DEF JudgeLogInv, Readable
  <2>4. CASE judgFile' # judgFile
    <3>1. PICK q \in Handlers : JudgeWorker(q) /\ req[q].at = "writing" /\ judgFile' \in Torn(judgFile, req[q].line)
      BY <1>6, <2>4 DEF ServerDies
    <3> QED BY <1>1, <2>1, <2>2, <3>1, JudgeAppends
  <2> QED BY <2>3, <2>4
<1>7. CASE UNCHANGED revVars
  BY <1>7 DEF revVars, JudgeLogInv, Linked, Readable, Busy
<1>8. ASSUME NEW r \in Handlers, AskCase(r) \/ AskOpen(r) \/ AskJudge(r) PROVE JudgeLogInv'
  BY <1>1, <1>8, AsksCome, JudgeAsk
<1> QED BY <1>1, <1>2, <1>3, <1>4, <1>5, <1>6, <1>7, <1>8, JudgeLine DEF ReviewNext, ReviewStep

-----------------------------------------------------------------------------
(* The snapshots *)

Snapshots == [token : Nat \ {0}, case : Cases]

\* No token is held twice.
Keyed(q) == \A i, k \in DOMAIN q : q[i].token = q[k].token => i = k

LEMMA RemoveIs ==
  ASSUME NEW S, NEW q \in Seq(S), NEW i \in 1 .. Len(q)
  PROVE  /\ RemoveAt(q, i) \in Seq(S) /\ Len(RemoveAt(q, i)) = Len(q) - 1
         /\ DOMAIN RemoveAt(q, i) = 1 .. Len(q) - 1
         /\ \A k \in 1 .. Len(q) - 1 : RemoveAt(q, i)[k] = IF k < i THEN q[k] ELSE q[k + 1]
<1> DEFINE a == SubSeq(q, 1, i - 1)
           b == SubSeq(q, i + 1, Len(q))
<1>1. Len(q) \in Nat /\ i \in Nat /\ \A k \in 1 .. Len(q) : q[k] \in S
  BY LenProperties, ElementOfSeq
<1>2. a \in Seq(S) /\ Len(a) = i - 1 /\ \A k \in 1 .. i - 1 : a[k] = q[k]
  BY <1>1, SubSeqProperties
<1>3. b \in Seq(S) /\ Len(b) = Len(q) - i /\ \A k \in 1 .. Len(q) - i : b[k] = q[i + k]
  BY <1>1, SubSeqProperties
<1> HIDE DEF a, b
<1>4. /\ a \o b \in Seq(S) /\ Len(a \o b) = Len(q) - 1
      /\ \A k \in 1 .. Len(q) - 1 : (a \o b)[k] = IF k <= i - 1 THEN a[k] ELSE b[k - (i - 1)]
  <2>1. /\ a \o b \in Seq(S) /\ Len(a \o b) = Len(a) + Len(b)
        /\ \A k \in 1 .. Len(a) + Len(b) : (a \o b)[k] = IF k <= Len(a) THEN a[k] ELSE b[k - Len(a)]
    BY <1>2, <1>3, ConcatProperties
  <2>2. Len(a) + Len(b) = Len(q) - 1 /\ Len(a) = i - 1
    BY <1>1, <1>2, <1>3
  <2> QED BY <2>1, <2>2
<1>5. ASSUME NEW k \in 1 .. Len(q) - 1 PROVE (a \o b)[k] = IF k < i THEN q[k] ELSE q[k + 1]
  <2>1. CASE k < i
    BY <1>1, <1>2, <1>4, <2>1
  <2>2. CASE ~(k < i)
    <3>1. k - (i - 1) \in 1 .. Len(q) - i /\ i + (k - (i - 1)) = k + 1
      BY <1>1, <2>2
    <3> QED BY <1>1, <1>3, <1>4, <2>2, <3>1
  <2> QED BY <2>1, <2>2
<1>6. RemoveAt(q, i) = a \o b
  BY DEF RemoveAt, a, b
<1>7. DOMAIN (a \o b) = 1 .. Len(q) - 1
  BY <1>4, LenProperties
<1> QED BY <1>4, <1>5, <1>6, <1>7

LEMMA RemoveKeyed ==
  ASSUME NEW q \in Seq(Snapshots), Keyed(q), NEW i \in 1 .. Len(q)
  PROVE  /\ Keyed(RemoveAt(q, i))
         /\ ToSet(RemoveAt(q, i)) = {s \in ToSet(q) : s.token # q[i].token}
<1> DEFINE d == RemoveAt(q, i)
<1>1. Len(q) \in Nat /\ DOMAIN q = 1 .. Len(q) /\ i \in Nat
  BY LenProperties
<1>2. /\ DOMAIN d = 1 .. Len(q) - 1
      /\ \A k \in 1 .. Len(q) - 1 : d[k] = IF k < i THEN q[k] ELSE q[k + 1]
  BY RemoveIs
<1> HIDE DEF d
<1>3. ASSUME NEW k \in DOMAIN d PROVE \E l \in DOMAIN q : l # i /\ d[k] = q[l]
                                          /\ (k < i => l = k) /\ (~(k < i) => l = k + 1)
  BY <1>1, <1>2
<1>4. Keyed(d)
  <2> SUFFICES ASSUME NEW k \in DOMAIN d, NEW l \in DOMAIN d, d[k].token = d[l].token PROVE k = l
    BY DEF Keyed
  <2>1. PICK k1 \in DOMAIN q : k1 # i /\ d[k] = q[k1] /\ (k < i => k1 = k) /\ (~(k < i) => k1 = k + 1)
    BY <1>3
  <2>2. PICK l1 \in DOMAIN q : l1 # i /\ d[l] = q[l1] /\ (l < i => l1 = l) /\ (~(l < i) => l1 = l + 1)
    BY <1>3
  <2>3. k1 = l1
    BY <2>1, <2>2 DEF Keyed
  <2> QED BY <1>1, <1>2, <2>1, <2>2, <2>3
<1>5. ASSUME NEW s \in ToSet(d) PROVE s \in ToSet(q) /\ s.token # q[i].token
  <2>1. PICK k \in DOMAIN d : s = d[k]
    BY DEF ToSet
  <2>2. PICK l \in DOMAIN q : l # i /\ d[k] = q[l]
    BY <1>3
  <2> QED BY <1>1, <2>1, <2>2 DEF Keyed, ToSet
<1>6. ASSUME NEW s \in ToSet(q), s.token # q[i].token PROVE s \in ToSet(d)
  <2>1. PICK l \in DOMAIN q : s = q[l]
    BY DEF ToSet
  <2>2. l # i
    BY <1>6, <2>1
  <2>3. PICK k \in DOMAIN d : d[k] = q[l]
    <3>1. CASE l < i
      <4>1. l \in DOMAIN d /\ d[l] = q[l]
        BY <1>1, <1>2, <3>1
      <4> QED BY <4>1
    <3>2. CASE l > i
      <4>1. l - 1 \in 1 .. Len(q) - 1 /\ ~(l - 1 < i) /\ (l - 1) + 1 = l
        BY <1>1, <3>2
      <4>2. l - 1 \in DOMAIN d /\ d[l - 1] = q[l]
        BY <1>2, <4>1
      <4> QED BY <4>2
    <3> QED BY <1>1, <2>2, <3>1, <3>2
  <2> QED BY <2>1, <2>3 DEF ToSet
<1> QED BY <1>4, <1>5, <1>6 DEF d

LEMMA TailKeyed ==
  ASSUME NEW q \in Seq(Snapshots), Keyed(q), q # <<>>
  PROVE  /\ Keyed(Tail(q)) /\ Head(q) \in ToSet(q)
         /\ ToSet(Tail(q)) = {s \in ToSet(q) : s.token # Head(q).token}
<1>1. Len(q) \in Nat \ {0} /\ DOMAIN q = 1 .. Len(q) /\ Head(q) = q[1]
  BY LenProperties, EmptySeq
<1>2. Tail(q) \in Seq(Snapshots) /\ Len(Tail(q)) = Len(q) - 1 /\ \A i \in 1 .. Len(q) - 1 : Tail(q)[i] = q[i + 1]
  BY HeadTailProperties
<1>3. /\ RemoveAt(q, 1) \in Seq(Snapshots) /\ Len(RemoveAt(q, 1)) = Len(q) - 1
      /\ \A k \in 1 .. Len(q) - 1 : RemoveAt(q, 1)[k] = q[k + 1]
  <2>1. 1 \in 1 .. Len(q)
    BY <1>1
  <2>2. \A k \in 1 .. Len(q) - 1 : ~(k < 1)
    BY <1>1
  <2> QED BY <2>1, <2>2, RemoveIs
<1>4. Tail(q) = RemoveAt(q, 1)
  BY <1>1, <1>2, <1>3, SeqEqual
<1>5. 1 \in 1 .. Len(q) /\ Head(q) \in ToSet(q)
  BY <1>1 DEF ToSet
<1>6. Keyed(RemoveAt(q, 1)) /\ ToSet(RemoveAt(q, 1)) = {s \in ToSet(q) : s.token # q[1].token}
  BY <1>5, RemoveKeyed
<1> QED BY <1>1, <1>4, <1>5, <1>6

LEMMA AppendKeyed ==
  ASSUME NEW q \in Seq(Snapshots), Keyed(q), NEW e \in Snapshots, \A s \in ToSet(q) : s.token # e.token
  PROVE  Keyed(Append(q, e))
<1>1. /\ DOMAIN q = 1 .. Len(q) /\ Len(q) \in Nat /\ DOMAIN Append(q, e) = 1 .. (Len(q) + 1)
      /\ Append(q, e)[Len(q) + 1] = e
      /\ \A i \in 1 .. Len(q) : Append(q, e)[i] = q[i]
  BY AppendIs
<1>2. \A i \in 1 .. Len(q) : q[i] \in ToSet(q)
  BY <1>1 DEF ToSet
<1> QED BY <1>1, <1>2 DEF Keyed

\* The two maps are each other's inverse.
Mutual(q, f) ==
  /\ q \in Seq(Snapshots) /\ Keyed(q) /\ f \in [Cases -> 0 .. MaxAsked]
  /\ \A s \in ToSet(q) : f[s.case] = s.token
  /\ \A c \in Cases : f[c] # 0 => \E s \in ToSet(q) : s.token = f[c] /\ s.case = c

LEMMA DropIs ==
  ASSUME store \in Seq(Snapshots), Keyed(store), NEW t
  PROVE  /\ Drop(t) \in Seq(Snapshots) /\ Keyed(Drop(t)) /\ Len(Drop(t)) \in Nat
         /\ ToSet(Drop(t)) = {s \in ToSet(store) : s.token # t}
         /\ Len(Drop(t)) <= Len(store)
         /\ (\E s \in ToSet(store) : s.token = t) => Len(Drop(t)) = Len(store) - 1
<1>1. Len(store) \in Nat /\ DOMAIN store = 1 .. Len(store)
  BY LenProperties
<1>2. CASE \E i \in DOMAIN store : store[i].token = t
  <2> DEFINE i == CHOOSE k \in DOMAIN store : store[k].token = t
  <2>1. i \in 1 .. Len(store) /\ store[i].token = t
    BY <1>1, <1>2
  <2>2. Drop(t) = RemoveAt(store, i)
    BY <1>2 DEF Drop
  <2> HIDE DEF i
  <2>3. RemoveAt(store, i) \in Seq(Snapshots) /\ Len(RemoveAt(store, i)) = Len(store) - 1
    BY <2>1, RemoveIs
  <2>4. Keyed(RemoveAt(store, i)) /\ ToSet(RemoveAt(store, i)) = {s \in ToSet(store) : s.token # t}
    BY <2>1, RemoveKeyed
  <2> QED BY <1>1, <2>1, <2>2, <2>3, <2>4
<1>3. CASE ~\E i \in DOMAIN store : store[i].token = t
  <2>1. Drop(t) = store /\ \A s \in ToSet(store) : s.token # t
    BY <1>3 DEF Drop, ToSet
  <2>2. {s \in ToSet(store) : s.token # t} = ToSet(store)
    BY <2>1
  <2>3. ToSet(Drop(t)) = {s \in ToSet(store) : s.token # t}
    BY <2>1, <2>2
  <2>4. Len(Drop(t)) \in Nat /\ Len(Drop(t)) <= Len(store)
    BY <1>1, <2>1
  <2> QED BY <2>1, <2>3, <2>4
<1> QED BY <1>2, <1>3

\* A snapshot is put under a token that nobody has had, and the oldest one may go for it.
LEMMA PutKeeps ==
  ASSUME Mutual(store, tokenOf), Len(store) <= StoreLimit, NEW c \in Cases, NEW t \in 1 .. MaxAsked,
         \A s \in ToSet(store) : s.token # t, Put(c, t)
  PROVE  /\ Mutual(store', tokenOf') /\ Len(store') <= StoreLimit
         /\ \A s \in ToSet(store') : s \in ToSet(store) \/ s.token = t
<1> DEFINE d == Drop(tokenOf[c])
           e == [token |-> t, case |-> c]
           entries == Append(d, e)
           named == [tokenOf EXCEPT ![c] = t]
<1>0. StoreLimit \in Nat /\ MaxAsked \in Nat
  BY ReviewAssumption
<1>1. /\ d \in Seq(Snapshots) /\ Keyed(d) /\ Len(d) \in Nat /\ Len(d) <= Len(store) /\ Len(store) \in Nat
      /\ ToSet(d) = {s \in ToSet(store) : s.token # tokenOf[c]}
  BY DropIs, LenProperties DEF Mutual
<1>2. e \in Snapshots /\ e.token = t /\ e.case = c
  BY <1>0 DEF Snapshots
<1> HIDE DEF d, e
<1>3. entries \in Seq(Snapshots) /\ Keyed(entries) /\ ToSet(entries) = ToSet(d) \cup {e} /\ Len(entries) = Len(d) + 1
  BY <1>1, <1>2, AppendIs, AppendKeyed
<1> HIDE DEF entries
<1>4. /\ named \in [Cases -> 0 .. MaxAsked] /\ named[c] = t
      /\ \A x \in Cases : x # c => named[x] = tokenOf[x]
  BY <1>0 DEF Mutual
<1> HIDE DEF named
<1>5. \A s \in ToSet(store) : s \in Snapshots /\ s.case \in Cases
  <2>1. ToSet(store) \subseteq Snapshots
    BY LinesAre DEF Mutual
  <2> QED BY <2>1 DEF Snapshots
<1>6. ASSUME NEW s \in ToSet(entries) PROVE named[s.case] = s.token /\ s.case \in Cases
  <2>1. CASE s = e
    BY <1>2, <1>4, <2>1
  <2>2. CASE s # e
    <3>1. s \in ToSet(store) /\ s.token # tokenOf[c] /\ tokenOf[s.case] = s.token /\ s.case \in Cases
      BY <1>1, <1>3, <1>5, <2>2 DEF Mutual
    <3> QED BY <1>4, <3>1
  <2> QED BY <2>1, <2>2
<1>7. ASSUME NEW x \in Cases, named[x] # 0 PROVE \E s \in ToSet(entries) : s.token = named[x] /\ s.case = x
  <2>1. CASE x = c
    BY <1>2, <1>3, <1>4, <2>1
  <2>2. CASE x # c
    <3>1. named[x] = tokenOf[x] /\ tokenOf[x] # 0
      BY <1>4, <1>7, <2>2
    <3>2. PICK s \in ToSet(store) : s.token = tokenOf[x] /\ s.case = x
      BY <3>1 DEF Mutual
    <3>3. s.token # tokenOf[c]
      <4> SUFFICES ASSUME s.token = tokenOf[c] PROVE FALSE
        OBVIOUS
      <4>1. PICK s2 \in ToSet(store) : s2.token = tokenOf[c] /\ s2.case = c
        BY <3>1, <3>2 DEF Mutual
      <4>2. s2 = s
        BY <3>2, <4>1 DEF Mutual, Keyed, ToSet
      <4> QED BY <2>2, <3>2, <4>1, <4>2
    <3> QED BY <1>1, <1>3, <3>1, <3>2, <3>3
  <2> QED BY <2>1, <2>2
<1>8. CASE Len(entries) <= StoreLimit
  <2>1. store' = entries /\ tokenOf' = named
    BY <1>8 DEF Put, entries, d, e, named
  <2>2. \A s \in ToSet(store') : s \in ToSet(store) \/ s.token = t
    BY <1>1, <1>2, <1>3, <2>1
  <2> QED BY <1>3, <1>4, <1>6, <1>7, <1>8, <2>1, <2>2 DEF Mutual
<1>9. CASE ~(Len(entries) <= StoreLimit)
  <2> DEFINE oldest == Head(entries)
  <2>1. entries # <<>>
    BY <1>0, <1>1, <1>3, <1>9, EmptySeq
  <2>2. /\ Keyed(Tail(entries)) /\ oldest \in ToSet(entries) /\ Tail(entries) \in Seq(Snapshots)
        /\ ToSet(Tail(entries)) = {s \in ToSet(entries) : s.token # oldest.token}
        /\ Len(Tail(entries)) = Len(entries) - 1
    BY <1>3, <2>1, TailKeyed, HeadTailProperties
  <2>3. /\ store' = Tail(entries)
        /\ tokenOf' = IF named[oldest.case] = oldest.token THEN [named EXCEPT ![oldest.case] = 0] ELSE named
    BY <1>9 DEF Put, entries, d, e, named
  <2> HIDE DEF oldest
  <2>4. named[oldest.case] = oldest.token /\ oldest.case \in Cases
    BY <1>6, <2>2
  <2>5. /\ tokenOf' \in [Cases -> 0 .. MaxAsked] /\ tokenOf'[oldest.case] = 0
        /\ \A x \in Cases : x # oldest.case => tokenOf'[x] = named[x]
    BY <1>0, <1>4, <2>3, <2>4
  <2>6. ASSUME NEW s \in ToSet(store') PROVE tokenOf'[s.case] = s.token /\ (s \in ToSet(store) \/ s.token = t)
    <3>1. s \in ToSet(entries) /\ s.token # oldest.token /\ s.case \in Cases /\ named[s.case] = s.token
      BY <1>6, <2>2, <2>3
    <3>2. s.case # oldest.case
      BY <2>4, <3>1
    <3>3. s \in ToSet(store) \/ s.token = t
      BY <1>1, <1>2, <1>3, <3>1
    <3> QED BY <2>5, <3>1, <3>2, <3>3
  <2>7. ASSUME NEW x \in Cases, tokenOf'[x] # 0 PROVE \E s \in ToSet(store') : s.token = tokenOf'[x] /\ s.case = x
    <3>1. x # oldest.case /\ tokenOf'[x] = named[x]
      BY <2>5, <2>7
    <3>2. PICK s \in ToSet(entries) : s.token = named[x] /\ s.case = x
      BY <1>7, <2>7, <3>1
    <3>3. s.token # oldest.token
      BY <1>3, <2>2, <3>1, <3>2 DEF Keyed, ToSet
    <3> QED BY <2>2, <2>3, <3>1, <3>2, <3>3
  <2>8. Len(store') <= StoreLimit
    BY <1>0, <1>1, <1>3, <2>2, <2>3
  <2> QED BY <2>2, <2>3, <2>5, <2>6, <2>7, <2>8 DEF Mutual
<1> QED BY <1>8, <1>9

\* A hit only changes the order.
LEMMA TouchKeeps ==
  ASSUME Mutual(store, tokenOf), Len(store) <= StoreLimit, NEW c, NEW t, Touch(c, t)
  PROVE  /\ Mutual(store', tokenOf) /\ Len(store') <= StoreLimit
         /\ ToSet(store') = ToSet(store)
<1>1. CASE ~Held(c, t)
  BY <1>1 DEF Touch
<1>2. CASE Held(c, t)
  <2> DEFINE e == [token |-> t, case |-> c]
  <2>1. PICK s \in ToSet(store) : s.token = t /\ s.case = c
    BY <1>2 DEF Held
  <2>2. s \in Snapshots /\ Len(store) \in Nat /\ StoreLimit \in Nat
    BY LinesAre, LenProperties, ReviewAssumption DEF Mutual
  <2>3. e = s
    BY <2>1, <2>2 DEF Snapshots
  <2>4. /\ Drop(t) \in Seq(Snapshots) /\ Keyed(Drop(t)) /\ Len(Drop(t)) = Len(store) - 1
        /\ ToSet(Drop(t)) = {x \in ToSet(store) : x.token # t}
    BY <2>1, DropIs DEF Mutual
  <2>5. store' = Append(Drop(t), e)
    BY <1>2 DEF Touch
  <2> HIDE DEF e
  <2>6. store' \in Seq(Snapshots) /\ Keyed(store') /\ Len(store') = Len(store)
        /\ ToSet(store') = ToSet(Drop(t)) \cup {s}
    BY <2>1, <2>2, <2>3, <2>4, <2>5, AppendIs, AppendKeyed
  <2>7. \A x \in ToSet(store) : x.token = t => x = s
    BY <2>1 DEF Mutual, Keyed, ToSet
  <2>8. ToSet(store') = ToSet(store)
    BY <2>1, <2>4, <2>6, <2>7
  <2> QED BY <2>6, <2>8 DEF Mutual
<1> QED BY <1>1, <1>2

\* Tokens are numbers of requests that are over.
StoreInv ==
  /\ Mutual(store, tokenOf) /\ Len(store) <= StoreLimit
  /\ \A s \in ToSet(store) : /\ s.token \in 1 .. asked
                             /\ \A r \in Handlers : Busy(r) => req[r].number # s.token

LEMMA StoreEmpty ==
  ASSUME NEW q, NEW f, q = <<>>, f = [c \in Cases |-> 0]
  PROVE  Mutual(q, f) /\ Len(q) <= StoreLimit /\ ToSet(q) = {}
<1>1. q \in Seq(Snapshots) /\ ToSet(q) = {} /\ Keyed(q) /\ Len(q) = 0
  BY EmptySeq DEF ToSet, Keyed
<1>2. 0 <= StoreLimit /\ 0 \in 0 .. MaxAsked
  BY ReviewAssumption
<1> QED BY <1>1, <1>2 DEF Mutual

LEMMA StoreInit == ReviewInit => StoreInv
BY StoreEmpty DEF ReviewInit, StoreInv

LEMMA StoreNext == TurnInv /\ RequestInv /\ StoreInv /\ [ReviewNext]_revVars => StoreInv'
<1> SUFFICES ASSUME TurnInv, RequestInv, StoreInv, [ReviewNext]_revVars PROVE StoreInv'
  OBVIOUS
<1>0. asked \in Nat /\ MaxAsked \in Nat
  BY ReviewAssumption DEF RequestInv
<1>1. ASSUME NEW r \in Handlers, Comes(r), Stays PROVE StoreInv'
  <2>1. asked' = asked + 1 /\ store' = store /\ tokenOf' = tokenOf
    BY <1>1 DEF Comes
  <2>2. \A q \in Handlers : Busy(q)' => (Busy(q) /\ req'[q].number = req[q].number) \/ req'[q].number = asked + 1
    BY <1>1 DEF OnlyMoves, Busy, Comes
  <2>3. \A s \in ToSet(store) : s.token \in 1 .. asked' /\ s.token # asked + 1
    BY <1>0, <2>1 DEF StoreInv
  <2> QED BY <2>1, <2>2, <2>3 DEF StoreInv
<1>2. ASSUME NEW r \in Handlers, ReviewStep(r), tokenOf' = tokenOf, ToSet(store') = ToSet(store),
             Mutual(store', tokenOf), Len(store') <= StoreLimit
      PROVE  StoreInv'
  <2>1. asked' = asked /\ \A q \in Handlers : Busy(q)' => Busy(q) /\ req'[q].number = req[q].number
    BY <1>2, StepsGoOn DEF Leaves, GoesOn, OnlyMoves, Busy
  <2> QED BY <1>2, <2>1 DEF StoreInv
<1>3. ASSUME NEW r \in Handlers, CaseTurn(r) \/ CaseWrite(r) \/ JudgeRead(r) \/ JudgeWrite(r) \/ WriteFails(r)
      PROVE  StoreInv'
  <2>1. store' = store /\ tokenOf' = tokenOf /\ ReviewStep(r)
    BY <1>3 DEF CaseTurn, CaseWrite, JudgeRead, JudgeWrite, WriteFails, ReviewStep
  <2> QED BY <1>2, <2>1 DEF StoreInv
<1>4. ASSUME NEW r \in Handlers, OpenCase(r) \/ JudgeTurn(r) PROVE StoreInv'
  <2>1. tokenOf' = tokenOf /\ ReviewStep(r) /\ (store' = store \/ \E c, t : Touch(c, t))
    BY <1>4 DEF OpenCase, JudgeTurn, ReviewStep
  <2> QED BY <1>2, <2>1, TouchKeeps DEF StoreInv
<1>5. ASSUME NEW r \in Handlers, Capture(r) PROVE StoreInv'
  <2>1. /\ Busy(r) /\ req[r].case \in Cases /\ req[r].number \in 1 .. asked /\ asked' = asked
        /\ asked <= MaxAsked
    BY <1>5 DEF Capture, Busy, RequestInv
  <2>2. req[r].number \in 1 .. MaxAsked /\ \A s \in ToSet(store) : s.token # req[r].number
    BY <1>0, <2>1 DEF StoreInv
  <2>3. /\ Mutual(store', tokenOf') /\ Len(store') <= StoreLimit
        /\ \A s \in ToSet(store') : s \in ToSet(store) \/ s.token = req[r].number
    BY <1>5, <2>1, <2>2, PutKeeps DEF Capture, StoreInv
  <2>4. OnlyMoves(r) /\ req'[r] = Free
    BY <1>5, RequestMoves DEF Capture, OnlyMoves
  <2>5. \A q \in Handlers : Busy(q)' => Busy(q) /\ req'[q] = req[q] /\ req[q].number # req[r].number
    BY <2>1, <2>4 DEF OnlyMoves, Busy, RequestInv
  <2> QED BY <2>1, <2>3, <2>5 DEF StoreInv
<1>6. CASE ServerDies
  <2>1. store' = <<>> /\ tokenOf' = [c \in Cases |-> 0]
    BY <1>6 DEF ServerDies
  <2> QED BY <2>1, StoreEmpty DEF StoreInv
<1>7. CASE UNCHANGED revVars
  BY <1>7 DEF revVars, StoreInv, Busy
<1> QED BY <1>1, <1>3, <1>4, <1>5, <1>6, <1>7, AsksCome DEF ReviewNext, ReviewStep

-----------------------------------------------------------------------------
(* The tails *)

LEMMA TailLeaves ==
  ASSUME NEW S, NEW q \in Seq(S), IsInjective(q), q # <<>>
  PROVE  IsInjective(Tail(q)) /\ ToSet(Tail(q)) = ToSet(q) \ {Head(q)}
<1>1. Len(q) \in Nat \ {0} /\ DOMAIN q = 1 .. Len(q) /\ Head(q) = q[1]
  BY LenProperties, EmptySeq
<1>2. /\ DOMAIN Tail(q) = 1 .. Len(q) - 1
      /\ \A i \in 1 .. Len(q) - 1 : Tail(q)[i] = q[i + 1]
  BY HeadTailProperties, LenProperties
<1>3. IsInjective(Tail(q))
  BY <1>1, <1>2 DEF IsInjective
<1>4. ASSUME NEW x \in ToSet(Tail(q)) PROVE x \in ToSet(q) \ {Head(q)}
  <2>1. PICK i \in 1 .. Len(q) - 1 : x = q[i + 1]
    BY <1>2 DEF ToSet
  <2>2. i + 1 \in DOMAIN q /\ i + 1 # 1 /\ 1 \in DOMAIN q
    BY <1>1, <2>1
  <2> QED BY <1>1, <2>1, <2>2 DEF IsInjective, ToSet
<1>5. ASSUME NEW x \in ToSet(q), x # Head(q) PROVE x \in ToSet(Tail(q))
  <2>1. PICK i \in DOMAIN q : x = q[i]
    BY DEF ToSet
  <2>2. i - 1 \in 1 .. Len(q) - 1 /\ (i - 1) + 1 = i
    BY <1>1, <1>5, <2>1
  <2>3. i - 1 \in DOMAIN Tail(q) /\ Tail(q)[i - 1] = x
    BY <1>2, <2>1, <2>2
  <2> QED BY <2>3 DEF ToSet
<1> QED BY <1>3, <1>4, <1>5

LEMMA TailGains ==
  ASSUME NEW S, NEW q \in Seq(S), IsInjective(q), NEW x \in S, x \notin ToSet(q)
  PROVE  IsInjective(Append(q, x)) /\ ToSet(Append(q, x)) = ToSet(q) \cup {x}
<1>1. /\ DOMAIN q = 1 .. Len(q) /\ Len(q) \in Nat /\ DOMAIN Append(q, x) = 1 .. (Len(q) + 1)
      /\ Append(q, x)[Len(q) + 1] = x
      /\ \A i \in 1 .. Len(q) : Append(q, x)[i] = q[i]
      /\ ToSet(Append(q, x)) = ToSet(q) \cup {x}
  BY AppendIs
<1>2. \A i \in 1 .. Len(q) : q[i] # x
  BY <1>1 DEF ToSet
<1> QED BY <1>1, <1>2 DEF IsInjective

OnCases(r) == req[r].op \in {"create", "state"} /\ req[r].at # "searching"
OnJudgments(r) == req[r].op = "judge"

TailInv ==
  /\ IsInjective(caseTail) /\ IsInjective(judgTail)
  /\ ToSet(caseTail) = {r \in Handlers : OnCases(r)}
  /\ ToSet(judgTail) = {r \in Handlers : OnJudgments(r)}

LEMMA TailInit == ReviewInit => TailInv
<1> SUFFICES ASSUME ReviewInit PROVE TailInv
  OBVIOUS
<1>1. \A r \in Handlers : ~OnCases(r) /\ ~OnJudgments(r)
  BY DEF ReviewInit, OnCases, OnJudgments
<1>2. caseTail = <<>> /\ judgTail = <<>> /\ ToSet(<<>>) = {} /\ IsInjective(<<>>)
  BY DEF ReviewInit, ToSet, IsInjective
<1> QED BY <1>1, <1>2 DEF TailInv

\* A request that stays on its tail, or is on none.
LEMMA TailRests ==
  ASSUME TailInv, NEW r \in Handlers, OnlyMoves(r), UNCHANGED <<caseTail, judgTail>>,
         OnCases(r)' <=> OnCases(r), OnJudgments(r)' <=> OnJudgments(r)
  PROVE  TailInv'
<1>1. \A q \in Handlers : (OnCases(q)' <=> OnCases(q)) /\ (OnJudgments(q)' <=> OnJudgments(q))
  BY DEF OnlyMoves, OnCases, OnJudgments
<1> QED BY <1>1 DEF TailInv

\* The first on a tail leaves it.
LEMMA TailNext ==
  ASSUME TurnInv, TailInv, NEW r \in Handlers, OnlyMoves(r), ~OnCases(r)', ~OnJudgments(r)',
         \/ /\ caseTail # <<>> /\ r = Head(caseTail) /\ caseTail' = Tail(caseTail)
            /\ judgTail' = judgTail /\ ~OnJudgments(r)
         \/ /\ judgTail # <<>> /\ r = Head(judgTail) /\ judgTail' = Tail(judgTail)
            /\ caseTail' = caseTail /\ ~OnCases(r)
  PROVE  TailInv'
<1>1. /\ {q \in Handlers : OnCases(q)'} = {q \in Handlers : OnCases(q)} \ {r}
      /\ {q \in Handlers : OnJudgments(q)'} = {q \in Handlers : OnJudgments(q)} \ {r}
  BY DEF OnlyMoves, OnCases, OnJudgments
<1>2. caseTail \in Seq(Handlers) /\ judgTail \in Seq(Handlers)
  BY DEF TurnInv
<1>3. CASE /\ caseTail # <<>> /\ r = Head(caseTail) /\ caseTail' = Tail(caseTail)
           /\ judgTail' = judgTail /\ ~OnJudgments(r)
  <2>1. IsInjective(caseTail') /\ ToSet(caseTail') = ToSet(caseTail) \ {r}
    BY <1>2, <1>3, TailLeaves DEF TailInv
  <2> QED BY <1>1, <1>3, <2>1 DEF TailInv
<1>4. CASE /\ judgTail # <<>> /\ r = Head(judgTail) /\ judgTail' = Tail(judgTail)
           /\ caseTail' = caseTail /\ ~OnCases(r)
  <2>1. IsInjective(judgTail') /\ ToSet(judgTail') = ToSet(judgTail) \ {r}
    BY <1>2, <1>4, TailLeaves DEF TailInv
  <2> QED BY <1>1, <1>4, <2>1 DEF TailInv
<1> QED BY <1>3, <1>4

LEMMA TailNextInv == TurnInv /\ RequestInv /\ TailInv /\ [ReviewNext]_revVars => TailInv'
<1> SUFFICES ASSUME TurnInv, RequestInv, TailInv, [ReviewNext]_revVars PROVE TailInv'
  OBVIOUS
<1>1. ASSUME NEW r \in Handlers, AskCase(r) \/ AskOpen(r) \/ AskJudge(r) PROVE TailInv'
  <2>1. Comes(r)
    BY <1>1, AsksCome
  <2>2. ~OnCases(r) /\ ~OnJudgments(r)
    BY <2>1 DEF Comes, RequestInv, OnCases, OnJudgments
  <2>3. \A q \in Handlers : q # r => (OnCases(q)' <=> OnCases(q)) /\ (OnJudgments(q)' <=> OnJudgments(q))
    BY <2>1 DEF Comes, OnlyMoves, OnCases, OnJudgments
  <2>4. caseTail \in Seq(Handlers) /\ judgTail \in Seq(Handlers) /\ r \notin ToSet(caseTail) /\ r \notin ToSet(judgTail)
    BY <2>2 DEF TurnInv, TailInv
  <2>5. req'[r].at = "waiting"
    BY <2>1 DEF Comes
  <2>6. CASE AskCase(r)
    <3>1. caseTail' = Append(caseTail, r) /\ judgTail' = judgTail /\ OnCases(r)' /\ ~OnJudgments(r)'
      <4>1. req'[r].op \in {"create", "state"}
        BY <2>6 DEF AskCase, Receive, TurnInv
      <4> QED BY <2>5, <2>6, <4>1 DEF AskCase, OnCases, OnJudgments
    <3> QED BY <2>2, <2>3, <2>4, <3>1, TailGains DEF TailInv
  <2>7. CASE AskOpen(r)
    <3>1. req'[r].op = "open" /\ caseTail' = caseTail /\ judgTail' = judgTail
      BY <2>7 DEF AskOpen, Receive, TurnInv
    <3> QED BY <2>1, <2>2, <3>1, TailRests DEF Comes, OnCases, OnJudgments
  <2>8. CASE AskJudge(r)
    <3>1. judgTail' = Append(judgTail, r) /\ caseTail' = caseTail /\ OnJudgments(r)' /\ ~OnCases(r)'
      <4>1. req'[r].op = "judge"
        BY <2>8 DEF AskJudge, Receive, TurnInv
      <4> QED BY <2>8, <4>1 DEF AskJudge, OnCases, OnJudgments
    <3> QED BY <2>2, <2>3, <2>4, <3>1, TailGains DEF TailInv
  <2> QED BY <1>1, <2>6, <2>7, <2>8
<1>2. ASSUME NEW r \in Handlers, Answered(r) PROVE OnlyMoves(r) /\ ~OnCases(r)' /\ ~OnJudgments(r)'
  BY <1>2, RequestMoves DEF OnlyMoves, OnCases, OnJudgments
<1>3. ASSUME NEW r \in Handlers, CaseTurn(r) \/ CaseWrite(r) PROVE TailInv'
  <2>1. caseTail # <<>> /\ r = Head(caseTail) /\ req[r].op \in {"create", "state"} /\ judgTail' = judgTail
    BY <1>3 DEF CaseTurn, CaseWrite, TurnInv
  <2>2. CASE caseTail' = Tail(caseTail) /\ (Answered(r) \/ Moves(r, "searching"))
    <3>1. OnlyMoves(r) /\ ~OnCases(r)' /\ ~OnJudgments(r)'
      <4>1. CASE Answered(r)
        BY <1>2, <4>1
      <4>2. CASE Moves(r, "searching")
        BY <2>1, <4>2, RequestMoves DEF OnlyMoves, OnCases, OnJudgments
      <4> QED BY <2>2, <4>1, <4>2
    <3> QED BY <2>1, <2>2, <3>1, TailNext DEF OnJudgments
  <2>3. CASE caseTail' = caseTail /\ req[r].at = "waiting" /\ \E line : Writes(r, line)
    <3>1. OnlyMoves(r) /\ req'[r].op = req[r].op /\ req'[r].at = "writing"
      BY <2>3, RequestMoves DEF OnlyMoves
    <3> QED BY <2>1, <2>3, <3>1, TailRests DEF OnCases, OnJudgments
  <2> QED BY <1>3, <2>2, <2>3 DEF CaseTurn, CaseWrite
<1>4. ASSUME NEW r \in Handlers, OpenCase(r) \/ Capture(r) PROVE TailInv'
  <2>1. /\ UNCHANGED <<caseTail, judgTail>> /\ ~OnCases(r) /\ ~OnJudgments(r)
        /\ Answered(r) \/ (Moves(r, "searching") /\ req[r].op = "open")
    BY <1>4 DEF OpenCase, Capture, OnCases, OnJudgments, RequestInv
  <2>2. OnlyMoves(r) /\ ~OnCases(r)' /\ ~OnJudgments(r)'
    <3>1. CASE Answered(r)
      BY <1>2, <3>1
    <3>2. CASE Moves(r, "searching") /\ req[r].op = "open"
      BY <3>2, RequestMoves DEF OnlyMoves, OnCases, OnJudgments
    <3> QED BY <2>1, <3>1, <3>2
  <2> QED BY <2>1, <2>2, TailRests
<1>5. ASSUME NEW r \in Handlers, JudgeTurn(r) \/ JudgeRead(r) \/ JudgeWrite(r) PROVE TailInv'
  <2>1. judgTail # <<>> /\ r = Head(judgTail) /\ req[r].op = "judge" /\ caseTail' = caseTail
    BY <1>5 DEF JudgeTurn, JudgeRead, JudgeWrite, TurnInv
  <2>2. CASE judgTail' = Tail(judgTail) /\ Answered(r)
    BY <1>2, <2>1, <2>2, TailNext DEF OnCases
  <2>3. CASE judgTail' = judgTail /\ (Moves(r, "reading") \/ \E line : Writes(r, line))
    <3>1. OnlyMoves(r) /\ req'[r].op = req[r].op
      BY <2>3, RequestMoves DEF OnlyMoves
    <3> QED BY <2>1, <2>3, <3>1, TailRests DEF OnCases, OnJudgments
  <2> QED BY <1>5, <2>2, <2>3 DEF JudgeTurn, JudgeRead, JudgeWrite
<1>6. ASSUME NEW r \in Handlers, WriteFails(r) PROVE TailInv'
  <2>1. OnlyMoves(r) /\ ~OnCases(r)' /\ ~OnJudgments(r)'
    BY <1>2, <1>6 DEF WriteFails
  <2>2. CASE req[r].op = "judge"
    BY <1>6, <2>1, <2>2, TailNext DEF WriteFails, Release, TurnInv, OnCases
  <2>3. CASE req[r].op # "judge"
    BY <1>6, <2>1, <2>3, TailNext DEF WriteFails, Release, TurnInv, OnJudgments
  <2> QED BY <2>2, <2>3
<1>7. CASE ServerDies
  <2>1. caseTail' = <<>> /\ judgTail' = <<>> /\ \A r \in Handlers : ~OnCases(r)' /\ ~OnJudgments(r)'
    BY <1>7 DEF ServerDies, OnCases, OnJudgments
  <2>2. ToSet(<<>>) = {} /\ IsInjective(<<>>)
    BY DEF ToSet, IsInjective
  <2> QED BY <2>1, <2>2 DEF TailInv
<1>8. CASE UNCHANGED revVars
  BY <1>8 DEF revVars, TailInv, OnCases, OnJudgments
<1> QED BY <1>1, <1>3, <1>4, <1>5, <1>6, <1>7, <1>8 DEF ReviewNext, ReviewStep

ReviewInv == TurnInv /\ RequestInv /\ CaseLogInv /\ JudgeLogInv /\ StoreInv /\ TailInv

LEMMA ReviewInductive == ReviewSpec => []ReviewInv
<1>1. ReviewInit => ReviewInv
  BY TurnInit, RequestInit, CaseLogInit, JudgeLogInit, StoreInit, TailInit DEF ReviewInv
<1>2. ReviewInv /\ [ReviewNext]_revVars => ReviewInv'
  BY TurnInductive, RequestNext, CaseLogNext, JudgeLogNext, StoreNext, TailNextInv DEF ReviewInv
<1> QED BY <1>1, <1>2, PTL DEF ReviewSpec

\* For any number of requests, cases and deaths, any clock and any interleaving, the readers
\* of both logs accept what the writers wrote, and the snapshot store stays within its limit
\* with its two maps inverse (CaseLog, submitV2Judgment, ReviewSnapshotStore).
THEOREM ReviewsAreKept == ReviewSpec => []ReviewsHold
<1>1. ReviewInv => ReviewsHold
  BY DEF ReviewInv, ReviewsHold, ReadersAccept, StoreConsistent, CaseLogInv, CasesOK, JudgeLogInv, Linked,
         StoreInv, Mutual, Held
<1> QED BY <1>1, ReviewInductive, PTL

\* The types of the files, requests and tokens, and who is on which tail (CaseLog.tail,
\* v2JudgmentTail).
THEOREM ReviewTypeCorrect == ReviewSpec => []ReviewTypeOK
<1>1. ReviewInv => ReviewTypeOK
  <2> SUFFICES ASSUME ReviewInv PROVE ReviewTypeOK
    OBVIOUS
  <2>1. \A f \in {caseFile, judgFile} : f.end \in {"clean", "open"}
    BY DEF ReviewInv, CaseLogInv, JudgeLogInv, LogFiles, FileEnds
  <2>2. \A r \in Handlers : req[r].at \in {"free", "waiting", "reading", "writing", "searching"}
    BY DEF ReviewInv, RequestInv, Busy
  <2> QED BY <2>1, <2>2 DEF ReviewInv, ReviewTypeOK, StoreInv, Mutual, TailInv, OnCases, OnJudgments
<1> QED BY <1>1, ReviewInductive, PTL

-----------------------------------------------------------------------------
(* The four components in one state graph (MCAnswers) *)

\* A behaviour of the composition is one of each of its parts: the others rest.
LEMMA PartsOfAnswers ==
  MCSpec => DraftSpec /\ AdmSpec /\ CompSpec /\ ReviewSpec
<1> USE DEF all, Of, OfDraft, OfAdmission, OfComparison, OfReviews
<1>1. MCInit => DraftInit /\ AdmInit /\ CompInit /\ ReviewInit
  BY DEF MCInit
<1>2. [MCNext]_all => [DraftNext]_draftVars
  BY DEF MCNext
<1>3. [MCNext]_all => [AdmNext]_admVars
  BY DEF MCNext
<1>4. [MCNext]_all => [CompNext]_compVars
  BY DEF MCNext
<1>5. [MCNext]_all => [ReviewNext]_revVars
  BY DEF MCNext
<1> QED BY <1>1, <1>2, <1>3, <1>4, <1>5, PTL DEF MCSpec, DraftSpec, AdmSpec, CompSpec, ReviewSpec

\* What a call says when it ends is so, of a draft's commits and phases as of an
\* admission's worktree (publishPreparation.ts, admission.ts), however many calls and deaths.
THEOREM AnswersAreKept == MCSpec => []EndsAsAnswered
<1>1. AnswersBacked /\ SitesAccounted => EndsAsAnswered
  BY DEF EndsAsAnswered
<1> QED BY PartsOfAnswers, DraftAnswersBacked, SitesAreAccounted, <1>1, PTL

\* The types of a draft's remote and local state and of the two logs, and the tails of the
\* requests (publishPreparation.ts, reviewCases.ts).
THEOREM AnswersAreTyped == MCSpec => []AnswersTypeOK
<1>1. DraftTypeOK /\ ReviewTypeOK => AnswersTypeOK
  BY DEF AnswersTypeOK
<1> QED BY PartsOfAnswers, DraftTypeCorrect, ReviewTypeCorrect, <1>1, PTL
=============================================================================
