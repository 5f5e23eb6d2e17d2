-------------------------- MODULE DataUpdateTrain --------------------------
(***************************************************************************)
(* How approved cards travel to main: the workbench server seals them into *)
(* a train (trainRunner.ts), three stage jobs record its evidence          *)
(* (trainStages.ts), a reviewer signs it, and it is admitted and published *)
(* as a draft pull request.                                                *)
(*                                                                         *)
(* Five activities share the updates log, the evidence registry and main:  *)
(*   decide   a card decision (its own store and chain);                   *)
(*   view     a read of one train, which may record a main-moved stop;     *)
(*   op       the one request holding activeRepositoryMutation: a seal, a  *)
(*            sign, an admission or a publication;                         *)
(*   stopper  a stop recorded after a failed request, which nobody awaits; *)
(*   job      a stage job, a process of its own.                           *)
(* Each awaits between its reads and its writes, and so do its actions.    *)
(***************************************************************************)
EXTENDS UpdatesLog, FiniteSets, FiniteSetsExt

CONSTANTS
  Cards,         \* cards the judgments derive
  DataCards,     \* cards whose change moves the engine's identity
  AutoResolved,  \* cards the replay shows as already achieved: they need no approval
  MaxTrains,     \* bound: trains ever opened
  MaxRequests,   \* bound: decisions and requests of the reviewer
  MaxMain,       \* bound: commits on main
  MaxCrashes     \* bound: deaths of the server

ASSUME CardsAssumption == /\ IsFiniteSet(Cards)
                          /\ DataCards \subseteq Cards
                          /\ AutoResolved \subseteq Cards
ASSUME BoundsAssumption == {MaxTrains, MaxRequests, MaxMain, MaxCrashes} \subseteq Nat

VARIABLES
  log,        \* updates.jsonl
  registry,   \* the evidence registry: entry of each train id, or None
  torn,       \* the registry file was cut while it was written
  reports,    \* trains whose candidate report is in eval/.runs
  admitted,   \* admission manifests
  published,  \* trains whose publish journal is at draft-pr-opened
  prs,        \* open draft pull requests
  merged,     \* <<card, commit>>: the card's fixture row is on main since that commit
  main,       \* number of commits on main
  effective,  \* data cards that change some result
  due,        \* setImmediate(advanceDataTrainStages) is scheduled
  halted,     \* trainStageChainHalted
  stops,      \* failures handed to stopFromFailure
  decide, view, op, stopper, job,
  requests, crashes

vars == <<log, registry, torn, reports, admitted, published, prs, merged, main,
          effective, due, halted, stops, decide, view, op, stopper, job,
          requests, crashes>>

evidence == <<registry, torn, reports, admitted, published>>
remote   == <<prs, merged, main>>
chain    == <<due, halted>>
world    == <<effective, crashes>>

Trains == 1..MaxTrains
None   == [cards |-> {}]
Idle   == [pc |-> "idle"]

FlavorFor(cs) == IF cs \cap DataCards = {} THEN "guard" ELSE "data"

NewEntry(cs, base) == [cards |-> cs, base |-> base, candidate |-> FALSE,
                       comparison |-> "none", gauntlet |-> FALSE, reviewed |-> FALSE]

Init ==
  /\ log = <<>>
  /\ registry = [t \in Trains |-> None] /\ torn = FALSE
  /\ reports = {} /\ admitted = {} /\ published = {}
  /\ prs = {} /\ merged = {} /\ main = 0
  /\ effective \in SUBSET DataCards
  /\ due = FALSE /\ halted = FALSE /\ stops = {}
  /\ decide = Idle /\ view = Idle /\ op = Idle /\ stopper = Idle /\ job = Idle
  /\ requests = 0 /\ crashes = 0

-----------------------------------------------------------------------------
(* What is derived from the files *)

Landed(t) ==
  /\ ~torn /\ registry[t] # None
  /\ StateOf(log, t) = "sealed" /\ registry[t].cards = SealedCards(log, t)
  /\ \A c \in registry[t].cards : \E m \in (registry[t].base + 1)..main : <<c, m>> \in merged

AdmissionsOf(t) == {a \in admitted : a.train = t /\ a.cards = registry[t].cards}

\* observedState: snap and landed are what the derivation saw, the rest is read now.
Observed(t, snap, landed) ==
  LET e == registry[t] IN
  IF snap # "sealed" THEN snap
  ELSE IF torn \/ e = None THEN "sealed"
  ELSE IF landed THEN "live"
  ELSE IF t \in published THEN IF main # e.base THEN "stale" ELSE "pr-open"
  ELSE IF AdmissionsOf(t) # {} THEN "admitted"
  ELSE IF FlavorFor(e.cards) = "guard" \/ e.gauntlet THEN "ready"
  ELSE IF e.comparison # "none" THEN "measured"
  ELSE IF e.candidate THEN "built"
  ELSE "sealed"

\* The digest of the report file of t: the gauntlet writes it, the comparison never.
ReportPin(t) == IF t \in reports THEN "gauntlet" ELSE "missing"

ConversionSources ==
  {t \in TrainsOf(log) :
     /\ StateOf(log, t) = "stopped" /\ OfTrain(log, "train-sealed", t) # {}
     /\ StopOf(log, t).reason \in {"verify-failed", "no-measurable-effect"}
     /\ ~torn /\ registry[t].cards = SealedCards(log, t)
     /\ StopOf(log, t).pin = ReportPin(t)}

ParkedByDefault(c) ==
  \E t \in ConversionSources : /\ StopOf(log, t).reason = "no-measurable-effect"
                               /\ c \in SealedCards(log, t)
                               /\ ~DecidedSince(log, c, t)

\* Mutant: a card riding a train that has landed boards again.
Boards_Again(c) ==
  \/ Decision(log, c) = "approved" /\ ~ParkedByDefault(c)
  \/ c \in AutoResolved /\ Decision(log, c) # "declined"

Boards(c) ==
  /\ ~Frozen(log, c)
  /\ \/ Decision(log, c) = "approved" /\ ~ParkedByDefault(c)
     \/ c \in AutoResolved /\ Decision(log, c) # "declined"

-----------------------------------------------------------------------------
(* Appends: stamped and validated in one step, written in another *)

InFlight == {b \in {decide, view, op, stopper, job} : b.pc = "write"}

Stamp ==
  1 + Max({0} \cup {log[i].at : i \in {j \in 1..Len(log) : log[j] # TornLine}}
              \cup {b.batch[1].at : b \in InFlight})

\* trainRunner's store serializes its own appends, and only its own.
StoreFree == \A b \in {view, op, stopper} : b.pc # "write"

StopLine(t, reason, pin) == <<Stopped(t, reason, pin, Stamp)>>

\* activeRepositoryMutation and jobRunner.getActive() are both null.
RepositoryFree == op.pc = "idle" /\ job.pc = "idle"

Request == requests < MaxRequests /\ requests' = requests + 1

-----------------------------------------------------------------------------
(* updatesOperations.decide *)

DecideDerive(c, d) ==
  /\ decide = Idle /\ Request
  /\ Readable(log) /\ ~Frozen(log, c)
  /\ decide' = [pc |-> "derived", card |-> c, decision |-> d]
  /\ UNCHANGED <<log, evidence, remote, chain, stops, view, op, stopper, job, world>>

\* The card's drafted line is appended with its first decision.
DecideStamp ==
  /\ decide.pc = "derived"
  /\ LET c     == decide.card
         batch == (IF OfCard(log, "card-drafted", c) = {} THEN <<Drafted(c, Stamp)>> ELSE <<>>)
                  \o <<Decided(c, decide.decision, Stamp)>>
     IN  decide' = IF Readable(log \o batch) THEN [pc |-> "write", batch |-> batch] ELSE Idle
  /\ UNCHANGED <<log, evidence, remote, chain, stops, view, op, stopper, job, requests, world>>

DecideWrite ==
  /\ decide.pc = "write"
  /\ log' = log \o decide.batch /\ decide' = Idle
  /\ UNCHANGED <<evidence, remote, chain, stops, view, op, stopper, job, requests, world>>

-----------------------------------------------------------------------------
(* trainRunner.train: a read that may record a main-moved stop *)

ViewDerive(t) ==
  /\ view = Idle
  /\ Readable(log) /\ t \in TrainsOf(log)
  /\ view' = [pc |-> "observe", train |-> t, snap |-> StateOf(log, t), landed |-> Landed(t)]
  /\ UNCHANGED <<log, evidence, remote, chain, stops, decide, op, stopper, job, requests, world>>

\* appendStopIfStoppable
StopIsDue(t) == StateOf(log, t) \in {"open", "sealed"}

\* Mutant: a read does not resume the chain.
ViewObserve_NoResume ==
  /\ view.pc = "observe"
  /\ LET t     == view.train
         state == Observed(t, view.snap, view.landed)
         stop  == StopLine(t, "main-moved", "none")
     IN  /\ state = "stale" => StoreFree
         /\ view' = IF state = "stale" /\ StopIsDue(t) /\ Readable(log \o stop)
                      THEN [pc |-> "write", batch |-> stop] ELSE Idle
  /\ UNCHANGED <<log, evidence, remote, chain, stops, decide, op, stopper, job, requests, world>>

ViewObserve ==
  /\ view.pc = "observe"
  /\ LET t     == view.train
         state == Observed(t, view.snap, view.landed)
         stop  == StopLine(t, "main-moved", "none")
         due2  == FlavorOf(log, t) = "data" /\ state \in {"sealed", "built", "measured"}
     IN  /\ state = "stale" => StoreFree
         /\ view' = IF state = "stale" /\ StopIsDue(t) /\ Readable(log \o stop)
                      THEN [pc |-> "write", batch |-> stop] ELSE Idle
         /\ due' = (due \/ due2)
  /\ UNCHANGED <<log, evidence, remote, halted, stops, decide, op, stopper, job, requests, world>>

ViewWrite ==
  /\ view.pc = "write"
  /\ log' = log \o view.batch /\ view' = Idle
  /\ UNCHANGED <<evidence, remote, chain, stops, decide, op, stopper, job, requests, world>>

-----------------------------------------------------------------------------
(* The request that holds the repository slot *)

OpStep   == UNCHANGED <<decide, view, stopper, job, world>>
OpQuiet  == UNCHANGED <<log, evidence, remote, chain, stops, requests>> /\ OpStep
OpEnds   == op' = Idle /\ OpQuiet
OpFails(t, reason) ==
  /\ op' = Idle /\ stops' = stops \cup {[train |-> t, reason |-> reason]}
  /\ UNCHANGED <<log, evidence, remote, chain, requests>> /\ OpStep

\* Appends the validated batch, then goes on at op.next.
OpWrite ==
  /\ op.pc = "write"
  /\ log' = log \o op.batch
  /\ LET fresh == op.next = "sealed" /\ FlavorFor(op.cards) = "data"
     IN  due' = (due \/ fresh) /\ halted' = (halted /\ ~fresh)
  /\ op' = IF op.next = "observe" THEN [op EXCEPT !.pc = "observe", !.batch = <<>>] ELSE Idle
  /\ UNCHANGED <<evidence, remote, stops, requests>> /\ OpStep

\* An observation of t inside the request: it may append a stop first.
Stopping(t) ==
  LET stop == StopLine(t, "main-moved", "none")
  IN  IF StopIsDue(t) /\ Readable(log \o stop) THEN <<stop>> ELSE <<>>

\* Mutant: a train opened but not sealed does not count as running.
SealDerive_OnlySealed ==
  /\ RepositoryFree /\ Request
  /\ Readable(log) /\ Cardinality(TrainsOf(log)) < MaxTrains
  /\ op' = [kind    |-> "seal", pc |-> "observe", batch |-> <<>>, next |-> "observe",
            train   |-> Cardinality(TrainsOf(log)) + 1,
            cards   |-> {c \in Cards : Boards(c)},
            running |-> {t \in Bound(log) : ~Landed(t)}]
  /\ UNCHANGED <<log, evidence, remote, chain, stops>> /\ OpStep

SealDerive ==
  /\ RepositoryFree /\ Request
  /\ Readable(log) /\ Cardinality(TrainsOf(log)) < MaxTrains
  /\ op' = [kind    |-> "seal", pc |-> "observe", batch |-> <<>>, next |-> "observe",
            train   |-> Cardinality(TrainsOf(log)) + 1,
            cards   |-> {c \in Cards : Boards(c)},
            running |-> {t \in TrainsOf(log) : StateOf(log, t) # "stopped" /\ ~Landed(t)}]
  /\ UNCHANGED <<log, evidence, remote, chain, stops>> /\ OpStep

\* Single flight: a train that is neither stopped nor landed refuses the seal.
SealObserve(t) ==
  /\ op.pc = "observe" /\ op.kind = "seal" /\ t \in op.running
  /\ LET snap == IF StateOf(log, t) = "open" THEN "open" ELSE "sealed"
     IN  IF Observed(t, snap, FALSE) # "stale" \/ ~Readable(log) THEN OpEnds
         ELSE /\ StoreFree
              /\ op' = IF Stopping(t) = <<>>
                         THEN [op EXCEPT !.running = @ \ {t}]
                         ELSE [op EXCEPT !.running = @ \ {t}, !.pc = "write",
                                         !.batch = Stopping(t)[1]]
              /\ OpQuiet

\* Mutant: a dangling entry is found and kept.
SealRegister_KeepsDangling ==
  /\ op.pc = "observe" /\ op.kind = "seal" /\ op.running = {}
  /\ IF op.cards = {} \/ torn THEN OpEnds
     ELSE /\ registry' = [registry EXCEPT ![op.train] =
                            IF @ = None THEN NewEntry(op.cards, main) ELSE @]
          /\ op' = [op EXCEPT !.pc = "stamp"]
          /\ UNCHANGED <<log, torn, reports, admitted, published, remote, chain, stops, requests>>
          /\ OpStep

\* The evidence entry is written before the events; a dangling entry is reclaimed.
SealRegister ==
  /\ op.pc = "observe" /\ op.kind = "seal" /\ op.running = {}
  /\ IF op.cards = {} \/ torn THEN OpEnds
     ELSE /\ registry' = [registry EXCEPT ![op.train] = NewEntry(op.cards, main)]
          /\ op' = [op EXCEPT !.pc = "stamp"]
          /\ UNCHANGED <<log, torn, reports, admitted, published, remote, chain, stops, requests>>
          /\ OpStep

Distinct(S, at) ==
  CHOOSE s \in [1..Cardinality(S) -> {Drafted(c, at) : c \in S}] :
    \A i, j \in DOMAIN s : i # j => s[i] # s[j]

SealStamp ==
  /\ op.pc = "stamp" /\ StoreFree
  /\ LET new   == {c \in op.cards : OfCard(log, "card-drafted", c) = {}}
         batch == Distinct(new, Stamp)
                  \o <<Opened(op.train, FlavorFor(op.cards), Stamp),
                       Sealed(op.train, op.cards, Stamp)>>
     IN  op' = IF Readable(log \o batch)
                 THEN [op EXCEPT !.pc = "write", !.batch = batch, !.next = "sealed"]
                 ELSE Idle
  /\ OpQuiet

\* trainRunner.sign, then the admit and publish tail of the same request.
Start(kind, pc, t) == [kind |-> kind, pc |-> pc, batch |-> <<>>, next |-> "idle", train |-> t,
                       snap |-> StateOf(log, t), landed |-> Landed(t)]

SignDerive(t) ==
  /\ RepositoryFree /\ Request
  /\ Readable(log) /\ t \in TrainsOf(log)
  /\ op' = Start("sign", "look", t)
  /\ UNCHANGED <<log, evidence, remote, chain, stops>> /\ OpStep

\* Only a ready train goes on to be signed; the closing read of a sign ends it.
SignObserve ==
  /\ op.pc = "look"
  /\ LET t     == op.train
         state == Observed(t, op.snap, op.landed)
     IN  CASE op.kind = "sign" /\ state = "ready" ->
                /\ op' = [op EXCEPT !.pc = IF FlavorOf(log, t) = "data" THEN "review" ELSE "admit"]
                /\ OpQuiet
           [] state = "stale" /\ Stopping(t) # <<>> ->
                /\ StoreFree
                /\ op' = [op EXCEPT !.pc = "write", !.batch = Stopping(t)[1]]
                /\ OpQuiet
           [] OTHER -> OpEnds

SignReview ==
  /\ op.pc = "review"
  /\ IF torn \/ registry[op.train] = None THEN OpEnds
     ELSE /\ registry' = [registry EXCEPT ![op.train].reviewed = TRUE]
          /\ op' = [op EXCEPT !.pc = "admit"]
          /\ UNCHANGED <<log, torn, reports, admitted, published, remote, chain, stops, requests>>
          /\ OpStep

AdmitRequest(t) ==
  /\ RepositoryFree /\ Request /\ registry[t] # None
  /\ op' = Start("admit", "admit", t)
  /\ UNCHANGED <<log, evidence, remote, chain, stops>> /\ OpStep

PrepareRequest(t) ==
  /\ RepositoryFree /\ Request /\ registry[t] # None
  /\ op' = Start("prepare", "prepare", t)
  /\ UNCHANGED <<log, evidence, remote, chain, stops>> /\ OpStep

Measured(e) == e.candidate /\ e.comparison # "none" /\ e.gauntlet
IsData(e)   == FlavorFor(e.cards) = "data"

\* Mutant: the measured effect is not asked for.
Admit_AnyEffect(passes) ==
  /\ op.pc = "admit"
  /\ LET t == op.train
         e == registry[t]
         unmeasured == IsData(e) /\ ~Measured(e)
     IN  IF torn \/ e = None \/ unmeasured THEN OpEnds
         ELSE IF main # e.base THEN OpFails(t, "main-moved")
         ELSE IF ~passes THEN OpFails(t, "verify-failed")
         ELSE   /\ admitted' = admitted \cup {[train |-> t, cards |-> e.cards, base |-> e.base]}
                /\ op' = IF op.kind = "sign" THEN [op EXCEPT !.pc = "prepare"] ELSE Idle
                /\ UNCHANGED <<log, registry, torn, reports, published, remote, chain, stops, requests>>
                /\ OpStep

\* AdmissionPublishOperations.admit and runAdmission; passes: the verification's verdict.
Admit(passes) ==
  /\ op.pc = "admit"
  /\ LET t == op.train
         e == registry[t]
         unmeasured == IsData(e) /\ ~Measured(e)
     IN  IF torn \/ e = None \/ unmeasured THEN OpEnds
         ELSE IF IsData(e) /\ e.comparison = "effect" /\ ~e.reviewed
           THEN OpFails(t, "unreviewed-top10-movement")
         ELSE IF main # e.base THEN OpFails(t, "main-moved")
         ELSE IF IsData(e) /\ e.comparison = "noeffect" THEN OpEnds
         ELSE IF ~passes THEN OpFails(t, "verify-failed")
         ELSE   /\ admitted' = admitted \cup {[train |-> t, cards |-> e.cards, base |-> e.base]}
                /\ op' = IF op.kind = "sign" THEN [op EXCEPT !.pc = "prepare"] ELSE Idle
                /\ UNCHANGED <<log, registry, torn, reports, published, remote, chain, stops, requests>>
                /\ OpStep

\* prepare, by what GitHub answers: the pull request is opened, opened but not read
\* back, not opened (the reviewer is told the command), or the remote is away.
Outcomes == {"opened", "unverified", "unopened", "unavailable"}

Prepare(outcome) ==
  /\ op.pc = "prepare"
  /\ LET t      == op.train
         pr     == [train |-> t, cards |-> registry[t].cards]
         fails  == outcome \in {"unverified", "unavailable"}
     IN  IF torn \/ registry[t] = None \/ AdmissionsOf(t) = {} THEN OpEnds
         ELSE IF \E a \in AdmissionsOf(t) : a.base # main THEN OpFails(t, "main-moved")
         ELSE   /\ prs' = IF outcome \in {"opened", "unverified"} /\ t \notin published
                            THEN prs \cup {pr} ELSE prs
                /\ published' = IF outcome = "opened" THEN published \cup {t} ELSE published
                /\ stops' = IF fails THEN stops \cup {[train |-> t, reason |-> "github-unavailable"]}
                                     ELSE stops
                /\ op' = IF op.kind = "sign" /\ ~fails THEN Start("report", "look", t) ELSE Idle
                /\ UNCHANGED <<log, registry, torn, reports, admitted, merged, main, chain, requests>>
                /\ OpStep

-----------------------------------------------------------------------------
(* stopFromFailure: only a sealed train is stopped *)

StopperStamp(s) ==
  /\ stopper = Idle /\ s \in stops /\ StoreFree
  /\ stops' = stops \ {s}
  /\ LET stop == StopLine(s.train, s.reason, "none")
     IN  stopper' = IF StateOf(log, s.train) = "sealed" /\ Readable(log \o stop)
                      THEN [pc |-> "write", batch |-> stop] ELSE Idle
  /\ UNCHANGED <<log, evidence, remote, chain, decide, view, op, job, requests, world>>

StopperWrite ==
  /\ stopper.pc = "write"
  /\ log' = log \o stopper.batch /\ stopper' = Idle
  /\ UNCHANGED <<evidence, remote, chain, stops, decide, view, op, job, requests, world>>

-----------------------------------------------------------------------------
(* runTrainStage, in a process of its own *)

Stages == <<"build", "measure", "gauntlet">>

Stage(i, chained) == [pc |-> "locate", stage |-> i, chained |-> chained]

JobStep  == UNCHANGED <<decide, view, op, stopper, stops, world>>
JobQuiet == UNCHANGED <<log, evidence, remote, due, requests>> /\ JobStep

\* A passed stage of the chain is followed by the next one, a failed one halts it.
JobResult(passed) ==
  /\ job' = IF job.chained /\ passed /\ job.stage < Len(Stages)
              THEN Stage(job.stage + 1, TRUE) ELSE Idle
  /\ halted' = (halted \/ (job.chained /\ ~passed))

JobEnds(passed) == JobResult(passed) /\ JobQuiet

\* A check started by the reviewer.
JobRequest(i) ==
  /\ RepositoryFree /\ Request
  /\ job' = Stage(i, FALSE)
  /\ UNCHANGED <<log, evidence, remote, chain>> /\ JobStep

\* advanceDataTrainStages
Advance ==
  /\ due /\ due' = FALSE
  /\ job' = IF RepositoryFree /\ ~halted THEN Stage(1, TRUE) ELSE job
  /\ UNCHANGED <<log, evidence, remote, halted, requests>> /\ JobStep

DataTrains == {t \in TrainsOf(log) : StateOf(log, t) = "sealed" /\ FlavorOf(log, t) = "data"}

\* Mutant: a stage does not ask for the evidence of the stages before it.
JobLocate_AnyOrder ==
  /\ job.pc = "locate"
  /\ LET t == Max(DataTrains)
         e == registry[t]
     IN  IF ~Readable(log) \/ DataTrains = {} \/ torn \/ e = None \/ AdmissionsOf(t) # {}
           THEN JobEnds(FALSE)
         ELSE   /\ job' = [pc |-> "work", stage |-> job.stage, chained |-> job.chained,
                           train |-> t, entry |-> e]
                /\ UNCHANGED halted /\ JobQuiet

\* locateDataTrain, then what the stage checks before it works.
JobLocate ==
  /\ job.pc = "locate"
  /\ LET t == Max(DataTrains)
         e == registry[t]
         done == CASE Stages[job.stage] = "build"   -> e.candidate
                   [] Stages[job.stage] = "measure" -> e.comparison # "none"
                   [] OTHER                         -> FALSE
         early == CASE Stages[job.stage] = "build"   -> FALSE
                    [] Stages[job.stage] = "measure" -> ~e.candidate
                    [] OTHER                         -> ~e.candidate \/ e.comparison = "none"
     IN  IF ~Readable(log) \/ DataTrains = {} \/ torn \/ e = None \/ AdmissionsOf(t) # {}
           THEN JobEnds(FALSE)
         ELSE IF done \/ early THEN JobEnds(done)
         ELSE   /\ job' = [pc |-> "work", stage |-> job.stage, chained |-> job.chained,
                           train |-> t, entry |-> e]
                /\ UNCHANGED halted /\ JobQuiet

\* writeRegistryEntry: the entry read at the start replaces the one on disk.
Record(e) ==
  /\ ~torn
  /\ registry' = [registry EXCEPT ![job.train] = e]
  /\ UNCHANGED <<log, torn, reports, admitted, published, remote, due, requests>> /\ JobStep

\* Mutant: the build records the main it finds.
JobBuild_Rebases ==
  /\ job.pc = "work" /\ Stages[job.stage] = "build"
  /\ Record([job.entry EXCEPT !.candidate = TRUE, !.base = main]) /\ JobResult(TRUE)

JobBuild ==
  /\ job.pc = "work" /\ Stages[job.stage] = "build"
  /\ Record([job.entry EXCEPT !.candidate = TRUE]) /\ JobResult(TRUE)

\* No effect: the comparison is recorded, then the train stops.
JobMeasure ==
  /\ job.pc = "work" /\ Stages[job.stage] = "measure"
  /\ IF job.entry.cards \cap effective # {}
       THEN Record([job.entry EXCEPT !.comparison = "effect"]) /\ JobResult(TRUE)
       ELSE /\ Record([job.entry EXCEPT !.comparison = "noeffect"])
            /\ job' = [job EXCEPT !.pc = "stamp"] /\ UNCHANGED halted

\* The candidate gauntlet writes its report; a rejected train stops.
JobGauntlet(admits) ==
  /\ job.pc = "work" /\ Stages[job.stage] = "gauntlet"
  /\ reports' = reports \cup {job.train}
  /\ job' = [job EXCEPT !.pc = IF admits THEN "regen" ELSE "stamp"]
  /\ UNCHANGED <<log, registry, torn, admitted, published, remote, chain, requests>> /\ JobStep

JobRegen ==
  /\ job.pc = "regen"
  /\ Record([job.entry EXCEPT !.gauntlet = TRUE]) /\ JobResult(TRUE)

\* The stop pins the digest of what it rests on: the comparison, or the report file.
JobStop == IF Stages[job.stage] = "measure"
             THEN StopLine(job.train, "no-measurable-effect", "comparison")
             ELSE StopLine(job.train, "verify-failed", "gauntlet")

JobStamp ==
  /\ job.pc = "stamp"
  /\ LET stop == JobStop
     IN  IF Readable(log \o stop)
           THEN /\ job' = [pc |-> "write", stage |-> job.stage, chained |-> job.chained,
                           batch |-> stop]
                /\ UNCHANGED halted /\ JobQuiet
           ELSE JobEnds(FALSE)

JobWrite ==
  /\ job.pc = "write"
  /\ log' = log \o job.batch /\ JobResult(FALSE)
  /\ UNCHANGED <<evidence, remote, due, requests>> /\ JobStep

\* A stage refuses, crashes, times out or is cancelled.
JobFails ==
  /\ job.pc \in {"work", "regen", "stamp"}
  /\ JobEnds(FALSE)

-----------------------------------------------------------------------------
(* Around the server *)

Unmoved == UNCHANGED <<log, evidence, chain, stops, decide, view, op, stopper, job, requests, world>>

\* Somebody else's commit reaches main.
MainMoves ==
  /\ main < MaxMain /\ main' = main + 1
  /\ UNCHANGED <<prs, merged>> /\ Unmoved

\* A pull request of a train is merged on GitHub and fetched.
Merge(pr) ==
  /\ pr \in prs /\ prs' = prs \ {pr}
  /\ main < MaxMain /\ main' = main + 1
  /\ merged' = merged \cup {<<c, main'>> : c \in pr.cards}
  /\ Unmoved

\* What is left of a batch whose append was cut: some of its lines, or a torn one.
Cuts(batch) == {SubSeq(batch, 1, k) : k \in 1..Len(batch)} \cup {<<TornLine>>}

WritingRegistry ==
  \/ op.pc = "observe" /\ op.kind = "seal" /\ op.running = {}
  \/ op.pc = "review"
  \/ job.pc \in {"work", "regen"}

\* The server dies; a stage job may outlive it, and is then no part of a chain.
Crash(jobSurvives) ==
  /\ crashes < MaxCrashes /\ crashes' = crashes + 1
  /\ jobSurvives => job # Idle
  /\ job' = IF jobSurvives THEN [job EXCEPT !.chained = FALSE] ELSE Idle
  /\ LET cut == InFlight \ (IF jobSurvives THEN {job} ELSE {})
     IN  log' \in {log} \cup {log \o c : c \in UNION {Cuts(b.batch) : b \in cut}}
  /\ torn' \in {torn, torn \/ WritingRegistry}
  /\ decide' = Idle /\ view' = Idle /\ op' = Idle /\ stopper' = Idle
  /\ due' = FALSE /\ halted' = FALSE /\ stops' = {}
  /\ UNCHANGED <<registry, reports, admitted, published, remote, requests, effective>>

-----------------------------------------------------------------------------
Decisions == {"approved", "declined"}

OpNext ==
  \/ SealDerive \/ SealRegister \/ SealStamp
  \/ \E t \in Trains : SealObserve(t)
  \/ \E t \in Trains : SignDerive(t) \/ AdmitRequest(t) \/ PrepareRequest(t)
  \/ SignObserve \/ SignReview
  \/ \E passes \in BOOLEAN : Admit(passes)
  \/ \E outcome \in Outcomes : Prepare(outcome)
  \/ OpWrite

JobWorks ==
  \/ JobLocate \/ JobBuild \/ JobMeasure \/ JobRegen \/ JobStamp \/ JobWrite
  \/ \E admits \in BOOLEAN : JobGauntlet(admits)

JobNext == JobWorks \/ JobFails \/ Advance \/ \E i \in 1..Len(Stages) : JobRequest(i)

Next ==
  \/ \E c \in Cards, d \in Decisions : DecideDerive(c, d)
  \/ DecideStamp \/ DecideWrite
  \/ \E t \in Trains : ViewDerive(t)
  \/ ViewObserve \/ ViewWrite
  \/ OpNext
  \/ \E s \in stops : StopperStamp(s)
  \/ StopperWrite
  \/ JobNext
  \/ MainMoves
  \/ \E pr \in prs : Merge(pr)
  \/ \E survives \in BOOLEAN : Crash(survives)

Spec == Init /\ [][Next]_vars

(***************************************************************************)
(* A begun request, append or stage goes on; the page reads the train      *)
(* again and again while it is on the screen (each read is a request of    *)
(* its own, so one read does not hold up another: strong fairness); a      *)
(* scheduled advance runs.  Nothing makes the reviewer act.                *)
(***************************************************************************)
OpGoesOn == op # Idle /\ OpNext

Fairness ==
  /\ \A t \in Trains : SF_vars(ViewDerive(t))
  /\ WF_vars(ViewObserve \/ ViewWrite)
  /\ WF_vars(OpGoesOn) /\ WF_vars(Advance) /\ WF_vars(JobWorks)
  /\ WF_vars((\E s \in stops : StopperStamp(s)) \/ StopperWrite)

FairSpec == Spec /\ Fairness

-----------------------------------------------------------------------------
(* What is promised *)

Entry == [cards : SUBSET Cards, base : 0..MaxMain, candidate : BOOLEAN,
          comparison : {"none", "effect", "noeffect"}, gauntlet : BOOLEAN, reviewed : BOOLEAN]

\* The evidence of a stage is recorded only over that of the stages before it.
InStageOrder(e) == /\ e.comparison # "none" => e.candidate
                   /\ e.gauntlet => e.comparison # "none"

\* Every file and slot holds what its reader expects of it: whole entries with
\* their evidence in stage order, batches that are not empty, counters in bounds.
TypeOK ==
  /\ \A i \in 1..Len(log) : log[i] = TornLine \/ log[i].at \in Nat
  /\ registry \in [Trains -> {e \in Entry : InStageOrder(e)} \cup {None}]
  /\ {torn, due, halted} \subseteq BOOLEAN
  /\ reports \subseteq Trains /\ published \subseteq Trains
  /\ admitted \subseteq [train : Trains, cards : SUBSET Cards, base : 0..MaxMain]
  /\ prs \subseteq [train : Trains, cards : SUBSET Cards]
  /\ merged \subseteq Cards \X (1..MaxMain)
  /\ main \in 0..MaxMain /\ effective \subseteq DataCards
  /\ \A a \in {decide, view, op, stopper, job} : a.pc = "write" => a.batch # <<>>
  /\ op # Idle => op.train \in Trains
  /\ requests \in 0..MaxRequests /\ crashes \in 0..MaxCrashes

Files == Readable(log) /\ ~torn

\* V7: at most one train is under way, whatever reads, stops, stages and deaths
\* fall between the check of a seal and the append of its events.
SingleFlight ==
  Files => Cardinality({t \in TrainsOf(log) : StateOf(log, t) # "stopped" /\ ~Landed(t)}) <= 1

\* The registry is written before the events of a seal: a sealed train has the
\* entry of exactly the cards it sealed, after a death anywhere and a reclaimed id.
EvidencePrecedesTrain ==
  Files => \A t \in Bound(log) : registry[t].cards = SealedCards(log, t)

\* A card rides one train that was not stopped, and never boards a second one.
ConsumedOnce ==
  Readable(log) => \A t, u \in Bound(log) :
                     t # u => SealedCards(log, t) \cap SealedCards(log, u) = {}

\* A data change without effect never reaches a pull request, also when the stage
\* that found it died before it stopped the train.
NoEffectNeverPublished ==
  \A pr \in prs : pr.cards \cap DataCards # {} => pr.cards \cap effective # {}

\* Trains follow each other: one under way, with its evidence first, each card on one
\* of them, and none published for nothing.
TrainsKeepOrder ==
  SingleFlight /\ EvidencePrecedesTrain /\ ConsumedOnce /\ NoEffectNeverPublished

\* No writer of the registry loses what another one recorded of a sealed train:
\* stages and signatures rewrite the whole entry from a copy they read before.
Kept(e, f) == /\ e.cards = f.cards /\ e.base = f.base
              /\ e.candidate => f.candidate
              /\ e.comparison \in {"none", f.comparison}
              /\ e.gauntlet => f.gauntlet
              /\ e.reviewed => f.reviewed
EvidenceGrows ==
  [][Files => \A t \in Bound(log) : Kept(registry[t], registry'[t])]_vars

\* A sealed data train comes to rest without the reviewer: it is ready to be
\* signed or stopped, unless a stage failed and halted the chain.
Settled(t) ==
  \/ halted \/ ~Files \/ StateOf(log, t) # "sealed"
  \/ registry[t] # None /\ registry[t].gauntlet
DataTrainSettles ==
  (\E t \in DataTrains : ~Settled(t)) ~> (\A t \in DataTrains : Settled(t))

\* "(and the train's own content is NOT what moved it: liveness was checked above)"
\* (trainRunner.ts:538-539): an observation never stops a train that has landed.
ObservationSparesLanded ==
  [][view.pc = "observe" /\ Landed(view.train) => view'.pc # "write"]_vars

\* A card "sealed in the stopped attempt ... boards no seal until a decide event
\* postdating the stop" (deriveUpdates.ts:1535-1539, no-measurable-effect).
NoEffectParked ==
  [][op = Idle /\ op'.pc = "observe" /\ op'.kind = "seal" =>
       \A t \in TrainsOf(log), c \in op'.cards \ AutoResolved :
         StateOf(log, t) = "stopped" /\ StopOf(log, t).reason = "no-measurable-effect"
           => c \notin SealedCards(log, t) \/ DecidedSince(log, c, t)]_vars
=============================================================================
