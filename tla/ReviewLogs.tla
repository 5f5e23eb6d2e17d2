----------------------------- MODULE ReviewLogs -----------------------------
(***************************************************************************)
(* The two append-only logs of the reviewer, as the server drives them:    *)
(* workbench/cases.jsonl (CaseLog in reviewCases.ts, its rules in          *)
(* cases.ts) and workbench/judgments.jsonl (submitV2Judgment in server.ts, *)
(* its rules in judgments.ts, its readers in effectiveJudgments.ts), and   *)
(* the process-local store of the review snapshots a judgment must name.   *)
(*                                                                         *)
(* Each log has a promise tail: requests run in the order they came, one   *)
(* at a time.  A request reads the whole log, validates, and appends one   *)
(* line; the file is not locked.  A death, or an append that fails, may    *)
(* leave any prefix of the line: no JSON, or JSON without its newline.     *)
(***************************************************************************)
EXTENDS Naturals, SequencesExt

CONSTANTS
  Handlers,     \* HTTP requests the server is working on at the same time
  Cases,        \* the case ids randomUUID hands out
  Targets,      \* passages a judgment may be about
  Displayed,    \* those the engine shows for a query (it is deterministic)
  StoreLimit,   \* REVIEW_SNAPSHOT_LIMIT
  MaxClock,     \* bound: the wall clock is read as any value up to this one
  MaxAsked,     \* bound: requests the server receives
  MaxFalls      \* bound: deaths of the server and failed appends

ASSUME ReviewAssumption ==
  /\ StoreLimit \in Nat \ {0} /\ MaxClock \in Nat /\ MaxAsked \in Nat /\ MaxFalls \in Nat
  /\ Displayed \subseteq Targets /\ Displayed # {} /\ Cases # {} /\ "none" \notin Cases

VARIABLES
  caseFile,     \* cases.jsonl: [lines, end], end is "open" without a newline
  judgFile,     \* judgments.jsonl, in the same form
  store,        \* ReviewSnapshotStore.byToken: snapshots, the oldest first
  tokenOf,      \* ReviewSnapshotStore.tokenByCase: 0 for a case without one
  caseTail,     \* requests on CaseLog.tail, the running one first
  judgTail,     \* requests on v2JudgmentTail, the running one first
  req,          \* what each handler is doing
  asked,        \* requests received so far; numbers judgments and tokens too
  falls         \* deaths and failed appends so far

revVars == <<caseFile, judgFile, store, tokenOf, caseTail, judgTail, req, asked, falls>>

Free == [op |-> "none", at |-> "free"]

-----------------------------------------------------------------------------
(* Files of JSON lines. *)

Junk == [kind |-> "junk", id |-> MaxAsked + 2, case |-> "none", supersedes |-> 0]

\* Every reader refuses a file with a line that is not JSON.
Readable(file) == Junk \notin ToSet(file.lines)

\* Mutant: a judgment is appended without a look at the whole history.
HistoryRead_Lenient(file) == file.lines = file.lines

\* readJudgments of the submission throws at a line that does not parse.
HistoryRead(file) == Readable(file)

\* The lines before the one an append would join, and what joining makes of it.
Complete(file) == IF file.end = "clean" THEN file.lines ELSE Front(file.lines)

\* appendFile of one whole line, which joins a line that has no newline.
Written(file, line) ==
  [lines |-> Append(Complete(file), IF file.end = "clean" THEN line ELSE Junk), end |-> "clean"]

\* What is left of an append that did not come to its end: nothing, all of it,
\* all but the newline, or a prefix that is no JSON.
Torn(file, line) ==
  {file, Written(file, line), [Written(file, line) EXCEPT !.end = "open"],
   [lines |-> Append(Complete(file), Junk), end |-> "open"]}

-----------------------------------------------------------------------------
(* The case log. *)

Transitions == [new |-> {"reviewing"}, reviewing |-> {"judged"}, judged |-> {}]

\* The events of one case. Their order in the file has no bearing, their sequence has.
EventsOf(lines, c) == {e \in ToSet(lines) : e.case = c}
Known(lines) == {e.case : e \in ToSet(lines)}

\* The last event of a validated chain; its state is the state of the case.
Newest(chain) == CHOOSE e \in chain : \A f \in chain : f.sequence <= e.sequence

\* validateCaseChain: what every reader of the log demands of one case.
ChainValid(lines, c) ==
  LET chain == EventsOf(lines, c)
  IN /\ \A i, j \in DOMAIN lines :
          i # j /\ lines[i].case = c /\ lines[j].case = c => lines[i].sequence # lines[j].sequence
     /\ \A e \in chain : (e.kind = "created") = (e.sequence = 1)
     /\ \A e \in chain : e.kind = "state" =>
          \E p \in chain :
            /\ p.sequence = e.parent /\ e.sequence = p.sequence + 1 /\ e.time >= p.time
            /\ e.state \in Transitions[p.state]
            /\ \A f \in chain : f.kind = "state" /\ f.parent = e.parent => f = e

CasesValid(lines) == \A c \in Known(lines) : ChainValid(lines, c)

CreatedEvent(c, now) == [case |-> c, kind |-> "created", sequence |-> 1, parent |-> 0, state |-> "new", time |-> now]

\* CaseLog.transition: a clock that went back is pushed past the parent's time.
StateEvent(c, parent, s, now) ==
  [case |-> c, kind |-> "state", sequence |-> parent.sequence + 1, parent |-> parent.sequence, state |-> s,
   time |-> IF now > parent.time THEN now ELSE parent.time + 1]

-----------------------------------------------------------------------------
(* The judgment log. *)

\* What the client sends: the action with its passages, and the judgment it corrects (0 for none).
Bodies ==
  [action : {"result", "missing"}, about : {<<t>> : t \in Targets}, supersedes : 0 .. MaxAsked + 1]
  \cup [action : {"prefer"}, about : {<<t, u>> : t, u \in Targets}, supersedes : 0 .. MaxAsked + 1]

\* v2TargetKey: a missing reference, an unordered pair, or one result.
TargetKey(j) == <<j.action, ToSet(j.about)>>

\* validateV2Judgment against the displayed window.
Admissible(b) ==
  CASE b.action = "missing" -> b.about[1] \notin Displayed
    [] b.action = "prefer"  -> b.about[1] # b.about[2] /\ ToSet(b.about) \subseteq Displayed
    [] OTHER                -> b.about[1] \in Displayed

\* Mutant: validateSupersession looks for the named judgment only.
MayCorrect_AnyPrior(lines, c, b) ==
  b.supersedes = 0 \/ \E p \in ToSet(lines) : p.id = b.supersedes /\ p.case = c /\ TargetKey(p) = TargetKey(b)

\* validateSupersession: the same case and target, and nobody corrected it before.
MayCorrect(lines, c, b) ==
  \/ b.supersedes = 0
  \/ /\ \E p \in ToSet(lines) : p.id = b.supersedes /\ p.case = c /\ TargetKey(p) = TargetKey(b)
     /\ ~\E s \in ToSet(lines) : s.supersedes = b.supersedes

\* The stamped record; its time is pushed past the time of the judgment it corrects.
Judgment(lines, r, b, now) ==
  LET prior == {p \in ToSet(lines) : p.id = b.supersedes}
  IN [id |-> req[r].number, case |-> req[r].case, action |-> b.action, about |-> b.about,
      supersedes |-> b.supersedes,
      time |-> IF \A p \in prior : now > p.time THEN now ELSE (CHOOSE p \in prior : TRUE).time + 1]

\* activeV2Judgments: the graph of corrections, before its leaves are taken.
GraphValid(lines) ==
  /\ \A i, j \in DOMAIN lines : i # j => lines[i].id # lines[j].id
  /\ \A i \in DOMAIN lines : lines[i].supersedes # 0 =>
       \E k \in 1 .. i - 1 :
         /\ lines[k].id = lines[i].supersedes /\ lines[k].case = lines[i].case
         /\ TargetKey(lines[k]) = TargetKey(lines[i]) /\ lines[i].time > lines[k].time
  /\ \A i, j \in DOMAIN lines :
       i # j /\ lines[i].supersedes # 0 => lines[i].supersedes # lines[j].supersedes

-----------------------------------------------------------------------------
(* The snapshot store. *)

\* byToken.delete: the entry of a token, if there is one.
Drop(t) ==
  IF \E i \in DOMAIN store : store[i].token = t
  THEN RemoveAt(store, CHOOSE i \in DOMAIN store : store[i].token = t) ELSE store

\* put: the case's prior snapshot goes, and the least recently used one when there are too many.
Put(c, t) ==
  LET all == Append(Drop(tokenOf[c]), [token |-> t, case |-> c])
      named == [tokenOf EXCEPT ![c] = t]
      oldest == Head(all)
  IN IF Len(all) <= StoreLimit THEN store' = all /\ tokenOf' = named
     ELSE /\ store' = Tail(all)
          /\ tokenOf' = IF named[oldest.case] = oldest.token
                        THEN [named EXCEPT ![oldest.case] = 0] ELSE named

Held(c, t) == \E s \in ToSet(store) : s.token = t /\ s.case = c

\* get: a hit becomes the most recently used snapshot.
Touch(c, t) == store' = IF Held(c, t) THEN Append(Drop(t), [token |-> t, case |-> c]) ELSE store

-----------------------------------------------------------------------------
(* Requests. *)

\* The server starts on an empty repository, or on one with a case that was judged once.
ReviewInit ==
  /\ \/ caseFile = [lines |-> <<>>, end |-> "clean"] /\ judgFile = caseFile
     \/ LET c == CHOOSE x \in Cases : TRUE
            t == CHOOSE x \in Displayed : TRUE IN
          /\ caseFile = [lines |-> <<CreatedEvent(c, 0)>>, end |-> "clean"]
          /\ judgFile = [lines |-> <<[id |-> MaxAsked + 1, case |-> c, action |-> "result", about |-> <<t>>,
                                      supersedes |-> 0, time |-> MaxClock]>>, end |-> "clean"]
  /\ store = <<>> /\ tokenOf = [c \in Cases |-> 0]
  /\ caseTail = <<>> /\ judgTail = <<>>
  /\ req = [r \in Handlers |-> Free] /\ asked = 0 /\ falls = 0

Receive(r, op, c, s) ==
  /\ req[r].at = "free" /\ asked < MaxAsked
  /\ asked' = asked + 1
  /\ req' = [req EXCEPT ![r] = [op |-> op, case |-> c, state |-> s, at |-> "waiting",
                                number |-> asked + 1, line |-> Junk]]

Stays == UNCHANGED <<caseFile, judgFile, store, tokenOf, falls>>
Answered(r) == req' = [req EXCEPT ![r] = Free]
Moves(r, to) == req' = [req EXCEPT ![r].at = to]
\* The request has its line and will append it.
Writes(r, line) == req' = [req EXCEPT ![r].at = "writing", ![r].line = line]

\* POST /cases and POST /cases/:id/state; a new case gets an unused id.
AskCase(r) ==
  /\ Stays /\ UNCHANGED judgTail /\ caseTail' = Append(caseTail, r)
  /\ \/ \E c \in Cases \ Known(caseFile.lines) :
          /\ \A q \in Handlers : req[q].op = "create" => req[q].case # c
          /\ Receive(r, "create", c, "new")
     \/ \E c \in Cases, s \in {"reviewing", "judged"} : Receive(r, "state", c, s)

\* GET /cases/:id.
AskOpen(r) ==
  /\ Stays /\ UNCHANGED <<caseTail, judgTail>>
  /\ \E c \in Cases : Receive(r, "open", c, "none")

\* POST /judgments; the token and the body it brings are chosen where they are first looked at.
AskJudge(r) ==
  /\ Stays /\ UNCHANGED caseTail /\ judgTail' = Append(judgTail, r)
  /\ \E c \in Cases : Receive(r, "judge", c, "none")

\* CaseLog.create, CaseLog.transition: its turn has come, and it reads and validates the log.
CaseTurn(r) ==
  /\ caseTail # <<>> /\ r = Head(caseTail) /\ req[r].at = "waiting" /\ req[r].op \in {"create", "state"}
  /\ LET chain == EventsOf(caseFile.lines, req[r].case)
         legal == req[r].op = "create" \/ (chain # {} /\ req[r].state \in Transitions[Newest(chain).state])
     IN IF Readable(caseFile) /\ CasesValid(caseFile.lines) /\ legal
        THEN /\ \E now \in 0 .. MaxClock :
                  Writes(r, IF req[r].op = "create" THEN CreatedEvent(req[r].case, now)
                            ELSE StateEvent(req[r].case, Newest(chain), req[r].state, now))
             /\ UNCHANGED caseTail
        ELSE Answered(r) /\ caseTail' = Tail(caseTail)
  /\ Stays /\ UNCHANGED <<judgTail, asked>>

\* Mutant: the log is handed on only when the snapshot has been captured.
CaseWrite_HoldsTail(r) ==
  /\ req[r].at = "writing" /\ req[r].op \in {"create", "state"}
  /\ caseFile' = Written(caseFile, req[r].line)
  /\ IF req[r].op = "create" THEN Moves(r, "searching") /\ UNCHANGED caseTail
     ELSE Answered(r) /\ caseTail' = Tail(caseTail)
  /\ UNCHANGED <<judgFile, store, tokenOf, judgTail, asked, falls>>

\* The append; a created case then has its snapshot captured, off the tail.
CaseWrite(r) ==
  /\ req[r].at = "writing" /\ req[r].op \in {"create", "state"}
  /\ caseFile' = Written(caseFile, req[r].line)
  /\ caseTail' = Tail(caseTail)
  /\ IF req[r].op = "create" THEN Moves(r, "searching") ELSE Answered(r)
  /\ UNCHANGED <<judgFile, store, tokenOf, judgTail, asked, falls>>

\* GET /cases/:id reads the log off the tail; a held snapshot is reused.
OpenCase(r) ==
  /\ req[r].op = "open" /\ req[r].at = "waiting"
  /\ LET c == req[r].case
     IN IF ~Readable(caseFile) \/ c \notin Known(caseFile.lines) THEN Answered(r) /\ UNCHANGED store
        ELSE Touch(c, tokenOf[c]) /\ IF Held(c, tokenOf[c]) THEN Answered(r) ELSE Moves(r, "searching")
  /\ UNCHANGED <<caseFile, judgFile, tokenOf, caseTail, judgTail, asked, falls>>

\* captureReviewSnapshot: the engine has answered, and the snapshot gets its token.
Capture(r) ==
  /\ req[r].at = "searching"
  /\ Put(req[r].case, req[r].number) /\ Answered(r)
  /\ UNCHANGED <<caseFile, judgFile, caseTail, judgTail, asked, falls>>

\* submitV2Judgment, its turn: the case must exist and the snapshot be held.
JudgeTurn(r) ==
  /\ judgTail # <<>> /\ r = Head(judgTail) /\ req[r].at = "waiting" /\ req[r].op = "judge"
  /\ IF Readable(caseFile) /\ req[r].case \in Known(caseFile.lines)
     THEN \E t \in 1 .. asked :
            /\ Touch(req[r].case, t)
            /\ IF Held(req[r].case, t) THEN Moves(r, "reading") /\ UNCHANGED judgTail
               ELSE Answered(r) /\ judgTail' = Tail(judgTail)
     ELSE Answered(r) /\ judgTail' = Tail(judgTail) /\ UNCHANGED store
  /\ UNCHANGED <<caseFile, judgFile, tokenOf, caseTail, asked, falls>>

\* readJudgments and JudgmentLog.submit: the history is read and the judgment validated against it.
JudgeRead(r) ==
  /\ req[r].at = "reading"
  /\ \E b \in Bodies, now \in 0 .. MaxClock :
       IF HistoryRead(judgFile) /\ Admissible(b) /\ MayCorrect(judgFile.lines, req[r].case, b)
       THEN Writes(r, Judgment(judgFile.lines, r, b, now)) /\ UNCHANGED judgTail
       ELSE Answered(r) /\ judgTail' = Tail(judgTail)
  /\ Stays /\ UNCHANGED <<caseTail, asked>>

JudgeWrite(r) ==
  /\ req[r].at = "writing" /\ req[r].op = "judge"
  /\ judgFile' = Written(judgFile, req[r].line)
  /\ judgTail' = Tail(judgTail) /\ Answered(r)
  /\ UNCHANGED <<caseFile, store, tokenOf, caseTail, asked, falls>>

\* Mutant: a rejected run stays at the head of the tail.
Release_Stranded(r) == UNCHANGED <<caseTail, judgTail>>

\* run.then(...): the tail goes on whether the run was fulfilled or rejected.
Release(r) ==
  IF req[r].op = "judge" THEN judgTail' = Tail(judgTail) /\ UNCHANGED caseTail
  ELSE caseTail' = Tail(caseTail) /\ UNCHANGED judgTail

\* appendFile rejects, for instance on a full disk, with part of the line written.
WriteFails(r) ==
  /\ req[r].at = "writing" /\ falls < MaxFalls
  /\ IF req[r].op = "judge"
     THEN judgFile' \in Torn(judgFile, req[r].line) /\ UNCHANGED caseFile
     ELSE caseFile' \in Torn(caseFile, req[r].line) /\ UNCHANGED judgFile
  /\ Release(r) /\ Answered(r) /\ falls' = falls + 1
  /\ UNCHANGED <<store, tokenOf, asked>>

\* The server dies and is started again: tails, requests and snapshots are gone.
ServerDies ==
  /\ falls < MaxFalls /\ falls' = falls + 1
  /\ \E r \in Handlers : req[r].at # "free"
  /\ caseFile' \in {caseFile} \cup UNION {Torn(caseFile, req[r].line) :
       r \in {q \in Handlers : req[q].at = "writing" /\ req[q].op # "judge"}}
  /\ judgFile' \in {judgFile} \cup UNION {Torn(judgFile, req[r].line) :
       r \in {q \in Handlers : req[q].at = "writing" /\ req[q].op = "judge"}}
  /\ store' = <<>> /\ tokenOf' = [c \in Cases |-> 0]
  /\ caseTail' = <<>> /\ judgTail' = <<>> /\ req' = [r \in Handlers |-> Free]
  /\ UNCHANGED asked

ReviewStep(r) ==
  \/ CaseTurn(r) \/ CaseWrite(r) \/ OpenCase(r) \/ Capture(r)
  \/ JudgeTurn(r) \/ JudgeRead(r) \/ JudgeWrite(r) \/ WriteFails(r)

ReviewNext ==
  \/ \E r \in Handlers : AskCase(r) \/ AskOpen(r) \/ AskJudge(r) \/ ReviewStep(r)
  \/ ServerDies

ReviewSpec == ReviewInit /\ [][ReviewNext]_revVars
ReviewFairSpec == ReviewSpec /\ \A r \in Handlers : WF_revVars(ReviewStep(r))

-----------------------------------------------------------------------------
(* Properties. *)

\* Types of the files and tokens; on each tail are the requests that wait for
\* their turn in its log or have it, once.
ReviewTypeOK ==
  /\ \A f \in {caseFile, judgFile} : f.end \in {"clean", "open"}
  /\ tokenOf \in [Cases -> 0 .. MaxAsked]
  /\ \A r \in Handlers : req[r].at \in {"free", "waiting", "reading", "writing", "searching"}
  /\ IsInjective(caseTail) /\ IsInjective(judgTail)
  /\ ToSet(caseTail) = {r \in Handlers : req[r].op \in {"create", "state"} /\ req[r].at # "searching"}
  /\ ToSet(judgTail) = {r \in Handlers : req[r].op = "judge"}

\* Whatever the interleaving, the clock and the deaths, the strict readers
\* accept what the writers wrote: each case is one chain of legal transitions
\* (validateCaseEvents), the corrections are chains with one effective
\* judgment each (activeV2Judgments), and each judgment's case exists
\* (validateCasesForJudgments).
ReadersAccept ==
  /\ Readable(caseFile) => CasesValid(caseFile.lines)
  /\ Readable(judgFile) => GraphValid(judgFile.lines)
  /\ Readable(caseFile) /\ Readable(judgFile) =>
       \A j \in ToSet(judgFile.lines) : j.case \in Known(caseFile.lines)

\* The snapshot store stays within its limit and its two maps stay one another's
\* inverse, although a snapshot is captured between the look-up and the put.
StoreConsistent ==
  /\ Len(store) <= StoreLimit
  /\ \A s \in ToSet(store) : tokenOf[s.case] = s.token
  /\ \A c \in Cases : tokenOf[c] # 0 => Held(c, tokenOf[c])

\* Logs and store of the reviews.
ReviewsHold == ReadersAccept /\ StoreConsistent

\* No request writes to a log that no reader accepts: what a torn line left
\* stays as it is for diagnosis, and nothing is lost on top of it.
TornIsLast ==
  [][/\ Junk \in ToSet(caseFile.lines) => caseFile' = caseFile
     /\ Junk \in ToSet(judgFile.lines) => judgFile' = judgFile]_revVars

\* "A failed append must not strand later submissions" (judgments.ts): every
\* request is answered unless the server dies.
EveryoneAnswered == \A r \in Handlers : req[r].at # "free" ~> req[r].at = "free"
=============================================================================
