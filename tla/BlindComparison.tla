--------------------------- MODULE BlindComparison ---------------------------
(***************************************************************************)
(* BlindComparisonStore (blindComparison.ts): one review of a candidate,   *)
(* judged blind.  Its log is a file of the journal, appended to by the     *)
(* transactions of several servers; a transaction reads the log, decides,  *)
(* and applies its plan under the lock only if the log is still the one it *)
(* read.  A reviewer whose request got no answer sends it again, to        *)
(* another server perhaps, and may by then have another opinion.           *)
(*                                                                         *)
(* Applying a plan is one step, which AtomicApply states of the journal.   *)
(* A digest of the state stands for the revision: the log only grows.      *)
(***************************************************************************)
EXTENDS Integers, FiniteSets, Sequences

CONSTANTS
  Servers,      \* processes that serve the review
  Requests,     \* request ids
  Queries,      \* the queries of the review
  Opinions,      \* what may be said of a query
  MaxRestarts   \* bound on the deaths of servers

ASSUME BlindAssumption == MaxRestarts \in Nat /\ "none" \notin Requests

VARIABLES
  blindLog,    \* the events of the review's session, the creation first
  ask,         \* each request: what it asks and how far it is
  serving,     \* the request a server's transaction is for, or NoRequest
  restarts     \* deaths so far

blindVars == <<blindLog, ask, serving, restarts>>

NoRequest == "none"
Kinds == {"session-created", "judgment-recorded", "missing-passage-recorded"}
NoAsk == [at |-> "unsent", server |-> "none", base |-> 0, kind |-> "none", revision |-> 0,
          query |-> "none", choice |-> "none"]

BlindInit == /\ blindLog = <<>> /\ ask = [r \in Requests |-> NoAsk]
             /\ serving = [s \in Servers |-> NoRequest] /\ restarts = 0

-----------------------------------------------------------------------------
\* The event a request asks for, and the events of a log.
EventOf(r) == [request |-> r, kind |-> ask[r].kind, revision |-> ask[r].revision,
               query |-> ask[r].query, choice |-> ask[r].choice]
Logged(e) == \E n \in DOMAIN blindLog : blindLog[n] = e
Prior(r) == {n \in 2..Len(blindLog) : blindLog[n].request = r}
Judged(q) == \E n \in DOMAIN blindLog : blindLog[n].kind = "judgment-recorded" /\ blindLog[n].query = q
RevisionNow == Len(blindLog) - 1

\* resolve() of start: an existing session is returned whoever created it.
ResolveStart == IF blindLog = <<>> THEN "append" ELSE "return"

\* Mutant: the revision is compared before a repeated request is recognised.
ResolveMutation_RevisionFirst(r) ==
  IF blindLog = <<>> \/ blindLog[1].request = r \/ ask[r].revision # RevisionNow THEN "refuse"
  ELSE IF Prior(r) # {} THEN "return"
  ELSE IF ask[r].kind = "judgment-recorded" /\ Judged(ask[r].query) THEN "refuse" ELSE "append"

\* resolve() of mutate: a repeated request is answered from the log if it asks for the
\* same, else the revision it was made on must be the present one and the query not
\* judged yet.
ResolveMutation(r) ==
  IF blindLog = <<>> \/ blindLog[1].request = r THEN "refuse"
  ELSE IF Prior(r) # {} THEN IF Logged(EventOf(r)) THEN "return" ELSE "refuse"
  ELSE IF ask[r].revision # RevisionNow THEN "refuse"
  ELSE IF ask[r].kind = "judgment-recorded" /\ Judged(ask[r].query) THEN "refuse" ELSE "append"

Resolve(r) == IF ask[r].kind = "session-created" THEN ResolveStart ELSE ResolveMutation(r)

-----------------------------------------------------------------------------
\* A reviewer sends a request, or one that got no answer again, with the revision some
\* server showed; the creation of a session says nothing else.
Submit(r) ==
  \E s \in Servers, kind \in Kinds, revision \in 0..Len(blindLog), q \in Queries, choice \in Opinions :
    /\ ask[r].at \in {"unsent", "lost"}
    /\ ask[r].at = "lost" => kind = ask[r].kind /\ revision = ask[r].revision
    /\ kind = "session-created" => /\ revision = 0 /\ q = CHOOSE x \in Queries : TRUE
                                   /\ choice = CHOOSE x \in Opinions : TRUE
    /\ ask' = [ask EXCEPT ![r] = [NoAsk EXCEPT !.at = "waiting", !.server = s, !.kind = kind,
                                               !.revision = revision, !.query = q, !.choice = choice]]
    /\ UNCHANGED <<blindLog, serving, restarts>>

\* The answer of a call, and the end of its transaction.
Tell(r, what) == /\ ask' = [ask EXCEPT ![r].at = what]
                 /\ serving' = [serving EXCEPT ![ask[r].server] = NoRequest]

\* Transactions of one process follow each other; each reads the log and decides.
ReadAndResolve(r) ==
  /\ ask[r].at = "waiting" /\ serving[ask[r].server] \in {NoRequest, r}
  /\ CASE Resolve(r) = "return" -> Tell(r, "ok")
       [] Resolve(r) = "refuse" -> Tell(r, "refused")
       [] Resolve(r) = "append" -> /\ ask' = [ask EXCEPT ![r].at = "planned", ![r].base = Len(blindLog)]
                                   /\ serving' = [serving EXCEPT ![ask[r].server] = r]
  /\ UNCHANGED <<blindLog, restarts>>

\* Mutant: the plan is applied to the log as it is now.
SameLog_Any(r) == TRUE
\* The bytes under the lock are those the transaction read (sha256 of the log).
SameLog(r) == Len(blindLog) = ask[r].base

\* beforeApply and the apply, under the repository lock.
ApplyEvent(r) ==
  /\ ask[r].at = "planned" /\ SameLog(r)
  /\ blindLog' = Append(blindLog, EventOf(r))
  /\ ask' = [ask EXCEPT ![r].at = "committed"]
  /\ UNCHANGED <<serving, restarts>>

\* The log is another: the request may be a repeated one by now, or be refused, or the
\* transaction starts over.
ResolveAgain(r) ==
  /\ ask[r].at = "planned" /\ ~SameLog(r)
  /\ CASE Resolve(r) = "return" -> Tell(r, "ok")
       [] Resolve(r) = "refuse" -> Tell(r, "refused")
       [] Resolve(r) = "append" -> ask' = [ask EXCEPT ![r].at = "waiting"] /\ UNCHANGED serving
  /\ UNCHANGED <<blindLog, restarts>>

\* afterCommit finds the event in the log and the request is answered.
CommittedSession(r) ==
  /\ ask[r].at = "committed"
  /\ Tell(r, IF Logged(EventOf(r)) THEN "ok" ELSE "refused")
  /\ UNCHANGED <<blindLog, restarts>>

\* A server dies; its requests get no answer.
BlindServerDies(s) ==
  /\ restarts < MaxRestarts /\ restarts' = restarts + 1
  /\ ask' = [r \in Requests |-> IF ask[r].server = s /\ ask[r].at \in {"waiting", "planned", "committed"}
                                  THEN [ask[r] EXCEPT !.at = "lost"] ELSE ask[r]]
  /\ serving' = [serving EXCEPT ![s] = NoRequest]
  /\ UNCHANGED blindLog

BlindStep(r) == ReadAndResolve(r) \/ ApplyEvent(r) \/ ResolveAgain(r) \/ CommittedSession(r)
BlindNext == (\E r \in Requests : Submit(r) \/ BlindStep(r)) \/ (\E s \in Servers : BlindServerDies(s))

BlindSpec == BlindInit /\ [][BlindNext]_blindVars

-----------------------------------------------------------------------------
\* The types of the state (BlindEvent, TransactionDecision).
BlindTypeOK ==
  /\ \A r \in Requests : ask[r].at \in {"unsent", "waiting", "planned", "committed", "ok", "refused", "lost"}
  /\ serving \in [Servers -> Requests \cup {NoRequest}]
  /\ \A r \in Requests : ask[r].at \in {"planned", "committed"} => serving[ask[r].server] = r

\* Every server can fold the log: one creation, first; revisions that follow each
\* other; no request twice and no query judged twice, whatever is sent again and to
\* whichever server (foldSession, mutate, transact).
LogFolds ==
  /\ \A n \in DOMAIN blindLog : blindLog[n].kind = "session-created" <=> n = 1
  /\ \A n \in 2..Len(blindLog) : blindLog[n].revision = n - 2
  /\ \A m, n \in DOMAIN blindLog : blindLog[m].request = blindLog[n].request => m = n
  /\ \A m, n \in 2..Len(blindLog) :
       /\ blindLog[m].kind = "judgment-recorded" /\ blindLog[n].kind = "judgment-recorded"
       /\ blindLog[m].query = blindLog[n].query
       => m = n

\* A request that was told so has its event in the log as it asked for it, and one that
\* was refused has changed nothing, however often it was sent (committedSession, the
\* replay in mutate).
RepliesStand ==
  \A r \in Requests :
    /\ ask[r].at = "ok" => IF ask[r].kind = "session-created" THEN blindLog # <<>> ELSE Logged(EventOf(r))
    /\ ask[r].at = "refused" => ~Logged(EventOf(r))

\* The log of a blind review and what its requests were told.
BlindHolds == LogFolds /\ RepliesStand
=============================================================================
