--------------------------- MODULE StudioSessions ---------------------------
(***************************************************************************)
(* The review sessions of the studio are one file, read, changed and       *)
(* written as a whole (startSession, mutateSession and #writeSessions of   *)
(* studioOperations.ts).  Requests overlap at every await, the server dies *)
(* with answers unsent, and a window that got no answer asks again under   *)
(* the same request id, or uses an id twice.  The plan that writes is one  *)
(* step here: ApplyJournal shows that an apply is all or nothing.          *)
(***************************************************************************)
EXTENDS Integers, FiniteSets, Sequences, SequencesExt

CONSTANTS
  Definitions,      \* the definitions of sessions
  Items,            \* the items of each
  Calls,            \* the requests in flight
  Ids,              \* request ids
  NoSession,        \* not in the file
  MaxStudioDeaths   \* bound on the deaths of the server

Close == "close"
Deeds == Items \cup {Close}

ASSUME StudioAssumption ==
  /\ IsFiniteSet(Items) /\ Close \notin Items /\ "start" \notin Ids
  /\ NoSession \notin Seq([id : Ids, does : Deeds, revision : Nat])

VARIABLES
  index,    \* the file: the events of each session
  asks,     \* the requests
  assured,  \* one thing that was answered with success, once there was one
  deaths    \* deaths so far

studioVars == <<index, asks, assured, deaths>>

Empty == [s \in Definitions |-> NoSession]
NoRequest == [at |-> "idle"]

StudioInit == index = Empty /\ asks = [c \in Calls |-> NoRequest] /\ assured = {} /\ deaths = 0

Moves(c, as) == asks' = [asks EXCEPT ![c] = as]
CallEnds(c) == Moves(c, NoRequest)

-----------------------------------------------------------------------------
\* validateEvent and foldReviewSessionEvents for a new event.
Foldable(log, d) ==
  LET done == {e.does : e \in ToSet(log)} IN
  d \notin done /\ Close \notin done /\ (d = Close => Items \subseteq done)

Recorded(q, log) == \E e \in ToSet(log) : e.id = q.id
Same(q, log) == \E e \in ToSet(log) : e.id = q.id /\ e.does = q.does

\* The file with what request q asks for, when it held the logs was.
Asked(q, was) ==
  [was EXCEPT ![q.session] = IF q.id = "start" THEN <<>>
                             ELSE Append(@, [id |-> q.id, does |-> q.does, revision |-> q.revision])]

\* The requests a window may send: a start, or a deed at a revision it has seen.
Sendable ==
  {[session |-> s, id |-> "start", does |-> Close, revision |-> 0] : s \in Definitions}
  \cup UNION {[session : {s}, id : Ids, does : Deeds, revision : 0..Len(index[s])] :
               s \in {t \in Definitions : index[t] # NoSession}}

Repeats(q, log) == IF q.id = "start" THEN log # NoSession ELSE Same(q, log)
Refused(q, log) == q.id # "start" /\ (Recorded(q, log) \/ q.revision # Len(log) \/ ~Foldable(log, q.does))

\* Success is answered.  What is kept of it is one fact, this one or an earlier one.
Assure(q) == assured' \in {assured, {[session |-> q.session, id |-> q.id, does |-> q.does]}}

\* A request comes and readSessions reads the file, under the read lock of the journal.
\* What was done before is answered at once, what is stale is refused.
ReadSessions(c) ==
  /\ asks[c] = NoRequest
  /\ \E q \in Sendable :
       \/ Repeats(q, index[q.session]) /\ Assure(q) /\ UNCHANGED asks
       \/ Refused(q, index[q.session]) /\ ~Repeats(q, index[q.session]) /\ UNCHANGED <<assured, asks>>
       \/ /\ ~Repeats(q, index[q.session]) /\ ~Refused(q, index[q.session])
          /\ Moves(c, [at |-> "comparing", request |-> q, was |-> index]) /\ UNCHANGED assured
  /\ UNCHANGED <<index, deaths>>

\* writeSessions: the file is read again and compared, and its digest put into the plan.
Compare(c) ==
  /\ asks[c].at = "comparing"
  /\ Moves(c, IF index = asks[c].was THEN [asks[c] EXCEPT !.at = "writing"] ELSE NoRequest)
  /\ UNCHANGED <<index, assured, deaths>>

\* Mutant: the plan does not hold the digest of what was compared.
Unmoved_Unchecked(c) == TRUE
\* applyMutationPlan finds the digest of the plan.
Unmoved(c) == index = asks[c].was

\* applyMutationPlan, all of it.
Write(c) ==
  /\ asks[c].at = "writing"
  /\ IF Unmoved(c) THEN index' = Asked(asks[c].request, asks[c].was) /\ Moves(c, [asks[c] EXCEPT !.at = "answering"])
     ELSE UNCHANGED index /\ CallEnds(c)
  /\ UNCHANGED <<assured, deaths>>

\* The view of the session is sent.
TellWindow(c) == /\ asks[c].at = "answering" /\ CallEnds(c) /\ Assure(asks[c].request)
           /\ UNCHANGED <<index, deaths>>

\* The server dies, and with it every request in flight.
ServerDies ==
  /\ deaths < MaxStudioDeaths /\ deaths' = deaths + 1
  /\ asks' = [c \in Calls |-> NoRequest]
  /\ UNCHANGED <<index, assured>>

StudioNext == ServerDies \/ \E c \in Calls : ReadSessions(c) \/ Compare(c) \/ Write(c) \/ TellWindow(c)

StudioSpec == StudioInit /\ [][StudioNext]_studioVars

-----------------------------------------------------------------------------
\* The types of the state (SessionIndex).
StudioTypeOK ==
  /\ \A s \in Definitions : index[s] # NoSession =>
       \A e \in ToSet(index[s]) : e.id \in Ids /\ e.does \in Deeds
  /\ \A c \in Calls : asks[c].at \in {"idle", "comparing", "writing", "answering"}

\* What a window was told is so for good: the session is in the file, and its event was
\* recorded there, once and as asked, whoever else wrote the file in between.
ToldIsRecorded ==
  \A t \in assured :
    /\ index[t.session] # NoSession
    /\ t.id # "start" => Cardinality({n \in DOMAIN index[t.session] : index[t.session][n].id = t.id}) = 1
                         /\ Same(t, index[t.session])

\* Every event was made for the revision it became: nobody acted on a session they had
\* not seen, and each item ended once, and the close came last.
SeenIsDone ==
  \A s \in Definitions : index[s] # NoSession =>
    LET log == index[s] IN
    /\ \A n \in DOMAIN log : log[n].revision = n - 1
    /\ \A m, n \in DOMAIN log : log[m].does = log[n].does \/ log[m].id = log[n].id => m = n
    /\ \A n \in DOMAIN log : log[n].does = Close => n = Cardinality(Items) + 1

\* The sessions of the studio.
StudioHolds == StudioTypeOK /\ ToldIsRecorded /\ SeenIsDone
=============================================================================
