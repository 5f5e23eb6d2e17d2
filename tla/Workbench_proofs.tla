-------------------------- MODULE Workbench_proofs --------------------------
(***************************************************************************)
(* What holds of the studio's sessions for any number of items, sessions   *)
(* and request ids; of the gauntlet's reports and promotions for any       *)
(* trees, databases and gates; and of a search and of the battery row for  *)
(* any corpus, batteries and answers.                                      *)
(***************************************************************************)
EXTENDS MCWorkbench, FiniteSetTheorems, FunctionTheorems, SequenceTheorems, TLAPS

-----------------------------------------------------------------------------
(* The sessions of the studio *)

StudioEvents == [id : Ids, does : Deeds, revision : Nat]
SessionLogs == Seq(StudioEvents)
Indexes == [Definitions -> SessionLogs \cup {NoSession}]
StudioRequests == [session : Definitions, id : Ids \cup {"start"}, does : Deeds, revision : Nat]
Asking == [at : {"comparing", "writing", "answering"}, request : StudioRequests, was : Indexes]
Facts == [session : Definitions, id : Ids \cup {"start"}, does : Deeds]

StudioTyped ==
  /\ index \in Indexes
  /\ asks \in [Calls -> Asking \cup {NoRequest}]
  /\ assured \subseteq Facts

\* A log that reads as it was made: SeenIsDone of one session.
GoodLog(l) ==
  /\ \A n \in DOMAIN l : l[n].revision = n - 1
  /\ \A m, n \in DOMAIN l : l[m].does = l[n].does \/ l[m].id = l[n].id => m = n
  /\ \A n \in DOMAIN l : l[n].does = Close => n = Cardinality(Items) + 1

\* A fact that the file x states.
Stands(t, x) == x[t.session] # NoSession /\ (t.id # "start" => Same(t, x[t.session]))

\* A request that was decided to be written, on what the file said then.
Decided(q, was) == /\ q.id = "start" => was[q.session] = NoSession
                   /\ q.id # "start" => was[q.session] # NoSession /\ ~Refused(q, was[q.session])

StudioInv ==
  /\ StudioTyped
  /\ \A s \in Definitions : index[s] # NoSession => GoodLog(index[s])
  /\ \A t \in assured : Stands(t, index)
  /\ \A c \in Calls : asks[c].at \in {"comparing", "writing"} => Decided(asks[c].request, asks[c].was)
  /\ \A c \in Calls : asks[c].at = "answering" => Stands(asks[c].request, index)

LEMMA LogsAreNot == \A l \in SessionLogs : l # NoSession
BY StudioAssumption DEF SessionLogs, StudioEvents

LEMMA InLog == ASSUME NEW l \in SessionLogs
               PROVE  \A e : e \in ToSet(l) <=> \E n \in DOMAIN l : l[n] = e
BY DEF ToSet

LEMMA LogTyped == ASSUME NEW l \in SessionLogs
                  PROVE  /\ Len(l) \in Nat /\ DOMAIN l = 1..Len(l)
                         /\ \A n \in 1..Len(l) : l[n] \in StudioEvents
<1>1. Len(l) \in Nat /\ DOMAIN l = 1..Len(l)
  BY LenProperties DEF SessionLogs
<1>2. \A n \in 1..Len(l) : l[n] \in StudioEvents
  BY ElementOfSeq DEF SessionLogs
<1> QED BY <1>1, <1>2

\* What a log that does not hold the close says of every item, in some order, it says
\* in as many events as there are items.
LEMMA AllItemsDone ==
  ASSUME NEW l \in SessionLogs, GoodLog(l),
         \A n \in DOMAIN l : l[n].does # Close,
         \A i \in Items : \E n \in DOMAIN l : l[n].does = i
  PROVE  Len(l) = Cardinality(Items)
<1>1. Len(l) \in Nat /\ DOMAIN l = 1..Len(l) /\ \A n \in 1..Len(l) : l[n].does \in Items
  <2>1. \A n \in 1..Len(l) : l[n] \in StudioEvents
    BY LogTyped
  <2> QED BY <2>1, LogTyped DEF StudioEvents, Deeds
<1> DEFINE f == [n \in 1..Len(l) |-> l[n].does]
<1>2. f \in [1..Len(l) -> Items]
  BY <1>1
<1>3. \A m, n \in 1..Len(l) : f[m] = f[n] => m = n
  BY <1>1 DEF GoodLog
<1>4. \A i \in Items : \E n \in 1..Len(l) : f[n] = i
  BY <1>1
<1> HIDE DEF f
<1>5. f \in Bijection(1..Len(l), Items)
  BY <1>2, <1>3, <1>4 DEF Bijection, Injection, Surjection, IsInjective
<1>6. ExistsBijection(1..Len(l), Items)
  BY <1>5 DEF ExistsBijection
<1>7. IsFiniteSet(1..Len(l)) /\ Cardinality(1..Len(l)) = Len(l)
  BY <1>1, FS_Interval
<1> QED BY <1>6, <1>7, FS_Bijection

\* A deed that may be recorded keeps the log good.
LEMMA AppendGood ==
  ASSUME NEW l \in SessionLogs, GoodLog(l), NEW q \in StudioRequests, q.id # "start", ~Refused(q, l)
  PROVE  LET e == [id |-> q.id, does |-> q.does, revision |-> q.revision] IN
         /\ e \in StudioEvents /\ Append(l, e) \in SessionLogs /\ GoodLog(Append(l, e))
         /\ ToSet(l) \subseteq ToSet(Append(l, e)) /\ e \in ToSet(Append(l, e))
<1> DEFINE e == [id |-> q.id, does |-> q.does, revision |-> q.revision]
           k == Append(l, e)
<1>1. /\ Len(l) \in Nat /\ DOMAIN l = 1..Len(l)
      /\ \A n \in 1..Len(l) : l[n] \in StudioEvents
  BY LogTyped
<1>2. e \in StudioEvents
  BY DEF StudioRequests, StudioEvents
<1>3. e.id = q.id /\ e.does = q.does /\ e.revision = q.revision
  OBVIOUS
<1> HIDE DEF e
<1>4. /\ k \in SessionLogs /\ Len(k) = Len(l) + 1 /\ DOMAIN k = 1..Len(l) + 1
      /\ \A n \in 1..Len(l) : k[n] = l[n]
      /\ k[Len(l) + 1] = e
  BY <1>1, <1>2, AppendProperties, LenProperties DEF SessionLogs
<1> HIDE DEF k
<1>5. /\ ~Recorded(q, l) /\ q.revision = Len(l) /\ Foldable(l, q.does)
  BY DEF Refused
<1>6. /\ \A n \in DOMAIN l : l[n].id # q.id /\ l[n].does # q.does /\ l[n].does # Close
      /\ q.does = Close => \A i \in Items : \E n \in DOMAIN l : l[n].does = i
  BY <1>5, InLog DEF Recorded, Foldable
<1>7. \A n \in DOMAIN k : k[n].revision = n - 1
  <2> SUFFICES ASSUME NEW n \in 1..Len(l) + 1 PROVE k[n].revision = n - 1
    BY <1>4
  <2>1. CASE n = Len(l) + 1
    BY <2>1, <1>1, <1>3, <1>4, <1>5
  <2>2. CASE n \in 1..Len(l)
    BY <2>2, <1>1, <1>4 DEF GoodLog
  <2> QED BY <2>1, <2>2, <1>1
<1>8. \A m, n \in DOMAIN k : k[m].does = k[n].does \/ k[m].id = k[n].id => m = n
  <2> SUFFICES ASSUME NEW m \in 1..Len(l) + 1, NEW n \in 1..Len(l) + 1,
                      k[m].does = k[n].does \/ k[m].id = k[n].id
               PROVE  m = n
    BY <1>4
  <2>1. CASE m \in 1..Len(l) /\ n \in 1..Len(l)
    BY <2>1, <1>1, <1>4 DEF GoodLog
  <2>2. CASE m = Len(l) + 1 /\ n \in 1..Len(l)
    BY <2>2, <1>1, <1>3, <1>4, <1>6
  <2>3. CASE n = Len(l) + 1 /\ m \in 1..Len(l)
    BY <2>3, <1>1, <1>3, <1>4, <1>6
  <2> QED BY <2>1, <2>2, <2>3, <1>1
<1>9. \A n \in DOMAIN k : k[n].does = Close => n = Cardinality(Items) + 1
  <2> SUFFICES ASSUME NEW n \in 1..Len(l) + 1, k[n].does = Close PROVE n = Cardinality(Items) + 1
    BY <1>4
  <2>1. n = Len(l) + 1 /\ q.does = Close
    BY <1>1, <1>3, <1>4, <1>6
  <2> QED BY <2>1, <1>6, AllItemsDone
<1>10. ToSet(l) \subseteq ToSet(k) /\ e \in ToSet(k)
  <2>1. 1..Len(l) \subseteq DOMAIN k /\ Len(l) + 1 \in DOMAIN k
    BY <1>1, <1>4
  <2> QED BY <2>1, <1>1, <1>4 DEF ToSet
<1>11. GoodLog(k)
  BY <1>7, <1>8, <1>9 DEF GoodLog
<1> QED BY <1>2, <1>4, <1>10, <1>11 DEF k, e

-----------------------------------------------------------------------------
LEMMA StudioInvInit == StudioInit => StudioInv
<1> SUFFICES ASSUME StudioInit PROVE StudioInv
  OBVIOUS
<1>1. StudioTyped /\ \A s \in Definitions : index[s] = NoSession
  BY DEF StudioInit, StudioTyped, Indexes, Empty
<1>2. \A c \in Calls : asks[c].at = "idle"
  BY DEF StudioInit, NoRequest
<1> QED BY <1>1, <1>2 DEF StudioInv, StudioInit

\* Steps that leave the file alone.
LEMMA FileRests ==
  ASSUME StudioInv, index' = index, asks' \in [Calls -> Asking \cup {NoRequest}],
         NEW f, assured' \in {assured, {f}}, assured' = {f} => f \in Facts /\ Stands(f, index),
         \A c \in Calls : \/ asks'[c] = asks[c] \/ asks'[c] = NoRequest
                          \/ /\ asks'[c].at \in {"comparing", "writing"}
                             /\ Decided(asks'[c].request, asks'[c].was)
  PROVE  StudioInv'
<1>1. StudioTyped'
  BY DEF StudioInv, StudioTyped
<1>2. \A s \in Definitions : index'[s] # NoSession => GoodLog(index'[s])
  BY DEF StudioInv
<1>3. \A t \in assured' : Stands(t, index')
  BY DEF StudioInv
<1>4. \A c \in Calls : asks'[c].at \in {"comparing", "writing"} => Decided(asks'[c].request, asks'[c].was)
  BY DEF StudioInv, NoRequest
<1>5. \A c \in Calls : asks'[c].at = "answering" => Stands(asks'[c].request, index')
  BY DEF StudioInv, NoRequest
<1> QED BY <1>1, <1>2, <1>3, <1>4, <1>5 DEF StudioInv

LEMMA ReadSessionsInductive == ASSUME StudioInv, NEW c \in Calls, ReadSessions(c) PROVE StudioInv'
<1>1. index \in Indexes /\ asks \in [Calls -> Asking \cup {NoRequest}]
  BY DEF StudioInv, StudioTyped
<1>2. PICK q \in Sendable :
       \/ Repeats(q, index[q.session]) /\ Assure(q) /\ UNCHANGED asks
       \/ Refused(q, index[q.session]) /\ ~Repeats(q, index[q.session]) /\ UNCHANGED <<assured, asks>>
       \/ /\ ~Repeats(q, index[q.session]) /\ ~Refused(q, index[q.session])
          /\ Moves(c, [at |-> "comparing", request |-> q, was |-> index]) /\ UNCHANGED assured
  BY DEF ReadSessions
<1>3. /\ q \in StudioRequests
      /\ q.id # "start" => index[q.session] # NoSession
  <2>1. CASE q \in {[session |-> s, id |-> "start", does |-> Close, revision |-> 0] : s \in Definitions}
    BY <2>1 DEF StudioRequests, Deeds
  <2>2. ASSUME NEW s \in Definitions, index[s] # NoSession,
               q \in [session : {s}, id : Ids, does : Deeds, revision : 0..Len(index[s])]
        PROVE  q \in StudioRequests /\ index[q.session] # NoSession
    <3>1. index[s] \in SessionLogs
      BY <1>1, <2>2 DEF Indexes
    <3>2. Len(index[s]) \in Nat
      BY <3>1, LogTyped
    <3> QED BY <2>2, <3>2 DEF StudioRequests
  <2> QED BY <2>1, <2>2 DEF Sendable
<1>4. index' = index
  BY DEF ReadSessions
<1> DEFINE fact == [session |-> q.session, id |-> q.id, does |-> q.does]
<1>5. fact \in Facts /\ fact.session = q.session /\ fact.id = q.id /\ fact.does = q.does
  BY <1>3 DEF Facts, StudioRequests
<1>6. CASE Repeats(q, index[q.session]) /\ Assure(q) /\ UNCHANGED asks
  <2>1. Stands(fact, index)
    BY <1>3, <1>5, <1>6 DEF Stands, Repeats, Same
  <2>2. assured' \in {assured, {fact}}
    BY <1>6 DEF Assure
  <2> HIDE DEF fact
  <2> QED BY <2>1, <2>2, <1>1, <1>4, <1>5, <1>6, FileRests
<1>7. CASE UNCHANGED <<assured, asks>>
  BY <1>7, <1>1, <1>4, FileRests
<1>8. CASE /\ ~Repeats(q, index[q.session]) /\ ~Refused(q, index[q.session])
           /\ Moves(c, [at |-> "comparing", request |-> q, was |-> index]) /\ UNCHANGED assured
  <2> DEFINE new == [at |-> "comparing", request |-> q, was |-> index]
  <2>1. new \in Asking /\ new.at = "comparing" /\ new.request = q /\ new.was = index
    BY <1>1, <1>3 DEF Asking
  <2>2. Decided(q, index)
    BY <1>3, <1>8 DEF Decided, Repeats
  <2> HIDE DEF new
  <2>3. asks' = [asks EXCEPT ![c] = new]
    BY <1>8 DEF Moves, new
  <2> QED BY <2>1, <2>2, <2>3, <1>1, <1>4, <1>8, FileRests
<1> QED BY <1>2, <1>6, <1>7, <1>8

LEMMA CompareInductive == ASSUME StudioInv, NEW c \in Calls, Compare(c) PROVE StudioInv'
<1>1. /\ asks \in [Calls -> Asking \cup {NoRequest}] /\ asks[c].at = "comparing"
      /\ index' = index /\ assured' = assured /\ asks[c] \in Asking
  BY DEF StudioInv, StudioTyped, Compare, NoRequest
<1> DEFINE new == [asks[c] EXCEPT !.at = "writing"]
<1>2. new \in Asking /\ new.at = "writing" /\ new.request = asks[c].request /\ new.was = asks[c].was
  BY <1>1 DEF Asking
<1>3. Decided(asks[c].request, asks[c].was)
  BY <1>1 DEF StudioInv
<1>4. asks' = [asks EXCEPT ![c] = new] \/ asks' = [asks EXCEPT ![c] = NoRequest]
  BY DEF Compare, Moves
<1> HIDE DEF new
<1> QED BY <1>1, <1>2, <1>3, <1>4, FileRests

LEMMA WriteInductive == ASSUME StudioInv, NEW c \in Calls, Write(c) PROVE StudioInv'
<1>1. /\ index \in Indexes /\ asks \in [Calls -> Asking \cup {NoRequest}] /\ asks[c].at = "writing"
      /\ assured' = assured /\ asks[c] \in Asking /\ assured \subseteq Facts
  BY DEF StudioInv, StudioTyped, Write, NoRequest
<1> DEFINE q == asks[c].request
<1>2. q \in StudioRequests
  BY <1>1 DEF Asking
<1>3. CASE index # asks[c].was
  <2>1. index' = index /\ asks' = [asks EXCEPT ![c] = NoRequest]
    BY <1>3 DEF Write, Unmoved, CallEnds, Moves
  <2> QED BY <2>1, <1>1, FileRests
<1>4. CASE index = asks[c].was
  <2> DEFINE s == q.session
             e == [id |-> q.id, does |-> q.does, revision |-> q.revision]
             log == IF q.id = "start" THEN <<>> ELSE Append(index[s], e)
             new == [asks[c] EXCEPT !.at = "answering"]
  <2>1. index' = [index EXCEPT ![s] = log] /\ asks' = [asks EXCEPT ![c] = new]
    BY <1>4 DEF Write, Unmoved, Moves, Asked
  <2>2. new \in Asking /\ new.at = "answering" /\ new.request = q
    BY <1>1 DEF Asking
  <2>3. Decided(q, index)
    BY <1>1, <1>4 DEF StudioInv
  <2>4. s \in Definitions
    BY <1>2 DEF StudioRequests
  <2>5. /\ log \in SessionLogs /\ GoodLog(log) /\ log # NoSession
        /\ index[s] # NoSession => ToSet(index[s]) \subseteq ToSet(log)
        /\ q.id # "start" => e \in ToSet(log)
    <3>1. CASE q.id = "start"
      <4>1. log = <<>> /\ index[s] = NoSession
        BY <3>1, <2>3 DEF Decided
      <4>2. <<>> \in SessionLogs /\ GoodLog(<<>>)
        BY DEF SessionLogs, GoodLog
      <4> QED BY <4>1, <4>2, <3>1, LogsAreNot
    <3>2. CASE q.id # "start"
      <4>1. index[s] # NoSession /\ ~Refused(q, index[s]) /\ log = Append(index[s], e)
        BY <3>2, <2>3 DEF Decided
      <4>2. index[s] \in SessionLogs /\ GoodLog(index[s])
        BY <4>1, <2>4, <1>1 DEF Indexes, StudioInv
      <4> HIDE DEF log, s, q
      <4> QED BY <4>1, <4>2, <3>2, <1>2, AppendGood, LogsAreNot
    <3> QED BY <3>1, <3>2
  <2>6. e.id = q.id /\ e.does = q.does
    OBVIOUS
  <2> HIDE DEF new, log, e, s, q
  <2>7. /\ index' \in Indexes /\ index'[s] = log
        /\ \A x \in Definitions \ {s} : index'[x] = index[x]
    BY <2>1, <2>4, <2>5, <1>1 DEF Indexes
  <2>8. /\ asks' \in [Calls -> Asking \cup {NoRequest}] /\ asks'[c] = new
        /\ \A x \in Calls \ {c} : asks'[x] = asks[x]
    BY <2>1, <2>2, <1>1
  <2>9. ASSUME NEW t, t.session \in Definitions, Stands(t, index) PROVE Stands(t, index')
    <3>1. CASE t.session = s
      BY <3>1, <2>9, <2>5, <2>7 DEF Stands, Same
    <3>2. CASE t.session # s
      BY <3>2, <2>9, <2>7 DEF Stands
    <3> QED BY <3>1, <3>2
  <2>10. Stands(q, index')
    BY <2>5, <2>6, <2>7 DEF Stands, Same, s
  <2>11. StudioTyped'
    BY <2>7, <2>8, <1>1 DEF StudioTyped
  <2>12. \A x \in Definitions : index'[x] # NoSession => GoodLog(index'[x])
    BY <2>5, <2>7 DEF StudioInv
  <2>13. \A t \in assured' : Stands(t, index')
    BY <2>9, <1>1 DEF StudioInv, Facts
  <2>14. \A x \in Calls : asks'[x].at \in {"comparing", "writing"} => Decided(asks'[x].request, asks'[x].was)
    BY <2>2, <2>8 DEF StudioInv
  <2>15. ASSUME NEW x \in Calls, asks'[x].at = "answering" PROVE Stands(asks'[x].request, index')
    <3>1. CASE x = c
      BY <3>1, <2>2, <2>8, <2>10
    <3>2. CASE x # c
      <4>1. asks'[x] = asks[x] /\ asks[x] \in Asking /\ Stands(asks[x].request, index)
        BY <3>2, <2>8, <2>15, <1>1 DEF StudioInv, NoRequest
      <4>2. asks[x].request.session \in Definitions
        BY <4>1 DEF Asking, StudioRequests
      <4> QED BY <4>1, <4>2, <2>9
    <3> QED BY <3>1, <3>2
  <2> QED BY <2>11, <2>12, <2>13, <2>14, <2>15 DEF StudioInv
<1> QED BY <1>3, <1>4

LEMMA TellWindowInductive == ASSUME StudioInv, NEW c \in Calls, TellWindow(c) PROVE StudioInv'
<1> DEFINE q == asks[c].request
           fact == [session |-> q.session, id |-> q.id, does |-> q.does]
<1>1. /\ asks \in [Calls -> Asking \cup {NoRequest}] /\ asks[c].at = "answering"
      /\ index' = index /\ asks[c] \in Asking /\ Stands(q, index)
  BY DEF StudioInv, StudioTyped, TellWindow, NoRequest
<1>2. q \in StudioRequests
  BY <1>1 DEF Asking
<1>3. fact \in Facts /\ fact.session = q.session /\ fact.id = q.id /\ fact.does = q.does
  BY <1>2 DEF Facts, StudioRequests
<1>4. assured' \in {assured, {fact}} /\ asks' = [asks EXCEPT ![c] = NoRequest]
  BY DEF TellWindow, CallEnds, Moves, Assure
<1> HIDE DEF fact
<1>5. Stands(fact, index)
  BY <1>1, <1>3 DEF Stands, Same
<1> QED BY <1>1, <1>3, <1>4, <1>5, FileRests

LEMMA StudioInductive == StudioInv /\ [StudioNext]_studioVars => StudioInv'
<1> SUFFICES ASSUME StudioInv, [StudioNext]_studioVars PROVE StudioInv'
  OBVIOUS
<1>1. asks \in [Calls -> Asking \cup {NoRequest}]
  BY DEF StudioInv, StudioTyped
<1>2. CASE ServerDies
  BY <1>1, <1>2, FileRests DEF ServerDies
<1>3. CASE UNCHANGED studioVars
  BY <1>1, <1>3, FileRests DEF studioVars
<1> QED BY <1>2, <1>3, ReadSessionsInductive, CompareInductive, WriteInductive, TellWindowInductive DEF StudioNext

LEMMA StudioInvHolds == StudioInv => StudioHolds
<1> SUFFICES ASSUME StudioInv PROVE StudioHolds
  OBVIOUS
<1>1. index \in Indexes /\ asks \in [Calls -> Asking \cup {NoRequest}] /\ assured \subseteq Facts
  BY DEF StudioInv, StudioTyped
<1>2. StudioTypeOK
  <2>1. ASSUME NEW s \in Definitions, index[s] # NoSession, NEW e \in ToSet(index[s])
        PROVE  e.id \in Ids /\ e.does \in Deeds
    <3>1. index[s] \in SessionLogs
      BY <1>1, <2>1 DEF Indexes
    <3>2. e \in StudioEvents
      BY <3>1, InLog, LogTyped
    <3> QED BY <3>2 DEF StudioEvents
  <2>2. \A c \in Calls : asks[c].at \in {"idle", "comparing", "writing", "answering"}
    BY <1>1 DEF Asking, NoRequest
  <2> QED BY <2>1, <2>2 DEF StudioTypeOK
<1>3. SeenIsDone
  BY DEF StudioInv, GoodLog, SeenIsDone
<1>4. ToldIsRecorded
  <2> SUFFICES ASSUME NEW t \in assured
               PROVE  /\ index[t.session] # NoSession
                      /\ t.id # "start" => Cardinality({n \in DOMAIN index[t.session] : index[t.session][n].id = t.id}) = 1
                                           /\ Same(t, index[t.session])
    BY DEF ToldIsRecorded
  <2>1. Stands(t, index) /\ t.session \in Definitions
    BY <1>1 DEF StudioInv, Facts
  <2> DEFINE l == index[t.session]
             N == {n \in DOMAIN l : l[n].id = t.id}
  <2>2. l \in SessionLogs /\ GoodLog(l)
    BY <2>1, <1>1 DEF Indexes, StudioInv, Stands
  <2>3. ASSUME t.id # "start" PROVE Cardinality(N) = 1
    <3>1. PICK n \in DOMAIN l : l[n].id = t.id
      BY <2>1, <2>2, <2>3, InLog DEF Stands, Same
    <3>2. N = {n}
      BY <3>1, <2>2 DEF GoodLog
    <3> HIDE DEF N
    <3> QED BY <3>2, FS_Singleton
  <2> QED BY <2>1, <2>3 DEF Stands
<1> QED BY <1>2, <1>3, <1>4 DEF StudioHolds

\* Whatever requests come in and whichever of them are repeated, overtaken or cut off by a
\* death: what a caller was told of a session stays in its file, once and under its own id,
\* and a closed session has every item (studioOperations.ts).
THEOREM StudioKeepsItsWord == StudioSpec => []StudioHolds
<1>1. StudioSpec => []StudioInv
  BY StudioInvInit, StudioInductive, PTL DEF StudioSpec
<1> QED BY <1>1, StudioInvHolds, PTL

-----------------------------------------------------------------------------
(* The gauntlet *)

Databases == Targets \cup {Corpus}
Fixtures == {"pending", "active"}
Baselines == {"reviewed", "rewritten"}
Identities == [tree : Trees, fixture : Fixtures, baseline : Baselines]
Sights == [tree : Trees, fixture : Fixtures]
Readings == [main : Sights, gates : Sights, baseline : Baselines, db : Databases]
RunPoints == {"resolved", "marked", "loaded", "opened", "measured", "judged", "reported"}
RunRecords == [pc : RunPoints, pid : 1..MaxRuns, opts : Options, start : Identities,
               target : Databases, saw : Readings]

InputsTyped ==
  /\ tree \in Trees /\ fixture \in Fixtures /\ baseline \in Baselines /\ target \in Targets
  /\ runs \in 0..MaxRuns /\ turns \in {0, 1, 2}
RunTyped == Running => run \in RunRecords

\* What the run read of the repository is what it recorded at its start.
AsRecorded(r, point) ==
  LET was == [tree |-> r.start.tree, fixture |-> r.start.fixture] IN
  /\ point \notin {"resolved", "marked"} => r.saw.main = was
  /\ point \in {"opened", "measured", "judged", "reported"} => r.saw.baseline = r.start.baseline
  /\ point \in {"measured", "judged", "reported"} => r.saw.gates = was

Ended == {"judged", "reported"}
OnDatabase == {"opened", "measured", "judged", "reported"}

\* One change since the start can be of the database that was put in place; if the
\* repository reads as it did at the start, so did all that was read meanwhile.
RunMeasures ==
  Running =>
    /\ run.pc \notin Ended /\ turns = 0 => run.start = Identity
    /\ run.pc \notin Ended /\ turns < 2 /\ run.start = Identity => AsRecorded(run, run.pc)
    /\ run.pc \in Ended /\ turns < 2 => AsRecorded(run, run.pc)
    /\ run.pc \in OnDatabase => Triple[run.saw.db] = Triple[run.target]
    /\ run.target = Corpus <=> ~run.opts.target
    /\ run.pc \in OnDatabase => (run.saw.db = Corpus <=> ~run.opts.target)

\* The baseline of a run that does not replace it can only become the reviewed one again.
BaselineKept ==
  Running /\ ~run.opts.update =>
    /\ run.pc \notin {"resolved"} \cup Ended => (run.start.baseline = "reviewed" => baseline = "reviewed")
    /\ run.pc \in {"opened", "measured"} =>
         /\ run.start.baseline = "reviewed" => run.saw.baseline = "reviewed"
         /\ baseline = "rewritten" => run.saw.baseline = "rewritten"
    /\ run.pc \in Ended => run.saw.baseline = run.start.baseline

\* A run that replaced it sees it replaced, unless it was reviewed meanwhile.
BaselineReplaced ==
  Running /\ run.opts.update =>
    /\ run.pc \in {"opened", "measured"} => turns > 0 /\ (turns = 1 => baseline = "rewritten")
    /\ run.pc \in Ended /\ turns < 2 => run.start.baseline # "reviewed"

MarkersBear ==
  /\ \A m \in markers : m.pid \in 1..MaxRuns
  /\ Running /\ run.pc # "resolved" => [pid |-> run.pid, identity |-> run.start] \in markers

\* A report says what its run read.
ReportTells ==
  report.digest # 0 =>
    /\ report.rows = GateRows(report.saw) /\ report.saw \in Readings /\ report.identity \in Identities
    /\ report.target \in Databases /\ Triple[report.saw.db] = Triple[report.target]
    /\ report.saw.baseline = report.identity.baseline
    /\ ~report.turned => AsRecorded([start |-> report.identity, saw |-> report.saw], "reported")

PromotionProven ==
  /\ promotion.pc \in {"idle", "reviewed", "requested", "locked"}
  /\ PromotedIsProven

GauntletInv ==
  /\ InputsTyped /\ RunTyped /\ RunMeasures /\ BaselineKept /\ BaselineReplaced
  /\ MarkersBear /\ ReportTells /\ PromotionProven

-----------------------------------------------------------------------------
\* The row of the gate on the golden fixtures.
LEMMA CorpusRowIs ==
  ASSUME NEW f \in Fixtures, NEW t, NEW db
  PROVE  LET gateRow == CorpusGate(f, t, db)
             holds == <<t, db>> \in Holding
             vacuous == <<t, db>> \in Vacuous
         IN /\ gateRow.gate = "corpus" /\ gateRow.status \in {"fail", "warn", "pass"}
            /\ gateRow.status = "fail" <=> f = "active" /\ ~holds
            /\ holds /\ vacuous => gateRow.status = "warn"
            /\ gateRow.candidate <=> f = "pending" /\ holds /\ ~vacuous
            /\ gateRow.findings = {x \in {"debt", "vacuous"} : IF x = "debt" THEN f = "pending" /\ ~holds ELSE vacuous}
BY DEF CorpusGate, GateRow, Fixtures

LEMMA CoverageRowIs ==
  ASSUME NEW f
  PROVE  LET gateRow == CoverageGate(f) IN
         /\ gateRow.gate = "coverage" /\ gateRow.status \in {"fail", "pass"} /\ gateRow.findings = {} /\ ~gateRow.candidate
         /\ gateRow.status = "fail" <=> f # "active"
BY DEF CoverageGate, GateRow

LEMMA MergedIs ==
  ASSUME NEW gate, NEW x, NEW y
  PROVE  LET gateRow == Merged(gate, {x, y}) IN
         /\ gateRow.gate = gate /\ gateRow.findings = x.findings \cup y.findings
         /\ gateRow.candidate <=> (x.candidate \/ y.candidate) /\ (x.status = "fail" => x.gate = "coverage")
                              /\ (y.status = "fail" => y.gate = "coverage")
         /\ x.status = "fail" \/ y.status = "fail" <=> gateRow.status = "fail"
         /\ x.status # "fail" /\ y.status = "warn" => gateRow.status = "warn"
<1> DEFINE R == {x, y}
           gateRow == Merged(gate, R)
<1>1. /\ gateRow.gate = gate /\ gateRow.findings = UNION {r.findings : r \in R}
      /\ gateRow.candidate = Candidates(R)
      /\ gateRow.status = IF \E r \in R : r.status = "fail" THEN "fail"
                      ELSE IF \E r \in R : r.status = "warn" THEN "warn"
                      ELSE IF {r.status : r \in R} = {"not-applicable"} THEN "not-applicable" ELSE "pass"
  BY DEF Merged
<1>2. UNION {r.findings : r \in R} = x.findings \cup y.findings
  OBVIOUS
<1>3. Candidates(R) <=> (x.candidate \/ y.candidate) /\ (x.status = "fail" => x.gate = "coverage")
                              /\ (y.status = "fail" => y.gate = "coverage")
  BY DEF Candidates
<1>4. (\E r \in R : r.status = "fail") <=> x.status = "fail" \/ y.status = "fail"
  OBVIOUS
<1>5. (\E r \in R : r.status = "warn") <=> x.status = "warn" \/ y.status = "warn"
  OBVIOUS
<1> HIDE DEF gateRow, R
<1>6. x.status = "fail" \/ y.status = "fail" <=> gateRow.status = "fail"
  BY <1>1, <1>4
<1>7. x.status # "fail" /\ y.status = "warn" => gateRow.status = "warn"
  BY <1>1, <1>4, <1>5
<1>8. gateRow.candidate <=> (x.candidate \/ y.candidate) /\ (x.status = "fail" => x.gate = "coverage")
                              /\ (y.status = "fail" => y.gate = "coverage")
  BY <1>1, <1>3
<1> QED BY <1>1, <1>2, <1>6, <1>7, <1>8 DEF gateRow, R

\* A candidate that a run reports is one the golden fixtures bear out.
LEMMA CandidateHolds ==
  ASSUME NEW saw \in Readings, NEW r \in GateRows(saw), r.gate = "G3", r.candidate
  PROVE  saw.gates.fixture = "pending" /\ <<saw.gates.tree, saw.db>> \in Holding \ Vacuous
<1> DEFINE cover == CoverageGate(saw.main.fixture)
           golden == CorpusGate(saw.gates.fixture, saw.gates.tree, saw.db)
<1>1. r \in {Merged("G3", {cover, golden}), NoiseGate(saw.baseline), BatteryGate(saw.db), OtherGate(saw.main.tree)}
  BY DEF GateRows
<1>2. NoiseGate(saw.baseline).gate = "G8" /\ OtherGate(saw.main.tree).gate = "other"
  BY DEF NoiseGate, OtherGate, GateRow
<1>3. BatteryGate(saw.db).gate = "G12"
  BY DEF BatteryGate, GateRow
<1>4. r = Merged("G3", {cover, golden})
  BY <1>1, <1>2, <1>3
<1>5. ~cover.candidate
  BY CoverageRowIs
<1>6. golden.candidate <=> saw.gates.fixture = "pending" /\ <<saw.gates.tree, saw.db>> \in Holding
                           /\ ~(<<saw.gates.tree, saw.db>> \in Vacuous)
  BY CorpusRowIs DEF Readings, Sights
<1> HIDE DEF cover, golden
<1>7. golden.candidate
  BY <1>4, <1>5, MergedIs
<1> QED BY <1>6, <1>7

\* What a strict exit with success says of what was read.
LEMMA SuccessSays ==
  ASSUME NEW saw \in Readings, NEW effectless \in BOOLEAN, NEW o \in Options, o.admit,
         ExitCode(Verdict(GateRows(saw), effectless), o, PendingDebtOnly(GateRows(saw))) = 0
  PROVE  /\ saw.main.tree \notin Failing /\ saw.baseline = "reviewed"
         /\ saw.main.fixture = "active"
         /\ saw.gates.fixture = "active" => <<saw.gates.tree, saw.db>> \in Holding
         /\ saw.db # Corpus => saw.db \in Unharmed
         /\ IF effectless THEN o.claim
            ELSE saw.main.tree \notin Warned
                 /\ (saw.gates.fixture = "active" => <<saw.gates.tree, saw.db>> \notin Vacuous)
<1> DEFINE cover == CoverageGate(saw.main.fixture)
           golden == CorpusGate(saw.gates.fixture, saw.gates.tree, saw.db)
           merged == Merged("G3", {cover, golden})
           noise == NoiseGate(saw.baseline)
           batteryRow == BatteryGate(saw.db)
           other == OtherGate(saw.main.tree)
           rows == GateRows(saw)
           verdict == Verdict(rows, effectless)
<1>1. rows = {merged, noise, batteryRow, other}
  BY DEF GateRows
<1>2. /\ noise.gate = "G8" /\ noise.required
      /\ noise.status = IF saw.baseline = "reviewed" THEN "pass" ELSE "fail"
  BY DEF NoiseGate, GateRow
<1>3. saw.db # Corpus => batteryRow.status = IF saw.db \in Unharmed THEN "pass" ELSE "fail"
  BY DEF BatteryGate, GateRow
<1>4. /\ other.gate = "other"
      /\ other.status = IF saw.main.tree \in Failing THEN "fail"
                        ELSE IF saw.main.tree \in Warned THEN "warn" ELSE "pass"
  BY DEF OtherGate, GateRow
<1>5. cover.status = "fail" <=> saw.main.fixture # "active"
  BY CoverageRowIs
<1>6. cover.findings = {}
  BY CoverageRowIs
<1>7. /\ golden.status = "fail" <=> saw.gates.fixture = "active" /\ ~(<<saw.gates.tree, saw.db>> \in Holding)
      /\ <<saw.gates.tree, saw.db>> \in Holding /\ <<saw.gates.tree, saw.db>> \in Vacuous => golden.status = "warn"
      /\ golden.findings = {x \in {"debt", "vacuous"} :
                              IF x = "debt" THEN saw.gates.fixture = "pending" /\ ~(<<saw.gates.tree, saw.db>> \in Holding)
                              ELSE <<saw.gates.tree, saw.db>> \in Vacuous}
  BY CorpusRowIs DEF Readings, Sights
<1> HIDE DEF cover, golden, noise, batteryRow, other
<1>8. /\ merged.gate = "G3" /\ merged.findings = cover.findings \cup golden.findings
      /\ cover.status = "fail" \/ golden.status = "fail" <=> merged.status = "fail"
      /\ cover.status # "fail" /\ golden.status = "warn" => merged.status = "warn"
  BY MergedIs
<1> HIDE DEF merged
<1>9. verdict = IF \E r \in rows : r.status = "fail" \/ (r.status = "not-applicable" /\ r.required) THEN "REJECT"
                ELSE IF effectless THEN "NO_MEASURABLE_EFFECT"
                ELSE IF \E r \in rows : r.status = "warn" THEN "ADMIT_WITH_WARNINGS" ELSE "ADMIT"
  BY DEF Verdict
<1> HIDE DEF rows, verdict
<1>10. verdict # "REJECT"
  <2> SUFFICES ASSUME verdict = "REJECT" PROVE FALSE
    OBVIOUS
  <2>1. ExitCode(verdict, o, PendingDebtOnly(rows)) = 1
    BY DEF ExitCode
  <2> QED BY <2>1 DEF verdict, rows
<1>11. \A r \in rows : r.status # "fail"
  BY <1>9, <1>10
<1>12. /\ merged.status # "fail" /\ noise.status # "fail" /\ batteryRow.status # "fail" /\ other.status # "fail"
  BY <1>1, <1>11
<1>13. /\ saw.main.tree \notin Failing /\ saw.baseline = "reviewed"
       /\ saw.main.fixture = "active"
       /\ saw.gates.fixture = "active" => <<saw.gates.tree, saw.db>> \in Holding
       /\ saw.db # Corpus => saw.db \in Unharmed
  BY <1>2, <1>3, <1>4, <1>5, <1>7, <1>8, <1>12
<1>14. CASE effectless
  <2>1. verdict = "NO_MEASURABLE_EFFECT"
    BY <1>9, <1>10, <1>14
  <2>2. ExitCode(verdict, o, PendingDebtOnly(rows)) = IF o.admit /\ ~o.claim THEN 1 ELSE 0
    BY <2>1 DEF ExitCode
  <2>3. o.claim
    BY <2>2 DEF verdict, rows
  <2> QED BY <2>3, <1>13, <1>14
<1>15. CASE ~effectless
  <2>1. ASSUME NEW r \in rows, r.status = "warn" PROVE r.gate = "G3" /\ r.findings = {"debt"}
    <3>1. verdict = "ADMIT_WITH_WARNINGS"
      BY <1>9, <1>10, <1>15, <2>1
    <3>2. ExitCode(verdict, o, PendingDebtOnly(rows)) = IF o.admit /\ ~(o.debt /\ PendingDebtOnly(rows)) THEN 1 ELSE 0
      BY <3>1 DEF ExitCode
    <3>3. PendingDebtOnly(rows)
      BY <3>2 DEF verdict, rows
    <3> QED BY <3>3, <2>1 DEF PendingDebtOnly
  <2>2. saw.main.tree \notin Warned
    BY <2>1, <1>1, <1>4, <1>13
  <2>3. ASSUME saw.gates.fixture = "active", <<saw.gates.tree, saw.db>> \in Vacuous PROVE FALSE
    <3>1. merged.status = "warn"
      BY <2>3, <1>5, <1>7, <1>8, <1>13
    <3>2. merged.findings = {"debt"}
      BY <3>1, <2>1, <1>1
    <3>3. "vacuous" \in golden.findings
      BY <2>3, <1>7
    <3> QED BY <3>2, <3>3, <1>8
  <2> QED BY <2>2, <2>3, <1>13, <1>15
<1> QED BY <1>14, <1>15
-----------------------------------------------------------------------------
LEMMA GauntletStarts ==
  ASSUME GauntletInit
  PROVE  GauntletInv
BY GauntletAssumption DEF GauntletInit, GauntletInv, InputsTyped, RunTyped, RunMeasures, BaselineKept,
   BaselineReplaced, MarkersBear, ReportTells, PromotionProven, PromotedIsProven, Running, NoRun, NoReport,
   NoPromotion, Fixtures, Baselines

LEMMA QuietKeeps ==
  ASSUME GauntletInv, UNCHANGED gauntletVars
  PROVE  GauntletInv'
BY DEF GauntletInv, gauntletVars, InputsTyped, RunTyped, RunMeasures, BaselineKept, BaselineReplaced,
   MarkersBear, ReportTells, PromotionProven, PromotedIsProven, Running, Identity, AsRecorded

\* What a report and a promotion that stay said, they say.
LEMMA ReportStays ==
  ASSUME ReportTells, UNCHANGED report
  PROVE  ReportTells'
BY DEF ReportTells, AsRecorded

LEMMA PromotionStays ==
  ASSUME PromotionProven, UNCHANGED promotion
  PROVE  PromotionProven'
BY DEF PromotionProven, PromotedIsProven

\* A run that ends takes its claims with it; markers only go.
LEMMA EndKeeps ==
  ASSUME MarkersBear, run' = NoRun, markers' \subseteq markers
  PROVE  RunTyped' /\ RunMeasures' /\ BaselineKept' /\ BaselineReplaced' /\ MarkersBear'
BY DEF MarkersBear, RunTyped, RunMeasures, BaselineKept, BaselineReplaced, Running, NoRun

LEMMA ResolveKeeps ==
  ASSUME GauntletInv, Resolve
  PROVE  GauntletInv'
<1> USE DEF GauntletInv
<1>1. InputsTyped'
  BY GauntletAssumption DEF Resolve, RunOnly, Options, InputsTyped, Running, Fixtures, Baselines
<1>2. RunTyped'
  BY GauntletAssumption DEF Resolve, RunOnly, Options, InputsTyped, RunTyped, Running, Seen,
     Identity, Databases, Fixtures, Baselines, Identities, Sights, Readings, RunPoints, RunRecords
<1>3. RunMeasures'
  BY GauntletAssumption DEF Resolve, RunOnly, Options, RunMeasures, RunTyped, RunRecords, Readings,
     InputsTyped, Running, AsRecorded, Ended, OnDatabase, Seen, Identity
<1>4. BaselineKept'
  BY GauntletAssumption DEF Resolve, RunOnly, Options, BaselineKept, RunTyped, RunRecords, Readings,
     InputsTyped, Running, Ended, Identity, Baselines
<1>5. BaselineReplaced'
  BY GauntletAssumption DEF Resolve, RunOnly, Options, BaselineReplaced, RunMeasures, RunTyped,
     RunRecords, InputsTyped, Running, Ended, Identity
<1>6. MarkersBear'
  BY GauntletAssumption DEF Resolve, RunOnly, Options, MarkersBear, RunTyped, RunRecords,
     InputsTyped, Running, Identity
<1>7. ReportTells'
  BY ReportStays DEF Resolve, RunOnly
<1>8. PromotionProven'
  BY PromotionStays DEF Resolve, RunOnly
<1> QED BY <1>1, <1>2, <1>3, <1>4, <1>5, <1>6, <1>7, <1>8

LEMMA WriteMarkerKeeps ==
  ASSUME GauntletInv, WriteMarker
  PROVE  GauntletInv'
<1> USE DEF GauntletInv
<1>1. InputsTyped'
  BY DEF WriteMarker, RunOnly, InputsTyped, Running, Fixtures, Baselines
<1>2. RunTyped'
  BY DEF WriteMarker, RunOnly, InputsTyped, RunTyped, Running, Seen, Identity, Databases, Fixtures,
     Baselines, Identities, Sights, Readings, RunPoints, RunRecords
<1>3. RunMeasures'
  BY DEF WriteMarker, RunOnly, RunMeasures, RunTyped, RunRecords, Readings, InputsTyped, Running,
     AsRecorded, Ended, OnDatabase, Seen, Identity
<1>4. BaselineKept'
  BY DEF WriteMarker, RunOnly, BaselineKept, RunTyped, RunRecords, Readings, InputsTyped, Running,
     Ended, Identity, Baselines
<1>5. BaselineReplaced'
  BY DEF WriteMarker, RunOnly, BaselineReplaced, RunMeasures, RunTyped, RunRecords, InputsTyped,
     Running, Ended, Identity
<1>6. MarkersBear'
  BY DEF WriteMarker, RunOnly, MarkersBear, RunTyped, RunRecords, InputsTyped, Running, Identity
<1>7. ReportTells'
  BY ReportStays DEF WriteMarker, RunOnly
<1>8. PromotionProven'
  BY PromotionStays DEF WriteMarker, RunOnly
<1> QED BY <1>1, <1>2, <1>3, <1>4, <1>5, <1>6, <1>7, <1>8

LEMMA LoadInputsKeeps ==
  ASSUME GauntletInv, LoadInputs
  PROVE  GauntletInv'
<1> USE DEF GauntletInv
<1>1. InputsTyped'
  BY DEF LoadInputs, RunOnly, InputsTyped, Running, Fixtures, Baselines
<1>2. RunTyped'
  BY DEF LoadInputs, RunOnly, InputsTyped, RunTyped, Running, Seen, Identity, Databases, Fixtures,
     Baselines, Identities, Sights, Readings, RunPoints, RunRecords
<1>3. RunMeasures'
  BY DEF LoadInputs, RunOnly, RunMeasures, RunTyped, RunRecords, Readings, InputsTyped, Running,
     AsRecorded, Ended, OnDatabase, Seen, Identity
<1>4. BaselineKept'
  BY DEF LoadInputs, RunOnly, BaselineKept, RunTyped, RunRecords, Readings, InputsTyped, Running,
     Ended, Identity, Baselines
<1>5. BaselineReplaced'
  BY DEF LoadInputs, RunOnly, BaselineReplaced, RunMeasures, RunTyped, RunRecords, InputsTyped,
     Running, Ended, Identity
<1>6. MarkersBear'
  BY DEF LoadInputs, RunOnly, MarkersBear, RunTyped, RunRecords, InputsTyped, Running, Identity
<1>7. ReportTells'
  BY ReportStays DEF LoadInputs, RunOnly
<1>8. PromotionProven'
  BY PromotionStays DEF LoadInputs, RunOnly
<1> QED BY <1>1, <1>2, <1>3, <1>4, <1>5, <1>6, <1>7, <1>8

LEMMA OpenDatabaseKeeps ==
  ASSUME GauntletInv, OpenDatabase
  PROVE  GauntletInv'
<1> USE DEF GauntletInv
<1> DEFINE db == IF run.opts.target THEN target ELSE Corpus
<1>1. ReportTells' /\ PromotionProven'
  BY ReportStays, PromotionStays DEF OpenDatabase, RunOnly
<1>2. CASE ~SameEngine(db)
  <2>1. run' = NoRun /\ markers' \subseteq markers /\ UNCHANGED <<tree, fixture, baseline, target, runs, turns>>
    BY <1>2 DEF OpenDatabase, End, RunOnly
  <2>2. InputsTyped'
    BY <2>1 DEF InputsTyped
  <2> QED BY <1>1, <2>1, <2>2, EndKeeps
<1>3. CASE SameEngine(db)
  <2>1. /\ run.pc = "loaded" /\ run \in RunRecords
        /\ run' = [run EXCEPT !.pc = "opened", !.saw.db = db, !.saw.baseline = baseline]
        /\ baseline' = IF run.opts.update THEN "rewritten" ELSE baseline
        /\ turns' = IF run.opts.update /\ turns < 2 THEN turns + 1 ELSE turns
        /\ UNCHANGED <<tree, fixture, target, markers, runs>>
    BY <1>3 DEF OpenDatabase, RunOnly, Turn, Running, RunTyped
  <2>2. db \in Databases /\ Triple[db] = Triple[run.target] /\ (db = Corpus <=> ~run.opts.target)
    BY <1>3, GauntletAssumption DEF SameEngine, InputsTyped, Databases
  <2>3. /\ run.saw \in Readings /\ run.opts \in Options /\ run.start \in Identities
        /\ run' = [run EXCEPT !.pc = "opened", !.saw = [run.saw EXCEPT !.db = db, !.baseline = baseline]]
    BY <2>1 DEF RunRecords, Readings
  <2>10. /\ run'.pc = "opened" /\ run'.pid = run.pid /\ run'.opts = run.opts /\ run'.start = run.start
         /\ run'.target = run.target /\ run'.saw = [run.saw EXCEPT !.db = db, !.baseline = baseline]
    BY <2>1, <2>3 DEF RunRecords
  <2>11. /\ run'.saw.main = run.saw.main /\ run'.saw.gates = run.saw.gates
         /\ run'.saw.baseline = baseline /\ run'.saw.db = db
    <3>1. ASSUME NEW saw \in Readings, NEW saw2, saw2 = [saw EXCEPT !.db = db, !.baseline = baseline]
          PROVE  saw2.main = saw.main /\ saw2.gates = saw.gates /\ saw2.baseline = baseline /\ saw2.db = db
      BY <3>1 DEF Readings
    <3>2. run.saw \in Readings /\ run'.saw = [run.saw EXCEPT !.db = db, !.baseline = baseline]
      BY <2>3, <2>10
    <3> QED BY <3>1, <3>2
  <2> HIDE DEF db
<2>4. InputsTyped'
  BY <2>1, <2>2, <2>3, <2>10, <2>11 DEF InputsTyped, Running, Fixtures, Baselines
<2>5. RunTyped'
  BY <2>1, <2>2, <2>3, <2>10, <2>11 DEF InputsTyped, RunTyped, Running, Seen, Identity,
     Databases, Fixtures, Baselines, Identities, Sights, Readings, RunPoints, RunRecords
<2>6. RunMeasures'
  BY <2>1, <2>2, <2>3, <2>10, <2>11 DEF RunMeasures, RunTyped, RunRecords, Readings,
     InputsTyped, Running, AsRecorded, Ended, OnDatabase, Seen, Identity
<2>7. BaselineKept'
  BY <2>1, <2>2, <2>3, <2>10, <2>11 DEF BaselineKept, RunTyped, RunRecords, Readings,
     InputsTyped, Running, Ended, Identity, Baselines
<2>8. BaselineReplaced'
  BY <2>1, <2>2, <2>3, <2>10, <2>11 DEF BaselineReplaced, RunMeasures, RunTyped, RunRecords,
     InputsTyped, Running, Ended, Identity
<2>9. MarkersBear'
  BY <2>1, <2>2, <2>3, <2>10, <2>11 DEF MarkersBear, RunTyped, RunRecords, InputsTyped, Running,
     Identity
  <2> QED BY <1>1, <2>4, <2>5, <2>6, <2>7, <2>8, <2>9
<1> QED BY <1>2, <1>3

LEMMA MeasureFixturesKeeps ==
  ASSUME GauntletInv, MeasureFixtures
  PROVE  GauntletInv'
<1> USE DEF GauntletInv
<1>1. InputsTyped'
  BY DEF MeasureFixtures, RunOnly, InputsTyped, Running, Fixtures, Baselines
<1>2. RunTyped'
  BY DEF MeasureFixtures, RunOnly, InputsTyped, RunTyped, Running, Seen, Identity, Databases,
     Fixtures, Baselines, Identities, Sights, Readings, RunPoints, RunRecords
<1>3. RunMeasures'
  BY DEF MeasureFixtures, RunOnly, RunMeasures, RunTyped, RunRecords, Readings, InputsTyped,
     Running, AsRecorded, Ended, OnDatabase, Seen, Identity
<1>4. BaselineKept'
  BY DEF MeasureFixtures, RunOnly, BaselineKept, RunTyped, RunRecords, Readings, InputsTyped,
     Running, Ended, Identity, Baselines
<1>5. BaselineReplaced'
  BY DEF MeasureFixtures, RunOnly, BaselineReplaced, RunMeasures, RunTyped, RunRecords, InputsTyped,
     Running, Ended, Identity
<1>6. MarkersBear'
  BY DEF MeasureFixtures, RunOnly, MarkersBear, RunTyped, RunRecords, InputsTyped, Running, Identity
<1>7. ReportTells'
  BY ReportStays DEF MeasureFixtures, RunOnly
<1>8. PromotionProven'
  BY PromotionStays DEF MeasureFixtures, RunOnly
<1> QED BY <1>1, <1>2, <1>3, <1>4, <1>5, <1>6, <1>7, <1>8

LEMMA CompareIdentityKeeps ==
  ASSUME GauntletInv, CompareIdentity
  PROVE  GauntletInv'
<1> USE DEF GauntletInv
<1>1. InputsTyped'
  BY DEF CompareIdentity, RunOnly, End, NoRun, SameIdentity, InputsTyped, Running, Fixtures,
     Baselines
<1>2. RunTyped'
  BY DEF CompareIdentity, RunOnly, End, NoRun, SameIdentity, InputsTyped, RunTyped, Running, Seen,
     Identity, Databases, Fixtures, Baselines, Identities, Sights, Readings, RunPoints, RunRecords
<1>3. RunMeasures'
  BY DEF CompareIdentity, RunOnly, End, NoRun, SameIdentity, RunMeasures, RunTyped, RunRecords,
     Readings, InputsTyped, Running, AsRecorded, Ended, OnDatabase, Seen, Identity
<1>4. BaselineKept'
  BY DEF CompareIdentity, RunOnly, End, NoRun, SameIdentity, BaselineKept, RunTyped, RunRecords,
     Readings, InputsTyped, Running, Ended, Identity, Baselines
<1>5. BaselineReplaced'
  BY DEF CompareIdentity, RunOnly, End, NoRun, SameIdentity, BaselineReplaced, RunMeasures,
     RunTyped, RunRecords, InputsTyped, Running, Ended, Identity
<1>6. MarkersBear'
  BY DEF CompareIdentity, RunOnly, End, NoRun, SameIdentity, MarkersBear, RunTyped, RunRecords,
     InputsTyped, Running, Identity
<1>7. ReportTells'
  BY ReportStays DEF CompareIdentity, RunOnly
<1>8. PromotionProven'
  BY PromotionStays DEF CompareIdentity, RunOnly
<1> QED BY <1>1, <1>2, <1>3, <1>4, <1>5, <1>6, <1>7, <1>8

LEMMA WriteReportKeeps ==
  ASSUME GauntletInv, WriteReport
  PROVE  GauntletInv'
<1> USE DEF GauntletInv
<1>1. InputsTyped'
  BY DEF WriteReport, RunOnly, InputsTyped, Running, Fixtures, Baselines
<1>2. RunTyped'
  BY DEF WriteReport, RunOnly, InputsTyped, RunTyped, Running, Seen, Identity, Databases, Fixtures,
     Baselines, Identities, Sights, Readings, RunPoints, RunRecords
<1>3. RunMeasures'
  BY DEF WriteReport, RunOnly, RunMeasures, RunTyped, RunRecords, Readings, InputsTyped, Running,
     AsRecorded, Ended, OnDatabase, Seen, Identity
<1>4. BaselineKept'
  BY DEF WriteReport, RunOnly, BaselineKept, RunTyped, RunRecords, Readings, InputsTyped, Running,
     Ended, Identity, Baselines
<1>5. BaselineReplaced'
  BY DEF WriteReport, RunOnly, BaselineReplaced, RunMeasures, RunTyped, RunRecords, InputsTyped,
     Running, Ended, Identity
<1>6. MarkersBear'
  BY DEF WriteReport, RunOnly, MarkersBear, RunTyped, RunRecords, InputsTyped, Running, Identity
<1>7. PromotionProven'
  BY PromotionStays DEF WriteReport, RunOnly
<1>8. ReportTells'
  <2>1. CASE ~run.opts.json
    BY <2>1, ReportStays DEF WriteReport
  <2>2. CASE run.opts.json
    <3>1. /\ run.pc = "judged" /\ run \in RunRecords /\ run.opts \in Options /\ turns \in {0, 1, 2}
          /\ report' = [digest |-> run.pid, identity |-> run.start, target |-> run.target,
                         rows |-> GateRows(run.saw), verdict |-> Judgment,
                         saw |-> run.saw, turned |-> turns > 1]
      BY <2>2 DEF WriteReport, RunTyped, Running, RunRecords, InputsTyped
    <3>2. run.saw.baseline = run.start.baseline
      BY <2>2, <3>1 DEF BaselineKept, Options, Ended, Running
    <3>3. turns < 2 => AsRecorded(run, "reported")
      BY <3>1 DEF RunMeasures, Ended, AsRecorded, Running
    <3>4. Triple[run.saw.db] = Triple[run.target]
      BY <3>1 DEF RunMeasures, OnDatabase, Running
    <3>5. report'.digest = run.pid /\ report'.rows = GateRows(run.saw) /\ report'.saw = run.saw
          /\ report'.identity = run.start /\ report'.target = run.target /\ report'.turned = (turns > 1)
      BY <3>1
    <3>6. run.saw \in Readings /\ run.start \in Identities /\ run.target \in Databases
      BY <3>1 DEF RunRecords
    <3>7. ~report'.turned => AsRecorded([start |-> report'.identity, saw |-> report'.saw], "reported")
      <4>1. ~report'.turned => turns < 2
        <5>1. ~report'.turned => ~(turns > 1)
          BY <3>5, Zenon
        <5> QED BY <5>1, <3>1
      <4> QED BY <4>1, <3>3, <3>5 DEF AsRecorded
    <3> QED BY <3>2, <3>4, <3>5, <3>6, <3>7 DEF ReportTells, AsRecorded
  <2> QED BY <2>1, <2>2
<1> QED BY <1>1, <1>2, <1>3, <1>4, <1>5, <1>6, <1>7, <1>8

LEMMA EditInputsKeeps ==
  ASSUME GauntletInv, EditInputs
  PROVE  GauntletInv'
<1> USE DEF GauntletInv
<1>1. InputsTyped'
  BY DEF EditInputs, Turn, InputsTyped, Running, Fixtures, Baselines
<1>2. RunTyped'
  BY DEF EditInputs, Turn, InputsTyped, RunTyped, Running, Seen, Identity, Databases, Fixtures,
     Baselines, Identities, Sights, Readings, RunPoints, RunRecords
<1>3. RunMeasures'
  BY DEF EditInputs, Turn, RunMeasures, RunTyped, RunRecords, Readings, InputsTyped, Running,
     AsRecorded, Ended, OnDatabase, Seen, Identity
<1>4. BaselineKept'
  BY DEF EditInputs, Turn, BaselineKept, RunTyped, RunRecords, Readings, InputsTyped, Running,
     Ended, Identity, Baselines
<1>5. BaselineReplaced'
  BY DEF EditInputs, Turn, BaselineReplaced, RunMeasures, RunTyped, RunRecords, InputsTyped,
     Running, Ended, Identity
<1>6. MarkersBear'
  BY DEF EditInputs, Turn, MarkersBear, RunTyped, RunRecords, InputsTyped, Running, Identity
<1>7. ReportTells'
  BY ReportStays DEF EditInputs
<1>8. PromotionProven'
  BY PromotionStays DEF EditInputs
<1> QED BY <1>1, <1>2, <1>3, <1>4, <1>5, <1>6, <1>7, <1>8

LEMMA PromoteFixtureKeeps ==
  ASSUME GauntletInv, PromoteFixture
  PROVE  GauntletInv'
<1> USE DEF GauntletInv
<1>1. InputsTyped'
  BY DEF PromoteFixture, Turn, InputsTyped, Running, Fixtures, Baselines
<1>2. RunTyped'
  BY DEF PromoteFixture, Turn, InputsTyped, RunTyped, Running, Seen, Identity, Databases, Fixtures,
     Baselines, Identities, Sights, Readings, RunPoints, RunRecords
<1>3. RunMeasures'
  BY DEF PromoteFixture, Turn, RunMeasures, RunTyped, RunRecords, Readings, InputsTyped, Running,
     AsRecorded, Ended, OnDatabase, Seen, Identity
<1>4. BaselineKept'
  BY DEF PromoteFixture, Turn, BaselineKept, RunTyped, RunRecords, Readings, InputsTyped, Running,
     Ended, Identity, Baselines
<1>5. BaselineReplaced'
  BY DEF PromoteFixture, Turn, BaselineReplaced, RunMeasures, RunTyped, RunRecords, InputsTyped,
     Running, Ended, Identity
<1>6. MarkersBear'
  BY DEF PromoteFixture, Turn, MarkersBear, RunTyped, RunRecords, InputsTyped, Running, Identity
<1>7. ReportTells'
  BY ReportStays DEF PromoteFixture
<1>8. PromotionProven'
  BY DEF PromoteFixture, PromotionProven, PromotedIsProven, NoPromotion
<1> QED BY <1>1, <1>2, <1>3, <1>4, <1>5, <1>6, <1>7, <1>8

\* A fresh report that was not turned was measured on the tree that is there; its database
\* and its target bear the same engine, so what holds on the one holds on the other.
LEMMA ProvenHolds ==
  ASSUME GauntletInv, Proven, ~report.turned
  PROVE  <<tree, report.target>> \in Holding \ Vacuous
<1> USE DEF GauntletInv
<1>1. report.digest # 0 /\ report.identity = Identity
  BY DEF Proven, Fresh
<1>2. /\ report.rows = GateRows(report.saw) /\ report.saw \in Readings /\ report.target \in Databases
      /\ Triple[report.saw.db] = Triple[report.target]
      /\ AsRecorded([start |-> report.identity, saw |-> report.saw], "reported")
  BY <1>1 DEF ReportTells
<1>3. report.saw.gates.tree = tree
  BY <1>1, <1>2 DEF AsRecorded, Identity
<1>4. PICK r \in GateRows(report.saw) : r.gate = "G3" /\ r.candidate
  BY <1>2 DEF Proven
<1>5. <<tree, report.saw.db>> \in Holding \ Vacuous
  BY <1>2, <1>3, <1>4, CandidateHolds
<1>6. report.saw.db \in Databases /\ tree \in Trees
  BY <1>2 DEF Readings, InputsTyped
<1>7. /\ <<tree, report.saw.db>> \in Holding <=> <<tree, report.target>> \in Holding
      /\ <<tree, report.saw.db>> \in Vacuous <=> <<tree, report.target>> \in Vacuous
  <2>1. ASSUME NEW d \in Databases, NEW e \in Databases, Triple[d] = Triple[e], NEW t \in Trees
        PROVE  /\ <<t, d>> \in Holding <=> <<t, e>> \in Holding
               /\ <<t, d>> \in Vacuous <=> <<t, e>> \in Vacuous
    BY <2>1, EngineAssumption DEF Databases
  <2> QED BY <1>2, <1>6, <2>1
<1> QED BY <1>5, <1>7

LEMMA ConfirmPromotionKeeps ==
  ASSUME GauntletInv, ConfirmPromotion
  PROVE  GauntletInv'
<1> USE DEF GauntletInv
<1>1. InputsTyped'
  BY DEF ConfirmPromotion, PromotionOnly, InputsTyped, Running, Fixtures, Baselines
<1>2. RunTyped'
  BY DEF ConfirmPromotion, PromotionOnly, InputsTyped, RunTyped, Running, Seen, Identity, Databases,
     Fixtures, Baselines, Identities, Sights, Readings, RunPoints, RunRecords
<1>3. RunMeasures'
  BY DEF ConfirmPromotion, PromotionOnly, RunMeasures, RunTyped, RunRecords, Readings, InputsTyped,
     Running, AsRecorded, Ended, OnDatabase, Seen, Identity
<1>4. BaselineKept'
  BY DEF ConfirmPromotion, PromotionOnly, BaselineKept, RunTyped, RunRecords, Readings, InputsTyped,
     Running, Ended, Identity, Baselines
<1>5. BaselineReplaced'
  BY DEF ConfirmPromotion, PromotionOnly, BaselineReplaced, RunMeasures, RunTyped, RunRecords,
     InputsTyped, Running, Ended, Identity
<1>6. MarkersBear'
  BY DEF ConfirmPromotion, PromotionOnly, MarkersBear, RunTyped, RunRecords, InputsTyped, Running,
     Identity
<1>7. ReportTells'
  BY ReportStays DEF ConfirmPromotion, PromotionOnly
<1>8. PromotionProven'
  <2>1. CASE StillProven /\ promotion.pc = "requested"
    <3>1. promotion' = [promotion EXCEPT !.pc = "locked", !.on = <<tree, report.target>>, !.turned = report.turned]
      BY <2>1 DEF ConfirmPromotion
    <3>2. promotion'.pc = "locked" /\ promotion'.on = <<tree, report.target>> /\ promotion'.turned = report.turned
      BY <3>1
    <3> QED BY <3>2, <2>1, ProvenHolds DEF StillProven, PromotionProven, PromotedIsProven
  <2>2. CASE ~(StillProven /\ promotion.pc = "requested")
    <3>1. promotion'.pc \in {"idle", "requested"}
      BY <2>2 DEF ConfirmPromotion, NoPromotion, PromotionProven
    <3> QED BY <3>1 DEF PromotionProven, PromotedIsProven
  <2> QED BY <2>1, <2>2
<1> QED BY <1>1, <1>2, <1>3, <1>4, <1>5, <1>6, <1>7, <1>8

LEMMA PreviewPromotionKeeps ==
  ASSUME GauntletInv, PreviewPromotion
  PROVE  GauntletInv'
<1> USE DEF GauntletInv
<1>1. InputsTyped'
  BY DEF PreviewPromotion, PromotionOnly, InputsTyped, Running, Fixtures, Baselines
<1>2. RunTyped'
  BY DEF PreviewPromotion, PromotionOnly, InputsTyped, RunTyped, Running, Seen, Identity, Databases,
     Fixtures, Baselines, Identities, Sights, Readings, RunPoints, RunRecords
<1>3. RunMeasures'
  BY DEF PreviewPromotion, PromotionOnly, RunMeasures, RunTyped, RunRecords, Readings, InputsTyped,
     Running, AsRecorded, Ended, OnDatabase, Seen, Identity
<1>4. BaselineKept'
  BY DEF PreviewPromotion, PromotionOnly, BaselineKept, RunTyped, RunRecords, Readings, InputsTyped,
     Running, Ended, Identity, Baselines
<1>5. BaselineReplaced'
  BY DEF PreviewPromotion, PromotionOnly, BaselineReplaced, RunMeasures, RunTyped, RunRecords,
     InputsTyped, Running, Ended, Identity
<1>6. MarkersBear'
  BY DEF PreviewPromotion, PromotionOnly, MarkersBear, RunTyped, RunRecords, InputsTyped, Running,
     Identity
<1>7. ReportTells'
  BY ReportStays DEF PreviewPromotion, PromotionOnly
<1>8. PromotionProven'
  BY DEF PreviewPromotion, PromotionProven, PromotedIsProven
<1> QED BY <1>1, <1>2, <1>3, <1>4, <1>5, <1>6, <1>7, <1>8

LEMMA AgeKeeps ==
  ASSUME GauntletInv, Age
  PROVE  GauntletInv'
<1> USE DEF GauntletInv
<1>1. InputsTyped'
  BY DEF Age, InputsTyped, Running, Fixtures, Baselines
<1>2. RunTyped'
  BY DEF Age, InputsTyped, RunTyped, Running, Seen, Identity, Databases, Fixtures, Baselines,
     Identities, Sights, Readings, RunPoints, RunRecords
<1>3. RunMeasures'
  BY DEF Age, RunMeasures, RunTyped, RunRecords, Readings, InputsTyped, Running, AsRecorded, Ended,
     OnDatabase, Seen, Identity
<1>4. BaselineKept'
  BY DEF Age, BaselineKept, RunTyped, RunRecords, Readings, InputsTyped, Running, Ended, Identity,
     Baselines
<1>5. BaselineReplaced'
  BY DEF Age, BaselineReplaced, RunMeasures, RunTyped, RunRecords, InputsTyped, Running, Ended,
     Identity
<1>6. MarkersBear'
  BY DEF Age, MarkersBear, RunTyped, RunRecords, InputsTyped, Running, Identity
<1>7. PromotionProven'
  BY PromotionStays DEF Age
<1>8. ReportTells'
  BY DEF Age, ReportTells, NoReport
<1> QED BY <1>1, <1>2, <1>3, <1>4, <1>5, <1>6, <1>7, <1>8

LEMMA ExitKeeps ==
  ASSUME GauntletInv, Exit \/ Die
  PROVE  GauntletInv'
<1> USE DEF GauntletInv
<1>1. /\ run' = NoRun /\ markers' \subseteq markers
      /\ UNCHANGED <<report, promotion, tree, fixture, baseline, target, runs, turns>>
  BY DEF Exit, Die, End, RunOnly
<1>2. InputsTyped'
  BY <1>1 DEF InputsTyped
<1> QED BY <1>1, <1>2, EndKeeps, ReportStays, PromotionStays

-----------------------------------------------------------------------------
\* What the invariant says of a report, of an exit and of a reader.
LEMMA GauntletBears ==
  ASSUME GauntletInv
  PROVE  GauntletHolds
<1> USE DEF GauntletInv
<1>1. GauntletTypeOK
  BY DEF InputsTyped, MarkersBear, PromotionProven, GauntletTypeOK, Fixtures, Baselines
<1>2. FreshIsMeasured
  <2> SUFFICES ASSUME Fresh(report), ~report.turned
               PROVE  /\ report.saw.main = Seen /\ report.saw.gates = Seen /\ report.saw.baseline = baseline
                      /\ report.target # Corpus => Triple[report.saw.db] = Triple[target]
    BY DEF FreshIsMeasured
  <2>1. report.digest # 0 /\ report.identity = Identity /\ (report.target # Corpus => report.target = target)
    BY DEF Fresh
  <2>2. AsRecorded([start |-> report.identity, saw |-> report.saw], "reported")
        /\ Triple[report.saw.db] = Triple[report.target]
    BY <2>1 DEF ReportTells
  <2> QED BY <2>1, <2>2 DEF AsRecorded, Identity, Seen
<1>3. StrictExitAdmits
  <2> SUFFICES ASSUME run.pc = "reported", run.opts.admit, turns < 2, Code = 0
               PROVE  LET t == run.start.tree db == run.saw.db effectless == run.opts.target /\ db \in Effectless IN
                      /\ t \notin Failing /\ run.start.baseline = "reviewed"
                      /\ run.start.fixture = "active" /\ <<t, db>> \in Holding
                      /\ run.opts.target => db \in Unharmed
                      /\ IF effectless THEN run.opts.claim ELSE t \notin Warned /\ <<t, db>> \notin Vacuous
    BY DEF StrictExitAdmits
  <2>1. run \in RunRecords
    BY DEF RunTyped, Running
  <2>2. run.saw \in Readings /\ run.opts \in Options /\ NoEffect \in BOOLEAN
    BY <2>1 DEF RunRecords, NoEffect, Options
  <2>3. /\ run.saw.main = [tree |-> run.start.tree, fixture |-> run.start.fixture]
        /\ run.saw.gates = run.saw.main /\ run.saw.baseline = run.start.baseline
        /\ run.saw.db = Corpus <=> ~run.opts.target
    BY DEF RunMeasures, Running, AsRecorded, Ended, OnDatabase
  <2>4. ExitCode(Verdict(GateRows(run.saw), NoEffect), run.opts, PendingDebtOnly(GateRows(run.saw))) = 0
    BY DEF Code, Judgment
  <2>5. /\ run.saw.main.tree \notin Failing /\ run.saw.baseline = "reviewed"
        /\ run.saw.main.fixture = "active"
        /\ run.saw.gates.fixture = "active" => <<run.saw.gates.tree, run.saw.db>> \in Holding
        /\ run.saw.db # Corpus => run.saw.db \in Unharmed
        /\ IF NoEffect THEN run.opts.claim
           ELSE run.saw.main.tree \notin Warned
                /\ (run.saw.gates.fixture = "active" => <<run.saw.gates.tree, run.saw.db>> \notin Vacuous)
    BY <2>2, <2>4, SuccessSays
  <2> QED BY <2>3, <2>5 DEF NoEffect
<1>4. NothingVouchesForItself
  BY DEF NothingVouchesForItself, ReportTells, BaselineReplaced, Running, Ended
<1>5. MarkersTell
  <2> SUFFICES ASSUME run.pc \notin {"idle", "resolved"}, run.start = Identity PROVE Active
    BY DEF MarkersTell, Health
  <2> QED BY DEF Active, MarkersBear, Running
<1> QED BY <1>1, <1>2, <1>3, <1>4, <1>5 DEF GauntletHolds, PromotionProven

\* Whatever the gates say and whoever edits the repository: a fresh report was measured on
\* what is there, a strict success admits what it read, no run vouches for a baseline it
\* replaced, a fixture is promoted only on the word of a run in which it held, and the
\* readers of a run at work are told so (gauntlet.ts, fixturePromotion.ts).
THEOREM GauntletBelieved == GauntletSpec => []GauntletHolds
<1>1. GauntletInit => GauntletInv
  BY GauntletStarts
<1>2. GauntletInv /\ [GauntletNext]_gauntletVars => GauntletInv'
  BY ResolveKeeps, WriteMarkerKeeps, LoadInputsKeeps, OpenDatabaseKeeps, MeasureFixturesKeeps,
     CompareIdentityKeeps, WriteReportKeeps, ExitKeeps, AgeKeeps, PreviewPromotionKeeps,
     ConfirmPromotionKeeps, PromoteFixtureKeeps, EditInputsKeeps, QuietKeeps
  DEF GauntletNext, ReadHealth
<1>3. GauntletInv => GauntletHolds
  BY GauntletBears
<1> QED BY <1>1, <1>2, <1>3, PTL DEF GauntletSpec

-----------------------------------------------------------------------------
(* Numbers, sums and orders *)

\* A finite set of numbers has a least one: those below it are the least of such sets.
LEMMA Smallest ==
  ASSUME NEW S \in SUBSET Nat, S # {}, IsFiniteSet(S)
  PROVE \E x \in S : \A y \in S : x <= y
<1> DEFINE Below(x) == {y \in S : y < x}
           T == {Below(x) : x \in S}
<1>1. IsWellFoundedOn(StrictSubsetOrdering(S), FiniteSubsetsOf(S))
  BY FS_StrictSubsetOrderingWellFounded
<1>2. T \subseteq FiniteSubsetsOf(S) /\ T # {}
  <2>1. \A x \in S : Below(x) \in SUBSET S
    OBVIOUS
  <2>2. \A x \in S : Below(x) \in FiniteSubsetsOf(S)
    <3> TAKE x \in S
    <3> QED BY <2>1, FS_Subset DEF FiniteSubsetsOf
  <2> QED BY <2>2
<1>3. PICK A \in T : \A B \in T : ~(<<B, A>> \in StrictSubsetOrdering(S))
  <2> HIDE DEF T
  <2> QED BY <1>1, <1>2, WFMin
<1>4. PICK x \in S : A = Below(x)
  OBVIOUS
<1>5. ASSUME NEW y \in S, y < x PROVE FALSE
  <2>1. Below(y) \in T /\ Below(y) \subseteq S /\ A \subseteq S
    BY <1>4
  <2>2. x \in Nat /\ y \in Nat
    OBVIOUS
  <2>3. \A z \in S : z < y => z < x
    BY <1>5, <2>2
  <2>4. Below(y) \subseteq A
    BY <1>4, <2>3
  <2>5. y \in A
    BY <1>4, <1>5
  <2>6. y \notin Below(y)
    <3>1. ~(y < y)
      BY <2>2
    <3> QED BY <3>1
  <2>7. <<Below(y), A>> \in StrictSubsetOrdering(S)
    BY <2>1, <2>4, <2>5, <2>6 DEF StrictSubsetOrdering
  <2> QED BY <1>3, <2>1, <2>7
<1>6. \A y \in S : x <= y
  BY <1>5
<1> QED BY <1>6

\* And so what holds of 0 and, with each number, of the next one holds up to any bound.
LEMMA Reaches ==
  ASSUME NEW n \in Nat, NEW S, 0 \in S, \A k \in 1..n : k - 1 \in S => k \in S
  PROVE  \A k \in 0..n : k \in S
<1> SUFFICES ASSUME (0..n) \ S # {} PROVE FALSE
  OBVIOUS
<1>1. PICK k \in (0..n) \ S : \A m \in (0..n) \ S : k <= m
  <2> DEFINE R == (0..n) \ S
  <2>1. R \in SUBSET Nat /\ R # {} /\ IsFiniteSet(R)
    <3>1. IsFiniteSet(0..n) /\ R \in SUBSET (0..n)
      BY FS_Interval
    <3> QED
      BY <3>1, FS_Subset
  <2> HIDE DEF R
  <2>2. \E k \in R : \A m \in R : k <= m
    BY <2>1, Smallest
  <2> QED
    BY <2>2 DEF R
<1>2. k # 0 /\ k \in 1..n /\ k - 1 \in 0..n /\ ~(k <= k - 1)
  BY <1>1
<1>3. k - 1 \in S
  BY <1>1, <1>2
<1> QED
  BY <1>1, <1>2, <1>3

\* A set that is bounded has a greatest element.
LEMMA Biggest ==
  ASSUME NEW S \in SUBSET Nat, S # {}, IsFiniteSet(S)
  PROVE  \E x \in S : \A y \in S : y <= x
<1> DEFINE Below(x) == {y \in S : y < x}
           n == Cardinality(S)
           Deep == {k \in 0..n : \E x \in S : Cardinality(Below(x)) >= k}
<1>1. n \in Nat /\ \A T \in SUBSET S : IsFiniteSet(T) /\ Cardinality(T) \in Nat /\ Cardinality(T) <= n
  BY FS_CardinalityType, FS_Subset
<1>2. SUFFICES ASSUME \A x \in S : \E y \in S : ~(y <= x) PROVE FALSE
  OBVIOUS
<1>3. 0 \in Deep
  <2>1. PICK x \in S : TRUE
    OBVIOUS
  <2>2. Below(x) \in SUBSET S
    OBVIOUS
  <2>3. Cardinality(Below(x)) >= 0 /\ 0 \in 0..n
    BY <1>1, <2>2
  <2> QED
    BY <2>3
<1>4. ASSUME NEW k \in 1..n, k - 1 \in Deep PROVE k \in Deep
  <2>1. PICK x \in S : Cardinality(Below(x)) >= k - 1
    BY <1>4
  <2>2. PICK y \in S : ~(y <= x)
    BY <1>2
  <2>3. x \in Nat /\ y \in Nat
    OBVIOUS
  <2>4. Below(x) \in SUBSET S /\ Below(y) \in SUBSET S
    OBVIOUS
  <2>5. Below(x) \subseteq Below(y)
    <3>1. \A z \in S : z < x => z < y
      BY <2>2, <2>3
    <3> QED
      BY <3>1
  <2>6. x \in Below(y) /\ x \notin Below(x)
    BY <2>2, <2>3
  <2>7. Cardinality(Below(x)) < Cardinality(Below(y))
    <3> HIDE DEF Below
    <3> QED
      BY <1>1, <2>4, <2>5, <2>6, FS_Subset
  <2>8. Cardinality(Below(y)) >= k
    <3> HIDE DEF Below, n
    <3> QED
      BY <1>1, <2>1, <2>4, <2>7
  <2> QED
    BY <2>8
<1>5. n \in Deep
  <2> HIDE DEF Deep
  <2>1. \A k \in 0..n : k \in Deep
    BY <1>1, <1>3, <1>4, Reaches
  <2> QED
    BY <1>1, <2>1
<1>6. PICK x \in S : Cardinality(Below(x)) >= n
  BY <1>5
<1>7. Below(x) \in SUBSET S /\ x \notin Below(x)
  <2>1. ~(x < x)
    OBVIOUS
  <2> QED
    BY <2>1
<1>8. Cardinality(Below(x)) < n
  <2> HIDE DEF Below
  <2>1. Cardinality(Below(x)) <= n /\ Cardinality(Below(x)) \in Nat
    BY <1>1, <1>7
  <2>2. n # Cardinality(Below(x))
    BY <1>7, FS_Subset
  <2> HIDE DEF n
  <2> QED
    BY <1>1, <2>1, <2>2
<1> QED
  <2> HIDE DEF Below, n
  <2> QED
    BY <1>1, <1>6, <1>7, <1>8

\* What FiniteSetsExt calls the least and the greatest.
LEMMA MinMax ==
  ASSUME NEW S \in SUBSET Nat, S # {}, IsFiniteSet(S)
  PROVE  /\ Min(S) \in S /\ \A y \in S : Min(S) <= y
         /\ Max(S) \in S /\ \A y \in S : y <= Max(S)
<1>1. \E x \in S : \A y \in S : x <= y
  BY Smallest
<1>2. \E x \in S : \A y \in S : x >= y
  BY Biggest
<1> QED
  BY <1>1, <1>2 DEF Min, Max

\* A relation that puts the elements of S in one line.
Lines(S, B) ==
  /\ \A x \in S : <<x, x>> \notin B
  /\ \A x, y, z \in S : <<x, y>> \in B /\ <<y, z>> \in B => <<x, z>> \in B
  /\ \A x, y \in S : x # y => <<x, y>> \in B \/ <<y, x>> \in B

\* Sorting a finite set by such a relation lists every element once, in its order.
LEMMA Sorted ==
  ASSUME NEW S, NEW B, IsFiniteSet(S), Lines(S, B)
  PROVE  /\ Cardinality(S) \in Nat
         /\ InOrder(S, B) \in [1..Cardinality(S) -> S]
         /\ \A x \in S : \E i \in 1..Cardinality(S) : InOrder(S, B)[i] = x
         /\ \A i, j \in 1..Cardinality(S) : i < j <=> <<InOrder(S, B)[i], InOrder(S, B)[j]>> \in B
<1> DEFINE n == Cardinality(S)
           P(x) == {y \in S : <<y, x>> \in B}
           c == [x \in S |-> Cardinality(P(x))]
           o == InOrder(S, B)
<1>1. n \in Nat
  BY FS_CardinalityType
<1>2. \A x \in S : P(x) \in SUBSET S /\ x \notin P(x)
  BY DEF Lines
<1>3. \A x, y \in S : <<x, y>> \in B => P(x) \subseteq P(y) /\ x \in P(y)
  BY DEF Lines
<1>4. \A X, Y \in SUBSET S : \A x \in S : X \subseteq Y /\ x \in Y /\ x \notin X =>
        Cardinality(X) \in Nat /\ Cardinality(Y) \in Nat /\ Cardinality(X) < Cardinality(Y)
  <2> TAKE X, Y \in SUBSET S
  <2> TAKE x \in S
  <2> HAVE X \subseteq Y /\ x \in Y /\ x \notin X
  <2>1. IsFiniteSet(X) /\ IsFiniteSet(Y)
    BY FS_Subset
  <2>2. Cardinality(X) \in Nat /\ Cardinality(Y) \in Nat
    BY <2>1, FS_CardinalityType
  <2>3. X \in SUBSET Y /\ X # Y
    OBVIOUS
  <2>4. Cardinality(X) <= Cardinality(Y) /\ Cardinality(X) # Cardinality(Y)
    BY <2>1, <2>3, FS_Subset
  <2> QED
    BY <2>2, <2>4
<1>5. \A x \in S : c[x] \in 0..n - 1
  <2> TAKE x \in S
  <2>1. c[x] = Cardinality(P(x)) /\ S \in SUBSET S
    OBVIOUS
  <2> HIDE DEF P, n, c
  <2>2. Cardinality(P(x)) \in Nat /\ Cardinality(P(x)) < Cardinality(S)
    BY <1>2, <1>4, <2>1
  <2>3. Cardinality(P(x)) < n
    BY <2>2 DEF n
  <2> QED
    BY <1>1, <2>1, <2>2, <2>3
<1>6. \A x, y \in S : <<x, y>> \in B => c[x] < c[y]
  <2> TAKE x, y \in S
  <2> HAVE <<x, y>> \in B
  <2>1. c[x] = Cardinality(P(x)) /\ c[y] = Cardinality(P(y))
    OBVIOUS
  <2> HIDE DEF P, n, c
  <2> QED
    BY <1>2, <1>3, <1>4, <2>1
<1>7. \A x, y \in S : c[x] = c[y] => x = y
  <2> TAKE x, y \in S
  <2> HAVE c[x] = c[y]
  <2> HIDE DEF c
  <2>1. c[x] \in Int /\ c[y] \in Int
    <3> HIDE DEF n
    <3> QED
      BY <1>1, <1>5
  <2>2. ~(c[x] < c[y]) /\ ~(c[y] < c[x])
    BY <2>1
  <2> QED
    BY <1>6, <2>2 DEF Lines
<1>8. c \in Injection(S, 0..n - 1)
  <2>1. c \in [S -> 0..n - 1]
    <3>1. c = [x \in S |-> c[x]] /\ DOMAIN c = S
      OBVIOUS
    <3> HIDE DEF c, n
    <3> QED
      BY <1>5, <3>1
  <2>2. DOMAIN c = S
    OBVIOUS
  <2> HIDE DEF c, n
  <2> QED
    BY <1>7, <2>1, <2>2 DEF Injection, IsInjective
<1>9. \A k \in 0..n - 1 : \E x \in S : c[x] = k
  <2>1. IsFiniteSet(0..n - 1) /\ Cardinality(0..n - 1) = n
    <3> HIDE DEF n
    <3>1. 0 \in Int /\ n - 1 \in Int
      BY <1>1
    <3>2. Cardinality(0..n - 1) = IF 0 > n - 1 THEN 0 ELSE (n - 1) - 0 + 1
      BY <3>1, FS_Interval
    <3>3. IsFiniteSet(0..n - 1)
      BY <3>1, FS_Interval
    <3> QED
      BY <1>1, <3>2, <3>3
  <2> HIDE DEF c
  <2>2. c \in Surjection(S, 0..n - 1)
    BY <1>8, <2>1, FS_Injection
  <2> QED
    BY <2>2 DEF Surjection
<1>10. \A i \in 1..n : o[i] \in S /\ c[o[i]] = i - 1
  <2> TAKE i \in 1..n
  <2>1. i - 1 \in 0..n - 1
    BY <1>1
  <2>2. PICK x \in S : c[x] = i - 1
    BY <1>9, <2>1
  <2>3. o[i] = CHOOSE y \in S : Cardinality(P(y)) = i - 1
    BY DEF InOrder
  <2>4. Cardinality(P(x)) = i - 1
    BY <2>2
  <2>5. o[i] \in S /\ Cardinality(P(o[i])) = i - 1
    <3> HIDE DEF P, o, n
    <3> QED
      BY <2>3, <2>4
  <2> HIDE DEF o
  <2> QED
    BY <2>5
<1>12. o \in [1..n -> S]
  <2> DEFINE e(i) == CHOOSE x \in S : Cardinality({y \in S : <<y, x>> \in B}) = i - 1
  <2>1. o = [i \in 1..n |-> e(i)]
    BY DEF InOrder
  <2> HIDE DEF e, n, o
  <2>2. \A i \in 1..n : e(i) \in S
    BY <1>10, <2>1
  <2> QED
    BY <2>1, <2>2
<1>13. \A x \in S : \E i \in 1..n : o[i] = x
  <2> TAKE x \in S
  <2> HIDE DEF o, c, n
  <2>1. c[x] + 1 \in 1..n /\ (c[x] + 1) - 1 = c[x]
    BY <1>1, <1>5
  <2>2. o[c[x] + 1] \in S /\ c[o[c[x] + 1]] = c[x]
    BY <1>10, <2>1
  <2> QED
    BY <1>7, <2>1, <2>2
<1>14. \A i, j \in 1..n : i < j <=> <<o[i], o[j]>> \in B
  <2> TAKE i, j \in 1..n
  <2>1. o[i] \in S /\ o[j] \in S /\ c[o[i]] = i - 1 /\ c[o[j]] = j - 1
    BY <1>10
  <2> HIDE DEF o, c
  <2>2. ASSUME i < j PROVE <<o[i], o[j]>> \in B
    <3>1. o[i] # o[j]
      BY <1>1, <2>1, <2>2
    <3>2. ~(<<o[j], o[i]>> \in B)
      <4>1. ~(j - 1 < i - 1)
        BY <1>1, <2>2
      <4> QED
        BY <1>6, <2>1, <4>1
    <3> QED
      BY <2>1, <3>1, <3>2 DEF Lines
  <2>3. ASSUME <<o[i], o[j]>> \in B PROVE i < j
    <3>1. i - 1 < j - 1
      BY <1>6, <2>1, <2>3
    <3> QED
      BY <1>1, <3>1
  <2> QED
    BY <2>2, <2>3
<1> HIDE DEF o, c
<1> QED
  BY <1>1, <1>12, <1>13, <1>14 DEF o

\* What the corpus gives as a reason.
Families == {"exact_phrase", "concept_anchor", "concept_lexicon", "token_overlap", "translation_variant",
             "proximity", "passage_terms", "cross_reference"}

LEMMA BudgetType ==
  \A f \in Families : Budget(f).points \in Nat /\ Budget(f).reasons \in Nat \ {0}
BY DEF Families, Budget

\* What the reasons of a family add up to: a number, none less than any of them.
LEMMA PointsAdd ==
  ASSUME NEW R, IsFiniteSet(R), \A e \in R : e.points \in Nat
  PROVE  /\ Points(R) \in Nat
         /\ R = {} => Points(R) = 0
         /\ \A e \in R : e.points <= Points(R)
<1> DEFINE pick(T) == CHOOSE x \in T : TRUE
           Adds(s, D) == \A T \in D : s[T] = IF T = {} THEN 0 ELSE pick(T).points + s[T \ {pick(T)}]
           m == Cardinality(R)
           Level(k) == {T \in SUBSET R : Cardinality(T) <= k}
           OfLevel(s, k) == s \in [Level(k) -> Nat] /\ Adds(s, Level(k))
           Built == {k \in 0..m : \E s : OfLevel(s, k)}
<1>1. m \in Nat
  BY FS_CardinalityType
<1>2. \A T \in SUBSET R : IsFiniteSet(T) /\ Cardinality(T) \in Nat /\ Cardinality(T) <= m
  <2> TAKE T \in SUBSET R
  <2>1. IsFiniteSet(T) /\ Cardinality(T) <= m
    BY FS_Subset
  <2> QED
    BY <2>1, FS_CardinalityType
<1>3. \A T \in SUBSET R : T # {} =>
        /\ pick(T) \in T /\ pick(T) \in R /\ pick(T).points \in Nat
        /\ T \ {pick(T)} \in SUBSET R /\ Cardinality(T \ {pick(T)}) = Cardinality(T) - 1
  <2> TAKE T \in SUBSET R
  <2> HAVE T # {}
  <2>1. pick(T) \in T
    OBVIOUS
  <2> HIDE DEF pick
  <2>2. Cardinality(T \ {pick(T)}) = Cardinality(T) - 1
    BY <1>2, <2>1, FS_RemoveElement
  <2> QED
    BY <2>1, <2>2
<1>4. \A T \in SUBSET R : T # {} => Cardinality(T) # 0
  BY <1>2, FS_EmptySet
<1> HIDE DEF pick, m
<1>5. 0 \in Built
  <2> DEFINE s0 == [T \in Level(0) |-> 0]
  <2>1. \A T \in Level(0) : T = {}
    BY <1>2, <1>4
  <2>2. OfLevel(s0, 0)
    BY <2>1
  <2> HIDE DEF OfLevel, s0
  <2> QED
    BY <1>1, <2>2
<1>6. ASSUME NEW k \in 1..m, k - 1 \in Built PROVE k \in Built
  <2>1. PICK s : OfLevel(s, k - 1)
    BY <1>6
  <2> DEFINE t == [T \in Level(k) |-> IF T = {} THEN 0 ELSE pick(T).points + s[T \ {pick(T)}]]
  <2>2. \A T \in Level(k) : T # {} => T \ {pick(T)} \in Level(k - 1) /\ T \ {pick(T)} \in Level(k)
    <3> TAKE T \in Level(k)
    <3> HAVE T # {}
    <3>1. T \in SUBSET R /\ Cardinality(T) <= k /\ Cardinality(T) \in Nat
      BY <1>2
    <3>2. T \ {pick(T)} \in SUBSET R /\ Cardinality(T \ {pick(T)}) = Cardinality(T) - 1
      BY <1>3, <3>1
    <3>3. Cardinality(T) - 1 <= k - 1 /\ Cardinality(T) - 1 <= k
      BY <1>1, <3>1
    <3> QED
      BY <3>2, <3>3
  <2>3. t \in [Level(k) -> Nat]
    <3>1. \A T \in Level(k) : T # {} => pick(T).points + s[T \ {pick(T)}] \in Nat
      <4> TAKE T \in Level(k)
      <4> HAVE T # {}
      <4>1. s[T \ {pick(T)}] \in Nat
        <5> HIDE DEF Level, Adds
        <5> QED
          BY <2>1, <2>2
      <4>2. pick(T).points \in Nat
        BY <1>3
      <4> QED
        BY <4>1, <4>2
    <3> HIDE DEF Level
    <3> QED
      BY <3>1
  <2>4. \A T \in Level(k - 1) : T \in Level(k) /\ t[T] = s[T]
    <3> TAKE T \in Level(k - 1)
    <3>1. T \in Level(k)
      <4>1. \A c \in Nat : c <= k - 1 => c <= k
        BY <1>1
      <4> QED
        BY <1>2, <4>1
    <3>2. t[T] = IF T = {} THEN 0 ELSE pick(T).points + s[T \ {pick(T)}]
      BY <3>1
    <3>3. s[T] = IF T = {} THEN 0 ELSE pick(T).points + s[T \ {pick(T)}]
      BY <2>1
    <3> QED
      BY <3>1, <3>2, <3>3
  <2>5. Adds(t, Level(k))
    <3> SUFFICES ASSUME NEW T \in Level(k)
                 PROVE  t[T] = IF T = {} THEN 0 ELSE pick(T).points + t[T \ {pick(T)}]
      OBVIOUS
    <3>1. t[T] = IF T = {} THEN 0 ELSE pick(T).points + s[T \ {pick(T)}]
      OBVIOUS
    <3>2. T # {} => t[T \ {pick(T)}] = s[T \ {pick(T)}]
      <4> HIDE DEF t, Level
      <4> QED
        BY <2>2, <2>4
    <3> HIDE DEF t
    <3> QED
      BY <3>1, <3>2
  <2>6. OfLevel(t, k)
    BY <2>3, <2>5
  <2> HIDE DEF OfLevel, t
  <2> QED
    BY <2>6
<1>7. \E s : s \in [SUBSET R -> Nat] /\ Adds(s, SUBSET R)
  <2>1. m \in Built
    <3> HIDE DEF Built
    <3>1. \A k \in 0..m : k \in Built
      BY <1>1, <1>5, <1>6, Reaches
    <3> QED
      BY <1>1, <3>1
  <2>2. Level(m) = SUBSET R
    BY <1>2
  <2> HIDE DEF Level, Adds
  <2> QED
    BY <2>1, <2>2
<1>8. PICK s : s \in [SUBSET R -> Nat] /\ Adds(s, SUBSET R)
  BY <1>7
<1> DEFINE Sums(f) == f = [T \in SUBSET R |-> IF T = {} THEN 0 ELSE pick(T).points + f[T \ {pick(T)}]]
           sum == CHOOSE f : Sums(f)
<1>9. Sums(s)
  <2>1. s = [T \in SUBSET R |-> s[T]]
    BY <1>8
  <2> QED
    BY <1>8, <2>1
<1>10. Sums(sum)
  <2> HIDE DEF Sums
  <2> QED
    BY <1>9
<1>11. Points(R) = sum[R]
  BY DEF Points, MapThenSumSet, MapThenFoldSet, pick
<1> HIDE DEF sum
<1>12. \A T \in SUBSET R : sum[T] = IF T = {} THEN 0 ELSE pick(T).points + sum[T \ {pick(T)}]
  BY <1>10
<1> DEFINE Counted(T) == sum[T] \in Nat /\ \A e \in T : e.points <= sum[T]
           Right == {k \in 0..m : \A T \in SUBSET R : Cardinality(T) <= k => Counted(T)}
<1>13. 0 \in Right
  <2>1. \A T \in SUBSET R : Cardinality(T) <= 0 => T = {}
    BY <1>2, <1>4
  <2>2. sum[{}] = 0
    BY <1>12
  <2>3. Counted({})
    BY <2>2
  <2> HIDE DEF Counted
  <2> QED
    BY <1>1, <2>1, <2>3
<1>14. ASSUME NEW k \in 1..m, k - 1 \in Right PROVE k \in Right
  <2> SUFFICES ASSUME NEW T \in SUBSET R, Cardinality(T) <= k, T # {} PROVE Counted(T)
    <3>1. Counted({})
      BY <1>12
    <3> HIDE DEF Counted
    <3> QED
      BY <3>1
  <2> DEFINE x == pick(T)
             U == T \ {x}
  <2>1. x \in T /\ x.points \in Nat /\ U \in SUBSET R /\ Cardinality(U) <= k - 1
    <3>1. x \in T /\ x.points \in Nat /\ U \in SUBSET R /\ Cardinality(U) = Cardinality(T) - 1
      BY <1>3
    <3>2. Cardinality(T) \in Nat
      BY <1>2
    <3> HIDE DEF x, U
    <3> QED
      BY <1>1, <3>1, <3>2
  <2>2. Counted(U)
    <3> HIDE DEF Counted, x, U
    <3> QED
      BY <1>14, <2>1
  <2>3. sum[T] = x.points + sum[U]
    BY <1>12
  <2>4. T = U \cup {x}
    BY <2>1
  <2> HIDE DEF x, U
  <2>5. sum[U] \in Nat /\ \A e \in U : e.points <= sum[U]
    BY <2>2
  <2>6. \A e \in U : e.points \in Nat
    BY <2>1
  <2>7. \A e \in T : e.points <= sum[T]
    <3> TAKE e \in T
    <3>1. CASE e \in U
      BY <2>1, <2>3, <2>5, <2>6, <3>1
    <3>2. CASE e = x
      BY <2>1, <2>3, <2>5, <3>2
    <3> QED
      BY <2>4, <3>1, <3>2
  <2>8. sum[T] \in Nat
    BY <2>1, <2>3, <2>5
  <2> QED
    BY <2>7, <2>8
<1>15. Counted(R)
  <2> HIDE DEF Right
  <2>1. \A k \in 0..m : k \in Right
    BY <1>1, <1>13, <1>14, Reaches
  <2>2. m \in Right
    BY <1>1, <2>1
  <2> HIDE DEF Counted
  <2>3. R \in SUBSET R /\ Cardinality(R) <= m
    BY <1>1 DEF m
  <2> QED
    BY <2>2, <2>3 DEF Right
<1> QED
  BY <1>11, <1>12, <1>15

LEMMA SmallerOf == \A x, y \in Nat : Smaller(x, y) \in Nat /\ Smaller(x, y) <= x /\ Smaller(x, y) <= y
BY DEF Smaller

\* A family has its strongest reasons, as many as it is allowed.
LEMMA Strongest ==
  ASSUME NEW F, IsFiniteSet(F), \A e \in F : e.points \in Nat, NEW n \in Nat, n <= Cardinality(F)
  PROVE  \E K \in kSubset(n, F) : \A e \in K, d \in F \ K : e.points >= d.points
<1> DEFINE Top(K) == \A e \in K, d \in F \ K : e.points >= d.points
           Taken == {k \in 0..n : \E K \in kSubset(k, F) : Top(K)}
<1>1. Cardinality(F) \in Nat
  BY FS_CardinalityType
<1>2. 0 \in Taken
  <2>1. {} \in kSubset(0, F)
    BY FS_EmptySet DEF kSubset
  <2> QED
    BY <2>1
<1>3. ASSUME NEW k \in 1..n, k - 1 \in Taken PROVE k \in Taken
  <2>1. PICK K \in kSubset(k - 1, F) : Top(K)
    BY <1>3
  <2>2. K \in SUBSET F /\ Cardinality(K) = k - 1 /\ IsFiniteSet(K)
    BY FS_Subset DEF kSubset
  <2> DEFINE G == F \ K
             P == {d.points : d \in G}
  <2>3. G # {}
    <3>1. K # F
      BY <1>1, <2>2
    <3> QED
      BY <2>2, <3>1
  <2>4. P \in SUBSET Nat /\ P # {}
    BY <2>3
  <2>5. IsFiniteSet(P)
    <3> DEFINE h == [d \in G |-> d.points]
    <3>1. h \in Surjection(G, P)
      BY DEF Surjection
    <3>2. IsFiniteSet(G)
      BY FS_Subset
    <3> HIDE DEF h, G, P
    <3> QED
      BY <3>1, <3>2, FS_Surjection
  <2>6. PICK p \in P : \A q \in P : q <= p
    <3> HIDE DEF P
    <3> QED
      BY <2>4, <2>5, Biggest
  <2>7. PICK x \in G : x.points = p
    OBVIOUS
  <2>8. \A d \in G : x.points >= d.points
    <3>1. \A d \in G : d.points \in P /\ d.points \in Nat /\ p \in Nat
      OBVIOUS
    <3> QED
      BY <2>6, <2>7, <3>1
  <2> DEFINE L == K \cup {x}
  <2>9. L \in kSubset(k, F)
    <3>1. Cardinality(L) = Cardinality(K) + 1
      BY <2>2, <2>7, FS_AddElement
    <3>2. Cardinality(L) = k
      BY <1>1, <2>2, <3>1
    <3>3. L \in SUBSET F
      BY <2>2, <2>7
    <3> HIDE DEF L
    <3> QED
      BY <3>2, <3>3 DEF kSubset
  <2>10. Top(L)
    <3> SUFFICES ASSUME NEW e \in L, NEW d \in F \ L PROVE e.points >= d.points
      OBVIOUS
    <3>1. d \in G
      OBVIOUS
    <3>2. CASE e \in K
      BY <2>1, <3>1, <3>2
    <3>3. CASE e = x
      BY <2>8, <3>1, <3>3
    <3> QED
      BY <3>2, <3>3
  <2> HIDE DEF Top, L
  <2> QED
    BY <2>9, <2>10
<1>4. n \in Taken
  <2> HIDE DEF Taken
  <2>1. \A k \in 0..n : k \in Taken
    BY <1>2, <1>3, Reaches
  <2> QED
    BY <2>1
<1> QED
  BY <1>4

\* The reasons of a verse are evidence for it, and the loudest of each family is among them.
LEMMA ReasonsOf ==
  ASSUME IsFiniteSet(found), \A e \in found : e.points \in Nat /\ e.family \in Families, NEW v
  PROVE  /\ Reasons(v) \in SUBSET Weighed(v)
         /\ \A e \in Weighed(v) : \E d \in Reasons(v) : d.family = e.family /\ d.points >= e.points
<1> DEFINE OfIt(f) == {e \in Weighed(v) : e.family = f}
           size(f) == Smaller(Cardinality(OfIt(f)), Budget(f).reasons)
           TopOf(f) == CHOOSE K \in kSubset(size(f), OfIt(f)) : \A e \in K, d \in OfIt(f) \ K : e.points >= d.points
           Fs == {e.family : e \in Weighed(v)}
<1>1. Reasons(v) = UNION {TopOf(f) : f \in Fs}
  BY DEF Reasons
<1>2. Weighed(v) \in SUBSET found /\ Fs \in SUBSET Families
  BY DEF Weighed
<1>3. \A f : OfIt(f) \in SUBSET found /\ IsFiniteSet(OfIt(f)) /\ Cardinality(OfIt(f)) \in Nat
  <2> TAKE f
  <2>1. OfIt(f) \in SUBSET found
    BY <1>2
  <2> HIDE DEF OfIt
  <2> QED
    BY <2>1, FS_Subset, FS_CardinalityType
<1>4. \A f \in Fs : size(f) \in Nat /\ size(f) <= Cardinality(OfIt(f))
                    /\ (Cardinality(OfIt(f)) # 0 => size(f) # 0)
  <2> TAKE f \in Fs
  <2>1. Budget(f).reasons \in Nat \ {0}
    BY <1>2, BudgetType
  <2> HIDE DEF OfIt
  <2> QED
    BY <1>3, <2>1 DEF Smaller
<1>5. \A f \in Fs : /\ TopOf(f) \in kSubset(size(f), OfIt(f))
                    /\ \A e \in TopOf(f), d \in OfIt(f) \ TopOf(f) : e.points >= d.points
  <2> TAKE f \in Fs
  <2>1. \A e \in OfIt(f) : e.points \in Nat
    BY <1>3
  <2>2. IsFiniteSet(OfIt(f)) /\ size(f) \in Nat /\ size(f) <= Cardinality(OfIt(f))
    BY <1>3, <1>4
  <2> HIDE DEF OfIt, size
  <2>3. \E K \in kSubset(size(f), OfIt(f)) : \A e \in K, d \in OfIt(f) \ K : e.points >= d.points
    BY <2>1, <2>2, Strongest
  <2> QED
    BY <2>3
<1> HIDE DEF TopOf, size
<1>6. \A f \in Fs : TopOf(f) \in SUBSET OfIt(f) /\ Cardinality(TopOf(f)) = size(f)
  BY <1>5 DEF kSubset
<1>7. Reasons(v) \in SUBSET Weighed(v)
  BY <1>1, <1>6
<1>8. ASSUME NEW e \in Weighed(v)
      PROVE  \E d \in Reasons(v) : d.family = e.family /\ d.points >= e.points
  <2> DEFINE f == e.family
  <2>1. f \in Fs /\ e \in OfIt(f)
    BY <1>8
  <2>2. TopOf(f) # {}
    <3>1. OfIt(f) # {} /\ Cardinality(OfIt(f)) # 0
      BY <1>3, <2>1, FS_EmptySet
    <3>2. Cardinality(TopOf(f)) # 0
      BY <1>4, <1>6, <2>1, <3>1
    <3> QED
      BY <3>2, FS_EmptySet
  <2>3. \E d \in TopOf(f) : d.points >= e.points
    <3>1. CASE e \in TopOf(f)
      <4>1. e.points \in Nat
        BY <1>2
      <4> QED
        BY <3>1, <4>1
    <3>2. CASE e \notin TopOf(f)
      <4>1. e \in OfIt(f) \ TopOf(f)
        BY <2>1, <3>2
      <4> HIDE DEF f, OfIt
      <4> QED
        BY <1>5, <2>1, <2>2, <4>1
    <3> QED
      BY <3>1, <3>2
  <2>4. TopOf(f) \in SUBSET Reasons(v)
    BY <1>1, <2>1
  <2>5. \A d \in TopOf(f) : d.family = f
    BY <1>6, <2>1
  <2> HIDE DEF f, OfIt, Fs
  <2> QED
    BY <2>3, <2>4, <2>5 DEF f
<1> QED
  BY <1>7, <1>8

\* What the caps leave of reasons R.
LEMMA CappedOf ==
  ASSUME NEW R, IsFiniteSet(R), \A e \in R : e.points \in Nat
  PROVE  /\ Capped(R) \in Nat
         /\ (\A e \in R : e.family = "translation_variant") => Capped(R) <= SoleEvidenceCap
         /\ (\A e \in R : e.family \notin Authoritative) => Capped(R) <= WeakAggregateCap
         /\ \A e \in R : e.family = "exact_phrase" => e.points <= Capped(R)
         /\ \A e \in R : e.family = "token_overlap" /\ e.points > 6 => Capped(R) > 6
<1> DEFINE weak == {e \in R : e.family \notin Authoritative}
           correlated == {e \in weak : e.family = "cross_reference"}
           rest == Points(weak \ correlated) + Smaller(CorrelationCap, Points(correlated))
           total == Points(R \ weak) + Smaller(WeakAggregateCap, rest)
<1>1. Capped(R) = IF \A e \in R : e.family = "translation_variant" THEN Smaller(SoleEvidenceCap, total) ELSE total
  BY DEF Capped
<1>2. \A T \in SUBSET R : /\ Points(T) \in Nat /\ (T = {} => Points(T) = 0)
                          /\ \A e \in T : e.points <= Points(T)
  <2> TAKE T \in SUBSET R
  <2>1. IsFiniteSet(T)
    BY FS_Subset
  <2> QED
    BY <2>1, PointsAdd
<1>3. weak \in SUBSET R /\ correlated \in SUBSET R /\ weak \ correlated \in SUBSET R /\ R \ weak \in SUBSET R
  OBVIOUS
<1>4. (\A e \in R : e.family \notin Authoritative) => R \ weak = {}
  OBVIOUS
<1>5. \A e \in R : e.family = "exact_phrase" => e \in R \ weak /\ ~ \A d \in R : d.family = "translation_variant"
  BY DEF Authoritative
<1>5a. \A e \in R : e.family = "token_overlap" =>
         e \in weak \ correlated /\ ~ \A d \in R : d.family = "translation_variant"
  BY DEF Authoritative
<1> HIDE DEF weak, correlated
<1>6. rest \in Nat /\ rest >= Points(weak \ correlated) /\ Points(weak \ correlated) \in Nat
  <2>1. Points(weak \ correlated) \in Nat /\ Points(correlated) \in Nat
    BY <1>2, <1>3
  <2>2. Smaller(CorrelationCap, Points(correlated)) \in Nat
    BY <2>1, SmallerOf DEF CorrelationCap
  <2> QED
    BY <2>1, <2>2
<1> HIDE DEF rest
<1> DEFINE aside == Smaller(WeakAggregateCap, rest)
<1>7. aside \in Nat /\ aside <= WeakAggregateCap
  BY <1>6, SmallerOf DEF WeakAggregateCap
<1>7a. rest > 6 => aside > 6
  BY <1>6 DEF Smaller, WeakAggregateCap
<1>8. Points(R \ weak) \in Nat
  BY <1>2, <1>3
<1>9. total = Points(R \ weak) + aside
  OBVIOUS
<1> HIDE DEF total, aside
<1>10. total \in Nat
  BY <1>7, <1>8, <1>9
<1>11. Capped(R) \in Nat /\ Capped(R) <= total
       /\ ((\A e \in R : e.family = "translation_variant") => Capped(R) <= SoleEvidenceCap)
  BY <1>1, <1>10, SmallerOf DEF SoleEvidenceCap
<1>12. ASSUME \A e \in R : e.family \notin Authoritative PROVE Capped(R) <= WeakAggregateCap
  <2>1. Points(R \ weak) = 0
    BY <1>2, <1>3, <1>4, <1>12
  <2>2. total <= WeakAggregateCap
    BY <1>7, <1>9, <2>1 DEF WeakAggregateCap
  <2> QED
    BY <1>10, <1>11, <2>2 DEF WeakAggregateCap
<1>13. ASSUME NEW e \in R, e.family = "exact_phrase" PROVE e.points <= Capped(R)
  <2>1. Capped(R) = total
    BY <1>1, <1>5, <1>13
  <2>2. e.points <= Points(R \ weak)
    BY <1>2, <1>3, <1>5, <1>13
  <2> QED
    BY <1>7, <1>8, <1>9, <2>1, <2>2
<1>14. ASSUME NEW e \in R, e.family = "token_overlap", e.points > 6 PROVE Capped(R) > 6
  <2>1. Capped(R) = total
    BY <1>1, <1>5a, <1>14
  <2>2. e.points <= Points(weak \ correlated) /\ e.points \in Nat
    BY <1>2, <1>3, <1>5a, <1>14
  <2>3. rest > 6
    BY <1>6, <1>14, <2>2
  <2> QED
    BY <1>7, <1>7a, <1>8, <1>9, <2>1, <2>3
<1> QED
  BY <1>11, <1>12, <1>13, <1>14

\* f is computed step by step from its value at zero.
Stepwise(f, m, base, G) == f = [n \in 0..m |-> IF n = 0 THEN base ELSE G[<<n, f[n - 1]>>]]

\* There is such a function.
LEMMA Recursion ==
  ASSUME NEW D, NEW base \in D, NEW m \in Nat, NEW G \in [(1..m) \X D -> D]
  PROVE  \E f \in [0..m -> D] : Stepwise(f, m, base, G)
<1> DEFINE Steps(f, k) == \A n \in 0..k : f[n] = IF n = 0 THEN base ELSE G[<<n, f[n - 1]>>]
           Built == {k \in 0..m : \E f \in [0..k -> D] : Steps(f, k)}
<1>1. 0 \in Built
  <2> DEFINE f0 == [n \in 0..0 |-> base]
  <2>1. f0 \in [0..0 -> D] /\ Steps(f0, 0)
    OBVIOUS
  <2> HIDE DEF f0, Steps
  <2> QED
    BY <2>1
<1>2. ASSUME NEW k \in 1..m, k - 1 \in Built PROVE k \in Built
  <2>1. PICK f \in [0..k - 1 -> D] : Steps(f, k - 1)
    BY <1>2
  <2>2. k - 1 \in 0..k - 1 /\ k \in Nat /\ k - 1 \in Nat
    OBVIOUS
  <2>3. G[<<k, f[k - 1]>>] \in D
    BY <2>2
  <2> DEFINE g == [n \in 0..k |-> IF n = k THEN G[<<k, f[k - 1]>>] ELSE f[n]]
  <2>4. \A n \in 0..k : n # k => n \in 0..k - 1 /\ n - 1 # k
    OBVIOUS
  <2>5. \A n \in 0..k : n # 0 => n - 1 \in 0..k - 1 /\ n - 1 # k /\ n - 1 \in 0..k
    OBVIOUS
  <2>6. g \in [0..k -> D]
    BY <2>3, <2>4
  <2>7. \A n \in 0..k - 1 : n \in 0..k /\ n # k
    OBVIOUS
  <2>8. \A n \in 0..k - 1 : g[n] = f[n]
    BY <2>7
  <2>9. k \in 0..k /\ k # 0
    OBVIOUS
  <2>10. g[k] = G[<<k, f[k - 1]>>]
    BY <2>9
  <2> HIDE DEF g
  <2>11. Steps(g, k)
    <3> SUFFICES ASSUME NEW n \in 0..k PROVE g[n] = IF n = 0 THEN base ELSE G[<<n, g[n - 1]>>]
      OBVIOUS
    <3>1. n # 0 => g[n - 1] = f[n - 1]
      BY <2>5, <2>8
    <3>2. CASE n = k
      BY <2>9, <2>10, <3>1, <3>2
    <3>3. CASE n # k
      <4>1. n \in 0..k - 1 /\ g[n] = f[n]
        BY <2>4, <2>8, <3>3
      <4>2. f[n] = IF n = 0 THEN base ELSE G[<<n, f[n - 1]>>]
        BY <2>1, <4>1
      <4> QED
        BY <3>1, <4>1, <4>2
    <3> QED
      BY <3>2, <3>3
  <2> HIDE DEF Steps
  <2> QED
    BY <2>6, <2>11
<1>3. m \in Built
  <2> HIDE DEF Built
  <2>1. \A k \in 0..m : k \in Built
    BY <1>1, <1>2, Reaches
  <2> QED
    BY <2>1
<1>4. PICK f \in [0..m -> D] : Steps(f, m)
  BY <1>3
<1>5. f = [n \in 0..m |-> f[n]]
  OBVIOUS
<1>6. f = [n \in 0..m |-> IF n = 0 THEN base ELSE G[<<n, f[n - 1]>>]]
  BY <1>4, <1>5
<1> QED
  BY <1>6 DEF Stepwise

-----------------------------------------------------------------------------
(* The order and the thinning of rank *)

\* Of a verse with a reason the budgets leave points, and what they rest on.
Scored ==
  /\ Surviving \in SUBSET Verses
  /\ \A v \in Surviving : /\ scores[v].points \in Nat
                          /\ scores[v].direct \in BOOLEAN /\ scores[v].curated \in BOOLEAN

Wins == {x \in Surviving \X Surviving : Before(x[1], x[2])}

\* compareResults puts them in one line.
LEMMA Compared ==
  ASSUME Scored
  PROVE  /\ Lines(Surviving, Wins)
         /\ \A x, y \in Surviving : <<x, y>> \in Wins <=> Before(x, y)
         /\ \A x, y \in Surviving : x # y => (Before(x, y) <=> ~Before(y, x))
<1>1. \A x, y \in Surviving : <<x, y>> \in Wins <=> Before(x, y)
  BY DEF Wins
<1>2. \A x \in Surviving : ~Before(x, x)
  <2> TAKE x \in Surviving
  <2>1. x \in Nat /\ scores[x].points \in Nat
    BY CorpusAssumption DEF Scored
  <2>2. ~(x < x) /\ ~(scores[x].points > scores[x].points)
    BY <2>1
  <2> QED
    BY <2>2 DEF Before
<1>3. \A x, y \in Surviving : x # y => (Before(x, y) <=> ~Before(y, x))
  <2> TAKE x, y \in Surviving
  <2> HAVE x # y
  <2> DEFINE da == scores[x].direct  db == scores[y].direct
             ca == scores[x].curated cb == scores[y].curated
             p == scores[x].points q == scores[y].points
  <2>1. x \in Nat /\ y \in Nat /\ p \in Nat /\ q \in Nat
    BY CorpusAssumption DEF Scored
  <2>2. da \in BOOLEAN /\ db \in BOOLEAN /\ ca \in BOOLEAN /\ cb \in BOOLEAN
    BY DEF Scored
  <2>3. /\ Before(x, y) <=> \/ p > q
                            \/ p = q /\ da /\ ~db
                            \/ p = q /\ da = db /\ ca /\ ~cb
                            \/ p = q /\ da = db /\ ca = cb /\ x < y
        /\ Before(y, x) <=> \/ q > p
                            \/ q = p /\ db /\ ~da
                            \/ q = p /\ db = da /\ cb /\ ~ca
                            \/ q = p /\ db = da /\ cb = ca /\ y < x
    BY DEF Before
  <2> HIDE DEF da, db, ca, cb, p, q
  <2>4. (p > q \/ q > p \/ p = q) /\ ~(p > q /\ q > p) /\ ~(p = q /\ p > q) /\ ~(p = q /\ q > p)
    BY <2>1
  <2>5. (x < y \/ y < x) /\ ~(x < y /\ y < x)
    BY <2>1
  <2> QED
    BY <2>2, <2>3, <2>4, <2>5
<1>4. \A x, y, c \in Surviving : Before(x, y) /\ Before(y, c) => Before(x, c)
  <2> TAKE x, y, c \in Surviving
  <2> HAVE Before(x, y) /\ Before(y, c)
  <2> DEFINE da == scores[x].direct  db == scores[y].direct dc == scores[c].direct
             ca == scores[x].curated cb == scores[y].curated cc == scores[c].curated
             p == scores[x].points q == scores[y].points r == scores[c].points
  <2>1. x \in Nat /\ y \in Nat /\ c \in Nat /\ p \in Nat /\ q \in Nat /\ r \in Nat
    BY CorpusAssumption DEF Scored
  <2>2. /\ da \in BOOLEAN /\ db \in BOOLEAN /\ dc \in BOOLEAN
        /\ ca \in BOOLEAN /\ cb \in BOOLEAN /\ cc \in BOOLEAN
    BY DEF Scored
  <2>3. /\ \/ p > q
           \/ p = q /\ da /\ ~db
           \/ p = q /\ da = db /\ ca /\ ~cb
           \/ p = q /\ da = db /\ ca = cb /\ x < y
        /\ \/ q > r
           \/ q = r /\ db /\ ~dc
           \/ q = r /\ db = dc /\ cb /\ ~cc
           \/ q = r /\ db = dc /\ cb = cc /\ y < c
    BY DEF Before
  <2>4. Before(x, c) <=> \/ p > r
                         \/ p = r /\ da /\ ~dc
                         \/ p = r /\ da = dc /\ ca /\ ~cc
                         \/ p = r /\ da = dc /\ ca = cc /\ x < c
    BY DEF Before
  <2> HIDE DEF da, db, dc, ca, cb, cc, p, q, r
  <2>5. /\ p > q /\ q > r => p > r
        /\ p > q /\ q = r => p > r
        /\ p = q /\ q > r => p > r
        /\ p = q /\ q = r => p = r
    BY <2>1
  <2>6. x < y /\ y < c => x < c
    BY <2>1
  <2> QED
    BY <2>2, <2>3, <2>4, <2>5, <2>6
<1>5. Lines(Surviving, Wins)
  BY <1>1, <1>2, <1>3, <1>4 DEF Lines
<1> QED
  BY <1>1, <1>3, <1>5

\* A function on 1..n is a sequence.
LEMMA AsSeq ==
  ASSUME NEW S, NEW n \in Nat, NEW f \in [1..n -> S]
  PROVE  f \in Seq(S) /\ Len(f) = n /\ DOMAIN f = 1..n
<1>1. f \in Seq(S)
  BY SeqDef, Zenon
<1>2. DOMAIN f = 1..n /\ DOMAIN f = 1..Len(f) /\ Len(f) \in Nat
  BY <1>1, LenProperties
<1>3. Len(f) = n
  <2>1. \A x, y \in Nat : 1..x = 1..y => x = y
    <3> TAKE x, y \in Nat
    <3> HAVE 1..x = 1..y
    <3>1. Cardinality(1..x) = IF 1 > x THEN 0 ELSE x - 1 + 1
      BY FS_Interval
    <3>2. Cardinality(1..y) = IF 1 > y THEN 0 ELSE y - 1 + 1
      BY FS_Interval
    <3> QED
      BY <3>1, <3>2
  <2> QED
    BY <1>2, <2>1
<1> QED
  BY <1>1, <1>2, <1>3

Once(s) == \A i, j \in DOMAIN s : s[i] = s[j] => i = j

LEMMA AppendOnce ==
  ASSUME NEW S, NEW s \in Seq(S), NEW x \in S
  PROVE  /\ Append(s, x) \in Seq(S) /\ Len(Append(s, x)) = Len(s) + 1
         /\ ToSet(Append(s, x)) = ToSet(s) \cup {x}
         /\ Once(s) /\ x \notin ToSet(s) => Once(Append(s, x))
<1> DEFINE t == Append(s, x)
           n == Len(s)
<1>1. /\ t \in Seq(S) /\ Len(t) = n + 1 /\ \A i \in 1..n : t[i] = s[i]
      /\ t[n + 1] = x
  BY AppendProperties
<1>2. n \in Nat /\ DOMAIN s = 1..n /\ DOMAIN t = 1..Len(t)
  BY <1>1, LenProperties
<1> HIDE DEF t, n
<1>3. DOMAIN t = 1..n + 1
  BY <1>1, <1>2
<1>4. \A i \in 1..n + 1 : i \in 1..n \/ i = n + 1
  BY <1>2
<1>5. \A i \in 1..n : i \in 1..n + 1
  BY <1>2
<1>6. n + 1 \in 1..n + 1
  BY <1>2
<1>7. ToSet(t) = ToSet(s) \cup {x}
  <2>1. ToSet(t) = {t[i] : i \in 1..n + 1} /\ ToSet(s) = {s[i] : i \in 1..n}
    BY <1>2, <1>3 DEF ToSet
  <2>2. \A y : y \in {t[i] : i \in 1..n + 1} <=> y \in {s[i] : i \in 1..n} \cup {x}
    BY <1>1, <1>4, <1>5, <1>6
  <2> QED
    BY <2>1, <2>2
<1>8. ASSUME Once(s), x \notin ToSet(s) PROVE Once(t)
  <2>1. \A i \in 1..n : s[i] # x
    BY <1>2, <1>8 DEF ToSet
  <2> QED
    BY <1>1, <1>2, <1>3, <1>4, <1>8, <2>1 DEF Once
<1> QED
  BY <1>1, <1>7, <1>8 DEF t, n

LEMMA ConcatOnce ==
  ASSUME NEW S, NEW s \in Seq(S), NEW d \in Seq(S), Once(s), Once(d), ToSet(s) \cap ToSet(d) = {},
         NEW t \in Nat, t <= Len(d)
  PROVE  /\ s \o SubSeq(d, 1, t) \in Seq(S) /\ Len(s \o SubSeq(d, 1, t)) = Len(s) + t
         /\ Once(s \o SubSeq(d, 1, t))
         /\ ToSet(s) \subseteq ToSet(s \o SubSeq(d, 1, t))
         /\ ToSet(s \o SubSeq(d, 1, t)) \subseteq S
         /\ t = Len(d) => ToSet(d) \subseteq ToSet(s \o SubSeq(d, 1, t))
         /\ t = 0 => ToSet(s \o SubSeq(d, 1, t)) = ToSet(s)
<1> DEFINE e == SubSeq(d, 1, t)
           r == s \o e
           n == Len(s)
<1>1. Len(d) \in Nat /\ DOMAIN d = 1..Len(d) /\ n \in Nat /\ DOMAIN s = 1..n
  BY LenProperties
<1>2. \A i \in 1..t : i \in 1..Len(d) /\ d[i] \in S
  <2> TAKE i \in 1..t
  <2>1. i \in 1..Len(d)
    BY <1>1
  <2> QED
    BY <2>1, ElementOfSeq
<1>3. e \in Seq(S) /\ Len(e) = t /\ \A i \in 1..t : e[i] = d[i]
  <2>1. /\ e \in Seq(S) /\ Len(e) = IF 1 <= t THEN t - 1 + 1 ELSE 0
        /\ \A i \in 1..t - 1 + 1 : e[i] = d[1 + i - 1]
    BY <1>2, SubSeqProperties
  <2>2. t - 1 + 1 = t /\ \A i \in 1..t : 1 + i - 1 = i
    OBVIOUS
  <2> HIDE DEF e
  <2> QED
    BY <2>1, <2>2
<1> HIDE DEF e
<1>4. /\ r \in Seq(S) /\ Len(r) = n + t
      /\ \A i \in 1..n + t : r[i] = IF i <= n THEN s[i] ELSE e[i - n]
  <2>1. /\ s \o e \in Seq(S) /\ Len(s \o e) = Len(s) + Len(e)
        /\ \A i \in 1..Len(s) + Len(e) : (s \o e)[i] = IF i <= Len(s) THEN s[i] ELSE e[i - Len(s)]
    BY <1>3, ConcatProperties
  <2> QED
    BY <1>3, <2>1
<1> HIDE DEF r, n
<1>5. DOMAIN r = 1..n + t
  BY <1>4, LenProperties
<1>6. \A i \in 1..n + t : i <= n => i \in 1..n /\ r[i] = s[i]
  BY <1>1, <1>4
<1>7. \A i \in 1..n + t : ~(i <= n) => i - n \in 1..t /\ r[i] = d[i - n]
  BY <1>1, <1>3, <1>4
<1>8. \A i \in 1..n : i \in 1..n + t /\ r[i] = s[i]
  BY <1>1, <1>4
<1>9. \A i \in 1..t : n + i \in 1..n + t /\ r[n + i] = d[i]
  <2> TAKE i \in 1..t
  <2>1. n + i \in 1..n + t /\ ~(n + i <= n) /\ (n + i) - n = i
    BY <1>1
  <2> QED
    BY <1>7, <2>1
<1>10. \A i \in 1..n, j \in 1..t : s[i] # d[j]
  BY <1>1, <1>2 DEF ToSet
<1>11. Once(r)
  <2> SUFFICES ASSUME NEW i \in 1..n + t, NEW j \in 1..n + t, r[i] = r[j] PROVE i = j
    BY <1>5 DEF Once
  <2>1. CASE i <= n /\ j <= n
    BY <1>1, <1>6, <2>1 DEF Once
  <2>2. CASE ~(i <= n) /\ ~(j <= n)
    <3>1. i - n = j - n
      BY <1>1, <1>2, <1>7, <2>2 DEF Once
    <3> QED
      BY <1>1, <3>1
  <2>3. CASE (i <= n /\ ~(j <= n)) \/ (~(i <= n) /\ j <= n)
    BY <1>6, <1>7, <1>10, <2>3
  <2> QED
    BY <2>1, <2>2, <2>3
<1>12. ToSet(s) \subseteq ToSet(r)
  BY <1>1, <1>5, <1>8 DEF ToSet
<1>13. ToSet(r) \subseteq S
  <2>1. \A i \in 1..n + t : r[i] \in S
    BY <1>4, ElementOfSeq
  <2> QED
    BY <1>5, <2>1 DEF ToSet
<1>14. t = Len(d) => ToSet(d) \subseteq ToSet(r)
  BY <1>1, <1>5, <1>9 DEF ToSet
<1>15. t = 0 => ToSet(r) = ToSet(s)
  <2> HAVE t = 0
  <2>1. \A i \in 1..n + t : i \in 1..n
    BY <1>1
  <2>2. ToSet(r) \subseteq ToSet(s)
    BY <1>1, <1>5, <1>8, <2>1 DEF ToSet
  <2> QED
    BY <1>12, <2>2
<1> QED
  BY <1>4, <1>11, <1>12, <1>13, <1>14, <1>15 DEF r, e, n

\* What rank puts out: nothing twice; and what it leaves out of a full list is no direct
\* match, or comes after all that is in it.
Emitted(R, limit) ==
  /\ R \in Seq(Surviving) /\ Once(R)
  /\ \A v \in Surviving \ ToSet(R) : /\ Len(R) = limit
                                     /\ scores[v].direct => \A u \in ToSet(R) : Before(u, v)

LEMMA RankedOf ==
  ASSUME Scored, NEW limit \in Nat
  PROVE  Emitted(Ranked(limit), limit)
<1> DEFINE S == Surviving
           o == InOrder(S, {x \in Surviving \X Surviving : Before(x[1], x[2])})
           N == Cardinality(S)
           pass[n \in 0..Len(o)] ==
             IF n = 0 THEN [out |-> <<>>, deferred |-> <<>>] ELSE Placed(pass[n - 1], o[n], limit)
           end == pass[Len(o)]
           t == Smaller(Len(end.deferred), limit - Len(end.out))
<1>1. Ranked(limit) = end.out \o SubSeq(end.deferred, 1, t)
  BY DEF Ranked
<1>2. o = InOrder(S, Wins)
  BY DEF Wins
<1>3. IsFiniteSet(S)
  BY FS_Subset, CorpusAssumption DEF Scored
<1>4. /\ N \in Nat /\ o \in [1..N -> S]
      /\ \A x \in S : \E i \in 1..N : o[i] = x
      /\ \A i, j \in 1..N : i < j <=> <<o[i], o[j]>> \in Wins
  <2> HIDE DEF S, o
  <2> QED
    BY <1>2, <1>3, Compared, Sorted DEF S
<1>5. \A i, j \in 1..N : i < j => Before(o[i], o[j]) /\ o[i] # o[j]
  <2> TAKE i, j \in 1..N
  <2> HAVE i < j
  <2>1. <<o[i], o[j]>> \in Wins /\ o[i] \in S /\ o[j] \in S
    BY <1>4
  <2> HIDE DEF o, N
  <2>2. Before(o[i], o[j])
    BY <2>1, Compared
  <2>3. <<o[i], o[i]>> \notin Wins
    BY <2>1, Compared DEF Lines
  <2> QED
    BY <2>1, <2>2, <2>3
<1>6. \A i, j \in 1..N : o[i] = o[j] => i = j
  <2> HIDE DEF o, S
  <2>1. \A i, j \in 1..N : i < j \/ j < i \/ i = j
    BY <1>4
  <2> QED
    BY <1>5, <2>1
<1>7. Len(o) = N
  <2> HIDE DEF o, S
  <2> QED
    BY <1>4, AsSeq
<1> HIDE DEF o, N
<1> DEFINE D == [out : Seq(S), deferred : Seq(S)]
           base == [out |-> <<>>, deferred |-> <<>>]
           G == [x \in (1..N) \X D |-> Placed(x[2], o[x[1]], limit)]
           Passes(f) == f = [n \in 0..Len(o) |-> IF n = 0 THEN [out |-> <<>>, deferred |-> <<>>]
                                                 ELSE Placed(f[n - 1], o[n], limit)]
<1>8. base \in D
  OBVIOUS
<1>9. \A p \in D, v \in S : Placed(p, v, limit) \in D
  <2> TAKE p \in D, v \in S
  <2>1. Append(p.out, v) \in Seq(S) /\ Append(p.deferred, v) \in Seq(S)
    BY AppendProperties
  <2> HIDE DEF S
  <2> QED
    BY <2>1 DEF Placed
<1>10. G \in [(1..N) \X D -> D]
  <2> HIDE DEF D
  <2> QED
    BY <1>4, <1>9
<1>11. \E f : Passes(f) /\ f \in [0..N -> D]
  <2> HIDE DEF D, S
  <2>0. PICK f \in [0..N -> D] : Stepwise(f, N, base, G)
    <3> HIDE DEF G, base
    <3> QED
      BY <1>4, <1>8, <1>10, Recursion
  <2>1. f = [n \in 0..N |-> IF n = 0 THEN base ELSE G[<<n, f[n - 1]>>]]
    BY <2>0 DEF Stepwise
  <2>2. \A n \in 0..N : n # 0 => n \in 1..N /\ n - 1 \in 0..N
    BY <1>4
  <2>3. \A n \in 0..N : n # 0 => G[<<n, f[n - 1]>>] = Placed(f[n - 1], o[n], limit)
    <3> TAKE n \in 0..N
    <3> HAVE n # 0
    <3>1. f[n - 1] \in D /\ n \in 1..N
      BY <2>2
    <3> QED
      BY <3>1
  <2>4. \A n \in 0..N : f[n] = IF n = 0 THEN base ELSE Placed(f[n - 1], o[n], limit)
    BY <2>1, <2>3
  <2>5. f = [n \in 0..N |-> f[n]]
    OBVIOUS
  <2>6. f = [n \in 0..N |-> IF n = 0 THEN base ELSE Placed(f[n - 1], o[n], limit)]
    BY <2>4, <2>5
  <2> QED
    BY <1>7, <2>6
<1>12. Passes(pass)
  <2>1. pass = CHOOSE f : Passes(f)
    BY DEF pass
  <2> HIDE DEF pass, Passes
  <2> QED
    BY <1>11, <2>1
<1> HIDE DEF pass
<1>13. pass[0] = base /\ \A n \in 1..N : pass[n] = Placed(pass[n - 1], o[n], limit)
  <2>1. \A n \in 1..N : n \in 0..N /\ n # 0
    BY <1>4
  <2>2. 0 \in 0..N
    BY <1>4
  <2> HIDE DEF D, S
  <2> QED
    BY <1>7, <1>12, <2>1, <2>2
<1> DEFINE SeenAt(n) == {o[i] : i \in 1..n}
           Kept(p, n) ==
             /\ Len(p.out) <= limit
             /\ ToSet(p.out) \subseteq SeenAt(n) /\ ToSet(p.deferred) \subseteq SeenAt(n)
             /\ \A v \in ToSet(p.deferred) : ~scores[v].direct
             /\ Once(p.out) /\ Once(p.deferred) /\ ToSet(p.out) \cap ToSet(p.deferred) = {}
             /\ \A i \in 1..n : \/ o[i] \in ToSet(p.out)
                                \/ o[i] \in ToSet(p.deferred)
                                \/ Len(p.out) = limit /\ ToSet(p.out) \subseteq SeenAt(i - 1)
           Fine == {n \in 0..N : pass[n] \in D /\ Kept(pass[n], n)}
<1>14. 0 \in Fine
  <2>1. ToSet(base.out) = {} /\ ToSet(base.deferred) = {} /\ Once(base.out) /\ Once(base.deferred)
        /\ Len(base.out) = 0
    BY DEF ToSet, Once
  <2> HIDE DEF base, SeenAt, D
  <2> QED
    BY <1>4, <1>8, <1>13, <2>1
<1>15. ASSUME NEW n \in 1..N, n - 1 \in Fine PROVE n \in Fine
  <2> DEFINE p == pass[n - 1]
             v == o[n]
             q == pass[n]
  <2>1. p \in D /\ Kept(p, n - 1) /\ q = Placed(p, v, limit) /\ v \in S /\ n \in 0..N
    <3> HIDE DEF Kept, D, S
    <3> QED
      BY <1>4, <1>13, <1>15
  <2>2. q \in D
    <3> HIDE DEF D, S, p, v, q
    <3> QED
      BY <1>9, <2>1
  <2>3. v \notin SeenAt(n - 1) /\ v \in SeenAt(n) /\ SeenAt(n - 1) \subseteq SeenAt(n)
    <3>1. \A i \in 1..n - 1 : i \in 1..N /\ i # n /\ i \in 1..n
      BY <1>4
    <3>2. n \in 1..n
      BY <1>4
    <3> QED
      BY <1>6, <3>1, <3>2
  <2>4. \A i \in 1..n : i \in 1..n - 1 \/ i = n
    BY <1>4
  <2> HIDE DEF SeenAt
  <2>5. v \notin ToSet(p.out) /\ v \notin ToSet(p.deferred)
    BY <2>1, <2>3
  <2>6. p.out \in Seq(S) /\ p.deferred \in Seq(S)
    BY <2>1
  <2>7. /\ Len(Append(p.out, v)) = Len(p.out) + 1
        /\ ToSet(Append(p.out, v)) = ToSet(p.out) \cup {v}
        /\ Once(Append(p.out, v))
    <3> HIDE DEF p, v, S
    <3> QED
      BY <2>1, <2>5, <2>6, AppendOnce
  <2>8. /\ ToSet(Append(p.deferred, v)) = ToSet(p.deferred) \cup {v}
        /\ Once(Append(p.deferred, v))
    <3> HIDE DEF p, v, S
    <3> QED
      BY <2>1, <2>5, <2>6, AppendOnce
  <2>9. Len(p.out) \in Nat
    <3> HIDE DEF p
    <3> QED
      BY <2>6, LenProperties
  <2> HIDE DEF p, v, q
  <2>10. CASE Len(p.out) >= limit
    <3>1. q = p
      BY <2>1, <2>10 DEF Placed
    <3>2. Len(p.out) = limit
      BY <2>1, <2>9, <2>10
    <3>3. Kept(p, n)
      BY <2>1, <2>3, <2>4, <3>2 DEF v
    <3> QED
      BY <2>1, <2>2, <3>1, <3>3 DEF q
  <2>11. CASE Len(p.out) < limit /\ Thinned(v, p.out)
    <3>1. q = [p EXCEPT !.deferred = Append(@, v)]
      BY <2>1, <2>9, <2>11 DEF Placed
    <3>2. q.out = p.out /\ q.deferred = Append(p.deferred, v)
      BY <2>1, <3>1
    <3>3. ~scores[v].direct
      BY <2>11 DEF Thinned
    <3>4. Kept(q, n)
      BY <2>1, <2>3, <2>4, <2>5, <2>8, <2>9, <2>11, <3>2, <3>3 DEF v
    <3> QED
      BY <2>1, <2>2, <3>4 DEF q
  <2>12. CASE Len(p.out) < limit /\ ~Thinned(v, p.out)
    <3>1. q = [p EXCEPT !.out = Append(@, v)]
      BY <2>1, <2>9, <2>12 DEF Placed
    <3>2. q.out = Append(p.out, v) /\ q.deferred = p.deferred
      BY <2>1, <3>1
    <3>3. Len(p.out) + 1 <= limit /\ ~(Len(p.out) = limit)
      BY <2>9, <2>12
    <3>4. Kept(q, n)
      BY <2>1, <2>3, <2>4, <2>5, <2>7, <2>9, <2>12, <3>2, <3>3 DEF v
    <3> QED
      BY <2>1, <2>2, <3>4 DEF q
  <2> QED
    BY <2>9, <2>10, <2>11, <2>12
<1>16. N \in Fine
  <2> HIDE DEF Fine
  <2>1. \A n \in 0..N : n \in Fine
    BY <1>4, <1>14, <1>15, Reaches
  <2> QED
    BY <1>4, <2>1
<1>17. end \in D /\ Kept(end, N)
  <2> HIDE DEF Kept, D
  <2> QED
    BY <1>7, <1>16
<1> HIDE DEF end
<1> DEFINE k == Len(end.out)
           m == Len(end.deferred)
           R == end.out \o SubSeq(end.deferred, 1, t)
<1>18. end.out \in Seq(S) /\ end.deferred \in Seq(S)
  BY <1>17
<1>19. k \in Nat /\ m \in Nat /\ k <= limit
  <2>1. k <= limit
    BY <1>17
  <2> HIDE DEF S
  <2> QED
    BY <1>18, <2>1, LenProperties
<1>20. t \in Nat /\ t <= m /\ (t = m \/ k + t = limit) /\ (k = limit => t = 0)
  <2>1. limit - k \in Nat
    BY <1>19
  <2> HIDE DEF k, m
  <2>2. t = IF m <= limit - k THEN m ELSE limit - k
    BY DEF Smaller, k, m
  <2> HIDE DEF t
  <2> QED
    BY <1>19, <2>1, <2>2
<1> HIDE DEF t
<1>21. /\ R \in Seq(S) /\ Len(R) = k + t /\ Once(R) /\ ToSet(end.out) \subseteq ToSet(R)
       /\ t = m => ToSet(end.deferred) \subseteq ToSet(R)
       /\ t = 0 => ToSet(R) = ToSet(end.out)
  <2> HIDE DEF S, SeenAt
  <2> QED
    BY <1>17, <1>18, <1>20, ConcatOnce
<1> HIDE DEF R
<1>22. ASSUME NEW v \in S \ ToSet(R)
       PROVE  Len(R) = limit /\ (scores[v].direct => \A u \in ToSet(R) : Before(u, v))
  <2>1. PICK i \in 1..N : o[i] = v
    BY <1>4
  <2>2. \/ v \in ToSet(end.deferred)
        \/ k = limit /\ ToSet(end.out) \subseteq SeenAt(i - 1)
    <3> HIDE DEF SeenAt
    <3> QED
      BY <1>17, <1>21, <2>1
  <2>3. CASE v \in ToSet(end.deferred)
    <3>1. ~scores[v].direct
      BY <1>17, <2>3
    <3>2. t # m
      BY <1>21, <2>3
    <3> HIDE DEF k, m
    <3> QED
      BY <1>20, <1>21, <3>1, <3>2
  <2>4. CASE k = limit /\ ToSet(end.out) \subseteq SeenAt(i - 1)
    <3>1. t = 0 /\ ToSet(R) = ToSet(end.out)
      BY <1>20, <1>21, <2>4
    <3>2. Len(R) = limit
      <4> HIDE DEF k, m
      <4> QED
        BY <1>19, <1>21, <2>4, <3>1
    <3>3. \A j \in 1..i - 1 : j \in 1..N /\ j < i
      BY <1>4
    <3>4. \A u \in ToSet(R) : \E j \in 1..i - 1 : u = o[j]
      BY <2>4, <3>1
    <3>5. \A u \in ToSet(R) : Before(u, v)
      BY <1>5, <2>1, <3>3, <3>4
    <3> QED
      BY <3>2, <3>5
  <2> QED
    BY <2>2, <2>3, <2>4
<1> HIDE DEF Kept
<1> QED
  BY <1>1, <1>21, <1>22 DEF Emitted, R

-----------------------------------------------------------------------------
(* The rows of collapseRuns *)

\* i and j are ends of one stretch of a section.
Chain(R, i, j) == \A k \in Smaller(i, j)..(i + j - Smaller(i, j) - 1) : SameSection(R, k)
\* A curated span governs both.
Governed(R, i, j) == named[R[i]] # {} /\ named[R[j]] # {} /\ Governing(R[i], R) = Governing(R[j], R)

LEMMA TogetherIs ==
  \A R, i, j : Together(R, i, j) <=> i = j \/ Governed(R, i, j) \/ Chain(R, i, j)
BY Zenon DEF Together, Governed, Chain

LEMMA Chains ==
  ASSUME NEW R, NEW i \in Nat, NEW j \in Nat
  PROVE  /\ Chain(R, i, j) => Chain(R, j, i)
         /\ \A k \in Nat : Chain(R, i, j) /\ Chain(R, j, k) => Chain(R, i, k)
         /\ i # j /\ Chain(R, i, j) => named[R[i]] = {} /\ named[R[j]] = {}
         /\ \A x, y \in Nat : /\ Chain(R, i, j)
                              /\ \/ i <= x /\ x <= j /\ i <= y /\ y <= j
                                 \/ j <= x /\ x <= i /\ j <= y /\ y <= i
                              => Chain(R, x, y)
<1>1. \A x, y \in Nat : Chain(R, x, y) <=> \A k \in Nat : (x <= k /\ k < y) \/ (y <= k /\ k < x) => SameSection(R, k)
  <2> TAKE x, y \in Nat
  <2> DEFINE s == Smaller(x, y)
  <2>1. \A k : k \in s..(x + y - s - 1) <=> k \in Nat /\ ((x <= k /\ k < y) \/ (y <= k /\ k < x))
    <3>1. CASE x <= y
      <4>1. s = x /\ x + y - s - 1 = y - 1
        BY <3>1 DEF Smaller
      <4> HIDE DEF s
      <4> QED
        BY <3>1, <4>1
    <3>2. CASE ~(x <= y)
      <4>1. s = y /\ x + y - s - 1 = x - 1
        BY <3>2 DEF Smaller
      <4> HIDE DEF s
      <4> QED
        BY <3>2, <4>1
    <3> QED
      BY <3>1, <3>2
  <2>2. Chain(R, x, y) <=> \A k \in s..(x + y - s - 1) : SameSection(R, k)
    BY DEF Chain
  <2> HIDE DEF s
  <2> QED
    BY <2>1, <2>2
<1>2. Chain(R, i, j) => Chain(R, j, i)
  BY <1>1
<1>3. \A k \in Nat : Chain(R, i, j) /\ Chain(R, j, k) => Chain(R, i, k)
  BY <1>1
<1>4. ASSUME i # j, Chain(R, i, j) PROVE named[R[i]] = {} /\ named[R[j]] = {}
  <2>1. \A k : SameSection(R, k) => named[R[k]] = {} /\ named[R[k + 1]] = {}
    BY DEF SameSection, Sections
  <2>2. CASE i < j
    <3>1. SameSection(R, i)
      BY <1>1, <1>4, <2>2
    <3>2. j - 1 \in Nat /\ i <= j - 1 /\ j - 1 < j /\ (j - 1) + 1 = j
      BY <2>2
    <3>3. SameSection(R, j - 1)
      BY <1>1, <1>4, <3>2
    <3>4. named[R[(j - 1) + 1]] = {}
      BY <2>1, <3>3
    <3> QED
      BY <2>1, <3>1, <3>2, <3>4
  <2>3. CASE j < i
    <3>1. SameSection(R, j)
      BY <1>1, <1>4, <2>3
    <3>2. i - 1 \in Nat /\ j <= i - 1 /\ i - 1 < i /\ (i - 1) + 1 = i
      BY <2>3
    <3>3. SameSection(R, i - 1)
      BY <1>1, <1>4, <3>2
    <3>4. named[R[(i - 1) + 1]] = {}
      BY <2>1, <3>3
    <3> QED
      BY <2>1, <3>1, <3>2, <3>4
  <2> QED
    BY <1>4, <2>2, <2>3
<1>5. ASSUME NEW x \in Nat, NEW y \in Nat, Chain(R, i, j),
             \/ i <= x /\ x <= j /\ i <= y /\ y <= j
             \/ j <= x /\ x <= i /\ j <= y /\ y <= i
      PROVE  Chain(R, x, y)
  BY <1>1, <1>5
<1> QED
  BY <1>2, <1>3, <1>4, <1>5

\* To be in one row is an equivalence.
LEMMA Equivalence ==
  ASSUME NEW R, NEW i \in Nat, NEW j \in Nat, NEW k \in Nat
  PROVE  /\ Together(R, i, i)
         /\ Together(R, i, j) => Together(R, j, i)
         /\ Together(R, i, j) /\ Together(R, j, k) => Together(R, i, k)
<1>1. Together(R, i, i)
  BY TogetherIs
<1>2. ASSUME Together(R, i, j) PROVE Together(R, j, i)
  <2>1. Governed(R, i, j) => Governed(R, j, i)
    BY DEF Governed
  <2>2. Chain(R, i, j) => Chain(R, j, i)
    BY Chains
  <2> QED
    BY <1>2, <2>1, <2>2, TogetherIs
<1>3. ASSUME Together(R, i, j), Together(R, j, k), i # j, j # k PROVE Together(R, i, k)
  <2>1. Governed(R, i, j) \/ Chain(R, i, j)
    BY <1>3, TogetherIs
  <2>2. Governed(R, j, k) \/ Chain(R, j, k)
    BY <1>3, TogetherIs
  <2>3. Chain(R, i, j) => named[R[j]] = {}
    BY <1>3, Chains
  <2>4. Chain(R, j, k) => named[R[j]] = {}
    BY <1>3, Chains
  <2>5. Governed(R, i, j) /\ Governed(R, j, k) => Governed(R, i, k)
    BY DEF Governed
  <2>6. Chain(R, i, j) /\ Chain(R, j, k) => Chain(R, i, k)
    BY Chains
  <2>7. Governed(R, i, j) => named[R[j]] # {}
    BY DEF Governed
  <2>8. Governed(R, j, k) => named[R[j]] # {}
    BY DEF Governed
  <2> QED
    BY <2>1, <2>2, <2>3, <2>4, <2>5, <2>6, <2>7, <2>8, TogetherIs
<1> QED
  BY <1>1, <1>2, <1>3

\* f goes from p to q by steps of one.
Walks(f, p, q) == /\ \A k \in p..q : f[k] \in Int
                  /\ \A k \in p..q - 1 : f[k] - f[k + 1] \in {-1, 1}

\* Such a walk passes every number between its ends.
LEMMA Walked ==
  ASSUME NEW p \in Nat, NEW q \in Nat, p <= q, NEW f, NEW x \in Int, Walks(f, p, q),
         \/ f[p] <= x /\ x <= f[q]
         \/ f[p] >= x /\ x >= f[q]
  PROVE  \E k \in p..q : f[k] = x
<1> DEFINE d == q - p
<1>0. d \in Nat /\ q = p + d
  OBVIOUS
<1> HIDE DEF d
<1> SUFFICES ASSUME \A k \in p..q : f[k] # x PROVE FALSE
  OBVIOUS
<1>2. \A e \in 1..d : /\ p + (e - 1) \in p..q - 1 /\ (p + (e - 1)) + 1 = p + e
                      /\ p + (e - 1) \in p..q /\ p + e \in p..q
  BY <1>0
<1>3. \A e \in 1..d : /\ f[p + (e - 1)] \in Int /\ f[p + e] \in Int
                      /\ f[p + (e - 1)] - f[p + e] \in {-1, 1}
                      /\ f[p + e] # x /\ f[p + (e - 1)] # x
  <2> TAKE e \in 1..d
  <2>1. f[p + (e - 1)] - f[(p + (e - 1)) + 1] \in {-1, 1}
    BY <1>2 DEF Walks
  <2> QED
    BY <1>2, <2>1 DEF Walks
<1>4. f[p] \in Int /\ f[p + d] \in Int /\ p + 0 = p /\ f[p] # x /\ f[p + d] # x
  <2>1. p \in p..q /\ q \in p..q
    OBVIOUS
  <2> QED
    BY <1>0, <2>1 DEF Walks
<1>5. CASE f[p] <= x /\ x <= f[q]
  <2> DEFINE Under == {e \in 0..d : f[p + e] < x}
  <2>1. 0 \in Under
    BY <1>0, <1>4, <1>5
  <2>2. \A e \in 1..d : e - 1 \in Under => e \in Under
    <3> TAKE e \in 1..d
    <3> HAVE e - 1 \in Under
    <3>1. f[p + (e - 1)] < x
      OBVIOUS
    <3>2. f[p + e] < x
      BY <1>3, <3>1
    <3> QED
      BY <3>2
  <2> HIDE DEF Under
  <2>3. d \in Under
    <3>1. \A e \in 0..d : e \in Under
      BY <1>0, <2>1, <2>2, Reaches
    <3> QED
      BY <1>0, <3>1
  <2> QED
    BY <1>0, <1>4, <1>5, <2>3 DEF Under
<1>6. CASE f[p] >= x /\ x >= f[q]
  <2> DEFINE Above == {e \in 0..d : f[p + e] > x}
  <2>1. 0 \in Above
    BY <1>0, <1>4, <1>6
  <2>2. \A e \in 1..d : e - 1 \in Above => e \in Above
    <3> TAKE e \in 1..d
    <3> HAVE e - 1 \in Above
    <3>1. f[p + (e - 1)] > x
      OBVIOUS
    <3>2. f[p + e] > x
      BY <1>3, <3>1
    <3> QED
      BY <3>2
  <2> HIDE DEF Above
  <2>3. d \in Above
    <3>1. \A e \in 0..d : e \in Above
      BY <1>0, <2>1, <2>2, Reaches
    <3> QED
      BY <1>0, <3>1
  <2> QED
    BY <1>0, <1>4, <1>6, <2>3 DEF Above
<1> QED
  BY <1>5, <1>6

Members(R, i) == {R[j] : j \in {k \in DOMAIN R : Together(R, i, k)}}
Loudest(R, i) == Max({scores[v].points : v \in Members(R, i)})

LEMMA MembersOf ==
  ASSUME Scored, NEW R \in Seq(Surviving), NEW i \in DOMAIN R
  PROVE  /\ Members(R, i) \in SUBSET Nat /\ Members(R, i) # {} /\ IsFiniteSet(Members(R, i))
         /\ Members(R, i) \subseteq Surviving /\ Members(R, i) \subseteq Verses
         /\ \A v \in Members(R, i) : named[v] = {} => \A u \in Members(R, i) : named[u] = {}
<1>1. DOMAIN R = 1..Len(R) /\ Len(R) \in Nat /\ \A j \in DOMAIN R : R[j] \in Surviving /\ j \in Nat
  BY LenProperties, ElementOfSeq
<1>2. Members(R, i) \subseteq Surviving
  BY <1>1 DEF Members
<1>3. Surviving \subseteq Verses /\ Verses \subseteq Nat /\ IsFiniteSet(Verses)
  BY CorpusAssumption DEF Scored
<1>4. R[i] \in Members(R, i)
  BY <1>1, Equivalence DEF Members
<1>5. IsFiniteSet(Members(R, i))
  BY <1>2, <1>3, FS_Subset
<1>6. ASSUME NEW v \in Members(R, i), named[v] = {}, NEW u \in Members(R, i) PROVE named[u] = {}
  <2>1. PICK j \in DOMAIN R : v = R[j] /\ Together(R, i, j)
    BY DEF Members
  <2>2. PICK k \in DOMAIN R : u = R[k] /\ Together(R, i, k)
    BY DEF Members
  <2>3. j \in Nat /\ k \in Nat /\ i \in Nat
    BY <1>1
  <2>4. Together(R, j, k)
    BY <2>1, <2>2, <2>3, Equivalence
  <2>5. ~Governed(R, j, k)
    BY <1>6, <2>1 DEF Governed
  <2>6. j = k \/ Chain(R, j, k)
    BY <2>4, <2>5, TogetherIs
  <2> QED
    BY <1>6, <2>1, <2>2, <2>3, <2>6, Chains
<1> QED
  BY <1>2, <1>3, <1>4, <1>5, <1>6

\* The verses of a row that no curator named are a run.
LEMMA RunOf ==
  ASSUME Scored, NEW R \in Seq(Surviving), NEW i \in DOMAIN R,
         \A u \in Members(R, i) : named[u] = {}
  PROVE  Max(Members(R, i)) - Min(Members(R, i)) + 1 = Cardinality(Members(R, i))
<1> DEFINE M == Members(R, i)
           m == Min(M)
           w == Max(M)
<1>1. DOMAIN R = 1..Len(R) /\ Len(R) \in Nat /\ \A j \in DOMAIN R : R[j] \in Nat /\ j \in Nat
  <2>1. \A j \in DOMAIN R : R[j] \in Surviving
    BY LenProperties, ElementOfSeq
  <2>2. \A v \in Surviving : v \in Nat
    BY CorpusAssumption DEF Scored
  <2>3. DOMAIN R = 1..Len(R) /\ Len(R) \in Nat
    BY LenProperties
  <2>4. \A j \in 1..Len(R) : j \in Nat
    BY <2>3
  <2> QED
    BY <2>1, <2>2, <2>3, <2>4
<1>2. M \in SUBSET Nat /\ M # {} /\ IsFiniteSet(M)
  BY MembersOf
<1>3. m \in M /\ (\A y \in M : m <= y) /\ w \in M /\ \A y \in M : y <= w
  <2> HIDE DEF M
  <2> QED
    BY <1>2, MinMax
<1> HIDE DEF m, w
<1>4. PICK p \in DOMAIN R : m = R[p] /\ Together(R, i, p)
  BY <1>3 DEF Members
<1>5. PICK q \in DOMAIN R : w = R[q] /\ Together(R, i, q)
  BY <1>3 DEF Members
<1>6. p \in Nat /\ q \in Nat /\ i \in Nat
  BY <1>1
<1>7. p = q \/ Chain(R, p, q)
  <2>1. Together(R, p, q)
    BY <1>4, <1>5, <1>6, Equivalence
  <2>2. ~Governed(R, p, q)
    BY <1>3, <1>4 DEF Governed
  <2> QED
    BY <2>1, <2>2, TogetherIs
<1>8. \A k \in Nat : SameSection(R, k) => R[k] - R[k + 1] \in {-1, 1}
  BY DEF SameSection
<1>9. ASSUME NEW x \in m..w PROVE x \in M
  <2>1. \A k \in DOMAIN R : R[k] = x /\ (k = p \/ Chain(R, p, k)) => x \in M
    <3> TAKE k \in DOMAIN R
    <3> HAVE R[k] = x /\ (k = p \/ Chain(R, p, k))
    <3>1. k \in Nat
      BY <1>1
    <3>2. Together(R, p, k)
      BY <1>6, Equivalence, TogetherIs
    <3>3. Together(R, i, k)
      BY <1>4, <1>6, <3>1, <3>2, Equivalence
    <3> QED
      BY <3>3 DEF Members
  <2>2. x \in Int /\ m <= x /\ x <= w /\ m \in Nat /\ w \in Nat
    BY <1>2, <1>3
  <2>3. CASE p = q
    <3>1. R[p] = x
      BY <1>4, <1>5, <2>2, <2>3
    <3> QED
      BY <2>1, <3>1
  <2>4. CASE p < q
    <3>1. \A k \in p..q : k \in DOMAIN R /\ k \in Nat /\ p <= k /\ k <= q
      BY <1>1, <1>6
    <3>2. \A k \in p..q - 1 : k \in Nat /\ p <= k /\ k < q /\ k + 1 \in Nat /\ k + 1 <= q
      BY <1>6
    <3>3. \A k \in p..q - 1 : SameSection(R, k)
      <4> TAKE k \in p..q - 1
      <4>1. Chain(R, k, k + 1)
        <5>1. k + 1 \in Nat /\ p <= k + 1 /\ k + 1 <= q /\ p <= k /\ k <= q /\ k \in Nat
          BY <1>6, <3>2
        <5> QED
          BY <1>6, <1>7, <2>4, <5>1, Chains
      <4>2. k \in Smaller(k, k + 1)..(k + (k + 1) - Smaller(k, k + 1) - 1)
        <5>1. k \in Nat
          BY <3>2
        <5>2. Smaller(k, k + 1) = k
          BY <5>1 DEF Smaller
        <5> QED
          BY <5>1, <5>2
      <4> QED
        BY <4>1, <4>2 DEF Chain
    <3>4. \E k \in p..q : R[k] = x
      <4>1. Walks(R, p, q)
        <5>1. \A k \in p..q : R[k] \in Int
          BY <1>1, <3>1
        <5>2. \A k \in p..q - 1 : R[k] - R[k + 1] \in {-1, 1}
          BY <1>8, <3>2, <3>3
        <5> QED
          BY <5>1, <5>2 DEF Walks
      <4>2. \/ R[p] <= x /\ x <= R[q]
            \/ R[p] >= x /\ x >= R[q]
        BY <1>4, <1>5, <2>2
      <4>3. p <= q
        BY <1>6, <2>4
      <4> QED
        BY <1>6, <2>2, <4>1, <4>2, <4>3, Walked
    <3>5. PICK k \in p..q : R[k] = x
      BY <3>4
    <3>6. Chain(R, p, k)
      BY <1>6, <1>7, <2>4, <3>1, Chains
    <3> QED
      BY <2>1, <3>1, <3>5, <3>6
  <2>5. CASE q < p
    <3>1. \A k \in q..p : k \in DOMAIN R /\ k \in Nat /\ q <= k /\ k <= p
      BY <1>1, <1>6
    <3>2. \A k \in q..p - 1 : k \in Nat /\ q <= k /\ k < p /\ k + 1 \in Nat /\ k + 1 <= p
      BY <1>6
    <3>3. \A k \in q..p - 1 : SameSection(R, k)
      <4> TAKE k \in q..p - 1
      <4>1. Chain(R, k, k + 1)
        <5>1. k + 1 \in Nat /\ q <= k + 1 /\ k + 1 <= p /\ q <= k /\ k <= p /\ k \in Nat
          BY <1>6, <3>2
        <5> QED
          BY <1>6, <1>7, <2>5, <5>1, Chains
      <4>2. k \in Smaller(k, k + 1)..(k + (k + 1) - Smaller(k, k + 1) - 1)
        <5>1. k \in Nat
          BY <3>2
        <5>2. Smaller(k, k + 1) = k
          BY <5>1 DEF Smaller
        <5> QED
          BY <5>1, <5>2
      <4> QED
        BY <4>1, <4>2 DEF Chain
    <3>4. \E k \in q..p : R[k] = x
      <4>1. Walks(R, q, p)
        <5>1. \A k \in q..p : R[k] \in Int
          BY <1>1, <3>1
        <5>2. \A k \in q..p - 1 : R[k] - R[k + 1] \in {-1, 1}
          BY <1>8, <3>2, <3>3
        <5> QED
          BY <5>1, <5>2 DEF Walks
      <4>2. \/ R[q] <= x /\ x <= R[p]
            \/ R[q] >= x /\ x >= R[p]
        BY <1>4, <1>5, <2>2
      <4>3. q <= p
        BY <1>6, <2>5
      <4> QED
        BY <1>6, <2>2, <4>1, <4>2, <4>3, Walked
    <3>5. PICK k \in q..p : R[k] = x
      BY <3>4
    <3>6. Chain(R, p, k)
      BY <1>6, <1>7, <2>5, <3>1, Chains
    <3> QED
      BY <2>1, <3>1, <3>5, <3>6
  <2> QED
    BY <1>6, <2>3, <2>4, <2>5
<1>10. M = m..w
  <2>1. \A y \in M : y \in m..w
    BY <1>2, <1>3
  <2> HIDE DEF M
  <2> QED
    BY <1>9, <2>1
<1>11. m \in Nat /\ w \in Nat /\ m <= w
  BY <1>2, <1>3
<1>12. Cardinality(m..w) = IF m > w THEN 0 ELSE w - m + 1
  BY <1>11, FS_Interval
<1>13. w - m + 1 = Cardinality(M)
  <2> HIDE DEF M
  <2> QED
    BY <1>10, <1>11, <1>12
<1> QED
  BY <1>13 DEF m, w

\* A row of a list shares no verse with another, keeps a curated span together and is a run.
OneRow(L, R, m) ==
  /\ L[m].members \subseteq Verses
  /\ \A n \in DOMAIN L \ {m} : L[m].members \cap L[n].members = {}
  /\ \A v \in L[m].members, u \in ToSet(R) :
       named[v] # {} /\ named[u] # {} /\ Governing(u, R) = Governing(v, R) => u \in L[m].members
  /\ \A v \in L[m].members : named[v] = {} =>
       /\ \A u \in L[m].members : named[u] = {}
       /\ Max(L[m].members) - Min(L[m].members) + 1 = Cardinality(L[m].members)
  /\ L[m].score \in {scores[v].points : v \in L[m].members}
OneRows(L, R) == \A m \in DOMAIN L : OneRow(L, R, m)

LEMMA RowsOf ==
  ASSUME Scored, NEW R \in Seq(Surviving), Once(R), NEW limit \in Nat
  PROVE  OneRows(SubSeq(Rows(R), 1, Smaller(limit, Len(Rows(R)))), R)
<1> DEFINE heads == {i \in DOMAIN R : \A j \in 1..i - 1 : ~Together(R, i, j)}
           B == {x \in heads \X heads : x[1] < x[2]}
           h == InOrder(heads, B)
           c == Cardinality(heads)
           Q == {Row(R, i) : i \in heads}
           t == Smaller(limit, Len(Rows(R)))
           L == SubSeq(Rows(R), 1, t)
<1>1. DOMAIN R = 1..Len(R) /\ Len(R) \in Nat /\ \A j \in DOMAIN R : R[j] \in Surviving /\ j \in Nat
  BY LenProperties, ElementOfSeq
<1>2. heads \in SUBSET DOMAIN R /\ IsFiniteSet(heads)
  <2>1. IsFiniteSet(1..Len(R))
    BY <1>1, FS_Interval
  <2>2. heads \in SUBSET DOMAIN R
    OBVIOUS
  <2> HIDE DEF heads
  <2> QED
    BY <1>1, <2>1, <2>2, FS_Subset
<1>3. Lines(heads, B)
  <2>1. \A i \in heads : i \in Nat
    BY <1>1, <1>2
  <2>2. \A i, j \in heads : <<i, j>> \in B <=> i < j
    OBVIOUS
  <2> HIDE DEF heads, B
  <2>3. \A i \in heads : ~(i < i)
    BY <2>1
  <2>4. \A i, j, k \in heads : i < j /\ j < k => i < k
    BY <2>1
  <2>5. \A i, j \in heads : i # j => i < j \/ j < i
    BY <2>1
  <2> QED
    BY <2>2, <2>3, <2>4, <2>5 DEF Lines
<1>4. c \in Nat /\ h \in [1..c -> heads] /\ \A i, j \in 1..c : i < j <=> <<h[i], h[j]>> \in B
  <2> HIDE DEF heads, B
  <2> QED
    BY <1>2, <1>3, Sorted
<1>5. \A m, n \in 1..c : m # n => h[m] # h[n]
  <2> TAKE m, n \in 1..c
  <2> HAVE m # n
  <2>1. m < n \/ n < m
    BY <1>4
  <2>2. <<h[m], h[n]>> \in B \/ <<h[n], h[m]>> \in B
    BY <1>4, <2>1
  <2>3. h[m] \in heads /\ h[n] \in heads
    <3> HIDE DEF h, heads
    <3> QED
      BY <1>4
  <2> HIDE DEF h
  <2> QED
    BY <1>3, <2>2, <2>3 DEF Lines
<1>6. Rows(R) = [n \in DOMAIN h |-> Row(R, h[n])]
  BY DEF Rows
<1> HIDE DEF h
<1>7. DOMAIN h = 1..c
  BY <1>4
<1>8. Rows(R) \in [1..c -> Q]
  <2> HIDE DEF c, heads
  <2> QED
    BY <1>4, <1>6, <1>7
<1>9. Rows(R) \in Seq(Q) /\ Len(Rows(R)) = c
  <2> HIDE DEF c, Q
  <2> QED
    BY <1>4, <1>8, AsSeq
<1>10. t \in Nat /\ t <= c
  <2> HIDE DEF c, heads
  <2> QED
    BY <1>4, <1>9, SmallerOf
<1> HIDE DEF t, c
<1>11. DOMAIN L = 1..t /\ \A n \in 1..t : n \in 1..c /\ L[n] = Row(R, h[n])
  <2>1. \A n \in 1..t : n \in 1..c
    BY <1>4, <1>10
  <2>2. \A n \in 1..t : Rows(R)[n] \in Q /\ Rows(R)[n] = Row(R, h[n])
    <3>1. \A n \in 1..c : Rows(R)[n] \in Q /\ Rows(R)[n] = Row(R, h[n])
      <4> HIDE DEF Q
      <4> QED
        BY <1>6, <1>7, <1>8
    <3> HIDE DEF Q
    <3> QED
      BY <2>1, <3>1
  <2> HIDE DEF Q
  <2>3. /\ L \in Seq(Q) /\ Len(L) = IF 1 <= t THEN t - 1 + 1 ELSE 0
        /\ \A n \in 1..t - 1 + 1 : L[n] = Rows(R)[1 + n - 1]
    BY <1>10, <2>2, SubSeqProperties
  <2>4. t - 1 + 1 = t /\ \A n \in 1..t : 1 + n - 1 = n
    BY <1>10
  <2> HIDE DEF L
  <2>5. Len(L) = t
    BY <1>10, <2>3
  <2>6. DOMAIN L = 1..t
    BY <2>3, <2>5, LenProperties
  <2>7. \A n \in 1..t : L[n] = Rows(R)[n]
    BY <2>3, <2>4
  <2> QED
    BY <2>1, <2>2, <2>6, <2>7
<1> HIDE DEF L
<1>12. \A i : Row(R, i).members = Members(R, i) /\ Row(R, i).score = Loudest(R, i)
  BY DEF Row, Members, Loudest
<1> SUFFICES ASSUME NEW m \in 1..t PROVE OneRow(L, R, m)
  BY <1>11 DEF OneRows, L, t
<1> DEFINE i == h[m]
<1>13. i \in heads /\ i \in DOMAIN R /\ i \in Nat
       /\ L[m].members = Members(R, i) /\ L[m].score = Loudest(R, i)
  <2>1. h[m] \in heads
    BY <1>4, <1>11
  <2>2. L[m] = Row(R, h[m])
    BY <1>11
  <2> HIDE DEF heads
  <2>3. L[m].members = Members(R, i) /\ L[m].score = Loudest(R, i)
    BY <1>12, <2>2
  <2> QED
    BY <1>1, <1>2, <2>1, <2>3
<1>14. /\ Members(R, i) \in SUBSET Nat /\ Members(R, i) # {} /\ IsFiniteSet(Members(R, i))
       /\ Members(R, i) \subseteq Surviving /\ Members(R, i) \subseteq Verses
       /\ \A v \in Members(R, i) : named[v] = {} => \A u \in Members(R, i) : named[u] = {}
  <2> HIDE DEF i
  <2> QED
    BY <1>13, MembersOf
<1>15. ASSUME NEW n \in DOMAIN L \ {m} PROVE L[m].members \cap L[n].members = {}
  <2> DEFINE j == h[n]
  <2>1. n \in 1..t /\ n \in 1..c /\ m \in 1..c /\ n # m
    BY <1>11
  <2>2. j \in heads /\ j \in DOMAIN R /\ j \in Nat /\ L[n].members = Members(R, j) /\ i # j
    <3>1. h[n] \in heads /\ L[n] = Row(R, h[n]) /\ h[m] # h[n]
      BY <1>4, <1>5, <1>11, <2>1
    <3> HIDE DEF heads
    <3>2. L[n].members = Members(R, j)
      BY <1>12, <3>1
    <3> QED
      BY <1>1, <1>2, <3>1, <3>2
  <2> SUFFICES ASSUME NEW v, v \in Members(R, i), v \in Members(R, j) PROVE FALSE
    BY <1>13, <2>2
  <2> HIDE DEF i, j
  <2>3. PICK k \in DOMAIN R : v = R[k] /\ Together(R, i, k)
    BY DEF Members
  <2>4. PICK l \in DOMAIN R : v = R[l] /\ Together(R, j, l)
    BY DEF Members
  <2>5. k = l
    BY <2>3, <2>4 DEF Once
  <2>6. k \in Nat
    BY <1>1
  <2>7. Together(R, k, i) /\ Together(R, k, j)
    BY <1>13, <2>2, <2>3, <2>4, <2>5, <2>6, Equivalence
  <2>8. Together(R, i, j) /\ Together(R, j, i)
    BY <1>13, <2>2, <2>3, <2>4, <2>5, <2>6, <2>7, Equivalence
  <2>9. i \in 1..j - 1 \/ j \in 1..i - 1
    <3>1. i \in Nat /\ j \in Nat /\ 1 <= i /\ 1 <= j
      BY <1>1, <1>13, <2>2
    <3> QED
      BY <2>2, <3>1
  <2> QED
    BY <1>13, <2>2, <2>8, <2>9
<1>16. ASSUME NEW v \in Members(R, i), NEW u \in ToSet(R),
              named[v] # {}, named[u] # {}, Governing(u, R) = Governing(v, R)
       PROVE  u \in Members(R, i)
  <2> HIDE DEF i
  <2>1. PICK k \in DOMAIN R : v = R[k] /\ Together(R, i, k)
    BY DEF Members
  <2>2. PICK l \in DOMAIN R : u = R[l]
    BY DEF ToSet
  <2>3. Governed(R, k, l)
    BY <1>16, <2>1, <2>2 DEF Governed
  <2>4. Together(R, k, l)
    BY <2>3, TogetherIs
  <2>5. Together(R, i, l)
    BY <1>1, <1>13, <2>1, <2>4, Equivalence
  <2> QED
    BY <2>2, <2>5 DEF Members
<1>17. ASSUME NEW v \in Members(R, i), named[v] = {}
       PROVE  /\ \A u \in Members(R, i) : named[u] = {}
              /\ Max(Members(R, i)) - Min(Members(R, i)) + 1 = Cardinality(Members(R, i))
  <2> HIDE DEF i
  <2>1. \A u \in Members(R, i) : named[u] = {}
    BY <1>14, <1>17
  <2> QED
    BY <1>13, <2>1, RunOf
<1>18. L[m].score \in {scores[v].points : v \in L[m].members}
  <2> DEFINE M == Members(R, i)
             P == {scores[v].points : v \in M}
  <2>1. P \in SUBSET Nat /\ P # {}
    BY <1>14 DEF Scored
  <2>2. IsFiniteSet(P)
    <3> DEFINE g == [v \in M |-> scores[v].points]
    <3>1. g \in Surjection(M, P)
      BY DEF Surjection
    <3> HIDE DEF g, M, P
    <3> QED
      BY <1>14, <3>1, FS_Surjection DEF M
  <2>3. Max(P) \in P
    <3> HIDE DEF P
    <3> QED
      BY <2>1, <2>2, MinMax
  <2> QED
    BY <1>13, <2>3 DEF Loudest
<1> HIDE DEF i, heads
<1>19. L[m].members = Members(R, i)
  BY <1>13
<1>20. L[m].members \subseteq Verses
  BY <1>14, <1>19
<1>21. \A v \in L[m].members, u \in ToSet(R) :
        named[v] # {} /\ named[u] # {} /\ Governing(u, R) = Governing(v, R) => u \in L[m].members
  BY <1>16, <1>19
<1>22. \A v \in L[m].members : named[v] = {} =>
        /\ \A u \in L[m].members : named[u] = {}
        /\ Max(L[m].members) - Min(L[m].members) + 1 = Cardinality(L[m].members)
  BY <1>17, <1>19
<1> QED
  BY <1>15, <1>18, <1>20, <1>21, <1>22 DEF OneRow

-----------------------------------------------------------------------------
(* The invariant of a search *)

\* The evidence: finite, of verses of the corpus, and within what its family may say; a
\* verse that holds the whole query has a phrase to show for it.
Sound(F, C) ==
  /\ IsFiniteSet(F)
  /\ \A e \in F : e.verse \in Verses /\ e.family \in Families /\ e.points \in 0..Budget(e.family).points
  /\ \A v \in C : \E e \in F : e.verse = v /\ e.family = "exact_phrase" /\ e.points >= 40

\* What the budgets leave of it.
Weighted ==
  /\ Surviving = {e.verse : e \in found}
  /\ \A v \in Surviving :
       /\ v \in complete => scores[v].points >= 40
       /\ ~scores[v].direct => scores[v].points <= WeakAggregateCap
       /\ HoldsWords(v) => scores[v].points > 6
       /\ WordingAlone(v) => scores[v].points <= SoleEvidenceCap

RungSet == {"ask", "phrase", "tokens", "variants", "terms", "concepts", "score", "rank", "answered"}

RankInv ==
  /\ rung \in RungSet /\ width \in Widths \cup {0} /\ (rung = "phrase" => width \in Widths)
  /\ Sound(found, complete)
  /\ rung # "answered" => listing = <<>>
  /\ rung \in {"rank", "answered"} => Scored /\ Weighted
  /\ rung = "answered" => Emitted(ranked, Limit + Headroom) /\ OneRows(listing, ranked)

LEMMA AllRungs == ToSet(Rungs) = RungSet
BY DEF ToSet, Rungs, RungSet

LEMMA Images ==
  ASSUME NEW S, IsFiniteSet(S), NEW f
  PROVE  IsFiniteSet({f[x] : x \in S})
<1> DEFINE T == {f[x] : x \in S}
           g == [x \in S |-> f[x]]
<1>1. g \in Surjection(S, T)
  BY DEF Surjection
<1> HIDE DEF g, T
<1>2. IsFiniteSet(T)
  BY <1>1, FS_Surjection
<1> QED
  BY <1>2 DEF T

\* What the budgets make of sound evidence.
LEMMA BudgetsOf ==
  ASSUME Sound(found, complete), NEW v
  PROVE  LET y == Budgeted(Reasons(v)) IN
         /\ y.points \in Nat /\ y.direct \in BOOLEAN /\ y.curated \in BOOLEAN
         /\ v \in complete => y.points >= 40
         /\ ~y.direct => y.points <= WeakAggregateCap
         /\ HoldsWords(v) => y.points > 6
         /\ WordingAlone(v) => y.points <= SoleEvidenceCap
<1> DEFINE R == Reasons(v)
           y == Budgeted(R)
<1>1. IsFiniteSet(found) /\ \A e \in found : e.points \in Nat /\ e.family \in Families
  BY BudgetType DEF Sound
<1>2. R \in SUBSET Weighed(v)
      /\ \A e \in Weighed(v) : \E d \in R : d.family = e.family /\ d.points >= e.points
  BY <1>1, ReasonsOf
<1>3. Weighed(v) \in SUBSET found /\ \A e \in Weighed(v) : e.verse = v
  BY DEF Weighed
<1> HIDE DEF R
<1>4. R \in SUBSET found /\ IsFiniteSet(R) /\ \A e \in R : e.points \in Nat /\ e.verse = v
  BY <1>1, <1>2, <1>3, FS_Subset
<1>5. /\ Capped(R) \in Nat
      /\ (\A e \in R : e.family = "translation_variant") => Capped(R) <= SoleEvidenceCap
      /\ (\A e \in R : e.family \notin Authoritative) => Capped(R) <= WeakAggregateCap
      /\ \A e \in R : e.family = "exact_phrase" => e.points <= Capped(R)
      /\ \A e \in R : e.family = "token_overlap" /\ e.points > 6 => Capped(R) > 6
  BY <1>4, CappedOf
<1>6. /\ y.points = Capped(R)
      /\ y.direct = \E e \in R : e.family \in Authoritative
      /\ y.curated = \E e \in R : e.family = "concept_anchor"
  BY DEF Budgeted
<1>7. y.direct \in BOOLEAN /\ y.curated \in BOOLEAN
  BY <1>6
<1>8. ~y.direct => \A e \in R : e.family \notin Authoritative
  BY <1>6
<1>9. ASSUME v \in complete PROVE Capped(R) >= 40
  <2>1. PICK e \in found : e.verse = v /\ e.family = "exact_phrase" /\ e.points >= 40
    BY <1>9 DEF Sound
  <2>2. e \in Weighed(v)
    BY <2>1 DEF Weighed
  <2>3. PICK d \in R : d.family = "exact_phrase" /\ d.points >= e.points
    BY <1>2, <2>1, <2>2
  <2>4. d.points <= Capped(R) /\ d.points \in Nat /\ e.points \in Nat
    BY <1>1, <1>4, <1>5, <2>3
  <2> QED
    BY <1>5, <2>1, <2>3, <2>4
<1>9a. ASSUME HoldsWords(v) PROVE Capped(R) > 6
  <2>1. PICK e \in found : /\ e.verse = v /\ e.family \in {"token_overlap", "exact_phrase"}
                          /\ e.points > 6
    BY <1>9a DEF HoldsWords, SoleEvidenceCap
  <2>2. CASE v \in complete
    BY <1>5, <1>9, <2>2
  <2>3. CASE v \notin complete
    <3>1. e \in Weighed(v)
      BY <2>1, <2>3 DEF Weighed
    <3>2. PICK d \in R : d.family = e.family /\ d.points >= e.points
      BY <1>2, <3>1
    <3>3. d.points \in Nat /\ e.points \in Nat /\ d.points > 6
      BY <1>1, <1>4, <2>1, <3>2
    <3> QED
      BY <1>5, <2>1, <3>2, <3>3
  <2> QED
    BY <2>2, <2>3
<1> HIDE DEF y
<1>10. v \in complete => y.points >= 40
  BY <1>6, <1>9
<1>11. ~y.direct => y.points <= WeakAggregateCap
  BY <1>5, <1>6, <1>8
<1>12. WordingAlone(v) => y.points <= SoleEvidenceCap
  BY <1>4, <1>5, <1>6 DEF WordingAlone
<1>13. HoldsWords(v) => y.points > 6
  BY <1>6, <1>9a
<1> QED
  BY <1>5, <1>6, <1>7, <1>10, <1>11, <1>12, <1>13 DEF y, R

\* What a search of the corpus finds is within the budget of its family.
LEMMA EvidenceOf ==
  \A v, from : \A f \in Families, half \in {1, 2} :
    LET e == Evidence(v, f, from, half) IN
    e.verse = v /\ e.family = f /\ e.points \in 0..Budget(f).points
BY DEF Families, Evidence, Budget

LEMMA Quotient ==
  \A u \in Nat, m \in Nat \ {0} : \A c \in Nat :
    /\ u <= c * m => u \div m \in 0..c
    /\ u >= c * m => u \div m >= c
<1> TAKE u \in Nat, m \in Nat \ {0}
<1> TAKE c \in Nat
<1> DEFINE q == u \div m
           r == u % m
<1>1. q \in Int /\ r \in 0..m - 1 /\ u = m * q + r
  OBVIOUS
<1> HIDE DEF q, r
<1>2. \A x, y \in Int : x + 1 <= y => m * x + m <= m * y
  <2> TAKE x, y \in Int
  <2> HAVE x + 1 <= y
  <2>1. m * (x + 1) <= m * y
    OBVIOUS
  <2>2. m * (x + 1) = m * x + m
    OBVIOUS
  <2>3. m * x \in Int /\ m * y \in Int /\ m * (x + 1) \in Int
    OBVIOUS
  <2> QED
    BY <2>1, <2>2, <2>3
<1>3. m * q \in Int /\ m * c \in Int /\ c * m = m * c /\ r \in Int /\ 0 <= r /\ r < m
  BY <1>1
<1>4. ASSUME u <= c * m PROVE q \in 0..c
  <2>1. q <= c
    <3> SUFFICES ASSUME c + 1 <= q PROVE FALSE
      BY <1>1
    <3>1. m * c + m <= m * q
      BY <1>1, <1>2
    <3> QED
      BY <1>1, <1>3, <1>4, <3>1
  <2>2. q >= 0
    <3> SUFFICES ASSUME q + 1 <= 0 PROVE FALSE
      BY <1>1
    <3>1. m * q + m <= m * 0
      BY <1>1, <1>2
    <3>2. m * 0 = 0
      OBVIOUS
    <3> QED
      BY <1>1, <1>3, <3>1, <3>2
  <2> QED
    BY <1>1, <2>1, <2>2
<1>5. ASSUME u >= c * m PROVE q >= c
  <2> SUFFICES ASSUME q + 1 <= c PROVE FALSE
    BY <1>1
  <2>1. m * q + m <= m * c
    BY <1>1, <1>2
  <2> QED
    BY <1>1, <1>3, <1>5, <2>1
<1> QED
  BY <1>4, <1>5 DEF q

LEMMA PhraseOf ==
  ASSUME NEW v \in Verses, NEW q \in Nat \ {0}, NEW f \in 1..q
  PROVE  LET e == PhraseEvidence(v, f, q) IN
         /\ e.verse = v /\ e.family \in Families /\ e.points \in 0..Budget(e.family).points
         /\ f = q /\ f >= 2 => e.family = "exact_phrase" /\ e.points >= 40
<1> DEFINE family == IF f < 2 \/ 2 * f < q THEN "token_overlap" ELSE "exact_phrase"
           most == Budget(family).points
           e == PhraseEvidence(v, f, q)
           s == Smaller(f, 3)
<1>1. family \in {"token_overlap", "exact_phrase"} /\ most \in {10, 60} /\ (family = "exact_phrase" => most = 60)
  BY DEF Budget
<1>2. e.verse = v /\ e.family = family
      /\ e.points = IF f < 2 THEN most ELSE (most * f * s) \div (3 * q)
  BY DEF PhraseEvidence
<1>3. f \in Nat /\ 1 <= f /\ f <= q /\ s \in 1..3 /\ s <= f
  BY DEF Smaller
<1>4. f >= 2 => s \in {2, 3}
  BY <1>3 DEF Smaller
<1> HIDE DEF s, e
<1> DEFINE n == most * f * s
           m == 3 * q
<1>5. m \in Nat \ {0} /\ n \in Nat
  BY <1>1, <1>3
<1>6. n <= most * m
  <2>1. CASE most = 10
    <3>1. CASE s = 1 BY <1>3, <2>1, <3>1
    <3>2. CASE s = 2 BY <1>3, <2>1, <3>2
    <3>3. CASE s = 3 BY <1>3, <2>1, <3>3
    <3> QED BY <1>3, <3>1, <3>2, <3>3
  <2>2. CASE most = 60
    <3>1. CASE s = 1 BY <1>3, <2>2, <3>1
    <3>2. CASE s = 2 BY <1>3, <2>2, <3>2
    <3>3. CASE s = 3 BY <1>3, <2>2, <3>3
    <3> QED BY <1>3, <3>1, <3>2, <3>3
  <2> QED
    BY <1>1, <2>1, <2>2
<1>7. most = 60 /\ f = q /\ f >= 2 => n >= 40 * m
  <2> HAVE most = 60 /\ f = q /\ f >= 2
  <2>1. CASE s = 2 BY <1>3, <2>1
  <2>2. CASE s = 3 BY <1>3, <2>2
  <2> QED BY <1>4, <2>1, <2>2
<1>8. e.points = IF f < 2 THEN most ELSE n \div m
  BY <1>2
<1>9. family \in Families /\ Budget(family).points = most /\ (f = q /\ f >= 2 => family = "exact_phrase")
  BY <1>3 DEF Families
<1> HIDE DEF family, most, n, m
<1>10. most \in Nat /\ 40 \in Nat
  BY <1>1
<1>11. n \div m \in 0..most
  BY <1>5, <1>6, <1>10, Quotient
<1>12. most = 60 /\ f = q /\ f >= 2 => n \div m >= 40
  BY <1>5, <1>7, <1>10, Quotient
<1>13. e.points \in 0..most
  BY <1>8, <1>10, <1>11
<1>14. f = q /\ f >= 2 => e.points >= 40
  <2> HAVE f = q /\ f >= 2
  <2>1. ~(f < 2) /\ most = 60
    BY <1>1, <1>3, <1>9
  <2> QED
    BY <1>8, <1>12, <2>1
<1> QED
  BY <1>2, <1>9, <1>13, <1>14 DEF e

Honest(X) == /\ IsFiniteSet(X)
             /\ \A e \in X : e.verse \in Verses /\ e.family \in Families
                             /\ e.points \in 0..Budget(e.family).points

LEMMA Added ==
  ASSUME NEW F, NEW C, Sound(F, C), NEW X, Honest(X)
  PROVE  Sound(F \cup X, C)
<1>1. IsFiniteSet(F \cup X)
  BY FS_Union DEF Sound, Honest
<1> QED
  BY <1>1 DEF Sound, Honest

\* The evidence one search gives to the verses it hits.
HitEvidence(S, f, from, half) == {Evidence(v, f, from, half) : v \in S}

LEMMA HitsOf ==
  ASSUME NEW S \in SUBSET Verses, NEW f \in Families, NEW from, NEW half \in {1, 2}
  PROVE  Honest(HitEvidence(S, f, from, half))
<1> DEFINE g == [v \in S |-> Evidence(v, f, from, half)]
           X == {Evidence(v, f, from, half) : v \in S}
<1>1. IsFiniteSet(S)
  BY CorpusAssumption, FS_Subset
<1>2. X = {g[v] : v \in S}
  OBVIOUS
<1>3. IsFiniteSet(X)
  <2> HIDE DEF g, X
  <2> QED
    BY <1>1, <1>2, Images
<1>4. \A e \in X : e.verse \in Verses /\ e.family \in Families /\ e.points \in 0..Budget(e.family).points
  <2> SUFFICES ASSUME NEW v \in S
               PROVE  /\ Evidence(v, f, from, half).verse \in Verses
                      /\ Evidence(v, f, from, half).family = f
                      /\ Evidence(v, f, from, half).points \in 0..Budget(f).points
    OBVIOUS
  <2> QED
    BY EvidenceOf
<1> QED
  BY <1>3, <1>4 DEF Honest, HitEvidence

\* The evidence of concepts, thin ones among them, and of cross-references.
Anchored(concepts, thin) ==
  {Evidence(x[2], IF x[1].concept \in thin THEN "concept_lexicon" ELSE "concept_anchor",
            x[1].concept, x[1].half) : x \in Carriers(concepts)}
Referred(E) == {Evidence(e[2], "cross_reference", e[1], 2) : e \in E}

LEMMA ConceptsOf ==
  ASSUME NEW concepts, NEW thin, NEW E \in SUBSET Edges
  PROVE  Honest(Anchored(concepts, thin)) /\ Honest(Referred(E))
<1> DEFINE family(x) == IF x[1].concept \in thin THEN "concept_lexicon" ELSE "concept_anchor"
           A == Carriers(concepts)
           f == [x \in A |-> Evidence(x[2], family(x), x[1].concept, x[1].half)]
           g == [e \in E |-> Evidence(e[2], "cross_reference", e[1], 2)]
<1>1. A \in SUBSET (Spans \X Verses)
  BY DEF Carriers
<1>2. IsFiniteSet(Spans \X Verses) /\ IsFiniteSet(Verses \X Verses)
  BY CorpusAssumption, FS_Product
<1>3. IsFiniteSet(A) /\ IsFiniteSet(E)
  <2>1. E \in SUBSET (Verses \X Verses)
    BY CorpusAssumption
  <2> HIDE DEF A
  <2> QED
    BY <1>1, <1>2, <2>1, FS_Subset
<1>4. IsFiniteSet({f[x] : x \in A}) /\ IsFiniteSet({g[e] : e \in E})
  <2> HIDE DEF f, g, A
  <2> QED
    BY <1>3, Images
<1>5. \A x \in A : x[2] \in Verses /\ x[1].half \in {1, 2} /\ family(x) \in Families
  BY <1>1, CorpusAssumption DEF Families
<1>6. \A x \in A : f[x].verse \in Verses /\ f[x].family \in Families /\ f[x].points \in 0..Budget(f[x].family).points
  <2> TAKE x \in A
  <2>1. f[x] = Evidence(x[2], family(x), x[1].concept, x[1].half)
    OBVIOUS
  <2> HIDE DEF f, family
  <2> QED
    BY <1>5, <2>1, EvidenceOf
<1>7. \A e \in E : g[e].verse \in Verses /\ g[e].family \in Families /\ g[e].points \in 0..Budget(g[e].family).points
  <2> TAKE e \in E
  <2>1. g[e] = Evidence(e[2], "cross_reference", e[1], 2)
    OBVIOUS
  <2>2. e[2] \in Verses /\ "cross_reference" \in Families /\ 2 \in {1, 2}
    BY CorpusAssumption DEF Families
  <2> HIDE DEF g
  <2> QED
    BY <2>1, <2>2, EvidenceOf
<1>8. {f[x] : x \in A} = Anchored(concepts, thin)
  BY DEF Anchored
<1>9. {g[e] : e \in E} = Referred(E)
  BY DEF Referred
<1>10. Honest({f[x] : x \in A})
  <2> HIDE DEF f, A
  <2> QED
    BY <1>4, <1>6 DEF Honest
<1>11. Honest({g[e] : e \in E})
  <2> HIDE DEF g
  <2> QED
    BY <1>4, <1>7 DEF Honest
<1> QED
  BY <1>8, <1>9, <1>10, <1>11

\* Who governs, of the names as they are given.
GovernorIn(N, v, R) ==
  CHOOSE s \in N[v] : \A t \in N[v] \ {s} :
    \/ Cardinality({u \in ToSet(R) : s \in N[u]}) > Cardinality({u \in ToSet(R) : t \in N[u]})
    \/ Cardinality({u \in ToSet(R) : s \in N[u]}) = Cardinality({u \in ToSet(R) : t \in N[u]}) /\ s.id < t.id

\* What is said of the lists holds as long as names and scores are the same.
LEMMA Carried ==
  ASSUME named' = named, scores' = scores
  PROVE  /\ Scored => Scored'
         /\ \A n : Emitted(ranked', n) => Emitted(ranked, n)'
         /\ OneRows(listing', ranked') => OneRows(listing, ranked)'
<1>1. Scored => Scored'
  BY DEF Scored, Surviving
<1>2. \A n : Emitted(ranked', n) => Emitted(ranked, n)'
  BY DEF Emitted, Surviving, Before, Once, ToSet
<1>3. \A u : /\ Governing(u, ranked)' = GovernorIn(named', u, ranked')
             /\ Governing(u, ranked') = GovernorIn(named, u, ranked')
  BY DEF Governing, Surfaced, GovernorIn
<1>4. \A u : Governing(u, ranked)' = Governing(u, ranked')
  BY <1>3
<1>5. \A m : OneRow(listing', ranked', m) => OneRow(listing, ranked, m)'
  <2> TAKE m
  <2> HAVE OneRow(listing', ranked', m)
  <2> QED
    BY <1>4 DEF OneRow, ToSet
<1> QED
  BY <1>1, <1>2, <1>5 DEF OneRows

LEMMA RankStarts == RankInit => RankInv
<1> HAVE RankInit
<1>1. Sound({}, {})
  BY FS_EmptySet DEF Sound
<1> QED
  BY <1>1 DEF RankInit, RankInv, RungSet

\* A step that only finds more evidence for the verses.
LEMMA Searched ==
  ASSUME RankInv, rung \notin {"rank", "answered"}, rung' \in RungSet \ {"phrase", "rank", "answered"},
         Sound(found', complete'), listing' = listing, width' = width
  PROVE  RankInv'
BY DEF RankInv

LEMMA RankSteps ==
  ASSUME RankInv, [RankNext]_rankVars
  PROVE  RankInv'
<1> USE DEF Quiet, To
<1>0. Sound(found, complete)
  BY DEF RankInv
<1>1. CASE Ask
  BY <1>1 DEF Ask, RankInv, RungSet
<1>2. CASE AskAgain
  <2>1. Sound({}, {})
    BY FS_EmptySet DEF Sound
  <2> QED
    BY <1>2, <2>1 DEF AskAgain, RankInv, RungSet
<1>3. CASE SearchPhrase
  <2>1. PICK S \in Hits, f \in 2..width \cup {width} :
          /\ found' = {PhraseEvidence(v, f, width) : v \in S}
          /\ complete' = IF f = width /\ f >= 2 THEN S ELSE {}
    BY <1>3 DEF SearchPhrase
  <2>2. S \in SUBSET Verses /\ width \in Nat \ {0} /\ f \in 1..width /\ IsFiniteSet(S)
    <3>1. S \in SUBSET Verses
      BY DEF Hits
    <3>2. width \in Widths
      BY <1>3 DEF RankInv, SearchPhrase
    <3>3. width \in Nat \ {0}
      BY <3>2, CorpusAssumption
    <3>4. f \in 1..width
      BY <3>3
    <3> QED
      BY <3>1, <3>3, <3>4, CorpusAssumption, FS_Subset
  <2> DEFINE g == [v \in S |-> PhraseEvidence(v, f, width)]
  <2>3. \A v \in S : /\ g[v].verse = v /\ g[v].family \in Families /\ g[v].points \in 0..Budget(g[v].family).points
                     /\ f = width /\ f >= 2 => g[v].family = "exact_phrase" /\ g[v].points >= 40
    BY <2>2, PhraseOf
  <2>4. found' = {g[v] : v \in S}
    BY <2>1
  <2> HIDE DEF g
  <2>5. IsFiniteSet({g[v] : v \in S})
    BY <2>2, Images
  <2>6. Sound(found', complete')
    <3>1. \A e \in found' : e.verse \in Verses /\ e.family \in Families /\ e.points \in 0..Budget(e.family).points
      BY <2>2, <2>3, <2>4
    <3>2. \A v \in complete' : \E e \in found' : e.verse = v /\ e.family = "exact_phrase" /\ e.points >= 40
      <4> TAKE v \in complete'
      <4>1. f = width /\ f >= 2 /\ v \in S
        BY <2>1
      <4>2. g[v] \in found'
        BY <2>4, <4>1
      <4>3. g[v].verse = v /\ g[v].family = "exact_phrase" /\ g[v].points >= 40
        BY <2>3, <4>1
      <4> QED
        BY <4>2, <4>3
    <3> QED
      BY <2>4, <2>5, <3>1, <3>2 DEF Sound
  <2> QED
    BY <1>3, <2>6, Searched DEF SearchPhrase, RungSet
<1>4. CASE SearchTokens
  <2>1. PICK S \in Hits, near \in {width > 1, FALSE}, half \in {1, 2} :
          found' = found \cup {Evidence(v, "token_overlap", 1, half) : v \in S}
                   \cup {Evidence(v, "proximity", 0, 2) : v \in IF near THEN S ELSE {}}
    BY <1>4 DEF SearchTokens
  <2> DEFINE T == IF near THEN S ELSE {}
  <2>2. S \in SUBSET Verses /\ T \in SUBSET Verses /\ "token_overlap" \in Families /\ "proximity" \in Families
    BY DEF Hits, Families
  <2> HIDE DEF T
  <2>3. Honest(HitEvidence(S, "token_overlap", 1, half)) /\ Honest(HitEvidence(T, "proximity", 0, 2))
    BY <2>2, HitsOf
  <2>4. found' = found \cup HitEvidence(S, "token_overlap", 1, half) \cup HitEvidence(T, "proximity", 0, 2)
    BY <2>1 DEF T, HitEvidence
  <2>5. Sound(found', complete)
    BY <1>0, <2>3, <2>4, Added
  <2>6. complete' = complete
    BY <1>4 DEF SearchTokens
  <2> QED
    BY <1>4, <2>5, <2>6, Searched DEF SearchTokens, RungSet
<1>5. CASE SearchTranslationTokens
  <2>1. PICK S \in Hits : found' = found \cup {Evidence(v, "translation_variant", 0, 2) :
                                                 v \in IF width > 1 THEN S ELSE {}}
    BY <1>5 DEF SearchTranslationTokens
  <2> DEFINE T == IF width > 1 THEN S ELSE {}
  <2>2. T \in SUBSET Verses /\ "translation_variant" \in Families
    BY DEF Hits, Families
  <2> HIDE DEF T
  <2>3. Honest(HitEvidence(T, "translation_variant", 0, 2))
    BY <2>2, HitsOf
  <2>4. found' = found \cup HitEvidence(T, "translation_variant", 0, 2)
    BY <2>1 DEF T, HitEvidence
  <2>5. Sound(found', complete) /\ complete' = complete
    BY <1>0, <1>5, <2>3, <2>4, Added DEF SearchTranslationTokens
  <2> QED
    BY <1>5, <2>5, Searched DEF SearchTranslationTokens, RungSet
<1>6. CASE SearchPassageTerms
  <2>1. PICK S \in Hits : found' = found \cup {Evidence(v, "passage_terms", 0, 2) : v \in S}
    BY <1>6 DEF SearchPassageTerms
  <2>2. S \in SUBSET Verses /\ "passage_terms" \in Families
    BY DEF Hits, Families
  <2>3. Honest({Evidence(v, "passage_terms", 0, 2) : v \in S})
    BY <2>2, HitsOf DEF HitEvidence
  <2>5. Sound(found', complete) /\ complete' = complete
    BY <1>0, <1>6, <2>1, <2>3, Added DEF SearchPassageTerms
  <2> QED
    BY <1>6, <2>5, Searched DEF SearchPassageTerms, RungSet
<1>7. CASE MatchConcepts
  <2>1. PICK matched \in SUBSET {s.concept : s \in Spans} : \E thin \in SUBSET matched :
       LET carriers == Carriers(matched)
           strong == Carriers(matched \ thin)
           edges == {e \in Edges : /\ \E x \in strong : x[2] = e[1]
                                   /\ ~ \E x, y \in strong : x[2] = e[1] /\ y[2] = e[2]
                                                             /\ x[1].concept = y[1].concept}
       IN /\ found' = found
               \cup {Evidence(x[2], IF x[1].concept \in thin THEN "concept_lexicon" ELSE "concept_anchor",
                              x[1].concept, x[1].half) : x \in carriers}
               \cup {Evidence(e[2], "cross_reference", e[1], 2) : e \in edges}
          /\ named' = [v \in Verses |-> {x[1] : x \in {y \in carriers : y[2] = v}}]
    BY <1>7 DEF MatchConcepts
  <2>2. PICK thin \in SUBSET matched :
       LET carriers == Carriers(matched)
           strong == Carriers(matched \ thin)
           edges == {e \in Edges : /\ \E x \in strong : x[2] = e[1]
                                   /\ ~ \E x, y \in strong : x[2] = e[1] /\ y[2] = e[2]
                                                             /\ x[1].concept = y[1].concept}
       IN /\ found' = found
               \cup {Evidence(x[2], IF x[1].concept \in thin THEN "concept_lexicon" ELSE "concept_anchor",
                              x[1].concept, x[1].half) : x \in carriers}
               \cup {Evidence(e[2], "cross_reference", e[1], 2) : e \in edges}
          /\ named' = [v \in Verses |-> {x[1] : x \in {y \in carriers : y[2] = v}}]
    BY <2>1
  <2> DEFINE strong == Carriers(matched \ thin)
             E == {e \in Edges : /\ \E x \in strong : x[2] = e[1]
                                 /\ ~ \E x, y \in strong : x[2] = e[1] /\ y[2] = e[2]
                                                           /\ x[1].concept = y[1].concept}
  <2>3. E \in SUBSET Edges
    OBVIOUS
  <2>4. Honest(Anchored(matched, thin)) /\ Honest(Referred(E))
    <3> HIDE DEF E
    <3> QED
      BY <2>3, ConceptsOf
  <2>5. found' = found \cup Anchored(matched, thin) \cup Referred(E)
    BY <2>2 DEF Anchored, Referred
  <2> HIDE DEF E
  <2>6. Sound(found', complete)
    BY <1>0, <2>4, <2>5, Added
  <2>7. complete' = complete
    BY <1>7 DEF MatchConcepts
  <2> QED
    BY <1>7, <2>6, <2>7, Searched DEF MatchConcepts, RungSet
<1>8. CASE ApplyBudgets
  <2>1. /\ scores' = [v \in {e.verse : e \in found} |-> Budgeted(Reasons(v))]
        /\ UNCHANGED <<width, found, complete, named, ranked, listing>> /\ rung = "score" /\ rung' = "rank"
    BY <1>8 DEF ApplyBudgets
  <2> DEFINE D == {e.verse : e \in found}
  <2>2. DOMAIN scores' = D /\ \A v \in D : scores'[v] = Budgeted(Reasons(v))
    BY <2>1
  <2>3. D \in SUBSET Verses
    BY <1>0 DEF Sound
  <2> HIDE DEF D
  <2>4. \A v \in D :
         /\ scores'[v].points \in Nat /\ scores'[v].direct \in BOOLEAN /\ scores'[v].curated \in BOOLEAN
         /\ v \in complete => scores'[v].points >= 40
         /\ ~scores'[v].direct => scores'[v].points <= WeakAggregateCap
         /\ HoldsWords(v) => scores'[v].points > 6
         /\ WordingAlone(v) => scores'[v].points <= SoleEvidenceCap
    BY <1>0, <2>2, BudgetsOf
  <2>5. Scored'
    BY <2>2, <2>3, <2>4 DEF Scored, Surviving
  <2>6. Weighted'
    <3>1. found' = found /\ complete' = complete
      BY <2>1
    <3> QED
      BY <2>2, <2>4, <3>1 DEF Weighted, Surviving, D, HoldsWords, WordingAlone
  <2>7. Sound(found', complete')
    BY <1>0, <2>1
  <2> QED
    BY <2>1, <2>5, <2>6, <2>7 DEF RankInv, RungSet
<1>9. CASE Answer
  <2>1. /\ rung = "rank" /\ rung' = "answered" /\ ranked' = Ranked(Limit + Headroom)
        /\ listing' = SubSeq(Rows(ranked'), 1, Smaller(Limit, Len(Rows(ranked'))))
        /\ UNCHANGED <<width, found, complete, named, scores>>
    BY <1>9 DEF Answer
  <2>2. Scored /\ Weighted
    BY <2>1 DEF RankInv
  <2>3. Limit \in Nat /\ Limit + Headroom \in Nat
    BY RankingAssumption
  <2>4. Emitted(ranked', Limit + Headroom)
    BY <2>1, <2>2, <2>3, RankedOf
  <2>5. ranked' \in Seq(Surviving) /\ Once(ranked')
    BY <2>4 DEF Emitted
  <2>6. OneRows(listing', ranked')
    BY <2>1, <2>2, <2>3, <2>5, RowsOf
  <2>7. Scored' /\ Emitted(ranked, Limit + Headroom)' /\ OneRows(listing, ranked)'
    <3>1. named' = named /\ scores' = scores
      BY <2>1
    <3>2. /\ Scored => Scored'
          /\ \A n : Emitted(ranked', n) => Emitted(ranked, n)'
          /\ OneRows(listing', ranked') => OneRows(listing, ranked)'
      BY <3>1, Carried
    <3>3. Emitted(ranked, Limit + Headroom)'
      BY <2>4, <3>2
    <3> QED
      BY <2>2, <2>6, <3>2, <3>3
  <2>8. Weighted'
    BY <2>1, <2>2 DEF Weighted, Surviving, HoldsWords, WordingAlone
  <2>9. Sound(found', complete')
    BY <1>0, <2>1
  <2> QED
    BY <2>1, <2>7, <2>8, <2>9 DEF RankInv, RungSet
<1>10. CASE UNCHANGED rankVars
  <2>1. UNCHANGED <<rung, width, found, complete, named, scores, ranked, listing>>
    BY <1>10 DEF rankVars
  <2>2. Sound(found', complete')
    BY <1>0, <2>1
  <2>3. rung \in {"rank", "answered"} => Scored' /\ Weighted'
    BY <2>1 DEF RankInv, Scored, Weighted, Surviving, HoldsWords, WordingAlone
  <2>4. rung = "answered" => Emitted(ranked', Limit + Headroom) /\ OneRows(listing', ranked')
    BY <2>1 DEF RankInv
  <2>5. rung = "answered" => Emitted(ranked, Limit + Headroom)' /\ OneRows(listing, ranked)'
    <3>1. named' = named /\ scores' = scores
      BY <2>1
    <3> QED
      BY <2>4, <3>1, Carried
  <2> QED
    BY <2>1, <2>2, <2>3, <2>5 DEF RankInv
<1> QED
  BY <1>1, <1>2, <1>3, <1>4, <1>5, <1>6, <1>7, <1>8, <1>9, <1>10 DEF RankNext

LEMMA RankHolds == RankInv => RankingHolds
<1> HAVE RankInv
<1>1. RankTypeOK
  <2>1. rung # "answered" => DOMAIN listing = {}
    BY DEF RankInv
  <2>2. \A n \in DOMAIN listing : listing[n].members \subseteq Verses
    <3>1. CASE rung = "answered"
      BY <3>1 DEF RankInv, OneRows, OneRow
    <3>2. CASE rung # "answered"
      BY <2>1, <3>2
    <3> QED
      BY <3>1, <3>2
  <2>3. rung \in ToSet(Rungs)
    BY AllRungs DEF RankInv
  <2>4. \A e \in found : e.verse \in Verses /\ e.points \in 0..Budget(e.family).points
    BY DEF RankInv, Sound
  <2> QED
    BY <2>2, <2>3, <2>4 DEF RankInv, RankTypeOK
<1>2. LoudnessBounded
  <2> SUFFICES ASSUME rung = "answered", NEW x \in Surviving, NEW y \in Surviving
               PROVE  /\ x \in complete /\ ~scores[y].direct => Before(x, y)
                      /\ HoldsWords(x) /\ WordingAlone(y) => Before(x, y)
    BY DEF LoudnessBounded, Answered
  <2>1. Scored /\ Weighted
    BY DEF RankInv
  <2>2. ASSUME x \in complete, ~scores[y].direct PROVE Before(x, y)
    <3>1. scores[x].points >= 40 /\ scores[y].points <= 30 /\ scores[x].points \in Nat /\ scores[y].points \in Nat
      BY <2>1, <2>2 DEF Weighted, Scored, WeakAggregateCap
    <3>2. scores[x].points > scores[y].points
      BY <3>1
    <3> QED
      BY <3>2 DEF Before
  <2>3. ASSUME HoldsWords(x), WordingAlone(y) PROVE Before(x, y)
    <3>1. scores[x].points > 6 /\ scores[y].points <= 6 /\ scores[x].points \in Nat /\ scores[y].points \in Nat
      BY <2>1, <2>3 DEF Weighted, Scored, SoleEvidenceCap
    <3>2. scores[x].points > scores[y].points
      BY <3>1
    <3> QED
      BY <3>2 DEF Before
  <2> QED
    BY <2>2, <2>3
<1>3. NeverThinned
  <2> SUFFICES ASSUME rung = "answered"
               PROVE  /\ \A x, y \in Surviving : x # y => (Before(x, y) <=> ~Before(y, x))
                      /\ \A v \in Surviving \ ToSet(ranked) :
                           /\ Len(ranked) = Limit + Headroom
                           /\ scores[v].direct => \A u \in ToSet(ranked) : Before(u, v)
    BY DEF NeverThinned, Answered
  <2>1. Scored /\ Emitted(ranked, Limit + Headroom)
    BY DEF RankInv
  <2>2. \A x, y \in Surviving : x # y => (Before(x, y) <=> ~Before(y, x))
    BY <2>1, Compared
  <2> QED
    BY <2>1, <2>2 DEF Emitted
<1>4. PassageIsOneRow
  <2>1. CASE rung = "answered"
    <3>1. OneRows(listing, ranked)
      BY <2>1 DEF RankInv
    <3> QED
      BY <3>1 DEF PassageIsOneRow, OneRows, OneRow
  <2>2. CASE rung # "answered"
    <3>1. DOMAIN listing = {}
      BY <2>2 DEF RankInv
    <3> QED
      BY <3>1 DEF PassageIsOneRow
  <2> QED
    BY <2>1, <2>2
<1> QED
  BY <1>1, <1>2, <1>3, <1>4 DEF RankingHolds

-----------------------------------------------------------------------------
(* Sums, and the discounted sum of the metrics *)

\* s is the sum of w up to each place.
Sums(s, w, k) == s \in [0..k -> Nat] /\ s[0] = 0 /\ \A n \in 1..k : s[n] = s[n - 1] + w[n]

LEMMA Summed ==
  ASSUME NEW k \in Nat, NEW w \in [1..k -> Nat]
  PROVE  \E s : Sums(s, w, k)
<1> DEFINE G == [x \in (1..k) \X Nat |-> x[2] + w[x[1]]]
<1>1. G \in [(1..k) \X Nat -> Nat] /\ 0 \in Nat
  OBVIOUS
<1>2. \A n \in 1..k, c \in Nat : G[<<n, c>>] = c + w[n]
  OBVIOUS
<1> HIDE DEF G
<1>3. PICK s \in [0..k -> Nat] : Stepwise(s, k, 0, G)
  BY <1>1, Recursion
<1>4. s[0] = 0 /\ \A n \in 1..k : n - 1 \in 0..k /\ s[n] = G[<<n, s[n - 1]>>]
  <2>1. 0 \in 0..k /\ \A n \in 1..k : n - 1 \in 0..k /\ n \in 0..k /\ n # 0
    OBVIOUS
  <2>2. \A n \in 0..k : s[n] = IF n = 0 THEN 0 ELSE G[<<n, s[n - 1]>>]
    BY <1>3 DEF Stepwise
  <2> QED
    BY <2>1, <2>2
<1>5. \A n \in 1..k : s[n] = s[n - 1] + w[n]
  <2> TAKE n \in 1..k
  <2>1. s[n - 1] \in Nat /\ s[n] = G[<<n, s[n - 1]>>]
    BY <1>4
  <2> QED
    BY <1>2, <2>1
<1> QED
  BY <1>4, <1>5 DEF Sums

\* A place that is added adds what it weighs, from there on.
LEMMA OneMore ==
  ASSUME NEW k \in Nat, NEW w \in [1..k -> Nat], NEW v \in [1..k -> Nat], NEW j \in 1..k, NEW x \in Nat,
         \A n \in 1..k : v[n] = IF n = j THEN w[n] + x ELSE w[n]
  PROVE  \A s, t : Sums(s, w, k) /\ Sums(t, v, k) => t[k] = s[k] + x
<1> TAKE s, t
<1> HAVE Sums(s, w, k) /\ Sums(t, v, k)
<1> DEFINE Good == {n \in 0..k : t[n] = s[n] + (IF n >= j THEN x ELSE 0)}
<1>1. 0 \in Good
  <2>1. ~(0 >= j) /\ s[0] = 0 /\ t[0] = 0 /\ 0 \in 0..k
    BY DEF Sums
  <2> QED
    BY <2>1
<1>2. ASSUME NEW n \in 1..k, n - 1 \in Good PROVE n \in Good
  <2>1. n \in 0..k /\ n - 1 \in 0..k
    OBVIOUS
  <2>2. s[n] = s[n - 1] + w[n] /\ t[n] = t[n - 1] + v[n] /\ s[n - 1] \in Nat /\ w[n] \in Nat
    BY <2>1 DEF Sums
  <2>3. t[n - 1] = s[n - 1] + (IF n - 1 >= j THEN x ELSE 0)
    BY <1>2
  <2>4. v[n] = IF n = j THEN w[n] + x ELSE w[n]
    OBVIOUS
  <2>5. t[n] = s[n] + (IF n >= j THEN x ELSE 0)
    BY <2>2, <2>3, <2>4
  <2> QED
    BY <2>1, <2>5
<1>3. \A n \in 0..k : n \in Good
  <2> HIDE DEF Good
  <2> QED
    BY <1>1, <1>2, Reaches
<1>4. k \in 0..k /\ k >= j
  OBVIOUS
<1> QED
  BY <1>3, <1>4

\* A sum only grows.
LEMMA Grows ==
  ASSUME NEW k \in Nat, NEW w \in [1..k -> Nat], NEW s, Sums(s, w, k)
  PROVE  \A x, y \in 0..k : x <= y => s[x] <= s[y]
<1> TAKE x, y \in 0..k
<1> HAVE x <= y
<1> DEFINE Good == {n \in 0..k : n >= x => s[x] <= s[n]}
<1>0. s \in [0..k -> Nat]
  BY DEF Sums
<1>1. 0 \in Good
  <2>1. 0 >= x => x = 0
    OBVIOUS
  <2>2. s[x] <= s[x] /\ 0 \in 0..k
    BY <1>0
  <2> QED
    BY <2>1, <2>2
<1>2. ASSUME NEW n \in 1..k, n - 1 \in Good PROVE n \in Good
  <2>1. n \in 0..k /\ n - 1 \in 0..k
    OBVIOUS
  <2>2. s[n] = s[n - 1] + w[n] /\ s[n - 1] \in Nat /\ w[n] \in Nat /\ s[x] \in Nat /\ s[n] \in Nat
    BY <1>0, <2>1 DEF Sums
  <2>3. CASE n - 1 >= x
    BY <1>2, <2>1, <2>2, <2>3
  <2>4. CASE ~(n - 1 >= x)
    <3>1. n >= x => n = x
      BY <2>4
    <3> QED
      BY <2>1, <2>2, <3>1
  <2> QED
    BY <2>3, <2>4
<1>3. \A n \in 0..k : n \in Good
  <2> HIDE DEF Good
  <2> QED
    BY <1>1, <1>2, Reaches
<1> QED
  BY <1>3

\* Of numbers in falling order, no more of them add up to more than the first.
LEMMA First ==
  ASSUME NEW k \in Nat, NEW h \in [1..k -> Nat], \A i, j \in 1..k : i <= j => h[i] >= h[j],
         NEW P \in SUBSET (1..k), NEW w \in [1..k -> Nat],
         \A n \in 1..k : w[n] = IF n \in P THEN h[n] ELSE 0,
         NEW s, Sums(s, w, k), NEW t, Sums(t, h, k)
  PROVE  Cardinality(P) \in 0..k /\ s[k] <= t[Cardinality(P)]
<1> DEFINE Q(n) == P \cap (1..n)
           Good == {n \in 0..k : Cardinality(Q(n)) \in 0..n /\ s[n] <= t[Cardinality(Q(n))]}
<1>1. 0 \in Good
  <2>1. Q(0) = {} /\ s[0] = 0 /\ t[0] = 0 /\ 0 \in 0..k /\ 0 \in 0..0
    BY DEF Sums
  <2>2. Cardinality(Q(0)) = 0
    BY <2>1, FS_EmptySet
  <2> HIDE DEF Q
  <2> QED
    BY <2>1, <2>2
<1>2. ASSUME NEW n \in 1..k, n - 1 \in Good PROVE n \in Good
  <2>1. n \in 0..k /\ n - 1 \in 0..k /\ n \in Nat /\ n - 1 \in Nat
    OBVIOUS
  <2>2. s[n] = s[n - 1] + w[n] /\ s[n - 1] \in Nat /\ w[n] = IF n \in P THEN h[n] ELSE 0
    BY <2>1 DEF Sums
  <2>3. IsFiniteSet(Q(n - 1))
    <3>1. IsFiniteSet(1..n - 1) /\ Q(n - 1) \in SUBSET (1..n - 1)
      BY <2>1, FS_Interval
    <3> HIDE DEF Q
    <3> QED
      BY <3>1, FS_Subset
  <2>4. 1..n = (1..n - 1) \cup {n} /\ n \notin 1..n - 1
    OBVIOUS
  <2> DEFINE c == Cardinality(Q(n - 1))
  <2>5. c \in 0..n - 1 /\ s[n - 1] <= t[c]
    BY <1>2
  <2>6. CASE n \in P
    <3>1. Q(n) = Q(n - 1) \cup {n} /\ n \notin Q(n - 1)
      BY <2>4, <2>6
    <3>2. Cardinality(Q(n)) = c + 1
      <4> HIDE DEF Q
      <4> QED
        BY <2>3, <3>1, FS_AddElement
    <3> HIDE DEF Q, c
    <3>3. c + 1 \in 1..n /\ c + 1 \in 1..k /\ c + 1 <= n /\ c + 1 \in 0..n /\ (c + 1) - 1 = c /\ c \in 0..k
      BY <2>5
    <3>4. t[c + 1] = t[c] + h[c + 1] /\ t[c] \in Nat
      BY <3>3 DEF Sums
    <3>5. h[c + 1] >= h[n] /\ h[c + 1] \in Nat /\ h[n] \in Nat
      BY <3>3
    <3>6. s[n] <= t[c + 1]
      <4> DEFINE sn == s[n] s1 == s[n - 1] tc == t[c] t1 == t[c + 1] hn == h[n] hc == h[c + 1]
      <4>1. sn = s1 + hn /\ t1 = tc + hc /\ s1 <= tc /\ hc >= hn
        BY <2>2, <2>5, <2>6, <3>4, <3>5
      <4>2. s1 \in Nat /\ hn \in Nat /\ tc \in Nat /\ hc \in Nat
        BY <2>2, <3>4, <3>5
      <4> HIDE DEF sn, s1, tc, t1, hn, hc
      <4>3. sn <= t1
        BY <4>1, <4>2
      <4> QED
        BY <4>3 DEF sn, t1
    <3> QED
      BY <2>1, <3>2, <3>3, <3>6
  <2>7. CASE n \notin P
    <3>1. Q(n) = Q(n - 1)
      BY <2>4, <2>7
    <3>2. c \in 0..n /\ s[n] = s[n - 1]
      BY <2>2, <2>5, <2>7
    <3>3. n \in 0..k /\ Cardinality(Q(n)) \in 0..n /\ s[n] <= t[Cardinality(Q(n))]
      BY <2>1, <2>5, <3>1, <3>2
    <3> HIDE DEF Q
    <3> QED
      BY <3>3
  <2> QED
    BY <2>6, <2>7
<1>3. k \in Good
  <2>1. k \in 0..k
    OBVIOUS
  <2> HIDE DEF Good
  <2> QED
    BY <1>1, <1>2, <2>1, Reaches
<1>4. Q(k) = P
  OBVIOUS
<1> HIDE DEF Q
<1> QED
  BY <1>3, <1>4

\* w is what each rank weighs in the discounted sum of g.
Weighs(w, g, k) ==
  /\ w \in [1..Len(Discount) -> Nat]
  /\ \A n \in 1..Len(Discount) : w[n] = IF n \in 1..k THEN g[n] * Discount[n] ELSE 0

\* The discounts are numbers, none more than the one before.
LEMMA Discounts ==
  /\ Len(Discount) \in Nat /\ \A n \in 1..Len(Discount) : Discount[n] \in Nat
  /\ \A n \in 1..Len(Discount) : n - 1 \in 1..Len(Discount) => Discount[n] <= Discount[n - 1]
<1>1. Len(Discount) \in Nat /\ \A n \in 1..Len(Discount) : Discount[n] \in Nat
  BY BatteryAssumption, LenProperties, ElementOfSeq
<1>2. ASSUME NEW n \in 1..Len(Discount), n - 1 \in 1..Len(Discount) PROVE Discount[n] <= Discount[n - 1]
  <2>1. n - 1 \in 1..(Len(Discount) - 1) /\ (n - 1) + 1 = n
    BY <1>1, <1>2
  <2>2. Discount[n - 1] >= Discount[(n - 1) + 1]
    BY <2>1, RankAssumption
  <2> QED
    BY <1>1, <1>2, <2>1, <2>2
<1> QED
  BY <1>1, <1>2

LEMMA DiscountedOf ==
  ASSUME NEW k \in Nat, NEW g \in [1..k -> Nat]
  PROVE  \E s, w : Weighs(w, g, k) /\ Sums(s, w, Len(Discount)) /\ Discounted(g) = s[Len(Discount)]
<1> DEFINE m == Len(Discount)
           sum[n \in 0..Len(Discount)] ==
             IF n = 0 THEN 0 ELSE sum[n - 1] + (IF n \in DOMAIN g THEN g[n] * Discount[n] ELSE 0)
           w == [n \in 1..m |-> IF n \in 1..k THEN g[n] * Discount[n] ELSE 0]
           Passes(f) == f = [n \in 0..Len(Discount) |->
             IF n = 0 THEN 0 ELSE f[n - 1] + (IF n \in DOMAIN g THEN g[n] * Discount[n] ELSE 0)]
<1>1. Discounted(g) = sum[m]
  BY DEF Discounted
<1>2. m \in Nat /\ DOMAIN g = 1..k
  BY Discounts
<1>3. Weighs(w, g, k)
  <2>1. \A n \in 1..m : n \in 1..k => g[n] * Discount[n] \in Nat
    <3> TAKE n \in 1..m
    <3> HAVE n \in 1..k
    <3>1. g[n] \in Nat /\ Discount[n] \in Nat
      BY Discounts
    <3> HIDE DEF m
    <3>2. \A x, y \in Nat : x * y \in Nat
      OBVIOUS
    <3> QED
      BY <3>1, <3>2
  <2> QED
    BY <2>1 DEF Weighs
<1> HIDE DEF w
<1>4. \A n \in 1..m : w[n] = IF n \in DOMAIN g THEN g[n] * Discount[n] ELSE 0
  BY <1>2, <1>3 DEF Weighs
<1>5. w \in [1..m -> Nat]
  BY <1>3 DEF Weighs
<1> HIDE DEF sum
<1>6. \E f : Passes(f)
  <2>1. PICK f : Sums(f, w, m)
    BY <1>2, <1>5, Summed
  <2>2. \A n \in 0..m : n # 0 => n \in 1..m
    BY <1>2
  <2>3. \A n \in 0..m : f[n] = IF n = 0 THEN 0 ELSE f[n - 1] + (IF n \in DOMAIN g THEN g[n] * Discount[n] ELSE 0)
    BY <1>4, <2>1, <2>2 DEF Sums
  <2>4. f = [n \in 0..m |-> f[n]]
    BY <2>1 DEF Sums
  <2>5. Passes(f)
    BY <2>3, <2>4
  <2> HIDE DEF Passes
  <2> QED
    BY <2>5
<1>7. Passes(sum)
  <2>1. sum = CHOOSE f : Passes(f)
    BY DEF sum
  <2> HIDE DEF Passes
  <2> QED
    BY <1>6, <2>1
<1>8. sum[0] = 0 /\ \A n \in 1..m : sum[n] = sum[n - 1] + w[n]
  <2>1. 0 \in 0..m /\ \A n \in 1..m : n \in 0..m /\ n # 0
    BY <1>2
  <2>2. \A n \in 0..m : sum[n] = IF n = 0 THEN 0 ELSE sum[n - 1] + (IF n \in DOMAIN g THEN g[n] * Discount[n] ELSE 0)
    BY <1>7
  <2> QED
    BY <1>4, <2>1, <2>2
<1>9. sum \in [0..m -> Nat]
  <2> DEFINE Good == {n \in 0..m : sum[n] \in Nat}
  <2>1. 0 \in Good
    BY <1>2, <1>8
  <2>2. ASSUME NEW n \in 1..m, n - 1 \in Good PROVE n \in Good
    <3>1. n \in 0..m /\ sum[n] = sum[n - 1] + w[n] /\ sum[n - 1] \in Nat /\ w[n] \in Nat
      BY <1>2, <1>5, <1>8, <2>2
    <3> QED
      BY <3>1
  <2>3. \A n \in 0..m : n \in Good
    <3> HIDE DEF Good
    <3> QED
      BY <1>2, <2>1, <2>2, Reaches
  <2>4. sum = [n \in 0..m |-> sum[n]]
    BY <1>7
  <2> QED
    BY <2>3, <2>4
<1>10. Sums(sum, w, m)
  BY <1>8, <1>9 DEF Sums
<1> QED
  BY <1>1, <1>3, <1>10

\* What is found no later and is worth no less at any time is worth no less discounted.
LEMMA Abel ==
  ASSUME NEW k \in Nat, Len(Discount) <= k, NEW g \in [1..k -> Nat], NEW h \in [1..k -> Nat],
         NEW A, Sums(A, g, k), NEW B, Sums(B, h, k), \A n \in 0..k : A[n] <= B[n],
         NEW v, Weighs(v, g, k), NEW w, Weighs(w, h, k),
         NEW S, Sums(S, v, Len(Discount)), NEW T, Sums(T, w, Len(Discount))
  PROVE  S[Len(Discount)] <= T[Len(Discount)]
<1> DEFINE m == Len(Discount)
           Good == {n \in 0..m : S[n] <= T[n] /\ (n # 0 => T[n] - S[n] >= Discount[n] * (B[n] - A[n]))}
<1>0. m \in Nat /\ m <= k
  BY Discounts
<1>1. 0 \in Good
  <2>1. S[0] = 0 /\ T[0] = 0 /\ 0 \in 0..m
    BY <1>0 DEF Sums
  <2> QED
    BY <2>1
<1>2. \A d, e, x \in Int : 0 <= e /\ e <= d /\ 0 <= x => e * x >= 0 /\ e * x <= d * x
  OBVIOUS
<1>3. \A e, x, p, q \in Int : e * (x + (p - q)) = e * x + (p * e - q * e)
  OBVIOUS
<1>5. \A x, y \in Nat : x <= y => y - x \in Nat
  OBVIOUS
<1>6. \A x, y \in Nat : y - x \in Int
  OBVIOUS
<1>4. ASSUME NEW n \in 1..m, n - 1 \in Good PROVE n \in Good
  <2>1. n \in 0..m /\ n - 1 \in 0..m /\ n \in 1..k /\ n \in 0..k /\ n - 1 \in 0..k
    BY <1>0
  <2> DEFINE x == B[n - 1] - A[n - 1]
             e == Discount[n]
             p == h[n]
             q == g[n]
  <2>2. /\ A[n] = A[n - 1] + q /\ B[n] = B[n - 1] + p /\ A[n - 1] <= B[n - 1] /\ A[n] <= B[n]
        /\ A[n] \in Nat /\ B[n] \in Nat /\ A[n - 1] \in Nat /\ B[n - 1] \in Nat
    BY <2>1 DEF Sums
  <2>3. /\ S[n] = S[n - 1] + v[n] /\ T[n] = T[n - 1] + w[n]
        /\ S[n] \in Nat /\ T[n] \in Nat /\ S[n - 1] \in Nat /\ T[n - 1] \in Nat
    BY <2>1 DEF Sums
  <2>4. v[n] = q * e /\ w[n] = p * e
    BY <2>1 DEF Weighs
  <2>5. e \in Nat /\ p \in Nat /\ q \in Nat
    BY <2>1, Discounts
  <2>6. T[n - 1] - S[n - 1] >= e * x
    <3>1. CASE n = 1
      <4>1. A[n - 1] = 0 /\ B[n - 1] = 0 /\ S[n - 1] = 0 /\ T[n - 1] = 0
        BY <3>1 DEF Sums
      <4>2. x = 0
        BY <4>1
      <4> HIDE DEF x, e
      <4> QED
        BY <2>5, <4>1, <4>2
    <3>2. CASE n # 1
      <4> DEFINE d == Discount[n - 1]
      <4>1. n - 1 \in 1..m /\ n - 1 # 0
        BY <1>0, <3>2
      <4>2. d \in Nat /\ e <= d
        BY <4>1, Discounts
      <4>3. T[n - 1] - S[n - 1] >= d * x
        BY <1>4, <4>1
      <4>4. x \in Nat
        BY <1>5, <2>2
      <4> HIDE DEF x, d, e, Good
      <4>5. e * x <= d * x
        BY <1>2, <2>5, <4>2, <4>4
      <4>6. e * x \in Int /\ d * x \in Int
        BY <2>5, <4>2, <4>4
      <4>7. \A z, y, u \in Int : u >= y /\ z <= y => u >= z
        OBVIOUS
      <4>8. T[n - 1] - S[n - 1] \in Int
        BY <1>6, <2>3
      <4> QED
        BY <4>3, <4>5, <4>6, <4>7, <4>8
    <3> QED
      BY <3>1, <3>2
  <2>7. B[n] - A[n] = x + (p - q) /\ x \in Int
    <3> DEFINE c == A[n] l == B[n] a1 == A[n - 1] b1 == B[n - 1]
    <3>1. c = a1 + q /\ l = b1 + p /\ a1 \in Nat /\ b1 \in Nat /\ p \in Nat /\ q \in Nat
      BY <2>2, <2>5
    <3>2. x = b1 - a1
      OBVIOUS
    <3> HIDE DEF p, q, c, l, a1, b1, x
    <3>3. l - c = x + (p - q) /\ x \in Int
      BY <3>1, <3>2
    <3> QED
      BY <3>3 DEF c, l
  <2>8. B[n] - A[n] \in Nat
    BY <1>5, <2>2
  <2> HIDE DEF x, e, p, q, Good
  <2>9. e * (B[n] - A[n]) = e * x + (p * e - q * e)
    BY <1>3, <2>5, <2>7
  <2>10. e * x \in Int /\ p * e \in Int /\ q * e \in Int
    BY <2>5, <2>7
  <2>11. T[n] - S[n] >= e * (B[n] - A[n])
    <3> DEFINE t == T[n] s == S[n] t1 == T[n - 1] s1 == S[n - 1] pe == p * e qe == q * e z == e * x
               y == e * (B[n] - A[n])
    <3>1. /\ t = t1 + pe /\ s = s1 + qe /\ t1 - s1 >= z /\ t1 \in Nat /\ s1 \in Nat
          /\ pe \in Int /\ qe \in Int /\ z \in Int /\ y = z + (pe - qe)
      BY <2>3, <2>4, <2>6, <2>9, <2>10
    <3> HIDE DEF t, s, t1, s1, pe, qe, z, y
    <3>2. t - s >= y
      BY <3>1
    <3> QED
      BY <3>2 DEF t, s, y
  <2>12. e * (B[n] - A[n]) >= 0
    BY <1>2, <2>5, <2>8
  <2>13. e * (B[n] - A[n]) \in Int
    BY <2>9, <2>10
  <2>14. S[n] <= T[n]
    <3> DEFINE s == S[n] t == T[n] y == e * (B[n] - A[n])
    <3>1. s \in Nat /\ t \in Nat /\ y \in Int /\ t - s >= y /\ y >= 0
      BY <2>3, <2>11, <2>12, <2>13
    <3> HIDE DEF s, t, y
    <3>2. s <= t
      BY <3>1
    <3> QED
      BY <3>2 DEF s, t
  <2> QED
    BY <2>1, <2>11, <2>14 DEF Good, e
<1>7. m \in Good
  <2>1. m \in 0..m
    BY <1>0
  <2> HIDE DEF Good
  <2> QED
    BY <1>0, <1>1, <1>4, <2>1, Reaches
<1> QED
  BY <1>7

-----------------------------------------------------------------------------
(* What results claim *)

\* The judgments of one query, as the battery has them.
Board(R) ==
  /\ IsFiniteSet(R) /\ Disjoint(R)
  /\ \A r \in R : r.grade \in Nat /\ r.verses \in (SUBSET Nat) \ {{}} /\ IsFiniteSet(r.verses)

Rivals(R) == {x \in R \X R : Ahead(x[1], x[2])}

\* Ratifying leaves a part of them.
LEMMA RatifiedOf ==
  \A R : /\ Ratified(R) \in SUBSET R /\ Ratified(Ratified(R)) = Ratified(R)
         /\ Board(R) => Board(Ratified(R))
<1> TAKE R
<1>1. Ratified(R) \in SUBSET R /\ Ratified(Ratified(R)) = Ratified(R)
  BY DEF Ratified
<1>2. ASSUME Board(R) PROVE Board(Ratified(R))
  <2>1. IsFiniteSet(Ratified(R))
    BY <1>1, <1>2, FS_Subset DEF Board
  <2> QED
    BY <1>1, <1>2, <2>1 DEF Board, Disjoint
<1> QED
  BY <1>1, <1>2

\* Ranges that do not overlap are in one line.
LEMMA AheadLines ==
  ASSUME NEW R, Board(R)
  PROVE  /\ Lines(R, Rivals(R))
         /\ \A r, s \in R : <<r, s>> \in Rivals(R) <=> Ahead(r, s)
         /\ \A r, s \in R : r # s => (Ahead(r, s) <=> ~Ahead(s, r))
         /\ \A r, s \in R : Ahead(r, s) => r.grade >= s.grade /\ r # s
<1>1. \A r, s \in R : <<r, s>> \in Rivals(R) <=> Ahead(r, s)
  BY DEF Rivals
<1>2. \A r \in R : r.grade \in Nat /\ Min(r.verses) \in Nat /\ Min(r.verses) \in r.verses
  <2> TAKE r \in R
  <2>1. r.verses \in SUBSET Nat /\ r.verses # {} /\ IsFiniteSet(r.verses) /\ r.grade \in Nat
    BY DEF Board
  <2>2. Min(r.verses) \in r.verses
    BY <2>1, MinMax
  <2> QED
    BY <2>1, <2>2
<1>3. \A r, s \in R : r # s => Min(r.verses) # Min(s.verses)
  <2> TAKE r, s \in R
  <2> HAVE r # s
  <2>1. r.verses \cap s.verses = {}
    BY DEF Board, Disjoint
  <2> QED
    BY <1>2, <2>1
<1>4. \A r \in R : ~Ahead(r, r)
  <2> TAKE r \in R
  <2>1. ~(r.grade > r.grade) /\ ~(Min(r.verses) < Min(r.verses))
    BY <1>2
  <2> QED
    BY <2>1 DEF Ahead
<1>5. \A r, s \in R : r # s => (Ahead(r, s) <=> ~Ahead(s, r))
  <2> TAKE r, s \in R
  <2> HAVE r # s
  <2> DEFINE g == r.grade h == s.grade m == Min(r.verses) n == Min(s.verses)
  <2>1. g \in Nat /\ h \in Nat /\ m \in Nat /\ n \in Nat /\ m # n
    BY <1>2, <1>3
  <2>2. /\ Ahead(r, s) <=> (g > h \/ (g = h /\ m < n))
        /\ Ahead(s, r) <=> (h > g \/ (h = g /\ n < m))
    BY DEF Ahead
  <2> HIDE DEF g, h, m, n
  <2> QED
    BY <2>1, <2>2
<1>6. \A r, s, t \in R : Ahead(r, s) /\ Ahead(s, t) => Ahead(r, t)
  <2> TAKE r, s, t \in R
  <2> DEFINE g == r.grade h == s.grade k == t.grade m == Min(r.verses) n == Min(s.verses) o == Min(t.verses)
  <2>1. g \in Nat /\ h \in Nat /\ k \in Nat /\ m \in Nat /\ n \in Nat /\ o \in Nat
    BY <1>2
  <2>2. /\ Ahead(r, s) <=> (g > h \/ (g = h /\ m < n))
        /\ Ahead(s, t) <=> (h > k \/ (h = k /\ n < o))
        /\ Ahead(r, t) <=> (g > k \/ (g = k /\ m < o))
    BY DEF Ahead
  <2> HIDE DEF g, h, k, m, n, o
  <2> QED
    BY <2>1, <2>2
<1>7. \A r, s \in R : Ahead(r, s) => r.grade >= s.grade /\ r # s
  <2> TAKE r, s \in R
  <2> HAVE Ahead(r, s)
  <2>1. r.grade \in Nat /\ s.grade \in Nat
    BY <1>2
  <2>2. r.grade >= s.grade
    BY <2>1 DEF Ahead
  <2>3. r # s
    BY <1>4
  <2> QED
    BY <2>2, <2>3
<1>8. Lines(R, Rivals(R))
  <2>1. \A r \in R : <<r, r>> \notin Rivals(R)
    BY <1>1, <1>4
  <2>2. \A r, s, t \in R : <<r, s>> \in Rivals(R) /\ <<s, t>> \in Rivals(R) => <<r, t>> \in Rivals(R)
    BY <1>1, <1>6
  <2>3. \A r, s \in R : r # s => <<r, s>> \in Rivals(R) \/ <<s, r>> \in Rivals(R)
    BY <1>1, <1>5
  <2> QED
    BY <2>1, <2>2, <2>3 DEF Lines
<1> QED
  BY <1>1, <1>5, <1>7, <1>8

\* There is one best judgment among any, and it is worth the most.
LEMMA BestOf ==
  ASSUME NEW R, Board(R), NEW L \in SUBSET R, L # {}
  PROVE  /\ Best(L) \in L
         /\ \A s \in L : s # Best(L) => Ahead(Best(L), s)
         /\ \A x \in L : (\A s \in L : s # x => Ahead(x, s)) => x = Best(L)
<1> DEFINE o == InOrder(L, Rivals(R))
           N == Cardinality(L)
           Wise(x) == \A s \in L \ {x} : Ahead(x, s)
<1>1. IsFiniteSet(L)
  BY FS_Subset DEF Board
<1>2. Lines(L, Rivals(R))
  <2>1. Lines(R, Rivals(R))
    BY AheadLines
  <2> QED
    BY <2>1 DEF Lines
<1>3. /\ N \in Nat /\ o \in [1..N -> L]
      /\ \A x \in L : \E i \in 1..N : o[i] = x
      /\ \A i, j \in 1..N : i < j <=> <<o[i], o[j]>> \in Rivals(R)
  BY <1>1, <1>2, Sorted
<1> HIDE DEF o, N
<1>4. 1 \in 1..N
  BY <1>3
<1>5. \A s \in L \ {o[1]} : Ahead(o[1], s)
  <2> TAKE s \in L \ {o[1]}
  <2>1. PICK i \in 1..N : o[i] = s
    BY <1>3
  <2>2. i # 1
    BY <2>1
  <2>3. 1 < i
    BY <1>3, <2>2
  <2>4. <<o[1], s>> \in Rivals(R)
    BY <1>3, <1>4, <2>1, <2>3
  <2> QED
    BY <2>4 DEF Rivals
<1>6. o[1] \in L /\ Wise(o[1])
  BY <1>3, <1>4, <1>5
<1>7. Best(L) = CHOOSE x \in L : Wise(x)
  BY DEF Best
<1>8. Best(L) \in L /\ Wise(Best(L))
  <2> HIDE DEF Wise
  <2> QED
    BY <1>6, <1>7
<1>9. ASSUME NEW x \in L, \A s \in L : s # x => Ahead(x, s) PROVE x = Best(L)
  <2>1. SUFFICES ASSUME x # Best(L) PROVE FALSE
    OBVIOUS
  <2>2. Ahead(x, Best(L)) /\ Ahead(Best(L), x)
    BY <1>8, <1>9, <2>1
  <2> QED
    BY <1>8, <2>1, <2>2, AheadLines
<1> QED
  BY <1>8, <1>9

\* left is what is left to claim behind each result.
Taking(left, top, R) ==
  /\ left \in [0..Len(top) -> SUBSET R] /\ left[0] = R
  /\ \A n \in 1..Len(top) : left[n] = Unclaimed(left[n - 1], top[n])

LEMMA WorthOf ==
  ASSUME NEW R, Board(R)
  PROVE  \A L \in SUBSET R : \A x :
           /\ Worth(L, x) \in Nat
           /\ Unclaimed(L, x) \in SUBSET L /\ Unclaimed(L, x) \in SUBSET R
           /\ Over(L, x) \in SUBSET R
<1> TAKE L \in SUBSET R
<1> TAKE x
<1>1. Over(L, x) \in SUBSET L /\ Over(L, x) \in SUBSET R
  BY DEF Over
<1>2. Over(L, x) # {} => Best(Over(L, x)) \in R
  BY <1>1, BestOf
<1>3. \A r \in R : r.grade \in Nat
  BY DEF Board
<1> QED
  BY <1>1, <1>2, <1>3 DEF Worth, Unclaimed

LEMMA ClaimsOf ==
  ASSUME NEW R, Board(R), NEW top \in Seq(Nat)
  PROVE  \E left : /\ Taking(left, top, R)
                   /\ Claims(top, R) = [n \in 1..Len(top) |-> Worth(left[n - 1], top[n])]
                   /\ Claims(top, R) \in [1..Len(top) -> Nat]
<1> DEFINE k == Len(top)
           left[n \in 0..Len(top)] == IF n = 0 THEN R ELSE Unclaimed(left[n - 1], top[n])
           G == [x \in (1..k) \X SUBSET R |-> Unclaimed(x[2], top[x[1]])]
           Passes(f) == f = [n \in 0..Len(top) |-> IF n = 0 THEN R ELSE Unclaimed(f[n - 1], top[n])]
<1>1. Claims(top, R) = [n \in 1..k |-> Worth(left[n - 1], top[n])]
  BY DEF Claims
<1>2. k \in Nat
  BY LenProperties
<1>0. \A L \in SUBSET R : \A x : Worth(L, x) \in Nat /\ Unclaimed(L, x) \in SUBSET R
  BY WorthOf
<1>3. G \in [(1..k) \X SUBSET R -> SUBSET R]
  <2>1. \A n \in 1..k, L \in SUBSET R : Unclaimed(L, top[n]) \in SUBSET R
    BY <1>0
  <2> QED
    BY <2>1
<1>4. \A n \in 1..k, L \in SUBSET R : G[<<n, L>>] = Unclaimed(L, top[n])
  OBVIOUS
<1> HIDE DEF left
<1>5. \E f : Passes(f) /\ f \in [0..k -> SUBSET R]
  <2>0. PICK f \in [0..k -> SUBSET R] : Stepwise(f, k, R, G)
    <3>1. R \in SUBSET R
      OBVIOUS
    <3> HIDE DEF G, k
    <3> QED
      BY <1>2, <1>3, <3>1, Recursion
  <2>1. f = [n \in 0..k |-> IF n = 0 THEN R ELSE G[<<n, f[n - 1]>>]]
    BY <2>0 DEF Stepwise
  <2>2. \A n \in 0..k : n # 0 => n \in 1..k /\ n - 1 \in 0..k
    BY <1>2
  <2> HIDE DEF G
  <2>3. \A n \in 0..k : n # 0 => G[<<n, f[n - 1]>>] = Unclaimed(f[n - 1], top[n])
    BY <1>4, <2>0, <2>2
  <2>4. \A n \in 0..k : f[n] = IF n = 0 THEN R ELSE Unclaimed(f[n - 1], top[n])
    BY <2>1, <2>3
  <2>5. f = [n \in 0..k |-> f[n]]
    OBVIOUS
  <2>6. f = [n \in 0..k |-> IF n = 0 THEN R ELSE Unclaimed(f[n - 1], top[n])]
    BY <2>4, <2>5
  <2> QED
    BY <2>6
<1>6. Passes(left)
  <2>1. left = CHOOSE f : Passes(f)
    BY DEF left
  <2> HIDE DEF Passes
  <2> QED
    BY <1>5, <2>1
<1>7. left[0] = R /\ \A n \in 1..k : left[n] = Unclaimed(left[n - 1], top[n])
  <2>1. 0 \in 0..k /\ \A n \in 1..k : n \in 0..k /\ n # 0
    BY <1>2
  <2>2. \A n \in 0..k : left[n] = IF n = 0 THEN R ELSE Unclaimed(left[n - 1], top[n])
    BY <1>6
  <2> QED
    BY <2>1, <2>2
<1>8. \A n \in 0..k : left[n] \in SUBSET R
  <2> DEFINE Good == {n \in 0..k : left[n] \in SUBSET R}
  <2>1. 0 \in Good
    BY <1>2, <1>7
  <2>2. ASSUME NEW n \in 1..k, n - 1 \in Good PROVE n \in Good
    <3>1. n \in 0..k /\ left[n] = Unclaimed(left[n - 1], top[n]) /\ left[n - 1] \in SUBSET R
      BY <1>2, <1>7, <2>2
    <3>2. left[n] \in SUBSET R
      BY <1>0, <3>1
    <3> QED
      BY <3>1, <3>2
  <2>3. \A n \in 0..k : n \in Good
    <3> HIDE DEF Good
    <3> QED
      BY <1>2, <2>1, <2>2, Reaches
  <2> QED
    BY <2>3
<1>9. left \in [0..k -> SUBSET R]
  <2>1. left = [n \in 0..k |-> left[n]]
    BY <1>6
  <2> QED
    BY <1>8, <2>1
<1>10. Taking(left, top, R)
  BY <1>7, <1>9 DEF Taking
<1>11. Claims(top, R) \in [1..k -> Nat]
  <2>1. \A n \in 1..k : n - 1 \in 0..k
    BY <1>2
  <2>2. \A n \in 1..k : Worth(left[n - 1], top[n]) \in Nat
    <3> TAKE n \in 1..k
    <3>1. left[n - 1] \in SUBSET R
      BY <1>8, <2>1
    <3> QED
      BY <1>0, <3>1
  <2> QED
    BY <1>1, <2>2
<1> QED
  BY <1>1, <1>10, <1>11

\* What is claimed stays claimed.
LEMMA LeftFalls ==
  ASSUME NEW R, Board(R), NEW top \in Seq(Nat), NEW left, Taking(left, top, R)
  PROVE  \A x, y \in 0..Len(top) : x <= y => left[y] \subseteq left[x]
<1> TAKE x, y \in 0..Len(top)
<1> HAVE x <= y
<1> DEFINE k == Len(top)
           Good == {n \in 0..k : n >= x => left[n] \subseteq left[x]}
<1>0. k \in Nat
  BY LenProperties
<1>1. 0 \in Good
  <2>1. 0 >= x => x = 0
    BY <1>0
  <2> QED
    BY <1>0, <2>1
<1>2. ASSUME NEW n \in 1..k, n - 1 \in Good PROVE n \in Good
  <2>1. n \in 0..k /\ n - 1 \in 0..k
    BY <1>0
  <2>2. left[n] = Unclaimed(left[n - 1], top[n]) /\ left[n - 1] \in SUBSET R
    BY <2>1 DEF Taking
  <2>3. left[n] \subseteq left[n - 1]
    BY <2>2 DEF Unclaimed
  <2>4. CASE n - 1 >= x
    BY <1>2, <2>1, <2>3, <2>4
  <2>5. CASE ~(n - 1 >= x)
    <3>1. n >= x => n = x
      BY <1>0, <2>5
    <3> QED
      BY <2>1, <3>1
  <2> QED
    BY <2>4, <2>5
<1>3. \A n \in 0..k : n \in Good
  <2> HIDE DEF Good
  <2> QED
    BY <1>0, <1>1, <1>2, Reaches
<1> QED
  BY <1>3

\* No two results claim the same, and so none finds more than there is.
LEMMA RecallOf ==
  ASSUME NEW R, Board(R), NEW top \in Seq(Nat)
  PROVE  Cardinality({i \in DOMAIN Claims(top, R) : Claims(top, R)[i] >= 1})
         <= Cardinality({r \in R : r.grade >= 1})
<1> DEFINE k == Len(top)
           gains == Claims(top, R)
           I == {i \in DOMAIN gains : gains[i] >= 1}
           J == {r \in R : r.grade >= 1}
<1>1. PICK left : /\ Taking(left, top, R)
                  /\ Claims(top, R) = [n \in 1..Len(top) |-> Worth(left[n - 1], top[n])]
                  /\ Claims(top, R) \in [1..Len(top) -> Nat]
  BY ClaimsOf
<1>2. k \in Nat /\ \A n \in 1..k : n \in 0..k /\ n - 1 \in 0..k /\ n - 1 \in Nat
  BY LenProperties
<1>3. DOMAIN gains = 1..k /\ \A n \in 1..k : gains[n] = Worth(left[n - 1], top[n])
  BY <1>1
<1> HIDE DEF gains
<1> DEFINE OfIt(i) == Over(left[i - 1], top[i])
           f == [i \in I |-> Best(OfIt(i))]
<1>4. \A i \in I : i \in 1..k /\ Best(OfIt(i)) \in left[i - 1] /\ Best(OfIt(i)) \notin left[i]
                   /\ Best(OfIt(i)) \in R /\ Best(OfIt(i)).grade >= 1
  <2> TAKE i \in I
  <2>1. i \in 1..k /\ gains[i] = Worth(left[i - 1], top[i]) /\ gains[i] >= 1
    BY <1>3
  <2>2. left[i - 1] \in SUBSET R /\ left[i] = Unclaimed(left[i - 1], top[i])
    BY <1>1, <1>2, <2>1 DEF Taking
  <2>3. OfIt(i) # {}
    <3>1. ~(0 >= 1)
      OBVIOUS
    <3> QED
      BY <2>1, <3>1 DEF Worth
  <2>4. OfIt(i) \in SUBSET R /\ OfIt(i) \subseteq left[i - 1]
    BY <2>2 DEF Over
  <2>5. Best(OfIt(i)) \in OfIt(i)
    <3> HIDE DEF OfIt
    <3> QED
      BY <2>3, <2>4, BestOf
  <2>6. gains[i] = Best(OfIt(i)).grade
    BY <2>1, <2>3 DEF Worth
  <2>7. Best(OfIt(i)) \notin left[i]
    BY <2>2, <2>3 DEF Unclaimed
  <2> QED
    BY <2>1, <2>4, <2>5, <2>6, <2>7
<1>5. \A i, j \in I : i < j => Best(OfIt(i)) # Best(OfIt(j))
  <2> TAKE i, j \in I
  <2> HAVE i < j
  <2>1. i \in 0..k /\ j - 1 \in 0..k /\ i <= j - 1
    BY <1>2, <1>4
  <2>2. left[j - 1] \subseteq left[i]
    BY <1>1, <2>1, LeftFalls
  <2> QED
    BY <1>4, <2>2
<1>6. IsFiniteSet(J)
  BY FS_Subset DEF Board
<1>7. f \in Injection(I, J)
  <2> DEFINE y(i) == Best(OfIt(i))
  <2>1. \A i \in I : y(i) \in J /\ i \in Nat
    BY <1>2, <1>4
  <2>2. \A i, j \in I : y(i) = y(j) => i = j
    <3>1. \A i, j \in I : i < j \/ j < i \/ i = j
      BY <2>1
    <3> QED
      BY <1>5, <3>1
  <2>3. f = [i \in I |-> y(i)]
    OBVIOUS
  <2> HIDE DEF y, f, I, J
  <2>4. f \in [I -> J] /\ DOMAIN f = I /\ \A i \in I : f[i] = y(i)
    BY <2>1, <2>3
  <2> QED
    BY <2>2, <2>4 DEF Injection, IsInjective
<1>8. Cardinality(I) <= Cardinality(J)
  <2> HIDE DEF f, I, J
  <2> QED
    BY <1>6, <1>7, FS_Injection
<1> QED
  BY <1>8 DEF gains

\* No ranking is better than the ideal one.
LEMMA NoBetter ==
  ASSUME NEW R, Board(R), NEW top \in Seq(Nat)
  PROVE  Discounted(Claims(top, R)) <= Ideal(R) /\ Discounted(Claims(top, R)) \in Nat
<1> DEFINE l == Len(top)
           m == Len(Discount)
           N == Cardinality(R)
           k == l + m + N
           gains == Claims(top, R)
           o == InOrder(R, Rivals(R))
           best == [i \in 1..N |-> o[i].grade]
           g == [n \in 1..k |-> IF n \in 1..l THEN gains[n] ELSE 0]
           h == [n \in 1..k |-> IF n \in 1..N THEN o[n].grade ELSE 0]
<1>1. PICK left : /\ Taking(left, top, R)
                  /\ Claims(top, R) = [n \in 1..Len(top) |-> Worth(left[n - 1], top[n])]
                  /\ Claims(top, R) \in [1..Len(top) -> Nat]
  BY ClaimsOf
<1>2. l \in Nat /\ m \in Nat /\ N \in Nat
  BY LenProperties, Discounts, FS_CardinalityType DEF Board
<1>3. /\ o \in [1..N -> R]
      /\ \A x \in R : \E i \in 1..N : o[i] = x
      /\ \A i, j \in 1..N : i < j <=> <<o[i], o[j]>> \in Rivals(R)
  <2>1. IsFiniteSet(R) /\ Lines(R, Rivals(R))
    BY AheadLines DEF Board
  <2> QED
    BY <2>1, Sorted
<1>4. Ideal(R) = Discounted(best)
  <2>1. Ideal(R) = Discounted([i \in DOMAIN o |-> o[i].grade])
    BY DEF Ideal, Rivals
  <2> HIDE DEF o
  <2>2. DOMAIN o = 1..N
    BY <1>3
  <2> QED
    BY <2>1, <2>2
<1> HIDE DEF o, N, gains
<1>5. gains \in [1..l -> Nat] /\ \A n \in 1..l : gains[n] = Worth(left[n - 1], top[n])
  BY <1>1 DEF gains
<1>6. \A i \in 1..N : o[i] \in R /\ o[i].grade \in Nat
  BY <1>3 DEF Board
<1>7. \A i, j \in 1..N : /\ i <= j => o[i].grade >= o[j].grade
                         /\ o[i] = o[j] => i = j
  <2> TAKE i, j \in 1..N
  <2>1. \A p, q \in 1..N : p < q => o[p].grade >= o[q].grade /\ o[p] # o[q]
    <3> TAKE p, q \in 1..N
    <3> HAVE p < q
    <3>1. <<o[p], o[q]>> \in Rivals(R) /\ o[p] \in R /\ o[q] \in R
      BY <1>3
    <3> QED
      BY <3>1, AheadLines
  <2>2. i < j \/ j < i \/ i = j
    BY <1>2
  <2>3. i <= j => i < j \/ i = j
    BY <1>2
  <2>4. o[i].grade >= o[i].grade
    BY <1>6
  <2> QED
    BY <2>1, <2>2, <2>3, <2>4
<1>8. k \in Nat /\ l <= k /\ m <= k /\ N <= k
  BY <1>2
<1> HIDE DEF k
<1>9. g \in [1..k -> Nat] /\ h \in [1..k -> Nat] /\ best \in [1..N -> Nat]
  BY <1>5, <1>6
<1>10. /\ \A n \in 1..k : /\ n \in 1..l => g[n] = gains[n]
                          /\ n \notin 1..l => g[n] = 0
                          /\ n \in 1..N => h[n] = o[n].grade
                          /\ n \notin 1..N => h[n] = 0
       /\ \A n \in 1..N : best[n] = o[n].grade
       /\ DOMAIN gains = 1..l /\ DOMAIN best = 1..N
  BY <1>5
<1>11. \A i, j \in 1..k : i <= j => h[i] >= h[j]
  <2> TAKE i, j \in 1..k
  <2> HAVE i <= j
  <2> HIDE DEF h
  <2>1. CASE j \in 1..N
    <3>1. i \in 1..N
      BY <1>2, <1>8, <2>1
    <3> QED
      BY <1>7, <1>10, <2>1, <3>1
  <2>2. CASE j \notin 1..N
    <3>1. h[j] = 0 /\ h[i] \in Nat
      BY <1>9, <1>10, <2>2
    <3> QED
      BY <3>1
  <2> QED
    BY <2>1, <2>2
<1> HIDE DEF g, h, best
<1>12. PICK A : Sums(A, g, k)
  BY <1>8, <1>9, Summed
<1>13. PICK B : Sums(B, h, k)
  BY <1>8, <1>9, Summed
<1>14. PICK S, v : Weighs(v, gains, l) /\ Sums(S, v, m) /\ Discounted(gains) = S[m]
  BY <1>2, <1>5, DiscountedOf
<1>15. PICK T, w : Weighs(w, best, N) /\ Sums(T, w, m) /\ Discounted(best) = T[m]
  BY <1>2, <1>9, DiscountedOf
<1>16. Weighs(v, g, k) /\ Weighs(w, h, k)
  <2>1. \A n \in 1..m : n \in 1..k
    BY <1>2, <1>8
  <2>2. \A n \in 1..m : Discount[n] \in Nat
    BY Discounts
  <2>3. \A d \in Nat : 0 * d = 0
    OBVIOUS
  <2>4. \A n \in 1..m : v[n] = g[n] * Discount[n]
    BY <1>10, <1>14, <2>1, <2>2, <2>3 DEF Weighs
  <2>5. \A n \in 1..m : w[n] = h[n] * Discount[n]
    BY <1>10, <1>15, <2>1, <2>2, <2>3 DEF Weighs
  <2> QED
    BY <1>14, <1>15, <2>1, <2>4, <2>5 DEF Weighs
<1> DEFINE P(n) == {j \in 1..N : o[j] \notin left[n]}
           W(Q) == [j \in 1..k |-> IF j \in Q THEN h[j] ELSE 0]
<1>17. \A Q \in SUBSET (1..N) : W(Q) \in [1..k -> Nat] /\ \A j \in 1..k : W(Q)[j] = IF j \in Q THEN h[j] ELSE 0
  BY <1>9
<1>18. \A Q \in SUBSET (1..N) : IsFiniteSet(Q)
  <2>1. IsFiniteSet(1..N)
    BY <1>2, FS_Interval
  <2> QED
    BY <2>1, FS_Subset
<1> DEFINE Good == {n \in 0..l : Cardinality(P(n)) <= n /\ \A s : Sums(s, W(P(n)), k) => s[k] = A[n]}
<1>19. 0 \in Good
  <2>1. P(0) = {} /\ 0 \in 0..l /\ A[0] = 0
    BY <1>1, <1>2, <1>6, <1>12 DEF Taking, Sums
  <2>2. ASSUME NEW s, Sums(s, W({}), k) PROVE s[k] = 0
    <3> DEFINE Nil == {n \in 0..k : s[n] = 0}
    <3>1. 0 \in Nil
      BY <1>8, <2>2 DEF Sums
    <3>2. ASSUME NEW n \in 1..k, n - 1 \in Nil PROVE n \in Nil
      <4>1. s[n] = s[n - 1] + W({})[n] /\ W({})[n] = 0 /\ n \in 0..k
        BY <1>8, <2>2 DEF Sums
      <4> HIDE DEF W
      <4> QED
        BY <3>2, <4>1
    <3>3. \A n \in 0..k : n \in Nil
      <4> HIDE DEF Nil
      <4> QED
        BY <1>8, <3>1, <3>2, Reaches
    <3> QED
      BY <1>8, <3>3
  <2>3. Cardinality({}) = 0
    BY FS_EmptySet
  <2>4. \A s : Sums(s, W(P(0)), k) => s[k] = A[0]
    <3> HIDE DEF P, W
    <3> QED
      BY <2>1, <2>2, Zenon
  <2>5. Cardinality(P(0)) <= 0
    <3> HIDE DEF P
    <3>0. P(0) = {}
      BY <2>1
    <3>1. Cardinality(P(0)) = 0
      BY <2>3, <3>0
    <3>2. 0 <= 0
      OBVIOUS
    <3> QED
      BY <3>1, <3>2
  <2> HIDE DEF P, W
  <2> QED
    BY <2>1, <2>4, <2>5
<1>20. ASSUME NEW n \in 1..l, n - 1 \in Good PROVE n \in Good
  <2>1. n \in 0..l /\ n - 1 \in 0..l /\ n \in 1..k /\ n \in 0..k /\ n - 1 \in 0..k
    BY <1>2, <1>8
  <2>2. left[n - 1] \in SUBSET R /\ left[n] = Unclaimed(left[n - 1], top[n])
    BY <1>1, <2>1 DEF Taking
  <2>3. A[n] = A[n - 1] + g[n] /\ g[n] = gains[n] /\ gains[n] = Worth(left[n - 1], top[n])
        /\ A[n - 1] \in Nat /\ g[n] \in Nat
    BY <1>5, <1>9, <1>10, <1>12, <2>1 DEF Sums
  <2>4. P(n - 1) \in SUBSET (1..N) /\ P(n) \in SUBSET (1..N)
    OBVIOUS
  <2>5. Cardinality(P(n - 1)) <= n - 1 /\ \A s : Sums(s, W(P(n - 1)), k) => s[k] = A[n - 1]
    BY <1>20
  <2>6. Cardinality(P(n - 1)) \in Nat
    <3> HIDE DEF P
    <3> QED
      BY <1>18, <2>4, FS_CardinalityType
  <2> DEFINE X == Over(left[n - 1], top[n])
  <2>7. CASE X = {}
    <3>1. left[n] = left[n - 1] /\ gains[n] = 0
      BY <2>2, <2>3, <2>7 DEF Unclaimed, Worth
    <3>2. P(n) = P(n - 1)
      BY <3>1
    <3>3. A[n] = A[n - 1]
      BY <2>3, <3>1
    <3> HIDE DEF P, W
    <3>4. Cardinality(P(n)) <= n
      BY <2>1, <2>5, <2>6, <3>2
    <3> QED
      BY <2>1, <2>5, <3>2, <3>3, <3>4
  <2>8. CASE X # {}
    <3>1. X \in SUBSET R /\ X \subseteq left[n - 1]
      BY <2>2 DEF Over
    <3>2. Best(X) \in X
      <4> HIDE DEF X
      <4> QED
        BY <2>8, <3>1, BestOf
    <3>3. left[n] = left[n - 1] \ {Best(X)} /\ gains[n] = Best(X).grade
      BY <2>2, <2>3, <2>8 DEF Unclaimed, Worth
    <3> HIDE DEF X
    <3>4. PICK j \in 1..N : o[j] = Best(X)
      BY <1>3, <3>1, <3>2
    <3>5. j \notin P(n - 1) /\ j \in 1..k /\ h[j] = g[n]
      BY <1>2, <1>8, <1>10, <2>3, <3>1, <3>2, <3>3, <3>4
    <3>6. P(n) = P(n - 1) \cup {j}
      BY <1>7, <3>3, <3>4
    <3> HIDE DEF P
    <3>7. Cardinality(P(n)) <= n
      <4>1. Cardinality(P(n)) = Cardinality(P(n - 1)) + 1
        BY <1>18, <2>4, <3>5, <3>6, FS_AddElement
      <4> QED
        BY <2>1, <2>5, <2>6, <4>1
    <3>8. ASSUME NEW t, Sums(t, W(P(n)), k) PROVE t[k] = A[n]
      <4>1. W(P(n - 1)) \in [1..k -> Nat] /\ W(P(n)) \in [1..k -> Nat]
        BY <1>17, <2>4
      <4>2. PICK s : Sums(s, W(P(n - 1)), k)
        BY <1>8, <4>1, Summed
      <4>3. \A i \in 1..k : W(P(n))[i] = IF i = j THEN W(P(n - 1))[i] + g[n] ELSE W(P(n - 1))[i]
        <5> TAKE i \in 1..k
        <5>1. /\ W(P(n))[i] = IF i \in P(n) THEN h[i] ELSE 0
              /\ W(P(n - 1))[i] = IF i \in P(n - 1) THEN h[i] ELSE 0
          BY <1>17, <2>4
        <5> HIDE DEF W
        <5>2. CASE i = j
          BY <2>3, <3>5, <3>6, <5>1, <5>2
        <5>3. CASE i # j
          BY <3>6, <5>1, <5>3
        <5> QED
          BY <5>2, <5>3
      <4> HIDE DEF W
      <4>4. t[k] = s[k] + g[n]
        <5> DEFINE w1 == W(P(n - 1)) w2 == W(P(n)) c == g[n]
        <5>1. /\ w1 \in [1..k -> Nat] /\ w2 \in [1..k -> Nat] /\ c \in Nat /\ Sums(s, w1, k) /\ Sums(t, w2, k)
              /\ \A i \in 1..k : w2[i] = IF i = j THEN w1[i] + c ELSE w1[i]
          BY <2>3, <3>8, <4>1, <4>2, <4>3
        <5> HIDE DEF w1, w2, c
        <5>2. t[k] = s[k] + c
          <6>1. k \in Nat /\ j \in 1..k
            BY <1>8, <3>5
          <6> QED
            <7>1. \A s1, t1 : Sums(s1, w1, k) /\ Sums(t1, w2, k) => t1[k] = s1[k] + c
              BY <5>1, <6>1, OneMore
            <7> QED
              BY <5>1, <7>1
        <5> QED
          BY <5>2 DEF c
      <4>5. s[k] = A[n - 1]
        BY <2>5, <4>2
      <4> QED
        BY <2>3, <4>4, <4>5
    <3> HIDE DEF W
    <3> QED
      BY <2>1, <3>7, <3>8
  <2> QED
    BY <2>7, <2>8
<1>21. \A n \in 0..l : n \in Good
  <2> HIDE DEF Good
  <2> QED
    BY <1>2, <1>19, <1>20, Reaches
<1>22. \A n \in 0..l : A[n] <= B[n]
  <2> TAKE n \in 0..l
  <2>1. Cardinality(P(n)) <= n /\ \A s : Sums(s, W(P(n)), k) => s[k] = A[n]
    BY <1>21
  <2>2. P(n) \in SUBSET (1..N) /\ P(n) \in SUBSET (1..k)
    BY <1>2, <1>8
  <2>3. W(P(n)) \in [1..k -> Nat] /\ \A j \in 1..k : W(P(n))[j] = IF j \in P(n) THEN h[j] ELSE 0
    <3> HIDE DEF W, P
    <3> QED
      BY <1>17, <2>2
  <2> DEFINE Q == P(n) u == W(P(n))
  <2>4. /\ Q \in SUBSET (1..k) /\ u \in [1..k -> Nat] /\ \A j \in 1..k : u[j] = IF j \in Q THEN h[j] ELSE 0
        /\ Cardinality(Q) <= n /\ \A s : Sums(s, u, k) => s[k] = A[n]
    BY <2>1, <2>2, <2>3
  <2> HIDE DEF P, W, Q, u, Good
  <2>5. PICK s : Sums(s, u, k)
    BY <1>8, <2>4, Summed
  <2>6. Cardinality(Q) \in 0..k /\ s[k] <= B[Cardinality(Q)]
    BY <1>8, <1>9, <1>11, <1>13, <2>4, <2>5, First
  <2>7. n \in 0..k /\ Cardinality(Q) <= n
    BY <1>2, <1>8, <2>4
  <2>8. B[Cardinality(Q)] <= B[n]
    BY <1>8, <1>9, <1>13, <2>6, <2>7, Grows
  <2>9. s[k] = A[n] /\ A[n] \in Nat /\ B[n] \in Nat /\ B[Cardinality(Q)] \in Nat
    BY <1>12, <1>13, <2>4, <2>5, <2>6, <2>7 DEF Sums
  <2> QED
    BY <2>6, <2>8, <2>9
<1>23. \A n \in 0..k : A[n] <= B[n]
  <2> DEFINE Fine == {n \in 0..k : A[n] <= B[n]}
  <2> HIDE DEF P, W, Good
  <2>1. 0 \in Fine
    BY <1>2, <1>8, <1>22
  <2>2. ASSUME NEW n \in 1..k, n - 1 \in Fine PROVE n \in Fine
    <3>1. n \in 0..k /\ n - 1 \in 0..k
      BY <1>8
    <3>2. CASE n \in 1..l
      BY <1>22, <3>1, <3>2
    <3>3. CASE n \notin 1..l
      <4>1. g[n] = 0 /\ A[n] = A[n - 1] + g[n] /\ B[n] = B[n - 1] + h[n] /\ h[n] \in Nat
            /\ A[n - 1] \in Nat /\ B[n - 1] \in Nat /\ A[n - 1] <= B[n - 1]
        BY <1>9, <1>10, <1>12, <1>13, <2>2, <3>1, <3>3 DEF Sums
      <4> QED
        BY <3>1, <4>1
    <3> QED
      BY <3>2, <3>3
  <2>3. \A n \in 0..k : n \in Fine
    <3> HIDE DEF Fine
    <3> QED
      BY <1>8, <2>1, <2>2, Reaches
  <2> QED
    BY <2>3
<1> HIDE DEF P, W, Good
<1>24. S[m] <= T[m]
  BY <1>8, <1>9, <1>12, <1>13, <1>14, <1>15, <1>16, <1>23, Abel
<1>25. S[m] \in Nat
  <2>1. m \in 0..m
    BY <1>2
  <2> QED
    BY <1>14, <2>1 DEF Sums
<1> QED
  BY <1>4, <1>14, <1>15, <1>24, <1>25 DEF gains

\* Of two results that follow each other, and of which the second is worth more, each still
\* claims what it claimed when they change places.
LEMMA Swapped ==
  ASSUME NEW R, Board(R), NEW L \in SUBSET R, NEW x, NEW y, Worth(Unclaimed(L, x), y) > Worth(L, x)
  PROVE  /\ Worth(L, y) = Worth(Unclaimed(L, x), y) /\ Worth(Unclaimed(L, y), x) = Worth(L, x)
         /\ Unclaimed(Unclaimed(L, y), x) = Unclaimed(Unclaimed(L, x), y)
<1> DEFINE L1 == Unclaimed(L, x)
           X == Best(Over(L, x))
           Y == Best(Over(L1, y))
           none == Over(L, x) = {}
<1>1. \A M \in SUBSET R : \A z : Worth(M, z) \in Nat /\ Unclaimed(M, z) \in SUBSET R /\ Over(M, z) \in SUBSET R
  BY WorthOf
<1>2. L1 \in SUBSET R /\ L1 = L \ (IF none THEN {} ELSE {X})
  BY <1>1 DEF Unclaimed
<1>3. Worth(L, x) = IF none THEN 0 ELSE X.grade
  BY DEF Worth
<1>4. ~none => X \in Over(L, x) /\ X \in L /\ X \in R
  <2>1. Over(L, x) \in SUBSET R /\ Over(L, x) \subseteq L
    BY <1>1 DEF Over
  <2> QED
    BY <2>1, BestOf
<1>5. Over(L1, y) # {} /\ Worth(L1, y) = Y.grade
  <2> HIDE DEF L1, X, none
  <2>1. ASSUME Over(L1, y) = {} PROVE FALSE
    <3>1. Worth(L1, y) = 0 /\ Worth(L, x) \in Nat
      BY <1>1, <2>1 DEF Worth
    <3>2. \A u \in Nat : ~(0 > u)
      OBVIOUS
    <3> QED
      BY <3>1, <3>2 DEF L1
  <2> QED
    BY <2>1 DEF Worth
<1>6. /\ Y \in Over(L1, y) /\ Y \in L1 /\ Y \in R /\ Y \in L /\ Y \in Over(L, y)
      /\ \A s \in Over(L1, y) : s # Y => Ahead(Y, s)
  <2>1. Over(L1, y) \in SUBSET R
    BY <1>1, <1>2
  <2>2. Y \in Over(L1, y) /\ \A s \in Over(L1, y) : s # Y => Ahead(Y, s)
    <3> HIDE DEF L1
    <3> QED
      BY <1>5, <2>1, BestOf
  <2> HIDE DEF Y, X
  <2> QED
    BY <1>2, <2>1, <2>2 DEF Over
<1>7. \A r \in R : r.grade \in Nat
  BY DEF Board
<1>8. ~none => Y # X /\ Y.grade > X.grade
  <2>1. ASSUME ~none PROVE Y # X
    BY <1>2, <1>6, <2>1
  <2>2. ASSUME ~none PROVE Y.grade > X.grade
    <3>1. Worth(L, x) = X.grade /\ Worth(L1, y) > Worth(L, x)
      BY <1>3, <2>2
    <3> HIDE DEF X, Y, L1
    <3> QED
      BY <1>5, <3>1
  <2> QED
    BY <2>1, <2>2
<1> HIDE DEF X, Y, none, L1
<1>9. ~none => Ahead(Y, X) /\ ~Ahead(X, Y)
  <2> SUFFICES ASSUME ~none PROVE Ahead(Y, X) /\ ~Ahead(X, Y)
    OBVIOUS
  <2>1. X \in R /\ Y \in R /\ X # Y /\ Y.grade > X.grade
    BY <1>4, <1>6, <1>8
  <2>2. Ahead(Y, X)
    BY <2>1 DEF Ahead
  <2> QED
    BY <2>1, <2>2, AheadLines
<1>10. Best(Over(L, y)) = Y
  <2>1. Over(L, y) \in SUBSET R /\ Over(L, y) # {}
    BY <1>1, <1>6
  <2>2. \A s \in Over(L, y) : s # Y => Ahead(Y, s)
    <3> TAKE s \in Over(L, y)
    <3> HAVE s # Y
    <3>1. s \in L1 => s \in Over(L1, y)
      BY DEF Over
    <3>2. s \notin L1 => ~none /\ s = X
      BY <1>2 DEF Over
    <3> QED
      BY <1>6, <1>9, <3>1, <3>2
  <2> QED
    BY <1>6, <2>1, <2>2, BestOf
<1> DEFINE M == Unclaimed(L, y)
<1>11. Worth(L, y) = Y.grade /\ M = L \ {Y} /\ M \in SUBSET R
  <2>1. Over(L, y) # {}
    BY <1>6
  <2> QED
    BY <1>1, <1>10, <2>1 DEF Worth, Unclaimed
<1> HIDE DEF M
<1>12. Over(M, x) = Over(L, x)
  <2>1. Y \notin Over(L, x)
    <3>1. ASSUME Y \in Over(L, x) PROVE FALSE
      <4>1. ~none /\ Y # X
        BY <1>8, <3>1 DEF none
      <4>2. Over(L, x) \in SUBSET R /\ Over(L, x) # {}
        BY <1>1, <3>1
      <4>3. Ahead(X, Y)
        BY <3>1, <4>1, <4>2, BestOf DEF X
      <4> QED
        BY <1>9, <4>1, <4>3
    <3> QED
      BY <3>1
  <2> QED
    BY <1>11, <2>1 DEF Over
<1>13. Worth(M, x) = Worth(L, x)
  BY <1>12 DEF Worth
<1>14. Unclaimed(M, x) = M \ (IF none THEN {} ELSE {X})
  BY <1>12 DEF Unclaimed, none, X
<1>15. Unclaimed(L1, y) = L1 \ {Y}
  BY <1>5 DEF Unclaimed, Y
<1>16. Unclaimed(M, x) = Unclaimed(L1, y)
  BY <1>2, <1>11, <1>14, <1>15
<1> QED
  BY <1>5, <1>11, <1>13, <1>16 DEF L1, M

LEMMA Promoted ==
  ASSUME NEW R, Board(R), NEW top \in Seq(Nat), NEW i \in 1..(Len(top) - 1),
         Claims(top, R)[i + 1] > Claims(top, R)[i]
  PROVE  Discounted(Claims([top EXCEPT ![i] = top[i + 1], ![i + 1] = top[i]], R)) >= Discounted(Claims(top, R))
<1> DEFINE l == Len(top)
           m == Len(Discount)
           new == [top EXCEPT ![i] = top[i + 1], ![i + 1] = top[i]]
           g == Claims(top, R)
           h == Claims(new, R)
<1>1. l \in Nat /\ m \in Nat /\ i \in 1..l /\ i + 1 \in 1..l /\ i # i + 1 /\ i - 1 \in 0..l /\ i \in 0..l
      /\ i + 1 \in 0..l /\ (i + 1) - 1 = i
  BY LenProperties, Discounts
<1>2. DOMAIN top = 1..l /\ \A n \in 1..l : top[n] \in Nat
  BY LenProperties, ElementOfSeq
<1>3. /\ DOMAIN new = 1..l /\ new[i] = top[i + 1] /\ new[i + 1] = top[i]
      /\ \A n \in 1..l : n # i /\ n # i + 1 => new[n] = top[n]
  BY <1>1, <1>2
<1>4. new \in Seq(Nat) /\ Len(new) = l
  <2>1. new = [n \in 1..l |-> new[n]]
    BY <1>2
  <2> HIDE DEF new, l
  <2>2. \A n \in 1..l : new[n] \in Nat
    BY <1>1, <1>2, <1>3
  <2>3. new \in [1..l -> Nat]
    BY <2>1, <2>2
  <2> QED
    BY <1>1, <2>3, AsSeq
<1> HIDE DEF new, l
<1>5. PICK left : /\ Taking(left, top, R)
                  /\ Claims(top, R) = [n \in 1..Len(top) |-> Worth(left[n - 1], top[n])]
                  /\ Claims(top, R) \in [1..Len(top) -> Nat]
  BY ClaimsOf
<1>6. PICK rest : /\ Taking(rest, new, R)
                  /\ Claims(new, R) = [n \in 1..Len(new) |-> Worth(rest[n - 1], new[n])]
                  /\ Claims(new, R) \in [1..Len(new) -> Nat]
  BY <1>4, ClaimsOf
<1>7. /\ g \in [1..l -> Nat] /\ h \in [1..l -> Nat]
      /\ \A n \in 1..l : g[n] = Worth(left[n - 1], top[n]) /\ h[n] = Worth(rest[n - 1], new[n])
  BY <1>4, <1>5, <1>6 DEF l
<1>8. g[i + 1] > g[i]
  OBVIOUS
<1> HIDE DEF g, h
<1>9. /\ left[0] = R /\ rest[0] = R /\ \A n \in 0..l : left[n] \in SUBSET R
      /\ \A n \in 1..l : n - 1 \in 0..l /\ left[n] = Unclaimed(left[n - 1], top[n]) /\ rest[n] = Unclaimed(rest[n - 1], new[n])
  <2>1. /\ left \in [0..l -> SUBSET R] /\ left[0] = R
        /\ \A n \in 1..l : left[n] = Unclaimed(left[n - 1], top[n])
    BY <1>5 DEF Taking, l
  <2>2. rest[0] = R /\ \A n \in 1..l : rest[n] = Unclaimed(rest[n - 1], new[n])
    BY <1>4, <1>6 DEF Taking
  <2>3. \A n \in 1..l : n - 1 \in 0..l
    BY <1>1
  <2> QED
    BY <2>1, <2>2, <2>3
\* What is left is the same but between the two.
<1>10. /\ Worth(left[i - 1], top[i + 1]) = g[i + 1]
       /\ Worth(Unclaimed(left[i - 1], top[i + 1]), top[i]) = g[i]
       /\ Unclaimed(Unclaimed(left[i - 1], top[i + 1]), top[i]) = left[i + 1]
  <2> DEFINE L == left[i - 1] x == top[i] y == top[i + 1]
  <2>1. L \in SUBSET R /\ g[i] = Worth(L, x) /\ left[i] = Unclaimed(L, x) /\ g[i + 1] = Worth(left[i], y)
        /\ left[i + 1] = Unclaimed(left[i], y)
    BY <1>1, <1>7, <1>9
  <2>2. Worth(Unclaimed(L, x), y) > Worth(L, x)
    BY <1>8, <2>1
  <2>3. /\ Worth(L, y) = Worth(Unclaimed(L, x), y) /\ Worth(Unclaimed(L, y), x) = Worth(L, x)
        /\ Unclaimed(Unclaimed(L, y), x) = Unclaimed(Unclaimed(L, x), y)
    <3> HIDE DEF L, x, y
    <3> QED
      BY <2>1, <2>2, Swapped
  <2> QED
    BY <2>1, <2>3
<1> DEFINE SameTill == {n \in 0..l : n # i => rest[n] = left[n]}
<1>11. 0 \in SameTill
  BY <1>1, <1>9
<1>12. ASSUME NEW n \in 1..l, \A j \in 0..(n - 1) : j # i => rest[j] = left[j] PROVE n # i => rest[n] = left[n]
  <2>1. SUFFICES ASSUME n # i PROVE rest[n] = left[n]
    OBVIOUS
  <2>2. n - 1 \in 0..(n - 1) /\ n - 1 \in 0..l
    BY <1>1
  <2>3. CASE n = i + 1
    <3>1. i - 1 \in 0..(n - 1) /\ i - 1 # i /\ i \in 1..l
      BY <1>1, <2>3
    <3>2. rest[i - 1] = left[i - 1] /\ rest[i] = Unclaimed(rest[i - 1], new[i])
      BY <1>9, <1>12, <3>1
    <3>3. rest[i + 1] = Unclaimed(rest[i], new[i + 1])
      BY <1>1, <1>9
    <3> QED
      BY <1>3, <1>10, <2>3, <3>2, <3>3
  <2>4. CASE n # i + 1
    <3>1. n - 1 # i
      BY <1>1, <2>4
    <3>2. rest[n - 1] = left[n - 1] /\ new[n] = top[n]
      BY <1>3, <1>12, <2>1, <2>2, <2>4, <3>1
    <3> QED
      BY <1>9, <3>2
  <2> QED
    BY <2>3, <2>4
<1>13. \A n \in 0..l : n # i => rest[n] = left[n]
  <2> DEFINE Good == {n \in 0..l : \A j \in 0..n : j # i => rest[j] = left[j]}
  <2>1. 0 \in Good
    <3>1. \A j \in 0..0 : j = 0
      OBVIOUS
    <3> QED
      BY <1>1, <1>9, <3>1
  <2>2. ASSUME NEW n \in 1..l, n - 1 \in Good PROVE n \in Good
    <3>1. \A j \in 0..(n - 1) : j # i => rest[j] = left[j]
      BY <2>2
    <3>2. n # i => rest[n] = left[n]
      BY <1>12, <3>1
    <3>3. n \in 0..l /\ \A j \in 0..n : j \in 0..(n - 1) \/ j = n
      BY <1>1
    <3> QED
      BY <3>1, <3>2, <3>3
  <2>3. \A n \in 0..l : n \in Good
    <3> HIDE DEF Good
    <3> QED
      BY <1>1, <2>1, <2>2, Reaches
  <2> TAKE n \in 0..l
  <2>4. n \in 0..n
    BY <1>1
  <2> QED
    BY <2>3, <2>4
<1>14. \A n \in 1..l : h[n] = IF n = i THEN g[i + 1] ELSE IF n = i + 1 THEN g[i] ELSE g[n]
  <2> TAKE n \in 1..l
  <2>1. h[n] = Worth(rest[n - 1], new[n]) /\ g[n] = Worth(left[n - 1], top[n])
    BY <1>7
  <2>2. CASE n = i
    <3>1. i - 1 # i /\ rest[i - 1] = left[i - 1]
      BY <1>1, <1>13
    <3> QED
      BY <1>3, <1>10, <2>1, <2>2, <3>1
  <2>3. CASE n = i + 1
    <3>1. i - 1 # i /\ rest[i - 1] = left[i - 1] /\ rest[i] = Unclaimed(rest[i - 1], new[i]) /\ n - 1 = i
      BY <1>1, <1>9, <1>13, <2>3
    <3> QED
      BY <1>1, <1>3, <1>10, <2>1, <2>3, <3>1
  <2>4. CASE n # i /\ n # i + 1
    <3>1. n - 1 # i /\ n - 1 \in 0..l
      BY <1>1, <2>4
    <3>2. rest[n - 1] = left[n - 1] /\ new[n] = top[n]
      BY <1>3, <1>13, <2>4, <3>1
    <3> QED
      BY <2>1, <2>4, <3>2
  <2> QED
    BY <2>2, <2>3, <2>4
\* And so the sums differ at the first of the two places, and not for the worse behind it.
<1>15. PICK S, v : Weighs(v, g, l) /\ Sums(S, v, m) /\ Discounted(g) = S[m]
  BY <1>1, <1>7, DiscountedOf
<1>16. PICK T, w : Weighs(w, h, l) /\ Sums(T, w, m) /\ Discounted(h) = T[m]
  BY <1>1, <1>7, DiscountedOf
<1> DEFINE u == g[i]
           z == g[i + 1]
           Good == {n \in 0..m : T[n] >= S[n] /\ (n = i => T[n] - S[n] >= Discount[i] * (z - u))}
<1>17. u \in Nat /\ z \in Nat /\ z > u
  BY <1>1, <1>7, <1>8
<1>18. \A p, q, d \in Int : d * (p - q) = p * d - q * d
  OBVIOUS
<1>19. \A d, e, x \in Nat : e <= d => e * x <= d * x
  OBVIOUS
<1>20. 0 \in Good
  <2>1. S[0] = 0 /\ T[0] = 0 /\ 0 \in 0..m /\ 0 # i /\ 0 >= 0
    BY <1>1, <1>15, <1>16 DEF Sums
  <2> QED
    BY <2>1
<1>21. ASSUME NEW n \in 1..m, n - 1 \in Good PROVE n \in Good
  <2>1. n \in 0..m /\ n - 1 \in 0..m
    BY <1>1
  <2>2. /\ S[n] = S[n - 1] + v[n] /\ T[n] = T[n - 1] + w[n] /\ T[n - 1] >= S[n - 1]
        /\ S[n - 1] \in Nat /\ T[n - 1] \in Nat /\ S[n] \in Nat /\ T[n] \in Nat
    BY <1>15, <1>16, <1>21, <2>1 DEF Sums
  <2>3. /\ v[n] \in Nat /\ w[n] \in Nat /\ Discount[n] \in Nat
        /\ v[n] = IF n \in 1..l THEN g[n] * Discount[n] ELSE 0
        /\ w[n] = IF n \in 1..l THEN h[n] * Discount[n] ELSE 0
    BY <1>15, <1>16, Discounts DEF Weighs
  <2>4. CASE n = i
    <3> DEFINE d == Discount[i] ad == u * d bd == z * d c == d * (z - u)
    <3>1. v[n] = ad /\ w[n] = bd /\ d \in Nat
      BY <1>1, <1>14, <2>3, <2>4
    <3>2. c = bd - ad /\ c >= 0
      <4> HIDE DEF d, u, z
      <4>1. z - u \in Nat /\ \A p, q \in Nat : p * q >= 0
        BY <1>17
      <4> QED
        BY <1>17, <1>18, <3>1, <4>1
    <3>3. ad \in Int /\ bd \in Int
      BY <2>3, <3>1
    <3> DEFINE s == S[n] t == T[n] s1 == S[n - 1] t1 == T[n - 1]
    <3>4. s = s1 + ad /\ t = t1 + bd /\ t1 >= s1 /\ s1 \in Nat /\ t1 \in Nat
      BY <2>2, <3>1
    <3> HIDE DEF u, z, d, ad, bd, c, s, t, s1, t1, Good
    <3>5. t >= s /\ t - s >= c
      BY <3>2, <3>3, <3>4
    <3> QED
      BY <2>1, <2>4, <3>5 DEF Good, s, t, c, d
  <2>5. CASE n = i + 1
    <3> DEFINE d == Discount[i] e == Discount[i + 1] ae == u * e be == z * e c == d * (z - u)
    <3>1. v[n] = be /\ w[n] = ae /\ e \in Nat
      BY <1>1, <1>14, <2>3, <2>5
    <3>2. d \in Nat /\ e <= d
      <4>1. i \in 1..m /\ i + 1 \in 1..m /\ (i + 1) - 1 \in 1..m
        BY <1>1, <2>5
      <4> QED
        BY <1>1, <4>1, Discounts
    <3>3. be - ae <= c /\ c \in Int
      <4> HIDE DEF d, e, u, z
      <4>1. z - u \in Nat
        BY <1>17
      <4>2. e * (z - u) <= d * (z - u)
        BY <1>19, <3>1, <3>2, <4>1
      <4>3. e * (z - u) = be - ae
        BY <1>17, <1>18, <3>1
      <4>4. d * (z - u) \in Int
        BY <3>2, <4>1
      <4> QED
        BY <4>2, <4>3, <4>4
    <3>4. n - 1 = i /\ T[n - 1] - S[n - 1] >= c /\ ae \in Int /\ be \in Int
      <4>1. n - 1 = i
        BY <1>1, <2>5
      <4>2. T[i] - S[i] >= Discount[i] * (z - u)
        BY <1>21, <4>1
      <4> QED
        BY <2>3, <3>1, <4>1, <4>2
    <3> DEFINE s == S[n] t == T[n] s1 == S[n - 1] t1 == T[n - 1]
    <3>5. s = s1 + be /\ t = t1 + ae /\ t1 - s1 >= c /\ s1 \in Nat /\ t1 \in Nat
      BY <2>2, <3>1, <3>4
    <3> HIDE DEF u, z, d, e, ae, be, c, s, t, s1, t1, Good
    <3>6. t >= s
      BY <3>3, <3>4, <3>5
    <3>7. n # i
      BY <1>1, <2>5
    <3> QED
      BY <2>1, <3>6, <3>7 DEF Good, s, t
  <2>6. CASE n # i /\ n # i + 1
    <3>1. v[n] = w[n]
      BY <1>14, <2>3, <2>6
    <3>2. T[n] >= S[n]
      <4> DEFINE s == S[n] t == T[n] s1 == S[n - 1] t1 == T[n - 1] x == v[n]
      <4>1. s = s1 + x /\ t = t1 + x /\ t1 >= s1 /\ s1 \in Nat /\ t1 \in Nat /\ x \in Nat
        BY <2>2, <2>3, <3>1
      <4> HIDE DEF s, t, s1, t1, x
      <4>2. t >= s
        BY <4>1
      <4> QED
        BY <4>2 DEF s, t
    <3> QED
      BY <2>1, <2>6, <3>2
  <2> QED
    BY <2>4, <2>5, <2>6
<1>22. m \in Good
  <2>1. m \in 0..m
    BY <1>1
  <2> HIDE DEF Good
  <2> QED
    BY <1>1, <1>20, <1>21, <2>1, Reaches
<1>23. T[m] >= S[m]
  BY <1>22
<1> QED
  BY <1>15, <1>16, <1>23 DEF g, h, new

-----------------------------------------------------------------------------
(* The battery row *)

\* The judgments and the answers are of a version there is, and the row is what it is
\* trusted for.
MetricsInv == battery \in DOMAIN Batteries /\ answers \in DOMAIN Answers /\ EnforcedIsApproved /\ GreenOnlyIfRan

LEMMA BoardOf ==
  ASSUME MetricsInv, NEW q \in ActiveQueries
  PROVE  /\ Board(Ratified(Batteries[battery][q].judged)) /\ Board(Ratified(Ratified(Batteries[battery][q].judged)))
         /\ Answers[answers][q].top \in Seq(Nat)
<1>1. q \in Queries
  BY DEF ActiveQueries
<1>2. Board(Batteries[battery][q].judged) /\ Answers[answers][q].top \in Seq(Nat)
  BY <1>1, BatteryAssumption DEF MetricsInv, Board
<1> QED
  BY <1>2, RatifiedOf

LEMMA SharesHold ==
  ASSUME MetricsInv
  PROVE  ScoresAreShares /\ PromotionNeverHurts
<1>1. ScoresAreShares
  <2> SUFFICES ASSUME NEW q \in ActiveQueries
               PROVE  LET m == QueryMetrics(Answers[answers][q].top, Batteries[battery][q].judged) IN
                      /\ m.dcg <= m.idcg /\ m.recall.num <= m.recall.den
    BY DEF ScoresAreShares
  <2> DEFINE top == Answers[answers][q].top
             J == Batteries[battery][q].judged
             m == QueryMetrics(top, J)
  <2>1. Board(Ratified(J)) /\ top \in Seq(Nat)
    BY BoardOf
  <2> HIDE DEF top, J
  <2>2. /\ m.dcg = Discounted(Claims(top, Ratified(J))) /\ m.idcg = Ideal(Ratified(J))
        /\ m.recall.num = Cardinality({i \in DOMAIN Claims(top, Ratified(J)) : Claims(top, Ratified(J))[i] >= 1})
        /\ m.recall.den = Cardinality({r \in Ratified(J) : r.grade >= 1})
    BY DEF QueryMetrics
  <2>3. m.dcg <= m.idcg
    BY <2>1, <2>2, NoBetter
  <2>4. m.recall.num <= m.recall.den
    BY <2>1, <2>2, RecallOf
  <2> HIDE DEF m
  <2> QED
    BY <2>3, <2>4 DEF m, top, J
<1>2. PromotionNeverHurts
  <2> SUFFICES ASSUME NEW q \in ActiveQueries, NEW i \in 1..(Len(Answers[answers][q].top) - 1)
               PROVE  LET top == Answers[answers][q].top
                          judged == Ratified(Batteries[battery][q].judged)
                          gains == Claims(top, judged)
                          promoted == [top EXCEPT ![i] = top[i + 1], ![i + 1] = top[i]]
                      IN gains[i + 1] > gains[i] => Discounted(Claims(promoted, judged)) >= Discounted(gains)
    BY DEF PromotionNeverHurts
  <2> DEFINE top == Answers[answers][q].top
             J == Ratified(Batteries[battery][q].judged)
  <2>1. Board(J) /\ top \in Seq(Nat) /\ i \in 1..(Len(top) - 1)
    BY BoardOf
  <2> HIDE DEF top, J
  <2>2. Claims(top, J)[i + 1] > Claims(top, J)[i] =>
          Discounted(Claims([top EXCEPT ![i] = top[i + 1], ![i + 1] = top[i]], J)) >= Discounted(Claims(top, J))
    BY <2>1, Promoted
  <2> QED
    BY <2>2 DEF top, J
<1> QED
  BY <1>1, <1>2

\* The metrics depend on the judgments and the answers only.
MetricsIn(y, x) ==
  LET active == {q \in Queries : ~Batteries[y][q].retired}
      m == [q \in active |-> QueryMetrics(Answers[x][q].top, Batteries[y][q].judged)]
  IN [overall |-> Bucket(m, active),
      perCategory |-> [c \in {Category[q] : q \in active} |-> Bucket(m, {q \in active : Category[q] = c})]]

LEMMA MetricsStay ==
  ASSUME UNCHANGED <<battery, answers, budget>>
  PROVE  /\ ActiveQueries' = ActiveQueries /\ (SoundBattery' <=> SoundBattery) /\ Metrics' = Metrics
         /\ \A q : Harmed(q)' <=> Harmed(q)
<1>1. ActiveQueries' = ActiveQueries
  BY DEF ActiveQueries
<1>2. SoundBattery' <=> SoundBattery
  BY <1>1 DEF SoundBattery, SoundBudget
<1>3. Metrics = MetricsIn(battery, answers)
  BY DEF Metrics, MetricsIn, ActiveQueries
<1>4. Metrics' = MetricsIn(battery', answers')
  BY DEF Metrics, MetricsIn, ActiveQueries
<1>5. Metrics' = Metrics
  BY <1>3, <1>4
<1>6. \A q : Harmed(q)' <=> Harmed(q)
  BY DEF Harmed
<1> QED
  BY <1>1, <1>2, <1>5, <1>6

\* What a run measures may be trusted.
LEMMA MeasuredOf ==
  ASSUME NEW explicit \in BOOLEAN, NEW r, r = Measured(explicit)
  PROVE  /\ r.made /\ r.status \in {"pass", "warn"} =>
              /\ r.evaluations # {"no-threshold"} =>
                   approval.made /\ approval.baseline = rankBase /\ approval.battery = battery
              /\ ~\E q \in ActiveQueries : Harmed(q)
         /\ JobGreen(r) => r.required /\ SoundBattery
         /\ r.made /\ r.fired /\ r.status # "fail" =>
              /\ rankBase.layer # layer /\ rankBase.text = text /\ rankBase.metrics = Metrics
              /\ approval.battery = battery
<1> DEFINE metrics == Metrics
           ndcg == Evaluated(metrics.overall, Enforced(budget.ndcg))
           spelling == Accepted(SpellingHolds, Enforced(budget.spelling))
           grammar == Accepted(GrammarHolds, Enforced(budget.grammar))
           structural == SoundBattery /\ SoundBudget /\ ~Premature /\ SoundBaseline
           ran == explicit /\ SoundBattery
           rest == IF {ndcg, spelling, grammar} \cap {"not-met", "unmeasurable"} # {} THEN "fail" ELSE BatteryStatus
<1>1. /\ r.made /\ r.required = explicit /\ r.ran = ran
      /\ r.evaluations = IF ran /\ SoundBudget THEN {ndcg, spelling, grammar} ELSE {}
      /\ r.fired = (ran /\ Fired(metrics))
  BY DEF Measured
<1>2. /\ ~structural => r.status = "fail"
      /\ structural /\ ~ran => r.status = "not-applicable"
      /\ structural /\ ran => r.status = rest
  <2>1. r.status = CASE ~structural -> "fail"
                     [] structural /\ ~ran -> "not-applicable"
                     [] OTHER -> rest
    BY DEF Measured
  <2> HIDE DEF structural, ran, rest
  <2> QED
    BY <2>1
<1>3. (\E q \in ActiveQueries : Harmed(q)) => BatteryStatus = "fail"
  BY DEF BatteryStatus
<1>4. ~(rankBase.made /\ approval.made) => ndcg = "no-threshold" /\ spelling = "no-threshold" /\ grammar = "no-threshold"
  <2> SUFFICES ASSUME ~(rankBase.made /\ approval.made)
               PROVE  ndcg = "no-threshold" /\ spelling = "no-threshold" /\ grammar = "no-threshold"
    OBVIOUS
  <2>1. \A x : Enforced(x) = 0
    BY DEF Enforced
  <2>2. \A x : Evaluated(x, 0) = "no-threshold"
    BY DEF Evaluated
  <2>3. \A x : Accepted(x, 0) = "no-threshold"
    BY DEF Accepted
  <2> QED
    BY <2>1, <2>2, <2>3
<1>5. Fired(metrics) => rankBase.layer # layer /\ rankBase.text = text /\ rankBase.metrics = metrics /\ rankBase.made
  <2> HIDE DEF metrics
  <2> DEFINE c == Comparisons(metrics)
  <2>1. DOMAIN c = {"ranks", "orderings", "probes"}
        /\ c.ranks = IF ~rankBase.made \/ rankBase.text # text THEN "skipped"
                     ELSE IF rankBase.metrics = metrics THEN "still" ELSE "moved"
    BY DEF Comparisons
  <2>2. Fired(metrics) => c["ranks"] = "still" /\ rankBase.layer # layer
    <3> HIDE DEF c
    <3>1. Fired(metrics) => (\A x \in DOMAIN c : c[x] = "still") /\ rankBase.layer # layer
      BY DEF Fired, c
    <3> QED
      BY <2>1, <3>1
  <2> HIDE DEF c
  <2> QED
    BY <2>1, <2>2
<1> HIDE DEF ndcg, spelling, grammar, metrics, ran
<1>6. SoundBaseline /\ rankBase.made => approval.made /\ approval.baseline = rankBase /\ approval.battery = battery
  BY DEF SoundBaseline
<1>7. SoundBaseline /\ ~rankBase.made => ~approval.made
  BY DEF SoundBaseline
<1>8. structural => SoundBaseline /\ SoundBudget
  OBVIOUS
<1> HIDE DEF structural
<1>9. ASSUME r.status \in {"pass", "warn"} PROVE structural /\ ran /\ BatteryStatus # "fail"
  <2>1. structural /\ ran /\ r.status = rest
    BY <1>2, <1>9
  <2>2. rest = "fail" \/ rest = BatteryStatus
    OBVIOUS
  <2> HIDE DEF rest
  <2> QED
    BY <1>9, <2>1, <2>2
<1> HIDE DEF rest
<1>10. ASSUME r.made, r.status \in {"pass", "warn"}
       PROVE  /\ r.evaluations # {"no-threshold"} =>
                   approval.made /\ approval.baseline = rankBase /\ approval.battery = battery
              /\ ~\E q \in ActiveQueries : Harmed(q)
  <2>1. structural /\ ran /\ BatteryStatus # "fail"
    BY <1>9, <1>10
  <2>2. r.evaluations = {ndcg, spelling, grammar}
    BY <1>1, <1>8, <2>1
  <2>3. r.evaluations # {"no-threshold"} => rankBase.made /\ approval.made
    BY <1>4, <2>2
  <2> QED
    BY <1>3, <1>6, <1>8, <2>1, <2>3
<1>11. JobGreen(r) => r.required /\ SoundBattery
  BY <1>1 DEF JobGreen, ran
<1>12. ASSUME r.made, r.fired, r.status # "fail"
       PROVE  /\ rankBase.layer # layer /\ rankBase.text = text /\ rankBase.metrics = metrics
              /\ approval.battery = battery
  <2>1. structural
    BY <1>2, <1>12
  <2>2. Fired(metrics)
    BY <1>1, <1>12
  <2> QED
    BY <1>5, <1>6, <1>8, <2>1, <2>2
<1> QED
  BY <1>10, <1>11, <1>12 DEF metrics

LEMMA MetricsStart == RankMetricsInit => MetricsInv
BY DEF RankMetricsInit, MetricsInv, EnforcedIsApproved, GreenOnlyIfRan, JobGreen, NoPaper

LEMMA MetricsSteps == MetricsInv /\ [RankMetricsNext]_metricVars => MetricsInv'
<1> SUFFICES ASSUME MetricsInv, [RankMetricsNext]_metricVars PROVE MetricsInv'
  OBVIOUS
<1>0. battery \in DOMAIN Batteries /\ answers \in DOMAIN Answers
  BY DEF MetricsInv
<1>1. ASSUME row' = NoPaper, battery' \in DOMAIN Batteries, answers' \in DOMAIN Answers PROVE MetricsInv'
  <2>1. ~row'.made
    BY <1>1 DEF NoPaper
  <2>2. EnforcedIsApproved' /\ GreenOnlyIfRan'
    BY <2>1 DEF EnforcedIsApproved, GreenOnlyIfRan, JobGreen
  <2> QED
    BY <1>1, <2>2 DEF MetricsInv
<1>2. ASSUME NEW explicit \in BOOLEAN, row' = Measured(explicit),
             UNCHANGED <<battery, answers, layer, text, budget, rankBase, approval>>
      PROVE  MetricsInv'
  <2> DEFINE r == row'
  <2>1. r = Measured(explicit)
    BY <1>2
  <2> HIDE DEF r
  <2>2. /\ r.made /\ r.status \in {"pass", "warn"} =>
              /\ r.evaluations # {"no-threshold"} =>
                   approval.made /\ approval.baseline = rankBase /\ approval.battery = battery
              /\ ~\E q \in ActiveQueries : Harmed(q)
        /\ JobGreen(r) => r.required /\ SoundBattery
        /\ r.made /\ r.fired /\ r.status # "fail" =>
              /\ rankBase.layer # layer /\ rankBase.text = text /\ rankBase.metrics = Metrics
              /\ approval.battery = battery
    BY <2>1, MeasuredOf
  <2>3. /\ ActiveQueries' = ActiveQueries /\ (SoundBattery' <=> SoundBattery) /\ Metrics' = Metrics
        /\ \A q : Harmed(q)' <=> Harmed(q)
    BY <1>2, MetricsStay
  <2>4. EnforcedIsApproved'
    BY <1>2, <2>2, <2>3 DEF EnforcedIsApproved, r
  <2>5. GreenOnlyIfRan'
    BY <1>2, <2>2, <2>3 DEF GreenOnlyIfRan, JobGreen, r
  <2> QED
    BY <1>0, <1>2, <2>4, <2>5 DEF MetricsInv
<1>3. ASSUME UNCHANGED metricVars PROVE MetricsInv'
  <2>1. UNCHANGED <<battery, answers, layer, text, budget, rankBase, approval, row>>
    BY <1>3 DEF metricVars
  <2>2. /\ ActiveQueries' = ActiveQueries /\ (SoundBattery' <=> SoundBattery) /\ Metrics' = Metrics
        /\ \A q : Harmed(q)' <=> Harmed(q)
    BY <2>1, MetricsStay
  <2>3. EnforcedIsApproved'
    BY <2>1, <2>2 DEF EnforcedIsApproved, MetricsInv
  <2>4. GreenOnlyIfRan'
    BY <2>1, <2>2 DEF GreenOnlyIfRan, JobGreen, MetricsInv
  <2> QED
    BY <1>0, <2>1, <2>3, <2>4 DEF MetricsInv
<1>4. CASE ReviseBattery
  BY <1>0, <1>1, <1>4 DEF ReviseBattery, Change
<1>5. CASE CurateLayer
  BY <1>0, <1>1, <1>5 DEF CurateLayer, Change
<1>6. CASE ReplaceText
  BY <1>0, <1>1, <1>6 DEF ReplaceText, Change
<1>7. CASE WriteBudget
  BY <1>0, <1>1, <1>7 DEF WriteBudget, Change
<1>8. CASE WriteBaseline
  <2>1. row' = NoPaper /\ battery' = battery /\ answers' = answers
    BY <1>8 DEF WriteBaseline, Change
  <2> QED
    BY <1>0, <1>1, <2>1
<1>9. CASE Approve
  BY <1>0, <1>1, <1>9 DEF Approve, Change
<1>10. CASE Measure
  BY <1>2, <1>10 DEF Measure
<1> QED
  BY <1>3, <1>4, <1>5, <1>6, <1>7, <1>8, <1>9, <1>10 DEF RankMetricsNext

-----------------------------------------------------------------------------
(* The engine and its battery *)

\* A search keeps its order, its budgets and its groups, for any corpus, weights and limits.
THEOREM RankingIsSound == RankSpec => []RankingHolds
<1>1. RankSpec => []RankInv
  BY RankStarts, RankSteps, PTL DEF RankSpec
<1> QED BY <1>1, RankHolds, PTL

\* No ranking scores better than the ideal one, a promotion never hurts, and the battery row
\* passes and fires only on what is approved and was run, for any batteries and answers.
THEOREM MetricsAreSound == RankMetricsSpec => []MetricsHold
<1>1. RankMetricsSpec => []MetricsInv
  BY MetricsStart, MetricsSteps, PTL DEF RankMetricsSpec
<1>2. MetricsInv => MetricsHold
  BY SharesHold DEF MetricsInv, MetricsHold
<1> QED BY <1>1, <1>2, PTL

\* What the engine answers and what is said of it, whichever part a run follows.
EngineInv == RankInv /\ MetricsInv

\* Both hold of the composition that the run checks.
THEOREM EngineIsSound == MCSpec => []EngineHolds
<1>1. MCInit => EngineInv
  BY RankStarts, MetricsStart DEF MCInit, EngineInv
<1>2. EngineInv /\ [MCNext]_all => EngineInv'
  <2> SUFFICES ASSUME EngineInv, [MCNext]_all PROVE EngineInv'
    OBVIOUS
  <2>1. [RankNext]_rankVars /\ [RankMetricsNext]_metricVars
    BY DEF MCNext, Of, all
  <2> QED
    BY <2>1, RankSteps, MetricsSteps DEF EngineInv
<1>3. EngineInv => EngineHolds
  <2> SUFFICES ASSUME EngineInv PROVE EngineHolds
    OBVIOUS
  <2>1. RankingHolds /\ ScoresAreShares /\ PromotionNeverHurts
    BY RankHolds, SharesHold DEF EngineInv
  <2> QED
    BY <2>1 DEF EngineInv, MetricsInv, EngineHolds, MetricsHold
<1> QED BY <1>1, <1>2, <1>3, PTL DEF MCSpec
=============================================================================
