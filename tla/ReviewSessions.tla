--------------------------- MODULE ReviewSessions ---------------------------
(***************************************************************************)
(* reviewSessions.ts: which cases of a pool a session takes, and the log   *)
(* of what a reviewer did with them.  The selection balances clusters of   *)
(* wording and sources and keeps some places for quiet cases.  The log is  *)
(* written from several windows, each of which holds the session as it     *)
(* was when it read it: an event is taken only for the present revision.   *)
(*                                                                         *)
(* A case is its place in the order of comparePriority (1 comes first);    *)
(* what a session keeps of a pool is the set of its cases.                 *)
(***************************************************************************)
EXTENDS Integers, FiniteSets, Sequences

CONSTANTS
  PoolSize,   \* the number of eligible cases
  Clusters,   \* clusters of wording
  Sources,    \* sources of cases
  Windows     \* the windows a reviewer works in

ASSUME SessionAssumption == PoolSize \in Nat \ {0}

VARIABLES
  build,    \* a selection just made: the pool, the sizes, the cases chosen
  items,    \* the cases of the open session
  events,   \* its log
  seen      \* the revision each window last read

sessVars == <<build, items, events, seen>>

Pool == 1..PoolSize
NoBuild == [cluster |-> <<>>, source |-> <<>>, quiet |-> {}, size |-> 0, exploration |-> 0,
            chosen |-> {}, explored |-> {}]

SessInit == build = NoBuild /\ items = {} /\ events = <<>> /\ seen = [w \in Windows |-> 0]

-----------------------------------------------------------------------------
Foremost(S) == CHOOSE c \in S : \A d \in S : c <= d
OfSource(p, S, s) == {c \in S : p.source[c] = s}
InCluster(p, S, k) == {c \in S : p.cluster[c] = k}

\* The order of exploration is that of another seed: the reverse here.
Hindmost(S) == CHOOSE c \in S : \A d \in S : d <= c

\* The cases of S whose cluster has room, and among them those of the sources taken
\* from least.
WithRoom(p, S, taken, cap) == {c \in S \ taken : Cardinality(InCluster(p, taken, p.cluster[c])) < cap}
Scarce(p, E, bySource) ==
  {c \in E : \A d \in E : Cardinality(OfSource(p, bySource, p.source[c]))
                            <= Cardinality(OfSource(p, bySource, p.source[d]))}

\* One more case of S, where one fits, on top of those taken before and of those that
\* came since; the sources are counted in bySource.
OneMore(p, S, taken, bySource, cap, exploring, since) ==
  LET E == WithRoom(p, S, taken \cup since, cap)
      C == Scarce(p, E, bySource \cup since)
  IN IF E = {} THEN since ELSE since \cup {IF exploring THEN Hindmost(C) ELSE Foremost(C)}

\* selectBalanced: up to n more cases.
SelectBalanced(p, S, n, taken, bySource, cap, exploring) ==
  LET more[k \in 0..n] ==
        IF k = 0 THEN {} ELSE OneMore(p, S, taken, bySource, cap, exploring, more[k - 1])
  IN more[n]

Least(a, b) == IF a <= b THEN a ELSE b
ClustersOf(p) == {p.cluster[c] : c \in Pool}
Capacity(p) == Least(p.size, PoolSize)
CapPerCluster(p) == (Capacity(p) + Cardinality(ClustersOf(p)) - 1) \div Cardinality(ClustersOf(p))
Representatives(p) == {Foremost(InCluster(p, Pool, k)) : k \in ClustersOf(p)}

\* The selection of buildReviewSession: a representative of each cluster first, then
\* more by priority, then quiet cases, and by priority again what is left.
Selection(p) ==
  LET cap == CapPerCluster(p)
      explore == Least(p.exploration, Capacity(p))
      wanted == Capacity(p) - explore
      first == SelectBalanced(p, Representatives(p), Least(wanted, Cardinality(Representatives(p))), {}, {}, cap, FALSE)
      priority == first \cup SelectBalanced(p, Pool \ first, wanted - Cardinality(first), first, first, cap, FALSE)
      explored == SelectBalanced(p, p.quiet \ priority, explore, priority, priority, cap, TRUE)
      chosen == priority \cup explored
      fill == SelectBalanced(p, Pool \ chosen, Capacity(p) - Cardinality(chosen), chosen, chosen, cap, FALSE)
  IN [chosen |-> chosen \cup fill, explored |-> explored]

BuildReviewSession ==
  /\ build = NoBuild /\ items = {}
  /\ \E cluster \in [Pool -> Clusters], source \in [Pool -> Sources], quiet \in SUBSET Pool,
        size \in 1..PoolSize : \E exploration \in 0..size :
       LET p == [cluster |-> cluster, source |-> source, quiet |-> quiet, size |-> size,
                 exploration |-> exploration]
           s == Selection(p)
       IN build' = [cluster |-> cluster, source |-> source, quiet |-> quiet, size |-> size,
                    exploration |-> exploration, chosen |-> s.chosen, explored |-> s.explored]
  /\ UNCHANGED <<items, events, seen>>

Open == /\ build # NoBuild /\ items' = build.chosen /\ build' = NoBuild
        /\ UNCHANGED <<events, seen>>

-----------------------------------------------------------------------------
Settled(log) == {log[n].case : n \in {i \in DOMAIN log : log[i].kind # "session-completed"}}
Closed(log) == \E n \in DOMAIN log : log[n].kind = "session-completed"
Revision == Len(events)
ItemEvents == [kind : {"item-completed"}, case : items, requeue : {FALSE}]
              \cup [kind : {"item-skipped"}, case : items, requeue : BOOLEAN]
ClosingEvent == [kind |-> "session-completed", case |-> 0, requeue |-> FALSE]

\* Mutant: the revision a window expects is not compared, nor the case looked up.
Acceptable_AnyRevision(w, e) == ~Closed(events)

\* validateEvent and foldReviewSessionEvents, for an event of a window at the end of
\* the log.
Acceptable(w, e) ==
  /\ seen[w] = Revision
  /\ ~Closed(events)
  /\ IF e = ClosingEvent THEN Settled(events) = items ELSE e.case \notin Settled(events)

AppendReviewSessionEvent(w) ==
  \E e \in ItemEvents \cup {ClosingEvent} :
    /\ items # {} /\ Acceptable(w, e)
    /\ events' = Append(events, e) /\ seen' = [seen EXCEPT ![w] = Revision + 1]
    /\ UNCHANGED <<build, items>>

\* A window reads the session again.
Reread(w) == /\ seen[w] # Revision /\ seen' = [seen EXCEPT ![w] = Revision]
             /\ UNCHANGED <<build, items, events>>

SessNext == BuildReviewSession \/ Open
            \/ \E w \in Windows : AppendReviewSessionEvent(w) \/ Reread(w)

SessSpec == SessInit /\ [][SessNext]_sessVars

-----------------------------------------------------------------------------
\* itemStates: what a session says of its cases.
Completed == {c \in items : \E n \in DOMAIN events : events[n].case = c /\ events[n].kind = "item-completed"}
Requeued == {c \in items : \E n \in DOMAIN events : events[n].case = c /\ events[n].requeue}
Resumable == IF Closed(events) THEN {} ELSE items \ Settled(events)

\* The types of the state (ReviewSession).
SessTypeOK == /\ items \subseteq Pool /\ seen \in [Windows -> 0..PoolSize + 1]
              /\ \A w \in Windows : seen[w] <= Revision

\* A selection takes no more cases than there are places, and no cluster exceeds its
\* share; a case stays out only because the session is full or its cluster has its
\* share; and the best case of all is taken when there is a place for priority
\* (buildReviewSession, selectBalanced).
SelectionIsFair ==
  build # NoBuild =>
    LET share(k) == Cardinality(InCluster(build, build.chosen, k)) IN
    /\ Cardinality(build.chosen) <= Capacity(build)
    /\ \A k \in ClustersOf(build) : share(k) <= CapPerCluster(build)
    /\ \A c \in Pool \ build.chosen : \/ Cardinality(build.chosen) = Capacity(build)
                                      \/ share(build.cluster[c]) = CapPerCluster(build)
    /\ Capacity(build) > build.exploration => 1 \in build.chosen
    /\ build.explored \subseteq build.quiet /\ Cardinality(build.explored) <= build.exploration

\* Whatever the windows send and in whatever order, each case of a session ends once,
\* nothing follows the close, and a case that was neither completed nor sent to the
\* next session nor dropped keeps the session open (foldReviewSessionEvents).
ReviewedOnce ==
  /\ \A m, n \in DOMAIN events : events[m].case = events[n].case => m = n
  /\ Closed(events) => events[Len(events)] = ClosingEvent /\ Settled(events) = items
  /\ Completed \cap Requeued = {} /\ Resumable \cap Settled(events) = {}

\* The selection of a session and its log.
SessionsHold == SelectionIsFair /\ ReviewedOnce
=============================================================================
