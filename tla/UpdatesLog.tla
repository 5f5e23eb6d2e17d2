----------------------------- MODULE UpdatesLog -----------------------------
(***************************************************************************)
(* workbench/src/updatesStore.ts: the append-only log of card decisions    *)
(* and train events.  A log is read whole or not at all (parseUpdatesLog), *)
(* then folded: the last decide before the seal that binds a card counts,  *)
(* and a stopped train releases its cards (foldUpdatesEvents).             *)
(*                                                                         *)
(* Operators only; DataUpdateTrain holds the log that several stores read, *)
(* validate and append to.                                                 *)
(***************************************************************************)
EXTENDS Naturals, Sequences

NoDecision == "none"

Drafted(c, at)      == [kind |-> "card-drafted", at |-> at, card |-> c]
Decided(c, d, at)   == [kind |-> "card-decided", at |-> at, card |-> c, decision |-> d]
Opened(t, f, at)    == [kind |-> "train-opened", at |-> at, train |-> t, flavor |-> f]
Sealed(t, cs, at)   == [kind |-> "train-sealed", at |-> at, train |-> t, cards |-> cs]
\* pin: the report whose digest the event carries.
Stopped(t, r, p, at) ==
  [kind |-> "train-stopped", at |-> at, train |-> t, reason |-> r, pin |-> p]
\* A line cut short by a crash: no event.
TornLine == [kind |-> "torn"]

-----------------------------------------------------------------------------
(* parseUpdatesLog *)

Kind(log, k)        == {i \in 1..Len(log) : log[i].kind = k}
OfTrain(log, k, t)  == {i \in Kind(log, k) : log[i].train = t}
OfCard(log, k, c)   == {i \in Kind(log, k) : log[i].card = c}
Before(S, i)        == {j \in S : j < i}

\* An event of train t, of card c, in the lines before i.
HadTrain(log, k, t, i) == \E j \in 1..(i - 1) : log[j].kind = k /\ log[j].train = t
HadCard(log, k, c, i)  == \E j \in 1..(i - 1) : log[j].kind = k /\ log[j].card = c

\* The state of train t just before line i.
TrainStateAt(log, t, i) ==
  IF HadTrain(log, "train-stopped", t, i)     THEN "stopped"
  ELSE IF HadTrain(log, "train-sealed", t, i) THEN "sealed"
  ELSE IF HadTrain(log, "train-opened", t, i) THEN "open"
  ELSE "unknown"

DraftedBefore(log, c, i) == HadCard(log, "card-drafted", c, i)

Legal(log, i) ==
  LET e == log[i] IN
  CASE e.kind = "card-drafted"  -> TRUE
    [] e.kind = "card-decided"  -> DraftedBefore(log, e.card, i)
    [] e.kind = "train-opened"  -> TrainStateAt(log, e.train, i) = "unknown"
    [] e.kind = "train-sealed"  -> /\ TrainStateAt(log, e.train, i) = "open"
                                   /\ \A c \in e.cards : DraftedBefore(log, c, i)
    [] e.kind = "train-stopped" -> TrainStateAt(log, e.train, i) \in {"open", "sealed"}
    [] OTHER                    -> FALSE

Readable(log) ==
  /\ \A i \in 1..Len(log) : Legal(log, i)
  /\ \A i \in 2..Len(log) : log[i - 1].at <= log[i].at

-----------------------------------------------------------------------------
(* foldUpdatesEvents *)

TrainsOf(log)       == {log[i].train : i \in Kind(log, "train-opened")}
StateOf(log, t)     == TrainStateAt(log, t, Len(log) + 1)
FlavorOf(log, t)    == log[CHOOSE i \in OfTrain(log, "train-opened", t) : TRUE].flavor
SealOf(log, t)      == CHOOSE i \in OfTrain(log, "train-sealed", t) : TRUE
SealedCards(log, t) == log[SealOf(log, t)].cards

\* Trains that were sealed and not stopped.
Bound(log) == {t \in TrainsOf(log) : StateOf(log, t) = "sealed"}
LiveSeals(log, c) == {t \in Bound(log) : c \in SealedCards(log, t)}
Frozen(log, c)    == LiveSeals(log, c) # {}

Last(S) == CHOOSE i \in S : \A j \in S : j <= i

Decision(log, c) ==
  LET end      == IF Frozen(log, c) THEN Last({SealOf(log, t) : t \in LiveSeals(log, c)})
                                    ELSE Len(log) + 1
      eligible == Before(OfCard(log, "card-decided", c), end)
  IN  IF eligible = {} THEN NoDecision ELSE log[Last(eligible)].decision

\* deriveUpdates, FM-5: the card is decided again after the stop of train t.
DecidedSince(log, c, t) ==
  \E i \in OfCard(log, "card-decided", c), j \in OfTrain(log, "train-stopped", t) : i > j
StopOf(log, t) == log[CHOOSE i \in OfTrain(log, "train-stopped", t) : TRUE]
=============================================================================
