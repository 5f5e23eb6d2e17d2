--------------------------- MODULE Trains_proofs ---------------------------
(***************************************************************************)
(* What holds of the trains for any cards, any number of trains, requests, *)
(* commits on main and deaths of the server: they follow each other, their *)
(* evidence precedes them and is never lost.                               *)
(***************************************************************************)
EXTENDS DataUpdateTrain, FiniteSetTheorems, SequenceTheorems, TLAPS

-----------------------------------------------------------------------------
(* A log that grows *)

\* What a log holds, whatever state it is in.
Dates == Nat
Reasons == {"main-moved", "verify-failed", "no-measurable-effect", "github-unavailable",
            "unreviewed-top10-movement"}
Pins == {"none", "comparison", "gauntlet"}
Lines ==
  [kind : {"card-drafted"}, at : Dates, card : Cards]
  \cup [kind : {"card-decided"}, at : Dates, card : Cards, decision : Decisions]
  \cup [kind : {"train-opened"}, at : Dates, train : Trains, flavor : {"data", "guard"}]
  \cup [kind : {"train-sealed"}, at : Dates, train : Trains, cards : SUBSET Cards]
  \cup [kind : {"train-stopped"}, at : Dates, train : Trains, reason : Reasons, pin : Pins]
Logs == Seq(Lines \cup {TornLine})

\* An event of train t in the lines.
Has(s, k, t) == \E j \in 1..Len(s) : s[j].kind = k /\ s[j].train = t

LEMMA Grown ==
  ASSUME NEW l \in Logs, NEW s \in Logs
  PROVE  /\ l \o s \in Logs /\ Len(l \o s) = Len(l) + Len(s)
         /\ \A i \in 1..Len(l) : (l \o s)[i] = l[i]
         /\ \A i \in 1..Len(s) : (l \o s)[Len(l) + i] = s[i]
<1> DEFINE S == Lines \cup {TornLine}
<1> HIDE DEF S
<1> SUFFICES ASSUME l \in Seq(S), s \in Seq(S)
             PROVE  /\ l \o s \in Seq(S) /\ Len(l \o s) = Len(l) + Len(s)
                    /\ \A i \in 1..Len(l) : (l \o s)[i] = l[i]
                    /\ \A i \in 1..Len(s) : (l \o s)[Len(l) + i] = s[i]
  BY DEF Logs, S
<1>1. Len(l) \in Nat /\ Len(s) \in Nat
  OBVIOUS
<1> QED BY <1>1, ConcatProperties

LEMMA HadPrefix ==
  ASSUME NEW l \in Logs, NEW s \in Logs, NEW i \in 1..(Len(l) + 1), NEW k, NEW x
  PROVE  /\ HadTrain(l \o s, k, x, i) <=> HadTrain(l, k, x, i)
         /\ HadCard(l \o s, k, x, i) <=> HadCard(l, k, x, i)
<1>1. Len(l) \in Nat
  BY DEF Logs
<1>2. \A j \in 1..(i - 1) : (l \o s)[j] = l[j]
  BY <1>1, Grown
<1> QED BY <1>2 DEF HadTrain, HadCard

LEMMA StatePrefix ==
  ASSUME NEW l \in Logs, NEW s \in Logs, NEW i \in 1..(Len(l) + 1), NEW t
  PROVE  TrainStateAt(l \o s, t, i) = TrainStateAt(l, t, i)
BY HadPrefix DEF TrainStateAt

LEMMA LegalPrefix ==
  ASSUME NEW l \in Logs, NEW s \in Logs, NEW i \in 1..Len(l)
  PROVE  Legal(l \o s, i) <=> Legal(l, i)
<1>1. Len(l) \in Nat /\ i \in 1..(Len(l) + 1) /\ (l \o s)[i] = l[i]
  BY Grown DEF Logs
<1>2. \A t : TrainStateAt(l \o s, t, i) = TrainStateAt(l, t, i)
  BY <1>1, StatePrefix
<1>3. \A c : DraftedBefore(l \o s, c, i) <=> DraftedBefore(l, c, i)
  BY <1>1, HadPrefix DEF DraftedBefore
<1> QED BY <1>1, <1>2, <1>3 DEF Legal

\* What is appended to a log that cannot be read does not make it readable.
LEMMA ReadableBefore ==
  ASSUME NEW l \in Logs, NEW s \in Logs, Readable(l \o s)
  PROVE  Readable(l)
<1>1. Len(l) \in Nat /\ Len(s) \in Nat
  BY DEF Logs
<1>2. \A i \in 1..Len(l) : Legal(l, i)
  <2> TAKE i \in 1..Len(l)
  <2>1. Legal(l \o s, i)
    BY <1>1, Grown DEF Readable
  <2> QED BY <2>1, LegalPrefix
<1>3. \A i \in 2..Len(l) : l[i - 1].at <= l[i].at
  <2> TAKE i \in 2..Len(l)
  <2>1. (l \o s)[i - 1].at <= (l \o s)[i].at
    BY <1>1, Grown DEF Readable
  <2>2. (l \o s)[i - 1] = l[i - 1] /\ (l \o s)[i] = l[i]
    BY <1>1, Grown
  <2> QED BY <2>1, <2>2
<1> QED BY <1>2, <1>3 DEF Readable

LEMMA TornIsUnreadable ==
  ASSUME NEW l \in Logs
  PROVE  ~Readable(l \o <<TornLine>>)
<1>1. <<TornLine>> \in Logs /\ Len(<<TornLine>>) = 1 /\ <<TornLine>>[1] = TornLine
  BY DEF Logs
<1>2. Len(l) \in Nat /\ Len(l \o <<TornLine>>) = Len(l) + 1
      /\ (l \o <<TornLine>>)[Len(l) + 1] = TornLine
  BY <1>1, Grown DEF Logs
<1>3. ~Legal(l \o <<TornLine>>, Len(l) + 1)
  BY <1>2 DEF Legal, TornLine
<1> QED BY <1>2, <1>3 DEF Readable

LEMMA HadAll ==
  ASSUME NEW l \in Logs, NEW k, NEW t
  PROVE  HadTrain(l, k, t, Len(l) + 1) <=> Has(l, k, t)
<1>1. Len(l) \in Nat
  BY DEF Logs
<1> QED BY <1>1 DEF HadTrain, Has

LEMMA HasGrown ==
  ASSUME NEW l \in Logs, NEW s \in Logs, NEW k, NEW t
  PROVE  Has(l \o s, k, t) <=> Has(l, k, t) \/ Has(s, k, t)
<1>1. Len(l) \in Nat /\ Len(s) \in Nat /\ Len(l \o s) = Len(l) + Len(s)
  BY Grown DEF Logs
<1>2. ASSUME Has(l \o s, k, t) PROVE Has(l, k, t) \/ Has(s, k, t)
  <2>1. PICK j \in 1..(Len(l) + Len(s)) : (l \o s)[j].kind = k /\ (l \o s)[j].train = t
    BY <1>1, <1>2 DEF Has
  <2>2. CASE j <= Len(l)
    BY <1>1, <2>1, <2>2, Grown DEF Has
  <2>3. CASE j > Len(l)
    <3>1. j - Len(l) \in 1..Len(s) /\ j = Len(l) + (j - Len(l))
      BY <1>1, <2>3
    <3>2. (l \o s)[j] = s[j - Len(l)]
      BY <3>1, Grown
    <3> QED BY <2>1, <3>1, <3>2 DEF Has
  <2> QED BY <1>1, <2>2, <2>3
<1>3. Has(l, k, t) => Has(l \o s, k, t)
  BY <1>1, Grown DEF Has
<1>4. Has(s, k, t) => Has(l \o s, k, t)
  <2> HAVE Has(s, k, t)
  <2>1. PICK j \in 1..Len(s) : s[j].kind = k /\ s[j].train = t
    BY DEF Has
  <2>2. (l \o s)[Len(l) + j] = s[j] /\ Len(l) + j \in 1..Len(l \o s)
    BY <1>1, Grown
  <2> QED BY <2>1, <2>2 DEF Has
<1> QED BY <1>2, <1>3, <1>4

\* The state of a train, and the trains of a log, in terms of its events.
LEMMA StateIs ==
  ASSUME NEW l \in Logs, NEW t
  PROVE  /\ StateOf(l, t) = IF Has(l, "train-stopped", t) THEN "stopped"
                            ELSE IF Has(l, "train-sealed", t) THEN "sealed"
                            ELSE IF Has(l, "train-opened", t) THEN "open" ELSE "unknown"
         /\ t \in TrainsOf(l) <=> Has(l, "train-opened", t)
<1>1. StateOf(l, t) = IF Has(l, "train-stopped", t) THEN "stopped"
                      ELSE IF Has(l, "train-sealed", t) THEN "sealed"
                      ELSE IF Has(l, "train-opened", t) THEN "open" ELSE "unknown"
  BY HadAll DEF StateOf, TrainStateAt
<1>2. t \in TrainsOf(l) <=> Has(l, "train-opened", t)
  BY DEF TrainsOf, Kind, Has
<1> QED BY <1>1, <1>2

LEMMA BoundIs ==
  ASSUME NEW l \in Logs, NEW t
  PROVE  t \in Bound(l) <=> /\ Has(l, "train-opened", t) /\ Has(l, "train-sealed", t)
                            /\ ~Has(l, "train-stopped", t)
BY StateIs DEF Bound

\* A train is sealed once.
LEMMA SealedOnce ==
  ASSUME NEW l \in Logs, Readable(l), NEW t,
         NEW i \in OfTrain(l, "train-sealed", t), NEW j \in OfTrain(l, "train-sealed", t)
  PROVE  i = j
<1>1. ASSUME NEW m \in OfTrain(l, "train-sealed", t), NEW n \in OfTrain(l, "train-sealed", t), m < n
      PROVE  FALSE
  <2>1. /\ m \in 1..(n - 1) /\ n \in 1..Len(l) /\ Len(l) \in Nat
        /\ l[m].kind = "train-sealed" /\ l[m].train = t
        /\ l[n].kind = "train-sealed" /\ l[n].train = t
    BY <1>1 DEF OfTrain, Kind, Logs
  <2>2. HadTrain(l, "train-sealed", t, n)
    BY <2>1 DEF HadTrain
  <2>3. TrainStateAt(l, t, n) # "open"
    BY <2>2 DEF TrainStateAt
  <2>4. Legal(l, n)
    BY <2>1 DEF Readable
  <2> QED BY <2>1, <2>3, <2>4 DEF Legal
<1>2. i \in Nat /\ j \in Nat
  BY DEF OfTrain, Kind, Logs
<1> QED BY <1>1, <1>2

\* Its cards are those of the line that seals it.
LEMMA CardsSealed ==
  ASSUME NEW l \in Logs, Readable(l), NEW t, NEW i \in 1..Len(l),
         l[i].kind = "train-sealed", l[i].train = t
  PROVE  SealedCards(l, t) = l[i].cards
<1>1. i \in OfTrain(l, "train-sealed", t)
  BY DEF OfTrain, Kind
<1>2. SealOf(l, t) \in OfTrain(l, "train-sealed", t)
  BY <1>1 DEF SealOf
<1>3. SealOf(l, t) = i
  BY <1>1, <1>2, SealedOnce
<1> QED BY <1>3 DEF SealedCards

LEMMA CardsKept ==
  ASSUME NEW l \in Logs, NEW s \in Logs, Readable(l \o s), NEW t, Has(l, "train-sealed", t)
  PROVE  SealedCards(l \o s, t) = SealedCards(l, t)
<1>1. PICK i \in 1..Len(l) : l[i].kind = "train-sealed" /\ l[i].train = t
  BY DEF Has
<1>2. Len(l) \in Nat /\ Len(s) \in Nat
  BY DEF Logs
<1>3. /\ i \in 1..Len(l \o s) /\ (l \o s)[i] = l[i] /\ l \o s \in Logs
  BY <1>2, Grown
<1>4. SealedCards(l, t) = l[i].cards
  BY <1>1, CardsSealed, ReadableBefore
<1>5. SealedCards(l \o s, t) = (l \o s)[i].cards
  BY <1>1, <1>3, CardsSealed
<1> QED BY <1>3, <1>4, <1>5

\* Lines that neither open nor seal a train.
Calm(s) == \A i \in 1..Len(s) : s[i].kind \notin {"train-opened", "train-sealed"}

\* One growth of a log that opens and seals nothing: trains may be stopped, no more.
LEMMA CalmGrowth ==
  ASSUME NEW l \in Logs, NEW s \in Logs, Calm(s), Readable(l \o s)
  PROVE  /\ Readable(l) /\ TrainsOf(l \o s) = TrainsOf(l)
         /\ \A t : StateOf(l \o s, t) \in {StateOf(l, t), "stopped"}
         /\ \A t : StateOf(l, t) = "stopped" => StateOf(l \o s, t) = "stopped"
         /\ \A t \in Bound(l \o s) : t \in Bound(l) /\ SealedCards(l \o s, t) = SealedCards(l, t)
<1>1. l \o s \in Logs /\ Readable(l)
  BY Grown, ReadableBefore
<1>2. \A t : ~Has(s, "train-opened", t) /\ ~Has(s, "train-sealed", t)
  BY DEF Calm, Has
<1>3. \A t : /\ Has(l \o s, "train-opened", t) <=> Has(l, "train-opened", t)
             /\ Has(l \o s, "train-sealed", t) <=> Has(l, "train-sealed", t)
             /\ Has(l, "train-stopped", t) => Has(l \o s, "train-stopped", t)
  BY <1>2, HasGrown
<1>4. \A t : t \in TrainsOf(l \o s) <=> t \in TrainsOf(l)
  BY <1>1, <1>3, StateIs
<1>5. \A t : StateOf(l \o s, t) \in {StateOf(l, t), "stopped"}
  BY <1>1, <1>3, StateIs
<1>6. \A t : StateOf(l, t) = "stopped" => StateOf(l \o s, t) = "stopped"
  <2> TAKE t
  <2> HAVE StateOf(l, t) = "stopped"
  <2>1. Has(l, "train-stopped", t)
    BY StateIs
  <2> QED BY <1>1, <1>3, <2>1, StateIs
<1>7. \A t \in Bound(l \o s) : t \in Bound(l) /\ SealedCards(l \o s, t) = SealedCards(l, t)
  <2> TAKE t \in Bound(l \o s)
  <2>1. Has(l, "train-opened", t) /\ Has(l, "train-sealed", t) /\ ~Has(l, "train-stopped", t)
    BY <1>1, <1>3, BoundIs
  <2> QED BY <2>1, BoundIs, CardsKept
<1>8. TrainsOf(l \o s) = TrainsOf(l)
  BY <1>4
<1> QED BY <1>1, <1>5, <1>6, <1>7, <1>8

\* The lines of a seal: drafted cards, then the train is opened and sealed.
SealLines(b, t, cs) ==
  /\ Len(b) >= 2
  /\ \A i \in 1..(Len(b) - 2) : b[i].kind = "card-drafted"
  /\ b[Len(b) - 1].kind = "train-opened" /\ b[Len(b) - 1].train = t
  /\ b[Len(b)].kind = "train-sealed" /\ b[Len(b)].train = t /\ b[Len(b)].cards = cs

\* What a seal has written, or the part of it that a death left: nothing of the train, the
\* train opened, or the train sealed with its cards; and nothing else happened to others.
LEMMA SealGrowth ==
  ASSUME NEW l \in Logs, NEW b \in Logs, NEW t, NEW cs, SealLines(b, t, cs),
         NEW k \in 1..Len(b), Readable(l \o SubSeq(b, 1, k))
  PROVE  LET m == l \o SubSeq(b, 1, k) IN
         /\ Readable(l)
         /\ \A u : u # t => StateOf(m, u) = StateOf(l, u)
         /\ \/ /\ TrainsOf(m) = TrainsOf(l) /\ StateOf(m, t) = StateOf(l, t)
               /\ Bound(m) = Bound(l)
            \/ /\ TrainsOf(m) = TrainsOf(l) \cup {t} /\ t \notin TrainsOf(l)
               /\ StateOf(m, t) = "open" /\ Bound(m) = Bound(l)
            \/ /\ TrainsOf(m) = TrainsOf(l) \cup {t} /\ t \notin TrainsOf(l)
               /\ Bound(m) = Bound(l) \cup {t} /\ SealedCards(m, t) = cs
         /\ \A u \in Bound(l) : SealedCards(m, u) = SealedCards(l, u)
<1> DEFINE s == SubSeq(b, 1, k)
           m == l \o s
           n == Len(b)
<1>1. n \in Nat /\ k \in Nat /\ 1 <= k /\ k <= n /\ n >= 2 /\ Len(l) \in Nat
  BY DEF SealLines, Logs
<1>2. s \in Logs /\ Len(s) = k /\ \A i \in 1..k : s[i] = b[i]
  <2> DEFINE S == Lines \cup {TornLine}
  <2> HIDE DEF S
  <2>1. b \in Seq(S)
    BY DEF S, Logs
  <2>2. \A i \in 1..k : b[i] \in S
    BY <1>1, <2>1
  <2>3. s \in Seq(S) /\ Len(s) = k /\ \A i \in 1..(k - 1 + 1) : s[i] = b[1 + i - 1]
    BY <1>1, <2>2, SubSeqProperties
  <2> QED BY <1>1, <2>3 DEF S, Logs
<1> HIDE DEF s
<1>3. /\ m \in Logs /\ Len(m) = Len(l) + k /\ Readable(m) /\ Readable(l)
      /\ \A i \in 1..k : m[Len(l) + i] = b[i]
  BY <1>2, Grown, ReadableBefore DEF s
<1>4. \A u : /\ Has(s, "train-opened", u) <=> (k >= n - 1 /\ u = t)
             /\ Has(s, "train-sealed", u) <=> (k = n /\ u = t)
             /\ ~Has(s, "train-stopped", u)
  <2> TAKE u
  <2>1. \A i \in 1..k : /\ i \in 1..(n - 2) => s[i].kind = "card-drafted"
                        /\ i = n - 1 => s[i].kind = "train-opened" /\ s[i].train = t
                        /\ i = n => s[i].kind = "train-sealed" /\ s[i].train = t
                        /\ i \in 1..(n - 2) \/ i = n - 1 \/ i = n
    BY <1>1, <1>2 DEF SealLines
  <2>2. k >= n - 1 => (n - 1) \in 1..k
    BY <1>1
  <2>3. k = n => n \in 1..k
    BY <1>1
  <2>4. ~Has(s, "train-stopped", u)
    BY <1>1, <1>2, <2>1 DEF Has
  <2>5. Has(s, "train-opened", u) => k >= n - 1 /\ u = t
    <3> HAVE Has(s, "train-opened", u)
    <3>1. PICK i \in 1..k : s[i].kind = "train-opened" /\ s[i].train = u
      BY <1>2 DEF Has
    <3>2. i = n - 1
      BY <2>1, <3>1
    <3> QED BY <1>1, <2>1, <3>1, <3>2
  <2>6. Has(s, "train-sealed", u) => k = n /\ u = t
    <3> HAVE Has(s, "train-sealed", u)
    <3>1. PICK i \in 1..k : s[i].kind = "train-sealed" /\ s[i].train = u
      BY <1>2 DEF Has
    <3>2. i = n
      BY <2>1, <3>1
    <3> QED BY <1>1, <2>1, <3>1, <3>2
  <2>7. k >= n - 1 /\ u = t => Has(s, "train-opened", u)
    BY <1>1, <1>2, <2>1, <2>2 DEF Has
  <2>8. k = n /\ u = t => Has(s, "train-sealed", u)
    BY <1>1, <1>2, <2>1, <2>3 DEF Has
  <2> QED BY <2>4, <2>5, <2>6, <2>7, <2>8
<1>5. \A u : /\ Has(m, "train-opened", u) <=> Has(l, "train-opened", u) \/ (k >= n - 1 /\ u = t)
             /\ Has(m, "train-sealed", u) <=> Has(l, "train-sealed", u) \/ (k = n /\ u = t)
             /\ Has(m, "train-stopped", u) <=> Has(l, "train-stopped", u)
  BY <1>2, <1>4, HasGrown
<1>6. \A u : u # t => StateOf(m, u) = StateOf(l, u)
  <2> TAKE u
  <2> HAVE u # t
  <2> QED BY <1>3, <1>5, StateIs
<1>7. k >= n - 1 => ~Has(l, "train-opened", t) /\ ~Has(l, "train-sealed", t) /\ ~Has(l, "train-stopped", t)
  <2> HAVE k >= n - 1
  <2> DEFINE i == Len(l) + (n - 1)
  <2>1. i \in 1..Len(m) /\ n - 1 \in 1..k
    BY <1>1, <1>3
  <2>2. m[i].kind = "train-opened" /\ m[i].train = t
    BY <1>3, <2>1 DEF SealLines
  <2>3. TrainStateAt(m, t, i) = "unknown"
    BY <1>3, <2>1, <2>2 DEF Readable, Legal
  <2>4. ~HadTrain(m, "train-opened", t, i) /\ ~HadTrain(m, "train-sealed", t, i)
        /\ ~HadTrain(m, "train-stopped", t, i)
    BY <2>3 DEF TrainStateAt
  <2>5. \A j \in 1..Len(l) : j \in 1..(i - 1) /\ m[j] = l[j]
    BY <1>1, <1>2, <2>1, Grown
  <2> QED BY <2>4, <2>5 DEF HadTrain, Has
<1>8. \A u \in Bound(l) : SealedCards(m, u) = SealedCards(l, u)
  BY <1>2, <1>3, BoundIs, CardsKept
<1>9. CASE k < n - 1
  <2>1. \A u : /\ Has(m, "train-opened", u) <=> Has(l, "train-opened", u)
               /\ Has(m, "train-sealed", u) <=> Has(l, "train-sealed", u)
    BY <1>1, <1>5, <1>9
  <2>2. TrainsOf(m) = TrainsOf(l) /\ Bound(m) = Bound(l) /\ StateOf(m, t) = StateOf(l, t)
    <3>1. \A u : u \in TrainsOf(m) <=> u \in TrainsOf(l)
      BY <1>3, <2>1, StateIs
    <3>2. \A u : u \in Bound(m) <=> u \in Bound(l)
      BY <1>3, <1>5, <2>1, BoundIs
    <3>3. StateOf(m, t) = StateOf(l, t)
      BY <1>3, <1>5, <2>1, StateIs
    <3> QED BY <3>1, <3>2, <3>3
  <2> QED BY <1>3, <1>6, <1>8, <2>2 DEF s
<1>10. CASE k = n - 1
  <2>1. t \notin TrainsOf(l) /\ \A u : u \in TrainsOf(m) <=> u \in TrainsOf(l) \/ u = t
    BY <1>1, <1>3, <1>5, <1>7, <1>10, StateIs
  <2>2. \A u : u \in Bound(m) <=> u \in Bound(l)
    BY <1>1, <1>3, <1>5, <1>7, <1>10, BoundIs
  <2>3. StateOf(m, t) = "open"
    BY <1>1, <1>3, <1>5, <1>7, <1>10, StateIs
  <2>4. TrainsOf(m) = TrainsOf(l) \cup {t} /\ Bound(m) = Bound(l)
    BY <2>1, <2>2
  <2> QED BY <1>3, <1>6, <1>8, <2>1, <2>3, <2>4 DEF s
<1>11. CASE k = n
  <2>1. t \notin TrainsOf(l) /\ \A u : u \in TrainsOf(m) <=> u \in TrainsOf(l) \/ u = t
    BY <1>1, <1>3, <1>5, <1>7, <1>11, StateIs
  <2>2. \A u : u \in Bound(m) <=> u \in Bound(l) \/ u = t
    BY <1>1, <1>3, <1>5, <1>7, <1>11, BoundIs
  <2>3. /\ Len(l) + n \in 1..Len(m) /\ m[Len(l) + n].kind = "train-sealed"
        /\ m[Len(l) + n].train = t /\ m[Len(l) + n].cards = cs
    BY <1>1, <1>3, <1>11 DEF SealLines
  <2>4. SealedCards(m, t) = cs
    BY <1>3, <2>3, CardsSealed
  <2>5. TrainsOf(m) = TrainsOf(l) \cup {t} /\ Bound(m) = Bound(l) \cup {t}
    BY <2>1, <2>2
  <2> QED BY <1>3, <1>6, <1>8, <2>1, <2>4, <2>5 DEF s
<1> QED BY <1>1, <1>9, <1>10, <1>11

\* A train that is open or sealed can be stopped by a line that is not older than the log.
LEMMA CanStop ==
  ASSUME NEW l \in Logs, Readable(l), NEW t, NEW r, NEW p, NEW d,
         Stopped(t, r, p, d) \in Lines,
         StateOf(l, t) \in {"open", "sealed"},
         \A i \in 1..Len(l) : l[i].at <= d
  PROVE  Readable(l \o <<Stopped(t, r, p, d)>>)
<1> DEFINE e == Stopped(t, r, p, d)
           m == l \o <<e>>
<1>1. Len(l) \in Nat /\ <<e>> \in Logs /\ Len(<<e>>) = 1 /\ <<e>>[1] = e
  BY DEF Logs
<1>2. e.kind = "train-stopped" /\ e.train = t /\ e.at = d
  BY DEF Stopped
<1> HIDE DEF e
<1>3. Len(m) = Len(l) + 1 /\ m[Len(l) + 1] = e /\ \A i \in 1..Len(l) : m[i] = l[i]
  BY <1>1, Grown
<1>4. \A i \in 1..Len(l) : Legal(m, i)
  BY <1>1, LegalPrefix DEF Readable
<1>5. TrainStateAt(m, t, Len(l) + 1) \in {"open", "sealed"}
  BY <1>1, StatePrefix DEF StateOf
<1>6. Legal(m, Len(l) + 1)
  BY <1>2, <1>3, <1>5 DEF Legal
<1>7. \A i \in 1..Len(m) : Legal(m, i)
  BY <1>1, <1>3, <1>4, <1>6
<1>8. \A i \in 2..Len(m) : m[i - 1].at <= m[i].at
  <2> TAKE i \in 2..Len(m)
  <2>1. CASE i <= Len(l)
    BY <1>1, <1>3, <2>1 DEF Readable
  <2>2. CASE i = Len(l) + 1
    <3>1. m[i - 1] = l[Len(l)] /\ m[i] = e /\ Len(l) \in 1..Len(l)
      BY <1>1, <1>3, <2>2
    <3> QED BY <1>2, <3>1
  <2> QED BY <1>1, <1>3, <2>1, <2>2
<1> QED BY <1>7, <1>8 DEF Readable, e

-----------------------------------------------------------------------------
(* Stamps and batches *)

\* A finite set of numbers has a greatest one: those above it are the least of such sets.
LEMMA Greatest ==
  ASSUME NEW S \in SUBSET Nat, S # {}, IsFiniteSet(S)
  PROVE \E x \in S : \A y \in S : x >= y
<1> DEFINE Above(x) == {y \in S : y > x}
           T == {Above(x) : x \in S}
<1>1. IsWellFoundedOn(StrictSubsetOrdering(S), FiniteSubsetsOf(S))
  BY FS_StrictSubsetOrderingWellFounded
<1>2. T \subseteq FiniteSubsetsOf(S) /\ T # {}
  <2>1. \A x \in S : Above(x) \in SUBSET S
    OBVIOUS
  <2>2. \A x \in S : Above(x) \in FiniteSubsetsOf(S)
    <3> TAKE x \in S
    <3> QED BY <2>1, FS_Subset DEF FiniteSubsetsOf
  <2> QED BY <2>2
<1>3. PICK A \in T : \A B \in T : ~(<<B, A>> \in StrictSubsetOrdering(S))
  <2> HIDE DEF T
  <2> QED BY <1>1, <1>2, WFMin
<1>4. PICK x \in S : A = Above(x)
  OBVIOUS
<1>5. ASSUME NEW y \in S, y > x PROVE FALSE
  <2>1. Above(y) \in T /\ Above(y) \subseteq S /\ A \subseteq S
    BY <1>4
  <2>2. x \in Nat /\ y \in Nat
    OBVIOUS
  <2>3. \A z \in S : z > y => z > x
    BY <1>5, <2>2
  <2>4. Above(y) \subseteq A
    BY <1>4, <2>3
  <2>5. y \in A
    BY <1>4, <1>5
  <2>6. y \notin Above(y)
    <3>1. ~(y > y)
      BY <2>2
    <3> QED BY <3>1
  <2>7. <<Above(y), A>> \in StrictSubsetOrdering(S)
    BY <2>1, <2>4, <2>5, <2>6 DEF StrictSubsetOrdering
  <2> QED BY <1>3, <2>1, <2>7
<1> QED BY <1>5
\* What is written at once: lines of one stamp.
Batches == {s \in Logs : s # <<>> /\ \A i \in 1..Len(s) : s[i] \in Lines /\ s[i].at = s[1].at}

Deciding == {Idle} \cup [pc : {"derived"}, card : Cards, decision : Decisions]
                   \cup [pc : {"write"}, batch : Batches]
Viewing  == {Idle} \cup [pc : {"observe"}, train : Trains, landed : BOOLEAN,
                         snap : {"stopped", "sealed", "open", "unknown"}]
                   \cup [pc : {"write"}, batch : Batches]
Stoppers == {Idle} \cup [pc : {"write"}, batch : Batches]
Seals    == [kind : {"seal"}, pc : {"observe", "stamp", "write"}, batch : Logs,
             next : {"observe", "sealed"}, train : Trains, cards : SUBSET Cards,
             running : SUBSET Trains]
Signs    == [kind : {"sign", "admit", "prepare", "report"},
             pc : {"look", "review", "admit", "prepare", "write"}, batch : Logs,
             next : {"idle"}, train : Trains, landed : BOOLEAN,
             snap : {"stopped", "sealed", "open", "unknown"}]
Works    == {Idle} \cup [pc : {"locate"}, stage : 1..3, chained : BOOLEAN]
                   \cup [pc : {"work", "regen", "stamp"}, stage : 1..3, chained : BOOLEAN,
                         train : Trains, entry : Entry]
                   \cup [pc : {"write"}, stage : 1..3, chained : BOOLEAN, batch : Batches]

TrainsTyped ==
  /\ log \in Logs /\ registry \in [Trains -> Entry \cup {None}]
  /\ torn \in BOOLEAN /\ due \in BOOLEAN /\ halted \in BOOLEAN
  /\ reports \subseteq Trains /\ published \subseteq Trains
  /\ admitted \subseteq [train : Trains, cards : SUBSET Cards, base : 0..MaxMain]
  /\ prs \subseteq [train : Trains, cards : SUBSET Cards]
  /\ merged \subseteq Cards \X (1..MaxMain)
  /\ main \in 0..MaxMain /\ effective \subseteq DataCards
  /\ stops \subseteq [train : Trains, reason : Reasons]
  /\ decide \in Deciding /\ view \in Viewing /\ stopper \in Stoppers /\ job \in Works
  /\ op \in {Idle} \cup Seals \cup Signs /\ (op.pc = "write" => op.batch \in Batches)
  /\ requests \in 0..MaxRequests /\ crashes \in 0..MaxCrashes

LEMMA InitTyped == Init => TrainsTyped
<1> HAVE Init
<1>1. log \in Logs
  BY DEF Init, Logs
<1>2. registry \in [Trains -> Entry \cup {None}]
  BY DEF Init
<1>3. /\ Idle \in Deciding /\ Idle \in Viewing /\ Idle \in Stoppers /\ Idle \in Works
      /\ Idle.pc # "write"
  BY DEF Deciding, Viewing, Stoppers, Works, Idle
<1>4. main \in 0..MaxMain /\ requests \in 0..MaxRequests /\ crashes \in 0..MaxCrashes
  BY BoundsAssumption DEF Init
<1> QED BY <1>1, <1>2, <1>3, <1>4 DEF Init, TrainsTyped

LEMMA InFlightTyped ==
  ASSUME TrainsTyped, NEW b \in InFlight
  PROVE  b.batch \in Batches /\ b.batch[1] \in Lines /\ b.batch[1].at \in Nat
<1>1. b.pc = "write" /\ b \in {decide, view, op, stopper, job}
  BY DEF InFlight
<1>2. b.batch \in Batches
  <2>1. CASE b = decide
    BY <1>1, <2>1 DEF TrainsTyped, Deciding, Idle
  <2>2. CASE b = view
    BY <1>1, <2>2 DEF TrainsTyped, Viewing, Idle
  <2>3. CASE b = op
    BY <1>1, <2>3 DEF TrainsTyped
  <2>4. CASE b = stopper
    BY <1>1, <2>4 DEF TrainsTyped, Stoppers, Idle
  <2>5. CASE b = job
    BY <1>1, <2>5 DEF TrainsTyped, Works, Idle
  <2> QED BY <1>1, <2>1, <2>2, <2>3, <2>4, <2>5
<1>3. b.batch[1] \in Lines
  <2>1. b.batch \in Logs /\ b.batch # <<>>
    BY <1>2 DEF Batches
  <2>2. 1 \in 1..Len(b.batch)
    BY <2>1 DEF Logs
  <2> QED BY <1>2, <2>2 DEF Batches
<1>4. b.batch[1].at \in Nat
  BY <1>3 DEF Lines, Dates
<1> QED BY <1>2, <1>3, <1>4

LEMMA ImageIsFinite ==
  ASSUME NEW S, IsFiniteSet(S), NEW f, DOMAIN f = S, f = [x \in S |-> f[x]]
  PROVE  IsFiniteSet({f[x] : x \in S})
<1> DEFINE T == {f[x] : x \in S}
<1>1. f \in Surjection(S, T)
  BY DEF Surjection
<1> QED BY <1>1, FS_Surjection

\* A stamp is later than every line of the log.
LEMMA StampIs ==
  ASSUME TrainsTyped
  PROVE  Stamp \in Nat /\ \A i \in 1..Len(log) : log[i] # TornLine => log[i].at <= Stamp
<1> DEFINE I == {j \in 1..Len(log) : log[j] # TornLine}
           A == {log[i].at : i \in I}
           B == {b.batch[1].at : b \in InFlight}
           S == {0} \cup A \cup B
<1>1. Len(log) \in Nat
  BY DEF TrainsTyped, Logs
<1>2. A \in SUBSET Nat /\ IsFiniteSet(A)
  <2>1. \A i \in I : log[i] \in Lines
    BY DEF TrainsTyped, Logs
  <2>2. \A i \in I : log[i].at \in Nat
    BY <2>1 DEF Lines, Dates
  <2>3. IsFiniteSet(I)
    <3>1. IsFiniteSet(1..Len(log))
      BY <1>1, FS_Interval
    <3>2. I \in SUBSET (1..Len(log))
      OBVIOUS
    <3> QED BY <3>1, <3>2, FS_Subset
  <2>4. IsFiniteSet(A)
    <3> DEFINE f == [i \in I |-> log[i].at]
    <3>1. DOMAIN f = I /\ f = [i \in I |-> f[i]]
      OBVIOUS
    <3>2. A = {f[i] : i \in I}
      OBVIOUS
    <3> HIDE DEF f, I, A
    <3>3. IsFiniteSet({f[i] : i \in I})
      BY <2>3, <3>1, ImageIsFinite
    <3> QED BY <3>2, <3>3
  <2> QED BY <2>2, <2>4
<1>3. B \in SUBSET Nat /\ IsFiniteSet(B)
  <2>1. B \in SUBSET Nat
    BY InFlightTyped
  <2>2. IsFiniteSet(InFlight)
    <3>1. /\ IsFiniteSet({decide}) /\ IsFiniteSet({view}) /\ IsFiniteSet({op})
          /\ IsFiniteSet({stopper}) /\ IsFiniteSet({job})
      BY FS_Singleton
    <3>2. IsFiniteSet({decide} \cup {view})
      BY <3>1, FS_Union
    <3>3. IsFiniteSet(({decide} \cup {view}) \cup {op})
      BY <3>1, <3>2, FS_Union
    <3>4. IsFiniteSet((({decide} \cup {view}) \cup {op}) \cup {stopper})
      BY <3>1, <3>3, FS_Union
    <3>5. IsFiniteSet(((({decide} \cup {view}) \cup {op}) \cup {stopper}) \cup {job})
      BY <3>1, <3>4, FS_Union
    <3>6. InFlight \in SUBSET (((({decide} \cup {view}) \cup {op}) \cup {stopper}) \cup {job})
      BY DEF InFlight
    <3> QED BY <3>5, <3>6, FS_Subset
  <2>3. IsFiniteSet(B)
    <3> DEFINE f == [b \in InFlight |-> b.batch[1].at]
    <3>1. DOMAIN f = InFlight /\ f = [b \in InFlight |-> f[b]]
      OBVIOUS
    <3>2. B = {f[b] : b \in InFlight}
      OBVIOUS
    <3> HIDE DEF f, B
    <3>3. IsFiniteSet({f[b] : b \in InFlight})
      BY <2>2, <3>1, ImageIsFinite
    <3> QED BY <3>2, <3>3
  <2> QED BY <2>1, <2>3
<1>4. S \in SUBSET Nat /\ S # {} /\ IsFiniteSet(S)
  <2> HIDE DEF A, B
  <2>1. IsFiniteSet({0})
    BY FS_Singleton
  <2>2. IsFiniteSet({0} \cup A)
    BY <1>2, <2>1, FS_Union
  <2>3. IsFiniteSet(({0} \cup A) \cup B)
    BY <1>3, <2>2, FS_Union
  <2> QED BY <1>2, <1>3, <2>3
<1>5. \E x \in S : \A y \in S : x >= y
  <2> HIDE DEF S
  <2> QED BY <1>4, Greatest
<1>6. Max(S) \in S /\ \A y \in S : Max(S) >= y
  <2> HIDE DEF S
  <2> QED BY <1>5 DEF Max
<1>7. Stamp = 1 + Max(S)
  BY DEF Stamp
<1>8. \A i \in I : log[i].at \in S
  OBVIOUS
<1>9. Stamp \in Nat /\ \A y \in S : y <= Stamp
  <2> HIDE DEF S
  <2>1. Max(S) \in Nat
    BY <1>4, <1>6
  <2>2. \A y \in S : y \in Nat /\ y <= 1 + Max(S)
    BY <1>4, <1>6, <2>1
  <2> QED BY <1>7, <2>1, <2>2
<1> QED BY <1>8, <1>9

LEMMA StopBatch ==
  ASSUME TrainsTyped, NEW t \in Trains, NEW r \in Reasons, NEW p \in Pins
  PROVE  /\ StopLine(t, r, p) \in Batches /\ Calm(StopLine(t, r, p))
         /\ StopLine(t, r, p) = <<Stopped(t, r, p, Stamp)>>
         /\ Stopped(t, r, p, Stamp) \in Lines
<1> DEFINE e == Stopped(t, r, p, Stamp)
<1>1. Stamp \in Nat
  BY StampIs
<1>2. e \in Lines /\ e.kind = "train-stopped"
  BY <1>1 DEF Stopped, Lines, Dates
<1> HIDE DEF e
<1>3. <<e>> \in Logs /\ Len(<<e>>) = 1 /\ <<e>>[1] = e /\ <<e>> # <<>>
  BY <1>2 DEF Logs
<1>4. <<e>> \in Batches /\ Calm(<<e>>)
  BY <1>2, <1>3 DEF Batches, Calm
<1> QED BY <1>2, <1>4 DEF StopLine, e

LEMMA DecideBatch ==
  ASSUME TrainsTyped, NEW c \in Cards, NEW d \in Decisions, NEW fresh \in BOOLEAN
  PROVE  LET b == (IF fresh THEN <<Drafted(c, Stamp)>> ELSE <<>>) \o <<Decided(c, d, Stamp)>>
         IN  b \in Batches /\ Calm(b)
<1> DEFINE e == Drafted(c, Stamp)
           f == Decided(c, d, Stamp)
           b == (IF fresh THEN <<e>> ELSE <<>>) \o <<f>>
<1>1. Stamp \in Nat
  BY StampIs
<1>2. /\ e \in Lines /\ e.kind = "card-drafted" /\ e.at = Stamp
      /\ f \in Lines /\ f.kind = "card-decided" /\ f.at = Stamp
  BY <1>1 DEF Drafted, Decided, Lines, Dates
<1> HIDE DEF e, f
<1>3. /\ <<e>> \in Logs /\ Len(<<e>>) = 1 /\ <<e>>[1] = e
      /\ <<f>> \in Logs /\ Len(<<f>>) = 1 /\ <<f>>[1] = f /\ <<>> \in Logs /\ Len(<<>>) = 0
  BY <1>2 DEF Logs
<1>4. CASE fresh
  <2>1. b = <<e>> \o <<f>> /\ b \in Logs /\ Len(b) = 2 /\ b[1] = e /\ b[2] = f
    BY <1>3, <1>4, Grown
  <2>2. \A i \in 1..Len(b) : b[i] = e \/ b[i] = f
    BY <2>1
  <2>3. b # <<>>
    BY <2>1
  <2> QED BY <1>2, <2>1, <2>2, <2>3 DEF Batches, Calm, e, f
<1>5. CASE ~fresh
  <2>1. b = <<>> \o <<f>> /\ b \in Logs /\ Len(b) = 1 /\ b[1] = f
    BY <1>3, <1>5, Grown
  <2>2. \A i \in 1..Len(b) : b[i] = f
    BY <2>1
  <2>3. b # <<>>
    BY <2>1
  <2> QED BY <1>2, <2>1, <2>2, <2>3 DEF Batches, Calm, e, f
<1> QED BY <1>4, <1>5

\* The cards a seal drafts are listed one after the other.
LEMMA DistinctIs ==
  ASSUME NEW S \in SUBSET Cards, NEW at \in Nat
  PROVE  /\ Distinct(S, at) \in Logs
         /\ \A i \in 1..Len(Distinct(S, at)) : \E c \in S : Distinct(S, at)[i] = Drafted(c, at)
<1> DEFINE n == Cardinality(S)
           R == {Drafted(c, at) : c \in S}
           P(s) == \A i, j \in DOMAIN s : i # j => s[i] # s[j]
<1>1. IsFiniteSet(S)
  BY CardsAssumption, FS_Subset
<1>2. n \in Nat /\ ExistsBijection(1..n, S)
  BY <1>1, FS_CardinalityType
<1>3. PICK f \in Bijection(1..n, S) : TRUE
  BY <1>2 DEF ExistsBijection
<1>4. f \in [1..n -> S] /\ \A i, j \in 1..n : i # j => f[i] # f[j]
  BY <1>3 DEF Bijection, Injection, IsInjective
<1> DEFINE s == [i \in 1..n |-> Drafted(f[i], at)]
<1>5. s \in [1..n -> R] /\ DOMAIN s = 1..n
  BY <1>4
<1>6. \A c, d \in S : Drafted(c, at) = Drafted(d, at) => c = d
  BY DEF Drafted
<1>7. P(s)
  BY <1>4, <1>5, <1>6
<1>8. Distinct(S, at) \in [1..n -> R]
  <2>1. \E q \in [1..n -> R] : P(q)
    BY <1>5, <1>7
  <2> QED BY <2>1 DEF Distinct
<1>9. R \subseteq Lines
  BY DEF Drafted, Lines, Dates
<1>10. Distinct(S, at) \in Seq(R) /\ Len(Distinct(S, at)) = n
  <2> HIDE DEF R, n
  <2> QED BY <1>2, <1>8
<1>11. Distinct(S, at) \in Logs
  <2> HIDE DEF R, n
  <2> QED BY <1>9, <1>10 DEF Logs
<1> QED BY <1>2, <1>8, <1>10, <1>11

LEMMA SealBatch ==
  ASSUME TrainsTyped, NEW t \in Trains, NEW cs \in SUBSET Cards, NEW new \in SUBSET Cards
  PROVE  LET b == Distinct(new, Stamp) \o <<Opened(t, FlavorFor(cs), Stamp), Sealed(t, cs, Stamp)>>
         IN  b \in Batches /\ SealLines(b, t, cs)
<1> DEFINE e == Opened(t, FlavorFor(cs), Stamp)
           f == Sealed(t, cs, Stamp)
           d == Distinct(new, Stamp)
           b == d \o <<e, f>>
<1>1. Stamp \in Nat
  BY StampIs
<1>2. /\ e \in Lines /\ e.kind = "train-opened" /\ e.at = Stamp /\ e.train = t
      /\ f \in Lines /\ f.kind = "train-sealed" /\ f.at = Stamp /\ f.train = t /\ f.cards = cs
  BY <1>1 DEF Opened, Sealed, Lines, Dates, FlavorFor
<1>3. /\ d \in Logs
      /\ \A i \in 1..Len(d) : d[i] \in Lines /\ d[i].kind = "card-drafted" /\ d[i].at = Stamp
  <2>1. \A c \in new : /\ Drafted(c, Stamp) \in Lines
                       /\ Drafted(c, Stamp).kind = "card-drafted" /\ Drafted(c, Stamp).at = Stamp
    BY <1>1 DEF Drafted, Lines, Dates
  <2> HIDE DEF d
  <2> QED BY <1>1, <2>1, DistinctIs DEF d
<1> HIDE DEF d, e, f
<1>4. <<e, f>> \in Logs /\ Len(<<e, f>>) = 2 /\ <<e, f>>[1] = e /\ <<e, f>>[2] = f
  BY <1>2 DEF Logs
<1>5. Len(d) \in Nat
  BY <1>3 DEF Logs
<1>6. /\ b \in Logs /\ Len(b) = Len(d) + 2 /\ \A i \in 1..Len(d) : b[i] = d[i]
      /\ b[Len(d) + 1] = e /\ b[Len(d) + 2] = f
  BY <1>3, <1>4, <1>5, Grown
<1> HIDE DEF b
<1>7. \A i \in 1..Len(b) : i \in 1..Len(d) \/ i = Len(d) + 1 \/ i = Len(d) + 2
  BY <1>5, <1>6
<1>8. \A i \in 1..Len(b) : b[i] \in Lines /\ b[i].at = Stamp
  BY <1>2, <1>3, <1>6, <1>7
<1>9. 1 \in 1..Len(b) /\ b # <<>>
  BY <1>5, <1>6
<1>10. b \in Batches
  BY <1>6, <1>8, <1>9 DEF Batches
<1>11. SealLines(b, t, cs)
  <2>1. /\ Len(b) >= 2 /\ Len(b) - 2 = Len(d) /\ Len(b) - 1 = Len(d) + 1
    BY <1>5, <1>6
  <2> QED BY <1>2, <1>3, <1>6, <2>1 DEF SealLines
<1> QED BY <1>10, <1>11 DEF b, d, e, f

\* The part of a batch that a death left is a batch.
LEMMA CutBatch ==
  ASSUME NEW b \in Batches, NEW k \in 1..Len(b)
  PROVE  SubSeq(b, 1, k) \in Logs /\ (Calm(b) => Calm(SubSeq(b, 1, k)))
<1> DEFINE S == Lines \cup {TornLine}
<1>1. b \in Seq(S) /\ Len(b) \in Nat /\ k \in Nat /\ 1 <= k /\ k <= Len(b)
  BY DEF Batches, Logs
<1> HIDE DEF S
<1>2. \A i \in 1..k : b[i] \in S
  BY <1>1
<1>3. /\ SubSeq(b, 1, k) \in Seq(S) /\ Len(SubSeq(b, 1, k)) = k
      /\ \A i \in 1..(k - 1 + 1) : SubSeq(b, 1, k)[i] = b[1 + i - 1]
  BY <1>1, <1>2, SubSeqProperties
<1>4. \A i \in 1..k : SubSeq(b, 1, k)[i] = b[i] /\ i \in 1..Len(b)
  BY <1>1, <1>3
<1>5. Calm(b) => Calm(SubSeq(b, 1, k))
  BY <1>3, <1>4 DEF Calm
<1> QED BY <1>3, <1>5 DEF S, Logs

LEMMA TrainsOfLog ==
  ASSUME NEW l \in Logs
  PROVE  TrainsOf(l) \subseteq Trains
<1> SUFFICES ASSUME NEW i \in Kind(l, "train-opened") PROVE l[i].train \in Trains
  BY DEF TrainsOf
<1>1. l[i].kind = "train-opened" /\ l[i] \in Lines \cup {TornLine}
  BY DEF Kind, Logs
<1> QED BY <1>1 DEF Lines, TornLine

\* The newest of some trains is one of them.
LEMMA NewestIs ==
  ASSUME TrainsTyped, DataTrains # {}
  PROVE  Max(DataTrains) \in DataTrains /\ Max(DataTrains) \in Trains
<1>1. DataTrains \in SUBSET Trains
  BY TrainsOfLog DEF DataTrains, TrainsTyped
<1>2. IsFiniteSet(Trains) /\ Trains \in SUBSET Nat
  BY BoundsAssumption, FS_Interval DEF Trains
<1>3. IsFiniteSet(DataTrains) /\ DataTrains \in SUBSET Nat
  BY <1>1, <1>2, FS_Subset
<1>4. \E x \in DataTrains : \A y \in DataTrains : x >= y
  <2> HIDE DEF DataTrains
  <2> QED BY <1>3, Greatest
<1> QED BY <1>1, <1>4 DEF Max

-----------------------------------------------------------------------------
(* Types *)

LEMMA LogGrows ==
  ASSUME TrainsTyped, NEW b \in Batches
  PROVE  log \o b \in Logs
BY Grown DEF TrainsTyped, Batches

LEMMA StateNames ==
  ASSUME NEW l \in Logs, NEW t
  PROVE  StateOf(l, t) \in {"stopped", "sealed", "open", "unknown"}
BY StateIs

LEMMA DecideTyped ==
  ASSUME TrainsTyped,
         (\E c \in Cards, d \in Decisions : DecideDerive(c, d)) \/ DecideStamp \/ DecideWrite
  PROVE  TrainsTyped'
<1> USE DEF TrainsTyped, evidence, remote, chain, world
<1>1. ASSUME NEW c \in Cards, NEW d \in Decisions, DecideDerive(c, d) PROVE TrainsTyped'
  <2>1. decide' \in Deciding
    BY <1>1 DEF DecideDerive, Deciding
  <2>2. requests' \in 0..MaxRequests
    BY <1>1, BoundsAssumption DEF DecideDerive, Request
  <2> QED BY <1>1, <2>1, <2>2 DEF DecideDerive
<1>2. ASSUME DecideStamp PROVE TrainsTyped'
  <2>1. decide.card \in Cards /\ decide.decision \in Decisions
    BY <1>2 DEF DecideStamp, Deciding, Idle
  <2>2. decide' \in Deciding
    <3> DEFINE fresh == OfCard(log, "card-drafted", decide.card) = {}
               b == (IF fresh THEN <<Drafted(decide.card, Stamp)>> ELSE <<>>)
                    \o <<Decided(decide.card, decide.decision, Stamp)>>
    <3>1. b \in Batches
      BY <2>1, DecideBatch
    <3>2. decide' = IF Readable(log \o b) THEN [pc |-> "write", batch |-> b] ELSE Idle
      BY <1>2 DEF DecideStamp
    <3> HIDE DEF b, TrainsTyped
    <3> QED BY <3>1, <3>2 DEF Deciding
  <2> QED BY <1>2, <2>2 DEF DecideStamp
<1>3. ASSUME DecideWrite PROVE TrainsTyped'
  <2>1. decide.batch \in Batches
    BY <1>3 DEF DecideWrite, Deciding, Idle
  <2>2. log' \in Logs
    BY <1>3, <2>1, LogGrows DEF DecideWrite
  <2>3. decide' \in Deciding
    BY <1>3 DEF DecideWrite, Deciding
  <2> QED BY <1>3, <2>2, <2>3 DEF DecideWrite
<1> QED BY <1>1, <1>2, <1>3

LEMMA ViewTyped ==
  ASSUME TrainsTyped, (\E t \in Trains : ViewDerive(t)) \/ ViewObserve \/ ViewWrite
  PROVE  TrainsTyped'
<1> USE DEF TrainsTyped, evidence, remote, chain, world
<1>1. ASSUME NEW t \in Trains, ViewDerive(t) PROVE TrainsTyped'
  <2>1. Landed(t) \in BOOLEAN /\ StateOf(log, t) \in {"stopped", "sealed", "open", "unknown"}
    BY StateNames DEF Landed
  <2>2. view' \in Viewing
    BY <1>1, <2>1 DEF ViewDerive, Viewing
  <2> QED BY <1>1, <2>2 DEF ViewDerive
<1>2. ASSUME ViewObserve PROVE TrainsTyped'
  <2>1. view.train \in Trains
    BY <1>2 DEF ViewObserve, Viewing, Idle
  <2>2. StopLine(view.train, "main-moved", "none") \in Batches
    <3> HIDE DEF TrainsTyped
    <3> QED BY <2>1, StopBatch DEF Reasons, Pins
  <2>3. view' = Idle \/ view' = [pc |-> "write", batch |-> StopLine(view.train, "main-moved", "none")]
    BY <1>2 DEF ViewObserve
  <2>4. view' \in Viewing
    BY <2>2, <2>3 DEF Viewing
  <2>5. due' \in BOOLEAN
    BY <1>2 DEF ViewObserve
  <2> QED BY <1>2, <2>4, <2>5 DEF ViewObserve
<1>3. ASSUME ViewWrite PROVE TrainsTyped'
  <2>1. view.batch \in Batches
    BY <1>3 DEF ViewWrite, Viewing, Idle
  <2>2. log' \in Logs
    BY <1>3, <2>1, LogGrows DEF ViewWrite
  <2>3. view' \in Viewing
    BY <1>3 DEF ViewWrite, Viewing
  <2> QED BY <1>3, <2>2, <2>3 DEF ViewWrite
<1> QED BY <1>1, <1>2, <1>3

LEMMA StopperTyped ==
  ASSUME TrainsTyped, (\E s \in stops : StopperStamp(s)) \/ StopperWrite
  PROVE  TrainsTyped'
<1> USE DEF TrainsTyped, evidence, remote, chain, world
<1>1. ASSUME NEW s \in stops, StopperStamp(s) PROVE TrainsTyped'
  <2>1. s.train \in Trains /\ s.reason \in Reasons
    OBVIOUS
  <2>2. StopLine(s.train, s.reason, "none") \in Batches
    <3> HIDE DEF TrainsTyped
    <3> QED BY <2>1, StopBatch DEF Reasons, Pins
  <2>3. stopper' = Idle \/ stopper' = [pc |-> "write", batch |-> StopLine(s.train, s.reason, "none")]
    BY <1>1 DEF StopperStamp
  <2>4. stopper' \in Stoppers
    BY <2>2, <2>3 DEF Stoppers
  <2> QED BY <1>1, <2>4 DEF StopperStamp
<1>2. ASSUME StopperWrite PROVE TrainsTyped'
  <2>1. stopper.batch \in Batches
    BY <1>2 DEF StopperWrite, Stoppers, Idle
  <2>2. log' \in Logs
    BY <1>2, <2>1, LogGrows DEF StopperWrite
  <2>3. stopper' \in Stoppers
    BY <1>2 DEF StopperWrite, Stoppers
  <2> QED BY <1>2, <2>2, <2>3 DEF StopperWrite
<1> QED BY <1>1, <1>2

LEMMA StoppingIs ==
  ASSUME TrainsTyped, NEW t \in Trains, Stopping(t) # <<>>
  PROVE  /\ Stopping(t)[1] = StopLine(t, "main-moved", "none") /\ Stopping(t)[1] \in Batches
         /\ Calm(Stopping(t)[1])
<1>1. Stopping(t) = <<StopLine(t, "main-moved", "none")>>
  BY DEF Stopping
<1>2. Stopping(t)[1] = StopLine(t, "main-moved", "none")
  BY <1>1
<1> QED BY <1>2, StopBatch DEF Reasons, Pins

LEMMA OpFrame ==
  ASSUME TrainsTyped, OpStep, UNCHANGED <<log, torn, reports>>,
         registry' \in [Trains -> Entry \cup {None}], published' \subseteq Trains,
         admitted' \subseteq [train : Trains, cards : SUBSET Cards, base : 0..MaxMain],
         prs' \subseteq [train : Trains, cards : SUBSET Cards], UNCHANGED <<merged, main, chain>>,
         stops' \subseteq [train : Trains, reason : Reasons], requests' \in 0..MaxRequests,
         op' \in {Idle} \cup Seals \cup Signs, op'.pc = "write" => op'.batch \in Batches
  PROVE  TrainsTyped'
BY DEF TrainsTyped, OpStep, chain, world

\* A request that leaves everything but itself alone.
LEMMA OpQuietTyped ==
  ASSUME TrainsTyped, OpQuiet, op' \in {Idle} \cup Seals \cup Signs,
         op'.pc = "write" => op'.batch \in Batches
  PROVE  TrainsTyped'
BY OpFrame DEF TrainsTyped, OpQuiet, evidence, remote, chain, OpStep

LEMMA OpEndsTyped ==
  ASSUME TrainsTyped, OpEnds
  PROVE  TrainsTyped'
<1>1. Idle.pc # "write"
  BY DEF Idle
<1> QED BY <1>1, OpQuietTyped DEF OpEnds

LEMMA OpFailsTyped ==
  ASSUME TrainsTyped, NEW t \in Trains, NEW r \in Reasons, OpFails(t, r)
  PROVE  TrainsTyped'
<1>1. Idle.pc # "write"
  BY DEF Idle
<1>2. stops' \subseteq [train : Trains, reason : Reasons]
  BY DEF OpFails, TrainsTyped
<1> QED BY <1>1, <1>2, OpFrame DEF OpFails, TrainsTyped, evidence, remote, chain, OpStep

LEMMA OpIsSeal ==
  ASSUME TrainsTyped, op.pc # "idle", op.kind = "seal"
  PROVE  op \in Seals
BY DEF TrainsTyped, Idle, Signs

LEMMA OpIsSign ==
  ASSUME TrainsTyped, op.pc \in {"look", "review", "admit", "prepare"}
  PROVE  op \in Signs
BY DEF TrainsTyped, Idle, Seals

LEMMA StartIs ==
  ASSUME TrainsTyped, NEW k \in {"sign", "admit", "prepare", "report"},
         NEW p \in {"look", "admit", "prepare"}, NEW t \in Trains
  PROVE  Start(k, p, t) \in Signs /\ Start(k, p, t).pc # "write"
<1>1. Landed(t) \in BOOLEAN /\ StateOf(log, t) \in {"stopped", "sealed", "open", "unknown"}
  BY StateNames DEF Landed, TrainsTyped
<1>2. <<>> \in Logs
  BY DEF Logs
<1> QED BY <1>1, <1>2 DEF Start, Signs

LEMMA SealTyped ==
  ASSUME TrainsTyped, SealDerive \/ SealRegister \/ SealStamp \/ (\E t \in Trains : SealObserve(t))
  PROVE  TrainsTyped'
<1>1. ASSUME SealDerive PROVE TrainsTyped'
  <2>1. Cardinality(TrainsOf(log)) + 1 \in Trains /\ TrainsOf(log) \subseteq Trains
    <3>1. TrainsOf(log) \subseteq Trains
      BY TrainsOfLog DEF TrainsTyped
    <3>2. IsFiniteSet(Trains)
      <4>1. MaxTrains \in Int
        BY BoundsAssumption
      <4> QED BY <4>1, FS_Interval DEF Trains
    <3>3. Cardinality(TrainsOf(log)) \in Nat
      BY <3>1, <3>2, FS_Subset, FS_CardinalityType
    <3> QED BY <1>1, <3>1, <3>3, BoundsAssumption DEF SealDerive, Trains
  <2>2. <<>> \in Logs
    BY DEF Logs
  <2>3. op' \in Seals /\ op'.pc # "write"
    BY <1>1, <2>1, <2>2 DEF SealDerive, Seals
  <2>4. requests' \in 0..MaxRequests
    BY <1>1, BoundsAssumption DEF SealDerive, Request, TrainsTyped
  <2> QED BY <1>1, <2>3, <2>4, OpFrame DEF SealDerive, TrainsTyped, evidence, remote, chain, OpStep
<1>2. ASSUME SealRegister PROVE TrainsTyped'
  <2>1. op \in Seals
    BY <1>2, OpIsSeal DEF SealRegister
  <2>2. CASE op.cards = {} \/ torn
    BY <1>2, <2>2, OpEndsTyped DEF SealRegister
  <2>3. CASE ~(op.cards = {} \/ torn)
    <3>1. NewEntry(op.cards, main) \in Entry
      BY <2>1 DEF Seals, TrainsTyped, NewEntry, Entry
    <3>2. /\ registry' = [registry EXCEPT ![op.train] = NewEntry(op.cards, main)]
          /\ op' = [op EXCEPT !.pc = "stamp"] /\ OpStep
          /\ UNCHANGED <<log, torn, reports, admitted, published, remote, chain, stops, requests>>
      BY <1>2, <2>3 DEF SealRegister
    <3>3. registry' \in [Trains -> Entry \cup {None}]
      BY <3>1, <3>2 DEF TrainsTyped
    <3>4. op' \in Seals /\ op'.pc # "write"
      BY <2>1, <3>2 DEF Seals
    <3> QED BY <3>2, <3>3, <3>4, OpFrame DEF TrainsTyped, remote, chain, OpStep
  <2> QED BY <2>2, <2>3
<1>3. ASSUME SealStamp PROVE TrainsTyped'
  <2>1. op \in Seals
    BY <1>3 DEF SealStamp, TrainsTyped, Idle, Signs
  <2> DEFINE new == {c \in op.cards : OfCard(log, "card-drafted", c) = {}}
             b == Distinct(new, Stamp) \o <<Opened(op.train, FlavorFor(op.cards), Stamp),
                                            Sealed(op.train, op.cards, Stamp)>>
  <2>2. b \in Batches
    <3>1. op.train \in Trains /\ op.cards \in SUBSET Cards /\ new \in SUBSET Cards
      BY <2>1 DEF Seals
    <3> HIDE DEF new
    <3> QED BY <3>1, SealBatch
  <2>3. /\ op' = IF Readable(log \o b)
                   THEN [op EXCEPT !.pc = "write", !.batch = b, !.next = "sealed"] ELSE Idle
        /\ OpQuiet
    BY <1>3 DEF SealStamp
  <2> HIDE DEF b
  <2>4. b \in Logs
    BY <2>2 DEF Batches
  <2>5. op' \in {Idle} \cup Seals \cup Signs /\ (op'.pc = "write" => op'.batch \in Batches)
    BY <2>1, <2>2, <2>3, <2>4 DEF Seals, Idle
  <2> QED BY <2>3, <2>5, OpQuietTyped
<1>4. ASSUME NEW t \in Trains, SealObserve(t) PROVE TrainsTyped'
  <2>1. op \in Seals
    BY <1>4, OpIsSeal DEF SealObserve
  <2>2. CASE OpEnds
    BY <2>2, OpEndsTyped
  <2>3. CASE /\ OpQuiet
             /\ op' = IF Stopping(t) = <<>>
                        THEN [op EXCEPT !.running = @ \ {t}]
                        ELSE [op EXCEPT !.running = @ \ {t}, !.pc = "write",
                                        !.batch = Stopping(t)[1]]
    <3>1. CASE Stopping(t) = <<>>
      <4>1. op' \in Seals /\ op'.pc = "observe"
        BY <1>4, <2>1, <2>3, <3>1 DEF SealObserve, Seals
      <4> QED BY <2>3, <4>1, OpQuietTyped
    <3>2. CASE Stopping(t) # <<>>
      <4>1. Stopping(t)[1] \in Batches
        BY <3>2, StoppingIs
      <4>2. op' \in Seals /\ op'.batch = Stopping(t)[1]
        BY <2>1, <2>3, <3>2, <4>1 DEF Seals, Batches
      <4> QED BY <2>3, <4>1, <4>2, OpQuietTyped
    <3> QED BY <3>1, <3>2
  <2> QED BY <1>4, <2>2, <2>3 DEF SealObserve
<1> QED BY <1>1, <1>2, <1>3, <1>4

LEMMA SignTyped ==
  ASSUME TrainsTyped, \/ \E t \in Trains : SignDerive(t) \/ AdmitRequest(t) \/ PrepareRequest(t)
                      \/ SignObserve \/ SignReview
  PROVE  TrainsTyped'
<1>1. ASSUME NEW t \in Trains, SignDerive(t) \/ AdmitRequest(t) \/ PrepareRequest(t)
      PROVE  TrainsTyped'
  <2>1. op' \in Signs /\ op'.pc # "write"
    BY <1>1, StartIs DEF SignDerive, AdmitRequest, PrepareRequest
  <2>2. requests' \in 0..MaxRequests
    BY <1>1, BoundsAssumption DEF SignDerive, AdmitRequest, PrepareRequest, Request, TrainsTyped
  <2>3. UNCHANGED <<log, evidence, remote, chain, stops>> /\ OpStep
    BY <1>1 DEF SignDerive, AdmitRequest, PrepareRequest
  <2> QED BY <2>1, <2>2, <2>3, OpFrame DEF TrainsTyped, evidence, remote, chain, OpStep
<1>2. ASSUME SignObserve PROVE TrainsTyped'
  <2>1. op \in Signs /\ op.train \in Trains
    BY <1>2, OpIsSign DEF SignObserve, Signs
  <2>2. CASE OpEnds
    BY <2>2, OpEndsTyped
  <2>3. CASE OpQuiet /\ op' = [op EXCEPT !.pc = IF FlavorOf(log, op.train) = "data" THEN "review" ELSE "admit"]
    <3>1. op' \in Signs /\ op'.pc # "write"
      BY <2>1, <2>3 DEF Signs
    <3> QED BY <2>3, <3>1, OpQuietTyped
  <2>4. CASE /\ OpQuiet /\ Stopping(op.train) # <<>>
             /\ op' = [op EXCEPT !.pc = "write", !.batch = Stopping(op.train)[1]]
    <3>1. Stopping(op.train)[1] \in Batches
      BY <2>1, <2>4, StoppingIs
    <3>2. op' \in Signs /\ op'.batch = Stopping(op.train)[1]
      BY <2>1, <2>4, <3>1 DEF Signs, Batches
    <3> QED BY <2>4, <3>1, <3>2, OpQuietTyped
  <2> QED BY <1>2, <2>2, <2>3, <2>4 DEF SignObserve
<1>3. ASSUME SignReview PROVE TrainsTyped'
  <2>1. op \in Signs /\ op.train \in Trains
    BY <1>3, OpIsSign DEF SignReview, Signs
  <2>2. CASE torn \/ registry[op.train] = None
    BY <1>3, <2>2, OpEndsTyped DEF SignReview
  <2>3. CASE ~(torn \/ registry[op.train] = None)
    <3>1. /\ registry' = [registry EXCEPT ![op.train].reviewed = TRUE]
          /\ op' = [op EXCEPT !.pc = "admit"] /\ OpStep
          /\ UNCHANGED <<log, torn, reports, admitted, published, remote, chain, stops, requests>>
      BY <1>3, <2>3 DEF SignReview
    <3>2. registry[op.train] \in Entry
      BY <2>1, <2>3 DEF TrainsTyped
    <3>3. registry' = [registry EXCEPT ![op.train] = [registry[op.train] EXCEPT !.reviewed = TRUE]]
      BY <3>1
    <3>4. [registry[op.train] EXCEPT !.reviewed = TRUE] \in Entry
      BY <3>2 DEF Entry
    <3>5. registry' \in [Trains -> Entry \cup {None}]
      BY <3>3, <3>4 DEF TrainsTyped
    <3>6. op' \in Signs /\ op'.pc # "write"
      BY <2>1, <3>1 DEF Signs
    <3> QED BY <3>1, <3>5, <3>6, OpFrame DEF TrainsTyped, remote, chain, OpStep
  <2> QED BY <2>2, <2>3
<1> QED BY <1>1, <1>2, <1>3

LEMMA AdmitTyped ==
  ASSUME TrainsTyped, NEW passes \in BOOLEAN, Admit(passes)
  PROVE  TrainsTyped'
<1> DEFINE t == op.train
           e == registry[t]
<1>1. op \in Signs /\ t \in Trains
  BY OpIsSign DEF Admit, Signs
<1>2. CASE OpEnds
  BY <1>2, OpEndsTyped
<1>3. CASE \E r \in {"unreviewed-top10-movement", "main-moved", "verify-failed"} : OpFails(t, r)
  BY <1>1, <1>3, OpFailsTyped DEF Reasons
<1>4. CASE /\ e # None
           /\ admitted' = admitted \cup {[train |-> t, cards |-> e.cards, base |-> e.base]}
           /\ op' = IF op.kind = "sign" THEN [op EXCEPT !.pc = "prepare"] ELSE Idle
           /\ UNCHANGED <<log, registry, torn, reports, published, remote, chain, stops, requests>>
           /\ OpStep
  <2>1. e \in Entry
    BY <1>1, <1>4 DEF TrainsTyped
  <2>2. admitted' \subseteq [train : Trains, cards : SUBSET Cards, base : 0..MaxMain]
    BY <1>1, <1>4, <2>1 DEF TrainsTyped, Entry
  <2>3. op' \in {Idle} \cup Seals \cup Signs /\ op'.pc # "write"
    BY <1>1, <1>4 DEF Signs, Idle
  <2> QED BY <1>4, <2>2, <2>3, OpFrame DEF TrainsTyped, remote, chain, OpStep
<1> QED BY <1>2, <1>3, <1>4 DEF Admit

LEMMA PrepareTyped ==
  ASSUME TrainsTyped, NEW outcome \in Outcomes, Prepare(outcome)
  PROVE  TrainsTyped'
<1> DEFINE t == op.train
           pr == [train |-> t, cards |-> registry[t].cards]
           fails == outcome \in {"unverified", "unavailable"}
<1>1. op \in Signs /\ t \in Trains
  BY OpIsSign DEF Prepare, Signs
<1>2. CASE OpEnds
  BY <1>2, OpEndsTyped
<1>3. CASE OpFails(t, "main-moved")
  BY <1>1, <1>3, OpFailsTyped DEF Reasons
<1>4. CASE /\ registry[t] # None
           /\ prs' = IF outcome \in {"opened", "unverified"} /\ t \notin published
                       THEN prs \cup {pr} ELSE prs
           /\ published' = IF outcome = "opened" THEN published \cup {t} ELSE published
           /\ stops' = IF fails THEN stops \cup {[train |-> t, reason |-> "github-unavailable"]}
                                ELSE stops
           /\ op' = IF op.kind = "sign" /\ ~fails THEN Start("report", "look", t) ELSE Idle
           /\ UNCHANGED <<log, registry, torn, reports, admitted, merged, main, chain, requests>>
           /\ OpStep
  <2>1. registry[t].cards \in SUBSET Cards
    BY <1>1, <1>4 DEF TrainsTyped, Entry
  <2>2. prs' \subseteq [train : Trains, cards : SUBSET Cards]
    BY <1>1, <1>4, <2>1 DEF TrainsTyped
  <2>3. published' \subseteq Trains /\ stops' \subseteq [train : Trains, reason : Reasons]
    BY <1>1, <1>4 DEF TrainsTyped, Reasons
  <2>4. op' \in {Idle} \cup Seals \cup Signs /\ op'.pc # "write"
    <3>1. Start("report", "look", t) \in Signs /\ Start("report", "look", t).pc # "write"
      BY <1>1, StartIs
    <3> QED BY <1>4, <3>1 DEF Idle
  <2> QED BY <1>4, <2>2, <2>3, <2>4, OpFrame DEF TrainsTyped, chain, OpStep
<1> QED BY <1>2, <1>3, <1>4 DEF Prepare

LEMMA OpWriteTyped ==
  ASSUME TrainsTyped, OpWrite
  PROVE  TrainsTyped'
<1>1. op.batch \in Batches
  BY DEF OpWrite, TrainsTyped
<1>2. log' \in Logs
  BY <1>1, LogGrows DEF OpWrite
<1>3. op' \in {Idle} \cup Seals \cup Signs /\ op'.pc # "write"
  <2>1. CASE op.next = "observe"
    <3>1. op \in Seals
      BY <2>1 DEF OpWrite, TrainsTyped, Idle, Signs
    <3>2. <<>> \in Logs
      BY DEF Logs
    <3> QED BY <2>1, <3>1, <3>2 DEF OpWrite, Seals
  <2>2. CASE op.next # "observe"
    BY <2>2 DEF OpWrite, Idle
  <2> QED BY <2>1, <2>2
<1>4. due' \in BOOLEAN /\ halted' \in BOOLEAN
  BY DEF OpWrite, TrainsTyped
<1> QED BY <1>2, <1>3, <1>4 DEF OpWrite, TrainsTyped, evidence, remote, OpStep, world

LEMMA StagesAre == Len(Stages) = 3 /\ \A i \in 1..3 :
  /\ Stages[i] = "build" <=> i = 1
  /\ Stages[i] = "measure" <=> i = 2
  /\ Stages[i] = "gauntlet" <=> i = 3
BY DEF Stages

LEMMA ResultTyped ==
  ASSUME TrainsTyped, job.pc # "idle", NEW passed \in BOOLEAN, JobResult(passed)
  PROVE  job' \in Works /\ halted' \in BOOLEAN
<1>1. job.stage \in 1..3 /\ job.chained \in BOOLEAN
  BY DEF TrainsTyped, Works, Idle
<1>2. job.stage < 3 => job.stage + 1 \in 1..3
  BY <1>1
<1>3. job' \in {Idle, Stage(job.stage + 1, TRUE)} /\ (job' # Idle => job.stage < 3)
  BY StagesAre DEF JobResult
<1> QED BY <1>1, <1>2, <1>3 DEF JobResult, TrainsTyped, Works, Stage

LEMMA JobFrame ==
  ASSUME TrainsTyped, JobStep, log' \in Logs, UNCHANGED <<torn, admitted, published, remote, requests>>,
         registry' \in [Trains -> Entry \cup {None}], reports' \subseteq Trains,
         due' \in BOOLEAN, halted' \in BOOLEAN, job' \in Works
  PROVE  TrainsTyped'
BY DEF TrainsTyped, JobStep, remote, world

LEMMA JobEndsTyped ==
  ASSUME TrainsTyped, job.pc # "idle", NEW passed \in BOOLEAN, JobEnds(passed)
  PROVE  TrainsTyped'
BY ResultTyped, JobFrame DEF JobEnds, JobQuiet, evidence, remote, TrainsTyped, JobStep

LEMMA JobWorking ==
  ASSUME TrainsTyped, job.pc \in {"work", "regen", "stamp"}
  PROVE  job \in [pc : {"work", "regen", "stamp"}, stage : 1..3, chained : BOOLEAN,
                  train : Trains, entry : Entry]
BY DEF TrainsTyped, Works, Idle

LEMMA RecordTyped ==
  ASSUME TrainsTyped, job.pc \in {"work", "regen"}, NEW e \in Entry, Record(e),
         job' \in Works, halted' \in BOOLEAN
  PROVE  TrainsTyped'
<1>1. registry' \in [Trains -> Entry \cup {None}]
  BY DEF Record, TrainsTyped
<1> QED BY <1>1, JobFrame DEF Record, TrainsTyped, remote, JobStep

\* A stage that does not end at once works on the newest sealed data train, on an entry that
\* has the evidence of the stages before it and not yet its own.
LEMMA LocateIs ==
  ASSUME TrainsTyped, JobLocate, ~JobEnds(TRUE), ~JobEnds(FALSE)
  PROVE  LET t == Max(DataTrains)
             e == registry[t]
         IN  /\ Readable(log) /\ DataTrains # {} /\ ~torn /\ e # None
             /\ job.stage = 1 => ~e.candidate
             /\ job.stage = 2 => e.candidate /\ e.comparison = "none"
             /\ job.stage = 3 => e.candidate /\ e.comparison # "none"
             /\ job' = [pc |-> "work", stage |-> job.stage, chained |-> job.chained,
                        train |-> t, entry |-> e]
             /\ UNCHANGED halted /\ JobQuiet
<1> DEFINE t == Max(DataTrains)
           e == registry[t]
           done == CASE Stages[job.stage] = "build"   -> e.candidate
                     [] Stages[job.stage] = "measure" -> e.comparison # "none"
                     [] OTHER                         -> FALSE
           early == CASE Stages[job.stage] = "build"   -> FALSE
                      [] Stages[job.stage] = "measure" -> ~e.candidate
                      [] OTHER                         -> ~e.candidate \/ e.comparison = "none"
<1>1. job.pc = "locate" /\ job.stage \in 1..3
  BY DEF JobLocate, TrainsTyped, Works, Idle
<1>2. job.stage = 1 => done = e.candidate /\ early = FALSE
  BY StagesAre
<1>3. job.stage = 2 => done = (e.comparison # "none") /\ early = ~e.candidate
  BY StagesAre
<1>4. job.stage = 3 => done = FALSE /\ early = (~e.candidate \/ e.comparison = "none")
  BY StagesAre
<1> QED BY <1>1, <1>2, <1>3, <1>4 DEF JobLocate

LEMMA JobTyped ==
  ASSUME TrainsTyped, JobNext
  PROVE  TrainsTyped'
<1>1. ASSUME JobLocate PROVE TrainsTyped'
  <2> DEFINE t == Max(DataTrains)
             e == registry[t]
  <2>1. job.pc = "locate" /\ job \in [pc : {"locate"}, stage : 1..3, chained : BOOLEAN]
    BY <1>1 DEF JobLocate, TrainsTyped, Works, Idle
  <2>2. CASE \E passed \in BOOLEAN : JobEnds(passed)
    BY <2>1, <2>2, JobEndsTyped
  <2>3. CASE /\ DataTrains # {} /\ e # None /\ JobQuiet /\ UNCHANGED halted
             /\ job' = [pc |-> "work", stage |-> job.stage, chained |-> job.chained,
                        train |-> t, entry |-> e]
    <3>1. t \in Trains
      BY <2>3, NewestIs
    <3>2. e \in Entry
      BY <2>3, <3>1 DEF TrainsTyped
    <3> HIDE DEF t, e
    <3>3. job' \in Works
      BY <2>1, <2>3, <3>1, <3>2 DEF Works
    <3> QED BY <2>3, <3>3, JobFrame DEF JobQuiet, evidence, remote, TrainsTyped, JobStep
  <2> QED BY <1>1, <2>2, <2>3 DEF JobLocate
<1>2. ASSUME JobBuild PROVE TrainsTyped'
  <2>1. job.pc = "work" /\ job.entry \in Entry
    BY <1>2, JobWorking DEF JobBuild
  <2>2. [job.entry EXCEPT !.candidate = TRUE] \in Entry
    BY <2>1 DEF Entry
  <2> QED BY <1>2, <2>1, <2>2, ResultTyped, RecordTyped DEF JobBuild
<1>3. ASSUME JobMeasure PROVE TrainsTyped'
  <2>1. job.pc = "work" /\ job.entry \in Entry
    BY <1>3, JobWorking DEF JobMeasure
  <2>2. \A x \in {"effect", "noeffect"} : [job.entry EXCEPT !.comparison = x] \in Entry
    BY <2>1 DEF Entry
  <2>3. CASE job.entry.cards \cap effective # {}
    BY <1>3, <2>1, <2>2, <2>3, ResultTyped, RecordTyped DEF JobMeasure
  <2>4. CASE ~(job.entry.cards \cap effective # {})
    <3>1. /\ Record([job.entry EXCEPT !.comparison = "noeffect"])
          /\ job' = [job EXCEPT !.pc = "stamp"] /\ UNCHANGED halted
      BY <1>3, <2>4 DEF JobMeasure
    <3>2. job' \in Works /\ halted' \in BOOLEAN
      BY <2>1, <3>1, JobWorking DEF Works, TrainsTyped
    <3> QED BY <2>1, <2>2, <3>1, <3>2, RecordTyped
  <2> QED BY <2>3, <2>4
<1>4. ASSUME NEW admits \in BOOLEAN, JobGauntlet(admits) PROVE TrainsTyped'
  <2>1. job.pc = "work" /\ job.train \in Trains
    BY <1>4, JobWorking DEF JobGauntlet
  <2>2. job' \in Works /\ halted' \in BOOLEAN
    BY <1>4, <2>1, JobWorking DEF JobGauntlet, Works, TrainsTyped, chain
  <2>3. reports' \subseteq Trains
    BY <1>4, <2>1 DEF JobGauntlet, TrainsTyped
  <2> QED BY <1>4, <2>2, <2>3, JobFrame DEF JobGauntlet, TrainsTyped, remote, chain, JobStep
<1>5. ASSUME JobRegen PROVE TrainsTyped'
  <2>1. job.pc = "regen" /\ job.entry \in Entry
    BY <1>5, JobWorking DEF JobRegen
  <2>2. [job.entry EXCEPT !.gauntlet = TRUE] \in Entry
    BY <2>1 DEF Entry
  <2> QED BY <1>5, <2>1, <2>2, ResultTyped, RecordTyped DEF JobRegen
<1>6. ASSUME JobStamp PROVE TrainsTyped'
  <2>1. job.pc = "stamp" /\ job.train \in Trains /\ job.stage \in 1..3 /\ job.chained \in BOOLEAN
    BY <1>6, JobWorking DEF JobStamp
  <2>2. JobStop \in Batches
    BY <2>1, StopBatch DEF JobStop, Reasons, Pins
  <2>3. CASE JobEnds(FALSE)
    BY <2>1, <2>3, JobEndsTyped
  <2>4. CASE /\ job' = [pc |-> "write", stage |-> job.stage, chained |-> job.chained,
                        batch |-> JobStop]
             /\ UNCHANGED halted /\ JobQuiet
    <3>1. job' \in Works
      BY <2>1, <2>2, <2>4 DEF Works
    <3> QED BY <2>4, <3>1, JobFrame DEF JobQuiet, evidence, remote, TrainsTyped, JobStep
  <2> QED BY <1>6, <2>3, <2>4 DEF JobStamp
<1>7. ASSUME JobWrite PROVE TrainsTyped'
  <2>1. job.pc = "write" /\ job.batch \in Batches
    BY <1>7 DEF JobWrite, TrainsTyped, Works, Idle
  <2>2. log' \in Logs
    BY <1>7, <2>1, LogGrows DEF JobWrite
  <2>3. job' \in Works /\ halted' \in BOOLEAN
    BY <1>7, <2>1, ResultTyped DEF JobWrite
  <2> QED BY <1>7, <2>2, <2>3, JobFrame DEF JobWrite, evidence, remote, TrainsTyped, JobStep
<1>8. ASSUME JobFails PROVE TrainsTyped'
  BY <1>8, JobEndsTyped DEF JobFails
<1>9. ASSUME Advance PROVE TrainsTyped'
  <2>1. job' \in Works
    BY <1>9 DEF Advance, TrainsTyped, Works, Stage
  <2> QED BY <1>9, <2>1, JobFrame DEF Advance, evidence, remote, TrainsTyped, JobStep
<1>10. ASSUME NEW i \in 1..Len(Stages), JobRequest(i) PROVE TrainsTyped'
  <2>1. job' \in Works
    BY <1>10, StagesAre DEF JobRequest, Works, Stage
  <2>2. requests' \in 0..MaxRequests
    BY <1>10, BoundsAssumption DEF JobRequest, Request, TrainsTyped
  <2> QED BY <1>10, <2>1, <2>2 DEF JobRequest, TrainsTyped, evidence, remote, chain, JobStep, world
<1> QED BY <1>1, <1>2, <1>3, <1>4, <1>5, <1>6, <1>7, <1>8, <1>9, <1>10 DEF JobNext, JobWorks

LEMMA AroundTyped ==
  ASSUME TrainsTyped, \/ MainMoves \/ (\E pr \in prs : Merge(pr))
                      \/ (\E survives \in BOOLEAN : Crash(survives))
  PROVE  TrainsTyped'
<1>1. ASSUME MainMoves PROVE TrainsTyped'
  BY <1>1, BoundsAssumption DEF MainMoves, Unmoved, TrainsTyped, evidence, chain, world
<1>2. ASSUME NEW pr \in prs, Merge(pr) PROVE TrainsTyped'
  <2>1. main' \in 1..MaxMain /\ main' \in 0..MaxMain
    BY <1>2, BoundsAssumption DEF Merge, TrainsTyped
  <2>2. pr.cards \subseteq Cards
    BY DEF TrainsTyped
  <2>3. merged' \subseteq Cards \X (1..MaxMain)
    BY <1>2, <2>1, <2>2 DEF Merge, TrainsTyped
  <2>4. prs' \subseteq [train : Trains, cards : SUBSET Cards]
    BY <1>2 DEF Merge, TrainsTyped
  <2> QED BY <1>2, <2>1, <2>3, <2>4 DEF Merge, Unmoved, TrainsTyped, evidence, chain, world
<1>3. ASSUME NEW survives \in BOOLEAN, Crash(survives) PROVE TrainsTyped'
  <2>1. log' \in Logs
    <3>1. CASE log' = log
      BY <3>1 DEF TrainsTyped
    <3>2. ASSUME NEW b \in InFlight, NEW c \in Cuts(b.batch), log' = log \o c PROVE log' \in Logs
      <4>1. b.batch \in Batches
        BY InFlightTyped
      <4>2. <<TornLine>> \in Logs
        BY DEF Logs
      <4>3. c \in Logs
        BY <4>1, <4>2, CutBatch DEF Cuts
      <4> QED BY <3>2, <4>3, Grown DEF TrainsTyped
    <3> QED BY <1>3, <3>1, <3>2 DEF Crash
  <2>2. job' \in Works
    BY <1>3 DEF Crash, TrainsTyped, Works, Idle
  <2>3. torn' \in BOOLEAN
    BY <1>3 DEF Crash, TrainsTyped, WritingRegistry
  <2>4. crashes' \in 0..MaxCrashes
    BY <1>3, BoundsAssumption DEF Crash, TrainsTyped
  <2>5. /\ Idle \in Deciding /\ Idle \in Viewing /\ Idle \in Stoppers /\ Idle.pc # "write"
    BY DEF Deciding, Viewing, Stoppers, Idle
  <2> QED BY <1>3, <2>1, <2>2, <2>3, <2>4, <2>5 DEF Crash, TrainsTyped, remote
<1> QED BY <1>1, <1>2, <1>3

LEMMA TypedNext ==
  ASSUME TrainsTyped, [Next]_vars
  PROVE  TrainsTyped'
<1>1. CASE UNCHANGED vars
  BY <1>1 DEF vars, TrainsTyped
<1>2. ASSUME OpNext PROVE TrainsTyped'
  BY <1>2, SealTyped, SignTyped, AdmitTyped, PrepareTyped, OpWriteTyped DEF OpNext
<1> QED BY <1>1, <1>2, DecideTyped, ViewTyped, StopperTyped, JobTyped, AroundTyped DEF Next

-----------------------------------------------------------------------------
(* Who writes what *)

\* The slot of repository operations is for one; what is written is a stop or a decision,
\* but for the lines of a seal, which come when no train runs and with their evidence.
SlotInv == op # Idle => job = Idle
CalmInv ==
  /\ \A b \in {decide, view, stopper, job} : b.pc = "write" => Calm(b.batch)
  /\ op.pc = "write" /\ op.next # "sealed" => Calm(op.batch)
SealShape ==
  op.pc # "idle" /\ op.kind = "seal" =>
    /\ op.pc = "observe" => op.next = "observe"
    /\ op.pc = "stamp" \/ op.next = "sealed" =>
         op.running = {} /\ registry[op.train] # None /\ registry[op.train].cards = op.cards
    /\ op.pc = "write" /\ op.next = "sealed" => SealLines(op.batch, op.train, op.cards)
ActInv == SlotInv /\ CalmInv /\ SealShape

LEMMA InitAct == Init => ActInv
BY DEF Init, ActInv, SlotInv, CalmInv, SealShape, Idle

LEMMA OthersAct ==
  ASSUME TrainsTyped, ActInv, UNCHANGED <<op, job, registry>>,
         \A b \in {decide', view', stopper'} : b.pc = "write" => Calm(b.batch)
  PROVE  ActInv'
BY DEF ActInv, SlotInv, CalmInv, SealShape

LEMMA AsideAct ==
  ASSUME TrainsTyped, ActInv,
         \/ \E c \in Cards, d \in Decisions : DecideDerive(c, d)
         \/ DecideStamp \/ DecideWrite
         \/ \E t \in Trains : ViewDerive(t)
         \/ ViewObserve \/ ViewWrite
         \/ \E s \in stops : StopperStamp(s)
         \/ StopperWrite
  PROVE  ActInv'
<1> USE DEF evidence, Idle
<1>1. ASSUME NEW c \in Cards, NEW d \in Decisions, DecideDerive(c, d) PROVE ActInv'
  BY <1>1, OthersAct DEF DecideDerive, ActInv, CalmInv
<1>2. ASSUME DecideStamp PROVE ActInv'
  <2>1. decide.card \in Cards /\ decide.decision \in Decisions
    BY <1>2 DEF DecideStamp, Deciding, TrainsTyped
  <2> DEFINE fresh == OfCard(log, "card-drafted", decide.card) = {}
             b == (IF fresh THEN <<Drafted(decide.card, Stamp)>> ELSE <<>>)
                  \o <<Decided(decide.card, decide.decision, Stamp)>>
  <2>2. Calm(b)
    BY <2>1, DecideBatch
  <2>3. decide' = IF Readable(log \o b) THEN [pc |-> "write", batch |-> b] ELSE Idle
    BY <1>2 DEF DecideStamp
  <2>4. UNCHANGED <<op, job, registry, view, stopper>>
    BY <1>2 DEF DecideStamp
  <2> HIDE DEF b
  <2> QED BY <2>2, <2>3, <2>4, OthersAct DEF ActInv, CalmInv
<1>3. ASSUME DecideWrite PROVE ActInv'
  BY <1>3, OthersAct DEF DecideWrite, ActInv, CalmInv
<1>4. ASSUME NEW t \in Trains, ViewDerive(t) PROVE ActInv'
  BY <1>4, OthersAct DEF ViewDerive, ActInv, CalmInv
<1>5. ASSUME ViewObserve PROVE ActInv'
  <2>1. view.train \in Trains
    BY <1>5 DEF ViewObserve, Viewing, TrainsTyped
  <2>2. Calm(StopLine(view.train, "main-moved", "none"))
    BY <2>1, StopBatch DEF Reasons, Pins
  <2>3. view' = Idle \/ view' = [pc |-> "write", batch |-> StopLine(view.train, "main-moved", "none")]
    BY <1>5 DEF ViewObserve
  <2>4. UNCHANGED <<op, job, registry, decide, stopper>>
    BY <1>5 DEF ViewObserve
  <2> QED BY <2>2, <2>3, <2>4, OthersAct DEF ActInv, CalmInv
<1>6. ASSUME ViewWrite PROVE ActInv'
  BY <1>6, OthersAct DEF ViewWrite, ActInv, CalmInv
<1>7. ASSUME NEW s \in stops, StopperStamp(s) PROVE ActInv'
  <2>1. s.train \in Trains /\ s.reason \in Reasons
    BY DEF TrainsTyped
  <2>2. Calm(StopLine(s.train, s.reason, "none"))
    BY <2>1, StopBatch DEF Pins
  <2>3. stopper' = Idle \/ stopper' = [pc |-> "write", batch |-> StopLine(s.train, s.reason, "none")]
    BY <1>7 DEF StopperStamp
  <2>4. UNCHANGED <<op, job, registry, decide, view>>
    BY <1>7 DEF StopperStamp
  <2> QED BY <2>2, <2>3, <2>4, OthersAct DEF ActInv, CalmInv
<1>8. ASSUME StopperWrite PROVE ActInv'
  BY <1>8, OthersAct DEF StopperWrite, ActInv, CalmInv
<1> QED BY <1>1, <1>2, <1>3, <1>4, <1>5, <1>6, <1>7, <1>8

\* A request begins when nothing holds the slot, and goes on while nothing else does.
LEMMA OpAct ==
  ASSUME TrainsTyped, ActInv, OpNext
  PROVE  ActInv'
<1>1. op # Idle \/ RepositoryFree
  <2> SUFFICES op.pc # "idle" \/ RepositoryFree
    BY DEF Idle
  <2>1. SealDerive => RepositoryFree
    BY DEF SealDerive
  <2>2. \A t \in Trains : SignDerive(t) \/ AdmitRequest(t) \/ PrepareRequest(t) => RepositoryFree
    BY DEF SignDerive, AdmitRequest, PrepareRequest
  <2>3. SealRegister \/ SealStamp \/ (\E t \in Trains : SealObserve(t)) => op.pc # "idle"
    BY DEF SealRegister, SealStamp, SealObserve
  <2>4. SignObserve \/ SignReview \/ OpWrite => op.pc # "idle"
    BY DEF SignObserve, SignReview, OpWrite
  <2>5. (\E passes \in BOOLEAN : Admit(passes)) \/ (\E outcome \in Outcomes : Prepare(outcome))
          => op.pc # "idle"
    BY DEF Admit, Prepare
  <2> QED BY <2>1, <2>2, <2>3, <2>4, <2>5 DEF OpNext
<1>2. job = Idle /\ job' = Idle
  <2>1. job = Idle
    BY <1>1 DEF RepositoryFree, TrainsTyped, Works, ActInv, SlotInv
  <2>2. OpStep
    BY DEF OpNext, SealDerive, SealRegister, SealStamp, SealObserve, SignDerive, AdmitRequest,
           PrepareRequest, SignObserve, SignReview, Admit, Prepare, OpWrite, OpEnds, OpFails, OpQuiet
  <2> QED BY <2>1, <2>2 DEF OpStep
<1>3. UNCHANGED <<decide, view, stopper, job>>
  BY DEF OpNext, SealDerive, SealRegister, SealStamp, SealObserve, SignDerive, AdmitRequest,
         PrepareRequest, SignObserve, SignReview, Admit, Prepare, OpWrite, OpEnds, OpFails, OpQuiet, OpStep
<1>4. ASSUME op'.pc # "write", op' = Idle \/ op'.kind # "seal" PROVE ActInv'
  <2>1. \A b \in {decide', view', stopper', job'} : b.pc = "write" => Calm(b.batch)
    BY <1>3 DEF ActInv, CalmInv
  <2>2. SlotInv' /\ CalmInv'
    BY <1>2, <1>4, <2>1 DEF SlotInv, CalmInv
  <2>3. SealShape'
    BY <1>4 DEF SealShape, Idle
  <2> QED BY <2>2, <2>3 DEF ActInv
<1>5. ASSUME op'.kind = "seal", op'.pc # "write", SealShape' PROVE ActInv'
  BY <1>2, <1>3, <1>5 DEF ActInv, SlotInv, CalmInv
<1>6. ASSUME SealShape', Calm(op'.batch) PROVE ActInv'
  BY <1>2, <1>3, <1>6 DEF ActInv, SlotInv, CalmInv
<1>7. CASE op' = Idle
  BY <1>4, <1>7 DEF Idle
<1>8. ASSUME SealDerive PROVE ActInv'
  <2>1. op'.kind = "seal" /\ op'.pc = "observe" /\ op'.next = "observe"
    BY <1>8 DEF SealDerive
  <2> QED BY <1>5, <2>1 DEF SealShape
<1>9. ASSUME SealRegister, op' # Idle PROVE ActInv'
  <2>1. /\ op.pc = "observe" /\ op.kind = "seal" /\ op.running = {}
        /\ registry' = [registry EXCEPT ![op.train] = NewEntry(op.cards, main)]
        /\ op' = [op EXCEPT !.pc = "stamp"]
    BY <1>9 DEF SealRegister, OpEnds
  <2>2. op \in Seals
    BY <2>1, OpIsSeal
  <2>3. op'.kind = "seal" /\ op'.pc = "stamp" /\ op'.running = {} /\ op'.train = op.train
        /\ op'.cards = op.cards
    BY <2>1, <2>2 DEF Seals
  <2>4. registry'[op.train] = NewEntry(op.cards, main)
    BY <2>1, <2>2 DEF Seals, TrainsTyped
  <2>5. registry'[op'.train] # None /\ registry'[op'.train].cards = op'.cards
    BY <2>3, <2>4 DEF NewEntry, None
  <2> QED BY <1>5, <2>3, <2>5 DEF SealShape
<1>10. ASSUME SealStamp, op' # Idle PROVE ActInv'
  <2>1. op \in Seals /\ op.pc = "stamp" /\ UNCHANGED registry
    BY <1>10 DEF SealStamp, OpQuiet, evidence, TrainsTyped, Idle, Signs
  <2> DEFINE new == {c \in op.cards : OfCard(log, "card-drafted", c) = {}}
             b == Distinct(new, Stamp) \o <<Opened(op.train, FlavorFor(op.cards), Stamp),
                                            Sealed(op.train, op.cards, Stamp)>>
  <2>2. SealLines(b, op.train, op.cards)
    <3>1. op.train \in Trains /\ op.cards \in SUBSET Cards /\ new \in SUBSET Cards
      BY <2>1 DEF Seals
    <3> HIDE DEF new
    <3> QED BY <3>1, SealBatch
  <2>3. op' = [op EXCEPT !.pc = "write", !.batch = b, !.next = "sealed"]
    BY <1>10 DEF SealStamp
  <2> HIDE DEF b
  <2>4. /\ op'.kind = "seal" /\ op'.pc = "write" /\ op'.next = "sealed" /\ op'.batch = b
        /\ op'.running = op.running /\ op'.train = op.train /\ op'.cards = op.cards
    BY <2>1, <2>3 DEF Seals
  <2>5. op.running = {} /\ registry[op.train] # None /\ registry[op.train].cards = op.cards
    BY <2>1 DEF ActInv, SealShape, Seals
  <2>6. SealShape'
    BY <2>1, <2>2, <2>4, <2>5 DEF SealShape
  <2> QED BY <1>2, <1>3, <2>4, <2>6 DEF ActInv, SlotInv, CalmInv
<1>11. ASSUME NEW t \in Trains, SealObserve(t), op' # Idle PROVE ActInv'
  <2>1. /\ op \in Seals /\ op.pc = "observe" /\ op.next = "observe"
    BY <1>11, OpIsSeal DEF SealObserve, ActInv, SealShape
  <2>2. op' = IF Stopping(t) = <<>>
                THEN [op EXCEPT !.running = @ \ {t}]
                ELSE [op EXCEPT !.running = @ \ {t}, !.pc = "write", !.batch = Stopping(t)[1]]
    BY <1>11 DEF SealObserve, OpEnds
  <2>3. CASE Stopping(t) = <<>>
    <3>1. op'.kind = "seal" /\ op'.pc = "observe" /\ op'.next = "observe"
      BY <2>1, <2>2, <2>3 DEF Seals
    <3> QED BY <1>5, <3>1 DEF SealShape
  <2>4. CASE Stopping(t) # <<>>
    <3>1. op'.kind = "seal" /\ op'.pc = "write" /\ op'.next = "observe" /\ op'.batch = Stopping(t)[1]
      BY <2>1, <2>2, <2>4 DEF Seals
    <3>2. Calm(op'.batch)
      BY <2>4, <3>1, StoppingIs
    <3> QED BY <1>6, <3>1, <3>2 DEF SealShape
  <2> QED BY <2>3, <2>4
<1>12. ASSUME NEW t \in Trains, SignDerive(t) \/ AdmitRequest(t) \/ PrepareRequest(t) PROVE ActInv'
  <2>1. op'.pc # "write" /\ op'.kind # "seal"
    BY <1>12 DEF SignDerive, AdmitRequest, PrepareRequest, Start
  <2> QED BY <1>4, <2>1
<1>13. ASSUME SignObserve, op' # Idle PROVE ActInv'
  <2>1. op \in Signs /\ op.train \in Trains
    BY <1>13, OpIsSign DEF SignObserve, Signs
  <2>2. CASE op' = [op EXCEPT !.pc = IF FlavorOf(log, op.train) = "data" THEN "review" ELSE "admit"]
    <3>1. op'.pc # "write" /\ op'.kind # "seal"
      BY <2>1, <2>2 DEF Signs
    <3> QED BY <1>4, <3>1
  <2>3. CASE /\ Stopping(op.train) # <<>>
             /\ op' = [op EXCEPT !.pc = "write", !.batch = Stopping(op.train)[1]]
    <3>1. op'.kind # "seal" /\ op'.batch = Stopping(op.train)[1]
      BY <2>1, <2>3 DEF Signs
    <3>2. Calm(op'.batch)
      BY <2>1, <2>3, <3>1, StoppingIs
    <3> QED BY <1>6, <3>1, <3>2 DEF SealShape
  <2> QED BY <1>13, <2>2, <2>3 DEF SignObserve, OpEnds
<1>14. ASSUME SignReview, op' # Idle PROVE ActInv'
  <2>1. op \in Signs /\ op' = [op EXCEPT !.pc = "admit"]
    BY <1>14, OpIsSign DEF SignReview, OpEnds
  <2>2. op'.pc # "write" /\ op'.kind # "seal"
    BY <2>1 DEF Signs
  <2> QED BY <1>4, <2>2
<1>15. ASSUME NEW passes \in BOOLEAN, Admit(passes), op' # Idle PROVE ActInv'
  <2>1. op \in Signs /\ op' = [op EXCEPT !.pc = "prepare"]
    BY <1>15, OpIsSign DEF Admit, OpEnds, OpFails
  <2>2. op'.pc # "write" /\ op'.kind # "seal"
    BY <2>1 DEF Signs
  <2> QED BY <1>4, <2>2
<1>16. ASSUME NEW outcome \in Outcomes, Prepare(outcome), op' # Idle PROVE ActInv'
  <2>1. op' = Start("report", "look", op.train)
    BY <1>16 DEF Prepare, OpEnds, OpFails
  <2>2. op'.pc # "write" /\ op'.kind # "seal"
    BY <2>1 DEF Start
  <2> QED BY <1>4, <2>2
<1>17. ASSUME OpWrite, op' # Idle PROVE ActInv'
  <2>1. op.next = "observe" /\ op' = [op EXCEPT !.pc = "observe", !.batch = <<>>]
    BY <1>17 DEF OpWrite
  <2>2. op \in Seals
    BY <1>17, <2>1 DEF OpWrite, TrainsTyped, Idle, Signs
  <2>3. op'.kind = "seal" /\ op'.pc = "observe" /\ op'.next = "observe"
    BY <2>1, <2>2 DEF Seals
  <2> QED BY <1>5, <2>3 DEF SealShape
<1> QED BY <1>7, <1>8, <1>9, <1>10, <1>11, <1>12, <1>13, <1>14, <1>15, <1>16, <1>17 DEF OpNext

LEMMA JobAct ==
  ASSUME TrainsTyped, ActInv, JobNext
  PROVE  ActInv'
<1>1. job # Idle \/ RepositoryFree \/ (Advance /\ job' = job)
  <2> SUFFICES job.pc # "idle" \/ RepositoryFree \/ (Advance /\ job' = job)
    BY DEF Idle
  <2>1. JobLocate \/ JobBuild \/ JobMeasure \/ (\E admits \in BOOLEAN : JobGauntlet(admits)) => job.pc # "idle"
    BY DEF JobLocate, JobBuild, JobMeasure, JobGauntlet
  <2>2. JobRegen \/ JobStamp \/ JobWrite \/ JobFails => job.pc # "idle"
    BY DEF JobRegen, JobStamp, JobWrite, JobFails
  <2>3. Advance => RepositoryFree \/ (Advance /\ job' = job)
    BY DEF Advance
  <2>4. (\E i \in 1..Len(Stages) : JobRequest(i)) => RepositoryFree
    BY DEF JobRequest
  <2> QED BY <2>1, <2>2, <2>3, <2>4 DEF JobNext, JobWorks
<1>2. UNCHANGED <<decide, view, op, stopper>>
  BY DEF JobNext, JobWorks, JobLocate, JobBuild, JobMeasure, JobGauntlet, JobRegen, JobStamp,
         JobWrite, JobFails, Advance, JobRequest, JobEnds, JobQuiet, Record, JobStep
<1>3. CASE Advance /\ job' = job
  <2>1. UNCHANGED registry
    BY <1>3 DEF Advance, evidence
  <2> QED BY <1>2, <1>3, <2>1 DEF ActInv, SlotInv, CalmInv, SealShape
<1>4. CASE job # Idle \/ RepositoryFree
  <2>1. op = Idle /\ op' = Idle
    BY <1>2, <1>4 DEF RepositoryFree, ActInv, SlotInv, TrainsTyped, Seals, Signs, Idle
  <2>2. job'.pc = "write" => Calm(job'.batch)
    <3>1. CASE JobStamp /\ job'.pc = "write"
      <4>1. job' = [pc |-> "write", stage |-> job.stage, chained |-> job.chained, batch |-> JobStop]
        BY <3>1 DEF JobStamp, JobEnds, JobResult, Stage, Idle
      <4>2. job.train \in Trains
        BY <3>1, JobWorking DEF JobStamp
      <4>3. Calm(JobStop)
        BY <4>2, StopBatch DEF JobStop, Reasons, Pins
      <4> QED BY <4>1, <4>3
    <3>2. ASSUME NEW passed \in BOOLEAN, JobResult(passed) PROVE job'.pc # "write"
      BY <3>2 DEF JobResult, Stage, Idle
    <3>3. ASSUME JobLocate PROVE job'.pc # "write"
      <4>1. JobEnds(TRUE) \/ JobEnds(FALSE) \/ job'.pc = "work"
        <5> SUFFICES ASSUME ~JobEnds(TRUE), ~JobEnds(FALSE) PROVE job'.pc = "work"
          OBVIOUS
        <5>1. job' = [pc |-> "work", stage |-> job.stage, chained |-> job.chained,
                      train |-> Max(DataTrains), entry |-> registry[Max(DataTrains)]]
          BY <3>3, LocateIs
        <5> QED BY <5>1
      <4>2. \A passed \in BOOLEAN : JobEnds(passed) => job'.pc # "write"
        BY <3>2 DEF JobEnds
      <4> QED BY <4>1, <4>2
    <3>4. ASSUME JobMeasure PROVE job'.pc # "write"
      <4>1. job \in [pc : {"work", "regen", "stamp"}, stage : 1..3, chained : BOOLEAN,
                     train : Trains, entry : Entry]
        BY <3>4, JobWorking DEF JobMeasure
      <4>2. (\E passed \in BOOLEAN : JobResult(passed)) \/ job' = [job EXCEPT !.pc = "stamp"]
        BY <3>4 DEF JobMeasure
      <4> QED BY <3>2, <4>1, <4>2
    <3>5. ASSUME NEW admits \in BOOLEAN, JobGauntlet(admits) PROVE job'.pc # "write"
      <4>1. job \in [pc : {"work", "regen", "stamp"}, stage : 1..3, chained : BOOLEAN,
                     train : Trains, entry : Entry]
        BY <3>5, JobWorking DEF JobGauntlet
      <4> QED BY <3>5, <4>1 DEF JobGauntlet
    <3>6. ASSUME JobBuild \/ JobRegen \/ JobWrite \/ JobFails PROVE job'.pc # "write"
      BY <3>2, <3>6 DEF JobBuild, JobRegen, JobWrite, JobFails, JobEnds
    <3>7. ASSUME Advance \/ \E i \in 1..Len(Stages) : JobRequest(i)
          PROVE  job'.pc = "write" => Calm(job'.batch)
      BY <3>7 DEF Advance, JobRequest, Stage, ActInv, CalmInv
    <3> QED BY <3>1, <3>3, <3>4, <3>5, <3>6, <3>7 DEF JobNext, JobWorks
  <2> QED BY <1>2, <2>1, <2>2 DEF ActInv, SlotInv, CalmInv, SealShape, Idle
<1> QED BY <1>1, <1>3, <1>4

LEMMA AroundAct ==
  ASSUME TrainsTyped, ActInv, \/ MainMoves \/ (\E pr \in prs : Merge(pr))
                              \/ (\E survives \in BOOLEAN : Crash(survives))
  PROVE  ActInv'
<1>1. ASSUME MainMoves \/ \E pr \in prs : Merge(pr) PROVE ActInv'
  BY <1>1, OthersAct DEF MainMoves, Merge, Unmoved, evidence, ActInv, CalmInv
<1>2. ASSUME NEW survives \in BOOLEAN, Crash(survives) PROVE ActInv'
  <2>1. job'.pc = "write" => Calm(job'.batch)
    BY <1>2 DEF Crash, TrainsTyped, Works, Idle, ActInv, CalmInv
  <2> QED BY <1>2, <2>1 DEF Crash, ActInv, SlotInv, CalmInv, SealShape, Idle
<1> QED BY <1>1, <1>2

LEMMA ActNext ==
  ASSUME TrainsTyped, ActInv, [Next]_vars
  PROVE  ActInv'
<1>1. CASE UNCHANGED vars
  BY <1>1 DEF vars, ActInv, SlotInv, CalmInv, SealShape
<1> QED BY <1>1, AsideAct, OpAct, JobAct, AroundAct DEF Next

-----------------------------------------------------------------------------
(* What the evidence says *)

\* A stage that works has read the entry as it is, with the evidence before its own.
JobInv ==
  job.pc \in {"work", "regen"} =>
    /\ registry[job.train] = job.entry
    /\ job.pc = "work" /\ job.stage = 1 => ~job.entry.candidate
    /\ job.pc = "work" /\ job.stage = 2 => job.entry.candidate /\ job.entry.comparison = "none"
    /\ job.pc = "regen" \/ job.stage = 3 => job.entry.candidate /\ job.entry.comparison # "none"

\* An entry is in stage order, and says that there is an effect only if there is one.
Sound(e) == InStageOrder(e) /\ (e.comparison = "effect" => e.cards \cap effective # {})
EntriesInv == \A t \in Trains : registry[t] # None => Sound(registry[t])

\* What is admitted, and what is out for review, has an effect if it is data.
HasEffect(cs) == cs \cap DataCards # {} => cs \cap effective # {}
OutInv == /\ \A a \in admitted : HasEffect(a.cards)
          /\ \A pr \in prs : HasEffect(pr.cards)
EvidenceInv == JobInv /\ EntriesInv /\ OutInv

LEMMA InitEvidence == Init => EvidenceInv
BY DEF Init, EvidenceInv, JobInv, EntriesInv, OutInv, Idle, None

LEMMA EvidenceFrame ==
  ASSUME EvidenceInv, UNCHANGED <<registry, job, effective, admitted>>, prs' \subseteq prs
  PROVE  EvidenceInv'
BY DEF EvidenceInv, JobInv, EntriesInv, OutInv, Sound, HasEffect

LEMMA AsideEvidence ==
  ASSUME EvidenceInv,
         \/ \E c \in Cards, d \in Decisions : DecideDerive(c, d)
         \/ DecideStamp \/ DecideWrite
         \/ \E t \in Trains : ViewDerive(t)
         \/ ViewObserve \/ ViewWrite
         \/ \E s \in stops : StopperStamp(s)
         \/ StopperWrite \/ MainMoves \/ \E pr \in prs : Merge(pr)
  PROVE  EvidenceInv'
<1>1. UNCHANGED <<registry, job, effective, admitted>>
  BY DEF DecideDerive, DecideStamp, DecideWrite, ViewDerive, ViewObserve, ViewWrite,
         StopperStamp, StopperWrite, MainMoves, Merge, Unmoved, evidence, world
<1>2. prs' \subseteq prs
  BY DEF DecideDerive, DecideStamp, DecideWrite, ViewDerive, ViewObserve, ViewWrite,
         StopperStamp, StopperWrite, MainMoves, Merge, Unmoved, remote
<1> QED BY <1>1, <1>2, EvidenceFrame

LEMMA OpEvidence ==
  ASSUME TrainsTyped, ActInv, EvidenceInv, OpNext
  PROVE  EvidenceInv'
<1>1. OpStep
  BY DEF OpNext, SealDerive, SealRegister, SealStamp, SealObserve, SignDerive, AdmitRequest,
         PrepareRequest, SignObserve, SignReview, Admit, Prepare, OpWrite, OpEnds, OpFails, OpQuiet
<1>2. UNCHANGED <<job, effective>>
  BY <1>1 DEF OpStep, world
<1>3. CASE UNCHANGED <<registry, admitted, prs>>
  BY <1>2, <1>3, EvidenceFrame
<1>4. ASSUME op # Idle PROVE job = Idle /\ job' = Idle /\ JobInv'
  BY <1>2, <1>4 DEF ActInv, SlotInv, JobInv, Idle
<1>5. ASSUME SealRegister, ~(UNCHANGED <<registry, admitted, prs>>) PROVE EvidenceInv'
  <2>1. /\ registry' = [registry EXCEPT ![op.train] = NewEntry(op.cards, main)]
        /\ UNCHANGED <<admitted, prs>> /\ op.pc = "observe"
    BY <1>5 DEF SealRegister, OpEnds, OpQuiet, evidence, remote
  <2>2. Sound(NewEntry(op.cards, main))
    BY DEF Sound, InStageOrder, NewEntry
  <2>3. \A t \in Trains : registry'[t] # None => Sound(registry'[t])
    BY <2>1, <2>2 DEF EvidenceInv, EntriesInv, TrainsTyped
  <2>4. EntriesInv' /\ OutInv'
    BY <1>2, <2>1, <2>3 DEF EvidenceInv, EntriesInv, OutInv, Sound, HasEffect
  <2> QED BY <1>4, <2>1, <2>4 DEF EvidenceInv, Idle
<1>6. ASSUME SignReview, ~(UNCHANGED <<registry, admitted, prs>>) PROVE EvidenceInv'
  <2>1. /\ registry' = [registry EXCEPT ![op.train].reviewed = TRUE]
        /\ UNCHANGED <<admitted, prs>> /\ op.pc = "review" /\ registry[op.train] # None
    BY <1>6 DEF SignReview, OpEnds, OpQuiet, evidence, remote
  <2>2. op.train \in Trains
    BY <2>1, OpIsSign DEF Signs
  <2>3. registry[op.train] \in Entry /\ Sound(registry[op.train])
    BY <2>1, <2>2 DEF TrainsTyped, EvidenceInv, EntriesInv
  <2> DEFINE e == [registry[op.train] EXCEPT !.reviewed = TRUE]
  <2>4. Sound(e)
    BY <2>3 DEF Sound, InStageOrder, Entry
  <2>5. registry' = [registry EXCEPT ![op.train] = e]
    BY <2>1
  <2> HIDE DEF e
  <2>6. \A t \in Trains : registry'[t] # None => Sound(registry'[t])
    BY <2>4, <2>5 DEF EvidenceInv, EntriesInv, TrainsTyped
  <2>7. EntriesInv' /\ OutInv'
    BY <1>2, <2>1, <2>6 DEF EvidenceInv, EntriesInv, OutInv, Sound, HasEffect
  <2> QED BY <1>4, <2>1, <2>7 DEF EvidenceInv, Idle
<1>7. ASSUME NEW passes \in BOOLEAN, Admit(passes), ~(UNCHANGED <<registry, admitted, prs>>)
      PROVE  EvidenceInv'
  <2> DEFINE t == op.train
             e == registry[t]
  <2>1. op \in Signs /\ t \in Trains /\ op.pc = "admit"
    BY <1>7, OpIsSign DEF Admit, Signs
  <2>2. /\ admitted' = admitted \cup {[train |-> t, cards |-> e.cards, base |-> e.base]}
        /\ UNCHANGED <<registry, prs>> /\ e # None
        /\ ~(IsData(e) /\ ~Measured(e)) /\ ~(IsData(e) /\ e.comparison = "noeffect")
    BY <1>7 DEF Admit, OpEnds, OpFails, OpQuiet, evidence, remote
  <2>3. e \in Entry /\ Sound(e)
    BY <2>1, <2>2 DEF TrainsTyped, EvidenceInv, EntriesInv
  <2>4. HasEffect(e.cards)
    <3> SUFFICES ASSUME e.cards \cap DataCards # {} PROVE e.cards \cap effective # {}
      BY DEF HasEffect
    <3>1. IsData(e)
      BY DEF IsData, FlavorFor
    <3>2. e.comparison = "effect"
      BY <2>2, <2>3, <3>1 DEF Measured, Entry
    <3> QED BY <2>3, <3>2 DEF Sound
  <2> HIDE DEF e, t
  <2>5. \A a \in admitted' : HasEffect(a.cards)
    BY <2>2, <2>4 DEF EvidenceInv, OutInv
  <2>6. EntriesInv' /\ OutInv'
    BY <1>2, <2>2, <2>5 DEF EvidenceInv, EntriesInv, OutInv, Sound, HasEffect
  <2> QED BY <1>4, <2>1, <2>6 DEF EvidenceInv, Idle
<1>8. ASSUME NEW outcome \in Outcomes, Prepare(outcome), ~(UNCHANGED <<registry, admitted, prs>>)
      PROVE  EvidenceInv'
  <2> DEFINE pr == [train |-> op.train, cards |-> registry[op.train].cards]
  <2>1. /\ prs' \in {prs, prs \cup {pr}} /\ UNCHANGED <<registry, admitted>>
        /\ AdmissionsOf(op.train) # {} /\ op.pc = "prepare"
    BY <1>8 DEF Prepare, OpEnds, OpFails, OpQuiet, evidence, remote
  <2>2. PICK a \in admitted : a.cards = registry[op.train].cards
    BY <2>1 DEF AdmissionsOf
  <2>3. HasEffect(pr.cards)
    BY <2>2 DEF EvidenceInv, OutInv
  <2> HIDE DEF pr
  <2>4. \A p \in prs' : HasEffect(p.cards)
    BY <2>1, <2>3 DEF EvidenceInv, OutInv
  <2>5. EntriesInv' /\ OutInv'
    BY <1>2, <2>1, <2>4 DEF EvidenceInv, EntriesInv, OutInv, Sound, HasEffect
  <2> QED BY <1>4, <2>1, <2>5 DEF EvidenceInv, Idle
<1>9. ASSUME \/ SealDerive \/ SealStamp \/ OpWrite \/ SignObserve
             \/ \E t \in Trains : SealObserve(t) \/ SignDerive(t) \/ AdmitRequest(t) \/ PrepareRequest(t)
      PROVE  UNCHANGED <<registry, admitted, prs>>
  BY <1>9 DEF SealDerive, SealStamp, OpWrite, SignObserve, SealObserve, SignDerive, AdmitRequest,
              PrepareRequest, OpEnds, OpQuiet, evidence, remote
<1> QED BY <1>3, <1>5, <1>6, <1>7, <1>8, <1>9 DEF OpNext

\* What a stage records keeps what was recorded before it.
LEMMA Recorded ==
  ASSUME TrainsTyped, EvidenceInv, job.pc \in {"work", "regen"}, NEW e \in Entry, Record(e), Sound(e),
         job'.pc \notin {"work", "regen"}
  PROVE  EvidenceInv'
<1>1. /\ registry' = [registry EXCEPT ![job.train] = e] /\ UNCHANGED <<admitted, prs, effective>>
  BY DEF Record, JobStep, remote, world
<1>2. \A t \in Trains : registry'[t] # None => Sound(registry'[t])
  BY <1>1 DEF EvidenceInv, EntriesInv, TrainsTyped
<1>3. EntriesInv' /\ OutInv' /\ JobInv'
  BY <1>1, <1>2 DEF EvidenceInv, EntriesInv, OutInv, Sound, HasEffect, JobInv
<1> QED BY <1>3 DEF EvidenceInv

LEMMA ResultPc ==
  ASSUME NEW passed, JobResult(passed)
  PROVE  job'.pc \in {"locate", "idle"}
BY DEF JobResult, Stage, Idle

\* What the three stages record.
LEMMA Records ==
  ASSUME TrainsTyped, EvidenceInv, job.pc \in {"work", "regen"}
  PROVE  /\ job.entry \in Entry /\ Sound(job.entry)
         /\ job.pc = "work" /\ job.stage = 1 =>
              LET e == [job.entry EXCEPT !.candidate = TRUE]
              IN  e \in Entry /\ Sound(e) /\ Kept(job.entry, e)
         /\ job.pc = "work" /\ job.stage = 2 =>
              /\ LET e == [job.entry EXCEPT !.comparison = "noeffect"]
                 IN  e \in Entry /\ Sound(e) /\ Kept(job.entry, e)
              /\ job.entry.cards \cap effective # {} =>
                   LET e == [job.entry EXCEPT !.comparison = "effect"]
                   IN  e \in Entry /\ Sound(e) /\ Kept(job.entry, e)
         /\ job.pc = "regen" =>
              LET e == [job.entry EXCEPT !.gauntlet = TRUE]
              IN  e \in Entry /\ Sound(e) /\ Kept(job.entry, e)
<1>1. job.entry \in Entry /\ job.train \in Trains
  BY JobWorking
<1>2. job.entry # None
  BY <1>1 DEF Entry, None
<1>3. Sound(job.entry)
  BY <1>1, <1>2 DEF EvidenceInv, JobInv, EntriesInv
<1>4. JobInv
  BY DEF EvidenceInv
<1> QED BY <1>1, <1>3, <1>4 DEF Entry, Sound, InStageOrder, Kept, JobInv

LEMMA JobEvidence ==
  ASSUME TrainsTyped, ActInv, EvidenceInv, JobNext
  PROVE  EvidenceInv'
<1>1. ASSUME UNCHANGED <<registry, admitted, prs, effective>>, job'.pc \notin {"work", "regen"}
      PROVE  EvidenceInv'
  BY <1>1 DEF EvidenceInv, JobInv, EntriesInv, OutInv, Sound, HasEffect
<1>2. ASSUME NEW passed \in BOOLEAN, JobEnds(passed) PROVE EvidenceInv'
  BY <1>1, <1>2, ResultPc DEF JobEnds, JobQuiet, JobStep, evidence, remote, world
<1>3. ASSUME JobLocate PROVE EvidenceInv'
  <2> SUFFICES ASSUME ~JobEnds(TRUE), ~JobEnds(FALSE) PROVE EvidenceInv'
    BY <1>2
  <2> DEFINE t == Max(DataTrains)
             e == registry[t]
  <2>1. /\ job.stage = 1 => ~e.candidate
        /\ job.stage = 2 => e.candidate /\ e.comparison = "none"
        /\ job.stage = 3 => e.candidate /\ e.comparison # "none"
        /\ job' = [pc |-> "work", stage |-> job.stage, chained |-> job.chained,
                   train |-> t, entry |-> e]
        /\ JobQuiet
    BY <1>3, LocateIs
  <2>2. UNCHANGED <<registry, admitted, prs, effective>>
    BY <2>1 DEF JobQuiet, JobStep, evidence, remote, world
  <2> HIDE DEF t
  <2>3. JobInv'
    BY <2>1, <2>2 DEF JobInv
  <2> QED BY <2>2, <2>3 DEF EvidenceInv, EntriesInv, OutInv, Sound, HasEffect
<1>4. ASSUME JobBuild PROVE EvidenceInv'
  <2>1. job.pc = "work" /\ job.stage = 1
    BY <1>4, StagesAre, JobWorking DEF JobBuild
  <2>2. job'.pc \notin {"work", "regen"}
    BY <1>4, ResultPc DEF JobBuild
  <2> QED BY <1>4, <2>1, <2>2, Records, Recorded DEF JobBuild
<1>5. ASSUME JobMeasure PROVE EvidenceInv'
  <2>1. job.pc = "work" /\ job.stage = 2
    BY <1>5, StagesAre, JobWorking DEF JobMeasure
  <2>2. job'.pc \notin {"work", "regen"}
    <3>1. (\E passed \in BOOLEAN : JobResult(passed)) \/ job' = [job EXCEPT !.pc = "stamp"]
      BY <1>5 DEF JobMeasure
    <3> QED BY <2>1, <3>1, ResultPc, JobWorking
  <2> QED BY <1>5, <2>1, <2>2, Records, Recorded DEF JobMeasure
<1>6. ASSUME NEW admits \in BOOLEAN, JobGauntlet(admits) PROVE EvidenceInv'
  <2>1. job.pc = "work" /\ job.stage = 3
    BY <1>6, StagesAre, JobWorking DEF JobGauntlet
  <2>2. /\ UNCHANGED <<registry, admitted, prs, effective>>
        /\ job' = [job EXCEPT !.pc = IF admits THEN "regen" ELSE "stamp"]
    BY <1>6 DEF JobGauntlet, JobStep, remote, world
  <2>3. /\ job'.pc # "work" /\ job'.entry = job.entry /\ job'.train = job.train
    BY <2>1, <2>2, JobWorking
  <2>4. JobInv'
    BY <2>1, <2>2, <2>3 DEF JobInv, EvidenceInv
  <2> QED BY <2>2, <2>4 DEF EvidenceInv, EntriesInv, OutInv, Sound, HasEffect
<1>7. ASSUME JobRegen PROVE EvidenceInv'
  <2>1. job.pc = "regen" /\ job'.pc \notin {"work", "regen"}
    BY <1>7, ResultPc DEF JobRegen
  <2> QED BY <1>7, <2>1, Records, Recorded DEF JobRegen
<1>8. ASSUME JobStamp PROVE EvidenceInv'
  <2> SUFFICES ASSUME ~JobEnds(FALSE) PROVE EvidenceInv'
    BY <1>2
  <2>1. /\ job' = [pc |-> "write", stage |-> job.stage, chained |-> job.chained, batch |-> JobStop]
        /\ JobQuiet
    BY <1>8 DEF JobStamp
  <2> QED BY <1>1, <2>1 DEF JobQuiet, JobStep, evidence, remote, world
<1>9. ASSUME JobWrite PROVE EvidenceInv'
  BY <1>1, <1>9, ResultPc DEF JobWrite, JobStep, evidence, remote, world
<1>10. ASSUME JobFails PROVE EvidenceInv'
  BY <1>2, <1>10 DEF JobFails
<1>11. ASSUME Advance PROVE EvidenceInv'
  <2>1. UNCHANGED <<registry, admitted, prs, effective>>
    BY <1>11 DEF Advance, JobStep, evidence, remote, world
  <2>2. job' = job \/ job'.pc \notin {"work", "regen"}
    BY <1>11 DEF Advance, Stage
  <2> QED BY <1>1, <2>1, <2>2, EvidenceFrame
<1>12. ASSUME NEW i \in 1..Len(Stages), JobRequest(i) PROVE EvidenceInv'
  <2>1. UNCHANGED <<registry, admitted, prs, effective>> /\ job'.pc \notin {"work", "regen"}
    BY <1>12 DEF JobRequest, JobStep, evidence, remote, world, Stage
  <2> QED BY <1>1, <2>1
<1> QED BY <1>3, <1>4, <1>5, <1>6, <1>7, <1>8, <1>9, <1>10, <1>11, <1>12 DEF JobNext, JobWorks

LEMMA EvidenceNext ==
  ASSUME TrainsTyped, ActInv, EvidenceInv, [Next]_vars
  PROVE  EvidenceInv'
<1>1. CASE UNCHANGED vars
  BY <1>1, EvidenceFrame DEF vars
<1>2. ASSUME NEW survives \in BOOLEAN, Crash(survives) PROVE EvidenceInv'
  <2>1. UNCHANGED <<registry, admitted, prs, effective>>
    BY <1>2 DEF Crash, remote
  <2>2. /\ job'.pc \in {"work", "regen"} => /\ job'.pc = job.pc /\ job'.train = job.train
                                            /\ job'.entry = job.entry /\ job'.stage = job.stage
    BY <1>2 DEF Crash, TrainsTyped, Works, Idle
  <2>3. JobInv'
    BY <2>1, <2>2 DEF EvidenceInv, JobInv
  <2> QED BY <2>1, <2>3 DEF EvidenceInv, EntriesInv, OutInv, Sound, HasEffect
<1> QED BY <1>1, <1>2, AsideEvidence, OpEvidence, JobEvidence DEF Next

-----------------------------------------------------------------------------
(* Trains follow each other *)

\* A train that is under way no more: it was stopped, or its cards are on main.
Past(t) == StateOf(log, t) = "stopped" \/ Landed(t)

\* The trains of a log are numbered as they were opened; but for one they are past; a train
\* that is sealed has the entry of its cards, and shares none with another one.
OrderInv ==
  Readable(log) =>
    /\ \E n \in 0..MaxTrains : TrainsOf(log) = 1..n
    /\ ~torn => \A t, u \in TrainsOf(log) : ~Past(t) /\ ~Past(u) => t = u
    /\ ~torn => \A t \in Bound(log) : registry[t] # None /\ registry[t].cards = SealedCards(log, t)
    /\ \A t, u \in Bound(log) : t # u => SealedCards(log, t) \cap SealedCards(log, u) = {}

\* A seal is about the next train and cards that ride no other one; the trains it has still
\* to look at are all that are not past, but for the one it is just stopping.
SealInv ==
  op.pc # "idle" /\ op.kind = "seal" /\ Readable(log) =>
    /\ TrainsOf(log) = 1..(op.train - 1)
    /\ \A c \in op.cards, t \in Bound(log) : c \notin SealedCards(log, t)
    /\ ~torn => \A t \in TrainsOf(log) :
         \/ Past(t) \/ t \in op.running
         \/ op.pc = "write" /\ op.next = "observe" /\ Has(op.batch, "train-stopped", t)

LEMMA InitOrdered == Init => OrderInv /\ SealInv
<1> HAVE Init
<1>1. TrainsOf(log) = 1..0 /\ 0 \in 0..MaxTrains
  BY BoundsAssumption DEF Init, TrainsOf, Kind
<1>2. Bound(log) = {}
  BY <1>1 DEF Bound
<1>3. OrderInv
  <2>1. \A t \in TrainsOf(log) : FALSE
    BY <1>1
  <2> QED BY <1>1, <1>2, <2>1 DEF OrderInv
<1>4. SealInv
  BY DEF Init, SealInv, Idle
<1> QED BY <1>3, <1>4

\* A step that neither opens nor seals a train, and changes of the entries of trains
\* neither the cards nor the base.
CalmStep ==
  /\ Readable(log') => \E s \in Logs : Calm(s) /\ log' = log \o s
  /\ torn => torn'
  /\ main' \in Nat /\ main <= main' /\ merged \subseteq merged'
  /\ Readable(log) => \A t \in TrainsOf(log) :
       registry[t] # None => /\ registry'[t] # None
                             /\ registry'[t].cards = registry[t].cards
                             /\ registry'[t].base = registry[t].base

LEMMA CalmKeeps ==
  ASSUME TrainsTyped, OrderInv, CalmStep, Readable(log')
  PROVE  /\ Readable(log) /\ TrainsOf(log)' = TrainsOf(log)
         /\ ~torn' => ~torn /\ \A t \in TrainsOf(log) : Past(t) => Past(t)'
         /\ \A t \in Bound(log)' : t \in Bound(log) /\ SealedCards(log, t)' = SealedCards(log, t)
         /\ \A t : StateOf(log, t) = "stopped" => StateOf(log, t)' = "stopped"
<1>1. PICK s \in Logs : Calm(s) /\ log' = log \o s
  BY DEF CalmStep
<1>2. /\ Readable(log) /\ TrainsOf(log') = TrainsOf(log)
      /\ \A t : StateOf(log', t) \in {StateOf(log, t), "stopped"}
      /\ \A t : StateOf(log, t) = "stopped" => StateOf(log', t) = "stopped"
      /\ \A t \in Bound(log') : t \in Bound(log) /\ SealedCards(log', t) = SealedCards(log, t)
  <2>1. log \in Logs /\ Readable(log \o s)
    BY <1>1 DEF TrainsTyped
  <2> HIDE DEF Logs
  <2> QED BY <1>1, <2>1, CalmGrowth
<1>3. ASSUME ~torn', NEW t \in TrainsOf(log), Past(t) PROVE Past(t)'
  <2>1. CASE StateOf(log, t) = "stopped"
    BY <1>2, <2>1 DEF Past
  <2>2. CASE StateOf(log', t) = "stopped"
    BY <2>2 DEF Past
  <2>3. CASE StateOf(log, t) # "stopped" /\ StateOf(log', t) # "stopped"
    <3>1. Landed(t)
      BY <1>3, <2>3 DEF Past
    <3>2. StateOf(log', t) = "sealed" /\ t \in Bound(log')
      BY <1>2, <2>3, <3>1 DEF Landed, Bound
    <3>3. SealedCards(log', t) = SealedCards(log, t)
      BY <1>2, <3>2
    <3>4. registry[t] # None /\ registry[t].cards = SealedCards(log, t)
      BY <3>1 DEF Landed
    <3>5. /\ registry'[t] # None /\ registry'[t].cards = registry[t].cards
          /\ registry'[t].base = registry[t].base
      BY <1>2, <3>4 DEF CalmStep
    <3>6. registry[t].base \in Nat /\ main \in Nat
      <4>1. t \in Trains
        BY TrainsOfLog DEF TrainsTyped
      <4>2. registry[t] \in Entry
        BY <3>4, <4>1 DEF TrainsTyped
      <4> QED BY <4>2, BoundsAssumption DEF Entry, TrainsTyped
    <3>7. \A c \in registry'[t].cards : \E m \in (registry'[t].base + 1)..main' : <<c, m>> \in merged'
      <4> TAKE c \in registry'[t].cards
      <4>1. PICK m \in (registry[t].base + 1)..main : <<c, m>> \in merged
        BY <3>1, <3>5 DEF Landed
      <4>2. m \in (registry'[t].base + 1)..main' /\ <<c, m>> \in merged'
        BY <3>5, <3>6, <4>1 DEF CalmStep
      <4> QED BY <4>2
    <3> QED BY <1>3, <3>2, <3>3, <3>4, <3>5, <3>7 DEF Past, Landed
  <2> QED BY <2>1, <2>2, <2>3
<1>4. ~torn' => ~torn
  BY DEF CalmStep
<1> QED BY <1>2, <1>3, <1>4

LEMMA CalmOrder ==
  ASSUME TrainsTyped, OrderInv, CalmStep
  PROVE  OrderInv'
<1> SUFFICES ASSUME Readable(log') PROVE OrderInv'
  BY DEF OrderInv
<1>1. /\ Readable(log) /\ TrainsOf(log)' = TrainsOf(log)
      /\ ~torn' => ~torn /\ \A t \in TrainsOf(log) : Past(t) => Past(t)'
      /\ \A t \in Bound(log)' : t \in Bound(log) /\ SealedCards(log, t)' = SealedCards(log, t)
  BY CalmKeeps
<1>2. \A t \in Bound(log) : t \in TrainsOf(log)
  BY DEF Bound
<1>3. \E n \in 0..MaxTrains : TrainsOf(log)' = 1..n
  BY <1>1 DEF OrderInv
<1>4. ~torn' => \A t, u \in TrainsOf(log)' : ~Past(t)' /\ ~Past(u)' => t = u
  BY <1>1 DEF OrderInv
<1>5. ~torn' => \A t \in Bound(log)' : registry'[t] # None /\ registry'[t].cards = SealedCards(log, t)'
  BY <1>1, <1>2 DEF OrderInv, CalmStep
<1>6. \A t, u \in Bound(log)' : t # u => SealedCards(log, t)' \cap SealedCards(log, u)' = {}
  BY <1>1 DEF OrderInv
<1> QED BY <1>3, <1>4, <1>5, <1>6 DEF OrderInv

LEMMA CalmSeal ==
  ASSUME TrainsTyped, OrderInv, SealInv, CalmStep, op' = op
  PROVE  SealInv'
<1> SUFFICES ASSUME op.pc # "idle", op.kind = "seal", Readable(log') PROVE SealInv'
  BY DEF SealInv
<1>1. /\ Readable(log) /\ TrainsOf(log)' = TrainsOf(log)
      /\ ~torn' => ~torn /\ \A t \in TrainsOf(log) : Past(t) => Past(t)'
      /\ \A t \in Bound(log)' : t \in Bound(log) /\ SealedCards(log, t)' = SealedCards(log, t)
  BY CalmKeeps
<1>2. TrainsOf(log)' = 1..(op'.train - 1)
  BY <1>1 DEF SealInv
<1>3. \A c \in op'.cards, t \in Bound(log)' : c \notin SealedCards(log, t)'
  BY <1>1 DEF SealInv
<1>4. ~torn' => \A t \in TrainsOf(log)' :
         \/ Past(t)' \/ t \in op'.running
         \/ op'.pc = "write" /\ op'.next = "observe" /\ Has(op'.batch, "train-stopped", t)
  BY <1>1 DEF SealInv
<1> QED BY <1>2, <1>3, <1>4 DEF SealInv

\* The same log is a log grown by nothing.
LEMMA SameLog ==
  ASSUME TrainsTyped, log' = log
  PROVE  Readable(log') => \E s \in Logs : Calm(s) /\ log' = log \o s
<1>1. <<>> \in Logs /\ Calm(<<>>) /\ log \o <<>> = log
  BY DEF Logs, Calm, TrainsTyped
<1> QED BY <1>1

LEMMA SomeCalm ==
  ASSUME TrainsTyped, UNCHANGED <<registry, torn, main, merged>>,
         log' = log \/ \E b \in Batches : Calm(b) /\ log' = log \o b
  PROVE  CalmStep
<1>1. main \in Nat /\ main <= main
  BY BoundsAssumption DEF TrainsTyped
<1>2. Readable(log') => \E s \in Logs : Calm(s) /\ log' = log \o s
  <2>1. CASE log' = log
    BY <2>1, SameLog
  <2>2. ASSUME NEW b \in Batches, Calm(b), log' = log \o b
        PROVE  Readable(log') => \E s \in Logs : Calm(s) /\ log' = log \o s
    BY <2>2 DEF Batches
  <2> QED BY <2>1, <2>2
<1> QED BY <1>1, <1>2 DEF CalmStep

LEMMA AsideOrder ==
  ASSUME TrainsTyped, ActInv, OrderInv, SealInv,
         \/ \E c \in Cards, d \in Decisions : DecideDerive(c, d)
         \/ DecideStamp \/ DecideWrite
         \/ \E t \in Trains : ViewDerive(t)
         \/ ViewObserve \/ ViewWrite
         \/ \E s \in stops : StopperStamp(s)
         \/ StopperWrite \/ MainMoves \/ \E pr \in prs : Merge(pr)
  PROVE  OrderInv' /\ SealInv'
<1>1. UNCHANGED <<registry, torn, op>>
  BY DEF DecideDerive, DecideStamp, DecideWrite, ViewDerive, ViewObserve, ViewWrite,
         StopperStamp, StopperWrite, MainMoves, Merge, Unmoved, evidence
<1>2. CASE MainMoves \/ \E pr \in prs : Merge(pr)
  <2>1. log' = log /\ main' = main + 1 /\ merged \subseteq merged'
    BY <1>2 DEF MainMoves, Merge, Unmoved
  <2>2. main' \in Nat /\ main <= main'
    BY <2>1, BoundsAssumption DEF TrainsTyped
  <2>3. CalmStep
    BY <1>1, <2>1, <2>2, SameLog DEF CalmStep
  <2> QED BY <1>1, <2>3, CalmOrder, CalmSeal
<1>3. CASE ~(MainMoves \/ \E pr \in prs : Merge(pr))
  <2>1. UNCHANGED <<main, merged>>
    BY <1>3 DEF DecideDerive, DecideStamp, DecideWrite, ViewDerive, ViewObserve, ViewWrite,
                StopperStamp, StopperWrite, remote
  <2>2. log' = log \/ \E b \in Batches : Calm(b) /\ log' = log \o b
    <3>1. CASE DecideWrite
      <4>1. decide \in InFlight /\ decide.pc = "write" /\ log' = log \o decide.batch
        BY <3>1 DEF DecideWrite, InFlight
      <4> QED BY <4>1, InFlightTyped DEF ActInv, CalmInv
    <3>2. CASE ViewWrite
      <4>1. view \in InFlight /\ view.pc = "write" /\ log' = log \o view.batch
        BY <3>2 DEF ViewWrite, InFlight
      <4> QED BY <4>1, InFlightTyped DEF ActInv, CalmInv
    <3>3. CASE StopperWrite
      <4>1. stopper \in InFlight /\ stopper.pc = "write" /\ log' = log \o stopper.batch
        BY <3>3 DEF StopperWrite, InFlight
      <4> QED BY <4>1, InFlightTyped DEF ActInv, CalmInv
    <3>4. CASE \/ \E c \in Cards, d \in Decisions : DecideDerive(c, d)
               \/ DecideStamp \/ \E t \in Trains : ViewDerive(t)
               \/ ViewObserve \/ \E s \in stops : StopperStamp(s)
      BY <3>4 DEF DecideDerive, DecideStamp, ViewDerive, ViewObserve, StopperStamp
    <3> QED BY <1>3, <3>1, <3>2, <3>3, <3>4
  <2>3. CalmStep
    BY <1>1, <2>1, <2>2, SomeCalm
  <2> QED BY <1>1, <2>3, CalmOrder, CalmSeal
<1> QED BY <1>2, <1>3

\* An entry that a stage or a signature rewrites keeps its cards and its base.
LEMMA EntryCalm ==
  ASSUME TrainsTyped, UNCHANGED <<log, torn, main, merged>>,
         NEW t \in Trains, NEW e \in Entry, Kept(registry[t], e),
         registry' = [registry EXCEPT ![t] = e]
  PROVE  CalmStep
<1>1. main \in Nat /\ main <= main
  BY BoundsAssumption DEF TrainsTyped
<1>2. e # None
  BY DEF Entry, None
<1>3. \A u \in Trains : /\ registry[u] # None => registry'[u] # None
                        /\ registry[u] # None => registry'[u].cards = registry[u].cards
                        /\ registry[u] # None => registry'[u].base = registry[u].base
  BY <1>2 DEF TrainsTyped, Kept
<1>4. TrainsOf(log) \subseteq Trains
  BY TrainsOfLog DEF TrainsTyped
<1> QED BY <1>1, <1>3, <1>4, SameLog DEF CalmStep

LEMMA JobOrder ==
  ASSUME TrainsTyped, ActInv, EvidenceInv, OrderInv, SealInv, JobNext
  PROVE  OrderInv' /\ SealInv'
<1>1. UNCHANGED <<op, torn, main, merged>>
  BY DEF JobNext, JobWorks, JobLocate, JobBuild, JobMeasure, JobGauntlet, JobRegen, JobStamp,
         JobWrite, JobFails, Advance, JobRequest, JobEnds, JobQuiet, Record, JobStep, evidence, remote
<1> SUFFICES CalmStep
  BY <1>1, CalmOrder, CalmSeal
<1>2. CASE JobBuild \/ JobMeasure \/ JobRegen
  <2>1. \E e \in Entry : Kept(job.entry, e) /\ Record(e)
    <3>1. CASE JobBuild
      <4>1. job.pc = "work" /\ job.stage = 1
        BY <3>1, StagesAre, JobWorking DEF JobBuild
      <4> QED BY <3>1, <4>1, Records DEF JobBuild
    <3>2. CASE JobMeasure
      <4>1. job.pc = "work" /\ job.stage = 2
        BY <3>2, StagesAre, JobWorking DEF JobMeasure
      <4> QED BY <3>2, <4>1, Records DEF JobMeasure
    <3>3. CASE JobRegen
      BY <3>3, Records DEF JobRegen
    <3> QED BY <1>2, <3>1, <3>2, <3>3
  <2>2. PICK e \in Entry : Kept(job.entry, e) /\ Record(e)
    BY <2>1
  <2>3. job.pc \in {"work", "regen"}
    BY <1>2 DEF JobBuild, JobMeasure, JobRegen
  <2>4. job.train \in Trains /\ registry[job.train] = job.entry
    BY <2>3, JobWorking DEF EvidenceInv, JobInv
  <2>5. log' = log /\ registry' = [registry EXCEPT ![job.train] = e]
    BY <2>2 DEF Record
  <2> QED BY <1>1, <2>2, <2>4, <2>5, EntryCalm
<1>3. CASE JobWrite
  <2>1. job \in InFlight /\ job.pc = "write" /\ log' = log \o job.batch /\ UNCHANGED registry
    BY <1>3 DEF JobWrite, InFlight, evidence
  <2>2. job.batch \in Batches /\ Calm(job.batch)
    BY <2>1, InFlightTyped DEF ActInv, CalmInv
  <2> QED BY <1>1, <2>1, <2>2, SomeCalm
<1>4. CASE ~(JobBuild \/ JobMeasure \/ JobRegen \/ JobWrite)
  <2>1. log' = log /\ UNCHANGED registry
    BY <1>4 DEF JobNext, JobWorks, JobLocate, JobGauntlet, JobStamp,
                JobFails, Advance, JobRequest, JobEnds, JobQuiet, evidence
  <2> QED BY <1>1, <2>1, SomeCalm
<1> QED BY <1>2, <1>3, <1>4

\* What a seal in progress keeps in order when its lines, or some of them, reach the log.
LEMMA SealLogged ==
  ASSUME TrainsTyped, ActInv, OrderInv, SealInv,
         op.pc = "write", op.next = "sealed", UNCHANGED <<registry, main, merged>>, torn => torn',
         NEW k \in 1..Len(op.batch), log' = log \o SubSeq(op.batch, 1, k)
  PROVE  OrderInv'
<1> SUFFICES ASSUME Readable(log') PROVE OrderInv'
  BY DEF OrderInv
<1> DEFINE t == op.train
           b == op.batch
<1>1. op \in Seals /\ op.kind = "seal" /\ b \in Batches /\ t \in Trains /\ t \in Nat /\ MaxTrains \in Nat
      /\ t <= MaxTrains /\ 1 <= t
  BY BoundsAssumption DEF TrainsTyped, Seals, Signs, Idle, Trains
<1>2. /\ SealLines(b, t, op.cards) /\ op.running = {} /\ registry[t] # None
      /\ registry[t].cards = op.cards
  BY <1>1 DEF ActInv, SealShape
<1>3. log \in Logs /\ b \in Logs
  BY <1>1 DEF TrainsTyped, Batches
<1>4. /\ Readable(log)
      /\ \A u : u # t => StateOf(log', u) = StateOf(log, u)
      /\ \/ /\ TrainsOf(log') = TrainsOf(log) /\ StateOf(log', t) = StateOf(log, t)
            /\ Bound(log') = Bound(log)
         \/ /\ TrainsOf(log') = TrainsOf(log) \cup {t} /\ t \notin TrainsOf(log)
            /\ StateOf(log', t) = "open" /\ Bound(log') = Bound(log)
         \/ /\ TrainsOf(log') = TrainsOf(log) \cup {t} /\ t \notin TrainsOf(log)
            /\ Bound(log') = Bound(log) \cup {t} /\ SealedCards(log', t) = op.cards
      /\ \A u \in Bound(log) : SealedCards(log', u) = SealedCards(log, u)
  <2>1. Readable(log \o SubSeq(b, 1, k))
    OBVIOUS
  <2> HIDE DEF Logs, b, t
  <2> QED BY <1>2, <1>3, <2>1, SealGrowth DEF b
<1> HIDE DEF b
<1>5. /\ TrainsOf(log) = 1..(t - 1)
      /\ \A c \in op.cards, u \in Bound(log) : c \notin SealedCards(log, u)
      /\ ~torn => \A u \in TrainsOf(log) : Past(u)
  BY <1>1, <1>2, <1>4 DEF SealInv
<1>6. ~torn' => \A u \in TrainsOf(log) : Past(u)'
  <2> SUFFICES ASSUME ~torn', NEW u \in TrainsOf(log) PROVE Past(u)'
    OBVIOUS
  <2>1. ~torn /\ Past(u) /\ StateOf(log', u) = StateOf(log, u)
    <3>1. u # t
      BY <1>1, <1>5
    <3> QED BY <1>4, <1>5, <3>1
  <2>2. CASE StateOf(log, u) = "stopped"
    BY <2>1, <2>2 DEF Past
  <2>3. CASE Landed(u)
    <3>1. u \in Bound(log)
      BY <2>3 DEF Landed, Bound
    <3>2. SealedCards(log', u) = SealedCards(log, u)
      BY <1>4, <3>1
    <3> QED BY <2>1, <2>3, <3>2 DEF Past, Landed
  <2> QED BY <2>1, <2>2, <2>3 DEF Past
<1>7. \E n \in 0..MaxTrains : TrainsOf(log)' = 1..n
  <2>1. TrainsOf(log') = 1..(t - 1) \/ TrainsOf(log') = 1..t
    <3>1. 1..(t - 1) \cup {t} = 1..t
      BY <1>1
    <3> QED BY <1>4, <1>5, <3>1
  <2>2. t - 1 \in 0..MaxTrains /\ t \in 0..MaxTrains
    BY <1>1
  <2> QED BY <2>1, <2>2
<1>8. ~torn' => \A u, v \in TrainsOf(log)' : ~Past(u)' /\ ~Past(v)' => u = v
  BY <1>4, <1>6
<1>9. ~torn' => \A u \in Bound(log)' : registry'[u] # None /\ registry'[u].cards = SealedCards(log, u)'
  <2> SUFFICES ASSUME ~torn', NEW u \in Bound(log')
               PROVE  registry[u] # None /\ registry[u].cards = SealedCards(log', u)
    OBVIOUS
  <2>1. CASE u \in Bound(log)
    BY <1>4, <2>1 DEF OrderInv
  <2>2. CASE u \notin Bound(log)
    BY <1>2, <1>4, <2>2
  <2> QED BY <2>1, <2>2
<1>10. \A u, v \in Bound(log)' : u # v => SealedCards(log, u)' \cap SealedCards(log, v)' = {}
  <2> SUFFICES ASSUME NEW u \in Bound(log'), NEW v \in Bound(log'), u # v
               PROVE  SealedCards(log', u) \cap SealedCards(log', v) = {}
    OBVIOUS
  <2>1. CASE u \in Bound(log) /\ v \in Bound(log)
    BY <1>4, <2>1 DEF OrderInv
  <2>2. CASE u \notin Bound(log)
    BY <1>4, <1>5, <2>2
  <2>3. CASE v \notin Bound(log)
    BY <1>4, <1>5, <2>3
  <2> QED BY <2>1, <2>2, <2>3
<1> QED BY <1>7, <1>8, <1>9, <1>10 DEF OrderInv

\* A batch is the longest of its parts.
LEMMA WholeBatch ==
  ASSUME NEW b \in Batches
  PROVE  Len(b) \in 1..Len(b) /\ SubSeq(b, 1, Len(b)) = b
<1> DEFINE S == Lines \cup {TornLine}
<1>1. b \in Seq(S) /\ b # <<>>
  BY DEF Batches, Logs
<1> HIDE DEF S
<1>2. Len(b) \in Nat /\ Len(b) # 0
  BY <1>1, EmptySeq
<1>3. SubSeq(b, 1, Len(b)) = b
  BY <1>1, SubSeqFull
<1> QED BY <1>2, <1>3

\* A seal looks for the trains under way, and takes cards that ride none.
LEMMA DeriveOrder ==
  ASSUME TrainsTyped, OrderInv, SealDerive
  PROVE  SealInv'
<1>1. /\ Readable(log) /\ UNCHANGED <<log, registry, torn, merged, main>>
      /\ op'.train = Cardinality(TrainsOf(log)) + 1 /\ op'.cards = {c \in Cards : Boards(c)}
      /\ op'.running = {t \in TrainsOf(log) : StateOf(log, t) # "stopped" /\ ~Landed(t)}
  BY DEF SealDerive, evidence, remote
<1>2. PICK n \in 0..MaxTrains : TrainsOf(log) = 1..n
  BY <1>1 DEF OrderInv
<1>3. n \in Int /\ n \in Nat
  BY BoundsAssumption
<1>4. Cardinality(1..n) = n
  <2>1. Cardinality(1..n) = IF 1 > n THEN 0 ELSE n - 1 + 1
    BY <1>3, FS_Interval
  <2> QED BY <1>3, <2>1
<1>5. TrainsOf(log) = 1..(op'.train - 1)
  BY <1>1, <1>2, <1>3, <1>4
<1>6. \A c \in op'.cards, t \in Bound(log) : c \notin SealedCards(log, t)
  BY <1>1 DEF Boards, Frozen, LiveSeals
<1>7. \A t \in TrainsOf(log) : Past(t) \/ t \in op'.running
  BY <1>1 DEF Past
<1>8. \A t : Past(t)' <=> Past(t)
  BY <1>1 DEF Past, Landed
<1> QED BY <1>1, <1>5, <1>6, <1>7, <1>8 DEF SealInv

\* A train that the seal need not stop is stopped already.
LEMMA ObserveOrder ==
  ASSUME TrainsTyped, ActInv, OrderInv, SealInv, NEW t \in Trains, SealObserve(t), op' # Idle
  PROVE  SealInv'
<1>1. /\ op \in Seals /\ op.pc = "observe" /\ op.next = "observe" /\ op.kind = "seal"
      /\ op.pc # "idle"
  BY OpIsSeal DEF SealObserve, ActInv, SealShape
<1>2. /\ Readable(log) /\ UNCHANGED <<log, registry, torn, merged, main>>
      /\ op' = IF Stopping(t) = <<>>
                 THEN [op EXCEPT !.running = @ \ {t}]
                 ELSE [op EXCEPT !.running = @ \ {t}, !.pc = "write", !.batch = Stopping(t)[1]]
  BY DEF SealObserve, OpEnds, OpQuiet, evidence, remote
<1>3. \A u : Past(u)' <=> Past(u)
  BY <1>2 DEF Past, Landed
<1>4. /\ TrainsOf(log) = 1..(op.train - 1)
      /\ \A c \in op.cards, u \in Bound(log) : c \notin SealedCards(log, u)
      /\ ~torn => \A u \in TrainsOf(log) : Past(u) \/ u \in op.running
  BY <1>1, <1>2 DEF SealInv
<1>5. CASE Stopping(t) = <<>>
  <2>1. op'.train = op.train /\ op'.cards = op.cards /\ op'.running = op.running \ {t}
    BY <1>1, <1>2, <1>5 DEF Seals
  <2>2. t \in TrainsOf(log) => StateOf(log, t) = "stopped"
    <3> SUFFICES ASSUME t \in TrainsOf(log), StateOf(log, t) # "stopped" PROVE FALSE
      OBVIOUS
    <3> DEFINE e == Stopped(t, "main-moved", "none", Stamp)
    <3>1. log \in Logs
      BY DEF TrainsTyped
    <3>2. StateOf(log, t) \in {"open", "sealed"}
      BY <3>1, StateIs
    <3>3. \A i \in 1..Len(log) : log[i].at <= Stamp
      <4> TAKE i \in 1..Len(log)
      <4>1. log[i] # TornLine
        BY <1>2 DEF Readable, Legal, TornLine
      <4> QED BY <4>1, StampIs
    <3>4. e \in Lines /\ StopLine(t, "main-moved", "none") = <<e>>
      BY StopBatch DEF Reasons, Pins
    <3>5. Readable(log \o StopLine(t, "main-moved", "none"))
      BY <1>2, <3>1, <3>2, <3>3, <3>4, CanStop
    <3> QED BY <1>5, <3>2, <3>5 DEF Stopping, StopIsDue
  <2>3. ~torn => \A u \in TrainsOf(log) : Past(u) \/ u \in op'.running
    BY <1>4, <2>1, <2>2 DEF Past
  <2> QED BY <1>2, <1>3, <1>4, <2>1, <2>3 DEF SealInv
<1>6. CASE Stopping(t) # <<>>
  <2>1. /\ op'.train = op.train /\ op'.cards = op.cards /\ op'.running = op.running \ {t}
        /\ op'.pc = "write" /\ op'.next = "observe" /\ op'.batch = Stopping(t)[1]
    BY <1>1, <1>2, <1>6 DEF Seals
  <2>2. Has(op'.batch, "train-stopped", t)
    <3> DEFINE e == Stopped(t, "main-moved", "none", Stamp)
    <3>1. op'.batch = <<e>> /\ e.kind = "train-stopped" /\ e.train = t
      BY <1>6, <2>1, StoppingIs, StopBatch DEF Reasons, Pins, Stopped
    <3> HIDE DEF e
    <3>2. Len(<<e>>) = 1 /\ <<e>>[1] = e
      OBVIOUS
    <3> QED BY <3>1, <3>2 DEF Has
  <2>3. ~torn => \A u \in TrainsOf(log) : Past(u) \/ u \in op'.running \/ Has(op'.batch, "train-stopped", u)
    BY <1>4, <2>1, <2>2
  <2> QED BY <1>2, <1>3, <1>4, <2>1, <2>3 DEF SealInv
<1> QED BY <1>5, <1>6

\* A seal writes the entry of a train that is not yet in the log.
LEMMA RegisterOrder ==
  ASSUME TrainsTyped, OrderInv, SealInv, SealRegister, op' # Idle
  PROVE  OrderInv' /\ SealInv'
<1>1. /\ op.pc = "observe" /\ op.kind = "seal" /\ op.running = {}
      /\ registry' = [registry EXCEPT ![op.train] = NewEntry(op.cards, main)]
      /\ op' = [op EXCEPT !.pc = "stamp"] /\ UNCHANGED <<log, torn, merged, main>>
  BY DEF SealRegister, OpEnds, remote
<1>2. op \in Seals
  BY <1>1, OpIsSeal
<1>3. /\ op'.kind = "seal" /\ op'.pc = "stamp" /\ op'.running = {} /\ op'.train = op.train
      /\ op'.cards = op.cards /\ op.train \in Nat
  BY <1>1, <1>2 DEF Seals, Trains
<1>4. Readable(log) => op.train \notin TrainsOf(log)
  BY <1>1, <1>3 DEF SealInv
<1>5. Readable(log) => \A t \in TrainsOf(log) : registry'[t] = registry[t]
  BY <1>1, <1>4, TrainsOfLog DEF TrainsTyped
<1>6. CalmStep
  <2>1. main \in Nat /\ main <= main
    BY BoundsAssumption DEF TrainsTyped
  <2> QED BY <1>1, <1>5, <2>1, SameLog DEF CalmStep
<1>7. OrderInv'
  BY <1>6, CalmOrder
<1>8. SealInv'
  <2> SUFFICES ASSUME Readable(log) PROVE SealInv'
    BY <1>1 DEF SealInv
  <2>1. \A t \in TrainsOf(log) : Past(t)' <=> Past(t)
    BY <1>1, <1>5 DEF Past, Landed
  <2> QED BY <1>1, <1>3, <2>1 DEF SealInv
<1> QED BY <1>7, <1>8

\* A seal checks what it writes, and changes nothing yet.
LEMMA StampOrder ==
  ASSUME TrainsTyped, OrderInv, SealInv, SealStamp, op' # Idle
  PROVE  SealInv'
<1>1. op \in Seals /\ op.pc = "stamp" /\ UNCHANGED <<log, registry, torn, merged, main>>
  BY DEF SealStamp, OpQuiet, evidence, remote, TrainsTyped, Idle, Signs
<1>2. \E b : op' = [op EXCEPT !.pc = "write", !.batch = b, !.next = "sealed"]
  BY DEF SealStamp
<1>3. /\ op.kind = "seal" /\ op'.running = op.running /\ op'.train = op.train /\ op'.cards = op.cards
  BY <1>1, <1>2 DEF Seals
<1>4. \A t : Past(t)' <=> Past(t)
  BY <1>1 DEF Past, Landed
<1> QED BY <1>1, <1>3, <1>4 DEF SealInv

LEMMA WriteOrder ==
  ASSUME TrainsTyped, ActInv, OrderInv, SealInv, OpWrite
  PROVE  OrderInv' /\ SealInv'
<1>1. /\ op.pc = "write" /\ log' = log \o op.batch /\ UNCHANGED <<registry, torn, merged, main>>
      /\ op.batch \in Batches
      /\ op' = IF op.next = "observe" THEN [op EXCEPT !.pc = "observe", !.batch = <<>>] ELSE Idle
  BY DEF OpWrite, evidence, remote, TrainsTyped
<1>2. CASE op.next = "sealed"
  <2>1. /\ Len(op.batch) \in 1..Len(op.batch) /\ log' = log \o SubSeq(op.batch, 1, Len(op.batch))
    BY <1>1, WholeBatch
  <2>2. OrderInv'
    BY <1>1, <1>2, <2>1, SealLogged
  <2>3. SealInv'
    BY <1>1, <1>2 DEF SealInv, Idle
  <2> QED BY <2>2, <2>3
<1>3. CASE op.next # "sealed"
  <2>1. Calm(op.batch)
    BY <1>1, <1>3 DEF ActInv, CalmInv
  <2>2. CalmStep
    BY <1>1, <2>1, SomeCalm
  <2>3. OrderInv'
    BY <2>2, CalmOrder
  <2>4. CASE op.next # "observe"
    BY <1>1, <2>3, <2>4 DEF SealInv, Idle
  <2>5. CASE op.next = "observe"
    <3>1. op \in Seals
      BY <1>1, <2>5 DEF TrainsTyped, Signs, Idle
    <3>2. /\ op'.kind = "seal" /\ op'.pc = "observe" /\ op'.running = op.running
          /\ op'.train = op.train /\ op'.cards = op.cards /\ op.kind = "seal"
      BY <1>1, <2>5, <3>1 DEF Seals
    <3> SUFFICES ASSUME Readable(log') PROVE SealInv'
      BY <2>3 DEF SealInv
    <3>3. /\ Readable(log) /\ TrainsOf(log)' = TrainsOf(log)
          /\ ~torn' => ~torn /\ \A t \in TrainsOf(log) : Past(t) => Past(t)'
          /\ \A t \in Bound(log)' : t \in Bound(log) /\ SealedCards(log, t)' = SealedCards(log, t)
      BY <2>2, CalmKeeps
    <3>4. \A t : Has(op.batch, "train-stopped", t) => StateOf(log', t) = "stopped"
      <4> TAKE t
      <4> HAVE Has(op.batch, "train-stopped", t)
      <4>1. log \in Logs /\ op.batch \in Logs /\ log' \in Logs
        BY <1>1, Grown DEF TrainsTyped, Batches
      <4>2. Has(log', "train-stopped", t)
        BY <1>1, <4>1, HasGrown
      <4> QED BY <4>1, <4>2, StateIs
    <3>5. ~torn' => \A t \in TrainsOf(log)' : Past(t)' \/ t \in op'.running
      BY <1>1, <3>2, <3>3, <3>4 DEF SealInv, Past
    <3>6. /\ TrainsOf(log)' = 1..(op'.train - 1)
          /\ \A c \in op'.cards, t \in Bound(log)' : c \notin SealedCards(log, t)'
      BY <1>1, <3>2, <3>3 DEF SealInv
    <3>7. SealInv'
      BY <3>5, <3>6 DEF SealInv
    <3> QED BY <2>3, <3>7
  <2> QED BY <2>3, <2>4, <2>5
<1> QED BY <1>2, <1>3

LEMMA OpOrder ==
  ASSUME TrainsTyped, ActInv, OrderInv, SealInv, OpNext
  PROVE  OrderInv' /\ SealInv'
<1>1. ASSUME UNCHANGED <<log, registry, torn, merged, main>> PROVE OrderInv'
  BY <1>1, SomeCalm, CalmOrder
<1>2. ASSUME op' = Idle \/ op'.kind # "seal" PROVE SealInv'
  BY <1>2 DEF SealInv, Idle
<1>3. ASSUME \/ SealDerive \/ SealStamp \/ SignObserve
             \/ \E t \in Trains : SealObserve(t) \/ SignDerive(t) \/ AdmitRequest(t) \/ PrepareRequest(t)
             \/ \E passes \in BOOLEAN : Admit(passes)
             \/ \E outcome \in Outcomes : Prepare(outcome)
      PROVE  OrderInv'
  <2>1. UNCHANGED <<log, registry, torn, merged, main>>
    BY <1>3 DEF SealDerive, SealStamp, SignObserve, SealObserve, SignDerive, AdmitRequest,
                PrepareRequest, Admit, Prepare, OpEnds, OpFails, OpQuiet, evidence, remote
  <2> QED BY <1>1, <2>1
<1>4. ASSUME SealDerive PROVE OrderInv' /\ SealInv'
  BY <1>3, <1>4, DeriveOrder
<1>5. ASSUME NEW t \in Trains, SealObserve(t) PROVE OrderInv' /\ SealInv'
  BY <1>2, <1>3, <1>5, ObserveOrder
<1>6. ASSUME SealRegister PROVE OrderInv' /\ SealInv'
  <2>1. CASE op' = Idle
    <3>1. UNCHANGED <<log, registry, torn, merged, main>> \/ op'.pc = "stamp"
      <4> HIDE DEF Idle
      <4>1. OpEnds \/ op' = [op EXCEPT !.pc = "stamp"]
        BY <1>6 DEF SealRegister
      <4>2. op \in Seals
        BY <1>6, OpIsSeal DEF SealRegister
      <4>3. op' = [op EXCEPT !.pc = "stamp"] => op'.pc = "stamp"
        BY <4>2 DEF Seals
      <4> QED BY <4>1, <4>3 DEF OpEnds, OpQuiet, evidence, remote
    <3> QED BY <1>1, <1>2, <2>1, <3>1 DEF Idle
  <2> QED BY <1>6, <2>1, RegisterOrder
<1>7. ASSUME SealStamp PROVE OrderInv' /\ SealInv'
  BY <1>2, <1>3, <1>7, StampOrder
<1>8. ASSUME NEW t \in Trains, SignDerive(t) \/ AdmitRequest(t) \/ PrepareRequest(t)
      PROVE  OrderInv' /\ SealInv'
  <2>1. op'.kind # "seal"
    BY <1>8 DEF SignDerive, AdmitRequest, PrepareRequest, Start
  <2> QED BY <1>2, <1>3, <1>8, <2>1
<1>9. ASSUME SignObserve PROVE OrderInv' /\ SealInv'
  <2>1. op \in Signs
    BY <1>9, OpIsSign DEF SignObserve
  <2>2. op' = Idle \/ op'.kind # "seal"
    BY <1>9, <2>1 DEF SignObserve, OpEnds, Signs
  <2> QED BY <1>2, <1>3, <1>9, <2>2
<1>10. ASSUME SignReview PROVE OrderInv' /\ SealInv'
  <2>1. op \in Signs /\ op.pc = "review" /\ op.train \in Trains
    BY <1>10, OpIsSign DEF SignReview, Signs
  <2>2. op' = Idle \/ op'.kind # "seal"
    BY <1>10, <2>1 DEF SignReview, OpEnds, Signs
  <2>3. UNCHANGED <<log, torn, merged, main>>
    BY <1>10 DEF SignReview, OpEnds, OpQuiet, evidence, remote
  <2>4. CASE UNCHANGED registry
    BY <1>1, <1>2, <2>2, <2>3, <2>4
  <2>5. CASE ~UNCHANGED registry
    <3> DEFINE e == [registry[op.train] EXCEPT !.reviewed = TRUE]
    <3>1. registry[op.train] # None /\ registry' = [registry EXCEPT ![op.train] = e]
      BY <1>10, <2>5 DEF SignReview, OpEnds, OpQuiet, evidence
    <3>2. registry[op.train] \in Entry
      BY <2>1, <3>1 DEF TrainsTyped
    <3>3. e \in Entry /\ Kept(registry[op.train], e)
      BY <3>2 DEF Entry, Kept
    <3> HIDE DEF e
    <3>4. CalmStep
      BY <2>1, <2>3, <3>1, <3>3, EntryCalm
    <3> QED BY <1>2, <2>2, <3>4, CalmOrder
  <2> QED BY <2>4, <2>5
<1>11. ASSUME NEW passes \in BOOLEAN, Admit(passes) PROVE OrderInv' /\ SealInv'
  <2>1. op \in Signs
    BY <1>11, OpIsSign DEF Admit
  <2>2. op' = Idle \/ op'.kind # "seal"
    BY <1>11, <2>1 DEF Admit, OpEnds, OpFails, Signs
  <2> QED BY <1>2, <1>3, <1>11, <2>2
<1>12. ASSUME NEW outcome \in Outcomes, Prepare(outcome) PROVE OrderInv' /\ SealInv'
  <2>1. op' = Idle \/ op'.kind # "seal"
    BY <1>12 DEF Prepare, OpEnds, OpFails, Start
  <2> QED BY <1>2, <1>3, <1>12, <2>1
<1>13. ASSUME OpWrite PROVE OrderInv' /\ SealInv'
  BY <1>13, WriteOrder
<1> QED BY <1>4, <1>5, <1>6, <1>7, <1>8, <1>9, <1>10, <1>11, <1>12, <1>13 DEF OpNext

\* A death leaves a part of one batch, or a torn line after which nothing is read.
LEMMA CrashOrder ==
  ASSUME TrainsTyped, ActInv, OrderInv, SealInv, NEW survives \in BOOLEAN, Crash(survives)
  PROVE  OrderInv' /\ SealInv'
<1>1. UNCHANGED <<registry, merged, main>> /\ (torn => torn') /\ op' = Idle
  BY DEF Crash, remote
<1>0. log' = log \/ \E b \in InFlight : \E c \in Cuts(b.batch) : log' = log \o c
  BY DEF Crash
<1>2. main \in Nat /\ main <= main
  BY BoundsAssumption DEF TrainsTyped
<1> DEFINE Grows == Readable(log') => \E s \in Logs : Calm(s) /\ log' = log \o s
<1>3. Grows => OrderInv'
  <2> HAVE Grows
  <2>1. main' \in Nat /\ main <= main' /\ merged \subseteq merged' /\ (torn => torn')
    BY <1>1, <1>2
  <2>2. \A t \in TrainsOf(log) :
       registry[t] # None => /\ registry'[t] # None
                             /\ registry'[t].cards = registry[t].cards
                             /\ registry'[t].base = registry[t].base
    BY <1>1
  <2>3. CalmStep
    BY <2>1, <2>2 DEF CalmStep
  <2> QED BY <2>3, CalmOrder
<1>4. ASSUME NEW b \in InFlight, NEW k \in 1..Len(b.batch), log' = log \o SubSeq(b.batch, 1, k)
      PROVE  OrderInv'
  <2>1. b.batch \in Batches /\ b.pc = "write" /\ b \in {decide, view, op, stopper, job}
    BY InFlightTyped DEF InFlight
  <2>2. CASE Calm(b.batch)
    <3>1. SubSeq(b.batch, 1, k) \in Logs /\ Calm(SubSeq(b.batch, 1, k))
      BY <2>1, <2>2, CutBatch
    <3>2. Grows
      BY <1>4, <3>1
    <3> QED BY <1>3, <3>2
  <2>3. CASE ~Calm(b.batch)
    <3>1. \A a \in {decide, view, stopper, job} : a.pc = "write" => Calm(a.batch)
      BY DEF ActInv, CalmInv
    <3>2. b \notin {decide, view, stopper, job}
      BY <2>1, <2>3, <3>1
    <3>3. b = op
      BY <2>1, <3>2
    <3>4. op.pc = "write" /\ op.next = "sealed"
      BY <2>1, <2>3, <3>3 DEF ActInv, CalmInv
    <3>5. k \in 1..Len(op.batch) /\ log' = log \o SubSeq(op.batch, 1, k)
      BY <1>4, <3>3
    <3> QED BY <1>1, <3>4, <3>5, SealLogged
  <2> QED BY <2>2, <2>3
<1>5. ASSUME log' = log PROVE OrderInv'
  <2>1. Grows
    BY <1>5, SameLog
  <2> QED BY <1>3, <2>1
<1>6. ASSUME log' = log \o <<TornLine>> PROVE OrderInv'
  <2>1. ~Readable(log')
    BY <1>6, TornIsUnreadable DEF TrainsTyped
  <2> QED BY <1>3, <2>1
<1>7. OrderInv'
  <2> SUFFICES ASSUME NEW b \in InFlight, NEW c \in Cuts(b.batch), log' = log \o c PROVE OrderInv'
    BY <1>0, <1>5
  <2>1. c = <<TornLine>> \/ \E k \in 1..Len(b.batch) : c = SubSeq(b.batch, 1, k)
    BY DEF Cuts
  <2> QED BY <1>4, <1>6, <2>1
<1> QED BY <1>1, <1>7 DEF SealInv, Idle

LEMMA OrderNext ==
  ASSUME TrainsTyped, ActInv, EvidenceInv, OrderInv, SealInv, [Next]_vars
  PROVE  OrderInv' /\ SealInv'
<1>1. CASE UNCHANGED vars
  BY <1>1, SomeCalm, CalmOrder, CalmSeal DEF vars
<1> QED BY <1>1, AsideOrder, OpOrder, JobOrder, CrashOrder DEF Next

-----------------------------------------------------------------------------
(* The theorems *)

TrainsInv == TrainsTyped /\ ActInv /\ EvidenceInv /\ OrderInv /\ SealInv

LEMMA TrainsAlways == Spec => []TrainsInv
<1>1. Init => TrainsInv
  BY InitTyped, InitAct, InitEvidence, InitOrdered DEF TrainsInv
<1>2. TrainsInv /\ [Next]_vars => TrainsInv'
  BY TypedNext, ActNext, EvidenceNext, OrderNext DEF TrainsInv
<1> QED BY <1>1, <1>2, PTL DEF Spec

\* Every file and slot of the trains holds what its reader expects of it
\* (updatesStore.ts, evidenceRegistry of trainStages.ts), in every state.
THEOREM TrainsAreTyped == Spec => []TypeOK
<1>1. TrainsInv => TypeOK
  <2> HAVE TrainsInv
  <2>1. \A i \in 1..Len(log) : log[i] = TornLine \/ log[i].at \in Nat
    <3> TAKE i \in 1..Len(log)
    <3>1. log[i] \in Lines \cup {TornLine}
      BY DEF TrainsInv, TrainsTyped, Logs
    <3> QED BY <3>1 DEF Lines, Dates
  <2>2. registry \in [Trains -> {e \in Entry : InStageOrder(e)} \cup {None}]
    BY DEF TrainsInv, TrainsTyped, EvidenceInv, EntriesInv, Sound
  <2>3. \A a \in {decide, view, op, stopper, job} : a.pc = "write" => a.batch # <<>>
    <3> SUFFICES ASSUME NEW a \in InFlight PROVE a.batch # <<>>
      BY DEF InFlight
    <3> QED BY InFlightTyped DEF Batches, TrainsInv
  <2>4. op # Idle => op.train \in Trains
    BY DEF TrainsInv, TrainsTyped, Seals, Signs
  <2>5. {torn, due, halted} \subseteq BOOLEAN
    BY DEF TrainsInv, TrainsTyped
  <2> QED BY <2>1, <2>2, <2>3, <2>4, <2>5 DEF TypeOK, TrainsInv, TrainsTyped
<1> QED BY <1>1, TrainsAlways, PTL

\* Trains follow each other (trainRunner.seal): at most one is under way, each has the entry
\* of its cards, no card rides two of them, and none is published for nothing.
THEOREM TrainsFollowEachOther == Spec => []TrainsKeepOrder
<1>1. TrainsInv => TrainsKeepOrder
  <2> HAVE TrainsInv
  <2>1. SingleFlight
    <3> SUFFICES ASSUME Files
                 PROVE  Cardinality({t \in TrainsOf(log) : StateOf(log, t) # "stopped" /\ ~Landed(t)}) <= 1
      BY DEF SingleFlight
    <3> DEFINE S == {t \in TrainsOf(log) : StateOf(log, t) # "stopped" /\ ~Landed(t)}
    <3>1. \A t, u \in S : t = u
      BY DEF Files, TrainsInv, OrderInv, Past
    <3> HIDE DEF S
    <3>2. CASE S = {}
      BY <3>2, FS_EmptySet DEF S
    <3>3. CASE S # {}
      <4>1. PICK t \in S : TRUE
        BY <3>3
      <4>2. S = {t}
        BY <3>1, <4>1
      <4>3. Cardinality(S) = 1
        BY <4>2, FS_Singleton
      <4> QED BY <4>3 DEF S
    <3> QED BY <3>2, <3>3
  <2>2. EvidencePrecedesTrain
    BY DEF EvidencePrecedesTrain, Files, TrainsInv, OrderInv
  <2>3. ConsumedOnce
    BY DEF ConsumedOnce, TrainsInv, OrderInv
  <2>4. NoEffectNeverPublished
    BY DEF NoEffectNeverPublished, TrainsInv, EvidenceInv, OutInv, HasEffect
  <2> QED BY <2>1, <2>2, <2>3, <2>4 DEF TrainsKeepOrder
<1> QED BY <1>1, TrainsAlways, PTL

LEMMA KeptItself ==
  ASSUME NEW e \in Entry
  PROVE  Kept(e, e)
BY DEF Kept, Entry

\* No stage, signature or seal loses what was recorded of a sealed train
\* (trainStages.ts writeRegistryEntry, trainRunner.sign).
THEOREM EvidenceIsKept == Spec => EvidenceGrows
<1> DEFINE Keeps == Files => \A t \in Bound(log) : Kept(registry[t], registry'[t])
<1>1. ASSUME TrainsInv, [Next]_vars PROVE Keeps
  <2> SUFFICES ASSUME Files, NEW t \in Bound(log) PROVE Kept(registry[t], registry'[t])
    OBVIOUS
  <2>1. t \in Trains /\ t \in TrainsOf(log) /\ registry[t] \in Entry
    <3>1. t \in TrainsOf(log) /\ t \in Trains
      BY <1>1, TrainsOfLog DEF Bound, TrainsInv, TrainsTyped
    <3>2. registry[t] # None
      BY <1>1 DEF TrainsInv, OrderInv, Files
    <3> QED BY <1>1, <3>1, <3>2 DEF TrainsInv, TrainsTyped
  <2>2. CASE UNCHANGED registry
    BY <2>1, <2>2, KeptItself
  <2>3. ASSUME NEW u \in Trains, NEW e \in Entry, Kept(registry[u], e),
               registry' = [registry EXCEPT ![u] = e]
        PROVE  Kept(registry[t], registry'[t])
    BY <1>1, <2>1, <2>3, KeptItself DEF TrainsInv, TrainsTyped
  <2>4. CASE JobBuild \/ JobMeasure \/ JobRegen
    <3>1. \E e \in Entry : Kept(job.entry, e) /\ Record(e)
      <4>1. CASE JobBuild
        <5>1. job.pc = "work" /\ job.stage = 1
          BY <1>1, <4>1, StagesAre, JobWorking DEF JobBuild, TrainsInv
        <5> QED BY <1>1, <4>1, <5>1, Records DEF JobBuild, TrainsInv
      <4>2. CASE JobMeasure
        <5>1. job.pc = "work" /\ job.stage = 2
          BY <1>1, <4>2, StagesAre, JobWorking DEF JobMeasure, TrainsInv
        <5> QED BY <1>1, <4>2, <5>1, Records DEF JobMeasure, TrainsInv
      <4>3. CASE JobRegen
        BY <1>1, <4>3, Records DEF JobRegen, TrainsInv
      <4> QED BY <2>4, <4>1, <4>2, <4>3
    <3>2. job.train \in Trains /\ registry[job.train] = job.entry
      BY <1>1, <2>4, JobWorking DEF JobBuild, JobMeasure, JobRegen, TrainsInv, EvidenceInv, JobInv
    <3> QED BY <2>3, <3>1, <3>2 DEF Record
  <2>5. CASE SealRegister
    <3>1. UNCHANGED registry \/ registry' = [registry EXCEPT ![op.train] = NewEntry(op.cards, main)]
      BY <2>5 DEF SealRegister, OpEnds, OpQuiet, evidence
    <3>2. op.train \notin TrainsOf(log)
      <4>1. op.pc # "idle" /\ op.kind = "seal" /\ op \in Seals
        BY <1>1, <2>5, OpIsSeal DEF SealRegister, TrainsInv
      <4>2. op.train \in Nat /\ TrainsOf(log) = 1..(op.train - 1)
        BY <1>1, <4>1 DEF Seals, Trains, TrainsInv, SealInv, Files
      <4> QED BY <4>2
    <3>3. registry'[t] = registry[t]
      BY <1>1, <2>1, <3>1, <3>2 DEF TrainsInv, TrainsTyped
    <3> QED BY <2>1, <3>3, KeptItself
  <2>6. CASE SignReview
    <3>1. op.train \in Trains
      BY <1>1, <2>6, OpIsSign DEF SignReview, Signs, TrainsInv
    <3> DEFINE e == [registry[op.train] EXCEPT !.reviewed = TRUE]
    <3>2. UNCHANGED registry \/ (registry[op.train] # None /\ registry' = [registry EXCEPT ![op.train] = e])
      BY <2>6 DEF SignReview, OpEnds, OpQuiet, evidence
    <3>3. registry[op.train] # None => e \in Entry /\ Kept(registry[op.train], e)
      <4> HAVE registry[op.train] # None
      <4>1. registry[op.train] \in Entry
        BY <1>1, <3>1 DEF TrainsInv, TrainsTyped
      <4> QED BY <4>1 DEF Entry, Kept
    <3> HIDE DEF e
    <3> QED BY <2>2, <2>3, <3>1, <3>2, <3>3
  <2>7. CASE ~(JobBuild \/ JobMeasure \/ JobRegen \/ SealRegister \/ SignReview)
    <3>1. ASSUME OpNext PROVE UNCHANGED registry
      BY <2>7, <3>1 DEF OpNext, SealDerive, SealStamp, SealObserve, SignDerive, AdmitRequest,
        PrepareRequest, SignObserve, Admit, Prepare, OpWrite, OpEnds, OpFails, OpQuiet, evidence
    <3>2. ASSUME JobNext PROVE UNCHANGED registry
      BY <2>7, <3>2 DEF JobNext, JobWorks, JobLocate, JobGauntlet, JobStamp, JobWrite, JobFails,
        Advance, JobRequest, JobEnds, JobQuiet, evidence
    <3>3. ASSUME \/ \E c \in Cards, d \in Decisions : DecideDerive(c, d)
                 \/ DecideStamp \/ DecideWrite
                 \/ \E v \in Trains : ViewDerive(v)
                 \/ ViewObserve \/ ViewWrite
                 \/ \E s \in stops : StopperStamp(s)
                 \/ StopperWrite \/ MainMoves \/ \E pr \in prs : Merge(pr)
                 \/ \E survives \in BOOLEAN : Crash(survives)
          PROVE  UNCHANGED registry
      BY <3>3 DEF DecideDerive, DecideStamp, DecideWrite, ViewDerive, ViewObserve, ViewWrite,
        StopperStamp, StopperWrite, MainMoves, Merge, Crash, Unmoved, evidence
    <3>4. CASE UNCHANGED vars
      BY <2>2, <3>4 DEF vars
    <3> QED BY <1>1, <2>2, <3>1, <3>2, <3>3, <3>4 DEF Next
  <2> QED BY <2>4, <2>5, <2>6, <2>7
<1>2. TrainsInv /\ [Next]_vars => [Keeps]_vars
  BY <1>1
<1> QED BY <1>2, TrainsAlways, PTL DEF Spec, EvidenceGrows

=============================================================================
