---------------------------- MODULE BandMapProofs ----------------------------
(***************************************************************************)
(* Theorems about BandMap, for any keys, logs, writers and bounds.          *)
(***************************************************************************)
EXTENDS BandMap, FiniteSetTheorems, SequenceTheorems, WellFoundedInduction, TLAPS

AnySpot == [id : Nat, key : Keys, value : Values]

(* The spots after the n-th change of the history p.                        *)
SpotsAt(p, n) == IF n = 0 THEN {} ELSE p[n]

IsHistory(p) == p \in Seq(SUBSET AnySpot)

(* Applied to what was shown before the change, the message shows what was  *)
(* there after it.                                                          *)
Tells(m, p) ==
  /\ m.sequence \in 1..Len(p)
  /\ Shown(m, Snapshot(SpotsAt(p, m.sequence - 1))) = Snapshot(SpotsAt(p, m.sequence))

TrueEvents(p) == {e \in [sequence : Nat, gone : BOOLEAN, spot : AnySpot] : Tells(MessageOf(e), p)}

SpotMessages == [type : {"bandmap_spot"}, sequence : Nat, spot : AnySpot]
GoneMessages == [type : {"bandmap_spot_deleted"}, sequence : Nat, id : Nat]
SequenceMessages == [type : {"bandmap_sequence"}, sequence : Nat, lagged : BOOLEAN]

TrueMessages(p) ==
  {m \in SpotMessages \cup GoneMessages \cup SequenceMessages :
     m.sequence <= Len(p) /\ (Reported(m) \/ Tells(m, p))}

(* A spot has its id and its key for itself.                                *)
Distinct(spots) == \A s, t \in spots : s.id = t.id \/ s.key = t.key => s = t

StoreOK(spots, nextId, sequence, p) ==
  /\ IsHistory(p) /\ sequence = Len(p) /\ spots = SpotsAt(p, Len(p))
  /\ spots \subseteq AnySpot /\ IsFiniteSet(spots) /\ Distinct(spots)
  /\ nextId \in Nat /\ \A s \in spots : s.id <= nextId

Extends(p, q) == Len(p) <= Len(q) /\ \A n \in 1..Len(p) : q[n] = p[n]

IsDraft(d) ==
  /\ d = [spots |-> d.spots, nextId |-> d.nextId, sequence |-> d.sequence,
          events |-> d.events, past |-> d.past]
  /\ StoreOK(d.spots, d.nextId, d.sequence, d.past)
  /\ d.events \in Seq(TrueEvents(d.past))

-----------------------------------------------------------------------------
(* Recursion over a sequence.                                               *)

LEMMA LeastExists ==
  ASSUME NEW S, S \subseteq Nat, S # {}
  PROVE  \E n \in S : \A m \in S : n <= m
<1>1. PICK x \in S : \A y \in S : ~(<<y, x>> \in OpToRel(<, Nat))
  BY WFMin, NatLessThanWellFounded
<1>2. \A y \in S : ~(y < x)
  <2>1. \A y \in S : <<y, x>> \in Nat \X Nat
    OBVIOUS
  <2> QED BY <1>1, <2>1 DEF OpToRel
<1> QED BY <1>2

(* A set that has 0 and with each number the next one has them all.         *)
LEMMA Induction ==
  ASSUME NEW S, NEW k \in Nat, 0 \in S, \A n \in 0..(k - 1) : n \in S => n + 1 \in S
  PROVE  \A n \in 0..k : n \in S
<1> DEFINE Bad == {n \in Nat : n <= k /\ n \notin S}
<1>1. SUFFICES ASSUME Bad # {} PROVE FALSE
  OBVIOUS
<1>2. PICK n \in Bad : \A m \in Bad : n <= m
  <2>1. Bad \subseteq Nat
    OBVIOUS
  <2> HIDE DEF Bad
  <2> QED BY <1>1, <2>1, LeastExists
<1>3. n \in Nat /\ n <= k /\ n \notin S /\ n # 0
  BY <1>2
<1>4. n - 1 \in Nat /\ n - 1 \notin Bad
  BY <1>2, <1>3
<1>5. n - 1 \in S
  BY <1>3, <1>4
<1>6. n - 1 \in 0..(k - 1) /\ (n - 1) + 1 = n
  BY <1>3
<1> QED BY <1>3, <1>5, <1>6

LEMMA RemovedFunction ==
  ASSUME NEW d, NEW spots, Len(spots) \in Nat
  PROVE  \E f : /\ f = [i \in 0..Len(spots) |-> IF i = 0 THEN d ELSE Removed(f[i - 1], spots[i])]
                /\ RemovedAll(d, spots) = f[Len(spots)]
<1> DEFINE Is(f, n) == f = [i \in 0..n |-> IF i = 0 THEN d ELSE Removed(f[i - 1], spots[i])]
           Good == {n \in Nat : \E f : Is(f, n)}
           k == Len(spots)
<1>1. 0 \in Good
  <2>1. Is([i \in 0..0 |-> d], 0)
    OBVIOUS
  <2> QED BY <2>1
<1>2. ASSUME NEW n \in 0..(k - 1), n \in Good
      PROVE  n + 1 \in Good
  <2>1. PICK f : Is(f, n)
    BY <1>2
  <2> DEFINE m == n + 1
             g == [i \in 0..m |-> IF i = m THEN Removed(f[n], spots[m]) ELSE f[i]]
  <2>2. m \in Nat /\ m - 1 = n /\ m # 0
    OBVIOUS
  <2>3. \A i \in 0..n : g[i] = f[i]
    BY <2>2
  <2>4. ASSUME NEW i \in 0..m
        PROVE  g[i] = IF i = 0 THEN d ELSE Removed(g[i - 1], spots[i])
    <3>1. CASE i = m
      BY <2>2, <2>3, <3>1
    <3>2. CASE i # m
      <4>1. i \in 0..n /\ (i # 0 => i - 1 \in 0..n)
        BY <3>2
      <4>2. f[i] = IF i = 0 THEN d ELSE Removed(f[i - 1], spots[i])
        BY <2>1, <4>1
      <4> QED BY <2>3, <4>1, <4>2
    <3> QED BY <3>1, <3>2
  <2>5. g = [i \in 0..m |-> g[i]]
    OBVIOUS
  <2>6. Is(g, m)
    <3> HIDE DEF g, m
    <3> QED BY <2>4, <2>5
  <2> QED BY <2>2, <2>6
<1>3. k \in Good
  <2>1. k \in Nat /\ k \in 0..k
    OBVIOUS
  <2> HIDE DEF Good, k
  <2> QED BY <1>1, <1>2, <2>1, Induction
<1>4. PICK f : Is(f, Len(spots))
  BY <1>3
<1>5. \E g : Is(g, Len(spots)) /\ RemovedAll(d, spots) = g[Len(spots)]
  BY <1>4 DEF RemovedAll
<1> QED BY <1>5

LEMMA UpsertedFunction ==
  ASSUME NEW d, NEW all, Len(all) \in Nat
  PROVE  \E f : /\ f = [i \in 0..Len(all) |-> IF i = 0 THEN d ELSE Upserted(f[i - 1], all[i])]
                /\ UpsertedAll(d, all) = f[Len(all)]
<1> DEFINE Is(f, n) == f = [i \in 0..n |-> IF i = 0 THEN d ELSE Upserted(f[i - 1], all[i])]
           Good == {n \in Nat : \E f : Is(f, n)}
           k == Len(all)
<1>1. 0 \in Good
  <2>1. Is([i \in 0..0 |-> d], 0)
    OBVIOUS
  <2> QED BY <2>1
<1>2. ASSUME NEW n \in 0..(k - 1), n \in Good
      PROVE  n + 1 \in Good
  <2>1. PICK f : Is(f, n)
    BY <1>2
  <2> DEFINE m == n + 1
             g == [i \in 0..m |-> IF i = m THEN Upserted(f[n], all[m]) ELSE f[i]]
  <2>2. m \in Nat /\ m - 1 = n /\ m # 0
    OBVIOUS
  <2>3. \A i \in 0..n : g[i] = f[i]
    BY <2>2
  <2>4. ASSUME NEW i \in 0..m
        PROVE  g[i] = IF i = 0 THEN d ELSE Upserted(g[i - 1], all[i])
    <3>1. CASE i = m
      BY <2>2, <2>3, <3>1
    <3>2. CASE i # m
      <4>1. i \in 0..n /\ (i # 0 => i - 1 \in 0..n)
        BY <3>2
      <4>2. f[i] = IF i = 0 THEN d ELSE Upserted(f[i - 1], all[i])
        BY <2>1, <4>1
      <4> QED BY <2>3, <4>1, <4>2
    <3> QED BY <3>1, <3>2
  <2>5. g = [i \in 0..m |-> g[i]]
    OBVIOUS
  <2>6. Is(g, m)
    <3> HIDE DEF g, m
    <3> QED BY <2>4, <2>5
  <2> QED BY <2>2, <2>6
<1>3. k \in Good
  <2>1. k \in Nat /\ k \in 0..k
    OBVIOUS
  <2> HIDE DEF Good, k
  <2> QED BY <1>1, <1>2, <2>1, Induction
<1>4. PICK f : Is(f, Len(all))
  BY <1>3
<1>5. \E g : Is(g, Len(all)) /\ UpsertedAll(d, all) = g[Len(all)]
  BY <1>4 DEF UpsertedAll
<1> QED BY <1>5

LEMMA AppliedFunction ==
  ASSUME NEW view, NEW messages, Len(messages) \in Nat
  PROVE  \E f : /\ f = [i \in 0..Len(messages) |-> IF i = 0 THEN view ELSE Applied(f[i - 1], messages[i])]
                /\ AppliedAll(view, messages) = f[Len(messages)]
<1> DEFINE Is(f, n) == f = [i \in 0..n |-> IF i = 0 THEN view ELSE Applied(f[i - 1], messages[i])]
           Good == {n \in Nat : \E f : Is(f, n)}
           k == Len(messages)
<1>1. 0 \in Good
  <2>1. Is([i \in 0..0 |-> view], 0)
    OBVIOUS
  <2> QED BY <2>1
<1>2. ASSUME NEW n \in 0..(k - 1), n \in Good
      PROVE  n + 1 \in Good
  <2>1. PICK f : Is(f, n)
    BY <1>2
  <2> DEFINE m == n + 1
             g == [i \in 0..m |-> IF i = m THEN Applied(f[n], messages[m]) ELSE f[i]]
  <2>2. m \in Nat /\ m - 1 = n /\ m # 0
    OBVIOUS
  <2>3. \A i \in 0..n : g[i] = f[i]
    BY <2>2
  <2>4. ASSUME NEW i \in 0..m
        PROVE  g[i] = IF i = 0 THEN view ELSE Applied(g[i - 1], messages[i])
    <3>1. CASE i = m
      BY <2>2, <2>3, <3>1
    <3>2. CASE i # m
      <4>1. i \in 0..n /\ (i # 0 => i - 1 \in 0..n)
        BY <3>2
      <4>2. f[i] = IF i = 0 THEN view ELSE Applied(f[i - 1], messages[i])
        BY <2>1, <4>1
      <4> QED BY <2>3, <4>1, <4>2
    <3> QED BY <3>1, <3>2
  <2>5. g = [i \in 0..m |-> g[i]]
    OBVIOUS
  <2>6. Is(g, m)
    <3> HIDE DEF g, m
    <3> QED BY <2>4, <2>5
  <2> QED BY <2>2, <2>6
<1>3. k \in Good
  <2>1. k \in Nat /\ k \in 0..k
    OBVIOUS
  <2> HIDE DEF Good, k
  <2> QED BY <1>1, <1>2, <2>1, Induction
<1>4. PICK f : Is(f, Len(messages))
  BY <1>3
<1>5. \E g : Is(g, Len(messages)) /\ AppliedAll(view, messages) = g[Len(messages)]
  BY <1>4 DEF AppliedAll
<1> QED BY <1>5

-----------------------------------------------------------------------------
(* The history only grows.                                                  *)

LEMMA ExtendsTells ==
  ASSUME NEW p, NEW q, IsHistory(p), IsHistory(q), Extends(p, q), NEW m, Tells(m, p)
  PROVE  Tells(m, q)
<1>1. Len(p) \in Nat /\ Len(q) \in Nat /\ m.sequence \in 1..Len(p) /\ m.sequence \in 1..Len(q)
  BY DEF IsHistory, Extends, Tells
<1>2. SpotsAt(q, m.sequence) = SpotsAt(p, m.sequence)
  BY <1>1 DEF SpotsAt, Extends
<1>3. SpotsAt(q, m.sequence - 1) = SpotsAt(p, m.sequence - 1)
  BY <1>1 DEF SpotsAt, Extends
<1> QED BY <1>1, <1>2, <1>3 DEF Tells

LEMMA ExtendsTruth ==
  ASSUME NEW p, NEW q, IsHistory(p), IsHistory(q), Extends(p, q)
  PROVE  TrueEvents(p) \subseteq TrueEvents(q) /\ TrueMessages(p) \subseteq TrueMessages(q)
<1>1. Len(p) \in Nat /\ Len(q) \in Nat /\ Len(p) <= Len(q)
  BY DEF IsHistory, Extends
<1>2. TrueEvents(p) \subseteq TrueEvents(q)
  BY ExtendsTells DEF TrueEvents
<1>3. TrueMessages(p) \subseteq TrueMessages(q)
  <2>1. \A m \in SpotMessages \cup GoneMessages \cup SequenceMessages : m.sequence \in Nat
    BY DEF SpotMessages, GoneMessages, SequenceMessages
  <2> QED BY <1>1, <2>1, ExtendsTells DEF TrueMessages
<1> QED BY <1>2, <1>3

LEMMA ExtendsOnce ==
  ASSUME NEW p, IsHistory(p), NEW spots \in SUBSET AnySpot
  PROVE  /\ IsHistory(Append(p, spots)) /\ Extends(p, Append(p, spots))
         /\ Len(Append(p, spots)) = Len(p) + 1 /\ SpotsAt(Append(p, spots), Len(p) + 1) = spots
         /\ \A n \in 0..Len(p) : SpotsAt(Append(p, spots), n) = SpotsAt(p, n)
<1>1. p \in Seq(SUBSET AnySpot)
  BY DEF IsHistory
<1>2. /\ Append(p, spots) \in Seq(SUBSET AnySpot) /\ Len(Append(p, spots)) = Len(p) + 1
      /\ Append(p, spots)[Len(p) + 1] = spots
      /\ \A n \in 1..Len(p) : Append(p, spots)[n] = p[n]
  BY <1>1, AppendProperties
<1>3. Len(p) \in Nat
  BY <1>1
<1> QED BY <1>1, <1>2, <1>3 DEF IsHistory, Extends, SpotsAt

LEMMA ExtendsTransitive ==
  ASSUME NEW p, NEW q, NEW r, IsHistory(p), IsHistory(q), IsHistory(r), Extends(p, q), Extends(q, r)
  PROVE  Extends(p, r)
<1>1. Len(p) \in Nat /\ Len(q) \in Nat /\ Len(r) \in Nat
  BY DEF IsHistory
<1> QED BY <1>1 DEF Extends

-----------------------------------------------------------------------------
(* A change of the store.                                                   *)

LEMMA ChangedRecord ==
  ASSUME NEW d, NEW gone, NEW spot, NEW spots,
         d = [spots |-> d.spots, nextId |-> d.nextId, sequence |-> d.sequence,
              events |-> d.events, past |-> d.past]
  PROVE  LET e == [sequence |-> d.sequence + 1, gone |-> gone, spot |-> spot]
         IN  Changed(d, gone, spot, spots) =
               [spots |-> spots, nextId |-> d.nextId, sequence |-> d.sequence + 1,
                events |-> Append(d.events, e), past |-> Append(d.past, spots)]
<1> DEFINE e == [sequence |-> d.sequence + 1, gone |-> gone, spot |-> spot]
           more == Append(d.events, e)
           sequence == d.sequence + 1
           q == Append(d.past, spots)
           d1 == [d EXCEPT !.spots = spots]
           d2 == [d1 EXCEPT !.sequence = sequence]
           d3 == [d2 EXCEPT !.past = q]
           d4 == [d3 EXCEPT !.events = more]
<1>1. Changed(d, gone, spot, spots) = d4
  BY DEF Changed
<1> HIDE DEF e, more, sequence, q
<1>2. d1 = [spots |-> spots, nextId |-> d.nextId, sequence |-> d.sequence,
            events |-> d.events, past |-> d.past]
  OBVIOUS
<1> HIDE DEF d1
<1>3. d2 = [spots |-> spots, nextId |-> d.nextId, sequence |-> sequence,
            events |-> d.events, past |-> d.past]
  BY <1>2
<1> HIDE DEF d2
<1>4. d3 = [spots |-> spots, nextId |-> d.nextId, sequence |-> sequence,
            events |-> d.events, past |-> q]
  BY <1>3
<1> HIDE DEF d3
<1>5. d4 = [spots |-> spots, nextId |-> d.nextId, sequence |-> sequence,
            events |-> more, past |-> q]
  BY <1>4
<1> HIDE DEF d4
<1> QED BY <1>1, <1>5 DEF e, more, sequence, q

LEMMA ChangeIsTold ==
  ASSUME NEW d, IsDraft(d), NEW gone \in BOOLEAN, NEW spot \in AnySpot, NEW spots \in SUBSET AnySpot,
         IsFiniteSet(spots), Distinct(spots), \A s \in spots : s.id <= d.nextId,
         LET e == [sequence |-> d.sequence + 1, gone |-> gone, spot |-> spot]
         IN  Shown(MessageOf(e), Snapshot(d.spots)) = Snapshot(spots)
  PROVE  LET c == Changed(d, gone, spot, spots)
         IN  /\ IsDraft(c) /\ Extends(d.past, c.past)
             /\ c.spots = spots /\ c.nextId = d.nextId
<1> DEFINE e == [sequence |-> d.sequence + 1, gone |-> gone, spot |-> spot]
           p == d.past
           q == Append(p, spots)
           events == Append(d.events, e)
           sequence == d.sequence + 1
           c == Changed(d, gone, spot, spots)
<1>1. /\ StoreOK(d.spots, d.nextId, d.sequence, p) /\ d.events \in Seq(TrueEvents(p))
      /\ d = [spots |-> d.spots, nextId |-> d.nextId, sequence |-> d.sequence,
              events |-> d.events, past |-> d.past]
  BY DEF IsDraft
<1>2. c = [spots |-> spots, nextId |-> d.nextId, sequence |-> sequence, events |-> events, past |-> q]
  BY <1>1, ChangedRecord
<1>3. /\ IsHistory(p) /\ IsHistory(q) /\ Extends(p, q) /\ Len(q) = Len(p) + 1
      /\ SpotsAt(q, Len(p) + 1) = spots /\ SpotsAt(q, Len(p)) = SpotsAt(p, Len(p))
      /\ Len(p) \in Nat /\ d.sequence = Len(p) /\ d.spots = SpotsAt(p, Len(p))
  <2>1. IsHistory(p) /\ Len(p) \in Nat /\ d.sequence = Len(p) /\ d.spots = SpotsAt(p, Len(p))
    BY <1>1 DEF StoreOK, IsHistory
  <2>2. Len(p) \in 0..Len(p)
    BY <2>1
  <2> QED BY <2>1, <2>2, ExtendsOnce
<1>4. StoreOK(spots, d.nextId, sequence, q)
  BY <1>1, <1>3 DEF StoreOK
<1>5. e \in TrueEvents(q)
  <2>1. MessageOf(e).sequence = Len(p) + 1
    BY <1>3 DEF MessageOf, SequenceMessage
  <2>2. (Len(p) + 1) - 1 = Len(p) /\ Len(p) + 1 \in 1..Len(q)
    BY <1>3
  <2>3. Tells(MessageOf(e), q)
    BY <1>3, <2>1, <2>2 DEF Tells
  <2>4. e \in [sequence : Nat, gone : BOOLEAN, spot : AnySpot]
    BY <1>3
  <2> QED BY <2>3, <2>4 DEF TrueEvents
<1>6. events \in Seq(TrueEvents(q))
  <2>1. d.events \in Seq(TrueEvents(q))
    BY <1>1, <1>3, ExtendsTruth, SeqMonotonic
  <2> QED BY <1>5, <2>1, AppendProperties
<1> HIDE DEF e, q, events, sequence
<1> QED BY <1>2, <1>3, <1>4, <1>6 DEF IsDraft

LEMMA RemovedKeeps ==
  ASSUME NEW d, IsDraft(d), NEW spot \in d.spots
  PROVE  LET c == Removed(d, spot)
         IN  /\ IsDraft(c) /\ Extends(d.past, c.past)
             /\ c.spots = d.spots \ {spot} /\ c.nextId = d.nextId
<1>1. StoreOK(d.spots, d.nextId, d.sequence, d.past)
  BY DEF IsDraft
<1> DEFINE spots == d.spots \ {spot}
           e == [sequence |-> d.sequence + 1, gone |-> TRUE, spot |-> spot]
<1>2. /\ spots \in SUBSET AnySpot /\ IsFiniteSet(spots) /\ Distinct(spots)
      /\ \A s \in spots : s.id <= d.nextId
  <2>1. IsFiniteSet(spots)
    BY <1>1, FS_RemoveElement DEF StoreOK
  <2> QED BY <1>1, <2>1 DEF StoreOK, Distinct
<1>3. Shown(MessageOf(e), Snapshot(d.spots)) = Snapshot(spots)
  <2>1. MessageOf(e) = [type |-> "bandmap_spot_deleted", sequence |-> d.sequence + 1, id |-> spot.id]
    BY DEF MessageOf
  <2>2. \A S : Shown(MessageOf(e), S) = {s \in S : s.id # spot.id}
    <3> DEFINE m == MessageOf(e)
    <3>1. m.type = "bandmap_spot_deleted" /\ m.id = spot.id
      BY <2>1
    <3> HIDE DEF m
    <3>2. \A S : Shown(m, S) = {s \in S : s.id # spot.id}
      BY <3>1 DEF Shown
    <3> QED BY <3>2 DEF m
  <2>3. \A s \in d.spots : s.id = spot.id => s = spot
    BY <1>1 DEF StoreOK, Distinct
  <2> HIDE DEF e
  <2> QED BY <2>2, <2>3 DEF Snapshot
<1>4. spot \in AnySpot
  BY <1>1 DEF StoreOK
<1> QED BY <1>2, <1>3, <1>4, ChangeIsTold DEF Removed

LEMMA UpsertedKeeps ==
  ASSUME NEW d, IsDraft(d), NEW c \in Keys \X Values
  PROVE  IsDraft(Upserted(d, c)) /\ Extends(d.past, Upserted(d, c).past)
<1> DEFINE old == {s \in d.spots : s.key = c[1]}
           id == IF old = {} THEN d.nextId + 1 ELSE (CHOOSE s \in old : TRUE).id
           spot == [id |-> id, key |-> c[1], value |-> c[2]]
           spots == (d.spots \ old) \cup {spot}
           b == [d EXCEPT !.nextId = IF old = {} THEN id ELSE @]
           e == [sequence |-> b.sequence + 1, gone |-> FALSE, spot |-> spot]
<1>1. /\ StoreOK(d.spots, d.nextId, d.sequence, d.past) /\ d.events \in Seq(TrueEvents(d.past))
      /\ d = [spots |-> d.spots, nextId |-> d.nextId, sequence |-> d.sequence,
              events |-> d.events, past |-> d.past]
  BY DEF IsDraft
<1>2. /\ d.nextId \in Nat /\ \A s \in d.spots : s.id \in Nat /\ s.id <= d.nextId
      /\ d.spots \subseteq AnySpot /\ Distinct(d.spots) /\ IsFiniteSet(d.spots)
  BY <1>1 DEF StoreOK, AnySpot
<1>3. /\ id \in Nat
      /\ old = {} => id = d.nextId + 1 /\ \A s \in d.spots : s.id # id
      /\ old # {} => /\ id <= d.nextId
                     /\ \A s \in d.spots : s.id = id <=> s \in old
  <2>1. CASE old = {}
    BY <1>2, <2>1
  <2>2. CASE old # {}
    <3>1. PICK s \in old : s = CHOOSE t \in old : TRUE
      BY <2>2
    <3>2. id = s.id
      BY <2>2, <3>1
    <3>3. \A t \in old : t = s
      BY <1>2 DEF Distinct
    <3> QED BY <1>2, <2>2, <3>2, <3>3 DEF Distinct
  <2> QED BY <2>1, <2>2
<1>4. /\ b = [spots |-> d.spots, nextId |-> b.nextId, sequence |-> d.sequence,
              events |-> d.events, past |-> d.past]
      /\ b.nextId = IF old = {} THEN id ELSE d.nextId
  <2>1. ASSUME NEW spots0, NEW nextId0, NEW sequence0, NEW events0, NEW past0, NEW n,
               NEW x, x = [spots |-> spots0, nextId |-> nextId0, sequence |-> sequence0,
                           events |-> events0, past |-> past0]
        PROVE  [x EXCEPT !.nextId = n] =
                 [spots |-> spots0, nextId |-> n, sequence |-> sequence0,
                  events |-> events0, past |-> past0]
    BY <2>1
  <2>2. b = [d EXCEPT !.nextId = IF old = {} THEN id ELSE d.nextId]
    BY <1>1
  <2> DEFINE n == IF old = {} THEN id ELSE d.nextId
  <2>3. b = [spots |-> d.spots, nextId |-> n, sequence |-> d.sequence,
             events |-> d.events, past |-> d.past]
    <3> HIDE DEF old, id
    <3> QED BY <1>1, <2>1, <2>2
  <2> HIDE DEF n, b
  <2>4. b.nextId = n
    BY <2>3
  <2> QED BY <2>3, <2>4 DEF n
<1>5. /\ b.spots = d.spots /\ b.past = d.past /\ b.events = d.events /\ b.sequence = d.sequence
  <2> HIDE DEF b
  <2> QED BY <1>4
<1>6. c[1] \in Keys /\ c[2] \in Values
  OBVIOUS
<1>7. spot \in AnySpot /\ spot.id = id /\ spot.key = c[1]
  BY <1>3, <1>6 DEF AnySpot
<1> HIDE DEF spot, id, b
<1>8. b.nextId \in Nat /\ (\A s \in d.spots : s.id <= b.nextId) /\ id <= b.nextId
  BY <1>2, <1>3, <1>4
<1>9. IsDraft(b)
  BY <1>1, <1>4, <1>5, <1>8 DEF IsDraft, StoreOK
<1>10. spots \in SUBSET AnySpot /\ IsFiniteSet(spots) /\ \A s \in spots : s.id <= b.nextId
  <2>1. IsFiniteSet(d.spots \ old)
    BY <1>2, FS_Subset
  <2>2. IsFiniteSet(spots)
    BY <2>1, FS_AddElement
  <2> QED BY <1>2, <1>7, <1>8, <2>2
<1>11. Distinct(spots)
  BY <1>2, <1>3, <1>7 DEF Distinct
<1>12. Shown(MessageOf(e), Snapshot(b.spots)) = Snapshot(spots)
  <2>1. CASE Visible(spot)
    <3>1. \A S : Shown(MessageOf(e), S) = {s \in S : s.id # id} \cup {spot}
      <4>1. MessageOf(e) = [type |-> "bandmap_spot", sequence |-> b.sequence + 1, spot |-> spot]
        BY <2>1 DEF MessageOf
      <4> DEFINE m == MessageOf(e)
      <4>2. m.type = "bandmap_spot" /\ m.spot = spot
        BY <4>1
      <4> HIDE DEF m
      <4>3. \A S : Shown(m, S) = {s \in S : s.id # id} \cup {spot}
        BY <1>7, <4>2 DEF Shown
      <4> QED BY <4>3 DEF m
    <3>2. {s \in d.spots : s.id # id} = d.spots \ old
      BY <1>3
    <3>3. Snapshot(spots) = {s \in d.spots : s.id # id /\ Visible(s)} \cup {spot}
      BY <2>1, <3>2 DEF Snapshot
    <3> HIDE DEF e
    <3>4. Shown(MessageOf(e), Snapshot(d.spots)) = {s \in Snapshot(d.spots) : s.id # id} \cup {spot}
      BY <3>1
    <3>5. {s \in Snapshot(d.spots) : s.id # id} = {s \in d.spots : s.id # id /\ Visible(s)}
      BY DEF Snapshot
    <3> HIDE DEF spots
    <3> QED BY <1>5, <3>3, <3>4, <3>5
  <2>2. CASE ~Visible(spot)
    <3>1. \A S : Shown(MessageOf(e), S) = S
      <4> DEFINE m == MessageOf(e)
      <4>1. m.type = "bandmap_sequence"
        BY <2>2 DEF MessageOf, SequenceMessage
      <4> HIDE DEF m
      <4>2. \A S : Shown(m, S) = S
        BY <4>1 DEF Shown
      <4> QED BY <4>2 DEF m
    <3>2. \A s \in old : ~Visible(s)
      BY <1>7, <2>2 DEF Visible
    <3> QED BY <1>5, <2>2, <3>1, <3>2 DEF Snapshot
  <2> QED BY <2>1, <2>2
<1>13. LET u == Changed(b, FALSE, spot, spots) IN IsDraft(u) /\ Extends(b.past, u.past)
  <2> HIDE DEF spots
  <2> QED BY <1>7, <1>9, <1>10, <1>11, <1>12, ChangeIsTold
<1>14. Extends(d.past, d.past)
  BY DEF Extends, StoreOK, IsHistory, IsDraft
<1>15. Upserted(d, c) = IF spot \in old THEN d ELSE Changed(b, FALSE, spot, spots)
  BY DEF Upserted, spot, id, b
<1> HIDE DEF old, spots
<1> QED BY <1>5, <1>13, <1>14, <1>15

-----------------------------------------------------------------------------
(* Whole operations.                                                        *)

LEMMA DraftExtends ==
  ASSUME NEW d, IsDraft(d)
  PROVE  IsHistory(d.past) /\ Len(d.past) \in Nat /\ Extends(d.past, d.past)
<1>1. IsHistory(d.past)
  BY DEF IsDraft, StoreOK
<1>2. Len(d.past) \in Nat
  BY <1>1 DEF IsHistory
<1> QED BY <1>1, <1>2 DEF Extends

LEMMA RemovedAllKeeps ==
  ASSUME NEW d, IsDraft(d), NEW spots, Len(spots) \in Nat,
         \A i \in 1..Len(spots) : spots[i] \in d.spots,
         \A i, j \in 1..Len(spots) : i # j => spots[i] # spots[j]
  PROVE  /\ IsDraft(RemovedAll(d, spots)) /\ Extends(d.past, RemovedAll(d, spots).past)
         /\ RemovedAll(d, spots).spots \subseteq d.spots
<1> DEFINE k == Len(spots)
           Left(i) == d.spots \ {spots[j] : j \in 1..i}
<1>1. PICK f : /\ f = [i \in 0..k |-> IF i = 0 THEN d ELSE Removed(f[i - 1], spots[i])]
               /\ RemovedAll(d, spots) = f[k]
  BY RemovedFunction
<1> DEFINE Good == {i \in 0..k : /\ IsDraft(f[i]) /\ Extends(d.past, f[i].past)
                                 /\ f[i].spots = Left(i)}
<1> HIDE DEF k
<1>2. k \in Nat
  BY DEF k
<1>3. 0 \in Good
  <2>1. f[0] = d /\ 0 \in 0..k
    BY <1>1, <1>2
  <2>2. Left(0) = d.spots
    OBVIOUS
  <2> QED BY <2>1, <2>2, DraftExtends
<1>4. ASSUME NEW n \in 0..(k - 1), n \in Good
      PROVE  n + 1 \in Good
  <2> DEFINE m == n + 1
  <2>1. m \in 1..k /\ m \in 0..k /\ m # 0 /\ m - 1 = n /\ n \in Nat
    BY <1>2
  <2>2. f[m] = Removed(f[n], spots[m])
    BY <1>1, <2>1
  <2>3. spots[m] \in d.spots /\ \A j \in 1..n : spots[j] # spots[m]
    BY <2>1 DEF k
  <2>4. IsDraft(f[n]) /\ Extends(d.past, f[n].past) /\ f[n].spots = Left(n)
    BY <1>4
  <2>5. spots[m] \in f[n].spots
    BY <2>3, <2>4
  <2>6. 1..m = (1..n) \cup {m}
    BY <2>1
  <2> HIDE DEF m
  <2>7. IsDraft(f[m]) /\ Extends(f[n].past, f[m].past) /\ f[m].spots = f[n].spots \ {spots[m]}
    BY <2>2, <2>4, <2>5, RemovedKeeps
  <2>8. f[m].spots = Left(m)
    BY <2>4, <2>6, <2>7
  <2>9. Extends(d.past, f[m].past)
    BY <2>4, <2>7, DraftExtends, ExtendsTransitive
  <2>10. m \in Good
    BY <2>1, <2>7, <2>8, <2>9
  <2> QED BY <2>10 DEF m
<1>5. k \in Good
  <2>1. k \in 0..k
    BY <1>2
  <2> HIDE DEF Good
  <2> QED BY <1>2, <1>3, <1>4, <2>1, Induction
<1> QED BY <1>1, <1>5

LEMMA UpsertedAllKeeps ==
  ASSUME NEW d, IsDraft(d), NEW all, Len(all) \in Nat,
         \A i \in 1..Len(all) : all[i] \in Keys \X Values
  PROVE  IsDraft(UpsertedAll(d, all)) /\ Extends(d.past, UpsertedAll(d, all).past)
<1> DEFINE k == Len(all)
<1>1. PICK f : /\ f = [i \in 0..k |-> IF i = 0 THEN d ELSE Upserted(f[i - 1], all[i])]
               /\ UpsertedAll(d, all) = f[k]
  BY UpsertedFunction
<1> DEFINE Good == {i \in 0..k : IsDraft(f[i]) /\ Extends(d.past, f[i].past)}
<1> HIDE DEF k
<1>2. k \in Nat
  BY DEF k
<1>3. 0 \in Good
  <2>1. f[0] = d /\ 0 \in 0..k
    BY <1>1, <1>2
  <2> QED BY <2>1, DraftExtends
<1>4. ASSUME NEW n \in 0..(k - 1), n \in Good
      PROVE  n + 1 \in Good
  <2> DEFINE m == n + 1
  <2>1. m \in 1..k /\ m \in 0..k /\ m # 0 /\ m - 1 = n
    BY <1>2
  <2>2. f[m] = Upserted(f[n], all[m])
    BY <1>1, <2>1
  <2>3. all[m] \in Keys \X Values
    BY <2>1 DEF k
  <2>4. IsDraft(f[n]) /\ Extends(d.past, f[n].past)
    BY <1>4
  <2> HIDE DEF m
  <2>5. IsDraft(f[m]) /\ Extends(f[n].past, f[m].past)
    BY <2>2, <2>3, <2>4, UpsertedKeeps
  <2>6. Extends(d.past, f[m].past)
    BY <2>4, <2>5, DraftExtends, ExtendsTransitive
  <2>7. m \in Good
    BY <2>1, <2>5, <2>6
  <2> QED BY <2>7 DEF m
<1>5. k \in Good
  <2>1. k \in 0..k
    BY <1>2
  <2> HIDE DEF Good
  <2> QED BY <1>2, <1>3, <1>4, <2>1, Induction
<1> QED BY <1>1, <1>5

LEMMA OrderOf ==
  ASSUME NEW S, IsFiniteSet(S), NEW order \in SetToSeqs(S)
  PROVE  /\ Len(order) \in Nat /\ \A i \in 1..Len(order) : order[i] \in S
         /\ \A i, j \in 1..Len(order) : i # j => order[i] # order[j]
<1>1. Cardinality(S) \in Nat
  BY FS_CardinalityType
<1> DEFINE n == Cardinality(S)
<1>2. order \in [1..n -> S] /\ \A i, j \in 1..n : i # j => order[i] # order[j]
  BY DEF SetToSeqs
<1> HIDE DEF n
<1>3. order \in Seq(S) /\ Len(order) = n
  <2>1. order \in Seq(S)
    BY <1>1, <1>2 DEF n
  <2> QED BY <1>1, <1>2, <2>1, LenProperties DEF n
<1> QED BY <1>1, <1>2, <1>3 DEF n

LEMMA OneOfOrders ==
  ASSUME NEW S, IsFiniteSet(S), NEW order \in Orders(S)
  PROVE  /\ Len(order) \in Nat /\ \A i \in 1..Len(order) : order[i] \in S
         /\ \A i, j \in 1..Len(order) : i # j => order[i] # order[j]
<1>1. PICK s \in SUBSET S : order \in SetToSeqs(s)
  BY DEF Orders
<1>2. IsFiniteSet(s)
  BY <1>1, FS_Subset
<1> QED BY <1>1, <1>2, OrderOf

-----------------------------------------------------------------------------
(* The messages and the window.                                             *)

ViewOK(v, p) ==
  /\ v = [shown |-> v.shown, sequence |-> v.sequence, misled |-> v.misled, gap |-> v.gap]
  /\ v.sequence \in 0..Len(p)
  /\ ~v.misled => v.shown = Snapshot(SpotsAt(p, v.sequence))

Fetches(p) == [current : BOOLEAN, snapshot : {Unserved} \cup 0..Len(p)]

WinParts(x, p) ==
  /\ x = [enabled |-> x.enabled, status |-> x.status, sequence |-> x.sequence,
          buffered |-> x.buffered, inFlight |-> x.inFlight, fetches |-> x.fetches,
          shown |-> x.shown, readies |-> x.readies, failed |-> x.failed, misled |-> x.misled]
  /\ x.sequence \in 0..Len(p)
  /\ x.buffered \in Seq(TrueMessages(p)) /\ x.fetches \in Seq(Fetches(p))

WinOK(x, p) ==
  /\ WinParts(x, p)
  /\ x.status = "live" /\ ~x.misled => x.shown = Snapshot(SpotsAt(p, x.sequence))

ConnOK(c, p) ==
  /\ c = [open |-> c.open, commands |-> c.commands, enabled |-> c.enabled, feed |-> c.feed,
          lagged |-> c.lagged, held |-> c.held, readying |-> c.readying, wire |-> c.wire]
  /\ c.feed \in Seq(TrueEvents(p))
  /\ c.held = NoMessage \/ c.held \in TrueMessages(p)
  /\ c.wire \in Seq(TrueMessages(p) \cup {Ready})

LEMMA EventTells ==
  ASSUME NEW p, IsHistory(p), NEW e \in TrueEvents(p)
  PROVE  MessageOf(e) \in TrueMessages(p)
<1>1. /\ e.sequence \in Nat /\ e.gone \in BOOLEAN /\ e.spot \in AnySpot /\ e.spot.id \in Nat
      /\ Tells(MessageOf(e), p)
  BY DEF TrueEvents, AnySpot
<1>2. MessageOf(e) \in SpotMessages \cup GoneMessages \cup SequenceMessages
  <2>1. CASE e.gone
    BY <1>1, <2>1 DEF MessageOf, GoneMessages
  <2>2. CASE ~e.gone /\ Visible(e.spot)
    BY <1>1, <2>2 DEF MessageOf, SpotMessages
  <2>3. CASE ~e.gone /\ ~Visible(e.spot)
    BY <1>1, <2>3 DEF MessageOf, SequenceMessages, SequenceMessage
  <2> QED BY <2>1, <2>2, <2>3
<1>3. MessageOf(e).sequence \in 1..Len(p) /\ Len(p) \in Nat
  BY <1>1 DEF Tells, IsHistory
<1> HIDE DEF MessageOf
<1> QED BY <1>1, <1>2, <1>3 DEF TrueMessages

LEMMA AppliedKeeps ==
  ASSUME NEW p, IsHistory(p), NEW v, ViewOK(v, p), NEW m \in TrueMessages(p)
  PROVE  ViewOK(Applied(v, m), p)
<1>1. m.sequence \in Nat /\ m.sequence <= Len(p) /\ (Reported(m) \/ Tells(m, p)) /\ Len(p) \in Nat
  BY DEF TrueMessages, SpotMessages, GoneMessages, SequenceMessages, IsHistory
<1>2. /\ v = [shown |-> v.shown, sequence |-> v.sequence, misled |-> v.misled, gap |-> v.gap]
      /\ v.sequence \in Nat
      /\ ~v.misled => v.shown = Snapshot(SpotsAt(p, v.sequence))
  BY DEF ViewOK
<1>3. CASE v.gap \/ m.sequence <= v.sequence
  BY <1>3 DEF Applied
<1>4. CASE ~v.gap /\ ~(m.sequence <= v.sequence) /\ m.sequence # v.sequence + 1
  <2>1. Applied(v, m) = [v EXCEPT !.gap = TRUE]
    BY <1>4 DEF Applied
  <2>2. Applied(v, m) = [shown |-> v.shown, sequence |-> v.sequence, misled |-> v.misled, gap |-> TRUE]
    BY <1>2, <2>1
  <2> QED BY <1>1, <2>2 DEF ViewOK
<1>5. CASE ~v.gap /\ ~(m.sequence <= v.sequence) /\ m.sequence = v.sequence + 1
  <2> DEFINE shown == Shown(m, v.shown)
             misled == v.misled \/ Reported(m)
             v1 == [v EXCEPT !.sequence = m.sequence]
             v2 == [v1 EXCEPT !.shown = shown]
             v3 == [v2 EXCEPT !.misled = misled]
  <2>1. Applied(v, m) = v3
    BY <1>5 DEF Applied
  <2>2. ~misled => shown = Snapshot(SpotsAt(p, m.sequence))
    <3>1. m.sequence - 1 = v.sequence
      BY <1>1, <1>2, <1>5
    <3> QED BY <1>1, <1>2, <3>1 DEF Tells
  <2> HIDE DEF shown, misled
  <2>3. v1 = [shown |-> v.shown, sequence |-> m.sequence, misled |-> v.misled, gap |-> v.gap]
    BY <1>2
  <2> HIDE DEF v1
  <2>4. v2 = [shown |-> shown, sequence |-> m.sequence, misled |-> v.misled, gap |-> v.gap]
    BY <2>3
  <2> HIDE DEF v2
  <2>5. v3 = [shown |-> shown, sequence |-> m.sequence, misled |-> misled, gap |-> v.gap]
    BY <2>4
  <2> HIDE DEF v3
  <2> QED BY <1>1, <2>1, <2>2, <2>5 DEF ViewOK
<1> QED BY <1>3, <1>4, <1>5

LEMMA AppliedAllKeeps ==
  ASSUME NEW p, IsHistory(p), NEW v, ViewOK(v, p), NEW messages \in Seq(TrueMessages(p))
  PROVE  ViewOK(AppliedAll(v, messages), p)
<1> DEFINE k == Len(messages)
<1>1. k \in Nat
  OBVIOUS
<1>2. PICK f : /\ f = [i \in 0..k |-> IF i = 0 THEN v ELSE Applied(f[i - 1], messages[i])]
               /\ AppliedAll(v, messages) = f[k]
  BY <1>1, AppliedFunction
<1> DEFINE Good == {i \in 0..k : ViewOK(f[i], p)}
<1> HIDE DEF k
<1>3. 0 \in Good
  <2>1. f[0] = v /\ 0 \in 0..k
    BY <1>1, <1>2
  <2> QED BY <2>1
<1>4. ASSUME NEW n \in 0..(k - 1), n \in Good
      PROVE  n + 1 \in Good
  <2> DEFINE m == n + 1
  <2>1. m \in 1..k /\ m \in 0..k /\ m # 0 /\ m - 1 = n
    BY <1>1
  <2>2. f[m] = Applied(f[n], messages[m])
    BY <1>2, <2>1
  <2>3. messages[m] \in TrueMessages(p)
    BY <2>1, ElementOfSeq DEF k
  <2> HIDE DEF m
  <2>4. ViewOK(f[m], p)
    BY <1>4, <2>2, <2>3, AppliedKeeps
  <2>5. m \in Good
    BY <2>1, <2>4
  <2> QED BY <2>5 DEF m
<1>5. k \in Good
  <2>1. k \in 0..k
    BY <1>1
  <2> HIDE DEF Good
  <2> QED BY <1>1, <1>3, <1>4, <2>1, Induction
<1> QED BY <1>2, <1>5

(* A change of one field keeps the window right; while it is not live, a    *)
(* change of what it shows too.                                             *)
LEMMA FieldKeeps ==
  ASSUME NEW p, NEW x, WinOK(x, p), NEW v
  PROVE  /\ WinOK([x EXCEPT !.enabled = v], p) /\ [x EXCEPT !.enabled = v].status = x.status
         /\ WinOK([x EXCEPT !.inFlight = v], p) /\ [x EXCEPT !.inFlight = v].status = x.status
         /\ WinOK([x EXCEPT !.readies = v], p) /\ [x EXCEPT !.readies = v].status = x.status
         /\ WinOK([x EXCEPT !.failed = v], p) /\ [x EXCEPT !.failed = v].status = x.status
<1>1. WinOK([x EXCEPT !.enabled = v], p) /\ [x EXCEPT !.enabled = v].status = x.status
  BY DEF WinOK, WinParts
<1>2. WinOK([x EXCEPT !.inFlight = v], p) /\ [x EXCEPT !.inFlight = v].status = x.status
  BY DEF WinOK, WinParts
<1>3. WinOK([x EXCEPT !.readies = v], p) /\ [x EXCEPT !.readies = v].status = x.status
  BY DEF WinOK, WinParts
<1>4. WinOK([x EXCEPT !.failed = v], p) /\ [x EXCEPT !.failed = v].status = x.status
  BY DEF WinOK, WinParts
<1> QED BY <1>1, <1>2, <1>3, <1>4

LEMMA BufferedKeeps ==
  ASSUME NEW p, NEW x, WinOK(x, p), NEW b \in Seq(TrueMessages(p))
  PROVE  WinOK([x EXCEPT !.buffered = b], p) /\ [x EXCEPT !.buffered = b].status = x.status
BY DEF WinOK, WinParts

LEMMA FetchesRecord ==
  ASSUME NEW x, NEW f,
     x = [enabled |-> x.enabled, status |-> x.status, sequence |-> x.sequence,
          buffered |-> x.buffered, inFlight |-> x.inFlight, fetches |-> x.fetches,
          shown |-> x.shown, readies |-> x.readies, failed |-> x.failed, misled |-> x.misled]
  PROVE  [x EXCEPT !.fetches = f] =
         [enabled |-> x.enabled, status |-> x.status, sequence |-> x.sequence,
          buffered |-> x.buffered, inFlight |-> x.inFlight, fetches |-> f,
          shown |-> x.shown, readies |-> x.readies, failed |-> x.failed, misled |-> x.misled]
OBVIOUS

LEMMA FetchesKeep ==
  ASSUME NEW p, NEW x, WinOK(x, p), NEW f \in Seq(Fetches(p))
  PROVE  WinOK([x EXCEPT !.fetches = f], p) /\ [x EXCEPT !.fetches = f].status = x.status
<1> DEFINE y == [x EXCEPT !.fetches = f]
<1>1. y = [enabled |-> x.enabled, status |-> x.status, sequence |-> x.sequence,
           buffered |-> x.buffered, inFlight |-> x.inFlight, fetches |-> f,
           shown |-> x.shown, readies |-> x.readies, failed |-> x.failed, misled |-> x.misled]
  <2>1. x = [enabled |-> x.enabled, status |-> x.status, sequence |-> x.sequence,
             buffered |-> x.buffered, inFlight |-> x.inFlight, fetches |-> x.fetches,
             shown |-> x.shown, readies |-> x.readies, failed |-> x.failed, misled |-> x.misled]
    BY DEF WinOK, WinParts
  <2> QED BY <2>1, FetchesRecord
<1> HIDE DEF y
<1>2. WinOK(y, p) /\ y.status = x.status
  BY <1>1 DEF WinOK, WinParts
<1> QED BY <1>2 DEF y

LEMMA StatusKeeps ==
  ASSUME NEW p, NEW x, WinParts(x, p), NEW status, status # "live"
  PROVE  WinOK([x EXCEPT !.status = status], p) /\ [x EXCEPT !.status = status].status # "live"
BY DEF WinOK, WinParts

LEMMA LoadingKeeps ==
  ASSUME NEW p, IsHistory(p), NEW x, WinOK(x, p), x.status # "live", NEW v
  PROVE  /\ WinOK([x EXCEPT !.sequence = 0], p) /\ [x EXCEPT !.sequence = 0].status # "live"
         /\ WinOK([x EXCEPT !.shown = v], p) /\ [x EXCEPT !.shown = v].status # "live"
         /\ WinOK([x EXCEPT !.misled = v], p) /\ [x EXCEPT !.misled = v].status # "live"
<1>1. 0 \in 0..Len(p)
  BY DEF IsHistory
<1>2. WinOK([x EXCEPT !.sequence = 0], p) /\ [x EXCEPT !.sequence = 0].status # "live"
  BY <1>1 DEF WinOK, WinParts
<1>3. WinOK([x EXCEPT !.shown = v], p) /\ [x EXCEPT !.shown = v].status # "live"
  BY DEF WinOK, WinParts
<1>4. WinOK([x EXCEPT !.misled = v], p) /\ [x EXCEPT !.misled = v].status # "live"
  BY DEF WinOK, WinParts
<1> QED BY <1>2, <1>3, <1>4

LEMMA RefreshKeeps ==
  ASSUME NEW p, IsHistory(p), NEW x, WinOK(x, p)
  PROVE  WinOK(Refresh(x), p)
<1> DEFINE new == [current |-> TRUE, snapshot |-> Unserved]
           f == Append(x.fetches, new)
           x1 == [x EXCEPT !.inFlight = TRUE]
           x2 == [x1 EXCEPT !.status = "loading_snapshot"]
           x3 == [x2 EXCEPT !.fetches = f]
<1>1. Refresh(x) = x \/ Refresh(x) = x3
  BY DEF Refresh
<1>2. f \in Seq(Fetches(p))
  <2>1. x.fetches \in Seq(Fetches(p)) /\ new \in Fetches(p)
    BY DEF WinOK, WinParts, Fetches
  <2> HIDE DEF new
  <2> QED BY <2>1, AppendProperties
<1> HIDE DEF f
<1>3. WinOK(x1, p)
  BY FieldKeeps
<1> HIDE DEF x1
<1>4. WinOK(x2, p)
  BY <1>3, StatusKeeps DEF WinOK
<1> HIDE DEF x2
<1>5. WinOK(x3, p)
  BY <1>2, <1>4, FetchesKeep
<1> HIDE DEF x3
<1> QED BY <1>1, <1>5

LEMMA ResetKeeps ==
  ASSUME NEW p, IsHistory(p), NEW x, WinParts(x, p), NEW status, status # "live"
  PROVE  WinOK(Reset(x, status), p) /\ Reset(x, status).status # "live"
<1> DEFINE f == [i \in DOMAIN x.fetches |-> [x.fetches[i] EXCEPT !.current = FALSE]]
           x1 == [x EXCEPT !.status = status]
           x2 == [x1 EXCEPT !.sequence = 0]
           x3 == [x2 EXCEPT !.buffered = <<>>]
           x4 == [x3 EXCEPT !.inFlight = FALSE]
           x5 == [x4 EXCEPT !.fetches = f]
           x6 == [x5 EXCEPT !.readies = 0]
           x7 == [x6 EXCEPT !.failed = FALSE]
           x8 == [x7 EXCEPT !.misled = FALSE]
<1>1. Reset(x, status) = x8
  BY DEF Reset
<1>2. f \in Seq(Fetches(p))
  <2>1. x.fetches \in Seq(Fetches(p))
    BY DEF WinOK, WinParts
  <2>2. Len(x.fetches) \in Nat /\ DOMAIN x.fetches = 1..Len(x.fetches)
    BY <2>1
  <2>3. \A i \in 1..Len(x.fetches) : f[i] \in Fetches(p)
    <3>1. \A g \in Fetches(p) : [g EXCEPT !.current = FALSE] \in Fetches(p)
      BY DEF Fetches
    <3> QED BY <2>1, <2>2, <3>1
  <2>4. f = [i \in 1..Len(x.fetches) |-> f[i]]
    BY <2>2
  <2> HIDE DEF f
  <2>5. f \in [1..Len(x.fetches) -> Fetches(p)]
    BY <2>3, <2>4
  <2> QED BY <2>2, <2>5
<1> HIDE DEF f
<1>3. WinOK(x1, p) /\ x1.status # "live"
  BY StatusKeeps
<1> HIDE DEF x1
<1>4. WinOK(x2, p) /\ x2.status # "live"
  BY <1>3, LoadingKeeps
<1> HIDE DEF x2
<1>5. WinOK(x3, p) /\ x3.status # "live"
  <2>1. <<>> \in Seq(TrueMessages(p))
    OBVIOUS
  <2> QED BY <1>4, <2>1, BufferedKeeps
<1> HIDE DEF x3
<1>6. WinOK(x4, p) /\ x4.status # "live"
  BY <1>5, FieldKeeps
<1> HIDE DEF x4
<1>7. WinOK(x5, p) /\ x5.status # "live"
  BY <1>2, <1>6, FetchesKeep
<1> HIDE DEF x5
<1>8. WinOK(x6, p) /\ x6.status # "live"
  BY <1>7, FieldKeeps
<1> HIDE DEF x6
<1>9. WinOK(x7, p) /\ x7.status # "live"
  BY <1>8, FieldKeeps
<1> HIDE DEF x7
<1>10. WinOK(x8, p) /\ x8.status # "live"
  BY <1>9, LoadingKeeps
<1> HIDE DEF x8
<1> QED BY <1>1, <1>10

LEMMA RestartedKeeps ==
  ASSUME NEW p, IsHistory(p), NEW x, WinOK(x, p)
  PROVE  WinOK(Restarted(x), p)
<1> DEFINE y == [x EXCEPT !.shown = {}]
<1>1. WinParts(y, p)
  <2>1. x = [enabled |-> x.enabled, status |-> x.status, sequence |-> x.sequence,
             buffered |-> x.buffered, inFlight |-> x.inFlight, fetches |-> x.fetches,
             shown |-> x.shown, readies |-> x.readies, failed |-> x.failed, misled |-> x.misled]
    BY DEF WinOK, WinParts
  <2>2. y = [enabled |-> x.enabled, status |-> x.status, sequence |-> x.sequence,
             buffered |-> x.buffered, inFlight |-> x.inFlight, fetches |-> x.fetches,
             shown |-> {}, readies |-> x.readies, failed |-> x.failed, misled |-> x.misled]
    BY <2>1
  <2> HIDE DEF y
  <2> QED BY <2>2 DEF WinOK, WinParts
<1> HIDE DEF y
<1>2. WinOK(Reset(y, "awaiting_ready"), p)
  BY <1>1, ResetKeeps
<1> QED BY <1>2 DEF Restarted, y

LEMMA WithViewKeeps ==
  ASSUME NEW p, NEW x, WinParts(x, p),
         NEW v, ViewOK(v, p)
  PROVE  WinOK(WithView(x, v), p)
<1> DEFINE x1 == [x EXCEPT !.shown = v.shown]
           x2 == [x1 EXCEPT !.sequence = v.sequence]
           x3 == [x2 EXCEPT !.misled = v.misled]
<1>1. WithView(x, v) = x3
  BY DEF WithView
<1>2. x1 = [enabled |-> x.enabled, status |-> x.status, sequence |-> x.sequence,
            buffered |-> x.buffered, inFlight |-> x.inFlight, fetches |-> x.fetches,
            shown |-> v.shown, readies |-> x.readies, failed |-> x.failed, misled |-> x.misled]
  BY DEF WinParts
<1> HIDE DEF x1
<1>3. x2 = [enabled |-> x.enabled, status |-> x.status, sequence |-> v.sequence,
            buffered |-> x.buffered, inFlight |-> x.inFlight, fetches |-> x.fetches,
            shown |-> v.shown, readies |-> x.readies, failed |-> x.failed, misled |-> x.misled]
  BY <1>2
<1> HIDE DEF x2
<1>4. x3 = [enabled |-> x.enabled, status |-> x.status, sequence |-> v.sequence,
            buffered |-> x.buffered, inFlight |-> x.inFlight, fetches |-> x.fetches,
            shown |-> v.shown, readies |-> x.readies, failed |-> x.failed, misled |-> v.misled]
  BY <1>3
<1> HIDE DEF x3
<1> QED BY <1>1, <1>4 DEF WinOK, WinParts, ViewOK

LEMMA LoadedKeeps ==
  ASSUME NEW p, IsHistory(p), p = past, NEW x, WinOK(x, p), NEW n \in 0..Len(p)
  PROVE  WinOK(Loaded(x, n), p)
<1> DEFINE first == View(Snapshot(Past(n)), n, FALSE)
           view == AppliedAll(first, x.buffered)
           x1 == [x EXCEPT !.buffered = <<>>]
           emptied == [x1 EXCEPT !.inFlight = FALSE]
           live == [emptied EXCEPT !.status = "live"]
           again == [Refresh(emptied) EXCEPT !.inFlight = FALSE]
<1>1. Loaded(x, n) = IF view.gap THEN again ELSE WithView(live, view)
  BY DEF Loaded
<1>2. ViewOK(first, p)
  <2>1. Past(n) = SpotsAt(p, n)
    BY DEF Past, SpotsAt
  <2> QED BY <2>1 DEF ViewOK, View
<1> HIDE DEF first
<1>3. ViewOK(view, p)
  <2>1. x.buffered \in Seq(TrueMessages(p))
    BY DEF WinOK, WinParts
  <2> QED BY <1>2, <2>1, AppliedAllKeeps
<1> HIDE DEF view
<1>4. WinOK(x1, p)
  <2>1. <<>> \in Seq(TrueMessages(p))
    OBVIOUS
  <2> QED BY <2>1, BufferedKeeps
<1> HIDE DEF x1
<1>5. WinOK(emptied, p)
  BY <1>4, FieldKeeps
<1> HIDE DEF emptied
<1>6. WinOK(again, p)
  <2> DEFINE r == Refresh(emptied)
  <2>1. WinOK(r, p)
    BY <1>5, RefreshKeeps
  <2> HIDE DEF r
  <2>2. WinOK([r EXCEPT !.inFlight = FALSE], p)
    BY <2>1, FieldKeeps
  <2> QED BY <2>2 DEF r
<1>7. WinOK(WithView(live, view), p)
  <2>1. live = [enabled |-> emptied.enabled, status |-> "live", sequence |-> emptied.sequence,
                buffered |-> emptied.buffered, inFlight |-> emptied.inFlight,
                fetches |-> emptied.fetches, shown |-> emptied.shown,
                readies |-> emptied.readies, failed |-> emptied.failed,
                misled |-> emptied.misled]
    BY <1>5 DEF WinOK, WinParts
  <2> HIDE DEF live
  <2>2. WinParts(live, p)
    BY <1>5, <2>1 DEF WinOK, WinParts
  <2> QED BY <1>3, <2>2, WithViewKeeps
<1> HIDE DEF again, live
<1> QED BY <1>1, <1>6, <1>7

LEMMA HandledKeeps ==
  ASSUME NEW p, IsHistory(p), NEW x, WinOK(x, p), NEW m \in TrueMessages(p) \cup {Ready}
  PROVE  WinOK(Handled(x, m), p)
<1>1. CASE m = Ready
  <2> DEFINE r == Refresh(x)
             more == IF r.readies = 2 THEN 2 ELSE r.readies + 1
  <2>1. Handled(x, m) = x \/ Handled(x, m) = [r EXCEPT !.readies = more]
    BY <1>1 DEF Handled
  <2>2. WinOK(r, p)
    BY RefreshKeeps
  <2> HIDE DEF r, more
  <2>3. WinOK([r EXCEPT !.readies = more], p)
    BY <2>2, FieldKeeps
  <2> QED BY <2>1, <2>3
<1>2. CASE m # Ready /\ x.status # "live"
  <2> DEFINE b == Append(x.buffered, m)
  <2>1. Handled(x, m) = [x EXCEPT !.buffered = b]
    BY <1>2 DEF Handled
  <2>2. b \in Seq(TrueMessages(p))
    BY <1>2, AppendProperties DEF WinOK, WinParts
  <2> HIDE DEF b
  <2> QED BY <2>1, <2>2, BufferedKeeps
<1>3. CASE m # Ready /\ x.status = "live"
  <2> DEFINE first == View(x.shown, x.sequence, x.misled)
             view == Applied(first, m)
             x1 == [x EXCEPT !.status = "loading_snapshot"]
             x2 == [x1 EXCEPT !.buffered = <<>>]
  <2>1. Handled(x, m) = IF view.gap THEN Refresh(x2) ELSE WithView(x, view)
    BY <1>3 DEF Handled
  <2>2. ViewOK(first, p)
    BY <1>3 DEF ViewOK, View, WinOK, WinParts
  <2> HIDE DEF first
  <2>3. ViewOK(view, p)
    BY <1>3, <2>2, AppliedKeeps
  <2> HIDE DEF view
  <2>4. WinOK(x1, p)
    BY StatusKeeps DEF WinOK
  <2> HIDE DEF x1
  <2>5. WinOK(x2, p)
    <3>1. <<>> \in Seq(TrueMessages(p))
      OBVIOUS
    <3> QED BY <2>4, <3>1, BufferedKeeps
  <2> HIDE DEF x2
  <2>6. WinOK(Refresh(x2), p)
    BY <2>5, RefreshKeeps
  <2>7. WinOK(WithView(x, view), p)
    BY <2>3, WithViewKeeps DEF WinOK, WinParts
  <2> QED BY <2>1, <2>6, <2>7
<1> QED BY <1>1, <1>2, <1>3

-----------------------------------------------------------------------------
(* The invariant: every event and every message on its way tells the truth  *)
(* about the change it belongs to, and so what the window shows.            *)

EnvOK ==
  /\ env \in [enabled : BOOLEAN, spotted : SUBSET (Keys \X Values),
              changes : 0..MaxSequence, toggles : Nat, drops : Nat, failures : Nat]
  /\ IsFiniteSet(env.spotted)

BandInv ==
  /\ StoreOK(store.spots, store.nextId, store.sequence, past)
  /\ unsent \in [Writers -> Seq(TrueEvents(past))]
  /\ ConnOK(conn, past)
  /\ WinOK(win, past)
  /\ EnvOK

LEMMA WinGrows ==
  ASSUME NEW p, NEW q, IsHistory(p), IsHistory(q), Extends(p, q), NEW x, WinOK(x, p)
  PROVE  WinOK(x, q)
<1>1. Len(p) \in Nat /\ Len(q) \in Nat /\ Len(p) <= Len(q) /\ \A n \in 1..Len(p) : q[n] = p[n]
  BY DEF IsHistory, Extends
<1>2. x.sequence \in 0..Len(p) /\ SpotsAt(q, x.sequence) = SpotsAt(p, x.sequence)
  BY <1>1 DEF SpotsAt, WinOK, WinParts
<1>3. x.sequence \in 0..Len(q)
  BY <1>1, <1>2
<1>4. x.buffered \in Seq(TrueMessages(q))
  <2>1. x.buffered \in Seq(TrueMessages(p))
    BY DEF WinOK, WinParts
  <2> QED BY <2>1, ExtendsTruth, SeqMonotonic
<1>5. x.fetches \in Seq(Fetches(q))
  <2>1. x.fetches \in Seq(Fetches(p))
    BY DEF WinOK, WinParts
  <2>2. Fetches(p) \subseteq Fetches(q)
    BY <1>1 DEF Fetches
  <2> QED BY <2>1, <2>2, SeqMonotonic
<1> QED BY <1>2, <1>3, <1>4, <1>5 DEF WinOK, WinParts

LEMMA ConnGrows ==
  ASSUME NEW p, NEW q, IsHistory(p), IsHistory(q), Extends(p, q), NEW c, ConnOK(c, p)
  PROVE  ConnOK(c, q)
<1>1. TrueEvents(p) \subseteq TrueEvents(q) /\ TrueMessages(p) \subseteq TrueMessages(q)
  BY ExtendsTruth
<1>2. c.feed \in Seq(TrueEvents(p)) /\ c.wire \in Seq(TrueMessages(p) \cup {Ready})
  BY DEF ConnOK
<1>3. c.feed \in Seq(TrueEvents(q))
  BY <1>1, <1>2, SeqMonotonic
<1>4. c.wire \in Seq(TrueMessages(q) \cup {Ready})
  <2>1. TrueMessages(p) \cup {Ready} \subseteq TrueMessages(q) \cup {Ready}
    BY <1>1
  <2> HIDE DEF Ready
  <2> QED BY <1>2, <2>1, SeqMonotonic
<1> QED BY <1>1, <1>3, <1>4 DEF ConnOK

LEMMA ConnFieldKeeps ==
  ASSUME NEW p, NEW c, ConnOK(c, p), NEW v
  PROVE  /\ ConnOK([c EXCEPT !.open = v], p)
         /\ ConnOK([c EXCEPT !.commands = v], p)
         /\ ConnOK([c EXCEPT !.enabled = v], p)
         /\ ConnOK([c EXCEPT !.lagged = v], p)
         /\ ConnOK([c EXCEPT !.readying = v], p)
<1>1. ConnOK([c EXCEPT !.open = v], p)
  <2> DEFINE d == [c EXCEPT !.open = v]
  <2>1. c = [open |-> c.open, commands |-> c.commands, enabled |-> c.enabled, feed |-> c.feed,
             lagged |-> c.lagged, held |-> c.held, readying |-> c.readying, wire |-> c.wire]
    BY DEF ConnOK
  <2>2. d = [open |-> v, commands |-> c.commands, enabled |-> c.enabled, feed |-> c.feed,
             lagged |-> c.lagged, held |-> c.held, readying |-> c.readying, wire |-> c.wire]
    BY ONLY <2>1
  <2> HIDE DEF d
  <2>3. ConnOK(d, p)
    BY <2>2 DEF ConnOK
  <2> QED BY <2>3 DEF d
<1>2. ConnOK([c EXCEPT !.commands = v], p)
  <2> DEFINE d == [c EXCEPT !.commands = v]
  <2>1. c = [open |-> c.open, commands |-> c.commands, enabled |-> c.enabled, feed |-> c.feed,
             lagged |-> c.lagged, held |-> c.held, readying |-> c.readying, wire |-> c.wire]
    BY DEF ConnOK
  <2>2. d = [open |-> c.open, commands |-> v, enabled |-> c.enabled, feed |-> c.feed,
             lagged |-> c.lagged, held |-> c.held, readying |-> c.readying, wire |-> c.wire]
    BY ONLY <2>1
  <2> HIDE DEF d
  <2>3. ConnOK(d, p)
    BY <2>2 DEF ConnOK
  <2> QED BY <2>3 DEF d
<1>3. ConnOK([c EXCEPT !.enabled = v], p)
  <2> DEFINE d == [c EXCEPT !.enabled = v]
  <2>1. c = [open |-> c.open, commands |-> c.commands, enabled |-> c.enabled, feed |-> c.feed,
             lagged |-> c.lagged, held |-> c.held, readying |-> c.readying, wire |-> c.wire]
    BY DEF ConnOK
  <2>2. d = [open |-> c.open, commands |-> c.commands, enabled |-> v, feed |-> c.feed,
             lagged |-> c.lagged, held |-> c.held, readying |-> c.readying, wire |-> c.wire]
    BY ONLY <2>1
  <2> HIDE DEF d
  <2>3. ConnOK(d, p)
    BY <2>2 DEF ConnOK
  <2> QED BY <2>3 DEF d
<1>4. ConnOK([c EXCEPT !.lagged = v], p)
  <2> DEFINE d == [c EXCEPT !.lagged = v]
  <2>1. c = [open |-> c.open, commands |-> c.commands, enabled |-> c.enabled, feed |-> c.feed,
             lagged |-> c.lagged, held |-> c.held, readying |-> c.readying, wire |-> c.wire]
    BY DEF ConnOK
  <2>2. d = [open |-> c.open, commands |-> c.commands, enabled |-> c.enabled, feed |-> c.feed,
             lagged |-> v, held |-> c.held, readying |-> c.readying, wire |-> c.wire]
    BY ONLY <2>1
  <2> HIDE DEF d
  <2>3. ConnOK(d, p)
    BY <2>2 DEF ConnOK
  <2> QED BY <2>3 DEF d
<1>5. ConnOK([c EXCEPT !.readying = v], p)
  <2> DEFINE d == [c EXCEPT !.readying = v]
  <2>1. c = [open |-> c.open, commands |-> c.commands, enabled |-> c.enabled, feed |-> c.feed,
             lagged |-> c.lagged, held |-> c.held, readying |-> c.readying, wire |-> c.wire]
    BY DEF ConnOK
  <2>2. d = [open |-> c.open, commands |-> c.commands, enabled |-> c.enabled, feed |-> c.feed,
             lagged |-> c.lagged, held |-> c.held, readying |-> v, wire |-> c.wire]
    BY ONLY <2>1
  <2> HIDE DEF d
  <2>3. ConnOK(d, p)
    BY <2>2 DEF ConnOK
  <2> QED BY <2>3 DEF d
<1> QED BY <1>1, <1>2, <1>3, <1>4, <1>5

LEMMA FeedKeeps ==
  ASSUME NEW p, NEW c, ConnOK(c, p), NEW v, v \in Seq(TrueEvents(p))
  PROVE  ConnOK([c EXCEPT !.feed = v], p)
<1> DEFINE d == [c EXCEPT !.feed = v]
<1>1. c = [open |-> c.open, commands |-> c.commands, enabled |-> c.enabled, feed |-> c.feed,
             lagged |-> c.lagged, held |-> c.held, readying |-> c.readying, wire |-> c.wire]
  BY DEF ConnOK
<1>2. d = [open |-> c.open, commands |-> c.commands, enabled |-> c.enabled, feed |-> v,
             lagged |-> c.lagged, held |-> c.held, readying |-> c.readying, wire |-> c.wire]
  BY ONLY <1>1
<1> HIDE DEF d
<1>3. ConnOK(d, p)
  BY <1>2 DEF ConnOK
<1> QED BY <1>3 DEF d

LEMMA HeldKeeps ==
  ASSUME NEW p, NEW c, ConnOK(c, p), NEW v, v = NoMessage \/ v \in TrueMessages(p)
  PROVE  ConnOK([c EXCEPT !.held = v], p)
<1> DEFINE d == [c EXCEPT !.held = v]
<1>1. c = [open |-> c.open, commands |-> c.commands, enabled |-> c.enabled, feed |-> c.feed,
             lagged |-> c.lagged, held |-> c.held, readying |-> c.readying, wire |-> c.wire]
  BY DEF ConnOK
<1>2. d = [open |-> c.open, commands |-> c.commands, enabled |-> c.enabled, feed |-> c.feed,
             lagged |-> c.lagged, held |-> v, readying |-> c.readying, wire |-> c.wire]
  BY ONLY <1>1
<1> HIDE DEF d
<1>3. ConnOK(d, p)
  BY <1>2 DEF ConnOK
<1> QED BY <1>3 DEF d

LEMMA WireKeeps ==
  ASSUME NEW p, NEW c, ConnOK(c, p), NEW v, v \in Seq(TrueMessages(p) \cup {Ready})
  PROVE  ConnOK([c EXCEPT !.wire = v], p)
<1> DEFINE d == [c EXCEPT !.wire = v]
<1>1. c = [open |-> c.open, commands |-> c.commands, enabled |-> c.enabled, feed |-> c.feed,
             lagged |-> c.lagged, held |-> c.held, readying |-> c.readying, wire |-> c.wire]
  BY DEF ConnOK
<1>2. d = [open |-> c.open, commands |-> c.commands, enabled |-> c.enabled, feed |-> c.feed,
             lagged |-> c.lagged, held |-> c.held, readying |-> c.readying, wire |-> v]
  BY ONLY <1>1
<1> HIDE DEF d
<1>3. ConnOK(d, p)
  BY <1>2 DEF ConnOK
<1> QED BY <1>3 DEF d

LEMMA DraftOK ==
  ASSUME BandInv
  PROVE  IsDraft(Draft) /\ Draft.past = past /\ Draft.spots = store.spots
         /\ IsFiniteSet(store.spots) /\ IsHistory(past)
<1>1. StoreOK(store.spots, store.nextId, store.sequence, past)
  BY DEF BandInv
<1>2. <<>> \in Seq(TrueEvents(past))
  OBVIOUS
<1> QED BY <1>1, <1>2 DEF Draft, IsDraft, StoreOK

LEMMA PublishKeeps ==
  ASSUME BandInv, NEW w \in Writers, NEW d, IsDraft(d), Extends(past, d.past), Publish(w, d)
  PROVE  BandInv'
<1>1. /\ StoreOK(d.spots, d.nextId, d.sequence, d.past) /\ d.events \in Seq(TrueEvents(d.past))
      /\ IsHistory(d.past)
  BY DEF IsDraft, StoreOK
<1>2. /\ store' = [spots |-> d.spots, nextId |-> d.nextId, sequence |-> d.sequence]
      /\ past' = d.past /\ unsent' = [unsent EXCEPT ![w] = d.events]
      /\ conn' = conn /\ win' = win /\ env' = env
  BY DEF Publish
<1>3. IsHistory(past)
  BY DraftOK
<1>4. (StoreOK(store.spots, store.nextId, store.sequence, past))'
  BY <1>1, <1>2
<1>5. unsent' \in [Writers -> Seq(TrueEvents(past'))]
  <2>1. \A v \in Writers : unsent[v] \in Seq(TrueEvents(d.past))
    <3>1. TAKE v \in Writers
    <3>2. unsent[v] \in Seq(TrueEvents(past))
      BY DEF BandInv
    <3>3. TrueEvents(past) \subseteq TrueEvents(d.past)
      BY <1>1, <1>3, ExtendsTruth
    <3> QED BY <3>2, <3>3, SeqMonotonic
  <2>2. DOMAIN unsent = Writers
    BY DEF BandInv
  <2> QED BY <1>1, <1>2, <2>1, <2>2
<1>6. ConnOK(conn, past)'
  BY <1>1, <1>2, <1>3, ConnGrows DEF BandInv
<1>7. WinOK(win, past)'
  BY <1>1, <1>2, <1>3, WinGrows DEF BandInv
<1>8. EnvOK'
  BY <1>2 DEF BandInv, EnvOK
<1> QED BY <1>4, <1>5, <1>6, <1>7, <1>8 DEF BandInv

LEMMA ChangeKeeps ==
  ASSUME BandInv, NEW w \in Writers, Change(w)
  PROVE  BandInv'
<1>1. /\ IsDraft(Draft) /\ Draft.past = past /\ Draft.spots = store.spots
      /\ IsFiniteSet(store.spots) /\ IsHistory(past)
  BY DraftOK
<1>2. \A old \in Orders(store.spots) :
        IsDraft(RemovedAll(Draft, old)) /\ Extends(past, RemovedAll(Draft, old).past)
  BY <1>1, OneOfOrders, RemovedAllKeeps
<1>3. CASE Prune(w)
  <2>1. PICK old \in Orders(store.spots) : Publish(w, RemovedAll(Draft, old))
    BY <1>3 DEF Prune
  <2> QED BY <1>2, <2>1, PublishKeeps
<1>4. CASE UpsertSpot(w)
  <2>1. PICK old \in Orders(store.spots), c \in env.spotted :
          Publish(w, Upserted(RemovedAll(Draft, old), c))
    BY <1>4 DEF UpsertSpot
  <2> DEFINE d == RemovedAll(Draft, old)
  <2>2. IsDraft(d) /\ Extends(past, d.past)
    BY <1>2
  <2>3. c \in Keys \X Values
    BY DEF BandInv, EnvOK
  <2> HIDE DEF d
  <2>4. IsDraft(Upserted(d, c)) /\ Extends(d.past, Upserted(d, c).past)
    BY <2>2, <2>3, UpsertedKeeps
  <2>5. Extends(past, Upserted(d, c).past)
    BY <1>1, <2>2, <2>4, DraftExtends, ExtendsTransitive
  <2> QED BY <2>1, <2>4, <2>5, PublishKeeps DEF d
<1>5. CASE DeleteSpot(w)
  <2>1. PICK s \in store.spots : Publish(w, Removed(Draft, s))
    BY <1>5 DEF DeleteSpot
  <2>2. IsDraft(Removed(Draft, s)) /\ Extends(past, Removed(Draft, s).past)
    BY <1>1, RemovedKeeps
  <2> QED BY <2>1, <2>2, PublishKeeps
<1>6. CASE SyncLog(w)
  <2>1. PICK old \in Orders(store.spots), log \in Logs :
          LET local == {c \in env.spotted : LogOf[c[1]] = log}
          IN \E desired \in Orders(local) :
               LET put == UpsertedAll(RemovedAll(Draft, old), desired)
                   rest == {s \in put.spots : LogOf[s.key] = log
                              /\ \A i \in DOMAIN desired : desired[i][1] # s.key}
               IN \E order \in SetToSeqs(rest) : Publish(w, RemovedAll(put, order))
    BY <1>6 DEF SyncLog
  <2> DEFINE local == {c \in env.spotted : LogOf[c[1]] = log}
             d == RemovedAll(Draft, old)
  <2>2. PICK desired \in Orders(local) :
          LET put == UpsertedAll(d, desired)
              rest == {s \in put.spots : LogOf[s.key] = log
                         /\ \A i \in DOMAIN desired : desired[i][1] # s.key}
          IN \E order \in SetToSeqs(rest) : Publish(w, RemovedAll(put, order))
    BY <2>1
  <2> DEFINE put == UpsertedAll(d, desired)
             rest == {s \in put.spots : LogOf[s.key] = log
                        /\ \A i \in DOMAIN desired : desired[i][1] # s.key}
  <2>3. PICK order \in SetToSeqs(rest) : Publish(w, RemovedAll(put, order))
    BY <2>2
  <2>4. IsDraft(d) /\ Extends(past, d.past)
    BY <1>2
  <2> HIDE DEF d
  <2>5. Len(desired) \in Nat /\ \A i \in 1..Len(desired) : desired[i] \in Keys \X Values
    <3>1. IsFiniteSet(local)
      BY FS_Subset DEF BandInv, EnvOK
    <3>2. local \subseteq Keys \X Values
      BY DEF BandInv, EnvOK
    <3> HIDE DEF local
    <3> QED BY <3>1, <3>2, OneOfOrders
  <2>6. IsDraft(put) /\ Extends(d.past, put.past)
    BY <2>4, <2>5, UpsertedAllKeeps
  <2>7. IsFiniteSet(rest) /\ rest \subseteq put.spots
    <3>1. IsFiniteSet(put.spots)
      BY <2>6 DEF IsDraft, StoreOK
    <3> QED BY <3>1, FS_Subset
  <2> HIDE DEF put, rest
  <2>8. /\ Len(order) \in Nat /\ \A i \in 1..Len(order) : order[i] \in put.spots
        /\ \A i, j \in 1..Len(order) : i # j => order[i] # order[j]
    BY <2>7, OrderOf
  <2>9. IsDraft(RemovedAll(put, order)) /\ Extends(put.past, RemovedAll(put, order).past)
    BY <2>6, <2>8, RemovedAllKeeps
  <2>10. Extends(past, RemovedAll(put, order).past)
    <3>1. Extends(past, put.past)
      BY <1>1, <2>4, <2>6, DraftExtends, ExtendsTransitive
    <3> QED BY <1>1, <2>6, <2>9, <3>1, DraftExtends, ExtendsTransitive
  <2> QED BY <2>3, <2>9, <2>10, PublishKeeps
<1> QED BY <1>3, <1>4, <1>5, <1>6 DEF Change

LEMMA ConnKeeps ==
  ASSUME BandInv, UNCHANGED <<store, past, win, env>>,
         unsent' \in [Writers -> Seq(TrueEvents(past))], ConnOK(conn', past)
  PROVE  BandInv'
BY DEF BandInv, EnvOK

LEMMA WinKeeps ==
  ASSUME BandInv, UNCHANGED <<store, past, unsent>>, ConnOK(conn', past), WinOK(win', past), EnvOK'
  PROVE  BandInv'
BY DEF BandInv

LEMMA BroadcastKeeps ==
  ASSUME BandInv, NEW w \in Writers, Broadcast(w)
  PROVE  BandInv'
<1> DEFINE e == Head(unsent[w])
           feed == Append(conn.feed, e)
           kept == IF Len(feed) > Buffer THEN Tail(feed) ELSE feed
           lagged == conn.lagged \/ Len(feed) > Buffer
           c1 == [conn EXCEPT !.feed = kept]
           c2 == [c1 EXCEPT !.lagged = lagged]
<1>1. /\ unsent[w] \in Seq(TrueEvents(past)) /\ unsent[w] # <<>> /\ ConnOK(conn, past)
      /\ conn.feed \in Seq(TrueEvents(past))
  BY DEF BandInv, Broadcast, Idle, ConnOK
<1>2. e \in TrueEvents(past) /\ Tail(unsent[w]) \in Seq(TrueEvents(past))
  BY <1>1, HeadTailProperties
<1>3. conn' = c2 \/ conn' = conn
  BY DEF Broadcast
<1>4. unsent' = [unsent EXCEPT ![w] = Tail(unsent[w])] /\ UNCHANGED <<store, past, win, env>>
  BY DEF Broadcast
<1> HIDE DEF e
<1>5. kept \in Seq(TrueEvents(past))
  <2>1. feed \in Seq(TrueEvents(past)) /\ feed # <<>>
    BY <1>1, <1>2, AppendProperties
  <2> HIDE DEF feed
  <2> QED BY <2>1, HeadTailProperties
<1> HIDE DEF kept, lagged
<1>6. ConnOK(c2, past)
  <2>1. ConnOK(c1, past)
    BY <1>1, <1>5, FeedKeeps
  <2> HIDE DEF c1
  <2> QED BY <2>1, ConnFieldKeeps
<1> HIDE DEF c2
<1>7. unsent' \in [Writers -> Seq(TrueEvents(past))]
  BY <1>2, <1>4 DEF BandInv
<1> QED BY <1>1, <1>3, <1>4, <1>6, <1>7, ConnKeeps

LEMMA HandleKeeps ==
  ASSUME BandInv, Handle
  PROVE  BandInv'
<1> DEFINE c == Head(conn.commands)
           heard == [conn EXCEPT !.commands = Tail(conn.commands)]
           c1 == [heard EXCEPT !.enabled = c]
           c2 == [c1 EXCEPT !.feed = <<>>]
           c3 == [c2 EXCEPT !.lagged = FALSE]
           c4 == [c3 EXCEPT !.held = NoMessage]
           c5 == [c4 EXCEPT !.readying = c]
<1>1. (conn' = heard \/ conn' = c5) /\ UNCHANGED <<store, past, unsent, win, env>>
  BY DEF Handle, ServerStep
<1>2. ConnOK(heard, past)
  BY ConnFieldKeeps DEF BandInv
<1> HIDE DEF c, heard, NoMessage
<1>3. ConnOK(c1, past)
  BY <1>2, ConnFieldKeeps
<1> HIDE DEF c1
<1>4. ConnOK(c2, past)
  <2>1. <<>> \in Seq(TrueEvents(past))
    OBVIOUS
  <2> QED BY <1>3, <2>1, FeedKeeps
<1> HIDE DEF c2
<1>5. ConnOK(c3, past)
  BY <1>4, ConnFieldKeeps
<1> HIDE DEF c3
<1>6. ConnOK(c4, past)
  BY <1>5, HeldKeeps
<1> HIDE DEF c4
<1>7. ConnOK(c5, past)
  BY <1>6, ConnFieldKeeps
<1> HIDE DEF c5
<1> QED BY <1>1, <1>2, <1>7, ConnKeeps DEF BandInv

LEMMA PushKeeps ==
  ASSUME BandInv, PushReady \/ Push
  PROVE  BandInv'
<1> DEFINE messages == TrueMessages(past) \cup {Ready}
<1>1. conn.wire \in Seq(messages) /\ ConnOK(conn, past)
  BY DEF BandInv, ConnOK
<1>2. CASE PushReady
  <2> DEFINE wire == Append(conn.wire, Ready)
             c1 == [conn EXCEPT !.readying = FALSE]
             c2 == [c1 EXCEPT !.wire = wire]
  <2>1. conn' = c2 /\ UNCHANGED <<store, past, unsent, win, env>>
    BY <1>2 DEF PushReady, ServerStep
  <2>2. wire \in Seq(messages)
    BY <1>1, AppendProperties
  <2> HIDE DEF wire
  <2>3. ConnOK(c1, past)
    BY <1>1, ConnFieldKeeps, HeldKeeps
  <2> HIDE DEF c1
  <2>4. ConnOK(c2, past)
    BY <2>2, <2>3, WireKeeps, HeldKeeps
  <2> HIDE DEF c2
  <2> QED BY <2>1, <2>4, ConnKeeps DEF BandInv
<1>3. CASE Push
  <2> DEFINE wire == Append(conn.wire, conn.held)
             c1 == [conn EXCEPT !.held = NoMessage]
             c2 == [c1 EXCEPT !.wire = wire]
  <2>1. conn' = c2 /\ conn.held # NoMessage /\ UNCHANGED <<store, past, unsent, win, env>>
    BY <1>3 DEF Push, ServerStep
  <2>2. wire \in Seq(messages)
    BY <1>1, <2>1, AppendProperties DEF ConnOK
  <2> HIDE DEF wire
  <2>3. ConnOK(c1, past)
    BY <1>1, ConnFieldKeeps, HeldKeeps
  <2> HIDE DEF c1
  <2>4. ConnOK(c2, past)
    BY <2>2, <2>3, WireKeeps, HeldKeeps
  <2> HIDE DEF c2
  <2> QED BY <2>1, <2>4, ConnKeeps DEF BandInv
<1> QED BY <1>2, <1>3

LEMMA ReceiveKeeps ==
  ASSUME BandInv, Receive
  PROVE  BandInv'
<1>1. /\ ConnOK(conn, past) /\ conn.feed \in Seq(TrueEvents(past))
      /\ UNCHANGED <<store, past, unsent, win, env>>
  BY DEF BandInv, ConnOK, Receive, ServerStep
<1>2. IsHistory(past) /\ Len(past) \in Nat /\ store.sequence = Len(past)
  BY DEF BandInv, StoreOK, IsHistory
<1>3. CASE conn.lagged
  <2> DEFINE m == SequenceMessage(store.sequence, TRUE)
             c1 == [conn EXCEPT !.lagged = FALSE]
             c2 == [c1 EXCEPT !.held = m]
  <2>1. conn' = c2
    BY <1>3 DEF Receive
  <2>2. m \in TrueMessages(past)
    <3>1. m \in SequenceMessages /\ Reported(m) /\ m.sequence <= Len(past)
      BY <1>2 DEF SequenceMessage, SequenceMessages, Reported
    <3> HIDE DEF m
    <3> QED BY <3>1 DEF TrueMessages
  <2> HIDE DEF m
  <2>3. ConnOK(c1, past)
    BY <1>1, ConnFieldKeeps, HeldKeeps
  <2> HIDE DEF c1
  <2>4. ConnOK(c2, past)
    BY <2>2, <2>3, WireKeeps, HeldKeeps
  <2> HIDE DEF c2
  <2> QED BY <1>1, <2>1, <2>4, ConnKeeps DEF BandInv
<1>4. CASE ~conn.lagged
  <2> DEFINE m == MessageOf(Head(conn.feed))
             rest == Tail(conn.feed)
             c1 == [conn EXCEPT !.feed = rest]
             c2 == [c1 EXCEPT !.held = m]
  <2>1. conn' = c2 /\ conn.feed # <<>>
    BY <1>4 DEF Receive
  <2>2. Head(conn.feed) \in TrueEvents(past) /\ rest \in Seq(TrueEvents(past))
    BY <1>1, <2>1, HeadTailProperties
  <2>3. m \in TrueMessages(past)
    BY <1>2, <2>2, EventTells
  <2> HIDE DEF m, rest
  <2>4. ConnOK(c1, past)
    BY <1>1, <2>2, FeedKeeps
  <2> HIDE DEF c1
  <2>5. ConnOK(c2, past)
    BY <2>3, <2>4, HeldKeeps
  <2> HIDE DEF c2
  <2> QED BY <1>1, <2>1, <2>5, ConnKeeps DEF BandInv
<1> QED BY <1>3, <1>4

LEMMA DeliverKeeps ==
  ASSUME BandInv, Deliver
  PROVE  BandInv'
<1> DEFINE m == Head(conn.wire)
           rest == Tail(conn.wire)
<1>1. /\ ConnOK(conn, past) /\ WinOK(win, past) /\ IsHistory(past)
      /\ conn.wire \in Seq(TrueMessages(past) \cup {Ready}) /\ conn.wire # <<>>
  BY DEF BandInv, ConnOK, StoreOK, Deliver
<1>2. m \in TrueMessages(past) \cup {Ready} /\ rest \in Seq(TrueMessages(past) \cup {Ready})
  <2> HIDE DEF Ready
  <2> QED BY <1>1, HeadTailProperties
<1>3. conn' = [conn EXCEPT !.wire = rest] /\ win' = Handled(win, m)
      /\ UNCHANGED <<store, past, unsent, env>>
  BY DEF Deliver
<1> HIDE DEF m, rest
<1>4. ConnOK(conn', past)
  BY <1>1, <1>2, <1>3, WireKeeps
<1>5. WinOK(win', past)
  BY <1>1, <1>2, <1>3, HandledKeeps
<1>6. EnvOK'
  BY <1>3 DEF BandInv, EnvOK
<1> QED BY <1>3, <1>4, <1>5, <1>6, WinKeeps

LEMMA EndedKeeps ==
  ASSUME BandInv, NEW i \in DOMAIN win.fetches
  PROVE  /\ WinOK(Ended(i), past)
         /\ win.fetches[i].snapshot \in {Unserved} \cup 0..Len(past)
<1> DEFINE all == Fetches(past)
           n == Len(win.fetches)
           f == RemoveAt(win.fetches, i)
<1>1. win.fetches \in Seq(all) /\ WinOK(win, past)
  BY DEF BandInv, WinOK, WinParts
<1>2. n \in Nat /\ i \in 1..n /\ win.fetches[i] \in all
  BY <1>1, ElementOfSeq
<1>3. f \in Seq(all)
  <2>1. SubSeq(win.fetches, 1, i - 1) \in Seq(all)
    BY <1>1, <1>2, SubSeqProperties
  <2>2. SubSeq(win.fetches, i + 1, n) \in Seq(all)
    BY <1>1, <1>2, SubSeqProperties
  <2> HIDE DEF all
  <2> QED BY <2>1, <2>2, ConcatProperties DEF RemoveAt
<1>4. Ended(i) = [win EXCEPT !.fetches = f]
  BY DEF Ended
<1> HIDE DEF f
<1> QED BY <1>1, <1>2, <1>3, <1>4, FetchesKeep DEF Fetches

LEMMA FetchingKeeps ==
  ASSUME BandInv, NEW i \in DOMAIN win.fetches, Fetching(i)
  PROVE  BandInv'
<1>1. /\ ConnOK(conn, past) /\ WinOK(win, past) /\ EnvOK /\ IsHistory(past)
      /\ store.sequence = Len(past) /\ Len(past) \in Nat
  BY DEF BandInv, StoreOK, IsHistory
<1>2. WinOK(Ended(i), past) /\ win.fetches[i].snapshot \in {Unserved} \cup 0..Len(past)
  BY EndedKeeps
<1>3. CASE Serve(i)
  <2> DEFINE f == [win.fetches EXCEPT ![i] = [win.fetches[i] EXCEPT !.snapshot = store.sequence]]
  <2>1. win' = [win EXCEPT !.fetches = f] /\ UNCHANGED <<store, past, unsent, conn, env>>
    BY <1>3 DEF Serve, WindowStep
  <2>2. f \in Seq(Fetches(past))
    <3> DEFINE g == [win.fetches[i] EXCEPT !.snapshot = store.sequence]
    <3>1. win.fetches \in Seq(Fetches(past))
      BY <1>1 DEF WinOK, WinParts
    <3>2. win.fetches[i] \in Fetches(past)
      BY <3>1
    <3>3. g \in Fetches(past)
      BY <1>1, <3>2 DEF Fetches
    <3> HIDE DEF g
    <3>4. [win.fetches EXCEPT ![i] = g] \in Seq(Fetches(past))
      BY <3>1, <3>3, ExceptSeq
    <3> QED BY <3>4 DEF g
  <2> HIDE DEF f
  <2>3. WinOK(win', past)
    BY <1>1, <2>1, <2>2, FetchesKeep
  <2>4. EnvOK' /\ ConnOK(conn', past)
    BY <1>1, <2>1 DEF EnvOK
  <2> QED BY <2>1, <2>3, <2>4, WinKeeps
<1>4. CASE Answer(i)
  <2>1. /\ win.fetches[i].snapshot # Unserved
        /\ win' = Ended(i) \/ win' = Loaded(Ended(i), win.fetches[i].snapshot)
        /\ UNCHANGED <<store, past, unsent, conn, env>>
    BY <1>4 DEF Answer, WindowStep
  <2>2. win.fetches[i].snapshot \in 0..Len(past)
    BY <1>2, <2>1
  <2>3. WinOK(win', past)
    BY <1>1, <1>2, <2>1, <2>2, LoadedKeeps
  <2>4. EnvOK' /\ ConnOK(conn', past)
    BY <1>1, <2>1 DEF EnvOK
  <2> QED BY <2>1, <2>3, <2>4, WinKeeps
<1>5. CASE Fail(i)
  <2> DEFINE x == Ended(i)
             x1 == [x EXCEPT !.status = "awaiting_ready"]
             x2 == [x1 EXCEPT !.inFlight = FALSE]
             x3 == [x2 EXCEPT !.failed = TRUE]
  <2>1. /\ env.failures > 0 /\ env' = [env EXCEPT !.failures = env.failures - 1]
        /\ win' = x \/ win' = x3
        /\ UNCHANGED <<store, past, unsent, conn>>
    BY <1>5 DEF Fail, Refused
  <2>2. WinOK(x, past)
    BY <1>2
  <2> HIDE DEF x
  <2>3. WinOK(x1, past)
    BY <2>2, StatusKeeps DEF WinOK
  <2> HIDE DEF x1
  <2>4. WinOK(x2, past)
    BY <2>3, FieldKeeps
  <2> HIDE DEF x2
  <2>5. WinOK(x3, past)
    BY <2>4, FieldKeeps
  <2> HIDE DEF x3
  <2>6. EnvOK'
    BY <1>1, <2>1 DEF EnvOK
  <2>7. ConnOK(conn', past)
    BY <1>1, <2>1
  <2> QED BY <2>1, <2>2, <2>5, <2>6, <2>7, WinKeeps
<1> QED BY <1>3, <1>4, <1>5 DEF Fetching

LEMMA ClosedKeeps ==
  ASSUME NEW p, NEW commands
  PROVE  ConnOK(Session(commands), p) /\ ConnOK(Closed, p)
<1>1. ConnOK(Session(commands), p)
  BY DEF Session, ConnOK
<1>2. ConnOK(Session(<<>>), p)
  BY DEF Session, ConnOK
<1>3. ConnOK(Closed, p)
  <2> DEFINE s == Session(<<>>)
  <2> HIDE DEF s
  <2>1. ConnOK([s EXCEPT !.open = FALSE], p)
    BY <1>2, ConnFieldKeeps DEF s
  <2> QED BY <2>1 DEF Closed, s
<1> QED BY <1>1, <1>3

LEMMA SwitchKeeps ==
  ASSUME BandInv, Toggle \/ Open \/ Drop
  PROVE  BandInv'
<1>1. ConnOK(conn, past) /\ WinOK(win, past) /\ EnvOK /\ IsHistory(past)
  BY DEF BandInv, StoreOK
<1>2. CASE Toggle
  <2> DEFINE x == [win EXCEPT !.enabled = ~win.enabled]
             commands == Append(conn.commands, ~win.enabled)
             c == [conn EXCEPT !.commands = commands]
  <2>1. /\ env.toggles > 0 /\ env' = [env EXCEPT !.toggles = env.toggles - 1]
        /\ win' = Restarted(x) \/ win' = Reset(x, "idle")
        /\ conn' = c \/ conn' = conn
        /\ UNCHANGED <<store, past, unsent>>
    BY <1>2 DEF Toggle
  <2>2. WinOK(x, past)
    BY <1>1, FieldKeeps
  <2> HIDE DEF x, commands
  <2>3. WinOK(win', past)
    BY <1>1, <2>1, <2>2, RestartedKeeps, ResetKeeps DEF WinOK
  <2>4. ConnOK(c, past)
    BY <1>1, ConnFieldKeeps
  <2> HIDE DEF c
  <2>5. EnvOK'
    BY <1>1, <2>1 DEF EnvOK
  <2> QED BY <1>1, <2>1, <2>3, <2>4, <2>5, WinKeeps
<1>3. CASE Open
  <2>1. /\ \E commands : conn' = Session(commands)
        /\ win' = Restarted(win) \/ win' = win
        /\ UNCHANGED <<store, past, unsent, env>>
    BY <1>3 DEF Open
  <2>2. EnvOK' /\ WinOK(win', past) /\ ConnOK(conn', past)
    BY <1>1, <2>1, RestartedKeeps, ClosedKeeps DEF EnvOK
  <2> QED BY <2>1, <2>2, WinKeeps
<1>4. CASE Drop
  <2>1. /\ env.drops > 0 /\ env' = [env EXCEPT !.drops = env.drops - 1]
        /\ conn' = Closed /\ UNCHANGED <<store, past, unsent, win>>
    BY <1>4 DEF Drop
  <2>2. EnvOK'
    BY <1>1, <2>1 DEF EnvOK
  <2> QED BY <1>1, <2>1, <2>2, WinKeeps, ClosedKeeps
<1> QED BY <1>2, <1>3, <1>4

LEMMA BandInit ==
  ASSUME Init
  PROVE  BandInv
<1>1. StoreOK(store.spots, store.nextId, store.sequence, past)
  BY FS_EmptySet DEF Init, StoreOK, IsHistory, SpotsAt, Distinct
<1>2. unsent \in [Writers -> Seq(TrueEvents(past))]
  BY DEF Init
<1>3. ConnOK(conn, past)
  BY ClosedKeeps DEF Init
<1>4. WinOK(win, past)
  BY DEF Init, WinOK, WinParts
<1>5. EnvOK
  BY ConstantsAssumption DEF Init, EnvOK, IsWorld
<1> QED BY <1>1, <1>2, <1>3, <1>4, <1>5 DEF BandInv

LEMMA BandNext ==
  ASSUME BandInv, [Next]_vars
  PROVE  BandInv'
<1>1. CASE UNCHANGED vars
  BY <1>1 DEF BandInv, EnvOK, vars
<1>2. CASE Next
  BY <1>2, ChangeKeeps, BroadcastKeeps, HandleKeeps, PushKeeps, ReceiveKeeps, DeliverKeeps,
     SwitchKeeps, FetchingKeeps DEF Next
<1> QED BY <1>1, <1>2

(* A live window of the band map shows what the store held after the change *)
(* it has reached, however the events of the writers, the lag of the        *)
(* session, snapshots and losses of the socket interleave, for any number   *)
(* of writers, spots and changes (useBandMap.js 47-89, 189-220).            *)
THEOREM MapShowsAPrefix == Spec => []ShowsAPrefix
<1>1. BandInv => ShowsAPrefix
  <2>1. Past(win.sequence) = SpotsAt(past, win.sequence)
    BY DEF Past, SpotsAt
  <2> QED BY <2>1 DEF BandInv, WinOK, ShowsAPrefix
<1>2. Init => BandInv
  BY BandInit
<1>3. BandInv /\ [Next]_vars => BandInv'
  BY BandNext
<1> QED BY <1>1, <1>2, <1>3, PTL DEF Spec
=============================================================================
