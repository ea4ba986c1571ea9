------------------------ MODULE SerialAllocatorProofs ------------------------
(***************************************************************************)
(* Theorems about SerialAllocator, for every set of windows and contacts    *)
(* and every world within its bounds.                                       *)
(***************************************************************************)
EXTENDS SerialAllocator, WellFoundedInduction, TLAPS

Kinds == {"state", "reserve"}

Managers ==
  [manager: {"none", "new", "ready"}, next: Nat, queue: SUBSET Nat, busy: BOOLEAN,
   retry: Kinds \cup {"no"}, list: SUBSET Contacts, entry: Nat,
   unseen: SUBSET Contacts]

States == [m: Managers, keep: Nat, asks: SUBSET Kinds]

Requests ==
  [win: Windows, kind: Kinds, answer: Nat, orphan: BOOLEAN, left: SUBSET Nat]

Bounded(S) == \E b \in Nat : \A n \in S : n <= b

Types ==
  /\ serial \in [Contacts -> Nat]
  /\ rows \in SUBSET Contacts
  /\ nextSerial \in Nat /\ nextSerial >= 1
  /\ win \in [Windows -> Managers]
  /\ stored \in [Windows -> Nat]
  /\ calls \in SUBSET Requests
  /\ news \in [Windows -> SUBSET Contacts]
  /\ env \in Setup
  /\ Bounded(Serials(Contacts))
  /\ \A w \in Windows : Bounded(win[w].queue)

-----------------------------------------------------------------------------
(* The greatest of a bounded set of numbers.                                *)

LEMMA MaxExists ==
  ASSUME NEW S \in SUBSET Nat, S # {}, Bounded(S)
  PROVE  Max(S) \in S /\ \A y \in S : Max(S) >= y
<1>0. PICK b \in Nat : \A x \in S : x <= b
  BY DEF Bounded
<1> DEFINE T == {b - x : x \in S}
<1>1. \A x \in S : x \in Nat /\ b - x \in Nat
  BY <1>0
<1>2. T \subseteq Nat /\ T # {}
  BY <1>1
<1>3. PICK t \in T : \A y \in T : ~(<<y, t>> \in OpToRel(<, Nat))
  <2> HIDE DEF T
  <2> QED BY <1>2, WFMin, NatLessThanWellFounded
<1>4. \A y \in T : ~(y < t)
  <2>1. \A y \in T : <<y, t>> \in Nat \X Nat
    BY <1>2
  <2> QED BY <1>2, <1>3, <2>1 DEF OpToRel
<1>5. PICK x \in S : t = b - x
  OBVIOUS
<1>6. \A y \in S : x >= y
  BY <1>0, <1>4, <1>5
<1> QED BY <1>6 DEF Max

LEMMA MaxOfTwo ==
  ASSUME NEW a \in Nat, NEW b \in Nat
  PROVE  Max({a, b}) = IF a >= b THEN a ELSE b
<1>1. Bounded({a, b})
  <2>1. \A n \in {a, b} : n <= a + b
    OBVIOUS
  <2> QED BY <2>1 DEF Bounded
<1>2. Max({a, b}) \in {a, b} /\ \A y \in {a, b} : Max({a, b}) >= y
  BY <1>1, MaxExists
<1> QED BY <1>2

LEMMA BoundedUnion ==
  ASSUME NEW S \in SUBSET Nat, NEW T \in SUBSET Nat, Bounded(S), Bounded(T)
  PROVE  Bounded(S \cup T)
<1>1. PICK a \in Nat : \A n \in S : n <= a
  BY DEF Bounded
<1>2. PICK b \in Nat : \A n \in T : n <= b
  BY DEF Bounded
<1>3. \A n \in S \cup T : n <= a + b
  BY <1>1, <1>2
<1>4. a + b \in Nat
  OBVIOUS
<1> QED BY <1>3, <1>4 DEF Bounded

LEMMA BoundedPart ==
  ASSUME NEW S, NEW T, T \subseteq S, Bounded(S)
  PROVE  Bounded(T)
  BY DEF Bounded

LEMMA BoundedOne ==
  ASSUME NEW n \in Nat
  PROVE  Bounded({n}) /\ Bounded({})
<1>1. \A k \in {n} : k <= n
  OBVIOUS
<1> QED BY <1>1 DEF Bounded

-----------------------------------------------------------------------------
(* The functions of a manager.                                              *)

EntryOK(m) == m.entry \in {None, m.next}

LEMMA PublishIs ==
  ASSUME NEW m \in Managers
  PROVE  /\ Publish(m) \in Managers
         /\ Publish(m).manager = m.manager /\ Publish(m).next = m.next
         /\ Publish(m).queue = m.queue /\ Publish(m).list = m.list
         /\ Publish(m).unseen = m.unseen
         /\ Publish(m).retry = m.retry /\ Publish(m).busy = m.busy
         /\ Publish(m).entry = m.next
  BY DEF Publish, Managers

(* A request for kind is made, or left out as one is under way.             *)
Asking(s, kind, t) ==
  /\ t \in States
  /\ t.keep = s.keep /\ t.m.next = s.m.next /\ t.m.list = s.m.list
  /\ t.m.unseen = s.m.unseen
  /\ t.m.manager = s.m.manager /\ t.m.queue = s.m.queue
  /\ t.m.retry \in {"no", s.m.retry}
  /\ t.asks \subseteq s.asks \cup {kind}
  /\ t.m.entry \in {s.m.entry, s.m.next}

LEMMA AskIs ==
  ASSUME NEW s \in States, NEW kind \in Kinds, NEW t, t = Ask(s, kind)
  PROVE  Asking(s, kind, t)
<1>1. CASE s.m.busy
  BY <1>1 DEF Ask, Asking, States, Managers
<1>2. CASE ~s.m.busy
  <2> DEFINE m == [s.m EXCEPT !.busy = TRUE, !.retry = "no"]
  <2>1. /\ m \in Managers /\ m.next = s.m.next /\ m.list = s.m.list
        /\ m.unseen = s.m.unseen
        /\ m.manager = s.m.manager /\ m.queue = s.m.queue /\ m.retry = "no"
    BY DEF States, Managers
  <2>2. t = [s EXCEPT !.m = Publish(m), !.asks = {kind}]
    BY <1>2 DEF Ask
  <2> HIDE DEF m
  <2>3. /\ t.m = Publish(m) /\ t.keep = s.keep /\ t.asks = {kind}
        /\ t = [m |-> Publish(m), keep |-> s.keep, asks |-> {kind}]
    BY <2>2 DEF States
  <2>4. t \in States
    BY <2>1, <2>3, PublishIs DEF States
  <2> QED BY <2>1, <2>3, <2>4, PublishIs DEF Asking
<1> QED BY <1>1, <1>2

LEMMA StateIs ==
  ASSUME NEW s \in States, NEW p, NEW k
  PROVE  [s EXCEPT !.m = p, !.keep = k] = [m |-> p, keep |-> k, asks |-> s.asks]
<1> DEFINE u == [s EXCEPT !.m = p]
<1>1. u = [m |-> p, keep |-> s.keep, asks |-> s.asks]
  BY DEF States
<1>2. [u EXCEPT !.keep = k] = [m |-> u.m, keep |-> k, asks |-> u.asks]
  <2>1. u \in [m : {p}, keep : Nat, asks : SUBSET Kinds]
    BY <1>1 DEF States
  <2> HIDE DEF u
  <2> QED BY <2>1
<1>3. [s EXCEPT !.m = p, !.keep = k] = [u EXCEPT !.keep = k]
  BY DEF States
<1> QED BY <1>1, <1>2, <1>3

LEMMA PassedIs ==
  ASSUME NEW s \in States, NEW ns \in SUBSET Nat, ns # {}, Bounded(ns),
         NEW t, t = Passed(s, ns)
  PROVE  /\ t \in States
         /\ t.m.list = s.m.list /\ t.m.unseen = s.m.unseen
         /\ t.m.manager = s.m.manager /\ t.m.queue = s.m.queue
         /\ t.m.retry \in {"no", s.m.retry}
         /\ Reserve => t.m.next = None /\ t.keep = None
         /\ ~Reserve => /\ t.keep = s.keep /\ t.asks = s.asks
                        /\ \A n \in ns : n < t.m.next
         /\ EntryOK(t.m)
<1>1. CASE Reserve
  <2> DEFINE m == [s.m EXCEPT !.next = None]
             u == [m |-> Publish(m), keep |-> None, asks |-> s.asks]
  <2>1. /\ m \in Managers /\ m.next = None /\ m.list = s.m.list /\ m.unseen = s.m.unseen
        /\ m.manager = s.m.manager /\ m.queue = s.m.queue /\ m.retry = s.m.retry
    BY DEF States, Managers, None
  <2>2. t = Ask(u, "reserve")
    <3>1. t = Ask([s EXCEPT !.m = Publish(m), !.keep = None], "reserve")
      BY <1>1 DEF Passed, RequestReservation
    <3>2. [s EXCEPT !.m = Publish(m), !.keep = None] = u
      BY StateIs
    <3> QED BY <3>1, <3>2
  <2> HIDE DEF m
  <2>3. u.m = Publish(m) /\ u.keep = None
    OBVIOUS
  <2>4. u \in States
    BY <2>1, <2>3, PublishIs DEF States, None
  <2> HIDE DEF u
  <2>5. "reserve" \in Kinds
    BY DEF Kinds
  <2> QED BY <1>1, <2>1, <2>2, <2>3, <2>4, <2>5, PublishIs, AskIs DEF EntryOK, Asking
<1>2. CASE ~Reserve
  <2> DEFINE m == [s.m EXCEPT !.next = Max(ns) + 1]
  <2>1. Max(ns) \in ns /\ \A n \in ns : Max(ns) >= n
    BY MaxExists
  <2>2. /\ m \in Managers /\ m.next = Max(ns) + 1 /\ m.list = s.m.list
        /\ m.unseen = s.m.unseen
        /\ m.manager = s.m.manager /\ m.queue = s.m.queue /\ m.retry = s.m.retry
    BY <2>1 DEF States, Managers
  <2>3. t = [s EXCEPT !.m = Publish(m)]
    BY <1>2 DEF Passed
  <2> HIDE DEF m
  <2>4. t.m = Publish(m) /\ t = [m |-> Publish(m), keep |-> s.keep, asks |-> s.asks]
    BY <2>3 DEF States
  <2>5. t \in States
    BY <2>2, <2>4, PublishIs DEF States
  <2> QED BY <1>2, <2>1, <2>2, <2>4, <2>5, PublishIs DEF EntryOK
<1> QED BY <1>1, <1>2

LEMMA ObserveIs ==
  ASSUME NEW s \in States, NEW ns \in SUBSET Nat, Bounded(ns), Bounded(s.m.queue),
         NEW t, t = Observe(s, ns)
  PROVE  /\ t \in States
         /\ t.m.list = s.m.list /\ t.m.unseen = s.m.unseen
         /\ t.m.manager = s.m.manager /\ Bounded(t.m.queue)
         /\ t.m.retry \in {"no", s.m.retry}
         /\ EntryOK(s.m) => EntryOK(t.m)
         /\ Reserve => t.m.next \in {None, s.m.next} /\ t.keep \in {None, s.keep}
         /\ Reserve /\ s.m.manager = "ready" /\ s.m.next # None /\ s.m.next \in ns
              => t.m.next = None /\ t.keep = None
         /\ ~Reserve => t.asks = s.asks
         /\ s.m.manager = "new" => t.m.queue = s.m.queue \cup ns
         /\ ~Reserve /\ s.m.manager = "ready" =>
              t.m.next >= s.m.next /\ \A n \in ns : n < t.m.next \/ n < 1
<1> DEFINE top == Max({s.m.next, 1})
           above == {n \in ns : n >= top}
<1>0. s.m \in Managers /\ s.m.next \in Nat /\ s.keep \in Nat
  BY DEF States, Managers
<1>1. top \in Nat /\ top >= 1 /\ top >= s.m.next /\ top \in {s.m.next, 1}
  BY <1>0, MaxOfTwo
<1>2. above \in SUBSET Nat /\ Bounded(above)
  BY BoundedPart
<1>3. CASE s.m.manager = "new"
  <2>1. t = [s EXCEPT !.m.queue = @ \cup ns]
    BY <1>3 DEF Observe
  <2>2. /\ t \in States /\ t.m.list = s.m.list /\ t.m.unseen = s.m.unseen
        /\ t.m.manager = s.m.manager
        /\ t.m.retry = s.m.retry /\ t.m.entry = s.m.entry /\ t.m.next = s.m.next
        /\ t.m.queue = s.m.queue \cup ns /\ t.keep = s.keep /\ t.asks = s.asks
    BY <2>1 DEF States, Managers
  <2>3. Bounded(t.m.queue)
    BY <1>0, <2>2, BoundedUnion DEF Managers
  <2> QED BY <1>3, <2>2, <2>3 DEF EntryOK
<1>4. CASE s.m.manager = "ready" /\ above # {}
  <2>1. t = Passed(s, above)
    BY <1>4 DEF Observe
  <2>2. /\ t \in States
        /\ t.m.list = s.m.list /\ t.m.unseen = s.m.unseen
        /\ t.m.manager = s.m.manager /\ t.m.queue = s.m.queue
        /\ t.m.retry \in {"no", s.m.retry}
        /\ Reserve => t.m.next = None /\ t.keep = None
        /\ ~Reserve => /\ t.keep = s.keep /\ t.asks = s.asks
                       /\ \A n \in above : n < t.m.next
        /\ EntryOK(t.m)
    <3> HIDE DEF above
    <3> QED BY <1>2, <1>4, <2>1, PassedIs
  <2>3. ASSUME ~Reserve
        PROVE  t.m.next >= s.m.next /\ \A n \in ns : n < t.m.next \/ n < 1
    <3>1. PICK n \in above : TRUE
      BY <1>4
    <3>2. t.m.next \in Nat
      BY <2>2 DEF States, Managers
    <3>3. n < t.m.next /\ n \in Nat /\ n >= top
      BY <2>2, <2>3, <3>1
    <3>4. ASSUME NEW k \in ns PROVE k < t.m.next \/ k < 1
      <4>1. CASE k \in above
        BY <2>2, <2>3, <4>1
      <4>2. CASE k \notin above
        <5>1. k \in Nat /\ ~(k >= top)
          BY <4>2
        <5> HIDE DEF above, top
        <5> QED BY <1>1, <3>2, <3>3, <5>1
      <4> QED BY <4>1, <4>2
    <3> QED BY <1>0, <1>1, <3>2, <3>3, <3>4
  <2>4. s.m.manager # "new"
    BY <1>4
  <2> QED BY <2>2, <2>3, <2>4
<1>5. CASE s.m.manager # "new" /\ ~(s.m.manager = "ready" /\ above # {})
  <2>1. t = s
    BY <1>5 DEF Observe
  <2>2. ASSUME s.m.manager = "ready", s.m.next # None, s.m.next \in ns PROVE FALSE
    <3>1. top = s.m.next
      BY <1>0, <1>1, <2>2 DEF None
    <3>2. s.m.next \in above
      BY <1>0, <2>2, <3>1
    <3> QED BY <1>5, <2>2, <3>2
  <2>3. ASSUME s.m.manager = "ready", NEW n \in ns PROVE n < s.m.next \/ n < 1
    <3>1. n \notin above
      BY <1>5, <2>3
    <3> QED BY <1>0, <1>1, <3>1
  <2>4. s.m.manager # "new" /\ t.m.next >= s.m.next
    BY <1>0, <1>5, <2>1
  <2> HIDE DEF above, top
  <2> QED BY <2>1, <2>2, <2>3, <2>4
<1> QED BY <1>3, <1>4, <1>5

(* What a request or the end of one leaves alone.                           *)
Alike(s, t) ==
  /\ t \in States
  /\ t.m.list = s.m.list /\ t.m.unseen = s.m.unseen
  /\ t.m.manager = s.m.manager /\ t.m.queue = s.m.queue
  /\ t.m.next = s.m.next /\ t.keep = s.keep
  /\ t.m.retry \in {"no", s.m.retry}
  /\ EntryOK(s.m) => EntryOK(t.m)

LEMMA FinallyIs ==
  ASSUME NEW s \in States, NEW t, t = Finally(s)
  PROVE  /\ Alike(s, t)
         /\ ~Reserve => t.asks = s.asks
<1> DEFINE u == [s EXCEPT !.m.busy = FALSE]
<1>1. /\ u \in States /\ u.m.list = s.m.list /\ u.m.unseen = s.m.unseen
      /\ u.m.manager = s.m.manager
      /\ u.m.queue = s.m.queue /\ u.m.next = s.m.next /\ u.keep = s.keep
      /\ u.m.retry = s.m.retry /\ u.m.entry = s.m.entry /\ u.asks = s.asks
  BY DEF States, Managers
<1>2. CASE s.m.manager = "ready" /\ Reserve /\ s.m.next = None
  <2>1. t = Ask(u, "reserve")
    BY <1>2 DEF Finally, RequestReservation
  <2>2. "reserve" \in Kinds
    BY DEF Kinds
  <2> HIDE DEF u
  <2> QED BY <1>1, <1>2, <2>1, <2>2, AskIs DEF Alike, EntryOK, Asking
<1>3. CASE ~(s.m.manager = "ready" /\ Reserve /\ s.m.next = None)
  <2>1. t = u
    BY <1>3 DEF Finally
  <2> HIDE DEF u
  <2> QED BY <1>1, <2>1 DEF Alike, EntryOK
<1> QED BY <1>2, <1>3

LEMMA FailedIs ==
  ASSUME NEW s \in States, NEW kind \in Kinds, NEW t, t = Failed(s, kind)
  PROVE  /\ t \in States
         /\ t.m.list = s.m.list /\ t.m.unseen = s.m.unseen
         /\ t.m.manager = s.m.manager /\ t.m.queue = s.m.queue
         /\ t.m.next = s.m.next /\ t.keep = s.keep
         /\ t.m.retry \in {"no", s.m.retry, kind}
         /\ EntryOK(s.m) => EntryOK(t.m)
         /\ ~Reserve => t.asks = s.asks
<1>1. CASE kind = "reserve"
  <2>1. t = [s EXCEPT !.m.busy = FALSE, !.m.retry = "reserve"]
    BY <1>1 DEF Failed
  <2> DEFINE m == [s.m EXCEPT !.busy = FALSE, !.retry = "reserve"]
  <2>2. /\ m \in Managers /\ m.next = s.m.next /\ m.list = s.m.list
        /\ m.unseen = s.m.unseen
        /\ m.manager = s.m.manager /\ m.queue = s.m.queue /\ m.retry = "reserve"
        /\ m.entry = s.m.entry
    BY DEF States, Managers, Kinds
  <2>3. t = [s EXCEPT !.m = m]
    BY <2>1 DEF States, Managers
  <2> HIDE DEF m
  <2>4. t.m = m /\ t = [m |-> m, keep |-> s.keep, asks |-> s.asks]
    BY <2>3 DEF States
  <2>5. t \in States
    BY <2>2, <2>4 DEF States
  <2> QED BY <1>1, <2>2, <2>4, <2>5 DEF EntryOK
<1>2. CASE kind = "state"
  <2> DEFINE u == [s EXCEPT !.m.retry = "state"]
  <2>1. t = Finally(u)
    BY <1>2 DEF Failed
  <2>2. /\ u \in States /\ u.m.list = s.m.list /\ u.m.unseen = s.m.unseen
        /\ u.m.manager = s.m.manager
        /\ u.m.queue = s.m.queue /\ u.m.next = s.m.next /\ u.keep = s.keep
        /\ u.m.retry = "state" /\ u.m.entry = s.m.entry /\ u.asks = s.asks
    BY DEF States, Managers, Kinds
  <2> HIDE DEF u
  <2>3. Alike(u, t) /\ (~Reserve => t.asks = u.asks)
    BY <2>1, <2>2, FinallyIs
  <2> QED BY <1>2, <2>2, <2>3 DEF Alike, EntryOK
<1> QED BY <1>1, <1>2 DEF Kinds

(* The state the manager waited for is there.                               *)
Started(s, answer, t) ==
  /\ t \in States
  /\ t.m.list = s.m.list /\ t.m.unseen = s.m.unseen
  /\ t.m.manager = "ready" /\ Bounded(t.m.queue)
  /\ t.m.retry \in {"no", s.m.retry}
  /\ EntryOK(t.m)
  /\ Reserve => t.m.next \in {None, s.keep} /\ t.keep \in {None, s.keep}
  /\ ~Reserve => t.asks = s.asks
  /\ ~Reserve => /\ t.m.next >= answer
                 /\ t.m.next >= s.m.next
                 /\ \A n \in s.m.queue : n < t.m.next \/ n < 1

LEMMA InitializedIs ==
  ASSUME NEW s \in States, Bounded(s.m.queue), NEW answer \in Nat,
         NEW t, t = Initialized(s, answer)
  PROVE  Started(s, answer, t)
<1> DEFINE next == IF Reserve THEN s.keep ELSE Merge(answer, s.m.next)
           keep == IF Reserve THEN s.keep ELSE None
           m == [s.m EXCEPT !.manager = "ready", !.queue = {}, !.next = next]
           known == [m |-> m, keep |-> keep, asks |-> s.asks]
           seen == Observe(known, s.m.queue)
           full == [seen EXCEPT !.m = Publish(@)]
<1>0. s.m \in Managers /\ s.m.queue \in SUBSET Nat /\ s.m.next \in Nat /\ s.keep \in Nat
  BY DEF States, Managers
<1>1. keep \in Nat /\ next \in Nat /\ (~Reserve => next >= answer /\ next >= s.m.next)
  BY <1>0, MaxOfTwo DEF Merge, None
<1>2. t = Finally(full)
  <2>1. [s EXCEPT !.m = m, !.keep = keep] = known
    BY StateIs
  <2>2. t = Finally([Observe([s EXCEPT !.m = m, !.keep = keep], s.m.queue)
                       EXCEPT !.m = Publish(@)])
    BY DEF Initialized
  <2> HIDE DEF m, keep, known
  <2> QED BY <2>1, <2>2
<1>3. /\ m \in Managers /\ m.manager = "ready" /\ m.queue = {} /\ m.next = next
      /\ m.list = s.m.list /\ m.unseen = s.m.unseen /\ m.retry = s.m.retry
  <2> HIDE DEF next
  <2> QED BY <1>0, <1>1 DEF Managers
<1> HIDE DEF m
<1>4. /\ known \in States /\ known.m = m /\ known.keep = keep /\ known.asks = s.asks
      /\ Bounded(known.m.queue)
  BY <1>1, <1>3, BoundedOne DEF States
<1> HIDE DEF known
<1>5. /\ seen \in States /\ seen.m.list = s.m.list /\ seen.m.unseen = s.m.unseen
      /\ seen.m.manager = "ready"
      /\ Bounded(seen.m.queue) /\ seen.m.retry \in {"no", s.m.retry}
      /\ Reserve => seen.m.next \in {None, s.keep} /\ seen.keep \in {None, s.keep}
      /\ ~Reserve => seen.asks = s.asks
      /\ ~Reserve => /\ seen.m.next >= next
                     /\ \A n \in s.m.queue : n < seen.m.next \/ n < 1
  <2> HIDE DEF seen
  <2>1. seen = Observe(known, s.m.queue)
    BY DEF seen
  <2>2. s.m.queue \in SUBSET Nat /\ Bounded(s.m.queue) /\ known.m.manager = "ready"
    BY <1>0, <1>3, <1>4
  <2> HIDE DEF next, keep
  <2>3. /\ seen \in States /\ seen.m.list = known.m.list /\ seen.m.unseen = known.m.unseen
        /\ seen.m.manager = "ready"
        /\ Bounded(seen.m.queue) /\ seen.m.retry \in {"no", known.m.retry}
        /\ Reserve => seen.m.next \in {None, known.m.next} /\ seen.keep \in {None, known.keep}
        /\ ~Reserve => seen.asks = known.asks
        /\ ~Reserve => /\ seen.m.next >= known.m.next
                       /\ \A n \in s.m.queue : n < seen.m.next \/ n < 1
    BY <1>4, <2>1, <2>2, ObserveIs
  <2> QED BY <1>3, <1>4, <2>3 DEF next, keep
<1> HIDE DEF seen
<1>6. seen.m \in Managers /\ seen.m.next \in Nat
  BY <1>5 DEF States, Managers
<1>7. /\ full \in States /\ full.m = Publish(seen.m) /\ full.keep = seen.keep
      /\ full.asks = seen.asks
  BY <1>5, <1>6, PublishIs DEF States
<1> HIDE DEF full
<1>8. Alike(full, t) /\ (~Reserve => t.asks = full.asks)
  BY <1>2, <1>7, FinallyIs
<1>9. /\ t \in States /\ t.m.list = s.m.list /\ t.m.unseen = s.m.unseen
      /\ t.m.manager = "ready"
      /\ t.m.queue = seen.m.queue /\ t.m.next = seen.m.next /\ t.keep = seen.keep
      /\ t.m.retry \in {"no", s.m.retry} /\ EntryOK(t.m)
      /\ ~Reserve => t.asks = s.asks
  BY <1>5, <1>6, <1>7, <1>8, PublishIs DEF Alike, EntryOK
<1> HIDE DEF next
<1> QED BY <1>0, <1>1, <1>5, <1>6, <1>9 DEF Started

LEMMA ReservedIs ==
  ASSUME NEW s \in States, NEW answer \in Nat, NEW t, t = Reserved(s, answer)
  PROVE  /\ t \in States
         /\ t.m.list = s.m.list /\ t.m.unseen = s.m.unseen
         /\ t.m.manager = s.m.manager /\ t.m.queue = s.m.queue
         /\ t.m.retry = s.m.retry
         /\ EntryOK(t.m) /\ t.m.next = answer /\ t.keep = answer /\ t.asks = s.asks
<1> DEFINE m == [s.m EXCEPT !.next = answer, !.busy = FALSE]
<1>1. /\ m \in Managers /\ m.next = answer /\ m.list = s.m.list /\ m.unseen = s.m.unseen
      /\ m.manager = s.m.manager /\ m.queue = s.m.queue /\ m.retry = s.m.retry
  BY DEF States, Managers
<1>2. t = [m |-> Publish(m), keep |-> answer, asks |-> s.asks]
  <2>1. t = [s EXCEPT !.m = Publish(m), !.keep = answer]
    BY DEF Reserved
  <2> HIDE DEF m
  <2> QED BY <2>1, StateIs
<1> HIDE DEF m
<1>3. t.m = Publish(m) /\ t.keep = answer /\ t.asks = s.asks
  BY <1>2
<1>4. t \in States
  BY <1>1, <1>2, PublishIs DEF States
<1> QED BY <1>1, <1>3, <1>4, PublishIs DEF EntryOK

-----------------------------------------------------------------------------
(* A turn of one window.                                                    *)

LEMMA NowIs ==
  ASSUME Types, NEW w \in Windows
  PROVE  /\ Now(w) \in States /\ Now(w).m = win[w] /\ Now(w).keep = stored[w]
         /\ Now(w).asks = {} /\ win[w] \in Managers /\ Bounded(win[w].queue)
<1>1. win[w] \in Managers /\ stored[w] \in Nat
  BY DEF Types
<1> QED BY <1>1 DEF Types, Now, States

LEMMA CallIs ==
  ASSUME NEW w \in Windows, NEW kind \in Kinds
  PROVE  /\ Call(w, kind) \in Requests /\ Call(w, kind).answer = None
         /\ Call(w, kind).win = w /\ Call(w, kind).kind = kind
         /\ Call(w, kind).orphan = FALSE
  BY DEF Call, Requests, None

LEMMA TurnIs ==
  ASSUME Types, NEW w \in Windows, NEW s \in States, NEW less, Turn(w, s, less),
         Bounded(s.m.queue)
  PROVE  /\ win' \in [Windows -> Managers] /\ win'[w] = s.m
         /\ \A v \in Windows \ {w} : win'[v] = win[v] /\ stored'[v] = stored[v]
         /\ stored' \in [Windows -> Nat] /\ stored'[w] = s.keep
         /\ calls' \in SUBSET Requests
         /\ \A v \in Windows : Bounded(win'[v].queue)
         /\ \A k \in calls' : \/ k \in calls \ less
                              \/ /\ k.answer = None /\ k.win = w /\ ~k.orphan
                                 /\ k.kind \in s.asks
<1>0. s.m \in Managers /\ s.keep \in Nat /\ s.asks \subseteq Kinds
  BY DEF States
<1>1. win' = [win EXCEPT ![w] = s.m] /\ stored' = [stored EXCEPT ![w] = s.keep]
  BY DEF Turn
<1>2. win' \in [Windows -> Managers] /\ stored' \in [Windows -> Nat]
  BY <1>0, <1>1 DEF Types
<1>3. /\ win'[w] = s.m /\ stored'[w] = s.keep
      /\ \A v \in Windows \ {w} : win'[v] = win[v] /\ stored'[v] = stored[v]
  BY <1>1 DEF Types
<1>4. \A v \in Windows : Bounded(win'[v].queue)
  BY <1>3 DEF Types
<1>5. ASSUME NEW k \in calls'
      PROVE  /\ k \in Requests
             /\ \/ k \in calls \ less
                \/ /\ k.answer = None /\ k.win = w /\ ~k.orphan
                   /\ k.kind \in s.asks
  <2>1. CASE k \in calls \ less
    BY <2>1 DEF Types
  <2>2. CASE k \in {Call(w, kind) : kind \in s.asks}
    <3>1. PICK kind \in s.asks : k = Call(w, kind)
      BY <2>2
    <3>2. kind \in Kinds
      BY <1>0
    <3> QED BY <3>1, <3>2, CallIs
  <2>3. calls' = (calls \ less) \cup {Call(w, kind) : kind \in s.asks}
    BY DEF Turn
  <2> QED BY <2>1, <2>2, <2>3
<1> QED BY <1>2, <1>3, <1>4, <1>5

LEMMA SerialsAre ==
  ASSUME Types, NEW cs \in SUBSET Contacts
  PROVE  Serials(cs) \in SUBSET Nat /\ Bounded(Serials(cs))
<1>1. Serials(cs) \in SUBSET Nat /\ Serials(cs) \subseteq Serials(Contacts)
  BY DEF Serials, Types
<1> QED BY <1>1, BoundedPart DEF Types

(* What it makes of window w that its list is now list and that the        *)
(* serials ns have been seen as well.                                       *)
HasSeen(w, list, ns, t) ==
  /\ t \in States
  /\ t.m.list = list /\ t.m.manager = win[w].manager /\ Bounded(t.m.queue)
  /\ t.m.retry \in {"no", win[w].retry}
  /\ EntryOK(win[w]) => EntryOK(t.m)
  /\ Reserve => t.m.next \in {None, win[w].next} /\ t.keep \in {None, stored[w]}
  /\ Reserve /\ win[w].manager = "ready" /\ win[w].next # None /\ win[w].next \in ns
       => t.m.next = None /\ t.keep = None
  /\ ~Reserve => t.asks = {}
  /\ win[w].manager = "new" => t.m.queue = win[w].queue \cup Serials(list) \cup ns
  /\ ~Reserve /\ win[w].manager = "ready" =>
       /\ t.m.next >= win[w].next
       /\ \A n \in Serials(list) \cup ns : n < t.m.next \/ n < 1

LEMMA ListedIs ==
  ASSUME Types, NEW w \in Windows, NEW list \in SUBSET Contacts,
         NEW ns \in SUBSET Nat, Bounded(ns), NEW t, t = Listed(w, list, ns)
  PROVE  HasSeen(w, list, ns, t)
<1> DEFINE m == [win[w] EXCEPT !.list = list, !.unseen = {}]
           s == [Now(w) EXCEPT !.m = m]
           seen == Serials(list) \cup ns
<1>0. /\ m \in Managers /\ m.list = list /\ m.manager = win[w].manager
      /\ m.queue = win[w].queue /\ m.retry = win[w].retry /\ m.next = win[w].next
      /\ m.entry = win[w].entry
  BY NowIs DEF Managers
<1>3. t = Observe(s, seen)
  BY NowIs DEF Listed
<1> HIDE DEF m
<1>1. /\ s \in States /\ s.m.list = list /\ s.m.manager = win[w].manager
      /\ s.m.queue = win[w].queue /\ s.m.retry = win[w].retry /\ s.m.next = win[w].next
      /\ s.m.entry = win[w].entry /\ s.keep = stored[w] /\ s.asks = {}
  BY <1>0, NowIs DEF States
<1>2. seen \in SUBSET Nat /\ Bounded(seen)
  BY SerialsAre, BoundedUnion
<1>4. Bounded(s.m.queue)
  BY <1>1, NowIs
<1>5. ns \subseteq seen
  OBVIOUS
<1>6. win[w].queue \cup Serials(list) \cup ns = win[w].queue \cup seen
  OBVIOUS
<1> HIDE DEF s
<1>7. seen = Serials(list) \cup ns
  OBVIOUS
<1> HIDE DEF seen
<1>8. /\ t \in States
      /\ t.m.list = s.m.list /\ t.m.manager = s.m.manager /\ Bounded(t.m.queue)
      /\ t.m.retry \in {"no", s.m.retry}
      /\ EntryOK(s.m) => EntryOK(t.m)
      /\ Reserve => t.m.next \in {None, s.m.next} /\ t.keep \in {None, s.keep}
      /\ Reserve /\ s.m.manager = "ready" /\ s.m.next # None /\ s.m.next \in seen
           => t.m.next = None /\ t.keep = None
      /\ ~Reserve => t.asks = s.asks
      /\ s.m.manager = "new" => t.m.queue = s.m.queue \cup seen
      /\ ~Reserve /\ s.m.manager = "ready" =>
           t.m.next >= s.m.next /\ \A n \in seen : n < t.m.next \/ n < 1
  <2>1. /\ s \in States /\ seen \in SUBSET Nat /\ Bounded(seen) /\ Bounded(s.m.queue)
        /\ t = Observe(s, seen)
    BY <1>1, <1>2, <1>3, <1>4
  <2> QED BY <2>1, ObserveIs
<1>9. EntryOK(win[w]) => EntryOK(t.m)
  BY <1>1, <1>8 DEF EntryOK
<1> QED BY <1>1, <1>5, <1>6, <1>7, <1>8, <1>9 DEF HasSeen

-----------------------------------------------------------------------------
(* The inductive invariant.  With reservations: a number that an answer, a  *)
(* window or its localStorage holds was reserved, was sent with no contact  *)
(* and is held in one place only; what a window has stored and what it      *)
(* offers may be the same number.                                           *)
Answers == {k \in calls : k.kind = "reserve" /\ k.answer # None}

Held(w) == {stored[w], win[w].next} \ {None}

Used == Serials(Contacts) \ {None}

EntriesFollow == \A w \in Windows : EntryOK(win[w])

UsedAreReserved == \A n \in Used : n < nextSerial

HeldAreFree == \A w \in Windows : \A n \in Held(w) : n < nextSerial /\ n \notin Used

HeldByOne == \A w, v \in Windows : w # v => Held(w) \cap Held(v) = {}

AnswersAreFree ==
  \A k \in Answers : /\ k.answer < nextSerial /\ k.answer \notin Used
                     /\ \A w \in Windows : k.answer \notin Held(w)

AnswersDiffer == \A k, l \in Answers : k.answer = l.answer => k = l

Reserving ==
  /\ UsedAreReserved /\ HeldAreFree /\ HeldByOne
  /\ AnswersAreFree /\ AnswersDiffer /\ SerialsUsedOnce

(* Without reservations: a listed contact that the manager has not queued   *)
(* is unseen, or a row that was one when the state it waits for was read.   *)
Known(w, c) ==
  \/ serial[c] \in win[w].queue
  \/ /\ c \in rows
     /\ \A k \in calls :
          k.win = w /\ ~k.orphan /\ k.answer # None => serial[c] < k.answer

Seen(m) == m.list \ m.unseen

Counted(w) ==
  /\ win[w].retry # "reserve"
  /\ win[w].manager = "none" => win[w].retry = "no"
  /\ win[w].manager = "new" => \A c \in Seen(win[w]) : Known(w, c)
  /\ win[w].manager = "ready" =>
       win[w].next >= 1 /\ \A c \in Seen(win[w]) : serial[c] < win[w].next

CallsAreAwaited ==
  \A k \in calls : k.kind = "state" /\ (~k.orphan => win[k.win].manager # "none")

ListsAreLogged ==
  /\ \A c \in rows : serial[c] >= 1
  /\ \A w \in Windows : news[w] \subseteq rows /\ \A c \in win[w].list : serial[c] >= 1

Counting ==
  /\ CallsAreAwaited /\ ListsAreLogged
  /\ \A w \in Windows : Counted(w)

Inv == Types /\ EntriesFollow /\ (Reserve => Reserving)

LEMMA InitHolds == Init => Inv
<1> SUFFICES ASSUME Init PROVE Inv
  OBVIOUS
<1> USE DEF Init
<1>1. \A w \in Windows : /\ win[w] = Opened({}) /\ stored[w] = None /\ news[w] = {}
                         /\ win[w] \in Managers /\ win[w].queue = {} /\ win[w].next = None
                         /\ win[w].entry = None /\ win[w].manager = "none"
                         /\ win[w].list = {} /\ win[w].retry = "no"
  BY DEF Opened, Managers, None
<1>2. env \in Setup
  BY SetupsAssumption
<1>3. Serials(Contacts) \subseteq {None}
  BY DEF Serials
<1>4. Bounded({None}) /\ Bounded({})
  BY BoundedOne DEF None
<1>5. Types
  <2>1. win \in [Windows -> Managers]
    BY <1>1
  <2>2. Bounded(Serials(Contacts)) /\ \A w \in Windows : Bounded(win[w].queue)
    BY <1>1, <1>3, <1>4, BoundedPart
  <2>3. /\ serial \in [Contacts -> Nat] /\ rows \in SUBSET Contacts
        /\ nextSerial \in Nat /\ nextSerial >= 1 /\ stored \in [Windows -> Nat]
        /\ calls \in SUBSET Requests /\ news \in [Windows -> SUBSET Contacts]
    BY DEF None
  <2> QED BY <1>2, <2>1, <2>2, <2>3 DEF Types
<1>6. EntriesFollow
  BY <1>1 DEF EntriesFollow, EntryOK
<1>7. Reserving
  <2>1. Used = {} /\ Answers = {} /\ \A w \in Windows : Held(w) = {}
    BY <1>1, <1>3 DEF Used, Answers, Held
  <2>2. SerialsUsedOnce
    BY DEF SerialsUsedOnce
  <2> QED BY <2>1, <2>2 DEF Reserving, UsedAreReserved, HeldAreFree, HeldByOne,
                                  AnswersAreFree, AnswersDiffer
<1> QED BY <1>5, <1>6, <1>7 DEF Inv

LEMMA InitCounting == Init => Counting
<1> SUFFICES ASSUME Init PROVE Counting
  OBVIOUS
<1> USE DEF Init
<1>1. \A w \in Windows : /\ news[w] = {} /\ win[w].manager = "none"
                         /\ win[w].list = {} /\ win[w].retry = "no"
  BY DEF Opened
<1>2. CallsAreAwaited /\ ListsAreLogged
  BY <1>1 DEF CallsAreAwaited, ListsAreLogged
<1>3. \A w \in Windows : Counted(w)
  BY <1>1 DEF Counted
<1> QED BY <1>2, <1>3 DEF Counting

-----------------------------------------------------------------------------
(* Every step keeps the types.                                              *)

LEMMA UsesIs ==
  ASSUME Types, NEW bound \in {"faults", "opens", "modes"}, Uses(bound)
  PROVE  /\ env' \in Setup /\ env'.windows = env.windows
         /\ env'.contacts = env.contacts /\ env'.reserve = env.reserve
<1>1. env \in Setup /\ env[bound] \in Nat
  BY DEF Types, Setup
<1>2. env' = [env EXCEPT ![bound] = @ - 1] /\ env[bound] > 0 /\ env[bound] - 1 \in Nat
  BY <1>1 DEF Uses
<1>3. env' \in Setup
  BY <1>1, <1>2 DEF Setup
<1>4. /\ env'.windows = env.windows /\ env'.contacts = env.contacts
      /\ env'.reserve = env.reserve
  BY <1>1, <1>2 DEF Setup
<1> QED BY <1>3, <1>4

LEMMA TurnTypes ==
  ASSUME Types, EntriesFollow, NEW w \in Windows, NEW s \in States, NEW less,
         Turn(w, s, less), Bounded(s.m.queue), EntryOK(s.m),
         serial' \in [Contacts -> Nat], Bounded(Serials(Contacts)'),
         rows' \in SUBSET Contacts, nextSerial' = nextSerial,
         news' \in [Windows -> SUBSET Contacts], env' \in Setup
  PROVE  Types' /\ EntriesFollow'
<1>1. /\ win' \in [Windows -> Managers] /\ stored' \in [Windows -> Nat]
      /\ calls' \in SUBSET Requests /\ \A v \in Windows : Bounded(win'[v].queue)
      /\ win'[w] = s.m /\ \A v \in Windows \ {w} : win'[v] = win[v]
  BY TurnIs
<1>2. EntriesFollow'
  BY <1>1 DEF EntriesFollow, EntryOK
<1>3. Bounded(Serials(Contacts))'
  BY DEF Bounded
<1>4. (\A v \in Windows : Bounded(win[v].queue))'
  BY <1>1 DEF Bounded
<1> QED BY <1>1, <1>2, <1>3, <1>4 DEF Types

LEMMA SerialsKept ==
  ASSUME Types, serial' = serial
  PROVE  serial' \in [Contacts -> Nat] /\ Bounded(Serials(Contacts)')
<1>1. Serials(Contacts)' = Serials(Contacts)
  BY DEF Serials
<1> QED BY <1>1 DEF Types

LEMMA ReservationIs ==
  ASSUME Types
  PROVE  /\ NextAfterRows \in Nat /\ \A c \in rows : serial[c] < NextAfterRows
         /\ Reservation \in Nat /\ Reservation >= nextSerial
         /\ \A c \in rows : serial[c] < Reservation
<1> DEFINE seen == Serials(rows) \cup {0}
<1>1. seen \in SUBSET Nat /\ Bounded(seen)
  <2>1. rows \in SUBSET Contacts
    BY DEF Types
  <2>2. Serials(rows) \in SUBSET Nat /\ Bounded(Serials(rows))
    BY <2>1, SerialsAre
  <2>3. {0} \in SUBSET Nat /\ Bounded({0})
    BY BoundedOne
  <2>4. Bounded(Serials(rows) \cup {0})
    BY <2>2, <2>3, BoundedUnion
  <2> QED BY <2>2, <2>4
<1>2. Max(seen) \in seen /\ \A n \in seen : Max(seen) >= n
  <2>1. seen # {}
    OBVIOUS
  <2> HIDE DEF seen
  <2> QED BY <1>1, <2>1, MaxExists
<1>3. \A c \in rows : serial[c] \in seen
  BY DEF Serials
<1>4. NextAfterRows = Max(seen) + 1
  BY DEF NextAfterRows
<1> HIDE DEF seen
<1>8. \A c \in rows : serial[c] \in Nat /\ Max(seen) >= serial[c] /\ Max(seen) \in Nat
  BY <1>1, <1>2, <1>3
<1>9. Max(seen) \in Nat
  BY <1>1, <1>2
<1>5. NextAfterRows \in Nat /\ \A c \in rows : serial[c] < NextAfterRows /\ serial[c] \in Nat
  BY <1>4, <1>8, <1>9
<1>6. nextSerial \in Nat
  BY DEF Types
<1>7. Reservation = IF nextSerial >= NextAfterRows THEN nextSerial ELSE NextAfterRows
  BY <1>5, <1>6, MaxOfTwo DEF Reservation
<1> HIDE DEF NextAfterRows
<1> QED BY <1>5, <1>6, <1>7

-----------------------------------------------------------------------------
(* What the turns do to their window.                                       *)
Same(w, s) ==
  /\ s \in States /\ s.m.list = win[w].list /\ s.m.queue = win[w].queue
  /\ s.m.next = win[w].next /\ s.keep = stored[w]
  /\ EntryOK(win[w]) => EntryOK(s.m)

LEMMA KindsAre == "state" \in Kinds /\ "reserve" \in Kinds /\ "no" \notin Kinds
  BY DEF Kinds

LEMMA EnterIs ==
  ASSUME Types, NEW w \in Windows, Enter(w)
  PROVE  \E s \in States : /\ Turn(w, s, {}) /\ Same(w, s) /\ s.m.manager = "new"
                           /\ s.m.retry \in {"no", win[w].retry} /\ s.asks \subseteq {"state"}
                           /\ s.m.unseen = Pending(w)
<1> DEFINE m == [win[w] EXCEPT !.manager = "new", !.unseen = Pending(w)]
           u == [Now(w) EXCEPT !.m = m]
           s == Ask(u, "state")
<1>0. /\ m \in Managers /\ m.list = win[w].list /\ m.manager = "new"
      /\ m.queue = win[w].queue /\ m.retry = win[w].retry /\ m.next = win[w].next
      /\ m.entry = win[w].entry /\ m.unseen = Pending(w)
  BY NowIs DEF Managers, Pending
<1>2. Turn(w, s, {})
  BY NowIs DEF Enter, InitializeStart
<1> HIDE DEF m
<1>1. /\ u \in States /\ u.m.list = win[w].list /\ u.m.queue = win[w].queue
      /\ u.m.next = win[w].next /\ u.m.entry = win[w].entry /\ u.keep = stored[w]
      /\ u.m.manager = "new" /\ u.m.retry = win[w].retry /\ u.asks = {}
      /\ u.m.unseen = Pending(w)
  BY <1>0, NowIs DEF States
<1> HIDE DEF u
<1>3. Same(w, s) /\ s.m.manager = "new" /\ s.m.retry \in {"no", win[w].retry}
      /\ s.asks \subseteq {"state"} /\ s \in States /\ s.m.unseen = Pending(w)
  <2> HIDE DEF s
  <2>1. Asking(u, "state", s)
    BY <1>1, KindsAre, AskIs DEF s
  <2> QED BY <1>1, <2>1 DEF Asking, Same, EntryOK
<1> HIDE DEF s
<1> QED BY <1>2, <1>3

LEMMA RetryIs ==
  ASSUME Types, NEW w \in Windows, Retry(w)
  PROVE  \E s \in States : /\ Turn(w, s, {}) /\ Same(w, s) /\ s.m.manager = win[w].manager
                           /\ s.m.retry = "no" /\ s.asks \subseteq {win[w].retry}
                           /\ s.m.unseen = win[w].unseen
<1> DEFINE u == [Now(w) EXCEPT !.m.retry = "no"]
           s == Ask(u, win[w].retry)
<1>1. /\ u \in States /\ u.m.list = win[w].list /\ u.m.queue = win[w].queue
      /\ u.m.next = win[w].next /\ u.m.entry = win[w].entry /\ u.keep = stored[w]
      /\ u.m.manager = win[w].manager /\ u.m.retry = "no" /\ u.asks = {}
      /\ u.m.unseen = win[w].unseen
  BY NowIs DEF States, Managers
<1>2. Turn(w, s, {}) /\ win[w].retry \in Kinds
  BY NowIs DEF Retry, Managers
<1> HIDE DEF u
<1>3. Same(w, s) /\ s.m.manager = win[w].manager /\ s.m.retry = "no"
      /\ s.asks \subseteq {win[w].retry} /\ s \in States /\ s.m.unseen = win[w].unseen
  <2> HIDE DEF s
  <2>1. Asking(u, win[w].retry, s)
    BY <1>1, <1>2, AskIs DEF s
  <2> QED BY <1>1, <2>1 DEF Asking, Same, EntryOK
<1> HIDE DEF s
<1> QED BY <1>2, <1>3

LEMMA ReconnectIs ==
  ASSUME Types, NEW w \in Windows, Reconnect(w)
  PROVE  \E s \in States : /\ Turn(w, s, {}) /\ Same(w, s) /\ s.m.manager = win[w].manager
                           /\ s.m.retry \in {"no", win[w].retry} /\ s.asks \subseteq {"state"}
                           /\ win[w].manager = "none" => s.asks = {}
                           /\ s.m.unseen = win[w].unseen
<1>1. CASE win[w].manager = "none"
  <2>1. Turn(w, Now(w), {})
    BY <1>1 DEF Reconnect
  <2> QED BY <1>1, <2>1, NowIs DEF Same
<1>2. CASE win[w].manager # "none"
  <2> DEFINE s == Ask(Now(w), "state")
  <2>1. Turn(w, s, {})
    BY <1>2 DEF Reconnect, InitializeStart
  <2>2. Same(w, s) /\ s.m.manager = win[w].manager /\ s.m.retry \in {"no", win[w].retry}
        /\ s.asks \subseteq {"state"} /\ s \in States /\ s.m.unseen = win[w].unseen
    <3>1. /\ Now(w) \in States /\ Now(w).m = win[w] /\ Now(w).keep = stored[w]
          /\ Now(w).asks = {}
      BY NowIs
    <3> HIDE DEF s
    <3>2. s = Ask(Now(w), "state")
      BY DEF s
    <3>3. Asking(Now(w), "state", s)
      BY <3>1, <3>2, KindsAre, AskIs
    <3> QED BY <3>1, <3>3 DEF Asking, Same, EntryOK
  <2> HIDE DEF s
  <2> QED BY <1>2, <2>1, <2>2
<1> QED BY <1>1, <1>2

LEMMA CallFailsIs ==
  ASSUME Types, NEW k \in calls, CallFails(k)
  PROVE  \/ /\ k.orphan /\ calls' = calls \ {k} /\ win' = win /\ stored' = stored
         \/ \E s \in States :
              /\ Turn(k.win, s, {k}) /\ Same(k.win, s) /\ s.m.manager = win[k.win].manager
              /\ s.m.retry \in {"no", win[k.win].retry, k.kind}
              /\ s.m.unseen = win[k.win].unseen
              /\ ~Reserve => s.asks = {}
<1>1. CASE k.orphan
  BY <1>1 DEF CallFails
<1>2. CASE ~k.orphan
  <2> DEFINE w == k.win
             s == Failed(Now(w), k.kind)
  <2>1. w \in Windows /\ k.kind \in Kinds
    BY DEF Types, Requests
  <2>2. Turn(w, s, {k})
    BY <1>2 DEF CallFails
  <2> HIDE DEF w
  <2>3. Same(w, s) /\ s.m.manager = win[w].manager /\ s.m.retry \in {"no", win[w].retry, k.kind}
        /\ (~Reserve => s.asks = {}) /\ s \in States /\ s.m.unseen = win[w].unseen
    BY <2>1, NowIs, FailedIs DEF Same, EntryOK
  <2> HIDE DEF s
  <2> QED BY <2>2, <2>3 DEF w
<1> QED BY <1>1, <1>2

(* The answer to a request for the state, and to one for a reservation.     *)
LEMMA AnsweredIs ==
  ASSUME Types, NEW k \in calls, Answered(k)
  PROVE  /\ k.win \in Windows /\ k.answer \in Nat /\ k.answer # None /\ ~k.orphan
         /\ \E s \in States :
              /\ Turn(k.win, s, {k}) /\ Bounded(s.m.queue) /\ EntryOK(s.m)
              /\ s.m.list = win[k.win].list
              /\ s.m.retry \in {"no", win[k.win].retry}
              /\ ~Reserve => s.asks = {}
              /\ k.kind = "state" /\ Reserve =>
                   s.m.next \in {None, stored[k.win]} /\ s.keep \in {None, stored[k.win]}
              /\ k.kind = "reserve" => s.m.next = k.answer /\ s.keep = k.answer
              /\ k.kind = "state" => s.m.manager = "ready" /\ s.m.unseen = win[k.win].unseen
              /\ k.kind = "state" /\ ~Reserve =>
                   /\ s.m.next >= k.answer /\ s.m.next >= win[k.win].next
                   /\ \A n \in win[k.win].queue : n < s.m.next \/ n < 1
<1> DEFINE w == k.win
<1>1. w \in Windows /\ k.kind \in Kinds /\ k.answer \in Nat /\ k.answer # None /\ ~k.orphan
  BY DEF Types, Requests, Answered
<1> HIDE DEF w
<1>2. CASE k.kind = "state"
  <2> DEFINE s == Initialized(Now(w), k.answer)
  <2>1. Turn(w, s, {k})
    BY <1>2 DEF Answered, w
  <2>2. /\ s \in States /\ s.m.list = win[w].list /\ s.m.manager = "ready"
        /\ s.m.unseen = win[w].unseen
        /\ Bounded(s.m.queue) /\ s.m.retry \in {"no", win[w].retry} /\ EntryOK(s.m)
        /\ Reserve => s.m.next \in {None, stored[w]} /\ s.keep \in {None, stored[w]}
        /\ ~Reserve => s.asks = {}
        /\ ~Reserve => /\ s.m.next >= k.answer
                       /\ s.m.next >= win[w].next
                       /\ \A n \in win[w].queue : n < s.m.next \/ n < 1
    <3>1. /\ Now(w) \in States /\ Now(w).m = win[w] /\ Now(w).keep = stored[w]
          /\ Now(w).asks = {} /\ Bounded(Now(w).m.queue)
      BY <1>1, NowIs
    <3> HIDE DEF s
    <3>2. s = Initialized(Now(w), k.answer)
      BY DEF s
    <3>3. Started(Now(w), k.answer, s)
      BY <1>1, <3>1, <3>2, InitializedIs
    <3> QED BY <3>1, <3>3 DEF Started
  <2> HIDE DEF s
  <2> QED BY <1>1, <1>2, <2>1, <2>2 DEF w
<1>3. CASE k.kind = "reserve"
  <2> DEFINE s == Reserved(Now(w), k.answer)
  <2>1. Turn(w, s, {k})
    BY <1>3 DEF Answered, w
  <2>2. /\ s \in States /\ s.m.list = win[w].list /\ Bounded(s.m.queue)
        /\ s.m.retry = win[w].retry /\ EntryOK(s.m)
        /\ s.m.next = k.answer /\ s.keep = k.answer /\ s.asks = {}
    BY <1>1, NowIs, ReservedIs
  <2> HIDE DEF s
  <2> QED BY <1>1, <1>3, <2>1, <2>2 DEF w
<1> QED BY <1>1, <1>2, <1>3 DEF Kinds

(* A contact is logged with the serial its window offers.                   *)
LEMMA LogContactIs ==
  ASSUME Types, NEW w \in Windows, NEW c \in Contacts, LogContact(w, c), EntryOK(win[w])
  PROVE  /\ win[w].manager = "ready" /\ serial[c] = None
         /\ win[w].next # None /\ win[w].next \in Nat
         /\ serial' = [serial EXCEPT ![c] = win[w].next]
         /\ \E s \in States :
              /\ Turn(w, s, {}) /\ Bounded(s.m.queue) /\ EntryOK(s.m)
              /\ s.m.list = win[w].list \cup {c} /\ s.m.manager = "ready"
              /\ s.m.retry \in {"no", win[w].retry}
              /\ ~Reserve => s.asks = {}
              /\ Reserve => s.m.next = None /\ s.keep = None
              /\ ~Reserve => /\ s.m.next >= win[w].next /\ win[w].next < s.m.next
                             /\ \A d \in win[w].list : serial[d] < s.m.next \/ serial[d] < 1
<1> DEFINE n == win[w].entry
           list == win[w].list \cup {c}
           t == Listed(w, list, {n})
           s == [t EXCEPT !.m = Publish(@)]
<1>1. /\ win[w].manager = "ready" /\ serial[c] = None /\ n # None /\ n = win[w].next
      /\ win[w].next \in Nat /\ win[w].next >= 1
  BY NowIs DEF LogContact, EntryOK, Managers, None
<1>2. serial' = [serial EXCEPT ![c] = n] /\ Turn(w, s, {})
  BY DEF LogContact
<1>3. list \in SUBSET Contacts /\ {n} \in SUBSET Nat /\ Bounded({n}) /\ n \in {n}
  BY <1>1, NowIs, BoundedOne DEF Managers
<1> HIDE DEF n, list
<1>4. /\ t \in States
      /\ t.m.list = list /\ t.m.manager = win[w].manager /\ Bounded(t.m.queue)
      /\ t.m.retry \in {"no", win[w].retry}
      /\ Reserve => t.m.next = None /\ t.keep = None
      /\ ~Reserve => t.asks = {}
      /\ ~Reserve => /\ t.m.next >= win[w].next
                     /\ \A k \in Serials(list) \cup {n} : k < t.m.next \/ k < 1
  <2> HIDE DEF t
  <2>1. t = Listed(w, list, {n})
    BY DEF t
  <2> DEFINE ns == {n}
  <2>2. ns \in SUBSET Nat /\ Bounded(ns) /\ win[w].next \in ns
    BY <1>1, <1>3
  <2>3. t = Listed(w, list, ns)
    BY <2>1
  <2> HIDE DEF ns
  <2>4. /\ t \in States
        /\ t.m.list = list /\ t.m.manager = win[w].manager /\ Bounded(t.m.queue)
        /\ t.m.retry \in {"no", win[w].retry}
        /\ Reserve => t.m.next = None /\ t.keep = None
        /\ ~Reserve => t.asks = {}
        /\ ~Reserve => /\ t.m.next >= win[w].next
                       /\ \A k \in Serials(list) \cup ns : k < t.m.next \/ k < 1
    <3>1. HasSeen(w, list, ns, t)
      BY <1>3, <2>2, <2>3, ListedIs
    <3> QED BY <1>1, <2>2, <3>1 DEF HasSeen
  <2> QED BY <2>4 DEF ns
<1> HIDE DEF t
<1>5. s.m = Publish(t.m) /\ s.keep = t.keep /\ s.asks = t.asks /\ s \in States
  BY <1>4, PublishIs DEF States
<1> HIDE DEF s
<1>6. /\ s.m.list = list /\ s.m.manager = "ready" /\ s.m.queue = t.m.queue
      /\ s.m.retry = t.m.retry /\ s.m.next = t.m.next /\ EntryOK(s.m)
  <2>1. t.m \in Managers
    BY <1>4 DEF States
  <2> QED BY <1>1, <1>4, <1>5, <2>1, PublishIs DEF EntryOK
<1>7. ASSUME ~Reserve
      PROVE  /\ s.m.next >= win[w].next /\ win[w].next < s.m.next
             /\ \A d \in win[w].list : serial[d] < s.m.next \/ serial[d] < 1
  <2>1. \A d \in win[w].list : serial[d] \in Serials(list)
    BY DEF Serials, list
  <2>2. n \in Serials(list) \cup {n}
    OBVIOUS
  <2> QED BY <1>1, <1>4, <1>6, <1>7, <2>1, <2>2
<1>8. s.m.list = win[w].list \cup {c}
  BY <1>6 DEF list
<1> QED BY <1>1, <1>2, <1>4, <1>5, <1>6, <1>7, <1>8

-----------------------------------------------------------------------------
LEMMA TypesStep ==
  ASSUME Types, EntriesFollow, [Next]_vars
  PROVE  Types' /\ EntriesFollow' /\ env'.reserve = env.reserve
<1>0. /\ env \in Setup /\ env.windows \subseteq Windows /\ env.contacts \subseteq Contacts
      /\ rows \in SUBSET Contacts /\ news \in [Windows -> SUBSET Contacts]
      /\ win \in [Windows -> Managers] /\ stored \in [Windows -> Nat]
      /\ calls \in SUBSET Requests /\ serial \in [Contacts -> Nat]
      /\ nextSerial \in Nat /\ nextSerial >= 1
  BY DEF Types, Setup
<1>1. \A w \in Windows : EntryOK(win[w]) /\ win[w] \in Managers /\ Bounded(win[w].queue)
  BY DEF EntriesFollow, Types
<1>a. ASSUME NEW w \in Windows, NEW s, NEW less, Turn(w, s, less), Same(w, s),
             serial' = serial, rows' = rows, nextSerial' = nextSerial, news' = news,
             env' \in Setup
      PROVE  Types' /\ EntriesFollow'
  <2>1. s \in States /\ Bounded(s.m.queue) /\ EntryOK(s.m)
    BY <1>1, <1>a DEF Same
  <2>2. rows' \in SUBSET Contacts /\ news' \in [Windows -> SUBSET Contacts]
    BY <1>0, <1>a
  <2> QED BY <1>a, <2>1, <2>2, SerialsKept, TurnTypes
<1>b. ASSUME NEW w \in Windows, NEW list \in SUBSET Contacts,
             Turn(w, Listed(w, list, {}), {}),
             serial' = serial, rows' \in SUBSET Contacts, nextSerial' = nextSerial,
             news' \in [Windows -> SUBSET Contacts], env' \in Setup
      PROVE  Types' /\ EntriesFollow'
  <2> DEFINE s == Listed(w, list, {})
  <2>1. HasSeen(w, list, {}, s)
    BY ListedIs, BoundedOne
  <2>2. Turn(w, s, {})
    BY <1>b
  <2> HIDE DEF s
  <2>3. s \in States /\ Bounded(s.m.queue) /\ EntryOK(s.m)
    BY <1>1, <2>1 DEF HasSeen
  <2> QED BY <1>b, <2>2, <2>3, SerialsKept, TurnTypes
<1>2. ASSUME NEW k \in calls, Serve(k) PROVE Types' /\ EntriesFollow' /\ env' = env
  <2> DEFINE a == IF k.kind = "state" THEN NextAfterRows ELSE Reservation
  <2>1. a \in Nat /\ [k EXCEPT !.answer = a] \in Requests
    <3>1. a \in Nat
      BY ReservationIs
    <3> HIDE DEF a
    <3> QED BY <1>0, <3>1 DEF Requests
  <2>2. calls' \in SUBSET Requests
    <3>1. calls' = (calls \ {k}) \cup {[k EXCEPT !.answer = a]}
      BY <1>2 DEF Serve
    <3> HIDE DEF a
    <3> QED BY <1>0, <2>1, <3>1
  <2>3. nextSerial' \in Nat /\ nextSerial' >= 1
    <3>1. Reservation \in Nat /\ Reservation >= nextSerial
      BY ReservationIs
    <3> QED BY <1>0, <1>2, <3>1 DEF Serve
  <2>4. /\ serial' = serial /\ rows' = rows /\ win' = win /\ stored' = stored
        /\ news' = news /\ env' = env
    BY <1>2 DEF Serve
  <2>5. Types' /\ EntriesFollow'
    BY <2>2, <2>3, <2>4 DEF Types, EntriesFollow, EntryOK, Bounded, Serials
  <2> QED BY <2>4, <2>5
<1>3. ASSUME NEW k \in calls, Answered(k) PROVE Types' /\ EntriesFollow' /\ env' = env
  <2>1. PICK s \in States : /\ Turn(k.win, s, {k}) /\ Bounded(s.m.queue) /\ EntryOK(s.m)
    BY <1>3, AnsweredIs
  <2>2. k.win \in Windows
    BY <1>0 DEF Requests
  <2>3. /\ serial' = serial /\ rows' = rows /\ nextSerial' = nextSerial
        /\ news' = news /\ env' = env
    BY <1>3 DEF Answered
  <2> QED BY <1>0, <2>1, <2>2, <2>3, SerialsKept, TurnTypes
<1>4. ASSUME NEW k \in calls, AnsweredLate(k) PROVE Types' /\ EntriesFollow' /\ env' = env
  <2>1. k.win \in Windows /\ k.answer \in Nat
    BY <1>0 DEF Requests
  <2>2. stored' \in [Windows -> Nat]
    <3>1. PICK x : stored' = [stored EXCEPT ![k.win] = x] /\ x \in {k.answer, None, stored[k.win]}
      BY <1>4 DEF AnsweredLate
    <3> QED BY <1>0, <2>1, <3>1 DEF None
  <2>3. /\ serial' = serial /\ rows' = rows /\ nextSerial' = nextSerial /\ win' = win
        /\ news' = news /\ env' = env /\ calls' \in SUBSET Requests
    BY <1>0, <1>4 DEF AnsweredLate
  <2>4. Types' /\ EntriesFollow'
    BY <2>2, <2>3 DEF Types, EntriesFollow, EntryOK, Bounded, Serials
  <2> QED BY <2>3, <2>4
<1>5. ASSUME NEW k \in calls, CallFails(k)
      PROVE  Types' /\ EntriesFollow' /\ env'.reserve = env.reserve
  <2>1. /\ serial' = serial /\ rows' = rows /\ nextSerial' = nextSerial /\ news' = news
        /\ Uses("faults")
    BY <1>5 DEF CallFails, Fault
  <2>2. env' \in Setup /\ env'.reserve = env.reserve
    BY <2>1, UsesIs
  <2>3. k.win \in Windows
    BY <1>0 DEF Requests
  <2>4. CASE calls' = calls \ {k} /\ win' = win /\ stored' = stored
    <3>1. Types' /\ EntriesFollow'
      BY <2>1, <2>2, <2>4 DEF Types, EntriesFollow, EntryOK, Bounded, Serials
    <3> QED BY <2>2, <3>1
  <2>5. CASE \E s \in States : Turn(k.win, s, {k}) /\ Same(k.win, s)
    BY <1>a, <2>1, <2>2, <2>3, <2>5
  <2> QED BY <1>5, <2>4, <2>5, CallFailsIs
<1>6. ASSUME NEW w \in Windows, Enter(w) PROVE Types' /\ EntriesFollow' /\ env' = env
  <2>1. /\ serial' = serial /\ rows' = rows /\ nextSerial' = nextSerial /\ news' = news
        /\ env' = env
    BY <1>6 DEF Enter
  <2> QED BY <1>0, <1>6, <1>a, <2>1, EnterIs
<1>7. ASSUME NEW w \in Windows, Retry(w) PROVE Types' /\ EntriesFollow' /\ env' = env
  <2>1. /\ serial' = serial /\ rows' = rows /\ nextSerial' = nextSerial /\ news' = news
        /\ env' = env
    BY <1>7 DEF Retry
  <2> QED BY <1>0, <1>7, <1>a, <2>1, RetryIs
<1>8. ASSUME NEW w \in Windows, Reconnect(w)
      PROVE  Types' /\ EntriesFollow' /\ env'.reserve = env.reserve
  <2>1. /\ serial' = serial /\ rows' = rows /\ nextSerial' = nextSerial
        /\ news' \in [Windows -> SUBSET Contacts] /\ Uses("faults")
    BY <1>0, <1>8 DEF Reconnect, Fault
  <2>2. env' \in Setup /\ env'.reserve = env.reserve
    BY <2>1, UsesIs
  <2>3. PICK s \in States : Turn(w, s, {}) /\ Same(w, s)
    BY <1>8, ReconnectIs
  <2>4. Bounded(s.m.queue) /\ EntryOK(s.m)
    BY <1>1, <2>3 DEF Same
  <2> QED BY <1>0, <2>1, <2>2, <2>3, <2>4, SerialsKept, TurnTypes
<1>9. ASSUME NEW w \in Windows, CommitFails(w)
      PROVE  Types' /\ EntriesFollow' /\ env'.reserve = env.reserve
  <2>1. /\ serial' = serial /\ rows' = rows /\ nextSerial' = nextSerial /\ news' = news
        /\ Uses("faults") /\ Turn(w, Listed(w, win[w].list, {}), {})
    BY <1>9 DEF CommitFails, Fault
  <2>2. env' \in Setup /\ env'.reserve = env.reserve
    BY <2>1, UsesIs
  <2>3. win[w].list \in SUBSET Contacts
    BY <1>1 DEF Managers
  <2> QED BY <1>0, <1>b, <2>1, <2>2, <2>3
<1>10. ASSUME NEW w \in Windows, LoadPage(w) PROVE Types' /\ EntriesFollow' /\ env' = env
  <2>1. /\ serial' = serial /\ rows' = rows /\ nextSerial' = nextSerial /\ news' = news
        /\ env' = env /\ Turn(w, Listed(w, win[w].list \cup rows, {}), {})
    BY <1>10 DEF LoadPage
  <2>2. win[w].list \cup rows \in SUBSET Contacts
    BY <1>0, <1>1 DEF Managers
  <2> QED BY <1>0, <1>b, <2>1, <2>2
<1>11. ASSUME NEW w \in Windows, Reopen(w)
       PROVE  Types' /\ EntriesFollow' /\ env'.reserve = env.reserve
  <2>1. /\ serial' = serial /\ rows' = rows /\ nextSerial' = nextSerial /\ stored' = stored
        /\ news' \in [Windows -> SUBSET Contacts] /\ Uses("opens")
        /\ win' = [win EXCEPT ![w] = Opened(Pending(w))]
    BY <1>0, <1>11 DEF Reopen
  <2>2. env' \in Setup /\ env'.reserve = env.reserve
    BY <2>1, UsesIs
  <2>3. win[w].list \in SUBSET Contacts /\ win[w].queue \in SUBSET Nat
    BY <1>1 DEF Managers
  <2>4. /\ Opened(Pending(w)) \in Managers /\ Opened(Pending(w)).queue = {}
        /\ EntryOK(Opened(Pending(w)))
    BY <2>3 DEF Opened, Pending, Managers, None, EntryOK
  <2>5. calls' \in SUBSET Requests
    <3> DEFINE mine == {call \in calls : call.win = w}
               left == {IF call.orphan THEN call
                        ELSE [call EXCEPT !.orphan = TRUE, !.left = win[w].queue] : call \in mine}
    <3>1. left \subseteq Requests
      <4>1. ASSUME NEW call \in mine
            PROVE  [call EXCEPT !.orphan = TRUE, !.left = win[w].queue] \in Requests
                   /\ call \in Requests
        BY <1>0, <2>3 DEF Requests
      <4> QED BY <4>1
    <3>2. PICK kept \in {{}, left} : calls' = (calls \ mine) \cup kept
      BY <1>11 DEF Reopen
    <3> HIDE DEF left, mine
    <3> QED BY <1>0, <3>1, <3>2
  <2>6. win' \in [Windows -> Managers] /\ \A v \in Windows : Bounded(win'[v].queue)
        /\ EntryOK(win'[v])
    BY <1>0, <1>1, <2>1, <2>4, BoundedOne
  <2>7. EntriesFollow'
    BY <2>6 DEF EntriesFollow, EntryOK
  <2>8. Types'
    BY <2>1, <2>2, <2>5, <2>6 DEF Types, Bounded, Serials
  <2> QED BY <2>2, <2>7, <2>8
<1>12. ASSUME NEW w \in Windows, ModeChange(w)
       PROVE  Types' /\ EntriesFollow' /\ env'.reserve = env.reserve
  <2>1. /\ serial' = serial /\ rows' = rows /\ nextSerial' = nextSerial /\ stored' = stored
        /\ news' = news /\ calls' = calls /\ Uses("modes")
        /\ win' = [win EXCEPT ![w].entry = None]
    BY <1>12 DEF ModeChange
  <2>2. env' \in Setup /\ env'.reserve = env.reserve
    BY <2>1, UsesIs
  <2>3. /\ win' \in [Windows -> Managers]
        /\ \A v \in Windows : win'[v].queue = win[v].queue /\ EntryOK(win'[v])
    <3>1. /\ [win[w] EXCEPT !.entry = None] \in Managers
          /\ [win[w] EXCEPT !.entry = None].queue = win[w].queue
          /\ EntryOK([win[w] EXCEPT !.entry = None])
      BY <1>1 DEF Managers, None, EntryOK
    <3>2. win' = [win EXCEPT ![w] = [win[w] EXCEPT !.entry = None]]
      BY <2>1
    <3> QED BY <1>0, <1>1, <3>1, <3>2
  <2>4. EntriesFollow'
    BY <2>3 DEF EntriesFollow, EntryOK
  <2>5. Types'
    BY <2>1, <2>2, <2>3 DEF Types, Bounded, Serials
  <2> QED BY <2>2, <2>4, <2>5
<1>13. ASSUME NEW w \in Windows, ClearEntry(w) PROVE Types' /\ EntriesFollow' /\ env' = env
  <2>1. /\ serial' = serial /\ rows' = rows /\ nextSerial' = nextSerial /\ stored' = stored
        /\ news' = news /\ calls' = calls /\ env' = env
        /\ win' = [win EXCEPT ![w].entry = win[w].next]
    BY <1>13 DEF ClearEntry
  <2>2. /\ win' \in [Windows -> Managers]
        /\ \A v \in Windows : win'[v].queue = win[v].queue /\ EntryOK(win'[v])
    BY <1>0, <1>1, <2>1 DEF Managers, EntryOK
  <2>3. EntriesFollow'
    BY <2>2 DEF EntriesFollow, EntryOK
  <2>4. Types'
    BY <2>1, <2>2 DEF Types, Bounded, Serials
  <2> QED BY <2>1, <2>3, <2>4
<1>14. ASSUME NEW w \in Windows, NEW c \in Contacts, LogContact(w, c)
       PROVE  Types' /\ EntriesFollow' /\ env' = env
  <2>1. /\ rows' = rows /\ nextSerial' = nextSerial /\ news' = news /\ env' = env
    BY <1>14 DEF LogContact
  <2>2. win[w].next \in Nat /\ serial' = [serial EXCEPT ![c] = win[w].next]
    BY <1>1, <1>14, LogContactIs
  <2>3. PICK s \in States : Turn(w, s, {}) /\ Bounded(s.m.queue) /\ EntryOK(s.m)
    BY <1>1, <1>14, LogContactIs
  <2>4. serial' \in [Contacts -> Nat] /\ Bounded(Serials(Contacts)')
    <3>1. /\ Serials(Contacts)' \subseteq Serials(Contacts) \cup {win[w].next}
          /\ {win[w].next} \in SUBSET Nat /\ serial' \in [Contacts -> Nat]
      BY <1>0, <2>2 DEF Serials
    <3>2. Serials(Contacts) \in SUBSET Nat /\ Bounded(Serials(Contacts))
      BY SerialsAre
    <3>3. Bounded(Serials(Contacts) \cup {win[w].next})
      BY <2>2, <3>1, <3>2, BoundedOne, BoundedUnion
    <3> QED BY <3>1, <3>3, BoundedPart
  <2> QED BY <1>0, <2>1, <2>3, <2>4, TurnTypes
<1>15. ASSUME NEW w \in Windows, NEW c \in Contacts, Commit(w, c)
       PROVE  Types' /\ EntriesFollow' /\ env' = env
  <2>1. /\ serial' = serial /\ nextSerial' = nextSerial /\ env' = env
        /\ rows' = rows \cup {c} /\ Turn(w, Listed(w, win[w].list, {}), {})
    BY <1>15 DEF Commit
  <2>2. news' \in [Windows -> SUBSET Contacts]
    BY <1>0, <1>15 DEF Commit
  <2>3. win[w].list \in SUBSET Contacts /\ rows' \in SUBSET Contacts
    BY <1>0, <1>1, <2>1 DEF Managers
  <2> QED BY <1>0, <1>b, <2>1, <2>2, <2>3
<1>16. ASSUME NEW w \in Windows, NEW c \in Contacts, Receive(w, c)
       PROVE  Types' /\ EntriesFollow' /\ env' = env
  <2>1. /\ serial' = serial /\ nextSerial' = nextSerial /\ env' = env /\ rows' = rows
        /\ Turn(w, Listed(w, win[w].list \cup {c}, {}), {})
    BY <1>16 DEF Receive
  <2>2. news' \in [Windows -> SUBSET Contacts]
    BY <1>0, <1>16 DEF Receive
  <2>3. win[w].list \cup {c} \in SUBSET Contacts
    BY <1>1 DEF Managers
  <2> QED BY <1>0, <1>b, <2>1, <2>2, <2>3
<1>17. CASE UNCHANGED vars
  BY <1>17 DEF vars, Types, EntriesFollow, EntryOK, Bounded, Serials
<1> QED
  BY <1>0, <1>2, <1>3, <1>4, <1>5, <1>6, <1>7, <1>8, <1>9, <1>10, <1>11, <1>12, <1>13,
     <1>14, <1>15, <1>16, <1>17 DEF Next

-----------------------------------------------------------------------------
(* With reservations every step keeps the numbers apart.                    *)

LEMMA HeldTurn ==
  ASSUME Types, Reserve, Reserving, NEW w \in Windows, NEW s \in States,
         NEW less \in SUBSET calls, Turn(w, s, less), Bounded(s.m.queue),
         serial' = serial, nextSerial' = nextSerial,
         \A n \in {s.keep, s.m.next} \ {None} :
           n \in Held(w) \/ \E k \in less : k \in Answers /\ n = k.answer
  PROVE  Reserving'
<1>1. /\ win'[w] = s.m /\ stored'[w] = s.keep
      /\ \A v \in Windows \ {w} : win'[v] = win[v] /\ stored'[v] = stored[v]
      /\ \A k \in calls' : k \in calls \ less \/ k.answer = None
  BY TurnIs
<1>2. Held(w)' = {s.keep, s.m.next} \ {None}
  BY <1>1 DEF Held, None
<1>3. \A v \in Windows \ {w} : Held(v)' = Held(v)
  BY <1>1 DEF Held, None
<1>4. \A k \in Answers' : k \in Answers /\ k \notin less
  BY <1>1 DEF Answers, None
<1>5. Used' = Used
  BY DEF Used, Serials, None
<1>6. \A n \in Held(w)' : n \in Held(w) \/ \E k \in less : k \in Answers /\ n = k.answer
  BY <1>2
<1>7. UsedAreReserved'
  BY <1>5 DEF Reserving, UsedAreReserved
<1>8. \A v \in Windows : \A n \in Held(v)' : n < nextSerial /\ n \notin Used
  BY <1>3, <1>6 DEF Reserving, HeldAreFree, AnswersAreFree
<1>9. \A v \in Windows \ {w} : Held(w)' \cap Held(v)' = {}
  BY <1>3, <1>6 DEF Reserving, HeldByOne, AnswersAreFree
<1>10. HeldByOne'
  BY <1>3, <1>9 DEF Reserving, HeldByOne
<1>11. \A k \in Answers' : \A v \in Windows : k.answer \notin Held(v)'
  BY <1>3, <1>4, <1>6 DEF Reserving, AnswersAreFree, AnswersDiffer
<1>12. AnswersAreFree'
  BY <1>4, <1>5, <1>11 DEF Reserving, AnswersAreFree
<1>13. AnswersDiffer'
  BY <1>4 DEF Reserving, AnswersDiffer
<1>14. SerialsUsedOnce'
  BY DEF Reserving, SerialsUsedOnce, None
<1>15. HeldAreFree'
  BY <1>5, <1>8 DEF HeldAreFree
<1> QED BY <1>7, <1>10, <1>12, <1>13, <1>14, <1>15 DEF Reserving

(* A step that leaves what is held alone and drops or relabels requests.    *)
LEMMA HeldKept ==
  ASSUME Types, Reserve, Reserving, serial' = serial, nextSerial' = nextSerial,
         \A w \in Windows : Held(w)' \subseteq Held(w),
         \A k \in Answers' : \E l \in Answers : l.answer = k.answer,
         AnswersDiffer'
  PROVE  Reserving'
<1>1. Used' = Used
  BY DEF Used, Serials, None
<1>2. UsedAreReserved' /\ HeldAreFree' /\ HeldByOne'
  BY <1>1 DEF Reserving, UsedAreReserved, HeldAreFree, HeldByOne
<1>3. AnswersAreFree'
  BY <1>1 DEF Reserving, AnswersAreFree
<1>4. SerialsUsedOnce'
  BY DEF Reserving, SerialsUsedOnce, None
<1> QED BY <1>2, <1>3, <1>4 DEF Reserving

LEMMA ReservingStep ==
  ASSUME Types, EntriesFollow, Reserve, Reserving, [Next]_vars
  PROVE  Reserving'
<1>0. /\ env.windows \subseteq Windows /\ calls \in SUBSET Requests
      /\ win \in [Windows -> Managers] /\ stored \in [Windows -> Nat]
      /\ rows \in SUBSET Contacts /\ serial \in [Contacts -> Nat] /\ nextSerial \in Nat
  BY DEF Types, Setup
<1>1. \A w \in Windows : /\ EntryOK(win[w]) /\ win[w] \in Managers /\ Bounded(win[w].queue)
                         /\ win[w].list \in SUBSET Contacts
  BY DEF EntriesFollow, Types, Managers
<1>a. ASSUME NEW w \in Windows, NEW s, NEW less \in SUBSET calls, Turn(w, s, less),
             Same(w, s), serial' = serial, nextSerial' = nextSerial
      PROVE  Reserving'
  <2>1. s \in States /\ Bounded(s.m.queue)
        /\ \A n \in {s.keep, s.m.next} \ {None} : n \in Held(w)
    BY <1>1, <1>a DEF Same, Held
  <2> QED BY <1>a, <2>1, HeldTurn
<1>b. ASSUME NEW w \in Windows, NEW list \in SUBSET Contacts,
             Turn(w, Listed(w, list, {}), {}), serial' = serial, nextSerial' = nextSerial
      PROVE  Reserving'
  <2> DEFINE s == Listed(w, list, {})
  <2>1. HasSeen(w, list, {}, s)
    BY ListedIs, BoundedOne
  <2>2. Turn(w, s, {}) /\ {} \in SUBSET calls
    BY <1>b
  <2> HIDE DEF s
  <2>3. s \in States /\ Bounded(s.m.queue)
        /\ \A n \in {s.keep, s.m.next} \ {None} : n \in Held(w)
    BY <2>1 DEF HasSeen, Held
  <2> QED BY <1>b, <2>2, <2>3, HeldTurn
<1>2. ASSUME NEW k \in calls, Serve(k) PROVE Reserving'
  <2> DEFINE a == IF k.kind = "state" THEN NextAfterRows ELSE Reservation
             l == [k EXCEPT !.answer = a]
  <2>1. /\ calls' = (calls \ {k}) \cup {l}
        /\ serial' = serial /\ win' = win /\ stored' = stored
        /\ nextSerial' = IF k.kind = "reserve" THEN Reservation + 1 ELSE nextSerial
        /\ k.answer = None
    BY <1>2 DEF Serve
  <2>2. l.kind = k.kind /\ l.answer = a
    BY <1>0 DEF Requests
  <2>3. Reservation \in Nat /\ Reservation >= nextSerial
    BY ReservationIs
  <2>4. Used' = Used /\ \A w \in Windows : Held(w)' = Held(w)
    BY <2>1 DEF Used, Serials, Held, None
  <2>5. Used \subseteq Nat /\ \A w \in Windows : Held(w) \subseteq Nat
    BY <1>0 DEF Used, Serials, Held, Managers
  <2>6. \A m \in Answers : m.answer \in Nat
    BY <1>0 DEF Answers, Requests
  <2>7. CASE k.kind = "state"
    <3>1. Answers' \subseteq Answers
      BY <2>1, <2>2, <2>7 DEF Answers, None
    <3>2. nextSerial' = nextSerial
      BY <2>1, <2>7
    <3>3. AnswersDiffer'
      BY <3>1 DEF Reserving, AnswersDiffer
    <3> QED BY <2>1, <2>4, <3>1, <3>2, <3>3, HeldKept
  <2>8. CASE k.kind = "reserve"
    <3> HIDE DEF l
    <3>1. \A m \in Answers' : m \in Answers \/ m = l
      BY <2>1 DEF Answers, None
    <3>2. l.answer = Reservation /\ nextSerial' = Reservation + 1
      BY <2>1, <2>2, <2>8
    <3>3. UsedAreReserved' /\ HeldAreFree' /\ HeldByOne'
      BY <1>0, <2>3, <2>4, <2>5, <3>2
         DEF Reserving, UsedAreReserved, HeldAreFree, HeldByOne
    <3>4. AnswersAreFree'
      <4>1. Reservation \notin Used /\ \A w \in Windows : Reservation \notin Held(w)
        BY <1>0, <2>3, <2>5 DEF Reserving, UsedAreReserved, HeldAreFree
      <4>2. \A m \in Answers : m.answer < Reservation + 1
        BY <1>0, <2>3, <2>6 DEF Reserving, AnswersAreFree
      <4> QED BY <2>3, <2>4, <3>1, <3>2, <4>1, <4>2 DEF Reserving, AnswersAreFree
    <3>5. AnswersDiffer'
      <4>1. \A m \in Answers : m.answer # Reservation
        BY <1>0, <2>3, <2>6 DEF Reserving, AnswersAreFree
      <4> QED BY <3>1, <3>2, <4>1 DEF Reserving, AnswersDiffer
    <3>6. SerialsUsedOnce'
      BY <2>1 DEF Reserving, SerialsUsedOnce, None
    <3> QED BY <3>3, <3>4, <3>5, <3>6 DEF Reserving
  <2> QED BY <1>0, <2>7, <2>8 DEF Requests, Kinds
<1>3. ASSUME NEW k \in calls, Answered(k) PROVE Reserving'
  <2>1. k.win \in Windows /\ k.kind \in Kinds /\ k.answer # None
    BY <1>0, <1>3 DEF Requests, Answered
  <2>2. serial' = serial /\ nextSerial' = nextSerial
    BY <1>3 DEF Answered
  <2>3. PICK s \in States :
          /\ Turn(k.win, s, {k}) /\ Bounded(s.m.queue)
          /\ k.kind = "state" =>
               s.m.next \in {None, stored[k.win]} /\ s.keep \in {None, stored[k.win]}
          /\ k.kind = "reserve" => s.m.next = k.answer /\ s.keep = k.answer
    BY <1>3, AnsweredIs
  <2>4. ASSUME NEW n \in {s.keep, s.m.next} \ {None}
        PROVE  n \in Held(k.win) \/ \E l \in {k} : l \in Answers /\ n = l.answer
    BY <2>1, <2>3 DEF Held, Answers, Kinds
  <2> QED BY <2>1, <2>2, <2>3, <2>4, HeldTurn
<1>4. ASSUME NEW k \in calls, AnsweredLate(k) PROVE Reserving'
  <2>1. /\ serial' = serial /\ nextSerial' = nextSerial /\ win' = win
        /\ calls' = calls \ {k} /\ k.answer # None
    BY <1>4 DEF AnsweredLate
  <2>2. k.win \in Windows /\ k.kind \in Kinds
    BY <1>0 DEF Requests
  <2>3. \A m \in Answers' : m \in Answers /\ m # k
    BY <2>1 DEF Answers, None
  <2>4. CASE k.kind = "state"
    <3>1. \A w \in Windows : stored'[w] \in {None, stored[w]}
      BY <1>0, <1>4, <2>2, <2>4 DEF AnsweredLate
    <3>2. \A w \in Windows : Held(w)' \subseteq Held(w)
      BY <2>1, <3>1 DEF Held, None
    <3>3. AnswersDiffer'
      BY <2>3 DEF Reserving, AnswersDiffer
    <3> QED BY <2>1, <2>3, <3>2, <3>3, HeldKept
  <2>5. CASE k.kind = "reserve"
    <3>1. stored' = [stored EXCEPT ![k.win] = k.answer]
      BY <1>4, <2>5 DEF AnsweredLate
    <3>2. k \in Answers
      BY <2>1, <2>5 DEF Answers
    <3>3. /\ Held(k.win)' \subseteq Held(k.win) \cup {k.answer}
          /\ \A w \in Windows \ {k.win} : Held(w)' = Held(w)
      BY <1>0, <2>1, <2>2, <3>1 DEF Held, None
    <3>4. Used' = Used
      BY <2>1 DEF Used, Serials, None
    <3>5. UsedAreReserved'
      BY <2>1, <3>4 DEF Reserving, UsedAreReserved
    <3>6. \A w \in Windows : \A n \in Held(w)' : n < nextSerial /\ n \notin Used
      BY <3>2, <3>3 DEF Reserving, HeldAreFree, AnswersAreFree
    <3>7. HeldAreFree'
      BY <2>1, <3>4, <3>6 DEF HeldAreFree
    <3>8. \A w \in Windows \ {k.win} : Held(k.win)' \cap Held(w)' = {}
      BY <2>2, <3>2, <3>3 DEF Reserving, HeldByOne, AnswersAreFree
    <3>9. HeldByOne'
      BY <3>3, <3>8 DEF Reserving, HeldByOne
    <3>10. \A m \in Answers' : \A w \in Windows : m.answer \notin Held(w)'
      BY <2>3, <3>2, <3>3 DEF Reserving, AnswersAreFree, AnswersDiffer
    <3>11. AnswersAreFree'
      BY <2>1, <2>3, <3>4, <3>10 DEF Reserving, AnswersAreFree
    <3>12. AnswersDiffer'
      BY <2>3 DEF Reserving, AnswersDiffer
    <3>13. SerialsUsedOnce'
      BY <2>1 DEF Reserving, SerialsUsedOnce, None
    <3> QED BY <3>5, <3>7, <3>9, <3>11, <3>12, <3>13 DEF Reserving
  <2> QED BY <2>2, <2>4, <2>5 DEF Kinds
<1>5. ASSUME NEW k \in calls, CallFails(k) PROVE Reserving'
  <2>1. serial' = serial /\ nextSerial' = nextSerial
    BY <1>5 DEF CallFails
  <2>2. k.win \in Windows
    BY <1>0 DEF Requests
  <2>3. CASE calls' = calls \ {k} /\ win' = win /\ stored' = stored
    <3>1. Answers' \subseteq Answers /\ \A w \in Windows : Held(w)' = Held(w)
      BY <2>3 DEF Answers, Held, None
    <3>2. AnswersDiffer'
      BY <3>1 DEF Reserving, AnswersDiffer
    <3> QED BY <2>1, <3>1, <3>2, HeldKept
  <2>4. CASE \E s \in States : Turn(k.win, s, {k}) /\ Same(k.win, s)
    BY <1>a, <2>1, <2>2, <2>4
  <2> QED BY <1>5, <2>3, <2>4, CallFailsIs
<1>6. ASSUME NEW w \in Windows, Enter(w) PROVE Reserving'
  <2>1. serial' = serial /\ nextSerial' = nextSerial /\ {} \in SUBSET calls
    BY <1>6 DEF Enter
  <2> QED BY <1>6, <1>a, <2>1, EnterIs
<1>7. ASSUME NEW w \in Windows, Retry(w) PROVE Reserving'
  <2>1. serial' = serial /\ nextSerial' = nextSerial /\ {} \in SUBSET calls
    BY <1>7 DEF Retry
  <2> QED BY <1>7, <1>a, <2>1, RetryIs
<1>8. ASSUME NEW w \in Windows, Reconnect(w) PROVE Reserving'
  <2>1. serial' = serial /\ nextSerial' = nextSerial /\ {} \in SUBSET calls
    BY <1>8 DEF Reconnect
  <2> QED BY <1>8, <1>a, <2>1, ReconnectIs
<1>9. ASSUME NEW w \in Windows, CommitFails(w) PROVE Reserving'
  BY <1>1, <1>9, <1>b DEF CommitFails
<1>10. ASSUME NEW w \in Windows, LoadPage(w) PROVE Reserving'
  <2>1. win[w].list \cup rows \in SUBSET Contacts
    BY <1>0, <1>1
  <2> QED BY <1>10, <1>b, <2>1 DEF LoadPage
<1>11. ASSUME NEW w \in Windows, Reopen(w) PROVE Reserving'
  <2> DEFINE Left(call) == IF call.orphan THEN call
                           ELSE [call EXCEPT !.orphan = TRUE, !.left = win[w].queue]
             mine == {call \in calls : call.win = w}
  <2>1. /\ serial' = serial /\ nextSerial' = nextSerial /\ stored' = stored
        /\ win' = [win EXCEPT ![w] = Opened(Pending(w))]
    BY <1>11 DEF Reopen
  <2>2. \A v \in Windows : Held(v)' \subseteq Held(v)
    BY <1>0, <2>1 DEF Held, Opened, None
  <2>3. \A call \in calls : Left(call).kind = call.kind /\ Left(call).answer = call.answer
    BY <1>0 DEF Requests
  <2>4. \A k \in calls' : \/ k \in calls /\ k.win # w
                          \/ \E call \in calls : call.win = w /\ k = Left(call)
    <3>1. PICK kept \in {{}, {Left(call) : call \in mine}} : calls' = (calls \ mine) \cup kept
      BY <1>11 DEF Reopen
    <3> HIDE DEF Left
    <3> QED BY <3>1
  <2> HIDE DEF Left
  <2>5. \A k \in Answers' : \E l \in Answers :
          l.answer = k.answer /\ ((k = l /\ l.win # w) \/ (l.win = w /\ k = Left(l)))
    BY <2>3, <2>4 DEF Answers, None
  <2>6. AnswersDiffer'
    BY <2>5 DEF Reserving, AnswersDiffer
  <2> QED BY <2>1, <2>2, <2>5, <2>6, HeldKept
<1>12. ASSUME NEW w \in Windows, ModeChange(w) \/ ClearEntry(w) PROVE Reserving'
  <2>1. /\ serial' = serial /\ nextSerial' = nextSerial /\ stored' = stored
        /\ calls' = calls /\ \E e : win' = [win EXCEPT ![w].entry = e]
    BY <1>12 DEF ModeChange, ClearEntry
  <2>2. \A v \in Windows : win'[v].next = win[v].next
    BY <1>0, <2>1 DEF Managers
  <2>3. Answers' = Answers /\ \A v \in Windows : Held(v)' = Held(v)
    BY <2>1, <2>2 DEF Answers, Held, None
  <2>4. AnswersDiffer'
    BY <2>3 DEF Reserving, AnswersDiffer
  <2> QED BY <2>1, <2>3, <2>4, HeldKept
<1>13. ASSUME NEW w \in Windows, NEW c \in Contacts, LogContact(w, c) PROVE Reserving'
  <2> DEFINE n == win[w].next
  <2>1. nextSerial' = nextSerial
    BY <1>13 DEF LogContact
  <2>2. n # None /\ n \in Nat /\ serial' = [serial EXCEPT ![c] = n] /\ serial[c] = None
    BY <1>1, <1>13, LogContactIs
  <2>3. PICK s \in States : /\ Turn(w, s, {}) /\ Bounded(s.m.queue)
                            /\ s.m.next = None /\ s.keep = None
    BY <1>1, <1>13, LogContactIs
  <2>4. /\ win'[w] = s.m /\ stored'[w] = s.keep
        /\ \A v \in Windows \ {w} : win'[v] = win[v] /\ stored'[v] = stored[v]
        /\ \A k \in calls' : k \in calls \/ k.answer = None
    BY <2>3, TurnIs
  <2>5. Held(w)' = {} /\ \A v \in Windows \ {w} : Held(v)' = Held(v)
    BY <2>3, <2>4 DEF Held, None
  <2>6. Answers' \subseteq Answers
    BY <2>4 DEF Answers, None
  <2>7. n \in Held(w)
    BY <2>2 DEF Held
  <2>8. Used' \subseteq Used \cup {n}
    BY <1>0, <2>2 DEF Used, Serials, None
  <2> HIDE DEF n
  <2>9. UsedAreReserved'
    BY <2>1, <2>7, <2>8 DEF Reserving, UsedAreReserved, HeldAreFree
  <2>10. HeldAreFree' /\ HeldByOne'
    <3>1. \A v \in Windows : \A x \in Held(v)' : v # w /\ x \in Held(v) /\ x # n
      BY <2>5, <2>7 DEF Reserving, HeldByOne
    <3> QED BY <2>1, <2>5, <2>8, <3>1 DEF Reserving, HeldAreFree, HeldByOne
  <2>11. AnswersAreFree'
    <3>1. \A k \in Answers : k.answer # n
      BY <2>7 DEF Reserving, AnswersAreFree
    <3>2. \A v \in Windows : Held(v)' \subseteq Held(v)
      BY <2>5
    <3> QED BY <2>1, <2>6, <2>8, <3>1, <3>2 DEF Reserving, AnswersAreFree
  <2>12. AnswersDiffer'
    BY <2>6 DEF Reserving, AnswersDiffer
  <2>13. SerialsUsedOnce'
    <3>1. \A d \in Contacts : serial[d] # n
      <4>1. \A d \in Contacts : serial[d] = None \/ serial[d] \in Used
        BY DEF Used, Serials
      <4> QED BY <2>2, <2>7, <4>1 DEF Reserving, HeldAreFree
    <3>2. \A d \in Contacts : serial'[d] = IF d = c THEN n ELSE serial[d]
      BY <1>0, <2>2
    <3> QED BY <3>1, <3>2 DEF Reserving, SerialsUsedOnce, None
  <2> QED BY <2>9, <2>10, <2>11, <2>12, <2>13 DEF Reserving
<1>14. ASSUME NEW w \in Windows, NEW c \in Contacts, Commit(w, c) PROVE Reserving'
  BY <1>1, <1>14, <1>b DEF Commit
<1>15. ASSUME NEW w \in Windows, NEW c \in Contacts, Receive(w, c) PROVE Reserving'
  <2>1. win[w].list \cup {c} \in SUBSET Contacts
    BY <1>1
  <2> QED BY <1>15, <1>b, <2>1 DEF Receive
<1>16. CASE UNCHANGED vars
  <2>1. Answers' = Answers /\ \A v \in Windows : Held(v)' = Held(v)
    BY <1>16 DEF vars, Answers, Held, None
  <2>2. AnswersDiffer' /\ serial' = serial /\ nextSerial' = nextSerial
    BY <1>16, <2>1 DEF vars, Reserving, AnswersDiffer
  <2> QED BY <2>1, <2>2, HeldKept
<1> QED
  BY <1>0, <1>2, <1>3, <1>4, <1>5, <1>6, <1>7, <1>8, <1>9, <1>10, <1>11, <1>12, <1>13,
     <1>14, <1>15, <1>16 DEF Next

-----------------------------------------------------------------------------
(* Without reservations every step keeps the windows ahead of their lists.  *)

(* What s must be for window w once serial, rows and news have their new    *)
(* values.                                                                  *)
Ahead(w, s, less) ==
  /\ s.m.retry # "reserve" /\ s.asks \subseteq {"state"}
  /\ \A c \in s.m.list : serial'[c] >= 1
  /\ s.m.manager = "none" =>
       win[w].manager = "none" /\ s.asks = {} /\ s.m.retry = "no"
  /\ s.m.manager = "ready" =>
       s.m.next >= 1 /\ \A c \in Seen(s.m) : serial'[c] < s.m.next
  /\ s.m.manager = "new" =>
       \A c \in Seen(s.m) :
         \/ serial'[c] \in s.m.queue
         \/ /\ c \in rows'
            /\ \A k \in calls \ less :
                 k.win = w /\ ~k.orphan /\ k.answer # None => serial'[c] < k.answer

LEMMA CountingTurn ==
  ASSUME Types, Counting, NEW w \in Windows, NEW s \in States, NEW less, Turn(w, s, less),
         Bounded(s.m.queue), Ahead(w, s, less), rows \subseteq rows',
         \A c \in rows' : serial'[c] >= 1,
         \A v \in Windows : \A c \in win[v].list : serial'[c] = serial[c],
         \A v \in Windows : news'[v] \subseteq rows'
  PROVE  Counting'
<1>1. /\ win'[w] = s.m
      /\ \A v \in Windows \ {w} : win'[v] = win[v]
      /\ \A k \in calls' : \/ k \in calls \ less
                           \/ /\ k.answer = None /\ k.win = w /\ ~k.orphan
                              /\ k.kind \in s.asks
  BY TurnIs
<1>2. CallsAreAwaited'
  <2>1. ASSUME NEW k \in calls'
        PROVE  k.kind = "state" /\ (~k.orphan => win'[k.win].manager # "none")
    <3>1. CASE k \in calls \ less
      <4>1. /\ k.kind = "state" /\ k.win \in Windows
            /\ ~k.orphan => win[k.win].manager # "none"
        BY <3>1 DEF Counting, CallsAreAwaited, Types, Requests
      <4>2. k.win = w /\ ~k.orphan => s.m.manager # "none"
        BY <4>1 DEF Ahead
      <4> QED BY <1>1, <4>1, <4>2
    <3>2. CASE k.win = w /\ ~k.orphan /\ k.kind \in s.asks
      BY <1>1, <3>2 DEF Ahead
    <3> QED BY <1>1, <2>1, <3>1, <3>2
  <2> QED BY <2>1 DEF CallsAreAwaited
<1>3. ListsAreLogged'
  <2>1. ASSUME NEW v \in Windows, NEW c \in win'[v].list PROVE serial'[c] >= 1
    <3>1. CASE v = w
      BY <1>1, <2>1, <3>1 DEF Ahead
    <3>2. CASE v # w
      BY <1>1, <2>1, <3>2 DEF Counting, ListsAreLogged
    <3> QED BY <3>1, <3>2
  <2> QED BY <2>1 DEF ListsAreLogged
<1>4. Counted(w)'
  <2>1. ASSUME s.m.manager = "new", NEW c \in Seen(s.m) PROVE Known(w, c)'
    <3>1. CASE serial'[c] \in s.m.queue
      BY <1>1, <3>1 DEF Known
    <3>2. CASE /\ c \in rows'
               /\ \A k \in calls \ less :
                    k.win = w /\ ~k.orphan /\ k.answer # None => serial'[c] < k.answer
      BY <1>1, <3>2 DEF Known, None
    <3> QED BY <2>1, <3>1, <3>2 DEF Ahead
  <2> QED BY <1>1, <2>1 DEF Counted, Ahead, Seen
<1>5. ASSUME NEW v \in Windows \ {w} PROVE Counted(v)'
  <2>1. Counted(v) /\ win'[v] = win[v] /\ \A c \in win[v].list : serial'[c] = serial[c]
    BY <1>1 DEF Counting
  <2>2. \A k \in calls' : k.win = v => k \in calls
    BY <1>1
  <2>3. ASSUME win[v].manager = "new", NEW c \in Seen(win[v]) PROVE Known(v, c)'
    <3>1. Known(v, c) /\ c \in win[v].list
      BY <2>1, <2>3 DEF Counted, Seen
    <3> QED BY <2>1, <2>2, <3>1 DEF Known, None
  <2> QED BY <2>1, <2>3 DEF Counted, Seen
<1> QED BY <1>2, <1>3, <1>4, <1>5 DEF Counting

LEMMA CountingStep ==
  ASSUME Types, EntriesFollow, ~Reserve, Counting, [Next]_vars
  PROVE  Counting'
<1>0. /\ env.windows \subseteq Windows /\ calls \in SUBSET Requests
      /\ win \in [Windows -> Managers] /\ serial \in [Contacts -> Nat]
      /\ news \in [Windows -> SUBSET Contacts]
      /\ rows \in SUBSET Contacts
  BY DEF Types, Setup
<1>1. \A w \in Windows : /\ EntryOK(win[w]) /\ win[w] \in Managers /\ Bounded(win[w].queue)
                         /\ win[w].list \in SUBSET Contacts /\ win[w].next \in Nat
                         /\ win[w].queue \in SUBSET Nat /\ win[w].retry # "reserve"
  BY DEF EntriesFollow, Types, Managers, Counting, Counted
<1>2. /\ \A c \in rows : serial[c] >= 1
      /\ \A w \in Windows : news[w] \subseteq rows /\ \A c \in win[w].list : serial[c] >= 1
  BY DEF Counting, ListsAreLogged
<1>3. \A k \in calls : /\ k.kind = "state" /\ k.win \in Windows
                       /\ ~k.orphan => win[k.win].manager # "none"
  BY <1>0 DEF Counting, CallsAreAwaited, Requests
<1>a. ASSUME NEW w \in Windows, NEW s, NEW less, Turn(w, s, less), Same(w, s),
             s.m.retry # "reserve", s.asks \subseteq {"state"},
             \/ s.m.manager = win[w].manager /\ s.m.unseen = win[w].unseen
             \/ /\ s.m.manager = "new" /\ win[w].manager = "none"
                /\ s.m.unseen = Pending(w),
             s.m.manager = "none" => s.asks = {} /\ s.m.retry = "no",
             serial' = serial, rows' = rows,
             \A v \in Windows : news'[v] \subseteq rows
      PROVE  Counting'
  <2>1. s \in States /\ Bounded(s.m.queue) /\ s.m.list = win[w].list
        /\ s.m.queue = win[w].queue /\ s.m.next = win[w].next
    BY <1>1, <1>a DEF Same
  <2>2. Counted(w)
    BY DEF Counting
  <2>3. ASSUME s.m.manager = "new", NEW c \in Seen(s.m)
        PROVE  \/ serial'[c] \in s.m.queue
               \/ /\ c \in rows'
                  /\ \A k \in calls \ less :
                       k.win = w /\ ~k.orphan /\ k.answer # None => serial'[c] < k.answer
    <3>1. CASE win[w].manager = "new"
      <4>1. c \in Seen(win[w])
        BY <1>a, <2>1, <2>3, <3>1 DEF Seen
      <4>2. Known(w, c)
        BY <2>2, <3>1, <4>1 DEF Counted
      <4> QED BY <1>a, <2>1, <4>2 DEF Known
    <3>2. CASE win[w].manager = "none"
      <4>1. c \in rows
        BY <1>a, <2>1, <2>3, <3>2 DEF Seen, Pending
      <4>2. \A k \in calls : k.win = w => k.orphan
        BY <1>3, <3>2
      <4> QED BY <1>a, <4>1, <4>2
    <3> QED BY <1>a, <2>3, <3>1, <3>2
  <2>4. Ahead(w, s, less)
    <3>1. s.m.manager = "ready" => win[w].manager = "ready" /\ Seen(s.m) = Seen(win[w])
      BY <1>a, <2>1 DEF Seen
    <3> QED BY <1>2, <1>a, <2>1, <2>2, <2>3, <3>1 DEF Ahead, Counted, Seen
  <2> QED BY <1>2, <1>a, <2>1, <2>4, CountingTurn
<1>b. ASSUME NEW w \in Windows, NEW extra \in SUBSET Contacts, extra \subseteq rows',
             Turn(w, Listed(w, win[w].list \cup extra, {}), {}),
             serial' = serial, rows \subseteq rows',
             \A c \in rows' : serial[c] >= 1,
             \A v \in Windows : news'[v] \subseteq rows'
      PROVE  Counting'
  <2> DEFINE list == win[w].list \cup extra
             s == Listed(w, list, {})
  <2>1. list \in SUBSET Contacts /\ \A c \in list : serial[c] >= 1 /\ serial[c] \in Serials(list)
    BY <1>1, <1>2, <1>b DEF Serials
  <2>2. HasSeen(w, list, {}, s)
    <3>1. {} \in SUBSET Nat /\ Bounded({})
      BY BoundedOne
    <3> HIDE DEF list
    <3> QED BY <2>1, <3>1, ListedIs
  <2>3. Turn(w, s, {})
    BY <1>b
  <2> HIDE DEF s, list
  <2>5. /\ s \in States /\ Bounded(s.m.queue) /\ s.m.list = list /\ s.asks = {}
        /\ s.m.manager = win[w].manager /\ s.m.retry # "reserve"
        /\ s.m.manager = "none" => s.m.retry = "no"
        /\ s.m.manager = "new" => \A c \in list : serial[c] \in s.m.queue
    BY <1>1, <2>1, <2>2 DEF HasSeen, Counting, Counted
  <2>6. ASSUME s.m.manager = "ready"
        PROVE  s.m.next >= 1 /\ \A c \in s.m.list : serial[c] < s.m.next
    <3>1. win[w].next >= 1
      BY <2>5, <2>6 DEF Counting, Counted
    <3>2. s.m.next >= win[w].next /\ \A n \in Serials(list) : n < s.m.next \/ n < 1
      BY <2>2, <2>5, <2>6 DEF HasSeen
    <3>3. s.m.next \in Nat /\ \A c \in list : serial[c] \in Nat
      BY <1>0, <2>1, <2>5 DEF States, Managers
    <3> QED BY <1>1, <2>1, <2>5, <3>1, <3>2, <3>3
  <2>7. Ahead(w, s, {})
    BY <1>b, <2>1, <2>5, <2>6 DEF Ahead, Seen
  <2> QED BY <1>b, <2>3, <2>5, <2>7, CountingTurn
<1>4. ASSUME NEW k \in calls, Serve(k) PROVE Counting'
  <2> DEFINE l == [k EXCEPT !.answer = NextAfterRows]
  <2>1. /\ calls' = (calls \ {k}) \cup {l}
        /\ serial' = serial /\ win' = win /\ rows' = rows /\ news' = news /\ env' = env
    BY <1>3, <1>4 DEF Serve
  <2>2. l.kind = k.kind /\ l.answer = NextAfterRows /\ l.orphan = k.orphan /\ l.win = k.win
    BY <1>0 DEF Requests
  <2>3. \A c \in rows : serial[c] < NextAfterRows
    BY ReservationIs
  <2> HIDE DEF l
  <2>4. CallsAreAwaited'
    BY <1>3, <2>1, <2>2 DEF CallsAreAwaited
  <2>5. ASSUME NEW w \in Windows PROVE Counted(w)'
    <3>1. \A c \in win[w].list : Known(w, c) => Known(w, c)'
      BY <2>1, <2>2, <2>3 DEF Known, None
    <3> QED BY <2>1, <3>1 DEF Counting, Counted, Seen
  <2>6. ListsAreLogged'
    BY <2>1 DEF Counting, ListsAreLogged
  <2> QED BY <2>1, <2>4, <2>5, <2>6 DEF Counting
<1>5. ASSUME NEW k \in calls, Answered(k) PROVE Counting'
  <2> DEFINE w == k.win
  <2>1. w \in Windows /\ k.kind = "state" /\ ~k.orphan /\ win[w].manager # "none"
    BY <1>3, <1>5 DEF Answered
  <2>2. serial' = serial /\ rows' = rows /\ news' = news /\ env' = env
    BY <1>5 DEF Answered
  <2>3. k.answer \in Nat /\ k.answer # None
    BY <1>5, AnsweredIs
  <2>4. PICK s \in States :
          /\ Turn(w, s, {k}) /\ Bounded(s.m.queue)
          /\ s.m.list = win[w].list /\ s.m.retry \in {"no", win[w].retry} /\ s.asks = {}
          /\ s.m.manager = "ready" /\ s.m.unseen = win[w].unseen
          /\ s.m.next >= k.answer /\ s.m.next >= win[w].next
          /\ \A n \in win[w].queue : n < s.m.next \/ n < 1
    BY <1>5, <2>1, AnsweredIs
  <2>5. s.m.next \in Nat /\ s.m.next >= 1
    BY <2>3, <2>4 DEF States, Managers, None
  <2> HIDE DEF w
  <2>6. ASSUME NEW c \in Seen(win[w]) PROVE serial[c] < s.m.next
    <3>a. ~k.orphan /\ k \in calls /\ k.win = w
      BY <2>1 DEF w
    <3>1. serial[c] \in Nat /\ serial[c] >= 1 /\ Counted(w)
      BY <1>0, <1>1, <1>2, <2>1, <2>6 DEF Counting, Seen
    <3>2. CASE win[w].manager = "ready"
      <4>1. serial[c] < win[w].next
        BY <2>6, <3>1, <3>2 DEF Counted
      <4> QED BY <1>1, <2>1, <2>4, <2>5, <3>1, <4>1
    <3>3. CASE win[w].manager = "new"
      <4>1. serial[c] \in win[w].queue \/ serial[c] < k.answer
        BY <2>3, <2>6, <3>a, <3>1, <3>3 DEF Counted, Known
      <4> QED BY <2>3, <2>4, <2>5, <3>1, <4>1
    <3> QED BY <1>1, <2>1, <3>2, <3>3 DEF Managers
  <2>7. Ahead(w, s, {k})
    <3>1. Seen(s.m) = Seen(win[w])
      BY <2>4 DEF Seen
    <3> QED BY <1>1, <1>2, <2>1, <2>2, <2>4, <2>5, <2>6, <3>1 DEF Ahead
  <2> QED BY <1>0, <1>2, <2>1, <2>2, <2>4, <2>7, CountingTurn
<1>c. ASSUME calls' \subseteq calls, win' = win, serial' = serial, rows' = rows,
             \A v \in Windows : news'[v] \subseteq rows
      PROVE  Counting'
  <2>1. CallsAreAwaited' /\ ListsAreLogged'
    BY <1>2, <1>3, <1>c DEF CallsAreAwaited, ListsAreLogged
  <2>2. ASSUME NEW v \in Windows PROVE Counted(v)'
    <3>1. \A c \in win[v].list : Known(v, c) => Known(v, c)'
      BY <1>c DEF Known, None
    <3> QED BY <1>c, <3>1 DEF Counting, Counted, Seen
  <2> QED BY <2>1, <2>2 DEF Counting
<1>6. ASSUME NEW k \in calls, AnsweredLate(k) PROVE Counting'
  <2>1. /\ calls' = calls \ {k} /\ win' = win /\ serial' = serial
        /\ rows' = rows /\ news' = news
    BY <1>6 DEF AnsweredLate
  <2> QED BY <1>2, <1>c, <2>1
<1>7. ASSUME NEW k \in calls, CallFails(k) PROVE Counting'
  <2>1. serial' = serial /\ rows' = rows /\ news' = news
    BY <1>7 DEF CallFails
  <2>2. CASE k.orphan
    <3>1. calls' = calls \ {k} /\ win' = win
      BY <1>7, <2>2 DEF CallFails
    <3> QED BY <1>2, <1>c, <2>1, <3>1
  <2>3. CASE ~k.orphan
    <3>1. k.win \in Windows /\ k.kind = "state" /\ win[k.win].manager # "none"
      BY <1>3, <2>3
    <3>2. PICK s \in States :
            /\ Turn(k.win, s, {k}) /\ Same(k.win, s) /\ s.m.manager = win[k.win].manager
            /\ s.m.retry \in {"no", win[k.win].retry, k.kind}
            /\ s.asks = {} /\ s.m.unseen = win[k.win].unseen
      BY <1>7, <2>3, <3>1, CallFailsIs
    <3>3. s.m.retry # "reserve"
      BY <1>1, <3>1, <3>2
    <3> QED BY <1>2, <1>a, <2>1, <3>1, <3>2, <3>3
  <2> QED BY <2>2, <2>3
<1>8. ASSUME NEW w \in Windows, Enter(w) PROVE Counting'
  <2>1. serial' = serial /\ rows' = rows /\ news' = news /\ env' = env
        /\ win[w].manager = "none"
    BY <1>8 DEF Enter
  <2>2. PICK s \in States : /\ Turn(w, s, {}) /\ Same(w, s) /\ s.m.manager = "new"
                            /\ s.m.retry \in {"no", win[w].retry} /\ s.asks \subseteq {"state"}
                            /\ s.m.unseen = Pending(w)
    BY <1>8, EnterIs
  <2> QED BY <1>0, <1>1, <1>2, <1>a, <2>1, <2>2
<1>9. ASSUME NEW w \in Windows, Retry(w) PROVE Counting'
  <2>1. serial' = serial /\ rows' = rows /\ news' = news /\ env' = env
        /\ win[w].retry = "state"
    BY <1>1, <1>9 DEF Retry, Managers, Kinds
  <2>2. PICK s \in States : /\ Turn(w, s, {}) /\ Same(w, s) /\ s.m.manager = win[w].manager
                            /\ s.m.retry = "no" /\ s.asks \subseteq {win[w].retry}
                            /\ s.m.unseen = win[w].unseen
    BY <1>9, RetryIs
  <2>3. s.m.manager # "none"
    BY <2>1, <2>2 DEF Counting, Counted
  <2> QED BY <1>0, <1>1, <1>2, <1>a, <2>1, <2>2, <2>3
<1>10. ASSUME NEW w \in Windows, Reconnect(w) PROVE Counting'
  <2>1. serial' = serial /\ rows' = rows
        /\ \A v \in Windows : news'[v] \subseteq rows
    BY <1>0, <1>2, <1>10 DEF Reconnect
  <2>2. PICK s \in States : /\ Turn(w, s, {}) /\ Same(w, s) /\ s.m.manager = win[w].manager
                            /\ s.m.retry \in {"no", win[w].retry} /\ s.asks \subseteq {"state"}
                            /\ win[w].manager = "none" => s.asks = {}
                            /\ s.m.unseen = win[w].unseen
    BY <1>10, ReconnectIs
  <2>3. s.m.manager = "none" => s.m.retry = "no"
    BY <2>2 DEF Counting, Counted
  <2> QED BY <1>1, <1>a, <2>1, <2>2, <2>3
<1>11. ASSUME NEW w \in Windows, CommitFails(w) PROVE Counting'
  <2>1. serial' = serial /\ rows' = rows /\ news' = news
        /\ Turn(w, Listed(w, win[w].list, {}), {})
    BY <1>11 DEF CommitFails
  <2>2. win[w].list \cup {} = win[w].list
    OBVIOUS
  <2> QED BY <1>2, <1>b, <2>1, <2>2
<1>12. ASSUME NEW w \in Windows, LoadPage(w) PROVE Counting'
  <2>1. serial' = serial /\ rows' = rows /\ news' = news /\ env' = env
        /\ Turn(w, Listed(w, win[w].list \cup rows, {}), {})
    BY <1>12 DEF LoadPage
  <2> QED BY <1>0, <1>2, <1>b, <2>1
<1>13. ASSUME NEW w \in Windows, Reopen(w) PROVE Counting'
  <2> DEFINE Left(call) == IF call.orphan THEN call
                           ELSE [call EXCEPT !.orphan = TRUE, !.left = win[w].queue]
             mine == {call \in calls : call.win = w}
             left == {Left(call) : call \in mine}
  <2>1. /\ serial' = serial /\ rows' = rows
        /\ win' = [win EXCEPT ![w] = Opened(Pending(w))]
        /\ news' = [news EXCEPT ![w] = {}]
        /\ \E kept \in {{}, left} : calls' = (calls \ mine) \cup kept
    BY <1>13 DEF Reopen
  <2>2. \A k \in left : k.orphan /\ k.kind = "state" /\ k.win = w
    <3>1. ASSUME NEW call \in mine
          PROVE  Left(call).orphan /\ Left(call).kind = "state" /\ Left(call).win = w
      BY <1>0, <1>3 DEF Requests
    <3> QED BY <3>1
  <2>3. \A k \in calls' : \/ k \in calls /\ k.win # w
                          \/ k.orphan /\ k.kind = "state" /\ k.win = w
    <3> HIDE DEF left
    <3> QED BY <2>1, <2>2
  <2>4. /\ win'[w].manager = "none" /\ win'[w].retry = "no"
        /\ win'[w].list \subseteq win[w].list
        /\ \A v \in Windows \ {w} : win'[v] = win[v]
    <3>1. win'[w] = Opened(Pending(w)) /\ \A v \in Windows \ {w} : win'[v] = win[v]
      BY <1>0, <2>1
    <3> QED BY <3>1 DEF Opened, Pending
  <2> HIDE DEF left, mine
  <2>5. CallsAreAwaited'
    BY <1>3, <2>3, <2>4 DEF CallsAreAwaited
  <2>6. ListsAreLogged'
    BY <1>0, <1>2, <2>1, <2>4 DEF ListsAreLogged
  <2>7. ASSUME NEW v \in Windows PROVE Counted(v)'
    <3>1. CASE v = w
      BY <2>4, <3>1 DEF Counted
    <3>2. CASE v # w
      <4>1. \A c \in win[v].list : Known(v, c) => Known(v, c)'
        BY <2>1, <2>3, <2>4, <3>2 DEF Known, None
      <4> QED BY <2>1, <2>4, <3>2, <4>1 DEF Counting, Counted, Seen
    <3> QED BY <3>1, <3>2
  <2> QED BY <2>5, <2>6, <2>7 DEF Counting
<1>14. ASSUME NEW w \in Windows, ModeChange(w) \/ ClearEntry(w) PROVE Counting'
  <2>1. /\ serial' = serial /\ rows' = rows /\ news' = news
        /\ calls' = calls /\ \E e : win' = [win EXCEPT ![w].entry = e]
    BY <1>14 DEF ModeChange, ClearEntry
  <2>2. \A v \in Windows :
          /\ win'[v].next = win[v].next /\ win'[v].list = win[v].list
          /\ win'[v].queue = win[v].queue /\ win'[v].manager = win[v].manager
          /\ win'[v].retry = win[v].retry /\ win'[v].unseen = win[v].unseen
    BY <1>0, <2>1 DEF Managers
  <2>3. CallsAreAwaited' /\ ListsAreLogged'
    BY <1>2, <1>3, <2>1, <2>2 DEF CallsAreAwaited, ListsAreLogged
  <2>4. ASSUME NEW v \in Windows PROVE Counted(v)'
    <3>1. \A c \in win[v].list : Known(v, c) => Known(v, c)'
      BY <2>1, <2>2 DEF Known, None
    <3> QED BY <2>1, <2>2, <3>1 DEF Counting, Counted, Seen
  <2> QED BY <2>3, <2>4 DEF Counting
<1>15. ASSUME NEW w \in Windows, NEW c \in Contacts, LogContact(w, c) PROVE Counting'
  <2> DEFINE n == win[w].next
  <2>1. rows' = rows /\ news' = news /\ env' = env
    BY <1>15 DEF LogContact
  <2>2. /\ n # None /\ n \in Nat /\ serial' = [serial EXCEPT ![c] = n]
        /\ serial[c] = None /\ win[w].manager = "ready"
    BY <1>1, <1>15, LogContactIs
  <2>3. PICK s \in States :
          /\ Turn(w, s, {}) /\ Bounded(s.m.queue) /\ s.m.list = win[w].list \cup {c}
          /\ s.m.manager = "ready" /\ s.m.retry \in {"no", win[w].retry} /\ s.asks = {}
          /\ s.m.next >= n /\ n < s.m.next
          /\ \A d \in win[w].list : serial[d] < s.m.next \/ serial[d] < 1
    BY <1>1, <1>15, LogContactIs
  <2> HIDE DEF n
  <2>4. s.m.next \in Nat /\ s.m.next >= 1 /\ n >= 1
    BY <2>2, <2>3 DEF States, Managers, None
  <2>5. \A d \in Contacts : serial[d] \in Nat /\ serial'[d] = IF d = c THEN n ELSE serial[d]
    BY <1>0, <2>2
  <2>6. /\ c \notin rows /\ \A v \in Windows : c \notin win[v].list
    BY <1>2, <2>2 DEF None
  <2>7. /\ \A d \in rows' : serial'[d] >= 1
        /\ \A v \in Windows : \A d \in win[v].list : serial'[d] = serial[d]
    BY <1>0, <1>1, <1>2, <2>1, <2>5, <2>6
  <2>8. \A d \in s.m.list : serial'[d] >= 1 /\ serial'[d] < s.m.next
    <3>1. ASSUME NEW d \in win[w].list PROVE serial'[d] >= 1 /\ serial'[d] < s.m.next
      <4>1. serial'[d] = serial[d] /\ serial[d] >= 1 /\ serial[d] \in Nat
        BY <1>1, <1>2, <2>5, <2>7
      <4> QED BY <2>3, <2>4, <4>1
    <3>2. serial'[c] >= 1 /\ serial'[c] < s.m.next
      BY <2>3, <2>4, <2>5
    <3> QED BY <2>3, <3>1, <3>2
  <2>9. Ahead(w, s, {})
    BY <1>1, <2>3, <2>4, <2>8 DEF Ahead, Seen
  <2> QED BY <1>0, <1>2, <2>1, <2>3, <2>7, <2>9, CountingTurn
<1>16. ASSUME NEW w \in Windows, NEW c \in Contacts, Commit(w, c) PROVE Counting'
  <2>1. /\ serial' = serial /\ env' = env /\ rows' = rows \cup {c} /\ c \in win[w].list
        /\ Turn(w, Listed(w, win[w].list, {}), {})
        /\ \A v \in Windows : news'[v] \subseteq news[v] \cup {c}
    BY <1>16 DEF Commit, Pending
  <2>2. /\ \A d \in rows' : serial[d] >= 1
        /\ \A v \in Windows : news'[v] \subseteq rows'
        /\ {} \in SUBSET Contacts /\ {} \subseteq rows' /\ rows \subseteq rows'
    BY <1>2, <2>1
  <2>3. Turn(w, Listed(w, win[w].list \cup {}, {}), {})
    <3>1. win[w].list \cup {} = win[w].list
      OBVIOUS
    <3> QED BY <2>1, <3>1
  <2> QED BY <1>b, <2>1, <2>2, <2>3
<1>17. ASSUME NEW w \in Windows, NEW c \in Contacts, Receive(w, c) PROVE Counting'
  <2>1. /\ serial' = serial /\ env' = env /\ rows' = rows /\ c \in news[w]
        /\ Turn(w, Listed(w, win[w].list \cup {c}, {}), {})
        /\ \A v \in Windows : news'[v] \subseteq news[v]
    BY <1>0, <1>17 DEF Receive
  <2>2. /\ {c} \in SUBSET Contacts /\ {c} \subseteq rows' /\ rows \subseteq rows'
        /\ \A v \in Windows : news'[v] \subseteq rows'
        /\ \A d \in rows' : serial[d] >= 1
    BY <1>0, <1>2, <2>1
  <2> QED BY <1>b, <2>1, <2>2
<1>18. CASE UNCHANGED vars
  BY <1>18 DEF vars, Counting, CallsAreAwaited, ListsAreLogged, Counted, Known, Seen, None
<1> QED
  BY <1>0, <1>4, <1>5, <1>6, <1>7, <1>8, <1>9, <1>10, <1>11, <1>12, <1>13,
     <1>14, <1>15, <1>16, <1>17, <1>18 DEF Next

-----------------------------------------------------------------------------
LEMMA InvHolds == Spec => []Inv
<1>1. Inv /\ [Next]_vars => Inv'
  <2> SUFFICES ASSUME Inv, [Next]_vars PROVE Inv'
    OBVIOUS
  <2>1. Types' /\ EntriesFollow' /\ Reserve' = Reserve
    BY TypesStep DEF Inv, Reserve
  <2>2. Reserve => Reserving'
    BY ReservingStep DEF Inv
  <2> QED BY <2>1, <2>2 DEF Inv
<1> QED BY <1>1, InitHolds, PTL DEF Spec

(* The log's rules require reservations, so a serial the backend reserved   *)
(* is sent with one contact at most, whichever windows log, are left or     *)
(* reloaded, and whatever is lost or answered late: the answers, the        *)
(* windows and localStorage hold different numbers (requestReservation and  *)
(* observeContact of useSerialAllocator.js, reserve_serial of               *)
(* db/worker.rs).                                                           *)
THEOREM ReservedSerialsDiffer == Spec => []SerialsUsedOnce
<1>1. Inv => SerialsUsedOnce
  BY DEF Inv, Reserving, SerialsUsedOnce
<1> QED BY <1>1, InvHolds, PTL

(* In every world no serial is offered twice: with reservations as above,   *)
(* without them a window with a manager that is ready offers a serial above *)
(* every contact of its list, however contacts cross the requests for the   *)
(* state and whichever windows are left and opened again, except those that *)
(* waited in localStorage when the manager was made and that it has not     *)
(* seen since, as the list has not changed (initialize, observeContact and  *)
(* the effect on contacts of useSerialAllocator.js, lines 140 to 243).      *)
THEOREM SerialsStayNew == Spec => []SerialsAreNew
<1> DEFINE Count == ~Reserve => Counting
<1>1. Init => Count
  BY InitCounting
<1>2. Inv /\ Count /\ [Next]_vars => Count'
  <2> SUFFICES ASSUME Inv, Count, [Next]_vars PROVE Count'
    OBVIOUS
  <2>1. Reserve' = Reserve
    BY TypesStep DEF Inv, Reserve
  <2> QED BY <2>1, CountingStep DEF Inv
<1>3. Inv /\ Count => SerialsAreNew
  <2>1. Counting => OfferAboveList
    BY DEF Counting, Counted, Seen, OfferAboveList
  <2> QED BY <2>1 DEF Inv, Reserving, SerialsAreNew, SerialsUsedOnce, OfferAboveList
<1> HIDE DEF Count
<1> QED BY <1>1, <1>2, <1>3, InvHolds, PTL DEF Spec

=============================================================================
