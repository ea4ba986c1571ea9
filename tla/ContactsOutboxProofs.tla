------------------------- MODULE ContactsOutboxProofs -------------------------
(***************************************************************************)
(* Theorems about ContactsOutbox, for every set of windows, browsers and    *)
(* contacts, every log and every operator and network within the bounds.    *)
(***************************************************************************)
EXTENDS ContactsOutbox, FiniteSetTheorems, WellFoundedInduction, TLAPS

IsPost(p) ==
  p = [win |-> p.win, page |-> p.page, entry |-> p.entry, stage |-> p.stage, row |-> p.row,
       rescored |-> p.rescored, heard |-> p.heard]

IsEnv(e) == e = [setup |-> e.setup, edits |-> e.edits, losses |-> e.losses,
                     refreshes |-> e.refreshes]

(* A request knows its window, and a page of it that was opened.            *)
PostOK(p) == IsPost(p) /\ p.win \in Windows /\ p.page \in Nat /\ p.page <= page[p.win]

Types ==
  /\ IsEnv(env)
  /\ DOMAIN local = Windows /\ DOMAIN committing = Windows
  /\ timers \in [Windows -> Nat] /\ page \in [Windows -> Nat]
  /\ \A p \in posts : PostOK(p)

KeyOf(p) == ClientId(p.entry)
KeysOf(S) == {KeyOf(p) : p \in S}

(* One window's part of OneCommitPerContact and of PendingIsAwaited.        *)
Tracked(w) ==
  /\ committing[w] = KeysOf(InFlight(w))
  /\ \A p1, p2 \in InFlight(w) : KeyOf(p1) = KeyOf(p2) => p1 = p2
  /\ (\E i \in 1..Len(local[w]) : Uncommitted(local[w][i])) => InFlight(w) # {} \/ timers[w] > 0

OutboxInv == Types /\ \A w \in Windows : Tracked(w)

-----------------------------------------------------------------------------
(* The first of some positions.                                             *)

LEMMA LeastExists ==
  ASSUME NEW S, S \subseteq Nat, S # {}
  PROVE  \E n \in S : \A m \in S : n <= m
<1>1. PICK x \in S : \A y \in S : ~(<<y, x>> \in OpToRel(<, Nat))
  BY WFMin, NatLessThanWellFounded
<1>2. \A y \in S : ~(y < x)
  <2>1. \A y \in S : <<y, x>> \in Nat \X Nat
    OBVIOUS
  <2> QED BY <1>1, <2>1 DEF OpToRel
<1> QED BY <1>2

LEMMA FirstExists ==
  ASSUME NEW S, S # {}, \A i \in S : i \in Int /\ i >= 1
  PROVE  Min(S) \in S
<1>1. PICK n \in S : \A m \in S : n <= m
  <2>1. S \subseteq Nat
    OBVIOUS
  <2> QED BY <2>1, LeastExists
<1> QED BY <1>1 DEF Min

(* What nextContactToCommit finds: one contact that is not being committed, *)
(* or none where every contact that waits for a commit is being committed.  *)
LEMMA NextIsFree ==
  ASSUME NEW s, NEW held
  PROVE  /\ \A e \in NextToCommit(s, held) : ClientId(e) \notin held
         /\ \A e, d \in NextToCommit(s, held) : e = d
         /\ NextToCommit(s, held) = {}
              => \A i \in 1..Len(s) : Uncommitted(s[i]) => ClientId(s[i]) \in held
<1> DEFINE found == ToCommit(s, held)
<1>1. \A i \in found : i \in Int /\ i >= 1
  BY DEF ToCommit
<1>2. CASE found = {}
  BY <1>2 DEF NextToCommit, ToCommit
<1>3. CASE found # {}
  <2>1. Min(found) \in found
    <3> HIDE DEF found
    <3> QED BY <1>1, <1>3, FirstExists
  <2>2. ClientId(s[Min(found)]) \notin held
    BY <2>1 DEF ToCommit
  <2>3. NextToCommit(s, held) = {s[Min(found)]}
    BY <1>3 DEF NextToCommit
  <2> HIDE DEF found
  <2> QED BY <2>2, <2>3
<1> QED BY <1>2, <1>3

-----------------------------------------------------------------------------
(* The parts of the steps.                                                  *)

SameWindows == env'.setup = env.setup /\ page' = page /\ IsEnv(env')

(* Nothing that the outbox looks at changes.                                *)
LEMMA Untouched ==
  ASSUME OutboxInv, SameWindows, UNCHANGED <<local, committing, posts, timers>>
  PROVE  OutboxInv'
<1>1. Windows' = Windows
  BY DEF SameWindows, Windows, setup
<1>2. Types'
  BY <1>1 DEF OutboxInv, SameWindows, Types, PostOK
<1>3. \A w \in Windows : InFlight(w)' = InFlight(w)
  BY DEF SameWindows, InFlight, Own
<1> QED BY <1>1, <1>2, <1>3 DEF OutboxInv, Tracked

(* A turn, by which the keys of the requests that go on are those held.     *)
TurnFits(w, ended, others) ==
  /\ others \subseteq posts
  /\ \A p \in posts \ others : p.win = w
  /\ KeysOf(InFlight(w) \cap others) = committing[w] \ ended

LEMMA TurnKeeps ==
  ASSUME OutboxInv, SameWindows, NEW w \in Windows, NEW s, NEW ended, NEW others,
         Turn(w, s, ended, others), TurnFits(w, ended, others),
         timers' \in [Windows -> Nat], \A v \in Windows \ {w} : timers'[v] = timers[v]
  PROVE  OutboxInv'
<1> DEFINE held == committing[w] \ ended
           posted == NextToCommit(s, held)
           news == {Post(w, e) : e \in posted}
<1>1. /\ local' = [local EXCEPT ![w] = s]
      /\ posts' = others \cup news
      /\ committing' = [committing EXCEPT ![w] = held \cup {ClientId(e) : e \in posted}]
  BY DEF Turn
<1>2. Windows' = Windows
  BY DEF SameWindows, Windows, setup
<1>3. \A p \in news : /\ IsPost(p) /\ p.win = w /\ p.page = page[w] /\ p.heard
                      /\ \E e \in posted : p = Post(w, e) /\ p.entry = e
  <2>1. ASSUME NEW e
        PROVE  /\ IsPost(Post(w, e)) /\ Post(w, e).win = w /\ Post(w, e).page = page[w]
               /\ Post(w, e).heard /\ Post(w, e).entry = e
    BY DEF Post, IsPost
  <2> HIDE DEF posted
  <2> QED BY <2>1
<1>4. \A e \in posted : Post(w, e) \in news /\ Post(w, e).entry = e
  BY DEF Post
<1>5. /\ \A e \in posted : ClientId(e) \notin held
      /\ \A e, d \in posted : e = d
      /\ posted = {} => \A i \in 1..Len(s) : Uncommitted(s[i]) => ClientId(s[i]) \in held
  BY NextIsFree
<1> HIDE DEF posted, news, held
<1>6. Types'
  <2>1. \A p \in posts' : PostOK(p)'
    BY <1>1, <1>2, <1>3 DEF OutboxInv, Types, TurnFits, PostOK, SameWindows
  <2> QED BY <1>1, <1>2, <2>1 DEF OutboxInv, Types, SameWindows
<1>7. ASSUME NEW v \in Windows, v # w
      PROVE  Tracked(v)'
  <2>1. InFlight(v)' = InFlight(v)
    BY <1>1, <1>3, <1>7 DEF InFlight, Own, SameWindows, TurnFits
  <2>2. local'[v] = local[v] /\ committing'[v] = committing[v] /\ timers'[v] = timers[v]
    BY <1>1, <1>7 DEF OutboxInv, Types
  <2>3. Tracked(v)
    BY DEF OutboxInv
  <2> QED BY <2>1, <2>2, <2>3 DEF Tracked, KeysOf, KeyOf
<1>8. Tracked(w)'
  <2>1. InFlight(w)' = (InFlight(w) \cap others) \cup news
    BY <1>1, <1>3 DEF InFlight, Own, SameWindows, TurnFits
  <2>2. local'[w] = s /\ committing'[w] = held \cup {ClientId(e) : e \in posted}
    BY <1>1 DEF OutboxInv, Types
  <2>3. KeysOf(InFlight(w) \cap others) = held
    BY DEF TurnFits, held
  <2>4. committing'[w] = KeysOf((InFlight(w) \cap others) \cup news)
    BY <1>3, <1>4, <2>2, <2>3 DEF KeysOf, KeyOf
  <2>5. ASSUME NEW p1 \in (InFlight(w) \cap others) \cup news,
               NEW p2 \in (InFlight(w) \cap others) \cup news, KeyOf(p1) = KeyOf(p2)
        PROVE  p1 = p2
    <3>1. \A p \in InFlight(w) \cap others : KeyOf(p) \in held
      BY <2>3 DEF KeysOf
    <3>2. \A p \in news : KeyOf(p) \notin held
      BY <1>3, <1>5 DEF KeyOf
    <3>3. CASE p1 \in InFlight(w) \cap others /\ p2 \in InFlight(w) \cap others
      BY <2>5, <3>3 DEF OutboxInv, Tracked
    <3>4. CASE p1 \in news /\ p2 \in news
      BY <1>3, <1>5, <3>4
    <3> QED BY <2>5, <3>1, <3>2, <3>3, <3>4
  <2>6. (\E i \in 1..Len(s) : Uncommitted(s[i])) => (InFlight(w) \cap others) \cup news # {}
    <3>1. CASE posted = {}
      BY <1>5, <2>3, <3>1 DEF KeysOf
    <3>2. CASE posted # {}
      BY <1>4, <3>2
    <3> QED BY <3>1, <3>2
  <2> QED BY <2>1, <2>2, <2>4, <2>5, <2>6 DEF Tracked, KeysOf, KeyOf
<1> QED BY <1>2, <1>6, <1>7, <1>8 DEF OutboxInv

(* Most turns end no request.                                               *)
LEMMA TurnEndsNone ==
  ASSUME OutboxInv, NEW w \in Windows
  PROVE  TurnFits(w, {}, posts)
<1>1. InFlight(w) \cap posts = InFlight(w)
  BY DEF InFlight
<1> QED BY <1>1 DEF OutboxInv, Tracked, TurnFits

(* A request that ends, or that nobody waits for any more, frees its key.   *)
LEMMA KeyIsFreed ==
  ASSUME OutboxInv, NEW w \in Windows, NEW p \in InFlight(w)
  PROVE  /\ KeysOf(InFlight(w) \ {p}) = committing[w] \ FreedKeys(p)
         /\ TurnFits(w, FreedKeys(p), posts \ {p})
<1>1. \A p1, p2 \in InFlight(w) : KeyOf(p1) = KeyOf(p2) => p1 = p2
  BY DEF OutboxInv, Tracked
<1>2. committing[w] = KeysOf(InFlight(w)) /\ FreedKeys(p) = {KeyOf(p)}
  BY DEF OutboxInv, Tracked, FreedKeys, KeyOf
<1>3. KeysOf(InFlight(w) \ {p}) = committing[w] \ FreedKeys(p)
  BY <1>1, <1>2 DEF KeysOf
<1>4. InFlight(w) \cap (posts \ {p}) = InFlight(w) \ {p} /\ p.win = w
  BY DEF InFlight, Own
<1> QED BY <1>3, <1>4 DEF TurnFits

(* The commit fails in the browser; gone is what the backend may still make *)
(* of the request.                                                          *)
LEMMA FailureKeeps ==
  ASSUME OutboxInv, SameWindows, NEW w \in Windows, NEW p \in InFlight(w), NEW gone,
         CommitFailed(w, p), posts' = (posts \ {p}) \cup gone, local' = local,
         \A q \in gone : IsPost(q) /\ q.win = w /\ q.page = p.page /\ ~q.heard
  PROVE  OutboxInv'
<1>1. Windows' = Windows
  BY DEF SameWindows, Windows, setup
<1>2. /\ timers' = [timers EXCEPT ![w] = @ + 1]
      /\ committing' = [committing EXCEPT ![w] = @ \ FreedKeys(p)]
  BY DEF CommitFailed
<1>3. timers' \in [Windows -> Nat] /\ timers'[w] > 0
  BY <1>2 DEF OutboxInv, Types
<1>4. PostOK(p) /\ p.win = w
  BY DEF OutboxInv, Types, InFlight, Own
<1>5. Types'
  <2>1. \A q \in posts' : PostOK(q)'
    BY <1>1, <1>4 DEF OutboxInv, Types, PostOK, SameWindows
  <2> QED BY <1>1, <1>2, <1>3, <2>1 DEF OutboxInv, Types, SameWindows
<1>6. ASSUME NEW v \in Windows, v # w
      PROVE  Tracked(v)'
  <2>1. InFlight(v)' = InFlight(v)
    <3>1. p.win = w
      BY DEF InFlight, Own
    <3> QED BY <1>6, <3>1 DEF InFlight, Own, SameWindows
  <2>2. committing'[v] = committing[v] /\ timers'[v] = timers[v]
    BY <1>2, <1>6 DEF OutboxInv, Types
  <2>3. Tracked(v)
    BY DEF OutboxInv
  <2> QED BY <2>1, <2>2, <2>3 DEF Tracked, KeysOf, KeyOf
<1>7. Tracked(w)'
  <2>1. InFlight(w)' = InFlight(w) \ {p}
    BY DEF InFlight, Own, SameWindows
  <2>2. committing'[w] = KeysOf(InFlight(w) \ {p})
    BY <1>2, KeyIsFreed DEF OutboxInv, Types
  <2> QED BY <1>3, <2>1, <2>2 DEF OutboxInv, Tracked, KeysOf, KeyOf
<1> QED BY <1>1, <1>5, <1>6, <1>7 DEF OutboxInv

(* The backend takes a request further, or drops one nobody waits for.      *)
LEMMA ServedKeeps ==
  ASSUME OutboxInv, SameWindows, NEW p \in posts, NEW q,
         UNCHANGED <<local, committing, timers>>,
         IsPost(q), q.win = p.win, q.page = p.page, q.entry = p.entry, q.heard = p.heard,
         posts' = (posts \ {p}) \cup {q} \/ (posts' = posts \ {p} /\ ~p.heard)
  PROVE  OutboxInv'
<1>1. Windows' = Windows
  BY DEF SameWindows, Windows, setup
<1>2. Types'
  <2>1. \A r \in posts' : PostOK(r)'
    BY <1>1 DEF OutboxInv, Types, PostOK, SameWindows
  <2> QED BY <1>1, <2>1 DEF OutboxInv, Types, SameWindows
<1>3. ASSUME NEW w \in Windows
      PROVE  Tracked(w)'
  <2>1. Tracked(w)
    BY DEF OutboxInv
  <2>2. CASE p \in InFlight(w)
    <3>1. InFlight(w)' = (InFlight(w) \ {p}) \cup {q}
      BY <2>2 DEF InFlight, Own, SameWindows
    <3>2. KeyOf(q) = KeyOf(p)
      BY DEF KeyOf
    <3>3. KeysOf((InFlight(w) \ {p}) \cup {q}) = KeysOf(InFlight(w))
      BY <2>2, <3>2 DEF KeysOf
    <3> QED BY <2>1, <2>2, <3>1, <3>2, <3>3 DEF Tracked, KeysOf, KeyOf
  <2>3. CASE p \notin InFlight(w)
    <3>1. InFlight(w)' = InFlight(w)
      BY <2>3 DEF InFlight, Own, SameWindows
    <3> QED BY <2>1, <3>1 DEF Tracked, KeysOf, KeyOf
  <2> QED BY <2>2, <2>3
<1> QED BY <1>1, <1>2, <1>3 DEF OutboxInv

-----------------------------------------------------------------------------
(* The steps.                                                               *)

LEMMA Initially ==
  ASSUME Init
  PROVE  OutboxInv
<1>1. PICK world \in Setups : InitIn(world)
  BY DEF Init
<1>2. /\ env = [setup |-> world, edits |-> 0, losses |-> 0, refreshes |-> 0]
      /\ local = [w \in DOMAIN world.browserOf |-> <<>>]
      /\ committing = [w \in DOMAIN world.browserOf |-> {}]
      /\ timers = [w \in DOMAIN world.browserOf |-> 0]
      /\ page = [w \in DOMAIN world.browserOf |-> 0]
      /\ posts = {}
  BY <1>1 DEF InitIn
<1>3. Windows = DOMAIN world.browserOf
  BY <1>2 DEF Windows, setup
<1>4. Types
  BY <1>2, <1>3 DEF Types, IsEnv
<1>5. \A w \in Windows : local[w] = <<>> /\ InFlight(w) = {} /\ committing[w] = {}
  BY <1>2, <1>3 DEF InFlight
<1> HIDE DEF Types
<1>6. \A w \in Windows : Tracked(w)
  BY <1>5 DEF Tracked, KeysOf
<1> QED BY <1>4, <1>6 DEF OutboxInv

(* The parts of the steps that need no look at the requests.                *)
LEMMA StayingSteps ==
  ASSUME OutboxInv, NEW w \in Windows
  PROVE  /\ (\E i \in DOMAIN local[w] : DeleteCommitted(w, i)) => OutboxInv'
         /\ Refresh(w) \/ (\E f \in setup.filters : Search(w, f)) => OutboxInv'
         /\ (\E d \in deletes : LoseDelete(d)) => OutboxInv'
         /\ LoadFails(w) \/ Disconnect(w) \/ Connect(w) \/ ServeLoad(w) => OutboxInv'
<1> DEFINE Same == SameWindows /\ UNCHANGED <<local, committing, posts, timers>>
<1>0. IsEnv(env)
  BY DEF OutboxInv, Types
<1>1. (\E i \in DOMAIN local[w] : DeleteCommitted(w, i)) => Same
  BY <1>0 DEF DeleteCommitted, SameWindows, lists
<1>2. Refresh(w) \/ (\E f \in setup.filters : Search(w, f)) => Same
  BY <1>0 DEF Refresh, Search, Counted, SameWindows, IsEnv, lists
<1>3. (\E d \in deletes : LoseDelete(d)) => Same
  BY <1>0 DEF LoseDelete, SameWindows, IsEnv, lists
<1>4. LoadFails(w) \/ Disconnect(w) \/ Connect(w) \/ ServeLoad(w) => Same
  BY <1>0 DEF LoadFails, Disconnect, Connect, ServeLoad, Counted, SameWindows, IsEnv, lists
<1>5. Same => OutboxInv'
  BY Untouched
<1> QED BY <1>1, <1>2, <1>3, <1>4, <1>5

LEMMA RenderingSteps ==
  ASSUME OutboxInv, NEW w \in Windows
  PROVE  /\ (\E q \in Qsos : LogContact(w, q)) => OutboxInv'
         /\ (\E i \in DOMAIN local[w] : EditContact(w, i) \/ DeleteLocal(w, i)) => OutboxInv'
         /\ RetryTimer(w) \/ LoadReply(w) => OutboxInv'
         /\ Receive(w) \/ (\E d \in deletes : DeleteReply(w, d)) => OutboxInv'
<1> DEFINE Turned == /\ SameWindows /\ (\E s : Turn(w, s, {}, posts))
                     /\ timers' \in [Windows -> Nat]
                     /\ \A v \in Windows \ {w} : timers'[v] = timers[v]
           Same == SameWindows /\ UNCHANGED <<local, committing, posts, timers>>
<1>0. IsEnv(env) /\ timers \in [Windows -> Nat]
  BY DEF OutboxInv, Types
<1>1. (\E q \in Qsos : LogContact(w, q)) => Turned
  BY <1>0 DEF LogContact, SameWindows
<1>2. (\E i \in DOMAIN local[w] : EditContact(w, i) \/ DeleteLocal(w, i)) => Turned
  BY <1>0 DEF EditContact, DeleteLocal, SameWindows, IsEnv, history
<1>3. RetryTimer(w) \/ LoadReply(w) => Turned
  BY <1>0 DEF RetryTimer, LoadReply, SameWindows, history
<1>4. Receive(w) => Turned \/ Same
  BY <1>0 DEF Receive, SameWindows, lists
<1>5. (\E d \in deletes : DeleteReply(w, d)) => Turned \/ Same
  BY <1>0 DEF DeleteReply, SameWindows, lists
<1>6. Same => OutboxInv'
  BY Untouched
<1>7. Turned => OutboxInv'
  BY TurnKeeps, TurnEndsNone
<1> QED BY <1>1, <1>2, <1>3, <1>4, <1>5, <1>6, <1>7

LEMMA ServingSteps ==
  ASSUME OutboxInv, NEW k \in Keys, Serve(k)
  PROVE  OutboxInv'
<1>0. IsEnv(env)
  BY DEF OutboxInv, Types
<1>1. \A d : ServeDelete(d) \/ PublishDelete(d)
              => SameWindows /\ UNCHANGED <<local, committing, posts, timers>>
  BY <1>0 DEF ServeDelete, PublishDelete, SameWindows, lists
<1>2. ASSUME NEW p \in posts, StorePost(p) \/ PublishPost(p) \/ DropPost(p)
      PROVE  OutboxInv'
  <2>1. SameWindows /\ UNCHANGED <<local, committing, timers>>
    BY <1>0, <1>2 DEF StorePost, PublishPost, DropPost, SameWindows, lists
  <2>2. IsPost(p)
    BY DEF OutboxInv, Types, PostOK
  <2>3. CASE StorePost(p)
    <3>1. PICK S \in Rescored(StoreRow(p)) :
            posts' = (posts \ {p}) \cup
              {[p EXCEPT !.stage = "stored", !.row = StoreRow(p), !.rescored = S]}
      BY <2>3 DEF StorePost
    <3> DEFINE q1 == [p EXCEPT !.stage = "stored"]
               q2 == [q1 EXCEPT !.row = StoreRow(p)]
               q == [q2 EXCEPT !.rescored = S]
    <3>2. IsPost(q) /\ q.win = p.win /\ q.page = p.page /\ q.entry = p.entry /\ q.heard = p.heard
      <4>1. IsPost(q1) /\ q1.win = p.win /\ q1.page = p.page /\ q1.entry = p.entry /\ q1.heard = p.heard
        BY <2>2 DEF IsPost
      <4> DEFINE r == StoreRow(p)
      <4>2. q2 = [q1 EXCEPT !.row = r]
        OBVIOUS
      <4> HIDE DEF q1, q2, r
      <4>3. IsPost(q2) /\ q2.win = p.win /\ q2.page = p.page /\ q2.entry = p.entry /\ q2.heard = p.heard
        BY <4>1, <4>2 DEF IsPost
      <4> QED BY <4>3 DEF IsPost
    <3>3. posts' = (posts \ {p}) \cup {q}
      BY <3>1
    <3> HIDE DEF q
    <3> QED BY <2>1, <3>2, <3>3, ServedKeeps
  <2>4. CASE PublishPost(p)
    <3> DEFINE q == [p EXCEPT !.stage = "answered"]
    <3>1. IsPost(q) /\ q.win = p.win /\ q.page = p.page /\ q.entry = p.entry /\ q.heard = p.heard
      BY <2>2 DEF IsPost
    <3>2. posts' = (posts \ {p}) \cup {q} \/ (posts' = posts \ {p} /\ ~p.heard)
      BY <2>4 DEF PublishPost
    <3> HIDE DEF q
    <3> QED BY <2>1, <3>1, <3>2, ServedKeeps
  <2>5. CASE DropPost(p)
    BY <2>1, <2>2, <2>5, ServedKeeps DEF DropPost
  <2> QED BY <1>2, <2>3, <2>4, <2>5
<1> QED BY <1>1, <1>2, Untouched DEF Serve, PostsOf

LEMMA AnsweringSteps ==
  ASSUME OutboxInv, NEW w \in Windows, NEW p \in posts
  PROVE  Reply(w, p) \/ Refuse(w, p) \/ LosePost(w, p) => OutboxInv'
<1>0. IsEnv(env) /\ timers \in [Windows -> Nat] /\ IsPost(p)
  BY DEF OutboxInv, Types, PostOK
<1>1. ASSUME Reply(w, p)
      PROVE  OutboxInv'
  <2>1. p \in InFlight(w) /\ SameWindows /\ timers' = timers
    BY <1>0, <1>1 DEF Reply, SameWindows, history
  <2>2. PICK s : Turn(w, s, FreedKeys(p), posts \ {p})
    BY <1>1 DEF Reply
  <2> QED BY <1>0, <2>1, <2>2, KeyIsFreed, TurnKeeps
<1>2. ASSUME Refuse(w, p)
      PROVE  OutboxInv'
  <2>1. p \in InFlight(w) /\ SameWindows /\ local' = local /\ CommitFailed(w, p)
    BY <1>0, <1>2 DEF Refuse, SameWindows, history
  <2> DEFINE gone == {}
  <2>2. posts' = (posts \ {p}) \cup gone
    BY <1>2 DEF Refuse
  <2>3. \A q \in gone : IsPost(q) /\ q.win = w /\ q.page = p.page /\ ~q.heard
    OBVIOUS
  <2> HIDE DEF gone
  <2> QED BY <2>1, <2>2, <2>3, FailureKeeps
<1>3. ASSUME LosePost(w, p)
      PROVE  OutboxInv'
  <2>1. p \in InFlight(w) /\ SameWindows /\ local' = local /\ CommitFailed(w, p)
    BY <1>0, <1>3 DEF LosePost, SameWindows, history, IsEnv
  <2>2. PICK gone \in {{}, Unheard({p})} : posts' = (posts \ {p}) \cup gone
    BY <1>3 DEF LosePost
  <2>3. p.win = w
    BY <2>1 DEF InFlight, Own
  <2>4. \A q \in gone : IsPost(q) /\ q.win = w /\ q.page = p.page /\ ~q.heard
    BY <1>0, <2>3 DEF Unheard, IsPost
  <2> QED BY <2>1, <2>2, <2>4, FailureKeeps
<1> QED BY <1>1, <1>2, <1>3

(* The new page starts with no timer, and with one request at most: its own. *)
LEMMA ReloadKeeps ==
  ASSUME OutboxInv, NEW w \in Windows, Reload(w)
  PROVE  OutboxInv'
<1> DEFINE s == SortContacts(saved[setup.browserOf[w]])
           posted == NextToCommit(s, {})
           mine == InFlight(w)
           New(e) == [Post(w, e) EXCEPT !.page = @ + 1]
           news == {New(e) : e \in posted}
           late == Unheard(mine)
<1>0. Types /\ IsEnv(env)
  BY DEF OutboxInv, Types
<1>1. /\ local' = [local EXCEPT ![w] = s]
      /\ committing' = [committing EXCEPT ![w] = {ClientId(e) : e \in posted}]
      /\ posts' = (posts \ mine) \cup late \cup news
      /\ timers' = [timers EXCEPT ![w] = 0]
      /\ page' = [page EXCEPT ![w] = @ + 1]
      /\ env' = env
  BY DEF Reload
<1>2. Windows' = Windows /\ env'.setup = env.setup
  BY <1>1 DEF Windows, setup
<1>3. page[w] \in Nat /\ page'[w] = page[w] + 1 /\ page' \in [Windows -> Nat]
  BY <1>0, <1>1 DEF Types
<1>5. \A e \in posted : New(e) \in news /\ New(e).entry = e
  BY DEF Post
<1>4. \A p \in news : /\ IsPost(p) /\ p.win = w /\ p.page = page[w] + 1 /\ p.heard
                      /\ \E e \in posted : p = New(e) /\ p.entry = e
  <2>1. ASSUME NEW e
        PROVE  /\ IsPost(New(e)) /\ New(e).win = w /\ New(e).page = page[w] + 1
               /\ New(e).heard /\ New(e).entry = e
    <3> DEFINE p == Post(w, e)
    <3>1. IsPost(p) /\ p.win = w /\ p.page = page[w] /\ p.heard /\ p.entry = e
      BY DEF Post, IsPost
    <3>2. New(e) = [p EXCEPT !.page = p.page + 1]
      OBVIOUS
    <3> HIDE DEF p, New
    <3> QED BY <3>1, <3>2 DEF IsPost
  <2> HIDE DEF New
  <2> QED BY <2>1
<1>6. \A p \in late : ~p.heard /\ PostOK(p) /\ p.win = w
  <2>1. \A p \in mine : PostOK(p) /\ p.win = w
    BY <1>0 DEF Types, InFlight, Own
  <2> QED BY <2>1 DEF Unheard, PostOK, IsPost
<1>7. /\ \A e, d \in posted : e = d
      /\ posted = {} => \A i \in 1..Len(s) : ~Uncommitted(s[i])
  BY NextIsFree
<1> HIDE DEF s, posted, New, news, late
<1>8. Types'
  <2>1. \A p \in (posts \ mine) \cup late : PostOK(p)'
    <3>1. \A p \in (posts \ mine) \cup late : PostOK(p)
      BY <1>0, <1>6 DEF Types
    <3>2. \A v \in Windows : page[v] \in Nat /\ page'[v] \in {page[v], page[v] + 1}
      BY <1>0, <1>1, <1>3 DEF Types
    <3> QED BY <1>2, <3>1, <3>2 DEF PostOK
  <2>2. \A p \in news : PostOK(p)'
    BY <1>2, <1>3, <1>4 DEF PostOK
  <2>3. timers' \in [Windows -> Nat]
    BY <1>0, <1>1 DEF Types
  <2> QED BY <1>0, <1>1, <1>2, <1>3, <2>1, <2>2, <2>3 DEF Types
<1>9. ASSUME NEW v \in Windows, v # w
      PROVE  Tracked(v)'
  <2>1. page'[v] = page[v] /\ local'[v] = local[v] /\ committing'[v] = committing[v]
          /\ timers'[v] = timers[v]
    BY <1>0, <1>1, <1>9 DEF Types
  <2>2. InFlight(v)' = InFlight(v)
    <3>1. \A p \in mine : p.win = w
      BY DEF InFlight, Own
    <3> QED BY <1>1, <1>4, <1>6, <1>9, <2>1, <3>1 DEF InFlight, Own
  <2>3. Tracked(v)
    BY DEF OutboxInv
  <2> QED BY <2>1, <2>2, <2>3 DEF Tracked, KeysOf, KeyOf
<1>10. Tracked(w)'
  <2>1. InFlight(w)' = news
    <3>1. \A p \in posts \ mine : ~(Own(w, p)' /\ p.heard)
      BY <1>0, <1>3 DEF Types, PostOK, InFlight, Own
    <3> QED BY <1>1, <1>3, <1>4, <1>6, <3>1 DEF InFlight, Own
  <2>2. local'[w] = s /\ committing'[w] = {ClientId(e) : e \in posted}
    BY <1>0, <1>1 DEF Types
  <2>3. committing'[w] = KeysOf(news)
    BY <1>4, <1>5, <2>2 DEF KeysOf, KeyOf
  <2>4. \A p1, p2 \in news : p1 = p2
    BY <1>4, <1>7
  <2>5. posted = {} \/ news # {}
    BY <1>5
  <2> QED BY <1>7, <2>1, <2>2, <2>3, <2>4, <2>5 DEF Tracked, KeysOf, KeyOf
<1> QED BY <1>2, <1>8, <1>9, <1>10 DEF OutboxInv

LEMMA StepKeeps ==
  ASSUME OutboxInv, [Next]_vars
  PROVE  OutboxInv'
<1>1. ASSUME UNCHANGED vars
      PROVE  OutboxInv'
  <2>1. SameWindows /\ UNCHANGED <<local, committing, posts, timers>>
    BY <1>1 DEF vars, SameWindows, OutboxInv, Types
  <2> QED BY <2>1, Untouched
<1>2. CASE \E k \in Keys : Serve(k)
  BY <1>2, ServingSteps
<1>3. ASSUME NEW w \in Windows, NEW k \in Keys, Answered(w, k)
      PROVE  OutboxInv'
  <2>1. PostsOf(k) \subseteq posts /\ DeletesOf(k) \subseteq deletes
    BY DEF PostsOf, DeletesOf
  <2> QED BY <1>3, <2>1, AnsweringSteps, RenderingSteps DEF Answered
<1>4. ASSUME NEW w \in Windows, Operator(w)
      PROVE  OutboxInv'
  <2>1. CASE \E q \in Qsos : LogContact(w, q)
    BY <2>1, RenderingSteps
  <2>2. CASE \E i \in DOMAIN local[w] : EditContact(w, i) \/ DeleteLocal(w, i)
    BY <2>2, RenderingSteps
  <2>3. CASE \/ \E i \in DOMAIN local[w] : DeleteCommitted(w, i)
             \/ Refresh(w)
             \/ \E f \in setup.filters : Search(w, f)
    BY <2>3, StayingSteps
  <2> QED BY <1>4, <2>1, <2>2, <2>3 DEF Operator
<1>5. ASSUME NEW w \in Windows, Network(w)
      PROVE  OutboxInv'
  BY <1>5, AnsweringSteps, StayingSteps, ReloadKeeps DEF Network
<1>6. ASSUME NEW w \in Windows, RetryTimer(w) \/ ServeLoad(w) \/ LoadReply(w) \/ Receive(w)
      PROVE  OutboxInv'
  BY <1>6, RenderingSteps, StayingSteps
<1>7. CASE Next
  BY <1>1, <1>2, <1>3, <1>4, <1>5, <1>6, <1>7 DEF Next, Quiescent
<1> QED BY <1>1, <1>7

LEMMA OutboxHolds == Spec => []OutboxInv
<1>1. Init => OutboxInv
  BY Initially
<1>2. OutboxInv /\ [Next]_vars => OutboxInv'
  BY StepKeeps
<1> QED BY <1>1, <1>2, PTL DEF Spec

-----------------------------------------------------------------------------
(* committingContactIdsRef has just the keys of the requests the window     *)
(* waits for, one request for each, and a contact that waits for its commit *)
(* has one of them, or a retry timer, to look at it again: so no answer,    *)
(* failure, event, reload or edit, in whatever order, commits a contact     *)
(* twice at a time or leaves it uncommitted for good (nextContactToCommit   *)
(* and the commit effect of useContactsOutbox.js).                          *)
THEOREM CommitsStayTracked == Spec => []CommitsAreTracked
<1>1. OutboxInv => CommitsAreTracked
  BY DEF OutboxInv, Tracked, KeysOf, KeyOf, CommitsAreTracked, OneCommitPerContact,
         PendingIsAwaited
<1> QED BY <1>1, OutboxHolds, PTL

-----------------------------------------------------------------------------
(* Nothing logged is lost.                                                  *)

Ids == RowIds \cup {NoId}
Senders == Windows \cup {NoWindow}
ContactData == [qso : Qsos, ver : Nat]

(* A contact without an id waits for its commit, or for the operator.       *)
Entries ==
  {e \in [id : Ids, status : {"Committed", "Pending", "Updating", "Failed"},
          data : ContactData, session : Senders] :
     e.id = NoId => e.status \in {"Pending", "Failed"}}

LogEntries == [type : {"log_entry"}, row : RowIds, data : ContactData, session : Senders]
Removals == [type : {"contact_deleted"}, row : RowIds, data : {NoRow}, session : {NoWindow}]
Messages == LogEntries \cup Removals

Posts == [win : Windows, page : Nat, entry : Entries, stage : {"sent", "stored", "answered"},
          row : Ids, rescored : Seq(LogEntries), heard : BOOLEAN]
Deletes == [win : Windows, page : Nat, row : RowIds,
            stage : {"sent", "removed", "answered", "refused"}]
Loads == [stage : {"none", "sent", "answered"}, found : Seq(Entries)]

DataTypes ==
  /\ env.setup \in Setups /\ IsEnv(env) /\ env.edits \in Nat
  /\ rows \in [RowIds -> ContactData \cup {NoRow}]
  /\ local \in [Windows -> Seq(Entries)]
  /\ saved \in [Browsers -> Seq(Entries)]
  /\ posts \subseteq Posts /\ deletes \subseteq Deletes
  /\ load \in [Windows -> Loads]
  /\ events \in [Windows -> Seq(Messages)]
  /\ page \in [Windows -> Nat]
  /\ logged \subseteq Qsos
  /\ inserts \in [Qsos -> Nat]

(* What the backend has stored of a new contact it has a row for.           *)
PostsStored ==
  \A p \in posts : p.stage # "sent" =>
    p.row \in RowIds /\ (p.entry.id = NoId => inserts[p.entry.data.qso] > 0)

(* The contacts of a list the database has given no id.                     *)
Unsent(s) == {e.data.qso : e \in {d \in ToSet(s) : d.id = NoId}}

(* They are saved, and a contact without a row is one of them.              *)
Survives ==
  OneWindowPerBrowser =>
    /\ \A w \in Windows : Unsent(local[w]) \subseteq Unsent(saved[setup.browserOf[w]])
    /\ \A q \in logged :
         q \in discarded \/ inserts[q] > 0 \/ \E w \in Windows : q \in Unsent(local[w])

SurvivalInv == DataTypes /\ PostsStored /\ Survives

-----------------------------------------------------------------------------
(* Lists.                                                                   *)

LEMMA LastExists ==
  ASSUME NEW S, S # {}, S \subseteq Int, NEW n \in Int, \A x \in S : x <= n
  PROVE  Max(S) \in S /\ \A x \in S : x <= Max(S)
<1> DEFINE Below == {n - x : x \in S}
<1>1. Below \subseteq Nat /\ Below # {}
  <2>1. \A x \in S : n - x \in Nat
    OBVIOUS
  <2> QED BY <2>1
<1>2. PICK d \in Below : \A c \in Below : d <= c
  <2> HIDE DEF Below
  <2> QED BY <1>1, LeastExists
<1>3. PICK x \in S : d = n - x
  OBVIOUS
<1>4. \A y \in S : x >= y
  <2>1. \A y \in S : n - x <= n - y
    BY <1>2, <1>3
  <2> QED BY <2>1
<1>5. Max(S) \in S /\ \A y \in S : Max(S) >= y
  BY <1>4 DEF Max
<1> QED BY <1>5

(* A set that has 0 and with each number the next one has them all.         *)
LEMMA Induction ==
  ASSUME NEW S, NEW k \in Nat, 0 \in S, \A n \in 0..(k - 1) : n \in S => n + 1 \in S
  PROVE  \A n \in 0..k : n \in S
<1> DEFINE Bad == {n \in Nat : n <= k /\ n \notin S}
<1>1. SUFFICES ASSUME Bad # {} PROVE FALSE
  OBVIOUS
<1>2. PICK n \in Bad : \A m \in Bad : n <= m
  <2>1. Bad \subseteq Nat
    OBVIOUS
  <2> HIDE DEF Bad
  <2> QED BY <1>1, <2>1, LeastExists
<1>3. n \in Nat /\ n <= k /\ n \notin S /\ n # 0
  BY <1>2
<1>4. n - 1 \in Nat /\ n - 1 \notin Bad
  BY <1>2, <1>3
<1>5. n - 1 \in S
  BY <1>3, <1>4
<1>6. n - 1 \in 0..(k - 1) /\ (n - 1) + 1 = n
  BY <1>3
<1> QED BY <1>3, <1>5, <1>6

LEMMA AppendedSet ==
  ASSUME NEW T, NEW s \in Seq(T), NEW x \in T
  PROVE  Append(s, x) \in Seq(T) /\ ToSet(Append(s, x)) = ToSet(s) \cup {x}
<1>1. /\ Append(s, x) \in Seq(T)
      /\ DOMAIN Append(s, x) = 1..(Len(s) + 1) /\ DOMAIN s = 1..Len(s) /\ Len(s) \in Nat
      /\ \A i \in 1..Len(s) : Append(s, x)[i] = s[i]
      /\ Append(s, x)[Len(s) + 1] = x
  OBVIOUS
<1>2. 1..(Len(s) + 1) = (1..Len(s)) \cup {Len(s) + 1}
  BY <1>1
<1> QED BY <1>1, <1>2 DEF ToSet

LEMMA JoinedSet ==
  ASSUME NEW T, NEW s \in Seq(T), NEW t \in Seq(T)
  PROVE  s \o t \in Seq(T) /\ ToSet(s \o t) = ToSet(s) \cup ToSet(t)
<1> DEFINE u == s \o t
<1>1. /\ u \in Seq(T) /\ Len(s) \in Nat /\ Len(t) \in Nat
      /\ DOMAIN u = 1..(Len(s) + Len(t)) /\ DOMAIN s = 1..Len(s) /\ DOMAIN t = 1..Len(t)
      /\ \A i \in 1..Len(s) : u[i] = s[i]
      /\ \A i \in 1..Len(t) : u[Len(s) + i] = t[i]
  OBVIOUS
<1>2. \A i \in 1..(Len(s) + Len(t)) :
        i \in 1..Len(s) \/ (i - Len(s) \in 1..Len(t) /\ i = Len(s) + (i - Len(s)))
  BY <1>1
<1>3. /\ \A i \in 1..Len(s) : i \in 1..(Len(s) + Len(t))
      /\ \A i \in 1..Len(t) : Len(s) + i \in 1..(Len(s) + Len(t))
  BY <1>1
<1> HIDE DEF u
<1>4. ToSet(u) = ToSet(s) \cup ToSet(t)
  <2>1. ASSUME NEW x \in ToSet(u) PROVE x \in ToSet(s) \cup ToSet(t)
    <3>1. PICK i \in 1..(Len(s) + Len(t)) : x = u[i]
      BY <1>1 DEF ToSet
    <3> QED BY <1>1, <1>2, <3>1 DEF ToSet
  <2>2. ASSUME NEW x \in ToSet(s) \cup ToSet(t) PROVE x \in ToSet(u)
    BY <1>1, <1>3 DEF ToSet
  <2> QED BY <2>1, <2>2
<1> QED BY <1>1, <1>4 DEF u

LEMMA KeptFunction ==
  ASSUME NEW s, NEW S, Len(s) \in Nat
  PROVE  \E f : /\ f = [i \in 0..Len(s) |->
                         IF i = 0 THEN <<>>
                         ELSE IF s[i] \in S THEN Append(f[i - 1], s[i]) ELSE f[i - 1]]
                /\ Kept(s, S) = f[Len(s)]
<1> DEFINE Is(f, n) == f = [i \in 0..n |->
                              IF i = 0 THEN <<>>
                              ELSE IF s[i] \in S THEN Append(f[i - 1], s[i]) ELSE f[i - 1]]
           Good == {n \in Nat : \E f : Is(f, n)}
           k == Len(s)
<1>1. 0 \in Good
  <2>1. Is([i \in 0..0 |-> <<>>], 0)
    OBVIOUS
  <2> QED BY <2>1
<1>2. ASSUME NEW n \in 0..(k - 1), n \in Good
      PROVE  n + 1 \in Good
  <2>1. PICK f : Is(f, n)
    BY <1>2
  <2> DEFINE m == n + 1
             last == IF s[m] \in S THEN Append(f[n], s[m]) ELSE f[n]
             g == [i \in 0..m |-> IF i = m THEN last ELSE f[i]]
  <2>2. m \in Nat /\ m - 1 = n /\ m # 0
    OBVIOUS
  <2>3. \A i \in 0..n : g[i] = f[i]
    BY <2>2
  <2>4. ASSUME NEW i \in 0..m
        PROVE  g[i] = IF i = 0 THEN <<>>
                      ELSE IF s[i] \in S THEN Append(g[i - 1], s[i]) ELSE g[i - 1]
    <3>1. CASE i = m
      BY <2>2, <2>3, <3>1
    <3>2. CASE i # m
      <4>1. i \in 0..n /\ (i # 0 => i - 1 \in 0..n)
        BY <3>2
      <4>2. f[i] = IF i = 0 THEN <<>>
                   ELSE IF s[i] \in S THEN Append(f[i - 1], s[i]) ELSE f[i - 1]
        BY <2>1, <4>1
      <4> QED BY <2>3, <4>1, <4>2
    <3> QED BY <3>1, <3>2
  <2>5. g = [i \in 0..m |-> g[i]]
    OBVIOUS
  <2>6. Is(g, m)
    <3> HIDE DEF g, m
    <3> QED BY <2>4, <2>5
  <2> QED BY <2>2, <2>6
<1>3. k \in Good
  <2>1. k \in Nat /\ k \in 0..k
    OBVIOUS
  <2> HIDE DEF Good, k
  <2> QED BY <1>1, <1>2, <2>1, Induction
<1>4. PICK f : Is(f, Len(s))
  BY <1>3
<1>5. \E g : Is(g, Len(s)) /\ Kept(s, S) = g[Len(s)]
  BY <1>4 DEF Kept
<1> QED BY <1>5

(* The elements of a list that are kept.                                    *)
LEMMA KeptElements ==
  ASSUME NEW T, NEW s \in Seq(T), NEW S
  PROVE  Kept(s, S) \in Seq(T) /\ ToSet(Kept(s, S)) = ToSet(s) \cap S
<1> DEFINE First(n) == {s[i] : i \in 1..n}
<1>1. PICK f : /\ f = [i \in 0..Len(s) |->
                        IF i = 0 THEN <<>>
                        ELSE IF s[i] \in S THEN Append(f[i - 1], s[i]) ELSE f[i - 1]]
               /\ Kept(s, S) = f[Len(s)]
  <2>1. Len(s) \in Nat
    OBVIOUS
  <2> QED BY <2>1, KeptFunction
<1> DEFINE Good == {n \in Nat : f[n] \in Seq(T) /\ ToSet(f[n]) = First(n) \cap S}
           k == Len(s)
<1>2. 0 \in Good
  <2>1. f[0] = <<>>
    BY <1>1
  <2>2. f[0] \in Seq(T) /\ ToSet(f[0]) = {} /\ First(0) = {}
    BY <2>1 DEF ToSet
  <2> QED BY <2>2
<1>3. ASSUME NEW n \in 0..(k - 1), n \in Good
      PROVE  n + 1 \in Good
  <2> DEFINE m == n + 1
  <2>1. m \in 1..k /\ m \in 0..k /\ m # 0 /\ m - 1 = n /\ m \in Nat /\ s[m] \in T
    OBVIOUS
  <2>2. f[m] = IF s[m] \in S THEN Append(f[n], s[m]) ELSE f[n]
    BY <1>1, <2>1
  <2>3. First(m) = First(n) \cup {s[m]}
    <3>1. 1..m = (1..n) \cup {m}
      BY <2>1
    <3> QED BY <3>1
  <2>4. f[n] \in Seq(T) /\ ToSet(f[n]) = First(n) \cap S
    BY <1>3
  <2> HIDE DEF First, m
  <2>5. CASE s[m] \in S
    <3>1. f[m] \in Seq(T) /\ ToSet(f[m]) = ToSet(f[n]) \cup {s[m]}
      BY <2>1, <2>2, <2>4, <2>5, AppendedSet
    <3> QED BY <2>1, <2>3, <2>4, <2>5, <3>1
  <2>6. CASE s[m] \notin S
    BY <2>1, <2>2, <2>3, <2>4, <2>6
  <2>7. m \in Good
    BY <2>1, <2>5, <2>6
  <2> QED BY <2>7 DEF m
<1>4. k \in Good
  <2>1. k \in Nat /\ k \in 0..k
    OBVIOUS
  <2> HIDE DEF Good, k
  <2> QED BY <1>2, <1>3, <2>1, Induction
<1>5. First(k) = ToSet(s)
  BY DEF ToSet
<1> QED BY <1>1, <1>4, <1>5

LEMMA SortFunction ==
  ASSUME NEW s, Len(Newest) \in Nat
  PROVE  \E f : /\ f = [i \in 0..Len(Newest) |->
                         IF i = 0 THEN <<>> ELSE f[i - 1] \o OfQso(s, Newest[i])]
                /\ SortContacts(s) = f[Len(Newest)]
<1> DEFINE Is(f, n) == f = [i \in 0..n |->
                              IF i = 0 THEN <<>> ELSE f[i - 1] \o OfQso(s, Newest[i])]
           Good == {n \in Nat : \E f : Is(f, n)}
           k == Len(Newest)
<1>1. 0 \in Good
  <2>1. Is([i \in 0..0 |-> <<>>], 0)
    OBVIOUS
  <2> QED BY <2>1
<1>2. ASSUME NEW n \in 0..(k - 1), n \in Good
      PROVE  n + 1 \in Good
  <2>1. PICK f : Is(f, n)
    BY <1>2
  <2> DEFINE m == n + 1
             g == [i \in 0..m |-> IF i = m THEN f[n] \o OfQso(s, Newest[m]) ELSE f[i]]
  <2>2. m \in Nat /\ m - 1 = n /\ m # 0
    OBVIOUS
  <2>3. \A i \in 0..n : g[i] = f[i]
    BY <2>2
  <2>4. ASSUME NEW i \in 0..m
        PROVE  g[i] = IF i = 0 THEN <<>> ELSE g[i - 1] \o OfQso(s, Newest[i])
    <3>1. CASE i = m
      BY <2>2, <2>3, <3>1
    <3>2. CASE i # m
      <4>1. i \in 0..n /\ (i # 0 => i - 1 \in 0..n)
        BY <3>2
      <4>2. f[i] = IF i = 0 THEN <<>> ELSE f[i - 1] \o OfQso(s, Newest[i])
        BY <2>1, <4>1
      <4> QED BY <2>3, <4>1, <4>2
    <3> QED BY <3>1, <3>2
  <2>5. g = [i \in 0..m |-> g[i]]
    OBVIOUS
  <2>6. Is(g, m)
    <3> HIDE DEF g, m
    <3> QED BY <2>4, <2>5
  <2> QED BY <2>2, <2>6
<1>3. k \in Good
  <2>1. k \in Nat /\ k \in 0..k
    OBVIOUS
  <2> HIDE DEF Good, k
  <2> QED BY <1>1, <1>2, <2>1, Induction
<1>4. PICK f : Is(f, Len(Newest))
  BY <1>3
<1>5. \E g : Is(g, Len(Newest)) /\ SortContacts(s) = g[Len(Newest)]
  BY <1>4 DEF SortContacts
<1> QED BY <1>5

(* Sorting loses no contact and makes none.                                 *)
LEMMA SortedElements ==
  ASSUME Newest \in Seq(Qsos), NEW T, NEW s \in Seq(T), \A e \in T : e.data.qso \in Qsos
  PROVE  SortContacts(s) \in Seq(T) /\ ToSet(SortContacts(s)) = ToSet(s)
<1> DEFINE First(n) == {e \in ToSet(s) : \E i \in 1..n : e.data.qso = Newest[i]}
           k == Len(Newest)
<1>1. PICK f : /\ f = [i \in 0..Len(Newest) |->
                         IF i = 0 THEN <<>> ELSE f[i - 1] \o OfQso(s, Newest[i])]
               /\ SortContacts(s) = f[Len(Newest)]
  <2>1. Len(Newest) \in Nat
    OBVIOUS
  <2> QED BY <2>1, SortFunction
<1> DEFINE Good == {n \in Nat : f[n] \in Seq(T) /\ ToSet(f[n]) = First(n)}
<1>2. 0 \in Good
  <2>1. f[0] = <<>>
    BY <1>1
  <2>2. f[0] \in Seq(T) /\ ToSet(f[0]) = {} /\ First(0) = {}
    BY <2>1 DEF ToSet
  <2> QED BY <2>2
<1>3. ASSUME NEW n \in 0..(k - 1), n \in Good
      PROVE  n + 1 \in Good
  <2> DEFINE m == n + 1
             t == OfQso(s, Newest[m])
  <2>1. m \in 1..k /\ m \in 0..k /\ m # 0 /\ m - 1 = n /\ m \in Nat
    OBVIOUS
  <2>2. f[m] = f[n] \o t
    BY <1>1, <2>1
  <2>3. t \in Seq(T) /\ ToSet(t) = {e \in ToSet(s) : e.data.qso = Newest[m]}
    BY KeptElements DEF OfQso
  <2>4. f[n] \in Seq(T) /\ ToSet(f[n]) = First(n)
    BY <1>3
  <2>5. 1..m = (1..n) \cup {m}
    BY <2>1
  <2> HIDE DEF t, m
  <2>6. f[m] \in Seq(T) /\ ToSet(f[m]) = ToSet(f[n]) \cup ToSet(t)
    BY <2>2, <2>3, <2>4, JoinedSet
  <2>7. First(m) = First(n) \cup {e \in ToSet(s) : e.data.qso = Newest[m]}
    BY <2>5
  <2>8. m \in Good
    <3> HIDE DEF First
    <3> QED BY <2>1, <2>3, <2>4, <2>6, <2>7
  <2> QED BY <2>8 DEF m
<1>4. k \in Good
  <2>1. k \in Nat /\ k \in 0..k
    OBVIOUS
  <2> HIDE DEF Good, k
  <2> QED BY <1>2, <1>3, <2>1, Induction
<1>5. First(k) = ToSet(s)
  <2>1. \A e \in ToSet(s) : e \in T
    BY DEF ToSet
  <2>2. \A q \in Qsos : \E i \in 1..k : q = Newest[i]
    BY DEF Qsos, ToSet
  <2> QED BY <2>1, <2>2
<1> QED BY <1>1, <1>4, <1>5

-----------------------------------------------------------------------------
(* What the operations on a list do to the contacts without a row.          *)

WorldOK ==
  /\ Newest \in Seq(Qsos) /\ NoId \notin Nat
  /\ \A q \in Qsos : q \notin Nat /\ q # NoId
  /\ setup.rows \in Nat \ {0} /\ setup.edits \in Nat

LEMMA WorldIsOK ==
  ASSUME env.setup \in Setups
  PROVE  WorldOK
<1>1. IsSetup(setup)
  BY OutboxAssumption DEF setup
<1>2. Newest \in Seq(Qsos) /\ \A q \in Qsos : q \notin Nat /\ q # NoId
  BY <1>1 DEF IsSetup, Newest, Qsos
<1>3. setup.rows \in Nat \ {0} /\ setup.edits \in Nat
  BY <1>1 DEF IsSetup
<1> QED BY <1>2, <1>3, OutboxAssumption DEF WorldOK

LEMMA EntryIs ==
  ASSUME WorldOK, NEW id \in RowIds, NEW data \in ContactData, NEW session \in Senders
  PROVE  Entry(id, "Committed", data, session) \in Entries
BY DEF WorldOK, Entry, Entries, Ids, RowIds

LEMMA SortKeeps ==
  ASSUME WorldOK, NEW s \in Seq(Entries)
  PROVE  /\ SortContacts(s) \in Seq(Entries) /\ ToSet(SortContacts(s)) = ToSet(s)
         /\ Unsent(SortContacts(s)) = Unsent(s)
<1>1. \A e \in Entries : e.data.qso \in Qsos
  BY DEF Entries, ContactData
<1>2. SortContacts(s) \in Seq(Entries) /\ ToSet(SortContacts(s)) = ToSet(s)
  BY <1>1, SortedElements DEF WorldOK
<1> QED BY <1>2 DEF Unsent

(* The fields of the contacts change, but not what they are.                *)
LEMMA MapKeeps ==
  ASSUME NEW s \in Seq(Entries), NEW t, t = [i \in DOMAIN s |-> t[i]],
         \A i \in DOMAIN s : /\ t[i] \in Entries /\ t[i].id = s[i].id
                             /\ t[i].data.qso = s[i].data.qso
  PROVE  t \in Seq(Entries) /\ Unsent(t) = Unsent(s)
<1>1. DOMAIN s = 1..Len(s) /\ Len(s) \in Nat
  OBVIOUS
<1>2. t \in Seq(Entries) /\ DOMAIN t = DOMAIN s
  BY <1>1
<1>3. ASSUME NEW q \in Unsent(t)
      PROVE  q \in Unsent(s)
  <2>1. PICK i \in DOMAIN t : t[i].id = NoId /\ q = t[i].data.qso
    BY DEF Unsent, ToSet
  <2>2. s[i] \in ToSet(s) /\ s[i].id = NoId /\ q = s[i].data.qso
    BY <1>2, <2>1 DEF ToSet
  <2> QED BY <2>2 DEF Unsent
<1>4. ASSUME NEW q \in Unsent(s)
      PROVE  q \in Unsent(t)
  <2>1. PICK i \in DOMAIN s : s[i].id = NoId /\ q = s[i].data.qso
    BY DEF Unsent, ToSet
  <2>2. t[i] \in ToSet(t) /\ t[i].id = NoId /\ q = t[i].data.qso
    BY <1>2, <2>1 DEF ToSet
  <2> QED BY <2>2 DEF Unsent
<1> QED BY <1>2, <1>3, <1>4

LEMMA FailedKeeps ==
  ASSUME WorldOK, NEW s \in Seq(Entries), NEW e
  PROVE  MarkContactFailed(s, e) \in Seq(Entries) /\ Unsent(MarkContactFailed(s, e)) = Unsent(s)
<1> DEFINE t == [i \in DOMAIN s |->
                   IF SameContact(s[i], e) THEN [s[i] EXCEPT !.status = "Failed"] ELSE s[i]]
<1>1. \A d \in Entries : /\ [d EXCEPT !.status = "Failed"] \in Entries
                         /\ [d EXCEPT !.status = "Failed"].id = d.id
                         /\ [d EXCEPT !.status = "Failed"].data = d.data
  BY DEF Entries
<1>2. \A i \in DOMAIN s : s[i] \in Entries
  OBVIOUS
<1>3. \A i \in DOMAIN s : t[i] \in Entries /\ t[i].id = s[i].id /\ t[i].data.qso = s[i].data.qso
  BY <1>1, <1>2
<1>4. t = [i \in DOMAIN s |-> t[i]]
  OBVIOUS
<1>5. MarkContactFailed(s, e) = SortContacts(t)
  BY DEF MarkContactFailed
<1> HIDE DEF t
<1>6. t \in Seq(Entries) /\ Unsent(t) = Unsent(s)
  BY <1>3, <1>4, MapKeeps
<1> QED BY <1>5, <1>6, SortKeeps

LEMMA SavedKeeps ==
  ASSUME NEW s \in Seq(Entries)
  PROVE  SavedContacts(s) \in Seq(Entries) /\ Unsent(s) \subseteq Unsent(SavedContacts(s))
<1>1. /\ SavedContacts(s) \in Seq(Entries)
      /\ ToSet(SavedContacts(s)) = ToSet(s) \cap {e \in ToSet(s) : Persisted(e)}
  BY KeptElements DEF SavedContacts
<1>2. \A e \in ToSet(s) : e.id = NoId => Persisted(e)
  BY DEF ToSet, Entries, Persisted, Uncommitted
<1> QED BY <1>1, <1>2 DEF Unsent

LEMMA WithoutKeeps ==
  ASSUME WorldOK, NEW s \in Seq(Entries), NEW id \in RowIds
  PROVE  Without(s, id) \in Seq(Entries) /\ Unsent(s) \subseteq Unsent(Without(s, id))
<1>1. /\ Without(s, id) \in Seq(Entries)
      /\ ToSet(Without(s, id)) = ToSet(s) \cap {e \in ToSet(s) : e.id # id}
  BY KeptElements DEF Without
<1>2. id # NoId
  BY DEF WorldOK, RowIds
<1> QED BY <1>1, <1>2 DEF Unsent

LEMMA WithoutClientKeeps ==
  ASSUME NEW s \in Seq(Entries), NEW key
  PROVE  /\ WithoutClient(s, key) \in Seq(Entries)
         /\ Unsent(s) \ {key} \subseteq Unsent(WithoutClient(s, key))
<1>1. /\ WithoutClient(s, key) \in Seq(Entries)
      /\ ToSet(WithoutClient(s, key)) = ToSet(s) \cap {e \in ToSet(s) : ClientId(e) # key}
  BY KeptElements DEF WithoutClient
<1> QED BY <1>1 DEF Unsent, ClientId

LEMMA ResetKeeps ==
  ASSUME WorldOK, NEW s \in Seq(Entries), NEW fresh \in Seq(Entries)
  PROVE  MergeResetPage(s, fresh) \in Seq(Entries) /\ Unsent(s) \subseteq Unsent(MergeResetPage(s, fresh))
<1> DEFINE t == fresh \o SavedContacts(s)
<1>1. t \in Seq(Entries) /\ ToSet(t) = ToSet(fresh) \cup ToSet(SavedContacts(s))
  BY SavedKeeps, JoinedSet
<1>2. MergeResetPage(s, fresh) = SortContacts(t)
  BY DEF MergeResetPage
<1> HIDE DEF t
<1>3. Unsent(SavedContacts(s)) \subseteq Unsent(t)
  BY <1>1 DEF Unsent
<1> QED BY <1>1, <1>2, <1>3, SavedKeeps, SortKeeps

(* An answer gives its contact an id, an event none of those without one.   *)
LEMMA MergeKeeps ==
  ASSUME WorldOK, NEW s \in Seq(Entries), NEW key, NEW id \in RowIds,
         NEW data \in ContactData, NEW session \in Senders
  PROVE  /\ MergeContact(s, key, id, data, session) \in Seq(Entries)
         /\ Unsent(s) \ {key} \subseteq Unsent(MergeContact(s, key, id, data, session))
<1> DEFINE matching == {i \in DOMAIN s : IF s[i].id # NoId THEN s[i].id = id
                                         ELSE s[i].data.qso = key}
           merged(old) == Entry(id, "Committed", data, IF session = NoWindow THEN old ELSE session)
           m == Min(matching)
           x == merged(s[m].session)
           t == IF matching = {} THEN Append(s, merged(NoWindow))
                ELSE [s EXCEPT ![m] = x]
<1>1. MergeContact(s, key, id, data, session) = SortContacts(t)
  BY DEF MergeContact
<1>2. \A old \in Senders : merged(old) \in Entries
  BY EntryIs
<1>3. NoWindow \in Senders /\ DOMAIN s = 1..Len(s) /\ Len(s) \in Nat
  BY DEF Senders
<1>4. t \in Seq(Entries) /\ Unsent(s) \ {key} \subseteq Unsent(t)
  <2>1. CASE matching = {}
    <3>1. t = Append(s, merged(NoWindow)) /\ merged(NoWindow) \in Entries
      BY <1>2, <1>3, <2>1
    <3> HIDE DEF t, merged
    <3>2. t \in Seq(Entries) /\ ToSet(s) \subseteq ToSet(t)
      BY <3>1, AppendedSet
    <3> QED BY <3>2 DEF Unsent
  <2>2. CASE matching # {}
    <3>1. m \in matching
      <4>1. \A i \in matching : i \in Int /\ i >= 1
        BY <1>3
      <4> HIDE DEF matching
      <4> QED BY <2>2, <4>1, FirstExists
    <3>2. m \in DOMAIN s /\ s[m] \in Entries
      BY <3>1
    <3>3. x \in Entries
      <4>1. s[m].session \in Senders
        BY <3>2 DEF Entries
      <4> QED BY <1>2, <4>1
    <3>4. s[m].id = NoId => s[m].data.qso = key
      BY <3>1
    <3>5. t = [s EXCEPT ![m] = x]
      BY <2>2
    <3> HIDE DEF t, x, m, matching, merged
    <3>6. t \in Seq(Entries) /\ DOMAIN t = DOMAIN s /\ \A i \in DOMAIN s : i # m => t[i] = s[i]
      BY <3>2, <3>3, <3>5
    <3>7. \A q : q # key /\ (\E e \in ToSet(s) : e.id = NoId /\ e.data.qso = q)
                  => \E e \in ToSet(t) : e.id = NoId /\ e.data.qso = q
      <4> SUFFICES ASSUME NEW q, q # key, NEW e \in ToSet(s), e.id = NoId, e.data.qso = q
                   PROVE  e \in ToSet(t)
        OBVIOUS
      <4>1. PICK i \in DOMAIN s : e = s[i]
        BY DEF ToSet
      <4>2. i # m
        BY <3>4, <4>1
      <4> QED BY <3>6, <4>1, <4>2 DEF ToSet
    <3> QED BY <3>6, <3>7 DEF Unsent
  <2> QED BY <2>1, <2>2
<1> HIDE DEF t
<1> QED BY <1>1, <1>4, SortKeeps

(* A contact that is posted is one of the list.                             *)
LEMMA NextIsListed ==
  ASSUME NEW s \in Seq(Entries), NEW held
  PROVE  NextToCommit(s, held) \subseteq Entries
<1> DEFINE found == ToCommit(s, held)
<1>1. \A i \in found : i \in 1..Len(s) /\ i \in Int /\ i >= 1
  BY DEF ToCommit
<1>2. CASE found = {}
  BY <1>2 DEF NextToCommit
<1>3. CASE found # {}
  <2>1. Min(found) \in found
    <3> HIDE DEF found
    <3> QED BY <1>1, <1>3, FirstExists
  <2>2. NextToCommit(s, held) = {s[Min(found)]}
    BY <1>3 DEF NextToCommit
  <2>3. s[Min(found)] \in Entries
    <3> HIDE DEF found
    <3> QED BY <1>1, <2>1
  <2> QED BY <2>2, <2>3
<1> QED BY <1>2, <1>3

-----------------------------------------------------------------------------
(* The parts of the steps, again.                                           *)

SameWorld == env'.setup = env.setup /\ IsEnv(env') /\ env'.edits \in Nat

LEMMA WorldStays ==
  ASSUME SameWorld
  PROVE  /\ setup' = setup /\ Windows' = Windows /\ Browsers' = Browsers /\ Qsos' = Qsos
         /\ RowIds' = RowIds /\ Senders' = Senders /\ ContactData' = ContactData
         /\ Entries' = Entries /\ LogEntries' = LogEntries /\ Messages' = Messages
         /\ Posts' = Posts /\ Deletes' = Deletes /\ Loads' = Loads
         /\ OneWindowPerBrowser' = OneWindowPerBrowser
<1>1. setup' = setup
  BY DEF SameWorld, setup
<1>2. /\ Windows' = Windows /\ Browsers' = Browsers /\ RowIds' = RowIds /\ Newest' = Newest
      /\ OneWindowPerBrowser' = OneWindowPerBrowser
  BY <1>1 DEF Windows, Browsers, RowIds, Newest, OneWindowPerBrowser
<1>3. Qsos' = Qsos /\ Ids' = Ids /\ Senders' = Senders
  BY <1>2 DEF Qsos, Ids, Senders
<1>4. ContactData' = ContactData
  BY <1>3 DEF ContactData
<1>5. Entries' = Entries /\ LogEntries' = LogEntries
  BY <1>2, <1>3, <1>4 DEF Entries, LogEntries
<1>6. Messages' = Messages
  BY <1>2, <1>5 DEF Messages, Removals
<1>7. Posts' = Posts /\ Deletes' = Deletes /\ Loads' = Loads
  BY <1>2, <1>3, <1>5 DEF Posts, Deletes, Loads
<1> QED BY <1>1, <1>2, <1>3, <1>4, <1>5, <1>6, <1>7

(* Nothing is typed and no list changes; rows are made, requests go on.     *)
LEMMA ListsStay ==
  ASSUME SurvivalInv, SameWorld, UNCHANGED <<local, saved, logged>>, discarded \subseteq discarded',
         rows' \in [RowIds -> ContactData \cup {NoRow}],
         posts' \subseteq Posts, deletes' \subseteq Deletes, load' \in [Windows -> Loads],
         events' \in [Windows -> Seq(Messages)], page' \in [Windows -> Nat],
         inserts' \in [Qsos -> Nat], \A q \in Qsos : inserts'[q] >= inserts[q],
         \A p \in posts' : p.stage # "sent" =>
           p.row \in RowIds /\ (p.entry.id = NoId => inserts'[p.entry.data.qso] > 0)
  PROVE  SurvivalInv'
<1>1. DataTypes /\ Survives
  BY DEF SurvivalInv
<1>2. DataTypes'
  BY <1>1, WorldStays DEF DataTypes, SameWorld
<1>3. PostsStored'
  BY WorldStays DEF PostsStored
<1>4. Survives'
  <2>1. \A q \in logged : inserts[q] > 0 => inserts'[q] > 0
    BY <1>1 DEF DataTypes
  <2> QED BY <1>1, <2>1, WorldStays DEF Survives
<1> QED BY <1>2, <1>3, <1>4 DEF SurvivalInv

(* A turn that ends with the list s, from which no contact is missing that  *)
(* neither is discarded nor has a row.                                      *)
LEMMA TurnSaves ==
  ASSUME SurvivalInv, SameWorld, NEW w \in Windows, NEW s \in Seq(Entries), NEW ended, NEW others,
         Turn(w, s, ended, others), others \subseteq posts,
         UNCHANGED <<rows, inserts, page>>, deletes' \subseteq deletes,
         load' \in [Windows -> Loads], events' \in [Windows -> Seq(Messages)],
         discarded \subseteq discarded',
         logged' \subseteq logged \cup Unsent(s), logged' \subseteq Qsos,
         \A q \in Unsent(local[w]) : q \in Unsent(s) \/ q \in discarded' \/ inserts[q] > 0
  PROVE  SurvivalInv'
<1> DEFINE posted == NextToCommit(s, committing[w] \ ended)
           news == {Post(w, e) : e \in posted}
           b == setup.browserOf[w]
           kept == SavedContacts(s)
<1>1. DataTypes /\ PostsStored /\ Survives
  BY DEF SurvivalInv
<1>2. /\ local' = [local EXCEPT ![w] = s] /\ saved' = [saved EXCEPT ![b] = kept]
      /\ posts' = others \cup news
  BY DEF Turn
<1>3. kept \in Seq(Entries) /\ Unsent(s) \subseteq Unsent(kept)
  BY SavedKeeps
<1>4. \A p \in news : p \in Posts /\ p.stage = "sent"
  <2>1. posted \subseteq Entries
    BY NextIsListed
  <2>2. ASSUME NEW e \in Entries
        PROVE  Post(w, e) \in Posts /\ Post(w, e).stage = "sent"
    <3>1. e.id \in Ids
      BY DEF Entries
    <3>2. page[w] \in Nat
      BY <1>1 DEF DataTypes
    <3>3. <<>> \in Seq(LogEntries)
      OBVIOUS
    <3> QED BY <3>1, <3>2, <3>3 DEF Post, Posts
  <2> HIDE DEF posted
  <2> QED BY <2>1, <2>2
<1>5. b \in Browsers
  BY DEF b, Browsers, Range, Windows
<1> HIDE DEF posted, news, b, kept
<1>6. DataTypes'
  <2>1. local' \in [Windows -> Seq(Entries)] /\ saved' \in [Browsers -> Seq(Entries)]
    BY <1>1, <1>2, <1>3 DEF DataTypes
  <2>2. posts' \subseteq Posts /\ deletes' \subseteq Deletes
    BY <1>1, <1>2, <1>4 DEF DataTypes
  <2> QED BY <1>1, <2>1, <2>2, WorldStays DEF DataTypes, SameWorld
<1>7. PostsStored'
  BY <1>1, <1>2, <1>4, WorldStays DEF PostsStored
<1>8. Survives'
  <2> SUFFICES ASSUME OneWindowPerBrowser
               PROVE  /\ \A v \in Windows : Unsent(local'[v]) \subseteq Unsent(saved'[setup.browserOf[v]])
                      /\ \A q \in logged' :
                           q \in discarded' \/ inserts'[q] > 0 \/ \E v \in Windows : q \in Unsent(local'[v])
    BY WorldStays DEF Survives
  <2>1. \A v \in Windows \ {w} : local'[v] = local[v]
    BY <1>1, <1>2 DEF DataTypes
  <2>2. \A v \in Windows \ {w} : setup.browserOf[v] # b /\ setup.browserOf[v] \in Browsers
    BY DEF OneWindowPerBrowser, IsInjective, Windows, b, Browsers, Range
  <2>3. local'[w] = s /\ saved'[b] = kept
    BY <1>1, <1>2, <1>5 DEF DataTypes
  <2>4. ASSUME NEW v \in Windows
        PROVE  Unsent(local'[v]) \subseteq Unsent(saved'[setup.browserOf[v]])
    <3>1. CASE v = w
      BY <1>3, <2>3, <3>1 DEF b
    <3>2. CASE v # w
      <4>1. saved'[setup.browserOf[v]] = saved[setup.browserOf[v]]
        BY <1>1, <1>2, <2>2, <3>2 DEF DataTypes
      <4> QED BY <1>1, <2>1, <3>2, <4>1 DEF Survives
    <3> QED BY <3>1, <3>2
  <2>5. ASSUME NEW q \in logged'
        PROVE  q \in discarded' \/ inserts'[q] > 0 \/ \E v \in Windows : q \in Unsent(local'[v])
    <3>1. CASE q \in Unsent(s)
      BY <2>3, <3>1
    <3>2. CASE q \notin Unsent(s)
      <4>1. q \in logged
        BY <2>5, <3>2
      <4>2. CASE \E v \in Windows : q \in Unsent(local[v])
        <5>1. PICK v \in Windows : q \in Unsent(local[v])
          BY <4>2
        <5> QED BY <2>1, <3>2, <5>1
      <4> QED BY <1>1, <4>1, <4>2 DEF Survives
    <3> QED BY <3>1, <3>2
  <2> QED BY <2>4, <2>5
<1> QED BY <1>6, <1>7, <1>8 DEF SurvivalInv

LEMMA SurvivalInitially ==
  ASSUME Init
  PROVE  SurvivalInv
<1>1. PICK world \in Setups : InitIn(world)
  BY DEF Init
<1>2. /\ env = [setup |-> world, edits |-> 0, losses |-> 0, refreshes |-> 0]
      /\ rows = [r \in 1..world.rows |-> NoRow]
      /\ local = [w \in DOMAIN world.browserOf |-> <<>>]
      /\ saved = [b \in Range(world.browserOf) |-> <<>>]
      /\ posts = {} /\ deletes = {}
      /\ load = [w \in DOMAIN world.browserOf |-> Loading]
      /\ events = [w \in DOMAIN world.browserOf |-> <<>>]
      /\ page = [w \in DOMAIN world.browserOf |-> 0]
      /\ logged = {}
      /\ inserts = [q \in ToSet(world.newest) |-> 0]
  BY <1>1 DEF InitIn
<1>3. /\ setup = world /\ Windows = DOMAIN world.browserOf /\ Browsers = Range(world.browserOf)
      /\ Qsos = ToSet(world.newest) /\ RowIds = 1..world.rows /\ env.setup \in Setups
  BY <1>2 DEF Windows, Browsers, setup, Qsos, Newest, RowIds
<1>4. WorldOK
  BY <1>3, WorldIsOK
<1>5. DataTypes
  <2>1. Loading \in Loads
    BY DEF Loads, Loading
  <2>3. IsEnv(env) /\ env.edits \in Nat
    BY <1>2 DEF IsEnv
  <2> QED BY <1>2, <1>3, <2>1, <2>3 DEF DataTypes
<1>6. PostsStored
  BY <1>2 DEF PostsStored
<1>7. Survives
  <2>1. Unsent(<<>>) = {}
    BY DEF Unsent, ToSet
  <2>2. \A w \in Windows : local[w] = <<>>
    BY <1>2, <1>3
  <2> QED BY <1>2, <2>1, <2>2 DEF Survives
<1> QED BY <1>5, <1>6, <1>7 DEF SurvivalInv

LEMMA BroadcastOf ==
  ASSUME NEW T, setup.backlog \in Nat \ {0}, events \in [Windows -> Seq(T)],
         NEW messages \in Seq(T), Broadcast(messages)
  PROVE  events' \in [Windows -> Seq(T)]
<1>1. \A s \in Seq(T) : Latest(s) \in Seq(T)
  <2> SUFFICES ASSUME NEW s \in Seq(T) PROVE Latest(s) \in Seq(T)
    OBVIOUS
  <2>1. CASE Len(s) <= setup.backlog
    BY <2>1 DEF Latest
  <2>2. CASE ~(Len(s) <= setup.backlog)
    <3> DEFINE first == Len(s) - setup.backlog + 1
    <3>1. first \in 1..(Len(s) + 1) /\ first >= 1 /\ Len(s) \in Nat
      BY <2>2
    <3>2. \A i \in first..Len(s) : s[i] \in T
      BY <3>1
    <3>3. SubSeq(s, first, Len(s)) \in Seq(T)
      <4> HIDE DEF first
      <4> QED BY <3>1, <3>2
    <3> QED BY <2>2, <3>3 DEF Latest
  <2> QED BY <2>1, <2>2
<1>2. \A w \in Windows :
        Latest(events[w] \o Kept(messages, {m \in ToSet(messages) : m.session # w})) \in Seq(T)
  <2> SUFFICES ASSUME NEW w \in Windows
               PROVE  Latest(events[w] \o Kept(messages, {m \in ToSet(messages) : m.session # w}))
                        \in Seq(T)
    OBVIOUS
  <2>1. Kept(messages, {m \in ToSet(messages) : m.session # w}) \in Seq(T)
    BY KeptElements
  <2> QED BY <1>1, <2>1, JoinedSet
<1> HIDE DEF Latest
<1> QED BY <1>2 DEF Broadcast

LEMMA BroadcastTypes ==
  ASSUME SurvivalInv, NEW messages \in Seq(Messages), Broadcast(messages)
  PROVE  events' \in [Windows -> Seq(Messages)]
<1>1. events \in [Windows -> Seq(Messages)] /\ setup.backlog \in Nat \ {0}
  BY OutboxAssumption DEF SurvivalInv, DataTypes, IsSetup, setup
<1> QED BY <1>1, BroadcastOf

(* A new contact is given a row that is free.                               *)
LEMMA InsertRowIsFree ==
  ASSUME SurvivalInv, InsertRow \in RowIds
  PROVE  rows[InsertRow] = NoRow
<1> DEFINE S == {0} \cup {r \in RowIds : rows[r] # NoRow}
<1>1. WorldOK
  BY WorldIsOK DEF SurvivalInv, DataTypes
<1>2. setup.rows \in Nat /\ RowIds = 1..setup.rows
  BY <1>1 DEF WorldOK, RowIds
<1>3. S \subseteq Int /\ S # {} /\ \A x \in S : x <= setup.rows
  BY <1>2
<1>4. InsertRow = Max(S) + 1
  BY DEF InsertRow
<1>5. Max(S) \in S /\ \A x \in S : x <= Max(S)
  <2>1. setup.rows \in Int
    BY <1>2
  <2> HIDE DEF S
  <2> QED BY <1>3, <2>1, LastExists
<1>6. Max(S) \in Int /\ ~(Max(S) + 1 <= Max(S))
  BY <1>3, <1>5
<1> QED BY <1>4, <1>5, <1>6

LEMMA StoreSaves ==
  ASSUME SurvivalInv, NEW p \in posts, StorePost(p)
  PROVE  SurvivalInv'
<1> DEFINE r == StoreRow(p)
           q == p.entry.data.qso
<1>1. WorldOK /\ DataTypes /\ PostsStored
  BY WorldIsOK DEF SurvivalInv, DataTypes
<1>2. p \in Posts /\ p.entry \in Entries /\ p.entry.data \in ContactData /\ q \in Qsos
  BY <1>1 DEF DataTypes, Posts, Entries, ContactData
<1>3. r \in RowIds /\ p.stage = "sent"
      /\ rows' = [rows EXCEPT ![r] = p.entry.data]
      /\ inserts' = IF rows[r] = NoRow THEN [inserts EXCEPT ![q] = @ + 1] ELSE inserts
  BY DEF StorePost
<1>4. PICK S \in Rescored(r) :
        posts' = (posts \ {p}) \cup {[p EXCEPT !.stage = "stored", !.row = r, !.rescored = S]}
  BY DEF StorePost
<1>5. S \in Seq(LogEntries)
  <2>1. \A s \in RowIds : rows[s] # NoRow => LogEntry(s, rows[s], NoWindow) \in LogEntries
    BY <1>1 DEF DataTypes, LogEntry, LogEntries, Senders
  <2>2. S = <<>> \/ \E s \in RowIds : rows[s] # NoRow /\ S = <<LogEntry(s, rows[s], NoWindow)>>
    BY DEF Rescored
  <2>3. \A x \in LogEntries : <<x>> \in Seq(LogEntries)
    OBVIOUS
  <2>4. <<>> \in Seq(LogEntries)
    OBVIOUS
  <2> QED BY <2>1, <2>2, <2>3, <2>4
<1> DEFINE n == [p EXCEPT !.stage = "stored", !.row = r, !.rescored = S]
<1>6. n \in Posts /\ n.entry = p.entry /\ n.row = r
  <2> HIDE DEF r
  <2> QED BY <1>2, <1>3, <1>5 DEF Posts, Ids
<1>7. /\ inserts' \in [Qsos -> Nat] /\ \A x \in Qsos : inserts'[x] >= inserts[x]
      /\ rows[r] = NoRow => inserts'[q] > 0
  BY <1>1, <1>2, <1>3 DEF DataTypes
<1>8. p.entry.id = NoId => rows[r] = NoRow
  BY <1>3, InsertRowIsFree DEF StoreRow
<1>9. posts' = (posts \ {p}) \cup {n}
  BY <1>4
<1>10. rows' \in [RowIds -> ContactData \cup {NoRow}]
  <2> HIDE DEF r
  <2> QED BY <1>1, <1>2, <1>3 DEF DataTypes
<1>11. UNCHANGED <<local, saved, logged, discarded, deletes, load, events, page>> /\ SameWorld
  BY <1>1 DEF DataTypes, StorePost, lists, history, SameWorld
<1> HIDE DEF n, r
<1>12. posts' \subseteq Posts
  BY <1>1, <1>6, <1>9 DEF DataTypes
<1>13. \A x \in posts' : x.stage # "sent" =>
         x.row \in RowIds /\ (x.entry.id = NoId => inserts'[x.entry.data.qso] > 0)
  <2>1. \A x \in posts : x.entry.data.qso \in Qsos
    BY <1>1 DEF DataTypes, Posts, Entries, ContactData
  <2>2. \A x \in posts : x.stage # "sent" =>
          x.row \in RowIds /\ (x.entry.id = NoId => inserts'[x.entry.data.qso] > 0)
    <3>1. \A y \in Qsos : inserts[y] > 0 => inserts'[y] > 0
      BY <1>1, <1>7 DEF DataTypes
    <3> QED BY <1>1, <2>1, <3>1 DEF PostsStored
  <2> QED BY <1>3, <1>6, <1>7, <1>8, <1>9, <2>2
<1> QED BY <1>1, <1>7, <1>10, <1>11, <1>12, <1>13, ListsStay DEF DataTypes

(* The rest of what the backend does.                                       *)
LEMMA PublishSaves ==
  ASSUME SurvivalInv, NEW p \in posts, PublishPost(p) \/ DropPost(p)
  PROVE  SurvivalInv'
<1>1. DataTypes /\ PostsStored
  BY DEF SurvivalInv
<1>2. p \in Posts
  BY <1>1 DEF DataTypes
<1>3. UNCHANGED <<rows, inserts, local, saved, logged, discarded, deletes, load, page>> /\ SameWorld
  BY <1>1 DEF DataTypes, PublishPost, DropPost, server, lists, history, SameWorld
<1>4. CASE PublishPost(p)
  <2> DEFINE n == [p EXCEPT !.stage = "answered"]
             told == <<LogEntry(p.row, p.entry.data, p.entry.session)>>
  <2>1. p.row \in RowIds /\ (p.entry.id = NoId => inserts[p.entry.data.qso] > 0)
    BY <1>1, <1>4 DEF PublishPost, PostsStored
  <2>2. n \in Posts /\ n.row = p.row /\ n.entry = p.entry
    BY <1>2 DEF Posts
  <2>3. posts' \subseteq (posts \ {p}) \cup {n}
    BY <1>4 DEF PublishPost
  <2>4. LogEntry(p.row, p.entry.data, p.entry.session) \in LogEntries
    BY <1>2, <2>1 DEF LogEntry, LogEntries, Posts, Entries
  <2>5. told \in Seq(Messages) /\ p.rescored \in Seq(Messages)
    <3>1. p.rescored \in Seq(LogEntries)
      BY <1>2 DEF Posts
    <3> QED BY <2>4, <3>1 DEF Messages
  <2>6. told \o p.rescored \in Seq(Messages) /\ Broadcast(told \o p.rescored)
    <3>1. Broadcast(told \o p.rescored)
      BY <1>4 DEF PublishPost
    <3> HIDE DEF told
    <3> QED BY <2>5, <3>1, JoinedSet
  <2> HIDE DEF n, told
  <2>7. events' \in [Windows -> Seq(Messages)]
    BY <2>6, BroadcastTypes
  <2>8. posts' \subseteq Posts
    BY <1>1, <2>2, <2>3 DEF DataTypes
  <2>9. \A x \in posts' : x.stage # "sent" =>
          x.row \in RowIds /\ (x.entry.id = NoId => inserts'[x.entry.data.qso] > 0)
    BY <1>1, <1>3, <2>1, <2>2, <2>3 DEF PostsStored
  <2> QED BY <1>1, <1>3, <2>7, <2>8, <2>9, ListsStay DEF DataTypes
<1>5. CASE DropPost(p)
  <2>1. posts' \subseteq posts /\ events' = events
    BY <1>5 DEF DropPost
  <2> QED BY <1>1, <1>3, <2>1, ListsStay DEF DataTypes, PostsStored
<1> QED BY <1>4, <1>5

LEMMA DeletingSaves ==
  ASSUME SurvivalInv, NEW d \in deletes, ServeDelete(d) \/ PublishDelete(d) \/ LoseDelete(d)
  PROVE  SurvivalInv'
<1>1. DataTypes /\ PostsStored /\ d \in Deletes
  BY DEF SurvivalInv, DataTypes
<1>2. UNCHANGED <<inserts, local, saved, logged, discarded, posts, load, page>> /\ SameWorld
  BY <1>1 DEF DataTypes, IsEnv, ServeDelete, PublishDelete, LoseDelete, server, lists, history, SameWorld
<1>3. deletes' \subseteq Deletes
  <2>1. \A s \in {"refused", "removed", "answered"} : [d EXCEPT !.stage = s] \in Deletes
    BY <1>1 DEF Deletes
  <2> QED BY <1>1, <2>1 DEF DataTypes, ServeDelete, PublishDelete, LoseDelete
<1>4. rows' \in [RowIds -> ContactData \cup {NoRow}]
  BY <1>1 DEF DataTypes, ServeDelete, PublishDelete, LoseDelete, server
<1>5. events' \in [Windows -> Seq(Messages)]
  <2>1. CASE PublishDelete(d)
    <3> DEFINE m == [type |-> "contact_deleted", row |-> d.row, data |-> NoRow,
                     session |-> NoWindow]
    <3>1. m \in Removals
      BY <1>1 DEF Removals, Deletes
    <3>2. <<m>> \in Seq(Messages) /\ Broadcast(<<m>>)
      BY <2>1, <3>1 DEF PublishDelete, Messages
    <3> QED BY <3>2, BroadcastTypes
  <2>2. CASE ServeDelete(d) \/ LoseDelete(d)
    BY <1>1, <2>2 DEF DataTypes, ServeDelete, LoseDelete
  <2> QED BY <2>1, <2>2
<1> QED BY <1>1, <1>2, <1>3, <1>4, <1>5, ListsStay DEF DataTypes, PostsStored

LEMMA ServingSaves ==
  ASSUME SurvivalInv, NEW k \in Keys, Serve(k)
  PROVE  SurvivalInv'
BY StoreSaves, PublishSaves, DeletingSaves DEF Serve, PostsOf, DeletesOf

(* The steps that neither make a list nor a request.                        *)
LEMMA LoadTypes ==
  ASSUME SurvivalInv
  PROVE  Loading \in Loads /\ NoLoad \in Loads /\ load \in [Windows -> Loads]
BY DEF SurvivalInv, DataTypes, Loads, Loading, NoLoad

(* A page holds the rows the backend found.                                 *)
LEMMA FoundOf ==
  ASSUME SurvivalInv, NEW w \in Windows, ServeLoad(w), NEW F, F \subseteq Entries,
         \A r \in RowIds : rows[r] # NoRow => Entry(r, "Committed", rows[r], NoWindow) \in F
  PROVE  \E page1 \in Seq(F) :
           load' = [load EXCEPT ![w] = [[load[w] EXCEPT !.stage = "answered"] EXCEPT !.found = page1]]
<1> DEFINE S == {r \in RowIds : rows[r] # NoRow /\ rows[r].qso \in filter[w]}
           found == SetToSeq(S)
           t == [i \in DOMAIN found |-> Entry(found[i], "Committed", rows[found[i]], NoWindow)]
           page1 == SortContacts(t)
<1>1. WorldOK /\ DataTypes
  BY WorldIsOK DEF SurvivalInv, DataTypes
<1>2. found \in [1..Cardinality(S) -> S] /\ Cardinality(S) \in Nat
  <2>1. IsFiniteSet(S)
    <3>1. RowIds = 1..setup.rows /\ 1 \in Int /\ setup.rows \in Int
      BY <1>1 DEF WorldOK, RowIds
    <3>2. IsFiniteSet(RowIds) /\ S \subseteq RowIds
      BY <3>1, FS_Interval
    <3> QED BY <3>2, FS_Subset
  <2> HIDE DEF S
  <2>2. Cardinality(S) \in Nat /\ \E f : f \in Bijection(1..Cardinality(S), S)
    BY <2>1, FS_CardinalityType DEF ExistsBijection
  <2>3. PICK f \in Bijection(1..Cardinality(S), S) : TRUE
    BY <2>2
  <2>4. f \in [1..Cardinality(S) -> S] /\ IsInjective(f)
    <3>1. f \in Injection(1..Cardinality(S), S)
      BY <2>3 DEF Bijection
    <3> QED BY <3>1 DEF Injection, IsInjective
  <2>5. \E g \in [1..Cardinality(S) -> S] : IsInjective(g)
    BY <2>4
  <2> QED BY <2>2, <2>5 DEF SetToSeq
<1>3. t \in Seq(F)
  <2>1. \A i \in 1..Cardinality(S) : found[i] \in S
    BY <1>2
  <2>2. \A r \in S : Entry(r, "Committed", rows[r], NoWindow) \in F
    OBVIOUS
  <2> HIDE DEF S, found
  <2> QED BY <1>2, <2>1, <2>2
<1>4. page1 \in Seq(F)
  <2>1. \A e \in F : e.data.qso \in Qsos
    BY DEF Entries, ContactData
  <2> HIDE DEF t
  <2> QED BY <1>1, <1>3, <2>1, SortedElements DEF WorldOK
<1>5. load' = [load EXCEPT ![w].stage = "answered", ![w].found = page1]
  BY DEF ServeLoad
<1> HIDE DEF page1
<1>6. load' = [load EXCEPT ![w] = [[load[w] EXCEPT !.stage = "answered"] EXCEPT !.found = page1]]
  BY <1>1, <1>5 DEF DataTypes
<1> QED BY <1>4, <1>6

LEMMA FoundTypes ==
  ASSUME SurvivalInv, NEW w \in Windows, ServeLoad(w)
  PROVE  load' \in [Windows -> Loads]
<1>1. WorldOK /\ DataTypes
  BY WorldIsOK DEF SurvivalInv, DataTypes
<1>2. \A r \in RowIds : rows[r] # NoRow => Entry(r, "Committed", rows[r], NoWindow) \in Entries
  BY <1>1, EntryIs DEF DataTypes, Senders
<1>3. PICK page1 \in Seq(Entries) :
        load' = [load EXCEPT ![w] = [[load[w] EXCEPT !.stage = "answered"] EXCEPT !.found = page1]]
  BY <1>2, FoundOf
<1>4. load[w] \in Loads
  BY <1>1 DEF DataTypes
<1>5. [[load[w] EXCEPT !.stage = "answered"] EXCEPT !.found = page1] \in Loads
  BY <1>4 DEF Loads
<1> QED BY <1>1, <1>3, <1>5 DEF DataTypes

LEMMA StayingSaves ==
  ASSUME SurvivalInv, NEW w \in Windows,
         \/ Refresh(w) \/ \E f \in setup.filters : Search(w, f)
         \/ LoadFails(w) \/ Disconnect(w) \/ Connect(w) \/ ServeLoad(w)
  PROVE  SurvivalInv'
<1>1. DataTypes /\ PostsStored
  BY DEF SurvivalInv
<1>2. UNCHANGED <<rows, inserts, local, saved, logged, discarded, posts, deletes, page>>
  BY DEF Refresh, Search, LoadFails, Disconnect, Connect, ServeLoad, server, lists, history
<1>3. SameWorld
  BY <1>1 DEF DataTypes, IsEnv, SameWorld, Refresh, Search, LoadFails, Disconnect, Connect,
              ServeLoad, Counted
<1>4. load' \in [Windows -> Loads]
  <2>1. CASE ServeLoad(w)
    BY <2>1, FoundTypes
  <2>2. CASE ~ServeLoad(w)
    BY <2>2, LoadTypes DEF Refresh, Search, LoadFails, Disconnect, Connect, StartLoad
  <2> QED BY <2>1, <2>2
<1>5. events' \in [Windows -> Seq(Messages)]
  <2>1. <<>> \in Seq(Messages) /\ events \in [Windows -> Seq(Messages)]
    BY <1>1 DEF DataTypes
  <2> QED BY <2>1 DEF Refresh, Search, LoadFails, Disconnect, Connect, ServeLoad
<1> QED BY <1>1, <1>2, <1>3, <1>4, <1>5, ListsStay DEF DataTypes, PostsStored

LEMMA DeleteCommittedSaves ==
  ASSUME SurvivalInv, NEW w \in Windows, NEW i \in DOMAIN local[w], DeleteCommitted(w, i)
  PROVE  SurvivalInv'
<1> DEFINE e == local[w][i]
           d == [win |-> w, page |-> page[w], row |-> e.id, stage |-> "sent"]
<1>1. DataTypes /\ PostsStored
  BY DEF SurvivalInv
<1>2. UNCHANGED <<rows, inserts, local, saved, logged, posts, load, events, page>> /\ SameWorld
  BY <1>1 DEF DataTypes, SameWorld, DeleteCommitted, server, lists
<1>3. d \in Deletes
  <2>1. e \in Entries /\ page[w] \in Nat
    <3>1. local[w] \in Seq(Entries) /\ page[w] \in Nat
      BY <1>1 DEF DataTypes
    <3> QED BY <3>1
  <2>2. e.id \in RowIds
    BY <2>1 DEF DeleteCommitted, Entries, Ids
  <2> QED BY <2>1, <2>2 DEF Deletes
<1>4. deletes' = deletes \cup {d} /\ discarded \subseteq discarded'
  BY DEF DeleteCommitted
<1>5. deletes' \subseteq Deletes
  BY <1>1, <1>3, <1>4 DEF DataTypes
<1> QED BY <1>1, <1>2, <1>4, <1>5, ListsStay DEF DataTypes, PostsStored

(* A request nobody waits for any more stays what it is.                    *)
LEMMA UnheardTypes ==
  ASSUME SurvivalInv, NEW S, S \subseteq posts
  PROVE  /\ Unheard(S) \subseteq Posts
         /\ \A x \in Unheard(S) : x.stage # "sent" =>
              x.row \in RowIds /\ (x.entry.id = NoId => inserts[x.entry.data.qso] > 0)
<1> SUFFICES ASSUME NEW x \in Unheard(S)
             PROVE  /\ x \in Posts
                    /\ x.stage # "sent" =>
                         x.row \in RowIds /\ (x.entry.id = NoId => inserts[x.entry.data.qso] > 0)
  OBVIOUS
<1>1. PICK p \in S : x = [p EXCEPT !.heard = FALSE]
  BY DEF Unheard
<1>2. p \in Posts /\ p \in posts
  BY DEF SurvivalInv, DataTypes
<1>3. x \in Posts /\ x.stage = p.stage /\ x.row = p.row /\ x.entry = p.entry
  BY <1>1, <1>2 DEF Posts
<1> QED BY <1>2, <1>3 DEF SurvivalInv, PostsStored

LEMMA FailingSaves ==
  ASSUME SurvivalInv, NEW w \in Windows, NEW p \in posts, Refuse(w, p) \/ LosePost(w, p)
  PROVE  SurvivalInv'
<1>1. DataTypes /\ PostsStored
  BY DEF SurvivalInv
<1>2. UNCHANGED <<rows, inserts, local, saved, logged, discarded, deletes, load, events, page>>
  BY DEF Refuse, LosePost, server, history
<1>3. SameWorld
  BY <1>1 DEF DataTypes, IsEnv, SameWorld, Refuse, LosePost
<1>4. posts' \subseteq posts \cup Unheard({p})
  BY DEF Refuse, LosePost
<1>5. /\ Unheard({p}) \subseteq Posts
      /\ \A x \in Unheard({p}) : x.stage # "sent" =>
           x.row \in RowIds /\ (x.entry.id = NoId => inserts[x.entry.data.qso] > 0)
  BY UnheardTypes
<1>6. posts' \subseteq Posts
  BY <1>1, <1>4, <1>5 DEF DataTypes
<1>7. \A x \in posts' : x.stage # "sent" =>
        x.row \in RowIds /\ (x.entry.id = NoId => inserts'[x.entry.data.qso] > 0)
  BY <1>1, <1>2, <1>4, <1>5 DEF PostsStored
<1> QED BY <1>1, <1>2, <1>3, <1>6, <1>7, ListsStay DEF DataTypes

(* The steps that render a list.                                            *)
Frame == /\ UNCHANGED <<rows, inserts, page>> /\ SameWorld /\ deletes' \subseteq deletes
         /\ load' \in [Windows -> Loads] /\ events' \in [Windows -> Seq(Messages)]

LEMMA LogSaves ==
  ASSUME SurvivalInv, NEW w \in Windows, NEW q \in Qsos, LogContact(w, q)
  PROVE  SurvivalInv'
<1> DEFINE e == Entry(NoId, "Pending", [qso |-> q, ver |-> 0], w)
           t == Append(local[w], e)
           s == SortContacts(t)
<1>1. WorldOK /\ DataTypes /\ local[w] \in Seq(Entries)
  BY WorldIsOK DEF SurvivalInv, DataTypes
<1>2. Frame /\ discarded' = discarded /\ logged' = logged \cup {q}
  BY <1>1 DEF DataTypes, LogContact, server, Frame, SameWorld
<1>3. e \in Entries /\ e.id = NoId /\ e.data.qso = q
  BY DEF Entry, Entries, Ids, ContactData, Senders
<1>4. t \in Seq(Entries) /\ ToSet(t) = ToSet(local[w]) \cup {e}
  <2> HIDE DEF e
  <2> QED BY <1>1, <1>3, AppendedSet
<1>5. Unsent(local[w]) \cup {q} \subseteq Unsent(t)
  <2> HIDE DEF e, t
  <2> QED BY <1>3, <1>4 DEF Unsent
<1>6. s \in Seq(Entries) /\ Unsent(s) = Unsent(t)
  <2> HIDE DEF t
  <2> QED BY <1>1, <1>4, SortKeeps
<1>7. Turn(w, s, {}, posts)
  BY DEF LogContact
<1>8. logged' \subseteq Qsos /\ logged' \subseteq logged \cup Unsent(s)
  BY <1>1, <1>2, <1>5, <1>6 DEF DataTypes
<1> HIDE DEF s, t, e
<1> QED BY <1>2, <1>5, <1>6, <1>7, <1>8, TurnSaves DEF Frame

LEMMA EditSaves ==
  ASSUME SurvivalInv, NEW w \in Windows, NEW i \in DOMAIN local[w], EditContact(w, i)
  PROVE  SurvivalInv'
<1> DEFINE e == local[w][i]
           n == env.edits + 1
           edited(d) == [d EXCEPT !.status = IF d.id = NoId THEN "Pending" ELSE "Updating",
                                  !.data.ver = env.edits + 1]
           t == [j \in DOMAIN local[w] |->
                   LET d == local[w][j] IN
                   IF d.id = e.id /\ ClientId(d) = ClientId(e) THEN edited(d) ELSE d]
           s == SortContacts(t)
<1>1. WorldOK /\ DataTypes /\ local[w] \in Seq(Entries)
  BY WorldIsOK DEF SurvivalInv, DataTypes
<1>2. Frame /\ discarded' = discarded /\ logged' = logged
  <2>1. SameWorld
    <3>1. env' = [env EXCEPT !.edits = @ + 1]
      BY DEF EditContact
    <3>2. IsEnv(env) /\ env.edits \in Nat
      BY <1>1 DEF DataTypes
    <3>3. env' = [setup |-> env.setup, edits |-> env.edits + 1, losses |-> env.losses,
                  refreshes |-> env.refreshes]
      BY <3>1, <3>2 DEF IsEnv
    <3> QED BY <3>2, <3>3 DEF IsEnv, SameWorld
  <2>2. UNCHANGED <<server, history, deletes, load, events, page>>
    BY DEF EditContact
  <2> QED BY <1>1, <2>1, <2>2 DEF DataTypes, server, history, Frame
<1>3. n \in Nat
  BY <1>1 DEF DataTypes
<1>4. \A d \in Entries : edited(d) \in Entries /\ edited(d).id = d.id /\ edited(d).data.qso = d.data.qso
  <2> SUFFICES ASSUME NEW d \in Entries
               PROVE  edited(d) \in Entries /\ edited(d).id = d.id /\ edited(d).data.qso = d.data.qso
    OBVIOUS
  <2> DEFINE st == IF d.id = NoId THEN "Pending" ELSE "Updating"
             dd == [d.data EXCEPT !.ver = n]
  <2>1. edited(d) = [[d EXCEPT !.status = st] EXCEPT !.data = dd]
    BY DEF Entries
  <2>2. dd \in ContactData /\ dd.qso = d.data.qso
    <3>1. d.data \in ContactData
      BY DEF Entries
    <3> HIDE DEF n
    <3> QED BY <1>3, <3>1 DEF ContactData
  <2> HIDE DEF dd, edited
  <2> QED BY <2>1, <2>2 DEF Entries
<1>5. Turn(w, s, {}, posts)
  BY DEF EditContact
<1> HIDE DEF edited
<1>6. \A j \in DOMAIN local[w] : /\ t[j] \in Entries /\ t[j].id = local[w][j].id
                                 /\ t[j].data.qso = local[w][j].data.qso
  BY <1>1, <1>4
<1>7. t = [j \in DOMAIN local[w] |-> t[j]]
  OBVIOUS
<1> HIDE DEF t
<1>8. t \in Seq(Entries) /\ Unsent(t) = Unsent(local[w])
  BY <1>1, <1>6, <1>7, MapKeeps
<1>9. s \in Seq(Entries) /\ Unsent(s) = Unsent(t)
  BY <1>1, <1>8, SortKeeps
<1> HIDE DEF s
<1> QED BY <1>1, <1>2, <1>5, <1>8, <1>9, TurnSaves DEF Frame, DataTypes

LEMMA RenderingSaves ==
  ASSUME SurvivalInv, NEW w \in Windows
  PROVE  /\ \A i \in DOMAIN local[w] : DeleteLocal(w, i) => SurvivalInv'
         /\ RetryTimer(w) \/ LoadReply(w) \/ Receive(w) => SurvivalInv'
         /\ \A d \in deletes : DeleteReply(w, d) => SurvivalInv'
<1> DEFINE Fits(s) == /\ s \in Seq(Entries)
                      /\ \A q \in Unsent(local[w]) : q \in Unsent(s) \/ q \in discarded'
<1>1. WorldOK /\ DataTypes /\ local[w] \in Seq(Entries)
  BY WorldIsOK DEF SurvivalInv, DataTypes
<1>2. ASSUME NEW s, Fits(s), Frame, Turn(w, s, {}, posts), logged' = logged, discarded \subseteq discarded'
      PROVE  SurvivalInv'
  BY <1>1, <1>2, TurnSaves DEF Frame, DataTypes
<1>3. ASSUME Frame, UNCHANGED <<local, saved, posts, logged, discarded>>
      PROVE  SurvivalInv'
  BY <1>1, <1>3, ListsStay DEF Frame, DataTypes, SurvivalInv, PostsStored
<1>4. ASSUME NEW i \in DOMAIN local[w], DeleteLocal(w, i)
      PROVE  SurvivalInv'
  <2> DEFINE key == ClientId(local[w][i])
  <2>1. Frame /\ logged' = logged /\ discarded \subseteq discarded' /\ key \in discarded'
    BY <1>1, <1>4 DEF DataTypes, DeleteLocal, server, Frame, SameWorld, ClientId
  <2>2. Turn(w, WithoutClient(local[w], key), {}, posts)
    BY <1>4 DEF DeleteLocal
  <2>3. Fits(WithoutClient(local[w], key))
    BY <1>1, <2>1, WithoutClientKeeps
  <2> HIDE DEF Fits
  <2> QED BY <1>2, <2>1, <2>2, <2>3
<1>5. ASSUME RetryTimer(w)
      PROVE  SurvivalInv'
  <2>1. Frame /\ logged' = logged /\ discarded' = discarded
    BY <1>1, <1>5 DEF DataTypes, RetryTimer, server, history, Frame, SameWorld
  <2>2. Turn(w, SortContacts(local[w]), {}, posts)
    BY <1>5 DEF RetryTimer
  <2>3. Fits(SortContacts(local[w]))
    BY <1>1, SortKeeps
  <2> HIDE DEF Fits
  <2> QED BY <1>2, <2>1, <2>2, <2>3
<1>6. ASSUME LoadReply(w)
      PROVE  SurvivalInv'
  <2>1. load' \in [Windows -> Loads]
    BY <1>6, LoadTypes DEF LoadReply
  <2>2. Frame /\ logged' = logged /\ discarded' = discarded
    BY <1>1, <1>6, <2>1 DEF DataTypes, LoadReply, server, Frame, SameWorld
  <2>3. Turn(w, MergeResetPage(local[w], load[w].found), {}, posts)
    BY <1>6 DEF LoadReply
  <2>4. load[w].found \in Seq(Entries)
    BY <1>1 DEF DataTypes, Loads
  <2>5. Fits(MergeResetPage(local[w], load[w].found))
    BY <1>1, <2>4, ResetKeeps
  <2> HIDE DEF Fits
  <2> QED BY <1>2, <2>2, <2>3, <2>5
<1>7. ASSUME Receive(w)
      PROVE  SurvivalInv'
  <2> DEFINE m == Head(events[w])
  <2>1. events[w] \in Seq(Messages) /\ events[w] # <<>> /\ events' = [events EXCEPT ![w] = Tail(@)]
    BY <1>1, <1>7 DEF DataTypes, Receive
  <2>2. m \in Messages /\ Tail(events[w]) \in Seq(Messages)
    BY <2>1
  <2>3. events' \in [Windows -> Seq(Messages)]
    BY <1>1, <2>1, <2>2 DEF DataTypes
  <2>4. Frame /\ logged' = logged /\ discarded' = discarded
    BY <1>1, <1>7, <2>3 DEF DataTypes, Receive, server, history, Frame, SameWorld
  <2> HIDE DEF m
  <2>5. CASE m.type = "contact_deleted"
    <3>1. Turn(w, Without(local[w], m.row), {}, posts)
      BY <1>7, <2>5 DEF Receive, m
    <3>2. m.row \in RowIds
      BY <2>2 DEF Messages, LogEntries, Removals
    <3>3. Fits(Without(local[w], m.row))
      BY <1>1, <3>2, WithoutKeeps
    <3> HIDE DEF Fits
    <3> QED BY <1>2, <2>4, <3>1, <3>3
  <2>6. CASE m.type # "contact_deleted"
    <3>1. \/ Turn(w, MergeContact(local[w], NoId, m.row, m.data, m.session), {}, posts)
          \/ UNCHANGED <<local, saved, posts>>
      BY <1>7, <2>6 DEF Receive, m, lists
    <3>2. m.row \in RowIds /\ m.data \in ContactData /\ m.session \in Senders
      BY <2>2, <2>6 DEF Messages, LogEntries, Removals
    <3>3. Fits(MergeContact(local[w], NoId, m.row, m.data, m.session))
      <4>1. NoId \notin Unsent(local[w])
        BY <1>1 DEF WorldOK, Unsent, ToSet, Entries, ContactData
      <4> QED BY <1>1, <3>2, <4>1, MergeKeeps
    <3> HIDE DEF Fits
    <3> QED BY <1>2, <1>3, <2>4, <3>1, <3>3
  <2> QED BY <2>5, <2>6
<1>8. ASSUME NEW d \in deletes, DeleteReply(w, d)
      PROVE  SurvivalInv'
  <2>1. Frame /\ logged' = logged /\ discarded' = discarded
    BY <1>1, <1>8 DEF DataTypes, DeleteReply, server, history, Frame, SameWorld
  <2>2. \/ Turn(w, Without(local[w], d.row), {}, posts) \/ Turn(w, local[w], {}, posts)
        \/ UNCHANGED <<local, saved, posts>>
    BY <1>8 DEF DeleteReply, lists
  <2>3. d.row \in RowIds
    BY <1>1 DEF DataTypes, Deletes
  <2>4. Fits(Without(local[w], d.row)) /\ Fits(local[w])
    BY <1>1, <2>3, WithoutKeeps
  <2> HIDE DEF Fits
  <2> QED BY <1>2, <1>3, <2>1, <2>2, <2>4
<1> QED BY <1>4, <1>5, <1>6, <1>7, <1>8

LEMMA ReplySaves ==
  ASSUME SurvivalInv, NEW w \in Windows, NEW p \in posts, Reply(w, p)
  PROVE  SurvivalInv'
<1> DEFINE e == p.entry
           key == ClientId(e)
           kept == WithoutClient(local[w], key)
           merged == MergeContact(local[w], key, p.row, e.data, e.session)
           failed == MarkContactFailed(local[w], e)
<1>1. WorldOK /\ DataTypes /\ PostsStored /\ local[w] \in Seq(Entries)
  BY WorldIsOK DEF SurvivalInv, DataTypes
<1>2. p \in Posts /\ e \in Entries /\ p.row \in RowIds
      /\ (e.id = NoId => inserts[e.data.qso] > 0)
  BY <1>1 DEF DataTypes, Reply, Posts, PostsStored
<1>3. Frame /\ logged' = logged /\ discarded' = discarded
  BY <1>1 DEF DataTypes, Reply, server, history, Frame, SameWorld
<1>4. PICK s \in {kept, merged, failed} : Turn(w, s, FreedKeys(p), posts \ {p})
  BY DEF Reply
<1>5. key \in Unsent(local[w]) => inserts[key] > 0
  <2>1. Unsent(local[w]) \subseteq Qsos
    BY <1>1 DEF Unsent, ToSet, Entries, ContactData
  <2>2. e.id # NoId => key \in Nat
    BY <1>2 DEF ClientId, Entries, Ids, RowIds
  <2>3. e.id = NoId => key = e.data.qso
    BY DEF ClientId
  <2> QED BY <1>1, <1>2, <2>1, <2>2, <2>3 DEF WorldOK
<1>6. s \in Seq(Entries) /\ Unsent(local[w]) \ {key} \subseteq Unsent(s)
  <2>1. kept \in Seq(Entries) /\ Unsent(local[w]) \ {key} \subseteq Unsent(kept)
    BY <1>1, WithoutClientKeeps
  <2>2. merged \in Seq(Entries) /\ Unsent(local[w]) \ {key} \subseteq Unsent(merged)
    <3>1. e.data \in ContactData /\ e.session \in Senders
      BY <1>2 DEF Entries
    <3> QED BY <1>1, <1>2, <3>1, MergeKeeps
  <2>3. failed \in Seq(Entries) /\ Unsent(failed) = Unsent(local[w])
    BY <1>1, FailedKeeps
  <2> HIDE DEF kept, merged, failed
  <2> QED BY <2>1, <2>2, <2>3
<1> HIDE DEF key, kept, merged, failed
<1>7. \A q \in Unsent(local[w]) : q \in Unsent(s) \/ inserts[q] > 0
  BY <1>5, <1>6
<1>8. posts \ {p} \subseteq posts
  OBVIOUS
<1> QED BY <1>1, <1>3, <1>4, <1>6, <1>7, <1>8, TurnSaves DEF Frame, DataTypes

(* What the new page finds is what was saved.                               *)
LEMMA ReloadSaves ==
  ASSUME SurvivalInv, NEW w \in Windows, Reload(w)
  PROVE  SurvivalInv'
<1> DEFINE b == setup.browserOf[w]
           s == SortContacts(saved[b])
           posted == NextToCommit(s, {})
           New(e) == [Post(w, e) EXCEPT !.page = @ + 1]
           news == {New(e) : e \in posted}
<1>1. WorldOK /\ DataTypes /\ PostsStored /\ Survives
  BY WorldIsOK DEF SurvivalInv, DataTypes
<1>2. saved[b] \in Seq(Entries) /\ page[w] \in Nat
  <2>1. b \in Browsers
    BY DEF Browsers, Range, Windows
  <2> QED BY <1>1, <2>1 DEF DataTypes
<1>3. s \in Seq(Entries) /\ Unsent(s) = Unsent(saved[b])
  BY <1>1, <1>2, SortKeeps
<1>4. /\ local' = [local EXCEPT ![w] = s] /\ saved' = saved
      /\ posts' = (posts \ InFlight(w)) \cup Unheard(InFlight(w)) \cup news
      /\ page' = [page EXCEPT ![w] = @ + 1]
      /\ load' = [load EXCEPT ![w] = Loading] /\ events' = [events EXCEPT ![w] = <<>>]
      /\ UNCHANGED <<rows, inserts, deletes, logged, discarded>> /\ SameWorld
  BY <1>1 DEF Reload, DataTypes, SameWorld, server, history
<1>5. \A x \in news : x \in Posts /\ x.stage = "sent"
  <2>1. posted \subseteq Entries
    <3> HIDE DEF s
    <3> QED BY <1>3, NextIsListed
  <2>2. ASSUME NEW e \in Entries
        PROVE  New(e) \in Posts /\ New(e).stage = "sent"
    <3> DEFINE x == Post(w, e)
    <3>1. x \in Posts /\ x.stage = "sent"
      <4>1. e.id \in Ids
        BY DEF Entries
      <4>2. <<>> \in Seq(LogEntries)
        OBVIOUS
      <4> QED BY <1>2, <4>1, <4>2 DEF Post, Posts
    <3>2. New(e) = [x EXCEPT !.page = x.page + 1]
      OBVIOUS
    <3> HIDE DEF x, New
    <3> QED BY <3>1, <3>2 DEF Posts
  <2> HIDE DEF posted, New
  <2> QED BY <2>1, <2>2
<1>6. /\ Unheard(InFlight(w)) \subseteq Posts
      /\ \A x \in Unheard(InFlight(w)) : x.stage # "sent" =>
           x.row \in RowIds /\ (x.entry.id = NoId => inserts[x.entry.data.qso] > 0)
  <2>1. InFlight(w) \subseteq posts
    BY DEF InFlight
  <2> QED BY <2>1, UnheardTypes
<1> HIDE DEF s, news, b
<1>7. DataTypes'
  <2>1. local' \in [Windows -> Seq(Entries)]
    BY <1>1, <1>3, <1>4 DEF DataTypes
  <2>2. posts' \subseteq Posts
    BY <1>1, <1>4, <1>5, <1>6 DEF DataTypes
  <2>3. page' \in [Windows -> Nat]
    BY <1>1, <1>2, <1>4 DEF DataTypes
  <2>4. load' \in [Windows -> Loads]
    BY <1>4, LoadTypes
  <2>5. events' \in [Windows -> Seq(Messages)]
    <3>1. <<>> \in Seq(Messages)
      OBVIOUS
    <3> QED BY <1>1, <1>4, <3>1 DEF DataTypes
  <2> QED BY <1>1, <1>4, <2>1, <2>2, <2>3, <2>4, <2>5, WorldStays DEF DataTypes, SameWorld
<1>8. PostsStored'
  BY <1>1, <1>4, <1>5, <1>6, WorldStays DEF PostsStored
<1>9. Survives'
  <2> SUFFICES ASSUME OneWindowPerBrowser
               PROVE  /\ \A v \in Windows : Unsent(local'[v]) \subseteq Unsent(saved'[setup.browserOf[v]])
                      /\ \A q \in logged' :
                           q \in discarded' \/ inserts'[q] > 0 \/ \E v \in Windows : q \in Unsent(local'[v])
    BY <1>4, WorldStays DEF Survives
  <2>1. local'[w] = s /\ \A v \in Windows \ {w} : local'[v] = local[v]
    BY <1>1, <1>4 DEF DataTypes
  <2>2. \A v \in Windows : Unsent(local'[v]) \subseteq Unsent(saved'[setup.browserOf[v]])
    BY <1>1, <1>3, <1>4, <2>1 DEF Survives, b
  <2>3. \A v \in Windows : Unsent(local[v]) \subseteq Unsent(local'[v])
    BY <1>1, <1>3, <2>1 DEF Survives, b
  <2> QED BY <1>1, <1>4, <2>2, <2>3 DEF Survives
<1> QED BY <1>7, <1>8, <1>9 DEF SurvivalInv

LEMMA StepSaves ==
  ASSUME SurvivalInv, [Next]_vars
  PROVE  SurvivalInv'
<1>1. ASSUME UNCHANGED vars
      PROVE  SurvivalInv'
  <2>1. SameWorld /\ DataTypes /\ PostsStored
    BY <1>1 DEF vars, SameWorld, SurvivalInv, DataTypes
  <2> QED BY <1>1, <2>1, ListsStay DEF vars, DataTypes, PostsStored
<1>2. CASE \E k \in Keys : Serve(k)
  BY <1>2, ServingSaves
<1>3. ASSUME NEW w \in Windows, NEW k \in Keys, Answered(w, k)
      PROVE  SurvivalInv'
  <2>1. PostsOf(k) \subseteq posts /\ DeletesOf(k) \subseteq deletes
    BY DEF PostsOf, DeletesOf
  <2> QED BY <1>3, <2>1, ReplySaves, FailingSaves, RenderingSaves DEF Answered
<1>4. ASSUME NEW w \in Windows, Operator(w)
      PROVE  SurvivalInv'
  BY <1>4, LogSaves, EditSaves, RenderingSaves, DeleteCommittedSaves, StayingSaves DEF Operator
<1>5. ASSUME NEW w \in Windows, Network(w)
      PROVE  SurvivalInv'
  BY <1>5, FailingSaves, DeletingSaves, StayingSaves, ReloadSaves DEF Network
<1>6. ASSUME NEW w \in Windows, RetryTimer(w) \/ ServeLoad(w) \/ LoadReply(w) \/ Receive(w)
      PROVE  SurvivalInv'
  BY <1>6, RenderingSaves, StayingSaves
<1>7. CASE Next
  BY <1>1, <1>2, <1>3, <1>4, <1>5, <1>6, <1>7 DEF Next, Quiescent
<1> QED BY <1>1, <1>7

(* A contact an operator logged and did not delete is in the database or in *)
(* localStorage at every moment, where the windows have a browser each: no  *)
(* answer, event, page, failure, edit, deletion of another contact or       *)
(* reload, in whatever order, loses it (the save effect of                  *)
(* useContactsOutbox.js, mergeResetCommittedPage, mergeContact).            *)
THEOREM LoggedContactsAreKept == Spec => []LoggedContactsSurvive
<1>1. Init => SurvivalInv
  BY SurvivalInitially
<1>2. SurvivalInv /\ [Next]_vars => SurvivalInv'
  BY StepSaves
<1>3. SurvivalInv => LoggedContactsSurvive
  <2> SUFFICES ASSUME SurvivalInv, OneWindowPerBrowser, NEW q \in logged,
                      NEW w \in Windows, q \in Unsent(local[w])
               PROVE  \E b \in Browsers : \E i \in DOMAIN saved[b] : saved[b][i].data.qso = q
    BY DEF SurvivalInv, Survives, LoggedContactsSurvive
  <2> DEFINE b == setup.browserOf[w]
  <2>1. b \in Browsers /\ q \in Unsent(saved[b])
    BY DEF SurvivalInv, Survives, Browsers, Range, Windows
  <2>2. \E i \in DOMAIN saved[b] : saved[b][i].data.qso = q
    BY <2>1 DEF Unsent, ToSet
  <2> QED BY <2>1, <2>2
<1> QED BY <1>1, <1>2, <1>3, PTL DEF Spec

-----------------------------------------------------------------------------
(* How the operations on a list keep the order of the entries of a contact. *)

(* The entries of t are some of the first n of s, each contact's in their   *)
(* order.                                                                   *)
Within(t, s, n) ==
  \E f \in [1..Len(t) -> 1..n] :
    \A k, m \in 1..Len(t) :
      t[k] = s[f[k]] /\ (k < m /\ t[k].data.qso = t[m].data.qso => f[k] < f[m])

PartOf(t, s) == Within(t, s, Len(s))

LEMMA WithinMore ==
  ASSUME NEW T, NEW s \in Seq(T), NEW t \in Seq(T), NEW n \in Nat, Within(t, s, n)
  PROVE  Within(t, s, n + 1)
<1>1. 1..n \subseteq 1..(n + 1)
  OBVIOUS
<1> QED BY <1>1 DEF Within

LEMMA WithinAppended ==
  ASSUME NEW T, NEW s \in Seq(T), NEW t \in Seq(T), NEW n \in Nat, Within(t, s, n)
  PROVE  Within(Append(t, s[n + 1]), s, n + 1)
<1> DEFINE l == Len(t)
           u == Append(t, s[n + 1])
<1>1. l \in Nat /\ Len(u) = l + 1 /\ u[l + 1] = s[n + 1] /\ \A k \in 1..l : u[k] = t[k]
  <2>1. \A x : Len(Append(t, x)) = Len(t) + 1 /\ Append(t, x)[Len(t) + 1] = x
               /\ \A k \in 1..Len(t) : Append(t, x)[k] = t[k]
    OBVIOUS
  <2> QED BY <2>1
<1>2. PICK f \in [1..l -> 1..n] :
        \A k, m \in 1..l : t[k] = s[f[k]] /\ (k < m /\ t[k].data.qso = t[m].data.qso => f[k] < f[m])
  BY DEF Within
<1> HIDE DEF u, l
<1> DEFINE g == [k \in 1..(l + 1) |-> IF k = l + 1 THEN n + 1 ELSE f[k]]
<1>3. \A k \in 1..(l + 1) : k = l + 1 \/ k \in 1..l
  BY <1>1
<1>4. g \in [1..(l + 1) -> 1..(n + 1)]
  <2>1. \A k \in 1..l : f[k] \in 1..(n + 1)
    BY <1>2
  <2> QED BY <1>1, <1>3, <2>1
<1>5. g[l + 1] = n + 1 /\ \A k \in 1..l : g[k] = f[k] /\ f[k] \in 1..n
  BY <1>1, <1>2
<1> HIDE DEF g
<1>6. \A k \in 1..(l + 1) : u[k] = s[g[k]]
  BY <1>1, <1>2, <1>3, <1>5
<1>7. ASSUME NEW k \in 1..(l + 1), NEW m \in 1..(l + 1), k < m, u[k].data.qso = u[m].data.qso
      PROVE  g[k] < g[m]
  <2>1. k \in 1..l
    BY <1>1, <1>7
  <2>2. CASE m = l + 1
    BY <1>5, <2>1, <2>2
  <2>3. CASE m \in 1..l
    BY <1>1, <1>2, <1>5, <1>7, <2>1, <2>3
  <2> QED BY <1>3, <2>2, <2>3
<1>8. g \in [1..Len(u) -> 1..(n + 1)]
  BY <1>1, <1>4
<1>9. \A k, m \in 1..Len(u) : u[k] = s[g[k]] /\ (k < m /\ u[k].data.qso = u[m].data.qso => g[k] < g[m])
  BY <1>1, <1>6, <1>7
<1>10. Within(u, s, n + 1)
  BY <1>8, <1>9 DEF Within
<1> QED BY <1>10 DEF u

LEMMA WithinJoined ==
  ASSUME NEW T, NEW s \in Seq(T), NEW t \in Seq(T), NEW v \in Seq(T), NEW n \in Nat,
         Within(t, s, n), Within(v, s, n),
         \A k \in 1..Len(t), m \in 1..Len(v) : t[k].data.qso # v[m].data.qso
  PROVE  Within(t \o v, s, n)
<1> DEFINE l == Len(t)
           j == Len(v)
           u == t \o v
<1>1. /\ l \in Nat /\ j \in Nat /\ Len(u) = l + j
      /\ \A k \in 1..l : u[k] = t[k]
      /\ \A k \in 1..(l + j) : k \notin 1..l => k - l \in 1..j /\ u[k] = v[k - l]
  OBVIOUS
<1>2. PICK f \in [1..l -> 1..n] :
        \A k, m \in 1..l : t[k] = s[f[k]] /\ (k < m /\ t[k].data.qso = t[m].data.qso => f[k] < f[m])
  BY DEF Within
<1>3. PICK h \in [1..j -> 1..n] :
        \A k, m \in 1..j : v[k] = s[h[k]] /\ (k < m /\ v[k].data.qso = v[m].data.qso => h[k] < h[m])
  BY DEF Within
<1>4. \A k \in 1..l, m \in 1..j : t[k].data.qso # v[m].data.qso
  OBVIOUS
<1> HIDE DEF u, l, j
<1> DEFINE g == [k \in 1..(l + j) |-> IF k \in 1..l THEN f[k] ELSE h[k - l]]
<1>5. g \in [1..(l + j) -> 1..n]
  BY <1>1, <1>2, <1>3
<1>6. \A k \in 1..(l + j) : g[k] = IF k \in 1..l THEN f[k] ELSE h[k - l]
  OBVIOUS
<1> HIDE DEF g
<1>7. ASSUME NEW k \in 1..(l + j)
      PROVE  u[k] = s[g[k]]
  <2>1. CASE k \in 1..l
    BY <1>1, <1>2, <1>6, <2>1
  <2>2. CASE k \notin 1..l
    <3>1. k - l \in 1..j /\ u[k] = v[k - l] /\ g[k] = h[k - l]
      BY <1>1, <1>6, <2>2
    <3> QED BY <1>3, <3>1
  <2> QED BY <2>1, <2>2
<1>8. ASSUME NEW k \in 1..(l + j), NEW m \in 1..(l + j), k < m, u[k].data.qso = u[m].data.qso
      PROVE  g[k] < g[m]
  <2>1. CASE m \in 1..l
    <3>1. k \in 1..l
      BY <1>1, <1>8, <2>1
    <3> QED BY <1>1, <1>2, <1>6, <1>8, <2>1, <3>1
  <2>2. CASE m \notin 1..l /\ k \in 1..l
    <3>1. m - l \in 1..j /\ u[m] = v[m - l] /\ u[k] = t[k]
      BY <1>1, <2>2
    <3>2. t[k].data.qso # v[m - l].data.qso
      BY <1>4, <2>2, <3>1
    <3> QED BY <1>8, <3>1, <3>2
  <2>3. CASE m \notin 1..l /\ k \notin 1..l
    <3>1. k - l \in 1..j /\ m - l \in 1..j /\ k - l < m - l
      BY <1>1, <1>8, <2>3
    <3>2. v[k - l].data.qso = v[m - l].data.qso
      BY <1>1, <1>8, <2>3
    <3> QED BY <1>3, <1>6, <2>3, <3>1, <3>2
  <2> QED BY <2>1, <2>2, <2>3
<1>9. Within(u, s, n)
  <2>1. Len(u) = l + j
    BY <1>1
  <2>2. \A k, m \in 1..Len(u) :
          u[k] = s[g[k]] /\ (k < m /\ u[k].data.qso = u[m].data.qso => g[k] < g[m])
    BY <1>7, <1>8, <2>1
  <2> QED BY <1>5, <2>1, <2>2 DEF Within
<1> QED BY <1>9 DEF u

LEMMA WithinNone ==
  ASSUME NEW s, NEW n \in Nat
  PROVE  Within(<<>>, s, n)
<1>1. Len(<<>>) = 0 /\ 1..0 = {}
  OBVIOUS
<1>2. [k \in 1..0 |-> 1] \in [1..0 -> 1..n]
  BY <1>1
<1> QED BY <1>1, <1>2 DEF Within

LEMMA KeptIsPart ==
  ASSUME NEW T, NEW s \in Seq(T), NEW S
  PROVE  PartOf(Kept(s, S), s)
<1>1. PICK f : /\ f = [i \in 0..Len(s) |->
                        IF i = 0 THEN <<>>
                        ELSE IF s[i] \in S THEN Append(f[i - 1], s[i]) ELSE f[i - 1]]
               /\ Kept(s, S) = f[Len(s)]
  <2>1. Len(s) \in Nat
    OBVIOUS
  <2> QED BY <2>1, KeptFunction
<1> DEFINE Good == {n \in Nat : f[n] \in Seq(T) /\ Within(f[n], s, n)}
           k == Len(s)
<1>2. 0 \in Good
  <2>1. f[0] = <<>>
    BY <1>1
  <2>2. <<>> \in Seq(T)
    OBVIOUS
  <2> QED BY <2>1, <2>2, WithinNone
<1>3. ASSUME NEW n \in 0..(k - 1), n \in Good
      PROVE  n + 1 \in Good
  <2> DEFINE m == n + 1
  <2>1. m \in 1..k /\ m \in 0..k /\ m # 0 /\ m - 1 = n /\ m \in Nat /\ n \in Nat /\ s[m] \in T
    OBVIOUS
  <2>2. f[m] = IF s[m] \in S THEN Append(f[n], s[m]) ELSE f[n]
    BY <1>1, <2>1
  <2>3. f[n] \in Seq(T) /\ Within(f[n], s, n)
    BY <1>3
  <2>4. Within(f[n], s, m) /\ Within(Append(f[n], s[m]), s, m)
    BY <2>1, <2>3, WithinMore, WithinAppended
  <2>5. Append(f[n], s[m]) \in Seq(T)
    BY <2>1, <2>3, AppendedSet
  <2> HIDE DEF m
  <2>6. m \in Good
    BY <2>1, <2>2, <2>3, <2>4, <2>5
  <2> QED BY <2>6 DEF m
<1>4. k \in Good
  <2>1. k \in Nat /\ k \in 0..k
    OBVIOUS
  <2> HIDE DEF Good, k
  <2> QED BY <1>2, <1>3, <2>1, Induction
<1> QED BY <1>1, <1>4 DEF PartOf

(* Sorting keeps the order of the entries of one contact.                   *)
LEMMA SortIsPart ==
  ASSUME Newest \in Seq(Qsos), IsInjective(Newest), NEW T, NEW s \in Seq(T),
         \A e \in T : e.data.qso \in Qsos
  PROVE  PartOf(SortContacts(s), s)
<1> DEFINE First(n) == {Newest[i] : i \in 1..n}
           k == Len(Newest)
<1>1. PICK f : /\ f = [i \in 0..Len(Newest) |->
                         IF i = 0 THEN <<>> ELSE f[i - 1] \o OfQso(s, Newest[i])]
               /\ SortContacts(s) = f[Len(Newest)]
  <2>1. Len(Newest) \in Nat
    OBVIOUS
  <2> QED BY <2>1, SortFunction
<1> DEFINE Good == {n \in Nat : /\ f[n] \in Seq(T) /\ PartOf(f[n], s)
                                /\ \A i \in 1..Len(f[n]) : f[n][i].data.qso \in First(n)}
<1>0. Len(s) \in Nat
  OBVIOUS
<1>2. 0 \in Good
  <2>1. f[0] = <<>>
    BY <1>1
  <2>2. <<>> \in Seq(T) /\ \A i \in 1..Len(<<>>) : FALSE
    OBVIOUS
  <2>3. PartOf(<<>>, s)
    BY <1>0, WithinNone DEF PartOf
  <2> QED BY <2>1, <2>2, <2>3
<1>3. ASSUME NEW n \in 0..(k - 1), n \in Good
      PROVE  n + 1 \in Good
  <2> DEFINE m == n + 1
             t == OfQso(s, Newest[m])
  <2>1. m \in 1..k /\ m \in 0..k /\ m # 0 /\ m - 1 = n /\ m \in Nat
    OBVIOUS
  <2>2. f[m] = f[n] \o t
    BY <1>1, <2>1
  <2>3. /\ t \in Seq(T) /\ ToSet(t) = {e \in ToSet(s) : e.data.qso = Newest[m]}
        /\ PartOf(t, s)
    BY KeptElements, KeptIsPart DEF OfQso
  <2>4. f[n] \in Seq(T) /\ PartOf(f[n], s) /\ \A i \in 1..Len(f[n]) : f[n][i].data.qso \in First(n)
    BY <1>3
  <2>5. Newest[m] \notin First(n)
    <3>1. \A i \in 1..n : i \in DOMAIN Newest /\ i # m
      BY <2>1
    <3>2. m \in DOMAIN Newest
      BY <2>1
    <3> QED BY <3>1, <3>2 DEF IsInjective
  <2>6. First(n) \subseteq First(m) /\ Newest[m] \in First(m)
    BY <2>1
  <2> HIDE DEF t, m, First
  <2>7. \A i \in 1..Len(t) : t[i].data.qso = Newest[m]
    <3>1. \A i \in 1..Len(t) : t[i] \in ToSet(t)
      BY <2>3 DEF ToSet
    <3> QED BY <2>3, <3>1
  <2>8. f[m] \in Seq(T)
    BY <2>2, <2>3, <2>4, JoinedSet
  <2>9. PartOf(f[m], s)
    <3>1. \A i \in 1..Len(f[n]), j \in 1..Len(t) : f[n][i].data.qso # t[j].data.qso
      BY <2>4, <2>5, <2>7
    <3> QED BY <1>0, <2>2, <2>3, <2>4, <3>1, WithinJoined DEF PartOf
  <2>10. \A i \in 1..Len(f[m]) : f[m][i].data.qso \in First(m)
    <3> DEFINE u == f[n]
    <3>1. /\ Len(u \o t) = Len(u) + Len(t) /\ Len(u) \in Nat /\ Len(t) \in Nat
          /\ \A i \in 1..Len(u) : (u \o t)[i] = u[i]
          /\ \A i \in 1..(Len(u) + Len(t)) :
               i \notin 1..Len(u) => i - Len(u) \in 1..Len(t) /\ (u \o t)[i] = t[i - Len(u)]
      <4>1. u \in Seq(T) /\ t \in Seq(T)
        BY <2>3, <2>4
      <4> HIDE DEF u
      <4> QED BY <4>1
    <3> HIDE DEF u
    <3>2. f[m] = u \o t /\ \A i \in 1..Len(u) : u[i].data.qso \in First(n)
      BY <2>2, <2>4 DEF u
    <3> SUFFICES ASSUME NEW i \in 1..(Len(u) + Len(t))
                 PROVE  (u \o t)[i].data.qso \in First(m)
      BY <3>1, <3>2
    <3>3. CASE i \in 1..Len(u)
      BY <2>6, <3>1, <3>2, <3>3
    <3>4. CASE i \notin 1..Len(u)
      <4>1. i - Len(u) \in 1..Len(t) /\ (u \o t)[i] = t[i - Len(u)]
        BY <3>1, <3>4
      <4> QED BY <2>6, <2>7, <4>1
    <3> QED BY <3>3, <3>4
  <2>11. m \in Good
    BY <2>1, <2>8, <2>9, <2>10
  <2> QED BY <2>11 DEF m
<1>4. k \in Good
  <2>1. k \in Nat /\ k \in 0..k
    OBVIOUS
  <2> HIDE DEF Good, k
  <2> QED BY <1>2, <1>3, <2>1, Induction
<1> QED BY <1>1, <1>4

-----------------------------------------------------------------------------
(* A row of a log without deletions keeps its contact.                      *)
Known(id, q) == rows[id] # NoRow /\ rows[id].qso = q

TrueEntries == {e \in Entries : e.id # NoId => Known(e.id, e.data.qso)}

(* A list has one entry of a contact that has no row.                       *)
Single(s) ==
  \A i, j \in 1..Len(s) :
    s[i].id = NoId /\ s[j].id = NoId /\ s[i].data.qso = s[j].data.qso => i = j

(* The list has the contact q with the id r, before that entry.             *)
Behind(s, r, q) ==
  \E i, j \in 1..Len(s) :
    i < j /\ s[i].id = r /\ s[i].data.qso = q /\ s[j].id = NoId /\ s[j].data.qso = q

(* The list t may come after s: no contact without a row is new, and none   *)
(* is behind a row it was not behind.                                       *)
Follows(t, s) ==
  /\ Single(t) /\ Unsent(t) \subseteq Unsent(s)
  /\ \A r, q : Behind(t, r, q) => Behind(s, r, q)

ListsOK == WorldOK /\ IsInjective(Newest)

LEMMA ListsAreOK ==
  ASSUME env.setup \in Setups
  PROVE  ListsOK
<1>1. IsSetup(setup)
  BY OutboxAssumption DEF setup
<1> QED BY <1>1, WorldIsOK DEF ListsOK, IsSetup, Newest

LEMMA UnsentIs ==
  ASSUME NEW T, NEW s \in Seq(T), NEW q
  PROVE  q \in Unsent(s) <=> \E i \in 1..Len(s) : s[i].id = NoId /\ s[i].data.qso = q
<1>1. DOMAIN s = 1..Len(s)
  OBVIOUS
<1> QED BY <1>1 DEF Unsent, ToSet

LEMMA FollowsOn ==
  ASSUME NEW r, NEW s, NEW t, Follows(r, s), Follows(s, t)
  PROVE  Follows(r, t)
BY DEF Follows

LEMMA PartFollows ==
  ASSUME NEW T, NEW s \in Seq(T), NEW t \in Seq(T), PartOf(t, s), Single(s)
  PROVE  Follows(t, s)
<1>1. PICK f \in [1..Len(t) -> 1..Len(s)] :
        \A k, m \in 1..Len(t) :
          t[k] = s[f[k]] /\ (k < m /\ t[k].data.qso = t[m].data.qso => f[k] < f[m])
  BY DEF PartOf, Within
<1>2. Len(t) \in Nat /\ Len(s) \in Nat
  OBVIOUS
<1>3. Single(t)
  <2> SUFFICES ASSUME NEW i \in 1..Len(t), NEW j \in 1..Len(t), i < j,
                      t[i].id = NoId, t[j].id = NoId, t[i].data.qso = t[j].data.qso
               PROVE  FALSE
    <3>1. \A i, j \in 1..Len(t) : i = j \/ i < j \/ j < i
      BY <1>2
    <3> QED BY <3>1 DEF Single
  <2>1. f[i] < f[j] /\ t[i] = s[f[i]] /\ t[j] = s[f[j]] /\ f[i] \in 1..Len(s) /\ f[j] \in 1..Len(s)
    BY <1>1
  <2>2. f[i] = f[j]
    BY <2>1 DEF Single
  <2> QED BY <1>2, <2>1, <2>2
<1>4. Unsent(t) \subseteq Unsent(s)
  <2> SUFFICES ASSUME NEW q \in Unsent(t) PROVE q \in Unsent(s)
    OBVIOUS
  <2>1. PICK i \in 1..Len(t) : t[i].id = NoId /\ t[i].data.qso = q
    BY UnsentIs
  <2>2. f[i] \in 1..Len(s) /\ s[f[i]].id = NoId /\ s[f[i]].data.qso = q
    BY <1>1, <2>1
  <2> QED BY <2>2, UnsentIs
<1>5. ASSUME NEW r, NEW q, Behind(t, r, q)
      PROVE  Behind(s, r, q)
  <2>1. PICK i \in 1..Len(t), j \in 1..Len(t) :
          i < j /\ t[i].id = r /\ t[i].data.qso = q /\ t[j].id = NoId /\ t[j].data.qso = q
    BY <1>5 DEF Behind
  <2>2. f[i] < f[j] /\ t[i] = s[f[i]] /\ t[j] = s[f[j]] /\ f[i] \in 1..Len(s) /\ f[j] \in 1..Len(s)
    BY <1>1, <2>1
  <2> QED BY <2>1, <2>2 DEF Behind
<1> QED BY <1>3, <1>4, <1>5 DEF Follows

LEMMA SortFollows ==
  ASSUME ListsOK, NEW T, T \subseteq Entries, NEW s \in Seq(T), Single(s)
  PROVE  SortContacts(s) \in Seq(T) /\ Follows(SortContacts(s), s)
<1>1. \A e \in T : e.data.qso \in Qsos
  BY DEF Entries, ContactData
<1>2. SortContacts(s) \in Seq(T)
  BY <1>1, SortedElements DEF ListsOK, WorldOK
<1>3. PartOf(SortContacts(s), s)
  BY <1>1, SortIsPart DEF ListsOK, WorldOK
<1> QED BY <1>2, <1>3, PartFollows

LEMMA KeptFollows ==
  ASSUME NEW T, NEW s \in Seq(T), Single(s), NEW S
  PROVE  Kept(s, S) \in Seq(T) /\ Follows(Kept(s, S), s)
BY KeptElements, KeptIsPart, PartFollows

LEMMA SavedFollows ==
  ASSUME NEW T, T \subseteq Entries, NEW s \in Seq(T), Single(s)
  PROVE  /\ SavedContacts(s) \in Seq(T) /\ Follows(SavedContacts(s), s)
         /\ Unsent(SavedContacts(s)) = Unsent(s)
<1>1. SavedContacts(s) \in Seq(T) /\ Follows(SavedContacts(s), s)
  BY KeptFollows DEF SavedContacts
<1>2. s \in Seq(Entries)
  OBVIOUS
<1>3. Unsent(s) \subseteq Unsent(SavedContacts(s))
  BY <1>2, SavedKeeps
<1> QED BY <1>1, <1>3 DEF Follows

(* Entries change, but not what they are.                                   *)
LEMMA SameFollows ==
  ASSUME NEW T, NEW s \in Seq(T), NEW U, NEW t \in Seq(U), Single(s), Len(t) = Len(s),
         \A i \in 1..Len(s) : t[i].id = s[i].id /\ t[i].data.qso = s[i].data.qso
  PROVE  Follows(t, s)
<1>1. Single(t)
  BY DEF Single
<1>2. Unsent(t) \subseteq Unsent(s)
  BY UnsentIs
<1>3. ASSUME NEW r, NEW q, Behind(t, r, q)
      PROVE  Behind(s, r, q)
  BY <1>3 DEF Behind
<1> QED BY <1>1, <1>2, <1>3 DEF Follows

LEMMA Appending ==
  ASSUME NEW T, NEW s \in Seq(T), NEW x
  PROVE  /\ Len(s) \in Nat /\ Len(Append(s, x)) = Len(s) + 1 /\ Append(s, x)[Len(s) + 1] = x
         /\ \A i \in 1..Len(s) : Append(s, x)[i] = s[i]
         /\ \A i \in 1..(Len(s) + 1) : i \in 1..Len(s) \/ i = Len(s) + 1
OBVIOUS

LEMMA RowAppended ==
  ASSUME NEW T, NEW s \in Seq(T), NEW x \in T, Single(s), x.id # NoId
  PROVE  Append(s, x) \in Seq(T) /\ Follows(Append(s, x), s)
<1> DEFINE t == Append(s, x)
           l == Len(s)
<1>0. t \in Seq(T)
  OBVIOUS
<1>1. /\ l \in Nat /\ Len(t) = l + 1 /\ t[l + 1] = x /\ \A i \in 1..l : t[i] = s[i]
      /\ \A i \in 1..(l + 1) : i \in 1..l \/ i = l + 1
  BY Appending
<1> HIDE DEF t, l
<1>2. ASSUME NEW i \in 1..Len(t), t[i].id = NoId
      PROVE  i \in 1..l /\ s[i] = t[i]
  BY <1>1, <1>2
<1>3. Single(t)
  <2> SUFFICES ASSUME NEW i \in 1..Len(t), NEW j \in 1..Len(t),
                      t[i].id = NoId, t[j].id = NoId, t[i].data.qso = t[j].data.qso
               PROVE  i = j
    BY DEF Single
  <2>1. i \in 1..l /\ j \in 1..l /\ s[i] = t[i] /\ s[j] = t[j]
    BY <1>2
  <2> QED BY <2>1 DEF Single, l
<1>4. Unsent(t) \subseteq Unsent(s)
  BY <1>0, <1>2, UnsentIs DEF l
<1>5. ASSUME NEW r, NEW q, Behind(t, r, q)
      PROVE  Behind(s, r, q)
  <2>1. PICK i \in 1..Len(t), j \in 1..Len(t) :
          i < j /\ t[i].id = r /\ t[i].data.qso = q /\ t[j].id = NoId /\ t[j].data.qso = q
    BY <1>5 DEF Behind
  <2>2. j \in 1..l /\ s[j] = t[j]
    BY <1>2, <2>1
  <2>3. i \in 1..l /\ s[i] = t[i]
    BY <1>1, <2>1, <2>2
  <2> QED BY <2>1, <2>2, <2>3 DEF Behind, l
<1> QED BY <1>0, <1>3, <1>4, <1>5 DEF Follows, t

(* A contact is logged.                                                     *)
LEMMA NewAppended ==
  ASSUME NEW T, NEW s \in Seq(T), NEW x \in T, Single(s), x.id = NoId, x.data.qso \notin Unsent(s)
  PROVE  /\ Append(s, x) \in Seq(T) /\ Single(Append(s, x))
         /\ Unsent(Append(s, x)) = Unsent(s) \cup {x.data.qso}
         /\ \A r, q : q # x.data.qso /\ Behind(Append(s, x), r, q) => Behind(s, r, q)
<1> DEFINE t == Append(s, x)
           l == Len(s)
<1>0. t \in Seq(T)
  OBVIOUS
<1>1. /\ l \in Nat /\ Len(t) = l + 1 /\ t[l + 1] = x /\ \A i \in 1..l : t[i] = s[i]
      /\ \A i \in 1..(l + 1) : i \in 1..l \/ i = l + 1
      /\ l + 1 \in 1..(l + 1) /\ \A i \in 1..l : i \in 1..(l + 1)
  BY Appending
<1>2. \A i \in 1..l : s[i].id = NoId => s[i].data.qso # x.data.qso
  BY UnsentIs
<1> HIDE DEF t, l
<1>3. Single(t)
  <2> SUFFICES ASSUME NEW i \in 1..Len(t), NEW j \in 1..Len(t),
                      t[i].id = NoId, t[j].id = NoId, t[i].data.qso = t[j].data.qso
               PROVE  i = j
    BY DEF Single
  <2>1. CASE i \in 1..l /\ j \in 1..l
    BY <1>1, <2>1 DEF Single, l
  <2>2. CASE i = l + 1 \/ j = l + 1
    BY <1>1, <1>2, <2>2
  <2> QED BY <1>1, <2>1, <2>2
<1>4. Unsent(t) = Unsent(s) \cup {x.data.qso}
  <2>1. \A q : (\E i \in 1..Len(t) : t[i].id = NoId /\ t[i].data.qso = q)
                 <=> q = x.data.qso \/ \E i \in 1..l : s[i].id = NoId /\ s[i].data.qso = q
    BY <1>1
  <2>2. \A q : q \in Unsent(t) <=> \E i \in 1..Len(t) : t[i].id = NoId /\ t[i].data.qso = q
    BY <1>0, UnsentIs
  <2>3. \A q : q \in Unsent(s) <=> \E i \in 1..l : s[i].id = NoId /\ s[i].data.qso = q
    BY UnsentIs DEF l
  <2> QED BY <2>1, <2>2, <2>3
<1>5. ASSUME NEW r, NEW q, q # x.data.qso, Behind(t, r, q)
      PROVE  Behind(s, r, q)
  <2>1. PICK i \in 1..Len(t), j \in 1..Len(t) :
          i < j /\ t[i].id = r /\ t[i].data.qso = q /\ t[j].id = NoId /\ t[j].data.qso = q
    BY <1>5 DEF Behind
  <2>2. j \in 1..l /\ s[j] = t[j] /\ i \in 1..l /\ s[i] = t[i]
    BY <1>1, <1>5, <2>1
  <2> QED BY <2>1, <2>2 DEF Behind, l
<1> QED BY <1>0, <1>3, <1>4, <1>5 DEF t

(* A page comes before what was saved.                                      *)
LEMMA PageJoined ==
  ASSUME NEW T, NEW s \in Seq(T), NEW fresh \in Seq(T), Single(s), \A i \in 1..Len(fresh) : fresh[i].id # NoId
  PROVE  /\ fresh \o s \in Seq(T) /\ Single(fresh \o s) /\ Unsent(fresh \o s) \subseteq Unsent(s)
         /\ \A r, q : Behind(fresh \o s, r, q)
                        => Behind(s, r, q) \/ \E i \in 1..Len(fresh) : fresh[i].id = r
<1> DEFINE t == fresh \o s
           n == Len(fresh)
<1>0. t \in Seq(T)
  OBVIOUS
<1>1. /\ n \in Nat /\ Len(s) \in Nat
      /\ \A i \in 1..Len(t) : \/ i \in 1..n /\ t[i] = fresh[i]
                              \/ i \notin 1..n /\ i - n \in 1..Len(s) /\ t[i] = s[i - n] /\ i \in Int
  OBVIOUS
<1> HIDE DEF t
<1>2. ASSUME NEW i \in 1..Len(t), t[i].id = NoId
      PROVE  i \notin 1..n /\ i - n \in 1..Len(s) /\ t[i] = s[i - n] /\ i \in Int
  BY <1>1, <1>2
<1> HIDE DEF n
<1>3. Single(t)
  <2> SUFFICES ASSUME NEW i \in 1..Len(t), NEW j \in 1..Len(t),
                      t[i].id = NoId, t[j].id = NoId, t[i].data.qso = t[j].data.qso
               PROVE  i = j
    BY DEF Single
  <2>1. i - n = j - n /\ i \in Int /\ j \in Int
    BY <1>2 DEF Single
  <2> QED BY <1>1, <2>1
<1>4. Unsent(t) \subseteq Unsent(s)
  <2> SUFFICES ASSUME NEW q \in Unsent(t) PROVE q \in Unsent(s)
    OBVIOUS
  <2>1. PICK i \in 1..Len(t) : t[i].id = NoId /\ t[i].data.qso = q
    BY <1>0, UnsentIs
  <2>2. i - n \in 1..Len(s) /\ s[i - n].id = NoId /\ s[i - n].data.qso = q
    BY <1>2, <2>1
  <2> QED BY <2>2, UnsentIs
<1>5. ASSUME NEW r, NEW q, Behind(t, r, q), \A i \in 1..n : fresh[i].id # r
      PROVE  Behind(s, r, q)
  <2>1. PICK i \in 1..Len(t), j \in 1..Len(t) :
          i < j /\ t[i].id = r /\ t[i].data.qso = q /\ t[j].id = NoId /\ t[j].data.qso = q
    BY <1>5 DEF Behind
  <2>2. j - n \in 1..Len(s) /\ t[j] = s[j - n] /\ j \in Int
    BY <1>2, <2>1
  <2>3. i - n \in 1..Len(s) /\ t[i] = s[i - n] /\ i \in Int
    BY <1>1, <1>5, <2>1
  <2>4. i - n < j - n
    BY <1>1, <2>1, <2>2, <2>3
  <2> QED BY <2>1, <2>2, <2>3, <2>4 DEF Behind
<1> QED BY <1>0, <1>3, <1>4, <1>5 DEF t, n

LEMMA TrueEntryIs ==
  ASSUME WorldOK, NEW id \in RowIds, NEW data \in ContactData, NEW session \in Senders,
         Known(id, data.qso)
  PROVE  /\ Entry(id, "Committed", data, session) \in TrueEntries
         /\ Entry(id, "Committed", data, session).id = id
         /\ Entry(id, "Committed", data, session).data = data
BY EntryIs DEF TrueEntries, Entry

(* An answer or an event changes one entry, which has the row or no row     *)
(* yet; an answer comes to the entry that waits for it, unless a row of the *)
(* contact is before it.                                                    *)
LEMMA MergeFollows ==
  ASSUME ListsOK, NEW s \in Seq(TrueEntries), Single(s), NEW key, NEW id \in RowIds,
         NEW data \in ContactData, NEW session \in Senders, Known(id, data.qso),
         key = data.qso \/ key \notin Qsos
  PROVE  LET t == MergeContact(s, key, id, data, session)
         IN /\ t \in Seq(TrueEntries) /\ Follows(t, s)
            /\ ~Behind(s, id, key) => key \notin Unsent(t)
<1> DEFINE matching == {i \in DOMAIN s : IF s[i].id # NoId THEN s[i].id = id
                                         ELSE s[i].data.qso = key}
           merged(old) == Entry(id, "Committed", data, IF session = NoWindow THEN old ELSE session)
           m == Min(matching)
           x == merged(s[m].session)
           t == IF matching = {} THEN Append(s, merged(NoWindow))
                ELSE [s EXCEPT ![m] = x]
           Fits(v) == /\ v \in Seq(TrueEntries) /\ Follows(v, s)
                      /\ ~Behind(s, id, key) => key \notin Unsent(v)
<1>1. MergeContact(s, key, id, data, session) = SortContacts(t)
  BY DEF MergeContact
<1>2. WorldOK /\ id # NoId /\ TrueEntries \subseteq Entries
  BY DEF ListsOK, WorldOK, RowIds, TrueEntries
<1>3. \A old \in Senders : merged(old) \in TrueEntries /\ merged(old).id = id /\ merged(old).data = data
  BY <1>2, TrueEntryIs
<1>4. NoWindow \in Senders /\ DOMAIN s = 1..Len(s) /\ Len(s) \in Nat /\ \A i \in 1..Len(s) : s[i] \in TrueEntries
  BY DEF Senders
<1>5. \A i \in matching : s[i].data.qso = data.qso /\ (s[i].id = NoId => key = data.qso)
  <2> SUFFICES ASSUME NEW i \in matching
               PROVE  s[i].data.qso = data.qso /\ (s[i].id = NoId => key = data.qso)
    OBVIOUS
  <2>1. s[i] \in TrueEntries /\ s[i].data.qso \in Qsos
    BY <1>4 DEF TrueEntries, Entries, ContactData
  <2>2. CASE s[i].id = NoId
    BY <2>1, <2>2
  <2>3. CASE s[i].id # NoId
    BY <2>1, <2>3 DEF TrueEntries, Known
  <2> QED BY <2>2, <2>3
<1>6. Fits(t)
  <2>1. CASE matching = {}
    <3>1. t = Append(s, merged(NoWindow)) /\ merged(NoWindow) \in TrueEntries /\ merged(NoWindow).id # NoId
      BY <1>2, <1>3, <1>4, <2>1
    <3>2. \A i \in 1..Len(s) : ~(s[i].id = NoId /\ s[i].data.qso = key)
      BY <1>4, <2>1
    <3>3. key \notin Unsent(s)
      BY <3>2, UnsentIs
    <3> HIDE DEF t, merged, matching
    <3>4. t \in Seq(TrueEntries) /\ Follows(t, s)
      BY <3>1, RowAppended
    <3> QED BY <3>3, <3>4 DEF Follows
  <2>2. CASE matching # {}
    <3>1. m \in matching
      <4>1. \A i \in matching : i \in Int /\ i >= 1
        BY <1>4
      <4> HIDE DEF matching
      <4> QED BY <2>2, <4>1, FirstExists
    <3>2. m \in 1..Len(s) /\ s[m] \in TrueEntries /\ s[m].data.qso = data.qso
      BY <1>4, <1>5, <3>1
    <3>3. x \in TrueEntries /\ x.id = id /\ x.data = data
      <4>1. s[m].session \in Senders
        BY <3>2 DEF TrueEntries, Entries
      <4> QED BY <1>3, <4>1
    <3>4. t = [s EXCEPT ![m] = x]
      BY <2>2
    <3>5. \A i \in matching : m <= i
      <4>1. matching \subseteq Nat
        BY <1>4
      <4>2. PICK n \in matching : \A i \in matching : n <= i
        <5> HIDE DEF matching
        <5> QED BY <2>2, <4>1, LeastExists
      <4>3. \E k \in matching : \A i \in matching : i >= k
        BY <4>1, <4>2
      <4> HIDE DEF matching
      <4> QED BY <4>3 DEF Min
    <3>6. s[m].id = NoId \/ s[m].id = id
      BY <3>1
    <3>7. \A i \in 1..Len(s) : s[i].id = NoId /\ s[i].data.qso = key => i \in matching
      BY <1>4
    <3>8. s[m].id = NoId => key = data.qso
      BY <1>5, <3>1
    <3> HIDE DEF t, x, m, matching, merged
    <3>9. t \in Seq(TrueEntries) /\ Len(t) = Len(s) /\ t[m] = x /\ \A i \in 1..Len(s) : i # m => t[i] = s[i]
      BY <3>2, <3>3, <3>4
    <3>10. \A i \in 1..Len(s) : /\ t[i].data.qso = s[i].data.qso
                                /\ t[i].id = NoId => i # m /\ s[i] = t[i]
      BY <1>2, <3>2, <3>3, <3>9
    <3>11. Single(t)
      BY <3>9, <3>10 DEF Single
    <3>12. Unsent(t) \subseteq Unsent(s)
      <4>1. \A q : q \in Unsent(t) => \E i \in 1..Len(s) : s[i].id = NoId /\ s[i].data.qso = q
        BY <3>9, <3>10, UnsentIs
      <4> QED BY <4>1, UnsentIs
    <3>13. ~Behind(s, id, key) => key \notin Unsent(t)
      <4> SUFFICES ASSUME key \in Unsent(t) PROVE Behind(s, id, key)
        OBVIOUS
      <4>1. PICK j \in 1..Len(s) : t[j].id = NoId /\ t[j].data.qso = key
        BY <3>9, UnsentIs
      <4>2. j # m /\ s[j].id = NoId /\ s[j].data.qso = key
        BY <3>10, <4>1
      <4>3. m < j
        BY <1>4, <3>2, <3>5, <3>7, <4>2
      <4>4. s[m].id # NoId
        BY <3>2, <3>8, <4>2 DEF Single
      <4>5. key = data.qso
        <5>1. s[j].data.qso \in Qsos
          BY <1>4 DEF TrueEntries, Entries, ContactData
        <5> QED BY <4>2, <5>1
      <4> QED BY <3>2, <3>6, <4>2, <4>3, <4>4, <4>5 DEF Behind
    <3>14. ASSUME NEW r, NEW q, Behind(t, r, q)
           PROVE  Behind(s, r, q)
      <4>1. PICK i \in 1..Len(s), j \in 1..Len(s) :
              i < j /\ t[i].id = r /\ t[i].data.qso = q /\ t[j].id = NoId /\ t[j].data.qso = q
        BY <3>9, <3>14 DEF Behind
      <4>2. j # m /\ s[j].id = NoId /\ s[j].data.qso = q /\ s[i].data.qso = q
        BY <3>10, <4>1
      <4>3. CASE i # m
        BY <3>9, <4>1, <4>2, <4>3 DEF Behind
      <4>4. CASE i = m
        <5>1. s[m].id # NoId
          BY <4>1, <4>2, <4>4 DEF Single
        <5>2. s[i].id = r
          BY <3>3, <3>6, <3>9, <4>1, <4>4, <5>1
        <5> QED BY <4>1, <4>2, <5>2 DEF Behind
      <4> QED BY <4>3, <4>4
    <3> QED BY <3>9, <3>11, <3>12, <3>13, <3>14 DEF Follows
  <2> QED BY <2>1, <2>2
<1> HIDE DEF t
<1>7. SortContacts(t) \in Seq(TrueEntries) /\ Follows(SortContacts(t), t)
  BY <1>2, <1>6, SortFollows DEF Follows
<1>8. Follows(SortContacts(t), s)
  BY <1>6, <1>7, FollowsOn
<1>9. Unsent(SortContacts(t)) \subseteq Unsent(t)
  BY <1>7 DEF Follows
<1> QED BY <1>1, <1>6, <1>7, <1>8, <1>9

LEMMA WithoutClientFollows ==
  ASSUME WorldOK, NEW s \in Seq(TrueEntries), Single(s), NEW key
  PROVE  /\ WithoutClient(s, key) \in Seq(TrueEntries) /\ Follows(WithoutClient(s, key), s)
         /\ key \notin Unsent(WithoutClient(s, key))
<1>1. /\ WithoutClient(s, key) \in Seq(TrueEntries)
      /\ ToSet(WithoutClient(s, key)) = ToSet(s) \cap {e \in ToSet(s) : ClientId(e) # key}
  BY KeptElements DEF WithoutClient
<1>2. Follows(WithoutClient(s, key), s)
  BY KeptFollows DEF WithoutClient
<1> QED BY <1>1, <1>2 DEF Unsent, ClientId

LEMMA ResetFollows ==
  ASSUME ListsOK, NEW s \in Seq(TrueEntries), Single(s), NEW fresh \in Seq(TrueEntries),
         \A i \in 1..Len(fresh) : fresh[i].id # NoId
  PROVE  LET t == MergeResetPage(s, fresh)
         IN /\ t \in Seq(TrueEntries) /\ Single(t) /\ Unsent(t) \subseteq Unsent(s)
            /\ \A r, q : Behind(t, r, q) => Behind(s, r, q) \/ \E i \in 1..Len(fresh) : fresh[i].id = r
<1> DEFINE v == SavedContacts(s)
           u == fresh \o v
<1>1. MergeResetPage(s, fresh) = SortContacts(u) /\ TrueEntries \subseteq Entries
  BY DEF MergeResetPage, TrueEntries
<1>2. v \in Seq(TrueEntries) /\ Follows(v, s)
  BY <1>1, SavedFollows
<1> HIDE DEF v
<1>3. /\ u \in Seq(TrueEntries) /\ Single(u) /\ Unsent(u) \subseteq Unsent(v)
      /\ \A r, q : Behind(u, r, q) => Behind(v, r, q) \/ \E i \in 1..Len(fresh) : fresh[i].id = r
  BY <1>2, PageJoined DEF Follows
<1> HIDE DEF u
<1>4. SortContacts(u) \in Seq(TrueEntries) /\ Follows(SortContacts(u), u)
  BY <1>1, <1>3, SortFollows
<1> QED BY <1>1, <1>2, <1>3, <1>4 DEF Follows

-----------------------------------------------------------------------------
(* Why there is no second row of a contact without a cause.  Where no       *)
(* contact is deleted, rows, pages, events and requests agree on the        *)
(* contact of each row; a contact without one is in one list, once; and the *)
(* requests that may still make a row of it are counted.                    *)

Fetched == {e \in TrueEntries : e.id # NoId}
TrueEvents == {m \in LogEntries : Known(m.row, m.data.qso)}
TruePosts ==
  {p \in Posts : /\ p.entry \in TrueEntries
                 /\ p.stage # "sent" => p.row \in RowIds /\ Known(p.row, p.entry.data.qso)
                 /\ p.rescored \in Seq(TrueEvents)}

RowsKeepTheirContact ==
  /\ local \in [Windows -> Seq(TrueEntries)]
  /\ saved \in [Browsers -> Seq(TrueEntries)]
  /\ \A w \in Windows : load[w].found \in Seq(Fetched)
  /\ events \in [Windows -> Seq(TrueEvents)]
  /\ posts \subseteq TruePosts
  /\ deletes = {}

IsNew(p, q) == p.entry.id = NoId /\ p.entry.data.qso = q

OneListEach ==
  /\ \A w \in Windows :
       /\ Single(local[w]) /\ Single(saved[setup.browserOf[w]])
       /\ Unsent(saved[setup.browserOf[w]]) = Unsent(local[w])
       /\ Unsent(local[w]) \subseteq logged
  /\ \A v, w \in Windows : v # w => Unsent(local[v]) \cap Unsent(local[w]) = {}

(* A request that is waited for is of the page that is open, and its        *)
(* contact is still in the list.                                            *)
HeardOnce ==
  \A p \in posts : p.heard =>
    /\ p.page = page[p.win]
    /\ p.entry.id = NoId => p.entry.data.qso \in Unsent(local[p.win])

(* The answer to p will give the entry of q its id.                         *)
Serves(p, w, q) ==
  p.win = w /\ p.heard /\ IsNew(p, q) /\ p.stage # "sent" /\ ~Behind(local[w], p.row, q)
Served(w, q) == \E p \in posts : Serves(p, w, q)

(* A request that makes a row of q may be made, or its window waits for it. *)
MayInsert(q) == q \notin logged \/ \E w \in Windows : q \in Unsent(local[w]) /\ ~Served(w, q)
(* Those that may make one with nobody waiting.                             *)
Strays(q) == {p \in posts : IsNew(p, q) /\ p.stage = "sent" /\ ~p.heard}

Counts(q) ==
  inserts[q] + Cardinality(Strays(q)) + (IF MayInsert(q) THEN 1 ELSE 0) <= 1 + lost[q] + overtaken[q]

CountTypes == lost \in [Qsos -> Nat] /\ overtaken \in [Qsos -> Nat] /\ IsFiniteSet(posts)

Cause ==
  CountTypes /\ RowsKeepTheirContact /\ OneListEach /\ HeardOnce /\ \A q \in Qsos : Counts(q)

NothingDeleted == OneWindowPerBrowser /\ discarded = {}

(* The whole invariant where it holds.                                      *)
AllCause == OutboxInv /\ SurvivalInv /\ NothingDeleted /\ Cause

LEMMA ListsOfCause ==
  ASSUME AllCause
  PROVE  /\ ListsOK /\ DataTypes /\ TrueEntries \subseteq Entries
         /\ \A w \in Windows : local[w] \in Seq(TrueEntries) /\ Single(local[w])
         /\ \A w \in Windows : setup.browserOf[w] \in Browsers
         /\ \A p \in posts : p \in TruePosts /\ p \in Posts
         /\ \A q \in Qsos : Counts(q)
BY ListsAreOK DEF AllCause, Cause, SurvivalInv, DataTypes, RowsKeepTheirContact, OneListEach,
                  Browsers, Range, Windows, TruePosts, TrueEntries

RowsStay == \A r \in RowIds : rows[r] # NoRow => rows'[r] # NoRow /\ rows'[r].qso = rows[r].qso

LEMMA TrueStays ==
  ASSUME SameWorld, RowsStay
  PROVE  /\ \A r \in RowIds, q \in Qsos : Known(r, q) => Known(r, q)'
         /\ TrueEntries \subseteq TrueEntries' /\ Fetched \subseteq Fetched'
         /\ TrueEvents \subseteq TrueEvents' /\ TruePosts \subseteq TruePosts'
<1>1. \A r \in RowIds : \A q : Known(r, q) => Known(r, q)'
  BY DEF RowsStay, Known
<1>2. TrueEntries \subseteq TrueEntries'
  <2>1. \A e \in Entries : e.id # NoId => e.id \in RowIds
    BY DEF Entries, Ids
  <2> QED BY <1>1, <2>1, WorldStays DEF TrueEntries
<1>3. TrueEvents \subseteq TrueEvents'
  <2>1. \A m \in LogEntries : m.row \in RowIds
    BY DEF LogEntries
  <2> QED BY <1>1, <2>1, WorldStays DEF TrueEvents
<1>4. Fetched \subseteq Fetched'
  BY <1>2 DEF Fetched
<1>5. TruePosts \subseteq TruePosts'
  <2>1. Seq(TrueEvents) \subseteq Seq(TrueEvents')
    BY <1>3
  <2> QED BY <1>1, <1>2, <2>1, WorldStays DEF TruePosts
<1> QED BY <1>1, <1>2, <1>3, <1>4, <1>5

-----------------------------------------------------------------------------
(* The count of one contact.                                                *)

CountsKnown(q) ==
  /\ inserts[q] \in Nat /\ lost[q] \in Nat /\ overtaken[q] \in Nat /\ IsFiniteSet(Strays(q))
  /\ Counts(q)

LEMMA CountIsKnown ==
  ASSUME AllCause, NEW q \in Qsos
  PROVE  CountsKnown(q)
<1>1. IsFiniteSet(Strays(q))
  <2>1. Strays(q) \subseteq posts
    BY DEF Strays
  <2> QED BY <2>1, FS_Subset DEF AllCause, Cause, CountTypes
<1> QED BY <1>1 DEF AllCause, Cause, CountTypes, SurvivalInv, DataTypes, CountsKnown

CausesGrow(q) ==
  /\ lost'[q] \in Nat /\ overtaken'[q] \in Nat
  /\ lost'[q] >= lost[q] /\ overtaken'[q] >= overtaken[q]

MoreCauses(q) == lost'[q] > lost[q] \/ overtaken'[q] > overtaken[q]

(* No request more, or one more cause.                                      *)
LEMMA CountStays ==
  ASSUME NEW q, CountsKnown(q), CausesGrow(q), inserts'[q] = inserts[q], Strays(q)' \subseteq Strays(q),
         MayInsert(q)' => MayInsert(q) \/ MoreCauses(q)
  PROVE  Counts(q)'
<1> DEFINE a == Cardinality(Strays(q))
           b == Cardinality(Strays(q)')
           m == IF MayInsert(q) THEN 1 ELSE 0
           n == IF MayInsert(q)' THEN 1 ELSE 0
<1>1. a \in Nat /\ b \in Nat /\ b <= a
  BY FS_Subset, FS_CardinalityType DEF CountsKnown
<1>2. m \in {0, 1} /\ n \in {0, 1} /\ (n <= m \/ MoreCauses(q))
  OBVIOUS
<1>3. inserts[q] + a + m <= 1 + lost[q] + overtaken[q]
  BY DEF CountsKnown, Counts
<1> HIDE DEF a, b, m, n
<1>4. inserts'[q] + b + n <= 1 + lost'[q] + overtaken'[q]
  BY <1>1, <1>2, <1>3 DEF CountsKnown, CausesGrow, MoreCauses
<1> QED BY <1>4 DEF Counts, b, n

(* A request that nobody waits for any more: one more cause, as well.       *)
LEMMA CountMoves ==
  ASSUME NEW q, CountsKnown(q), CausesGrow(q), MoreCauses(q), inserts'[q] = inserts[q],
         NEW x, Strays(q)' \subseteq Strays(q) \cup {x}, MayInsert(q)
  PROVE  Counts(q)'
<1> DEFINE a == Cardinality(Strays(q))
           b == Cardinality(Strays(q)')
           n == IF MayInsert(q)' THEN 1 ELSE 0
<1>1. a \in Nat /\ b \in Nat /\ b <= a + 1
  <2> DEFINE S == Strays(q)
  <2>1. IsFiniteSet(S)
    BY DEF CountsKnown
  <2> HIDE DEF S
  <2>2. IsFiniteSet(S \cup {x}) /\ Cardinality(S) \in Nat /\ Cardinality(S \cup {x}) \in Nat
        /\ Cardinality(S \cup {x}) <= Cardinality(S) + 1
    <3>1. Cardinality(S) \in Nat
      BY <2>1, FS_CardinalityType
    <3>2. IsFiniteSet(S \cup {x}) /\ Cardinality(S \cup {x}) \in {Cardinality(S), Cardinality(S) + 1}
      BY <2>1, FS_AddElement
    <3> QED BY <3>1, <3>2
  <2>3. IsFiniteSet(Strays(q)') /\ Cardinality(Strays(q)') <= Cardinality(S \cup {x})
    BY <2>2, FS_Subset DEF S
  <2>4. Cardinality(Strays(q)') \in Nat
    BY <2>3, FS_CardinalityType
  <2> QED BY <2>2, <2>3, <2>4 DEF S
<1>2. n \in {0, 1}
  OBVIOUS
<1>3. inserts[q] + a + 1 <= 1 + lost[q] + overtaken[q]
  BY DEF CountsKnown, Counts
<1> HIDE DEF a, b, n
<1>4. inserts'[q] + b + n <= 1 + lost'[q] + overtaken'[q]
  BY <1>1, <1>2, <1>3 DEF CountsKnown, CausesGrow, MoreCauses
<1> QED BY <1>4 DEF Counts, b, n

(* A row is made: of a request that nobody waits for, or of the one that    *)
(* the window waits for.                                                    *)
LEMMA CountInserts ==
  ASSUME NEW q, CountsKnown(q), lost'[q] = lost[q], overtaken'[q] = overtaken[q],
         inserts'[q] = inserts[q] + 1,
         \/ /\ \E p \in Strays(q) : Strays(q)' \subseteq Strays(q) \ {p}
            /\ MayInsert(q)' => MayInsert(q)
         \/ Strays(q)' \subseteq Strays(q) /\ MayInsert(q) /\ ~MayInsert(q)'
  PROVE  Counts(q)'
<1> DEFINE a == Cardinality(Strays(q))
           b == Cardinality(Strays(q)')
           m == IF MayInsert(q) THEN 1 ELSE 0
           n == IF MayInsert(q)' THEN 1 ELSE 0
<1>1. IsFiniteSet(Strays(q)) /\ a \in Nat
  BY FS_CardinalityType DEF CountsKnown
<1>2. m \in {0, 1} /\ n \in {0, 1}
  OBVIOUS
<1>3. inserts[q] + a + m <= 1 + lost[q] + overtaken[q]
  BY DEF CountsKnown, Counts
<1>4. b \in Nat /\ b + n + 1 <= a + m
  <2>1. ASSUME NEW p \in Strays(q), Strays(q)' \subseteq Strays(q) \ {p}, MayInsert(q)' => MayInsert(q)
        PROVE  b \in Nat /\ b + n + 1 <= a + m
    <3> DEFINE S == Strays(q) \ {p}
    <3>1. IsFiniteSet(S) /\ Cardinality(S) = a - 1
      BY <1>1, <2>1, FS_RemoveElement
    <3>2. IsFiniteSet(Strays(q)') /\ b <= Cardinality(S)
      <4> HIDE DEF S
      <4>1. Strays(q)' \subseteq S
        BY <2>1 DEF S
      <4> QED BY <3>1, <4>1, FS_Subset
    <3>3. b \in Nat
      BY <3>2, FS_CardinalityType
    <3>4. n <= m
      BY <2>1
    <3> HIDE DEF S, a, b, n, m
    <3> QED BY <1>1, <1>2, <3>1, <3>2, <3>3, <3>4
  <2>2. ASSUME Strays(q)' \subseteq Strays(q), MayInsert(q), ~MayInsert(q)'
        PROVE  b \in Nat /\ b + n + 1 <= a + m
    <3>1. IsFiniteSet(Strays(q)') /\ b <= a
      BY <1>1, <2>2, FS_Subset
    <3>2. b \in Nat
      BY <3>1, FS_CardinalityType
    <3>3. m = 1 /\ n = 0
      BY <2>2
    <3> HIDE DEF a, b, n, m
    <3> QED BY <1>1, <3>1, <3>2, <3>3
  <2> QED BY <2>1, <2>2
<1> HIDE DEF a, b, m, n
<1>5. inserts'[q] + b + n <= 1 + lost'[q] + overtaken'[q]
  BY <1>1, <1>2, <1>3, <1>4 DEF CountsKnown
<1> QED BY <1>5 DEF Counts, b, n

(* Whoever was served stays served, while his entry is there.               *)
LEMMA MayStay ==
  ASSUME SameWorld, NEW q, logged \subseteq logged',
         \A v \in Windows : q \in Unsent(local'[v]) =>
           q \notin logged \/ (q \in Unsent(local[v]) /\ (Served(v, q) => Served(v, q)'))
  PROVE  MayInsert(q)' => MayInsert(q)
BY WorldStays DEF MayInsert

(* A contact that is posted is one of the list.                             *)
LEMMA NextIsOf ==
  ASSUME NEW T, NEW s \in Seq(T), NEW held
  PROVE  NextToCommit(s, held) \subseteq ToSet(s)
<1> DEFINE found == ToCommit(s, held)
<1>1. \A i \in found : i \in 1..Len(s) /\ i \in Int /\ i >= 1
  BY DEF ToCommit
<1>2. CASE found = {}
  BY <1>2 DEF NextToCommit
<1>3. CASE found # {}
  <2>1. Min(found) \in found
    <3> HIDE DEF found
    <3> QED BY <1>1, <1>3, FirstExists
  <2>2. NextToCommit(s, held) = {s[Min(found)]}
    BY <1>3 DEF NextToCommit
  <2>3. DOMAIN s = 1..Len(s)
    OBVIOUS
  <2> HIDE DEF found
  <2> QED BY <1>1, <2>1, <2>2, <2>3 DEF ToSet
<1> QED BY <1>2, <1>3

LEMMA PostIs ==
  ASSUME AllCause, NEW w \in Windows, NEW e \in TrueEntries
  PROVE  /\ Post(w, e) \in TruePosts
         /\ Post(w, e).page = page[w] /\ Post(w, e).win = w /\ Post(w, e).entry = e
         /\ Post(w, e).stage = "sent" /\ Post(w, e).heard
<1>1. e \in Entries /\ e.id \in Ids
  BY DEF TrueEntries, Entries
<1>2. page[w] \in Nat
  BY ListsOfCause DEF DataTypes
<1>3. <<>> \in Seq(LogEntries) /\ <<>> \in Seq(TrueEvents)
  OBVIOUS
<1>4. Post(w, e) \in Posts
  BY <1>1, <1>2, <1>3 DEF Post, Posts
<1>5. /\ Post(w, e).page = page[w] /\ Post(w, e).win = w /\ Post(w, e).entry = e
      /\ Post(w, e).stage = "sent" /\ Post(w, e).heard /\ Post(w, e).rescored = <<>>
  BY DEF Post
<1> QED BY <1>3, <1>4, <1>5 DEF TruePosts

(* A turn of w that ends with the list s: it follows the one before, but    *)
(* for the contacts that are logged, and whoever is still served is so, or  *)
(* there is one more cause.                                                 *)
TurnServes(w, s, others, new) ==
  /\ Single(s) /\ Unsent(s) \subseteq Unsent(local[w]) \cup new
  /\ \A p \in others : p.win = w /\ p.heard /\ p.entry.id = NoId => p.entry.data.qso \in Unsent(s)
  /\ \A q \in Unsent(s) \ new, p \in posts : Serves(p, w, q) =>
       \/ p \in others /\ ~Behind(s, p.row, q)
       \/ MoreCauses(q)

LEMMA TurnCauses ==
  ASSUME AllCause, SameWorld, NEW w \in Windows, NEW s \in Seq(TrueEntries), NEW ended, NEW others,
         Turn(w, s, ended, others), others \subseteq posts, \A p \in posts \ others : p.win = w,
         UNCHANGED <<rows, inserts, page, lost>>, deletes' \subseteq deletes,
         \A v \in Windows : load'[v].found \in Seq(Fetched),
         events' \in [Windows -> Seq(TrueEvents)],
         \A q \in Qsos : CausesGrow(q), lost' \in [Qsos -> Nat], overtaken' \in [Qsos -> Nat],
         NEW new, new \subseteq Qsos \ logged, logged' = logged \cup new,
         TurnServes(w, s, others, new)
  PROVE  Cause'
<1> DEFINE posted == NextToCommit(s, committing[w] \ ended)
           news == {Post(w, e) : e \in posted}
           b == setup.browserOf[w]
           kept == SavedContacts(s)
<1>1. /\ ListsOK /\ DataTypes /\ TrueEntries \subseteq Entries
      /\ \A v \in Windows : local[v] \in Seq(TrueEntries) /\ Single(local[v])
      /\ \A v \in Windows : setup.browserOf[v] \in Browsers
      /\ RowsKeepTheirContact /\ OneListEach /\ HeardOnce /\ CountTypes
  BY ListsOfCause DEF AllCause, Cause
<1>2. /\ local' = [local EXCEPT ![w] = s] /\ saved' = [saved EXCEPT ![b] = kept]
      /\ posts' = others \cup news
  BY DEF Turn
<1>3. kept \in Seq(TrueEntries) /\ Single(kept) /\ Unsent(kept) = Unsent(s)
  BY <1>1, SavedFollows DEF TurnServes, Follows
<1>4. /\ posted \subseteq ToSet(s) /\ ToSet(s) \subseteq TrueEntries
      /\ posted = {} \/ \E x : posted = {x}
      /\ \A e \in posted : e.id = NoId => e.data.qso \in Unsent(s)
  <2>1. posted \subseteq ToSet(s) /\ ToSet(s) \subseteq TrueEntries
    BY NextIsOf DEF ToSet
  <2>2. posted = {} \/ \E x : posted = {x}
    BY DEF NextToCommit
  <2> QED BY <2>1, <2>2 DEF Unsent
<1>5. /\ news \subseteq TruePosts /\ IsFiniteSet(news)
      /\ \A p \in news : /\ p.win = w /\ p.page = page[w] /\ p.stage = "sent" /\ p.heard
                         /\ p.entry.id = NoId => p.entry.data.qso \in Unsent(s)
  <2>1. \A e \in TrueEntries : /\ Post(w, e) \in TruePosts /\ Post(w, e).page = page[w]
                               /\ Post(w, e).win = w /\ Post(w, e).entry = e
                               /\ Post(w, e).stage = "sent" /\ Post(w, e).heard
    BY PostIs
  <2>2. IsFiniteSet(news)
    <3> HIDE DEF posted
    <3>1. CASE posted = {}
      <4>1. news = {}
        BY <3>1
      <4> QED BY <4>1, FS_EmptySet
    <3>2. ASSUME NEW x, posted = {x}
          PROVE  IsFiniteSet(news)
      <4>1. news = {Post(w, x)}
        BY <3>2
      <4>2. IsFiniteSet({Post(w, x)})
        BY FS_Singleton
      <4> QED BY <4>1, <4>2
    <3> QED BY <1>4, <3>1, <3>2
  <2> HIDE DEF posted
  <2> QED BY <1>4, <2>1, <2>2
<1> HIDE DEF posted, news, kept
<1>6. local'[w] = s /\ \A v \in Windows \ {w} : local'[v] = local[v]
  BY <1>1, <1>2 DEF DataTypes
<1>7. /\ saved'[b] = kept
      /\ \A v \in Windows \ {w} : saved'[setup.browserOf[v]] = saved[setup.browserOf[v]]
  <2>1. \A v \in Windows \ {w} : setup.browserOf[v] # b
    BY DEF AllCause, NothingDeleted, OneWindowPerBrowser, IsInjective, Windows, b
  <2>2. b \in Browsers
    BY <1>1
  <2> HIDE DEF b
  <2> QED BY <1>1, <1>2, <2>1, <2>2 DEF DataTypes
<1>8. RowsStay
  BY DEF RowsStay
<1>9. /\ Seq(TrueEntries) \subseteq Seq(TrueEntries') /\ Seq(Fetched) \subseteq Seq(Fetched')
      /\ Seq(TrueEvents) \subseteq Seq(TrueEvents') /\ TruePosts \subseteq TruePosts'
  BY <1>8, TrueStays
<1>10. RowsKeepTheirContact'
  <2>1. local' \in [Windows -> Seq(TrueEntries)] /\ saved' \in [Browsers -> Seq(TrueEntries)]
    BY <1>1, <1>2, <1>3 DEF RowsKeepTheirContact
  <2>2. posts' \subseteq TruePosts
    BY <1>1, <1>2, <1>5 DEF RowsKeepTheirContact
  <2>3. deletes' = {}
    BY <1>1 DEF RowsKeepTheirContact
  <2> QED BY <1>9, <2>1, <2>2, <2>3, WorldStays DEF RowsKeepTheirContact
<1>11. OneListEach'
  <2>1. ASSUME NEW v \in Windows
        PROVE  /\ Single(local'[v]) /\ Single(saved'[setup.browserOf[v]])
               /\ Unsent(saved'[setup.browserOf[v]]) = Unsent(local'[v])
               /\ Unsent(local'[v]) \subseteq logged'
    <3>1. CASE v = w
      BY <1>1, <1>3, <1>6, <1>7, <3>1 DEF TurnServes, OneListEach, b
    <3>2. CASE v # w
      BY <1>1, <1>6, <1>7, <3>2 DEF OneListEach
    <3> QED BY <3>1, <3>2
  <2>2. ASSUME NEW v \in Windows, NEW u \in Windows, v # u
        PROVE  Unsent(local'[v]) \cap Unsent(local'[u]) = {}
    <3>1. \A x \in Windows \ {w} : Unsent(local[x]) \subseteq logged
                                   /\ Unsent(local[x]) \cap Unsent(local[w]) = {}
      BY <1>1 DEF OneListEach
    <3>2. \A x \in Windows \ {w} : Unsent(local'[x]) \cap Unsent(s) = {}
      BY <1>6, <3>1 DEF TurnServes
    <3> QED BY <1>1, <1>6, <2>2, <3>2 DEF OneListEach
  <2> QED BY <2>1, <2>2, WorldStays DEF OneListEach
<1>12. HeardOnce'
  <2> SUFFICES ASSUME NEW p \in posts', p.heard
               PROVE  /\ p.page = page[p.win]
                      /\ p.entry.id = NoId => p.entry.data.qso \in Unsent(local'[p.win])
    BY DEF HeardOnce, Unsent
  <2>1. CASE p \in news
    BY <1>5, <1>6, <2>1
  <2>2. CASE p \in others
    <3>1. p \in posts /\ p.win \in Windows
      BY <1>1, <2>2 DEF DataTypes, Posts
    <3>2. CASE p.win = w
      BY <1>1, <1>6, <2>2, <3>1, <3>2 DEF HeardOnce, TurnServes
    <3>3. CASE p.win # w
      BY <1>1, <1>6, <2>2, <3>1, <3>3 DEF HeardOnce
    <3> QED BY <3>2, <3>3
  <2> QED BY <1>2, <2>1, <2>2
<1>13. CountTypes'
  <2>1. IsFiniteSet(posts')
    <3>1. IsFiniteSet(others)
      BY <1>1, FS_Subset DEF CountTypes
    <3> QED BY <1>2, <1>5, <3>1, FS_Union
  <2> QED BY <2>1, WorldStays DEF CountTypes
<1>14. ASSUME NEW q \in Qsos
       PROVE  Counts(q)'
  <2>1. Strays(q)' \subseteq Strays(q)
    BY <1>2, <1>5 DEF Strays, IsNew
  <2>2. MayInsert(q)' => MayInsert(q) \/ MoreCauses(q)
    <3> SUFFICES ASSUME ~MoreCauses(q)
                 PROVE  MayInsert(q)' => MayInsert(q)
      OBVIOUS
    <3>1. ASSUME NEW v \in Windows, q \in Unsent(local'[v]), q \in logged
          PROVE  q \in Unsent(local[v]) /\ (Served(v, q) => Served(v, q)')
      <4>1. CASE v = w
        <5>1. q \in Unsent(s) \ new
          BY <1>6, <3>1, <4>1
        <5>2. ASSUME NEW p \in posts, Serves(p, w, q)
              PROVE  Serves(p, w, q)' /\ p \in posts'
          <6>1. p \in others /\ ~Behind(s, p.row, q)
            BY <5>1, <5>2 DEF TurnServes
          <6>2. ~Behind(local[w], p.row, q)'
            BY <1>6, <6>1 DEF Behind
          <6> QED BY <1>2, <5>2, <6>1, <6>2 DEF Serves, IsNew
        <5> QED BY <4>1, <5>1, <5>2 DEF TurnServes, Served
      <4>2. CASE v # w
        <5>1. ASSUME NEW p \in posts, Serves(p, v, q)
              PROVE  Serves(p, v, q)' /\ p \in posts'
          <6>1. p \in others
            BY <4>2, <5>1 DEF Serves
          <6>2. Behind(local[v], p.row, q)' = Behind(local[v], p.row, q)
            BY <1>6, <4>2 DEF Behind
          <6> QED BY <1>2, <5>1, <6>1, <6>2 DEF Serves, IsNew
        <5> QED BY <1>6, <3>1, <4>2, <5>1 DEF Served
      <4> QED BY <4>1, <4>2
    <3> QED BY <3>1, MayStay
  <2> QED BY <2>1, <2>2, CountIsKnown, CountStays
<1> QED BY <1>10, <1>11, <1>12, <1>13, <1>14, WorldStays DEF Cause

(* What the turns leave alone.                                              *)
CauseFrame ==
  /\ UNCHANGED <<rows, inserts, page, lost>> /\ SameWorld /\ deletes' \subseteq deletes
  /\ \A v \in Windows : load'[v].found \in Seq(Fetched)
  /\ events' \in [Windows -> Seq(TrueEvents)]

LEMMA PlainTurn ==
  ASSUME AllCause, CauseFrame, NEW w \in Windows, NEW s \in Seq(TrueEntries),
         Follows(s, local[w]), Unsent(local[w]) \subseteq Unsent(s), Turn(w, s, {}, posts),
         UNCHANGED <<logged, overtaken>>
  PROVE  Cause'
<1>1. /\ lost' \in [Qsos -> Nat] /\ overtaken' \in [Qsos -> Nat] /\ HeardOnce
  BY DEF CauseFrame, AllCause, Cause, CountTypes
<1>2. \A q \in Qsos : CausesGrow(q)
  BY <1>1 DEF CausesGrow, CauseFrame
<1>3. TurnServes(w, s, posts, {})
  BY <1>1 DEF TurnServes, Follows, Serves, HeardOnce
<1> DEFINE new == {}
<1>4. logged' = logged \cup new /\ new \subseteq Qsos \ logged /\ TurnServes(w, s, posts, new)
  BY <1>3
<1>5. posts \subseteq posts /\ \A p \in posts \ posts : p.win = w
  OBVIOUS
<1> HIDE DEF new
<1> QED BY <1>1, <1>2, <1>4, <1>5, TurnCauses DEF CauseFrame

LEMMA LogCauses ==
  ASSUME AllCause, NEW w \in Windows, NEW q \in Qsos, LogContact(w, q)
  PROVE  Cause'
<1> DEFINE e == Entry(NoId, "Pending", [qso |-> q, ver |-> 0], w)
           t == Append(local[w], e)
           s == SortContacts(t)
<1>1. /\ ListsOK /\ DataTypes /\ TrueEntries \subseteq Entries /\ local[w] \in Seq(TrueEntries) /\ Single(local[w])
      /\ RowsKeepTheirContact /\ OneListEach /\ HeardOnce /\ CountTypes
  BY ListsOfCause DEF AllCause, Cause
<1>2. CauseFrame /\ overtaken' = overtaken /\ logged' = logged \cup {q} /\ q \notin logged
  BY <1>1 DEF DataTypes, LogContact, server, CauseFrame, SameWorld, RowsKeepTheirContact
<1>3. e \in TrueEntries /\ e.id = NoId /\ e.data.qso = q
  <2>1. e \in Entries /\ e.id = NoId /\ e.data.qso = q
    BY DEF Entry, Entries, Ids, ContactData, Senders
  <2> QED BY <2>1 DEF TrueEntries
<1>4. Turn(w, s, {}, posts)
  BY DEF LogContact
<1>5. q \notin Unsent(local[w])
  BY <1>1, <1>2 DEF OneListEach
<1> HIDE DEF e
<1>6. /\ t \in Seq(TrueEntries) /\ Single(t) /\ Unsent(t) = Unsent(local[w]) \cup {q}
      /\ \A r, x : x # q /\ Behind(t, r, x) => Behind(local[w], r, x)
  BY <1>1, <1>3, <1>5, NewAppended
<1> HIDE DEF t
<1>7. s \in Seq(TrueEntries) /\ Follows(s, t) /\ Unsent(s) = Unsent(t)
  <2>1. t \in Seq(Entries)
    BY <1>1, <1>6
  <2> QED BY <1>1, <1>6, <2>1, SortFollows, SortKeeps DEF ListsOK
<1> HIDE DEF s
<1>8. TurnServes(w, s, posts, {q})
  BY <1>1, <1>6, <1>7 DEF TurnServes, Follows, HeardOnce, Serves
<1>9. /\ \A x \in Qsos : CausesGrow(x)
      /\ lost' \in [Qsos -> Nat] /\ overtaken' \in [Qsos -> Nat]
  BY <1>1, <1>2 DEF CausesGrow, CauseFrame, CountTypes
<1>10. posts \subseteq posts /\ \A p \in posts \ posts : p.win = w
  OBVIOUS
<1>11. {q} \subseteq Qsos \ logged
  BY <1>2
<1> QED BY <1>2, <1>4, <1>7, <1>8, <1>9, <1>10, <1>11, TurnCauses DEF CauseFrame

LEMMA EditCauses ==
  ASSUME AllCause, NEW w \in Windows, NEW i \in DOMAIN local[w], EditContact(w, i)
  PROVE  Cause'
<1> DEFINE e == local[w][i]
           n == env.edits + 1
           edited(d) == [d EXCEPT !.status = IF d.id = NoId THEN "Pending" ELSE "Updating",
                                  !.data.ver = env.edits + 1]
           t == [j \in DOMAIN local[w] |->
                   LET d == local[w][j] IN
                   IF d.id = e.id /\ ClientId(d) = ClientId(e) THEN edited(d) ELSE d]
           s == SortContacts(t)
<1>1. /\ ListsOK /\ DataTypes /\ TrueEntries \subseteq Entries /\ local[w] \in Seq(TrueEntries) /\ Single(local[w])
      /\ RowsKeepTheirContact
  BY ListsOfCause DEF AllCause, Cause
<1>2. CauseFrame /\ logged' = logged /\ overtaken' = overtaken
  <2>1. SameWorld
    <3>1. env' = [env EXCEPT !.edits = @ + 1]
      BY DEF EditContact
    <3>2. IsEnv(env) /\ env.edits \in Nat
      BY <1>1 DEF DataTypes
    <3>3. env' = [setup |-> env.setup, edits |-> env.edits + 1, losses |-> env.losses,
                  refreshes |-> env.refreshes]
      BY <3>1, <3>2 DEF IsEnv
    <3> QED BY <3>2, <3>3 DEF IsEnv, SameWorld
  <2>2. UNCHANGED <<server, history, deletes, load, events, page, lost>>
    BY DEF EditContact
  <2> QED BY <1>1, <2>1, <2>2 DEF RowsKeepTheirContact, server, history, CauseFrame
<1>3. n \in Nat
  BY <1>1 DEF DataTypes
<1>4. \A d \in TrueEntries : edited(d) \in TrueEntries /\ edited(d).id = d.id /\ edited(d).data.qso = d.data.qso
  <2> SUFFICES ASSUME NEW d \in TrueEntries
               PROVE  edited(d) \in TrueEntries /\ edited(d).id = d.id /\ edited(d).data.qso = d.data.qso
    OBVIOUS
  <2> DEFINE st == IF d.id = NoId THEN "Pending" ELSE "Updating"
             dd == [d.data EXCEPT !.ver = n]
  <2>0. d \in Entries
    BY DEF TrueEntries
  <2>1. edited(d) = [[d EXCEPT !.status = st] EXCEPT !.data = dd]
    BY <2>0 DEF Entries
  <2>2. dd \in ContactData /\ dd.qso = d.data.qso
    <3>1. d.data \in ContactData
      BY <2>0 DEF Entries
    <3> HIDE DEF n
    <3> QED BY <1>3, <3>1 DEF ContactData
  <2>3. edited(d) \in Entries /\ edited(d).id = d.id /\ edited(d).data = dd
    <3> HIDE DEF dd, edited
    <3> QED BY <2>0, <2>1, <2>2 DEF Entries
  <2> HIDE DEF dd, edited
  <2> QED BY <2>2, <2>3 DEF TrueEntries
<1>5. Turn(w, s, {}, posts)
  BY DEF EditContact
<1> HIDE DEF edited
<1>6. \A j \in DOMAIN local[w] : /\ t[j] \in TrueEntries /\ t[j].id = local[w][j].id
                                 /\ t[j].data.qso = local[w][j].data.qso
  BY <1>1, <1>4
<1>7. t = [j \in DOMAIN local[w] |-> t[j]] /\ DOMAIN local[w] = 1..Len(local[w]) /\ Len(local[w]) \in Nat
  BY <1>1
<1> HIDE DEF t
<1>8. t \in Seq(TrueEntries) /\ Len(t) = Len(local[w])
  BY <1>6, <1>7
<1>9. Follows(t, local[w])
  BY <1>1, <1>6, <1>7, <1>8, SameFollows
<1>10. Unsent(t) = Unsent(local[w]) /\ t \in Seq(Entries)
  <2>1. local[w] \in Seq(Entries)
    BY <1>1
  <2>2. \A j \in DOMAIN local[w] : t[j] \in Entries
    BY <1>1, <1>6
  <2> QED BY <1>6, <1>7, <2>1, <2>2, MapKeeps
<1>11. s \in Seq(TrueEntries) /\ Follows(s, t) /\ Unsent(s) = Unsent(t)
  BY <1>1, <1>8, <1>9, <1>10, SortFollows, SortKeeps DEF ListsOK, Follows
<1> HIDE DEF s
<1>12. Follows(s, local[w])
  BY <1>9, <1>11, FollowsOn
<1> QED BY <1>2, <1>5, <1>10, <1>11, <1>12, PlainTurn

LEMMA RetryCauses ==
  ASSUME AllCause, NEW w \in Windows, RetryTimer(w)
  PROVE  Cause'
<1> DEFINE s == SortContacts(local[w])
<1>1. /\ ListsOK /\ DataTypes /\ TrueEntries \subseteq Entries /\ local[w] \in Seq(TrueEntries) /\ Single(local[w])
      /\ RowsKeepTheirContact
  BY ListsOfCause DEF AllCause, Cause
<1>2. CauseFrame /\ UNCHANGED <<logged, overtaken>>
  BY <1>1 DEF DataTypes, RetryTimer, server, history, CauseFrame, SameWorld, RowsKeepTheirContact
<1>3. Turn(w, s, {}, posts)
  BY DEF RetryTimer
<1>4. s \in Seq(TrueEntries) /\ Follows(s, local[w]) /\ Unsent(s) = Unsent(local[w])
  <2>1. local[w] \in Seq(Entries)
    BY <1>1
  <2> QED BY <1>1, <2>1, SortFollows, SortKeeps DEF ListsOK
<1> HIDE DEF s
<1> QED BY <1>2, <1>3, <1>4, PlainTurn

(* A page brings the row of a contact before the answer does: one cause.    *)
LEMMA LoadCauses ==
  ASSUME AllCause, NEW w \in Windows, LoadReply(w)
  PROVE  Cause'
<1> DEFINE found == load[w].found
           s == MergeResetPage(local[w], found)
           Late(q) == {p \in Overtaken(w, found) : p.entry.data.qso = q}
<1>1. /\ ListsOK /\ DataTypes /\ TrueEntries \subseteq Entries /\ local[w] \in Seq(TrueEntries) /\ Single(local[w])
      /\ RowsKeepTheirContact /\ HeardOnce /\ CountTypes
  BY ListsOfCause DEF AllCause, Cause
<1>2. /\ UNCHANGED <<rows, inserts, page, lost, deletes, logged, events>>
      /\ load' = [load EXCEPT ![w] = NoLoad]
      /\ overtaken' = [q \in Qsos |-> overtaken[q] + Cardinality(Late(q))]
      /\ Turn(w, s, {}, posts)
  BY DEF LoadReply, server
<1>3. CauseFrame
  <2>1. SameWorld
    BY <1>1 DEF LoadReply, DataTypes, SameWorld
  <2>2. \A v \in Windows : load'[v].found \in Seq(Fetched)
    <3>1. NoLoad.found \in Seq(Fetched)
      BY DEF NoLoad
    <3> QED BY <1>1, <1>2, <3>1 DEF RowsKeepTheirContact, DataTypes
  <2> QED BY <1>1, <1>2, <2>1, <2>2 DEF CauseFrame, RowsKeepTheirContact
<1>4. found \in Seq(TrueEntries) /\ \A i \in 1..Len(found) : found[i].id # NoId
  <2>1. found \in Seq(Fetched)
    BY <1>1 DEF RowsKeepTheirContact
  <2> QED BY <2>1 DEF Fetched
<1>5. \A q \in Qsos : Cardinality(Late(q)) \in Nat /\ (Late(q) # {} => Cardinality(Late(q)) > 0)
  <2> SUFFICES ASSUME NEW q \in Qsos
               PROVE  Cardinality(Late(q)) \in Nat /\ (Late(q) # {} => Cardinality(Late(q)) > 0)
    OBVIOUS
  <2>1. Late(q) \subseteq posts
    BY DEF Overtaken, InFlight
  <2> HIDE DEF Late
  <2>2. IsFiniteSet(Late(q))
    BY <1>1, <2>1, FS_Subset DEF CountTypes
  <2>3. Cardinality(Late(q)) \in Nat /\ (Cardinality(Late(q)) = 0 <=> Late(q) = {})
    BY <2>2, FS_CardinalityType, FS_EmptySet
  <2> QED BY <2>3
<1> HIDE DEF found
<1>6. /\ s \in Seq(TrueEntries) /\ Single(s) /\ Unsent(s) \subseteq Unsent(local[w])
      /\ \A r, q : Behind(s, r, q) => Behind(local[w], r, q) \/ \E i \in 1..Len(found) : found[i].id = r
  BY <1>1, <1>4, ResetFollows
<1>7. Unsent(local[w]) \subseteq Unsent(s)
  <2>1. local[w] \in Seq(Entries) /\ found \in Seq(Entries)
    BY <1>1, <1>4
  <2> QED BY <1>1, <2>1, ResetKeeps DEF ListsOK
<1> HIDE DEF s
<1>8. /\ \A q \in Qsos : CausesGrow(q)
      /\ lost' \in [Qsos -> Nat] /\ overtaken' \in [Qsos -> Nat]
  <2> HIDE DEF Late
  <2> QED BY <1>1, <1>2, <1>5 DEF CausesGrow, CountTypes
<1>9. ASSUME NEW q \in Unsent(s), NEW p \in posts, Serves(p, w, q), Behind(s, p.row, q)
      PROVE  MoreCauses(q)
  <2>1. \E i \in 1..Len(found) : found[i].id = p.row
    BY <1>6, <1>9 DEF Serves
  <2>2. DOMAIN found = 1..Len(found)
    BY <1>4
  <2>3. p \in Late(q)
    BY <1>1, <1>9, <2>1, <2>2 DEF Overtaken, InFlight, Own, Serves, IsNew, HeardOnce
  <2>4. q \in Qsos
    BY <1>1, <1>9, ListsOfCause DEF Serves, IsNew, Posts, Entries, ContactData
  <2>5. Cardinality(Late(q)) \in Nat /\ Cardinality(Late(q)) > 0
    BY <1>5, <2>3, <2>4
  <2> HIDE DEF Late
  <2> QED BY <1>1, <1>2, <2>4, <2>5 DEF MoreCauses, CountTypes
<1> DEFINE new == {}
<1>10. TurnServes(w, s, posts, new)
  BY <1>1, <1>6, <1>7, <1>9 DEF TurnServes, HeardOnce
<1>11. logged' = logged \cup new /\ new \subseteq Qsos \ logged
  BY <1>2
<1>12. posts \subseteq posts /\ \A p \in posts \ posts : p.win = w
  OBVIOUS
<1> HIDE DEF new
<1> QED BY <1>2, <1>3, <1>6, <1>8, <1>10, <1>11, <1>12, TurnCauses DEF CauseFrame

LEMMA ReceiveCauses ==
  ASSUME AllCause, NEW w \in Windows, Receive(w), ~UNCHANGED <<local, saved, committing, posts>>
  PROVE  Cause'
<1> DEFINE m == Head(events[w])
           s == MergeContact(local[w], NoId, m.row, m.data, m.session)
<1>1. /\ ListsOK /\ DataTypes /\ TrueEntries \subseteq Entries /\ local[w] \in Seq(TrueEntries) /\ Single(local[w])
      /\ RowsKeepTheirContact
  BY ListsOfCause DEF AllCause, Cause
<1>2. events[w] \in Seq(TrueEvents) /\ events[w] # <<>> /\ events' = [events EXCEPT ![w] = Tail(@)]
  BY <1>1 DEF RowsKeepTheirContact, Receive
<1>3. m \in TrueEvents /\ Tail(events[w]) \in Seq(TrueEvents)
  BY <1>2
<1>4. events' \in [Windows -> Seq(TrueEvents)]
  BY <1>1, <1>2, <1>3 DEF RowsKeepTheirContact
<1>5. CauseFrame /\ UNCHANGED <<logged, overtaken>>
  BY <1>1, <1>4 DEF DataTypes, Receive, server, history, CauseFrame, SameWorld, RowsKeepTheirContact
<1>6. Turn(w, s, {}, posts)
  <2>1. m.type = "log_entry"
    BY <1>3 DEF TrueEvents, LogEntries
  <2> HIDE DEF s
  <2>2. Turn(w, s, {}, posts) \/ UNCHANGED <<lists, posts>>
    BY <2>1 DEF Receive, s, m
  <2> QED BY <2>2 DEF lists
<1> HIDE DEF m
<1>7. m.row \in RowIds /\ m.data \in ContactData /\ m.session \in Senders /\ Known(m.row, m.data.qso)
  BY <1>3 DEF TrueEvents, LogEntries
<1>8. NoId \notin Qsos
  BY <1>1 DEF ListsOK, WorldOK
<1>9. s \in Seq(TrueEntries) /\ Follows(s, local[w])
  BY <1>1, <1>7, <1>8, MergeFollows
<1>10. Unsent(local[w]) \subseteq Unsent(s)
  <2>1. NoId \notin Unsent(local[w])
    BY <1>1, <1>8 DEF Unsent, ToSet, Entries, ContactData
  <2>2. local[w] \in Seq(Entries)
    BY <1>1
  <2> QED BY <1>1, <1>7, <2>1, <2>2, MergeKeeps DEF ListsOK
<1> HIDE DEF s
<1> QED BY <1>5, <1>6, <1>9, <1>10, PlainTurn

(* The answer gives the entry its id, or the page with the row overtook it. *)
LEMMA ReplyCauses ==
  ASSUME AllCause, NEW w \in Windows, NEW p \in posts, Reply(w, p)
  PROVE  Cause'
<1> DEFINE e == p.entry
           key == ClientId(e)
           kept == WithoutClient(local[w], key)
           merged == MergeContact(local[w], key, p.row, e.data, e.session)
           failed == MarkContactFailed(local[w], e)
           Fits(s) == /\ s \in Seq(TrueEntries) /\ Follows(s, local[w])
                      /\ Unsent(local[w]) \ {key} \subseteq Unsent(s)
                      /\ ~Behind(local[w], p.row, key) => key \notin Unsent(s)
<1>1. /\ ListsOK /\ DataTypes /\ TrueEntries \subseteq Entries /\ local[w] \in Seq(TrueEntries) /\ Single(local[w])
      /\ RowsKeepTheirContact /\ HeardOnce /\ CountTypes
  BY ListsOfCause DEF AllCause, Cause
<1>2. /\ p \in TruePosts /\ e \in TrueEntries /\ e \in Entries
      /\ p.row \in RowIds /\ Known(p.row, e.data.qso)
  <2>1. p.stage # "sent" /\ p \in TruePosts
    BY ListsOfCause DEF Reply
  <2> QED BY <1>1, <2>1 DEF TruePosts
<1>3. CauseFrame /\ UNCHANGED <<logged, overtaken>>
  BY <1>1 DEF DataTypes, Reply, server, history, CauseFrame, SameWorld, RowsKeepTheirContact
<1>4. PICK s \in {kept, merged} : Turn(w, s, FreedKeys(p), posts \ {p})
  BY <1>2 DEF Reply, Known
<1>5. key = e.data.qso \/ key \notin Qsos
  BY <1>1, <1>2 DEF ClientId, Entries, Ids, RowIds, ListsOK, WorldOK
<1>6. local[w] \in Seq(Entries)
  BY <1>1
<1>7. e.data \in ContactData /\ e.session \in Senders
  BY <1>2 DEF Entries
<1> HIDE DEF key
<1>8. Fits(kept)
  BY <1>1, <1>6, WithoutClientFollows, WithoutClientKeeps DEF ListsOK
<1>9. Fits(merged)
  <2>1. /\ merged \in Seq(TrueEntries) /\ Follows(merged, local[w])
        /\ ~Behind(local[w], p.row, key) => key \notin Unsent(merged)
    BY <1>1, <1>2, <1>5, <1>7, MergeFollows
  <2>2. Unsent(local[w]) \ {key} \subseteq Unsent(merged)
    BY <1>1, <1>2, <1>6, <1>7, MergeKeeps DEF ListsOK
  <2> HIDE DEF merged
  <2> QED BY <2>1, <2>2
<1> HIDE DEF kept, merged
<1>10. Fits(s)
  BY <1>4, <1>8, <1>9
<1>11. Own(w, p) /\ p \in InFlight(w) /\ KeyOf(p) = key
  BY DEF Reply, InFlight, KeyOf, key
<1> DEFINE new == {}
           others == posts \ {p}
<1>12. TurnServes(w, s, others, new)
  <2>1. ASSUME NEW o \in others, o.win = w, o.heard, o.entry.id = NoId
        PROVE  o.entry.data.qso \in Unsent(s)
    <3>1. o \in InFlight(w) /\ o.entry.data.qso \in Unsent(local[w])
      BY <1>1, <2>1 DEF HeardOnce, InFlight, Own
    <3>2. KeyOf(o) # key
      BY <1>11, <2>1, <3>1 DEF AllCause, OutboxInv, Tracked
    <3>3. KeyOf(o) = o.entry.data.qso
      BY <2>1 DEF KeyOf, ClientId
    <3> QED BY <1>10, <3>1, <3>2, <3>3
  <2>2. ASSUME NEW q \in Unsent(s), NEW o \in posts, Serves(o, w, q)
        PROVE  o \in others /\ ~Behind(s, o.row, q)
    <3>1. ~Behind(local[w], o.row, q) /\ ~Behind(s, o.row, q)
      BY <1>10, <2>2 DEF Serves, Follows
    <3>2. o # p
      <4> SUFFICES ASSUME o = p PROVE FALSE
        OBVIOUS
      <4>1. key = q
        BY <2>2 DEF Serves, IsNew, key, ClientId
      <4> QED BY <1>10, <2>2, <3>1, <4>1
    <3> QED BY <3>1, <3>2
  <2> HIDE DEF others
  <2> QED BY <1>10, <2>1, <2>2 DEF TurnServes, Follows
<1>13. /\ \A q \in Qsos : CausesGrow(q)
       /\ lost' \in [Qsos -> Nat] /\ overtaken' \in [Qsos -> Nat]
  BY <1>1, <1>3 DEF CausesGrow, CauseFrame, CountTypes
<1>14. logged' = logged \cup new /\ new \subseteq Qsos \ logged
  BY <1>3
<1>15. others \subseteq posts /\ \A o \in posts \ others : o.win = w
  BY <1>11 DEF Own
<1>16. Turn(w, s, FreedKeys(p), others) /\ s \in Seq(TrueEntries)
  BY <1>4, <1>10
<1> HIDE DEF new, others
<1> QED BY <1>3, <1>12, <1>13, <1>14, <1>15, <1>16, TurnCauses DEF CauseFrame

-----------------------------------------------------------------------------
(* The steps in which no list changes.                                      *)

LEMMA StayCauses ==
  ASSUME AllCause, SameWorld, RowsStay, UNCHANGED <<local, saved, page, logged>>, deletes' \subseteq deletes,
         \A v \in Windows : load'[v].found \in Seq(Fetched), events' \in [Windows -> Seq(TrueEvents)],
         posts' \subseteq TruePosts', IsFiniteSet(posts'),
         lost' \in [Qsos -> Nat], overtaken' \in [Qsos -> Nat],
         \A p \in posts' : p.heard =>
           \E o \in posts : o.heard /\ o.win = p.win /\ o.page = p.page /\ o.entry = p.entry,
         \A q \in Qsos : Counts(q)'
  PROVE  Cause'
<1>1. RowsKeepTheirContact /\ OneListEach /\ HeardOnce
  BY DEF AllCause, Cause
<1>2. /\ Seq(TrueEntries) \subseteq Seq(TrueEntries') /\ Seq(Fetched) \subseteq Seq(Fetched')
      /\ Seq(TrueEvents) \subseteq Seq(TrueEvents')
  BY TrueStays
<1>3. RowsKeepTheirContact'
  <2>1. deletes' = {}
    BY <1>1 DEF RowsKeepTheirContact
  <2> QED BY <1>1, <1>2, <2>1, WorldStays DEF RowsKeepTheirContact
<1>4. OneListEach'
  BY <1>1, WorldStays DEF OneListEach
<1>5. HeardOnce'
  BY <1>1 DEF HeardOnce
<1>6. CountTypes'
  BY WorldStays DEF CountTypes
<1> QED BY <1>3, <1>4, <1>5, <1>6, WorldStays DEF Cause

(* No row is made and nobody who is served loses that.                      *)
LEMMA StayCounts ==
  ASSUME AllCause, SameWorld, UNCHANGED <<local, logged>>, NEW q \in Qsos,
         inserts'[q] = inserts[q], CausesGrow(q),
         Strays(q)' \subseteq Strays(q),
         (\A p \in posts : \A v \in Windows : Serves(p, v, q) => Served(v, q)') \/ MoreCauses(q)
  PROVE  Counts(q)'
<1>1. (\A p \in posts : \A v \in Windows : Serves(p, v, q) => Served(v, q)') => (MayInsert(q)' => MayInsert(q))
  BY MayStay DEF Served
<1> QED BY <1>1, CountIsKnown, CountStays

LEMMA QuietCauses ==
  ASSUME AllCause, SameWorld,
         UNCHANGED <<rows, inserts, local, saved, posts, page, logged, lost, overtaken>>,
         deletes' \subseteq deletes,
         \A v \in Windows : load'[v].found \in Seq(Fetched), events' \in [Windows -> Seq(TrueEvents)]
  PROVE  Cause'
<1>1. CountTypes /\ posts \subseteq TruePosts
  BY DEF AllCause, Cause, RowsKeepTheirContact
<1>2. RowsStay
  BY DEF RowsStay
<1>3. posts' \subseteq TruePosts'
  BY <1>1, <1>2, TrueStays
<1>4. ASSUME NEW q \in Qsos
      PROVE  Counts(q)'
  <2>1. Strays(q)' = Strays(q) /\ CausesGrow(q)
    BY <1>1 DEF Strays, IsNew, CausesGrow, CountTypes
  <2>2. ASSUME NEW p \in posts, NEW v \in Windows, Serves(p, v, q)
        PROVE  Served(v, q)'
    <3>1. Behind(local[v], p.row, q)' = Behind(local[v], p.row, q)
      BY DEF Behind
    <3>2. p \in posts' /\ Serves(p, v, q)'
      BY <2>2, <3>1 DEF Serves, IsNew
    <3> QED BY <3>2 DEF Served
  <2> QED BY <2>1, <2>2, StayCounts
<1> QED BY <1>1, <1>2, <1>3, <1>4, StayCauses DEF CountTypes

-----------------------------------------------------------------------------
(* What is sent to the windows is true of the rows.                         *)

LEMMA FoundIsTrue ==
  ASSUME AllCause, NEW w \in Windows, ServeLoad(w)
  PROVE  \A v \in Windows : load'[v].found \in Seq(Fetched)
<1>1. ListsOK /\ DataTypes /\ RowsKeepTheirContact /\ SurvivalInv
  BY ListsOfCause DEF AllCause, Cause
<1>2. \A r \in RowIds : rows[r] # NoRow => Entry(r, "Committed", rows[r], NoWindow) \in Fetched
  <2> SUFFICES ASSUME NEW r \in RowIds, rows[r] # NoRow
               PROVE  Entry(r, "Committed", rows[r], NoWindow) \in Fetched
    OBVIOUS
  <2>1. rows[r] \in ContactData /\ NoWindow \in Senders
    BY <1>1 DEF DataTypes, Senders
  <2>3. r # NoId
    BY <1>1 DEF ListsOK, WorldOK, RowIds
  <2>2. Known(r, rows[r].qso)
    BY DEF Known
  <2> QED BY <1>1, <2>1, <2>2, <2>3, TrueEntryIs DEF ListsOK, Fetched
<1>3. PICK page1 \in Seq(Fetched) :
        load' = [load EXCEPT ![w] = [[load[w] EXCEPT !.stage = "answered"] EXCEPT !.found = page1]]
  <2>1. Fetched \subseteq Entries
    BY DEF Fetched, TrueEntries
  <2> QED BY <1>1, <1>2, <2>1, FoundOf
<1>4. load[w] \in Loads
  BY <1>1 DEF DataTypes
<1>5. [[load[w] EXCEPT !.stage = "answered"] EXCEPT !.found = page1].found = page1
  BY <1>4 DEF Loads
<1> QED BY <1>1, <1>3, <1>5 DEF DataTypes, RowsKeepTheirContact

LEMMA StayingCauses ==
  ASSUME AllCause, NEW w \in Windows,
         \/ Refresh(w) \/ \E f \in setup.filters : Search(w, f)
         \/ LoadFails(w) \/ Disconnect(w) \/ Connect(w) \/ ServeLoad(w)
  PROVE  Cause'
<1>1. DataTypes /\ RowsKeepTheirContact
  BY ListsOfCause DEF AllCause, Cause
<1>2. UNCHANGED <<rows, inserts, local, saved, posts, deletes, page, logged, lost, overtaken>>
  BY DEF Refresh, Search, LoadFails, Disconnect, Connect, ServeLoad, server, lists, history
<1>3. SameWorld
  BY <1>1 DEF DataTypes, IsEnv, SameWorld, Refresh, Search, LoadFails, Disconnect, Connect,
              ServeLoad, Counted
<1>4. \A v \in Windows : load'[v].found \in Seq(Fetched)
  <2>1. CASE ServeLoad(w)
    BY <2>1, FoundIsTrue
  <2>2. CASE ~ServeLoad(w)
    <3>1. NoLoad.found \in Seq(Fetched) /\ Loading.found \in Seq(Fetched)
      BY DEF NoLoad, Loading
    <3>2. \/ load' = load \/ load' = [load EXCEPT ![w] = NoLoad]
          \/ load' = [load EXCEPT ![w] = Loading]
          \/ load' = [load EXCEPT ![w] = IF @ = NoLoad THEN Loading ELSE @]
      BY <2>2 DEF Refresh, Search, LoadFails, Disconnect, Connect, StartLoad
    <3> QED BY <1>1, <3>1, <3>2 DEF DataTypes, RowsKeepTheirContact
  <2> QED BY <2>1, <2>2
<1>5. events' \in [Windows -> Seq(TrueEvents)]
  <2>1. <<>> \in Seq(TrueEvents) /\ events \in [Windows -> Seq(TrueEvents)]
    BY <1>1 DEF RowsKeepTheirContact
  <2> QED BY <2>1 DEF Refresh, Search, LoadFails, Disconnect, Connect, ServeLoad
<1> QED BY <1>2, <1>3, <1>4, <1>5, QuietCauses

-----------------------------------------------------------------------------
(* What the backend and the network make of the requests.                   *)

(* A window waits for one request of a contact at a time.                   *)
LEMMA OneIsHeard ==
  ASSUME AllCause, NEW o \in posts, NEW p \in posts, o.heard, p.heard, o.win = p.win,
         o.entry.id = NoId, p.entry.id = NoId, o.entry.data.qso = p.entry.data.qso
  PROVE  o = p
<1>1. p.win \in Windows
  BY ListsOfCause DEF Posts
<1>2. o \in InFlight(p.win) /\ p \in InFlight(p.win)
  BY DEF AllCause, Cause, HeardOnce, InFlight, Own
<1>3. KeyOf(o) = KeyOf(p)
  BY DEF KeyOf, ClientId
<1> QED BY <1>1, <1>2, <1>3 DEF AllCause, OutboxInv, Tracked

LEMMA WaitingMay ==
  ASSUME AllCause, NEW p \in posts, p.heard, p.entry.id = NoId, p.stage = "sent"
  PROVE  MayInsert(p.entry.data.qso)
<1> DEFINE q == p.entry.data.qso
<1>1. p.win \in Windows /\ q \in Unsent(local[p.win])
  BY ListsOfCause DEF Posts, AllCause, Cause, HeardOnce
<1>2. ~Served(p.win, q)
  <2> SUFFICES ASSUME NEW o \in posts, Serves(o, p.win, q) PROVE FALSE
    BY DEF Served
  <2>1. o = p
    BY OneIsHeard DEF Serves, IsNew
  <2> QED BY <2>1 DEF Serves
<1> QED BY <1>1, <1>2 DEF MayInsert

(* What is stored of a contact is no row that is missing.                   *)
LEMMA ContactIsARow ==
  ASSUME env.setup \in Setups
  PROVE  NoRow \notin ContactData
BY OutboxAssumption DEF IsSetup, setup, ContactData, Qsos, Newest

LEMMA StoreCauses ==
  ASSUME AllCause, NEW p \in posts, StorePost(p)
  PROVE  Cause'
<1> DEFINE q == p.entry.data.qso
<1>0. PICK r : r = StoreRow(p)
  OBVIOUS
<1>1. /\ ListsOK /\ DataTypes /\ CountTypes /\ RowsKeepTheirContact /\ OneListEach /\ SurvivalInv
      /\ p \in TruePosts /\ p \in Posts
  BY ListsOfCause DEF AllCause, Cause
<1>2. /\ p.entry \in TrueEntries /\ p.entry \in Entries /\ p.entry.data \in ContactData
      /\ q \in Qsos /\ p.win \in Windows
  BY <1>1 DEF TruePosts, Posts, Entries, ContactData
<1>3. r \in RowIds /\ p.stage = "sent"
      /\ rows' = [rows EXCEPT ![r] = p.entry.data]
      /\ inserts' = IF rows[r] = NoRow THEN [inserts EXCEPT ![q] = @ + 1] ELSE inserts
  BY <1>0 DEF StorePost
<1>4. PICK S \in Rescored(r) :
        posts' = (posts \ {p}) \cup {[p EXCEPT !.stage = "stored", !.row = r, !.rescored = S]}
  BY <1>0 DEF StorePost
<1>21. PICK n : n = [p EXCEPT !.stage = "stored", !.row = r, !.rescored = S]
  OBVIOUS
<1>5. SameWorld /\ UNCHANGED <<local, saved, logged, deletes, load, events, page, lost, overtaken>>
  BY <1>1 DEF DataTypes, StorePost, lists, history, SameWorld
<1>6. p.entry.id = NoId => rows[r] = NoRow
  BY <1>0, <1>1, <1>3, InsertRowIsFree DEF StoreRow
<1>7. p.entry.id # NoId => Known(r, q) /\ rows[r] # NoRow
  BY <1>0, <1>2 DEF StoreRow, TrueEntries, Known
<1>8. rows'[r] = p.entry.data /\ \A s \in RowIds \ {r} : rows'[s] = rows[s]
  <2> QED BY <1>1, <1>3 DEF DataTypes
<1>9. rows'[r] # NoRow
  BY <1>1, <1>2, <1>8, ContactIsARow DEF DataTypes
<1>10. n.entry = p.entry /\ n.row = r /\ n.rescored = S /\ n.stage = "stored" /\ n.heard = p.heard
       /\ n.win = p.win /\ n.page = p.page
  <2> QED BY <1>1, <1>21 DEF Posts
<1>11. posts' = (posts \ {p}) \cup {n}
  BY <1>4, <1>21
<1>12. S \in Seq(TrueEvents)
  <2>1. \A s \in RowIds : rows[s] # NoRow => LogEntry(s, rows[s], NoWindow) \in TrueEvents
    <3> SUFFICES ASSUME NEW s \in RowIds, rows[s] # NoRow
                 PROVE  LogEntry(s, rows[s], NoWindow) \in TrueEvents
      OBVIOUS
    <3>1. rows[s] \in ContactData
      BY <1>1 DEF DataTypes
    <3>2. LogEntry(s, rows[s], NoWindow) \in LogEntries
      BY <3>1 DEF LogEntry, LogEntries, Senders
    <3>3. Known(LogEntry(s, rows[s], NoWindow).row, LogEntry(s, rows[s], NoWindow).data.qso)
      BY DEF LogEntry, Known
    <3> QED BY <3>2, <3>3 DEF TrueEvents
  <2>2. S = <<>> \/ \E s \in RowIds : rows[s] # NoRow /\ S = <<LogEntry(s, rows[s], NoWindow)>>
    BY DEF Rescored
  <2>3. \A x \in TrueEvents : <<x>> \in Seq(TrueEvents)
    OBVIOUS
  <2>4. <<>> \in Seq(TrueEvents)
    OBVIOUS
  <2> QED BY <2>1, <2>2, <2>3, <2>4
<1>13. RowsStay
  BY <1>2, <1>6, <1>7, <1>8, <1>9 DEF RowsStay, Known
<1>14. TrueEntries \subseteq TrueEntries' /\ TrueEvents \subseteq TrueEvents' /\ TruePosts \subseteq TruePosts'
  BY <1>5, <1>13, TrueStays
<1>15. n \in TruePosts'
  <2>1. n \in Posts
    <3>1. S \in Seq(LogEntries)
      BY <1>12 DEF TrueEvents
    <3> QED BY <1>1, <1>3, <1>21, <3>1 DEF Posts, Ids
  <2>2. Known(r, q)'
    BY <1>8, <1>9, <1>10 DEF Known
  <2>3. n.rescored \in Seq(TrueEvents')
    BY <1>10, <1>12, <1>14
  <2>4. n.entry \in TrueEntries' /\ n.row \in RowIds' /\ n \in Posts'
    BY <1>2, <1>3, <1>5, <1>10, <1>14, <2>1, WorldStays
  <2>5. Known(n.row, n.entry.data.qso)'
    BY <1>8, <1>9, <1>10 DEF Known
  <2> QED BY <2>3, <2>4, <2>5 DEF TruePosts
<1>16. ASSUME NEW x \in Qsos
       PROVE  Counts(x)'
  <2>1. Strays(x)' \subseteq Strays(x) \ {p}
    BY <1>10, <1>11 DEF Strays
  <2>2. \A o \in posts : \A v \in Windows : Serves(o, v, x) => Served(v, x)'
    <3> SUFFICES ASSUME NEW o \in posts, NEW v \in Windows, Serves(o, v, x)
                 PROVE  o \in posts' /\ Serves(o, v, x)'
      BY DEF Served
    <3>1. o \in posts'
      BY <1>3, <1>11 DEF Serves
    <3> QED BY <1>5, <3>1 DEF Serves, IsNew, Behind
  <2>3. CASE ~IsNew(p, x)
    <3>1. inserts'[x] = inserts[x]
      <4>1. CASE p.entry.id = NoId
        BY <1>1, <1>3, <2>3, <4>1 DEF IsNew, DataTypes
      <4>2. CASE p.entry.id # NoId
        BY <1>3, <1>7, <4>2
      <4> QED BY <4>1, <4>2
    <3>2. CausesGrow(x)
      BY <1>1, <1>5 DEF CausesGrow, CountTypes
    <3> QED BY <1>5, <2>1, <2>2, <3>1, <3>2, StayCounts
  <2>4. CASE IsNew(p, x)
    <3>1. x = q /\ p.entry.id = NoId /\ rows[r] = NoRow
      BY <1>6, <2>4 DEF IsNew
    <3>2. inserts'[x] = inserts[x] + 1 /\ lost'[x] = lost[x] /\ overtaken'[x] = overtaken[x]
      BY <1>1, <1>2, <1>3, <1>5, <3>1 DEF DataTypes
    <3>3. CASE ~p.heard
      <4>1. p \in Strays(x)
        BY <1>3, <2>4, <3>3 DEF Strays
      <4>2. MayInsert(x)' => MayInsert(x)
        BY <1>5, <2>2, MayStay DEF Served
      <4> QED BY <2>1, <3>2, <4>1, <4>2, CountIsKnown, CountInserts
    <3>4. CASE p.heard
      <4>1. MayInsert(x)
        BY <1>3, <3>1, <3>4, WaitingMay
      <4>2. x \in Unsent(local[p.win]) /\ x \in logged
        BY <1>1, <1>2, <3>1, <3>4 DEF AllCause, Cause, HeardOnce, OneListEach
      <4>3. Served(p.win, x)'
        <5>1. ~Behind(local[p.win], r, x)
          <6> SUFFICES ASSUME Behind(local[p.win], r, x) PROVE FALSE
            OBVIOUS
          <6>1. PICK i \in 1..Len(local[p.win]) : local[p.win][i].id = r /\ local[p.win][i].data.qso = x
            BY DEF Behind
          <6>2. local[p.win][i] \in TrueEntries
            BY <1>1, <1>2 DEF RowsKeepTheirContact
          <6>3. r # NoId
            BY <1>1, <1>3 DEF ListsOK, WorldOK, RowIds
          <6> QED BY <3>1, <6>1, <6>2, <6>3 DEF TrueEntries, Known
        <5>2. n \in posts' /\ Serves(n, p.win, x)'
          BY <1>5, <1>10, <1>11, <2>4, <3>4, <5>1 DEF Serves, IsNew, Behind
        <5> QED BY <5>2 DEF Served
      <4>4. \A v \in Windows : x \in Unsent(local[v]) => v = p.win
        BY <1>1, <1>2, <4>2 DEF OneListEach
      <4>5. ~MayInsert(x)'
        BY <1>5, <4>2, <4>3, <4>4, WorldStays DEF MayInsert
      <4> QED BY <2>1, <3>2, <4>1, <4>5, CountIsKnown, CountInserts
    <3> QED BY <3>3, <3>4
  <2> QED BY <2>3, <2>4
<1>17. posts' \subseteq TruePosts'
  BY <1>1, <1>11, <1>14, <1>15 DEF RowsKeepTheirContact
<1>18. IsFiniteSet(posts')
  <2>1. IsFiniteSet(posts \ {p}) /\ IsFiniteSet({n})
    BY <1>1, FS_Subset, FS_Singleton DEF CountTypes
  <2> QED BY <1>11, <2>1, FS_Union
<1>19. \A y \in posts' : y.heard =>
         \E o \in posts : o.heard /\ o.win = y.win /\ o.page = y.page /\ o.entry = y.entry
  BY <1>10, <1>11
<1>20. /\ \A v \in Windows : load'[v].found \in Seq(Fetched)
       /\ events' \in [Windows -> Seq(TrueEvents)]
       /\ lost' \in [Qsos -> Nat] /\ overtaken' \in [Qsos -> Nat]
  BY <1>1, <1>5 DEF RowsKeepTheirContact, CountTypes
<1> QED BY <1>5, <1>13, <1>16, <1>17, <1>18, <1>19, <1>20, StayCauses

(* The answer is on its way: it serves as the stored row did.               *)
LEMMA PublishCauses ==
  ASSUME AllCause, NEW p \in posts, PublishPost(p)
  PROVE  Cause'
<1>1. /\ DataTypes /\ CountTypes /\ RowsKeepTheirContact /\ p \in TruePosts /\ p \in Posts
  BY ListsOfCause DEF AllCause, Cause
<1>2. SameWorld /\ UNCHANGED <<rows, inserts, local, saved, logged, deletes, load, page, lost, overtaken>>
  BY <1>1 DEF DataTypes, PublishPost, server, lists, history, SameWorld
<1>3. p.stage = "stored" /\ p.row \in RowIds /\ Known(p.row, p.entry.data.qso)
      /\ p.rescored \in Seq(TrueEvents) /\ p.entry \in Entries
  BY <1>1 DEF PublishPost, TruePosts, Posts
<1> DEFINE n == [p EXCEPT !.stage = "answered"]
           m == LogEntry(p.row, p.entry.data, p.entry.session)
<1>4. /\ n.entry = p.entry /\ n.row = p.row /\ n.rescored = p.rescored /\ n.stage = "answered"
      /\ n.heard = p.heard /\ n.win = p.win /\ n.page = p.page /\ n \in Posts
  BY <1>1 DEF Posts
<1>5. posts' = (posts \ {p}) \cup (IF p.heard THEN {n} ELSE {})
  BY DEF PublishPost
<1>6. n \in TruePosts
  BY <1>1, <1>4 DEF TruePosts, PublishPost
<1>7. events' \in [Windows -> Seq(TrueEvents)]
  <2>1. m \in LogEntries /\ m.row = p.row /\ m.data = p.entry.data
    BY <1>3 DEF LogEntry, LogEntries, Entries
  <2>2. m \in TrueEvents /\ <<m>> \in Seq(TrueEvents)
    <3> HIDE DEF m
    <3>1. m \in TrueEvents
      BY <1>3, <2>1 DEF TrueEvents
    <3> QED BY <3>1
  <2>3. Broadcast(<<m>> \o p.rescored)
    BY DEF PublishPost
  <2> HIDE DEF m
  <2>4. <<m>> \o p.rescored \in Seq(TrueEvents)
    BY <1>3, <2>2, JoinedSet
  <2>5. setup.backlog \in Nat \ {0} /\ events \in [Windows -> Seq(TrueEvents)]
    BY <1>1, OutboxAssumption DEF DataTypes, IsSetup, setup, RowsKeepTheirContact
  <2> QED BY <2>3, <2>4, <2>5, BroadcastOf
<1> HIDE DEF n, m
<1>8. RowsStay
  BY <1>2 DEF RowsStay
<1>9. posts' \subseteq TruePosts'
  <2>1. posts' \subseteq TruePosts
    BY <1>1, <1>5, <1>6 DEF RowsKeepTheirContact
  <2> QED BY <1>2, <1>8, <2>1, TrueStays
<1>10. IsFiniteSet(posts')
  <2>1. IsFiniteSet(posts \ {p}) /\ IsFiniteSet({n}) /\ IsFiniteSet({})
    BY <1>1, FS_Subset, FS_Singleton, FS_EmptySet DEF CountTypes
  <2> QED BY <1>5, <2>1, FS_Union
<1>11. ASSUME NEW x \in Qsos
       PROVE  Counts(x)'
  <2>1. Strays(x)' \subseteq Strays(x)
    BY <1>4, <1>5 DEF Strays
  <2>2. ASSUME NEW o \in posts, NEW v \in Windows, Serves(o, v, x)
        PROVE  \E y \in posts' : /\ y.win = o.win /\ y.heard = o.heard /\ y.entry = o.entry
                                 /\ y.row = o.row /\ y.stage # "sent"
    <3>1. CASE o = p
      <4>1. n \in posts'
        BY <1>5, <2>2, <3>1 DEF Serves
      <4> QED BY <1>4, <3>1, <4>1
    <3>2. CASE o # p
      BY <1>5, <2>2, <3>2 DEF Serves
    <3> QED BY <3>1, <3>2
  <2>3. ASSUME NEW o \in posts, NEW v \in Windows, Serves(o, v, x)
        PROVE  Served(v, x)'
    <3>1. PICK y \in posts' : /\ y.win = o.win /\ y.heard = o.heard /\ y.entry = o.entry
                              /\ y.row = o.row /\ y.stage # "sent"
      BY <2>2, <2>3
    <3>2. Behind(local[v], y.row, x)' = Behind(local[v], o.row, x)
      BY <1>2, <3>1 DEF Behind
    <3>3. Serves(y, v, x)'
      BY <2>3, <3>1, <3>2 DEF Serves, IsNew
    <3> QED BY <3>3 DEF Served
  <2>4. CausesGrow(x)
    BY <1>1, <1>2 DEF CausesGrow, CountTypes
  <2> QED BY <1>2, <2>1, <2>3, <2>4, StayCounts
<1>12. \A y \in posts' : y.heard =>
         \E o \in posts : o.heard /\ o.win = y.win /\ o.page = y.page /\ o.entry = y.entry
  BY <1>4, <1>5
<1>13. /\ \A v \in Windows : load'[v].found \in Seq(Fetched)
       /\ lost' \in [Qsos -> Nat] /\ overtaken' \in [Qsos -> Nat]
  BY <1>1, <1>2 DEF RowsKeepTheirContact, CountTypes
<1> QED BY <1>2, <1>7, <1>8, <1>9, <1>10, <1>11, <1>12, <1>13, StayCauses

(* The backend takes no row of it.                                          *)
LEMMA RefusedCauses ==
  ASSUME AllCause, NEW p \in posts, DropPost(p) \/ \E w \in Windows : Refuse(w, p)
  PROVE  Cause'
<1>1. /\ DataTypes /\ CountTypes /\ RowsKeepTheirContact
  BY ListsOfCause DEF AllCause, Cause
<1>2. /\ SameWorld /\ posts' = posts \ {p} /\ p.stage = "sent"
      /\ UNCHANGED <<rows, inserts, local, saved, logged, deletes, load, events, page, lost, overtaken>>
  BY <1>1 DEF DataTypes, DropPost, Refuse, server, lists, history, SameWorld
<1>3. RowsStay
  BY <1>2 DEF RowsStay
<1>4. posts' \subseteq TruePosts'
  <2>1. posts' \subseteq TruePosts
    BY <1>1, <1>2 DEF RowsKeepTheirContact
  <2> QED BY <1>2, <1>3, <2>1, TrueStays
<1>5. IsFiniteSet(posts')
  BY <1>1, <1>2, FS_Subset DEF CountTypes
<1>6. ASSUME NEW x \in Qsos
      PROVE  Counts(x)'
  <2>1. Strays(x)' \subseteq Strays(x)
    BY <1>2 DEF Strays
  <2>2. ASSUME NEW o \in posts, NEW v \in Windows, Serves(o, v, x)
        PROVE  Served(v, x)'
    <3>1. Behind(local[v], o.row, x)' = Behind(local[v], o.row, x)
      BY <1>2 DEF Behind
    <3>2. o \in posts' /\ Serves(o, v, x)'
      BY <1>2, <2>2, <3>1 DEF Serves, IsNew
    <3> QED BY <3>2 DEF Served
  <2>3. CausesGrow(x)
    BY <1>1, <1>2 DEF CausesGrow, CountTypes
  <2> QED BY <1>2, <2>1, <2>2, <2>3, StayCounts
<1>7. \A y \in posts' : y.heard =>
        \E o \in posts : o.heard /\ o.win = y.win /\ o.page = y.page /\ o.entry = y.entry
  BY <1>2
<1>8. /\ \A v \in Windows : load'[v].found \in Seq(Fetched)
      /\ events' \in [Windows -> Seq(TrueEvents)]
      /\ lost' \in [Qsos -> Nat] /\ overtaken' \in [Qsos -> Nat]
  BY <1>1, <1>2 DEF RowsKeepTheirContact, CountTypes
<1> QED BY <1>2, <1>3, <1>4, <1>5, <1>6, <1>7, <1>8, StayCauses

(* The answer is lost: one cause, and a request that may yet be stored.     *)
LEMMA UnheardIs ==
  ASSUME AllCause, NEW S, S \subseteq posts
  PROVE  \A x \in Unheard(S) : /\ ~x.heard /\ x \in TruePosts
                               /\ \E p \in S : x.entry = p.entry /\ x.stage = p.stage
<1> SUFFICES ASSUME NEW x \in Unheard(S)
             PROVE  /\ ~x.heard /\ x \in TruePosts
                    /\ \E p \in S : x.entry = p.entry /\ x.stage = p.stage
  OBVIOUS
<1>1. PICK p \in S : x = [p EXCEPT !.heard = FALSE]
  BY DEF Unheard
<1>2. p \in Posts /\ p \in TruePosts
  BY ListsOfCause
<1>3. /\ x \in Posts /\ x.stage = p.stage /\ x.row = p.row /\ x.entry = p.entry
      /\ ~x.heard /\ x.rescored = p.rescored
  BY <1>1, <1>2 DEF Posts
<1> QED BY <1>2, <1>3 DEF TruePosts

LEMMA LoseCauses ==
  ASSUME AllCause, NEW w \in Windows, NEW p \in posts, LosePost(w, p)
  PROVE  Cause'
<1> DEFINE q == p.entry.data.qso
           x == [p EXCEPT !.heard = FALSE]
<1>1. /\ DataTypes /\ CountTypes /\ RowsKeepTheirContact /\ p \in Posts /\ q \in Qsos
  BY ListsOfCause DEF AllCause, Cause, Posts, Entries, ContactData
<1>2. /\ SameWorld
      /\ UNCHANGED <<rows, inserts, local, saved, logged, deletes, load, events, page, overtaken>>
  BY <1>1 DEF DataTypes, LosePost, IsEnv, server, history, SameWorld
<1>3. /\ p.heard /\ lost' = [lost EXCEPT ![q] = @ + 1]
      /\ posts \ {p} \subseteq posts' /\ posts' \subseteq (posts \ {p}) \cup {x}
      /\ posts' \subseteq (posts \ {p}) \cup Unheard({p})
  BY DEF LosePost, InFlight, Unheard
<1>4. x.entry = p.entry /\ x.stage = p.stage /\ ~x.heard
  BY <1>1 DEF Posts
<1>5. RowsStay
  BY <1>2 DEF RowsStay
<1>6. posts' \subseteq TruePosts'
  <2>1. Unheard({p}) \subseteq TruePosts
    BY UnheardIs
  <2>2. posts' \subseteq TruePosts
    BY <1>1, <1>3, <2>1 DEF RowsKeepTheirContact
  <2> QED BY <1>2, <1>5, <2>2, TrueStays
<1> HIDE DEF x
<1>7. IsFiniteSet(posts')
  <2>1. IsFiniteSet(posts \ {p}) /\ IsFiniteSet({x})
    BY <1>1, FS_Subset, FS_Singleton DEF CountTypes
  <2>2. IsFiniteSet((posts \ {p}) \cup {x})
    BY <2>1, FS_Union
  <2> QED BY <1>3, <2>2, FS_Subset
<1>8. lost' \in [Qsos -> Nat] /\ overtaken' \in [Qsos -> Nat] /\ \A y \in Qsos : CausesGrow(y)
  BY <1>1, <1>2, <1>3 DEF CountTypes, CausesGrow
<1>9. lost'[q] > lost[q]
  BY <1>1, <1>3 DEF CountTypes
<1>10. ASSUME NEW y \in Qsos
       PROVE  Counts(y)'
  <2>0. CausesGrow(y) /\ inserts'[y] = inserts[y]
    BY <1>2, <1>8
  <2>1. Strays(y)' \subseteq Strays(y) \cup {x}
    BY <1>3 DEF Strays
  <2>2. CASE y # q
    <3>1. Strays(y)' \subseteq Strays(y)
      BY <1>3, <1>4, <2>2 DEF Strays, IsNew
    <3>2. ASSUME NEW o \in posts, NEW v \in Windows, Serves(o, v, y)
          PROVE  Served(v, y)'
      <4>1. Behind(local[v], o.row, y)' = Behind(local[v], o.row, y)
        BY <1>2 DEF Behind
      <4>2. o \in posts' /\ Serves(o, v, y)'
        BY <1>2, <1>3, <2>2, <3>2, <4>1 DEF Serves, IsNew
      <4> QED BY <4>2 DEF Served
    <3> QED BY <1>2, <2>0, <3>1, <3>2, StayCounts
  <2>3. CASE y = q /\ IsNew(p, y) /\ p.stage = "sent"
    <3>1. MayInsert(y)
      BY <1>3, <2>3, WaitingMay DEF IsNew
    <3>2. MoreCauses(y)
      BY <1>9, <2>3 DEF MoreCauses
    <3> QED BY <2>0, <2>1, <3>1, <3>2, CountIsKnown, CountMoves
  <2>4. CASE y = q /\ ~(IsNew(p, y) /\ p.stage = "sent")
    <3>1. Strays(y)' \subseteq Strays(y)
      BY <1>3, <1>4, <2>4 DEF Strays, IsNew
    <3>2. MoreCauses(y)
      BY <1>9, <2>4 DEF MoreCauses
    <3> QED BY <1>2, <2>0, <3>1, <3>2, StayCounts
  <2> QED BY <2>2, <2>3, <2>4
<1>11. \A y \in posts' : y.heard =>
         \E o \in posts : o.heard /\ o.win = y.win /\ o.page = y.page /\ o.entry = y.entry
  BY <1>3, <1>4
<1>12. /\ \A v \in Windows : load'[v].found \in Seq(Fetched)
       /\ events' \in [Windows -> Seq(TrueEvents)]
  BY <1>1, <1>2 DEF RowsKeepTheirContact
<1> QED BY <1>2, <1>5, <1>6, <1>7, <1>8, <1>10, <1>11, <1>12, StayCauses

LEMMA UnheardIsFinite ==
  ASSUME NEW S, IsFiniteSet(S)
  PROVE  IsFiniteSet(Unheard(S))
<1> DEFINE T == {p \in S : p.stage # "answered" /\ p.entry.data.qso \notin setup.rejected}
           f == [p \in T |-> [p EXCEPT !.heard = FALSE]]
<1>1. IsFiniteSet(T)
  BY FS_Subset
<1>2. Unheard(S) = {f[p] : p \in T}
  BY DEF Unheard
<1>3. f \in [T -> Unheard(S)] /\ \A x \in Unheard(S) : \E p \in T : f[p] = x
  <2>1. f = [p \in T |-> f[p]]
    OBVIOUS
  <2> HIDE DEF f, T
  <2> QED BY <1>2, <2>1
<1> HIDE DEF f, T
<1>4. f \in Surjection(T, Unheard(S))
  BY <1>3 DEF Surjection
<1> QED BY <1>1, <1>4, FS_Surjection

(* Nobody waits for the requests of the old page: one cause for each.       *)
LEMMA ReloadCauses ==
  ASSUME AllCause, NEW w \in Windows, Reload(w)
  PROVE  Cause'
<1> DEFINE b == setup.browserOf[w]
           s == SortContacts(saved[b])
           posted == NextToCommit(s, {})
           New(e) == [Post(w, e) EXCEPT !.page = @ + 1]
           news == {New(e) : e \in posted}
           mine == InFlight(w)
           Mine(q) == {p \in mine : p.entry.data.qso = q}
<1>1. /\ ListsOK /\ DataTypes /\ TrueEntries \subseteq Entries
      /\ \A v \in Windows : local[v] \in Seq(TrueEntries) /\ Single(local[v])
      /\ \A v \in Windows : setup.browserOf[v] \in Browsers
      /\ RowsKeepTheirContact /\ OneListEach /\ HeardOnce /\ CountTypes
  BY ListsOfCause DEF AllCause, Cause
<1>2. /\ saved[b] \in Seq(TrueEntries) /\ Single(saved[b]) /\ Unsent(saved[b]) = Unsent(local[w])
      /\ page[w] \in Nat
  BY <1>1 DEF RowsKeepTheirContact, OneListEach, DataTypes
<1>3. s \in Seq(TrueEntries) /\ Single(s) /\ Unsent(s) = Unsent(local[w])
  <2>1. saved[b] \in Seq(Entries)
    BY <1>1, <1>2
  <2> QED BY <1>1, <1>2, <2>1, SortFollows, SortKeeps DEF ListsOK, Follows
<1>4. /\ local' = [local EXCEPT ![w] = s] /\ saved' = saved
      /\ posts' = (posts \ mine) \cup Unheard(mine) \cup news
      /\ page' = [page EXCEPT ![w] = @ + 1]
      /\ load' = [load EXCEPT ![w] = Loading] /\ events' = [events EXCEPT ![w] = <<>>]
      /\ lost' = [q \in Qsos |-> lost[q] + Cardinality(Mine(q))]
      /\ UNCHANGED <<rows, inserts, deletes, logged, overtaken>> /\ SameWorld
  BY <1>1 DEF Reload, DataTypes, SameWorld, server, history
<1>5. /\ posted \subseteq ToSet(s) /\ ToSet(s) \subseteq TrueEntries
      /\ posted = {} \/ \E x : posted = {x}
      /\ \A e \in posted : e.id = NoId => e.data.qso \in Unsent(s)
  <2>1. posted \subseteq ToSet(s) /\ ToSet(s) \subseteq TrueEntries
    <3> HIDE DEF s
    <3> QED BY <1>3, NextIsOf DEF ToSet
  <2>2. posted = {} \/ \E x : posted = {x}
    BY DEF NextToCommit
  <2> HIDE DEF posted, s
  <2> QED BY <2>1, <2>2 DEF Unsent
<1>6. /\ news \subseteq TruePosts /\ IsFiniteSet(news)
      /\ \A p \in news : /\ p.win = w /\ p.page = page[w] + 1 /\ p.stage = "sent" /\ p.heard
                         /\ p.entry.id = NoId => p.entry.data.qso \in Unsent(s)
  <2>1. \A e \in TrueEntries : /\ New(e) \in TruePosts /\ New(e).page = page[w] + 1
                               /\ New(e).win = w /\ New(e).entry = e
                               /\ New(e).stage = "sent" /\ New(e).heard
    <3> SUFFICES ASSUME NEW e \in TrueEntries
                 PROVE  /\ New(e) \in TruePosts /\ New(e).page = page[w] + 1
                        /\ New(e).win = w /\ New(e).entry = e
                        /\ New(e).stage = "sent" /\ New(e).heard
      OBVIOUS
    <3> DEFINE x == Post(w, e)
               y == New(e)
    <3>1. /\ x \in TruePosts /\ x.page = page[w] /\ x.win = w /\ x.entry = e
          /\ x.stage = "sent" /\ x.heard
      BY PostIs
    <3>2. y = [x EXCEPT !.page = x.page + 1]
      OBVIOUS
    <3> HIDE DEF x, y, New
    <3>3. x \in Posts
      BY <3>1 DEF TruePosts
    <3>4. /\ y \in Posts /\ y.page = page[w] + 1 /\ y.win = w /\ y.entry = e /\ y.stage = "sent"
          /\ y.heard /\ y.rescored = x.rescored
      BY <1>2, <3>1, <3>2, <3>3 DEF Posts
    <3>5. y \in TruePosts
      BY <3>1, <3>4 DEF TruePosts
    <3> QED BY <3>4, <3>5 DEF y
  <2> HIDE DEF posted, New
  <2>2. IsFiniteSet(news)
    <3>1. CASE posted = {}
      <4>1. news = {}
        BY <3>1
      <4> QED BY <4>1, FS_EmptySet
    <3>2. ASSUME NEW x, posted = {x}
          PROVE  IsFiniteSet(news)
      <4>1. news = {New(x)}
        BY <3>2
      <4>2. IsFiniteSet({New(x)})
        BY FS_Singleton
      <4> QED BY <4>1, <4>2
    <3> QED BY <1>5, <3>1, <3>2
  <2> QED BY <1>5, <2>1, <2>2
<1> HIDE DEF posted, news, s
<1>7. mine \subseteq posts /\ IsFiniteSet(mine)
  <2>1. mine \subseteq posts
    BY DEF InFlight
  <2> QED BY <1>1, <2>1, FS_Subset DEF CountTypes
<1>8. \A x \in Unheard(mine) : /\ ~x.heard /\ x \in TruePosts
                               /\ \E p \in mine : x.entry = p.entry /\ x.stage = p.stage
  BY <1>7, UnheardIs
<1>9. /\ local'[w] = s /\ \A v \in Windows \ {w} : local'[v] = local[v]
      /\ page'[w] = page[w] + 1 /\ \A v \in Windows \ {w} : page'[v] = page[v]
  BY <1>1, <1>4 DEF DataTypes
<1>10. RowsStay
  BY <1>4 DEF RowsStay
<1>11. RowsKeepTheirContact'
  <2>1. local' \in [Windows -> Seq(TrueEntries)] /\ saved' \in [Browsers -> Seq(TrueEntries)]
    BY <1>1, <1>3, <1>4 DEF RowsKeepTheirContact
  <2>2. posts' \subseteq TruePosts
    BY <1>1, <1>4, <1>6, <1>8 DEF RowsKeepTheirContact
  <2>3. deletes' = {}
    BY <1>1, <1>4 DEF RowsKeepTheirContact
  <2>4. \A v \in Windows : load'[v].found \in Seq(Fetched)
    <3>1. Loading.found \in Seq(Fetched)
      BY DEF Loading
    <3> QED BY <1>1, <1>4, <3>1 DEF RowsKeepTheirContact, DataTypes
  <2>5. events' \in [Windows -> Seq(TrueEvents)]
    <3>1. <<>> \in Seq(TrueEvents)
      OBVIOUS
    <3> QED BY <1>1, <1>4, <3>1 DEF RowsKeepTheirContact
  <2>6. /\ Seq(TrueEntries) \subseteq Seq(TrueEntries') /\ Seq(Fetched) \subseteq Seq(Fetched')
        /\ Seq(TrueEvents) \subseteq Seq(TrueEvents') /\ TruePosts \subseteq TruePosts'
    BY <1>4, <1>10, TrueStays
  <2> QED BY <1>4, <2>1, <2>2, <2>3, <2>4, <2>5, <2>6, WorldStays DEF RowsKeepTheirContact
<1>12. \A v \in Windows : Single(local'[v]) /\ Unsent(local'[v]) = Unsent(local[v])
  BY <1>1, <1>3, <1>9
<1>13. OneListEach'
  BY <1>1, <1>4, <1>12, WorldStays DEF OneListEach
<1>14. HeardOnce'
  <2> SUFFICES ASSUME NEW p \in posts', p.heard
               PROVE  /\ p.page = page'[p.win]
                      /\ p.entry.id = NoId => p.entry.data.qso \in Unsent(local'[p.win])
    BY DEF HeardOnce, Unsent
  <2>1. CASE p \in news
    BY <1>6, <1>9, <2>1
  <2>2. CASE p \in posts \ mine
    <3>1. p.win \in Windows /\ p.win # w
      BY <1>1, <2>2 DEF DataTypes, Posts, HeardOnce, InFlight, Own
    <3> QED BY <1>1, <1>9, <2>2, <3>1 DEF HeardOnce
  <2> QED BY <1>4, <1>8, <2>1, <2>2
<1>15. \A q \in Qsos : Cardinality(Mine(q)) \in Nat /\ (Mine(q) # {} => Cardinality(Mine(q)) > 0)
  <2> SUFFICES ASSUME NEW q \in Qsos
               PROVE  Cardinality(Mine(q)) \in Nat /\ (Mine(q) # {} => Cardinality(Mine(q)) > 0)
    OBVIOUS
  <2>1. IsFiniteSet(Mine(q))
    BY <1>7, FS_Subset
  <2> HIDE DEF Mine
  <2> QED BY <2>1, FS_CardinalityType, FS_EmptySet
<1>16. /\ lost' \in [Qsos -> Nat] /\ overtaken' \in [Qsos -> Nat] /\ \A q \in Qsos : CausesGrow(q)
       /\ \A q \in Qsos : Mine(q) # {} => MoreCauses(q)
  <2> HIDE DEF Mine
  <2> QED BY <1>1, <1>4, <1>15 DEF CountTypes, CausesGrow, MoreCauses
<1>17. CountTypes'
  <2>1. IsFiniteSet(posts \ mine) /\ IsFiniteSet(Unheard(mine))
    BY <1>1, <1>7, UnheardIsFinite, FS_Subset DEF CountTypes
  <2>2. IsFiniteSet(posts')
    BY <1>4, <1>6, <2>1, FS_Union
  <2> QED BY <1>4, <1>16, <2>2, WorldStays DEF CountTypes
<1>18. ASSUME NEW q \in Qsos
       PROVE  Counts(q)'
  <2>0. CausesGrow(q) /\ inserts'[q] = inserts[q] /\ CountsKnown(q)
    BY <1>4, <1>16, CountIsKnown
  <2>1. ASSUME NEW p \in mine, IsNew(p, q), p.stage = "sent"
        PROVE  Counts(q)'
    <3> DEFINE x == [p EXCEPT !.heard = FALSE]
    <3>1. p \in posts /\ p.heard /\ p.win = w
      BY DEF InFlight, Own
    <3>2. Strays(q)' \subseteq Strays(q) \cup {x}
      <4> SUFFICES ASSUME NEW y \in posts', IsNew(y, q), y.stage = "sent", ~y.heard
                   PROVE  y \in Strays(q) \cup {x}
        BY DEF Strays, IsNew
      <4>1. CASE y \in posts \ mine
        BY <4>1 DEF Strays
      <4>2. CASE y \in Unheard(mine)
        <5>1. PICK o \in mine : y = [o EXCEPT !.heard = FALSE]
          BY <4>2 DEF Unheard
        <5>2. o \in Posts /\ o \in posts /\ o.heard /\ o.win = w
          BY <1>1, <1>7 DEF InFlight, Own, DataTypes
        <5>3. y.entry = o.entry
          BY <5>1, <5>2 DEF Posts
        <5>4. o = p
          BY <2>1, <3>1, <5>2, <5>3, OneIsHeard DEF IsNew
        <5> QED BY <5>1, <5>4
      <4>3. y \notin news
        BY <1>6
      <4> QED BY <1>4, <4>1, <4>2, <4>3
    <3>3. MayInsert(q)
      BY <2>1, <3>1, WaitingMay DEF IsNew
    <3>4. MoreCauses(q)
      BY <1>16, <2>1 DEF IsNew
    <3> QED BY <2>0, <3>2, <3>3, <3>4, CountMoves
  <2>2. ASSUME \A p \in mine : ~(IsNew(p, q) /\ p.stage = "sent")
        PROVE  Counts(q)'
    <3>1. Strays(q)' \subseteq Strays(q)
      <4> SUFFICES ASSUME NEW y \in posts', IsNew(y, q), y.stage = "sent", ~y.heard
                   PROVE  y \in Strays(q)
        BY DEF Strays, IsNew
      <4>1. y \notin Unheard(mine)
        BY <1>8, <2>2 DEF IsNew
      <4>2. y \notin news
        BY <1>6
      <4> QED BY <1>4, <4>1, <4>2 DEF Strays
    <3>2. CASE Mine(q) # {}
      <4>1. MoreCauses(q)
        BY <1>16, <3>2
      <4> QED BY <2>0, <3>1, <4>1, CountStays
    <3>3. CASE Mine(q) = {}
      <4>1. ASSUME NEW v \in Windows, NEW o \in posts, Serves(o, v, q)
            PROVE  Served(v, q)'
        <5>1. o \notin mine
          BY <3>3, <4>1 DEF Serves, IsNew
        <5>2. v # w
          BY <1>1, <4>1, <5>1 DEF Serves, HeardOnce, InFlight, Own
        <5>3. o \in posts'
          BY <1>4, <5>1
        <5>4. Behind(local[v], o.row, q)' = Behind(local[v], o.row, q)
          BY <1>9, <5>2 DEF Behind
        <5>5. Serves(o, v, q)'
          BY <4>1, <5>4 DEF Serves, IsNew
        <5> QED BY <5>3, <5>5 DEF Served
      <4>2. MayInsert(q)' => MayInsert(q)
        BY <1>4, <1>12, <4>1, MayStay DEF Served
      <4> QED BY <2>0, <3>1, <4>2, CountStays
    <3> QED BY <3>2, <3>3
  <2> QED BY <2>1, <2>2
<1> QED BY <1>4, <1>11, <1>13, <1>14, <1>17, <1>18, WorldStays DEF Cause

-----------------------------------------------------------------------------
(* Every step.                                                              *)

LEMMA CauseInitially ==
  ASSUME Init, NothingDeleted
  PROVE  Cause
<1>1. PICK world \in Setups : InitIn(world)
  BY DEF Init
<1>2. /\ env = [setup |-> world, edits |-> 0, losses |-> 0, refreshes |-> 0]
      /\ rows = [r \in 1..world.rows |-> NoRow]
      /\ local = [w \in DOMAIN world.browserOf |-> <<>>]
      /\ saved = [b \in Range(world.browserOf) |-> <<>>]
      /\ posts = {} /\ deletes = {}
      /\ load = [w \in DOMAIN world.browserOf |-> Loading]
      /\ events = [w \in DOMAIN world.browserOf |-> <<>>]
      /\ logged = {}
      /\ inserts = [q \in ToSet(world.newest) |-> 0]
      /\ lost = [q \in ToSet(world.newest) |-> 0]
      /\ overtaken = [q \in ToSet(world.newest) |-> 0]
  BY <1>1 DEF InitIn
<1>3. /\ Windows = DOMAIN world.browserOf /\ Browsers = Range(world.browserOf)
      /\ Qsos = ToSet(world.newest)
  BY <1>2 DEF Windows, Browsers, setup, Qsos, Newest
<1>4. CountTypes
  BY <1>2, <1>3, FS_EmptySet DEF CountTypes
<1>5. RowsKeepTheirContact
  <2>1. Loading.found \in Seq(Fetched)
    BY DEF Loading
  <2>2. <<>> \in Seq(TrueEntries) /\ <<>> \in Seq(TrueEvents)
    OBVIOUS
  <2> QED BY <1>2, <1>3, <2>1, <2>2 DEF RowsKeepTheirContact
<1>6. Unsent(<<>>) = {} /\ Single(<<>>)
  BY DEF Unsent, ToSet, Single
<1>7. \A w \in Windows : local[w] = <<>> /\ saved[setup.browserOf[w]] = <<>>
  <2>1. \A w \in Windows : setup.browserOf[w] \in Browsers
    BY DEF Browsers, Range, Windows
  <2> QED BY <1>2, <1>3, <2>1
<1>8. OneListEach /\ HeardOnce
  BY <1>2, <1>6, <1>7 DEF OneListEach, HeardOnce
<1>9. ASSUME NEW q \in Qsos
      PROVE  Counts(q)
  <2>1. Cardinality(Strays(q)) = 0
    <3>1. Strays(q) = {}
      BY <1>2 DEF Strays
    <3> QED BY <3>1, FS_EmptySet
  <2>2. inserts[q] = 0 /\ lost[q] = 0 /\ overtaken[q] = 0
    BY <1>2, <1>3
  <2> QED BY <2>1, <2>2 DEF Counts
<1> QED BY <1>4, <1>5, <1>8, <1>9 DEF Cause

(* A deletion is never forgotten.                                           *)
LEMMA DeletionsStay ==
  ASSUME SurvivalInv, [Next]_vars
  PROVE  discarded \subseteq discarded' /\ OneWindowPerBrowser' = OneWindowPerBrowser
<1> DEFINE Same == discarded \subseteq discarded' /\ env'.setup = env.setup
<1>0. IsEnv(env)
  BY DEF SurvivalInv, DataTypes
<1>1. ASSUME NEW k \in Keys, Serve(k)
      PROVE  Same
  BY <1>1 DEF Serve, StorePost, PublishPost, DropPost, ServeDelete, PublishDelete, history
<1>2. ASSUME NEW w \in Windows, NEW k \in Keys, Answered(w, k)
      PROVE  Same
  BY <1>2 DEF Answered, Reply, Refuse, DeleteReply, history
<1>3. ASSUME NEW w \in Windows, Operator(w)
      PROVE  Same
  <2>1. \A q \in Qsos : LogContact(w, q) => Same
    BY DEF LogContact
  <2>2. \A i \in DOMAIN local[w] : EditContact(w, i) => Same
    BY <1>0 DEF EditContact, IsEnv, history
  <2>3. \A i \in DOMAIN local[w] : DeleteLocal(w, i) \/ DeleteCommitted(w, i) => Same
    BY DEF DeleteLocal, DeleteCommitted
  <2>4. \A f \in setup.filters : Refresh(w) \/ Search(w, f) => Same
    BY <1>0 DEF Refresh, Search, Counted, IsEnv, history
  <2>5. Refresh(w) => Same
    BY <1>0 DEF Refresh, Counted, IsEnv, history
  <2> QED BY <1>3, <2>1, <2>2, <2>3, <2>4, <2>5 DEF Operator
<1>4. ASSUME NEW w \in Windows, Network(w)
      PROVE  Same
  <2>1. \A p \in posts : LosePost(w, p) => Same
    BY <1>0 DEF LosePost, IsEnv, history
  <2>2. \A d \in deletes : LoseDelete(d) => Same
    BY <1>0 DEF LoseDelete, IsEnv, history
  <2>3. LoadFails(w) \/ Disconnect(w) \/ Connect(w) \/ Reload(w) => Same
    BY <1>0 DEF LoadFails, Disconnect, Connect, Reload, Counted, IsEnv, history
  <2> QED BY <1>4, <2>1, <2>2, <2>3 DEF Network
<1>5. ASSUME NEW w \in Windows, RetryTimer(w) \/ ServeLoad(w) \/ LoadReply(w) \/ Receive(w)
      PROVE  Same
  BY <1>5 DEF RetryTimer, ServeLoad, LoadReply, Receive, history
<1>6. CASE UNCHANGED vars
  BY <1>6 DEF vars, OneWindowPerBrowser, setup
<1>7. CASE Next
  <2>1. Same
    BY <1>1, <1>2, <1>3, <1>4, <1>5, <1>7 DEF Next, Quiescent, vars
  <2> QED BY <2>1 DEF OneWindowPerBrowser, setup
<1> QED BY <1>6, <1>7

LEMMA NothingCauses ==
  ASSUME AllCause, UNCHANGED vars
  PROVE  Cause'
<1>1. SameWorld /\ RowsKeepTheirContact
  BY ListsOfCause DEF vars, SameWorld, DataTypes, AllCause, Cause
<1>2. UNCHANGED <<rows, inserts, local, saved, posts, deletes, page, logged, lost, overtaken, load, events>>
  BY DEF vars
<1> QED BY <1>1, <1>2, QuietCauses DEF RowsKeepTheirContact

LEMMA StepCauses ==
  ASSUME AllCause, [Next]_vars, NothingDeleted'
  PROVE  Cause'
<1>0. deletes = {} /\ discarded' = {}
  BY DEF AllCause, Cause, RowsKeepTheirContact, NothingDeleted
<1>1. ASSUME NEW k \in Keys, Serve(k)
      PROVE  Cause'
  <2>1. PICK p \in posts : StorePost(p) \/ PublishPost(p) \/ DropPost(p)
    BY <1>0, <1>1 DEF Serve, PostsOf, DeletesOf
  <2> QED BY <2>1, StoreCauses, PublishCauses, RefusedCauses
<1>2. ASSUME NEW w \in Windows, NEW k \in Keys, Answered(w, k)
      PROVE  Cause'
  <2>1. PICK p \in posts : Reply(w, p) \/ Refuse(w, p)
    BY <1>0, <1>2 DEF Answered, PostsOf, DeletesOf
  <2> QED BY <2>1, ReplyCauses, RefusedCauses
<1>3. ASSUME NEW w \in Windows, Operator(w)
      PROVE  Cause'
  <2>1. \A i \in DOMAIN local[w] : ~DeleteLocal(w, i) /\ ~DeleteCommitted(w, i)
    BY <1>0 DEF DeleteLocal, DeleteCommitted
  <2> QED BY <1>3, <2>1, LogCauses, EditCauses, StayingCauses DEF Operator
<1>4. ASSUME NEW w \in Windows, Network(w)
      PROVE  Cause'
  BY <1>0, <1>4, LoseCauses, StayingCauses, ReloadCauses DEF Network
<1>5. ASSUME NEW w \in Windows, Receive(w)
      PROVE  Cause'
  <2>1. CASE UNCHANGED <<local, saved, committing, posts>>
    <3>1. DataTypes /\ RowsKeepTheirContact
      BY ListsOfCause DEF AllCause, Cause
    <3>2. /\ UNCHANGED <<rows, inserts, local, saved, posts, deletes, page, logged, lost, overtaken, load>>
          /\ SameWorld
      BY <2>1, <1>5, <3>1 DEF Receive, server, history, SameWorld, DataTypes
    <3>3. events[w] \in Seq(TrueEvents) /\ events[w] # <<>> /\ events' = [events EXCEPT ![w] = Tail(@)]
      BY <1>5, <3>1 DEF RowsKeepTheirContact, Receive
    <3>4. Tail(events[w]) \in Seq(TrueEvents)
      BY <3>3
    <3>5. events' \in [Windows -> Seq(TrueEvents)]
      BY <3>1, <3>3, <3>4 DEF RowsKeepTheirContact
    <3> QED BY <3>1, <3>2, <3>5, QuietCauses DEF RowsKeepTheirContact
  <2> QED BY <1>5, <2>1, ReceiveCauses
<1>6. ASSUME NEW w \in Windows, RetryTimer(w) \/ ServeLoad(w) \/ LoadReply(w)
      PROVE  Cause'
  BY <1>6, RetryCauses, StayingCauses, LoadCauses
<1>7. CASE Next
  BY <1>1, <1>2, <1>3, <1>4, <1>5, <1>6, <1>7, NothingCauses DEF Next, Quiescent
<1> QED BY <1>7, NothingCauses

CauseInv == OutboxInv /\ SurvivalInv /\ (NothingDeleted => Cause)

(* Where the windows have a browser each and no contact is deleted, every   *)
(* row of a contact but the first goes back to a request whose answer was   *)
(* lost (the network failed it, or its page was reloaded) or whose row a    *)
(* page brought before its answer: edits, retries, events and answers in    *)
(* whatever order make none (nextContactToCommit and the commit effect of   *)
(* useContactsOutbox.js, mergeContact, mergeResetCommittedPage).            *)
THEOREM DuplicatesHaveACause == Spec => []DuplicatesNeedACause
<1>1. Init => CauseInv
  BY Initially, SurvivalInitially, CauseInitially DEF CauseInv
<1>2. CauseInv /\ [Next]_vars => CauseInv'
  <2> SUFFICES ASSUME CauseInv, [Next]_vars
               PROVE  CauseInv'
    OBVIOUS
  <2>1. OutboxInv' /\ SurvivalInv'
    BY StepKeeps, StepSaves DEF CauseInv
  <2>2. NothingDeleted' => NothingDeleted
    BY DeletionsStay DEF CauseInv, NothingDeleted
  <2>3. NothingDeleted' => Cause'
    BY <2>2, StepCauses DEF CauseInv, AllCause
  <2> QED BY <2>1, <2>3 DEF CauseInv
<1>3. CauseInv => DuplicatesNeedACause
  <2> SUFFICES ASSUME CauseInv, OneWindowPerBrowser, discarded = {}, NEW q \in Qsos
               PROVE  inserts[q] <= 1 + lost[q] + overtaken[q]
    BY DEF DuplicatesNeedACause
  <2>1. CountsKnown(q)
    BY CountIsKnown DEF CauseInv, AllCause, NothingDeleted
  <2>2. Cardinality(Strays(q)) \in Nat
    BY <2>1, FS_CardinalityType DEF CountsKnown
  <2> QED BY <2>1, <2>2 DEF CountsKnown, Counts
<1> QED BY <1>1, <1>2, <1>3, PTL DEF Spec
=============================================================================
