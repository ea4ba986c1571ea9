--------------------------- MODULE ContactsOutbox ---------------------------
(***************************************************************************)
(* The logger window's contact list and the outbox in it                   *)
(* (src/screens/loggerScreen/useContactsOutbox.js, contactsOutboxState.js, *)
(* loggerScreenHelpers.js, LoggerScreen.jsx), with the contact routes and  *)
(* the event broadcast of the backend (backend/src/main.rs) behind it.     *)
(*                                                                         *)
(* One step is one JavaScript turn: a callback runs, React renders the new *)
(* list, and the effects of that render save the list to localStorage and  *)
(* start at most one commit.  Requests and events travel on their own.     *)
(*                                                                         *)
(* Abstractions: a contact's fields are the QSO it records and the number  *)
(* of the last edit; the list never exceeds one page (CONTACTS_PAGE_SIZE), *)
(* so there is no second page to load; one log.  The entries of contacts   *)
(* that a deletion scored anew are left out: an event of a commit carries  *)
(* such an entry too (Publish), and it meets the lists in the same way.    *)
(***************************************************************************)
EXTENDS Integers, Sequences, FiniteSets, SequencesExt, FiniteSetsExt

CONSTANTS
  Setups,       \* the small worlds a run starts in, see IsSetup
  NoId, NoRow, NoWindow

(* What one world holds: the browser of each window (a tab with the logger  *)
(* open, one session id each), the QSOs with the latest first, those whose  *)
(* data the backend refuses, what a callsign search may select, which       *)
(* operations take place, how many events the broadcast channel keeps for a *)
(* slow window; and the bounds: rows the database ever uses, edits by the   *)
(* operators, responses lost, reloads of a page, and refreshes, searches    *)
(* and connections together.                                                *)
IsSetup(s) ==
  /\ DOMAIN s = {"browserOf", "newest", "rejected", "filters", "ops", "backlog",
                 "rows", "edits", "losses", "reloads", "refreshes"}
  /\ s.newest \in Seq(ToSet(s.newest)) /\ IsInjective(s.newest)  \* each once
  /\ \A q \in ToSet(s.newest) : q \notin Nat /\ q # NoId  \* keys are no row ids
  /\ NoRow \notin [qso : ToSet(s.newest), ver : Nat]  \* nor a missing row a contact
  /\ ToSet(s.newest) \in s.filters /\ UNION s.filters \subseteq ToSet(s.newest)
  /\ s.rejected \subseteq ToSet(s.newest)
  /\ s.backlog \in Nat \ {0} /\ s.rows \in Nat \ {0}
  /\ {s.edits, s.losses, s.reloads, s.refreshes} \subseteq Nat

ASSUME OutboxAssumption ==
  /\ \A s \in Setups : IsSetup(s)
  /\ NoId \notin Nat

VARIABLES
  rows,         \* the log in the database: the data of each row, or NoRow
  local,        \* allContacts of each window
  saved,        \* localStorage: the contacts saved by each browser
  committing,   \* committingContactIdsRef: the keys of commits under way
  posts,        \* POST requests, from the browser to the answer
  deletes,      \* DELETE requests
  timers,       \* CONTACT_COMMIT_RETRY_DELAY_MS timers set
  load,         \* contactsLoadInFlightPromise: [stage, found]
  filter,       \* activeCallsignPrefixRef: the QSOs the search selects
  link,         \* the backend socket is open
  events,       \* log events on their way to each window
  page,         \* how often each window was reloaded
  logged,       \* QSOs an operator logged
  discarded,    \* QSOs an operator deleted
  inserts,      \* how many rows were made of each QSO
  lost,         \* how many posts of each QSO lost their answer
  overtaken,    \* how many posts of each QSO a page with its row overtook
  env           \* [setup, edits, losses, refreshes]: the world and what it has used up

server == <<rows, inserts>>
history == <<logged, discarded, overtaken>>
lists == <<local, saved, committing>>
vars == <<rows, local, saved, committing, posts, deletes, timers, load, filter,
          link, events, page, logged, discarded, inserts, lost, overtaken, env>>

setup == env.setup
Windows == DOMAIN setup.browserOf
Browsers == Range(setup.browserOf)
Newest == setup.newest
Qsos == ToSet(Newest)
RowIds == 1..setup.rows
Ops == setup.ops

-----------------------------------------------------------------------------
(* Contacts in a list.  meta.clientId of a contact with an id is that id.   *)

Entry(id, status, data, session) ==
  [id |-> id, status |-> status, data |-> data, session |-> session]

ClientId(e) == IF e.id = NoId THEN e.data.qso ELSE e.id

SameContact(e, d) == IF e.id = NoId THEN ClientId(e) = ClientId(d) ELSE e.id = d.id

(* shouldPersistLocally.                                                    *)
Uncommitted(e) == e.status \in {"Pending", "Updating"}
Persisted(e) == Uncommitted(e) \/ e.status = "Failed"

(* The elements of s that are in S, in their order.                         *)
Kept(s, S) ==
  LET kept[i \in 0..Len(s)] ==
        IF i = 0 THEN <<>> ELSE IF s[i] \in S THEN Append(kept[i - 1], s[i]) ELSE kept[i - 1]
  IN kept[Len(s)]

OfQso(s, q) == Kept(s, {e \in ToSet(s) : e.data.qso = q})

(* Array.prototype.sort is stable, so contacts of one time keep their order. *)
SortContacts(s) ==
  LET sorted[i \in 0..Len(Newest)] ==
        IF i = 0 THEN <<>> ELSE sorted[i - 1] \o OfQso(s, Newest[i])
  IN sorted[Len(Newest)]

(* mergeContact: the first contact that matches takes the answer's fields   *)
(* and id; key is the clientId the answer was given, NoId for an event.     *)
MergeContact(s, key, id, data, session) ==
  LET matching == {i \in DOMAIN s : IF s[i].id # NoId THEN s[i].id = id
                                    ELSE s[i].data.qso = key}
      merged(old) == Entry(id, "Committed", data,
                           IF session = NoWindow THEN old ELSE session)
  IN SortContacts(IF matching = {} THEN Append(s, merged(NoWindow))
                  ELSE [s EXCEPT ![Min(matching)] = merged(@.session)])

(* Mutant: only edits of contacts in the database are saved.                *)
SavedUncommitted(s) == SelectSeq(s, LAMBDA e : e.status = "Updating")

SavedContacts(s) == Kept(s, {e \in ToSet(s) : Persisted(e)})

(* mergeResetCommittedPage.                                                 *)
MergeResetPage(s, fresh) == SortContacts(fresh \o SavedContacts(s))

MarkContactFailed(s, entry) ==
  SortContacts([i \in DOMAIN s |->
    IF SameContact(s[i], entry) THEN [s[i] EXCEPT !.status = "Failed"] ELSE s[i]])

Without(s, id) == Kept(s, {e \in ToSet(s) : e.id # id})

WithoutClient(s, key) == Kept(s, {e \in ToSet(s) : ClientId(e) # key})

(* Mutant: a contact whose commit is under way may be committed again.      *)
ToCommitAgain(s, held) == {i \in 1..Len(s) : Uncommitted(s[i])}

ToCommit(s, held) == {i \in 1..Len(s) : Uncommitted(s[i]) /\ ClientId(s[i]) \notin held}

(* nextContactToCommit: the first of these, if there is one.                *)
NextToCommit(s, held) ==
  LET found == ToCommit(s, held) IN IF found = {} THEN {} ELSE {s[Min(found)]}

-----------------------------------------------------------------------------
(* A turn of window w that ends with the list s: the save effect writes it  *)
(* to localStorage, the commit effect posts the first contact that is not   *)
(* being committed.  ended are the commit keys given up in the turn, others *)
(* the requests that stay on their way.                                     *)

Post(w, e) ==
  [win |-> w, page |-> page[w], entry |-> e, stage |-> "sent", row |-> e.id,
   rescored |-> <<>>, heard |-> TRUE]

Turn(w, s, ended, others) ==
  LET held == committing[w] \ ended
      posted == NextToCommit(s, held)
  IN /\ local' = [local EXCEPT ![w] = s]
     /\ saved' = [saved EXCEPT ![setup.browserOf[w]] = SavedContacts(s)]
     /\ posts' = others \cup {Post(w, e) : e \in posted}
     /\ committing' = [committing EXCEPT ![w] = held \cup {ClientId(e) : e \in posted}]

NoLoad == [stage |-> "none", found |-> <<>>]
Loading == [stage |-> "sent", found |-> <<>>]

InitIn(world) ==
  LET windows == DOMAIN world.browserOf
      qsos == ToSet(world.newest)
  IN
  /\ env = [setup |-> world, edits |-> 0, losses |-> 0, refreshes |-> 0]
  /\ rows = [r \in 1..world.rows |-> NoRow]
  /\ local = [w \in windows |-> <<>>]
  /\ saved = [b \in Range(world.browserOf) |-> <<>>]
  /\ committing = [w \in windows |-> {}]
  /\ posts = {} /\ deletes = {}
  /\ timers = [w \in windows |-> 0]
  /\ load = [w \in windows |-> Loading]
  /\ filter = [w \in windows |-> qsos]
  /\ link = [w \in windows |-> TRUE]
  /\ events = [w \in windows |-> <<>>]
  /\ page = [w \in windows |-> 0]
  /\ logged = {}
  /\ discarded = {}
  /\ inserts = [q \in qsos |-> 0]
  /\ lost = [q \in qsos |-> 0]
  /\ overtaken = [q \in qsos |-> 0]

Init == \E world \in Setups : InitIn(world)

-----------------------------------------------------------------------------
(* The operator.                                                            *)

(* logContact, and a Logged ADIF record of WSJT-X.                          *)
LogContact(w, q) ==
  /\ q \notin logged
  /\ logged' = logged \cup {q}
  /\ Turn(w, SortContacts(Append(local[w],
            Entry(NoId, "Pending", [qso |-> q, ver |-> 0], w))), {}, posts)
  /\ UNCHANGED <<server, deletes, timers, load, filter, link, events, page,
                 discarded, overtaken, lost, env>>

(* updateContacts: every contact with the identifier of entry i changes.    *)
EditContact(w, i) ==
  LET e == local[w][i]
      edited(d) == [d EXCEPT !.status = IF d.id = NoId THEN "Pending" ELSE "Updating",
                             !.data.ver = env.edits + 1]
  IN /\ "edit" \in Ops /\ env.edits < setup.edits
     /\ env' = [env EXCEPT !.edits = @ + 1]
     /\ Turn(w, SortContacts([j \in DOMAIN local[w] |->
               LET d == local[w][j] IN
               IF d.id = e.id /\ ClientId(d) = ClientId(e) THEN edited(d) ELSE d]), {}, posts)
     /\ UNCHANGED <<server, deletes, timers, load, filter, link, events, page,
                    history, lost>>

(* deleteContacts of a contact without an id changes the list only.         *)
DeleteLocal(w, i) ==
  LET e == local[w][i] IN
  /\ "delete" \in Ops
  /\ e.id = NoId
  /\ discarded' = discarded \cup {e.data.qso}
  /\ Turn(w, WithoutClient(local[w], ClientId(e)), {}, posts)
  /\ UNCHANGED <<server, deletes, timers, load, filter, link, events, page, logged,
                 overtaken, lost, env>>

DeleteCommitted(w, i) ==
  LET e == local[w][i] IN
  /\ "delete" \in Ops
  /\ e.id # NoId
  /\ e.data.qso \notin discarded
  /\ discarded' = discarded \cup {e.data.qso}
  /\ deletes' = deletes \cup {[win |-> w, page |-> page[w], row |-> e.id, stage |-> "sent"]}
  /\ UNCHANGED <<server, lists, posts, timers, load, filter, link, events, page, logged,
                 overtaken, lost, env>>

-----------------------------------------------------------------------------
(* The backend.                                                             *)

LogEntry(r, data, session) ==
  [type |-> "log_entry", row |-> r, data |-> data, session |-> session]

Latest(s) == IF Len(s) <= setup.backlog THEN s ELSE SubSeq(s, Len(s) - setup.backlog + 1, Len(s))

(* The broadcast reaches every open socket but one whose session the        *)
(* contact names; a receiver that lags behind skips the oldest messages.    *)
Broadcast(messages) ==
  events' = [w \in Windows |->
    IF link[w] THEN Latest(events[w] \o Kept(messages, {m \in ToSet(messages) : m.session # w}))
    ELSE events[w]]

(* Contacts whose points or multipliers changed too ("rescore").            *)
Rescored(r) ==
  {<<>>} \cup {<<LogEntry(s, rows[s], NoWindow)>> :
               s \in {s \in RowIds \ {r} : "rescore" \in Ops /\ rows[s] # NoRow}}

InsertRow == Max({0} \cup {r \in RowIds : rows[r] # NoRow}) + 1

StoreRow(p) == IF p.entry.id = NoId THEN InsertRow ELSE p.entry.id

(* commit_contact up to the release of the log's gate.                      *)
StorePost(p) ==
  LET r == StoreRow(p) q == p.entry.data.qso IN
  /\ p.stage = "sent"
  /\ q \notin setup.rejected
  /\ r \in RowIds
  /\ rows' = [rows EXCEPT ![r] = p.entry.data]
  /\ inserts' = IF rows[r] = NoRow THEN [inserts EXCEPT ![q] = @ + 1] ELSE inserts
  /\ \E S \in Rescored(r) :
       posts' = (posts \ {p}) \cup {[p EXCEPT !.stage = "stored", !.row = r, !.rescored = S]}
  /\ UNCHANGED <<lists, deletes, timers, load, filter, link, events, page, history,
                 lost, env>>

(* ... and from there: the events go out, then the answer.                  *)
PublishPost(p) ==
  /\ p.stage = "stored"
  /\ Broadcast(<<LogEntry(p.row, p.entry.data, p.entry.session)>> \o p.rescored)
  /\ posts' = (posts \ {p}) \cup (IF p.heard THEN {[p EXCEPT !.stage = "answered"]} ELSE {})
  /\ UNCHANGED <<server, lists, deletes, timers, load, filter, link, page, history,
                 lost, env>>

ServeDelete(d) ==
  /\ d.stage = "sent"
  /\ rows' = [rows EXCEPT ![d.row] = NoRow]
  /\ deletes' = (deletes \ {d}) \cup
       {[d EXCEPT !.stage = IF rows[d.row] = NoRow THEN "refused" ELSE "removed"]}
  /\ UNCHANGED <<lists, posts, timers, load, filter, link, events, page, history,
                 inserts, lost, env>>

PublishDelete(d) ==
  /\ d.stage = "removed"
  /\ Broadcast(<<[type |-> "contact_deleted", row |-> d.row, data |-> NoRow,
                  session |-> NoWindow]>>)
  /\ deletes' = (deletes \ {d}) \cup {[d EXCEPT !.stage = "answered"]}
  /\ UNCHANGED <<server, lists, posts, timers, load, filter, link, page, history,
                 lost, env>>

(* GET /logs/{id}/contacts with the search's prefix.                        *)
ServeLoad(w) ==
  LET found == SetToSeq({r \in RowIds : rows[r] # NoRow /\ rows[r].qso \in filter[w]}) IN
  /\ load[w].stage = "sent"
  /\ load' = [load EXCEPT ![w].stage = "answered", ![w].found =
       SortContacts([i \in DOMAIN found |->
                       Entry(found[i], "Committed", rows[found[i]], NoWindow)])]
  /\ UNCHANGED <<server, lists, posts, deletes, timers, filter, link, events, page,
                 history, lost, env>>

-----------------------------------------------------------------------------
(* Answers and events reach the window.                                     *)

(* The page that sent the request is still there.                           *)
Own(w, p) == p.win = w /\ p.page = page[w]

InFlight(w) == {p \in posts : Own(w, p) /\ p.heard}

(* What the backend still makes of requests nobody waits for.               *)
Unheard(S) ==
  {[p EXCEPT !.heard = FALSE] :
     p \in {p \in S : p.stage # "answered" /\ p.entry.data.qso \notin setup.rejected}}

FreedKeys(p) == {ClientId(p.entry)}

(* The answer carries the contact; or, when the row is gone again before    *)
(* the log is reloaded (LogCache, Answer), none.                            *)
Reply(w, p) ==
  LET e == p.entry
      merged == IF e.data.qso \in filter[w]
                THEN MergeContact(local[w], ClientId(e), p.row, e.data, e.session)
                ELSE WithoutClient(local[w], ClientId(e))
  IN /\ p.stage = "answered"
     /\ p \in InFlight(w)
     /\ \/ Turn(w, merged, FreedKeys(p), posts \ {p})
        \/ rows[p.row] = NoRow /\ Turn(w, MarkContactFailed(local[w], e), FreedKeys(p), posts \ {p})
     /\ UNCHANGED <<server, deletes, timers, load, filter, link, events, page, history,
                    lost, env>>

(* Mutant: no timer is set.                                                 *)
CommitFailedForGood(w, p) ==
  /\ UNCHANGED timers
  /\ committing' = [committing EXCEPT ![w] = @ \ FreedKeys(p)]

(* The POST fails in the browser: a retry timer is set and the key freed,   *)
(* and nothing is rendered.                                                 *)
CommitFailed(w, p) ==
  /\ timers' = [timers EXCEPT ![w] = @ + 1]
  /\ committing' = [committing EXCEPT ![w] = @ \ FreedKeys(p)]

(* The backend refuses the data, or (bound) has no row left, as when its    *)
(* disk is full.                                                            *)
Refuse(w, p) ==
  /\ p.stage = "sent"
  /\ p.entry.data.qso \in setup.rejected \/ StoreRow(p) \notin RowIds
  /\ p \in InFlight(w)
  /\ timers[w] < Cardinality(Qsos)  \* bound
  /\ CommitFailed(w, p)
  /\ posts' = posts \ {p}
  /\ UNCHANGED <<server, local, saved, deletes, load, filter, link, events, page,
                 history, lost, env>>

(* Nobody hears of it any more.                                             *)
DropPost(p) ==
  /\ p.stage = "sent" /\ ~p.heard
  /\ StoreRow(p) \notin RowIds
  /\ posts' = posts \ {p}
  /\ UNCHANGED <<server, lists, deletes, timers, load, filter, link, events, page,
                 history, lost, env>>

(* The network loses the request, or only its answer.                       *)
LosePost(w, p) ==
  /\ env.losses < setup.losses
  /\ p \in InFlight(w)
  /\ CommitFailed(w, p)
  /\ env' = [env EXCEPT !.losses = @ + 1]
  /\ lost' = [lost EXCEPT ![p.entry.data.qso] = @ + 1]
  /\ \/ p.stage # "stored" /\ posts' = posts \ {p}
     \/ Unheard({p}) # {} /\ posts' = (posts \ {p}) \cup Unheard({p})
  /\ UNCHANGED <<server, local, saved, deletes, load, filter, link, events, page, history>>

(* So for a DELETE.                                                         *)
LoseDelete(d) ==
  /\ env.losses < setup.losses
  /\ d.stage \in {"sent", "answered"}
  /\ env' = [env EXCEPT !.losses = @ + 1]
  /\ deletes' = (deletes \ {d}) \cup {[d EXCEPT !.stage = "refused"]}
  /\ UNCHANGED <<server, lists, posts, timers, load, filter, link, events, page,
                 history, lost>>

(* The timer renders the sorted list, and the commit effect runs.           *)
RetryTimer(w) ==
  /\ timers[w] > 0
  /\ timers' = [timers EXCEPT ![w] = @ - 1]
  /\ Turn(w, SortContacts(local[w]), {}, posts)
  /\ UNCHANGED <<server, deletes, load, filter, link, events, page, history, lost, env>>

DeleteReply(w, d) ==
  /\ d.stage \in {"answered", "refused"}
  /\ d.win = w
  /\ IF Own(w, d)
       THEN Turn(w, IF d.stage = "answered" THEN Without(local[w], d.row) ELSE local[w],
                 {}, posts)
       ELSE UNCHANGED <<lists, posts>>
  /\ deletes' = deletes \ {d}
  /\ UNCHANGED <<server, timers, load, filter, link, events, page, history, lost, env>>

(* New contacts whose row comes with the page before their own answer.      *)
Overtaken(w, fresh) ==
  {p \in InFlight(w) : /\ p.stage # "sent" /\ p.entry.id = NoId
                       /\ \E i \in DOMAIN fresh : fresh[i].id = p.row}

LoadReply(w) ==
  /\ load[w].stage = "answered"
  /\ load' = [load EXCEPT ![w] = NoLoad]
  /\ Turn(w, MergeResetPage(local[w], load[w].found), {}, posts)
  /\ overtaken' = [q \in Qsos |->
       overtaken[q] + Cardinality({p \in Overtaken(w, load[w].found) : p.entry.data.qso = q})]
  /\ UNCHANGED <<server, deletes, timers, filter, link, events, page, logged, discarded,
                 lost, env>>

LoadFails(w) ==
  /\ load[w] # NoLoad
  /\ env.losses < setup.losses
  /\ env' = [env EXCEPT !.losses = @ + 1]
  /\ load' = [load EXCEPT ![w] = NoLoad]
  /\ UNCHANGED <<server, lists, posts, deletes, timers, filter, link, events, page,
                 history, lost>>

Counted == /\ env.refreshes < setup.refreshes
           /\ env' = [env EXCEPT !.refreshes = @ + 1]

(* A load under way is not repeated.                                        *)
StartLoad(w) == load' = [load EXCEPT ![w] = IF @ = NoLoad THEN Loading ELSE @]

(* handleRescore.                                                           *)
Refresh(w) ==
  /\ "refresh" \in Ops /\ Counted
  /\ load[w] = NoLoad
  /\ StartLoad(w)
  /\ UNCHANGED <<server, lists, posts, deletes, timers, filter, link, events, page,
                 history, lost>>

(* A new search gives up the load under way and starts its own.             *)
Search(w, f) ==
  /\ Counted
  /\ f # filter[w]
  /\ filter' = [filter EXCEPT ![w] = f]
  /\ load' = [load EXCEPT ![w] = Loading]
  /\ UNCHANGED <<server, lists, posts, deletes, timers, link, events, page, history, lost>>

Disconnect(w) ==
  /\ "disconnect" \in Ops
  /\ link[w]
  /\ link' = [link EXCEPT ![w] = FALSE]
  /\ events' = [events EXCEPT ![w] = <<>>]
  /\ UNCHANGED <<server, lists, posts, deletes, timers, load, filter, page, history,
                 lost, env>>

(* onOpen of the backend socket refreshes the contacts.                     *)
Connect(w) ==
  /\ Counted
  /\ ~link[w]
  /\ link' = [link EXCEPT ![w] = TRUE]
  /\ StartLoad(w)
  /\ UNCHANGED <<server, lists, posts, deletes, timers, filter, events, page, history, lost>>

(* upsertRemoteContact and removeRemoteContact.                             *)
Receive(w) ==
  LET m == Head(events[w]) IN
  /\ events[w] # <<>>
  /\ events' = [events EXCEPT ![w] = Tail(@)]
  /\ IF m.type = "contact_deleted" THEN Turn(w, Without(local[w], m.row), {}, posts)
     ELSE IF m.data.qso \in filter[w]
       THEN Turn(w, MergeContact(local[w], NoId, m.row, m.data, m.session), {}, posts)
       ELSE UNCHANGED <<lists, posts>>
  /\ UNCHANGED <<server, deletes, timers, load, filter, link, page, history, lost, env>>

(* The page is loaded anew: the list is what localStorage holds, nobody     *)
(* waits for the requests of the old page, the session id stays.            *)
Reload(w) ==
  LET mine == InFlight(w)
      restored == SortContacts(saved[setup.browserOf[w]])
  IN /\ page[w] < setup.reloads
     /\ page' = [page EXCEPT ![w] = @ + 1]
     /\ lost' = [q \in Qsos |-> lost[q] + Cardinality({p \in mine : p.entry.data.qso = q})]
     /\ timers' = [timers EXCEPT ![w] = 0]
     /\ filter' = [filter EXCEPT ![w] = Qsos]
     /\ load' = [load EXCEPT ![w] = Loading]
     /\ events' = [events EXCEPT ![w] = <<>>]
     /\ link' = [link EXCEPT ![w] = TRUE]
     /\ local' = [local EXCEPT ![w] = restored]
     /\ saved' = saved
     /\ LET posted == NextToCommit(restored, {}) IN
          /\ committing' = [committing EXCEPT ![w] = {ClientId(e) : e \in posted}]
          /\ posts' = (posts \ mine) \cup Unheard(mine) \cup
                      {[Post(w, e) EXCEPT !.page = @ + 1] : e \in posted}
     /\ UNCHANGED <<server, deletes, history, env>>

-----------------------------------------------------------------------------
Keys == Qsos \cup RowIds

PostsOf(k) == {p \in posts : ClientId(p.entry) = k}
DeletesOf(k) == {d \in deletes : d.row = k}

Serve(k) ==
  \/ \E p \in PostsOf(k) : StorePost(p) \/ PublishPost(p) \/ DropPost(p)
  \/ \E d \in DeletesOf(k) : ServeDelete(d) \/ PublishDelete(d)

Answered(w, k) ==
  \/ \E p \in PostsOf(k) : Reply(w, p) \/ Refuse(w, p)
  \/ \E d \in DeletesOf(k) : DeleteReply(w, d)

Operator(w) ==
  \/ \E q \in Qsos : LogContact(w, q)
  \/ \E i \in DOMAIN local[w] : EditContact(w, i) \/ DeleteLocal(w, i) \/ DeleteCommitted(w, i)
  \/ Refresh(w)
  \/ \E f \in setup.filters : Search(w, f)

Network(w) ==
  \/ \E p \in posts : LosePost(w, p)
  \/ \E d \in deletes : LoseDelete(d)
  \/ LoadFails(w) \/ Disconnect(w) \/ Connect(w) \/ Reload(w)

(* Nothing is on its way and nothing waits; kept as a step so that TLC      *)
(* reports any other state without successor as a deadlock.                 *)
Quiescent ==
  /\ posts = {} /\ deletes = {}
  /\ \A w \in Windows : timers[w] = 0 /\ load[w] = NoLoad /\ events[w] = <<>>
  /\ UNCHANGED vars

Next ==
  \/ \E k \in Keys : Serve(k)
  \/ \E w \in Windows, k \in Keys : Answered(w, k)
  \/ \E w \in Windows :
       \/ Operator(w) \/ Network(w)
       \/ RetryTimer(w) \/ ServeLoad(w) \/ LoadReply(w) \/ Receive(w)
  \/ Quiescent

Spec == Init /\ [][Next]_vars

-----------------------------------------------------------------------------
(* The keys in committingContactIdsRef are those of the requests the window *)
(* waits for, each for one request: no contact is posted twice at a time,   *)
(* and no key stays behind that would keep a contact from ever being        *)
(* committed (nextContactToCommit skips it), whatever failed in between.    *)
OneCommitPerContact ==
  \A w \in Windows :
    /\ committing[w] = {ClientId(p.entry) : p \in InFlight(w)}
    /\ \A p1, p2 \in InFlight(w) : ClientId(p1.entry) = ClientId(p2.entry) => p1 = p2

(* Two windows of one browser would write each other's list over.           *)
OneWindowPerBrowser == IsInjective(setup.browserOf)

(* A contact the operator logged, and did not delete, is in the database or *)
(* in localStorage at every moment: a reload or a crash of the browser, in  *)
(* any state of its commit, never loses it.                                 *)
LoggedContactsSurvive ==
  OneWindowPerBrowser => \A q \in logged :
    \/ q \in discarded
    \/ inserts[q] > 0
    \/ \E b \in Browsers : \E i \in DOMAIN saved[b] : saved[b][i].data.qso = q

(* "Not made transactionally idempotent for the rare case where the backend *)
(* commits but its HTTP response is lost" (docs/radio-client-plan.md). The  *)
(* code does not keep that: in a log no contact was deleted from, a second  *)
(* row of a contact goes back to an answer that was lost, or that a page    *)
(* with the row overtook.  (Where a contact was deleted the next one may    *)
(* take its row id, and mergeContact may then give the answer for the new   *)
(* one to the old one's entry, still in the list: a third cause.)           *)
DuplicatesNeedACause ==
  OneWindowPerBrowser /\ discarded = {}
    => \A q \in Qsos : inserts[q] <= 1 + lost[q] + overtaken[q]

(* "On reconnect, pending operations resume" and "let pending rows flush"   *)
(* (docs/manual.md): while a contact of the window's list waits for its     *)
(* commit, one of its requests is under way or its retry timer runs, and    *)
(* either has the commit effect look at the list again.  So no failure,     *)
(* reload or crossing of answers leaves a contact uncommitted with nothing  *)
(* left that would send it.                                                 *)
PendingIsAwaited ==
  \A w \in Windows :
    (\E i \in 1..Len(local[w]) : Uncommitted(local[w][i]))
      => InFlight(w) # {} \/ timers[w] > 0

(* No request too many, and none too few (nextContactToCommit, the commit   *)
(* effect of useContactsOutbox.js).                                         *)
CommitsAreTracked == OneCommitPerContact /\ PendingIsAwaited
=============================================================================
