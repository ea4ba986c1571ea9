------------------------------- MODULE ScoredLog -------------------------------
(***************************************************************************)
(* The running score of a log: the handlers that commit, import and delete *)
(* contacts (backend/src/main.rs), the cached list of the log              *)
(* (backend/src/log_cache.rs), the tracker that keeps the scores of that   *)
(* list as it changes (IncrementalScoreTracker of backend/src/scoring.rs), *)
(* and a logger window that shows them.                                    *)
(*                                                                         *)
(* A request is one step up to the end of its turn at the cache: what can  *)
(* happen in between is in LogCache.  What it tells the windows it tells   *)
(* after its turn, and another request may do so first.  The code sends    *)
(* the contacts of a request one by one; here they are one step, as nothing *)
(* is claimed of a window before it was sent all of them, nor of one that  *)
(* was sent those of a later request before the last of an earlier one.    *)
(***************************************************************************)
EXTENDS ContactRules

CONSTANTS
  MaxId,         \* contact ids
  NotScored,
  Worlds         \* [names -> [rules, params, stored, pool, changes, env]]: a log, the
                 \* batches and parameters requests may send, and how many of each

Ids == 1 .. MaxId

VARIABLES
  world,         \* the log: one of Worlds
  rules,         \* the rules of its contest
  params,        \* contest_params of the log
  rows,          \* the contacts in the database
  tracker,       \* IncrementalLogState with the cached contacts, or NotScored
  telling,       \* what requests that had their turn have still to tell the windows
  shown,         \* a window: [scores, totals], scores by id
  stale,         \* history: the log changed and no window was told, or no page was loaded yet
  crossed,       \* history: two requests told the windows in the other order
  batched,       \* history: one request edited several contacts
  env            \* the requests left

log == <<world, rules, params>>
scoredVars == <<world, rules, params, rows, tracker, telling, shown, stale, crossed, batched, env>>

Spend(what) == env[what] > 0 /\ env' = [env EXCEPT ![what] = @ - 1]
Loaded == tracker # NotScored

-----------------------------------------------------------------------------
(* The tracker: s is its state, s.contacts the list it is lent, s.changed   *)
(* the contacts whose scores it changed.                                    *)

NewState(contacts) ==
  [qso_count |-> 0, qso_points |-> 0, raw_multiplier_count |-> 0, direct_bonus_points |-> 0,
   dupe_counts |-> <<>>, dupe_owners |-> <<>>, multiplier_owners |-> <<>>,
   multiplier_counts |-> <<>>, bonus_owners |-> <<>>, qso_count_bonus_counts |-> <<>>,
   contacts |-> contacts, changed |-> {}]

(* A cached contact carries what it is worth; the code works it out again   *)
(* every time.                                                              *)
Keys(c) == {k.key : k \in ToSet(c.worth.candidates)}
Bonuses(c) == ToSet(c.worth.bonuses)
TotalsOf(s) == Totals(rules, params, s, DOMAIN s.multiplier_owners)
NoTotals == [qso_count |-> 0, qso_points |-> 0, bonus_points |-> 0, multipliers |-> 0, score |-> 0]

OwnMultipliers(s, c) ==
  FoldLeft(LAMBDA t, k : IF k.key \in DOMAIN t.multiplier_owners \/ Full(t.multiplier_counts, k) THEN t
                         ELSE [t EXCEPT !.multiplier_owners = (k.key :> c.id) @@ @,
                                        !.multiplier_counts = Plus(@, k.group),
                                        !.raw_multiplier_count = @ + 1],
           s, c.worth.candidates)

OwnBonuses(s, c) ==
  FoldLeft(LAMBDA t, b : IF b.key \in DOMAIN t.bonus_owners THEN t
                         ELSE [t EXCEPT !.bonus_owners = (b.key :> c.id) @@ @,
                                        !.direct_bonus_points = @ + b.points],
           s, c.worth.bonuses)

(* t is s with the multipliers and bonuses of contact c, the i-th.          *)
Credited(s, t, i, c) ==
  [t EXCEPT !.qso_points = @ + c.worth.points,
            !.qso_count_bonus_counts =
              IF c.worth.points > 0 THEN FoldLeft(Plus, @, c.worth.counted) ELSE @,
            !.contacts[i].score =
              Score(c.worth.points, t.raw_multiplier_count - s.raw_multiplier_count,
                    t.direct_bonus_points - s.direct_bonus_points, FALSE)]

(* Score the contact at i as one that is no duplicate.                      *)
Credit(s, i) ==
  Credited(s, OwnBonuses(OwnMultipliers(s, s.contacts[i]), s.contacts[i]), i, s.contacts[i])

Counted(s, key) == [s EXCEPT !.qso_count = @ + 1,
                             !.dupe_counts = IF key = <<>> THEN @ ELSE Plus(@, key)]

AddContact(s, i) ==
  LET c == s.contacts[i]
      key == c.worth.dupe
      first == key # <<>> /\ TallyOf(s.dupe_counts, key) = 0 IN
  IF key # <<>> /\ ~first THEN [Counted(s, key) EXCEPT !.contacts[i].score = Score(0, 0, 0, TRUE)]
  ELSE Credit([Counted(s, key) EXCEPT !.dupe_owners = IF first THEN @ @@ (key :> c.id) ELSE @], i)

(* All of them, in the order of the list.                                   *)
Reset(contacts) ==
  FoldLeft(AddContact, NewState(contacts), [i \in DOMAIN contacts |-> i])

(* The first contact of the list that may take over, 0 if there is none.    *)
FirstIn(S) == IF S = {} THEN 0 ELSE Min(S)
Others(s, skip) == {i \in DOMAIN s.contacts : s.contacts[i].id # skip}
WithKey(s, key, skip) == FirstIn({i \in Others(s, skip) : s.contacts[i].worth.dupe = key})
Brings(c, key) == ~c.score.dupe /\ key \in Keys(c)
Earns(c, key) == ~c.score.dupe /\ \E b \in Bonuses(c) : b.key = key

KeysOwnedBy(owners, id) == {k \in DOMAIN owners : owners[k] = id}
Freed(owners, id) == Restrict(owners, DOMAIN owners \ KeysOwnedBy(owners, id))

(* Mutant: contacts that are gone go on counting for their state.           *)
TakeBackKeepsCounts(s, old) ==
  [s EXCEPT !.qso_count = Max({@ - 1, 0}),
            !.qso_points = @ - old.score.pts,
            !.raw_multiplier_count = @ - old.score.mult,
            !.direct_bonus_points = @ - old.score.bonus,
            !.dupe_counts = Minus(@, old.worth.dupe),
            !.multiplier_owners = Freed(@, old.id),
            !.bonus_owners = Freed(@, old.id)]

(* What the removed contact had scored is taken back.                       *)
TakeBack(s, old) ==
  [s EXCEPT !.qso_count = Max({@ - 1, 0}),
            !.qso_points = @ - old.score.pts,
            !.raw_multiplier_count = @ - old.score.mult,
            !.direct_bonus_points = @ - old.score.bonus,
            !.qso_count_bonus_counts = IF ~old.score.dupe /\ old.score.pts > 0
              THEN FoldLeft(Minus, @, old.worth.counted) ELSE @,
            !.dupe_counts = Minus(@, old.worth.dupe),
            !.multiplier_owners = Freed(@, old.id),
            !.bonus_owners = Freed(@, old.id)]

(* The original goes: the first of its duplicates is scored in its place,   *)
(* if it is marked as one (promote_contact).                                *)
PassOnDupe(s, t, old, skip) ==
  LET key == old.worth.dupe
      i == WithKey(t, key, skip)
      free == [t EXCEPT !.dupe_owners = Restrict(@, DOMAIN @ \ {key})]
      owned == [free EXCEPT !.dupe_owners = (key :> t.contacts[i].id) @@ @] IN
  CASE key \notin KeysOwnedBy(s.dupe_owners, old.id) -> t
    [] i = 0 -> free
    [] OTHER -> IF t.contacts[i].score.dupe
                THEN [Credit(owned, i) EXCEPT !.changed = @ \cup {t.contacts[i].id}] ELSE owned

(* Keys without an owner, mapped to the contact that takes them over.       *)
HeirsOf(keys, owners, Heir(_)) ==
  LET left == {k \in keys : k \notin DOMAIN owners /\ Heir(k) # 0} IN [k \in left |-> Heir(k)]
Owners(s, heirs) == [k \in DOMAIN heirs |-> s.contacts[heirs[k]].id]

PassOnMultipliers(s, keys, skip) ==
  LET heirs == HeirsOf(keys, s.multiplier_owners,
                       LAMBDA k : FirstIn({i \in Others(s, skip) : Brings(s.contacts[i], k)})) IN
  [s EXCEPT !.multiplier_owners = Owners(s, heirs) @@ @,
            !.raw_multiplier_count = @ + Cardinality(DOMAIN heirs),
            !.contacts = FoldSet(LAMBDA k, list : [list EXCEPT ![heirs[k]].score.mult = @ + 1],
                                 @, DOMAIN heirs),
            !.changed = @ \cup Range(Owners(s, heirs))]

PointsOf(key, c) == LET i == SelectInSeq(c.worth.bonuses, LAMBDA b : b.key = key)
                    IN IF i = 0 THEN 0 ELSE c.worth.bonuses[i].points

(* Mutant: the contacts that take bonuses over are not sent to the windows. *)
PassOnUntold(s, keys, skip) ==
  LET heirs == HeirsOf(keys, s.bonus_owners,
                       LAMBDA k : FirstIn({i \in Others(s, skip) : Earns(s.contacts[i], k)})) IN
  [s EXCEPT !.bonus_owners = Owners(s, heirs) @@ @,
            !.direct_bonus_points =
              @ + MapThenSumSet(LAMBDA k : PointsOf(k, s.contacts[heirs[k]]), DOMAIN heirs),
            !.contacts = FoldSet(LAMBDA k, list :
                [list EXCEPT ![heirs[k]].score.bonus = @ + PointsOf(k, list[heirs[k]])], @, DOMAIN heirs)]

PassOnBonuses(s, keys, skip) ==
  LET heirs == HeirsOf(keys, s.bonus_owners,
                       LAMBDA k : FirstIn({i \in Others(s, skip) : Earns(s.contacts[i], k)})) IN
  [s EXCEPT !.bonus_owners = Owners(s, heirs) @@ @,
            !.direct_bonus_points =
              @ + MapThenSumSet(LAMBDA k : PointsOf(k, s.contacts[heirs[k]]), DOMAIN heirs),
            !.contacts = FoldSet(LAMBDA k, list :
                [list EXCEPT ![heirs[k]].score.bonus = @ + PointsOf(k, list[heirs[k]])], @, DOMAIN heirs),
            !.changed = @ \cup Range(Owners(s, heirs))]

RemoveContact(s, old, skip) ==
  PassOnBonuses(PassOnMultipliers(PassOnDupe(s, TakeBack(s, old), old, skip),
                                  KeysOwnedBy(s.multiplier_owners, old.id), skip),
                KeysOwnedBy(s.bonus_owners, old.id), skip)

Capped == \E i \in DOMAIN rules.multipliers : rules.multipliers[i].max_count > 0

AllChanged(s) == [s EXCEPT !.changed = {c.id : c \in ToSet(s.contacts)}]

IndexOf(s, id) == FirstIn({i \in DOMAIN s.contacts : s.contacts[i].id = id})

(* on_contacts_upserted: the earlier versions go, then the new ones come.   *)
OnUpserted(s, ids, previous) ==
  IF Capped THEN AllChanged(Reset(s.contacts))
  ELSE FoldLeft(LAMBDA t, id : AddContact(t, IndexOf(t, id)),
                FoldLeft(LAMBDA t, old : RemoveContact(t, old, old.id), s, previous), ids)

OnDeleted(s, old) == IF Capped THEN AllChanged(Reset(s.contacts)) ELSE RemoveContact(s, old, 0)

-----------------------------------------------------------------------------
(* The cached list, newest first, and the requests that change it.          *)

NoScore == Score(0, 0, 0, FALSE)
Newer(a, b) == a.time > b.time \/ (a.time = b.time /\ a.id > b.id)
Older(a, b) == Newer(b, a)
Unscored(row) == [id |-> row.id, time |-> row.time, worth |-> Worth(rules, params, Enrich(row)), score |-> NoScore]

Load == Reset(SetToSortSeq({Unscored(row) : row \in rows}, Newer))
Current == IF Loaded THEN tracker ELSE Load  \* ensure_loaded

ScoresOf(s, ids) == [id \in ids |-> (CHOOSE c \in ToSet(s.contacts) : c.id = id).score]

ScoredInit ==
  /\ world \in DOMAIN Worlds /\ rules = Worlds[world].rules
  /\ params = Worlds[world].params /\ rows = Worlds[world].stored /\ env = Worlds[world].env
  /\ tracker = NotScored /\ telling = <<>>
  /\ shown = [scores |-> <<>>, totals |-> NoTotals]
  /\ stale = TRUE /\ crossed = FALSE /\ batched = FALSE

RowOf(id) == CHOOSE row \in rows : row.id = id
Logged(id) == \E row \in rows : row.id = id

(* A contact is checked against the rules, unless it is forced or was       *)
(* already logged with warnings.  Then it is diagnosed with the entities    *)
(* filled in, and logged whatever the diagnosis is.                         *)
Diagnosed(e) == e.force \/ (Logged(e.id) /\ RowOf(e.id).warned)

Warned(e) == Diagnosed(e) /\ ~ValidContact(rules, Enrich(e))

Accepted(e) ==
  /\ Diagnosed(e) \/ ValidContact(rules, e)
  /\ Logged(e.id) => KeepsSerials(rules, RowOf(e.id), e)

(* An entry is given an id by the database, the next of the table, unless   *)
(* it is an edit and has one.                                               *)
Stored(e) == [id |-> e.id, time |-> e.time, adif |-> Enrich(e).adif, warned |-> Warned(e)]
NextId == Max({row.id : row \in rows} \cup {0}) + 1
Numbered(batch) == [i \in DOMAIN batch |-> IF batch[i].id # 0 THEN batch[i] ELSE
  [batch[i] EXCEPT !.id = NextId + Cardinality({j \in 1 .. i - 1 : batch[j].id = 0})]]

Tell(scores, gone) == telling' = Append(telling, [scores |-> scores, gone |-> gone, totals |-> NotScored])

RowsAfter(entries) ==
  LET ids == {entries[i].id : i \in DOMAIN entries}
  IN {row \in rows : row.id \notin ids} \cup {Stored(entries[i]) : i \in DOMAIN entries}

(* upsert_contacts: the new versions are in the list, unscored, before the  *)
(* tracker runs.                                                            *)
Replacing(cached, new, ids) ==
  OnUpserted([cached EXCEPT !.contacts = SetToSortSeq({c \in ToSet(@) : c.id \notin ToSet(ids)} \cup new, Newer),
                            !.changed = {}],
             ids,
             LET known == SelectSeq(ids, LAMBDA id : IndexOf(cached, id) # 0)
             IN [i \in DOMAIN known |-> cached.contacts[IndexOf(cached, known[i])]])

Upserted(entries) ==
  Replacing(Current, {Unscored(Stored(entries[i])) : i \in DOMAIN entries},
            [i \in DOMAIN entries |-> entries[i].id])

Fits(batch) ==
  /\ \A i \in DOMAIN batch : batch[i].id # 0 => Logged(batch[i].id)
  /\ \A e \in ToSet(Numbered(batch)) : e.id <= MaxId /\ Accepted(e)

Commit(batch) ==
  LET entries == Numbered(batch) IN
  /\ Fits(batch) /\ Spend("batches")
  /\ rows' = RowsAfter(entries)
  /\ tracker' = Upserted(entries)
  /\ Tell(ScoresOf(tracker', tracker'.changed \cup {entries[i].id : i \in DOMAIN entries}), 0)
  /\ batched' = (batched \/ Cardinality({i \in DOMAIN batch : batch[i].id # 0}) > 1)
  /\ UNCHANGED <<log, shown, stale, crossed>>

Without(cached, i) ==
  OnDeleted([cached EXCEPT !.contacts = RemoveAt(@, i), !.changed = {}], cached.contacts[i])

RemovedFrom(cached, id) == Without(cached, IndexOf(cached, id))

Delete(id) ==
  /\ Spend("deletes") /\ Logged(id)
  /\ rows' = {row \in rows : row.id # id}
  /\ tracker' = RemovedFrom(Current, id)
  /\ Tell(ScoresOf(tracker', tracker'.changed), id)
  /\ UNCHANGED <<log, shown, stale, crossed, batched>>

(* A request whose client goes away while the database works: the change is *)
(* made, the list is out of date and nobody is told.                        *)
DropCommit(batch) ==
  LET entries == Numbered(batch) IN
  /\ Fits(batch) /\ Spend("drops")
  /\ rows' = RowsAfter(entries) /\ tracker' = NotScored /\ stale' = TRUE
  /\ UNCHANGED <<log, telling, shown, crossed, batched>>

(* update_log: other parameters, and the list is forgotten with its scores. *)
ChangeLog(p) ==
  /\ Spend("changes")
  /\ ParamsAreValid(rules, p)
  /\ params' = p /\ tracker' = NotScored /\ stale' = TRUE
  /\ UNCHANGED <<world, rules, rows, telling, shown, crossed, batched>>

-----------------------------------------------------------------------------
(* Windows.                                                                 *)

(* The contacts a request changed; then it reads the totals, whatever they  *)
(* are by now, and sends them.                                              *)
TellContacts(i) ==
  LET m == telling[i] IN
  /\ m.totals = NotScored
  /\ shown' = [shown EXCEPT !.scores = m.scores @@ Restrict(@, DOMAIN @ \ {m.gone})]
  /\ telling' = [telling EXCEPT ![i] = [scores |-> <<>>, gone |-> 0,
                   totals |-> IF Loaded THEN TotalsOf(tracker) ELSE NoTotals]]
  /\ crossed' = (crossed \/ \E j \in 1 .. i - 1 : telling[j].totals = NotScored)
  /\ UNCHANGED <<log, rows, tracker, stale, batched, env>>

TellTotals(i) ==
  /\ telling[i].totals # NotScored
  /\ shown' = [shown EXCEPT !.totals = telling[i].totals]
  /\ telling' = RemoveAt(telling, i)
  /\ crossed' = (crossed \/ i > 1)
  /\ UNCHANGED <<log, rows, tracker, stale, batched, env>>

(* A window loads its page, all of the list; the totals go to every window. *)
LoadPage ==
  /\ stale \/ crossed
  /\ tracker' = Current
  /\ shown' = [scores |-> ScoresOf(tracker', {c.id : c \in ToSet(tracker'.contacts)}),
               totals |-> TotalsOf(tracker')]
  /\ stale' = FALSE /\ crossed' = (telling # <<>>)
  /\ UNCHANGED <<log, rows, telling, batched, env>>

ScoredNext ==
  \/ \E batch \in Worlds[world].pool : Commit(batch) \/ DropCommit(batch)
  \/ \E id \in Ids : Delete(id)
  \/ \E p \in Worlds[world].changes : ChangeLog(p)
  \/ \E i \in DOMAIN telling : TellContacts(i) \/ TellTotals(i)
  \/ LoadPage

ScoredSpec == ScoredInit /\ [][ScoredNext]_scoredVars

-----------------------------------------------------------------------------
(* What the score of a log is, whatever happened to it.                     *)

Contacts == ToSet(tracker.contacts)
Originals == {c \in Contacts : ~c.score.dupe}
Dupes == Contacts \ Originals
SumOf(S, Amount(_)) == MapThenSumSet(Amount, S)
SameDupe(c, d) == c.worth.dupe # <<>> /\ c.worth.dupe = d.worth.dupe

(* Of the contacts that are duplicates of each other exactly one is         *)
(* original, whichever was edited or deleted; it has its points and the     *)
(* others have none (is_dupe of add_contact, promote_contact).              *)
OneOriginalEach ==
  Loaded /\ ~batched =>
    /\ \A c \in Contacts : Cardinality({d \in Originals : d = c \/ SameDupe(c, d)}) = 1
    /\ \A c \in Dupes : c.score = Score(0, 0, 0, TRUE)
    /\ \A c \in Originals : c.score.pts = c.worth.points
    /\ tracker.qso_count = Cardinality(Contacts)
    /\ tracker.qso_points = SumOf(Originals, LAMBDA c : c.score.pts)

CreditsAddUp ==
  Loaded =>
    /\ tracker.raw_multiplier_count = SumOf(Originals, LAMBDA c : c.score.mult)
    /\ tracker.direct_bonus_points = SumOf(Originals, LAMBDA c : c.score.bonus)
    /\ \A c \in Originals : c.score.mult = Cardinality(KeysOwnedBy(tracker.multiplier_owners, c.id))
    /\ \A c \in Originals : KeysOwnedBy(tracker.multiplier_owners, c.id) \subseteq Keys(c)
    /\ ~Capped => DOMAIN tracker.multiplier_owners = UNION {Keys(c) : c \in Originals}
    /\ DOMAIN tracker.bonus_owners
         = UNION {{b.key : b \in Bonuses(c)} : c \in Originals}

ListedOrder == SetToSortSeq({[row EXCEPT !.adif = Enrich(row).adif] : row \in rows}, Newer)
ClaimedOrder == SetToSortSeq(rows, Older)  \* of export_cabrillo, by contact_score_order

(* Contacts that exclude or replace each other are worth the same.          *)
Even ==
  /\ \A c, d \in Contacts : SameDupe(c, d) => c.worth = d.worth
  /\ \A c, d \in Contacts : \A b \in Bonuses(c), e \in Bonuses(d) : b.key = e.key => b = e

(* Multipliers of one name, and those that share a limit, have one limit,   *)
(* and no reward counts them: then it does not matter which come first.     *)
GroupOf(m) == IF m.cap_group = None THEN m.id ELSE m.cap_group
EvenCaps == Capped =>
  /\ \A m, n \in ToSet(rules.multipliers) :
       /\ m.name = n.name => GroupOf(m) = GroupOf(n)
       /\ GroupOf(m) = GroupOf(n) => m.max_count = n.max_count
  /\ rules.multiplier_count_bonus_points = <<>>

(* The score the Cabrillo file claims, of the contacts in the order they    *)
(* were made, is the score the windows were shown, kept up in the order     *)
(* they were logged, or newest first where multipliers are limited          *)
(* (export_cabrillo, recalculate_score).                                    *)
ClaimedScoreIsShown ==
  Loaded /\ ~batched /\ EvenCaps /\ Even =>
    ScorerTotals(rules, params, ScoreContacts(rules, params, ClaimedOrder)) = TotalsOf(tracker)

(* Where multipliers are limited, the scores are those of the list as it is *)
(* ordered, newest first, and not of the order of the changes.              *)
CappedScoreIsOfTheList ==
  Loaded /\ Capped =>
    LET scorer == ScoreContacts(rules, params, ListedOrder) IN
    /\ TotalsOf(tracker) = ScorerTotals(rules, params, scorer)
    /\ \A c \in Contacts : c.score = scorer.scores[c.id]

(* Of contacts that duplicate each other one is original; every multiplier  *)
(* and every bonus the originals bring is counted once and                  *)
(* credited to one of them that brings it (the owners of                    *)
(* IncrementalLogState), as long as no request edits several contacts; and  *)
(* what a scoring from scratch gives is what the changes one by one gave    *)
(* (apply_contact_change against recalculate_score).                        *)
ScoreIsOfTheList ==
  OneOriginalEach /\ (~batched => CreditsAddUp) /\ ClaimedScoreIsShown /\ CappedScoreIsOfTheList

(* A window that was told everything, in order, shows the score of every    *)
(* contact and the totals as the server has them (LogEntry of the changed   *)
(* contacts, ScoreUpdate).                                                  *)
WindowsShowTheScores ==
  ~stale /\ ~crossed /\ telling = <<>> =>
    /\ shown.scores = ScoresOf(tracker, {c.id : c \in Contacts})
    /\ shown.totals = TotalsOf(tracker)
=============================================================================
