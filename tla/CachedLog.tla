------------------------------- MODULE CachedLog -------------------------------
(***************************************************************************)
(* What the backend derives from the contacts of a log and keeps up contact *)
(* by contact: the ordered list with its indexes (CachedLog of             *)
(* backend/src/log_cache.rs), the list of times behind the rates           *)
(* (backend/src/stats.rs) and the calls that complete a partial one        *)
(* (backend/src/supercheckpartial.rs).                                     *)
(*                                                                         *)
(* A request is one step, the whole turn at the log's gate; what may happen *)
(* in between is in LogCache, and the scores, the third of the processors, *)
(* are in ScoredLog.                                                       *)
(***************************************************************************)
EXTENDS Integers, FiniteSetsExt, SequencesExt, TLC

CONSTANTS
  MaxRowId,      \* contact ids
  Upper,         \* [letters -> letters]: the capital of a letter
  LastWindow,    \* LAST_10_CONTACTS
  Hour,          \* HOUR_SECONDS
  NotKept,       \* the log is not in the cache, or out of date
  KeptWorlds     \* [names -> [master, stored, pool, prefixes, clocks, env]]: the
                 \* file of known calls, the log, and what requests may ask for

(* A contact is [id, time, call, operator]; a call is a sequence of letters. *)

VARIABLES
  keptWorld,
  saved,         \* the contacts in the database
  kept,          \* [list, positions, calls, rates], or NotKept
  known,         \* SuperCheckPartialState, of every log and for good
  keptEnv        \* the requests left

keptVars == <<keptWorld, saved, kept, known, keptEnv>>

SpendKept(what) == keptEnv[what] > 0 /\ keptEnv' = [keptEnv EXCEPT ![what] = @ - 1]

-----------------------------------------------------------------------------
(* The list, newest first, and its indexes.                                 *)

Capital(text) == [i \in DOMAIN text |-> Upper[text[i]]]

(* contact_order_key *)
After(c, d) == c.time > d.time \/ (c.time = d.time /\ c.id > d.id)
NewestFirst(contacts) == SortSeq(contacts, After)
WithId(contacts, id) == SelectInSeq(contacts, LAMBDA c : c.id = id)  \* 0: none

PositionsOf(list) == [id \in {c.id : c \in ToSet(list)} |-> WithId(list, id)]
CallsOf(list) ==
  [call \in {Capital(c.call) : c \in ToSet(list)} |->
     LET its == SelectSeq(list, LAMBDA c : Capital(c.call) = call) IN [i \in DOMAIN its |-> its[i].id]]
Reindexed(log) == [log EXCEPT !.positions = PositionsOf(log.list), !.calls = CallsOf(log.list)]

ContactById(log, id) == IF id \in DOMAIN log.positions THEN {log.list[log.positions[id]]} ELSE {}

Merged(list, c) == LET i == WithId(list, c.id)
                   IN IF i # 0 THEN [list EXCEPT ![i] = c] ELSE Append(list, c)

(* sorted_insert_position: before the first contact that comes after it.    *)
InsertPosition(list, c) == LET i == SelectInSeq(list, LAMBDA d : After(c, d))
                           IN IF i = 0 THEN Len(list) + 1 ELSE i

(* Mutant: the contacts behind a new one keep their positions.              *)
InsertedBehind(log, c) ==
  LET at == InsertPosition(log.list, c)
      call == Capital(c.call)
  IN [log EXCEPT !.list = InsertAt(@, at, c),
                 !.positions = (c.id :> at) @@ @,
                 !.calls = (call :> (IF call \in DOMAIN @ THEN Append(@[call], c.id) ELSE <<c.id>>)) @@ @]

(* insert_new_contact_sorted: the contacts from there on move.              *)
Inserted(log, c) ==
  LET at == InsertPosition(log.list, c)
      list == InsertAt(log.list, at, c)
      call == Capital(c.call)
  IN [log EXCEPT !.list = list,
                 !.positions = [id \in {list[i].id : i \in at .. Len(list)} |-> WithId(list, id)] @@ @,
                 !.calls = (call :> (IF call \in DOMAIN @ THEN Append(@[call], c.id) ELSE <<c.id>>)) @@ @]

(* apply_upserted_contacts: the indexes follow as long as every contact is  *)
(* new; after an edit they are made anew, when the processors have run.     *)
Applied(log, committed, edits) ==
  IF edits THEN [log EXCEPT !.list = NewestFirst(FoldLeft(Merged, @, committed))]
           ELSE FoldLeft(Inserted, log, committed)

(* contacts_display_page of the contacts whose call begins with the prefix: *)
(* from the first call that is not before it, as long as they match.        *)
StartsWith(call, prefix) == IsPrefix(prefix, call)
NotBefore(call, prefix) ==
  \/ StartsWith(call, prefix)
  \/ \E i \in DOMAIN call \cap DOMAIN prefix :
       call[i] > prefix[i] /\ SubSeq(call, 1, i - 1) = SubSeq(prefix, 1, i - 1)
Alphabetic(call, other) == call # other /\ NotBefore(other, call)

MatchingIds(log, prefix) ==
  LET range == SetToSortSeq({call \in DOMAIN log.calls : NotBefore(call, prefix)}, Alphabetic)
      past == SelectInSeq(range, LAMBDA call : ~StartsWith(call, prefix))
      matching == IF past = 0 THEN range ELSE SubSeq(range, 1, past - 1)
  IN UNION {ToSet(log.calls[call]) : call \in ToSet(matching)}

Slice(list, offset, limit) == SubSeq(list, offset + 1, Min({offset + limit, Len(list)}))

Page(log, offset, limit, text) ==
  LET prefix == Capital(text)
      positions == {log.positions[id] : id \in MatchingIds(log, prefix) \cap DOMAIN log.positions}
      found == SetToSortSeq(positions, LAMBDA i, j : i < j)
      at == Slice(found, offset, limit)
  IN IF prefix = <<>> THEN Slice(log.list, offset, limit) ELSE [i \in DOMAIN at |-> log.list[at[i]]]

-----------------------------------------------------------------------------
(* The rates: entries in the order of time (StatsLogState).                 *)

Before(e, f) == e.time < f.time \/ (e.time = f.time /\ e.id < f.id)
StatsEntry(c) == [id |-> c.id, time |-> c.time, operator |-> Capital(c.operator)]
RatesOf(contacts) == SortSeq([i \in DOMAIN contacts |-> StatsEntry(contacts[i])], Before)

RemoveEntry(entries, id) == LET i == WithId(entries, id) IN IF i = 0 THEN entries ELSE RemoveAt(entries, i)
UpsertEntry(entries, e) ==
  LET others == RemoveEntry(entries, e.id)
  IN InsertAt(others, 1 + Cardinality({i \in DOMAIN others : Before(others[i], e)}), e)

(* A rate per hour is a fraction; <<>> is none.                             *)
WindowRate(entries, size) ==
  LET count == Min({Len(entries), size})
      span == IF count = 0 THEN 0 ELSE Last(entries).time - entries[Len(entries) - count + 1].time
  IN [qso_count |-> count,
      rate |-> IF count > 1 /\ span > 0 THEN <<(count - 1) * Hour, span>> ELSE <<>>]

InTime(entries, start, end) == Cardinality({i \in DOMAIN entries : entries[i].time \in start .. end})

MovingHour(entries, now) ==
  LET count == InTime(entries, now - Hour, now) IN [qso_count |-> count, rate |-> <<count, 1>>]
ClockHour(entries, now) ==
  LET elapsed == now % Hour
      count == InTime(entries, now - elapsed, now)
  IN [qso_count |-> count, rate |-> IF elapsed > 0 THEN <<count * Hour, elapsed>> ELSE <<>>]

(* window_stats: contacts of the future do not count yet.                   *)
WindowStats(entries, now) ==
  LET past == SelectSeq(entries, LAMBDA e : e.time <= now)
  IN [last |-> WindowRate(past, LastWindow), moving |-> MovingHour(past, now), clock |-> ClockHour(past, now)]

Snapshot(entries, now) ==
  [overall |-> WindowStats(entries, now),
   by_operator |-> [op \in {e.operator : e \in ToSet(entries)} \ {<<>>} |->
                      WindowStats(SelectSeq(entries, LAMBDA e : e.operator = op), now)]]

-----------------------------------------------------------------------------
(* insert_callsigns: each call once, in the order they came.                *)
KnownWith(calls, contacts) ==
  FoldLeft(LAMBDA seen, c : IF Contains(seen, Capital(c.call)) THEN seen ELSE Append(seen, Capital(c.call)),
           calls, contacts)

-----------------------------------------------------------------------------
(* The requests at the gate of the log.                                     *)

(* ensure_loaded *)
LoadedFrom(contacts) ==
  LET list == NewestFirst(SetToSeq(contacts))
  IN Reindexed([list |-> list, positions |-> <<>>, calls |-> <<>>, rates |-> RatesOf(list)])
Present == IF kept = NotKept THEN LoadedFrom(saved) ELSE kept
KnownNow == IF kept = NotKept THEN KnownWith(known, Present.list) ELSE known

KeptInit ==
  /\ keptWorld \in DOMAIN KeptWorlds
  /\ saved = KeptWorlds[keptWorld].stored /\ keptEnv = KeptWorlds[keptWorld].env
  /\ kept = NotKept /\ known = KnownWith(<<>>, KeptWorlds[keptWorld].master)

Read ==
  /\ kept = NotKept
  /\ kept' = Present /\ known' = KnownNow
  /\ UNCHANGED <<keptWorld, saved, keptEnv>>

FreshId == Max({c.id : c \in saved} \cup {0}) + 1
Given(batch) == [i \in DOMAIN batch |-> IF batch[i].id # 0 THEN batch[i] ELSE
  [batch[i] EXCEPT !.id = FreshId + Cardinality({j \in 1 .. i - 1 : batch[j].id = 0})]]
Possible(batch) ==
  /\ \A i \in DOMAIN batch : batch[i].id # 0 => \E c \in saved : c.id = batch[i].id
  /\ \A c \in ToSet(Given(batch)) : c.id <= MaxRowId

SavedAfter(final) ==
  {c \in saved : WithId(final, c.id) = 0} \cup ToSet(final)

(* The last version of a contact that is in a batch twice.                  *)
Final(committed) ==
  LET last == SelectSeq([i \in DOMAIN committed |-> i],
                        LAMBDA i : \A j \in i + 1 .. Len(committed) : committed[j].id # committed[i].id)
  IN [k \in DOMAIN last |-> committed[last[k]]]

(* on_contacts_upserted of StatsTracker.                                    *)
RatesAfter(entries, previous, final) ==
  FoldLeft(LAMBDA es, c : UpsertEntry(es, StatsEntry(c)),
           FoldSet(LAMBDA c, es : RemoveEntry(es, c.id), entries, previous), final)

UpsertContacts(batch) ==
  LET final == Final(Given(batch))
      previous == UNION {ContactById(Present, c.id) : c \in ToSet(final)}
      edits == previous # {}
      log == [Applied(Present, final, edits) EXCEPT !.rates = RatesAfter(@, previous, final)]
  IN /\ SpendKept("upserts") /\ Possible(batch)
     /\ saved' = SavedAfter(final)
     /\ kept' = IF edits THEN Reindexed(log) ELSE log
     /\ known' = KnownWith(KnownNow, final)
     /\ UNCHANGED keptWorld

DeleteKept(id) ==
  LET log == Present IN
  /\ SpendKept("deletes") /\ \E c \in saved : c.id = id
  /\ saved' = {c \in saved : c.id # id}
  /\ kept' = Reindexed([log EXCEPT !.list = RemoveAt(@, WithId(@, id)), !.rates = RemoveEntry(@, id)])
  /\ known' = KnownNow
  /\ UNCHANGED keptWorld

(* A request that is dropped while the database works: its change is in the *)
(* table, and the next request loads the log again.                         *)
UpsertUnseen(batch) ==
  /\ SpendKept("unseen") /\ Possible(batch)
  /\ saved' = SavedAfter(Final(Given(batch))) /\ kept' = NotKept
  /\ UNCHANGED <<keptWorld, known>>

KeptNext ==
  \/ Read
  \/ \E batch \in KeptWorlds[keptWorld].pool : UpsertContacts(batch) \/ UpsertUnseen(batch)
  \/ \E id \in 1 .. MaxRowId : DeleteKept(id)

-----------------------------------------------------------------------------
(* A log that was kept up is as one that is loaded now: the list and the    *)
(* place of every contact in it, what a search shows on its pages, and the  *)
(* rates, which are those of the contacts in the database; and every call   *)
(* of it completes a partial one, once (apply_upserted_contacts,            *)
(* rebuild_indexes, StatsLogState and insert_callsigns).                    *)
KeptUpIsAsLoaded ==
  kept # NotKept =>
    LET fresh == LoadedFrom(saved) IN
    /\ kept.list = fresh.list /\ kept.positions = fresh.positions
    /\ \A text \in KeptWorlds[keptWorld].prefixes :
         Page(kept, 0, 1, text) \o Page(kept, 1, MaxRowId, text)
           = SelectSeq(fresh.list, LAMBDA c : StartsWith(Capital(c.call), Capital(text)))
    /\ kept.rates = fresh.rates
    /\ \A now \in KeptWorlds[keptWorld].clocks :
         LET stats == Snapshot(kept.rates, now)
             in(start) == Cardinality({c \in saved : c.time >= start /\ c.time <= now})
         IN /\ stats.overall.moving.qso_count = in(now - Hour)
            /\ stats.overall.clock.qso_count = in((now \div Hour) * Hour)
    /\ \A c \in saved : Cardinality({i \in DOMAIN known : known[i] = Capital(c.call)}) = 1
=============================================================================
