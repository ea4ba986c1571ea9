----------------------------- MODULE LogDatabase -----------------------------
(***************************************************************************)
(* The canonical database of the backend: the SQLite tables and the cache  *)
(* the single worker thread publishes (backend/src/db).  The worker takes  *)
(* one command at a time, so each command is one action: its SQL           *)
(* transaction and the cache publication that follows.  They can be one    *)
(* step because only the worker reads SQL and every other thread reads     *)
(* only the cache; a process that dies between the two has committed, and  *)
(* is the command's step followed by Restart.                              *)
(*                                                                         *)
(* Abstractions: a contact is its log, its number in one serial field (or  *)
(* none), its band and its time; a log's other columns are one value of    *)
(* Params.  The serial index is kept per field and the fields never meet,  *)
(* so one field stands for all of them.                                    *)
(***************************************************************************)
EXTENDS Integers, Sequences, FiniteSets

CONSTANTS
  MaxLogs,      \* bound: rows of table logs
  MaxContacts,  \* bound: rows of table qsos
  MaxI64,       \* i64::MAX, scaled down
  MaxRevision,  \* bound: cache revisions handed out by one process
  Params,       \* log metadata
  Serials,      \* numbers a committed contact may carry in the serial field
  Bands,
  Times,
  Payloads,     \* the contacts that clients commit
  NoSerial,     \* the contact has no number in the serial field
  NoLog, NoRow, NoId, NotLoaded

LogIds == 1..MaxLogs
ContactIds == 1..MaxContacts
Payload == [serial : Serials \cup {NoSerial}, band : Bands, time : Times]

ASSUME BoundsAssumption ==
  /\ MaxLogs \in Nat /\ MaxContacts \in Nat
  /\ MaxI64 \in Nat /\ MaxRevision \in Nat
ASSUME SerialsAssumption ==
  /\ Serials \subseteq Int
  /\ \A v \in Serials : v <= MaxI64
ASSUME PayloadsAssumption == Payloads \subseteq Payload
ASSUME AbsentAssumption ==
  /\ NoLog \notin Params \cup LogIds
  /\ NoSerial \notin Serials
  /\ NoId \notin ContactIds

VARIABLES
  \* SQLite, durable
  logRows,      \* table logs
  qsoRows,      \* table qsos
  serialRows,   \* table log_serial_state: NEXT_SERIAL, 0 for no row
  \* DatabaseCache, lost by a restart
  logs,         \* cache.logs[l].log
  revision,     \* cache.logs[l].revision, 0 for no log
  owners,       \* cache.owners
  counts,       \* cache.counts, -1 for no entry
  contacts,     \* cache.contacts, NotLoaded for no entry
  nextSerial,   \* cache.next_serial, 0 for no entry
  lastRevision, \* cache.next_revision
  \* history
  issued        \* the serials handed out for each log, in order

sqlVars == <<logRows, qsoRows, serialRows>>
vars == <<logRows, qsoRows, serialRows, logs, revision, owners, counts,
          contacts, nextSerial, lastRevision, issued>>

Contact == [log : LogIds, serial : Serials \cup {NoSerial},
            band : Bands, time : Times]
Row(l, p) == [log |-> l, serial |-> p.serial, band |-> p.band, time |-> p.time]

ASSUME NoRowAssumption == NoRow \notin Contact

Max2(a, b) == IF a >= b THEN a ELSE b

-----------------------------------------------------------------------------
(* CachedContacts: what CachedContacts::new, upsert and remove compute.     *)

OwnedBy(rows, c, l) == rows[c] # NoRow /\ rows[c].log = l

CountOf(rows, l) == Cardinality({c \in ContactIds : OwnedBy(rows, c, l)})

Carriers(byId, v) == {c \in ContactIds : byId[c] # NoRow /\ byId[c].serial = v}

(* The index that db_contacts followed by one upsert per row builds.        *)
CachedFrom(rows, l) ==
  LET byId == [c \in ContactIds |-> IF OwnedBy(rows, c, l) THEN rows[c] ELSE NoRow]
  IN  [by_id   |-> byId,
       ordered |-> {<<c, byId[c]>> : c \in {d \in ContactIds : byId[d] # NoRow}},
       global  |-> [v \in Serials |-> Cardinality(Carriers(byId, v))],
       bands   |-> [b \in Bands |-> [v \in Serials |->
                      Cardinality({c \in Carriers(byId, v) : byId[c].band = b})]]]

EmptyCached ==
  [by_id   |-> [c \in ContactIds |-> NoRow],
   ordered |-> {},
   global  |-> [v \in Serials |-> 0],
   bands   |-> [b \in Bands |-> [v \in Serials |-> 0]]]

CachedType ==
  [by_id   : [ContactIds -> Contact \cup {NoRow}],
   ordered : SUBSET (ContactIds \X Contact),
   global  : [Serials -> Nat],
   bands   : [Bands -> [Serials -> Nat]]]

(* Entries of the time-ordered map are keyed by (time, id).                 *)
SameKey(e, f) == e[1] = f[1] /\ e[2].time = f[2].time

(* update_count: an absent entry is not decremented.                        *)
Recount(n, insert) == IF insert THEN n + 1 ELSE IF n > 0 THEN n - 1 ELSE 0

UpdateCount(values, v, insert) ==
  IF v = NoSerial THEN values
  ELSE [values EXCEPT ![v] = Recount(values[v], insert)]

UpdateBands(bands, row, insert) ==
  [bands EXCEPT ![row.band] = UpdateCount(bands[row.band], row.serial, insert)]

WithoutKey(entries, c, row) == {e \in entries : ~SameKey(e, <<c, row>>)}

CachedRemove(cc, c) ==
  LET row == cc.by_id[c]
  IN  IF row = NoRow THEN cc
      ELSE [by_id   |-> [cc.by_id EXCEPT ![c] = NoRow],
            ordered |-> WithoutKey(cc.ordered, c, row),
            global  |-> UpdateCount(cc.global, row.serial, FALSE),
            bands   |-> UpdateBands(cc.bands, row, FALSE)]

CachedInsert(cc, c, row) ==
  [by_id   |-> [cc.by_id EXCEPT ![c] = row],
   ordered |-> WithoutKey(cc.ordered, c, row) \cup {<<c, row>>},
   global  |-> UpdateCount(cc.global, row.serial, TRUE),
   bands   |-> UpdateBands(cc.bands, row, TRUE)]

(* Mutant: the old version of an edited contact is not taken out first.     *)
CachedUpsertOverOld(cc, c, row) == CachedInsert(cc, c, row)

CachedUpsert(cc, c, row) == CachedInsert(CachedRemove(cc, c), c, row)

(* The largest number of the field in the log, as serial_max reports it.    *)
IsSerialMax(cc, v) ==
  /\ v \in Serials /\ cc.global[v] > 0
  /\ \A w \in Serials : cc.global[w] > 0 => w <= v

-----------------------------------------------------------------------------
Init ==
  /\ logRows = [l \in LogIds |-> NoLog]
  /\ qsoRows = [c \in ContactIds |-> NoRow]
  /\ serialRows = [l \in LogIds |-> 0]
  /\ logs = [l \in LogIds |-> NoLog]
  /\ revision = [l \in LogIds |-> 0]
  /\ owners = [c \in ContactIds |-> NoLog]
  /\ counts = [l \in LogIds |-> -1]
  /\ contacts = [l \in LogIds |-> NotLoaded]
  /\ nextSerial = [l \in LogIds |-> 0]
  /\ lastRevision = 0
  /\ issued = [l \in LogIds |-> <<>>]

(* Mutant: a revision is used up but the log is not stamped with it.        *)
BumpUnstamped(l) ==
  /\ lastRevision < MaxRevision
  /\ lastRevision' = lastRevision + 1
  /\ UNCHANGED revision

BumpRevision(l) ==
  /\ lastRevision < MaxRevision
  /\ lastRevision' = lastRevision + 1
  /\ revision' = [revision EXCEPT ![l] = lastRevision + 1]

(* INTEGER PRIMARY KEY without AUTOINCREMENT: an insert takes the largest   *)
(* id in use plus one, so the id of a deleted last row is used again.       *)
IsNextRowId(rows, absent, ids, id) ==
  /\ \A other \in ids : other >= id => rows[other] = absent
  /\ id # 1 => rows[id - 1] # absent

CreateLog(l, p) ==
  /\ IsNextRowId(logRows, NoLog, LogIds, l)
  /\ logRows' = [logRows EXCEPT ![l] = p]
  /\ logs' = [logs EXCEPT ![l] = p]
  /\ BumpRevision(l)
  /\ counts' = [counts EXCEPT ![l] = 0]
  /\ contacts' = [contacts EXCEPT ![l] = EmptyCached]
  /\ UNCHANGED <<qsoRows, serialRows, owners, nextSerial, issued>>

UpdateLog(l, p) ==
  /\ logRows[l] # NoLog
  /\ logRows' = [logRows EXCEPT ![l] = p]
  /\ logs' = [logs EXCEPT ![l] = p]
  /\ BumpRevision(l)
  /\ UNCHANGED <<qsoRows, serialRows, owners, counts, contacts, nextSerial, issued>>

(* next_serial.retain(..) of DatabaseCache::remove_log.                     *)
ForgetSerial(l) == [nextSerial EXCEPT ![l] = 0]

(* ON DELETE CASCADE empties qsos and log_serial_state; DatabaseCache::     *)
(* remove_log does the same to the cache.  The next log created may take    *)
(* the id over, so the history of issued serials starts again.              *)
DeleteLog(l) ==
  /\ logRows[l] # NoLog
  /\ logRows' = [logRows EXCEPT ![l] = NoLog]
  /\ qsoRows' = [c \in ContactIds |-> IF OwnedBy(qsoRows, c, l) THEN NoRow ELSE qsoRows[c]]
  /\ serialRows' = [serialRows EXCEPT ![l] = 0]
  /\ logs' = [logs EXCEPT ![l] = NoLog]
  /\ revision' = [revision EXCEPT ![l] = 0]
  /\ contacts' = [contacts EXCEPT ![l] = NotLoaded]
  /\ counts' = [counts EXCEPT ![l] = -1]
  /\ owners' = [c \in ContactIds |-> IF owners[c] = l THEN NoLog ELSE owners[c]]
  /\ nextSerial' = ForgetSerial(l)
  /\ issued' = [issued EXCEPT ![l] = <<>>]
  /\ UNCHANGED lastRevision

(* What load_contacts leaves in the cache: nothing new if already loaded.   *)
LoadedContacts(l) ==
  IF contacts[l] = NotLoaded THEN CachedFrom(qsoRows, l) ELSE contacts[l]

(* The LoadContacts command; also all that remains of an UpsertContacts or  *)
(* AllocateSerial command that fails after its load (owner conflict, SQL    *)
(* constraint and rolled-back transaction, serial overflow).                *)
LoadContacts(l) ==
  /\ logs[l] # NoLog
  /\ contacts[l] = NotLoaded
  /\ contacts' = [contacts EXCEPT ![l] = LoadedContacts(l)]
  /\ UNCHANGED <<sqlVars, logs, revision, owners, counts, nextSerial,
                 lastRevision, issued>>

(* A contact sent with an id is written there, one without gets a new id.   *)
WrittenAt(rows, wanted, c) ==
  IF wanted = NoId THEN IsNextRowId(rows, NoRow, ContactIds, c) ELSE c = wanted

OwnerAllows(l, wanted) == wanted # NoId => owners[wanted] \in {NoLog, l}

(* entry(log_id).or_default() += 1, only for an id no log owned.            *)
CountAfter(n, owner, c) == IF owner[c] = NoLog THEN Max2(n, 0) + 1 ELSE n

(* UpsertContacts with one contact.                                         *)
UpsertContact(l, wanted, p) ==
  /\ logs[l] # NoLog
  /\ OwnerAllows(l, wanted)
  /\ \E c \in ContactIds :
       /\ WrittenAt(qsoRows, wanted, c)
       /\ qsoRows' = [qsoRows EXCEPT ![c] = Row(l, p)]
       /\ owners' = [owners EXCEPT ![c] = l]
       /\ counts' = [counts EXCEPT ![l] = CountAfter(@, owners, c)]
       /\ contacts' = [contacts EXCEPT
                         ![l] = CachedUpsert(LoadedContacts(l), c, Row(l, p))]
  /\ BumpRevision(l)
  /\ UNCHANGED <<logRows, serialRows, logs, nextSerial, issued>>

(* UpsertContacts with a batch of two, the shortest batch in which one item *)
(* depends on the other (an import commits longer ones the same way): one   *)
(* transaction, then one cache publication per row, then one revision.      *)
UpsertBatch(l, wanted1, p1, wanted2, p2) ==
  /\ logs[l] # NoLog
  /\ OwnerAllows(l, wanted1) /\ OwnerAllows(l, wanted2)
  /\ \E c, d \in ContactIds :
       LET rows == [qsoRows EXCEPT ![c] = Row(l, p1)]
           own  == [owners EXCEPT ![c] = l]
       IN  /\ WrittenAt(qsoRows, wanted1, c)
           /\ WrittenAt(rows, wanted2, d)
           /\ qsoRows' = [rows EXCEPT ![d] = Row(l, p2)]
           /\ owners' = [own EXCEPT ![d] = l]
           /\ counts' = [counts EXCEPT
                           ![l] = CountAfter(CountAfter(@, owners, c), own, d)]
           /\ contacts' = [contacts EXCEPT
                ![l] = CachedUpsert(CachedUpsert(LoadedContacts(l), c, Row(l, p1)),
                                    d, Row(l, p2))]
  /\ BumpRevision(l)
  /\ UNCHANGED <<logRows, serialRows, logs, nextSerial, issued>>

(* committed_next: one more than the largest committed number; no value     *)
(* satisfies it when checked_add overflows.                                 *)
IsCommittedNext(cc, n) ==
  \/ /\ \A v \in Serials : cc.global[v] = 0
     /\ n = 1
  \/ \E v \in Serials : IsSerialMax(cc, v) /\ v < MaxI64 /\ n = v + 1

Reserved(l) == IF nextSerial[l] = 0 THEN 1 ELSE nextSerial[l]

(* Mutant: the reservation is left out.                                     *)
SerialFromCommitted(l, n) == Max2(n, 1)
SerialFor(l, n) == Max2(Max2(Reserved(l), n), 1)

FitsI64(serial) == serial < MaxI64

AllocateSerial(l) ==
  /\ logs[l] # NoLog
  /\ contacts' = [contacts EXCEPT ![l] = LoadedContacts(l)]
  /\ \E n \in {1} \cup {v + 1 : v \in Serials} :
       /\ IsCommittedNext(LoadedContacts(l), n)
       /\ LET serial == SerialFor(l, n)
          IN  /\ FitsI64(serial)
              /\ serialRows' = [serialRows EXCEPT ![l] = serial + 1]
              /\ nextSerial' = [nextSerial EXCEPT ![l] = serial + 1]
              /\ issued' = [issued EXCEPT ![l] = Append(@, serial)]
  /\ UNCHANGED <<logRows, qsoRows, logs, revision, owners, counts, lastRevision>>

DeleteContact(c) ==
  /\ owners[c] # NoLog
  /\ qsoRows[c] # NoRow
  /\ LET l == qsoRows[c].log
     IN  /\ counts' = [counts EXCEPT ![l] = @ - 1]
         /\ contacts' = [contacts EXCEPT
              ![l] = IF @ = NotLoaded THEN NotLoaded ELSE CachedRemove(@, c)]
         /\ BumpRevision(l)
  /\ qsoRows' = [qsoRows EXCEPT ![c] = NoRow]
  /\ owners' = [owners EXCEPT ![c] = NoLog]
  /\ UNCHANGED <<logRows, serialRows, logs, nextSerial, issued>>

(* The process stops at any point and DatabaseCache::load reads the tables. *)
(* publish_log numbers the logs 1..n in name order; names are abstract, so  *)
(* any order may be the one.                                                *)
Restart ==
  /\ logs' = logRows
  /\ \E n \in 0..MaxLogs :
       /\ revision' \in [LogIds -> 0..n]
       /\ \A k \in 1..n : \E l \in LogIds : revision'[l] = k
       /\ lastRevision' = n
  /\ \A l \in LogIds : revision'[l] = 0 <=> logRows[l] = NoLog
  /\ \A l, m \in LogIds :
       logRows[l] # NoLog /\ revision'[l] = revision'[m] => l = m
  /\ owners' = [c \in ContactIds |-> IF qsoRows[c] = NoRow THEN NoLog ELSE qsoRows[c].log]
  /\ counts' = [l \in LogIds |->
       IF \E c \in ContactIds : OwnedBy(qsoRows, c, l) THEN CountOf(qsoRows, l) ELSE -1]
  /\ contacts' = [l \in LogIds |->
       IF logRows[l] # NoLog /\ ~(\E c \in ContactIds : OwnedBy(qsoRows, c, l))
         THEN EmptyCached ELSE NotLoaded]
  /\ nextSerial' = serialRows
  /\ UNCHANGED <<sqlVars, issued>>

Next ==
  \/ \E l \in LogIds :
       \/ \E p \in Params : CreateLog(l, p) \/ UpdateLog(l, p)
       \/ DeleteLog(l)
       \/ LoadContacts(l)
       \/ AllocateSerial(l)
       \/ \E w \in ContactIds \cup {NoId}, p \in Payloads : UpsertContact(l, w, p)
       \/ \E w, x \in ContactIds \cup {NoId}, p, q \in Payloads :
            UpsertBatch(l, w, p, x, q)
  \/ \E c \in ContactIds : DeleteContact(c)
  \/ Restart

Spec == Init /\ [][Next]_vars

-----------------------------------------------------------------------------
(* Every variable holds a value of its kind; serials fit in an i64.         *)
TypeOK ==
  /\ logRows \in [LogIds -> Params \cup {NoLog}]
  /\ qsoRows \in [ContactIds -> Contact \cup {NoRow}]
  /\ serialRows \in [LogIds -> 0..MaxI64]
  /\ logs \in [LogIds -> Params \cup {NoLog}]
  /\ revision \in [LogIds -> Nat]
  /\ owners \in [ContactIds -> LogIds \cup {NoLog}]
  /\ counts \in [LogIds -> Int]
  /\ contacts \in [LogIds -> CachedType \cup {NotLoaded}]
  /\ nextSerial \in [LogIds -> 0..MaxI64]
  /\ lastRevision \in Nat
  /\ issued \in [LogIds -> Seq(1..MaxI64)]

(* A log's loaded contacts, its time-ordered view and its global and        *)
(* per-band serial counts, kept up to date by upsert and remove, are those  *)
(* a fresh load of the table would build.                                   *)
LoadedContactsExact ==
  \A l \in LogIds :
    /\ contacts[l] # NotLoaded => contacts[l] = CachedFrom(qsoRows, l)
    /\ logs[l] = NoLog => contacts[l] = NotLoaded

(* Outside a command the cache says what the tables say: the logs, the      *)
(* owner of every contact, the number of contacts of every log (absent      *)
(* means none), the serial reservations and the indexes of loaded contacts, *)
(* and no contact is an orphan.  It is what lets readers skip SQL           *)
(* altogether (Database::read), and why the two .expect calls and the       *)
(* subtraction of remove_contact, which runs after its DELETE committed, do *)
(* not panic the worker: a stored contact has a cached log and is counted.  *)
CacheMatchesDatabase ==
  /\ logs = logRows
  /\ \A c \in ContactIds :
       /\ owners[c] = (IF qsoRows[c] = NoRow THEN NoLog ELSE qsoRows[c].log)
       /\ qsoRows[c] # NoRow => logRows[qsoRows[c].log] # NoLog
  /\ \A l \in LogIds : Max2(counts[l], 0) = CountOf(qsoRows, l)
  /\ nextSerial = serialRows
  /\ \A l \in LogIds : logRows[l] = NoLog => serialRows[l] = 0
  /\ LoadedContactsExact

(* No serial of a log is handed out twice: each one exceeds all earlier     *)
(* ones, across contact deletions, edits and restarts of the process.       *)
SerialsStrictlyIncrease ==
  \A l \in LogIds : \A i, j \in 1..Len(issued[l]) :
    i < j => issued[l][i] < issued[l][j]

(* A serial is handed out above every number the log has committed at that  *)
(* moment, by whatever client and in whatever band.                         *)
AllocationAboveCommitted ==
  [][\A l \in LogIds : Len(issued'[l]) > Len(issued[l]) =>
       \A c \in ContactIds :
         OwnedBy(qsoRows, c, l) /\ qsoRows[c].serial # NoSerial =>
           qsoRows[c].serial < issued'[l][Len(issued'[l])]]_vars

-----------------------------------------------------------------------------
(* What a snapshot of log l shows: the time-ordered view, once loaded.      *)
SnapshotContent(l) ==
  LET shown == LoadedContacts(l).ordered
  IN  [c \in ContactIds |-> IF \E e \in shown : e[1] = c
                              THEN (CHOOSE e \in shown : e[1] = c)[2] ELSE NoRow]

Versioned == INSTANCE VersionedLogs WITH
  Contacts <- Contact,
  metadata <- logs,
  content <- [l \in LogIds |-> SnapshotContent(l)]

(* The tables and the cache together implement VersionedLogs: what readers  *)
(* see of a log changes only in a step that gives the log a fresh revision, *)
(* and a restart loses nothing.                                             *)
ImplementsVersionedLogs == Versioned!Spec
=============================================================================
