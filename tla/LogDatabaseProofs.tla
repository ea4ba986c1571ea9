------------------------- MODULE LogDatabaseProofs -------------------------
(***************************************************************************)
(* Theorems about LogDatabase, for every number of logs and contacts, every *)
(* width of the integers and every set of contacts clients may send: its    *)
(* types, its serials, its cache, which says what the tables say, and that  *)
(* tables and cache together implement VersionedLogs.                       *)
(***************************************************************************)
EXTENDS LogDatabase, FiniteSetTheorems, TLAPS

-----------------------------------------------------------------------------
(* The index operators keep the index well formed.                          *)

LEMMA ContactIdsFinite ==
  ASSUME NEW S \in SUBSET ContactIds
  PROVE  IsFiniteSet(S) /\ Cardinality(S) \in Nat
<1>1. IsFiniteSet(ContactIds)
  BY FS_Interval, BoundsAssumption DEF ContactIds
<1>2. IsFiniteSet(S)
  BY <1>1, FS_Subset
<1> QED
  BY <1>2, FS_CardinalityType

LEMMA CachedFromType ==
  ASSUME NEW rows \in [ContactIds -> Contact \cup {NoRow}], NEW l \in LogIds
  PROVE  CachedFrom(rows, l) \in CachedType
<1> DEFINE byId == [c \in ContactIds |-> IF OwnedBy(rows, c, l) THEN rows[c] ELSE NoRow]
<1> DEFINE ord == {<<c, byId[c]>> : c \in {d \in ContactIds : byId[d] # NoRow}}
<1> DEFINE glob == [v \in Serials |-> Cardinality(Carriers(byId, v))]
<1> DEFINE bnds == [b \in Bands |-> [v \in Serials |->
                      Cardinality({c \in Carriers(byId, v) : byId[c].band = b})]]
<1>1. byId \in [ContactIds -> Contact \cup {NoRow}]
  OBVIOUS
<1>2. ord \in SUBSET (ContactIds \X Contact)
  <2> SUFFICES ASSUME NEW e \in ord PROVE e \in ContactIds \X Contact
    OBVIOUS
  <2>1. PICK c \in ContactIds : byId[c] # NoRow /\ e = <<c, byId[c]>>
    OBVIOUS
  <2>2. byId[c] \in Contact
    BY <1>1, <2>1
  <2> QED BY <2>1, <2>2
<1>3. glob \in [Serials -> Nat]
  <2>1. ASSUME NEW v \in Serials PROVE Cardinality(Carriers(byId, v)) \in Nat
    BY ContactIdsFinite DEF Carriers
  <2> QED BY <2>1
<1>4. bnds \in [Bands -> [Serials -> Nat]]
  <2>1. ASSUME NEW b \in Bands, NEW v \in Serials
        PROVE  Cardinality({c \in Carriers(byId, v) : byId[c].band = b}) \in Nat
    BY ContactIdsFinite DEF Carriers
  <2> QED BY <2>1
<1>5. CachedFrom(rows, l) = [by_id |-> byId, ordered |-> ord, global |-> glob, bands |-> bnds]
  BY DEF CachedFrom
<1> HIDE DEF byId, ord, glob, bnds
<1> QED
  BY <1>1, <1>2, <1>3, <1>4, <1>5 DEF CachedType

LEMMA EmptyCachedType == EmptyCached \in CachedType
  BY DEF EmptyCached, CachedType

LEMMA UpdateCountType ==
  ASSUME NEW values \in [Serials -> Nat], NEW v \in Serials \cup {NoSerial},
         NEW insert \in BOOLEAN
  PROVE  UpdateCount(values, v, insert) \in [Serials -> Nat]
<1>1. ASSUME NEW n \in Nat PROVE Recount(n, insert) \in Nat
  BY DEF Recount
<1>2. CASE v = NoSerial
  BY <1>2 DEF UpdateCount
<1>3. CASE v # NoSerial
  <2>1. v \in Serials /\ values[v] \in Nat
    BY <1>3
  <2>2. Recount(values[v], insert) \in Nat
    BY <1>1, <2>1
  <2> QED BY <1>3, <2>1, <2>2 DEF UpdateCount
<1> QED BY <1>2, <1>3

LEMMA UpdateBandsType ==
  ASSUME NEW bands \in [Bands -> [Serials -> Nat]], NEW row \in Contact,
         NEW insert \in BOOLEAN
  PROVE  UpdateBands(bands, row, insert) \in [Bands -> [Serials -> Nat]]
<1>1. row.band \in Bands /\ row.serial \in Serials \cup {NoSerial}
  BY DEF Contact
<1>2. UpdateCount(bands[row.band], row.serial, insert) \in [Serials -> Nat]
  BY <1>1, UpdateCountType
<1> QED BY <1>1, <1>2 DEF UpdateBands

LEMMA CachedRemoveType ==
  ASSUME NEW cc \in CachedType, NEW c \in ContactIds
  PROVE  CachedRemove(cc, c) \in CachedType
<1>1. CASE cc.by_id[c] = NoRow
  BY <1>1 DEF CachedRemove
<1>2. CASE cc.by_id[c] # NoRow
  <2>1. cc.by_id[c] \in Contact /\ cc.by_id[c].serial \in Serials \cup {NoSerial}
    BY <1>2 DEF CachedType, Contact
  <2>2. [cc.by_id EXCEPT ![c] = NoRow] \in [ContactIds -> Contact \cup {NoRow}]
    BY DEF CachedType
  <2>3. WithoutKey(cc.ordered, c, cc.by_id[c]) \in SUBSET (ContactIds \X Contact)
    BY DEF CachedType, WithoutKey
  <2>4. UpdateCount(cc.global, cc.by_id[c].serial, FALSE) \in [Serials -> Nat]
    BY <2>1, UpdateCountType DEF CachedType
  <2>5. UpdateBands(cc.bands, cc.by_id[c], FALSE) \in [Bands -> [Serials -> Nat]]
    BY <2>1, UpdateBandsType DEF CachedType
  <2> QED BY <1>2, <2>2, <2>3, <2>4, <2>5 DEF CachedType, CachedRemove
<1> QED BY <1>1, <1>2

LEMMA CachedInsertType ==
  ASSUME NEW cc \in CachedType, NEW c \in ContactIds, NEW row \in Contact
  PROVE  CachedInsert(cc, c, row) \in CachedType
<1>1. row.serial \in Serials \cup {NoSerial}
  BY DEF Contact
<1>2. [cc.by_id EXCEPT ![c] = row] \in [ContactIds -> Contact \cup {NoRow}]
  BY DEF CachedType
<1>3. WithoutKey(cc.ordered, c, row) \cup {<<c, row>>} \in SUBSET (ContactIds \X Contact)
  BY DEF CachedType, WithoutKey
<1>4. UpdateCount(cc.global, row.serial, TRUE) \in [Serials -> Nat]
  BY <1>1, UpdateCountType DEF CachedType
<1>5. UpdateBands(cc.bands, row, TRUE) \in [Bands -> [Serials -> Nat]]
  BY UpdateBandsType DEF CachedType
<1> QED BY <1>2, <1>3, <1>4, <1>5 DEF CachedType, CachedInsert

LEMMA CachedUpsertType ==
  ASSUME NEW cc \in CachedType, NEW c \in ContactIds, NEW row \in Contact
  PROVE  CachedUpsert(cc, c, row) \in CachedType
  BY CachedRemoveType, CachedInsertType DEF CachedUpsert

-----------------------------------------------------------------------------
(* Type correctness.                                                        *)

LEMMA RowType ==
  ASSUME NEW l \in LogIds, NEW p \in Payloads
  PROVE  Row(l, p) \in Contact
  BY PayloadsAssumption DEF Row, Contact, Payload

LEMMA LoadedContactsType ==
  ASSUME TypeOK, NEW l \in LogIds
  PROVE  LoadedContacts(l) \in CachedType
  BY CachedFromType DEF LoadedContacts, TypeOK

LEMMA BumpType ==
  ASSUME TypeOK, NEW l \in LogIds, BumpRevision(l)
  PROVE  lastRevision' \in Nat /\ revision' \in [LogIds -> Nat]
  BY DEF BumpRevision, TypeOK

LEMMA CountAfterType ==
  ASSUME NEW n \in Int, NEW owner, NEW c \in ContactIds
  PROVE  CountAfter(n, owner, c) \in Int
  BY DEF CountAfter, Max2

(* What an allocation hands out: a positive i64 whose successor is one too, *)
(* no lower than the reservation.                                           *)
LEMMA SerialForType ==
  ASSUME TypeOK, NEW l \in LogIds, NEW n \in {1} \cup {v + 1 : v \in Serials}
  PROVE  /\ SerialFor(l, n) \in Nat
         /\ SerialFor(l, n) >= 1
         /\ SerialFor(l, n) >= nextSerial[l]
         /\ SerialFor(l, n) >= n
<1>1. n \in Int /\ nextSerial[l] \in 0..MaxI64
  BY SerialsAssumption DEF TypeOK
<1> QED BY <1>1, BoundsAssumption DEF SerialFor, Reserved, Max2

LEMMA InitType == Init => TypeOK
  BY BoundsAssumption DEF Init, TypeOK

LEMMA NextType == TypeOK /\ [Next]_vars => TypeOK'
<1> SUFFICES ASSUME TypeOK, [Next]_vars PROVE TypeOK'
  OBVIOUS
<1>1. ASSUME NEW l \in LogIds, NEW p \in Params, CreateLog(l, p) PROVE TypeOK'
  BY <1>1, BumpType, EmptyCachedType DEF TypeOK, CreateLog
<1>2. ASSUME NEW l \in LogIds, NEW p \in Params, UpdateLog(l, p) PROVE TypeOK'
  BY <1>2, BumpType DEF TypeOK, UpdateLog
<1>3. ASSUME NEW l \in LogIds, DeleteLog(l) PROVE TypeOK'
  BY <1>3, BoundsAssumption DEF TypeOK, DeleteLog, ForgetSerial
<1>4. ASSUME NEW l \in LogIds, LoadContacts(l) PROVE TypeOK'
  BY <1>4, LoadedContactsType DEF TypeOK, LoadContacts, sqlVars
<1>5. ASSUME NEW l \in LogIds, AllocateSerial(l) PROVE TypeOK'
  <2>1. PICK n \in {1} \cup {v + 1 : v \in Serials} :
          /\ FitsI64(SerialFor(l, n))
          /\ serialRows' = [serialRows EXCEPT ![l] = SerialFor(l, n) + 1]
          /\ nextSerial' = [nextSerial EXCEPT ![l] = SerialFor(l, n) + 1]
          /\ issued' = [issued EXCEPT ![l] = Append(issued[l], SerialFor(l, n))]
    BY <1>5 DEF AllocateSerial
  <2>2. SerialFor(l, n) \in 1..MaxI64 /\ SerialFor(l, n) + 1 \in 0..MaxI64
    BY <2>1, SerialForType, BoundsAssumption DEF FitsI64
  <2>3. issued[l] \in Seq(1..MaxI64)
    BY DEF TypeOK
  <2>4. Append(issued[l], SerialFor(l, n)) \in Seq(1..MaxI64)
    BY <2>2, <2>3
  <2>5. contacts' \in [LogIds -> CachedType \cup {NotLoaded}]
    BY <1>5, LoadedContactsType DEF AllocateSerial, TypeOK
  <2> QED BY <1>5, <2>1, <2>2, <2>4, <2>5 DEF TypeOK, AllocateSerial
<1>6. ASSUME NEW l \in LogIds, NEW w \in ContactIds \cup {NoId}, NEW p \in Payloads,
             UpsertContact(l, w, p)
      PROVE  TypeOK'
  <2>1. PICK c \in ContactIds :
          /\ qsoRows' = [qsoRows EXCEPT ![c] = Row(l, p)]
          /\ owners' = [owners EXCEPT ![c] = l]
          /\ counts' = [counts EXCEPT ![l] = CountAfter(counts[l], owners, c)]
          /\ contacts' = [contacts EXCEPT
                            ![l] = CachedUpsert(LoadedContacts(l), c, Row(l, p))]
    BY <1>6 DEF UpsertContact
  <2>2. CachedUpsert(LoadedContacts(l), c, Row(l, p)) \in CachedType
    BY RowType, LoadedContactsType, CachedUpsertType
  <2>3. CountAfter(counts[l], owners, c) \in Int
    BY CountAfterType DEF TypeOK
  <2> QED BY <1>6, <2>1, <2>2, <2>3, RowType, BumpType DEF TypeOK, UpsertContact
<1>7. ASSUME NEW l \in LogIds, NEW w \in ContactIds \cup {NoId},
             NEW x \in ContactIds \cup {NoId}, NEW p \in Payloads, NEW q \in Payloads,
             UpsertBatch(l, w, p, x, q)
      PROVE  TypeOK'
  <2>1. PICK c \in ContactIds, d \in ContactIds :
          /\ qsoRows' = [[qsoRows EXCEPT ![c] = Row(l, p)] EXCEPT ![d] = Row(l, q)]
          /\ owners' = [[owners EXCEPT ![c] = l] EXCEPT ![d] = l]
          /\ counts' = [counts EXCEPT ![l] =
               CountAfter(CountAfter(counts[l], owners, c), [owners EXCEPT ![c] = l], d)]
          /\ contacts' = [contacts EXCEPT ![l] =
               CachedUpsert(CachedUpsert(LoadedContacts(l), c, Row(l, p)), d, Row(l, q))]
    BY <1>7 DEF UpsertBatch
  <2>2. CachedUpsert(CachedUpsert(LoadedContacts(l), c, Row(l, p)), d, Row(l, q))
          \in CachedType
    BY RowType, LoadedContactsType, CachedUpsertType
  <2>3. CountAfter(CountAfter(counts[l], owners, c), [owners EXCEPT ![c] = l], d) \in Int
    BY CountAfterType DEF TypeOK
  <2> QED BY <1>7, <2>1, <2>2, <2>3, RowType, BumpType DEF TypeOK, UpsertBatch
<1>8. ASSUME NEW c \in ContactIds, DeleteContact(c) PROVE TypeOK'
  <2> DEFINE l == qsoRows[c].log
  <2>1. l \in LogIds
    BY <1>8 DEF DeleteContact, TypeOK, Contact
  <2>2. /\ counts' = [counts EXCEPT ![l] = counts[l] - 1]
        /\ contacts' = [contacts EXCEPT ![l] =
             IF contacts[l] = NotLoaded THEN NotLoaded ELSE CachedRemove(contacts[l], c)]
        /\ BumpRevision(l)
    BY <1>8 DEF DeleteContact
  <2>3. (IF contacts[l] = NotLoaded THEN NotLoaded ELSE CachedRemove(contacts[l], c))
          \in CachedType \cup {NotLoaded}
    BY <2>1, CachedRemoveType DEF TypeOK
  <2>4. /\ qsoRows' = [qsoRows EXCEPT ![c] = NoRow]
        /\ owners' = [owners EXCEPT ![c] = NoLog]
        /\ UNCHANGED <<logRows, serialRows, logs, nextSerial, issued>>
    BY <1>8 DEF DeleteContact
  <2> HIDE DEF l
  <2>5. lastRevision' \in Nat /\ revision' \in [LogIds -> Nat]
    BY <2>1, <2>2, BumpType
  <2>6. counts' \in [LogIds -> Int] /\ contacts' \in [LogIds -> CachedType \cup {NotLoaded}]
    BY <2>1, <2>2, <2>3 DEF TypeOK
  <2> QED BY <2>4, <2>5, <2>6 DEF TypeOK
<1>9. ASSUME Restart PROVE TypeOK'
  <2>1. lastRevision' \in Nat /\ revision' \in [LogIds -> Nat]
    BY <1>9, BoundsAssumption DEF Restart
  <2>2. owners' \in [ContactIds -> LogIds \cup {NoLog}]
    BY <1>9 DEF Restart, TypeOK, Contact
  <2>3. ASSUME NEW l \in LogIds PROVE CountOf(qsoRows, l) \in Int
    BY ContactIdsFinite DEF CountOf
  <2>4. counts' \in [LogIds -> Int]
    BY <1>9, <2>3 DEF Restart
  <2>5. contacts' \in [LogIds -> CachedType \cup {NotLoaded}]
    BY <1>9, EmptyCachedType DEF Restart
  <2> QED BY <1>9, <2>1, <2>2, <2>4, <2>5 DEF Restart, TypeOK, sqlVars
<1>10. ASSUME UNCHANGED vars PROVE TypeOK'
  BY <1>10 DEF TypeOK, vars
<1> QED
  BY <1>1, <1>2, <1>3, <1>4, <1>5, <1>6, <1>7, <1>8, <1>9, <1>10 DEF Next

(* Every reachable state is well typed; in particular no reserved or issued *)
(* serial leaves the range of an i64 (checked_add in db_allocate_serial).   *)
THEOREM TypeCorrect == Spec => []TypeOK
  BY InitType, NextType, PTL DEF Spec

-----------------------------------------------------------------------------
(* Serial numbers.                                                          *)

(* The reservation that survives a restart lies above every serial issued,  *)
(* and the cached one is the stored one.                                    *)
SerialInv ==
  /\ TypeOK
  /\ nextSerial = serialRows
  /\ \A l \in LogIds : \A i \in 1..Len(issued[l]) : issued[l][i] < serialRows[l]
  /\ SerialsStrictlyIncrease

LEMMA SerialInvInit == Init => SerialInv
<1> SUFFICES ASSUME Init PROVE SerialInv
  OBVIOUS
<1>1. \A l \in LogIds : Len(issued[l]) = 0
  BY DEF Init
<1> QED BY <1>1, InitType DEF SerialInv, SerialsStrictlyIncrease, Init

LEMMA SerialInvNext == SerialInv /\ [Next]_vars => SerialInv'
<1> SUFFICES ASSUME SerialInv, [Next]_vars PROVE SerialInv'
  OBVIOUS
<1>1. TypeOK /\ TypeOK'
  BY NextType DEF SerialInv
<1>2. ASSUME UNCHANGED <<nextSerial, serialRows, issued>> PROVE SerialInv'
  BY <1>1, <1>2 DEF SerialInv, SerialsStrictlyIncrease
<1>3. ASSUME NEW l \in LogIds, DeleteLog(l) PROVE SerialInv'
  <2>1. /\ nextSerial' = [nextSerial EXCEPT ![l] = 0]
        /\ serialRows' = [serialRows EXCEPT ![l] = 0]
        /\ issued' = [issued EXCEPT ![l] = <<>>]
    BY <1>3 DEF DeleteLog, ForgetSerial
  <2>2. \A m \in LogIds : m # l => issued'[m] = issued[m] /\ serialRows'[m] = serialRows[m]
    BY <1>1, <2>1 DEF TypeOK
  <2>3. Len(issued'[l]) = 0
    BY <1>1, <2>1 DEF TypeOK
  <2> QED BY <1>1, <2>1, <2>2, <2>3 DEF SerialInv, SerialsStrictlyIncrease
<1>4. ASSUME NEW l \in LogIds, AllocateSerial(l) PROVE SerialInv'
  <2>1. PICK n \in {1} \cup {v + 1 : v \in Serials} :
          /\ serialRows' = [serialRows EXCEPT ![l] = SerialFor(l, n) + 1]
          /\ nextSerial' = [nextSerial EXCEPT ![l] = SerialFor(l, n) + 1]
          /\ issued' = [issued EXCEPT ![l] = Append(issued[l], SerialFor(l, n))]
    BY <1>4 DEF AllocateSerial
  <2> DEFINE s == SerialFor(l, n)
  <2>2. s \in Nat /\ s >= serialRows[l] /\ serialRows[l] \in Nat
    BY <1>1, SerialForType, BoundsAssumption DEF SerialInv, TypeOK
  <2>3. \A m \in LogIds : m # l => issued'[m] = issued[m] /\ serialRows'[m] = serialRows[m]
    BY <1>1, <2>1 DEF TypeOK
  <2>4. issued'[l] = Append(issued[l], s) /\ serialRows'[l] = s + 1
    BY <1>1, <2>1 DEF TypeOK
  <2>5. issued[l] \in Seq(1..MaxI64)
    BY <1>1 DEF TypeOK
  <2> HIDE DEF s
  <2>6. /\ Len(issued'[l]) = Len(issued[l]) + 1
        /\ issued'[l][Len(issued[l]) + 1] = s
        /\ \A i \in 1..Len(issued[l]) : issued'[l][i] = issued[l][i]
        /\ \A i \in 1..Len(issued[l]) : issued[l][i] \in Int
        /\ Len(issued[l]) \in Nat
    <3> DEFINE old == issued[l]
    <3>1. old \in Seq(Int)
      BY <2>5, BoundsAssumption
    <3>2. Len(Append(old, s)) = Len(old) + 1 /\ Len(old) \in Nat
      BY <2>2, <3>1
    <3>3. Append(old, s)[Len(old) + 1] = s
      BY <2>2, <3>1
    <3>4. \A i \in 1..Len(old) : Append(old, s)[i] = old[i] /\ old[i] \in Int
      BY <2>2, <3>1
    <3> QED BY <2>4, <3>2, <3>3, <3>4
  <2>7. \A i \in 1..Len(issued'[l]) : issued'[l][i] < serialRows'[l]
    BY <2>2, <2>4, <2>6 DEF SerialInv
  <2>8. ASSUME NEW i \in 1..Len(issued'[l]), NEW j \in 1..Len(issued'[l]), i < j
        PROVE  issued'[l][i] < issued'[l][j]
    <3>1. i \in 1..Len(issued[l])
      BY <2>6, <2>8
    <3>2. CASE j \in 1..Len(issued[l])
      BY <2>6, <2>8, <3>1, <3>2 DEF SerialInv, SerialsStrictlyIncrease
    <3>3. CASE j = Len(issued[l]) + 1
      BY <2>2, <2>6, <3>1, <3>3 DEF SerialInv
    <3> QED BY <2>6, <3>2, <3>3
  <2>9. nextSerial' = serialRows'
    BY <2>1 DEF SerialInv
  <2>10. \A m \in LogIds : \A i \in 1..Len(issued'[m]) : issued'[m][i] < serialRows'[m]
    BY <2>3, <2>7 DEF SerialInv
  <2>11. SerialsStrictlyIncrease'
    BY <2>3, <2>8 DEF SerialInv, SerialsStrictlyIncrease
  <2> QED BY <1>1, <2>9, <2>10, <2>11 DEF SerialInv
<1>5. ASSUME Restart PROVE SerialInv'
  BY <1>1, <1>5 DEF SerialInv, SerialsStrictlyIncrease, Restart, sqlVars
<1>6. ASSUME NEW l \in LogIds,
             \/ \E p \in Params : CreateLog(l, p) \/ UpdateLog(l, p)
             \/ LoadContacts(l)
             \/ \E w \in ContactIds \cup {NoId}, p \in Payloads : UpsertContact(l, w, p)
             \/ \E w, x \in ContactIds \cup {NoId}, p, q \in Payloads :
                  UpsertBatch(l, w, p, x, q)
      PROVE  SerialInv'
  BY <1>2, <1>6 DEF CreateLog, UpdateLog, LoadContacts, UpsertContact, UpsertBatch, sqlVars
<1>7. ASSUME NEW c \in ContactIds, DeleteContact(c) PROVE SerialInv'
  BY <1>2, <1>7 DEF DeleteContact
<1>8. ASSUME UNCHANGED vars PROVE SerialInv'
  BY <1>2, <1>8 DEF vars
<1> QED
  BY <1>3, <1>4, <1>5, <1>6, <1>7, <1>8 DEF Next

(* No serial is issued twice for a log, whatever clients commit, edit or    *)
(* delete and however often the process restarts: reserve_serial persists   *)
(* the reservation before it answers and DatabaseCache::load reads it back. *)
THEOREM SerialsNeverReissued == Spec => []SerialsStrictlyIncrease
<1>1. SerialInv => SerialsStrictlyIncrease
  BY DEF SerialInv
<1> QED BY SerialInvInit, SerialInvNext, <1>1, PTL DEF Spec

-----------------------------------------------------------------------------
(* Counting.                                                                *)

LEMMA OneContactMore ==
  ASSUME NEW S \in SUBSET ContactIds, NEW c \in ContactIds, c \notin S
  PROVE  Cardinality(S \cup {c}) = Cardinality(S) + 1
  BY ContactIdsFinite, FS_AddElement

LEMMA OneContactLess ==
  ASSUME NEW S \in SUBSET ContactIds, NEW c \in S
  PROVE  Cardinality(S \ {c}) = Cardinality(S) - 1 /\ Cardinality(S) > 0
  BY ContactIdsFinite, FS_RemoveElement, FS_EmptySet

LEMMA NoContacts ==
  ASSUME NEW S \in SUBSET ContactIds
  PROVE  Cardinality(S) = 0 <=> S = {}
  BY ContactIdsFinite, FS_EmptySet

-----------------------------------------------------------------------------
(* The index of a log, kept up to date, is the index of its rows.           *)

Rows == [ContactIds -> Contact \cup {NoRow}]

ById(rows, l) == [c \in ContactIds |-> IF OwnedBy(rows, c, l) THEN rows[c] ELSE NoRow]
Ordered(byId) == {<<c, byId[c]>> : c \in {d \in ContactIds : byId[d] # NoRow}}
Global(byId) == [v \in Serials |-> Cardinality(Carriers(byId, v))]
PerBand(byId, b, v) == {c \in Carriers(byId, v) : byId[c].band = b}
Banded(byId) == [b \in Bands |-> [v \in Serials |-> Cardinality(PerBand(byId, b, v))]]
IndexOf(byId) == [by_id |-> byId, ordered |-> Ordered(byId),
                  global |-> Global(byId), bands |-> Banded(byId)]

LEMMA CachedFromIsIndex ==
  ASSUME NEW rows, NEW l
  PROVE  CachedFrom(rows, l) = IndexOf(ById(rows, l))
  BY DEF CachedFrom, IndexOf, ById, Ordered, Global, PerBand, Banded

(* An entry of the index that is not there yet is counted once.             *)
LEMMA InsertIntoIndex ==
  ASSUME NEW byId \in Rows, NEW c \in ContactIds, byId[c] = NoRow, NEW row \in Contact
  PROVE  CachedInsert(IndexOf(byId), c, row) = IndexOf([byId EXCEPT ![c] = row])
<1> DEFINE new == [byId EXCEPT ![c] = row]
<1>1. new[c] = row /\ row # NoRow /\ new \in Rows
  BY NoRowAssumption DEF Rows
<1>2. \A d \in ContactIds : d # c => new[d] = byId[d]
  BY DEF Rows
<1>3. row.serial \in Serials \cup {NoSerial} /\ row.band \in Bands
  BY DEF Contact
<1> HIDE DEF new
<1>4. WithoutKey(Ordered(byId), c, row) \cup {<<c, row>>} = Ordered(new)
  BY <1>1, <1>2 DEF WithoutKey, SameKey, Ordered
<1>5. ASSUME NEW v \in Serials, v # row.serial PROVE Carriers(new, v) = Carriers(byId, v)
  BY <1>1, <1>2, <1>5 DEF Carriers
<1>6. ASSUME NEW v \in Serials, v = row.serial
      PROVE  Carriers(new, v) = Carriers(byId, v) \cup {c} /\ c \notin Carriers(byId, v)
  BY <1>1, <1>2, <1>6 DEF Carriers
<1>7. ASSUME NEW v \in Serials PROVE Carriers(byId, v) \in SUBSET ContactIds
  BY DEF Carriers
<1>8. UpdateCount(Global(byId), row.serial, TRUE) = Global(new)
  <2>1. CASE row.serial = NoSerial
    BY <2>1, <1>5, AbsentAssumption DEF UpdateCount, Global
  <2>2. CASE row.serial \in Serials
    <3>1. ASSUME NEW v \in Serials
          PROVE  Global(new)[v] = IF v = row.serial THEN Global(byId)[v] + 1 ELSE Global(byId)[v]
      BY <1>5, <1>6, <1>7, OneContactMore DEF Global
    <3> QED BY <2>2, <3>1, AbsentAssumption DEF UpdateCount, Recount, Global
  <2> QED BY <1>3, <2>1, <2>2
<1>9. UpdateBands(Banded(byId), row, TRUE) = Banded(new)
  <2>1. ASSUME NEW b \in Bands, NEW v \in Serials, v # row.serial \/ b # row.band
        PROVE  PerBand(new, b, v) = PerBand(byId, b, v)
    BY <1>1, <1>2, <2>1 DEF Carriers, PerBand
  <2>2. ASSUME NEW b \in Bands, NEW v \in Serials, v = row.serial, b = row.band
        PROVE  PerBand(new, b, v) = PerBand(byId, b, v) \cup {c} /\ c \notin PerBand(byId, b, v)
    BY <1>1, <1>2, <2>2 DEF Carriers, PerBand
  <2>3. ASSUME NEW b \in Bands, NEW v \in Serials PROVE PerBand(byId, b, v) \in SUBSET ContactIds
    BY DEF Carriers, PerBand
  <2>4. ASSUME NEW b \in Bands, NEW v \in Serials
        PROVE  Banded(new)[b][v] = IF v = row.serial /\ b = row.band
                                     THEN Banded(byId)[b][v] + 1 ELSE Banded(byId)[b][v]
    BY <2>1, <2>2, <2>3, OneContactMore DEF Banded
  <2>5. ASSUME NEW b \in Bands, b # row.band PROVE Banded(new)[b] = Banded(byId)[b]
    BY <2>4, <2>5 DEF Banded
  <2>6. Banded(new)[row.band] = UpdateCount(Banded(byId)[row.band], row.serial, TRUE)
    <3>1. CASE row.serial = NoSerial
      BY <3>1, <1>3, <2>4, AbsentAssumption DEF UpdateCount, Banded
    <3>2. CASE row.serial \in Serials
      BY <3>2, <1>3, <2>4, AbsentAssumption DEF UpdateCount, Recount, Banded
    <3> QED BY <1>3, <3>1, <3>2
  <2> QED BY <1>3, <2>5, <2>6 DEF UpdateBands, Banded
<1> QED
  BY <1>4, <1>8, <1>9 DEF CachedInsert, IndexOf, new

(* An entry that is taken out is no longer counted, and no count was zero.  *)
LEMMA RemoveFromIndex ==
  ASSUME NEW byId \in Rows, NEW c \in ContactIds
  PROVE  CachedRemove(IndexOf(byId), c) = IndexOf([byId EXCEPT ![c] = NoRow])
<1>1. CASE byId[c] = NoRow
  <2>1. [byId EXCEPT ![c] = NoRow] = byId
    BY <1>1 DEF Rows
  <2> QED BY <1>1, <2>1 DEF CachedRemove, IndexOf
<1>2. CASE byId[c] # NoRow
  <2> DEFINE new == [byId EXCEPT ![c] = NoRow]
             row == byId[c]
  <2>1. new[c] = NoRow /\ row \in Contact /\ row # NoRow /\ new \in Rows
    BY <1>2 DEF Rows
  <2>2. \A d \in ContactIds : d # c => new[d] = byId[d]
    BY DEF Rows
  <2>3. row.serial \in Serials \cup {NoSerial} /\ row.band \in Bands
    BY <2>1 DEF Contact
  <2>4. byId[c] = row
    OBVIOUS
  <2> HIDE DEF new, row
  <2>5. WithoutKey(Ordered(byId), c, row) = Ordered(new)
    BY <2>1, <2>2, <2>4 DEF WithoutKey, SameKey, Ordered
  <2>6. UpdateCount(Global(byId), row.serial, FALSE) = Global(new)
    <3>1. ASSUME NEW v \in Serials, v # row.serial PROVE Carriers(new, v) = Carriers(byId, v)
      BY <2>1, <2>2, <2>4, <3>1 DEF Carriers
    <3>2. ASSUME NEW v \in Serials, v = row.serial
          PROVE  Carriers(new, v) = Carriers(byId, v) \ {c} /\ c \in Carriers(byId, v)
      BY <2>1, <2>2, <2>4, <3>2 DEF Carriers
    <3>3. ASSUME NEW v \in Serials PROVE Carriers(byId, v) \in SUBSET ContactIds
      BY DEF Carriers
    <3>4. CASE row.serial = NoSerial
      BY <3>1, <3>4, AbsentAssumption DEF UpdateCount, Global
    <3>5. CASE row.serial \in Serials
      <4>1. ASSUME NEW v \in Serials
            PROVE  /\ v = row.serial => Global(byId)[v] > 0
                   /\ Global(new)[v] = IF v = row.serial THEN Global(byId)[v] - 1 ELSE Global(byId)[v]
        BY <3>1, <3>2, <3>3, OneContactLess DEF Global
      <4> QED BY <3>5, <4>1, AbsentAssumption DEF UpdateCount, Recount, Global
    <3> QED BY <2>3, <3>4, <3>5
  <2>7. UpdateBands(Banded(byId), row, FALSE) = Banded(new)
    <3>1. ASSUME NEW b \in Bands, NEW v \in Serials, v # row.serial \/ b # row.band
          PROVE  PerBand(new, b, v) = PerBand(byId, b, v)
      BY <2>1, <2>2, <2>4, <3>1 DEF Carriers, PerBand
    <3>2. ASSUME NEW b \in Bands, NEW v \in Serials, v = row.serial, b = row.band
          PROVE  PerBand(new, b, v) = PerBand(byId, b, v) \ {c} /\ c \in PerBand(byId, b, v)
      BY <2>1, <2>2, <2>4, <3>2 DEF Carriers, PerBand
    <3>3. ASSUME NEW b \in Bands, NEW v \in Serials PROVE PerBand(byId, b, v) \in SUBSET ContactIds
      BY DEF Carriers, PerBand
    <3>4. ASSUME NEW b \in Bands, NEW v \in Serials
          PROVE  /\ v = row.serial /\ b = row.band => Banded(byId)[b][v] > 0
                 /\ Banded(new)[b][v] = IF v = row.serial /\ b = row.band
                                          THEN Banded(byId)[b][v] - 1 ELSE Banded(byId)[b][v]
      BY <3>1, <3>2, <3>3, OneContactLess DEF Banded
    <3>5. ASSUME NEW b \in Bands, b # row.band PROVE Banded(new)[b] = Banded(byId)[b]
      BY <3>4, <3>5 DEF Banded
    <3>6. Banded(new)[row.band] = UpdateCount(Banded(byId)[row.band], row.serial, FALSE)
      <4>1. CASE row.serial = NoSerial
        BY <4>1, <2>3, <3>4, AbsentAssumption DEF UpdateCount, Banded
      <4>2. CASE row.serial \in Serials
        BY <4>2, <2>3, <3>4, AbsentAssumption DEF UpdateCount, Recount, Banded
      <4> QED BY <2>3, <4>1, <4>2
    <3> QED BY <2>3, <3>5, <3>6 DEF UpdateBands, Banded
  <2> QED BY <1>2, <2>5, <2>6, <2>7 DEF CachedRemove, IndexOf, new, row
<1> QED BY <1>1, <1>2

(* What a commit and a deletion do to the index is what they do to the rows *)
(* of the log.                                                              *)
LEMMA UpsertFollowsRows ==
  ASSUME NEW rows \in Rows, NEW l \in LogIds, NEW c \in ContactIds, NEW row \in Contact,
         row.log = l, rows[c] = NoRow \/ rows[c].log = l
  PROVE  CachedUpsert(CachedFrom(rows, l), c, row) = CachedFrom([rows EXCEPT ![c] = row], l)
<1> DEFINE without == [ById(rows, l) EXCEPT ![c] = NoRow]
<1>1. ById(rows, l) \in Rows /\ without \in Rows /\ without[c] = NoRow
  BY DEF Rows, ById
<1>2. ById([rows EXCEPT ![c] = row], l) = [without EXCEPT ![c] = row]
  BY NoRowAssumption DEF Rows, ById, OwnedBy
<1>3. CachedRemove(CachedFrom(rows, l), c) = IndexOf(without)
  BY <1>1, CachedFromIsIndex, RemoveFromIndex
<1> HIDE DEF without
<1>4. CachedInsert(IndexOf(without), c, row) = IndexOf([without EXCEPT ![c] = row])
  BY <1>1, InsertIntoIndex
<1> QED BY <1>2, <1>3, <1>4, CachedFromIsIndex DEF CachedUpsert

LEMMA RemoveFollowsRows ==
  ASSUME NEW rows \in Rows, NEW l \in LogIds, NEW c \in ContactIds,
         rows[c] = NoRow \/ rows[c].log = l
  PROVE  CachedRemove(CachedFrom(rows, l), c) = CachedFrom([rows EXCEPT ![c] = NoRow], l)
<1>1. ById(rows, l) \in Rows
  BY DEF Rows, ById
<1>2. ById([rows EXCEPT ![c] = NoRow], l) = [ById(rows, l) EXCEPT ![c] = NoRow]
  BY DEF Rows, ById, OwnedBy
<1> QED BY <1>1, <1>2, CachedFromIsIndex, RemoveFromIndex

LEMMA OtherLogsKeepTheirIndex ==
  ASSUME NEW rows, NEW new, NEW l,
         \A c \in ContactIds : OwnedBy(rows, c, l) \/ OwnedBy(new, c, l) => new[c] = rows[c]
  PROVE  CachedFrom(new, l) = CachedFrom(rows, l) /\ CountOf(new, l) = CountOf(rows, l)
<1>1. \A c \in ContactIds : OwnedBy(rows, c, l) <=> OwnedBy(new, c, l)
  BY DEF OwnedBy
<1>2. ById(new, l) = ById(rows, l)
  BY <1>1 DEF ById
<1>3. {c \in ContactIds : OwnedBy(new, c, l)} = {c \in ContactIds : OwnedBy(rows, c, l)}
  BY <1>1
<1> QED BY <1>2, <1>3, CachedFromIsIndex DEF CountOf

LEMMA EmptyIndex ==
  ASSUME NEW rows, NEW l, \A c \in ContactIds : ~OwnedBy(rows, c, l)
  PROVE  CachedFrom(rows, l) = EmptyCached /\ CountOf(rows, l) = 0
<1>1. ById(rows, l) = [c \in ContactIds |-> NoRow]
  BY DEF ById
<1>2. \A v : Carriers(ById(rows, l), v) = {}
  BY <1>1 DEF Carriers
<1>3. Global(ById(rows, l)) = [v \in Serials |-> 0]
  BY <1>2, FS_EmptySet DEF Global
<1>4. Banded(ById(rows, l)) = [b \in Bands |-> [v \in Serials |-> 0]]
  <2>1. \A b \in Bands, v \in Serials : PerBand(ById(rows, l), b, v) = {}
    BY <1>2 DEF PerBand
  <2> QED BY <2>1, FS_EmptySet DEF Banded
<1>5. Ordered(ById(rows, l)) = {}
  BY <1>1 DEF Ordered
<1>6. {c \in ContactIds : OwnedBy(rows, c, l)} = {}
  OBVIOUS
<1> QED BY <1>1, <1>3, <1>4, <1>5, <1>6, FS_EmptySet, CachedFromIsIndex DEF IndexOf, EmptyCached, CountOf

-----------------------------------------------------------------------------
(* One row written: what the cache does with it is what the tables say.     *)

OwnersOf(rows) == [c \in ContactIds |-> IF rows[c] = NoRow THEN NoLog ELSE rows[c].log]

(* Row c may be written for log l: it is free, or a contact of l already.   *)
Writable(rows, l, c) == rows[c] = NoRow \/ rows[c].log = l

LEMMA CommitCounts ==
  ASSUME NEW rows \in Rows, NEW l \in LogIds, NEW c \in ContactIds, Writable(rows, l, c),
         NEW row \in Contact, row.log = l, NEW n \in Int, Max2(n, 0) = CountOf(rows, l)
  PROVE  Max2(CountAfter(n, OwnersOf(rows), c), 0) = CountOf([rows EXCEPT ![c] = row], l)
<1> DEFINE new == [rows EXCEPT ![c] = row]
           owned(r) == {d \in ContactIds : OwnedBy(r, d, l)}
<1>1. row # NoRow /\ rows[c] # NoRow => rows[c] \in Contact
  BY DEF Rows
<1>2. CountOf(rows, l) \in Nat
  BY ContactIdsFinite DEF CountOf
<1>3. CASE rows[c] = NoRow
  <2>1. owned(new) = owned(rows) \cup {c} /\ c \notin owned(rows)
    BY <1>3, NoRowAssumption DEF OwnedBy, Rows
  <2>2. CountOf(new, l) = CountOf(rows, l) + 1
    BY <2>1, OneContactMore DEF CountOf
  <2>3. CountAfter(n, OwnersOf(rows), c) = Max2(n, 0) + 1
    BY <1>3 DEF CountAfter, OwnersOf
  <2> QED BY <1>2, <2>2, <2>3 DEF Max2
<1>4. CASE rows[c] # NoRow
  <2>1. owned(new) = owned(rows)
    BY <1>4, NoRowAssumption DEF OwnedBy, Rows, Writable
  <2>2. CountAfter(n, OwnersOf(rows), c) = n
    BY <1>4, AbsentAssumption DEF CountAfter, OwnersOf, Writable
  <2> QED BY <2>1, <2>2 DEF CountOf
<1> QED BY <1>3, <1>4

LEMMA OwnersFollowRows ==
  ASSUME NEW rows \in Rows, NEW c \in ContactIds, NEW row \in Contact
  PROVE  [OwnersOf(rows) EXCEPT ![c] = row.log] = OwnersOf([rows EXCEPT ![c] = row])
  BY NoRowAssumption DEF OwnersOf, Rows

LEMMA WrittenIsWritable ==
  ASSUME NEW rows \in Rows, NEW l \in LogIds, NEW wanted \in ContactIds \cup {NoId},
         wanted # NoId => OwnersOf(rows)[wanted] \in {NoLog, l},
         NEW c \in ContactIds, WrittenAt(rows, wanted, c)
  PROVE  Writable(rows, l, c)
<1>1. CASE wanted = NoId
  BY <1>1 DEF WrittenAt, IsNextRowId, Writable, ContactIds
<1>2. CASE wanted # NoId
  BY <1>2, AbsentAssumption DEF WrittenAt, OwnersOf, Writable, Rows, Contact
<1> QED BY <1>1, <1>2

-----------------------------------------------------------------------------
(* The cache matches the database.                                          *)

CacheInv == TypeOK /\ CacheMatchesDatabase

LEMMA CacheInvFacts ==
  ASSUME CacheInv
  PROVE  /\ qsoRows \in Rows
         /\ owners = OwnersOf(qsoRows)
         /\ \A l \in LogIds : counts[l] \in Int /\ Max2(counts[l], 0) = CountOf(qsoRows, l)
         /\ \A l \in LogIds : contacts[l] # NotLoaded => contacts[l] = CachedFrom(qsoRows, l)
         /\ \A l \in LogIds : LoadedContacts(l) = CachedFrom(qsoRows, l)
<1>1. owners = OwnersOf(qsoRows)
  BY DEF CacheInv, CacheMatchesDatabase, TypeOK, OwnersOf
<1>2. \A l \in LogIds : contacts[l] # NotLoaded => contacts[l] = CachedFrom(qsoRows, l)
  BY DEF CacheInv, CacheMatchesDatabase, LoadedContactsExact
<1>3. \A l \in LogIds : LoadedContacts(l) = CachedFrom(qsoRows, l)
  BY <1>2 DEF LoadedContacts
<1> QED
  BY <1>1, <1>2, <1>3 DEF CacheInv, CacheMatchesDatabase, TypeOK, Rows

LEMMA CacheInvInit == Init => CacheInv
<1> SUFFICES ASSUME Init PROVE CacheInv
  OBVIOUS
<1>1. ASSUME NEW l \in LogIds PROVE CountOf(qsoRows, l) = 0
  BY EmptyIndex DEF Init, OwnedBy
<1>2. ASSUME NEW l \in LogIds PROVE Max2(counts[l], 0) = 0
  BY DEF Init, Max2
<1> QED
  BY <1>1, <1>2, InitType DEF CacheInv, CacheMatchesDatabase, LoadedContactsExact, Init

(* The rows of a log that is not written keep their index and their number. *)
LEMMA WrittenElsewhere ==
  ASSUME NEW rows \in Rows, NEW l \in LogIds, NEW c \in ContactIds, Writable(rows, l, c),
         NEW row \in Contact \cup {NoRow}, row # NoRow => row.log = l, NEW m \in LogIds, m # l
  PROVE  /\ CachedFrom([rows EXCEPT ![c] = row], m) = CachedFrom(rows, m)
         /\ CountOf([rows EXCEPT ![c] = row], m) = CountOf(rows, m)
<1> DEFINE new == [rows EXCEPT ![c] = row]
<1>1. \A d \in ContactIds : OwnedBy(rows, d, m) \/ OwnedBy(new, d, m) => new[d] = rows[d]
  BY DEF OwnedBy, Rows, Writable
<1> QED BY <1>1, OtherLogsKeepTheirIndex

(* Rows of log l were written, and no others.                               *)
OnlyWrites(rows, new, l) ==
  /\ \A m \in LogIds \ {l} : /\ CachedFrom(new, m) = CachedFrom(rows, m)
                             /\ CountOf(new, m) = CountOf(rows, m)
  /\ \A d \in ContactIds : new[d] # NoRow => new[d] = rows[d] \/ new[d].log = l

(* A commit of one contact, as a step of the tables and of the cache.       *)
LEMMA CommittedRow ==
  ASSUME NEW rows \in Rows, NEW l \in LogIds, NEW c \in ContactIds, NEW p \in Payloads,
         Writable(rows, l, c), NEW n \in Int, Max2(n, 0) = CountOf(rows, l),
         NEW new, new = [rows EXCEPT ![c] = Row(l, p)]
  PROVE  /\ new \in Rows
         /\ [OwnersOf(rows) EXCEPT ![c] = l] = OwnersOf(new)
         /\ CountAfter(n, OwnersOf(rows), c) \in Int
         /\ Max2(CountAfter(n, OwnersOf(rows), c), 0) = CountOf(new, l)
         /\ CachedUpsert(CachedFrom(rows, l), c, Row(l, p)) = CachedFrom(new, l)
         /\ OnlyWrites(rows, new, l)
<1> DEFINE row == Row(l, p)
           written == [rows EXCEPT ![c] = row]
<1>0. new = written
  OBVIOUS
<1>1. row \in Contact /\ row # NoRow /\ row.log = l
  BY RowType, NoRowAssumption DEF Row
<1> HIDE DEF row
<1>2. written \in Rows
  BY <1>1 DEF Rows
<1>3. \A d \in ContactIds : written[d] = IF d = c THEN row ELSE rows[d]
  BY DEF Rows
<1>4. [OwnersOf(rows) EXCEPT ![c] = l] = OwnersOf(written)
  BY <1>1, OwnersFollowRows
<1>5. CountAfter(n, OwnersOf(rows), c) \in Int
  BY CountAfterType
<1>6. Max2(CountAfter(n, OwnersOf(rows), c), 0) = CountOf(written, l)
  BY <1>1, CommitCounts
<1>7. CachedUpsert(CachedFrom(rows, l), c, row) = CachedFrom(written, l)
  BY <1>1, UpsertFollowsRows DEF Writable
<1>8. ASSUME NEW m \in LogIds \ {l}
      PROVE  CachedFrom(written, m) = CachedFrom(rows, m) /\ CountOf(written, m) = CountOf(rows, m)
  <2>1. row \in Contact \cup {NoRow} /\ (row # NoRow => row.log = l) /\ m \in LogIds /\ m # l
    BY <1>1
  <2> QED BY <2>1, WrittenElsewhere
<1>9. \A d \in ContactIds : written[d] = rows[d] \/ (written[d] # NoRow /\ written[d].log = l)
  BY <1>1, <1>3
<1>10. OnlyWrites(rows, written, l)
  BY <1>8, <1>9 DEF OnlyWrites
<1> HIDE DEF written
<1> QED
  BY <1>0, <1>2, <1>4, <1>5, <1>6, <1>7, <1>10 DEF row

(* The worker publishes to the cache what its transaction wrote.            *)
LEMMA CommitKeepsMatch ==
  ASSUME CacheInv, TypeOK', NEW l \in LogIds, logs[l] # NoLog, NEW new \in Rows, NEW n \in Int,
         qsoRows' = new, owners' = OwnersOf(new), Max2(n, 0) = CountOf(new, l),
         counts' = [counts EXCEPT ![l] = n],
         contacts' = [contacts EXCEPT ![l] = CachedFrom(new, l)],
         OnlyWrites(qsoRows, new, l), UNCHANGED <<logRows, serialRows, logs, nextSerial>>
  PROVE  CacheInv'
<1>1. TypeOK /\ CacheMatchesDatabase
  BY DEF CacheInv
<1>2. ASSUME NEW c \in ContactIds
      PROVE  /\ owners'[c] = IF qsoRows'[c] = NoRow THEN NoLog ELSE qsoRows'[c].log
             /\ qsoRows'[c] # NoRow => logRows'[qsoRows'[c].log] # NoLog
  BY <1>1 DEF OwnersOf, OnlyWrites, CacheMatchesDatabase
<1>3. ASSUME NEW m \in LogIds PROVE Max2(counts'[m], 0) = CountOf(qsoRows', m)
  BY <1>1 DEF OnlyWrites, CacheMatchesDatabase, TypeOK
<1>4. ASSUME NEW m \in LogIds
      PROVE  /\ contacts'[m] # NotLoaded => contacts'[m] = CachedFrom(qsoRows', m)
             /\ logs'[m] = NoLog => contacts'[m] = NotLoaded
  BY <1>1 DEF OnlyWrites, CacheMatchesDatabase, LoadedContactsExact, TypeOK
<1> QED
  BY <1>1, <1>2, <1>3, <1>4 DEF CacheInv, CacheMatchesDatabase, LoadedContactsExact

(* UpsertContacts with one contact keeps the match, and writes one log.     *)
LEMMA UpsertKeepsMatch ==
  ASSUME CacheInv, TypeOK', NEW l \in LogIds, NEW w \in ContactIds \cup {NoId}, NEW p \in Payloads,
         UpsertContact(l, w, p)
  PROVE  CacheInv' /\ OnlyWrites(qsoRows, qsoRows', l)
<1>0. TypeOK /\ CacheMatchesDatabase /\ TypeOK'
  BY DEF CacheInv
<1>1. PICK c \in ContactIds :
        /\ WrittenAt(qsoRows, w, c)
        /\ qsoRows' = [qsoRows EXCEPT ![c] = Row(l, p)]
        /\ owners' = [owners EXCEPT ![c] = l]
        /\ counts' = [counts EXCEPT ![l] = CountAfter(counts[l], owners, c)]
        /\ contacts' = [contacts EXCEPT ![l] = CachedUpsert(LoadedContacts(l), c, Row(l, p))]
  BY DEF UpsertContact
<1>2. Writable(qsoRows, l, c)
  BY <1>1, CacheInvFacts, WrittenIsWritable DEF UpsertContact, OwnerAllows
<1> DEFINE new == [qsoRows EXCEPT ![c] = Row(l, p)]
           n == CountAfter(counts[l], OwnersOf(qsoRows), c)
<1>3. /\ new \in Rows /\ n \in Int /\ Max2(n, 0) = CountOf(new, l)
      /\ [OwnersOf(qsoRows) EXCEPT ![c] = l] = OwnersOf(new)
      /\ CachedUpsert(CachedFrom(qsoRows, l), c, Row(l, p)) = CachedFrom(new, l)
      /\ OnlyWrites(qsoRows, new, l)
  BY <1>2, CacheInvFacts, CommittedRow
<1>4. /\ qsoRows' = new /\ owners' = OwnersOf(new) /\ counts' = [counts EXCEPT ![l] = n]
      /\ contacts' = [contacts EXCEPT ![l] = CachedFrom(new, l)]
  BY <1>1, <1>3, CacheInvFacts
<1> HIDE DEF new, n
<1> QED
  BY <1>0, <1>3, <1>4, CommitKeepsMatch DEF UpsertContact

(* With two: the second row is written where the first has left it free.    *)
LEMMA BatchKeepsMatch ==
  ASSUME CacheInv, TypeOK', NEW l \in LogIds, NEW w \in ContactIds \cup {NoId},
         NEW x \in ContactIds \cup {NoId}, NEW p \in Payloads, NEW q \in Payloads,
         UpsertBatch(l, w, p, x, q)
  PROVE  CacheInv' /\ OnlyWrites(qsoRows, qsoRows', l)
<1>0. TypeOK /\ CacheMatchesDatabase /\ TypeOK'
  BY DEF CacheInv
<1>1. PICK c \in ContactIds, d \in ContactIds :
        /\ WrittenAt(qsoRows, w, c)
        /\ WrittenAt([qsoRows EXCEPT ![c] = Row(l, p)], x, d)
        /\ qsoRows' = [[qsoRows EXCEPT ![c] = Row(l, p)] EXCEPT ![d] = Row(l, q)]
        /\ owners' = [[owners EXCEPT ![c] = l] EXCEPT ![d] = l]
        /\ counts' = [counts EXCEPT ![l] =
             CountAfter(CountAfter(counts[l], owners, c), [owners EXCEPT ![c] = l], d)]
        /\ contacts' = [contacts EXCEPT ![l] =
             CachedUpsert(CachedUpsert(LoadedContacts(l), c, Row(l, p)), d, Row(l, q))]
  BY DEF UpsertBatch
<1> DEFINE rows == [qsoRows EXCEPT ![c] = Row(l, p)]
           new == [rows EXCEPT ![d] = Row(l, q)]
           n == CountAfter(counts[l], OwnersOf(qsoRows), c)
           k == CountAfter(n, OwnersOf(rows), d)
<1>2. Writable(qsoRows, l, c)
  BY <1>1, CacheInvFacts, WrittenIsWritable DEF UpsertBatch, OwnerAllows
<1>3. /\ rows \in Rows /\ n \in Int /\ Max2(n, 0) = CountOf(rows, l)
      /\ [OwnersOf(qsoRows) EXCEPT ![c] = l] = OwnersOf(rows)
      /\ CachedUpsert(CachedFrom(qsoRows, l), c, Row(l, p)) = CachedFrom(rows, l)
      /\ OnlyWrites(qsoRows, rows, l)
  BY <1>2, CacheInvFacts, CommittedRow
<1>4. owners = OwnersOf(qsoRows)
  BY CacheInvFacts
<1>5. WrittenAt(rows, x, d)
  BY <1>1
<1> HIDE DEF rows, n
<1>6. x # NoId => OwnersOf(rows)[x] \in {NoLog, l}
  BY <1>3, <1>4, AbsentAssumption DEF UpsertBatch, OwnerAllows, OwnersOf, OnlyWrites
<1>7. Writable(rows, l, d)
  BY <1>3, <1>5, <1>6, WrittenIsWritable
<1>8. /\ new \in Rows /\ k \in Int /\ Max2(k, 0) = CountOf(new, l)
      /\ [OwnersOf(rows) EXCEPT ![d] = l] = OwnersOf(new)
      /\ CachedUpsert(CachedFrom(rows, l), d, Row(l, q)) = CachedFrom(new, l)
      /\ OnlyWrites(rows, new, l)
  BY <1>3, <1>7, CommittedRow
<1>9. OnlyWrites(qsoRows, new, l)
  BY <1>3, <1>8 DEF OnlyWrites
<1>10. LoadedContacts(l) = CachedFrom(qsoRows, l)
  BY CacheInvFacts
<1>11. /\ qsoRows' = new /\ owners' = OwnersOf(new) /\ counts' = [counts EXCEPT ![l] = k]
       /\ contacts' = [contacts EXCEPT ![l] = CachedFrom(new, l)]
  BY <1>1, <1>3, <1>4, <1>8, <1>10 DEF rows, n
<1> HIDE DEF new, k
<1> QED
  BY <1>0, <1>8, <1>9, <1>11, CommitKeepsMatch DEF UpsertBatch

(* remove_contact finds the log of the contact in the cache and counts down *)
(* from at least one.                                                       *)
LEMMA DeletionKeepsMatch ==
  ASSUME CacheInv, TypeOK', NEW c \in ContactIds, DeleteContact(c)
  PROVE  CacheInv' /\ OnlyWrites(qsoRows, qsoRows', qsoRows[c].log)
<1>0. TypeOK /\ CacheMatchesDatabase /\ TypeOK'
  BY DEF CacheInv
<1> DEFINE l == qsoRows[c].log
           new == [qsoRows EXCEPT ![c] = NoRow]
<1>1. l \in LogIds /\ qsoRows[c] # NoRow /\ OwnedBy(qsoRows, c, l) /\ Writable(qsoRows, l, c)
  BY <1>0 DEF DeleteContact, TypeOK, Contact, OwnedBy, Writable
<1>2. /\ counts' = [counts EXCEPT ![l] = counts[l] - 1]
      /\ contacts' = [contacts EXCEPT ![l] =
           IF contacts[l] = NotLoaded THEN NotLoaded ELSE CachedRemove(contacts[l], c)]
      /\ qsoRows' = new
      /\ owners' = [owners EXCEPT ![c] = NoLog]
      /\ UNCHANGED <<logRows, serialRows, logs, nextSerial>>
  BY DEF DeleteContact
<1>3. logRows[l] # NoLog
  BY <1>0, <1>1 DEF CacheMatchesDatabase
<1> HIDE DEF l
<1>4. new \in Rows /\ CachedRemove(CachedFrom(qsoRows, l), c) = CachedFrom(new, l)
  BY <1>1, CacheInvFacts, RemoveFollowsRows DEF Rows, Writable
<1>5. OnlyWrites(qsoRows, new, l)
  <2>1. ASSUME NEW m \in LogIds \ {l}
        PROVE  CachedFrom(new, m) = CachedFrom(qsoRows, m) /\ CountOf(new, m) = CountOf(qsoRows, m)
    BY <1>1, CacheInvFacts, WrittenElsewhere
  <2>2. ASSUME NEW d \in ContactIds PROVE new[d] # NoRow => new[d] = qsoRows[d]
    BY CacheInvFacts DEF Rows
  <2> QED BY <2>1, <2>2 DEF OnlyWrites
<1>6. CountOf(new, l) = CountOf(qsoRows, l) - 1 /\ CountOf(qsoRows, l) > 0
  <2>1. {d \in ContactIds : OwnedBy(new, d, l)} = {d \in ContactIds : OwnedBy(qsoRows, d, l)} \ {c}
    BY CacheInvFacts DEF OwnedBy, Rows
  <2> QED BY <1>1, <2>1, OneContactLess DEF CountOf
<1>7. ASSUME NEW m \in LogIds PROVE Max2(counts'[m], 0) = CountOf(qsoRows', m)
  <2>1. CASE m = l
    <3>1. counts'[l] = counts[l] - 1 /\ counts[l] \in Int /\ Max2(counts[l], 0) = CountOf(qsoRows, l)
      BY <1>0, <1>1, <1>2, CacheInvFacts DEF TypeOK
    <3>2. CountOf(qsoRows, l) \in Int
      BY ContactIdsFinite DEF CountOf
    <3> QED BY <1>2, <1>6, <2>1, <3>1, <3>2 DEF Max2
  <2>2. CASE m # l
    BY <1>0, <1>1, <1>2, <1>5, <2>2 DEF OnlyWrites, CacheMatchesDatabase, TypeOK
  <2> QED BY <2>1, <2>2
<1>8. ASSUME NEW d \in ContactIds
      PROVE  /\ owners'[d] = IF qsoRows'[d] = NoRow THEN NoLog ELSE qsoRows'[d].log
             /\ qsoRows'[d] # NoRow => logRows'[qsoRows'[d].log] # NoLog
  BY <1>0, <1>2 DEF CacheMatchesDatabase, TypeOK
<1>9. LoadedContactsExact'
  BY <1>0, <1>1, <1>2, <1>3, <1>4, <1>5 DEF OnlyWrites, CacheMatchesDatabase, LoadedContactsExact, TypeOK
<1> QED
  BY <1>0, <1>2, <1>5, <1>7, <1>8, <1>9 DEF l, CacheInv, CacheMatchesDatabase

LEMMA CacheInvNext == CacheInv /\ [Next]_vars => CacheInv'
<1> SUFFICES ASSUME CacheInv, [Next]_vars PROVE CacheInv'
  OBVIOUS
<1>1. TypeOK /\ CacheMatchesDatabase /\ TypeOK'
  BY NextType DEF CacheInv
<1>2. ASSUME NEW l \in LogIds, NEW p \in Params, CreateLog(l, p) PROVE CacheInv'
  <2>1. logs' = [logs EXCEPT ![l] = p] /\ p # NoLog /\ logRows[l] = NoLog
    BY <1>2, AbsentAssumption DEF CreateLog, IsNextRowId, LogIds
  <2>2. \A c \in ContactIds : ~OwnedBy(qsoRows, c, l)
    BY <1>1, <2>1 DEF CacheMatchesDatabase, OwnedBy
  <2>3. EmptyCached = CachedFrom(qsoRows, l) /\ CountOf(qsoRows, l) = 0 /\ Max2(0, 0) = 0
    BY <2>2, EmptyIndex DEF Max2
  <2> QED
    BY <1>1, <1>2, <2>1, <2>3 DEF CreateLog, CacheInv, CacheMatchesDatabase, LoadedContactsExact, TypeOK
<1>3. ASSUME NEW l \in LogIds, NEW p \in Params, UpdateLog(l, p) PROVE CacheInv'
  BY <1>1, <1>3, AbsentAssumption
     DEF UpdateLog, CacheInv, CacheMatchesDatabase, LoadedContactsExact, TypeOK
<1>4. ASSUME NEW l \in LogIds, DeleteLog(l) PROVE CacheInv'
  <2>1. ASSUME NEW m \in LogIds, m # l
        PROVE  CachedFrom(qsoRows', m) = CachedFrom(qsoRows, m) /\ CountOf(qsoRows', m) = CountOf(qsoRows, m)
    <3>1. \A c \in ContactIds : OwnedBy(qsoRows, c, m) \/ OwnedBy(qsoRows', c, m) => qsoRows'[c] = qsoRows[c]
      BY <1>4, <2>1 DEF DeleteLog, OwnedBy
    <3> QED BY <3>1, OtherLogsKeepTheirIndex
  <2>2. \A c \in ContactIds : ~OwnedBy(qsoRows', c, l)
    BY <1>4 DEF DeleteLog, OwnedBy
  <2>3. CountOf(qsoRows', l) = 0 /\ Max2(-1, 0) = 0
    BY <2>2, EmptyIndex DEF Max2
  <2>4. ASSUME NEW m \in LogIds PROVE Max2(counts'[m], 0) = CountOf(qsoRows', m)
    BY <1>1, <1>4, <2>1, <2>3 DEF DeleteLog, CacheMatchesDatabase, TypeOK
  <2>5. ASSUME NEW c \in ContactIds
        PROVE  /\ owners'[c] = IF qsoRows'[c] = NoRow THEN NoLog ELSE qsoRows'[c].log
               /\ qsoRows'[c] # NoRow => logRows'[qsoRows'[c].log] # NoLog
    BY <1>1, <1>4, AbsentAssumption DEF DeleteLog, CacheMatchesDatabase, TypeOK, OwnedBy
  <2>6. LoadedContactsExact'
    BY <1>1, <1>4, <2>1 DEF DeleteLog, CacheMatchesDatabase, LoadedContactsExact, TypeOK
  <2>7. logs' = logRows' /\ nextSerial' = serialRows' /\ \A m \in LogIds : logRows'[m] = NoLog => serialRows'[m] = 0
    BY <1>1, <1>4 DEF DeleteLog, ForgetSerial, CacheMatchesDatabase, TypeOK
  <2> QED
    BY <1>1, <2>4, <2>5, <2>6, <2>7 DEF CacheInv, CacheMatchesDatabase
<1>5. ASSUME NEW l \in LogIds, LoadContacts(l) PROVE CacheInv'
  <2>1. contacts' = [contacts EXCEPT ![l] = CachedFrom(qsoRows, l)] /\ logs[l] # NoLog
    BY <1>5, CacheInvFacts DEF LoadContacts
  <2> QED
    BY <1>1, <1>5, <2>1
       DEF LoadContacts, CacheInv, CacheMatchesDatabase, LoadedContactsExact, TypeOK, sqlVars
<1>6. ASSUME NEW l \in LogIds, AllocateSerial(l) PROVE CacheInv'
  <2>1. contacts' = [contacts EXCEPT ![l] = CachedFrom(qsoRows, l)] /\ logs[l] # NoLog
    BY <1>6, CacheInvFacts DEF AllocateSerial
  <2>2. PICK n : /\ serialRows' = [serialRows EXCEPT ![l] = SerialFor(l, n) + 1]
                 /\ nextSerial' = [nextSerial EXCEPT ![l] = SerialFor(l, n) + 1]
    BY <1>6 DEF AllocateSerial
  <2> QED
    BY <1>1, <1>6, <2>1, <2>2
       DEF AllocateSerial, CacheInv, CacheMatchesDatabase, LoadedContactsExact, TypeOK
<1>7. ASSUME NEW l \in LogIds, NEW w \in ContactIds \cup {NoId}, NEW p \in Payloads,
             UpsertContact(l, w, p)
      PROVE  CacheInv'
  BY <1>1, <1>7, UpsertKeepsMatch
<1>8. ASSUME NEW l \in LogIds, NEW w \in ContactIds \cup {NoId}, NEW x \in ContactIds \cup {NoId},
             NEW p \in Payloads, NEW q \in Payloads, UpsertBatch(l, w, p, x, q)
      PROVE  CacheInv'
  BY <1>1, <1>8, BatchKeepsMatch
<1>9. ASSUME NEW c \in ContactIds, DeleteContact(c) PROVE CacheInv'
  BY <1>1, <1>9, DeletionKeepsMatch
<1>10. ASSUME Restart PROVE CacheInv'
  <2>1. UNCHANGED <<logRows, qsoRows, serialRows>> /\ logs' = logRows /\ nextSerial' = serialRows
    BY <1>10 DEF Restart, sqlVars
  <2>2. ASSUME NEW l \in LogIds PROVE Max2(counts'[l], 0) = CountOf(qsoRows', l)
    <3>1. CountOf(qsoRows, l) \in Nat
      BY ContactIdsFinite DEF CountOf
    <3>2. (\A c \in ContactIds : ~OwnedBy(qsoRows, c, l)) => CountOf(qsoRows, l) = 0
      BY EmptyIndex
    <3> QED BY <1>10, <2>1, <3>1, <3>2 DEF Restart, Max2
  <2>3. ASSUME NEW l \in LogIds
        PROVE  /\ contacts'[l] # NotLoaded => contacts'[l] = CachedFrom(qsoRows', l)
               /\ logs'[l] = NoLog => contacts'[l] = NotLoaded
    BY <1>10, <2>1, EmptyIndex DEF Restart
  <2>4. ASSUME NEW c \in ContactIds
        PROVE  /\ owners'[c] = IF qsoRows'[c] = NoRow THEN NoLog ELSE qsoRows'[c].log
               /\ qsoRows'[c] # NoRow => logRows'[qsoRows'[c].log] # NoLog
    BY <1>1, <1>10, <2>1 DEF Restart, CacheMatchesDatabase
  <2> QED
    BY <1>1, <2>1, <2>2, <2>3, <2>4 DEF CacheInv, CacheMatchesDatabase, LoadedContactsExact
<1>11. ASSUME UNCHANGED vars PROVE CacheInv'
  BY <1>1, <1>11 DEF vars, CacheInv, CacheMatchesDatabase, LoadedContactsExact
<1> QED
  BY <1>2, <1>3, <1>4, <1>5, <1>6, <1>7, <1>8, <1>9, <1>10, <1>11 DEF Next

LEMMA CacheInvHolds == Spec => []CacheInv
  BY CacheInvInit, CacheInvNext, PTL DEF Spec

(* The cache never says anything the tables do not: what DatabaseCache      *)
(* publishes after each command of the worker is what a load would build.   *)
THEOREM CacheIsTheDatabase == Spec => []CacheMatchesDatabase
<1>1. CacheInv => CacheMatchesDatabase
  BY DEF CacheInv
<1> QED BY <1>1, CacheInvHolds, PTL

-----------------------------------------------------------------------------
(* A serial is handed out above every number the log has committed: the     *)
(* index committed_next reads counts every contact of the table.            *)
LEMMA AllocationStep ==
  CacheInv /\ [Next]_vars =>
    \A l \in LogIds : Len(issued'[l]) > Len(issued[l]) =>
       \A c \in ContactIds :
         OwnedBy(qsoRows, c, l) /\ qsoRows[c].serial # NoSerial =>
           qsoRows[c].serial < issued'[l][Len(issued'[l])]
<1> SUFFICES ASSUME CacheInv, [Next]_vars, NEW l \in LogIds, Len(issued'[l]) > Len(issued[l]),
                    NEW c \in ContactIds, OwnedBy(qsoRows, c, l), qsoRows[c].serial # NoSerial
             PROVE  qsoRows[c].serial < issued'[l][Len(issued'[l])]
  OBVIOUS
<1>1. TypeOK
  BY DEF CacheInv
<1>2. issued[l] \in Seq(1..MaxI64) /\ Len(issued[l]) \in Nat
  <2>1. issued[l] \in Seq(1..MaxI64)
    BY <1>1 DEF TypeOK
  <2> QED BY <2>1
<1>3. ASSUME issued'[l] = issued[l] PROVE FALSE
  BY <1>2, <1>3
<1>4. AllocateSerial(l)
  <2>1. ASSUME NEW m \in LogIds, DeleteLog(m) PROVE FALSE
    BY <1>1, <1>2, <1>3, <2>1 DEF DeleteLog, TypeOK
  <2>2. ASSUME NEW m \in LogIds, AllocateSerial(m) PROVE m = l
    BY <1>1, <1>3, <2>2 DEF AllocateSerial, TypeOK
  <2>3. ASSUME UNCHANGED issued PROVE FALSE
    BY <1>3, <2>3
  <2> QED
    BY <2>1, <2>2, <2>3 DEF Next, CreateLog, UpdateLog, LoadContacts, UpsertContact, UpsertBatch,
       DeleteContact, Restart, vars
<1> DEFINE byId == ById(qsoRows, l)
           v == qsoRows[c].serial
<1>5. LoadedContacts(l).global = Global(byId)
  BY CacheInvFacts, CachedFromIsIndex DEF IndexOf
<1>6. v \in Serials /\ Global(byId)[v] > 0
  <2>1. v \in Serials
    BY <1>1 DEF OwnedBy, TypeOK, Contact
  <2>2. c \in Carriers(byId, v) /\ Carriers(byId, v) \in SUBSET ContactIds
    BY DEF Carriers, ById, OwnedBy
  <2> QED BY <2>1, <2>2, OneContactLess DEF Global
<1> HIDE DEF byId, v
<1>7. PICK n \in {1} \cup {w + 1 : w \in Serials} :
        /\ IsCommittedNext(LoadedContacts(l), n)
        /\ issued' = [issued EXCEPT ![l] = Append(issued[l], SerialFor(l, n))]
  BY <1>4 DEF AllocateSerial
<1>8. v < n
  <2>1. PICK w \in Serials : IsSerialMax(LoadedContacts(l), w) /\ n = w + 1
    BY <1>5, <1>6, <1>7 DEF IsCommittedNext
  <2>2. v <= w
    BY <1>5, <1>6, <2>1 DEF IsSerialMax
  <2> QED BY <1>6, <2>1, <2>2, SerialsAssumption
<1>9. SerialFor(l, n) \in Nat /\ n <= SerialFor(l, n) /\ n \in Int /\ v \in Int
  BY <1>1, <1>6, SerialForType, SerialsAssumption
<1>10. issued'[l] = Append(issued[l], SerialFor(l, n))
  BY <1>1, <1>7 DEF TypeOK
<1>11. issued'[l][Len(issued'[l])] = SerialFor(l, n)
  <2> DEFINE old == issued[l]
             s == SerialFor(l, n)
  <2>1. old \in Seq(Int) /\ s \in Int
    BY <1>2, <1>9, BoundsAssumption
  <2>2. Len(Append(old, s)) = Len(old) + 1 /\ Append(old, s)[Len(old) + 1] = s
    BY <2>1
  <2> QED BY <1>10, <2>2
<1> QED BY <1>8, <1>9, <1>11 DEF v

(* db_allocate_serial answers with a number above every committed one of    *)
(* the log at that moment, in whatever band and by whatever client.         *)
THEOREM SerialsAboveCommitted == Spec => AllocationAboveCommitted
  BY CacheInvHolds, AllocationStep, PTL DEF Spec, AllocationAboveCommitted

-----------------------------------------------------------------------------
(* Tables and cache implement VersionedLogs.                                *)

LEMMA SnapshotIsRows ==
  ASSUME NEW rows \in Rows, NEW l \in LogIds, NEW shown, shown = CachedFrom(rows, l).ordered
  PROVE  [c \in ContactIds |-> IF \E e \in shown : e[1] = c
                                 THEN (CHOOSE e \in shown : e[1] = c)[2] ELSE NoRow]
           = ById(rows, l)
<1>1. shown = Ordered(ById(rows, l)) /\ ById(rows, l) \in Rows
  BY CachedFromIsIndex DEF IndexOf, ById, Rows
<1>2. ASSUME NEW c \in ContactIds, ById(rows, l)[c] = NoRow PROVE ~\E e \in shown : e[1] = c
  BY <1>1, <1>2 DEF Ordered
<1>3. ASSUME NEW c \in ContactIds, ById(rows, l)[c] # NoRow
      PROVE  /\ \E e \in shown : e[1] = c
             /\ (CHOOSE e \in shown : e[1] = c) = <<c, ById(rows, l)[c]>>
  <2>1. <<c, ById(rows, l)[c]>> \in shown /\ \A e \in shown : e[1] = c => e = <<c, ById(rows, l)[c]>>
    BY <1>1, <1>3 DEF Ordered
  <2> QED BY <2>1
<1>4. ASSUME NEW c \in ContactIds
      PROVE  (IF \E e \in shown : e[1] = c THEN (CHOOSE e \in shown : e[1] = c)[2] ELSE NoRow)
               = ById(rows, l)[c]
  <2>1. CASE ById(rows, l)[c] = NoRow
    BY <1>2, <2>1
  <2>2. CASE ById(rows, l)[c] # NoRow
    <3>1. <<c, ById(rows, l)[c]>>[2] = ById(rows, l)[c]
      OBVIOUS
    <3> QED BY <1>3, <2>2, <3>1, Zenon
  <2> QED BY <2>1, <2>2
<1>5. ById(rows, l) = [c \in ContactIds |-> ById(rows, l)[c]]
  BY DEF ById
<1> QED BY <1>4, <1>5

Content(rows) == [l \in LogIds |-> ById(rows, l)]

LEMMA ContentIsShown ==
  CacheInv => [l \in LogIds |-> SnapshotContent(l)] = Content(qsoRows)
<1> SUFFICES ASSUME CacheInv, NEW l \in LogIds PROVE SnapshotContent(l) = ById(qsoRows, l)
  BY DEF Content
<1>1. qsoRows \in Rows /\ LoadedContacts(l).ordered = CachedFrom(qsoRows, l).ordered
  BY CacheInvFacts
<1> QED BY <1>1, SnapshotIsRows DEF SnapshotContent

(* A step that writes rows of log l alone changes what is shown of it alone, *)
(* and leaves no contact in two logs.                                        *)
LEMMA OneLogChanges ==
  ASSUME NEW rows \in Rows, NEW new \in Rows, NEW l \in LogIds, OnlyWrites(rows, new, l)
  PROVE  /\ Content(new) = [Content(rows) EXCEPT ![l] = Content(new)[l]]
         /\ Content(new)[l] \in [ContactIds -> Contact \cup {NoRow}]
         /\ \A c \in ContactIds, m \in LogIds \ {l} : Content(new)[l][c] # NoRow => Content(rows)[m][c] = NoRow
<1>1. ASSUME NEW m \in LogIds \ {l} PROVE ById(new, m) = ById(rows, m)
  BY CachedFromIsIndex DEF OnlyWrites, IndexOf
<1>2. Content(new) = [Content(rows) EXCEPT ![l] = Content(new)[l]]
  BY <1>1 DEF Content
<1>3. Content(new)[l] \in [ContactIds -> Contact \cup {NoRow}]
  BY DEF Content, ById, Rows
<1>4. ASSUME NEW c \in ContactIds, NEW m \in LogIds \ {l}, ById(new, l)[c] # NoRow
      PROVE  ById(rows, m)[c] = NoRow
  <2>1. new[c].log = l
    BY <1>4 DEF ById, OwnedBy
  <2>2. ById(new, m)[c] = NoRow
    BY <2>1 DEF ById, OwnedBy
  <2> QED BY <1>1, <2>2
<1> QED BY <1>2, <1>3, <1>4 DEF Content

LEMMA InitIsVersioned == Init => Versioned!Init
<1> SUFFICES ASSUME Init PROVE Versioned!Init
  OBVIOUS
<1>1. [l \in LogIds |-> SnapshotContent(l)] = Content(qsoRows)
  BY CacheInvInit, ContentIsShown
<1>2. Content(qsoRows) = [l \in LogIds |-> [c \in ContactIds |-> NoRow]]
  BY DEF Init, Content, ById, OwnedBy
<1> QED BY <1>1, <1>2 DEF Init, Versioned!Init, Versioned!Empty

Shown == [l \in LogIds |-> SnapshotContent(l)]

LEMMA StepIsVersioned ==
  CacheInv /\ CacheInv' /\ [Next]_vars => [Versioned!Next]_(Versioned!versionedVars)
<1> SUFFICES ASSUME CacheInv, CacheInv', [Next]_vars
             PROVE  [Versioned!Next]_<<logs, Shown, revision, lastRevision>>
  BY DEF Versioned!versionedVars, Shown
<1>1. Shown = Content(qsoRows) /\ Shown' = Content(qsoRows')
  <2>1. Shown = Content(qsoRows)
    BY ContentIsShown DEF Shown
  <2>2. (CacheInv => [l \in LogIds |-> SnapshotContent(l)] = Content(qsoRows))'
    BY ContentIsShown, PTL
  <2> QED BY <2>1, <2>2 DEF Shown
<1>2. /\ TypeOK /\ TypeOK' /\ CacheMatchesDatabase /\ CacheMatchesDatabase'
      /\ qsoRows \in Rows /\ qsoRows' \in Rows /\ logs = logRows
  BY DEF CacheInv, CacheMatchesDatabase, TypeOK, Rows
<1>3. ASSUME NEW l \in LogIds, Content(qsoRows)[l] = Versioned!Empty, Shown' = Shown, logs[l] = NoLog,
             NEW p \in Params, logs' = [logs EXCEPT ![l] = p], BumpRevision(l)
      PROVE  Versioned!Next
  <2>1. Versioned!Create(l)
    BY <1>1, <1>3 DEF Versioned!Create, Versioned!Exists, Versioned!Stamp, BumpRevision, Shown
  <2> QED BY <2>1 DEF Versioned!Next
<1>4. ASSUME NEW l \in LogIds, logs[l] # NoLog, UNCHANGED logs, BumpRevision(l),
             OnlyWrites(qsoRows, qsoRows', l)
      PROVE  Versioned!Next
  <2>1. Versioned!Mutate(l)
    BY <1>1, <1>2, <1>4, OneLogChanges
       DEF Versioned!Mutate, Versioned!Exists, Versioned!Stamp, BumpRevision, Shown
  <2> QED BY <2>1 DEF Versioned!Next
<1>5. ASSUME NEW l \in LogIds, NEW p \in Params, CreateLog(l, p) PROVE Versioned!Next
  <2>1. logs[l] = NoLog /\ qsoRows' = qsoRows /\ logs' = [logs EXCEPT ![l] = p] /\ BumpRevision(l)
    BY <1>2, <1>5 DEF CreateLog, IsNextRowId, LogIds
  <2>2. Content(qsoRows)[l] = Versioned!Empty
    BY <1>2, <2>1 DEF CacheMatchesDatabase, Content, ById, OwnedBy, Versioned!Empty
  <2> QED BY <1>1, <1>3, <2>1, <2>2
<1>6. ASSUME NEW l \in LogIds, NEW p \in Params, UpdateLog(l, p) PROVE Versioned!Next
  <2>1. Versioned!Update(l)
    BY <1>1, <1>2, <1>6
       DEF UpdateLog, Versioned!Update, Versioned!Exists, Versioned!Stamp, BumpRevision, Shown
  <2> QED BY <2>1 DEF Versioned!Next
<1>7. ASSUME NEW l \in LogIds, DeleteLog(l) PROVE Versioned!Next
  <2>1. Content(qsoRows') = [Content(qsoRows) EXCEPT ![l] = Versioned!Empty]
    BY <1>2, <1>7 DEF DeleteLog, Content, ById, OwnedBy, Versioned!Empty, Rows
  <2>2. Versioned!Delete(l)
    BY <1>1, <1>2, <1>7, <2>1 DEF DeleteLog, Versioned!Delete, Versioned!Exists, Shown
  <2> QED BY <2>2 DEF Versioned!Next
<1>8. ASSUME NEW l \in LogIds, LoadContacts(l) \/ AllocateSerial(l)
      PROVE  UNCHANGED <<logs, Shown, revision, lastRevision>>
  BY <1>1, <1>8 DEF LoadContacts, AllocateSerial, sqlVars
<1>9. ASSUME NEW l \in LogIds, NEW w \in ContactIds \cup {NoId}, NEW p \in Payloads,
             UpsertContact(l, w, p)
      PROVE  Versioned!Next
  BY <1>2, <1>4, <1>9, UpsertKeepsMatch DEF UpsertContact
<1>10. ASSUME NEW l \in LogIds, NEW w \in ContactIds \cup {NoId}, NEW x \in ContactIds \cup {NoId},
              NEW p \in Payloads, NEW q \in Payloads, UpsertBatch(l, w, p, x, q)
       PROVE  Versioned!Next
  <2>1. OnlyWrites(qsoRows, qsoRows', l)
    BY <1>2, <1>10, BatchKeepsMatch
  <2>2. logs[l] # NoLog /\ UNCHANGED logs /\ BumpRevision(l)
    BY <1>10 DEF UpsertBatch
  <2> QED BY <1>4, <2>1, <2>2
<1>11. ASSUME NEW c \in ContactIds, DeleteContact(c) PROVE Versioned!Next
  <2>1. qsoRows[c].log \in LogIds /\ logs[qsoRows[c].log] # NoLog
    BY <1>2, <1>11 DEF DeleteContact, CacheMatchesDatabase, TypeOK, Contact
  <2> QED BY <1>2, <1>4, <1>11, <2>1, DeletionKeepsMatch DEF DeleteContact
<1>12. ASSUME Restart PROVE Versioned!Next
  <2>1. Versioned!Restart
    <3>1. logs' = logs /\ Shown' = Shown
      BY <1>1, <1>2, <1>12 DEF Restart, sqlVars
    <3>2. revision' \in [LogIds -> 0..lastRevision']
      BY <1>12 DEF Restart
    <3>3. \A l \in LogIds : revision'[l] = 0 <=> ~(logs[l] # NoLog)
      BY <1>2, <1>12 DEF Restart
    <3>4. \A l, m \in LogIds : logs[l] # NoLog /\ revision'[l] = revision'[m] => l = m
      BY <1>2, <1>12 DEF Restart
    <3> QED BY <3>1, <3>2, <3>3, <3>4 DEF Versioned!Restart, Versioned!Exists, Shown
  <2> QED BY <2>1 DEF Versioned!Next
<1>13. ASSUME UNCHANGED vars PROVE UNCHANGED <<logs, Shown, revision, lastRevision>>
  BY <1>1, <1>13 DEF vars
<1> QED
  BY <1>5, <1>6, <1>7, <1>8, <1>9, <1>10, <1>11, <1>12, <1>13 DEF Next

(* Readers of the cache see a set of versioned logs: content changes only   *)
(* under a revision no log of the process had, nothing is lost by a restart *)
(* and no contact is in two logs (Database::read beside the worker).        *)
THEOREM DatabaseIsVersioned == Spec => ImplementsVersionedLogs
  BY CacheInvHolds, InitIsVersioned, StepIsVersioned, PTL
     DEF Spec, ImplementsVersionedLogs, Versioned!Spec
=============================================================================
