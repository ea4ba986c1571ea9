--------------------------- MODULE LogCacheProofs ---------------------------
(***************************************************************************)
(* The derived log cache is coherent and answers from fresh logs: proofs   *)
(* for any number of logs, contacts, requests and queued commands.         *)
(***************************************************************************)
EXTENDS LogCache, SequenceTheorems, FiniteSetTheorems, TLAPS

-----------------------------------------------------------------------------
(* The local state of a request.                                            *)

Changes == {"updateLog", "deleteLog"}
Mutations == {"upsert", "delete"}
Ended == {"idle", "done"}
Loading == {"ensure", "snapshot", "build", "publish"}
Held == Loading \cup {"commit", "remove", "check", "apply", "answer", "clear"}
Pcs == Held \cup Ended \cup {"gate", "change", "await", "return"}
Rows == [ContactIds -> Contacts \cup {NoRow}]

Request ==
  [pc : Pcs, op : Changes \cup Mutations \cup {"page", None}, log : LogIds \cup {None},
   id : ContactIds \cup {NoId}, val : Contacts \cup Params \cup {NoRow},
   then : {"commit", "remove", "answer", "clear", None}, snap : CachedLog \cup {None},
   prev : Nat, rev : Nat, since : Nat,
   reply : {"error", "notFound", "ok", "cancelled", None, NoRow} \cup Contacts]

(* What the program counter says of the other fields.                       *)
WellFormed(r) ==
  /\ r.pc = "idle" => r.val = NoRow /\ r.since = 0
  /\ r.pc \notin Ended =>
       /\ r.log \in LogIds
       /\ r.op \in Changes \cup Mutations \cup {"page"}
       /\ r.op \in Changes <=> r.then = "clear"
       /\ r.op = "upsert" => r.val \in Contacts
       /\ r.op = "delete" => r.val = NoRow /\ r.id \in ContactIds
       /\ r.op = "updateLog" => r.val \in Params
       /\ r.then = "commit" => r.op = "upsert"
       /\ r.then = "remove" => r.op = "delete"
       /\ r.then \in {"commit", "remove", "answer", "clear"}
       /\ r.pc = "commit" => r.op = "upsert"
       /\ r.pc = "remove" => r.op = "delete"
       /\ r.pc = "change" => r.op \in Changes
       /\ r.pc = "await" => r.op # "page"
       /\ r.pc = "return" => r.op # "page"
       /\ r.pc \in Loading \cup {"answer"} => r.op \notin Changes
       /\ r.pc \in {"build", "publish"} => r.snap \in CachedLog
       /\ r.pc = "answer" => r.then = "answer"
       /\ r.then = "answer" /\ r.op = "upsert" => r.id \in ContactIds
       /\ r.pc \in {"check", "apply"} => r.op \in Mutations /\ r.id \in ContactIds

(* The request is inside coordinate(log_id).                                *)
HoldsGate(r) ==
  r.pc \in Held \/ (r.pc \in {"await", "return"} /\ r.op \in Mutations)

-----------------------------------------------------------------------------
(* The inductive invariant.                                                 *)

TypeOK ==
  /\ metadata \in [LogIds -> Params \cup {NoLog}]
  /\ content \in [LogIds -> Rows]
  /\ revision \in [LogIds -> Nat]
  /\ lastRevision \in Nat
  /\ cached \in [LogIds -> CachedLog \cup {None}]
  /\ gate \in [LogIds -> Tasks \cup {NoTask}]
  /\ task \in [Tasks -> Request]
  /\ known \in SUBSET ContactIds

RevisionsHandedOut == \A l \in LogIds : revision[l] <= lastRevision

(* Log l as s is what the database has, unless the database moved on.       *)
Shows(l, s) ==
  /\ s.revision <= lastRevision
  /\ DbRevision(l) = s.revision => s.params = metadata[l] /\ s.contacts = content[l]

(* A cached log brought forward by the mutation of request r.               *)
Forward(s, r) ==
  [revision |-> r.rev, params |-> s.params, contacts |-> [s.contacts EXCEPT ![r.id] = r.val]]

GateIsHeld ==
  \A l \in LogIds, t \in Tasks : gate[l] = t <=> HoldsGate(task[t]) /\ task[t].log = l

(* A queued command is that of its request, which waits for it or is gone.  *)
QueuedCommand ==
  {cmd \in [task : Tasks, op : Changes \cup Mutations, log : LogIds,
            id : ContactIds \cup {NoId}, val : Contacts \cup Params \cup {NoRow}] :
     /\ cmd.op = "upsert" => cmd.val \in Contacts
     /\ cmd.op = "delete" => cmd.id \in ContactIds
     /\ cmd.op = "updateLog" => cmd.val \in Params}

AwaitedBy(cmd, r) ==
  \/ r.pc = "done"
  \/ /\ r.pc = "await"
     /\ r.op = cmd.op /\ r.log = cmd.log /\ r.id = cmd.id /\ r.val = cmd.val

QueueIsAwaited ==
  /\ queue \in Seq(QueuedCommand)
  /\ \A i, j \in 1..Len(queue) : queue[i].task = queue[j].task => i = j
  /\ \A i \in 1..Len(queue) : AwaitedBy(queue[i], task[queue[i].task])

SnapshotsShow(r) == r.pc \in {"build", "publish"} => Shows(r.log, r.snap)

(* A mutation whose revision is still the last brings the cache forward.    *)
MutationsShow(r) ==
  r.pc \in {"check", "apply"} /\ cached[r.log] # None /\ cached[r.log].revision = r.prev =>
    Shows(r.log, Forward(cached[r.log], r))

AppliesOnTop(r) ==
  r.pc = "apply" => cached[r.log] # None /\ cached[r.log].revision = r.prev

IsFresh(r) ==
  r.pc \notin Ended /\ Exists(r.log) => r.since <= revision[r.log]

AnswerIsFresh(r) ==
  r.pc = "answer" => cached[r.log] # None /\ cached[r.log].revision >= r.since

RequestOK(r) ==
  /\ WellFormed(r)
  /\ SnapshotsShow(r)
  /\ MutationsShow(r)
  /\ AppliesOnTop(r)
  /\ r.pc \notin Ended => r.since <= lastRevision
  /\ IsFresh(r)
  /\ AnswerIsFresh(r)

Computed(s) == IF s = None THEN None ELSE Basis(s)

(* The processors follow the cache; between replay and publication they     *)
(* follow the snapshot that is about to be published.                       *)
Publishes(t, l) == gate[l] = t /\ task[t].pc = "publish"

ProcessorsFollow ==
  \A l \in LogIds :
    \/ (\A t \in Tasks : ~Publishes(t, l)) /\ derived[l] = Computed(cached[l])
    \/ \E t \in Tasks : Publishes(t, l) /\ derived[l] = Basis(task[t].snap)

CacheInv ==
  /\ TypeOK
  /\ RevisionsHandedOut
  /\ derived \in [LogIds -> {Basis(s) : s \in CachedLog} \cup {None}]
  /\ GateIsHeld
  /\ QueueIsAwaited
  /\ \A t \in Tasks : RequestOK(task[t])
  /\ \A l \in LogIds : cached[l] # None => Shows(l, cached[l])
  /\ ProcessorsFollow
-----------------------------------------------------------------------------
(* What a step does to the database: a log is untouched, gone, or under a   *)
(* revision that was never handed out.                                      *)
DbStep ==
  /\ metadata' \in [LogIds -> Params \cup {NoLog}]
  /\ content' \in [LogIds -> Rows]
  /\ revision' \in [LogIds -> Nat]
  /\ lastRevision' \in Nat
  /\ known' \in SUBSET ContactIds
  /\ lastRevision' >= lastRevision
  /\ \A l \in LogIds :
       /\ revision'[l] <= lastRevision'
       /\ \/ /\ metadata'[l] = metadata[l]
             /\ content'[l] = content[l]
             /\ revision'[l] = revision[l]
          \/ metadata'[l] = NoLog
          \/ revision'[l] > lastRevision

LEMMA NoDbStep ==
  ASSUME CacheInv, UNCHANGED dbVars
  PROVE  DbStep
  BY DEF CacheInv, TypeOK, RevisionsHandedOut, dbVars, DbStep

LEMMA CachedLogFields ==
  ASSUME NEW s \in CachedLog
  PROVE  s # None /\ s.revision \in Nat /\ s.params \in Params \cup {NoLog} /\ s.contacts \in Rows
  BY AbsentAssumption DEF CachedLog, Rows

(* A snapshot that shows the database goes on showing it.                   *)
LEMMA ShowsStays ==
  ASSUME CacheInv, DbStep, NEW l \in LogIds, NEW s \in CachedLog, Shows(l, s)
  PROVE  Shows(l, s)'
  BY CachedLogFields, AbsentAssumption
  DEF CacheInv, TypeOK, RevisionsHandedOut, DbStep, Shows, DbRevision, Exists

(* A request that stays where it is keeps its part of the invariant as long *)
(* as nobody touches the cached log it has the gate of.                     *)
LEMMA RequestKept ==
  ASSUME CacheInv, DbStep, NEW r \in Request, RequestOK(r),
         HoldsGate(r) => cached'[r.log] = cached[r.log]
  PROVE  RequestOK(r)'
<1>1. WellFormed(r)'
  BY DEF RequestOK, WellFormed
<1>2. r.pc \in {"build", "publish", "check", "apply", "answer"} =>
        HoldsGate(r) /\ r.log \in LogIds /\ cached[r.log] \in CachedLog \cup {None}
  BY DEF RequestOK, WellFormed, HoldsGate, Held, Ended, Loading, CacheInv, TypeOK
<1>3. SnapshotsShow(r)'
  BY ShowsStays, <1>2 DEF SnapshotsShow, RequestOK, WellFormed, Loading, Ended
<1>4. MutationsShow(r)'
  <2> DEFINE s == cached[r.log]
             f == Forward(s, r)
  <2>1. SUFFICES ASSUME r.pc \in {"check", "apply"}, s # None, s.revision = r.prev
                 PROVE  Shows(r.log, Forward(cached[r.log], r))'
    BY <1>2 DEF MutationsShow
  <2>2. s \in CachedLog /\ r.rev \in Nat /\ r.val \in Contacts \cup {NoRow} /\ r.id \in ContactIds
    BY <1>2, <2>1 DEF Request, RequestOK, WellFormed, Ended, Mutations
  <2>3. f \in CachedLog
    BY <2>2, CachedLogFields DEF Forward, CachedLog, Rows
  <2>4. Shows(r.log, f)
    BY <2>1 DEF RequestOK, MutationsShow
  <2> HIDE DEF f
  <2>5. PICK g \in CachedLog : g = f
    BY <2>3
  <2>6. Shows(r.log, g)'
    BY <2>4, <2>5, <1>2, <2>1, ShowsStays
  <2>7. Forward(cached[r.log], r)' = g
    BY <1>2, <2>1, <2>5 DEF f, Forward
  <2> QED BY <2>6, <2>7 DEF Shows, DbRevision, Exists
<1>5. AppliesOnTop(r)'
  BY <1>2 DEF RequestOK, AppliesOnTop
<1>6. r.pc \notin Ended => r.since <= lastRevision'
  BY DEF RequestOK, DbStep, Request, CacheInv, TypeOK
<1>7. IsFresh(r)'
  BY DEF RequestOK, WellFormed, IsFresh, DbStep, Request, CacheInv, TypeOK, Exists
<1>8. AnswerIsFresh(r)'
  BY <1>2 DEF RequestOK, AnswerIsFresh
<1> QED
  BY <1>1, <1>3, <1>4, <1>5, <1>6, <1>7, <1>8 DEF RequestOK

LEMMA RecordOf ==
  ASSUME NEW q, NEW u \in Tasks, RequestOK(q)', task'[u] = q
  PROVE  RequestOK(task[u])'
  BY DEF RequestOK, WellFormed, SnapshotsShow, MutationsShow, AppliesOnTop, IsFresh,
    AnswerIsFresh, Shows, DbRevision, Exists, Forward

(* Requests other than the one that moves: only the holder of a log's gate  *)
(* touches the cached log.                                                  *)
LEMMA OthersKept ==
  ASSUME CacheInv, DbStep, NEW t \in Tasks,
         \A l \in LogIds : gate[l] # t => cached'[l] = cached[l],
         NEW u \in Tasks \ {t}, task'[u] = task[u]
  PROVE  RequestOK(task[u])'
<1>1. PICK r \in Request : r = task[u]
  BY DEF CacheInv, TypeOK
<1>2. RequestOK(r)
  BY <1>1 DEF CacheInv
<1>3. HoldsGate(r) => cached'[r.log] = cached[r.log]
  <2> SUFFICES ASSUME HoldsGate(r) PROVE cached'[r.log] = cached[r.log]
    OBVIOUS
  <2>1. r.pc \notin Ended
    BY DEF HoldsGate, Held, Loading, Ended
  <2>2. r.log \in LogIds
    BY <1>2, <2>1 DEF RequestOK, WellFormed
  <2>3. gate[r.log] = u
    BY <1>1, <2>2 DEF CacheInv, GateIsHeld
  <2> QED BY <2>2, <2>3
<1>4. RequestOK(r)'
  BY <1>2, <1>3, RequestKept
<1> QED BY <1>1, <1>4, RecordOf
-----------------------------------------------------------------------------
(* The gate, the queue and the processors.                                  *)

(* Only t takes or gives back gates.                                        *)
GatesOf(t) ==
  /\ gate' \in [LogIds -> Tasks \cup {NoTask}]
  /\ \A l \in LogIds : IF gate[l] \in {NoTask, t} THEN gate'[l] \in {NoTask, t}
                       ELSE gate'[l] = gate[l]

(* Only t moves, and it neither takes nor gives back a gate.                *)
LEMMA GateKept ==
  ASSUME CacheInv, NEW t \in Tasks, gate' = gate,
         \A u \in Tasks \ {t} : task'[u] = task[u],
         HoldsGate(task'[t]) <=> HoldsGate(task[t]),
         HoldsGate(task[t]) => task'[t].log = task[t].log
  PROVE  GateIsHeld'
<1> SUFFICES ASSUME NEW l \in LogIds, NEW u \in Tasks
             PROVE  gate[l] = u <=> HoldsGate(task'[u]) /\ task'[u].log = l
  BY DEF GateIsHeld, HoldsGate
<1>1. gate[l] = u <=> HoldsGate(task[u]) /\ task[u].log = l
  BY DEF CacheInv, GateIsHeld
<1> QED BY <1>1

(* The request of t ends and its gate with it.                              *)
LEMMA GateReleased ==
  ASSUME CacheInv, NEW t \in Tasks, NEW reply, Finish(t, reply)
  PROVE  /\ GatesOf(t)
         /\ GateIsHeld'
         /\ \A u \in Tasks \ {t} : task'[u] = task[u]
         /\ task'[t] = [IdleTask EXCEPT !.pc = "done", !.op = task[t].op, !.reply = reply]
         /\ task'[t].pc = "done"
<1>1. /\ task \in [Tasks -> Request]
      /\ gate \in [LogIds -> Tasks \cup {NoTask}]
  BY DEF CacheInv, TypeOK
<1>2. /\ \A u \in Tasks \ {t} : task'[u] = task[u]
      /\ task'[t] = [IdleTask EXCEPT !.pc = "done", !.op = task[t].op, !.reply = reply]
  BY <1>1 DEF Finish
<1>3. task'[t].pc = "done"
  BY <1>2 DEF IdleTask
<1>4. GatesOf(t)
  BY <1>1 DEF Finish, GatesOf
<1>5. ASSUME NEW l \in LogIds, NEW u \in Tasks
      PROVE  gate'[l] = u <=> HoldsGate(task'[u]) /\ task'[u].log = l
  <2>1. gate[l] = u <=> HoldsGate(task[u]) /\ task[u].log = l
    BY DEF CacheInv, GateIsHeld
  <2>2. gate'[l] = IF gate[l] = t THEN NoTask ELSE gate[l]
    BY DEF Finish
  <2>3. u = t => ~HoldsGate(task'[u])
    BY <1>3 DEF HoldsGate, Held, Loading
  <2> QED BY <1>2, <2>1, <2>2, <2>3, AbsentAssumption
<1>6. GateIsHeld'
  BY <1>5 DEF GateIsHeld, HoldsGate
<1> QED BY <1>2, <1>3, <1>4, <1>6

(* What ends is no longer at work.                                          *)
LEMMA EndedIsFine ==
  ASSUME CacheInv, NEW t \in Tasks,
         NEW reply \in {"error", "notFound", "ok", "cancelled", None, NoRow} \cup Contacts
  PROVE  /\ [IdleTask EXCEPT !.pc = "done", !.op = task[t].op, !.reply = reply] \in Request
         /\ RequestOK([IdleTask EXCEPT !.pc = "done", !.op = task[t].op, !.reply = reply])
<1> DEFINE r == [IdleTask EXCEPT !.pc = "done", !.op = task[t].op, !.reply = reply]
<1>1. r \in Request
  BY DEF CacheInv, TypeOK, IdleTask, Request, Pcs, Ended
<1>2. r.pc = "done"
  BY DEF IdleTask
<1>3. RequestOK(r)
  BY <1>2 DEF RequestOK, WellFormed, SnapshotsShow, MutationsShow, AppliesOnTop, IsFresh,
    AnswerIsFresh, Ended
<1> QED BY <1>1, <1>3

LEMMA QueueKept ==
  ASSUME CacheInv, NEW t \in Tasks, queue' = queue,
         \A u \in Tasks \ {t} : task'[u] = task[u],
         task[t].pc \notin {"await", "done"} \/ task'[t].pc = "done"
  PROVE  QueueIsAwaited'
<1>1. QueueIsAwaited
  BY DEF CacheInv
<1>2. \A i \in 1..Len(queue) : queue[i].task \in Tasks
  <2>1. \A i \in 1..Len(queue) : queue[i] \in QueuedCommand
    BY <1>1, ElementOfSeq DEF QueueIsAwaited
  <2> QED BY <2>1 DEF QueuedCommand
<1> QED BY <1>1, <1>2 DEF QueueIsAwaited, AwaitedBy

LEMMA LogsShow ==
  ASSUME CacheInv, DbStep, NEW l \in LogIds,
         \/ cached'[l] = cached[l] \/ cached'[l] = None
         \/ \E s \in CachedLog : cached'[l] = s /\ Shows(l, s)
  PROVE  /\ cached'[l] \in CachedLog \cup {None}
         /\ cached'[l] # None => Shows(l, cached[l])'
<1>1. cached[l] \in CachedLog \cup {None} /\ (cached[l] # None => Shows(l, cached[l]))
  BY DEF CacheInv, TypeOK
<1>2. CASE cached'[l] = None
  BY <1>2
<1>3. CASE \E s \in CachedLog : cached'[l] = s /\ Shows(l, s)
  <2> PICK s \in CachedLog : cached'[l] = s /\ Shows(l, s)
    BY <1>3
  <2>1. Shows(l, s)'
    BY ShowsStays
  <2> QED BY <2>1 DEF Shows, DbRevision, Exists
<1> QED BY <1>1, <1>2, <1>3

LEMMA ProcessorsKept ==
  ASSUME CacheInv, NEW t \in Tasks, GatesOf(t),
         \A u \in Tasks \ {t} : task'[u] = task[u],
         NEW l \in LogIds,
         derived'[l] = derived[l], cached'[l] = cached[l],
         gate[l] = t => task[t].pc # "publish",
         gate'[l] = t => task'[t].pc # "publish"
  PROVE  \/ (\A u \in Tasks : ~Publishes(u, l)') /\ derived'[l] = Computed(cached[l])'
         \/ \E u \in Tasks : Publishes(u, l)' /\ derived'[l] = Basis(task[u].snap)'
<1>1. CASE \A u \in Tasks : ~Publishes(u, l)
  <2>1. derived[l] = Computed(cached[l])
    BY <1>1 DEF CacheInv, ProcessorsFollow
  <2>2. \A u \in Tasks : ~Publishes(u, l)'
    BY <1>1, AbsentAssumption DEF Publishes, GatesOf
  <2> QED BY <2>1, <2>2 DEF Computed, Basis
<1>2. ASSUME NEW u \in Tasks, Publishes(u, l) PROVE u # t /\ Publishes(u, l)' /\ task'[u] = task[u]
  BY <1>2, AbsentAssumption DEF Publishes, GatesOf
<1>3. CASE \E u \in Tasks : Publishes(u, l)
  <2>1. PICK u \in Tasks : Publishes(u, l) /\ derived[l] = Basis(task[u].snap)
    BY <1>3 DEF CacheInv, ProcessorsFollow
  <2> QED BY <1>2, <2>1 DEF Basis
<1> QED BY <1>1, <1>3

-----------------------------------------------------------------------------
LEMMA AtWork ==
  ASSUME CacheInv, NEW t \in Tasks
  PROVE  /\ task[t] \in Request
         /\ RequestOK(task[t])
         /\ task[t].pc \notin Ended => task[t].log \in LogIds
         /\ HoldsGate(task[t]) => task[t].log \in LogIds /\ gate[task[t].log] = t
         /\ task \in [Tasks -> Request]
         /\ cached \in [LogIds -> CachedLog \cup {None}]
         /\ gate \in [LogIds -> Tasks \cup {NoTask}]
<1>1. task[t] \in Request /\ RequestOK(task[t])
  BY DEF CacheInv, TypeOK
<1>2. task[t].pc \notin Ended => task[t].log \in LogIds
  BY <1>1 DEF RequestOK, WellFormed
<1>3. HoldsGate(task[t]) => task[t].pc \notin Ended
  BY DEF HoldsGate, Held, Loading, Ended
<1> QED BY <1>1, <1>2, <1>3 DEF CacheInv, TypeOK, GateIsHeld

(* One request moves and leaves the database and the cache.                 *)
LEMMA OneRequestMoves ==
  ASSUME CacheInv, NEW t \in Tasks, NEW r \in Request,
         UNCHANGED <<dbVars, cacheVars>>,
         task' = [task EXCEPT ![t] = r],
         task[t].pc # "publish", r.pc # "publish",
         RequestOK(r),
         GatesOf(t), GateIsHeld', QueueIsAwaited'
  PROVE  CacheInv'
<1>1. DbStep
  BY NoDbStep DEF dbVars
<1>2. /\ \A u \in Tasks \ {t} : task'[u] = task[u]
      /\ task'[t] = r
      /\ task' \in [Tasks -> Request]
  BY DEF CacheInv, TypeOK
<1>3. TypeOK' /\ RevisionsHandedOut'
  BY <1>2 DEF CacheInv, TypeOK, RevisionsHandedOut, dbVars, cacheVars, GatesOf
<1>4. derived' \in [LogIds -> {Basis(s) : s \in CachedLog} \cup {None}]
  BY DEF CacheInv, cacheVars
<1>6. \A u \in Tasks : RequestOK(task[u])'
  <2>1. ASSUME NEW u \in Tasks \ {t} PROVE RequestOK(task[u])'
    BY <1>1, <1>2, OthersKept DEF cacheVars
  <2>2. RequestOK(task[t])'
    BY <1>2 DEF RequestOK, WellFormed, SnapshotsShow, MutationsShow, AppliesOnTop, IsFresh,
      AnswerIsFresh, Shows, DbRevision, Exists, Forward, dbVars, cacheVars
  <2> QED BY <2>1, <2>2
<1>7. \A l \in LogIds : (cached[l] # None => Shows(l, cached[l]))'
  BY <1>1, LogsShow DEF cacheVars
<1>8. ProcessorsFollow'
  <2>1. ASSUME NEW l \in LogIds
        PROVE  \/ (\A u \in Tasks : ~Publishes(u, l)') /\ derived'[l] = Computed(cached[l])'
               \/ \E u \in Tasks : Publishes(u, l)' /\ derived'[l] = Basis(task[u].snap)'
    BY <1>2, ProcessorsKept DEF cacheVars
  <2> QED BY <2>1 DEF ProcessorsFollow
<1> QED
  BY <1>3, <1>4, <1>6, <1>7, <1>8 DEF CacheInv
(* The same for a request that sends nothing.                               *)
LEMMA RequestMoves ==
  ASSUME CacheInv, NEW t \in Tasks, NEW r \in Request,
         UNCHANGED <<dbVars, cacheVars, queue>>,
         task' = [task EXCEPT ![t] = r],
         task[t].pc # "publish", r.pc # "publish",
         task[t].pc \notin {"await", "done"} \/ r.pc = "done",
         RequestOK(r),
         GatesOf(t), GateIsHeld'
  PROVE  CacheInv'
<1>1. task'[t] = r /\ \A u \in Tasks \ {t} : task'[u] = task[u]
  BY AtWork
<1>2. QueueIsAwaited'
  BY <1>1, QueueKept
<1> QED BY <1>2, OneRequestMoves

LEMMA RequestEnds ==
  ASSUME CacheInv, NEW t \in Tasks,
         NEW reply \in {"error", "notFound", "ok", "cancelled", None, NoRow} \cup Contacts,
         UNCHANGED <<dbVars, cacheVars, queue>>,
         Finish(t, reply),
         task[t].pc # "publish"
  PROVE  CacheInv'
<1> DEFINE r == [IdleTask EXCEPT !.pc = "done", !.op = task[t].op, !.reply = reply]
<1>1. r \in Request /\ RequestOK(r)
  BY EndedIsFine
<1>2. task' = [task EXCEPT ![t] = r]
  BY DEF Finish
<1>3. r.pc = "done"
  BY DEF IdleTask
<1>4. GatesOf(t) /\ GateIsHeld'
  BY GateReleased
<1> HIDE DEF r
<1> QED BY <1>1, <1>2, <1>3, <1>4, RequestMoves

(* The request goes on without taking or giving back a gate.                *)
LEMMA RequestGoesOn ==
  ASSUME CacheInv, NEW t \in Tasks, NEW r \in Request,
         UNCHANGED <<dbVars, cacheVars, queue, gate>>,
         task' = [task EXCEPT ![t] = r],
         task[t].pc # "publish", r.pc # "publish", task[t].pc \notin {"await", "done"},
         RequestOK(r),
         HoldsGate(r) <=> HoldsGate(task[t]),
         HoldsGate(task[t]) => r.log = task[t].log
  PROVE  CacheInv'
<1>1. task \in [Tasks -> Request] /\ gate \in [LogIds -> Tasks \cup {NoTask}]
  BY DEF CacheInv, TypeOK
<1>2. task'[t] = r /\ \A u \in Tasks \ {t} : task'[u] = task[u]
  BY <1>1
<1>3. GateIsHeld'
  BY <1>2, GateKept
<1>4. GatesOf(t)
  BY <1>1 DEF GatesOf
<1> QED BY <1>1, <1>3, <1>4, RequestMoves

-----------------------------------------------------------------------------
(* Requests start.                                                          *)

LEMMA OwnerIsALog ==
  ASSUME NEW c \in ContactIds, Owner(c) # NoLog
  PROVE  Owner(c) \in LogIds
  BY DEF Owner

(* A new request waits for its gate, or goes to the database first; it must *)
(* be answered from a log no older than the one it found.                   *)
LEMMA StartsFine ==
  ASSUME CacheInv, NEW t \in Tasks, NEW r \in Request,
         UNCHANGED <<dbVars, cacheVars, queue, gate>>,
         task[t].pc = "idle",
         task' = [task EXCEPT ![t] = r],
         WellFormed(r), r.pc \in {"gate", "change"},
         r.since <= revision[r.log]
  PROVE  CacheInv'
<1>1. ~HoldsGate(r) /\ ~HoldsGate(task[t])
  BY DEF HoldsGate, Held, Loading
<1>2. r.log \in LogIds /\ r.since \in Nat
  BY DEF WellFormed, Ended, Request
<1>3. r.since <= lastRevision
  BY <1>2 DEF CacheInv, TypeOK, RevisionsHandedOut
<1>4. RequestOK(r)
  BY <1>3 DEF RequestOK, SnapshotsShow, MutationsShow, AppliesOnTop, IsFresh, AnswerIsFresh
<1> QED BY <1>1, <1>4, RequestGoesOn

LEMMA StartStep ==
  ASSUME CacheInv, NEW t \in Tasks, Start(t)
  PROVE  CacheInv'
<1>1. task[t] \in Request /\ revision \in [LogIds -> Nat] /\ known \in SUBSET ContactIds
  BY DEF CacheInv, TypeOK
<1>2. ASSUME NEW l \in LogIds, NEW w \in known \cup {NoId}, NEW v \in Contacts,
             StartUpsert(t, l, w, v)
      PROVE  CacheInv'
  <2> DEFINE r == [task[t] EXCEPT !.pc = "gate", !.op = "upsert", !.log = l, !.id = w,
                                  !.val = v, !.then = "commit", !.since = revision[l]]
  <2>1. w \in ContactIds \cup {NoId}
    BY <1>1
  <2>2. r \in Request
    BY <1>1, <2>1 DEF Request, Pcs, Mutations
  <2>3. r.pc = "gate" /\ r.log = l /\ r.since = revision[l]
    BY <1>1 DEF Request
  <2>4. WellFormed(r)
    BY <1>1, <2>3 DEF Request, WellFormed, Mutations, Changes, Loading, Ended
  <2>5. task' = [task EXCEPT ![t] = r] /\ task[t].pc = "idle"
    BY <1>2 DEF StartUpsert
  <2> HIDE DEF r
  <2>7. UNCHANGED <<dbVars, cacheVars, queue, gate>>
    BY <1>2 DEF StartUpsert
  <2>8. r.pc \in {"gate", "change"} /\ r.since <= revision[r.log]
    BY <1>1, <2>3
  <2> QED BY <2>2, <2>3, <2>4, <2>5, <2>7, <2>8, StartsFine
<1>3. ASSUME NEW c \in ContactIds, StartDelete(t, c)
      PROVE  CacheInv'
  <2> DEFINE l == Owner(c)
             r == [task[t] EXCEPT !.pc = "gate", !.op = "delete", !.id = c, !.log = l,
                                  !.then = "remove", !.since = revision[l]]
  <2>1. l \in LogIds
    BY <1>3, OwnerIsALog DEF StartDelete
  <2>2. task' = [task EXCEPT ![t] = r] /\ task[t].pc = "idle"
    BY <1>3 DEF StartDelete
  <2> HIDE DEF l
  <2>3. r \in Request
    BY <1>1, <2>1 DEF Request, Pcs, Mutations
  <2>4. r.pc = "gate" /\ r.log = l /\ r.since = revision[l]
    BY <1>1 DEF Request
  <2>5. task[t].val = NoRow
    BY <2>2 DEF CacheInv, RequestOK, WellFormed
  <2>6. WellFormed(r)
    BY <1>1, <2>1, <2>5 DEF Request, WellFormed, Mutations, Changes, Loading, Ended
  <2> HIDE DEF r
  <2>7. UNCHANGED <<dbVars, cacheVars, queue, gate>>
    BY <1>3 DEF StartDelete
  <2>8. r.pc \in {"gate", "change"} /\ r.since <= revision[r.log]
    BY <1>1, <2>1, <2>4
  <2> QED BY <2>1, <2>2, <2>3, <2>4, <2>6, <2>7, <2>8, StartsFine
<1>4. ASSUME NEW l \in LogIds, StartPage(t, l)
      PROVE  CacheInv'
  <2> DEFINE r == [task[t] EXCEPT !.pc = "gate", !.op = "page", !.log = l,
                                  !.then = "answer", !.since = revision[l]]
  <2>1. r \in Request
    BY <1>1 DEF Request, Pcs
  <2>2. r.pc = "gate" /\ r.log = l /\ r.since = revision[l]
    BY <1>1 DEF Request
  <2>3. WellFormed(r)
    BY <1>1, <2>2 DEF Request, WellFormed, Mutations, Changes, Loading, Ended
  <2>4. task' = [task EXCEPT ![t] = r] /\ task[t].pc = "idle"
    BY <1>4 DEF StartPage
  <2> HIDE DEF r
  <2>7. UNCHANGED <<dbVars, cacheVars, queue, gate>>
    BY <1>4 DEF StartPage
  <2>8. r.pc \in {"gate", "change"} /\ r.since <= revision[r.log]
    BY <1>1, <2>2
  <2> QED BY <2>1, <2>2, <2>3, <2>4, <2>7, <2>8, StartsFine
<1>5. ASSUME NEW l \in LogIds, NEW op \in Changes, NEW p \in Params \cup {NoRow},
             op = "updateLog" => p \in Params, StartLogChange(t, l, op, p)
      PROVE  CacheInv'
  <2> DEFINE r == [task[t] EXCEPT !.pc = "change", !.op = op, !.log = l, !.val = p,
                                  !.then = "clear"]
  <2>1. r \in Request
    BY <1>1 DEF Request, Pcs
  <2>2. r.pc = "change" /\ r.log = l /\ r.since = task[t].since
    BY <1>1 DEF Request
  <2>3. WellFormed(r)
    BY <1>1, <1>5, <2>2 DEF Request, WellFormed, Mutations, Changes, Loading, Ended
  <2>4. task' = [task EXCEPT ![t] = r] /\ task[t].pc = "idle"
    BY <1>5 DEF StartLogChange
  <2>5. task[t].since = 0
    BY <2>4 DEF CacheInv, RequestOK, WellFormed
  <2> HIDE DEF r
  <2>7. UNCHANGED <<dbVars, cacheVars, queue, gate>>
    BY <1>5 DEF StartLogChange
  <2>8. r.pc \in {"gate", "change"} /\ r.since <= revision[r.log]
    BY <1>1, <2>2, <2>5
  <2> QED BY <2>1, <2>2, <2>3, <2>4, <2>5, <2>7, <2>8, StartsFine
<1> QED
  BY <1>2, <1>3, <1>4, <1>5 DEF Start, Changes
-----------------------------------------------------------------------------
(* Steps of a request that leave the cache alone.                           *)

LEMMA AcquireGateStep ==
  ASSUME CacheInv, NEW t \in Tasks, AcquireGate(t)
  PROVE  CacheInv'
<1> DEFINE pc == IF task[t].then = "clear" THEN "clear" ELSE "ensure"
           r == [task[t] EXCEPT !.pc = pc]
           l == task[t].log
<1>1. task[t] \in Request /\ task[t].pc = "gate" /\ l \in LogIds /\ gate[l] = NoTask
  BY AtWork DEF AcquireGate, Ended
<1>2. r \in Request /\ r.pc \in {"clear", "ensure"} /\ r.log = l
  BY <1>1 DEF Request, Pcs, Held, Loading
<1>3. task' = [task EXCEPT ![t] = r]
  BY AtWork DEF AcquireGate, Goto
<1>4. RequestOK(r)
  <2>1. RequestOK(task[t])
    BY AtWork
  <2>2. WellFormed(r)
    BY <1>1, <1>2, <2>1 DEF Request, RequestOK, WellFormed, Ended, Loading
  <2> QED BY <1>1, <2>1, <2>2 DEF Request, RequestOK, SnapshotsShow, MutationsShow, AppliesOnTop,
        IsFresh, AnswerIsFresh, Ended
<1>5. gate' = [gate EXCEPT ![l] = t]
  BY DEF AcquireGate
<1>6. HoldsGate(r)
  BY <1>2 DEF HoldsGate, Held, Loading
<1>7. ~HoldsGate(task[t])
  BY <1>1 DEF HoldsGate, Held, Loading
<1> HIDE DEF r, pc
<1>8. GatesOf(t)
  BY <1>1, <1>5, AtWork DEF GatesOf
<1>9. GateIsHeld'
  <2> SUFFICES ASSUME NEW k \in LogIds, NEW u \in Tasks
               PROVE  gate'[k] = u <=> HoldsGate(task'[u]) /\ task'[u].log = k
    BY DEF GateIsHeld, HoldsGate
  <2>1. gate[k] = u <=> HoldsGate(task[u]) /\ task[u].log = k
    BY DEF CacheInv, GateIsHeld
  <2>2. task'[u] = IF u = t THEN r ELSE task[u]
    BY <1>3, AtWork
  <2>3. gate'[k] = IF k = l THEN t ELSE gate[k]
    BY <1>5, <1>1, AtWork
  <2>4. u = t => gate[k] # t
    BY <2>1, <1>7
  <2> QED BY <1>1, <1>2, <1>6, <2>1, <2>2, <2>3, <2>4, AbsentAssumption
<1>10. UNCHANGED <<dbVars, cacheVars, queue>>
  BY DEF AcquireGate
<1>11. task[t].pc # "publish" /\ task[t].pc \notin {"await", "done"}
  BY <1>1
<1> QED BY <1>2, <1>3, <1>4, <1>8, <1>9, <1>10, <1>11, RequestMoves

(* A cached log under the database's revision is as new as anything the     *)
(* database held when the request came in.                                  *)
LEMMA LoadedIsFresh ==
  ASSUME CacheInv, NEW t \in Tasks, task[t].pc \notin Ended, NEW s \in CachedLog,
         s.revision = DbRevision(task[t].log)
  PROVE  Exists(task[t].log) /\ s.revision >= task[t].since
  BY AtWork, CachedLogFields, AbsentAssumption DEF RequestOK, IsFresh, DbRevision

LEMMA EnsureLoadedStep ==
  ASSUME CacheInv, NEW t \in Tasks, EnsureLoaded(t)
  PROVE  CacheInv'
<1> DEFINE l == task[t].log
           pc == IF IsLoaded(l) THEN task[t].then ELSE "snapshot"
           r == [task[t] EXCEPT !.pc = pc]
<1>1. /\ task[t] \in Request /\ task[t].pc = "ensure" /\ l \in LogIds
      /\ RequestOK(task[t]) /\ cached[l] \in CachedLog \cup {None}
  BY AtWork DEF EnsureLoaded, Ended
<1>2. /\ task[t].then \in {"commit", "remove", "answer"}
      /\ WellFormed(task[t])
  BY <1>1 DEF RequestOK, WellFormed, Ended, Loading
<1>3. pc \in {"commit", "remove", "answer", "snapshot"}
  BY <1>2
<1>4. pc = "answer" => IsLoaded(l)
  OBVIOUS
<1>5. pc = "commit" => task[t].then = "commit"
  OBVIOUS
<1>6. /\ pc = "remove" => task[t].then = "remove"
      /\ pc = "answer" => task[t].then = "answer"
  OBVIOUS
<1>7. task' = [task EXCEPT ![t] = [task[t] EXCEPT !.pc = pc]]
  BY AtWork DEF EnsureLoaded, Goto
<1> HIDE DEF pc
<1>8. r \in Request /\ r.pc = pc
  BY <1>1, <1>3 DEF Request, Pcs, Held, Loading
<1>9. WellFormed(r)
  BY <1>1, <1>2, <1>3, <1>5, <1>6 DEF Request, WellFormed, Ended, Loading
<1>10. AnswerIsFresh(r)
  BY <1>1, <1>4, LoadedIsFresh DEF Request, AnswerIsFresh, IsLoaded, Ended
<1>11. RequestOK(r)
  BY <1>1, <1>3, <1>9, <1>10 DEF Request, RequestOK, SnapshotsShow, MutationsShow, AppliesOnTop,
    IsFresh, Ended
<1>12. HoldsGate(r) /\ HoldsGate(task[t]) /\ r.log = l
  BY <1>1, <1>3 DEF Request, HoldsGate, Held, Loading
<1>13. UNCHANGED <<dbVars, cacheVars, queue, gate>>
  BY DEF EnsureLoaded
<1>14. /\ r.pc # "publish"
       /\ task[t].pc # "publish" /\ task[t].pc \notin {"await", "done"}
  BY <1>1, <1>3, <1>8
<1> QED BY <1>7, <1>8, <1>11, <1>12, <1>13, <1>14, RequestGoesOn
LEMMA CheckRevisionsStep ==
  ASSUME CacheInv, NEW t \in Tasks, CheckRevisions(t)
  PROVE  CacheInv'
<1> DEFINE r == IF AppliesInPlace(t) THEN [task[t] EXCEPT !.pc = "apply"]
                ELSE [task[t] EXCEPT !.pc = "ensure", !.then = "answer"]
<1>1. /\ task[t] \in Request /\ task[t].pc = "check" /\ RequestOK(task[t])
  BY AtWork DEF CheckRevisions
<1>2. WellFormed(task[t])
  BY <1>1 DEF RequestOK
<1>3. r \in Request /\ r.pc \in {"apply", "ensure"}
  BY <1>1 DEF Request, Pcs, Held, Loading
<1>4. /\ r.log = task[t].log /\ r.op = task[t].op /\ r.id = task[t].id /\ r.val = task[t].val
      /\ r.prev = task[t].prev /\ r.rev = task[t].rev /\ r.since = task[t].since
      /\ IF r.pc = "apply" THEN AppliesInPlace(t) /\ r.then = task[t].then ELSE r.then = "answer"
  BY <1>1 DEF Request
<1>5. task' = [task EXCEPT ![t] = r]
  BY AtWork DEF CheckRevisions, Goto
<1> HIDE DEF r
<1>6. WellFormed(r)
  BY <1>1, <1>2, <1>3, <1>4 DEF WellFormed, Ended, Loading, Mutations, Changes, Request
<1>7. MutationsShow(r)
  BY <1>1, <1>3, <1>4 DEF RequestOK, MutationsShow, Forward
<1>8. AppliesOnTop(r)
  BY <1>4 DEF AppliesOnTop, AppliesInPlace
<1>9. RequestOK(r)
  BY <1>1, <1>3, <1>4, <1>6, <1>7, <1>8 DEF RequestOK, SnapshotsShow, IsFresh, AnswerIsFresh, Ended
<1>10. HoldsGate(r) /\ HoldsGate(task[t])
  BY <1>1, <1>3 DEF HoldsGate, Held, Loading
<1>11. UNCHANGED <<dbVars, cacheVars, queue, gate>>
  BY DEF CheckRevisions
<1>12. task[t].pc # "publish" /\ task[t].pc \notin {"await", "done"}
  BY <1>1
<1> QED BY <1>3, <1>4, <1>5, <1>9, <1>10, <1>11, <1>12, RequestGoesOn

LEMMA ReturnStep ==
  ASSUME CacheInv, NEW t \in Tasks, Return(t)
  PROVE  CacheInv'
<1>1. /\ UNCHANGED <<dbVars, cacheVars, queue>>
      /\ Finish(t, task[t].reply) /\ task[t].pc # "publish"
  BY DEF Return
<1>2. task[t].reply \in {"error", "notFound", "ok", "cancelled", None, NoRow} \cup Contacts
  BY AtWork DEF Request
<1> QED BY <1>1, <1>2, RequestEnds

LEMMA AnswerStep ==
  ASSUME CacheInv, NEW t \in Tasks, Answer(t)
  PROVE  CacheInv'
<1> DEFINE l == task[t].log
           reply == IF cached[l] = None THEN "error"
                    ELSE IF task[t].op = "upsert" THEN cached[l].contacts[task[t].id]
                    ELSE "ok"
<1>1. /\ UNCHANGED <<dbVars, cacheVars, queue>>
      /\ Finish(t, reply) /\ task[t].pc = "answer"
  BY DEF Answer
<1>2. l \in LogIds /\ task[t] \in Request /\ RequestOK(task[t]) /\ cached[l] \in CachedLog \cup {None}
  BY <1>1, AtWork DEF Ended
<1>3. cached[l] # None => cached[l].contacts \in Rows
  BY <1>2, CachedLogFields
<1>4. cached[l] # None /\ task[t].op = "upsert" =>
        cached[l].contacts[task[t].id] \in Contacts \cup {NoRow}
  <2>1. task[t].op = "upsert" => task[t].id \in ContactIds
    BY <1>1, <1>2 DEF RequestOK, WellFormed, Ended
  <2> QED BY <2>1, <1>3 DEF Rows
<1>5. reply \in {"error", "notFound", "ok", "cancelled", None, NoRow} \cup Contacts
  BY <1>4
<1> HIDE DEF reply
<1> QED BY <1>1, <1>5, RequestEnds

LEMMA CancelStep ==
  ASSUME CacheInv, NEW t \in Tasks, Cancel(t)
  PROVE  CacheInv'
<1>1. /\ UNCHANGED <<dbVars, cacheVars, queue>>
      /\ Finish(t, "cancelled") /\ task[t].pc # "publish"
  BY DEF Cancel
<1> QED BY <1>1, RequestEnds

-----------------------------------------------------------------------------
(* The holder of the gate of log l writes the cached log and what the       *)
(* processors computed.                                                     *)
Written(t, l, r, c, d) ==
  /\ task[t].pc \in Held /\ task[t].log = l
  /\ task' = [task EXCEPT ![t] = r]
  /\ cached' = [cached EXCEPT ![l] = c]
  /\ derived' = [derived EXCEPT ![l] = d]
  /\ UNCHANGED <<dbVars, queue>>

LEMMA CacheWritten ==
  ASSUME CacheInv, NEW t \in Tasks, NEW r \in Request, NEW l \in LogIds,
         NEW c \in CachedLog \cup {None}, NEW d, Written(t, l, r, c, d),
         c # None => Shows(l, c),
         \/ r.pc # "publish" /\ d = Computed(c)
         \/ r.pc = "publish" /\ d = Basis(r.snap) /\ gate'[l] = t /\ r.log = l,
         WellFormed(r), SnapshotsShow(r), IsFresh(r),
         r.pc \notin Ended => r.since <= lastRevision,
         r.pc \notin {"check", "apply"},
         r.pc = "answer" => r.log = l /\ c # None /\ c.revision >= r.since,
         GatesOf(t), GateIsHeld'
  PROVE  CacheInv'
<1>1. DbStep
  BY NoDbStep DEF dbVars, Written
<1>2. /\ \A u \in Tasks \ {t} : task'[u] = task[u]
      /\ task'[t] = r
      /\ task' \in [Tasks -> Request]
  BY DEF CacheInv, TypeOK, Written
<1>3. gate[l] = t
  BY DEF CacheInv, GateIsHeld, HoldsGate, Written
<1>4. /\ cached' \in [LogIds -> CachedLog \cup {None}]
      /\ cached'[l] = c
      /\ \A k \in LogIds \ {l} : cached'[k] = cached[k]
      /\ \A k \in LogIds : gate[k] # t => cached'[k] = cached[k]
  BY <1>3 DEF CacheInv, TypeOK, Written
<1>5. TypeOK' /\ RevisionsHandedOut'
  BY <1>2, <1>4 DEF CacheInv, TypeOK, RevisionsHandedOut, dbVars, Written, GatesOf
<1>6. d \in {Basis(s) : s \in CachedLog} \cup {None}
  BY DEF Computed, WellFormed, Ended
<1>7. /\ derived' \in [LogIds -> {Basis(s) : s \in CachedLog} \cup {None}]
      /\ derived'[l] = d
      /\ \A k \in LogIds \ {l} : derived'[k] = derived[k]
  BY <1>6 DEF CacheInv, Written
<1>8. QueueIsAwaited'
  BY <1>2, QueueKept DEF Written, Held, Loading
<1>9. \A u \in Tasks : RequestOK(task[u])'
  <2>1. ASSUME NEW u \in Tasks \ {t} PROVE RequestOK(task[u])'
    BY <1>1, <1>2, <1>4, OthersKept
  <2>2. WellFormed(task[t])' /\ MutationsShow(task[t])' /\ AppliesOnTop(task[t])'
    BY <1>2 DEF WellFormed, MutationsShow, AppliesOnTop
  <2>3. /\ SnapshotsShow(task[t])' /\ IsFresh(task[t])'
        /\ (task[t].pc \notin Ended => task[t].since <= lastRevision)'
    BY <1>2 DEF Written, dbVars, SnapshotsShow, IsFresh, Shows, DbRevision, Exists
  <2>4. AnswerIsFresh(task[t])'
    BY <1>2, <1>4 DEF AnswerIsFresh
  <2>5. RequestOK(task[t])'
    BY <2>2, <2>3, <2>4 DEF RequestOK
  <2> QED BY <2>1, <2>5
<1>10. \A k \in LogIds : (cached[k] # None => Shows(k, cached[k]))'
  <2> SUFFICES ASSUME NEW k \in LogIds PROVE (cached[k] # None => Shows(k, cached[k]))'
    OBVIOUS
  <2>1. CASE k = l
    BY <2>1, <1>1, <1>4, LogsShow
  <2>2. CASE k # l
    BY <2>2, <1>1, <1>4, LogsShow
  <2> QED BY <2>1, <2>2
<1>11. ProcessorsFollow'
  <2>1. ASSUME NEW k \in LogIds
        PROVE  \/ (\A u \in Tasks : ~Publishes(u, k)') /\ derived'[k] = Computed(cached[k])'
               \/ \E u \in Tasks : Publishes(u, k)' /\ derived'[k] = Basis(task[u].snap)'
    <3>1. CASE k = l /\ r.pc = "publish"
      <4>1. Publishes(t, k)' /\ derived'[k] = Basis(task[t].snap)'
        BY <3>1, <1>2, <1>7 DEF Publishes, Basis
      <4> QED BY <4>1
    <3>2. CASE k = l /\ r.pc # "publish"
      <4>1. \A u \in Tasks : ~Publishes(u, k)'
        BY <3>2, <1>2, <1>3, AbsentAssumption DEF Publishes, GatesOf
      <4>2. derived'[k] = Computed(cached[k])'
        BY <3>2, <1>4, <1>7 DEF Computed, Basis
      <4> QED BY <4>1, <4>2
    <3>3. CASE k # l
      <4>1. gate[k] # t
        BY <3>3 DEF CacheInv, GateIsHeld, Written
      <4>2. gate'[k] = t => task'[t].log = k
        BY DEF GateIsHeld, HoldsGate
      <4>3. gate'[k] = t => task'[t].pc # "publish"
        BY <3>3, <4>2, <1>2
      <4> QED BY <3>3, <4>1, <4>3, <1>2, <1>4, <1>7, ProcessorsKept
    <3> QED BY <3>1, <3>2, <3>3
  <2> QED BY <2>1 DEF ProcessorsFollow
<1> QED
  BY <1>5, <1>7, <1>8, <1>9, <1>10, <1>11 DEF CacheInv
(* The holder writes the cached log and is done.                            *)
LEMMA WrittenAtTheEnd ==
  ASSUME CacheInv, NEW t \in Tasks, task[t].pc \in Held,
         NEW c \in CachedLog \cup {None},
         NEW reply \in {"error", "notFound", "ok", "cancelled", None, NoRow} \cup Contacts,
         cached' = [cached EXCEPT ![task[t].log] = c],
         derived' = [derived EXCEPT ![task[t].log] = Computed(c)],
         UNCHANGED <<dbVars, queue>>,
         c # None => Shows(task[t].log, c),
         Finish(t, reply)
  PROVE  CacheInv'
<1> DEFINE r == [IdleTask EXCEPT !.pc = "done", !.op = task[t].op, !.reply = reply]
           d == Computed(c)
           l == task[t].log
<1>1. r \in Request /\ RequestOK(r) /\ r.pc = "done"
  BY EndedIsFine DEF IdleTask
<1>2. l \in LogIds
  BY AtWork DEF HoldsGate
<1>3. task' = [task EXCEPT ![t] = r]
  BY DEF Finish
<1>4. GatesOf(t) /\ GateIsHeld'
  BY GateReleased
<1> HIDE DEF r
<1>5. Written(t, l, r, c, d)
  BY <1>3 DEF Written
<1>6. /\ WellFormed(r) /\ SnapshotsShow(r) /\ IsFresh(r)
      /\ r.pc \notin Ended => r.since <= lastRevision
      /\ r.pc \notin {"check", "apply", "answer"}
  BY <1>1 DEF RequestOK
<1> HIDE DEF d, l
<1> QED BY <1>1, <1>2, <1>4, <1>5, <1>6, CacheWritten DEF d, l

LEMMA TakeSnapshotStep ==
  ASSUME CacheInv, NEW t \in Tasks, TakeSnapshot(t)
  PROVE  CacheInv'
<1> DEFINE l == task[t].log
<1>1. /\ task[t] \in Request /\ task[t].pc = "snapshot" /\ l \in LogIds
      /\ RequestOK(task[t]) /\ WellFormed(task[t])
  BY AtWork DEF TakeSnapshot, Ended, RequestOK
<1>2. CASE Exists(l)
  <2> DEFINE s == Snapshot(l)
             r == [task[t] EXCEPT !.snap = s, !.pc = "build"]
  <2>1. s \in CachedLog /\ Shows(l, s)
    BY <1>1 DEF CacheInv, TypeOK, RevisionsHandedOut, Snapshot, CachedLog, Rows, Shows
  <2>2. task' = [task EXCEPT ![t] = r] /\ UNCHANGED <<dbVars, cacheVars, queue, gate>>
    BY <1>2, AtWork DEF TakeSnapshot
  <2> HIDE DEF s
  <2>3. r \in Request
    BY <1>1, <2>1 DEF Request, Pcs, Held, Loading
  <2>4. /\ r.pc = "build" /\ r.snap = s /\ r.log = l /\ r.since = task[t].since
        /\ r.op = task[t].op /\ r.then = task[t].then /\ r.id = task[t].id /\ r.val = task[t].val
    BY <1>1 DEF Request
  <2> HIDE DEF r
  <2>5. WellFormed(r)
    BY <1>1, <2>1, <2>4 DEF WellFormed, Ended, Loading
  <2>6. RequestOK(r)
    BY <1>1, <2>1, <2>4, <2>5 DEF RequestOK, SnapshotsShow, MutationsShow, AppliesOnTop, IsFresh,
      AnswerIsFresh, Ended
  <2>7. HoldsGate(r) /\ HoldsGate(task[t])
    BY <1>1, <2>4 DEF HoldsGate, Held, Loading
  <2>8. task[t].pc # "publish" /\ task[t].pc \notin {"await", "done"}
    BY <1>1
  <2> QED BY <2>2, <2>3, <2>4, <2>6, <2>7, <2>8, RequestGoesOn
<1>3. CASE ~Exists(l)
  <2>1. /\ cached' = [cached EXCEPT ![task[t].log] = None]
        /\ derived' = [derived EXCEPT ![task[t].log] = Computed(None)]
        /\ UNCHANGED <<dbVars, queue>>
        /\ Finish(t, "error")
    BY <1>3 DEF TakeSnapshot, Computed
  <2>2. task[t].pc \in Held
    BY <1>1 DEF Held, Loading
  <2> QED BY <2>1, <2>2, WrittenAtTheEnd
<1> QED BY <1>2, <1>3

LEMMA ClearLogStep ==
  ASSUME CacheInv, NEW t \in Tasks, ClearLog(t)
  PROVE  CacheInv'
<1>1. /\ cached' = [cached EXCEPT ![task[t].log] = None]
      /\ derived' = [derived EXCEPT ![task[t].log] = Computed(None)]
      /\ UNCHANGED <<dbVars, queue>>
      /\ Finish(t, "ok")
  BY DEF ClearLog, Computed
<1>2. task[t].pc \in Held
  BY DEF ClearLog, Held
<1> QED BY <1>1, <1>2, WrittenAtTheEnd

LEMMA ApplyStep ==
  ASSUME CacheInv, NEW t \in Tasks, Apply(t)
  PROVE  CacheInv'
<1> DEFINE l == task[t].log
           new == Forward(cached[l], task[t])
           reply == IF task[t].op = "upsert" THEN new.contacts[task[t].id] ELSE "ok"
<1>1. /\ task[t] \in Request /\ task[t].pc = "apply" /\ l \in LogIds
      /\ RequestOK(task[t]) /\ WellFormed(task[t])
      /\ cached[l] \in CachedLog \cup {None}
  BY AtWork DEF Apply, Ended, RequestOK
<1>2. /\ cached[l] \in CachedLog
      /\ cached[l].revision = task[t].prev
  BY <1>1 DEF RequestOK, AppliesOnTop
<1>3. /\ task[t].id \in ContactIds
      /\ task[t].val \in Contacts \cup {NoRow}
  BY <1>1 DEF WellFormed, Ended, Mutations
<1>4. new \in CachedLog /\ new.contacts[task[t].id] = task[t].val
  <2>1. cached[l].contacts \in Rows /\ cached[l].params \in Params \cup {NoLog}
    BY <1>2, CachedLogFields
  <2> QED BY <1>1, <1>3, <2>1 DEF Forward, CachedLog, Rows, Request
<1>5. Shows(l, new) /\ new # None
  BY <1>1, <1>2, <1>4, CachedLogFields DEF RequestOK, MutationsShow
<1>6. reply \in {"error", "notFound", "ok", "cancelled", None, NoRow} \cup Contacts
  BY <1>3, <1>4
<1>7. /\ cached' = [cached EXCEPT ![task[t].log] = new]
      /\ derived' = [derived EXCEPT ![task[t].log] = Basis(new)]
      /\ UNCHANGED <<dbVars, queue>>
      /\ Finish(t, reply)
  BY DEF Apply, Forward, Stamped, ProcessorsApply
<1>8. Computed(new) = Basis(new)
  BY <1>5 DEF Computed
<1>9. task[t].pc \in Held
  BY <1>1 DEF Held
<1> HIDE DEF new, reply
<1> QED BY <1>4, <1>5, <1>6, <1>7, <1>8, <1>9, WrittenAtTheEnd
(* What a holder may do to its own record: the gate and everything the     *)
(* request was sent for stay.                                               *)
LEMMA HolderGoesOn ==
  ASSUME CacheInv, NEW t \in Tasks, task[t].pc \in Held,
         NEW r \in Request, r.pc \in Held, r.log = task[t].log, gate' = gate,
         task' = [task EXCEPT ![t] = r]
  PROVE  /\ GatesOf(t)
         /\ gate'[task[t].log] = t
         /\ GateIsHeld'
<1>1. HoldsGate(r) /\ HoldsGate(task[t])
  BY DEF HoldsGate
<1>2. task'[t] = r /\ \A u \in Tasks \ {t} : task'[u] = task[u]
  BY AtWork
<1>3. GateIsHeld'
  BY <1>1, <1>2, GateKept
<1>4. GatesOf(t)
  BY AtWork DEF GatesOf
<1> QED BY <1>1, <1>3, <1>4, AtWork

LEMMA RunProcessorsStep ==
  ASSUME CacheInv, NEW t \in Tasks, RunProcessors(t)
  PROVE  CacheInv'
<1> DEFINE l == task[t].log
           s == task[t].snap
           pc == IF DbRevision(l) = s.revision THEN "publish" ELSE "snapshot"
           r == [task[t] EXCEPT !.pc = pc]
           d == IF DbRevision(l) = s.revision THEN Basis(s) ELSE derived[l]
<1>1. /\ task[t] \in Request /\ task[t].pc = "build" /\ l \in LogIds
      /\ RequestOK(task[t]) /\ WellFormed(task[t])
      /\ cached[l] \in CachedLog \cup {None}
      /\ cached \in [LogIds -> CachedLog \cup {None}]
  BY AtWork DEF RunProcessors, Ended, RequestOK
<1>2. /\ task' = [task EXCEPT ![t] = r]
      /\ derived' = [derived EXCEPT ![l] = d]
      /\ UNCHANGED <<dbVars, cached, gate, queue>>
  BY <1>1, AtWork DEF RunProcessors, Goto, CacheInv
<1>3. cached' = [cached EXCEPT ![l] = cached[l]]
  BY <1>1, <1>2
<1>4. pc \in {"publish", "snapshot"}
  OBVIOUS
<1>5. pc = "publish" => d = Basis(s)
  OBVIOUS
<1>6. pc = "snapshot" => d = derived[l]
  OBVIOUS
<1> HIDE DEF pc, d
<1>7. /\ r \in Request /\ r.pc = pc /\ r.log = l /\ r.snap = s /\ r.since = task[t].since
      /\ r.op = task[t].op /\ r.then = task[t].then /\ r.id = task[t].id /\ r.val = task[t].val
  BY <1>1, <1>4 DEF Request, Pcs, Held, Loading
<1> HIDE DEF r
<1>8. WellFormed(r)
  BY <1>1, <1>4, <1>7 DEF WellFormed, Ended, Loading
<1>9. /\ SnapshotsShow(r) /\ IsFresh(r)
      /\ r.pc \notin Ended => r.since <= lastRevision
      /\ r.pc \notin {"check", "apply", "answer"}
  BY <1>1, <1>4, <1>7 DEF RequestOK, SnapshotsShow, IsFresh, Ended
<1>10. task[t].pc \in Held /\ r.pc \in Held
  BY <1>1, <1>4, <1>7 DEF Held, Loading
<1>11. GatesOf(t) /\ gate'[l] = t /\ GateIsHeld'
  BY <1>2, <1>7, <1>10, HolderGoesOn
<1>12. gate[l] = t
  BY <1>2, <1>11
<1>13. derived[l] = Computed(cached[l])
  BY <1>1, <1>12 DEF CacheInv, ProcessorsFollow, Publishes
<1>14. \/ r.pc # "publish" /\ d = Computed(cached[l])
       \/ r.pc = "publish" /\ d = Basis(r.snap) /\ gate'[l] = t /\ r.log = l
  BY <1>4, <1>5, <1>6, <1>7, <1>11, <1>13
<1>15. Written(t, l, r, cached[l], d)
  BY <1>2, <1>3, <1>10 DEF Written
<1>16. cached[l] # None => Shows(l, cached[l])
  BY <1>1 DEF CacheInv
<1> HIDE DEF l, s
<1> QED BY <1>1, <1>7, <1>8, <1>9, <1>11, <1>14, <1>15, <1>16, CacheWritten

LEMMA PublishLoadedStep ==
  ASSUME CacheInv, NEW t \in Tasks, PublishLoaded(t)
  PROVE  CacheInv'
<1> DEFINE l == task[t].log
           s == task[t].snap
           current == DbRevision(l) = s.revision
           c == IF current THEN s ELSE None
           pc == IF current THEN task[t].then ELSE "snapshot"
           r == [task[t] EXCEPT !.pc = pc, !.snap = None]
<1>1. /\ task[t] \in Request /\ task[t].pc = "publish" /\ l \in LogIds
      /\ RequestOK(task[t]) /\ WellFormed(task[t]) /\ task[t].pc \notin Ended
  BY AtWork DEF PublishLoaded, Ended, RequestOK
<1>2. /\ s \in CachedLog /\ Shows(l, s) /\ s # None
      /\ task[t].then \in {"commit", "remove", "answer"}
  BY <1>1, CachedLogFields DEF WellFormed, RequestOK, SnapshotsShow, Loading
<1>3. gate[l] = t
  BY <1>1 DEF CacheInv, GateIsHeld, HoldsGate, Held, Loading
<1>4. derived[l] = Basis(s)
  BY <1>1, <1>3 DEF CacheInv, ProcessorsFollow, Publishes
<1>5. c \in CachedLog \cup {None} /\ (c # None => Shows(l, c))
  BY <1>2
<1>6. /\ task' = [task EXCEPT ![t] = r]
      /\ cached' = [cached EXCEPT ![l] = c]
      /\ UNCHANGED <<dbVars, gate, queue>>
  BY <1>1, AtWork DEF PublishLoaded
<1>7. derived' = [derived EXCEPT ![l] = Computed(c)]
  <2>1. CASE current
    BY <2>1, <1>1, <1>2, <1>4 DEF PublishLoaded, Computed, CacheInv
  <2>2. CASE ~current
    BY <2>2, <1>1 DEF PublishLoaded, Computed
  <2> QED BY <2>1, <2>2
<1>8. /\ pc \in {"commit", "remove", "answer", "snapshot"}
      /\ pc = "commit" => task[t].then = "commit"
      /\ pc = "remove" => task[t].then = "remove"
      /\ pc = "answer" => task[t].then = "answer" /\ current
  BY <1>2
<1>9. pc = "answer" => c # None /\ c.revision >= task[t].since
  BY <1>1, <1>2, <1>8, LoadedIsFresh
<1> HIDE DEF c, pc
<1>10. /\ r \in Request /\ r.pc = pc /\ r.log = l /\ r.since = task[t].since
       /\ r.op = task[t].op /\ r.then = task[t].then /\ r.id = task[t].id /\ r.val = task[t].val
  <2>1. r \in Request
    <3>1. pc \in Pcs
      BY <1>8 DEF Pcs, Held, Loading
    <3> QED BY <1>1, <3>1 DEF Request
  <2>2. /\ r.pc = pc /\ r.log = l /\ r.since = task[t].since
        /\ r.op = task[t].op /\ r.then = task[t].then /\ r.id = task[t].id /\ r.val = task[t].val
    BY <1>1 DEF Request
  <2> QED BY <2>1, <2>2
<1> HIDE DEF r
<1>11. WellFormed(r)
  BY <1>1, <1>8, <1>10 DEF WellFormed, Ended, Loading
<1>12. /\ SnapshotsShow(r) /\ IsFresh(r)
       /\ r.pc \notin Ended => r.since <= lastRevision
       /\ r.pc \notin {"check", "apply", "publish"}
       /\ r.pc = "answer" => r.log = l /\ c # None /\ c.revision >= r.since
  BY <1>1, <1>8, <1>9, <1>10 DEF RequestOK, SnapshotsShow, IsFresh
<1>13. task[t].pc \in Held /\ r.pc \in Held
  BY <1>1, <1>8, <1>10 DEF Held, Loading
<1>14. GatesOf(t) /\ GateIsHeld'
  BY <1>6, <1>10, <1>13, HolderGoesOn
<1>15. Written(t, l, r, c, Computed(c))
  BY <1>6, <1>7, <1>13 DEF Written
<1> HIDE DEF l, s
<1> QED BY <1>1, <1>5, <1>10, <1>11, <1>12, <1>14, <1>15, CacheWritten
-----------------------------------------------------------------------------
(* Commands for the database worker.                                        *)

LEMMA CommandsInQueue ==
  ASSUME CacheInv
  PROVE  /\ queue \in Seq(QueuedCommand)
         /\ Len(queue) \in Nat
         /\ \A i \in 1..Len(queue) : queue[i] \in QueuedCommand /\ queue[i].task \in Tasks
<1>1. queue \in Seq(QueuedCommand)
  BY DEF CacheInv, QueueIsAwaited
<1>2. Len(queue) \in Nat /\ \A i \in 1..Len(queue) : queue[i] \in QueuedCommand
  BY <1>1, ElementOfSeq, LenProperties
<1> QED BY <1>1, <1>2 DEF QueuedCommand

(* A request sends its only command.                                        *)
LEMMA CommandIsQueued ==
  ASSUME CacheInv, NEW t \in Tasks, task[t].pc \in {"commit", "remove", "change"},
         queue' = Append(queue, Command(t)),
         task' = [task EXCEPT ![t].pc = "await"]
  PROVE  QueueIsAwaited'
<1> DEFINE cmd == Command(t)
           n == Len(queue)
<1>1. task[t] \in Request /\ WellFormed(task[t]) /\ task \in [Tasks -> Request]
  BY AtWork DEF RequestOK
<1>2. cmd \in QueuedCommand
  BY <1>1 DEF Command, QueuedCommand, WellFormed, Ended, Request, Changes, Mutations
<1>3. /\ cmd.task = t /\ cmd.op = task[t].op /\ cmd.log = task[t].log
      /\ cmd.id = task[t].id /\ cmd.val = task[t].val
  BY DEF Command
<1>4. /\ \A u \in Tasks \ {t} : task'[u] = task[u]
      /\ task'[t] = [task[t] EXCEPT !.pc = "await"]
  BY <1>1
<1>5. AwaitedBy(cmd, task'[t])
  BY <1>1, <1>3, <1>4 DEF AwaitedBy, Request
<1> HIDE DEF cmd
<1>6. /\ queue' \in Seq(QueuedCommand)
      /\ Len(queue') = n + 1
      /\ \A i \in 1..n : queue'[i] = queue[i]
      /\ queue'[n + 1] = cmd
  BY <1>2, CommandsInQueue, AppendProperties DEF cmd
<1>7. \A i \in 1..n : queue[i].task # t
  <2> SUFFICES ASSUME NEW i \in 1..n PROVE queue[i].task # t
    OBVIOUS
  <2>1. AwaitedBy(queue[i], task[queue[i].task])
    BY DEF CacheInv, QueueIsAwaited
  <2> QED BY <2>1 DEF AwaitedBy
<1>8. \A i, j \in 1..Len(queue') : queue'[i].task = queue'[j].task => i = j
  <2>1. \A i, j \in 1..n : queue[i].task = queue[j].task => i = j
    BY DEF CacheInv, QueueIsAwaited
  <2>2. \A i \in 1..Len(queue') : i \in 1..n \/ i = n + 1
    BY <1>6, CommandsInQueue
  <2> QED BY <1>3, <1>6, <1>7, <2>1, <2>2
<1>9. \A i \in 1..Len(queue') : AwaitedBy(queue'[i], task'[queue'[i].task])
  <2> SUFFICES ASSUME NEW i \in 1..Len(queue')
               PROVE  AwaitedBy(queue'[i], task'[queue'[i].task])
    OBVIOUS
  <2>1. CASE i \in 1..n
    <3>1. AwaitedBy(queue[i], task[queue[i].task])
      BY <2>1 DEF CacheInv, QueueIsAwaited
    <3> QED BY <2>1, <3>1, <1>4, <1>6, <1>7, CommandsInQueue
  <2>2. CASE i = n + 1
    BY <2>2, <1>3, <1>5, <1>6
  <2> QED BY <1>6, <2>1, <2>2, CommandsInQueue
<1> QED BY <1>6, <1>8, <1>9 DEF QueueIsAwaited, AwaitedBy

LEMMA SendCommandStep ==
  ASSUME CacheInv, NEW t \in Tasks, SendCommand(t)
  PROVE  CacheInv'
<1> DEFINE r == [task[t] EXCEPT !.pc = "await"]
<1>1. /\ task[t] \in Request /\ task[t].pc \in {"commit", "remove", "change"}
      /\ RequestOK(task[t]) /\ WellFormed(task[t])
  BY AtWork DEF SendCommand, RequestOK
<1>2. r \in Request
  BY <1>1 DEF Request, Pcs
<1>3. /\ r.pc = "await" /\ r.log = task[t].log /\ r.since = task[t].since
      /\ r.op = task[t].op /\ r.then = task[t].then /\ r.id = task[t].id /\ r.val = task[t].val
  BY <1>1 DEF Request
<1>4. task' = [task EXCEPT ![t] = r]
  BY AtWork DEF SendCommand, Goto
<1> HIDE DEF r
<1>5. WellFormed(r)
  BY <1>1, <1>3 DEF WellFormed, Ended, Loading, Changes
<1>6. RequestOK(r)
  BY <1>1, <1>3, <1>5 DEF RequestOK, SnapshotsShow, MutationsShow, AppliesOnTop, IsFresh,
    AnswerIsFresh, Ended
<1>7. HoldsGate(r) <=> HoldsGate(task[t])
  BY <1>1, <1>3 DEF HoldsGate, Held, Loading, WellFormed, Ended, Mutations, Changes
<1>8. QueueIsAwaited'
  BY <1>1, CommandIsQueued DEF SendCommand, Goto
<1>9. task'[t] = r /\ \A u \in Tasks \ {t} : task'[u] = task[u]
  BY <1>4, AtWork
<1>10. GateIsHeld'
  BY <1>3, <1>7, <1>9, GateKept DEF SendCommand
<1>11. GatesOf(t)
  BY AtWork DEF GatesOf, SendCommand
<1>12. UNCHANGED <<dbVars, cacheVars>>
  BY DEF SendCommand
<1>13. task[t].pc # "publish" /\ r.pc # "publish"
  BY <1>1, <1>3
<1> QED BY <1>2, <1>4, <1>6, <1>8, <1>10, <1>11, <1>12, <1>13, OneRequestMoves
-----------------------------------------------------------------------------
(* The database worker.                                                     *)

LEMMA MutateIsDbStep ==
  ASSUME CacheInv, NEW l \in LogIds, Mutate(l), known' \in SUBSET ContactIds
  PROVE  /\ DbStep
         /\ Exists(l) /\ metadata' = metadata
         /\ lastRevision' = lastRevision + 1 /\ revision'[l] = lastRevision + 1
<1>1. /\ content' = [content EXCEPT ![l] = content'[l]]
      /\ content'[l] \in Rows
      /\ metadata' = metadata /\ Exists(l)
      /\ lastRevision' = lastRevision + 1
      /\ revision' = [revision EXCEPT ![l] = lastRevision + 1]
  BY DEF Mutate, Stamp, Rows
<1>2. /\ content \in [LogIds -> Rows] /\ metadata \in [LogIds -> Params \cup {NoLog}]
      /\ revision \in [LogIds -> Nat] /\ lastRevision \in Nat
      /\ \A m \in LogIds : revision[m] <= lastRevision
  BY DEF CacheInv, TypeOK, RevisionsHandedOut
<1> DEFINE rows == content'[l]
<1>3. content' = [content EXCEPT ![l] = rows] /\ rows \in Rows
  BY <1>1
<1> HIDE DEF rows
<1>4. content' \in [LogIds -> Rows] /\ \A m \in LogIds \ {l} : content'[m] = content[m]
  BY <1>2, <1>3
<1>5. revision'[l] = lastRevision + 1 /\ \A m \in LogIds \ {l} : revision'[m] = revision[m]
  BY <1>1, <1>2
<1>6. DbStep
  BY <1>1, <1>2, <1>4, <1>5 DEF DbStep
<1> QED BY <1>1, <1>5, <1>6

(* A log is created, or its parameters are changed.                         *)
LEMMA StampIsDbStep ==
  ASSUME CacheInv, NEW l \in LogIds, NEW p \in Params, Stamp(l),
         metadata' = [metadata EXCEPT ![l] = p], UNCHANGED <<content, known>>
  PROVE  DbStep
  BY DEF CacheInv, TypeOK, RevisionsHandedOut, Stamp, DbStep

LEMMA DeleteIsDbStep ==
  ASSUME CacheInv, NEW l \in LogIds, Delete(l), UNCHANGED known
  PROVE  DbStep
<1>1. Empty \in Rows
  BY DEF Empty, Rows
<1> QED BY <1>1 DEF CacheInv, TypeOK, RevisionsHandedOut, Delete, DbStep

-----------------------------------------------------------------------------
(* The worker takes the first command; its request moves if it still waits. *)
LEMMA QueueTaken ==
  ASSUME CacheInv, queue # <<>>, queue' = Tail(queue),
         \A u \in Tasks \ {Head(queue).task} : task'[u] = task[u]
  PROVE  QueueIsAwaited'
<1> DEFINE n == Len(queue)
<1>1. /\ queue' \in Seq(QueuedCommand) /\ Head(queue) = queue[1]
      /\ n \in Nat /\ n >= 1 /\ Len(queue') = n - 1
      /\ \A i \in 1..n - 1 : queue'[i] = queue[i + 1]
  BY CommandsInQueue, HeadTailProperties, EmptySeq, LenProperties
<1>2. \A i, j \in 1..n : queue[i].task = queue[j].task => i = j
  BY DEF CacheInv, QueueIsAwaited
<1>3. \A i \in 1..n - 1 : i + 1 \in 1..n /\ i + 1 # 1 /\ 1 \in 1..n
  BY <1>1
<1>4. \A i, j \in 1..Len(queue') : queue'[i].task = queue'[j].task => i = j
  BY <1>1, <1>2, <1>3
<1>5. ASSUME NEW i \in 1..Len(queue')
      PROVE  AwaitedBy(queue'[i], task'[queue'[i].task])
  <2>1. queue[i + 1].task \in Tasks /\ queue[i + 1].task # Head(queue).task
    BY <1>1, <1>2, <1>3, CommandsInQueue
  <2>2. AwaitedBy(queue[i + 1], task[queue[i + 1].task])
    BY <1>1, <1>3 DEF CacheInv, QueueIsAwaited
  <2> QED BY <1>1, <2>1, <2>2
<1> QED BY <1>1, <1>4, <1>5 DEF QueueIsAwaited, AwaitedBy

LEMMA FirstCommand ==
  ASSUME CacheInv, queue # <<>>
  PROVE  /\ Head(queue) \in QueuedCommand
         /\ Head(queue).task \in Tasks
         /\ AwaitedBy(Head(queue), task[Head(queue).task])
<1>1. Head(queue) = queue[1] /\ 1 \in 1..Len(queue)
  BY CommandsInQueue, HeadTailProperties, EmptySeq, LenProperties
<1> QED BY <1>1, CommandsInQueue DEF CacheInv, QueueIsAwaited

LEMMA Unmoved ==
  ASSUME CacheInv, DbStep, UNCHANGED cached, NEW u \in Tasks, task'[u] = task[u]
  PROVE  RequestOK(task[u])'
<1>1. PICK r \in Request : r = task[u]
  BY AtWork
<1>2. RequestOK(r)'
  BY <1>1, AtWork, RequestKept
<1> QED BY <1>1, <1>2, RecordOf

(* Nobody's gate or cached log changes while the database moves.            *)
LEMMA DatabaseMoves ==
  ASSUME CacheInv, DbStep, UNCHANGED <<cacheVars, gate>>,
         task' \in [Tasks -> Request],
         \A u \in Tasks : task[u].pc = "publish" \/ task'[u].pc = "publish" => task'[u] = task[u],
         GateIsHeld', QueueIsAwaited',
         \A u \in Tasks : RequestOK(task[u])'
  PROVE  CacheInv'
<1>1. TypeOK' /\ RevisionsHandedOut'
  BY DEF CacheInv, TypeOK, RevisionsHandedOut, DbStep, cacheVars
<1>2. derived' \in [LogIds -> {Basis(s) : s \in CachedLog} \cup {None}]
  BY DEF CacheInv, cacheVars
<1>3. \A l \in LogIds : (cached[l] # None => Shows(l, cached[l]))'
  BY LogsShow DEF cacheVars
<1>4. \A u \in Tasks, l \in LogIds : Publishes(u, l)' <=> Publishes(u, l)
  BY DEF Publishes
<1>5. \A u \in Tasks, l \in LogIds : Publishes(u, l) => task'[u] = task[u]
  BY DEF Publishes
<1>6. ProcessorsFollow'
  <2>1. ASSUME NEW l \in LogIds
        PROVE  \/ (\A u \in Tasks : ~Publishes(u, l)') /\ derived'[l] = Computed(cached[l])'
               \/ \E u \in Tasks : Publishes(u, l)' /\ derived'[l] = Basis(task[u].snap)'
    BY <1>4, <1>5 DEF CacheInv, ProcessorsFollow, cacheVars, Computed, Basis
  <2> QED BY <2>1 DEF ProcessorsFollow
<1> QED
  BY <1>1, <1>2, <1>3, <1>6 DEF CacheInv

LEMMA CreateLogStep ==
  ASSUME CacheInv, NEW l \in LogIds, NEW p \in Params, CreateLog(l, p)
  PROVE  CacheInv'
<1>1. DbStep
  BY StampIsDbStep DEF CreateLog, Create
<1>2. UNCHANGED <<cacheVars, gate, task, queue>>
  BY DEF CreateLog
<1>3. GateIsHeld' /\ QueueIsAwaited'
  BY <1>2 DEF CacheInv, GateIsHeld, QueueIsAwaited
<1>4. \A u \in Tasks : RequestOK(task[u])'
  BY <1>1, <1>2, Unmoved DEF cacheVars
<1>5. task' \in [Tasks -> Request]
  BY <1>2 DEF CacheInv, TypeOK
<1> QED BY <1>1, <1>2, <1>3, <1>4, <1>5, DatabaseMoves

(* A record that the answer may leave the waiting request t in.             *)
Fits(t, r) ==
  /\ r \in Request /\ r.log = task[t].log
  /\ r.pc # "publish"
  /\ HoldsGate(r) <=> HoldsGate(task[t])
  /\ task'[t] = r => RequestOK(task[t])'

(* The worker's answer moves the request that waits for it to "check",      *)
(* "return" or (a log change) back to "gate"; a dropped one stays gone.     *)
LEMMA AnswerArrives ==
  ASSUME CacheInv, DbStep, queue # <<>>, queue' = Tail(queue), UNCHANGED <<cacheVars, gate>>,
         NEW t \in Tasks, t = Head(queue).task, NEW r, Deliver(t, r),
         task[t].pc = "await" => Fits(t, r)
  PROVE  CacheInv'
<1>1. task \in [Tasks -> Request]
  BY DEF CacheInv, TypeOK
<1>2. \A u \in Tasks \ {t} : task'[u] = task[u]
  BY <1>1 DEF Deliver
<1>3. QueueIsAwaited'
  BY <1>2, QueueTaken
<1>4. task[t].pc = "await" \/ task[t].pc = "done"
  BY FirstCommand DEF AwaitedBy
<1>5. \A u \in Tasks \ {t} : RequestOK(task[u])'
  BY <1>2, Unmoved DEF cacheVars
<1>6. CASE task[t].pc = "await"
  <2>1. task'[t] = r /\ task' \in [Tasks -> Request] /\ r.pc # "publish"
    BY <1>1, <1>6 DEF Deliver, Fits
  <2>2. GateIsHeld'
    BY <1>2, <1>6, <2>1, GateKept DEF Fits
  <2>3. RequestOK(task[t])'
    BY <1>6, <2>1 DEF Fits
  <2>4. \A u \in Tasks : RequestOK(task[u])'
    BY <1>5, <2>3
  <2>5. \A u \in Tasks : task[u].pc = "publish" \/ task'[u].pc = "publish" => task'[u] = task[u]
    BY <1>2, <1>6, <2>1
  <2> QED BY <1>3, <2>1, <2>2, <2>4, <2>5, DatabaseMoves
<1>7. CASE task[t].pc # "await"
  <2>1. task' = task
    BY <1>7 DEF Deliver
  <2>2. GateIsHeld'
    BY <2>1 DEF CacheInv, GateIsHeld
  <2>3. \A u \in Tasks : RequestOK(task[u])'
    BY <2>1, Unmoved DEF cacheVars
  <2> QED BY <1>1, <1>3, <2>1, <2>2, <2>3, DatabaseMoves
<1> QED BY <1>6, <1>7

(* A request the worker answers without a revision returns its answer.      *)
LEMMA ReturnedIsFine ==
  ASSUME CacheInv, DbStep, UNCHANGED cached, NEW t \in Tasks, task[t].pc = "await",
         NEW reply \in {"error", "notFound", "ok"}
  PROVE  Fits(t, Returned(t, reply))
<1> DEFINE r == Returned(t, reply)
<1>1. task[t] \in Request /\ RequestOK(task[t]) /\ WellFormed(task[t])
  BY AtWork DEF RequestOK
<1>2. r \in Request
  BY <1>1 DEF Returned, Request, Pcs
<1>3. /\ r.pc = "return" /\ r.log = task[t].log /\ r.since = task[t].since
      /\ r.op = task[t].op /\ r.then = task[t].then /\ r.id = task[t].id /\ r.val = task[t].val
  BY <1>1 DEF Request, Returned
<1>4. HoldsGate(r) <=> HoldsGate(task[t])
  BY <1>3 DEF HoldsGate, Held, Loading
<1> HIDE DEF r
<1>5. ASSUME task'[t] = r PROVE RequestOK(task[t])'
  <2>1. WellFormed(r)
    BY <1>1, <1>3 DEF WellFormed, Ended, Loading
  <2>2. RequestOK(r)
    BY <1>1, <1>3, <2>1 DEF RequestOK, SnapshotsShow, MutationsShow, AppliesOnTop, IsFresh,
      AnswerIsFresh, Ended
  <2>3. PICK q \in Request : q = r
    BY <1>2
  <2>4. RequestOK(q)'
    BY <2>2, <2>3, RequestKept, <1>3
  <2> QED BY <1>5, <2>3, <2>4, RecordOf
<1> QED BY <1>2, <1>3, <1>4, <1>5 DEF r, Fits
(* A request whose mutation the worker committed goes on to compare         *)
(* revisions: a cached log of the revision before shows the database once   *)
(* the change is applied to it.                                             *)
LEMMA MutatedIsFine ==
  ASSUME CacheInv, UNCHANGED cached, NEW t \in Tasks, task[t].pc = "await",
         NEW l \in LogIds, l = task[t].log, NEW c \in ContactIds,
         task[t].op \in Mutations,
         Mutate(l), known' \in SUBSET ContactIds,
         content' = [content EXCEPT ![l][c] = task[t].val]
  PROVE  Fits(t, Mutated(t, l, c))
<1> DEFINE r == Mutated(t, l, c)
<1>1. task[t] \in Request /\ RequestOK(task[t]) /\ WellFormed(task[t])
  BY AtWork DEF RequestOK
<1>2. /\ lastRevision \in Nat /\ revision[l] \in Nat /\ revision[l] <= lastRevision
      /\ metadata \in [LogIds -> Params \cup {NoLog}]
      /\ content \in [LogIds -> Rows]
      /\ cached[l] \in CachedLog \cup {None}
  BY DEF CacheInv, TypeOK, RevisionsHandedOut
<1>3. r \in Request
  <2>1. "check" \in Pcs /\ lastRevision + 1 \in Nat
    BY <1>2 DEF Pcs, Held
  <2> QED BY <1>1, <1>2, <2>1 DEF Mutated, Request
<1>4. /\ r.pc = "check" /\ r.log = l /\ r.since = task[t].since
      /\ r.op = task[t].op /\ r.then = task[t].then /\ r.id = c /\ r.val = task[t].val
      /\ r.prev = revision[l] /\ r.rev = lastRevision + 1
  BY <1>1 DEF Request, Mutated
<1>5. HoldsGate(r) /\ HoldsGate(task[t])
  BY <1>4 DEF HoldsGate, Held, Loading
<1>6. /\ DbStep
      /\ Exists(l) /\ metadata' = metadata
      /\ lastRevision' = lastRevision + 1 /\ revision'[l] = lastRevision + 1
  BY MutateIsDbStep
<1> HIDE DEF r
<1>7. ASSUME task'[t] = r PROVE RequestOK(task[t])'
  <2>1. PICK q \in Request : q = r
    BY <1>3
  <2>2. WellFormed(q)'
    BY <1>1, <1>4, <2>1 DEF WellFormed, Ended, Loading, Mutations, Changes
  <2>3. MutationsShow(q)'
    <3>1. CASE cached[l] # None /\ cached[l].revision = revision[l]
      <4>1. Shows(l, cached[l])
        BY <3>1 DEF CacheInv
      <4>2. cached[l].params = metadata[l] /\ cached[l].contacts = content[l]
        BY <3>1, <4>1, <1>6 DEF Shows, DbRevision
      <4>3. content'[l] = [content[l] EXCEPT ![c] = task[t].val]
        BY <1>2
      <4>4. Forward(cached[l], q)' =
              [revision |-> lastRevision + 1, params |-> metadata'[l], contacts |-> content'[l]]
        BY <4>2, <4>3, <1>4, <1>6, <2>1 DEF Forward
      <4>5. Shows(l, Forward(cached[l], q))'
        BY <4>4, <1>6, <1>2 DEF Shows
      <4> QED BY <4>5, <1>4, <2>1 DEF MutationsShow
    <3>2. CASE ~(cached[l] # None /\ cached[l].revision = revision[l])
      BY <3>2, <1>4, <2>1 DEF MutationsShow
    <3> QED BY <3>1, <3>2
  <2>4. SnapshotsShow(q)' /\ AppliesOnTop(q)' /\ AnswerIsFresh(q)'
    BY <1>4, <2>1 DEF SnapshotsShow, AppliesOnTop, AnswerIsFresh
  <2>5. task[t].since <= lastRevision /\ task[t].since \in Nat
    BY <1>1 DEF RequestOK, Ended, Request
  <2>6. IsFresh(q)' /\ (q.pc \notin Ended => q.since <= lastRevision')
    BY <1>2, <1>4, <1>6, <2>1, <2>5 DEF IsFresh
  <2>7. RequestOK(q)'
    BY <2>2, <2>3, <2>4, <2>6 DEF RequestOK
  <2> QED BY <1>7, <2>1, <2>7, RecordOf
<1> QED BY <1>3, <1>4, <1>5, <1>7 DEF r, Fits

(* The log was changed: the request goes back for the gate, to clear it.    *)
LEMMA ChangedIsFine ==
  ASSUME CacheInv, DbStep, UNCHANGED cached, NEW t \in Tasks, task[t].pc = "await",
         task[t].op \in Changes
  PROVE  Fits(t, [task[t] EXCEPT !.pc = "gate"])
<1> DEFINE r == [task[t] EXCEPT !.pc = "gate"]
<1>1. task[t] \in Request /\ RequestOK(task[t]) /\ WellFormed(task[t])
  BY AtWork DEF RequestOK
<1>2. r \in Request
  BY <1>1 DEF Request, Pcs
<1>3. /\ r.pc = "gate" /\ r.log = task[t].log /\ r.since = task[t].since
      /\ r.op = task[t].op /\ r.then = task[t].then /\ r.id = task[t].id /\ r.val = task[t].val
  BY <1>1 DEF Request
<1>4. ~HoldsGate(r) /\ ~HoldsGate(task[t])
  BY <1>3 DEF HoldsGate, Held, Loading, Changes, Mutations
<1> HIDE DEF r
<1>5. ASSUME task'[t] = r PROVE RequestOK(task[t])'
  <2>1. WellFormed(r)
    BY <1>1, <1>3 DEF WellFormed, Ended, Loading
  <2>2. RequestOK(r)
    BY <1>1, <1>3, <2>1 DEF RequestOK, SnapshotsShow, MutationsShow, AppliesOnTop, IsFresh,
      AnswerIsFresh, Ended
  <2>3. PICK q \in Request : q = r
    BY <1>2
  <2>4. RequestOK(q)'
    BY <2>2, <2>3, RequestKept, <1>4
  <2> QED BY <1>5, <2>3, <2>4, RecordOf
<1> QED BY <1>2, <1>3, <1>4, <1>5 DEF r, Fits
LEMMA ExecuteUpsertStep ==
  ASSUME CacheInv, queue # <<>>, queue' = Tail(queue), UNCHANGED <<cacheVars, gate>>,
         NEW cmd, cmd = Head(queue), cmd.op = "upsert", ExecuteUpsert(cmd)
  PROVE  CacheInv'
<1>1. PICK t \in Tasks : t = cmd.task
  BY FirstCommand
<1>2. cmd \in QueuedCommand /\ AwaitedBy(cmd, task[t]) /\ t = Head(queue).task
  BY <1>1, FirstCommand
<1>3. cmd.log \in LogIds /\ cmd.val \in Contacts /\ cmd.id \in ContactIds \cup {NoId}
  BY <1>2 DEF QueuedCommand
<1>4. UNCHANGED cached
  BY DEF cacheVars
<1>5. ASSUME NEW c \in ContactIds, DbUpsert(cmd.log, cmd.id, cmd.val, c),
             Deliver(t, Mutated(t, cmd.log, c))
      PROVE  CacheInv'
  <2>1. /\ Mutate(cmd.log) /\ known' \in SUBSET ContactIds
        /\ content' = [content EXCEPT ![cmd.log][c] = cmd.val]
    BY <1>5 DEF DbUpsert, CacheInv, TypeOK
  <2>2. DbStep
    BY <1>3, <2>1, MutateIsDbStep
  <2>3. task[t].pc = "await" => Fits(t, Mutated(t, cmd.log, c))
    <3>1. task[t].pc = "await" =>
            task[t].op \in Mutations /\ cmd.log = task[t].log /\ cmd.val = task[t].val
      BY <1>2 DEF AwaitedBy, Mutations
    <3> QED BY <1>3, <1>4, <2>1, <3>1, MutatedIsFine
  <2> QED BY <1>2, <1>5, <2>2, <2>3, AnswerArrives
<1>6. ASSUME Deliver(t, Returned(t, "error")), UNCHANGED dbVars
      PROVE  CacheInv'
  <2>1. DbStep
    BY <1>6, NoDbStep
  <2>2. task[t].pc = "await" => Fits(t, Returned(t, "error"))
    BY <1>4, <2>1, ReturnedIsFine
  <2> QED BY <1>2, <1>6, <2>1, <2>2, AnswerArrives
<1> QED
  BY <1>1, <1>5, <1>6 DEF ExecuteUpsert
LEMMA ExecuteDeleteStep ==
  ASSUME CacheInv, queue # <<>>, queue' = Tail(queue), UNCHANGED <<cacheVars, gate>>,
         NEW cmd, cmd = Head(queue), cmd.op = "delete", ExecuteDelete(cmd)
  PROVE  CacheInv'
<1>1. PICK t \in Tasks : t = cmd.task
  BY FirstCommand
<1>2. cmd \in QueuedCommand /\ AwaitedBy(cmd, task[t]) /\ t = Head(queue).task
  BY <1>1, FirstCommand
<1>3. cmd.log \in LogIds /\ cmd.id \in ContactIds
  BY <1>2 DEF QueuedCommand
<1>4. UNCHANGED cached
  BY DEF cacheVars
<1>5. ASSUME Deliver(t, Returned(t, "notFound")), UNCHANGED dbVars
      PROVE  CacheInv'
  <2>1. DbStep
    BY <1>5, NoDbStep
  <2>2. task[t].pc = "await" => Fits(t, Returned(t, "notFound"))
    BY <1>4, <2>1, ReturnedIsFine
  <2> QED BY <1>2, <1>5, <2>1, <2>2, AnswerArrives
<1>6. ASSUME DbDelete(cmd.id),
             Deliver(t, IF Owner(cmd.id) = cmd.log THEN Mutated(t, cmd.log, cmd.id)
                        ELSE Returned(t, "ok"))
      PROVE  CacheInv'
  <2>1. PICK l \in LogIds : l = Owner(cmd.id)
    BY <1>3, <1>6, OwnerIsALog DEF DbDelete
  <2>2. /\ Mutate(l) /\ known' \in SUBSET ContactIds
        /\ content' = [content EXCEPT ![l][cmd.id] = NoRow]
    BY <1>6, <2>1 DEF DbDelete, CacheInv, TypeOK
  <2>3. DbStep
    BY <2>2, MutateIsDbStep
  <2>4. CASE l = cmd.log
    <3>1. task[t].pc = "await" =>
            task[t].op \in Mutations /\ l = task[t].log /\ task[t].val = NoRow
      <4>1. WellFormed(task[t])
        BY AtWork DEF RequestOK
      <4> QED BY <1>2, <2>4, <4>1 DEF AwaitedBy, Mutations, WellFormed, Ended
    <3>2. task[t].pc = "await" => Fits(t, Mutated(t, l, cmd.id))
      BY <1>3, <1>4, <2>2, <3>1, MutatedIsFine
    <3>3. Deliver(t, Mutated(t, l, cmd.id))
      BY <1>6, <2>1, <2>4
    <3> QED BY <1>2, <2>3, <3>2, <3>3, AnswerArrives
  <2>5. CASE l # cmd.log
    <3>1. task[t].pc = "await" => Fits(t, Returned(t, "ok"))
      BY <1>4, <2>3, ReturnedIsFine
    <3>2. Deliver(t, Returned(t, "ok"))
      BY <1>6, <2>1, <2>5
    <3> QED BY <1>2, <2>3, <3>1, <3>2, AnswerArrives
  <2> QED BY <2>4, <2>5
<1> QED
  BY <1>1, <1>5, <1>6 DEF ExecuteDelete

LEMMA ExecuteLogChangeStep ==
  ASSUME CacheInv, queue # <<>>, queue' = Tail(queue), UNCHANGED <<cacheVars, gate>>,
         NEW cmd, cmd = Head(queue), cmd.op \in Changes, ExecuteLogChange(cmd)
  PROVE  CacheInv'
<1>1. PICK t \in Tasks : t = cmd.task
  BY FirstCommand
<1>2. cmd \in QueuedCommand /\ AwaitedBy(cmd, task[t]) /\ t = Head(queue).task
  BY <1>1, FirstCommand
<1>3. cmd.log \in LogIds /\ (cmd.op = "updateLog" => cmd.val \in Params)
  BY <1>2 DEF QueuedCommand
<1>4. UNCHANGED cached
  BY DEF cacheVars
<1>5. ASSUME Deliver(t, Returned(t, "notFound")), UNCHANGED dbVars
      PROVE  CacheInv'
  <2>1. DbStep
    BY <1>5, NoDbStep
  <2>2. task[t].pc = "await" => Fits(t, Returned(t, "notFound"))
    BY <1>4, <2>1, ReturnedIsFine
  <2> QED BY <1>2, <1>5, <2>1, <2>2, AnswerArrives
<1>6. ASSUME IF cmd.op = "updateLog" THEN DbUpdateLog(cmd.log, cmd.val) ELSE DbDeleteLog(cmd.log),
             Deliver(t, [task[t] EXCEPT !.pc = "gate"])
      PROVE  CacheInv'
  <2>1. DbStep
    <3>1. CASE cmd.op = "updateLog"
      BY <1>3, <1>6, <3>1, StampIsDbStep DEF DbUpdateLog, Update
    <3>2. CASE cmd.op # "updateLog"
      BY <1>3, <1>6, <3>2, DeleteIsDbStep DEF DbDeleteLog
    <3> QED BY <3>1, <3>2
  <2>2. task[t].pc = "await" => Fits(t, [task[t] EXCEPT !.pc = "gate"])
    <3>1. task[t].pc = "await" => task[t].op \in Changes
      BY <1>2 DEF AwaitedBy
    <3> QED BY <1>4, <2>1, <3>1, ChangedIsFine
  <2> QED BY <1>2, <1>6, <2>1, <2>2, AnswerArrives
<1> QED
  BY <1>1, <1>5, <1>6 DEF ExecuteLogChange

LEMMA WorkerStepStep ==
  ASSUME CacheInv, WorkerStep
  PROVE  CacheInv'
<1>1. PICK cmd : cmd = Head(queue)
  OBVIOUS
<1>2. queue # <<>> /\ queue' = Tail(queue) /\ UNCHANGED <<cacheVars, gate>>
  BY DEF WorkerStep
<1>3. \/ cmd.op = "upsert" /\ ExecuteUpsert(cmd)
      \/ cmd.op = "delete" /\ ExecuteDelete(cmd)
      \/ cmd.op \in Changes /\ ExecuteLogChange(cmd)
  BY <1>1 DEF WorkerStep, Changes
<1> QED BY <1>1, <1>2, <1>3, ExecuteUpsertStep, ExecuteDeleteStep, ExecuteLogChangeStep

-----------------------------------------------------------------------------
(* The invariant.                                                           *)

LEMMA CacheInvInit == CacheInit => CacheInv
<1> SUFFICES ASSUME CacheInit PROVE CacheInv
  OBVIOUS
<1>1. PICK setup \in Setups :
        /\ metadata = setup.params
        /\ content = setup.content
        /\ revision = [l \in LogIds |-> IF setup.params[l] = NoLog THEN 0
                         ELSE Cardinality({m \in LogIds : m <= l /\ setup.params[m] # NoLog})]
        /\ lastRevision = Cardinality({l \in LogIds : setup.params[l] # NoLog})
        /\ cached = [l \in LogIds |-> None]
        /\ derived = [l \in LogIds |-> None]
        /\ gate = [l \in LogIds |-> NoTask]
        /\ task = [t \in Tasks |-> IF t \in setup.tasks THEN IdleTask
                                   ELSE [IdleTask EXCEPT !.pc = "done"]]
        /\ known = {c \in ContactIds : \E l \in LogIds : setup.content[l][c] # NoRow}
        /\ queue = <<>>
  BY DEF CacheInit
<1> DEFINE stored == {l \in LogIds : setup.params[l] # NoLog}
           upTo(l) == {m \in LogIds : m <= l /\ setup.params[m] # NoLog}
<1>2. /\ IsFiniteSet(stored) /\ Cardinality(stored) \in Nat
      /\ \A l \in LogIds : Cardinality(upTo(l)) \in Nat /\ Cardinality(upTo(l)) <= Cardinality(stored)
  <2>1. IsFiniteSet(stored)
    BY KeysAssumption, FS_Subset
  <2>2. ASSUME NEW l \in LogIds
        PROVE  Cardinality(upTo(l)) \in Nat /\ Cardinality(upTo(l)) <= Cardinality(stored)
    <3>1. upTo(l) \in SUBSET stored
      OBVIOUS
    <3> HIDE DEF stored, upTo
    <3> QED BY <2>1, <3>1, FS_Subset, FS_CardinalityType
  <2> HIDE DEF stored, upTo
  <2> QED BY <2>1, <2>2, FS_CardinalityType
<1>3. /\ revision = [l \in LogIds |-> IF setup.params[l] = NoLog THEN 0 ELSE Cardinality(upTo(l))]
      /\ lastRevision = Cardinality(stored)
  BY <1>1
<1> HIDE DEF stored, upTo
<1>4. revision \in [LogIds -> Nat] /\ lastRevision \in Nat /\ RevisionsHandedOut
  BY <1>2, <1>3 DEF RevisionsHandedOut
<1>5. metadata \in [LogIds -> Params \cup {NoLog}] /\ content \in [LogIds -> Rows]
  BY <1>1, SetupsAssumption DEF Rows
<1>6. /\ IdleTask \in Request /\ [IdleTask EXCEPT !.pc = "done"] \in Request
      /\ IdleTask.pc = "idle" /\ [IdleTask EXCEPT !.pc = "done"].pc = "done"
      /\ IdleTask.val = NoRow /\ IdleTask.since = 0
  BY DEF IdleTask, Request, Pcs, Ended
<1>7. \A t \in Tasks : /\ task[t] \in Request /\ task[t].pc \in Ended
                       /\ task[t].pc = "idle" => task[t].val = NoRow /\ task[t].since = 0
  BY <1>1, <1>6 DEF Ended
<1>8. TypeOK
  <2>1. task \in [Tasks -> Request]
    BY <1>1, <1>6
  <2> QED BY <1>1, <1>4, <1>5, <2>1 DEF TypeOK
<1>9. GateIsHeld
  BY <1>1, <1>7, AbsentAssumption DEF GateIsHeld, HoldsGate, Held, Loading, Ended
<1>10. QueueIsAwaited
  <2>1. queue \in Seq(QueuedCommand) /\ Len(queue) = 0
    BY <1>1, EmptySeq
  <2>2. 1..Len(queue) = {}
    BY <2>1
  <2> QED BY <2>1, <2>2 DEF QueueIsAwaited
<1>11. \A t \in Tasks : RequestOK(task[t])
  BY <1>7 DEF RequestOK, WellFormed, SnapshotsShow, MutationsShow, AppliesOnTop, IsFresh,
    AnswerIsFresh, Ended
<1>12. ProcessorsFollow
  BY <1>1, AbsentAssumption DEF ProcessorsFollow, Publishes, Computed
<1> QED BY <1>1, <1>4, <1>8, <1>9, <1>10, <1>11, <1>12 DEF CacheInv

LEMMA CacheInvStays ==
  ASSUME CacheInv, UNCHANGED vars
  PROVE  CacheInv'
<1>1. UNCHANGED <<dbVars, cacheVars, gate, task, queue>>
  BY DEF vars, dbVars, cacheVars
<1>2. DbStep
  BY <1>1, NoDbStep
<1>3. GateIsHeld' /\ QueueIsAwaited' /\ task' \in [Tasks -> Request]
  BY <1>1 DEF CacheInv, TypeOK, GateIsHeld, QueueIsAwaited
<1>4. \A u \in Tasks : RequestOK(task[u])'
  BY <1>1, <1>2, Unmoved DEF cacheVars
<1> QED BY <1>1, <1>2, <1>3, <1>4, DatabaseMoves

LEMMA CacheInvNext == CacheInv /\ [CacheNext]_vars => CacheInv'
<1> SUFFICES ASSUME CacheInv, [CacheNext]_vars PROVE CacheInv'
  OBVIOUS
<1>1. ASSUME NEW t \in Tasks, Start(t) PROVE CacheInv'
  BY <1>1, StartStep
<1>2. ASSUME NEW t \in Tasks, Step(t) PROVE CacheInv'
  BY <1>2, AcquireGateStep, EnsureLoadedStep, TakeSnapshotStep, RunProcessorsStep,
    PublishLoadedStep, SendCommandStep, ReturnStep, CheckRevisionsStep, ApplyStep, AnswerStep,
    ClearLogStep DEF Step
<1>3. ASSUME NEW t \in Tasks, Cancel(t) PROVE CacheInv'
  BY <1>3, CancelStep
<1>4. CASE WorkerStep
  BY <1>4, WorkerStepStep
<1>5. ASSUME NEW l \in LogIds, NEW p \in Params, CreateLog(l, p) PROVE CacheInv'
  BY <1>5, CreateLogStep
<1>6. CASE Quiescent \/ UNCHANGED vars
  BY <1>6, CacheInvStays DEF Quiescent
<1> QED BY <1>1, <1>2, <1>3, <1>4, <1>5, <1>6 DEF CacheNext

LEMMA CacheInvHolds == CacheSpec => []CacheInv
  BY CacheInvInit, CacheInvNext, PTL DEF CacheSpec

(* A cached log under the database's revision is what the database has, and *)
(* the processors have seen what is cached whenever no request works on the *)
(* log (LogCache::is_loaded, load_log, apply), for every number of logs,    *)
(* contacts and concurrent requests and every length of the worker's queue. *)
THEOREM CacheIsCoherent == CacheSpec => []CoherentWhenCurrent
<1>1. CacheInv => CoherentWhenCurrent
  <2> SUFFICES ASSUME CacheInv PROVE CoherentWhenCurrent
    OBVIOUS
  <2>1. ShowsTheDatabase
    BY DEF CacheInv, ShowsTheDatabase, IsLoaded, Shows
  <2>2. ProcessorsAgree
    BY AbsentAssumption DEF CacheInv, ProcessorsFollow, Publishes, Computed, ProcessorsAgree
  <2> QED BY <2>1, <2>2 DEF CoherentWhenCurrent
<1> QED BY <1>1, CacheInvHolds, PTL

(* A handler answers from a cached log that is at least as new as the       *)
(* database was when its request came in (ensure_loaded under the gate).    *)
THEOREM CacheAnswersAreFresh == CacheSpec => []AnswersAreFresh
<1>1. CacheInv => AnswersAreFresh
  BY DEF CacheInv, RequestOK, AnswerIsFresh, AnswersAreFresh
<1> QED BY <1>1, CacheInvHolds, PTL
=============================================================================
