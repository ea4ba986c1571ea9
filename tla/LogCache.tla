------------------------------ MODULE LogCache ------------------------------
(***************************************************************************)
(* The derived log cache (backend/src/log_cache.rs) and the HTTP handlers  *)
(* that go through it (backend/src/main.rs, validation.rs), above a        *)
(* database that behaves as VersionedLogs says.  A request is a task that  *)
(* is suspended at every await; between two awaits other requests and the  *)
(* database worker run.  A browser that disconnects drops the task at an   *)
(* await: its gate is released, but a command already queued for the       *)
(* worker is still executed.                                               *)
(*                                                                         *)
(* Abstractions: a cached log is the metadata its scoring module was built *)
(* from and its contacts by id (order and the callsign index are left      *)
(* out); the state of the processors (scoring, statistics, band map, super *)
(* check partial) is the metadata and the contacts it was computed from.   *)
(* A commit carries one contact.  Logs are those of a supported contest.   *)
(***************************************************************************)
EXTENDS VersionedLogs, Sequences, FiniteSets

CONSTANTS
  Tasks,        \* HTTP requests
  Buffer,       \* DB_COMMAND_BUFFER: commands the worker's channel holds
  SerialOf(_),  \* the sent serial a contact carries
  Setups,       \* [tasks, ops, revisions, cancels, params, content]: the requests and
                \* what they may ask for, the revision from which no log is created and
                \* the requests that may be dropped, the logs and contacts at startup
  NoTask, NoId, None

(* A log in the cache, and a snapshot of the database that may become one.  *)
CachedLog == [revision : Nat, params : Params \cup {NoLog},
              contacts : [ContactIds -> Contacts \cup {NoRow}]]

ASSUME KeysAssumption ==
  /\ LogIds \subseteq Nat \ {0} /\ ContactIds \subseteq Nat \ {0}
  /\ IsFiniteSet(LogIds)
ASSUME SetupsAssumption ==
  \A setup \in Setups : /\ setup.params \in [LogIds -> Params \cup {NoLog}]
                        /\ setup.content \in [LogIds -> [ContactIds -> Contacts \cup {NoRow}]]
ASSUME AbsentAssumption ==
  /\ None \notin Nat \cup LogIds \cup CachedLog
  /\ NoTask \notin Tasks

VARIABLES
  cached,       \* LogCacheInner.logs: [revision, params, contacts] or None
  derived,      \* the processors' state of a log: [params, contacts] or None
  gate,         \* LogCacheInner.coordination: the task that holds the gate
  task,         \* the local state of every request
  known,        \* contact ids some client was ever told of
  queue,        \* commands on their way to the database worker
  env           \* [ops, revisions, cancels] that are left

dbVars == <<metadata, content, revision, lastRevision, known>>
cacheVars == <<cached, derived>>
vars == <<metadata, content, revision, lastRevision,
          cached, derived, gate, task, known, queue, env>>

-----------------------------------------------------------------------------
(* Requests.  "then" is where the task goes on once the log is loaded.      *)

IdleTask == [pc |-> "idle", op |-> None, log |-> None, id |-> NoId, val |-> NoRow,
             then |-> None, snap |-> None, prev |-> 0, rev |-> 0,
             since |-> 0, reply |-> None]

Snapshot(l) == [revision |-> revision[l], params |-> metadata[l], contacts |-> content[l]]
Basis(s) == [params |-> s.params, contacts |-> s.contacts]

Owner(c) == IF \E l \in LogIds : content[l][c] # NoRow
            THEN CHOOSE l \in LogIds : content[l][c] # NoRow ELSE NoLog

DbRevision(l) == IF Exists(l) THEN revision[l] ELSE None

(* Mutant: a log that is in the cache counts as loaded.                     *)
IsPresent(l) == cached[l] # None

IsLoaded(l) == cached[l] # None /\ cached[l].revision = DbRevision(l)

CacheInit ==
  \E setup \in Setups :
  /\ metadata = setup.params
  /\ content = setup.content
  /\ revision = [l \in LogIds |-> IF setup.params[l] = NoLog THEN 0
                   ELSE Cardinality({m \in LogIds : m <= l /\ setup.params[m] # NoLog})]
  /\ lastRevision = Cardinality({l \in LogIds : setup.params[l] # NoLog})
  /\ cached = [l \in LogIds |-> None]
  /\ derived = [l \in LogIds |-> None]
  /\ gate = [l \in LogIds |-> NoTask]
  /\ task = [t \in Tasks |-> IF t \in setup.tasks THEN IdleTask ELSE [IdleTask EXCEPT !.pc = "done"]]
  /\ known = {c \in ContactIds : \E l \in LogIds : setup.content[l][c] # NoRow}
  /\ queue = <<>>
  /\ env = [ops |-> setup.ops, revisions |-> setup.revisions, cancels |-> setup.cancels]

Goto(t, pc) == task' = [task EXCEPT ![t].pc = pc]

(* Mutant: the gate outlives the request.                                   *)
FinishKeepsGate(t, reply) ==
  /\ task' = [task EXCEPT ![t] = [IdleTask EXCEPT !.pc = "done", !.op = task[t].op,
                                                  !.reply = reply]]
  /\ UNCHANGED gate

(* The request ends; the guard of its gate is dropped with it.              *)
Finish(t, reply) ==
  /\ task' = [task EXCEPT ![t] = [IdleTask EXCEPT !.pc = "done", !.op = task[t].op,
                                                  !.reply = reply]]
  /\ gate' = [l \in LogIds |-> IF gate[l] = t THEN NoTask ELSE gate[l]]

-----------------------------------------------------------------------------
(* Starting a request.                                                      *)

(* commit_contact up to upsert_contacts: the log exists, a contact sent     *)
(* with an id is not another log's, and if it is already logged its sent    *)
(* serial is the logged one (validate_immutable_sent_serial_fields).  The   *)
(* worker checks the owner again, not the serial.                           *)
Valid(l, wanted, v) ==
  /\ Exists(l)
  /\ wanted # NoId =>
       /\ Owner(wanted) \in {NoLog, l}
       /\ content[l][wanted] # NoRow => SerialOf(content[l][wanted]) = SerialOf(v)

StartUpsert(t, l, wanted, v) ==
  /\ "upsert" \in env.ops
  /\ task[t].pc = "idle"
  /\ Valid(l, wanted, v)
  /\ task' = [task EXCEPT ![t] = [@ EXCEPT !.pc = "gate", !.op = "upsert", !.log = l,
                !.id = wanted, !.val = v, !.then = "commit", !.since = revision[l]]]
  /\ UNCHANGED <<dbVars, cacheVars, gate, queue, env>>

(* delete_contact reads the contact's log before it waits for the gate.     *)
StartDelete(t, c) ==
  /\ "delete" \in env.ops
  /\ task[t].pc = "idle"
  /\ Owner(c) # NoLog
  /\ task' = [task EXCEPT ![t] = [@ EXCEPT !.pc = "gate", !.op = "delete", !.id = c,
                !.log = Owner(c), !.then = "remove", !.since = revision[Owner(c)]]]
  /\ UNCHANGED <<dbVars, cacheVars, gate, queue, env>>

(* list_contacts, log statistics, a refresh: anything that needs the log.   *)
StartPage(t, l) ==
  /\ "page" \in env.ops
  /\ task[t].pc = "idle"
  /\ Exists(l)
  /\ task' = [task EXCEPT ![t] = [@ EXCEPT !.pc = "gate", !.op = "page", !.log = l,
                !.then = "answer", !.since = revision[l]]]
  /\ UNCHANGED <<dbVars, cacheVars, gate, queue, env>>

(* update_log and delete_log change the database first, outside the gate,   *)
(* and then clear the cache under it.                                       *)
StartLogChange(t, l, op, p) ==
  /\ op \in env.ops
  /\ task[t].pc = "idle"
  /\ Exists(l)
  /\ task' = [task EXCEPT ![t] = [@ EXCEPT !.pc = "change", !.op = op, !.log = l,
                !.val = p, !.then = "clear"]]
  /\ UNCHANGED <<dbVars, cacheVars, gate, queue, env>>

-----------------------------------------------------------------------------
(* The database worker.                                                     *)

(* The row a contact goes to: its own id, or the largest id in use plus one. *)
WrittenAt(wanted, c) ==
  IF wanted # NoId THEN c = wanted
  ELSE /\ \A d \in ContactIds : d >= c => Owner(d) = NoLog
       /\ c # 1 => Owner(c - 1) # NoLog

DbUpsert(l, wanted, v, c) ==
  /\ Exists(l)
  /\ WrittenAt(wanted, c)
  /\ Owner(c) \in {NoLog, l}
  /\ content' = [content EXCEPT ![l][c] = v]
  /\ known' = known \cup {c}
  /\ Mutate(l)

(* The log is gone, the id is another log's, or (bound) no id is left, as   *)
(* when the disk is full.                                                   *)
DbUpsertFails(l, wanted) ==
  \/ ~Exists(l)
  \/ wanted # NoId /\ Owner(wanted) \notin {NoLog, l}
  \/ ~\E c \in ContactIds : WrittenAt(wanted, c)

DbDelete(c) ==
  /\ Owner(c) # NoLog
  /\ content' = [content EXCEPT ![Owner(c)][c] = NoRow]
  /\ Mutate(Owner(c))
  /\ UNCHANGED known

DbUpdateLog(l, p) ==
  /\ metadata' = [metadata EXCEPT ![l] = p]
  /\ Update(l)
  /\ UNCHANGED known

DbDeleteLog(l) == Delete(l) /\ UNCHANGED known

(* create_log touches the database only.                                    *)
CreateLog(l, p) ==
  /\ lastRevision < env.revisions
  /\ metadata' = [metadata EXCEPT ![l] = p]
  /\ Create(l)
  /\ UNCHANGED <<known, cacheVars, gate, task, queue, env>>

-----------------------------------------------------------------------------
(* coordinate(log_id): one task per log holds the gate.                     *)
AcquireGate(t) ==
  /\ task[t].pc = "gate"
  /\ gate[task[t].log] = NoTask
  /\ gate' = [gate EXCEPT ![task[t].log] = t]
  /\ Goto(t, IF task[t].then = "clear" THEN "clear" ELSE "ensure")
  /\ UNCHANGED <<dbVars, cacheVars, queue, env>>

(* ensure_loaded_locked: the cached revision is compared with the database. *)
EnsureLoaded(t) ==
  /\ task[t].pc = "ensure"
  /\ Goto(t, IF IsLoaded(task[t].log) THEN task[t].then ELSE "snapshot")
  /\ UNCHANGED <<dbVars, cacheVars, gate, queue, env>>

TakeSnapshot(t) ==
  LET l == task[t].log IN
  /\ task[t].pc = "snapshot"
  /\ IF Exists(l)
       THEN /\ task' = [task EXCEPT ![t].snap = Snapshot(l), ![t].pc = "build"]
            /\ UNCHANGED <<cacheVars, gate>>
       ELSE /\ cached' = [cached EXCEPT ![l] = None]
            /\ derived' = [derived EXCEPT ![l] = None]
            /\ Finish(t, "error")
  /\ UNCHANGED <<dbVars, queue, env>>

(* The revision is checked before the processors replay the contacts ...    *)
RunProcessors(t) ==
  LET l == task[t].log IN
  /\ task[t].pc = "build"
  /\ IF DbRevision(l) = task[t].snap.revision
       THEN /\ derived' = [derived EXCEPT ![l] = Basis(task[t].snap)]
            /\ Goto(t, "publish")
       ELSE /\ UNCHANGED derived
            /\ Goto(t, "snapshot")
  /\ UNCHANGED <<dbVars, cached, gate, queue, env>>

(* ... and again before the log is published.                               *)
PublishLoaded(t) ==
  LET l == task[t].log IN
  /\ task[t].pc = "publish"
  /\ IF DbRevision(l) = task[t].snap.revision
       THEN /\ cached' = [cached EXCEPT ![l] = task[t].snap]
            /\ UNCHANGED derived
            /\ task' = [task EXCEPT ![t].pc = task[t].then, ![t].snap = None]
       ELSE /\ cached' = [cached EXCEPT ![l] = None]
            /\ derived' = [derived EXCEPT ![l] = None]
            /\ task' = [task EXCEPT ![t].pc = "snapshot", ![t].snap = None]
  /\ UNCHANGED <<dbVars, gate, queue, env>>

(* Database::call: the command is queued once the channel has room.         *)
Command(t) == [task |-> t, op |-> task[t].op, log |-> task[t].log,
               id |-> task[t].id, val |-> task[t].val]

SendCommand(t) ==
  /\ task[t].pc \in {"commit", "remove", "change"}
  /\ Len(queue) < Buffer
  /\ queue' = Append(queue, Command(t))
  /\ Goto(t, "await")
  /\ UNCHANGED <<dbVars, cacheVars, gate, env>>

(* The worker's answer reaches the task unless the task was dropped.        *)
Deliver(t, answered) ==
  task' = IF task[t].pc = "await" THEN [task EXCEPT ![t] = answered] ELSE task

Mutated(t, l, c) ==
  [task[t] EXCEPT !.pc = "check", !.id = c, !.prev = revision[l], !.rev = lastRevision + 1]

Returned(t, reply) == [task[t] EXCEPT !.pc = "return", !.reply = reply]

ExecuteUpsert(cmd) ==
  \/ \E c \in ContactIds :
       /\ DbUpsert(cmd.log, cmd.id, cmd.val, c)
       /\ Deliver(cmd.task, Mutated(cmd.task, cmd.log, c))
  \/ /\ DbUpsertFails(cmd.log, cmd.id)
     /\ Deliver(cmd.task, Returned(cmd.task, "error"))
     /\ UNCHANGED dbVars

(* The contact may be gone, or its id may by now be a contact of another    *)
(* log: then the log this request coordinates has not changed.              *)
ExecuteDelete(cmd) ==
  \/ /\ Owner(cmd.id) = NoLog
     /\ Deliver(cmd.task, Returned(cmd.task, "notFound"))
     /\ UNCHANGED dbVars
  \/ /\ DbDelete(cmd.id)
     /\ Deliver(cmd.task, IF Owner(cmd.id) = cmd.log THEN Mutated(cmd.task, cmd.log, cmd.id)
                          ELSE Returned(cmd.task, "ok"))

ExecuteLogChange(cmd) ==
  \/ /\ ~Exists(cmd.log)
     /\ Deliver(cmd.task, Returned(cmd.task, "notFound"))
     /\ UNCHANGED dbVars
  \/ /\ Exists(cmd.log)
     /\ IF cmd.op = "updateLog" THEN DbUpdateLog(cmd.log, cmd.val) ELSE DbDeleteLog(cmd.log)
     /\ Deliver(cmd.task, [task[cmd.task] EXCEPT !.pc = "gate"])

(* run_db_worker takes the commands in order, whoever still waits for them. *)
WorkerStep ==
  /\ queue # <<>>
  /\ LET cmd == Head(queue) IN
       \/ cmd.op = "upsert" /\ ExecuteUpsert(cmd)
       \/ cmd.op = "delete" /\ ExecuteDelete(cmd)
       \/ cmd.op \in {"updateLog", "deleteLog"} /\ ExecuteLogChange(cmd)
  /\ queue' = Tail(queue)
  /\ UNCHANGED <<cacheVars, gate, env>>

Return(t) ==
  /\ task[t].pc = "return"
  /\ Finish(t, task[t].reply)
  /\ UNCHANGED <<dbVars, cacheVars, queue, env>>

(* Mutant: the cache is brought forward without looking at the database.    *)
AppliesUnchecked(t) == cached[task[t].log] # None

(* The change may be applied to the cached log only if the cache was at the *)
(* revision before it and the database is still at the one after it.        *)
AppliesInPlace(t) ==
  /\ cached[task[t].log] # None
  /\ cached[task[t].log].revision = task[t].prev
  /\ DbRevision(task[t].log) = task[t].rev

CheckRevisions(t) ==
  /\ task[t].pc = "check"
  /\ IF AppliesInPlace(t) THEN Goto(t, "apply")
     ELSE task' = [task EXCEPT ![t].pc = "ensure", ![t].then = "answer"]
  /\ UNCHANGED <<dbVars, cacheVars, gate, queue, env>>

Stamped(t) == task[t].rev

ProcessorsApply(l, new) == Basis(new)

(* Cached contacts and processors change together under the logs mutex.     *)
Apply(t) ==
  LET l == task[t].log
      new == [revision |-> Stamped(t), params |-> cached[l].params,
              contacts |-> [cached[l].contacts EXCEPT ![task[t].id] = task[t].val]]
  IN
  /\ task[t].pc = "apply"
  /\ cached' = [cached EXCEPT ![l] = new]
  /\ derived' = [derived EXCEPT ![l] = ProcessorsApply(l, new)]
  /\ Finish(t, IF task[t].op = "upsert" THEN new.contacts[task[t].id] ELSE "ok")
  /\ UNCHANGED <<dbVars, queue, env>>

(* The answer is taken from the loaded log.                                 *)
Answer(t) ==
  LET l == task[t].log IN
  /\ task[t].pc = "answer"
  /\ Finish(t, IF cached[l] = None THEN "error"
               ELSE IF task[t].op = "upsert" THEN cached[l].contacts[task[t].id]
               ELSE "ok")
  /\ UNCHANGED <<dbVars, cacheVars, queue, env>>

(* LogCache::remove_log.                                                    *)
ClearLog(t) ==
  /\ task[t].pc = "clear"
  /\ cached' = [cached EXCEPT ![task[t].log] = None]
  /\ derived' = [derived EXCEPT ![task[t].log] = None]
  /\ Finish(t, "ok")
  /\ UNCHANGED <<dbVars, queue, env>>

-----------------------------------------------------------------------------
(* The client disconnects and the task is dropped where it waits: before    *)
(* its command is sent, while the worker has it, or before the answer is    *)
(* looked at.  A queued command is not withdrawn.                           *)
Cancel(t) ==
  /\ env.cancels > 0
  /\ task[t].pc \in {"gate", "snapshot", "commit", "remove", "change", "await", "check"}
  /\ Finish(t, "cancelled")
  /\ env' = [env EXCEPT !.cancels = @ - 1]
  /\ UNCHANGED <<dbVars, cacheVars, queue>>

-----------------------------------------------------------------------------
Start(t) ==
  \/ \E l \in LogIds, w \in known \cup {NoId}, v \in Contacts : StartUpsert(t, l, w, v)
  \/ \E c \in ContactIds : StartDelete(t, c)
  \/ \E l \in LogIds : StartPage(t, l)
  \/ \E l \in LogIds, p \in Params : StartLogChange(t, l, "updateLog", p)
  \/ \E l \in LogIds : StartLogChange(t, l, "deleteLog", NoRow)

Step(t) ==
  \/ AcquireGate(t) \/ EnsureLoaded(t) \/ TakeSnapshot(t) \/ RunProcessors(t)
  \/ PublishLoaded(t) \/ SendCommand(t) \/ Return(t) \/ CheckRevisions(t)
  \/ Apply(t) \/ Answer(t) \/ ClearLog(t)

(* No request is at work and no command is left; kept as a step so that   *)
(* TLC reports any other state without successor as a deadlock.             *)
Quiescent ==
  /\ \A t \in Tasks : task[t].pc \in {"idle", "done"}
  /\ queue = <<>>
  /\ UNCHANGED vars

CacheNext ==
  \/ \E t \in Tasks : Start(t) \/ Step(t) \/ Cancel(t)
  \/ WorkerStep
  \/ "createLog" \in env.ops /\ \E l \in LogIds, p \in Params : CreateLog(l, p)
  \/ Quiescent

CacheSpec == CacheInit /\ [][CacheNext]_vars

(* The runtime polls a task that can go on, the gate is a fair mutex, and   *)
(* the worker thread takes every queued command.                            *)
CacheFairness ==
  /\ \A t \in Tasks : WF_vars(Step(t))
  /\ WF_vars(WorkerStep)

FairCacheSpec == CacheSpec /\ CacheFairness

-----------------------------------------------------------------------------
ShowsTheDatabase ==
  \A l \in LogIds : IsLoaded(l) =>
    cached[l].params = metadata[l] /\ cached[l].contacts = content[l]

ProcessorsAgree ==
  \A l \in LogIds : gate[l] = NoTask =>
    derived[l] = IF cached[l] = None THEN None ELSE Basis(cached[l])

(* A cached log whose revision is the database's shows exactly the          *)
(* database's metadata and contacts: is_loaded compares revisions only, so  *)
(* everything the browser is told about a log rests on this.  While no      *)
(* request works on a log, the processors (scores, statistics, multipliers, *)
(* band map) have seen the contacts that are cached, no more and no fewer,  *)
(* and hold nothing for a log that is not cached (LogCache::load_log).      *)
CoherentWhenCurrent == ShowsTheDatabase /\ ProcessorsAgree

(* A request answers from a log at least as new as the database was when    *)
(* the request came in: what was committed before is in the answer.         *)
AnswersAreFresh ==
  \A t \in Tasks : task[t].pc = "answer" =>
    /\ cached[task[t].log] # None
    /\ cached[task[t].log].revision >= task[t].since

(* Every request ends, dropped clients and concurrent mutations or not.     *)
EveryRequestEnds == \A t \in Tasks : task[t].pc # "idle" ~> task[t].pc = "done"
=============================================================================
