----------------------------- MODULE ClientRadios -----------------------------
(***************************************************************************)
(* Radios that belong to radio clients: the leases the backend grants      *)
(* (backend/src/client_radios.rs), the HTTP handlers and the table of      *)
(* radios behind them (backend/src/main.rs, db/radios.rs), and the loop of *)
(* a client that registers, sends heartbeats and leaves                    *)
(* (radio-client/src/backend_client.rs).                                   *)
(*                                                                         *)
(* A run is a started process of a client: it has a WebSocket URL of its   *)
(* own, the run itself here, and the UUID of its settings, which a later   *)
(* run or a second process shares.  A request stays on its way when its    *)
(* client no longer waits for it, and is then handled late or not at all.  *)
(* A tick is ten seconds: a heartbeat interval, a third of a lease.        *)
(***************************************************************************)
EXTENDS Naturals, FiniteSets, FiniteSetsExt

CONSTANTS
  Runs,          \* processes of radio clients
  Uuids,         \* client_instance_id of their settings
  UuidOf,        \* [Runs -> Uuids]
  MaxId,         \* radio ids the table gets to
  Worlds         \* bounds: [starts, stops, crashes, timeouts, failures, restarts,
                 \* deletes, slow] left

ASSUME UuidAssumption ==
  UuidOf \in [Runs -> Uuids] /\ "none" \notin Runs \cup Uuids /\ MaxId \in Nat

LeaseTicks == 3  \* LEASE_TIMEOUT / HEARTBEAT_INTERVAL
Ids == 1 .. MaxId
Numbers == 1 .. 2 * Cardinality(Runs) + MaxId + 1
Unlisted == [uuid |-> "none", url |-> "none"]
NoLease == [uuid |-> "none", no |-> 0, run |-> "none", left |-> 0]
NoHeld == [id |-> 0, no |-> 0]

VARIABLES
  rows,          \* the client radios in the database: [Ids -> [uuid, url]]
  leases,        \* ClientRadioRegistry: [Ids -> [uuid, no, run, left]], run for history
  pc, held,      \* each run: where its loop is, the lease it believes in
  stop,          \* the runs that were cancelled
  net,           \* requests: [run, kind, lease, stage, waited, overtaken],
                 \* overtaken for history: another run stored its row since
  del,           \* the request that deletes a radio: [id, granted], id 0 when there is none
  raced,         \* history: a row went while its client was registering
  crossed,       \* history: registrations of two runs overtook each other, or one was half done
  clean,         \* history: the runs all of whose requests were answered
  env

client == <<pc, held, stop>>
server == <<rows, leases, del>>
history == <<raced, crossed, clean>>
clientsVars == <<rows, leases, pc, held, stop, net, del, raced, crossed, clean, env>>

ClientsInit ==
  /\ rows = [i \in Ids |-> Unlisted] /\ leases = [i \in Ids |-> NoLease]
  /\ pc = [r \in Runs |-> "off"] /\ held = [r \in Runs |-> NoHeld] /\ stop = {}
  /\ net = {} /\ del = [id |-> 0, granted |-> FALSE]
  /\ raced = FALSE /\ crossed = FALSE /\ clean = Runs
  /\ env \in Worlds

Spend(what) == env[what] > 0 /\ env' = [env EXCEPT ![what] = @ - 1]
Up(r) == pc[r] \notin {"off", "gone"}
Online(i) == leases[i] # NoLease
Waiting(r) == {m \in net : m.run = r /\ m.waited}
FreshNo == Min(Numbers \ ({leases[i].no : i \in Ids} \cup {held[r].no : r \in Runs}
                            \cup {m.lease.no : m \in net}))

-----------------------------------------------------------------------------
(* run of backend_client.rs.                                                *)

Ask(r, kind, lease) ==
  net' = net \cup {[run |-> r, kind |-> kind, lease |-> lease, stage |-> "sent",
                    waited |-> TRUE, overtaken |-> FALSE]}

Start(r) ==
  /\ pc[r] = "off" /\ r \in env.starts
  /\ pc' = [pc EXCEPT ![r] = "register"]
  /\ env' = [env EXCEPT !.starts = @ \ {r}]
  /\ UNCHANGED <<held, stop, net, server, history>>

Register(r) ==
  /\ pc[r] = "register" /\ r \notin stop
  /\ pc' = [pc EXCEPT ![r] = "asked"] /\ Ask(r, "register", NoHeld)
  /\ UNCHANGED <<held, stop, server, history, env>>

Heartbeat(r) ==
  /\ pc[r] = "due" /\ r \notin stop
  /\ pc' = [pc EXCEPT ![r] = "asked"] /\ Ask(r, "heartbeat", held[r])
  /\ UNCHANGED <<held, stop, server, history, env>>

(* The cancellation ends a wait and the loop, but no request.               *)
Leave(r) ==
  /\ r \in stop /\ pc[r] \in {"register", "held", "due", "retry"}
  /\ IF held[r] = NoHeld
     THEN pc' = [pc EXCEPT ![r] = "gone"] /\ UNCHANGED net
     ELSE pc' = [pc EXCEPT ![r] = "asked"] /\ Ask(r, "offline", held[r])
  /\ held' = [held EXCEPT ![r] = NoHeld]
  /\ UNCHANGED <<stop, server, history, env>>

(* What the loop does with the answer; classify of the status.              *)
After(kind, answer) ==
  CASE kind = "offline" -> "gone"
    [] kind # "offline" /\ answer = "ok" -> "held"
    [] kind = "heartbeat" /\ answer = "stale" -> "register"
    [] OTHER -> "retry"

Proceed(r, m, answer) ==
  /\ pc' = [pc EXCEPT ![r] = After(m.kind, answer)]
  /\ held' = [held EXCEPT ![r] = IF After(m.kind, answer) = "held" THEN m.lease ELSE NoHeld]

Answered(r, m) ==
  /\ m \in Waiting(r) /\ m.stage \in {"ok", "stale", "failed"}
  /\ net' = net \ {m}
  /\ Proceed(r, m, m.stage)
  /\ clean' = IF m.stage = "failed" THEN clean \ {r} ELSE clean
  /\ UNCHANGED <<stop, server, raced, crossed, env>>

Abandon(r) ==
  /\ net' = (net \ Waiting(r)) \cup {[m EXCEPT !.waited = FALSE] :
                                     m \in {n \in Waiting(r) : n.stage \in {"sent", "stored"}}}
  /\ clean' = clean \ {r}

(* The timeout of a request: ten seconds, three for the last one.           *)
TimeOut(r) ==
  /\ \E m \in Waiting(r) : Proceed(r, m, "failed")
  /\ Spend("timeouts") /\ Abandon(r)
  /\ UNCHANGED <<stop, server, raced, crossed>>

End(r) == pc' = [pc EXCEPT ![r] = "gone"] /\ held' = [held EXCEPT ![r] = NoHeld]

(* RegistrationTask::stop: it aborts the loop after three seconds.          *)
Stop(r) ==
  /\ Up(r) /\ r \notin stop /\ Spend("stops") /\ stop' = stop \cup {r}
  /\ UNCHANGED <<pc, held, net, server, history>>

Abort(r) ==
  /\ r \in stop /\ pc[r] = "asked" /\ Spend("timeouts") /\ Abandon(r) /\ End(r)
  /\ UNCHANGED <<stop, server, raced, crossed>>

Crash(r) ==
  /\ Up(r) /\ Spend("crashes") /\ Abandon(r) /\ End(r)
  /\ UNCHANGED <<stop, server, raced, crossed>>

-----------------------------------------------------------------------------
(* The handlers of the backend.                                             *)

Becomes(m, stage, lease) ==
  net' = (net \ {m}) \cup (IF m.waited THEN {[m EXCEPT !.stage = stage, !.lease = lease,
                                                              !.overtaken = FALSE]}
                                    ELSE {})

RowOf(uuid) == {i \in Ids : rows[i].uuid = uuid}
NextId == Max({0} \cup {i \in Ids : rows[i] # Unlisted}) + 1

(* db_upsert_client_radio: an id is used again once the rows from it are gone. *)
Upsert(r) ==
  \E i \in IF RowOf(UuidOf[r]) # {} THEN RowOf(UuidOf[r]) ELSE {NextId} \cap Ids :
    rows' = [rows EXCEPT ![i] = [uuid |-> UuidOf[r], url |-> r]]

Storing(m, i) == m.stage = "stored" /\ m.lease.id = i

Store(m) ==
  /\ m \in net /\ m.kind = "register" /\ m.stage = "sent"
  /\ Upsert(m.run)
  /\ \E i \in Ids : /\ rows'[i].uuid = UuidOf[m.run]
                    /\ net' = {CASE n = m -> [m EXCEPT !.stage = "stored", !.lease = [id |-> i, no |-> 0]]
                                  [] Storing(n, i) -> [n EXCEPT !.overtaken = TRUE]
                                  [] OTHER -> n : n \in net}
  /\ UNCHANGED <<leases, client, del, history, env>>

Grant(m) ==
  /\ m \in net /\ m.stage = "stored"
  /\ LET i == m.lease.id IN
     /\ leases' = [[j \in Ids |-> IF leases[j].uuid = UuidOf[m.run] THEN NoLease ELSE leases[j]]
                     EXCEPT ![i] = [uuid |-> UuidOf[m.run], no |-> FreshNo, run |-> m.run,
                                    left |-> LeaseTicks]]
     /\ Becomes(m, "ok", [id |-> i, no |-> FreshNo])
     /\ crossed' = (crossed \/ (m.overtaken /\ \A n \in net : Storing(n, i) => n.overtaken))
     /\ del' = [del EXCEPT !.granted = @ \/ del.id = i]
  /\ UNCHANGED <<rows, client, raced, clean, env>>

(* Mutant: the lease of the radio is taken for the one of the request.      *)
MatchesAny(m) == leases[m.lease.id].uuid = UuidOf[m.run]

Matches(m) == leases[m.lease.id].uuid = UuidOf[m.run] /\ leases[m.lease.id].no = m.lease.no

OnLease(m, kind, lease) ==
  /\ m \in net /\ m.kind = kind /\ m.stage = "sent"
  /\ IF Matches(m)
     THEN leases' = [leases EXCEPT ![m.lease.id] = lease] /\ Becomes(m, "ok", m.lease)
     ELSE UNCHANGED leases /\ Becomes(m, "stale", m.lease)
  /\ UNCHANGED <<rows, client, del, history, env>>

Beat(m) == OnLease(m, "heartbeat", [leases[m.lease.id] EXCEPT !.left = LeaseTicks])
GoOffline(m) == OnLease(m, "offline", NoLease)

(* The request is answered with an error, or cut short: the handler of a    *)
(* connection that was closed ends at its next await.                       *)
Half(m) == m.stage = "stored" /\ leases[m.lease.id].run # m.run
Fail(m) ==
  /\ m \in net /\ m.stage = "sent" /\ m.waited /\ Spend("failures")
  /\ Becomes(m, "failed", m.lease)
  /\ UNCHANGED <<server, client, history>>
Drop(m) ==
  /\ m \in net /\ ~m.waited
  /\ net' = net \ {m} /\ crossed' = (crossed \/ Half(m))
  /\ UNCHANGED <<server, client, raced, clean, env>>

(* The leases are only in memory; so are the requests.                      *)
RestartBackend ==
  /\ Spend("restarts")
  /\ leases' = [i \in Ids |-> NoLease]
  /\ net' = {[m EXCEPT !.stage = "failed"] : m \in {n \in net : n.waited}}
  /\ del' = [id |-> 0, granted |-> FALSE]
  /\ UNCHANGED <<rows, client, history>>

(* Mutant: any radio may be deleted.                                        *)
CheckAny(i) ==
  /\ del.id = 0 /\ rows[i] # Unlisted /\ Spend("deletes")
  /\ del' = [id |-> i, granted |-> FALSE]
  /\ UNCHANGED <<rows, leases, client, net, history>>

CheckDelete(i) ==
  /\ del.id = 0 /\ rows[i] # Unlisted /\ ~Online(i) /\ Spend("deletes")
  /\ del' = [id |-> i, granted |-> FALSE]
  /\ UNCHANGED <<rows, leases, client, net, history>>

Delete ==
  /\ del.id # 0
  /\ rows' = [rows EXCEPT ![del.id] = Unlisted]
  /\ del' = [id |-> 0, granted |-> FALSE]
  /\ raced' = (raced \/ del.granted \/ \E m \in net : Storing(m, del.id))
  /\ UNCHANGED <<leases, client, net, crossed, clean, env>>

-----------------------------------------------------------------------------
(* Time.  Ten seconds are long for a request and for the loop of a client:  *)
(* they pass meanwhile only as often as the network is slow.                *)

Busy == \/ net # {} \/ del.id # 0
        \/ \E r \in Runs : pc[r] \in {"register", "due"} \/ (Up(r) /\ r \in stop)

Expire == [i \in Ids |-> IF leases[i].left <= 1 THEN NoLease
                         ELSE [leases[i] EXCEPT !.left = @ - 1]]

Tick ==
  /\ Busy => env.slow > 0
  /\ env' = [env EXCEPT !.slow = IF Busy THEN @ - 1 ELSE @]
  /\ leases' = Expire
  /\ pc' = [r \in Runs |-> CASE pc[r] = "held" -> "due" [] pc[r] = "retry" -> "register"
                             [] OTHER -> pc[r]]
  /\ UNCHANGED <<rows, held, stop, net, del, history>>

Loop(r) == Register(r) \/ Heartbeat(r) \/ Leave(r) \/ \E m \in net : Answered(r, m)
Handle == (\E m \in net : Store(m) \/ Grant(m) \/ Beat(m) \/ GoOffline(m)) \/ Delete
Faults == \/ \E r \in Runs : Start(r) \/ Stop(r) \/ TimeOut(r) \/ Abort(r) \/ Crash(r)
          \/ \E m \in net : Fail(m) \/ Drop(m)
          \/ \E i \in Ids : CheckDelete(i)
          \/ RestartBackend

ClientsNext == (\E r \in Runs : Loop(r)) \/ Handle \/ Faults \/ Tick

ClientsSpec == ClientsInit /\ [][ClientsNext]_clientsVars
ClientsFairness == WF_clientsVars(\E r \in Runs : Loop(r)) /\ WF_clientsVars(Handle) /\ WF_clientsVars(Tick)

-----------------------------------------------------------------------------
(* Properties.                                                              *)

(* RadioView::from_record: the URL a window is given.                       *)
Served(i) == IF Online(i) THEN rows[i].url ELSE "none"

(* A lease is for a row of the same client: what is online is listed, under *)
(* its own id also after ids were used again; and for a process that did    *)
(* not stop in good order, each request answered (RegistrationTask::stop).  *)
(* One deletion of a radio that was found offline while it registered is    *)
(* the exception (delete_radio).                                            *)
OnlineRadiosAreListed ==
  \A i \in Ids :
    /\ Online(i) => rows[i].uuid = leases[i].uuid \/ raced
    /\ \A r \in clean : pc[r] = "gone" => leases[i].run # r

(* The URL of an online radio is that of the process that keeps it online,  *)
(* or of one whose registration has not ended yet; not when registrations   *)
(* overtook each other between the row and the lease (register_client_radio). *)
UrlIsTheHolders ==
  \A i \in Ids : Online(i) =>
    \/ raced \/ crossed
    \/ rows[i].url = leases[i].run
    \/ \E m \in net : Storing(m, i) /\ m.run = rows[i].url

(* That, and a window is not sent for good to a process that is gone, not   *)
(* even when another process with the same UUID sends heartbeats on         *)
(* (docs/radio-client-plan.md, "Duplicate Radio Client process").           *)
UrlsFollowTheClients ==
  \A r \in Runs :
    [](UrlIsTheHolders /\ (pc[r] = "gone" => <>((\A i \in Ids : Served(i) # r) \/ crossed \/ raced)))
=============================================================================
