---------------------------- MODULE RadioSessions ----------------------------
(***************************************************************************)
(* The WebSocket sessions of one radio and what they share: the registry   *)
(* that keeps a radio from being edited while it is in use                 *)
(* (radio-io/src/websocket.rs), the manager that starts the radio for the  *)
(* first session and stops it after the last one                           *)
(* (radio-io/src/radio_manager/lifecycle.rs), the HTTP requests that edit  *)
(* the radio (backend/src/main.rs) and the shutdown of a radio client.     *)
(* Radios have nothing in common but the two permits for device checks.    *)
(*                                                                         *)
(* A step is what is done under one lock or between two awaits.            *)
(***************************************************************************)
EXTENDS Naturals, FiniteSets

CONSTANTS
  Sessions,      \* WebSocket connections, used again once they have ended
  Host,          \* the shutdown of the radio client
  Editors,       \* HTTP requests that change or delete the radio
  Permits,       \* device checks that may run at a time
  Worlds         \* bounds: [connects, edits, drops, failures] left, and whether the
                 \* host may stop

ASSUME SessionsAssumption == IsFiniteSet(Sessions) /\ Host \notin Sessions
ASSUME PermitsAssumption == Permits \in Nat \ {0}

Deleted == 0     \* no row, no entry in the registry
Procs == Sessions \cup {Host}

VARIABLES
  stored,        \* the row of the radio: a version of its configuration, or Deleted
  reg,           \* RegisteredRadio: [config, users, reserved]
  slot,          \* ManagedRadioSlot: [state, refs, config]
  running,       \* the tasks of run_managed_radio that have not returned
  pc,            \* where each session and the shutdown are
  config,        \* the configuration each session acquired the radio with
  heard,         \* the sessions subscribed to the shutdown, mapped to whether it was sent
  edit,          \* each HTTP request: [pc, to]
  torn,          \* history: a request was dropped between the row and the registry
  env

manager == <<slot, running>>
vars == <<stored, reg, manager, pc, config, heard, edit, torn, env>>

Absent == [state |-> "absent", refs |-> 0, config |-> Deleted]
NoEdit == [pc |-> "none", to |-> Deleted]

Init ==
  /\ stored = 1
  /\ reg = [config |-> 1, users |-> 0, reserved |-> FALSE]
  /\ slot = Absent /\ running = 0
  /\ pc = [p \in Procs |-> IF p = Host THEN "up" ELSE "idle"]
  /\ config = [s \in Sessions |-> Deleted]
  /\ heard = [s \in Sessions |-> FALSE]
  /\ edit = [e \in Editors |-> NoEdit]
  /\ torn = FALSE
  /\ env \in Worlds

-----------------------------------------------------------------------------
(* RadioManager::acquire.                                                   *)

(* RadioWebSocketState::acquire: the session counts as a user from here on. *)
Connect(s) ==
  /\ pc[s] = "idle" /\ pc[Host] = "up" /\ env.connects > 0
  /\ env' = [env EXCEPT !.connects = @ - 1]
  /\ IF reg.config = Deleted \/ reg.reserved
     THEN UNCHANGED <<reg, pc, config>>
     ELSE /\ reg' = [reg EXCEPT !.users = @ + 1]
          /\ config' = [config EXCEPT ![s] = reg.config]
          /\ pc' = [pc EXCEPT ![s] = "look"]
  /\ UNCHANGED <<stored, manager, heard, edit, torn>>

(* Mutant: a session that finds the radio running is not counted.           *)
SharesWithoutCounting(s) ==
  /\ slot.state = "active"
  /\ pc' = [pc EXCEPT ![s] = "granted"]
  /\ UNCHANGED <<slot, running>>

Shares(s) ==
  /\ slot.state = "active"
  /\ slot' = [slot EXCEPT !.refs = @ + 1]
  /\ pc' = [pc EXCEPT ![s] = "granted"]
  /\ UNCHANGED running

Starts(s) ==
  /\ slot.state = "absent"
  /\ slot' = [state |-> "active", refs |-> 1, config |-> config[s]]
  /\ running' = running + 1
  /\ pc' = [pc EXCEPT ![s] = "granted"]

(* The notification of a shutdown wakes those who wait for it at that time: *)
(* who finds the slot closing once it was sent has nothing to wait for.     *)
FoundClosing(s) ==
  /\ slot.state = "closing"
  /\ pc' = [pc EXCEPT ![s] = IF \E p \in Procs : pc[p] = "remove" THEN "stranded"
                                                                ELSE "toWait"]
  /\ UNCHANGED <<slot, running>>

(* The first look: an unknown radio has its devices checked first.          *)
Look(s) ==
  /\ pc[s] = "look"
  /\ \/ Shares(s)
     \/ FoundClosing(s)
     \/ /\ slot.state = "absent"
        /\ pc' = [pc EXCEPT ![s] = "check"]
        /\ UNCHANGED <<slot, running>>
  /\ UNCHANGED <<stored, reg, config, heard, edit, torn, env>>

BeginWait(s) ==
  /\ pc[s] = "toWait"
  /\ pc' = [pc EXCEPT ![s] = "waiting"]
  /\ UNCHANGED <<stored, reg, manager, config, heard, edit, torn, env>>

BeginCheck(s) ==
  /\ pc[s] = "check"
  /\ Cardinality({t \in Sessions : pc[t] = "checking"}) < Permits
  /\ pc' = [pc EXCEPT ![s] = "checking"]
  /\ UNCHANGED <<stored, reg, manager, config, heard, edit, torn, env>>

(* sanitize_radio_config has ended on its blocking thread: the second look. *)
Checked(s) ==
  /\ pc[s] = "checking"
  /\ Shares(s) \/ Starts(s) \/ FoundClosing(s)
  /\ UNCHANGED <<stored, reg, config, heard, edit, torn, env>>

FinishUse(r) == [r EXCEPT !.users = IF @ = 0 THEN 0 ELSE @ - 1]

CheckFails(s) ==
  /\ pc[s] = "checking" /\ env.failures > 0
  /\ env' = [env EXCEPT !.failures = @ - 1]
  /\ reg' = FinishUse(reg)
  /\ pc' = [pc EXCEPT ![s] = "idle"]
  /\ UNCHANGED <<stored, manager, config, heard, edit, torn>>

-----------------------------------------------------------------------------
(* handle_radio_socket, from the radio acquired to its release.             *)

(* The registrations for WSJT-X and digital input were made, the first      *)
(* messages were sent: the session listens for the shutdown from here on.   *)
Open(s) ==
  /\ pc[s] = "granted"
  /\ pc' = [pc EXCEPT ![s] = "open"]
  /\ heard' = [heard EXCEPT ![s] = FALSE]
  /\ UNCHANGED <<stored, reg, manager, config, edit, torn, env>>

(* A registration was refused, a first message could not be sent, the       *)
(* window went away.                                                        *)
Leave(s) ==
  /\ pc[s] \in {"granted", "open"}
  /\ pc' = [pc EXCEPT ![s] = "release"]
  /\ UNCHANGED <<stored, reg, manager, config, heard, edit, torn, env>>

HearShutdown(s) ==
  /\ pc[s] = "open" /\ heard[s]
  /\ pc' = [pc EXCEPT ![s] = "release"]
  /\ UNCHANGED <<stored, reg, manager, config, heard, edit, torn, env>>

-----------------------------------------------------------------------------
(* RadioManager::release, by a session or by the shutdown.                  *)

After(p) == IF p = Host THEN "stopping" ELSE "finish"

Release(p) ==
  /\ pc[p] = "release"
  /\ IF slot.state = "active"
     THEN LET refs == IF slot.refs = 0 THEN 0 ELSE slot.refs - 1 IN
          /\ slot' = [slot EXCEPT !.refs = refs,
                                  !.state = IF refs = 0 THEN "closing" ELSE "active"]
          /\ pc' = [pc EXCEPT ![p] = IF refs = 0 THEN "awaitTask" ELSE After(p)]
     ELSE /\ pc' = [pc EXCEPT ![p] = After(p)]
          /\ UNCHANGED slot
  /\ UNCHANGED <<stored, reg, running, config, heard, edit, torn, env>>

(* notify_waiters: a session that has seen the slot closing but has not     *)
(* begun to wait is not one of the waiters.                                 *)
Notified(p) ==
  [q \in Procs |-> CASE q = p -> "remove"
                      [] pc[q] = "waiting" -> "look"
                      [] pc[q] = "toWait" -> "stranded"
                      [] OTHER -> pc[q]]

(* Mutant: nobody is woken.                                                 *)
TaskReturnsSilently(p) ==
  /\ pc[p] = "awaitTask"
  /\ running' = running - 1
  /\ pc' = [pc EXCEPT ![p] = "remove"]
  /\ UNCHANGED <<stored, reg, slot, config, heard, edit, torn, env>>

(* The task has seen the shutdown and returned.                             *)
TaskReturns(p) ==
  /\ pc[p] = "awaitTask"
  /\ running' = running - 1
  /\ pc' = Notified(p)
  /\ UNCHANGED <<stored, reg, slot, config, heard, edit, torn, env>>

Remove(p) ==
  /\ pc[p] = "remove"
  /\ slot' = IF slot.state = "closing" THEN Absent ELSE slot
  /\ pc' = [pc EXCEPT ![p] = After(p)]
  /\ UNCHANGED <<stored, reg, running, config, heard, edit, torn, env>>

Finish(s) ==
  /\ pc[s] = "finish"
  /\ reg' = FinishUse(reg)
  /\ pc' = [pc EXCEPT ![s] = "idle"]
  /\ UNCHANGED <<stored, manager, config, heard, edit, torn, env>>

-----------------------------------------------------------------------------
(* SingleRadioWebSocketState::shutdown and RadioManager::shutdown_all.      *)

CloseSessions ==
  /\ pc[Host] = "up" /\ env.stops
  /\ heard' = [s \in Sessions |-> pc[s] = "open"]
  /\ pc' = [pc EXCEPT ![Host] = "listing"]
  /\ UNCHANGED <<stored, reg, manager, config, edit, torn, env>>

(* The radios known now are released until they are not active.             *)
ListRadios ==
  /\ pc[Host] = "listing"
  /\ pc' = [pc EXCEPT ![Host] = IF slot.state = "absent" THEN "down" ELSE "stopping"]
  /\ UNCHANGED <<stored, reg, manager, config, heard, edit, torn, env>>

(* Mutant: the shutdown waits for the sessions to release the radio.        *)
StopRadioWaits ==
  /\ pc[Host] = "stopping" /\ slot.state # "active"
  /\ pc' = [pc EXCEPT ![Host] = "down"]
  /\ UNCHANGED <<stored, reg, manager, config, heard, edit, torn, env>>

StopRadio ==
  /\ pc[Host] = "stopping"
  /\ pc' = [pc EXCEPT ![Host] = IF slot.state = "active" THEN "release" ELSE "down"]
  /\ UNCHANGED <<stored, reg, manager, config, heard, edit, torn, env>>

-----------------------------------------------------------------------------
(* update_radio and delete_radio.                                           *)

(* Mutant: the users of the radio are not looked at.                        *)
BeginMutationOfAUsedRadio(e) ==
  /\ edit[e].pc = "none" /\ env.edits > 0 /\ stored # Deleted
  /\ env' = [env EXCEPT !.edits = @ - 1]
  /\ IF reg.config = Deleted \/ reg.reserved
     THEN UNCHANGED <<reg, edit>>
     ELSE /\ reg' = [reg EXCEPT !.reserved = TRUE]
          /\ \E to \in {Deleted, stored + 1} :
               edit' = [edit EXCEPT ![e] = [pc |-> "reserved", to |-> to]]
  /\ UNCHANGED <<stored, manager, pc, config, heard, torn>>

BeginMutation(e) ==
  /\ edit[e].pc = "none" /\ env.edits > 0 /\ stored # Deleted
  /\ env' = [env EXCEPT !.edits = @ - 1]
  /\ IF reg.config = Deleted \/ reg.users > 0 \/ reg.reserved
     THEN UNCHANGED <<reg, edit>>
     ELSE /\ reg' = [reg EXCEPT !.reserved = TRUE]
          /\ \E to \in {Deleted, stored + 1} :
               edit' = [edit EXCEPT ![e] = [pc |-> "reserved", to |-> to]]
  /\ UNCHANGED <<stored, manager, pc, config, heard, torn>>

(* The database worker runs the statement whether or not the request is     *)
(* still waiting for it.                                                    *)
StoreEdit(e) ==
  /\ edit[e].pc = "reserved"
  /\ stored' = edit[e].to
  /\ edit' = [edit EXCEPT ![e].pc = "stored"]
  /\ UNCHANGED <<reg, manager, pc, config, heard, torn, env>>

(* commit_update and commit_delete.                                         *)
CommitEdit(e) ==
  /\ edit[e].pc = "stored"
  /\ reg' = [reg EXCEPT !.config = edit[e].to, !.reserved = FALSE]
  /\ edit' = [edit EXCEPT ![e] = NoEdit]
  /\ UNCHANGED <<stored, manager, pc, config, heard, torn, env>>

StoreFails(e) ==
  /\ edit[e].pc = "reserved" /\ env.failures > 0
  /\ env' = [env EXCEPT !.failures = @ - 1]
  /\ reg' = [reg EXCEPT !.reserved = FALSE]
  /\ edit' = [edit EXCEPT ![e] = NoEdit]
  /\ UNCHANGED <<stored, manager, pc, config, heard, torn>>

(* The client goes away and its request is dropped: the permit with it,     *)
(* whatever the database has done or, queued already, is going to do.       *)
DropEdit(e) ==
  /\ edit[e].pc \in {"reserved", "stored"} /\ env.drops > 0
  /\ env' = [env EXCEPT !.drops = @ - 1]
  /\ \E done \in {stored, edit[e].to} : stored' = done
  /\ torn' = (torn \/ stored' # reg.config)
  /\ reg' = [reg EXCEPT !.reserved = FALSE]
  /\ edit' = [edit EXCEPT ![e] = NoEdit]
  /\ UNCHANGED <<manager, pc, config, heard>>

-----------------------------------------------------------------------------
Session(s) ==
  \/ Look(s) \/ BeginWait(s) \/ BeginCheck(s) \/ Checked(s)
  \/ Open(s) \/ HearShutdown(s) \/ Finish(s)

Releasing(p) == Release(p) \/ TaskReturns(p) \/ Remove(p)

Shutdown == ListRadios \/ StopRadio

Edit(e) == StoreEdit(e) \/ CommitEdit(e)

Next ==
  \/ \E s \in Sessions : Connect(s) \/ Session(s) \/ CheckFails(s) \/ Leave(s)
  \/ \E p \in Procs : Releasing(p)
  \/ CloseSessions \/ Shutdown
  \/ \E e \in Editors : BeginMutation(e) \/ Edit(e) \/ StoreFails(e) \/ DropEdit(e)

Spec == Init /\ [][Next]_vars

(* Tasks that can go on do, a device check and the task of a radio end once *)
(* begun; windows connect, leave and edit when they like.                   *)
FairSpec ==
  /\ Spec
  /\ \A s \in Sessions : WF_vars(Session(s))
  /\ \A p \in Procs : WF_vars(Releasing(p))
  /\ WF_vars(Shutdown)
  /\ \A e \in Editors : WF_vars(Edit(e))

-----------------------------------------------------------------------------
Versions == Nat

TypeOK ==
  /\ stored \in Versions
  /\ reg \in [config : Versions, users : Nat, reserved : BOOLEAN]
  /\ slot \in [state : {"absent", "active", "closing"}, refs : Nat, config : Versions]
  /\ running \in Nat
  /\ pc \in [Procs -> {"idle", "look", "toWait", "waiting", "stranded", "check", "checking", "granted",
                       "open", "release", "awaitTask", "remove", "finish", "up", "listing",
                       "stopping", "down"}]
  /\ config \in [Sessions -> Versions]
  /\ heard \in [Sessions -> BOOLEAN]
  /\ edit \in [Editors -> [pc : {"none", "reserved", "stored"}, to : Versions]]
  /\ torn \in BOOLEAN

Holds(s) == pc[s] \in {"granted", "open", "release"}
Users == {s \in Sessions : pc[s] # "idle"}

(* Until the host stops, the radio is active exactly while a session holds  *)
(* it, counted once for each of them, with the configuration each of them   *)
(* was given: no session can lose its radio to another's release.  At no    *)
(* time do two tasks drive its devices (lifecycle.rs, acquire and release:  *)
(* the task is awaited before the slot is freed).                           *)
RadioServesItsSessions ==
  /\ running <= 1
  /\ pc[Host] = "up" =>
       LET holders == {s \in Sessions : Holds(s)} IN
       /\ (slot.state = "active") <=> (holders # {})
       /\ slot.refs = Cardinality(holders)
       /\ \A s \in holders : config[s] = slot.config

(* An edit takes hold of a radio nobody uses, and what runs is what the     *)
(* registry and, unless a request was dropped half-way, the table say       *)
(* (websocket.rs, begin_mutation and acquire; main.rs, update_radio).       *)
EditsWaitForUsers ==
  /\ reg.users = Cardinality(Users)
  /\ reg.reserved => reg.users = 0
  /\ slot.state # "absent" /\ pc[Host] = "up" => slot.config = reg.config
  /\ ~reg.reserved /\ ~torn => reg.config = stored

Acquiring(s) == pc[s] \in {"look", "toWait", "waiting", "check", "checking", "stranded"}

(* A session gets its radio or an error, unless it saw the radio closing    *)
(* and began to wait after the notification (lifecycle.rs, acquire:         *)
(* done.notified()).                                                        *)
ServedUnlessStranded ==
  \A s \in Sessions : Acquiring(s) ~> (~Acquiring(s) \/ pc[s] = "stranded")

(* What the message "waiting for managed radio shutdown to complete"        *)
(* (lifecycle.rs, acquire) promises: the wait ends.                         *)
WaitsForShutdownToComplete ==
  \A s \in Sessions : Acquiring(s) ~> ~Acquiring(s)

(* The shutdown of the host ends, and every session that was listening ends *)
(* (websocket.rs, SingleRadioWebSocketState::shutdown).                     *)
ShutdownEnds ==
  /\ (pc[Host] = "listing") ~> (pc[Host] = "down")
  /\ \A s \in Sessions : (pc[s] = "open" /\ heard[s]) ~> (pc[s] # "open")
=============================================================================
