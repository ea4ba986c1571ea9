------------------------------ MODULE DxCluster ------------------------------
(***************************************************************************)
(* The client of the DX cluster (backend/src/dxcluster.rs): its manager,   *)
(* the task of a configuration, the store of spots and the texts the       *)
(* windows send, with the bridge that carries its events to the band map   *)
(* (backend/src/main.rs).  The cluster and its connection are external.    *)
(*                                                                         *)
(* A task is told to abort and not waited for: it may go on beside its     *)
(* successor.  Events are sent after the store was let go.                 *)
(*                                                                         *)
(* Abstraction: stop_task and apply_config take the locks of the state and *)
(* of the channel one after the other; here the two change in one step, as *)
(* only send_text reads them both, and only with the state first.          *)
(***************************************************************************)
EXTENDS Naturals, Sequences, FiniteSets, SequencesExt

CONSTANTS
  Heard,        \* what the cluster may report: [call, tenth], tenth in units of 100 Hz
  MaxAge,       \* ticks a spot is kept
  DxBuffer,     \* DXCLUSTER_EVENT_BUFFER
  DxWorlds      \* bounds: [configs, drops, lines, clears, manuals, ticks, breaks, sends]; configs:
                \* whether the cluster is enabled in each configuration that will be applied

Tasks == 1..3                          \* bound: tasks that were started
Requests == 0                          \* the routes that change the store
Speakers == Tasks \cup {Requests}

VARIABLES
  applying,     \* apply_config: [step, enabled, task]
  dxTask,       \* tasks: [state, aborted, once, commands]
  handle,       \* DxClusterManagerInner.task, 0 for none
  outbound,     \* DxClusterManagerInner.outbound, the task whose channel it is
  dxState,      \* DxClusterManagerInner.connection_state
  store,        \* the spots by time: [id, call, tenth, at]; the indexes are functions of it
  nextId,
  dxClock,
  says,         \* events that a task or a request has yet to send
  dxEvents,     \* events the bridge has yet to read
  onMap,        \* the spots of the cluster on the band map
  outrun,       \* history: events were sent after later ones, or skipped
  current,      \* history: the task of the last configuration, 0 if it has none
  sends,        \* send_text: [state, to]
  dxEnv

dxVars == <<applying, dxTask, handle, outbound, dxState, store, nextId, dxClock, says, dxEvents, onMap,
            outrun, current, sends, dxEnv>>
storeVars == <<store, nextId, says, outrun>>
taskVars == <<applying, dxTask, handle, outbound, dxState, current, sends>>

NoTask == [state |-> "none", aborted |-> FALSE, once |-> FALSE, commands |-> <<>>]
Resting == [step |-> "idle", enabled |-> FALSE, task |-> 0]

DxInit ==
  /\ dxEnv \in DxWorlds
  /\ applying = Resting /\ dxTask = [k \in Tasks |-> NoTask] /\ handle = 0 /\ outbound = 0
  /\ dxState = "stopped" /\ store = <<>> /\ nextId = 0 /\ dxClock = 0
  /\ says = [p \in Speakers |-> <<>>] /\ dxEvents = <<>> /\ onMap = {}
  /\ outrun = FALSE /\ current = 0 /\ sends = <<>>

SpendDx(what) == dxEnv[what] > 0 /\ dxEnv' = [dxEnv EXCEPT ![what] = @ - 1]

-----------------------------------------------------------------------------
(* The store.                                                               *)

Added(spot) == [kind |-> "added", id |-> spot.id]
Deleted(id) == [kind |-> "deleted", id |-> id]
DeletedAll(spots) == [i \in 1..Len(spots) |-> Deleted(spots[i].id)]

(* find_duplicate_id; the first of them, the ids of a call are in order.    *)
IsDuplicate(spot, dx) ==
  spot.call = dx.call /\ spot.tenth <= dx.tenth + 1 /\ dx.tenth <= spot.tenth + 1
Duplicates(spots, dx) == {s \in ToSet(spots) : IsDuplicate(s, dx)}
Without(spots, id) == RemoveAt(spots, CHOOSE i \in 1..Len(spots) : spots[i].id = id)

(* A spot that is refreshed goes to the end.                                *)
Refreshed(spots, new) == Append(Without(spots, new.id), new)

(* DxClusterSpotStore::add.                                                 *)
SpotFor(spots, dx) ==
  LET same == Duplicates(spots, dx)
      id == IF same = {} THEN nextId + 1
            ELSE (CHOOSE s \in same : \A t \in same : s.id <= t.id).id
  IN [id |-> id, call |-> dx.call, tenth |-> dx.tenth, at |-> dxClock]
StoreWith(spots, spot) ==
  IF \E s \in ToSet(spots) : s.id = spot.id THEN Refreshed(spots, spot) ELSE Append(spots, spot)

(* prune: from the oldest to the first that is young enough.               *)
IsOld(spot) == spot.at + MaxAge < dxClock
OldCount(spots) ==
  CHOOSE n \in 0..Len(spots) : /\ \A i \in 1..n : IsOld(spots[i])
                               /\ n < Len(spots) => ~IsOld(spots[n + 1])
Pruned(spots) == SubSeq(spots, OldCount(spots) + 1, Len(spots))

Prunes(spots) == DeletedAll(SubSeq(spots, 1, OldCount(spots)))

(* A change of the store, by p, who will send the events.  Whoever has not  *)
(* sent his yet may be late with them.                                      *)
ChangeStore(p, spots, events) ==
  /\ store' = spots
  /\ says' = [says EXCEPT ![p] = events]
  /\ outrun' = (outrun \/ (events # <<>> /\ \E q \in Speakers \ {p} : says[q] # <<>>))

AddSpot(p, spots, dx, pruned) ==
  LET spot == SpotFor(spots, dx)
  IN /\ ChangeStore(p, StoreWith(spots, spot), Append(pruned, Added(spot)))
     /\ nextId' = IF spot.id > nextId THEN spot.id ELSE nextId

(* broadcast::Sender::send; a bridge that lags skips the oldest.            *)
Say(p) ==
  /\ says[p] # <<>>
  /\ LET all == Append(dxEvents, Head(says[p]))
     IN /\ dxEvents' = IF Len(all) > DxBuffer THEN Tail(all) ELSE all
        /\ outrun' = (outrun \/ Len(all) > DxBuffer)
  /\ says' = [says EXCEPT ![p] = Tail(@)]
  /\ UNCHANGED <<taskVars, store, nextId, dxClock, onMap, dxEnv>>

(* spawn_dxcluster_bandmap_bridge.                                          *)
Bridge ==
  /\ dxEvents # <<>>
  /\ LET e == Head(dxEvents)
     IN onMap' = IF e.kind = "added" THEN onMap \cup {e.id} ELSE onMap \ {e.id}
  /\ dxEvents' = Tail(dxEvents)
  /\ UNCHANGED <<taskVars, storeVars, dxClock, dxEnv>>

(* add_manual_spot and clear_spots, for requests.                           *)
ManualSpot ==
  /\ says[Requests] = <<>>
  /\ SpendDx("manuals")
  /\ \E dx \in Heard : AddSpot(Requests, store, dx, <<>>)
  /\ UNCHANGED <<taskVars, dxClock, dxEvents, onMap>>

ClearSpots ==
  /\ says[Requests] = <<>> /\ store # <<>>
  /\ SpendDx("clears")
  /\ ChangeStore(Requests, <<>>, DeletedAll(store))
  /\ UNCHANGED <<taskVars, nextId, dxClock, dxEvents, onMap>>

-----------------------------------------------------------------------------
(* apply_config, for the update of the configuration, under its lock.       *)

NextConfig(enabled) ==
  /\ dxEnv.configs # <<>> /\ Head(dxEnv.configs) = enabled
  /\ dxEnv' = [dxEnv EXCEPT !.configs = Tail(@)]

(* What a task that ends leaves in its channel is answered by its fall.     *)
Failing(ids) == [n \in 1..Len(sends) |-> IF n \in ids THEN [sends[n] EXCEPT !.state = "failed"] ELSE sends[n]]

(* Mutant: the channel of the old task is left to the next one.             *)
StopTaskKeepsChannel ==
  /\ applying.step = "idle"
  /\ \E enabled \in BOOLEAN : /\ NextConfig(enabled)
                              /\ applying' = [step |-> "stop", enabled |-> enabled, task |-> 0]
  /\ dxState' = "stopped" /\ current' = 0
  /\ UNCHANGED <<outbound, dxTask, handle, storeVars, dxClock, dxEvents, onMap, sends>>

(* stop_task: the state and the channel first.                              *)
StopTask ==
  /\ applying.step = "idle"
  /\ \E enabled \in BOOLEAN : /\ NextConfig(enabled)
                              /\ applying' = [step |-> "stop", enabled |-> enabled, task |-> 0]
  /\ dxState' = "stopped" /\ outbound' = 0 /\ current' = 0
  /\ UNCHANGED <<dxTask, handle, storeVars, dxClock, dxEvents, onMap, sends>>

(* Then the task.  It ends when it waits the next time.                     *)
AbortTask ==
  /\ applying.step = "stop"
  /\ dxTask' = IF handle = 0 THEN dxTask ELSE [dxTask EXCEPT ![handle].aborted = TRUE]
  /\ handle' = 0
  /\ applying' = IF applying.enabled THEN [applying EXCEPT !.step = "start"] ELSE Resting
  /\ UNCHANGED <<outbound, dxState, storeVars, dxClock, dxEvents, onMap, current, sends, dxEnv>>

StartTask ==
  /\ applying.step = "start"
  /\ \E k \in Tasks :
       /\ dxTask[k].state = "none" /\ \A j \in 1..(k - 1) : dxTask[j].state # "none"
       /\ dxTask' = [dxTask EXCEPT ![k].state = "begin"]
       /\ outbound' = k /\ current' = k
       /\ applying' = [applying EXCEPT !.step = "keep", !.task = k]
  /\ dxState' = "connecting"
  /\ UNCHANGED <<handle, storeVars, dxClock, dxEvents, onMap, sends, dxEnv>>

KeepHandle ==
  /\ applying.step = "keep"
  /\ handle' = applying.task /\ applying' = Resting
  /\ UNCHANGED <<dxTask, outbound, dxState, storeVars, dxClock, dxEvents, onMap, current, sends, dxEnv>>

(* The request is dropped between two of these steps.                       *)
DropApply ==
  /\ applying.step # "idle"
  /\ SpendDx("drops")
  /\ applying' = Resting
  /\ UNCHANGED <<dxTask, handle, outbound, dxState, storeVars, dxClock, dxEvents, onMap, current, sends>>

-----------------------------------------------------------------------------
(* run_dxcluster_task.                                                      *)

MayRun(k) == says[k] = <<>>
ChannelClosed(k) ==
  outbound # k /\ dxTask[k].commands = <<>> /\ \A n \in 1..Len(sends) : ~(sends[n].state = "cloned" /\ sends[n].to = k)
EndTask(k) == [dxTask EXCEPT ![k] = [NoTask EXCEPT !.state = "ended"]]
ButTheTask == UNCHANGED <<applying, handle, outbound, current>>

(* The abort takes effect: nothing of the task is left.                     *)
AbortTakes(k) ==
  /\ dxTask[k].aborted /\ dxTask[k].state # "ended"
  /\ dxTask' = EndTask(k) /\ sends' = Failing(ToSet(dxTask[k].commands))
  /\ says' = [says EXCEPT ![k] = <<>>]
  /\ outrun' = (outrun \/ says[k] # <<>>)
  /\ UNCHANGED <<dxState, store, nextId, dxClock, dxEvents, onMap, dxEnv>> /\ ButTheTask

(* The loop: it prunes and says that it connects.                           *)
BeginConnect(k) ==
  /\ dxTask[k].state = "begin" /\ MayRun(k)
  /\ ChangeStore(k, Pruned(store), Prunes(store))
  /\ dxState' = IF dxTask[k].once THEN "reconnecting" ELSE "connecting"
  /\ dxTask' = [dxTask EXCEPT ![k].state = "connecting"]
  /\ UNCHANGED <<nextId, dxClock, dxEvents, onMap, sends, dxEnv>> /\ ButTheTask

(* Listener::listen.                                                        *)
Connects(k) ==
  /\ dxTask[k].state = "connecting" /\ MayRun(k)
  /\ dxState' = "connected"
  /\ dxTask' = [dxTask EXCEPT ![k].state = "session"]
  /\ UNCHANGED <<storeVars, dxClock, dxEvents, onMap, sends, dxEnv>> /\ ButTheTask

(* It fails, or the session breaks.                                         *)
Breaks(k) ==
  /\ dxTask[k].state \in {"connecting", "session"} /\ MayRun(k)
  /\ SpendDx("breaks")
  /\ dxState' = "reconnecting"
  /\ dxTask' = [dxTask EXCEPT ![k].state = "waiting", ![k].once = TRUE]
  /\ UNCHANGED <<storeVars, dxClock, dxEvents, onMap, sends>> /\ ButTheTask

(* wait_for_dxcluster_reconnect is over.                                    *)
Reconnect(k) ==
  /\ dxTask[k].state = "waiting"
  /\ dxTask' = [dxTask EXCEPT ![k].state = "begin"]
  /\ UNCHANGED <<dxState, storeVars, dxClock, dxEvents, onMap, sends, dxEnv>> /\ ButTheTask

(* A command: it is sent in a session, refused while the task waits.        *)
TaskSends(k) ==
  /\ dxTask[k].state \in {"session", "waiting"} /\ MayRun(k) /\ dxTask[k].commands # <<>>
  /\ LET n == Head(dxTask[k].commands)
     IN sends' = [sends EXCEPT ![n].state = IF dxTask[k].state = "session" THEN "sent" ELSE "failed"]
  /\ dxTask' = [dxTask EXCEPT ![k].commands = Tail(@)]
  /\ UNCHANGED <<dxState, storeVars, dxClock, dxEvents, onMap, dxEnv>> /\ ButTheTask

ChannelEnds(k) ==
  /\ dxTask[k].state \in {"session", "waiting"} /\ MayRun(k) /\ ChannelClosed(k)
  /\ dxTask' = EndTask(k) /\ dxState' = "stopped"
  /\ UNCHANGED <<storeVars, dxClock, dxEvents, onMap, sends, dxEnv>> /\ ButTheTask

(* handle_cluster_line, for a spot: add_dx_spot.                            *)
ClusterLine(k) ==
  /\ dxTask[k].state = "session" /\ MayRun(k)
  /\ SpendDx("lines")
  /\ \E dx \in Heard : AddSpot(k, Pruned(store), dx, Prunes(store))
  /\ UNCHANGED <<taskVars, dxClock, dxEvents, onMap>>

PruneTick(k) ==
  /\ dxTask[k].state = "session" /\ MayRun(k) /\ OldCount(store) > 0
  /\ ChangeStore(k, Pruned(store), Prunes(store))
  /\ UNCHANGED <<taskVars, nextId, dxClock, dxEvents, onMap, dxEnv>>

-----------------------------------------------------------------------------
(* send_text, for a window.                                                 *)

SendText ==
  /\ SpendDx("sends")
  /\ sends' = Append(sends, [state |-> IF dxState \in {"connecting", "reconnecting"} THEN "failed"
                                       ELSE "asked", to |-> 0])
  /\ UNCHANGED <<applying, dxTask, handle, outbound, dxState, storeVars, dxClock, dxEvents, onMap, current>>

CloneSender(n) ==
  /\ n <= Len(sends) /\ sends[n].state = "asked"
  /\ sends' = [sends EXCEPT ![n] = [state |-> IF outbound = 0 THEN "failed" ELSE "cloned", to |-> outbound]]
  /\ UNCHANGED <<applying, dxTask, handle, outbound, dxState, storeVars, dxClock, dxEvents, onMap, current,
                 dxEnv>>

QueueText(n) ==
  /\ n <= Len(sends) /\ sends[n].state = "cloned"
  /\ LET k == sends[n].to
         ended == dxTask[k].state = "ended"
     IN /\ sends' = [sends EXCEPT ![n].state = IF ended THEN "failed" ELSE "queued"]
        /\ dxTask' = IF ended THEN dxTask ELSE [dxTask EXCEPT ![k].commands = Append(@, n)]
  /\ UNCHANGED <<applying, handle, outbound, dxState, storeVars, dxClock, dxEvents, onMap, current, dxEnv>>

DxTick ==
  /\ SpendDx("ticks")
  /\ dxClock' = dxClock + 1
  /\ UNCHANGED <<taskVars, storeVars, dxEvents, onMap>>

-----------------------------------------------------------------------------
Apply == AbortTask \/ StartTask \/ KeepHandle
DxTaskSteps(k) ==
  AbortTakes(k) \/ BeginConnect(k) \/ Reconnect(k) \/ TaskSends(k) \/ ChannelEnds(k) \/ PruneTick(k)
SendSteps(n) == CloneSender(n) \/ QueueText(n)
MaxSends == 2

DxNext ==
  \/ StopTask \/ Apply \/ DropApply
  \/ \E k \in Tasks : DxTaskSteps(k) \/ Connects(k) \/ Breaks(k) \/ ClusterLine(k)
  \/ \E p \in Speakers : Say(p)
  \/ Bridge \/ ManualSpot \/ ClearSpots \/ DxTick \/ SendText
  \/ \E n \in 1..MaxSends : SendSteps(n)

DxSpec == DxInit /\ [][DxNext]_dxVars

-----------------------------------------------------------------------------
MapShowsTheStore ==
  dxEvents = <<>> /\ (\A p \in Speakers : says[p] = <<>>) =>
    outrun \/ onMap = {s.id : s \in ToSet(store)}

OldSpotsAreFound ==
  \A i, j \in 1..Len(store) : i < j => store[i].at <= store[j].at /\ store[i].id # store[j].id

(* The spots stay in the order of their age while they are refreshed, so    *)
(* that pruning from the oldest on finds every one that is too old          *)
(* (DxClusterSpotStore::add and prune); and when all events were read, the  *)
(* band map shows the spots of the store: no spot that was refreshed,       *)
(* pruned or cleared stays behind, whoever did it.  The exceptions are      *)
(* events that were sent after those of a later change, and events that the *)
(* bridge skipped (add_dx_spot, spawn_dxcluster_bandmap_bridge).            *)
MapFollowsTheStore == OldSpotsAreFound /\ MapShowsTheStore

(* Nothing is left to do: no step of a task that lasts.  A connection is    *)
(* made or fails in 15 s.                                                   *)
DxAtRest ==
  /\ applying.step = "idle" /\ \A p \in Speakers : says[p] = <<>>
  /\ \A n \in 1..Len(sends) : sends[n].state \notin {"asked", "cloned"}
  /\ \A k \in Tasks :
       /\ dxTask[k].state \in {"none", "session", "ended"}
       /\ dxTask[k].aborted => dxTask[k].state = "ended"
       /\ dxTask[k].state = "session" =>
            dxTask[k].commands = <<>> /\ ~ChannelClosed(k) /\ OldCount(store) = 0

(* In the end the task of the last configuration runs, and no other: those  *)
(* of earlier ones have ended, aborted or by their channel, also one whose  *)
(* request was dropped before it could keep the handle; and a text that was *)
(* handed to one of them is answered (apply_config, stop_task).             *)
OneListener ==
  DxAtRest =>
    /\ \A k \in Tasks : (dxTask[k].state \in {"begin", "connecting", "session", "waiting"}) = (current = k)
    /\ \A n \in 1..Len(sends) : sends[n].state # "queued"

(* The last configuration has the only task, and what it hears, and what    *)
(* operators and the clock do to the spots, reaches the map.                *)
ClusterIsFollowed == MapFollowsTheStore /\ OneListener
=============================================================================
