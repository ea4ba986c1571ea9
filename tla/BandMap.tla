------------------------------- MODULE BandMap -------------------------------
(***************************************************************************)
(* The band map: the spots of the backend (bandmap.rs), the channel that   *)
(* carries their changes to a logger window (handle_socket and             *)
(* spawn_bandmap_websocket_subscription in main.rs) and the copy of one    *)
(* window (loggerScreen/useBandMap.js, domain/bandMap.js).                 *)
(*                                                                         *)
(* Every change of the store takes the next sequence under the lock of the *)
(* store and is broadcast after it; the window asks for a snapshot and     *)
(* follows the sequence from there, or asks again when it sees a gap.      *)
(*                                                                         *)
(* Abstractions: a message and the state updater it queues are one turn of *)
(* the window; which spots are too old is a choice of the environment; the *)
(* order and the frequencies of the spots on the screen are left out.      *)
(***************************************************************************)
EXTENDS Integers, Sequences, FiniteSets, SequencesExt

CONSTANTS
  Keys,         \* deduplication keys: what makes two spots the same
  Logs, NoLog,  \* logs with local spots; the log of a spot that all logs show
  LogOf,        \* the log of each key
  WindowLog,    \* the log of the window
  Values,       \* the visible fields of a spot
  Writers,      \* tasks that change the store: requests, bridge, pruning
  Buffer,       \* events the broadcast channel keeps (512)
  Direct,       \* messages the channel of the session keeps (32)
  MaxUnsent,    \* bound: events that are in the store and not yet broadcast
  MaxSequence,  \* bound: changes of the store
  Worlds        \* bounds of the window's world, see IsWorld

(* A world: whether the map is on at first, what is spotted; changes of the *)
(* store, switches of the map, losses of the socket, snapshots that fail.   *)
IsWorld(w) == IsFiniteSet(w.spotted) /\ w \in [enabled : BOOLEAN, spotted : SUBSET (Keys \X Values),
                     changes : 0 .. MaxSequence,
                     toggles : Nat, drops : Nat, failures : Nat]

ASSUME ConstantsAssumption ==
  /\ IsFiniteSet(Keys) /\ NoLog \notin Logs /\ WindowLog \in Logs
  /\ LogOf \in [Keys -> Logs \cup {NoLog}]
  /\ Buffer \in Nat \ {0} /\ Direct \in Nat \ {0}
  /\ MaxUnsent \in Nat /\ MaxSequence \in Nat
  /\ \A w \in Worlds : IsWorld(w)

VARIABLES
  store,    \* BandMapSpotStore: spots, next id, sequence
  past,     \* history: the spots after each change
  unsent,   \* events each writer has still to broadcast
  conn,     \* the socket and the backend's side of it
  win,      \* the window
  env       \* what is left of the world's bounds

vars == <<store, past, unsent, conn, win, env>>

-----------------------------------------------------------------------------
(* The store.  An operation is a function of a draft: the store with the    *)
(* events it has caused so far.                                             *)

Draft == [spots |-> store.spots, nextId |-> store.nextId,
          sequence |-> store.sequence, events |-> <<>>, past |-> past]

Changed(d, gone, spot, spots) ==
  [d EXCEPT !.spots = spots, !.sequence = @ + 1, !.past = Append(@, spots),
            !.events = Append(@, [sequence |-> d.sequence + 1, gone |-> gone, spot |-> spot])]

Removed(d, spot) == Changed(d, TRUE, spot, d.spots \ {spot})

(* A new spot gets the next id, a changed one keeps its id, and one that is *)
(* the same only gets younger: no event.                                    *)
Upserted(d, c) ==
  LET old == {s \in d.spots : s.key = c[1]}
      id == IF old = {} THEN d.nextId + 1 ELSE (CHOOSE s \in old : TRUE).id
      spot == [id |-> id, key |-> c[1], value |-> c[2]]
  IN IF spot \in old THEN d
     ELSE Changed([d EXCEPT !.nextId = IF old = {} THEN id ELSE @], FALSE, spot,
                  (d.spots \ old) \cup {spot})

RemovedAll(d, spots) ==
  LET draft[i \in 0 .. Len(spots)] == IF i = 0 THEN d ELSE Removed(draft[i - 1], spots[i])
  IN draft[Len(spots)]

UpsertedAll(d, all) ==
  LET draft[i \in 0 .. Len(all)] == IF i = 0 THEN d ELSE Upserted(draft[i - 1], all[i])
  IN draft[Len(all)]

(* Any spots may be too old, in the order of the time they were received.   *)
Orders(spots) == UNION {SetToSeqs(s) : s \in SUBSET spots}

TotalUnsent == FoldFunction(LAMBDA q, n : Len(q) + n, 0, unsent)

(* The writer leaves the lock with its events.                              *)
Publish(w, d) ==
  /\ d.sequence <= env.changes /\ TotalUnsent + Len(d.events) <= MaxUnsent
  /\ store' = [spots |-> d.spots, nextId |-> d.nextId, sequence |-> d.sequence]
  /\ past' = d.past
  /\ unsent' = [unsent EXCEPT ![w] = d.events]
  /\ UNCHANGED <<conn, win, env>>

Idle(w) == unsent[w] = <<>>

Prune(w) ==
  /\ Idle(w)
  /\ \E old \in Orders(store.spots) \ {<<>>} : Publish(w, RemovedAll(Draft, old))

UpsertSpot(w) ==
  /\ Idle(w)
  /\ \E old \in Orders(store.spots), c \in env.spotted :
       Publish(w, Upserted(RemovedAll(Draft, old), c))

DeleteSpot(w) ==
  /\ Idle(w)
  /\ \E s \in store.spots : Publish(w, Removed(Draft, s))

(* The local spots of a log become those of its contacts: the others of the *)
(* log go, those an operator saved by hand too.                             *)
SyncLog(w) ==
  /\ Idle(w)
  /\ \E old \in Orders(store.spots), log \in Logs :
     LET local == {c \in env.spotted : LogOf[c[1]] = log}
     IN \E desired \in Orders(local) :
          /\ IsInjective([i \in DOMAIN desired |-> desired[i][1]])
          /\ LET put == UpsertedAll(RemovedAll(Draft, old), desired)
                 rest == {s \in put.spots : LogOf[s.key] = log
                            /\ \A i \in DOMAIN desired : desired[i][1] # s.key}
             IN \E order \in SetToSeqs(rest) : Publish(w, RemovedAll(put, order))

-----------------------------------------------------------------------------
(* The channel.                                                             *)

NoMessage == [type |-> "none"]
Ready == [type |-> "bandmap_subscription_ready"]

Visible(spot) == LogOf[spot.key] \in {NoLog, WindowLog}
Snapshot(spots) == {s \in spots : Visible(s)}

(* lagged is history: the window does not see where the sequence is from.   *)
SequenceMessage(n, lagged) ==
  [type |-> "bandmap_sequence", sequence |-> n, lagged |-> lagged]

MessageOf(e) ==
  IF e.gone THEN [type |-> "bandmap_spot_deleted", sequence |-> e.sequence, id |-> e.spot.id]
  ELSE IF Visible(e.spot)
       THEN [type |-> "bandmap_spot", sequence |-> e.sequence, spot |-> e.spot]
       ELSE SequenceMessage(e.sequence, FALSE)

(* Between open and close: the commands to the session, whether it has a    *)
(* subscription, its receiver (feed, lagged), the message the subscription  *)
(* waits to push, the Ready the handler waits to push, the messages to the  *)
(* window.                                                                  *)
Session(commands) ==
  [open |-> TRUE, commands |-> commands, enabled |-> FALSE, feed |-> <<>>,
   lagged |-> FALSE, held |-> NoMessage, readying |-> FALSE, wire |-> <<>>]

Closed == [Session(<<>>) EXCEPT !.open = FALSE]

(* A receiver that is Buffer events behind loses the oldest one.            *)
Broadcast(w) ==
  /\ ~Idle(w)
  /\ unsent' = [unsent EXCEPT ![w] = Tail(@)]
  /\ LET feed == Append(conn.feed, Head(unsent[w]))
         full == Len(feed) > Buffer
     IN conn' = IF conn.enabled
                THEN [conn EXCEPT !.feed = IF full THEN Tail(feed) ELSE feed,
                                  !.lagged = @ \/ full]
                ELSE conn
  /\ UNCHANGED <<store, past, win, env>>

ServerStep == UNCHANGED <<store, past, unsent, win, env>>

Handle ==
  /\ conn.commands # <<>> /\ ~conn.readying
  /\ LET c == Head(conn.commands)
         heard == [conn EXCEPT !.commands = Tail(@)]
     IN conn' = IF c = conn.enabled THEN heard
                ELSE [heard EXCEPT !.enabled = c, !.feed = <<>>, !.lagged = FALSE,
                                   !.held = NoMessage, !.readying = c]
  /\ ServerStep

PushReady ==
  /\ conn.readying /\ Len(conn.wire) < Direct
  /\ conn' = [conn EXCEPT !.readying = FALSE, !.wire = Append(@, Ready)]
  /\ ServerStep

Receive ==
  /\ conn.held = NoMessage /\ (conn.lagged \/ conn.feed # <<>>)
  /\ conn' = IF conn.lagged
             THEN [conn EXCEPT !.lagged = FALSE, !.held = SequenceMessage(store.sequence, TRUE)]
             ELSE [conn EXCEPT !.feed = Tail(@), !.held = MessageOf(Head(conn.feed))]
  /\ ServerStep

Push ==
  /\ conn.held # NoMessage /\ Len(conn.wire) < Direct
  /\ conn' = [conn EXCEPT !.held = NoMessage, !.wire = Append(@, conn.held)]
  /\ ServerStep

-----------------------------------------------------------------------------
(* The window.  Its functions map the window to the window.  A fetch is     *)
(* current until the next reset (generation); snapshot is what it answers.  *)

Unserved == -1

Refresh(x) ==
  IF ~x.enabled \/ x.inFlight THEN x
  ELSE [x EXCEPT !.inFlight = TRUE, !.status = "loading_snapshot",
                 !.fetches = Append(@, [current |-> TRUE, snapshot |-> Unserved])]

Reset(x, status) ==
  [x EXCEPT !.status = status, !.sequence = 0, !.buffered = <<>>, !.inFlight = FALSE,
            !.fetches = [i \in DOMAIN @ |-> [@[i] EXCEPT !.current = FALSE]],
            !.readies = 0, !.failed = FALSE, !.misled = FALSE]

Restarted(x) == Reset([x EXCEPT !.shown = {}], "awaiting_ready")

Reported(m) == m.type = "bandmap_sequence" /\ m.lagged

(* applyBandMapSequenceMessage.  misled is history: the report of a session *)
(* that lagged was taken for the next change.                               *)
Shown(m, shown) ==
  CASE m.type = "bandmap_spot" -> {s \in shown : s.id # m.spot.id} \cup {m.spot}
    [] m.type = "bandmap_spot_deleted" -> {s \in shown : s.id # m.id}
    [] m.type = "bandmap_sequence" -> shown

(* Mutant: every later message is applied, the next one or not.             *)
AppliedAnyLater(view, m) ==
  IF view.gap \/ m.sequence <= view.sequence THEN view
  ELSE [view EXCEPT !.sequence = m.sequence, !.shown = Shown(m, @), !.misled = @ \/ Reported(m)]

Applied(view, m) ==
  IF view.gap \/ m.sequence <= view.sequence THEN view
  ELSE IF m.sequence # view.sequence + 1 THEN [view EXCEPT !.gap = TRUE]
  ELSE [view EXCEPT !.sequence = m.sequence, !.shown = Shown(m, @), !.misled = @ \/ Reported(m)]

AppliedAll(view, messages) ==
  LET after[i \in 0 .. Len(messages)] ==
        IF i = 0 THEN view ELSE Applied(after[i - 1], messages[i])
  IN after[Len(messages)]

View(shown, sequence, misled) ==
  [shown |-> shown, sequence |-> sequence, misled |-> misled, gap |-> FALSE]

WithView(x, view) ==
  [x EXCEPT !.shown = view.shown, !.sequence = view.sequence, !.misled = view.misled]

(* handleSocketMessage.                                                     *)
Handled(x, m) ==
  IF m = Ready
  THEN IF x.enabled THEN [Refresh(x) EXCEPT !.readies = IF @ = 2 THEN 2 ELSE @ + 1] ELSE x
  ELSE IF x.status # "live" THEN [x EXCEPT !.buffered = Append(@, m)]
  ELSE LET view == Applied(View(x.shown, x.sequence, x.misled), m)
       IN IF view.gap
          THEN Refresh([x EXCEPT !.status = "loading_snapshot", !.buffered = <<>>])
          ELSE WithView(x, view)

Past(n) == IF n = 0 THEN {} ELSE past[n]

(* Mutant: the fetch after a gap meets the mark of the one that found it.   *)
LoadedMarked(x, n) ==
  LET view == AppliedAll(View(Snapshot(Past(n)), n, FALSE), x.buffered)
      emptied == [x EXCEPT !.buffered = <<>>]
  IN IF view.gap THEN [Refresh(emptied) EXCEPT !.inFlight = FALSE]
     ELSE WithView([emptied EXCEPT !.inFlight = FALSE, !.status = "live"], view)

(* The answer of a current fetch.  After a gap in the buffered messages a   *)
(* second fetch begins, and the end of the first one clears its mark.       *)
Loaded(x, n) ==
  LET view == AppliedAll(View(Snapshot(Past(n)), n, FALSE), x.buffered)
      emptied == [x EXCEPT !.buffered = <<>>, !.inFlight = FALSE]
  IN IF view.gap THEN [Refresh(emptied) EXCEPT !.inFlight = FALSE]
     ELSE WithView([emptied EXCEPT !.status = "live"], view)

Refused(x) == [x EXCEPT !.status = "awaiting_ready", !.inFlight = FALSE, !.failed = TRUE]

-----------------------------------------------------------------------------
(* Steps of the window and the network.                                     *)

Deliver ==
  /\ conn.wire # <<>>
  /\ conn' = [conn EXCEPT !.wire = Tail(@)]
  /\ win' = Handled(win, Head(conn.wire))
  /\ UNCHANGED <<store, past, unsent, env>>

WindowStep == UNCHANGED <<store, past, unsent, conn, env>>

(* bandmap_spots: the sequence and the spots under one lock.                *)
Serve(i) ==
  /\ win.fetches[i].snapshot = Unserved
  /\ win' = [win EXCEPT !.fetches[i].snapshot = store.sequence]
  /\ WindowStep

Ended(i) == [win EXCEPT !.fetches = RemoveAt(@, i)]

(* An answer that is not current is ignored.                                *)
Answer(i) ==
  /\ win.fetches[i].snapshot # Unserved
  /\ win' = IF win.enabled /\ win.fetches[i].current
            THEN Loaded(Ended(i), win.fetches[i].snapshot)
            ELSE Ended(i)
  /\ WindowStep

Fail(i) ==
  /\ env.failures > 0
  /\ env' = [env EXCEPT !.failures = @ - 1]
  /\ win' = IF win.fetches[i].current THEN Refused(Ended(i)) ELSE Ended(i)
  /\ UNCHANGED <<store, past, unsent, conn>>

(* The effect of the setting; the command is dropped without a socket.      *)
Toggle ==
  /\ env.toggles > 0
  /\ env' = [env EXCEPT !.toggles = @ - 1]
  /\ LET x == [win EXCEPT !.enabled = ~@]
     IN win' = IF x.enabled THEN Restarted(x) ELSE Reset(x, "idle")
  /\ conn' = IF conn.open THEN [conn EXCEPT !.commands = Append(@, ~win.enabled)] ELSE conn
  /\ UNCHANGED <<store, past, unsent>>

(* handleSocketOpenReload.                                                  *)
Open ==
  /\ ~conn.open
  /\ conn' = Session(IF win.enabled THEN <<TRUE>> ELSE <<>>)
  /\ win' = IF win.enabled THEN Restarted(win) ELSE win
  /\ UNCHANGED <<store, past, unsent, env>>

Drop ==
  /\ conn.open /\ env.drops > 0
  /\ env' = [env EXCEPT !.drops = @ - 1]
  /\ conn' = Closed
  /\ UNCHANGED <<store, past, unsent, win>>

-----------------------------------------------------------------------------
Init ==
  /\ store = [spots |-> {}, nextId |-> 0, sequence |-> 0]
  /\ past = <<>>
  /\ unsent = [w \in Writers |-> <<>>]
  /\ conn = Closed
  /\ env \in Worlds
  /\ win = [enabled |-> env.enabled,
            status |-> IF env.enabled THEN "awaiting_ready" ELSE "idle",
            sequence |-> 0, buffered |-> <<>>, inFlight |-> FALSE, fetches |-> <<>>,
            shown |-> {}, readies |-> 0, failed |-> FALSE, misled |-> FALSE]

Change(w) == Prune(w) \/ UpsertSpot(w) \/ DeleteSpot(w) \/ SyncLog(w)

Fetching(i) == Serve(i) \/ Answer(i) \/ Fail(i)

Next ==
  \/ \E w \in Writers : Change(w) \/ Broadcast(w)
  \/ Handle \/ PushReady \/ Receive \/ Push
  \/ Deliver \/ Toggle \/ Open \/ Drop
  \/ \E i \in DOMAIN win.fetches : Fetching(i)

Spec == Init /\ [][Next]_vars

(* Tasks that can go on are polled, the browser delivers, the backend       *)
(* answers, the socket is opened again (ReconnectingSocket, NeverStranded). *)
Fairness ==
  /\ \A w \in Writers : WF_vars(Broadcast(w))
  /\ WF_vars(Handle) /\ WF_vars(PushReady) /\ WF_vars(Receive) /\ WF_vars(Push)
  /\ WF_vars(Deliver) /\ WF_vars(Open)
  /\ WF_vars(\E i \in DOMAIN win.fetches : Serve(i))
  /\ WF_vars(\E i \in DOMAIN win.fetches : Answer(i))

FairSpec == Spec /\ Fairness

-----------------------------------------------------------------------------
(* Properties.                                                              *)

Spot == [id : 1 .. MaxSequence, key : Keys, value : Values]

(* A live window shows what the store held after the change it has reached, *)
(* neither more nor less, whatever order the writers' events came in, was   *)
(* skipped by a slow session or crossed the snapshot (useBandMap.js 47-89,  *)
(* 189-220).  The exception: a session that lagged reports the current      *)
(* sequence although that change is still in its channel or was lost; a     *)
(* window exactly one behind takes the report for a change without content. *)
ShowsAPrefix ==
  win.status = "live" /\ ~win.misled => win.shown = Snapshot(Past(win.sequence))

InFlight ==
  {m.sequence : m \in (ToSet(conn.wire) \cup {conn.held}) \ {Ready, NoMessage}}
    \cup {e.sequence : e \in ToSet(conn.feed) \cup UNION {ToSet(unsent[w]) : w \in Writers}}

ReadyComes == TRUE \in ToSet(conn.commands) \/ conn.readying \/ Ready \in ToSet(conn.wire)

(* A live window that is behind the store hears of it: the latest change is *)
(* on its way, the session is about to report that it lagged, or a Ready    *)
(* will make the window load again.  The exception is a window that got two *)
(* Readies since it started from nothing, because the map was switched off  *)
(* and on in a moment: the second one may meet the fetch of the first.      *)
BehindWillHear ==
  win.status = "live" /\ conn.open /\ win.readies < 2 /\ win.sequence < store.sequence
    => conn.lagged \/ store.sequence \in InFlight \/ ReadyComes

Settled ==
  conn.open /\ win.enabled /\ ~win.failed
    => /\ win.status = "live"
       /\ win.readies < 2 /\ ~win.misled => win.shown = Snapshot(store.spots)

(* A window that is behind hears of it, and when the changes end, a         *)
(* connected window with the map on becomes live and shows the store,       *)
(* unless its last snapshot failed: that is not tried again (useBandMap.js  *)
(* 221-234).                                                                *)
Settles == [](BehindWillHear /\ <>[]Settled)
=============================================================================
