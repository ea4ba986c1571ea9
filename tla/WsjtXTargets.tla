----------------------------- MODULE WsjtXTargets -----------------------------
(***************************************************************************)
(* Which logger window gets the contacts that WSJT-X logs: the manager and *)
(* the UDP listener of one radio (radio-io/src/wsjtx.rs), the radio        *)
(* sockets that register windows with it (radio-io/src/websocket.rs) and   *)
(* the windows, which keep an intent of their own                          *)
(* (screens/loggerScreen/useRadioSocket.js).                               *)
(*                                                                         *)
(* A window may have two connections for a while: one the server has not   *)
(* noticed to be gone, and the one that replaces it.  A manager whose last *)
(* window left shuts its controller down after the entry is gone, so the   *)
(* next window may meet the old listener.                                  *)
(*                                                                         *)
(* The contacts go through one channel that holds a few events of all      *)
(* radios, errors included, to the bridge of each connection, and from     *)
(* there to the window: a bridge that lags skips the oldest and says       *)
(* nothing.  The channel of the targets is as short; here no bridge misses *)
(* a target, as one that lags still gets the newest ones.  Errors are      *)
(* events like those of other radios, sent at any time.                    *)
(***************************************************************************)
EXTENDS Naturals, Sequences, FiniteSets

CONSTANTS
  Loggers,       \* logger windows
  NoLogger,
  EventSlots,    \* what the channel of events holds: 32 (wsjtx.rs:79)
  WsjtXWorlds    \* the windows that are connected, those that come and go, and the
                 \* window that is the target; bounds: [open, moving, holder, clicks, connects,
                 \* drops, modes, contacts, others, failures]

NoWord == "nothing"          \* no broadcast is left to be sent

NoContact == 0               \* an event that is no contact of this radio

ASSUME SlotsAssumption == EventSlots \in Nat \ {0}

ASSUME NoLoggerAssumption == NoLogger \notin Loggers /\ NoWord \notin Loggers \cup {NoLogger}

(* At the start the target is a window that is connected.                   *)
ASSUME TargetsAssumption ==
  \A w \in WsjtXWorlds : w.open \subseteq Loggers /\ w.holder \in w.open \cup {NoLogger}

Conns == Loggers \X (1..2)
OwnerOf(c) == c[1]
Controllers == 1..2          \* bound: the one of the entry and one that shuts down

VARIABLES
  target,        \* ManagedListener.target
  refs,          \* registrations; the entry exists while one is positive
  controller,    \* run_controller with its listener: [state, data, wrong, dirty, updates,
                 \* udp]; wrong (history): it was started with an outdated mode
  inData,        \* the radio is in DATA mode
  conn,          \* connections: [state, gone, data, up, told, events, contacts, say, waits];
                 \* events: what its bridge has still to read; contacts: on their way from there
  window,        \* windows: [intent, shown, link, logged]
  crossed,       \* history: the last target that was broadcast was an outdated one
  sent,          \* history: contact -> the logger it was sent to
  lost,          \* history: contacts whose connection was gone
  skipped,       \* history: contacts that the bridge of a connection missed
  wsjtxEnv

wsjtxVars == <<target, refs, controller, inData, conn, window, crossed, sent, lost, skipped, wsjtxEnv>>

NoController == [state |-> "none", data |-> FALSE, wrong |-> FALSE, dirty |-> FALSE, updates |-> <<>>, udp |-> "off"]
Free == [state |-> "free", gone |-> FALSE, data |-> FALSE, up |-> <<>>, told |-> <<>>,
         events |-> <<>>, contacts |-> <<>>, say |-> NoWord, waits |-> 0]

WsjtXInit ==
  /\ wsjtxEnv \in WsjtXWorlds
  /\ target = wsjtxEnv.holder
  /\ refs = [w \in Loggers |-> IF w \in wsjtxEnv.open THEN 1 ELSE 0]
  /\ controller = [g \in Controllers |->
       IF g = 1 /\ wsjtxEnv.open # {}
       THEN [NoController EXCEPT !.state = "live", !.data = TRUE,
                         !.udp = IF target = NoLogger THEN "off" ELSE "bound"]
       ELSE NoController]
  /\ inData = TRUE
  /\ conn = [c \in Conns |->
       IF c[2] = 1 /\ OwnerOf(c) \in wsjtxEnv.open THEN [Free EXCEPT !.state = "open"] ELSE Free]
  /\ window = [w \in Loggers |-> [intent |-> w = target, shown |-> w = target, logged |-> {},
                                 link |-> IF w \in wsjtxEnv.open THEN 1 ELSE 0]]
  /\ crossed = FALSE /\ sent = <<>> /\ lost = {} /\ skipped = {}

Registered == \E w \in Loggers : refs[w] > 0
SpendOn(what) == wsjtxEnv[what] > 0 /\ wsjtxEnv' = [wsjtxEnv EXCEPT ![what] = @ - 1]

-----------------------------------------------------------------------------
(* The windows.                                                             *)

LinkOf(w) == <<w, window[w].link>>
(* controller.send: dropped unless the socket is open.                      *)
Post(w, on) ==
  IF window[w].link = 0 THEN conn ELSE [conn EXCEPT ![LinkOf(w)].up = Append(@, on)]

(* The checkbox of the operator.                                            *)
SetWsjtXTarget(w, on) ==
  /\ w \in wsjtxEnv.open \cup wsjtxEnv.moving
  /\ SpendOn("clicks")
  /\ window' = [window EXCEPT ![w].intent = on, ![w].shown = on]
  /\ conn' = Post(w, on)
  /\ UNCHANGED <<target, refs, controller, inData, crossed, sent, lost, skipped>>

(* onOpen: a window that means to be the target says so.  On the server,    *)
(* handle_radio_socket reads the mode and subscribes.                       *)
OpenRadioSocket(w) ==
  /\ w \in wsjtxEnv.moving /\ window[w].link = 0
  /\ SpendOn("connects")
  /\ \E i \in 1..2 :
       /\ conn[<<w, i>>].state = "free"
       /\ \A j \in 1..(i - 1) : conn[<<w, j>>].state # "free"
       /\ window' = [window EXCEPT ![w].link = i]
       /\ conn' = [conn EXCEPT ![<<w, i>>] =
                     [Free EXCEPT !.state = "joining", !.data = inData,
                                  !.up = IF window[w].intent THEN <<TRUE>> ELSE <<>>]]
  /\ UNCHANGED <<target, refs, controller, inData, crossed, sent, lost, skipped>>

(* Contact n waits for the bridge of c, or is on its way from there.        *)
OnItsWay(c, n) == \/ \E k \in 1..Len(conn[c].events) : conn[c].events[k] = n
                  \/ \E k \in 1..Len(conn[c].contacts) : conn[c].contacts[k] = n

(* onClose; what was on its way to the window is lost.                      *)
LoseRadioSocket(w) ==
  /\ w \in wsjtxEnv.moving /\ window[w].link # 0
  /\ SpendOn("drops")
  /\ window' = [window EXCEPT ![w].link = 0, ![w].shown = FALSE]
  /\ lost' = lost \cup {n \in 1..Len(sent) : sent[n] = w /\ OnItsWay(LinkOf(w), n)}
  /\ conn' = [conn EXCEPT ![LinkOf(w)] = [@ EXCEPT !.gone = TRUE, !.told = <<>>,
                                                   !.events = <<>>, !.contacts = <<>>]]
  /\ UNCHANGED <<target, refs, controller, inData, crossed, sent, skipped>>

(* Mutant: a window keeps its intent when it hears of another target.       *)
HeardKeepsIntent(win, w, t) ==
  IF t = NoLogger THEN [win EXCEPT !.shown = FALSE]
  ELSE [win EXCEPT !.shown = win.intent]

(* wsjtxTargetUpdate and the wsjtx_target case of onMessage.                *)
Heard(win, w, t) ==
  IF t = NoLogger THEN [win EXCEPT !.shown = FALSE]
  ELSE [win EXCEPT !.shown = (t = w), !.intent = (t = w)]

HearTarget(w) ==
  /\ window[w].link # 0 /\ conn[LinkOf(w)].told # <<>>
  /\ conn[LinkOf(w)].state # "joining"
  /\ LET t == Head(conn[LinkOf(w)].told)
         reclaims == t = NoLogger /\ window[w].intent
     IN /\ window' = [window EXCEPT ![w] = Heard(@, w, t)]
        /\ conn' = [conn EXCEPT ![LinkOf(w)].told = Tail(@),
                                ![LinkOf(w)].up = IF reclaims THEN Append(@, TRUE) ELSE @]
  /\ UNCHANGED <<target, refs, controller, inData, crossed, sent, lost, skipped, wsjtxEnv>>

HearContact(w) ==
  /\ window[w].link # 0 /\ conn[LinkOf(w)].contacts # <<>>
  /\ conn[LinkOf(w)].state # "joining"
  /\ window' = [window EXCEPT ![w].logged = @ \cup {Head(conn[LinkOf(w)].contacts)}]
  /\ conn' = [conn EXCEPT ![LinkOf(w)].contacts = Tail(@)]
  /\ UNCHANGED <<target, refs, controller, inData, crossed, sent, lost, skipped, wsjtxEnv>>

-----------------------------------------------------------------------------
(* The manager.                                                             *)

(* Only the controller of the entry watches the target.                     *)
Touch(ctls, changed) ==
  [g \in Controllers |->
     IF ctls[g].state = "live" THEN [ctls[g] EXCEPT !.dirty = @ \/ changed] ELSE ctls[g]]

(* WsjtXManager::acquire, for a session that subscribed before.  The first  *)
(* window starts the controller with the mode its session has read.         *)
AcquireListener(c) ==
  /\ conn[c].state = "joining"
  /\ refs' = [refs EXCEPT ![OwnerOf(c)] = @ + 1]
  /\ IF Registered
     THEN UNCHANGED controller
     ELSE \E g \in Controllers :
            /\ controller[g].state = "none"
            /\ \A h \in 1..(g - 1) : controller[h].state # "none"
            /\ controller' = [controller EXCEPT ![g] =
                                [NoController EXCEPT !.state = "live", !.data = conn[c].data,
                                             !.wrong = conn[c].data # inData]]
  /\ conn' = [conn EXCEPT ![c].state = "open", ![c].data = FALSE,
                          ![c].told = IF conn[c].gone THEN <<>> ELSE <<target>> \o @]
  /\ UNCHANGED <<target, inData, window, crossed, sent, lost, skipped, wsjtxEnv>>

TargetAfter(t, w, on) == IF on THEN w ELSE IF t = w THEN NoLogger ELSE t

(* WsjtXManager::set_target, under the lock.                                *)
SetTarget(c) ==
  /\ conn[c].state = "open" /\ conn[c].say = NoWord /\ conn[c].up # <<>>
  /\ target' = TargetAfter(target, OwnerOf(c), Head(conn[c].up))
  /\ controller' = Touch(controller, target' # target)
  /\ conn' = [conn EXCEPT ![c].up = Tail(@), ![c].say = target']
  /\ UNCHANGED <<refs, inData, window, crossed, sent, lost, skipped, wsjtxEnv>>

(* The broadcast after the lock is released, to every session that has      *)
(* subscribed and has not begun to leave.                                   *)
Hears(d) == conn[d].state \in {"joining", "open"} /\ ~conn[d].gone
SayTarget(c) ==
  /\ conn[c].say # NoWord
  /\ crossed' = (conn[c].say # target /\ \A d \in Conns \ {c} : conn[d].say = NoWord)
  /\ conn' = [d \in Conns |->
                LET heard == IF Hears(d) THEN [conn[d] EXCEPT !.told = Append(@, conn[c].say)]
                             ELSE conn[d]
                IN IF d = c THEN [heard EXCEPT !.say = NoWord] ELSE heard]
  /\ UNCHANGED <<target, refs, controller, inData, window, sent, lost, skipped, wsjtxEnv>>

(* The last connection of the target leaves.                                *)
ClearsTarget(w) == refs[w] = 1 /\ target = w

(* WsjtXManager::release, under the lock, after the bridge was aborted.  The *)
(* entry goes with its last window: the session shuts the controller down.  *)
ReleaseListener(c) ==
  /\ conn[c].state = "open" /\ conn[c].gone /\ conn[c].say = NoWord
  /\ refs' = [refs EXCEPT ![OwnerOf(c)] = @ - 1]
  /\ LET clears == ClearsTarget(OwnerOf(c))
         ends == \A w \in Loggers : refs'[w] = 0
         live == CHOOSE g \in Controllers : controller[g].state = "live"
         touched == Touch(controller, clears)
     IN /\ target' = IF clears THEN NoLogger ELSE target
        /\ controller' = IF ends THEN [touched EXCEPT ![live].state = "closing"] ELSE touched
        /\ conn' = [conn EXCEPT ![c] = [Free EXCEPT !.state = "leaving",
                      !.say = IF clears THEN NoLogger ELSE NoWord,
                      !.waits = IF ends THEN live ELSE 0]]
  /\ UNCHANGED <<inData, window, crossed, sent, lost, skipped, wsjtxEnv>>

(* The Shutdown command, and its answer.                                    *)
FinishRelease(c) ==
  LET g == conn[c].waits
  IN /\ conn[c].state = "leaving" /\ conn[c].say = NoWord
     /\ \/ /\ g # 0 /\ controller[g].state = "closing"
           /\ controller' = [controller EXCEPT ![g].state = "shut"]
           /\ UNCHANGED conn
        \/ /\ g # 0 => controller[g].state = "done"
           /\ conn' = [conn EXCEPT ![c] = Free]
           /\ controller' = IF g = 0 THEN controller ELSE [controller EXCEPT ![g] = NoController]
     /\ UNCHANGED <<target, refs, inData, window, crossed, sent, lost, skipped, wsjtxEnv>>

-----------------------------------------------------------------------------
(* The controller.                                                          *)

(* Its watch ended with the target its last window left behind.             *)
WatchedBy(g) == IF controller[g].state = "live" THEN target ELSE NoLogger
ListenerShouldRun(g, ctl) == ctl.data /\ WatchedBy(g) # NoLogger

(* reconcile_listener.  Stopping is waited for; a listener that ended by    *)
(* itself is still held to be running.                                      *)
Reconcile(g, ctl) ==
  IF ListenerShouldRun(g, ctl)
  THEN [ctl EXCEPT !.udp = IF @ = "off" THEN "starting" ELSE @]
  ELSE [ctl EXCEPT !.udp = CASE @ = "bound" -> "closing" [] @ = "starting" -> "aborting"
                             [] OTHER -> "off"]

CanRun(g) ==
  controller[g].state \in {"live", "closing", "shut"} /\ controller[g].udp \notin {"closing", "aborting"}
UnchangedButControllers ==
  UNCHANGED <<target, refs, inData, conn, window, crossed, sent, lost, skipped, wsjtxEnv>>

TakeUpdate(g) ==
  /\ CanRun(g) /\ controller[g].updates # <<>>
  /\ LET read == [controller[g] EXCEPT !.updates = Tail(@), !.wrong = FALSE]
         mode == Head(controller[g].updates)
     IN controller' = [controller EXCEPT ![g] =
          IF mode = read.data THEN read ELSE Reconcile(g, [read EXCEPT !.data = mode])]
  /\ UnchangedButControllers

TakeTarget(g) ==
  /\ CanRun(g) /\ controller[g].dirty
  /\ controller' = [controller EXCEPT ![g] = Reconcile(g, [@ EXCEPT !.dirty = FALSE])]
  /\ UnchangedButControllers

(* Shutdown: the listener is stopped first, and waited for.                 *)
TakeShutdown(g) ==
  /\ CanRun(g) /\ controller[g].state = "shut"
  /\ controller' = [controller EXCEPT ![g] =
       CASE @.udp = "bound" -> [@ EXCEPT !.udp = "closing", !.dirty = FALSE, !.updates = <<>>]
         [] @.udp = "starting" -> [@ EXCEPT !.udp = "aborting", !.dirty = FALSE, !.updates = <<>>]
         [] OTHER -> [NoController EXCEPT !.state = "done"]]
  /\ UnchangedButControllers

-----------------------------------------------------------------------------
(* The listener.                                                            *)

PortTaken(g) == \E h \in Controllers \ {g} : controller[h].udp \in {"bound", "closing"}

(* WsjtXServer::spawn.  A port that is taken, or an address that is not     *)
(* there, ends the listener with an error to the target.                    *)
StartListener(g) ==
  /\ controller[g].udp = "starting"
  /\ \/ /\ ~PortTaken(g)
        /\ controller' = [controller EXCEPT ![g].udp = "bound"]
        /\ UNCHANGED wsjtxEnv
     \/ /\ \/ PortTaken(g) /\ UNCHANGED wsjtxEnv
           \/ SpendOn("failures")
        /\ controller' = [controller EXCEPT ![g].udp = "ended"]
  /\ UNCHANGED <<target, refs, inData, conn, window, crossed, sent, lost, skipped>>

(* The task has seen its shutdown and closed its socket.                    *)
ListenerStops(g) ==
  /\ controller[g].udp \in {"closing", "aborting"}
  /\ controller' = [controller EXCEPT ![g].udp = "off"]
  /\ UnchangedButControllers

(* Mutant: the bridge passes every contact on.                              *)
PassesAll(c, n) == n # NoContact

(* wsjtx_event_message: a bridge passes on what is for its window.          *)
Passes(c, n) == n # NoContact /\ sent[n] = OwnerOf(c)

(* The channel: every session that has subscribed receives the event; one   *)
(* that has not read as many as the channel holds misses the oldest.        *)
Lags(d) == Hears(d) /\ Len(conn[d].events) = EventSlots
Misses(d) == IF Lags(d) THEN Tail(conn[d].events) ELSE conn[d].events
Emit(n) ==
  /\ conn' = [d \in Conns |-> IF Hears(d) THEN [conn[d] EXCEPT !.events = Append(Misses(d), n)]
                              ELSE conn[d]]
  /\ skipped' = skipped \cup {m \in 1..Len(sent) :
                   \E d \in Conns : Lags(d) /\ Head(conn[d].events) = m /\ Passes(d, m)}

(* A Logged ADIF datagram is read: it goes to the target of that moment.    *)
LoggedAdif(g) ==
  /\ controller[g].udp \in {"bound", "closing"}
  /\ SpendOn("contacts")
  /\ LET w == WatchedBy(g)
         n == Len(sent) + 1
     IN IF w = NoLogger THEN UNCHANGED <<conn, sent, lost, skipped>>
        ELSE /\ sent' = Append(sent, w)
             /\ lost' = IF \E d \in Conns : Hears(d) /\ OwnerOf(d) = w THEN lost ELSE lost \cup {n}
             /\ Emit(n)
  /\ UNCHANGED <<target, refs, controller, inData, window, crossed>>

(* An error, or an event of another radio.                                  *)
OtherEvent ==
  /\ SpendOn("others")
  /\ Emit(NoContact)
  /\ UNCHANGED <<target, refs, controller, inData, window, crossed, sent, lost>>

(* The bridge of a connection reads the next event.                         *)
PassOn(c) ==
  /\ conn[c].state = "open" /\ conn[c].events # <<>>
  /\ LET n == Head(conn[c].events)
     IN conn' = [conn EXCEPT ![c] =
          [conn[c] EXCEPT !.events = Tail(@),
                          !.contacts = IF Passes(c, n) THEN Append(@, n) ELSE @]]
  /\ UNCHANGED <<target, refs, controller, inData, window, crossed, sent, lost, skipped, wsjtxEnv>>

(* The operator, or the radio, changes the mode.                            *)
ChangeMode ==
  /\ SpendOn("modes")
  /\ inData' = ~inData
  /\ controller' = [g \in Controllers |->
       IF controller[g].state \in {"live", "closing", "shut"}
       THEN [controller[g] EXCEPT !.updates = Append(@, ~inData)] ELSE controller[g]]
  /\ UNCHANGED <<target, refs, conn, window, crossed, sent, lost, skipped>>

-----------------------------------------------------------------------------
SocketSteps(c) ==
  AcquireListener(c) \/ SetTarget(c) \/ SayTarget(c) \/ ReleaseListener(c) \/ FinishRelease(c)
Hearing(w) == HearTarget(w) \/ HearContact(w)
Control(g) == TakeUpdate(g) \/ TakeTarget(g) \/ TakeShutdown(g)
Listening(g) == StartListener(g) \/ ListenerStops(g)

WsjtXNext ==
  \/ \E w \in Loggers : \/ \E on \in BOOLEAN : SetWsjtXTarget(w, on)
                        \/ OpenRadioSocket(w) \/ LoseRadioSocket(w) \/ Hearing(w)
  \/ \E c \in Conns : SocketSteps(c) \/ PassOn(c)
  \/ \E g \in Controllers : Control(g) \/ Listening(g) \/ LoggedAdif(g)
  \/ ChangeMode \/ OtherEvent

WsjtXSpec == WsjtXInit /\ [][WsjtXNext]_wsjtxVars

(* Tokio runs its tasks, the browser reads its sockets.                     *)
WsjtXFairness ==
  /\ \A c \in Conns : WF_wsjtxVars(SocketSteps(c)) /\ WF_wsjtxVars(PassOn(c))
  /\ \A w \in Loggers : WF_wsjtxVars(Hearing(w))
  /\ \A g \in Controllers : WF_wsjtxVars(Control(g)) /\ WF_wsjtxVars(Listening(g))

-----------------------------------------------------------------------------
Accounted(n) ==
  \/ n \in window[sent[n]].logged \cup lost \cup skipped
  \/ \E c \in Conns : OwnerOf(c) = sent[n] /\ OnItsWay(c, n)

(* A contact that was sent to a window is logged there and nowhere else, or *)
(* on its way to it, or its connection was gone, or the bridge of the       *)
(* connection missed it, also while the target changes hands and listeners  *)
(* follow each other (wsjtx.rs:417; docs/radio-client-plan.md:476).         *)
ContactsGoToTheTarget ==
  \A n \in 1..Len(sent) :
    /\ \A w \in Loggers \ {sent[n]} : n \notin window[w].logged
    /\ Accounted(n)

(* "Dropping a Logged ADIF event silently is not acceptable"                *)
(* (docs/radio-client-plan.md:595): no bridge misses a contact on a live    *)
(* connection.                                                              *)
NoContactIsSkipped == skipped = {}

(* What the tasks and the browsers will do by themselves is done: no step   *)
(* of a socket, a window, a controller or a listener is left.               *)
WsjtXAtRest ==
  /\ \A c \in Conns :
       /\ conn[c].state \in {"free", "open"} /\ conn[c].say = NoWord
       /\ conn[c].state = "open" => ~conn[c].gone /\ conn[c].up = <<>> /\ conn[c].events = <<>>
  /\ \A w \in Loggers :
       window[w].link # 0 => conn[LinkOf(w)].told = <<>> /\ conn[LinkOf(w)].contacts = <<>>
  /\ \A g \in Controllers :
       /\ controller[g].state \notin {"closing", "shut"}
       /\ controller[g].udp \notin {"starting", "closing", "aborting"}
       /\ controller[g].state = "live" => ~controller[g].dirty /\ controller[g].updates = <<>>

(* At rest the windows show the target that the manager has: after clicks   *)
(* that cross, connections that are lost and replaced and intents that are  *)
(* claimed again.  The exception is a race of the broadcasts: they are sent *)
(* after the lock is released, and an older one may come last               *)
(* (wsjtx.rs:251; useRadioSocket.js, wsjtxTargetUpdate).                    *)
WindowsShowTheTarget ==
  WsjtXAtRest => crossed \/ \A w \in Loggers : window[w].link # 0 => window[w].shown = (target = w)

(* At rest, a target in DATA mode has its listener, or that listener ended  *)
(* with an error that was sent to its target                                *)
(* (docs/radio-client-plan.md:471).  The exception is a mode that changed   *)
(* between the look of the first session at it and its subscription: the    *)
(* controller waits for the next report.                                    *)
TargetIsHeard ==
  WsjtXAtRest /\ target # NoLogger /\ inData =>
    \E g \in Controllers :
      /\ controller[g].state = "live"
      /\ controller[g].udp \in {"bound", "ended"} \/ controller[g].wrong

(* The target knows of itself and is listened for.                          *)
TargetIsServed == WindowsShowTheTarget /\ TargetIsHeard
=============================================================================
