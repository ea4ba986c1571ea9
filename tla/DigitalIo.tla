------------------------------ MODULE DigitalIo ------------------------------
(***************************************************************************)
(* Texts for the digital modes: the manager and the controller of one      *)
(* radio (radio-io/src/digital_io.rs), the task of its FLDigi interface    *)
(* and the radio sockets that wait for their answers                       *)
(* (radio-io/src/websocket.rs).  One window is the target; its texts go    *)
(* through an interface that was started for it.  FLDigi is external.      *)
(*                                                                         *)
(* The check of a request and its place in the queue of the controller are *)
(* two steps; the controller stops an interface before it starts another,  *)
(* and waits; the entry of a radio whose last window left is gone before   *)
(* its controller is.                                                      *)
(***************************************************************************)
EXTENDS Naturals, Sequences, FiniteSets

CONSTANTS
  DigitalWindows,
  NoWindow,
  DigitalWorlds  \* sessions: those open at the start, those that may join and leave, and the
                 \* target; bounds: [open, moving, holder, claims, sends, stops, joins, leaves,
                 \* modes, lags, refusals, faults, deaths]

ASSUME NoWindowAssumption == NoWindow \notin DigitalWindows

(* At the start the target is a window that is connected.                   *)
ASSUME HoldersAssumption ==
  \A w \in DigitalWorlds :
    /\ w.open \subseteq DigitalWindows \X (1..2)
    /\ w.holder = NoWindow \/ \E s \in w.open : s[1] = w.holder

Sockets == DigitalWindows \X (1..2)       \* bound: a window is connected twice at most
WindowOf(s) == s[1]
Runs == 1..2                               \* bound: controllers at a time

VARIABLES
  holder,       \* ManagedListener.target
  control,      \* run_controller: [state, digital, wrong, refused, updates, dirty, commands];
                \* history: wrong, it began with an outdated mode; refused, FLDigi did not start
  face,         \* its RunningDigitalIo: [state, for, queue, air, next]
  digital,      \* the radio is in a mode of FLDigi
  session,      \* radio sockets: [state, mode, asks, at]
  texts,        \* history: [by, steady, state, under]
  dioEnv

dioVars == <<holder, control, face, digital, session, texts, dioEnv>>

NoControl == [state |-> "none", digital |-> FALSE, wrong |-> FALSE, refused |-> FALSE,
              updates |-> <<>>, dirty |-> FALSE, commands |-> <<>>]
NoFace == [state |-> "none", for |-> NoWindow, queue |-> <<>>, air |-> {}, next |-> NoWindow]
Out == [state |-> "out", mode |-> FALSE, asks |-> <<>>, at |-> 0]
Started(w) == [NoFace EXCEPT !.state = "up", !.for = w]

DigitalInit ==
  /\ dioEnv \in DigitalWorlds
  /\ holder = dioEnv.holder /\ digital = TRUE /\ texts = <<>>
  /\ control = [g \in Runs |->
       IF g = 1 /\ dioEnv.open # {} THEN [NoControl EXCEPT !.state = "live", !.digital = TRUE]
       ELSE NoControl]
  /\ face = [g \in Runs |-> IF g = 1 /\ holder # NoWindow THEN Started(holder) ELSE NoFace]
  /\ session = [s \in Sockets |-> IF s \in dioEnv.open THEN [Out EXCEPT !.state = "open"] ELSE Out]

SpendDio(what) == dioEnv[what] > 0 /\ dioEnv' = [dioEnv EXCEPT ![what] = @ - 1]

(* The registrations of the entry, with their counts.                       *)
IsRegistered(s) == session[s].state \in {"open", "checked", "asking"}
Registrations(w) == {s \in Sockets : WindowOf(s) = w /\ IsRegistered(s)}
HasEntry == \E s \in Sockets : IsRegistered(s)
Entry == CHOOSE g \in Runs : control[g].state = "live"

(* A target that changes reaches the controller through its watch.  Texts   *)
(* that are on their way are no longer steady.                              *)
Told(ctls, changed) ==
  [g \in Runs |-> IF changed /\ ctls[g].state = "live" THEN [ctls[g] EXCEPT !.dirty = TRUE] ELSE ctls[g]]
Unsettled(changed) ==
  [n \in 1..Len(texts) |-> IF changed THEN [texts[n] EXCEPT !.steady = FALSE] ELSE texts[n]]

-----------------------------------------------------------------------------
(* Sessions.                                                               *)

(* handle_radio_socket reads the state of the radio, then it registers.     *)
JoinDigital(s) ==
  /\ s \in dioEnv.moving /\ session[s].state = "out"
  /\ SpendDio("joins")
  /\ session' = [session EXCEPT ![s] = [Out EXCEPT !.state = "joining", !.mode = digital]]
  /\ UNCHANGED <<holder, control, face, digital, texts>>

(* DigitalIoManager::acquire.                                               *)
AcquireDigital(s) ==
  /\ session[s].state = "joining"
  /\ session' = [session EXCEPT ![s] = [Out EXCEPT !.state = "open"]]
  /\ IF HasEntry
     THEN UNCHANGED control
     ELSE \E g \in Runs :
            /\ control[g].state = "none" /\ \A h \in 1..(g - 1) : control[h].state # "none"
            /\ control' = [control EXCEPT ![g] =
                 [NoControl EXCEPT !.state = "live", !.digital = session[s].mode,
                                   !.wrong = session[s].mode # digital]]
  /\ UNCHANGED <<holder, face, digital, texts, dioEnv>>

HolderAfter(w, on) == IF on THEN w ELSE IF holder = w THEN NoWindow ELSE holder

(* DigitalIoManager::set_target.                                            *)
SetDigitalTarget(s, on) ==
  /\ session[s].state = "open" /\ (on # (holder = WindowOf(s)))
  /\ SpendDio("claims")
  /\ holder' = HolderAfter(WindowOf(s), on)
  /\ control' = Told(control, holder' # holder)
  /\ texts' = Unsettled(holder' # holder)
  /\ UNCHANGED <<face, digital, session>>

(* Mutant: any window of the radio may send.                                *)
MaySendAny(w) == TRUE

(* Only the target may send, stop and clear.                                *)
MaySend(w) == holder = w

(* The checks of transmit.  The session goes on with a copy of the sender.  *)
Transmit(s) ==
  /\ session[s].state = "open"
  /\ SpendDio("sends")
  /\ LET w == WindowOf(s)
         n == Len(texts) + 1
         text == [by |-> w, steady |-> ~control[Entry].dirty, under |-> NoWindow,
                  state |-> IF MaySend(w) THEN "asked" ELSE "refused"]
     IN /\ texts' = Append(texts, text)
        /\ session' = IF MaySend(w)
                      THEN [session EXCEPT ![s].state = "checked", ![s].at = Entry,
                                           ![s].asks = <<[kind |-> "text", text |-> n, by |-> s]>>]
                      ELSE session
  /\ UNCHANGED <<holder, control, face, digital>>

(* The checks of stop_transmitting and clear_receive_buffer.                *)
AskControl(s, kind) ==
  /\ session[s].state = "open"
  /\ SpendDio("stops")
  /\ session' = IF MaySend(WindowOf(s))
                THEN [session EXCEPT ![s].state = "checked", ![s].at = Entry,
                                     ![s].asks = <<[kind |-> kind, text |-> 0, by |-> s]>>]
                ELSE session
  /\ UNCHANGED <<holder, control, face, digital, texts>>

(* The request is queued; the session waits until it is accepted, or done.  *)
QueueRequest(s) ==
  /\ session[s].state = "checked"
  /\ control' = [control EXCEPT ![session[s].at].commands = @ \o session[s].asks]
  /\ session' = [session EXCEPT ![s].state = "asking", ![s].asks = <<>>]
  /\ UNCHANGED <<holder, face, digital, texts, dioEnv>>

(* DigitalIoManager::release, under the lock.                               *)
ReleaseDigital(s) ==
  LET w == WindowOf(s)
      clears == Registrations(w) = {s} /\ holder = w
      ends == \A t \in Sockets \ {s} : ~IsRegistered(t)
      told == Told(control, clears)
  IN /\ s \in dioEnv.moving /\ session[s].state = "open"
     /\ SpendDio("leaves")
     /\ holder' = IF clears THEN NoWindow ELSE holder
     /\ texts' = Unsettled(clears)
     /\ control' = IF ends THEN [told EXCEPT ![Entry].state = "closing"] ELSE told
     /\ session' = [session EXCEPT ![s] =
                      IF ends THEN [Out EXCEPT !.state = "leaving", !.at = Entry] ELSE Out]
     /\ UNCHANGED <<face, digital>>

(* shutdown_listener has waited for the controller.                         *)
ReleasedDigital(s) ==
  /\ session[s].state = "leaving" /\ control[session[s].at].state = "done"
  /\ control' = [control EXCEPT ![session[s].at] = NoControl]
  /\ session' = [session EXCEPT ![s] = Out]
  /\ UNCHANGED <<holder, face, digital, texts, dioEnv>>

-----------------------------------------------------------------------------
(* The controller.                                                          *)

ReadTarget(g) == IF control[g].state = "live" THEN holder ELSE NoWindow
Wanted(g, ctl) == IF ctl.digital THEN ReadTarget(g) ELSE NoWindow

(* Mutant: an interface that runs is kept when the target changes.          *)
StopsKeptFor(f, w) == f.state # "none" /\ w = NoWindow

StopsFor(f, w) == f.state # "none" /\ f.for # w

(* start_running_for_target: FLDigi may not be there.                       *)
StartFor(g, ctl, f, w, refused) ==
  IF f.state # "none" \/ w = NoWindow THEN [ctl |-> ctl, face |-> f]
  ELSE IF refused THEN [ctl |-> [ctl EXCEPT !.refused = TRUE], face |-> f]
  ELSE [ctl |-> [ctl EXCEPT !.refused = FALSE], face |-> Started(w)]
MayRefuse(f, w, refused) ==
  IF refused THEN f.state = "none" /\ w # NoWindow /\ SpendDio("refusals") ELSE UNCHANGED dioEnv

(* reconcile: an interface of another target, or of none, is stopped first; *)
(* the controller waits for it with the target it has read.                 *)
ReconcileAfter(g, ctl) ==
  LET w == Wanted(g, ctl)
      f == face[g]
  IN IF StopsFor(f, w)
     THEN /\ control' = [control EXCEPT ![g] = ctl]
          /\ face' = [face EXCEPT ![g].state = IF @ = "dead" THEN "gone" ELSE "stopping",
                                  ![g].next = w]
          /\ UNCHANGED dioEnv
     ELSE \E refused \in BOOLEAN :
            LET r == StartFor(g, ctl, f, w, refused)
            IN /\ MayRefuse(f, w, refused)
               /\ control' = [control EXCEPT ![g] = r.ctl]
               /\ face' = [face EXCEPT ![g] = r.face]

Awake(g) ==
  control[g].state \in {"live", "closing"} /\ face[g].state \notin {"stopping", "gone"}

HearMode(g) ==
  /\ Awake(g) /\ control[g].updates # <<>>
  /\ ReconcileAfter(g, [control[g] EXCEPT !.digital = Head(control[g].updates), !.wrong = FALSE,
                                          !.updates = Tail(@)])
  /\ UNCHANGED <<holder, digital, session, texts>>

HearHolder(g) ==
  /\ Awake(g) /\ control[g].dirty
  /\ ReconcileAfter(g, [control[g] EXCEPT !.dirty = FALSE])
  /\ UNCHANGED <<holder, digital, session, texts>>

(* RecvError::Lagged: the oldest reports are gone, the newest are not.      *)
LagBehind(g) ==
  /\ Len(control[g].updates) > 1
  /\ SpendDio("lags")
  /\ control' = [control EXCEPT ![g].updates = Tail(@)]
  /\ UNCHANGED <<holder, face, digital, session, texts>>

AnswerTo(s) == [session EXCEPT ![s] = [Out EXCEPT !.state = "open"]]
TextBecomes(n, state) == IF n = 0 THEN texts ELSE [texts EXCEPT ![n].state = state]

(* A command: a text or a clear starts the interface if there is none.  A   *)
(* stop without an interface is done.  A text is accepted when it is queued;*)
(* the channel of an interface that has died refuses.                       *)
TakeRequest(g) ==
  /\ Awake(g) /\ control[g].commands # <<>>
  /\ LET c == Head(control[g].commands)
         ctl == [control[g] EXCEPT !.commands = Tail(@)]
         w == IF c.kind = "stop" THEN NoWindow ELSE Wanted(g, ctl)
     IN \E refused \in BOOLEAN :
          LET r == StartFor(g, ctl, face[g], w, refused)
              goes == r.face.state = "up"
          IN /\ MayRefuse(face[g], w, refused)
             /\ control' = [control EXCEPT ![g] = r.ctl]
             /\ face' = [face EXCEPT ![g] = IF goes THEN [r.face EXCEPT !.queue = Append(@, c)] ELSE @]
             /\ texts' = TextBecomes(c.text, IF goes THEN "accepted" ELSE "refused")
             /\ session' = IF goes /\ c.kind # "text" THEN session ELSE AnswerTo(c.by)
  /\ UNCHANGED <<holder, digital>>

(* Shutdown comes after the commands that were queued before it.            *)
ShutDownControl(g) ==
  /\ Awake(g) /\ control[g].state = "closing" /\ control[g].commands = <<>>
  /\ IF face[g].state = "none"
     THEN control' = [control EXCEPT ![g] = [NoControl EXCEPT !.state = "done"]] /\ UNCHANGED face
     ELSE /\ face' = [face EXCEPT ![g].state = IF @ = "dead" THEN "gone" ELSE "stopping",
                                  ![g].next = NoWindow]
          /\ UNCHANGED control
  /\ UNCHANGED <<holder, digital, session, texts, dioEnv>>

-----------------------------------------------------------------------------
(* run_fldigi_interface.                                                    *)

IsAtWork(f) == f.state = "up" \/ f.state = "stopping"
TextsOf(f) == {f.queue[k].text : k \in 1..Len(f.queue)} \cup f.air
Unanswered(f) == {f.queue[k].by : k \in {j \in 1..Len(f.queue) : f.queue[j].kind # "text"}}

(* Mutant: texts that wait when an interface ends are not answered.         *)
EndTextsOnAir(f) == [n \in 1..Len(texts) |-> IF n \in f.air THEN [texts[n] EXCEPT !.state = "failed"]
                                             ELSE texts[n]]

(* What waits in the channel of a task that ends is dropped with its        *)
(* senders; transmissions end with the interface.                           *)
EndTexts(f) == [n \in 1..Len(texts) |-> IF n \in TextsOf(f) THEN [texts[n] EXCEPT !.state = "failed"]
                                        ELSE texts[n]]
Released(f) == [s \in Sockets |->
                  IF s \in Unanswered(f) THEN [Out EXCEPT !.state = "open"] ELSE session[s]]

(* A text goes to FLDigi, a stop clears what FLDigi has.                    *)
FaceTakes(g) ==
  /\ IsAtWork(face[g]) /\ face[g].queue # <<>>
  /\ LET c == Head(face[g].queue)
         f == [face[g] EXCEPT !.queue = Tail(@)]
     IN IF c.kind = "text"
        THEN /\ texts' = [texts EXCEPT ![c.text].state = "air", ![c.text].under = f.for]
             /\ face' = [face EXCEPT ![g] = [f EXCEPT !.air = @ \cup {c.text}]]
             /\ UNCHANGED session
        ELSE /\ texts' = IF c.kind = "stop" THEN EndTexts([f EXCEPT !.queue = <<>>]) ELSE texts
             /\ face' = [face EXCEPT ![g] = IF c.kind = "stop" THEN [f EXCEPT !.air = {}] ELSE f]
             /\ session' = AnswerTo(c.by)
  /\ UNCHANGED <<holder, control, digital, dioEnv>>

(* FLDigi refuses a request, or does not answer: the text has failed, and   *)
(* what a stop was to end goes on.                                          *)
FaceRefuses(g) ==
  /\ IsAtWork(face[g]) /\ face[g].queue # <<>>
  /\ SpendDio("faults")
  /\ LET c == Head(face[g].queue)
     IN /\ texts' = EndTexts([NoFace EXCEPT !.queue = <<c>>])
        /\ session' = IF c.kind = "text" THEN session ELSE AnswerTo(c.by)
  /\ face' = [face EXCEPT ![g].queue = Tail(@)]
  /\ UNCHANGED <<holder, control, digital>>

TransmissionEnds(g) ==
  /\ \E n \in face[g].air : /\ texts' = [texts EXCEPT ![n].state = "sent"]
                            /\ face' = [face EXCEPT ![g].air = @ \ {n}]
  /\ UNCHANGED <<holder, control, digital, session, dioEnv>>

(* Its channels to FLDigi closed: the task returns, the controller still    *)
(* holds it.                                                                *)
FaceDies(g) ==
  /\ face[g].state = "up"
  /\ SpendDio("deaths")
  /\ texts' = EndTexts(face[g]) /\ session' = Released(face[g])
  /\ face' = [face EXCEPT ![g] = [Started(@.for) EXCEPT !.state = "dead"]]
  /\ UNCHANGED <<holder, control, digital>>

(* The shutdown of the interface is over; its controller goes on.           *)
FaceStops(g) ==
  /\ face[g].state \in {"stopping", "gone"}
  /\ texts' = EndTexts(face[g]) /\ session' = Released(face[g])
  /\ \E refused \in BOOLEAN :
       LET w == face[g].next
           r == StartFor(g, control[g], NoFace, w, refused)
       IN /\ MayRefuse(NoFace, w, refused)
          /\ control' = [control EXCEPT ![g] = r.ctl]
          /\ face' = [face EXCEPT ![g] = r.face]
  /\ UNCHANGED <<holder, digital>>

ChangeDigital ==
  /\ SpendDio("modes")
  /\ digital' = ~digital
  /\ control' = [g \in Runs |->
       IF control[g].state \in {"live", "closing"}
       THEN [control[g] EXCEPT !.updates = Append(@, ~digital)] ELSE control[g]]
  /\ UNCHANGED <<holder, face, session, texts>>

-----------------------------------------------------------------------------
SessionSteps(s) == AcquireDigital(s) \/ QueueRequest(s) \/ ReleasedDigital(s)
ControlSteps(g) == HearMode(g) \/ HearHolder(g) \/ TakeRequest(g) \/ ShutDownControl(g)
FaceSteps(g) == FaceTakes(g) \/ FaceStops(g)

DigitalNext ==
  \/ \E s \in Sockets : \/ JoinDigital(s) \/ Transmit(s) \/ ReleaseDigital(s) \/ SessionSteps(s)
                        \/ \E on \in BOOLEAN : SetDigitalTarget(s, on)
                        \/ \E kind \in {"stop", "clear"} : AskControl(s, kind)
  \/ \E g \in Runs : ControlSteps(g) \/ FaceSteps(g) \/ LagBehind(g)
                     \/ FaceRefuses(g) \/ TransmissionEnds(g) \/ FaceDies(g)
  \/ ChangeDigital

DigitalSpec == DigitalInit /\ [][DigitalNext]_dioVars

(* Tokio runs its tasks; FLDigi answers or a request of it times out.       *)
DigitalFairness ==
  /\ \A s \in Sockets : WF_dioVars(SessionSteps(s))
  /\ \A g \in Runs : /\ WF_dioVars(ControlSteps(g)) /\ WF_dioVars(FaceSteps(g))
                     /\ WF_dioVars(TransmissionEnds(g))

-----------------------------------------------------------------------------
(* A text goes out through an interface that was started for its window,    *)
(* unless the target changed after the request was checked, or had changed  *)
(* and the controller had not seen it: those texts go where the controller  *)
(* is (digital_io.rs:258, 434).                                             *)
TextsGoOutForTheirWindow ==
  \A n \in 1..Len(texts) : texts[n].steady /\ texts[n].under # NoWindow => texts[n].under = texts[n].by

(* What the tasks and FLDigi will do by themselves is done: no step of a    *)
(* session, of a controller or of its interface is left.                    *)
DigitalAtRest ==
  /\ \A s \in Sockets : session[s].state \notin {"joining", "checked", "leaving"}
  /\ \A g \in Runs :
       /\ control[g].state # "closing" /\ face[g].state \notin {"stopping", "gone"}
       /\ control[g].state = "live" =>
            ~control[g].dirty /\ control[g].updates = <<>> /\ control[g].commands = <<>>
       /\ face[g].air = {} /\ (face[g].state = "up" => face[g].queue = <<>>)

(* At rest the interface that runs is the one of the target, and none runs  *)
(* without a target, in another mode or for a radio without windows.  The   *)
(* exceptions: FLDigi refused, the interface died (nothing restarts it), or *)
(* the first session registered an outdated mode (digital_io.rs:521).       *)
InterfaceFollowsTheTarget ==
  DigitalAtRest =>
    \A g \in Runs :
      LET w == IF digital THEN ReadTarget(g) ELSE NoWindow
      IN \/ face[g].for = w /\ face[g].state \in {"none", "up", "dead"}
         \/ control[g].wrong \/ control[g].refused

(* Every request of a session is answered and every text ends, sent, failed *)
(* or refused, whatever is stopped meanwhile: a session that waits reads no *)
(* more of its messages (websocket.rs:700; digital_io.rs:280).              *)
DigitalRequestsEnd ==
  []<>(/\ \A s \in Sockets : session[s].state \in {"out", "open"}
       /\ \A n \in 1..Len(texts) : texts[n].state \in {"sent", "failed", "refused"})
=============================================================================
