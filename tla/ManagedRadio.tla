----------------------------- MODULE ManagedRadio -----------------------------
(***************************************************************************)
(* What runs for one radio while somebody uses it: the task that keeps the *)
(* CAT connection and publishes what the radio reports                     *)
(* (radio-io/src/radio_manager/cat_runtime.rs, commands.rs, rit.rs), the   *)
(* task that keys texts and plays voice files (cw_task.rs, voice.rs,       *)
(* keyers/), and the part of a WebSocket session that hands commands to    *)
(* them (radio-io/src/websocket.rs).  The radio and the keyer are devices: *)
(* a radio reports every change of its state, a keyer sends what is in its *)
(* buffer.                                                                 *)
(***************************************************************************)
EXTENDS Integers, FiniteSets, SequencesExt

CONSTANTS
  Texts,         \* the texts windows ask to be sent, numbered in the order they do
  RitLimit,      \* MAX_RIT_OFFSET_HZ, in steps
  DataMode,      \* the mode of the radio that stands for DATA (RadioConfig.data_mode)
  Worlds         \* what may happen: see Init

ASSUME TextsAssumption == Texts \subseteq Nat \ {0}
ASSUME RitLimitAssumption == RitLimit \in Nat
ASSUME DataModeAssumption == DataMode \in {"USB", "DATA-U"}

(* A world: the modes the radio may start in, the keyer it has, whether     *)
(* windows ask to hear of the end of a text; and how often what may happen  *)
(* does.                                                                    *)
Bounds ==
  [texts : Nat, turns : Nat, breaks : Nat, stops : Nat, tunings : Nat, lags : Nat, quits : Nat,
   failures : Nat, waits : SUBSET BOOLEAN, modes : SUBSET STRING,
   keyer : {"none", "winkeyer", "serial", "cat"}]

ASSUME WorldsAssumption == Worlds \subseteq Bounds

VARIABLES
  rig,           \* the radio: [up, mode, rit, ptt]
  reports,       \* what the radio has reported and the runtime has not read
  phase,         \* of run_managed_radio
  trying,        \* whether a connection attempt has begun
  online,        \* RadioStatus
  shown,         \* the RadioState windows are sent, NoState before the first
  tracked,       \* last_rit_offset_hz
  commands,      \* the channel to the runtime
  inbox,         \* the channel to the keying task
  task,          \* the keying task: [pc, text, wait, pending]
  keyer,         \* the texts in the keyer's buffer
  news,          \* what the CAT keyer reported since a send began: sending or not
  guard,         \* VoiceDataPttGuard: active; the releases its drop has left to tasks of their
                 \* own; history: an attempt that may leave the radio keyed failed since the last
                 \* that did not
  answer,        \* of each text: "none", "asked", "sent", "failed"
  keyed,         \* history: the texts sent or played to their end
  cut,           \* history: the files of unknown length that were taken for sent
  silenced,      \* history: the texts asked for before a stop the task has seen
  uncleared,     \* history: the texts that were in a keyer that could not be cleared
  asked,         \* how many texts have been asked for
  env            \* the bounds that are left and the kind of the keyer

cat == <<rig, reports, phase, trying, online, shown, tracked>>
keying == <<inbox, task, keyer, news, guard, answer, keyed, cut, silenced, uncleared, asked>>
vars == <<cat, commands, keying, env>>

NoState == [mode |-> "none", rit |-> 0]
Ready(r) == [conn |-> "ready", mode |-> r.mode, rit |-> r.rit]
Idle == [pc |-> "idle", text |-> 0, wait |-> FALSE, pending |-> <<>>]
Dead == [Idle EXCEPT !.pc = "dead"]

Init ==
  /\ env \in Worlds
  /\ rig \in [up : {TRUE}, mode : env.modes, rit : {0}, ptt : {FALSE}]
  /\ reports = <<>> /\ phase = "connecting" /\ trying = 0
  /\ online = FALSE /\ shown = NoState /\ tracked = 0
  /\ commands = <<>> /\ inbox = <<>>
  /\ task = Dead /\ keyer = <<>> /\ news = <<>>
  /\ guard = [active |-> FALSE, late |-> 0, lapsed |-> FALSE]
  /\ answer = [t \in Texts |-> "none"]
  /\ keyed = {} /\ cut = {} /\ silenced = {} /\ uncleared = {} /\ asked = 0

Spend(what) == env[what] > 0 /\ env' = [env EXCEPT ![what] = @ - 1]

-----------------------------------------------------------------------------
(* The radio and the keyer.                                                 *)

Report(r) == reports' = IF phase = "connected" THEN Append(reports, Ready(r)) ELSE <<>>

(* Somebody turns a knob: of the mode, the RIT or anything else.            *)
Turn ==
  /\ rig.up /\ Spend("turns")
  /\ \E m \in {"CW", "USB", DataMode}, o \in -RitLimit..RitLimit :
       /\ m = rig.mode \/ o = rig.rit
       /\ rig' = [rig EXCEPT !.mode = m, !.rit = o]
  /\ Report(rig')
  /\ UNCHANGED <<phase, trying, online, shown, tracked, commands, keying>>

(* The connection breaks: the driver reports an error or ends its channel.  *)
(* A radio that transmits goes on.                                          *)
Break ==
  /\ rig.up /\ Spend("breaks")
  /\ rig' = [rig EXCEPT !.up = FALSE]
  /\ \E c \in {"error", "closed"} :
       reports' = IF phase = "connected" THEN Append(reports, [Ready(rig) EXCEPT !.conn = c])
                                         ELSE <<>>
  /\ UNCHANGED <<phase, trying, online, shown, tracked, commands, keying>>

(* The radio can be reached again, by a new connection.                     *)
Mend ==
  /\ ~rig.up /\ phase \in {"waiting", "connecting", "gone"}
  /\ rig' = [rig EXCEPT !.up = TRUE]
  /\ UNCHANGED <<reports, phase, trying, online, shown, tracked, commands, keying, env>>

(* The CAT keyer reports when it falls silent.                              *)
KeyerSends ==
  /\ keyer # <<>>
  /\ keyed' = keyed \cup {Head(keyer)}
  /\ keyer' = Tail(keyer)
  /\ news' = IF task.pc = "catWait" /\ keyer' = <<>> THEN Append(news, FALSE) ELSE news
  /\ UNCHANGED <<cat, commands, inbox, task, guard, answer, cut, silenced, uncleared, asked, env>>

-----------------------------------------------------------------------------
(* handle_radio_socket: commands of the windows.                            *)

IsPhone(m) == m = "SSB"
IsCw(m) == m = "CW"

(* A text is taken in CW and phone; the mode is the one last published.     *)
AskText(t) ==
  /\ t = asked + 1 /\ t <= env.texts /\ phase # "gone"
  /\ IsCw(shown.mode) \/ IsPhone(shown.mode)
  /\ \E w \in env.waits :
       commands' = Append(commands, [op |-> "text", text |-> t, wait |-> w])
  /\ answer' = [answer EXCEPT ![t] = "asked"]
  /\ asked' = t
  /\ UNCHANGED <<cat, inbox, task, keyer, news, guard, keyed, cut, silenced, uncleared, env>>

AskStop ==
  /\ phase # "gone" /\ Spend("stops")
  /\ commands' = Append(commands, [op |-> "stop", before |-> 1..asked])
  /\ UNCHANGED <<cat, keying>>

AskTuning ==
  /\ phase # "gone" /\ Spend("tunings")
  /\ \E c \in {[op |-> "mode", mode |-> m] : m \in {"CW", "DATA"}}
              \cup {[op |-> "rit", delta |-> d] : d \in {0, 1, -1}}
              \cup {[op |-> "wpm"]} :
       commands' = Append(commands, c)
  /\ UNCHANGED <<cat, keying>>

-----------------------------------------------------------------------------
(* run_managed_radio, disconnected.                                         *)

(* Every phase but the last reads the commands: none is kept for later.     *)
Refused(c) == answer' = IF c.op = "text" THEN [answer EXCEPT ![c.text] = "failed"] ELSE answer

(* A command that comes while the connection is made starts it afresh.      *)
RefuseCommand ==
  /\ phase \in {"waiting", "connecting"} /\ commands # <<>>
  /\ Refused(Head(commands))
  /\ commands' = Tail(commands)
  /\ trying' = 0
  /\ UNCHANGED <<rig, reports, phase, online, shown, tracked,
                 inbox, task, keyer, news, guard, keyed, cut, silenced, uncleared, asked, env>>

BackoffEnds ==
  /\ phase = "waiting"
  /\ phase' = "connecting" /\ trying' = 0
  /\ UNCHANGED <<rig, reports, online, shown, tracked, commands, keying, env>>

BeginConnect ==
  /\ phase = "connecting" /\ trying = 0
  /\ trying' = 1
  /\ UNCHANGED <<rig, reports, phase, online, shown, tracked, commands, keying, env>>

ConnectFails ==
  /\ phase = "connecting" /\ trying = 1 /\ ~rig.up
  /\ phase' = "waiting" /\ online' = FALSE
  /\ UNCHANGED <<rig, reports, trying, shown, tracked, commands, keying, env>>

(* logger_mode_from_cat_mode: the same mode of the radio may stand for DATA *)
(* or for SSB, and what was shown before decides.                           *)
LoggerMode(m, previous) ==
  CASE previous = "DATA" /\ m = DataMode -> "DATA"
    [] m = "USB" -> "SSB"
    [] m = "DATA-U" -> "DATA"
    [] OTHER -> m

(* publish_cat_snapshot.                                                    *)
Publish(r) ==
  /\ online' = (r.conn = "ready")
  /\ shown' = [mode |-> LoggerMode(r.mode, shown.mode), rit |-> r.rit]

(* The driver may know the state of the radio when it has connected, or     *)
(* report it soon after; the keying task starts.                            *)
Connected ==
  /\ phase = "connecting" /\ trying = 1 /\ rig.up
  /\ phase' = "connected"
  /\ \/ /\ Publish(Ready(rig)) /\ reports' = <<>> /\ tracked' = rig.rit
     \/ /\ online' = TRUE /\ reports' = <<Ready(rig)>> /\ tracked' = shown.rit
        /\ UNCHANGED shown
  /\ task' = Idle /\ inbox' = <<>>
  /\ UNCHANGED <<rig, trying, commands, keyer, news, guard, answer, keyed, cut, silenced, uncleared, asked, env>>

-----------------------------------------------------------------------------
(* run_managed_radio, connected.                                            *)

(* Mutant: the keying task is awaited but not told.                         *)
GiveUpSilently(next) ==
  /\ phase' = next
  /\ UNCHANGED inbox

(* shutdown_cw_task: the keying task is told and awaited, nothing else is   *)
(* read meanwhile.                                                          *)
GiveUp(next) ==
  /\ phase' = next
  /\ inbox' = Append(inbox, [op |-> "shutdown"])

(* Mutant: the RIT the radio reports is not kept for the next step.         *)
ReadReportOnly ==
  /\ phase = "connected" /\ reports # <<>>
  /\ LET r == Head(reports) IN
     IF r.conn = "closed"
     THEN online' = FALSE /\ GiveUp("dropping") /\ UNCHANGED shown
     ELSE /\ Publish(r)
          /\ IF r.conn = "error" THEN GiveUp("dropping") ELSE UNCHANGED <<phase, inbox>>
  /\ reports' = Tail(reports)
  /\ UNCHANGED <<rig, trying, tracked, commands,
                 task, keyer, news, guard, answer, keyed, cut, silenced, uncleared, asked>>
  /\ UNCHANGED env

ReadReport ==
  /\ phase = "connected" /\ reports # <<>>
  /\ LET r == Head(reports) IN
     IF r.conn = "closed"
     THEN /\ online' = FALSE /\ GiveUp("dropping")
          /\ UNCHANGED <<shown, tracked>>
     ELSE /\ Publish(r) /\ tracked' = r.rit
          /\ IF r.conn = "error" THEN GiveUp("dropping") ELSE UNCHANGED <<phase, inbox>>
  /\ reports' = Tail(reports)
  /\ UNCHANGED <<rig, trying, commands,
                 task, keyer, news, guard, answer, keyed, cut, silenced, uncleared, asked, env>>

(* Reports were lost to a full channel: the state of the radio is published.*)
Lagged ==
  /\ phase = "connected" /\ rig.up /\ Len(reports) > 1 /\ Spend("lags")
  /\ Publish(Ready(rig))
  /\ reports' = Tail(reports)
  /\ UNCHANGED <<rig, phase, trying, tracked, commands, keying>>

(* A text, a stop or a speed goes on to the keying task.                    *)
Forward ==
  /\ phase = "connected" /\ commands # <<>> /\ Head(commands).op \in {"text", "stop", "wpm"}
  /\ inbox' = Append(inbox, Head(commands))
  /\ commands' = Tail(commands)
  /\ UNCHANGED <<cat, task, keyer, news, guard, answer, keyed, cut, silenced, uncleared, asked, env>>

Clamp(o) == IF o > RitLimit THEN RitLimit ELSE IF o < -RitLimit THEN -RitLimit ELSE o

NextRit(delta) == IF delta = 0 THEN 0 ELSE Clamp(tracked + delta)

(* set_rit_offset_hz; an offset that does not change is not sent.           *)
ApplyRit(delta) ==
  IF delta # 0 /\ NextRit(delta) = tracked
  THEN UNCHANGED <<rig, reports, tracked>>
  ELSE /\ rig' = [rig EXCEPT !.rit = NextRit(delta)]
       /\ Report(rig')
       /\ tracked' = NextRit(delta)

ModeFor(m) == IF m = "DATA" THEN DataMode ELSE m

(* publish_requested_logger_mode, once the radio has taken the mode.        *)
ApplyMode(m) ==
  /\ rig' = [rig EXCEPT !.mode = ModeFor(m)]
  /\ Report(rig')
  /\ shown' = IF shown = NoState THEN shown ELSE [shown EXCEPT !.mode = m]

(* What the radio is after a command it took.                               *)
Wanted(c) ==
  CASE c.op = "rit"  -> [rig EXCEPT !.rit = NextRit(c.delta)]
    [] c.op = "mode" -> [rig EXCEPT !.mode = ModeFor(c.mode)]

(* A radio without the capability, one that rejects the command and one     *)
(* whose answer times out keep the connection; the last may have taken it.  *)
ApplyFails(c) ==
  /\ Spend("failures")
  /\ \/ UNCHANGED <<rig, reports>>
     \/ rig' = Wanted(c) /\ Report(rig')
  /\ UNCHANGED <<shown, tracked>>

(* apply_command: an error of the transport gives the connection up.        *)
Apply ==
  /\ phase = "connected" /\ commands # <<>> /\ Head(commands).op \in {"mode", "rit"}
  /\ LET c == Head(commands) IN
     IF ~rig.up
     THEN /\ online' = FALSE /\ GiveUp("dropping")
          /\ UNCHANGED <<rig, reports, shown, tracked, env>>
     ELSE /\ \/ /\ CASE c.op = "rit"  -> ApplyRit(c.delta) /\ UNCHANGED shown
                     [] c.op = "mode" -> ApplyMode(c.mode) /\ UNCHANGED tracked
                /\ UNCHANGED env
             \/ ApplyFails(c)
          /\ UNCHANGED <<online, phase, inbox>>
  /\ commands' = Tail(commands)
  /\ UNCHANGED <<trying, task, keyer, news, guard, answer, keyed, cut, silenced, uncleared, asked>>

(* The keying task has returned: what is left in its channel goes with it,  *)
(* and radio.shutdown() takes the connection from the releases under way.   *)
Unanswered(queue) ==
  [t \in Texts |-> IF \E i \in DOMAIN queue : queue[i].op = "text" /\ queue[i].text = t
                   THEN "failed" ELSE answer[t]]

Dropped ==
  /\ phase \in {"dropping", "leaving"} /\ task.pc = "dead"
  /\ phase' = IF phase = "dropping" THEN "waiting" ELSE "gone"
  /\ answer' = IF phase = "leaving" THEN Unanswered(commands) ELSE answer
  /\ commands' = IF phase = "leaving" THEN <<>> ELSE commands
  /\ reports' = <<>>
  /\ guard' = [guard EXCEPT !.late = 0, !.lapsed = @ \/ guard.late > 0]
  /\ UNCHANGED <<rig, trying, online, shown, tracked,
                 inbox, task, keyer, news, keyed, cut, silenced, uncleared, asked, env>>

(* The last session has left: RadioManager::release.                        *)
Quit ==
  /\ phase \in {"waiting", "connecting", "connected"} /\ Spend("quits")
  /\ IF phase = "connected"
     THEN GiveUp("leaving") /\ UNCHANGED <<commands, answer>>
     ELSE /\ phase' = "gone" /\ commands' = <<>> /\ answer' = Unanswered(commands)
          /\ UNCHANGED inbox
  /\ UNCHANGED <<rig, reports, trying, online, shown, tracked,
                 task, keyer, news, guard, keyed, cut, silenced, uncleared, asked>>

-----------------------------------------------------------------------------
(* run_cw_task.  What the task waits with comes first, then its channel.    *)

Answered(t, result) == [answer EXCEPT ![t] = result]
Began(c) == [task EXCEPT !.pc = "begin", !.text = c.text, !.wait = c.wait]

TakePending ==
  /\ task.pc = "idle" /\ task.pending # <<>>
  /\ task' = [Began(Head(task.pending)) EXCEPT !.pending = Tail(@)]
  /\ UNCHANGED <<cat, commands, inbox, keyer, news, guard, answer, keyed, cut, silenced, uncleared, asked, env>>

(* CwController::stop: a keyer that cannot be cleared sends what it has; that  *)
(* of the radio cannot be without a connection.                             *)
ClearBuffer ==
  \/ /\ env.keyer = "cat" => rig.up
     /\ keyer' = <<>>
     /\ UNCHANGED <<uncleared, env>>
  \/ /\ \/ env.keyer = "cat" /\ ~rig.up /\ UNCHANGED env
        \/ Spend("failures")
     /\ uncleared' = uncleared \cup ToSet(keyer)
     /\ UNCHANGED keyer

TakeCommand ==
  /\ task.pc = "idle" /\ task.pending = <<>> /\ inbox # <<>>
  /\ LET c == Head(inbox) IN
     /\ task' = CASE c.op = "text" -> Began(c)
                  [] c.op = "shutdown" -> Dead
                  [] OTHER -> task
     /\ IF c.op = "stop"
        THEN ClearBuffer /\ silenced' = silenced \cup c.before
        ELSE UNCHANGED <<keyer, silenced, uncleared, env>>
     /\ answer' = IF c.op = "shutdown" THEN Unanswered(Tail(inbox)) ELSE answer
     /\ inbox' = IF c.op = "shutdown" THEN <<>> ELSE Tail(inbox)
  /\ UNCHANGED <<cat, commands, news, guard, keyed, cut, asked>>

Ends(result) ==
  /\ answer' = Answered(task.text, result)
  /\ task' = [task EXCEPT !.pc = "idle", !.text = 0]

(* A request to the radio fails: it is rejected, times out or is lost with   *)
(* the connection.                                                          *)
RequestFails == Spend("failures") \/ (~rig.up /\ UNCHANGED env)

(* VoiceDataPttGuard::acquire: after an error nothing will be released, even *)
(* if the radio took the request and its answer was lost.                   *)
Acquire ==
  \/ /\ rig.up
     /\ rig' = [rig EXCEPT !.ptt = TRUE]
     /\ guard' = [guard EXCEPT !.active = TRUE, !.lapsed = FALSE]
     /\ UNCHANGED env
  \/ /\ RequestFails
     /\ \/ UNCHANGED <<rig, guard>>
        \/ /\ rig.up
           /\ rig' = [rig EXCEPT !.ptt = TRUE]
           /\ guard' = [guard EXCEPT !.lapsed = TRUE]

(* send_text in a phone mode; there may be no thread to play the file.      *)
BeginVoice ==
  /\ task.pc = "begin" /\ LoggerMode(rig.mode, "none") = "SSB"
  /\ \/ /\ Acquire
        /\ task' = [task EXCEPT !.pc = "voice"]
        /\ UNCHANGED answer
     \/ /\ Spend("failures")
        /\ Ends("failed")
        /\ UNCHANGED <<rig, guard>>
  /\ UNCHANGED <<reports, phase, trying, online, shown, tracked,
                 commands, inbox, keyer, news, keyed, cut, silenced, uncleared, asked>>

(* What send_text of each kind of keyer leaves to wait for.                 *)
WaitFor(kind) ==
  CASE kind = "winkeyer" -> "busyWait"
    [] kind = "serial" -> "idleWait"
    [] kind = "cat" -> "catWait"

(* The reports of a CAT keyer are followed from before the text is sent:    *)
(* what it was sending may end in between.                                  *)
SendByCat ==
  \E early \in {FALSE, keyer # <<>>} :
    /\ keyer' = IF early THEN <<task.text>> ELSE Append(keyer, task.text)
    /\ keyed' = IF early THEN keyed \cup ToSet(keyer) ELSE keyed
    /\ news' = IF early THEN <<FALSE, TRUE>> ELSE <<TRUE>>

(* The device of a Winkeyer or of a serial line takes the text.             *)
SendByDevice ==
  /\ keyer' = Append(keyer, task.text)
  /\ UNCHANGED <<keyed, news>>

(* A keyer that is not there, cannot be opened or refuses the text.         *)
BeginKeying ==
  /\ task.pc = "begin" /\ LoggerMode(rig.mode, "none") # "SSB"
  /\ \/ /\ env.keyer = "none" \/ Spend("failures")
        /\ env.keyer = "none" => UNCHANGED env
        /\ Ends("failed")
        /\ UNCHANGED <<keyer, news, keyed>>
     \/ /\ env.keyer # "none"
        /\ IF env.keyer = "cat" THEN SendByCat ELSE SendByDevice
        /\ IF ~task.wait THEN Ends("sent")
           ELSE task' = [task EXCEPT !.pc = WaitFor(env.keyer)] /\ UNCHANGED answer
        /\ UNCHANGED env
  /\ UNCHANGED <<cat, commands, inbox, guard, cut, silenced, uncleared, asked>>

KeyerBusy == keyer # <<>>

(* wait_until_busy_or_stopped: a text that is sent between two looks at the *)
(* keyer was never seen busy.                                               *)
BusyWait ==
  /\ task.pc = "busyWait"
  /\ IF KeyerBusy
     THEN \/ task' = [task EXCEPT !.pc = "idleWait"] /\ UNCHANGED <<answer, env>>
          \/ Spend("failures") /\ Ends("failed")
     ELSE Ends("failed") /\ UNCHANGED env
  /\ UNCHANGED <<cat, commands, inbox, keyer, news, guard, keyed, cut, silenced, uncleared, asked>>

(* Mutant: a keyer that is busy is taken for one that is idle.              *)
IdleWaitEndsEarly ==
  /\ task.pc = "idleWait" /\ Ends("sent")
  /\ UNCHANGED <<cat, commands, inbox, keyer, news, guard, keyed, cut, silenced, uncleared, asked, env>>

(* wait_until_idle_or_stopped.                                              *)
IdleWait ==
  /\ task.pc = "idleWait"
  /\ \/ ~KeyerBusy /\ Ends("sent") /\ UNCHANGED env
     \/ Spend("failures") /\ Ends("failed")
  /\ UNCHANGED <<cat, commands, inbox, keyer, news, guard, keyed, cut, silenced, uncleared, asked>>

(* wait_until_radio_cat_cw_complete_or_stopped.                             *)
CatWait ==
  /\ task.pc = "catWait"
  /\ \/ /\ news # <<>>
        /\ news' = Tail(news)
        /\ IF Head(news) THEN UNCHANGED <<task, answer>> ELSE Ends("sent")
     \/ ~rig.up /\ Ends("failed") /\ UNCHANGED news
  /\ UNCHANGED <<cat, commands, inbox, keyer, guard, keyed, cut, silenced, uncleared, asked, env>>

(* The file has been played or could not be: push-to-talk is released next. *)
(* One whose length is not known is cut off after half a second.            *)
VoiceEnds ==
  /\ task.pc = "voice"
  /\ \/ /\ task' = [task EXCEPT !.pc = "played"]
        /\ \/ keyed' = keyed \cup {task.text} /\ UNCHANGED cut
           \/ cut' = cut \cup {task.text} /\ UNCHANGED keyed
     \/ /\ task' = [task EXCEPT !.pc = "unplayed"]
        /\ UNCHANGED <<keyed, cut>>
  /\ UNCHANGED <<cat, commands, inbox, keyer, news, guard, answer, silenced, uncleared, asked, env>>

(* The task awaits the release: of a file that was played, that was not, or *)
(* the last before the task ends.                                           *)
Releasing == {"played", "unplayed", "last"}

(* Mutant: a release that fails is not tried again.                         *)
ReleaseOnce ==
  \/ ~guard.active /\ UNCHANGED <<rig, guard, env>>
  \/ /\ guard.active /\ rig.up
     /\ rig' = [rig EXCEPT !.ptt = FALSE]
     /\ guard' = [guard EXCEPT !.active = FALSE, !.lapsed = FALSE]
     /\ UNCHANGED env
  \/ /\ guard.active /\ RequestFails
     /\ guard' = [guard EXCEPT !.active = FALSE]
     /\ UNCHANGED rig

(* VoiceDataPttGuard::release, and drop when it failed: a task of its own   *)
(* tries once more.                                                         *)
Release ==
  \/ ~guard.active /\ UNCHANGED <<rig, guard, env>>
  \/ /\ guard.active /\ rig.up
     /\ rig' = [rig EXCEPT !.ptt = FALSE]
     /\ guard' = [guard EXCEPT !.active = FALSE, !.lapsed = FALSE]
     /\ UNCHANGED env
  \/ /\ guard.active /\ RequestFails
     /\ guard' = [guard EXCEPT !.active = FALSE, !.late = @ + 1]
     /\ UNCHANGED rig

(* The file's end is told after the release.                                *)
VoiceReleased ==
  /\ task.pc \in Releasing
  /\ Release
  /\ answer' = Answered(task.text, IF task.pc = "played" THEN "sent" ELSE "failed")
  /\ task' = IF task.pc = "last" THEN Dead ELSE [task EXCEPT !.pc = "idle", !.text = 0]
  /\ UNCHANGED <<reports, phase, trying, online, shown, tracked,
                 commands, inbox, keyer, news, keyed, cut, silenced, uncleared, asked>>

(* Nobody tries a third time.                                               *)
LateRelease ==
  /\ guard.late > 0
  /\ \/ /\ rig.up
        /\ rig' = [rig EXCEPT !.ptt = FALSE]
        /\ guard' = [guard EXCEPT !.late = @ - 1, !.lapsed = FALSE]
        /\ UNCHANGED env
     \/ /\ RequestFails
        /\ guard' = [guard EXCEPT !.late = @ - 1, !.lapsed = TRUE]
        /\ UNCHANGED rig
  /\ UNCHANGED <<reports, phase, trying, online, shown, tracked, commands,
                 inbox, task, keyer, news, answer, keyed, cut, silenced, uncleared, asked>>

(* The states of the task that select! the channel with something else.     *)
Waits == task.pc \in {"busyWait", "idleWait", "catWait", "voice"}

WaitQueues ==
  /\ Waits /\ inbox # <<>> /\ Head(inbox).op \in {"text", "wpm"}
  /\ task' = IF Head(inbox).op = "text" THEN [task EXCEPT !.pending = Append(@, Head(inbox))]
                                        ELSE task
  /\ inbox' = Tail(inbox)
  /\ UNCHANGED <<cat, commands, keyer, news, guard, answer, keyed, cut, silenced, uncleared, asked, env>>

PendingTexts == {task.pending[i].text : i \in DOMAIN task.pending}

(* The task after it was told to stop: a file awaits its release first.     *)
Stopped(op) ==
  CASE task.pc = "voice" -> [task EXCEPT !.pc = IF op = "stop" THEN "unplayed" ELSE "last",
                                         !.pending = <<>>]
    [] task.pc # "voice" /\ op = "stop" -> Idle
    [] OTHER -> Dead

(* handle_wait_command: a stop fails what waits and what is being sent, a   *)
(* shutdown ends the task as well.                                          *)
Interrupt ==
  /\ Waits /\ inbox # <<>> /\ Head(inbox).op \in {"stop", "shutdown"}
  /\ LET c == Head(inbox) IN
     /\ answer' = [t \in Texts |->
                     IF t = task.text THEN IF task.pc = "voice" THEN answer[t] ELSE "failed"
                     ELSE IF t \in PendingTexts THEN "failed"
                     ELSE IF c.op = "shutdown" THEN Unanswered(Tail(inbox))[t] ELSE answer[t]]
     /\ task' = Stopped(c.op)
     /\ inbox' = IF c.op = "shutdown" THEN <<>> ELSE Tail(inbox)
     /\ silenced' = IF c.op = "stop" THEN silenced \cup c.before ELSE silenced
  /\ ClearBuffer
  /\ UNCHANGED <<cat, commands, news, guard, keyed, cut, asked>>

-----------------------------------------------------------------------------
Runtime ==
  \/ RefuseCommand \/ BackoffEnds \/ BeginConnect \/ ConnectFails \/ Connected
  \/ ReadReport \/ Forward \/ Apply \/ Dropped

Keying ==
  \/ TakePending \/ TakeCommand \/ BeginVoice \/ BeginKeying
  \/ BusyWait \/ IdleWait \/ CatWait \/ VoiceEnds \/ VoiceReleased \/ WaitQueues \/ Interrupt

Next ==
  \/ Turn \/ Break \/ Mend \/ KeyerSends
  \/ \E t \in Texts : AskText(t)
  \/ AskStop \/ AskTuning
  \/ Runtime \/ Lagged \/ Quit
  \/ Keying \/ LateRelease

Spec == Init /\ [][Next]_vars

(* The two tasks go on when they can; a keyer sends what it has, a file     *)
(* ends, a radio that is away comes back.                                   *)
FairSpec ==
  /\ Spec
  /\ WF_vars(Runtime) /\ WF_vars(Keying)
  /\ WF_vars(Mend) /\ WF_vars(KeyerSends)

-----------------------------------------------------------------------------
Logger == {"CW", "SSB", "DATA"}

(* Once the reports of the radio are read, the windows are shown its RIT    *)
(* and a mode that stands for the radio's, and the next RIT step starts     *)
(* from there; without a connection they are shown a radio that is offline  *)
(* (cat_runtime.rs, publish_cat_snapshot against apply_command).            *)
ShowsTheRadio ==
  /\ (phase = "connected" /\ reports = <<>> /\ rig.up) =>
       /\ online /\ shown.rit = rig.rit /\ tracked = rig.rit
       /\ shown.mode \in {LoggerMode(rig.mode, p) : p \in Logger}
  /\ phase \in {"waiting", "connecting"} => ~online

SilencedStaysSilent ==
  \A t \in silenced :
    /\ t \notin PendingTexts
    /\ t = task.text => task.pc \in Releasing
    /\ t \in ToSet(keyer) => t \in uncleared

SentMeansKeyed ==
  env.keyer # "cat" /\ env.waits = {TRUE} =>
    \A t \in Texts : answer[t] = "sent" => t \in keyed \cup cut

(* What was asked for before a stop is neither pending nor being sent or    *)
(* played once the keying task has seen the stop, and it still goes on the  *)
(* air only if the keyer had it already and could not be cleared, of which  *)
(* nobody is told (cw_task.rs, handle_wait_command and stop); and the       *)
(* windows hear that a text was sent to its end only when it was, by the    *)
(* keyer or as a file (cw_task.rs, CwSendCompletion), or when it is a file  *)
(* of unknown length.  With the CAT keyer the end of an earlier text may be *)
(* taken for it.                                                            *)
TextsEndAsTold == SilencedStaysSilent /\ SentMeansKeyed

(* The radio transmits only for a file that is played or being released, or *)
(* until the second attempt to release it, unless that attempt failed too,  *)
(* was overtaken by the end of the connection, or the radio took a request  *)
(* whose answer was lost: nothing releases it then but the next file        *)
(* (voice.rs, VoiceDataPttGuard).                                           *)
PttFollowsVoice ==
  rig.ptt =>
    \/ guard.active /\ task.pc \in {"voice"} \cup Releasing
    \/ guard.late > 0
    \/ guard.lapsed

(* Every text a window asks for is answered, whatever happens to the        *)
(* connection, the keyer and the sessions (cat_runtime.rs and cw_task.rs:   *)
(* every path that drops a text fails it).                                  *)
EveryTextIsAnswered == \A t \in Texts : (answer[t] = "asked") ~> (answer[t] # "asked")
=============================================================================
