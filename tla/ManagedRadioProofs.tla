-------------------------- MODULE ManagedRadioProofs --------------------------
(***************************************************************************)
(* Theorems about ManagedRadio, for any texts, limits, worlds and faults:  *)
(* its invariant, inductive, one lemma per part of it, and the properties  *)
(* that follow.                                                            *)
(***************************************************************************)
EXTENDS ManagedRadio, SequenceTheorems, TLAPS

(* What may be asked of the runtime and of the keying task.                 *)
TextCommand == [op : {"text"}, text : Texts, wait : BOOLEAN]
StopCommand == [op : {"stop"}, before : SUBSET Nat]
Speed == [op : {"wpm"}]
Tuning == [op : {"mode"}, mode : {"CW", "DATA"}] \cup [op : {"rit"}, delta : {0, 1, -1}]
Command == TextCommand \cup StopCommand \cup Speed \cup Tuning
KeyingCommand == TextCommand \cup StopCommand \cup Speed \cup [op : {"shutdown"}]

(* The modes the radio and the windows may have.                            *)
Modes ==
  {"CW", "USB", "SSB", "DATA", "DATA-U", "none"} \cup UNION {world.modes : world \in Worlds}

RigStatus == [up : BOOLEAN, mode : Modes, rit : Int, ptt : BOOLEAN]
ReportStatus == [conn : {"ready", "error", "closed"}, mode : Modes, rit : Int]
Waiting == {"busyWait", "idleWait", "catWait", "voice"} \cup Releasing
GuardStatus == [active : BOOLEAN, late : Nat, lapsed : BOOLEAN]
Task == [pc : {"idle", "dead", "begin"} \cup Waiting, text : Texts \cup {0}, wait : BOOLEAN,
         pending : Seq(TextCommand)]
Phases == {"waiting", "connecting", "connected", "dropping", "leaving", "gone"}

CatTypes ==
  /\ env \in Bounds
  /\ rig \in RigStatus /\ reports \in Seq(ReportStatus)
  /\ phase \in Phases /\ trying \in {0, 1}
  /\ online \in BOOLEAN /\ shown \in [mode : Modes, rit : Int] /\ tracked \in Int
  /\ commands \in Seq(Command)

KeyingTypes ==
  /\ inbox \in Seq(KeyingCommand)
  /\ task \in Task
  /\ task.pc \notin {"idle", "dead"} => task.text \in Texts
  /\ keyer \in Seq(Texts) /\ news \in Seq(BOOLEAN) /\ guard \in GuardStatus
  /\ answer \in [Texts -> {"none", "asked", "sent", "failed"}]
  /\ keyed \subseteq Texts /\ cut \subseteq Texts
  /\ silenced \subseteq Nat /\ uncleared \subseteq Texts /\ asked \in Nat

TypeOK == CatTypes /\ KeyingTypes

(* The keying task lives while there is a connection, and is waited for     *)
(* before there is another.                                                 *)
TaskOK == phase \in {"waiting", "connecting", "gone"} => task.pc = "dead"

(* The last report that is unread tells the radio as it is; when all are    *)
(* read the windows are shown just that.  A radio that is lost has left a   *)
(* report of it, so that its runtime will not stay connected.               *)
Newest == reports[Len(reports)]

NewestTellsTheRadio ==
  phase = "connected" /\ reports # <<>> =>
    /\ Newest.mode = rig.mode /\ Newest.rit = rig.rit
    /\ ~rig.up => Newest.conn # "ready"

AllReadIsShown ==
  phase = "connected" /\ reports = <<>> =>
    /\ rig.up /\ online
    /\ shown.rit = rig.rit /\ tracked = rig.rit
    /\ shown.mode \in {LoggerMode(rig.mode, p) : p \in Logger}

OfflineWithout == phase \in {"waiting", "connecting", "dropping"} => ~online

CatInv == NewestTellsTheRadio /\ AllReadIsShown /\ OfflineWithout

(* A command that is on its way: a text was asked for and not silenced, a   *)
(* stop is for texts that were asked for.                                   *)
Sane(c, n, silent) ==
  /\ c.op = "text" => c.text \in (1..n) \ silent
  /\ c.op = "stop" => c.before \subseteq 1..n

(* A text behind a stop was asked for after it.                             *)
Spares(c, d) == c.op = "stop" /\ d.op = "text" => d.text \notin c.before

InOrder(q) == \A i, j \in DOMAIN q : i < j => Spares(q[i], q[j])
AllSane(q, n, silent) == \A i \in DOMAIN q : Sane(q[i], n, silent)
AllSpare(q, r) == \A i \in DOMAIN q, j \in DOMAIN r : Spares(q[i], r[j])

QueuesOK(ib, cs, n, silent) ==
  /\ AllSane(ib, n, silent) /\ AllSane(cs, n, silent)
  /\ InOrder(ib) /\ InOrder(cs) /\ AllSpare(ib, cs)

(* No text that is queued, pending, being keyed or played was silenced, and *)
(* of those in the keyer only what could not be cleared.                    *)
StopInv ==
  /\ silenced \subseteq 1..asked
  /\ QueuesOK(inbox, commands, asked, silenced)
  /\ \A i \in DOMAIN task.pending : task.pending[i].text \in (1..asked) \ silenced
  /\ task.text \in 0..asked
  /\ task.pc \notin Releasing => task.text \notin silenced
  /\ task.pc \in {"idle", "dead"} => task.text = 0
  /\ \A i \in DOMAIN keyer : keyer[i] \in silenced => keyer[i] \in uncleared

(* Where a completion is always waited for, a text the task waits for is    *)
(* with the keyer or was sent, and a file that is over was played or cut.   *)
AllWait(q) == \A i \in DOMAIN q : q[i].op = "text" => q[i].wait

Waited == env.keyer # "cat" /\ env.waits = {TRUE}

SentInv ==
  Waited =>
    /\ AllWait(commands) /\ AllWait(inbox)
    /\ \A i \in DOMAIN task.pending : task.pending[i].wait
    /\ task.pc = "begin" => task.wait
    /\ task.pc # "catWait"
    /\ task.pc \in {"busyWait", "idleWait"} =>
         task.text \in keyed \cup {keyer[i] : i \in DOMAIN keyer}
    /\ task.pc = "played" => task.text \in keyed \cup cut
    /\ \A t \in Texts : answer[t] = "sent" => t \in keyed \cup cut

Inv == TypeOK /\ TaskOK /\ PttFollowsVoice /\ CatInv /\ StopInv /\ SentInv

-----------------------------------------------------------------------------
(* Sequences.                                                               *)

LEMMA Appended ==
  ASSUME NEW S, NEW q \in Seq(S), NEW x \in S
  PROVE  /\ Append(q, x) \in Seq(S) /\ Append(q, x) # <<>>
         /\ Len(Append(q, x)) = Len(q) + 1 /\ Len(q) \in Nat
         /\ DOMAIN q = 1..Len(q) /\ DOMAIN Append(q, x) = 1..(Len(q) + 1)
         /\ \A i \in 1..Len(q) : Append(q, x)[i] = q[i]
         /\ Append(q, x)[Len(q) + 1] = x
<1>1. Append(q, x) \in Seq(S) /\ Len(Append(q, x)) = Len(q) + 1 /\ Len(q) \in Nat
  BY AppendProperties, LenProperties
<1>2. \A i \in 1..Len(q) : Append(q, x)[i] = q[i]
  BY AppendProperties, LenProperties
<1>3. Append(q, x)[Len(q) + 1] = x
  BY AppendProperties
<1>4. DOMAIN q = 1..Len(q)
  BY LenProperties
<1>5. DOMAIN Append(q, x) = 1..(Len(q) + 1)
  BY <1>1, LenProperties
<1>6. Append(q, x) # <<>>
  BY <1>1, EmptySeq
<1> QED BY <1>1, <1>2, <1>3, <1>4, <1>5, <1>6

LEMMA Behead ==
  ASSUME NEW S, NEW q \in Seq(S), q # <<>>
  PROVE  /\ Head(q) \in S /\ Head(q) = q[1]
         /\ Tail(q) \in Seq(S)
         /\ Len(q) \in Nat /\ Len(q) >= 1
         /\ DOMAIN q = 1..Len(q) /\ DOMAIN Tail(q) = 1..(Len(q) - 1)
         /\ Len(Tail(q)) = Len(q) - 1
         /\ \A i \in 1..(Len(q) - 1) : Tail(q)[i] = q[i + 1]
<1>1. Len(q) \in Nat /\ Len(q) >= 1
  BY EmptySeq, LenProperties
<1>2. Tail(q) \in Seq(S) /\ Len(Tail(q)) = Len(q) - 1
  BY HeadTailProperties
<1>3. \A i \in 1..(Len(q) - 1) : Tail(q)[i] = q[i + 1]
  BY <1>2, HeadTailProperties
<1>4. DOMAIN q = 1..Len(q)
  BY LenProperties
<1>5. DOMAIN Tail(q) = 1..(Len(q) - 1)
  BY <1>2, LenProperties
<1>6. Head(q) = q[1]
  BY HeadTailProperties
<1>7. q[1] \in S
  BY <1>1, ElementOfSeq
<1> QED BY <1>1, <1>2, <1>3, <1>4, <1>5, <1>6, <1>7

LEMMA Elements == ASSUME NEW S, NEW q \in Seq(S) PROVE DOMAIN q = 1..Len(q) /\ \A i \in DOMAIN q : q[i] \in S
BY LenProperties, ElementOfSeq

LEMMA Nothing == ASSUME NEW S PROVE <<>> \in Seq(S) /\ Len(<<>>) = 0 /\ DOMAIN <<>> = {}
<1>1. <<>> \in Seq(S) /\ Len(<<>>) = 0
  BY EmptySeq
<1>2. DOMAIN <<>> = 1..Len(<<>>)
  BY <1>1, LenProperties
<1> QED BY <1>1, <1>2

LEMMA OneOf == ASSUME NEW S, NEW x \in S PROVE <<x>> \in Seq(S) /\ <<x>> # <<>> /\ Len(<<x>>) = 1 /\ <<x>>[1] = x /\ DOMAIN <<x>> = {1}
OBVIOUS
-----------------------------------------------------------------------------
(* Commands are told apart by what they are called.                         *)

LEMMA TextOrNot ==
  ASSUME NEW c \in Command \cup KeyingCommand
  PROVE  /\ c.op = "text" => c \in TextCommand
         /\ c.op = "stop" => c \in StopCommand
         /\ c.op = "mode" => c.mode \in {"CW", "DATA"}
         /\ c.op = "rit" => c.delta \in {0, 1, -1}
         /\ c.op \in {"text", "stop", "wpm"} => c \in KeyingCommand
         /\ c.op \in {"text", "stop", "wpm", "mode", "rit", "shutdown"}
BY DEF Command, KeyingCommand, TextCommand, StopCommand, Speed, Tuning

LEMMA Shutdown == [op |-> "shutdown"] \in KeyingCommand
BY DEF KeyingCommand

LEMMA Spending ==
  ASSUME env \in Bounds, NEW what \in {"turns", "breaks", "stops", "tunings", "lags", "quits", "failures"},
         Spend(what)
  PROVE  env' \in Bounds /\ env'.keyer = env.keyer /\ env'.waits = env.waits /\ env'.modes = env.modes
BY DEF Spend, Bounds

LEMMA Failing ==
  ASSUME env \in Bounds, RequestFails \/ ClearBuffer \/ Release \/ Acquire \/ (\E c : ApplyFails(c))
  PROVE  env' \in Bounds /\ env'.keyer = env.keyer /\ env'.waits = env.waits /\ env'.modes = env.modes
<1>1. CASE env' = env
  BY <1>1
<1>2. CASE Spend("failures")
  BY <1>2, Spending
<1> QED BY <1>1, <1>2 DEF RequestFails, ClearBuffer, Release, Acquire, ApplyFails

-----------------------------------------------------------------------------
(* Types.                                                                   *)

LEMMA InitTypes == Init => TypeOK
<1> SUFFICES ASSUME Init PROVE TypeOK
  OBVIOUS
<1>1. env \in Bounds
  BY WorldsAssumption DEF Init
<1>2. PICK m \in env.modes : rig = [up |-> TRUE, mode |-> m, rit |-> 0, ptt |-> FALSE]
  BY DEF Init
<1>3. rig \in RigStatus
  <2>1. m \in Modes
    BY <1>2 DEF Modes, Init
  <2> QED BY <1>2, <2>1 DEF RigStatus
<1>4. \A S : <<>> \in Seq(S)
  BY EmptySeq
<1>5. CatTypes
  <2>1. shown \in [mode : Modes, rit : Int]
    BY DEF Init, NoState, Modes
  <2>2. commands \in Seq(Command) /\ reports \in Seq(ReportStatus)
    BY EmptySeq DEF Init
  <2>3. phase \in Phases /\ trying \in {0, 1} /\ tracked \in Int
    BY DEF Init, Phases
  <2>4. online \in BOOLEAN
    BY DEF Init
  <2> QED BY <1>1, <1>3, <2>1, <2>2, <2>3, <2>4 DEF CatTypes
<1>6. task \in Task /\ task.pc = "dead"
  BY <1>4 DEF Init, Task, Dead, Idle
<1>7. KeyingTypes
  BY <1>4, <1>6 DEF Init, KeyingTypes, GuardStatus
<1> QED BY <1>5, <1>7 DEF TypeOK

LEMMA ReadyReport ==
  ASSUME NEW r \in RigStatus
  PROVE  /\ Ready(r) \in ReportStatus /\ Ready(r).mode = r.mode /\ Ready(r).rit = r.rit
         /\ Ready(r).conn = "ready"
BY DEF Ready, RigStatus, ReportStatus

LEMMA ModeOfLogger == ASSUME NEW m \in Modes, NEW p PROVE LoggerMode(m, p) \in Modes
BY DEF LoggerMode, Modes

LEMMA Reporting ==
  ASSUME CatTypes, rig' \in RigStatus, Report(rig')
  PROVE  reports' \in Seq(ReportStatus)
<1>1. Append(reports, Ready(rig')) \in Seq(ReportStatus)
  BY ReadyReport, Appended DEF CatTypes
<1> QED BY <1>1, EmptySeq DEF Report

LEMMA Publishing ==
  ASSUME CatTypes, NEW r \in ReportStatus, Publish(r)
  PROVE  online' \in BOOLEAN /\ shown' \in [mode : Modes, rit : Int] /\ shown'.rit = r.rit
         /\ shown'.mode = LoggerMode(r.mode, shown.mode)
BY ModeOfLogger DEF CatTypes, Publish, ReportStatus

LEMMA Clamped == ASSUME NEW o \in Int PROVE Clamp(o) \in Int
BY RitLimitAssumption DEF Clamp

LEMMA NextRitIsInt ==
  ASSUME tracked \in Int, NEW delta \in Int
  PROVE  NextRit(delta) \in Int
<1>1. tracked + delta \in Int
  OBVIOUS
<1>2. Clamp(tracked + delta) \in Int
  BY <1>1, Clamped
<1> QED BY <1>2 DEF NextRit

LEMMA WantedRig ==
  ASSUME CatTypes, NEW c \in Command, c.op \in {"mode", "rit"}
  PROVE  Wanted(c) \in RigStatus /\ Wanted(c).up = rig.up /\ Wanted(c).ptt = rig.ptt
<1>1. CASE c.op = "rit"
  <2>1. c.delta \in Int
    BY <1>1, TextOrNot
  <2>2. NextRit(c.delta) \in Int
    BY <2>1, NextRitIsInt DEF CatTypes
  <2>3. Wanted(c) = [rig EXCEPT !.rit = NextRit(c.delta)]
    BY <1>1 DEF Wanted
  <2> QED BY <2>2, <2>3 DEF CatTypes, RigStatus
<1>2. CASE c.op = "mode"
  <2>1. ModeFor(c.mode) \in Modes
    BY <1>2, TextOrNot, DataModeAssumption DEF ModeFor, Modes
  <2>2. Wanted(c) = [rig EXCEPT !.mode = ModeFor(c.mode)]
    BY <1>2 DEF Wanted
  <2> QED BY <2>1, <2>2 DEF CatTypes, RigStatus
<1> QED BY <1>1, <1>2

LEMMA Retuned ==
  ASSUME CatTypes, NEW m \in Modes, NEW o \in Int,
         rig' = [rig EXCEPT !.mode = m, !.rit = o]
  PROVE  rig' \in RigStatus
BY DEF CatTypes, RigStatus

(* The runtime's own side of a step: what it keeps keeps its type.          *)
LEMMA CatTypesStep == TypeOK /\ [Next]_vars => CatTypes'
<1> SUFFICES ASSUME TypeOK, [Next]_vars PROVE CatTypes'
  OBVIOUS
<1>0. CatTypes
  BY DEF TypeOK
<1> USE <1>0 DEF CatTypes, cat, keying
<1> HIDE <1>0
<1>a. ASSUME commands # <<>> PROVE Head(commands) \in Command /\ Tail(commands) \in Seq(Command)
  BY <1>a, <1>0, Behead
<1>b. ASSUME NEW c \in Command PROVE Append(commands, c) \in Seq(Command)
  BY <1>b, <1>0, Appended
<1>c. <<>> \in Seq(Command) /\ <<>> \in Seq(ReportStatus)
  BY EmptySeq
<1>d. ASSUME UNCHANGED <<rig, reports, phase, trying, online, shown, tracked>>, UNCHANGED env,
             commands' \in Seq(Command)
      PROVE CatTypes'
  BY <1>d, <1>0
<1>e. ASSUME UNCHANGED <<phase, trying, online, shown, tracked, commands>>, env' \in Bounds,
             rig' \in RigStatus, reports' \in Seq(ReportStatus)
      PROVE CatTypes'
  BY <1>e, <1>0
<1>f. ASSUME NEW what \in {"turns", "breaks", "stops", "tunings", "lags", "quits", "failures"},
             Spend(what)
      PROVE env' \in Bounds
  BY <1>f, <1>0, Spending
<1>1. ASSUME Turn PROVE CatTypes'
  <2>1. PICK m \in {"CW", "USB", DataMode}, o \in -RitLimit..RitLimit :
          rig' = [rig EXCEPT !.mode = m, !.rit = o]
    BY <1>1 DEF Turn
  <2>2. m \in Modes /\ o \in Int
    BY DataModeAssumption, RitLimitAssumption DEF Modes
  <2>3. rig' \in RigStatus
    BY <2>1, <2>2, <1>0, Retuned
  <2>4. reports' \in Seq(ReportStatus)
    BY <1>1, <2>3, <1>0, Reporting DEF Turn
  <2>5. env' \in Bounds
    BY <1>1, <1>f DEF Turn
  <2> QED BY <1>1, <2>3, <2>4, <2>5, <1>e DEF Turn
<1>2. ASSUME Break PROVE CatTypes'
  <2>1. rig' \in RigStatus
    BY <1>2, <1>0 DEF Break, RigStatus
  <2>2. PICK c \in {"error", "closed"} :
          reports' = IF phase = "connected" THEN Append(reports, [Ready(rig) EXCEPT !.conn = c])
                                            ELSE <<>>
    BY <1>2 DEF Break
  <2>3. [Ready(rig) EXCEPT !.conn = c] \in ReportStatus
    BY <1>0, ReadyReport DEF ReportStatus
  <2>4. reports' \in Seq(ReportStatus)
    BY <2>2, <2>3, <1>0, <1>c, Appended
  <2>5. env' \in Bounds
    BY <1>2, <1>f DEF Break
  <2> QED BY <1>2, <2>1, <2>4, <2>5, <1>e DEF Break
<1>3. ASSUME Mend PROVE CatTypes'
  <2>1. rig' \in RigStatus
    BY <1>3, <1>0 DEF Mend, RigStatus
  <2> QED BY <1>3, <2>1, <1>0 DEF Mend
<1>4. ASSUME KeyerSends PROVE CatTypes'
  BY <1>4, <1>0 DEF KeyerSends
<1>5. ASSUME NEW t \in Texts, AskText(t) PROVE CatTypes'
  <2>1. PICK w \in env.waits : commands' = Append(commands, [op |-> "text", text |-> t, wait |-> w])
    BY <1>5 DEF AskText
  <2>2. [op |-> "text", text |-> t, wait |-> w] \in Command
    BY <1>0 DEF Bounds, Command, TextCommand
  <2> QED BY <1>5, <2>1, <2>2, <1>b, <1>d DEF AskText
<1>6. ASSUME AskStop PROVE CatTypes'
  <2>1. [op |-> "stop", before |-> 1..asked] \in Command
    BY DEF TypeOK, KeyingTypes, Command, StopCommand
  <2>2. commands' \in Seq(Command) /\ env' \in Bounds
    BY <1>6, <2>1, <1>b, <1>f DEF AskStop
  <2> QED BY <1>6, <2>2, <1>0 DEF AskStop
<1>7. ASSUME AskTuning PROVE CatTypes'
  <2>1. PICK c \in {[op |-> "mode", mode |-> m] : m \in {"CW", "DATA"}}
              \cup {[op |-> "rit", delta |-> d] : d \in {0, 1, -1}}
              \cup {[op |-> "wpm"]} : commands' = Append(commands, c)
    BY <1>7 DEF AskTuning
  <2>2. c \in Command
    BY DEF Command, Tuning, Speed
  <2>3. commands' \in Seq(Command) /\ env' \in Bounds
    BY <1>7, <2>1, <2>2, <1>b, <1>f DEF AskTuning
  <2> QED BY <1>7, <2>3, <1>0 DEF AskTuning
<1>8. ASSUME RefuseCommand PROVE CatTypes'
  BY <1>8, <1>0, <1>a DEF RefuseCommand
<1>9. ASSUME BackoffEnds PROVE CatTypes'
  BY <1>9, <1>0 DEF BackoffEnds, Phases
<1>10. ASSUME BeginConnect PROVE CatTypes'
  BY <1>10, <1>0 DEF BeginConnect
<1>11. ASSUME ConnectFails PROVE CatTypes'
  BY <1>11, <1>0 DEF ConnectFails, Phases
<1>12. ASSUME Connected PROVE CatTypes'
  <2>1. Ready(rig) \in ReportStatus
    BY <1>0, ReadyReport
  <2>2. <<Ready(rig)>> \in Seq(ReportStatus)
    BY <2>1, OneOf
  <2>3. CASE Publish(Ready(rig)) /\ reports' = <<>> /\ tracked' = rig.rit
    <3>1. online' \in BOOLEAN /\ shown' \in [mode : Modes, rit : Int]
      BY <2>3, <2>1, <1>0, Publishing
    <3>2. tracked' \in Int
      BY <2>3, <1>0 DEF RigStatus
    <3> QED BY <1>12, <2>3, <3>1, <3>2, <1>0, <1>c DEF Connected, Phases
  <2>4. CASE online' = TRUE /\ reports' = <<Ready(rig)>> /\ tracked' = shown.rit /\ UNCHANGED shown
    BY <1>12, <2>2, <2>4, <1>0 DEF Connected, Phases
  <2> QED BY <1>12, <2>3, <2>4 DEF Connected
<1>13. ASSUME ReadReport PROVE CatTypes'
  <2>1. Head(reports) \in ReportStatus /\ reports' \in Seq(ReportStatus)
    BY <1>13, <1>0, Behead DEF ReadReport
  <2>2. phase' \in Phases
    BY <1>13, <1>0 DEF ReadReport, GiveUp, Phases
  <2>3. CASE Head(reports).conn = "closed"
    BY <1>13, <2>1, <2>2, <2>3, <1>0 DEF ReadReport
  <2>4. CASE Head(reports).conn # "closed"
    <3>1. Publish(Head(reports)) /\ tracked' = Head(reports).rit
      BY <1>13, <2>4 DEF ReadReport
    <3>2. online' \in BOOLEAN /\ shown' \in [mode : Modes, rit : Int]
      BY <2>1, <3>1, <1>0, Publishing
    <3>3. tracked' \in Int
      BY <2>1, <3>1 DEF ReportStatus
    <3> QED BY <1>13, <2>1, <2>2, <3>2, <3>3, <1>0 DEF ReadReport
  <2> QED BY <2>3, <2>4
<1>14. ASSUME Forward PROVE CatTypes'
  BY <1>14, <1>a, <1>d DEF Forward
<1>15. ASSUME Apply PROVE CatTypes'
  <2>1. Head(commands) \in Command /\ commands' \in Seq(Command)
    BY <1>15, <1>a DEF Apply
  <2>2. phase' \in Phases /\ online' \in BOOLEAN
    BY <1>15, <1>0 DEF Apply, GiveUp, Phases
  <2>6. env' \in Bounds
    BY <1>15, <1>0, Failing DEF Apply
  <2>3. CASE ~rig.up
    BY <1>15, <2>1, <2>2, <2>3, <2>6, <1>0 DEF Apply
  <2>4. CASE rig.up /\ ApplyRit(Head(commands).delta) /\ UNCHANGED shown /\ Head(commands).op = "rit"
    <3>1. ApplyRit(Head(commands).delta) /\ UNCHANGED shown
      BY <2>4
    <3> DEFINE next == NextRit(Head(commands).delta)
    <3>2. Head(commands).delta \in Int
      BY <2>1, <2>4, TextOrNot
    <3>3. next \in Int
      BY <3>2, <1>0, NextRitIsInt
    <3>4. CASE UNCHANGED <<rig, reports, tracked>>
      BY <1>15, <2>1, <2>2, <3>1, <3>4, <2>6, <1>0 DEF Apply
    <3>5. CASE rig' = [rig EXCEPT !.rit = next] /\ Report(rig') /\ tracked' = next
      <4>1. rig' \in RigStatus
        BY <3>3, <3>5, <1>0 DEF RigStatus
      <4>2. reports' \in Seq(ReportStatus)
        BY <3>5, <4>1, <1>0, Reporting
      <4> HIDE DEF next
      <4> QED BY <1>15, <2>1, <2>2, <3>1, <3>3, <3>5, <4>1, <4>2, <2>6, <1>0 DEF Apply
    <3> QED BY <3>1, <3>4, <3>5 DEF ApplyRit
  <2>5. CASE rig.up /\ ApplyMode(Head(commands).mode) /\ UNCHANGED tracked /\ Head(commands).op = "mode"
    <3> DEFINE m == Head(commands).mode
    <3>1. ApplyMode(m) /\ UNCHANGED tracked
      BY <2>5
    <3>2. m \in {"CW", "DATA"}
      BY <2>1, <2>5, TextOrNot
    <3>3. rig' \in RigStatus
      BY <3>1, <3>2, <1>0, DataModeAssumption DEF ApplyMode, ModeFor, RigStatus, Modes
    <3>4. reports' \in Seq(ReportStatus)
      BY <3>1, <3>3, <1>0, Reporting DEF ApplyMode
    <3>5. shown' \in [mode : Modes, rit : Int]
      BY <3>1, <3>2, <1>0 DEF ApplyMode, Modes
    <3> QED BY <1>15, <2>1, <2>2, <3>1, <3>3, <3>4, <3>5, <2>6, <1>0 DEF Apply
  <2>7. CASE rig.up /\ ApplyFails(Head(commands))
    <3>1. UNCHANGED <<shown, tracked>>
      BY <2>7 DEF ApplyFails
    <3>2. CASE UNCHANGED <<rig, reports>>
      BY <1>15, <2>1, <2>2, <2>6, <3>1, <3>2, <1>0 DEF Apply
    <3>3. CASE rig' = Wanted(Head(commands)) /\ Report(rig')
      <4>1. rig' \in RigStatus
        BY <1>15, <2>1, <3>3, <1>0, WantedRig DEF Apply
      <4>2. reports' \in Seq(ReportStatus)
        BY <3>3, <4>1, <1>0, Reporting
      <4> QED BY <1>15, <2>1, <2>2, <2>6, <3>1, <4>1, <4>2, <1>0 DEF Apply
    <3> QED BY <2>7, <3>2, <3>3 DEF ApplyFails
  <2>8. Head(commands).op \in {"mode", "rit"}
    BY <1>15 DEF Apply
  <2> QED BY <1>15, <2>3, <2>4, <2>5, <2>7, <2>8 DEF Apply
<1>16. ASSUME Dropped PROVE CatTypes'
  BY <1>16, <1>0, <1>c DEF Dropped, Phases
<1>17. ASSUME Lagged PROVE CatTypes'
  <2>1. reports # <<>>
    BY <1>17, EmptySeq DEF Lagged
  <2>2. reports' \in Seq(ReportStatus)
    BY <1>17, <2>1, <1>0, Behead DEF Lagged
  <2>3. online' \in BOOLEAN /\ shown' \in [mode : Modes, rit : Int]
    BY <1>17, <1>0, ReadyReport, Publishing DEF Lagged
  <2>4. env' \in Bounds
    BY <1>17, <1>f DEF Lagged
  <2> QED BY <1>17, <2>2, <2>3, <2>4, <1>0 DEF Lagged
<1>18. ASSUME Quit PROVE CatTypes'
  <2>1. env' \in Bounds
    BY <1>18, <1>f DEF Quit
  <2>2. phase' \in Phases /\ commands' \in Seq(Command)
    BY <1>18, <1>0, <1>c DEF Quit, GiveUp, Phases
  <2> QED BY <1>18, <2>1, <2>2, <1>0 DEF Quit
<1>19. ASSUME TakePending PROVE CatTypes'
  BY <1>19, <1>0 DEF TakePending
<1>20. ASSUME TakeCommand PROVE CatTypes'
  <2>1. env' \in Bounds
    BY <1>20, <1>0, Failing DEF TakeCommand
  <2> QED BY <1>20, <2>1, <1>0 DEF TakeCommand
<1>21. ASSUME BeginVoice PROVE CatTypes'
  <2>1. env' \in Bounds
    BY <1>21, <1>0, <1>f, Failing DEF BeginVoice
  <2>2. rig' \in RigStatus
    BY <1>21, <1>0 DEF BeginVoice, Acquire, RigStatus
  <2> QED BY <1>21, <2>1, <2>2, <1>0 DEF BeginVoice
<1>22. ASSUME BeginKeying PROVE CatTypes'
  <2>1. env' \in Bounds
    BY <1>22, <1>0, <1>f DEF BeginKeying
  <2> QED BY <1>22, <2>1, <1>0 DEF BeginKeying
<1>23. ASSUME BusyWait PROVE CatTypes'
  <2>1. env' \in Bounds
    BY <1>23, <1>0, <1>f DEF BusyWait
  <2> QED BY <1>23, <2>1, <1>0 DEF BusyWait
<1>24. ASSUME IdleWait PROVE CatTypes'
  <2>1. env' \in Bounds
    BY <1>24, <1>0, <1>f DEF IdleWait
  <2> QED BY <1>24, <2>1, <1>0 DEF IdleWait
<1>25. ASSUME CatWait PROVE CatTypes'
  BY <1>25, <1>0 DEF CatWait
<1>26. ASSUME VoiceEnds PROVE CatTypes'
  BY <1>26, <1>0 DEF VoiceEnds
<1>g. ASSUME VoiceReleased PROVE CatTypes'
  <2>1. env' \in Bounds
    BY <1>g, <1>0, Failing DEF VoiceReleased
  <2>2. rig' \in RigStatus
    BY <1>g, <1>0 DEF VoiceReleased, Release, RigStatus
  <2> QED BY <1>g, <2>1, <2>2, <1>0 DEF VoiceReleased
<1>27. ASSUME WaitQueues PROVE CatTypes'
  BY <1>27, <1>0 DEF WaitQueues
<1>28. ASSUME Interrupt PROVE CatTypes'
  <2>1. env' \in Bounds
    BY <1>28, <1>0, Failing DEF Interrupt
  <2> QED BY <1>28, <2>1, <1>0 DEF Interrupt
<1>29. ASSUME LateRelease PROVE CatTypes'
  <2>1. rig' \in RigStatus
    BY <1>29, <1>0 DEF LateRelease, RigStatus
  <2>2. env' \in Bounds
    BY <1>29, <1>0, Failing DEF LateRelease
  <2> QED BY <1>29, <2>1, <2>2, <1>0 DEF LateRelease
<1>30. CASE UNCHANGED vars
  BY <1>30, <1>0 DEF vars
<1> QED
  BY <1>1, <1>2, <1>3, <1>4, <1>5, <1>6, <1>7, <1>8, <1>9, <1>10, <1>11, <1>12,
     <1>13, <1>14, <1>15, <1>16, <1>17, <1>18, <1>19, <1>20, <1>21, <1>22,
     <1>23, <1>24, <1>25, <1>26, <1>g, <1>27, <1>28, <1>29, <1>30 DEF Next, Runtime,
     Keying

LEMMA Ended ==
  ASSUME KeyingTypes, task.text \in Texts, NEW result \in {"sent", "failed"}, Ends(result)
  PROVE  /\ task' \in Task /\ task'.pc = "idle" /\ task'.text = 0 /\ task'.pending = task.pending
         /\ answer' \in [Texts -> {"none", "asked", "sent", "failed"}]
         /\ \A t \in Texts : answer'[t] = IF t = task.text THEN result ELSE answer[t]
<1>1. task' = [task EXCEPT !.pc = "idle", !.text = 0] /\ answer' = [answer EXCEPT ![task.text] = result]
  BY DEF Ends, Answered
<1>2. task \in Task /\ answer \in [Texts -> {"none", "asked", "sent", "failed"}]
  BY DEF KeyingTypes
<1>3. task' \in Task /\ task'.pc = "idle" /\ task'.text = 0 /\ task'.pending = task.pending
  BY <1>1, <1>2 DEF Task
<1>4. answer' \in [Texts -> {"none", "asked", "sent", "failed"}]
  BY <1>1, <1>2
<1>5. \A t \in Texts : answer'[t] = IF t = task.text THEN result ELSE answer[t]
  BY <1>1, <1>2
<1> QED BY <1>3, <1>4, <1>5

LEMMA Beginning ==
  ASSUME KeyingTypes, NEW c \in TextCommand
  PROVE  /\ Began(c) \in Task /\ Began(c).pc = "begin" /\ Began(c).text = c.text /\ c.text \in Texts
         /\ Began(c).wait = c.wait /\ Began(c).pending = task.pending
BY DEF KeyingTypes, Task, Began, TextCommand

LEMMA Unanswering ==
  ASSUME KeyingTypes, NEW q
  PROVE  /\ Unanswered(q) \in [Texts -> {"none", "asked", "sent", "failed"}]
         /\ \A t \in Texts : Unanswered(q)[t] = "failed" \/ Unanswered(q)[t] = answer[t]
BY DEF KeyingTypes, Unanswered

LEMMA Refreshed ==
  /\ Idle \in Task /\ Idle.pc = "idle" /\ Idle.text = 0 /\ Idle.pending = <<>>
  /\ Dead \in Task /\ Dead.pc = "dead" /\ Dead.text = 0 /\ Dead.pending = <<>>
<1>1. <<>> \in Seq(TextCommand)
  BY EmptySeq
<1> QED BY <1>1 DEF Idle, Dead, Task

(* A release leaves the radio silent or to be tried again; what was not     *)
(* acquired is not released.                                                *)
LEMMA Released ==
  ASSUME CatTypes, KeyingTypes, Release
  PROVE  /\ guard' \in GuardStatus /\ ~guard'.active
         /\ rig'.up = rig.up /\ rig'.mode = rig.mode /\ rig'.rit = rig.rit
         /\ \/ rig'.ptt = FALSE
            \/ guard'.late > 0
            \/ ~guard.active /\ rig' = rig /\ guard' = guard
<1>0. rig \in RigStatus /\ guard \in GuardStatus
  BY DEF CatTypes, KeyingTypes
<1>1. CASE ~guard.active /\ UNCHANGED <<rig, guard, env>>
  BY <1>0, <1>1
<1>2. CASE rig' = [rig EXCEPT !.ptt = FALSE] /\ guard' = [guard EXCEPT !.active = FALSE, !.lapsed = FALSE]
  BY <1>0, <1>2 DEF RigStatus, GuardStatus
<1>3. CASE guard' = [guard EXCEPT !.active = FALSE, !.late = @ + 1] /\ UNCHANGED rig
  <2>1. guard.late \in Nat /\ guard.late + 1 \in Nat /\ guard.late + 1 > 0
    BY <1>0 DEF GuardStatus
  <2>2. guard' \in GuardStatus /\ ~guard'.active /\ guard'.late = guard.late + 1
    BY <1>0, <1>3, <2>1 DEF GuardStatus
  <2> QED BY <1>3, <2>1, <2>2
<1> QED BY <1>1, <1>2, <1>3 DEF Release

(* The keyer is empty, or holds what could not be cleared.                  *)
LEMMA Clearing ==
  ASSUME KeyingTypes, ClearBuffer
  PROVE  /\ keyer' \in Seq(Texts) /\ uncleared' \subseteq Texts /\ uncleared \subseteq uncleared'
         /\ \/ keyer' = <<>>
            \/ keyer' = keyer /\ \A i \in DOMAIN keyer : keyer[i] \in uncleared'
<1>1. keyer \in Seq(Texts) /\ uncleared \subseteq Texts
  BY DEF KeyingTypes
<1>2. ToSet(keyer) \subseteq Texts /\ \A i \in DOMAIN keyer : keyer[i] \in ToSet(keyer)
  BY <1>1, Elements DEF ToSet
<1>3. <<>> \in Seq(Texts)
  BY EmptySeq
<1> QED BY <1>1, <1>2, <1>3 DEF ClearBuffer

(* What the task is after a stop or a shutdown.                             *)
LEMMA Stopping ==
  ASSUME KeyingTypes, NEW op, Waits
  PROVE  /\ Stopped(op) \in Task /\ Stopped(op).pending = <<>>
         /\ \/ task.pc # "voice" /\ Stopped(op).pc \in {"idle", "dead"} /\ Stopped(op).text = 0
            \/ task.pc = "voice" /\ Stopped(op).pc \in {"unplayed", "last"} /\ Stopped(op).text = task.text
<1>1. <<>> \in Seq(TextCommand)
  BY EmptySeq
<1>2. task \in Task
  BY DEF KeyingTypes
<1>3. CASE task.pc = "voice"
  <2>1. PICK pc \in {"unplayed", "last"} : Stopped(op) = [task EXCEPT !.pc = pc, !.pending = <<>>]
    BY <1>3 DEF Stopped
  <2> QED BY <1>1, <1>2, <1>3, <2>1 DEF Task, Waiting, Releasing
<1>4. CASE task.pc # "voice"
  <2>1. Stopped(op) = Idle \/ Stopped(op) = Dead
    BY <1>4 DEF Stopped
  <2> QED BY <1>4, <2>1, Refreshed
<1> QED BY <1>3, <1>4

(* The keying task's own side of a step.                                    *)
LEMMA KeyingTypesStep == TypeOK /\ [Next]_vars => KeyingTypes'
<1> SUFFICES ASSUME TypeOK, [Next]_vars PROVE KeyingTypes'
  OBVIOUS
<1>0. CatTypes /\ KeyingTypes
  BY DEF TypeOK
<1> USE DEF KeyingTypes, keying
<1>a. ASSUME inbox # <<>>
      PROVE  Head(inbox) \in KeyingCommand /\ Tail(inbox) \in Seq(KeyingCommand)
  BY <1>a, <1>0, Behead
<1>b. ASSUME NEW c \in KeyingCommand PROVE Append(inbox, c) \in Seq(KeyingCommand)
  BY <1>b, <1>0, Appended
<1>c. <<>> \in Seq(KeyingCommand) /\ <<>> \in Seq(Texts)
  BY EmptySeq
<1>d. ASSUME UNCHANGED <<task, keyer, news, guard, answer, keyed, cut, silenced, uncleared, asked>>,
             inbox' \in Seq(KeyingCommand)
      PROVE KeyingTypes'
  BY <1>d, <1>0
<1>e. ASSUME UNCHANGED <<inbox, task, keyer, news, keyed, cut, silenced, uncleared, asked>>,
             guard' \in GuardStatus, answer' \in [Texts -> {"none", "asked", "sent", "failed"}]
      PROVE KeyingTypes'
  BY <1>e, <1>0
<1>g. ASSUME NEW next, GiveUp(next) PROVE inbox' \in Seq(KeyingCommand)
  BY <1>g, <1>b, Shutdown DEF GiveUp
<1>1. ASSUME Turn \/ Break \/ Mend \/ AskStop \/ AskTuning \/ BackoffEnds \/ BeginConnect
             \/ ConnectFails \/ Lagged
      PROVE  KeyingTypes'
  <2>1. UNCHANGED keying
    BY <1>1 DEF Turn, Break, Mend, AskStop, AskTuning, BackoffEnds, BeginConnect, ConnectFails,
                Lagged
  <2> QED BY <2>1, <1>0
<1>4. ASSUME KeyerSends PROVE KeyingTypes'
  <2>1. Head(keyer) \in Texts /\ Tail(keyer) \in Seq(Texts)
    BY <1>4, <1>0, Behead DEF KeyerSends
  <2>2. Append(news, FALSE) \in Seq(BOOLEAN)
    BY <1>0, Appended
  <2>3. news' \in Seq(BOOLEAN)
    BY <1>4, <2>2, <1>0 DEF KeyerSends
  <2> QED BY <1>4, <2>1, <2>3, <1>0 DEF KeyerSends
<1>5. ASSUME NEW t \in Texts, AskText(t) PROVE KeyingTypes'
  BY <1>5, <1>0, TextsAssumption DEF AskText
<1>8. ASSUME RefuseCommand PROVE KeyingTypes'
  <2>1. Head(commands) \in Command
    BY <1>8, <1>0, Behead DEF RefuseCommand, CatTypes
  <2>2. Head(commands).op = "text" => Head(commands).text \in Texts
    BY <2>1, TextOrNot DEF TextCommand
  <2>3. answer' \in [Texts -> {"none", "asked", "sent", "failed"}]
    BY <1>8, <2>2, <1>0 DEF RefuseCommand, Refused
  <2> QED BY <1>8, <2>3, <1>0, <1>e DEF RefuseCommand
<1>12. ASSUME Connected PROVE KeyingTypes'
  BY <1>12, <1>0, <1>c, Refreshed DEF Connected
<1>13. ASSUME ReadReport PROVE KeyingTypes'
  <2>1. inbox' \in Seq(KeyingCommand)
    BY <1>13, <1>g, <1>0 DEF ReadReport
  <2> QED BY <1>13, <2>1, <1>d DEF ReadReport
<1>14. ASSUME Forward PROVE KeyingTypes'
  <2>1. Head(commands) \in KeyingCommand
    BY <1>14, <1>0, Behead, TextOrNot DEF Forward, CatTypes
  <2> QED BY <1>14, <2>1, <1>b, <1>d DEF Forward
<1>15. ASSUME Apply PROVE KeyingTypes'
  <2>1. inbox' \in Seq(KeyingCommand)
    BY <1>15, <1>g, <1>0 DEF Apply
  <2> QED BY <1>15, <2>1, <1>d DEF Apply
<1>16. ASSUME Dropped PROVE KeyingTypes'
  <2>1. answer' \in [Texts -> {"none", "asked", "sent", "failed"}]
    BY <1>16, <1>0, Unanswering DEF Dropped
  <2>2. guard' \in GuardStatus
    BY <1>16, <1>0 DEF Dropped, GuardStatus
  <2> QED BY <1>16, <2>1, <2>2, <1>e DEF Dropped
<1>18. ASSUME Quit PROVE KeyingTypes'
  <2>1. CASE phase = "connected"
    BY <1>18, <2>1, <1>g, <1>d DEF Quit
  <2>2. CASE phase # "connected"
    BY <1>18, <2>2, <1>0, <1>e, Unanswering DEF Quit
  <2> QED BY <2>1, <2>2
<1>19. ASSUME TakePending PROVE KeyingTypes'
  <2> DEFINE c == Head(task.pending)
  <2>1. task.pending \in Seq(TextCommand) /\ task.pending # <<>>
    BY <1>19, <1>0 DEF TakePending, Task
  <2>2. c \in TextCommand /\ Tail(task.pending) \in Seq(TextCommand)
    BY <2>1, Behead
  <2>3. Began(c) \in Task /\ Began(c).text \in Texts /\ Began(c).pending = task.pending
    BY <2>2, <1>0, Beginning
  <2>4. task' = [Began(c) EXCEPT !.pending = Tail(@)]
    BY <1>19 DEF TakePending
  <2>5. task' \in Task /\ task'.text \in Texts
    BY <2>2, <2>3, <2>4 DEF Task
  <2> QED BY <1>19, <2>5, <1>0 DEF TakePending
<1>20. ASSUME TakeCommand PROVE KeyingTypes'
  <2> DEFINE c == Head(inbox)
  <2>1. c \in KeyingCommand /\ Tail(inbox) \in Seq(KeyingCommand)
    BY <1>20, <1>a DEF TakeCommand
  <2>2. inbox' \in Seq(KeyingCommand)
    BY <1>20, <2>1, <1>c DEF TakeCommand
  <2>3. task' \in Task /\ (task'.pc \notin {"idle", "dead"} => task'.text \in Texts)
    <3>1. CASE c.op = "text"
      <4>1. c \in TextCommand
        BY <2>1, <3>1, TextOrNot
      <4>2. task' = Began(c)
        BY <1>20, <3>1 DEF TakeCommand
      <4> QED BY <4>1, <4>2, <1>0, Beginning
    <3>2. CASE c.op = "shutdown"
      BY <1>20, <3>2, Refreshed DEF TakeCommand
    <3>3. CASE c.op \notin {"text", "shutdown"}
      BY <1>20, <3>3, <1>0 DEF TakeCommand
    <3> QED BY <3>1, <3>2, <3>3
  <2>4. keyer' \in Seq(Texts) /\ uncleared' \subseteq Texts
    BY <1>20, <1>0, Clearing DEF TakeCommand
  <2>5. silenced' \subseteq Nat
    <3>1. c.op = "stop" => c.before \subseteq Nat
      BY <2>1, TextOrNot DEF StopCommand
    <3> QED BY <1>20, <3>1, <1>0 DEF TakeCommand
  <2>6. answer' \in [Texts -> {"none", "asked", "sent", "failed"}]
    BY <1>20, <1>0, Unanswering DEF TakeCommand
  <2>7. UNCHANGED <<news, guard, keyed, cut, asked>>
    BY <1>20 DEF TakeCommand
  <2> QED BY <2>2, <2>3, <2>4, <2>5, <2>6, <2>7, <1>0
<1>21. ASSUME BeginVoice PROVE KeyingTypes'
  <2>1. task.text \in Texts
    BY <1>21, <1>0 DEF BeginVoice
  <2>2. guard' \in GuardStatus
    BY <1>21, <1>0 DEF BeginVoice, Acquire, GuardStatus
  <2>3. /\ task' \in Task /\ (task'.pc \notin {"idle", "dead"} => task'.text \in Texts)
        /\ answer' \in [Texts -> {"none", "asked", "sent", "failed"}]
    <3>1. CASE Ends("failed")
      BY <2>1, <3>1, <1>0, Ended
    <3>2. CASE task' = [task EXCEPT !.pc = "voice"] /\ UNCHANGED answer
      BY <2>1, <3>2, <1>0 DEF Task, Waiting
    <3> QED BY <1>21, <3>1, <3>2 DEF BeginVoice
  <2> QED BY <1>21, <2>2, <2>3, <1>0 DEF BeginVoice
<1>22. ASSUME BeginKeying PROVE KeyingTypes'
  <2>1. task.text \in Texts
    BY <1>22, <1>0 DEF BeginKeying
  <2>2. keyer' \in Seq(Texts) /\ keyed' \subseteq Texts /\ news' \in Seq(BOOLEAN)
    <3>1. Append(keyer, task.text) \in Seq(Texts) /\ <<task.text>> \in Seq(Texts)
      BY <2>1, <1>0, Appended, OneOf
    <3>2. ToSet(keyer) \subseteq Texts
      BY <1>0, Elements DEF ToSet
    <3>3. <<FALSE, TRUE>> \in Seq(BOOLEAN) /\ <<TRUE>> \in Seq(BOOLEAN)
      OBVIOUS
    <3>4. CASE UNCHANGED <<keyer, news, keyed>>
      BY <3>4, <1>0
    <3>5. CASE SendByCat
      BY <3>1, <3>2, <3>3, <3>5, <1>0 DEF SendByCat
    <3>6. CASE SendByDevice
      BY <3>1, <3>6, <1>0 DEF SendByDevice
    <3> QED BY <1>22, <3>4, <3>5, <3>6 DEF BeginKeying
  <2>3. /\ task' \in Task /\ (task'.pc \notin {"idle", "dead"} => task'.text \in Texts)
        /\ answer' \in [Texts -> {"none", "asked", "sent", "failed"}]
    <3>1. CASE Ends("failed") \/ Ends("sent")
      BY <3>1, <2>1, <1>0, Ended
    <3>2. CASE env.keyer # "none" /\ task' = [task EXCEPT !.pc = WaitFor(env.keyer)] /\ UNCHANGED answer
      <4>1. WaitFor(env.keyer) \in Waiting
        BY <3>2, <1>0 DEF WaitFor, Waiting, CatTypes, Bounds
      <4> QED BY <3>2, <4>1, <2>1, <1>0 DEF Task
    <3> QED BY <1>22, <3>1, <3>2 DEF BeginKeying
  <2> QED BY <1>22, <2>2, <2>3, <1>0 DEF BeginKeying
<1>23. ASSUME BusyWait PROVE KeyingTypes'
  <2>1. task.text \in Texts
    BY <1>23, <1>0 DEF BusyWait
  <2>2. CASE Ends("failed")
    BY <1>23, <2>1, <2>2, <1>0, Ended DEF BusyWait
  <2>3. CASE task' = [task EXCEPT !.pc = "idleWait"] /\ UNCHANGED answer
    <3>1. task' \in Task /\ task'.text \in Texts
      BY <2>1, <2>3, <1>0 DEF Task, Waiting
    <3> QED BY <1>23, <2>3, <3>1, <1>0 DEF BusyWait
  <2> QED BY <1>23, <2>2, <2>3 DEF BusyWait
<1>24. ASSUME IdleWait PROVE KeyingTypes'
  <2>1. task.text \in Texts
    BY <1>24, <1>0 DEF IdleWait
  <2>2. Ends("sent") \/ Ends("failed")
    BY <1>24 DEF IdleWait
  <2> QED BY <1>24, <2>1, <2>2, <1>0, Ended DEF IdleWait
<1>25. ASSUME CatWait PROVE KeyingTypes'
  <2>1. task.text \in Texts
    BY <1>25, <1>0 DEF CatWait
  <2>2. news' \in Seq(BOOLEAN)
    BY <1>25, <1>0, Behead DEF CatWait
  <2>3. CASE Ends("sent") \/ Ends("failed")
    BY <1>25, <2>1, <2>2, <2>3, <1>0, Ended DEF CatWait
  <2>4. CASE UNCHANGED <<task, answer>>
    BY <1>25, <2>2, <2>4, <1>0 DEF CatWait
  <2> QED BY <1>25, <2>3, <2>4 DEF CatWait
<1>26. ASSUME VoiceEnds PROVE KeyingTypes'
  <2>1. task.text \in Texts
    BY <1>26, <1>0 DEF VoiceEnds
  <2>2. PICK pc \in {"played", "unplayed"} : task' = [task EXCEPT !.pc = pc]
    BY <1>26 DEF VoiceEnds
  <2>3. task' \in Task /\ task'.text \in Texts
    BY <2>1, <2>2, <1>0 DEF Task, Waiting, Releasing
  <2>4. keyed' \subseteq Texts /\ cut' \subseteq Texts
    BY <1>26, <2>1, <1>0 DEF VoiceEnds
  <2> QED BY <1>26, <2>3, <2>4, <1>0 DEF VoiceEnds
<1>v. ASSUME VoiceReleased PROVE KeyingTypes'
  <2>1. task.text \in Texts /\ task \in Task
    BY <1>v, <1>0 DEF VoiceReleased, Releasing
  <2>2. guard' \in GuardStatus
    BY <1>v, <1>0, Released DEF VoiceReleased
  <2>3. answer' \in [Texts -> {"none", "asked", "sent", "failed"}]
    BY <1>v, <1>0 DEF VoiceReleased, Answered
  <2>4. task' \in Task /\ task'.pc \in {"idle", "dead"}
    BY <1>v, <2>1, Refreshed DEF VoiceReleased, Task
  <2> QED BY <1>v, <2>2, <2>3, <2>4, <1>0 DEF VoiceReleased
<1>27. ASSUME WaitQueues PROVE KeyingTypes'
  <2> DEFINE c == Head(inbox)
  <2>1. c \in KeyingCommand /\ inbox' \in Seq(KeyingCommand)
    BY <1>27, <1>a DEF WaitQueues
  <2>2. task' \in Task /\ task'.pc = task.pc /\ task'.text = task.text
    <3>1. CASE c.op = "text"
      <4>1. c \in TextCommand
        BY <2>1, <3>1, TextOrNot
      <4>2. Append(task.pending, c) \in Seq(TextCommand)
        BY <4>1, <1>0, Appended DEF Task
      <4> QED BY <1>27, <3>1, <4>2, <1>0 DEF WaitQueues, Task
    <3>2. CASE c.op # "text"
      BY <1>27, <3>2, <1>0 DEF WaitQueues
    <3> QED BY <3>1, <3>2
  <2> QED BY <1>27, <2>1, <2>2, <1>0 DEF WaitQueues
<1>28. ASSUME Interrupt PROVE KeyingTypes'
  <2> DEFINE c == Head(inbox)
  <2>1. c \in KeyingCommand /\ Tail(inbox) \in Seq(KeyingCommand)
    BY <1>28, <1>a DEF Interrupt
  <2>2. inbox' \in Seq(KeyingCommand)
    BY <1>28, <2>1, <1>c DEF Interrupt
  <2>3. task' \in Task /\ (task'.pc \notin {"idle", "dead"} => task'.text \in Texts)
    <3>1. task' = Stopped(c.op) /\ Waits
      BY <1>28 DEF Interrupt
    <3>2. task.pc \notin {"idle", "dead"}
      BY <3>1 DEF Waits
    <3> QED BY <3>1, <3>2, <1>0, Stopping
  <2>4. keyer' \in Seq(Texts) /\ uncleared' \subseteq Texts
    BY <1>28, <1>0, Clearing DEF Interrupt
  <2>5. silenced' \subseteq Nat
    <3>1. c.op = "stop" => c.before \subseteq Nat
      BY <2>1, TextOrNot DEF StopCommand
    <3> QED BY <1>28, <3>1, <1>0 DEF Interrupt
  <2>6. answer' \in [Texts -> {"none", "asked", "sent", "failed"}]
    <3>1. \A t \in Texts : Unanswered(Tail(inbox))[t] \in {"none", "asked", "sent", "failed"}
      BY <1>0, Unanswering
    <3> QED BY <1>28, <3>1, <1>0 DEF Interrupt
  <2>7. UNCHANGED <<news, guard, keyed, cut, asked>>
    BY <1>28 DEF Interrupt
  <2> QED BY <2>2, <2>3, <2>4, <2>5, <2>6, <2>7, <1>0
<1>29. ASSUME LateRelease PROVE KeyingTypes'
  <2>1. guard \in GuardStatus /\ guard.late > 0
    BY <1>29, <1>0 DEF LateRelease
  <2>2. guard.late - 1 \in Nat
    BY <2>1 DEF GuardStatus
  <2>3. PICK lapsed \in BOOLEAN : guard' = [guard EXCEPT !.late = @ - 1, !.lapsed = lapsed]
    BY <1>29 DEF LateRelease
  <2>4. guard' \in GuardStatus
    BY <2>1, <2>2, <2>3 DEF GuardStatus
  <2> QED BY <1>29, <2>4, <1>0 DEF LateRelease
<1>30. CASE UNCHANGED vars
  BY <1>30, <1>0 DEF vars
<1> QED
  BY <1>1, <1>4, <1>5, <1>8, <1>12, <1>13, <1>14, <1>15, <1>16, <1>18, <1>19, <1>20,
     <1>21, <1>22, <1>23, <1>24, <1>25, <1>26, <1>v, <1>27, <1>28, <1>29, <1>30
     DEF Next, Runtime, Keying

-----------------------------------------------------------------------------
(* What the windows are shown.                                              *)

LEMMA InitCat == Init => CatInv
BY DEF Init, CatInv, NewestTellsTheRadio, AllReadIsShown, OfflineWithout

(* A mode the runtime makes of the radio's stands for it, whatever was      *)
(* shown before.                                                            *)
LEMMA StandsFor == ASSUME NEW m, NEW p PROVE LoggerMode(m, p) \in {LoggerMode(m, q) : q \in Logger}
<1>1. CASE p = "DATA"
  BY <1>1 DEF Logger
<1>2. CASE p # "DATA"
  <2>1. LoggerMode(m, p) = LoggerMode(m, "CW")
    BY <1>2 DEF LoggerMode
  <2> QED BY <2>1 DEF Logger
<1> QED BY <1>1, <1>2

(* A report tells the newest state, and while there is one nothing is asked *)
(* of what is shown.                                                        *)
LEMMA ReportedIsNewest ==
  ASSUME CatTypes, CatInv, rig' \in RigStatus, rig'.up, Report(rig'), UNCHANGED <<phase, online>>
  PROVE  CatInv'
<1>1. phase = "connected" =>
        /\ reports' # <<>> /\ reports'[Len(reports')] = Ready(rig')
  BY ReadyReport, Appended DEF CatTypes, Report
<1> QED BY <1>1, ReadyReport
        DEF CatInv, NewestTellsTheRadio, AllReadIsShown, OfflineWithout, Newest

(* One report is read: the rest ends as it did.                             *)
LEMMA RestOfReports ==
  ASSUME CatTypes, reports # <<>>, reports' = Tail(reports)
  PROVE  /\ Head(reports) \in ReportStatus
         /\ reports' = <<>> => Head(reports) = Newest
         /\ reports' # <<>> => Newest' = Newest
<1>1. Len(reports) \in Nat /\ Len(reports) >= 1 /\ reports' \in Seq(ReportStatus)
      /\ Len(reports') = Len(reports) - 1 /\ Head(reports) = reports[1] /\ Head(reports) \in ReportStatus
  BY Behead DEF CatTypes
<1>2. \A i \in 1..(Len(reports) - 1) : Tail(reports)[i] = reports[i + 1]
  BY Behead DEF CatTypes
<1>3. ASSUME reports' = <<>> PROVE Head(reports) = Newest
  <2>1. Len(reports') = 0
    BY <1>3, EmptySeq
  <2>2. Len(reports) = 1
    BY <2>1, <1>1
  <2> QED BY <2>2, <1>1 DEF Newest
<1>4. ASSUME reports' # <<>> PROVE Newest' = Newest
  <2>1. Len(reports') # 0
    BY <1>1, <1>4, EmptySeq
  <2>2. Len(reports) - 1 \in 1..(Len(reports) - 1) /\ (Len(reports) - 1) + 1 = Len(reports)
    BY <2>1, <1>1
  <2>3. reports'[Len(reports) - 1] = reports[Len(reports)]
    BY <2>2, <1>2
  <2> QED BY <2>3, <1>1 DEF Newest
<1> QED BY <1>1, <1>3, <1>4

LEMMA CatInvStep == Inv /\ [Next]_vars => CatInv'
<1> SUFFICES ASSUME Inv, [Next]_vars PROVE CatInv'
  OBVIOUS
<1>0. CatTypes /\ KeyingTypes /\ CatInv
  BY DEF Inv, TypeOK
<1>a. CatTypes' /\ KeyingTypes'
  BY CatTypesStep, KeyingTypesStep DEF Inv
<1>c. ASSUME UNCHANGED <<reports, phase, online, shown, tracked>>,
             rig'.up = rig.up, rig'.mode = rig.mode, rig'.rit = rig.rit
      PROVE CatInv'
  BY <1>0, <1>c DEF CatInv, NewestTellsTheRadio, AllReadIsShown, OfflineWithout, Newest, LoggerMode
<1>d. ASSUME phase' \in {"waiting", "connecting", "dropping"}, ~online' PROVE CatInv'
  BY <1>d DEF CatInv, NewestTellsTheRadio, AllReadIsShown, OfflineWithout
<1>e. ASSUME phase' \in {"leaving", "gone"} PROVE CatInv'
  BY <1>e DEF CatInv, NewestTellsTheRadio, AllReadIsShown, OfflineWithout
<1>1. ASSUME Turn PROVE CatInv'
  <2>1. rig' \in RigStatus
    BY <1>a DEF CatTypes
  <2>2. PICK m, o : rig' = [rig EXCEPT !.mode = m, !.rit = o]
    BY <1>1 DEF Turn
  <2>3. rig'.up
    BY <1>1, <2>2, <1>0 DEF Turn, CatTypes, RigStatus
  <2> QED BY <1>1, <2>1, <2>3, <1>0, ReportedIsNewest DEF Turn
<1>2. ASSUME Break PROVE CatInv'
  <2>1. PICK c \in {"error", "closed"} :
          reports' = IF phase = "connected" THEN Append(reports, [Ready(rig) EXCEPT !.conn = c])
                                            ELSE <<>>
    BY <1>2 DEF Break
  <2> DEFINE r == [Ready(rig) EXCEPT !.conn = c]
  <2>2. r \in ReportStatus /\ r.mode = rig.mode /\ r.rit = rig.rit /\ r.conn = c
    BY <1>0, ReadyReport DEF CatTypes, ReportStatus
  <2>3. rig'.mode = rig.mode /\ rig'.rit = rig.rit
    BY <1>2, <1>0 DEF Break, CatTypes, RigStatus
  <2> HIDE DEF r
  <2>4. phase = "connected" => reports' # <<>> /\ reports'[Len(reports')] = r
    BY <2>1, <2>2, <1>0, Appended DEF CatTypes, r
  <2>5. UNCHANGED <<phase, online>>
    BY <1>2 DEF Break
  <2>6. c # "ready"
    OBVIOUS
  <2> QED BY <2>2, <2>3, <2>4, <2>5, <2>6, <1>0
          DEF CatInv, NewestTellsTheRadio, AllReadIsShown, OfflineWithout, Newest
<1>3. ASSUME Mend PROVE CatInv'
  <2>1. rig'.up /\ rig'.mode = rig.mode /\ rig'.rit = rig.rit /\ ~rig.up
    BY <1>3, <1>0 DEF Mend, CatTypes, RigStatus
  <2>2. UNCHANGED <<reports, phase, online, shown, tracked>>
    BY <1>3 DEF Mend
  <2> QED BY <2>1, <2>2, <1>0
          DEF CatInv, NewestTellsTheRadio, AllReadIsShown, OfflineWithout, Newest
<1>4. ASSUME \/ KeyerSends \/ (\E t \in Texts : AskText(t)) \/ AskStop \/ AskTuning
             \/ RefuseCommand \/ BeginConnect \/ Forward \/ TakePending \/ TakeCommand
             \/ BeginKeying \/ BusyWait \/ IdleWait \/ CatWait \/ VoiceEnds \/ WaitQueues
             \/ Interrupt \/ UNCHANGED vars
      PROVE CatInv'
  <2>1. UNCHANGED <<rig, reports, phase, online, shown, tracked>>
    BY <1>4 DEF KeyerSends, AskText, AskStop, AskTuning, RefuseCommand, BeginConnect, Forward,
                TakePending, TakeCommand, BeginKeying, BusyWait, IdleWait, CatWait, VoiceEnds,
                WaitQueues, Interrupt, vars, cat, keying
  <2> QED BY <2>1, <1>c
<1>5. ASSUME BeginVoice \/ VoiceReleased \/ LateRelease PROVE CatInv'
  <2>1. UNCHANGED <<reports, phase, online, shown, tracked>>
    BY <1>5 DEF BeginVoice, VoiceReleased, LateRelease
  <2>2. CASE UNCHANGED rig
    BY <2>1, <2>2, <1>c
  <2>3. CASE \E on \in BOOLEAN : rig' = [rig EXCEPT !.ptt = on]
    <3>1. rig'.up = rig.up /\ rig'.mode = rig.mode /\ rig'.rit = rig.rit
      BY <2>3, <1>0 DEF CatTypes, RigStatus
    <3> QED BY <2>1, <3>1, <1>c
  <2> QED BY <1>5, <2>2, <2>3 DEF BeginVoice, Acquire, VoiceReleased, Release, LateRelease
<1>9. ASSUME BackoffEnds PROVE CatInv'
  BY <1>9, <1>0, <1>d DEF BackoffEnds, CatInv, OfflineWithout
<1>11. ASSUME ConnectFails PROVE CatInv'
  BY <1>11, <1>d DEF ConnectFails
<1>12. ASSUME Connected PROVE CatInv'
  <2>1. phase' = "connected" /\ rig' = rig /\ rig.up
    BY <1>12 DEF Connected
  <2>2. Ready(rig) \in ReportStatus /\ Ready(rig).mode = rig.mode /\ Ready(rig).rit = rig.rit
        /\ Ready(rig).conn = "ready"
    BY <1>0, ReadyReport DEF CatTypes
  <2>3. CASE Publish(Ready(rig)) /\ reports' = <<>> /\ tracked' = rig.rit
    <3>1. online' /\ shown'.rit = rig.rit /\ shown'.mode = LoggerMode(rig.mode, shown.mode)
      BY <2>2, <2>3 DEF Publish
    <3>2. shown'.mode \in {LoggerMode(rig.mode, q) : q \in Logger}
      BY <3>1, StandsFor
    <3>3. AllReadIsShown'
      BY <2>1, <2>3, <3>1, <3>2 DEF AllReadIsShown, LoggerMode
    <3> QED BY <2>1, <2>3, <3>3 DEF CatInv, NewestTellsTheRadio, OfflineWithout
  <2>4. CASE reports' = <<Ready(rig)>>
    <3>1. reports' # <<>> /\ reports'[Len(reports')] = Ready(rig)
      BY <2>2, <2>4, OneOf
    <3> QED BY <2>1, <2>2, <3>1 DEF CatInv, NewestTellsTheRadio, AllReadIsShown, OfflineWithout, Newest
  <2> QED BY <1>12, <2>3, <2>4 DEF Connected
<1>13. ASSUME ReadReport PROVE CatInv'
  <2>1. /\ Head(reports) \in ReportStatus
        /\ reports' = <<>> => Head(reports) = Newest
        /\ reports' # <<>> => Newest' = Newest
    BY <1>13, <1>0, RestOfReports DEF ReadReport
  <2>2. phase = "connected" /\ reports # <<>> /\ rig' = rig
    BY <1>13 DEF ReadReport
  <2>3. CASE Head(reports).conn = "closed"
    <3>1. phase' = "dropping" /\ ~online'
      BY <1>13, <2>3 DEF ReadReport, GiveUp
    <3> QED BY <3>1, <1>d
  <2>4. CASE Head(reports).conn = "error"
    <3>1. phase' = "dropping" /\ ~online'
      BY <1>13, <2>4 DEF ReadReport, GiveUp, Publish
    <3> QED BY <3>1, <1>d
  <2>5. CASE Head(reports).conn = "ready"
    <3> DEFINE r == Head(reports)
    <3>1. Publish(r) /\ tracked' = r.rit /\ phase' = phase
      BY <1>13, <2>5 DEF ReadReport
    <3>2. online' /\ shown'.rit = r.rit /\ shown'.mode = LoggerMode(r.mode, shown.mode)
      BY <2>5, <3>1 DEF Publish
    <3>3. shown'.mode \in {LoggerMode(r.mode, q) : q \in Logger}
      BY <3>2, StandsFor
    <3>4. Newest.mode = rig.mode /\ Newest.rit = rig.rit /\ (~rig.up => Newest.conn # "ready")
      BY <1>0, <2>2 DEF CatInv, NewestTellsTheRadio
    <3>5. NewestTellsTheRadio'
      BY <2>1, <2>2, <3>4 DEF NewestTellsTheRadio
    <3>6. ASSUME reports' = <<>> PROVE rig'.up /\ r.mode = rig'.mode /\ r.rit = rig'.rit
      BY <2>1, <2>2, <2>5, <3>4, <3>6, <1>0 DEF CatTypes, RigStatus
    <3> HIDE DEF r
    <3>7. AllReadIsShown'
      BY <3>1, <3>2, <3>3, <3>6 DEF AllReadIsShown, LoggerMode
    <3>8. OfflineWithout'
      BY <2>2, <3>1 DEF OfflineWithout
    <3> QED BY <3>5, <3>7, <3>8 DEF CatInv
  <2> QED BY <2>1, <2>3, <2>4, <2>5 DEF ReportStatus
<1>15. ASSUME Apply PROVE CatInv'
  <2>1. Head(commands) \in Command
    BY <1>15, <1>0, Behead DEF Apply, CatTypes
  <2>2. CASE ~rig.up
    <3>1. phase' = "dropping" /\ ~online'
      BY <1>15, <2>2 DEF Apply, GiveUp
    <3> QED BY <3>1, <1>d
  <2>3. ASSUME rig.up PROVE UNCHANGED <<phase, online>>
    BY <1>15, <2>3 DEF Apply
  <2>4. rig' \in RigStatus
    BY <1>a DEF CatTypes
  <2>5. CASE rig.up /\ ApplyRit(Head(commands).delta) /\ UNCHANGED shown
    <3>1. CASE UNCHANGED <<rig, reports, tracked>>
      BY <2>3, <2>5, <3>1, <1>c
    <3>2. CASE Report(rig') /\ \E next : rig' = [rig EXCEPT !.rit = next]
      <4>1. rig'.up
        BY <2>5, <3>2, <1>0 DEF CatTypes, RigStatus
      <4> QED BY <2>3, <2>4, <2>5, <3>2, <4>1, <1>0, ReportedIsNewest
    <3> QED BY <2>5, <3>1, <3>2 DEF ApplyRit
  <2>6. CASE rig.up /\ ApplyMode(Head(commands).mode)
    <3>1. rig'.up /\ Report(rig')
      BY <2>6, <1>0 DEF ApplyMode, CatTypes, RigStatus
    <3> QED BY <2>3, <2>4, <2>6, <3>1, <1>0, ReportedIsNewest
  <2>7. CASE rig.up /\ ApplyFails(Head(commands))
    <3>1. UNCHANGED <<shown, tracked>>
      BY <2>7 DEF ApplyFails
    <3>2. CASE UNCHANGED <<rig, reports>>
      BY <2>3, <2>7, <3>1, <3>2, <1>c
    <3>3. CASE rig' = Wanted(Head(commands)) /\ Report(rig')
      <4>1. rig'.up
        BY <1>15, <2>1, <2>7, <3>3, <1>0, WantedRig DEF Apply
      <4> QED BY <2>3, <2>4, <2>7, <3>3, <4>1, <1>0, ReportedIsNewest
    <3> QED BY <2>7, <3>2, <3>3 DEF ApplyFails
  <2>8. Head(commands).op \in {"mode", "rit"}
    BY <1>15 DEF Apply
  <2> QED BY <1>15, <2>2, <2>5, <2>6, <2>7, <2>8 DEF Apply
<1>16. ASSUME Dropped PROVE CatInv'
  <2>1. (phase' = "waiting" /\ ~online') \/ phase' = "gone"
    BY <1>16, <1>0 DEF Dropped, CatInv, OfflineWithout
  <2> QED BY <2>1, <1>d, <1>e
<1>17. ASSUME Lagged PROVE CatInv'
  <2>1. reports # <<>> /\ Len(reports) > 1
    BY <1>17, EmptySeq DEF Lagged
  <2>2. reports' # <<>> => Newest' = Newest
    BY <1>17, <2>1, <1>0, RestOfReports DEF Lagged
  <2>3. reports' # <<>>
    <3>1. Len(Tail(reports)) = Len(reports) - 1 /\ Len(reports) \in Nat
      BY <2>1, <1>0, Behead DEF CatTypes
    <3>2. reports' = Tail(reports)
      BY <1>17 DEF Lagged
    <3>3. Len(reports') # 0
      BY <2>1, <3>1, <3>2
    <3> QED BY <3>3, Nothing
  <2>4. UNCHANGED <<rig, phase>> /\ phase = "connected"
    BY <1>17 DEF Lagged
  <2> QED BY <2>1, <2>2, <2>3, <2>4, <1>0
          DEF CatInv, NewestTellsTheRadio, AllReadIsShown, OfflineWithout
<1>18. ASSUME Quit PROVE CatInv'
  <2>1. phase' \in {"leaving", "gone"}
    BY <1>18 DEF Quit, GiveUp
  <2> QED BY <2>1, <1>e
<1> QED
  BY <1>1, <1>2, <1>3, <1>4, <1>5, <1>9, <1>11, <1>12, <1>13, <1>15, <1>16, <1>17, <1>18
     DEF Next, Runtime, Keying

-----------------------------------------------------------------------------
(* A stop is final.                                                         *)

LEMMA InitStop == Init => StopInv
<1> SUFFICES ASSUME Init PROVE StopInv
  OBVIOUS
<1>1. inbox = <<>> /\ commands = <<>> /\ task = Dead /\ keyer = <<>> /\ silenced = {} /\ asked = 0
  BY DEF Init
<1>2. DOMAIN <<>> = {}
  BY Nothing
<1>3. task.pending = <<>> /\ task.text = 0
  BY <1>1 DEF Dead, Idle
<1> QED BY <1>1, <1>2, <1>3 DEF StopInv, QueuesOK, AllSane, InOrder, AllSpare

(* The queues, from step to step.                                           *)
LEMMA QueuesForward ==
  ASSUME NEW ib \in Seq(KeyingCommand), NEW cs \in Seq(Command), NEW n, NEW silent,
         QueuesOK(ib, cs, n, silent), cs # <<>>, Head(cs) \in KeyingCommand
  PROVE  QueuesOK(Append(ib, Head(cs)), Tail(cs), n, silent)
<1> DEFINE c == Head(cs)
           iq == Append(ib, c)
           cq == Tail(cs)
<1>1. /\ DOMAIN ib = 1..Len(ib) /\ DOMAIN iq = 1..(Len(ib) + 1) /\ Len(ib) \in Nat
      /\ \A i \in 1..Len(ib) : iq[i] = ib[i]
      /\ iq[Len(ib) + 1] = c
  BY Appended
<1>2. /\ c = cs[1] /\ Len(cs) \in Nat /\ Len(cs) >= 1 /\ DOMAIN cs = 1..Len(cs)
      /\ DOMAIN cq = 1..(Len(cs) - 1)
      /\ \A i \in 1..(Len(cs) - 1) : cq[i] = cs[i + 1]
  BY Behead
<1> HIDE DEF c, iq, cq
<1>3. AllSane(iq, n, silent)
  BY <1>1, <1>2 DEF QueuesOK, AllSane
<1>4. AllSane(cq, n, silent)
  BY <1>2 DEF QueuesOK, AllSane
<1>5. InOrder(iq)
  <2> SUFFICES ASSUME NEW i \in 1..(Len(ib) + 1), NEW j \in 1..(Len(ib) + 1), i < j
               PROVE  Spares(iq[i], iq[j])
    BY <1>1 DEF InOrder
  <2>1. CASE j = Len(ib) + 1
    <3>1. i \in DOMAIN ib /\ 1 \in DOMAIN cs /\ iq[i] = ib[i] /\ iq[j] = cs[1]
      BY <1>1, <1>2, <2>1
    <3>2. AllSpare(ib, cs)
      BY DEF QueuesOK
    <3> QED BY <3>1, <3>2 DEF AllSpare
  <2>2. CASE j # Len(ib) + 1
    <3>1. i \in DOMAIN ib /\ j \in DOMAIN ib /\ iq[i] = ib[i] /\ iq[j] = ib[j]
      BY <1>1, <2>2
    <3> QED BY <3>1 DEF QueuesOK, InOrder
  <2> QED BY <2>1, <2>2
<1>6. InOrder(cq)
  <2> SUFFICES ASSUME NEW i \in 1..(Len(cs) - 1), NEW j \in 1..(Len(cs) - 1), i < j
               PROVE  Spares(cq[i], cq[j])
    BY <1>2 DEF InOrder
  <2>1. i + 1 \in DOMAIN cs /\ j + 1 \in DOMAIN cs /\ i + 1 < j + 1
    BY <1>2
  <2>2. cq[i] = cs[i + 1] /\ cq[j] = cs[j + 1]
    BY <1>2
  <2> QED BY <2>1, <2>2 DEF QueuesOK, InOrder
<1>7. AllSpare(iq, cq)
  <2> SUFFICES ASSUME NEW i \in 1..(Len(ib) + 1), NEW j \in 1..(Len(cs) - 1)
               PROVE  Spares(iq[i], cq[j])
    BY <1>1, <1>2 DEF AllSpare
  <2>1. cq[j] = cs[j + 1] /\ j + 1 \in DOMAIN cs
    BY <1>2
  <2>2. CASE i = Len(ib) + 1
    <3>1. iq[i] = cs[1] /\ 1 \in DOMAIN cs /\ 1 < j + 1
      BY <1>1, <1>2, <2>2
    <3> QED BY <2>1, <3>1 DEF QueuesOK, InOrder
  <2>3. CASE i # Len(ib) + 1
    <3>1. iq[i] = ib[i] /\ i \in DOMAIN ib
      BY <1>1, <2>3
    <3> QED BY <2>1, <3>1 DEF QueuesOK, AllSpare
  <2> QED BY <2>2, <2>3
<1> QED BY <1>3, <1>4, <1>5, <1>6, <1>7 DEF QueuesOK, iq, cq, c

(* A command is asked for: a text that is new, or one that is none.         *)
LEMMA QueuesAsked ==
  ASSUME NEW ib \in Seq(KeyingCommand), NEW cs \in Seq(Command), NEW n \in Nat, NEW m \in Nat, n <= m,
         NEW silent, QueuesOK(ib, cs, n, silent),
         NEW c \in Command, Sane(c, m, silent), c.op = "text" => c.text > n
  PROVE  QueuesOK(ib, Append(cs, c), m, silent)
<1> DEFINE cq == Append(cs, c)
<1>1. /\ DOMAIN cs = 1..Len(cs) /\ DOMAIN cq = 1..(Len(cs) + 1) /\ Len(cs) \in Nat
      /\ \A i \in 1..Len(cs) : cq[i] = cs[i]
      /\ cq[Len(cs) + 1] = c
  BY Appended
<1> HIDE DEF cq
<1>2. ASSUME NEW x, Sane(x, n, silent) PROVE Sane(x, m, silent)
  BY <1>2 DEF Sane
<1>3. ASSUME NEW x, Sane(x, n, silent) PROVE Spares(x, c)
  BY <1>3 DEF Sane, Spares
<1>4. AllSane(ib, m, silent) /\ AllSane(cq, m, silent)
  BY <1>1, <1>2 DEF QueuesOK, AllSane
<1>5. InOrder(ib)
  BY DEF QueuesOK
<1>6. InOrder(cq)
  BY <1>1, <1>3 DEF QueuesOK, InOrder, AllSane
<1>7. AllSpare(ib, cq)
  BY <1>1, <1>3 DEF QueuesOK, AllSpare, AllSane
<1> QED BY <1>4, <1>5, <1>6, <1>7 DEF QueuesOK, cq

(* The runtime refuses the first command, or all of them.                   *)
LEMMA QueuesRefused ==
  ASSUME NEW ib \in Seq(KeyingCommand), NEW cs \in Seq(Command), NEW n, NEW silent,
         QueuesOK(ib, cs, n, silent)
  PROVE  /\ cs # <<>> => QueuesOK(ib, Tail(cs), n, silent)
         /\ QueuesOK(ib, <<>>, n, silent)
         /\ QueuesOK(<<>>, cs, n, silent)
<1>1. ASSUME cs # <<>> PROVE QueuesOK(ib, Tail(cs), n, silent)
  <2>1. /\ Len(cs) \in Nat /\ Len(cs) >= 1 /\ DOMAIN cs = 1..Len(cs)
        /\ DOMAIN Tail(cs) = 1..(Len(cs) - 1)
        /\ \A i \in 1..(Len(cs) - 1) : Tail(cs)[i] = cs[i + 1]
    BY <1>1, Behead
  <2>2. AllSane(Tail(cs), n, silent)
    BY <2>1 DEF QueuesOK, AllSane
  <2>3. InOrder(Tail(cs))
    <3> SUFFICES ASSUME NEW i \in 1..(Len(cs) - 1), NEW j \in 1..(Len(cs) - 1), i < j
                 PROVE  Spares(Tail(cs)[i], Tail(cs)[j])
      BY <2>1 DEF InOrder
    <3>1. i + 1 \in DOMAIN cs /\ j + 1 \in DOMAIN cs /\ i + 1 < j + 1
      BY <2>1
    <3>2. Tail(cs)[i] = cs[i + 1] /\ Tail(cs)[j] = cs[j + 1]
      BY <2>1
    <3> QED BY <3>1, <3>2 DEF QueuesOK, InOrder
  <2>4. AllSpare(ib, Tail(cs))
    BY <2>1 DEF QueuesOK, AllSpare
  <2> QED BY <2>2, <2>3, <2>4 DEF QueuesOK
<1>2. DOMAIN <<>> = {}
  BY Nothing
<1>3. QueuesOK(ib, <<>>, n, silent)
  BY <1>2 DEF QueuesOK, AllSane, InOrder, AllSpare
<1>4. QueuesOK(<<>>, cs, n, silent)
  BY <1>2 DEF QueuesOK, AllSane, InOrder, AllSpare
<1> QED BY <1>1, <1>3, <1>4

(* The keying task is told to end.                                          *)
LEMMA QueuesShut ==
  ASSUME NEW ib \in Seq(KeyingCommand), NEW cs \in Seq(Command), NEW n, NEW silent,
         QueuesOK(ib, cs, n, silent)
  PROVE  QueuesOK(Append(ib, [op |-> "shutdown"]), cs, n, silent)
<1> DEFINE c == [op |-> "shutdown"]
           iq == Append(ib, c)
<1>1. /\ DOMAIN ib = 1..Len(ib) /\ DOMAIN iq = 1..(Len(ib) + 1) /\ Len(ib) \in Nat
      /\ \A i \in 1..Len(ib) : iq[i] = ib[i]
      /\ iq[Len(ib) + 1] = c
  BY Appended, Shutdown
<1>2. c.op = "shutdown"
  OBVIOUS
<1> HIDE DEF c, iq
<1>3. Sane(c, n, silent) /\ (\A x : Spares(c, x)) /\ (\A x : Spares(x, c))
  BY <1>2 DEF Sane, Spares
<1>4. AllSane(iq, n, silent)
  BY <1>1, <1>3 DEF QueuesOK, AllSane
<1>5. InOrder(iq)
  BY <1>1, <1>3 DEF QueuesOK, InOrder
<1>6. AllSpare(iq, cs)
  BY <1>1, <1>3 DEF QueuesOK, AllSpare
<1> QED BY <1>4, <1>5, <1>6 DEF QueuesOK, iq, c

(* The keying task takes the first command: when it is a stop, nothing      *)
(* behind it was asked for before.                                          *)
LEMMA QueuesTaken ==
  ASSUME NEW ib \in Seq(KeyingCommand), NEW cs \in Seq(Command), NEW n, NEW silent,
         QueuesOK(ib, cs, n, silent), ib # <<>>
  PROVE  /\ Sane(Head(ib), n, silent)
         /\ QueuesOK(Tail(ib), cs, n, silent)
         /\ Head(ib).op = "stop" => QueuesOK(Tail(ib), cs, n, silent \cup Head(ib).before)
         /\ Head(ib).op = "stop" => QueuesOK(<<>>, cs, n, silent \cup Head(ib).before)
<1> DEFINE c == Head(ib)
           iq == Tail(ib)
<1>1. /\ c = ib[1] /\ Len(ib) \in Nat /\ Len(ib) >= 1 /\ DOMAIN ib = 1..Len(ib)
      /\ DOMAIN iq = 1..(Len(ib) - 1) /\ iq \in Seq(KeyingCommand)
      /\ \A i \in 1..(Len(ib) - 1) : iq[i] = ib[i + 1]
  BY Behead
<1> HIDE DEF c, iq
<1>2. Sane(c, n, silent)
  BY <1>1 DEF QueuesOK, AllSane
<1>3. QueuesOK(iq, cs, n, silent)
  <2>1. AllSane(iq, n, silent)
    <3> SUFFICES ASSUME NEW i \in 1..(Len(ib) - 1) PROVE Sane(iq[i], n, silent)
      BY <1>1 DEF AllSane
    <3>1. i + 1 \in DOMAIN ib /\ iq[i] = ib[i + 1]
      BY <1>1
    <3> QED BY <3>1 DEF QueuesOK, AllSane
  <2>2. InOrder(iq)
    <3> SUFFICES ASSUME NEW i \in 1..(Len(ib) - 1), NEW j \in 1..(Len(ib) - 1), i < j
                 PROVE  Spares(iq[i], iq[j])
      BY <1>1 DEF InOrder
    <3>1. i + 1 \in DOMAIN ib /\ j + 1 \in DOMAIN ib /\ i + 1 < j + 1
      BY <1>1
    <3>2. iq[i] = ib[i + 1] /\ iq[j] = ib[j + 1]
      BY <1>1
    <3> QED BY <3>1, <3>2 DEF QueuesOK, InOrder
  <2>3. AllSpare(iq, cs)
    <3> SUFFICES ASSUME NEW i \in 1..(Len(ib) - 1), NEW j \in DOMAIN cs
                 PROVE  Spares(iq[i], cs[j])
      BY <1>1 DEF AllSpare
    <3>1. i + 1 \in DOMAIN ib /\ iq[i] = ib[i + 1]
      BY <1>1
    <3> QED BY <3>1 DEF QueuesOK, AllSpare
  <2> QED BY <2>1, <2>2, <2>3 DEF QueuesOK
<1>4. ASSUME c.op = "stop" PROVE QueuesOK(iq, cs, n, silent \cup c.before)
  <2>1. ASSUME NEW x, Sane(x, n, silent), Spares(c, x) PROVE Sane(x, n, silent \cup c.before)
    BY <1>4, <2>1 DEF Sane, Spares
  <2>2. ASSUME NEW i \in DOMAIN iq PROVE Spares(c, iq[i])
    <3>1. 1 \in DOMAIN ib /\ i + 1 \in DOMAIN ib /\ 1 < i + 1
      BY <1>1, <2>2
    <3>2. c = ib[1] /\ iq[i] = ib[i + 1]
      BY <1>1, <2>2
    <3>3. InOrder(ib)
      BY DEF QueuesOK
    <3> QED BY <3>1, <3>2, <3>3 DEF InOrder
  <2>3. ASSUME NEW i \in DOMAIN cs PROVE Spares(c, cs[i])
    BY <1>1, <2>3 DEF QueuesOK, AllSpare
  <2>4. AllSane(iq, n, silent \cup c.before) /\ AllSane(cs, n, silent \cup c.before)
    BY <1>3, <2>1, <2>2, <2>3 DEF QueuesOK, AllSane
  <2> QED BY <1>3, <2>4 DEF QueuesOK
<1>5. c.op = "stop" => QueuesOK(<<>>, cs, n, silent \cup c.before)
  BY <1>1, <1>4, QueuesRefused
<1> QED BY <1>2, <1>3, <1>4, <1>5 DEF c, iq

LEMMA StopInvStep == Inv /\ [Next]_vars => StopInv'
<1> SUFFICES ASSUME Inv, [Next]_vars PROVE StopInv'
  OBVIOUS
<1>0. CatTypes /\ KeyingTypes /\ StopInv /\ TaskOK
  BY DEF Inv, TypeOK
<1>s. /\ inbox \in Seq(KeyingCommand) /\ commands \in Seq(Command) /\ asked \in Nat
      /\ task \in Task /\ keyer \in Seq(Texts)
  BY <1>0 DEF CatTypes, KeyingTypes
<1>q. QueuesOK(inbox, commands, asked, silenced)
  BY <1>0 DEF StopInv
<1>a. ASSUME UNCHANGED <<task, keyer, silenced, uncleared, asked>>,
             QueuesOK(inbox', commands', asked, silenced)
      PROVE StopInv'
  BY <1>a, <1>0 DEF StopInv
<1>b. ASSUME UNCHANGED <<inbox, commands, silenced, uncleared, asked>>,
             task'.pending = task.pending \/ task'.pending = <<>>,
             \/ task'.text = 0
             \/ /\ task'.text = task.text
                /\ task'.pc \in Releasing \/ task.pc \notin Releasing \/ task' = task,
             task'.pc \in {"idle", "dead"} => task'.text = 0,
             \A i \in DOMAIN keyer' : keyer'[i] \in silenced => keyer'[i] \in uncleared
      PROVE StopInv'
  <2>1. 0 \in (0..asked) \ silenced
    BY <1>0, <1>s DEF StopInv
  <2>2. \A i \in DOMAIN task'.pending : task'.pending[i].text \in (1..asked') \ silenced'
    BY <1>b, <1>0, Nothing DEF StopInv
  <2>3. task'.text \in 0..asked' /\ (task'.pc \notin Releasing => task'.text \notin silenced')
    BY <1>b, <2>1, <1>0 DEF StopInv
  <2> QED BY <1>b, <2>2, <2>3, <1>0 DEF StopInv
<1>g. ASSUME NEW next, GiveUp(next) PROVE QueuesOK(inbox', commands, asked, silenced)
  BY <1>g, <1>s, <1>q, QueuesShut DEF GiveUp
<1>k. \A i \in DOMAIN keyer : keyer[i] \in silenced => keyer[i] \in uncleared
  BY <1>0 DEF StopInv
<1>z. task.pc \in {"idle", "dead"} => task.text = 0
  BY <1>0 DEF StopInv
<1>1. ASSUME \/ Turn \/ Break \/ Mend \/ BackoffEnds \/ BeginConnect \/ ConnectFails \/ Lagged
             \/ LateRelease \/ UNCHANGED vars
      PROVE  StopInv'
  <2>1. UNCHANGED <<inbox, commands, task, keyer, silenced, uncleared, asked>>
    BY <1>1 DEF Turn, Break, Mend, BackoffEnds, BeginConnect, ConnectFails, Lagged, LateRelease,
                vars, keying
  <2> QED BY <2>1, <1>a, <1>q
<1>4. ASSUME KeyerSends PROVE StopInv'
  <2>1. /\ DOMAIN keyer = 1..Len(keyer) /\ DOMAIN Tail(keyer) = 1..(Len(keyer) - 1) /\ Len(keyer) \in Nat
        /\ \A i \in 1..(Len(keyer) - 1) : Tail(keyer)[i] = keyer[i + 1]
    BY <1>4, <1>s, Behead DEF KeyerSends
  <2>2. \A i \in DOMAIN Tail(keyer) : Tail(keyer)[i] \in silenced => Tail(keyer)[i] \in uncleared
    BY <2>1, <1>k
  <2> QED BY <1>4, <2>2, <1>b, <1>z DEF KeyerSends
<1>5. ASSUME NEW t \in Texts, AskText(t) PROVE StopInv'
  <2>1. PICK w \in env.waits : commands' = Append(commands, [op |-> "text", text |-> t, wait |-> w])
    BY <1>5 DEF AskText
  <2> DEFINE c == [op |-> "text", text |-> t, wait |-> w]
  <2>2. c \in Command /\ c.op = "text" /\ c.text = t
    BY <1>0 DEF CatTypes, Bounds, Command, TextCommand
  <2>3. t = asked + 1 /\ asked' = t /\ UNCHANGED <<inbox, task, keyer, silenced, uncleared>>
    BY <1>5 DEF AskText
  <2>4. silenced \subseteq 1..asked
    BY <1>0 DEF StopInv
  <2> HIDE DEF c
  <2>5. Sane(c, t, silenced)
    BY <2>2, <2>3, <2>4, <1>s DEF Sane
  <2>6. QueuesOK(inbox, Append(commands, c), t, silenced)
    <3>1. asked <= t /\ t \in Nat /\ c.text > asked
      BY <2>2, <2>3, <1>s
    <3> QED BY <2>2, <2>5, <3>1, <1>s, <1>q, QueuesAsked
  <2>7. QueuesOK(inbox', commands', asked', silenced')
    BY <2>1, <2>3, <2>6 DEF c
  <2>8. silenced' \subseteq 1..asked'
    BY <2>3, <2>4, <1>s
  <2>9. /\ \A i \in DOMAIN task'.pending : task'.pending[i].text \in (1..asked') \ silenced'
        /\ task'.text \in 0..asked' /\ (task'.pc \notin Releasing => task'.text \notin silenced')
    BY <2>3, <1>0, <1>s DEF StopInv
  <2> QED BY <2>3, <2>7, <2>8, <2>9, <1>k, <1>z DEF StopInv
<1>6. ASSUME AskStop PROVE StopInv'
  <2> DEFINE c == [op |-> "stop", before |-> 1..asked]
  <2>1. c \in Command /\ c.op = "stop" /\ c.before = 1..asked
    BY <1>s DEF Command, StopCommand
  <2>2. commands' = Append(commands, c) /\ UNCHANGED <<inbox, task, keyer, silenced, uncleared, asked>>
    BY <1>6 DEF AskStop, keying
  <2> HIDE DEF c
  <2>3. Sane(c, asked, silenced) /\ c.op # "text"
    BY <2>1 DEF Sane
  <2>4. QueuesOK(inbox, Append(commands, c), asked, silenced)
    BY <2>1, <2>3, <1>s, <1>q, QueuesAsked
  <2> QED BY <2>2, <2>4, <1>a
<1>7. ASSUME AskTuning PROVE StopInv'
  <2>1. PICK c \in {[op |-> "mode", mode |-> m] : m \in {"CW", "DATA"}}
              \cup {[op |-> "rit", delta |-> d] : d \in {0, 1, -1}}
              \cup {[op |-> "wpm"]} : commands' = Append(commands, c)
    BY <1>7 DEF AskTuning
  <2>2. c \in Command /\ c.op \in {"mode", "rit", "wpm"}
    BY DEF Command, Tuning, Speed
  <2>3. UNCHANGED <<inbox, task, keyer, silenced, uncleared, asked>>
    BY <1>7 DEF AskTuning, keying
  <2>4. Sane(c, asked, silenced) /\ c.op # "text"
    BY <2>2 DEF Sane
  <2>5. QueuesOK(inbox, Append(commands, c), asked, silenced)
    BY <2>2, <2>4, <1>s, <1>q, QueuesAsked
  <2> QED BY <2>1, <2>3, <2>5, <1>a
<1>8. ASSUME RefuseCommand PROVE StopInv'
  <2>1. QueuesOK(inbox, Tail(commands), asked, silenced)
    BY <1>8, <1>s, <1>q, QueuesRefused DEF RefuseCommand
  <2> QED BY <1>8, <2>1, <1>a DEF RefuseCommand
<1>12. ASSUME Connected PROVE StopInv'
  <2>1. QueuesOK(<<>>, commands, asked, silenced)
    BY <1>s, <1>q, QueuesRefused
  <2>2. task' = Idle /\ inbox' = <<>> /\ UNCHANGED <<commands, keyer, silenced, uncleared, asked>>
    BY <1>12 DEF Connected
  <2>3. task'.pending = <<>> /\ task'.text = 0 /\ silenced \subseteq 1..asked
    BY <2>2, <1>0, Refreshed DEF StopInv
  <2>4. 0 \in (0..asked) \ silenced
    BY <2>3, <1>s
  <2> QED BY <2>1, <2>2, <2>3, <2>4, <1>k, Nothing DEF StopInv
<1>13. ASSUME ReadReport PROVE StopInv'
  <2>1. QueuesOK(inbox', commands, asked, silenced)
    BY <1>13, <1>g, <1>q DEF ReadReport
  <2> QED BY <1>13, <2>1, <1>a DEF ReadReport
<1>14. ASSUME Forward PROVE StopInv'
  <2>1. Head(commands) \in KeyingCommand
    BY <1>14, <1>s, Behead, TextOrNot DEF Forward
  <2>2. QueuesOK(Append(inbox, Head(commands)), Tail(commands), asked, silenced)
    BY <1>14, <2>1, <1>s, <1>q, QueuesForward DEF Forward
  <2> QED BY <1>14, <2>2, <1>a DEF Forward
<1>15. ASSUME Apply PROVE StopInv'
  <2>1. inbox' \in Seq(KeyingCommand) /\ QueuesOK(inbox', commands, asked, silenced)
    <3>1. CASE GiveUp("dropping")
      BY <3>1, <1>g, <1>s, Shutdown, Appended DEF GiveUp
    <3>2. CASE UNCHANGED inbox
      BY <3>2, <1>s, <1>q
    <3> QED BY <1>15, <3>1, <3>2 DEF Apply
  <2>2. QueuesOK(inbox', Tail(commands), asked, silenced)
    BY <1>15, <2>1, <1>s, QueuesRefused DEF Apply
  <2> QED BY <1>15, <2>2, <1>a DEF Apply
<1>16. ASSUME Dropped PROVE StopInv'
  <2>1. QueuesOK(inbox, commands', asked, silenced)
    BY <1>16, <1>s, <1>q, QueuesRefused DEF Dropped
  <2> QED BY <1>16, <2>1, <1>a DEF Dropped
<1>18. ASSUME Quit PROVE StopInv'
  <2>1. QueuesOK(inbox', commands', asked, silenced)
    <3>1. CASE phase = "connected"
      BY <1>18, <3>1, <1>g DEF Quit
    <3>2. CASE phase # "connected"
      BY <1>18, <3>2, <1>s, <1>q, QueuesRefused DEF Quit
    <3> QED BY <3>1, <3>2
  <2> QED BY <1>18, <2>1, <1>a DEF Quit
<1>19. ASSUME TakePending PROVE StopInv'
  <2> DEFINE c == Head(task.pending)
             p == task.pending
  <2>1. p \in Seq(TextCommand) /\ p # <<>>
    BY <1>19, <1>s DEF TakePending, Task
  <2>2. /\ c \in TextCommand /\ c = p[1] /\ Len(p) \in Nat /\ Len(p) >= 1 /\ DOMAIN p = 1..Len(p)
        /\ DOMAIN Tail(p) = 1..(Len(p) - 1)
        /\ \A i \in 1..(Len(p) - 1) : Tail(p)[i] = p[i + 1]
        /\ Tail(p) \in Seq(TextCommand)
    BY <2>1, Behead
  <2>3. Began(c) \in Task /\ Began(c).text = c.text /\ Began(c).pending = p /\ Began(c).pc = "begin"
    BY <2>2, <1>0, Beginning
  <2>4. task'.pending = Tail(p) /\ task'.text = c.text /\ task'.pc = "begin"
    BY <1>19, <2>3 DEF TakePending, Task
  <2>5. \A i \in DOMAIN p : p[i].text \in (1..asked) \ silenced
    BY <1>0 DEF StopInv
  <2>6. ASSUME NEW i \in DOMAIN Tail(p) PROVE Tail(p)[i].text \in (1..asked) \ silenced
    <3>1. i + 1 \in DOMAIN p /\ Tail(p)[i] = p[i + 1]
      BY <2>2, <2>6
    <3> QED BY <2>5, <3>1
  <2>7. c.text \in (0..asked) \ silenced
    <3>1. 1 \in DOMAIN p /\ c = p[1]
      BY <2>2
    <3>2. c.text \in (1..asked) \ silenced
      BY <2>5, <3>1
    <3> QED BY <3>2, <1>s
  <2>8. UNCHANGED <<inbox, commands, keyer, silenced, uncleared, asked>>
    BY <1>19 DEF TakePending
  <2> HIDE DEF c, p
  <2> QED BY <2>4, <2>6, <2>7, <2>8, <1>0 DEF StopInv
<1>t. ASSUME inbox # <<>>
      PROVE  /\ Head(inbox) \in KeyingCommand
             /\ Sane(Head(inbox), asked, silenced)
             /\ QueuesOK(Tail(inbox), commands, asked, silenced)
             /\ Head(inbox).op = "stop" =>
                  /\ QueuesOK(Tail(inbox), commands, asked, silenced \cup Head(inbox).before)
                  /\ silenced \cup Head(inbox).before \subseteq 1..asked
             /\ QueuesOK(<<>>, commands, asked, silenced)
  <2>1. Head(inbox) \in KeyingCommand
    BY <1>t, <1>s, Behead
  <2>2. /\ Sane(Head(inbox), asked, silenced)
        /\ QueuesOK(Tail(inbox), commands, asked, silenced)
        /\ Head(inbox).op = "stop" =>
             QueuesOK(Tail(inbox), commands, asked, silenced \cup Head(inbox).before)
    BY <1>t, <1>s, <1>q, QueuesTaken
  <2>3. Head(inbox).op = "stop" => silenced \cup Head(inbox).before \subseteq 1..asked
    BY <2>2, <1>0 DEF Sane, StopInv
  <2>4. QueuesOK(<<>>, commands, asked, silenced)
    BY <1>s, <1>q, QueuesRefused
  <2> QED BY <2>1, <2>2, <2>3, <2>4
<1>20. ASSUME TakeCommand PROVE StopInv'
  <2> DEFINE c == Head(inbox)
  <2>1. /\ c \in KeyingCommand /\ Sane(c, asked, silenced)
        /\ QueuesOK(Tail(inbox), commands, asked, silenced)
        /\ c.op = "stop" =>
             /\ QueuesOK(Tail(inbox), commands, asked, silenced \cup c.before)
             /\ silenced \cup c.before \subseteq 1..asked
        /\ QueuesOK(<<>>, commands, asked, silenced)
    BY <1>20, <1>t DEF TakeCommand
  <2>2. UNCHANGED <<commands, asked>> /\ task.pending = <<>> /\ task.pc = "idle"
    BY <1>20 DEF TakeCommand
  <2>3. task'.pending = <<>>
    BY <1>20, <2>2, Refreshed, <1>s DEF TakeCommand, Began, Task
  <2>4. CASE c.op = "text"
    <3>1. /\ task'.text = c.text /\ task'.pc = "begin"
          /\ inbox' = Tail(inbox) /\ UNCHANGED <<keyer, silenced, uncleared>>
      BY <1>20, <2>4, <1>s DEF TakeCommand, Began, Task
    <3>2. c.text \in (0..asked) \ silenced
      BY <2>1, <2>4, <1>s DEF Sane
    <3> HIDE DEF c
    <3> QED BY <2>1, <2>2, <2>3, <3>1, <3>2, <1>0, Nothing DEF StopInv
  <2>5. CASE c.op = "shutdown"
    <3>1. task'.text = 0 /\ inbox' = <<>> /\ UNCHANGED <<keyer, silenced, uncleared>>
      BY <1>20, <2>5, Refreshed DEF TakeCommand
    <3>2. 0 \in (0..asked) \ silenced
      BY <1>0, <1>s DEF StopInv
    <3> HIDE DEF c
    <3> QED BY <2>1, <2>2, <2>3, <3>1, <3>2, <1>0, Nothing DEF StopInv
  <2>6. CASE c.op = "stop"
    <3>1. task' = task /\ inbox' = Tail(inbox) /\ ClearBuffer /\ silenced' = silenced \cup c.before
      BY <1>20, <2>6 DEF TakeCommand
    <3>2. task.text = 0
      BY <2>2, <1>0 DEF StopInv
    <3>3. 0 \in (0..asked) \ silenced'
      BY <2>1, <2>6, <3>1, <1>s
    <3>4. \A i \in DOMAIN keyer' : keyer'[i] \in uncleared'
      BY <3>1, <1>0, Clearing, Nothing
    <3> HIDE DEF c
    <3> QED BY <2>1, <2>2, <2>3, <2>6, <3>1, <3>2, <3>3, <3>4, Nothing DEF StopInv
  <2>7. CASE c.op \notin {"text", "shutdown", "stop"}
    <3>1. task' = task /\ inbox' = Tail(inbox) /\ UNCHANGED <<keyer, silenced, uncleared>>
      BY <1>20, <2>7 DEF TakeCommand
    <3> HIDE DEF c
    <3> QED BY <2>1, <2>2, <3>1, <1>a
  <2> QED BY <2>4, <2>5, <2>6, <2>7
<1>x. ASSUME NEW result \in {"sent", "failed"}, Ends(result)
      PROVE task'.pending = task.pending /\ task'.text = 0
  BY <1>x, <1>s DEF Ends, Task
<1>21. ASSUME BeginVoice PROVE StopInv'
  <2>1. UNCHANGED <<inbox, commands, keyer, silenced, uncleared, asked>> /\ task.pc = "begin"
    BY <1>21 DEF BeginVoice
  <2>2. CASE Ends("failed")
    BY <2>1, <2>2, <1>x, <1>b, <1>k
  <2>3. CASE task' = [task EXCEPT !.pc = "voice"]
    <3>1. task'.pending = task.pending /\ task'.text = task.text /\ task'.pc = "voice"
      BY <2>3, <1>s DEF Task
    <3>2. task.pc \notin Releasing
      BY <2>1 DEF Releasing
    <3> QED BY <2>1, <3>1, <3>2, <1>b, <1>k
  <2> QED BY <1>21, <2>2, <2>3 DEF BeginVoice
<1>22. ASSUME BeginKeying PROVE StopInv'
  <2>1. task.text \in Texts /\ task.text \notin silenced /\ task.pc \notin Releasing
    BY <1>22, <1>0 DEF BeginKeying, StopInv, KeyingTypes, Releasing
  <2>2. \A i \in DOMAIN keyer' : keyer'[i] \in silenced => keyer'[i] \in uncleared
    <3>1. CASE keyer' = keyer
      BY <3>1, <1>k
    <3>2. CASE keyer' = Append(keyer, task.text)
      BY <2>1, <3>2, <1>k, <1>s, Appended
    <3>3. CASE keyer' = <<task.text>>
      BY <2>1, <3>3, OneOf
    <3> QED BY <1>22, <3>1, <3>2, <3>3 DEF BeginKeying, SendByCat, SendByDevice
  <2>3. /\ task'.pending = task.pending /\ task'.text \in {0, task.text}
        /\ task'.pc \in {"idle", "dead"} => task'.text = 0
    <3>1. CASE Ends("failed") \/ Ends("sent")
      BY <3>1, <1>x
    <3>2. CASE env.keyer # "none" /\ task' = [task EXCEPT !.pc = WaitFor(env.keyer)]
      <4>1. WaitFor(env.keyer) \notin {"idle", "dead"}
        BY <3>2, <1>0 DEF WaitFor, CatTypes, Bounds
      <4> QED BY <3>2, <4>1, <1>s DEF Task
    <3> QED BY <1>22, <3>1, <3>2 DEF BeginKeying
  <2> QED BY <1>22, <2>1, <2>2, <2>3, <1>b DEF BeginKeying
<1>23. ASSUME BusyWait \/ IdleWait \/ CatWait \/ VoiceEnds PROVE StopInv'
  <2>1. UNCHANGED <<inbox, commands, keyer, silenced, uncleared, asked>>
    BY <1>23 DEF BusyWait, IdleWait, CatWait, VoiceEnds
  <2>2. task.pc \notin Releasing
    BY <1>23 DEF BusyWait, IdleWait, CatWait, VoiceEnds, Releasing
  <2>3. /\ task'.pending = task.pending /\ task'.text \in {0, task.text}
        /\ task'.pc \in {"idle", "dead"} => task'.text = 0
    <3>1. CASE Ends("failed") \/ Ends("sent")
      BY <3>1, <1>x
    <3>2. CASE \E pc \in {"idleWait", "played", "unplayed"} : task' = [task EXCEPT !.pc = pc]
      BY <3>2, <1>s DEF Task
    <3>3. CASE task' = task
      BY <3>3, <1>z
    <3> QED BY <1>23, <3>1, <3>2, <3>3 DEF BusyWait, IdleWait, CatWait, VoiceEnds
  <2> QED BY <2>1, <2>2, <2>3, <1>b, <1>k
<1>v. ASSUME VoiceReleased PROVE StopInv'
  <2>1. UNCHANGED <<inbox, commands, keyer, silenced, uncleared, asked>>
    BY <1>v DEF VoiceReleased
  <2>2. task'.text = 0 /\ (task'.pending = task.pending \/ task'.pending = <<>>)
    BY <1>v, <1>s, Refreshed DEF VoiceReleased, Task
  <2> QED BY <2>1, <2>2, <1>b, <1>k
<1>27. ASSUME WaitQueues PROVE StopInv'
  <2> DEFINE c == Head(inbox)
             p == task.pending
  <2>1. /\ c \in KeyingCommand /\ Sane(c, asked, silenced)
        /\ QueuesOK(Tail(inbox), commands, asked, silenced)
    BY <1>27, <1>t DEF WaitQueues
  <2>2. inbox' = Tail(inbox) /\ UNCHANGED <<commands, keyer, silenced, uncleared, asked>>
    BY <1>27 DEF WaitQueues
  <2>3. CASE c.op = "text"
    <3>1. c \in TextCommand /\ c.text \in (1..asked) \ silenced
      BY <2>1, <2>3, TextOrNot DEF Sane
    <3>2. task'.text = task.text /\ task'.pc = task.pc /\ task'.pending = Append(p, c)
      BY <1>27, <2>3, <1>s DEF WaitQueues, Task
    <3>3. p \in Seq(TextCommand)
      BY <1>s DEF Task
    <3>4. \A i \in DOMAIN p : p[i].text \in (1..asked) \ silenced
      BY <1>0 DEF StopInv
    <3>5. \A i \in DOMAIN Append(p, c) : Append(p, c)[i].text \in (1..asked) \ silenced
      BY <3>1, <3>3, <3>4, Appended
    <3> HIDE DEF c, p
    <3> QED BY <2>1, <2>2, <3>2, <3>5, <1>0 DEF StopInv
  <2>4. CASE c.op # "text"
    <3>1. task' = task
      BY <1>27, <2>4 DEF WaitQueues
    <3> QED BY <2>1, <2>2, <3>1, <1>a
  <2> QED BY <2>3, <2>4
<1>28. ASSUME Interrupt PROVE StopInv'
  <2> DEFINE c == Head(inbox)
  <2>1. /\ c \in KeyingCommand
        /\ c.op = "stop" =>
             /\ QueuesOK(Tail(inbox), commands, asked, silenced \cup c.before)
             /\ silenced \cup c.before \subseteq 1..asked
        /\ QueuesOK(<<>>, commands, asked, silenced)
    BY <1>28, <1>t DEF Interrupt
  <2>2. UNCHANGED <<commands, asked>> /\ c.op \in {"stop", "shutdown"} /\ task' = Stopped(c.op)
        /\ Waits /\ ClearBuffer
    BY <1>28 DEF Interrupt
  <2>3. /\ c.op = "stop" => inbox' = Tail(inbox) /\ silenced' = silenced \cup c.before
        /\ c.op = "shutdown" => inbox' = <<>> /\ silenced' = silenced
    BY <1>28 DEF Interrupt
  <2>4. silenced \subseteq 1..asked
    BY <1>0 DEF StopInv
  <2>5. task'.pending = <<>> /\ (task'.text = 0 \/ (task'.pc \in Releasing /\ task'.text = task.text))
        /\ (task'.pc \in {"idle", "dead"} => task'.text = 0)
    BY <2>2, <1>0, Stopping DEF Releasing
  <2>6. \A i \in DOMAIN keyer' : keyer'[i] \in uncleared'
    BY <2>2, <1>0, Clearing, Nothing
  <2> HIDE DEF c
  <2>7. silenced' \subseteq 1..asked' /\ QueuesOK(inbox', commands', asked', silenced')
    BY <2>1, <2>2, <2>3, <2>4
  <2>8. 0 \in (0..asked') \ silenced' /\ task.text \in 0..asked'
    BY <2>2, <2>7, <1>0, <1>s DEF StopInv
  <2>9. task'.text \in 0..asked' /\ (task'.pc \notin Releasing => task'.text \notin silenced')
    BY <2>5, <2>8
  <2> QED BY <2>5, <2>6, <2>7, <2>9, Nothing DEF StopInv
<1> QED
  BY <1>1, <1>4, <1>5, <1>6, <1>7, <1>8, <1>12, <1>13, <1>14, <1>15, <1>16, <1>18, <1>19, <1>20,
     <1>21, <1>22, <1>23, <1>v, <1>27, <1>28
     DEF Next, Runtime, Keying

-----------------------------------------------------------------------------
(* A text is said to be sent when it was.                                   *)

LEMMA InitSent == Init => SentInv
<1> SUFFICES ASSUME Init PROVE SentInv
  OBVIOUS
<1>1. inbox = <<>> /\ commands = <<>> /\ task = Dead /\ answer = [t \in Texts |-> "none"]
  BY DEF Init
<1>2. DOMAIN <<>> = {}
  BY Nothing
<1>3. task.pending = <<>> /\ task.pc = "dead"
  BY <1>1 DEF Dead, Idle
<1> QED BY <1>1, <1>2, <1>3 DEF SentInv, AllWait

LEMMA WaitsAdded ==
  ASSUME NEW S, NEW q \in Seq(S), NEW c \in S, AllWait(q), c.op = "text" => c.wait
  PROVE  AllWait(Append(q, c))
BY Appended DEF AllWait

LEMMA WaitsTaken ==
  ASSUME NEW S, NEW q \in Seq(S), AllWait(q), q # <<>>
  PROVE  AllWait(Tail(q)) /\ (Head(q).op = "text" => Head(q).wait)
<1>1. /\ Head(q) = q[1] /\ Len(q) \in Nat /\ Len(q) >= 1 /\ DOMAIN q = 1..Len(q)
      /\ DOMAIN Tail(q) = 1..(Len(q) - 1)
      /\ \A i \in 1..(Len(q) - 1) : Tail(q)[i] = q[i + 1]
  BY Behead
<1>2. AllWait(Tail(q))
  BY <1>1 DEF AllWait
<1> QED BY <1>1, <1>2 DEF AllWait

LEMMA NoneWaits == AllWait(<<>>)
BY Nothing DEF AllWait

(* What the task waits for, while the keyer and what was keyed change.      *)
KeyedOrWith(k) == task.text \in keyed \cup {k[i] : i \in DOMAIN k}

LEMMA SentInvStep == Inv /\ [Next]_vars => SentInv'
<1> SUFFICES ASSUME Inv, [Next]_vars PROVE SentInv'
  OBVIOUS
<1>0. CatTypes /\ KeyingTypes /\ SentInv
  BY DEF Inv, TypeOK
<1>s. /\ inbox \in Seq(KeyingCommand) /\ commands \in Seq(Command)
      /\ task \in Task /\ keyer \in Seq(Texts)
      /\ answer \in [Texts -> {"none", "asked", "sent", "failed"}] /\ env \in Bounds
  BY <1>0 DEF CatTypes, KeyingTypes
<1>e. env'.keyer = env.keyer /\ env'.waits = env.waits
  <2>1. ASSUME NEW what \in {"turns", "breaks", "stops", "tunings", "lags", "quits", "failures"},
               Spend(what)
        PROVE env'.keyer = env.keyer /\ env'.waits = env.waits
    BY <2>1, <1>s, Spending
  <2>2. CASE env' = env
    BY <2>2
  <2>3. CASE \/ Turn \/ Break \/ AskStop \/ AskTuning \/ Lagged \/ Quit \/ BeginKeying
             \/ BusyWait \/ IdleWait
    BY <2>1, <2>2, <2>3 DEF Turn, Break, AskStop, AskTuning, Lagged, Quit, BeginKeying,
         BusyWait, IdleWait
  <2>4. ASSUME ClearBuffer \/ Release \/ Acquire \/ RequestFails \/ (\E c : ApplyFails(c))
        PROVE env'.keyer = env.keyer /\ env'.waits = env.waits
    BY <2>4, <1>s, Failing
  <2>5. CASE Apply \/ TakeCommand \/ BeginVoice \/ VoiceReleased \/ Interrupt \/ LateRelease
    BY <2>1, <2>2, <2>4, <2>5 DEF Apply, TakeCommand, BeginVoice, VoiceReleased, Interrupt, LateRelease
  <2>6. CASE \/ Mend \/ KeyerSends \/ (\E t \in Texts : AskText(t)) \/ RefuseCommand \/ BackoffEnds
             \/ BeginConnect \/ ConnectFails \/ Connected \/ ReadReport \/ Forward \/ Dropped
             \/ TakePending \/ CatWait \/ VoiceEnds \/ WaitQueues \/ UNCHANGED vars
    BY <2>6 DEF Mend, KeyerSends, AskText, RefuseCommand, BackoffEnds, BeginConnect, ConnectFails,
         Connected, ReadReport, Forward, Dropped, TakePending, CatWait, VoiceEnds, WaitQueues, vars
  <2> QED BY <2>3, <2>5, <2>6 DEF Next, Runtime, Keying
<1>w. SUFFICES ASSUME Waited PROVE
        /\ AllWait(commands') /\ AllWait(inbox')
        /\ \A i \in DOMAIN task'.pending : task'.pending[i].wait
        /\ task'.pc = "begin" => task'.wait
        /\ task'.pc # "catWait"
        /\ task'.pc \in {"busyWait", "idleWait"} => KeyedOrWith(keyer)'
        /\ task'.pc = "played" => task'.text \in keyed' \cup cut'
        /\ \A t \in Texts : answer'[t] = "sent" => t \in keyed' \cup cut'
  BY <1>e DEF SentInv, Waited, KeyedOrWith, AllWait
<1>h. /\ AllWait(commands) /\ AllWait(inbox)
      /\ \A i \in DOMAIN task.pending : task.pending[i].wait
      /\ task.pc = "begin" => task.wait
      /\ task.pc # "catWait"
      /\ task.pc \in {"busyWait", "idleWait"} => KeyedOrWith(keyer)
      /\ task.pc = "played" => task.text \in keyed \cup cut
      /\ \A t \in Texts : answer[t] = "sent" => t \in keyed \cup cut
  BY <1>0, <1>w DEF SentInv, KeyedOrWith
<1> DEFINE Goal ==
        /\ AllWait(commands') /\ AllWait(inbox')
        /\ \A i \in DOMAIN task'.pending : task'.pending[i].wait
        /\ task'.pc = "begin" => task'.wait
        /\ task'.pc # "catWait"
        /\ task'.pc \in {"busyWait", "idleWait"} => KeyedOrWith(keyer)'
        /\ task'.pc = "played" => task'.text \in keyed' \cup cut'
        /\ \A t \in Texts : answer'[t] = "sent" => t \in keyed' \cup cut'
<1>a. ASSUME UNCHANGED <<task, keyer, keyed, cut>>, AllWait(commands'), AllWait(inbox'),
             \A t \in Texts : answer'[t] = "sent" => answer[t] = "sent"
      PROVE Goal
  BY <1>a, <1>h DEF KeyedOrWith
<1>b. ASSUME UNCHANGED <<commands, inbox>>,
             task'.pending = task.pending \/ task'.pending = <<>>,
             task'.pc \in {"idle", "dead", "voice", "played", "unplayed", "last"},
             task'.pc = "played" => task'.text \in keyed' \cup cut',
             keyed \subseteq keyed', cut \subseteq cut',
             \A t \in Texts : answer'[t] = "sent" => answer[t] = "sent" \/ t \in keyed' \cup cut'
      PROVE Goal
  BY <1>b, <1>h, Nothing
<1>g. ASSUME NEW next, GiveUp(next) PROVE AllWait(inbox')
  <2>1. ([op |-> "shutdown"]).op # "text"
    OBVIOUS
  <2> QED BY <1>g, <2>1, <1>s, <1>h, Shutdown, WaitsAdded DEF GiveUp
<1> HIDE DEF Goal
<1>1. ASSUME \/ Turn \/ Break \/ Mend \/ BackoffEnds \/ BeginConnect \/ ConnectFails \/ Lagged
             \/ LateRelease \/ UNCHANGED vars
      PROVE  Goal
  <2>1. UNCHANGED <<inbox, commands, task, keyer, keyed, cut, answer>>
    BY <1>1 DEF Turn, Break, Mend, BackoffEnds, BeginConnect, ConnectFails, Lagged, LateRelease,
                vars, keying
  <2> QED BY <2>1, <1>a, <1>h
<1>4. ASSUME KeyerSends PROVE Goal
  <2>1. /\ DOMAIN keyer = 1..Len(keyer) /\ DOMAIN Tail(keyer) = 1..(Len(keyer) - 1)
        /\ Len(keyer) \in Nat /\ Head(keyer) = keyer[1]
        /\ \A i \in 1..(Len(keyer) - 1) : Tail(keyer)[i] = keyer[i + 1]
    BY <1>4, <1>s, Behead DEF KeyerSends
  <2>2. UNCHANGED <<commands, inbox, task, cut, answer>>
        /\ keyer' = Tail(keyer) /\ keyed' = keyed \cup {Head(keyer)}
    BY <1>4 DEF KeyerSends
  <2>3. ASSUME NEW i \in DOMAIN keyer PROVE keyer[i] \in keyed' \cup {keyer'[j] : j \in DOMAIN keyer'}
    <3>1. CASE i = 1
      BY <2>1, <2>2, <3>1
    <3>2. CASE i # 1
      <4>1. i - 1 \in 1..(Len(keyer) - 1) /\ (i - 1) + 1 = i
        BY <2>1, <3>2
      <4> QED BY <2>1, <2>2, <4>1
    <3> QED BY <3>1, <3>2
  <2>4. KeyedOrWith(keyer) => KeyedOrWith(keyer)'
    BY <2>2, <2>3 DEF KeyedOrWith
  <2> QED BY <2>2, <2>4, <1>h DEF Goal
<1>5. ASSUME NEW t \in Texts, AskText(t) PROVE Goal
  <2>1. PICK w \in env.waits : commands' = Append(commands, [op |-> "text", text |-> t, wait |-> w])
    BY <1>5 DEF AskText
  <2> DEFINE c == [op |-> "text", text |-> t, wait |-> w]
  <2>2. c \in Command /\ (c.op = "text" => c.wait)
    BY <1>w, <1>s DEF Bounds, Command, TextCommand, Waited
  <2> HIDE DEF c
  <2>3. AllWait(commands')
    BY <2>1, <2>2, <1>s, <1>h, WaitsAdded DEF c
  <2>4. \A u \in Texts : answer'[u] = "sent" => answer[u] = "sent"
    BY <1>5, <1>s DEF AskText
  <2> QED BY <1>5, <2>3, <2>4, <1>a, <1>h DEF AskText
<1>6. ASSUME AskStop PROVE Goal
  <2> DEFINE c == [op |-> "stop", before |-> 1..asked]
  <2>1. c \in Command /\ c.op # "text"
    BY <1>0 DEF KeyingTypes, Command, StopCommand
  <2>2. commands' = Append(commands, c) /\ UNCHANGED keying
    BY <1>6 DEF AskStop
  <2> HIDE DEF c
  <2>3. AllWait(commands')
    BY <2>1, <2>2, <1>s, <1>h, WaitsAdded
  <2> QED BY <2>2, <2>3, <1>a, <1>h DEF keying
<1>7. ASSUME AskTuning PROVE Goal
  <2>1. PICK c \in {[op |-> "mode", mode |-> m] : m \in {"CW", "DATA"}}
              \cup {[op |-> "rit", delta |-> d] : d \in {0, 1, -1}}
              \cup {[op |-> "wpm"]} : commands' = Append(commands, c)
    BY <1>7 DEF AskTuning
  <2>2. c \in Command /\ c.op # "text"
    BY DEF Command, Tuning, Speed
  <2>3. AllWait(commands')
    BY <2>1, <2>2, <1>s, <1>h, WaitsAdded
  <2> QED BY <1>7, <2>3, <1>a, <1>h DEF AskTuning, keying
<1>8. ASSUME RefuseCommand PROVE Goal
  <2>1. AllWait(commands')
    BY <1>8, <1>s, <1>h, WaitsTaken DEF RefuseCommand
  <2>2. \A t \in Texts : answer'[t] = "sent" => answer[t] = "sent"
    BY <1>8, <1>s DEF RefuseCommand, Refused
  <2> QED BY <1>8, <2>1, <2>2, <1>a, <1>h DEF RefuseCommand
<1>12. ASSUME Connected PROVE Goal
  <2>1. task' = Idle /\ inbox' = <<>> /\ UNCHANGED <<commands, keyer, keyed, cut, answer>>
    BY <1>12 DEF Connected
  <2> QED BY <2>1, <1>h, Refreshed, NoneWaits, Nothing DEF Goal
<1>13. ASSUME ReadReport PROVE Goal
  <2>1. AllWait(inbox')
    BY <1>13, <1>g, <1>h DEF ReadReport
  <2> QED BY <1>13, <2>1, <1>a, <1>h DEF ReadReport
<1>14. ASSUME Forward PROVE Goal
  <2>1. Head(commands) \in KeyingCommand /\ AllWait(Tail(commands))
        /\ (Head(commands).op = "text" => Head(commands).wait)
    BY <1>14, <1>s, <1>h, Behead, WaitsTaken, TextOrNot DEF Forward
  <2>2. AllWait(Append(inbox, Head(commands)))
    BY <2>1, <1>s, <1>h, WaitsAdded
  <2> QED BY <1>14, <2>1, <2>2, <1>a, <1>h DEF Forward
<1>15. ASSUME Apply PROVE Goal
  <2>1. AllWait(inbox')
    BY <1>15, <1>g, <1>h DEF Apply
  <2>2. AllWait(Tail(commands))
    BY <1>15, <1>s, <1>h, WaitsTaken DEF Apply
  <2> QED BY <1>15, <2>1, <2>2, <1>a, <1>h DEF Apply
<1>u. ASSUME NEW q PROVE \A t \in Texts : Unanswered(q)[t] = "sent" => answer[t] = "sent"
  BY <1>0, Unanswering
<1>16. ASSUME Dropped PROVE Goal
  <2>1. AllWait(commands')
    BY <1>16, <1>h, NoneWaits DEF Dropped
  <2>2. \A t \in Texts : answer'[t] = "sent" => answer[t] = "sent"
    BY <1>16, <1>u DEF Dropped
  <2> QED BY <1>16, <2>1, <2>2, <1>a, <1>h DEF Dropped
<1>18. ASSUME Quit PROVE Goal
  <2>1. AllWait(commands') /\ AllWait(inbox')
    BY <1>18, <1>g, <1>h, NoneWaits DEF Quit
  <2>2. \A t \in Texts : answer'[t] = "sent" => answer[t] = "sent"
    BY <1>18, <1>u DEF Quit
  <2> QED BY <1>18, <2>1, <2>2, <1>a DEF Quit
<1>19. ASSUME TakePending PROVE Goal
  <2> DEFINE c == Head(task.pending)
             p == task.pending
  <2>1. p \in Seq(TextCommand) /\ p # <<>>
    BY <1>19, <1>s DEF TakePending, Task
  <2>2. /\ c \in TextCommand /\ c = p[1] /\ Len(p) \in Nat /\ Len(p) >= 1 /\ DOMAIN p = 1..Len(p)
        /\ DOMAIN Tail(p) = 1..(Len(p) - 1)
        /\ \A i \in 1..(Len(p) - 1) : Tail(p)[i] = p[i + 1]
        /\ Tail(p) \in Seq(TextCommand)
    BY <2>1, Behead
  <2>3. Began(c) \in Task /\ Began(c).pc = "begin" /\ Began(c).wait = c.wait /\ Began(c).pending = p
    BY <2>2, <1>0, Beginning
  <2>4. task'.pending = Tail(p) /\ task'.pc = "begin" /\ task'.wait = c.wait
    BY <1>19, <2>3 DEF TakePending, Task
  <2>5. \A i \in DOMAIN p : p[i].wait
    BY <1>h
  <2>6. (\A i \in DOMAIN Tail(p) : Tail(p)[i].wait) /\ c.wait
    BY <2>2, <2>5
  <2>7. UNCHANGED <<inbox, commands, keyer, keyed, cut, answer>>
    BY <1>19 DEF TakePending
  <2> HIDE DEF c, p
  <2> QED BY <2>4, <2>6, <2>7, <1>h DEF Goal
<1>20. ASSUME TakeCommand PROVE Goal
  <2> DEFINE c == Head(inbox)
  <2>1. c \in KeyingCommand /\ AllWait(Tail(inbox)) /\ (c.op = "text" => c.wait)
    BY <1>20, <1>s, <1>h, Behead, WaitsTaken DEF TakeCommand
  <2>2. UNCHANGED <<commands, keyed, cut>> /\ task.pending = <<>> /\ task.pc = "idle"
    BY <1>20 DEF TakeCommand
  <2>3. AllWait(inbox')
    BY <1>20, <2>1, NoneWaits DEF TakeCommand
  <2>4. \A t \in Texts : answer'[t] = "sent" => answer[t] = "sent"
    BY <1>20, <1>u DEF TakeCommand
  <2>5. /\ task'.pending = <<>>
        /\ task'.pc = "begin" => task'.wait
        /\ task'.pc \in {"idle", "dead", "begin"}
    <3>1. CASE c.op = "text"
      <4>1. c \in TextCommand
        BY <2>1, <3>1, TextOrNot
      <4>2. task' = Began(c)
        BY <1>20, <3>1 DEF TakeCommand
      <4> QED BY <2>1, <2>2, <3>1, <4>1, <4>2, <1>0, Beginning
    <3>2. CASE c.op = "shutdown"
      BY <1>20, <3>2, Refreshed DEF TakeCommand
    <3>3. CASE c.op \notin {"text", "shutdown"}
      BY <1>20, <2>2, <3>3 DEF TakeCommand
    <3> QED BY <3>1, <3>2, <3>3
  <2> QED BY <2>2, <2>3, <2>4, <2>5, <1>h, Nothing DEF Goal
<1>x. ASSUME NEW result \in {"sent", "failed"}, Ends(result), task.text \in Texts
      PROVE  /\ task'.pending = task.pending /\ task'.pc = "idle"
             /\ \A t \in Texts : answer'[t] = IF t = task.text THEN result ELSE answer[t]
  BY <1>x, <1>0, Ended
<1>21. ASSUME BeginVoice PROVE Goal
  <2>1. UNCHANGED <<commands, inbox, keyed, cut>> /\ task.text \in Texts
    BY <1>21, <1>0 DEF BeginVoice, KeyingTypes
  <2>2. CASE Ends("failed")
    <3>1. \A t \in Texts : answer'[t] = "sent" => answer[t] = "sent"
      BY <2>1, <2>2, <1>x
    <3> QED BY <2>1, <2>2, <3>1, <1>x, <1>b
  <2>3. CASE task' = [task EXCEPT !.pc = "voice"] /\ UNCHANGED answer
    <3>1. task'.pending = task.pending /\ task'.pc = "voice"
      BY <2>3, <1>s DEF Task
    <3> QED BY <2>1, <2>3, <3>1, <1>b
  <2> QED BY <1>21, <2>2, <2>3 DEF BeginVoice
<1>22. ASSUME BeginKeying PROVE Goal
  <2>1. task.text \in Texts /\ task.wait /\ task.pc = "begin"
    BY <1>22, <1>h, <1>0 DEF BeginKeying, KeyingTypes
  <2>2. UNCHANGED <<commands, inbox, cut>>
    BY <1>22 DEF BeginKeying
  <2>3. CASE Ends("failed") /\ UNCHANGED <<keyer, news, keyed>>
    <3>1. \A t \in Texts : answer'[t] = "sent" => answer[t] = "sent"
      BY <2>1, <2>3, <1>x
    <3> QED BY <2>1, <2>2, <2>3, <3>1, <1>x, <1>b, <1>h
  <2>4. CASE env.keyer # "none" /\ SendByDevice /\ task' = [task EXCEPT !.pc = WaitFor(env.keyer)]
             /\ UNCHANGED answer
    <3>1. WaitFor(env.keyer) \in {"busyWait", "idleWait"}
      BY <2>4, <1>w, <1>s DEF WaitFor, Waited, Bounds
    <3>2. task'.pending = task.pending /\ task'.text = task.text /\ task'.pc \in {"busyWait", "idleWait"}
      BY <2>4, <3>1, <1>s DEF Task
    <3>3. keyer' = Append(keyer, task.text) /\ keyed' = keyed
      BY <2>4 DEF SendByDevice
    <3>4. DOMAIN keyer' = 1..(Len(keyer) + 1) /\ keyer'[Len(keyer) + 1] = task.text /\ Len(keyer) \in Nat
      BY <2>1, <3>3, <1>s, Appended
    <3>5. Len(keyer) + 1 \in DOMAIN keyer'
      BY <3>4
    <3>6. KeyedOrWith(keyer)'
      BY <3>2, <3>4, <3>5 DEF KeyedOrWith
    <3> QED BY <2>2, <2>4, <3>2, <3>3, <3>6, <1>h DEF Goal
  <2>5. env.keyer # "cat"
    BY <1>w DEF Waited
  <2> QED BY <1>22, <2>1, <2>3, <2>4, <2>5 DEF BeginKeying
<1>23. ASSUME BusyWait PROVE Goal
  <2>1. task.text \in Texts /\ UNCHANGED <<commands, inbox, keyer, keyed, cut>> /\ task.pc = "busyWait"
    BY <1>23, <1>0 DEF BusyWait, KeyingTypes
  <2>2. CASE Ends("failed")
    <3>1. \A t \in Texts : answer'[t] = "sent" => answer[t] = "sent"
      BY <2>1, <2>2, <1>x
    <3> QED BY <2>1, <2>2, <3>1, <1>x, <1>b
  <2>3. CASE task' = [task EXCEPT !.pc = "idleWait"] /\ UNCHANGED answer
    <3>1. task'.pending = task.pending /\ task'.text = task.text /\ task'.pc = "idleWait"
      BY <2>3, <1>s DEF Task
    <3>2. KeyedOrWith(keyer)'
      BY <2>1, <3>1, <1>h DEF KeyedOrWith
    <3> QED BY <2>1, <2>3, <3>1, <3>2, <1>h DEF Goal
  <2> QED BY <1>23, <2>2, <2>3 DEF BusyWait
<1>24. ASSUME IdleWait PROVE Goal
  <2>1. task.text \in Texts /\ UNCHANGED <<commands, inbox, keyer, keyed, cut>> /\ task.pc = "idleWait"
    BY <1>24, <1>0 DEF IdleWait, KeyingTypes
  <2>2. CASE Ends("failed")
    <3>1. \A t \in Texts : answer'[t] = "sent" => answer[t] = "sent"
      BY <2>1, <2>2, <1>x
    <3> QED BY <2>1, <2>2, <3>1, <1>x, <1>b
  <2>3. CASE keyer = <<>> /\ Ends("sent")
    <3>1. task.text \in keyed
      BY <2>1, <2>3, <1>h, Nothing DEF KeyedOrWith
    <3>2. \A t \in Texts : answer'[t] = "sent" => answer[t] = "sent" \/ t \in keyed'
      BY <2>1, <2>3, <3>1, <1>x
    <3> QED BY <2>1, <2>3, <3>2, <1>x, <1>b
  <2> QED BY <1>24, <2>2, <2>3 DEF IdleWait, KeyerBusy
<1>25. ASSUME CatWait PROVE Goal
  BY <1>25, <1>h DEF CatWait
<1>26. ASSUME VoiceEnds PROVE Goal
  <2>1. UNCHANGED <<commands, inbox, answer>> /\ keyed \subseteq keyed' /\ cut \subseteq cut'
    BY <1>26 DEF VoiceEnds
  <2>2. CASE task' = [task EXCEPT !.pc = "played"] /\ task.text \in keyed' \cup cut'
    <3>1. task'.pending = task.pending /\ task'.pc = "played" /\ task'.text = task.text
      BY <2>2, <1>s DEF Task
    <3> QED BY <2>1, <2>2, <3>1, <1>b
  <2>3. CASE task' = [task EXCEPT !.pc = "unplayed"]
    <3>1. task'.pending = task.pending /\ task'.pc = "unplayed"
      BY <2>3, <1>s DEF Task
    <3> QED BY <2>1, <3>1, <1>b
  <2> QED BY <1>26, <2>2, <2>3 DEF VoiceEnds
<1>v. ASSUME VoiceReleased PROVE Goal
  <2>1. UNCHANGED <<commands, inbox, keyed, cut>>
    BY <1>v DEF VoiceReleased
  <2>2. task'.pc \in {"idle", "dead"} /\ (task'.pending = task.pending \/ task'.pending = <<>>)
    BY <1>v, <1>s, Refreshed DEF VoiceReleased, Task
  <2>3. \A t \in Texts : answer'[t] = "sent" => answer[t] = "sent" \/ t \in keyed' \cup cut'
    BY <1>v, <2>1, <1>h, <1>s DEF VoiceReleased, Answered
  <2> QED BY <2>1, <2>2, <2>3, <1>b
<1>27. ASSUME WaitQueues PROVE Goal
  <2> DEFINE c == Head(inbox)
             p == task.pending
  <2>1. c \in KeyingCommand /\ AllWait(Tail(inbox)) /\ (c.op = "text" => c.wait)
    BY <1>27, <1>s, <1>h, Behead, WaitsTaken DEF WaitQueues
  <2>2. inbox' = Tail(inbox) /\ UNCHANGED <<commands, keyer, keyed, cut, answer>>
    BY <1>27 DEF WaitQueues
  <2>3. CASE c.op = "text"
    <3>1. c \in TextCommand
      BY <2>1, <2>3, TextOrNot
    <3>2. task'.text = task.text /\ task'.pc = task.pc /\ task'.wait = task.wait
          /\ task'.pending = Append(p, c)
      BY <1>27, <2>3, <1>s DEF WaitQueues, Task
    <3>3. p \in Seq(TextCommand)
      BY <1>s DEF Task
    <3>4. \A i \in DOMAIN Append(p, c) : Append(p, c)[i].wait
      BY <2>1, <2>3, <3>1, <3>3, <1>h, Appended
    <3>5. KeyedOrWith(keyer) => KeyedOrWith(keyer)'
      BY <2>2, <3>2 DEF KeyedOrWith
    <3> HIDE DEF c, p
    <3> QED BY <2>1, <2>2, <3>2, <3>4, <3>5, <1>h DEF Goal
  <2>4. CASE c.op # "text"
    <3>1. task' = task
      BY <1>27, <2>4 DEF WaitQueues
    <3> QED BY <2>1, <2>2, <3>1, <1>a, <1>h
  <2> QED BY <2>3, <2>4
<1>28. ASSUME Interrupt PROVE Goal
  <2>1. task' = Stopped(Head(inbox).op) /\ Waits /\ UNCHANGED <<commands, keyed, cut>>
    BY <1>28 DEF Interrupt
  <2>2. task'.pending = <<>> /\ task'.pc \in {"idle", "dead", "unplayed", "last"}
    BY <2>1, <1>0, Stopping
  <2>3. AllWait(inbox')
    BY <1>28, <1>s, <1>h, NoneWaits, WaitsTaken DEF Interrupt
  <2>4. \A t \in Texts : answer'[t] = "sent" => answer[t] = "sent"
    BY <1>28, <1>u DEF Interrupt
  <2> QED BY <2>1, <2>2, <2>3, <2>4, <1>h, Nothing DEF Goal
<1>q. Goal
  BY <1>1, <1>4, <1>5, <1>6, <1>7, <1>8, <1>12, <1>13, <1>14, <1>15, <1>16, <1>18, <1>19, <1>20,
     <1>21, <1>22, <1>23, <1>24, <1>25, <1>26, <1>v, <1>27, <1>28
     DEF Next, Runtime, Keying
<1> QED BY <1>q DEF Goal

-----------------------------------------------------------------------------
(* The transmitter, and the life of the keying task.                        *)

LEMMA InitInv == Init => Inv
<1> SUFFICES ASSUME Init PROVE Inv
  OBVIOUS
<1>1. TaskOK /\ PttFollowsVoice
  BY Refreshed DEF Init, TaskOK, PttFollowsVoice
<1> QED BY <1>1, InitTypes, InitCat, InitStop, InitSent DEF Inv

LEMMA VoiceStep == Inv /\ [Next]_vars => TaskOK' /\ PttFollowsVoice'
<1> SUFFICES ASSUME Inv, [Next]_vars PROVE TaskOK' /\ PttFollowsVoice'
  OBVIOUS
<1>0. CatTypes /\ KeyingTypes /\ TaskOK /\ PttFollowsVoice
  BY DEF Inv, TypeOK
<1>s. rig \in RigStatus /\ task \in Task /\ guard \in GuardStatus /\ env \in Bounds
  BY <1>0 DEF CatTypes, KeyingTypes
<1> DEFINE Goal == TaskOK' /\ PttFollowsVoice'
<1>b. ASSUME UNCHANGED <<guard, phase, rig>>, task.pc # "dead", task.pc \notin {"voice"} \cup Releasing
      PROVE Goal
  BY <1>b, <1>0 DEF TaskOK, PttFollowsVoice
<1>1. ASSUME \/ KeyerSends \/ (\E t \in Texts : AskText(t)) \/ AskStop \/ AskTuning
             \/ RefuseCommand \/ BackoffEnds \/ BeginConnect \/ ConnectFails \/ Forward
             \/ Lagged \/ Turn \/ Break \/ Mend \/ ReadReport \/ Apply \/ UNCHANGED vars
      PROVE  Goal
  <2>1. UNCHANGED <<guard, task>>
    BY <1>1 DEF KeyerSends, AskText, AskStop, AskTuning, RefuseCommand, BackoffEnds, BeginConnect,
         ConnectFails, Forward, Lagged, Turn, Break, Mend, ReadReport, Apply, vars, keying
  <2>2. rig'.ptt => rig.ptt
    <3>1. CASE rig' = rig
      BY <3>1
    <3>2. CASE Turn \/ Break \/ Mend
      BY <3>2, <1>s DEF Turn, Break, Mend, RigStatus
    <3>3. CASE Apply
      <4>1. Head(commands) \in Command /\ Head(commands).op \in {"mode", "rit"}
        BY <3>3, <1>0, Behead DEF Apply, CatTypes
      <4>2. Wanted(Head(commands)).ptt = rig.ptt
        BY <4>1, <1>0, WantedRig
      <4>3. ASSUME ApplyFails(Head(commands)) PROVE rig'.ptt = rig.ptt
        BY <4>2, <4>3 DEF ApplyFails
      <4> QED BY <3>3, <4>1, <4>3, <1>s DEF Apply, ApplyRit, ApplyMode, RigStatus
    <3> QED BY <1>1, <3>1, <3>2, <3>3 DEF KeyerSends, AskText, AskStop, AskTuning, RefuseCommand,
         BackoffEnds, BeginConnect, ConnectFails, Forward, Lagged, ReadReport, vars, cat
  <2>3. phase' \in {"waiting", "connecting", "gone"} => phase \in {"waiting", "connecting", "gone"}
    BY <1>1 DEF KeyerSends, AskText, AskStop, AskTuning, RefuseCommand, BackoffEnds, BeginConnect,
         ConnectFails, Forward, Lagged, Turn, Break, Mend, ReadReport, Apply, GiveUp, vars, cat
  <2> QED BY <2>1, <2>2, <2>3, <1>0 DEF TaskOK, PttFollowsVoice
<1>16. ASSUME Dropped PROVE Goal
  <2>1. UNCHANGED <<rig, task>> /\ task.pc = "dead"
        /\ guard' = [guard EXCEPT !.late = 0, !.lapsed = @ \/ guard.late > 0]
    BY <1>16 DEF Dropped
  <2>2. rig.ptt => guard.late > 0 \/ guard.lapsed
    BY <2>1, <1>0 DEF PttFollowsVoice, Releasing
  <2>3. rig'.ptt => guard'.lapsed
    BY <2>1, <2>2, <1>s DEF GuardStatus
  <2> QED BY <2>1, <2>3 DEF TaskOK, PttFollowsVoice
<1>18. ASSUME Quit PROVE Goal
  <2>1. UNCHANGED <<rig, guard, task>>
    BY <1>18 DEF Quit
  <2>2. phase' \in {"waiting", "connecting", "gone"} => phase \in {"waiting", "connecting"}
    BY <1>18 DEF Quit, GiveUp
  <2> QED BY <2>1, <2>2, <1>0 DEF TaskOK, PttFollowsVoice
<1>12. ASSUME Connected PROVE Goal
  <2>1. phase' = "connected" /\ UNCHANGED <<rig, guard>> /\ phase = "connecting"
    BY <1>12 DEF Connected
  <2>2. rig.ptt => guard.late > 0 \/ guard.lapsed
    BY <2>1, <1>0 DEF TaskOK, PttFollowsVoice, Releasing
  <2> QED BY <2>1, <2>2 DEF TaskOK, PttFollowsVoice
<1>20. ASSUME \/ TakePending \/ TakeCommand \/ BeginKeying \/ BusyWait \/ IdleWait \/ CatWait
       PROVE Goal
  <2>1. UNCHANGED <<guard, phase, rig>>
    BY <1>20 DEF TakePending, TakeCommand, BeginKeying, BusyWait, IdleWait, CatWait, cat
  <2>2. task.pc # "dead" /\ task.pc \notin {"voice"} \cup Releasing
    BY <1>20 DEF TakePending, TakeCommand, BeginKeying, BusyWait, IdleWait, CatWait, Releasing
  <2> QED BY <2>1, <2>2, <1>b
<1>21. ASSUME BeginVoice PROVE Goal
  <2>1. UNCHANGED phase /\ task.pc = "begin"
    BY <1>21 DEF BeginVoice
  <2>2. CASE UNCHANGED <<rig, guard>>
    BY <2>1, <2>2, <1>b DEF Releasing
  <2>3. CASE Acquire /\ task' = [task EXCEPT !.pc = "voice"]
    <3>1. task'.pc = "voice"
      BY <2>3, <1>s DEF Task
    <3>2. guard'.active \/ guard'.lapsed \/ UNCHANGED <<rig, guard>>
      BY <2>3, <1>s DEF Acquire, GuardStatus
    <3> QED BY <2>1, <2>2, <3>1, <3>2, <1>0 DEF TaskOK, PttFollowsVoice
  <2> QED BY <1>21, <2>2, <2>3 DEF BeginVoice
<1>26. ASSUME VoiceEnds PROVE Goal
  <2>1. UNCHANGED <<phase, rig, guard>> /\ task.pc # "dead"
    BY <1>26 DEF VoiceEnds, cat
  <2>2. task'.pc \in Releasing
    BY <1>26, <1>s DEF VoiceEnds, Releasing, Task
  <2> QED BY <2>1, <2>2, <1>0 DEF TaskOK, PttFollowsVoice
<1>v. ASSUME VoiceReleased PROVE Goal
  <2>1. UNCHANGED phase /\ task.pc # "dead" /\ Release
    BY <1>v DEF VoiceReleased, Releasing
  <2>2. \/ rig'.ptt = FALSE
        \/ guard'.late > 0
        \/ ~guard.active /\ rig' = rig /\ guard' = guard
    BY <2>1, <1>0, Released
  <2> QED BY <2>1, <2>2, <1>0 DEF TaskOK, PttFollowsVoice
<1>27. ASSUME WaitQueues PROVE Goal
  <2>1. task'.pc = task.pc
    BY <1>27, <1>s DEF WaitQueues, Task
  <2> QED BY <1>27, <2>1, <1>0 DEF WaitQueues, TaskOK, PttFollowsVoice, cat
<1>28. ASSUME Interrupt PROVE Goal
  <2>1. UNCHANGED <<guard, phase, rig>> /\ task.pc # "dead" /\ task.pc \notin Releasing /\ Waits
        /\ task' = Stopped(Head(inbox).op)
    BY <1>28 DEF Interrupt, Waits, Releasing, cat
  <2>2. CASE task.pc = "voice"
    <3>1. task'.pc \in Releasing
      BY <2>1, <2>2, <1>0, Stopping DEF Releasing
    <3> QED BY <2>1, <2>2, <3>1, <1>0 DEF TaskOK, PttFollowsVoice
  <2>3. CASE task.pc # "voice"
    BY <2>1, <2>3, <1>b
  <2> QED BY <2>2, <2>3
<1>29. ASSUME LateRelease PROVE Goal
  <2>1. rig'.ptt = FALSE \/ guard'.lapsed
    BY <1>29, <1>s DEF LateRelease, RigStatus, GuardStatus
  <2> QED BY <1>29, <2>1, <1>0 DEF LateRelease, TaskOK, PttFollowsVoice
<1> QED
  BY <1>1, <1>12, <1>16, <1>18, <1>20, <1>21, <1>26, <1>v, <1>27, <1>28, <1>29
     DEF Next, Runtime, Keying

LEMMA InvStep == Inv /\ [Next]_vars => Inv'
<1> SUFFICES ASSUME Inv, [Next]_vars PROVE Inv'
  OBVIOUS
<1>1. TypeOK'
  BY CatTypesStep, KeyingTypesStep DEF Inv, TypeOK
<1> QED BY <1>1, VoiceStep, CatInvStep, StopInvStep, SentInvStep DEF Inv

LEMMA InvHolds == Spec => []Inv
BY InitInv, InvStep, PTL DEF Spec

-----------------------------------------------------------------------------
(* The properties.                                                          *)

(* Whatever fails and whoever connects, the radio transmits only for a      *)
(* voice file that is played or being released, or until the second attempt *)
(* to release it has been made; when that attempt failed as well, or was    *)
(* overtaken by the end of the connection, or the radio took a request      *)
(* whose answer was lost, nothing promises that it stops                    *)
(* (radio-io/src/radio_manager/voice.rs, VoiceDataPttGuard).                *)
THEOREM PttIsReleased == Spec => []PttFollowsVoice
<1>1. Inv => PttFollowsVoice
  BY DEF Inv
<1> QED BY <1>1, InvHolds, PTL

(* However often the radio is tuned from its front and from the windows,    *)
(* lost, reconnected or read with reports missing, once its reports are     *)
(* read the windows are shown its RIT and a mode that stands for its own,   *)
(* and the next step of the RIT starts there; without a connection they are *)
(* shown a radio that is offline (radio-io/src/radio_manager/cat_runtime.rs,*)
(* publish_cat_snapshot and apply_command).                                 *)
THEOREM WindowsSeeTheRadio == Spec => []ShowsTheRadio
<1>1. Inv => ShowsTheRadio
  BY DEF Inv, CatInv, AllReadIsShown, OfflineWithout, ShowsTheRadio
<1> QED BY <1>1, InvHolds, PTL

(* However many texts, stops, failures and lost connections there are, no   *)
(* text that was asked for before a stop the keying task has seen is        *)
(* pending, begun or waited for, but for a file whose push-to-talk is being *)
(* released, nor with the keyer unless it was there already and could not   *)
(* be cleared; and where the windows ask for the end of a text and its      *)
(* keyer tells it, only a text that was sent, or a file of unknown length,  *)
(* is said to be sent (radio-io/src/radio_manager/cw_task.rs,               *)
(* handle_wait_command, stop and CwSendCompletion; voice_keyer.rs).         *)
THEOREM StopsAreFinal == Spec => []TextsEndAsTold
<1>1. Inv => TextsEndAsTold
  <2> SUFFICES ASSUME Inv PROVE TextsEndAsTold
    OBVIOUS
  <2>1. task.pending \in Seq(TextCommand) /\ keyer \in Seq(Texts)
    BY DEF Inv, TypeOK, KeyingTypes, Task
  <2>2. \A t \in ToSet(keyer) : t \in silenced => t \in uncleared
    BY DEF Inv, StopInv, ToSet
  <2>3. \A t \in PendingTexts : t \notin silenced
    BY DEF Inv, StopInv, PendingTexts
  <2>4. task.pc \notin Releasing => task.text \notin silenced
    BY DEF Inv, StopInv
  <2>5. SilencedStaysSilent
    BY <2>2, <2>3, <2>4 DEF SilencedStaysSilent
  <2>6. SentMeansKeyed
    BY DEF Inv, SentInv, Waited, SentMeansKeyed
  <2> QED BY <2>5, <2>6 DEF TextsEndAsTold
<1> QED BY <1>1, InvHolds, PTL
=============================================================================
