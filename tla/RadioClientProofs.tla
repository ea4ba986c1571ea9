-------------------------- MODULE RadioClientProofs --------------------------
(***************************************************************************)
(* Theorems about the sessions of a radio and what they share of it: for   *)
(* any number of sessions, windows, requests, permits, contacts, texts and *)
(* faults.  RadioSessions: the registry of the radios and their lifecycle. *)
(* WsjtXTargets: the window that gets the contacts of WSJT-X.  DigitalIo:  *)
(* the window whose texts FLDigi sends.                                    *)
(***************************************************************************)
EXTENDS RadioSessions, WsjtXTargets, DigitalIo, FiniteSetTheorems, SequenceTheorems, TLAPS

-----------------------------------------------------------------------------
(* The sessions of a radio.                                                 *)
Closing == {"awaitTask", "remove"}
OfHost == {"up", "listing", "stopping", "down"}

(* Who is where: the host alone shuts down, and only sessions acquire.      *)
PlacesOK ==
  /\ pc[Host] \in OfHost \cup Closing \cup {"release"}
  /\ \A s \in Sessions : pc[s] \notin OfHost

(* The task runs while the slot is active and until who closes it has seen  *)
(* it return; one session or the host closes it.                            *)
SlotOK ==
  /\ slot.state # "closing" => /\ \A p \in Procs : pc[p] \notin Closing
                               /\ running = IF slot.state = "active" THEN 1 ELSE 0
  /\ slot.state = "closing" =>
       \E p \in Procs : /\ pc[p] \in Closing
                        /\ \A q \in Procs \ {p} : pc[q] \notin Closing
                        /\ running = IF pc[p] = "awaitTask" THEN 1 ELSE 0

Holders == {s \in Sessions : Holds(s)}

(* The references of the slot are its holders'.                             *)
HoldersOK ==
  pc[Host] = "up" => /\ (slot.state = "active") <=> (Holders # {})
                     /\ slot.refs = Cardinality(Holders)

(* Users have the configuration of the registry, the radio that of its      *)
(* users.                                                                   *)
ConfigOK ==
  /\ \A s \in Users : config[s] = reg.config
  /\ slot.state # "absent" /\ pc[Host] = "up" => slot.config = reg.config

UsersOK ==
  /\ reg.users = Cardinality(Users)
  /\ reg.reserved => reg.users = 0

(* One request at a time has the radio reserved, and has stored its version *)
(* once the registry is behind the table.                                   *)
EditsOK ==
  /\ \A e \in Editors : edit[e].pc # "none" => reg.reserved
  /\ \A e, f \in Editors : edit[e].pc # "none" /\ edit[f].pc # "none" => e = f
  /\ \A e \in Editors : edit[e].pc = "stored" => stored = edit[e].to
  /\ ~torn /\ (\A e \in Editors : edit[e].pc # "stored") => reg.config = stored

Inv == TypeOK /\ PlacesOK /\ SlotOK /\ HoldersOK /\ ConfigOK /\ UsersOK /\ EditsOK

-----------------------------------------------------------------------------
LEMMA HostApart == Host \in Procs /\ Host \notin Sessions /\ Sessions \subseteq Procs
  BY SessionsAssumption DEF Procs

LEMMA FiniteSessions ==
  ASSUME NEW S, S \subseteq Sessions
  PROVE  IsFiniteSet(S) /\ Cardinality(S) \in Nat /\ (Cardinality(S) = 0 <=> S = {})
<1>1. IsFiniteSet(S)
  BY SessionsAssumption, FS_Subset
<1> QED BY <1>1, FS_CardinalityType, FS_EmptySet

(* One more or one fewer, as reg.users and slot.refs count.                 *)
LEMMA OneMore ==
  ASSUME NEW S, S \subseteq Sessions, NEW s \in Sessions \ S
  PROVE  Cardinality(S \cup {s}) = Cardinality(S) + 1
BY FiniteSessions, FS_AddElement

LEMMA OneFewer ==
  ASSUME NEW S, S \subseteq Sessions, NEW s \in S
  PROVE  /\ Cardinality(S \ {s}) = Cardinality(S) - 1
         /\ Cardinality(S) # 0
<1>1. Cardinality(S \ {s}) = Cardinality(S) - 1
  BY FiniteSessions, FS_RemoveElement
<1>2. S # {}
  OBVIOUS
<1> QED BY <1>1, <1>2, FiniteSessions

-----------------------------------------------------------------------------
LEMMA InitInv == Init => Inv
<1> SUFFICES ASSUME Init PROVE Inv
  OBVIOUS
<1>1. TypeOK
  BY DEF Init, TypeOK, Absent, NoEdit, Deleted, Versions
<1>2. PlacesOK /\ SlotOK
  BY HostApart DEF Init, PlacesOK, SlotOK, OfHost, Closing, Absent, Procs
<1>3. Users = {} /\ Holders = {}
  BY HostApart DEF Init, Users, Holders, Holds, Procs
<1>4. HoldersOK /\ UsersOK
  BY <1>3, FS_EmptySet DEF Init, HoldersOK, UsersOK, Absent
<1>5. ConfigOK
  BY <1>3 DEF Init, ConfigOK, Absent
<1>6. EditsOK
  BY DEF Init, EditsOK, NoEdit
<1> QED BY <1>1, <1>2, <1>4, <1>5, <1>6 DEF Inv

-----------------------------------------------------------------------------
(* Every step keeps each part of the invariant.                             *)
LEMMA TypeStep == TypeOK /\ SlotOK /\ [Next]_vars => TypeOK'
<1> SUFFICES ASSUME TypeOK, SlotOK, [Next]_vars PROVE TypeOK'
  OBVIOUS
<1> USE HostApart
<1>1. ASSUME NEW s \in Sessions, Connect(s) PROVE TypeOK'
  BY <1>1 DEF TypeOK, Versions, Deleted, manager, Connect
<1>2. ASSUME NEW s \in Sessions, Look(s) PROVE TypeOK'
  BY <1>2 DEF TypeOK, Versions, Deleted, manager, Look, Shares, FoundClosing
<1>3. ASSUME NEW s \in Sessions, BeginWait(s) PROVE TypeOK'
  BY <1>3 DEF TypeOK, Versions, Deleted, manager, BeginWait
<1>4. ASSUME NEW s \in Sessions, BeginCheck(s) PROVE TypeOK'
  BY <1>4 DEF TypeOK, Versions, Deleted, manager, BeginCheck
<1>5. ASSUME NEW s \in Sessions, Checked(s) PROVE TypeOK'
  BY <1>5 DEF TypeOK, Versions, Deleted, manager, Checked, Shares, Starts, FoundClosing
<1>6. ASSUME NEW s \in Sessions, CheckFails(s) PROVE TypeOK'
  BY <1>6 DEF TypeOK, Versions, Deleted, manager, CheckFails, FinishUse
<1>7. ASSUME NEW s \in Sessions, Open(s) PROVE TypeOK'
  BY <1>7 DEF TypeOK, Versions, Deleted, manager, Open
<1>8. ASSUME NEW s \in Sessions, Leave(s) PROVE TypeOK'
  BY <1>8 DEF TypeOK, Versions, Deleted, manager, Leave
<1>9. ASSUME NEW s \in Sessions, HearShutdown(s) PROVE TypeOK'
  BY <1>9 DEF TypeOK, Versions, Deleted, manager, HearShutdown
<1>10. ASSUME NEW s \in Sessions, Finish(s) PROVE TypeOK'
  BY <1>10 DEF TypeOK, Versions, Deleted, manager, Finish, FinishUse
<1>11. ASSUME NEW p \in Procs, Release(p) PROVE TypeOK'
  <2>1. CASE slot.state = "active"
    <3> DEFINE left == IF slot.refs = 0 THEN 0 ELSE slot.refs - 1
    <3>1. left \in Nat
      BY DEF TypeOK
    <3>2. slot' = [slot EXCEPT !.refs = left, !.state = IF left = 0 THEN "closing" ELSE "active"]
      BY <1>11, <2>1 DEF Release
    <3>3. pc' = [pc EXCEPT ![p] = IF left = 0 THEN "awaitTask" ELSE After(p)]
      BY <1>11, <2>1 DEF Release
    <3> HIDE DEF left
    <3> QED BY <1>11, <3>1, <3>2, <3>3 DEF TypeOK, Versions, Deleted, manager, Release, After
  <2>2. CASE slot.state # "active"
    BY <1>11, <2>2 DEF TypeOK, Versions, Deleted, manager, Release, After
  <2> QED BY <2>1, <2>2
<1>12. ASSUME NEW p \in Procs, TaskReturns(p) PROVE TypeOK'
  <2>1. running' \in Nat
    BY <1>12 DEF TaskReturns, TypeOK, SlotOK, Closing
  <2> QED BY <1>12, <2>1 DEF TypeOK, Versions, Deleted, manager, TaskReturns, Notified
<1>13. ASSUME NEW p \in Procs, Remove(p) PROVE TypeOK'
  BY <1>13 DEF TypeOK, Versions, Deleted, manager, Remove, After, Absent
<1>14. ASSUME CloseSessions PROVE TypeOK'
  BY <1>14 DEF TypeOK, Versions, Deleted, manager, CloseSessions
<1>15. ASSUME ListRadios PROVE TypeOK'
  BY <1>15 DEF TypeOK, Versions, Deleted, manager, ListRadios
<1>16. ASSUME StopRadio PROVE TypeOK'
  BY <1>16 DEF TypeOK, Versions, Deleted, manager, StopRadio
<1>17. ASSUME NEW e \in Editors, BeginMutation(e) PROVE TypeOK'
  <2>1. CASE reg.config = Deleted \/ reg.users > 0 \/ reg.reserved
    BY <1>17, <2>1 DEF TypeOK, Versions, Deleted, manager, BeginMutation
  <2>2. CASE ~(reg.config = Deleted \/ reg.users > 0 \/ reg.reserved)
    <3>1. reg' = [reg EXCEPT !.reserved = TRUE]
      BY <1>17, <2>2 DEF BeginMutation
    <3>2. PICK to \in {Deleted, stored + 1} : edit' = [edit EXCEPT ![e] = [pc |-> "reserved", to |-> to]]
      BY <1>17, <2>2 DEF BeginMutation
    <3>3. to \in Nat
      BY <3>2 DEF TypeOK, Versions, Deleted
    <3>4. edit' \in [Editors -> [pc : {"none", "reserved", "stored"}, to : Nat]]
      BY <3>2, <3>3 DEF TypeOK, Versions
    <3> QED BY <1>17, <3>1, <3>4 DEF TypeOK, Versions, Deleted, manager, BeginMutation
  <2> QED BY <2>1, <2>2
<1>18. ASSUME NEW e \in Editors, StoreEdit(e) PROVE TypeOK'
  BY <1>18 DEF TypeOK, Versions, Deleted, manager, StoreEdit
<1>19. ASSUME NEW e \in Editors, CommitEdit(e) PROVE TypeOK'
  BY <1>19 DEF TypeOK, Versions, Deleted, manager, CommitEdit, NoEdit
<1>20. ASSUME NEW e \in Editors, StoreFails(e) PROVE TypeOK'
  BY <1>20 DEF TypeOK, Versions, Deleted, manager, StoreFails, NoEdit
<1>21. ASSUME NEW e \in Editors, DropEdit(e) PROVE TypeOK'
  <2>1. stored' \in Nat /\ torn' \in BOOLEAN
    BY <1>21 DEF DropEdit, TypeOK, Versions
  <2>2. edit' \in [Editors -> [pc : {"none", "reserved", "stored"}, to : Nat]]
    BY <1>21 DEF DropEdit, NoEdit, TypeOK, Versions, Deleted
  <2> QED BY <1>21, <2>1, <2>2 DEF TypeOK, Versions, Deleted, manager, DropEdit, NoEdit
<1>22. CASE UNCHANGED vars
  BY <1>22 DEF TypeOK, Versions, Deleted, manager, vars, manager
<1> QED
  BY <1>1, <1>2, <1>3, <1>4, <1>5, <1>6, <1>7, <1>8, <1>9, <1>10, <1>11, <1>12,
     <1>13, <1>14, <1>15, <1>16, <1>17, <1>18, <1>19, <1>20, <1>21, <1>22 DEF
     Next, Session, Releasing, Shutdown, Edit

LEMMA PlacesStep == TypeOK /\ PlacesOK /\ [Next]_vars => PlacesOK'
<1> SUFFICES ASSUME TypeOK, PlacesOK, [Next]_vars PROVE PlacesOK'
  OBVIOUS
<1> USE HostApart
<1>1. ASSUME NEW s \in Sessions, Connect(s) PROVE PlacesOK'
  BY <1>1 DEF TypeOK, PlacesOK, OfHost, Closing, manager, Connect
<1>2. ASSUME NEW s \in Sessions, Look(s) PROVE PlacesOK'
  BY <1>2 DEF TypeOK, PlacesOK, OfHost, Closing, manager, Look, Shares, FoundClosing
<1>3. ASSUME NEW s \in Sessions, BeginWait(s) PROVE PlacesOK'
  BY <1>3 DEF TypeOK, PlacesOK, OfHost, Closing, manager, BeginWait
<1>4. ASSUME NEW s \in Sessions, BeginCheck(s) PROVE PlacesOK'
  BY <1>4 DEF TypeOK, PlacesOK, OfHost, Closing, manager, BeginCheck
<1>5. ASSUME NEW s \in Sessions, Checked(s) PROVE PlacesOK'
  BY <1>5 DEF TypeOK, PlacesOK, OfHost, Closing, manager, Checked, Shares, Starts, FoundClosing
<1>6. ASSUME NEW s \in Sessions, CheckFails(s) PROVE PlacesOK'
  BY <1>6 DEF TypeOK, PlacesOK, OfHost, Closing, manager, CheckFails, FinishUse
<1>7. ASSUME NEW s \in Sessions, Open(s) PROVE PlacesOK'
  BY <1>7 DEF TypeOK, PlacesOK, OfHost, Closing, manager, Open
<1>8. ASSUME NEW s \in Sessions, Leave(s) PROVE PlacesOK'
  BY <1>8 DEF TypeOK, PlacesOK, OfHost, Closing, manager, Leave
<1>9. ASSUME NEW s \in Sessions, HearShutdown(s) PROVE PlacesOK'
  BY <1>9 DEF TypeOK, PlacesOK, OfHost, Closing, manager, HearShutdown
<1>10. ASSUME NEW s \in Sessions, Finish(s) PROVE PlacesOK'
  BY <1>10 DEF TypeOK, PlacesOK, OfHost, Closing, manager, Finish, FinishUse
<1>11. ASSUME NEW p \in Procs, Release(p) PROVE PlacesOK'
  BY <1>11 DEF TypeOK, PlacesOK, OfHost, Closing, manager, Release, After
<1>12. ASSUME NEW p \in Procs, TaskReturns(p) PROVE PlacesOK'
  BY <1>12 DEF TypeOK, PlacesOK, OfHost, Closing, manager, TaskReturns, Notified
<1>13. ASSUME NEW p \in Procs, Remove(p) PROVE PlacesOK'
  BY <1>13 DEF TypeOK, PlacesOK, OfHost, Closing, manager, Remove, After, Absent
<1>14. ASSUME CloseSessions PROVE PlacesOK'
  BY <1>14 DEF TypeOK, PlacesOK, OfHost, Closing, manager, CloseSessions
<1>15. ASSUME ListRadios PROVE PlacesOK'
  BY <1>15 DEF TypeOK, PlacesOK, OfHost, Closing, manager, ListRadios
<1>16. ASSUME StopRadio PROVE PlacesOK'
  BY <1>16 DEF TypeOK, PlacesOK, OfHost, Closing, manager, StopRadio
<1>17. ASSUME NEW e \in Editors, BeginMutation(e) PROVE PlacesOK'
  BY <1>17 DEF TypeOK, PlacesOK, OfHost, Closing, manager, BeginMutation
<1>18. ASSUME NEW e \in Editors, StoreEdit(e) PROVE PlacesOK'
  BY <1>18 DEF TypeOK, PlacesOK, OfHost, Closing, manager, StoreEdit
<1>19. ASSUME NEW e \in Editors, CommitEdit(e) PROVE PlacesOK'
  BY <1>19 DEF TypeOK, PlacesOK, OfHost, Closing, manager, CommitEdit, NoEdit
<1>20. ASSUME NEW e \in Editors, StoreFails(e) PROVE PlacesOK'
  BY <1>20 DEF TypeOK, PlacesOK, OfHost, Closing, manager, StoreFails, NoEdit
<1>21. ASSUME NEW e \in Editors, DropEdit(e) PROVE PlacesOK'
  BY <1>21 DEF TypeOK, PlacesOK, OfHost, Closing, manager, DropEdit, NoEdit
<1>22. CASE UNCHANGED vars
  BY <1>22 DEF TypeOK, PlacesOK, OfHost, Closing, manager, vars, manager
<1> QED
  BY <1>1, <1>2, <1>3, <1>4, <1>5, <1>6, <1>7, <1>8, <1>9, <1>10, <1>11, <1>12,
     <1>13, <1>14, <1>15, <1>16, <1>17, <1>18, <1>19, <1>20, <1>21, <1>22 DEF
     Next, Session, Releasing, Shutdown, Edit

LEMMA SlotStep == TypeOK /\ PlacesOK /\ SlotOK /\ [Next]_vars => SlotOK'
<1> SUFFICES ASSUME TypeOK, PlacesOK, SlotOK, [Next]_vars PROVE SlotOK'
  OBVIOUS
<1> USE HostApart
<1>1. ASSUME NEW s \in Sessions, Connect(s) PROVE SlotOK'
  BY <1>1 DEF TypeOK, PlacesOK, SlotOK, OfHost, Closing, manager, Connect
<1>2. ASSUME NEW s \in Sessions, Look(s) PROVE SlotOK'
  BY <1>2 DEF TypeOK, PlacesOK, SlotOK, OfHost, Closing, manager, Look, Shares, FoundClosing
<1>3. ASSUME NEW s \in Sessions, BeginWait(s) PROVE SlotOK'
  BY <1>3 DEF TypeOK, PlacesOK, SlotOK, OfHost, Closing, manager, BeginWait
<1>4. ASSUME NEW s \in Sessions, BeginCheck(s) PROVE SlotOK'
  BY <1>4 DEF TypeOK, PlacesOK, SlotOK, OfHost, Closing, manager, BeginCheck
<1>5. ASSUME NEW s \in Sessions, Checked(s) PROVE SlotOK'
  BY <1>5 DEF TypeOK, PlacesOK, SlotOK, OfHost, Closing, manager, Checked, Shares, Starts, FoundClosing
<1>6. ASSUME NEW s \in Sessions, CheckFails(s) PROVE SlotOK'
  BY <1>6 DEF TypeOK, PlacesOK, SlotOK, OfHost, Closing, manager, CheckFails, FinishUse
<1>7. ASSUME NEW s \in Sessions, Open(s) PROVE SlotOK'
  BY <1>7 DEF TypeOK, PlacesOK, SlotOK, OfHost, Closing, manager, Open
<1>8. ASSUME NEW s \in Sessions, Leave(s) PROVE SlotOK'
  BY <1>8 DEF TypeOK, PlacesOK, SlotOK, OfHost, Closing, manager, Leave
<1>9. ASSUME NEW s \in Sessions, HearShutdown(s) PROVE SlotOK'
  BY <1>9 DEF TypeOK, PlacesOK, SlotOK, OfHost, Closing, manager, HearShutdown
<1>10. ASSUME NEW s \in Sessions, Finish(s) PROVE SlotOK'
  BY <1>10 DEF TypeOK, PlacesOK, SlotOK, OfHost, Closing, manager, Finish, FinishUse
<1>11. ASSUME NEW p \in Procs, Release(p) PROVE SlotOK'
  <2>1. CASE slot.state = "active"
    <3>1. \A q \in Procs : pc[q] \notin Closing
      BY <2>1 DEF SlotOK
    <3>2. running' = 1
      BY <1>11, <2>1 DEF Release, SlotOK
    <3>3. CASE slot'.state = "closing"
      <4>1. pc' = [pc EXCEPT ![p] = "awaitTask"]
        BY <1>11, <2>1, <3>3 DEF Release, TypeOK
      <4> QED BY <3>1, <3>2, <3>3, <4>1 DEF SlotOK, Closing, TypeOK
    <3>4. CASE slot'.state # "closing"
      <4>1. slot'.state = "active" /\ pc' = [pc EXCEPT ![p] = After(p)]
        BY <1>11, <2>1, <3>4 DEF Release, TypeOK
      <4> QED BY <3>1, <3>2, <4>1 DEF SlotOK, Closing, TypeOK, After
    <3> QED BY <3>3, <3>4
  <2>2. CASE slot.state # "active"
    BY <1>11, <2>2 DEF TypeOK, PlacesOK, SlotOK, OfHost, Closing, manager, Release, After
  <2> QED BY <2>1, <2>2
<1>12. ASSUME NEW p \in Procs, TaskReturns(p) PROVE SlotOK'
  BY <1>12 DEF TypeOK, PlacesOK, SlotOK, OfHost, Closing, manager, TaskReturns, Notified
<1>13. ASSUME NEW p \in Procs, Remove(p) PROVE SlotOK'
  BY <1>13 DEF TypeOK, PlacesOK, SlotOK, OfHost, Closing, manager, Remove, After, Absent
<1>14. ASSUME CloseSessions PROVE SlotOK'
  BY <1>14 DEF TypeOK, PlacesOK, SlotOK, OfHost, Closing, manager, CloseSessions
<1>15. ASSUME ListRadios PROVE SlotOK'
  BY <1>15 DEF TypeOK, PlacesOK, SlotOK, OfHost, Closing, manager, ListRadios
<1>16. ASSUME StopRadio PROVE SlotOK'
  BY <1>16 DEF TypeOK, PlacesOK, SlotOK, OfHost, Closing, manager, StopRadio
<1>17. ASSUME NEW e \in Editors, BeginMutation(e) PROVE SlotOK'
  BY <1>17 DEF TypeOK, PlacesOK, SlotOK, OfHost, Closing, manager, BeginMutation
<1>18. ASSUME NEW e \in Editors, StoreEdit(e) PROVE SlotOK'
  BY <1>18 DEF TypeOK, PlacesOK, SlotOK, OfHost, Closing, manager, StoreEdit
<1>19. ASSUME NEW e \in Editors, CommitEdit(e) PROVE SlotOK'
  BY <1>19 DEF TypeOK, PlacesOK, SlotOK, OfHost, Closing, manager, CommitEdit, NoEdit
<1>20. ASSUME NEW e \in Editors, StoreFails(e) PROVE SlotOK'
  BY <1>20 DEF TypeOK, PlacesOK, SlotOK, OfHost, Closing, manager, StoreFails, NoEdit
<1>21. ASSUME NEW e \in Editors, DropEdit(e) PROVE SlotOK'
  BY <1>21 DEF TypeOK, PlacesOK, SlotOK, OfHost, Closing, manager, DropEdit, NoEdit
<1>22. CASE UNCHANGED vars
  BY <1>22 DEF TypeOK, PlacesOK, SlotOK, OfHost, Closing, manager, vars, manager
<1> QED
  BY <1>1, <1>2, <1>3, <1>4, <1>5, <1>6, <1>7, <1>8, <1>9, <1>10, <1>11, <1>12,
     <1>13, <1>14, <1>15, <1>16, <1>17, <1>18, <1>19, <1>20, <1>21, <1>22 DEF
     Next, Session, Releasing, Shutdown, Edit

LEMMA HoldersStep == TypeOK /\ PlacesOK /\ HoldersOK /\ [Next]_vars => HoldersOK'
<1> SUFFICES ASSUME TypeOK, PlacesOK, HoldersOK, [Next]_vars PROVE HoldersOK'
  OBVIOUS
<1> USE HostApart
<1>1. ASSUME NEW s \in Sessions, Connect(s) PROVE HoldersOK'
  BY <1>1 DEF TypeOK, PlacesOK, HoldersOK, Holders, Holds, OfHost, Closing, manager, Connect
<1>2. ASSUME NEW s \in Sessions, Look(s) PROVE HoldersOK'
  <2> SUFFICES ASSUME pc'[Host] = "up" PROVE HoldersOK'
    BY DEF HoldersOK
  <2>1. pc[Host] = "up" /\ pc[s] \in {"look", "checking"}
    BY <1>2 DEF Look, Shares, Starts, FoundClosing, TypeOK
  <2>2. CASE Shares(s)
    <3>1. s \notin Holders /\ Holders' = Holders \cup {s}
      BY <2>1, <2>2 DEF Shares, Holders, Holds, TypeOK
    <3>2. Cardinality(Holders') = Cardinality(Holders) + 1 /\ Holders' # {}
      BY <3>1, OneMore DEF Holders
    <3> QED BY <2>1, <2>2, <3>2 DEF Shares, HoldersOK, TypeOK
  <2>4. CASE slot' = slot /\ \E x \in {"check", "toWait", "stranded"} : pc' = [pc EXCEPT ![s] = x]
    <3>1. Holders' = Holders
      BY <2>1, <2>4 DEF Holders, Holds, TypeOK
    <3> QED BY <2>1, <2>4, <3>1 DEF HoldersOK
  <2> QED BY <1>2, <2>2, <2>4 DEF Look, FoundClosing
<1>3. ASSUME NEW s \in Sessions, BeginWait(s) PROVE HoldersOK'
  BY <1>3 DEF TypeOK, PlacesOK, HoldersOK, Holders, Holds, OfHost, Closing, manager, BeginWait
<1>4. ASSUME NEW s \in Sessions, BeginCheck(s) PROVE HoldersOK'
  BY <1>4 DEF TypeOK, PlacesOK, HoldersOK, Holders, Holds, OfHost, Closing, manager, BeginCheck
<1>5. ASSUME NEW s \in Sessions, Checked(s) PROVE HoldersOK'
  <2> SUFFICES ASSUME pc'[Host] = "up" PROVE HoldersOK'
    BY DEF HoldersOK
  <2>1. pc[Host] = "up" /\ pc[s] \in {"look", "checking"}
    BY <1>5 DEF Checked, Shares, Starts, FoundClosing, TypeOK
  <2>2. CASE Shares(s)
    <3>1. s \notin Holders /\ Holders' = Holders \cup {s}
      BY <2>1, <2>2 DEF Shares, Holders, Holds, TypeOK
    <3>2. Cardinality(Holders') = Cardinality(Holders) + 1 /\ Holders' # {}
      BY <3>1, OneMore DEF Holders
    <3> QED BY <2>1, <2>2, <3>2 DEF Shares, HoldersOK, TypeOK
  <2>3. CASE Starts(s)
    <3>1. Holders = {}
      BY <2>1, <2>3 DEF Starts, HoldersOK
    <3>2. Holders' = Holders \cup {s}
      BY <2>1, <2>3 DEF Starts, Holders, Holds, TypeOK
    <3>3. Cardinality(Holders') = 1 /\ Holders' # {}
      BY <3>1, <3>2, FS_Singleton
    <3> QED BY <2>3, <3>3 DEF Starts, HoldersOK
  <2>4. CASE slot' = slot /\ \E x \in {"check", "toWait", "stranded"} : pc' = [pc EXCEPT ![s] = x]
    <3>1. Holders' = Holders
      BY <2>1, <2>4 DEF Holders, Holds, TypeOK
    <3> QED BY <2>1, <2>4, <3>1 DEF HoldersOK
  <2> QED BY <1>5, <2>2, <2>3, <2>4 DEF Checked, FoundClosing
<1>6. ASSUME NEW s \in Sessions, CheckFails(s) PROVE HoldersOK'
  BY <1>6 DEF TypeOK, PlacesOK, HoldersOK, Holders, Holds, OfHost, Closing, manager, CheckFails, FinishUse
<1>7. ASSUME NEW s \in Sessions, Open(s) PROVE HoldersOK'
  BY <1>7 DEF TypeOK, PlacesOK, HoldersOK, Holders, Holds, OfHost, Closing, manager, Open
<1>8. ASSUME NEW s \in Sessions, Leave(s) PROVE HoldersOK'
  BY <1>8 DEF TypeOK, PlacesOK, HoldersOK, Holders, Holds, OfHost, Closing, manager, Leave
<1>9. ASSUME NEW s \in Sessions, HearShutdown(s) PROVE HoldersOK'
  BY <1>9 DEF TypeOK, PlacesOK, HoldersOK, Holders, Holds, OfHost, Closing, manager, HearShutdown
<1>10. ASSUME NEW s \in Sessions, Finish(s) PROVE HoldersOK'
  BY <1>10 DEF TypeOK, PlacesOK, HoldersOK, Holders, Holds, OfHost, Closing, manager, Finish, FinishUse
<1>11. ASSUME NEW p \in Procs, Release(p) PROVE HoldersOK'
  <2> SUFFICES ASSUME pc'[Host] = "up" PROVE HoldersOK'
    BY DEF HoldersOK
  <2>1. pc[Host] = "up" /\ p \in Sessions /\ p \in Holders
    BY <1>11 DEF Release, After, Holders, Holds, TypeOK, Procs
  <2>2. slot.state = "active" /\ slot.refs = Cardinality(Holders) /\ slot.refs # 0
    BY <2>1, OneFewer DEF HoldersOK, Holders
  <2>3. \E x \in {"awaitTask", "finish"} : pc' = [pc EXCEPT ![p] = x]
    BY <1>11, <2>1, <2>2 DEF Release, After
  <2>4. Holders' = Holders \ {p}
    BY <2>1, <2>3 DEF Holders, Holds, TypeOK
  <2>5. Cardinality(Holders') = slot.refs - 1
    BY <2>1, <2>2, <2>4, OneFewer DEF Holders
  <2>6. Cardinality(Holders') = 0 <=> Holders' = {}
    BY <2>4, FiniteSessions DEF Holders
  <2>7. slot' = [slot EXCEPT !.refs = slot.refs - 1,
                           !.state = IF slot.refs - 1 = 0 THEN "closing" ELSE "active"]
    BY <1>11, <2>2 DEF Release
  <2> QED BY <2>5, <2>6, <2>7 DEF HoldersOK, TypeOK
<1>12. ASSUME NEW p \in Procs, TaskReturns(p) PROVE HoldersOK'
  <2> SUFFICES ASSUME pc'[Host] = "up" PROVE HoldersOK'
    BY DEF HoldersOK
  <2>1. pc[Host] = "up" /\ slot' = slot
    BY <1>12 DEF TaskReturns, Notified, TypeOK
  <2>2. \A s \in Sessions : Holds(s)' <=> Holds(s)
    BY <1>12 DEF TaskReturns, Notified, Holds
  <2>3. Holders' = Holders
    BY <2>2 DEF Holders
  <2> QED BY <2>1, <2>3 DEF HoldersOK
<1>13. ASSUME NEW p \in Procs, Remove(p) PROVE HoldersOK'
  <2> SUFFICES ASSUME pc'[Host] = "up" PROVE HoldersOK'
    BY DEF HoldersOK
  <2>1. pc[Host] = "up"
    BY <1>13 DEF Remove, After, TypeOK
  <2>2. Holders' = Holders
    BY <1>13 DEF Remove, After, Holders, Holds, TypeOK
  <2>3. CASE slot.state = "closing"
    <3>1. Holders = {} /\ slot' = Absent
      BY <1>13, <2>1, <2>3 DEF Remove, HoldersOK
    <3> QED BY <2>2, <3>1, FS_EmptySet DEF HoldersOK, Absent
  <2>4. CASE slot.state # "closing"
    BY <1>13, <2>1, <2>2, <2>4 DEF Remove, HoldersOK
  <2> QED BY <2>3, <2>4
<1>14. ASSUME CloseSessions PROVE HoldersOK'
  BY <1>14 DEF TypeOK, PlacesOK, HoldersOK, Holders, Holds, OfHost, Closing, manager, CloseSessions
<1>15. ASSUME ListRadios PROVE HoldersOK'
  BY <1>15 DEF TypeOK, PlacesOK, HoldersOK, Holders, Holds, OfHost, Closing, manager, ListRadios
<1>16. ASSUME StopRadio PROVE HoldersOK'
  BY <1>16 DEF TypeOK, PlacesOK, HoldersOK, Holders, Holds, OfHost, Closing, manager, StopRadio
<1>17. ASSUME NEW e \in Editors, BeginMutation(e) PROVE HoldersOK'
  BY <1>17 DEF TypeOK, PlacesOK, HoldersOK, Holders, Holds, OfHost, Closing, manager, BeginMutation
<1>18. ASSUME NEW e \in Editors, StoreEdit(e) PROVE HoldersOK'
  BY <1>18 DEF TypeOK, PlacesOK, HoldersOK, Holders, Holds, OfHost, Closing, manager, StoreEdit
<1>19. ASSUME NEW e \in Editors, CommitEdit(e) PROVE HoldersOK'
  BY <1>19 DEF TypeOK, PlacesOK, HoldersOK, Holders, Holds, OfHost, Closing, manager, CommitEdit, NoEdit
<1>20. ASSUME NEW e \in Editors, StoreFails(e) PROVE HoldersOK'
  BY <1>20 DEF TypeOK, PlacesOK, HoldersOK, Holders, Holds, OfHost, Closing, manager, StoreFails, NoEdit
<1>21. ASSUME NEW e \in Editors, DropEdit(e) PROVE HoldersOK'
  BY <1>21 DEF TypeOK, PlacesOK, HoldersOK, Holders, Holds, OfHost, Closing, manager, DropEdit, NoEdit
<1>22. CASE UNCHANGED vars
  BY <1>22 DEF TypeOK, PlacesOK, HoldersOK, Holders, Holds, OfHost, Closing, manager, vars, manager
<1> QED
  BY <1>1, <1>2, <1>3, <1>4, <1>5, <1>6, <1>7, <1>8, <1>9, <1>10, <1>11, <1>12,
     <1>13, <1>14, <1>15, <1>16, <1>17, <1>18, <1>19, <1>20, <1>21, <1>22 DEF
     Next, Session, Releasing, Shutdown, Edit

LEMMA UsersFinite == Cardinality(Users) \in Nat
  BY FiniteSessions DEF Users

LEMMA UsersStep == TypeOK /\ PlacesOK /\ UsersOK /\ [Next]_vars => UsersOK'
<1> SUFFICES ASSUME TypeOK, PlacesOK, UsersOK, [Next]_vars PROVE UsersOK'
  OBVIOUS
<1> USE HostApart
<1>1. ASSUME NEW s \in Sessions, Connect(s) PROVE UsersOK'
  <2>1. CASE reg.config = Deleted \/ reg.reserved
    BY <1>1, <2>1 DEF Connect, UsersOK, Users
  <2>2. CASE ~(reg.config = Deleted \/ reg.reserved)
    <3>1. s \notin Users /\ Users' = Users \cup {s}
      BY <1>1, <2>2 DEF Connect, Users, TypeOK
    <3>2. Cardinality(Users') = Cardinality(Users) + 1
      BY <3>1, OneMore DEF Users
    <3> QED BY <1>1, <2>2, <3>2 DEF Connect, UsersOK, TypeOK
  <2> QED BY <2>1, <2>2
<1>2. ASSUME NEW s \in Sessions, Look(s) PROVE UsersOK'
  <2>1. pc[s] # "idle" /\ reg' = reg
    BY <1>2 DEF Look
  <2>2. \E x \in {"granted", "check", "toWait", "stranded"} : pc' = [pc EXCEPT ![s] = x]
    BY <1>2 DEF Look, Shares, Starts, FoundClosing
  <2>3. Users' = Users
    BY <2>1, <2>2 DEF Users, TypeOK
  <2> QED BY <2>1, <2>3 DEF UsersOK
<1>3. ASSUME NEW s \in Sessions, BeginWait(s) PROVE UsersOK'
  BY <1>3 DEF TypeOK, PlacesOK, UsersOK, OfHost, Closing, Users, manager, BeginWait
<1>4. ASSUME NEW s \in Sessions, BeginCheck(s) PROVE UsersOK'
  BY <1>4 DEF TypeOK, PlacesOK, UsersOK, OfHost, Closing, Users, manager, BeginCheck
<1>5. ASSUME NEW s \in Sessions, Checked(s) PROVE UsersOK'
  <2>1. pc[s] # "idle" /\ reg' = reg
    BY <1>5 DEF Checked
  <2>2. \E x \in {"granted", "check", "toWait", "stranded"} : pc' = [pc EXCEPT ![s] = x]
    BY <1>5 DEF Checked, Shares, Starts, FoundClosing
  <2>3. Users' = Users
    BY <2>1, <2>2 DEF Users, TypeOK
  <2> QED BY <2>1, <2>3 DEF UsersOK
<1>6. ASSUME NEW s \in Sessions, CheckFails(s) PROVE UsersOK'
  <2>1. s \in Users /\ Users' = Users \ {s}
    BY <1>6 DEF CheckFails, Users, TypeOK
  <2>2. Cardinality(Users') = Cardinality(Users) - 1 /\ Cardinality(Users) # 0
    BY <2>1, OneFewer DEF Users
  <2>3. reg' = [reg EXCEPT !.users = Cardinality(Users')]
    BY <1>6, <2>2 DEF CheckFails, FinishUse, UsersOK, TypeOK
  <2> QED BY <2>2, <2>3, UsersFinite DEF UsersOK, TypeOK
<1>7. ASSUME NEW s \in Sessions, Open(s) PROVE UsersOK'
  BY <1>7 DEF TypeOK, PlacesOK, UsersOK, OfHost, Closing, Users, manager, Open
<1>8. ASSUME NEW s \in Sessions, Leave(s) PROVE UsersOK'
  BY <1>8 DEF TypeOK, PlacesOK, UsersOK, OfHost, Closing, Users, manager, Leave
<1>9. ASSUME NEW s \in Sessions, HearShutdown(s) PROVE UsersOK'
  BY <1>9 DEF TypeOK, PlacesOK, UsersOK, OfHost, Closing, Users, manager, HearShutdown
<1>10. ASSUME NEW s \in Sessions, Finish(s) PROVE UsersOK'
  <2>1. s \in Users /\ Users' = Users \ {s}
    BY <1>10 DEF Finish, Users, TypeOK
  <2>2. Cardinality(Users') = Cardinality(Users) - 1 /\ Cardinality(Users) # 0
    BY <2>1, OneFewer DEF Users
  <2>3. reg' = [reg EXCEPT !.users = Cardinality(Users')]
    BY <1>10, <2>2 DEF Finish, FinishUse, UsersOK, TypeOK
  <2> QED BY <2>2, <2>3, UsersFinite DEF UsersOK, TypeOK
<1>11. ASSUME NEW p \in Procs, Release(p) PROVE UsersOK'
  <2>1. \A s \in Sessions : pc'[s] = "idle" <=> pc[s] = "idle"
    <3>1. pc[p] # "idle"
      BY <1>11 DEF Release
    <3>2. \E x \in {"awaitTask", "stopping", "finish"} : pc' = [pc EXCEPT ![p] = x]
      BY <1>11 DEF Release, After
    <3> QED BY <3>1, <3>2 DEF TypeOK
  <2>2. Users' = Users
    BY <2>1 DEF Users
  <2> QED BY <1>11, <2>2 DEF Release, UsersOK
<1>12. ASSUME NEW p \in Procs, TaskReturns(p) PROVE UsersOK'
  BY <1>12 DEF TypeOK, PlacesOK, UsersOK, OfHost, Closing, Users, manager, TaskReturns, Notified
<1>13. ASSUME NEW p \in Procs, Remove(p) PROVE UsersOK'
  BY <1>13 DEF TypeOK, PlacesOK, UsersOK, OfHost, Closing, Users, manager, Remove, After, Absent
<1>14. ASSUME CloseSessions PROVE UsersOK'
  BY <1>14 DEF TypeOK, PlacesOK, UsersOK, OfHost, Closing, Users, manager, CloseSessions
<1>15. ASSUME ListRadios PROVE UsersOK'
  BY <1>15 DEF TypeOK, PlacesOK, UsersOK, OfHost, Closing, Users, manager, ListRadios
<1>16. ASSUME StopRadio PROVE UsersOK'
  BY <1>16 DEF TypeOK, PlacesOK, UsersOK, OfHost, Closing, Users, manager, StopRadio
<1>17. ASSUME NEW e \in Editors, BeginMutation(e) PROVE UsersOK'
  BY <1>17 DEF TypeOK, PlacesOK, UsersOK, OfHost, Closing, Users, manager, BeginMutation
<1>18. ASSUME NEW e \in Editors, StoreEdit(e) PROVE UsersOK'
  BY <1>18 DEF TypeOK, PlacesOK, UsersOK, OfHost, Closing, Users, manager, StoreEdit
<1>19. ASSUME NEW e \in Editors, CommitEdit(e) PROVE UsersOK'
  BY <1>19 DEF TypeOK, PlacesOK, UsersOK, OfHost, Closing, Users, manager, CommitEdit, NoEdit
<1>20. ASSUME NEW e \in Editors, StoreFails(e) PROVE UsersOK'
  BY <1>20 DEF TypeOK, PlacesOK, UsersOK, OfHost, Closing, Users, manager, StoreFails, NoEdit
<1>21. ASSUME NEW e \in Editors, DropEdit(e) PROVE UsersOK'
  BY <1>21 DEF TypeOK, PlacesOK, UsersOK, OfHost, Closing, Users, manager, DropEdit, NoEdit
<1>22. CASE UNCHANGED vars
  BY <1>22 DEF TypeOK, PlacesOK, UsersOK, OfHost, Closing, Users, manager, vars, manager
<1> QED
  BY <1>1, <1>2, <1>3, <1>4, <1>5, <1>6, <1>7, <1>8, <1>9, <1>10, <1>11, <1>12,
     <1>13, <1>14, <1>15, <1>16, <1>17, <1>18, <1>19, <1>20, <1>21, <1>22 DEF
     Next, Session, Releasing, Shutdown, Edit

LEMMA ConfigStep == TypeOK /\ PlacesOK /\ SlotOK /\ HoldersOK /\ ConfigOK /\ UsersOK /\ EditsOK /\ [Next]_vars => ConfigOK'
<1> SUFFICES ASSUME TypeOK, PlacesOK, SlotOK, HoldersOK, ConfigOK, UsersOK, EditsOK, [Next]_vars PROVE ConfigOK'
  OBVIOUS
<1> USE HostApart
<1>1. ASSUME NEW s \in Sessions, Connect(s) PROVE ConfigOK'
  BY <1>1 DEF TypeOK, PlacesOK, ConfigOK, OfHost, Closing, Users, manager, Connect
<1>2. ASSUME NEW s \in Sessions, Look(s) PROVE ConfigOK'
  BY <1>2 DEF TypeOK, PlacesOK, ConfigOK, OfHost, Closing, Users, manager, Look, Shares, FoundClosing
<1>3. ASSUME NEW s \in Sessions, BeginWait(s) PROVE ConfigOK'
  BY <1>3 DEF TypeOK, PlacesOK, ConfigOK, OfHost, Closing, Users, manager, BeginWait
<1>4. ASSUME NEW s \in Sessions, BeginCheck(s) PROVE ConfigOK'
  BY <1>4 DEF TypeOK, PlacesOK, ConfigOK, OfHost, Closing, Users, manager, BeginCheck
<1>5. ASSUME NEW s \in Sessions, Checked(s) PROVE ConfigOK'
  BY <1>5 DEF TypeOK, PlacesOK, ConfigOK, OfHost, Closing, Users, manager, Checked, Shares, Starts, FoundClosing
<1>6. ASSUME NEW s \in Sessions, CheckFails(s) PROVE ConfigOK'
  BY <1>6 DEF TypeOK, PlacesOK, ConfigOK, OfHost, Closing, Users, manager, CheckFails, FinishUse
<1>7. ASSUME NEW s \in Sessions, Open(s) PROVE ConfigOK'
  BY <1>7 DEF TypeOK, PlacesOK, ConfigOK, OfHost, Closing, Users, manager, Open
<1>8. ASSUME NEW s \in Sessions, Leave(s) PROVE ConfigOK'
  BY <1>8 DEF TypeOK, PlacesOK, ConfigOK, OfHost, Closing, Users, manager, Leave
<1>9. ASSUME NEW s \in Sessions, HearShutdown(s) PROVE ConfigOK'
  BY <1>9 DEF TypeOK, PlacesOK, ConfigOK, OfHost, Closing, Users, manager, HearShutdown
<1>10. ASSUME NEW s \in Sessions, Finish(s) PROVE ConfigOK'
  BY <1>10 DEF TypeOK, PlacesOK, ConfigOK, OfHost, Closing, Users, manager, Finish, FinishUse
<1>11. ASSUME NEW p \in Procs, Release(p) PROVE ConfigOK'
  BY <1>11 DEF TypeOK, PlacesOK, ConfigOK, OfHost, Closing, Users, manager, Release, After
<1>12. ASSUME NEW p \in Procs, TaskReturns(p) PROVE ConfigOK'
  BY <1>12 DEF TypeOK, PlacesOK, ConfigOK, OfHost, Closing, Users, manager, TaskReturns, Notified
<1>13. ASSUME NEW p \in Procs, Remove(p) PROVE ConfigOK'
  BY <1>13 DEF TypeOK, PlacesOK, ConfigOK, OfHost, Closing, Users, manager, Remove, After, Absent
<1>14. ASSUME CloseSessions PROVE ConfigOK'
  BY <1>14 DEF TypeOK, PlacesOK, ConfigOK, OfHost, Closing, Users, manager, CloseSessions
<1>15. ASSUME ListRadios PROVE ConfigOK'
  BY <1>15 DEF TypeOK, PlacesOK, ConfigOK, OfHost, Closing, Users, manager, ListRadios
<1>16. ASSUME StopRadio PROVE ConfigOK'
  BY <1>16 DEF TypeOK, PlacesOK, ConfigOK, OfHost, Closing, Users, manager, StopRadio
<1>17. ASSUME NEW e \in Editors, BeginMutation(e) PROVE ConfigOK'
  BY <1>17 DEF TypeOK, PlacesOK, ConfigOK, OfHost, Closing, Users, manager, BeginMutation
<1>18. ASSUME NEW e \in Editors, StoreEdit(e) PROVE ConfigOK'
  BY <1>18 DEF TypeOK, PlacesOK, ConfigOK, OfHost, Closing, Users, manager, StoreEdit
<1>19. ASSUME NEW e \in Editors, CommitEdit(e) PROVE ConfigOK'
  <2>1. reg.reserved /\ edit[e].pc # "none"
    BY <1>19 DEF CommitEdit, EditsOK
  <2>2. Users = {}
    BY <2>1, FiniteSessions DEF UsersOK, Users
  <2>3. Users' = {}
    BY <1>19, <2>2 DEF CommitEdit, Users
  <2>4. pc[Host] = "up" => slot.state = "absent"
    <3>1. Holders = {}
      BY <2>2 DEF Users, Holders, Holds
    <3>2. pc[Host] = "up" => \A p \in Procs : pc[p] \notin Closing
      BY <2>2 DEF Users, Closing, Procs
    <3> QED BY <3>1, <3>2 DEF HoldersOK, SlotOK, TypeOK
  <2> QED BY <1>19, <2>3, <2>4 DEF CommitEdit, ConfigOK, manager
<1>20. ASSUME NEW e \in Editors, StoreFails(e) PROVE ConfigOK'
  BY <1>20 DEF TypeOK, PlacesOK, ConfigOK, OfHost, Closing, Users, manager, StoreFails, NoEdit
<1>21. ASSUME NEW e \in Editors, DropEdit(e) PROVE ConfigOK'
  BY <1>21 DEF TypeOK, PlacesOK, ConfigOK, OfHost, Closing, Users, manager, DropEdit, NoEdit
<1>22. CASE UNCHANGED vars
  BY <1>22 DEF TypeOK, PlacesOK, ConfigOK, OfHost, Closing, Users, manager, vars, manager
<1> QED
  BY <1>1, <1>2, <1>3, <1>4, <1>5, <1>6, <1>7, <1>8, <1>9, <1>10, <1>11, <1>12,
     <1>13, <1>14, <1>15, <1>16, <1>17, <1>18, <1>19, <1>20, <1>21, <1>22 DEF
     Next, Session, Releasing, Shutdown, Edit

LEMMA EditsStep == TypeOK /\ EditsOK /\ [Next]_vars => EditsOK'
<1> SUFFICES ASSUME TypeOK, EditsOK, [Next]_vars PROVE EditsOK'
  OBVIOUS
<1> USE HostApart
<1>1. ASSUME NEW s \in Sessions, Connect(s) PROVE EditsOK'
  BY <1>1 DEF TypeOK, EditsOK, Versions, manager, Connect
<1>2. ASSUME NEW s \in Sessions, Look(s) PROVE EditsOK'
  BY <1>2 DEF TypeOK, EditsOK, Versions, manager, Look, Shares, FoundClosing
<1>3. ASSUME NEW s \in Sessions, BeginWait(s) PROVE EditsOK'
  BY <1>3 DEF TypeOK, EditsOK, Versions, manager, BeginWait
<1>4. ASSUME NEW s \in Sessions, BeginCheck(s) PROVE EditsOK'
  BY <1>4 DEF TypeOK, EditsOK, Versions, manager, BeginCheck
<1>5. ASSUME NEW s \in Sessions, Checked(s) PROVE EditsOK'
  BY <1>5 DEF TypeOK, EditsOK, Versions, manager, Checked, Shares, Starts, FoundClosing
<1>6. ASSUME NEW s \in Sessions, CheckFails(s) PROVE EditsOK'
  BY <1>6 DEF TypeOK, EditsOK, Versions, manager, CheckFails, FinishUse
<1>7. ASSUME NEW s \in Sessions, Open(s) PROVE EditsOK'
  BY <1>7 DEF TypeOK, EditsOK, Versions, manager, Open
<1>8. ASSUME NEW s \in Sessions, Leave(s) PROVE EditsOK'
  BY <1>8 DEF TypeOK, EditsOK, Versions, manager, Leave
<1>9. ASSUME NEW s \in Sessions, HearShutdown(s) PROVE EditsOK'
  BY <1>9 DEF TypeOK, EditsOK, Versions, manager, HearShutdown
<1>10. ASSUME NEW s \in Sessions, Finish(s) PROVE EditsOK'
  BY <1>10 DEF TypeOK, EditsOK, Versions, manager, Finish, FinishUse
<1>11. ASSUME NEW p \in Procs, Release(p) PROVE EditsOK'
  BY <1>11 DEF TypeOK, EditsOK, Versions, manager, Release, After
<1>12. ASSUME NEW p \in Procs, TaskReturns(p) PROVE EditsOK'
  BY <1>12 DEF TypeOK, EditsOK, Versions, manager, TaskReturns, Notified
<1>13. ASSUME NEW p \in Procs, Remove(p) PROVE EditsOK'
  BY <1>13 DEF TypeOK, EditsOK, Versions, manager, Remove, After, Absent
<1>14. ASSUME CloseSessions PROVE EditsOK'
  BY <1>14 DEF TypeOK, EditsOK, Versions, manager, CloseSessions
<1>15. ASSUME ListRadios PROVE EditsOK'
  BY <1>15 DEF TypeOK, EditsOK, Versions, manager, ListRadios
<1>16. ASSUME StopRadio PROVE EditsOK'
  BY <1>16 DEF TypeOK, EditsOK, Versions, manager, StopRadio
<1>17. ASSUME NEW e \in Editors, BeginMutation(e) PROVE EditsOK'
  BY <1>17 DEF TypeOK, EditsOK, Versions, manager, BeginMutation
<1>18. ASSUME NEW e \in Editors, StoreEdit(e) PROVE EditsOK'
  BY <1>18 DEF TypeOK, EditsOK, Versions, manager, StoreEdit
<1>19. ASSUME NEW e \in Editors, CommitEdit(e) PROVE EditsOK'
  BY <1>19 DEF TypeOK, EditsOK, Versions, manager, CommitEdit, NoEdit
<1>20. ASSUME NEW e \in Editors, StoreFails(e) PROVE EditsOK'
  BY <1>20 DEF TypeOK, EditsOK, Versions, manager, StoreFails, NoEdit
<1>21. ASSUME NEW e \in Editors, DropEdit(e) PROVE EditsOK'
  BY <1>21 DEF TypeOK, EditsOK, Versions, manager, DropEdit, NoEdit
<1>22. CASE UNCHANGED vars
  BY <1>22 DEF TypeOK, EditsOK, Versions, manager, vars, manager
<1> QED
  BY <1>1, <1>2, <1>3, <1>4, <1>5, <1>6, <1>7, <1>8, <1>9, <1>10, <1>11, <1>12,
     <1>13, <1>14, <1>15, <1>16, <1>17, <1>18, <1>19, <1>20, <1>21, <1>22 DEF
     Next, Session, Releasing, Shutdown, Edit

LEMMA InvStep == Inv /\ [Next]_vars => Inv'
  BY TypeStep, PlacesStep, SlotStep, HoldersStep, ConfigStep, UsersStep, EditsStep DEF Inv

LEMMA InvHolds == Spec => []Inv
  BY InitInv, InvStep, PTL DEF Spec

-----------------------------------------------------------------------------
(* The variables of the manager, the registry, the sessions and the         *)
(* requests have their types (radio-io/src/radio_manager/lifecycle.rs,      *)
(* radio-io/src/websocket.rs).                                              *)
THEOREM RadioTypeCorrect == Spec => []TypeOK
  BY InvHolds, PTL DEF Inv

(* However many windows come and go, no session loses its radio to the      *)
(* release of another, and one task at a time drives the devices            *)
(* (lifecycle.rs, acquire and release).                                     *)
THEOREM SessionsKeepTheirRadio == Spec => []RadioServesItsSessions
<1>1. Inv => RadioServesItsSessions
  <2> SUFFICES ASSUME Inv PROVE RadioServesItsSessions
    OBVIOUS
  <2>1. running <= 1
    BY DEF Inv, TypeOK, SlotOK
  <2>2. \A s \in Holders : slot.state = "active" /\ pc[Host] = "up" => config[s] = slot.config
    BY DEF Inv, ConfigOK, Holders, Holds, Users
  <2> QED BY <2>1, <2>2 DEF Inv, HoldersOK, Holders, RadioServesItsSessions
<1> QED BY <1>1, InvHolds, PTL

(* However many requests and windows there are, a radio in use is never     *)
(* reserved for an edit, and table, registry and running radio agree        *)
(* (websocket.rs, begin_mutation; main.rs, update_radio and delete_radio).  *)
THEOREM EditsNeedAnIdleRadio == Spec => []EditsWaitForUsers
<1>1. Inv => EditsWaitForUsers
  <2> SUFFICES ASSUME Inv PROVE EditsWaitForUsers
    OBVIOUS
  <2>1. ~reg.reserved => \A e \in Editors : edit[e].pc # "stored"
    BY DEF Inv, EditsOK
  <2> QED BY <2>1 DEF Inv, UsersOK, ConfigOK, EditsOK, EditsWaitForUsers
<1> QED BY <1>1, InvHolds, PTL

-----------------------------------------------------------------------------
(* The contacts of WSJT-X.                                                  *)

IsConn(c) ==
  c \in [state : {c.state}, gone : {c.gone}, data : {c.data}, up : {c.up}, told : {c.told},
         events : Seq(Nat), contacts : Seq(Nat), say : {c.say}, waits : {c.waits}]

IsWindow(w) ==
  w \in [intent : {w.intent}, shown : {w.shown}, logged : {w.logged}, link : {0, 1, 2}]

ContactTypes ==
  /\ target \in Loggers \cup {NoLogger}
  /\ sent \in Seq(Loggers)
  /\ conn = [c \in Conns |-> conn[c]] /\ \A c \in Conns : IsConn(conn[c])
  /\ window = [w \in Loggers |-> window[w]] /\ \A w \in Loggers : IsWindow(window[w])

(* A bridge reads contacts that were sent, and other events; what it passes  *)
(* on was sent to the window of its connection; and no connection that is   *)
(* gone, free or left has any of them.                                      *)
Bare(k) == k.events = <<>> /\ k.contacts = <<>>
Closed(k) == k.gone \/ k.state \in {"free", "leaving"}
In(q) == {q[k] : k \in 1..Len(q)}
Known(c, s) == In(conn[c].events) \subseteq 0..Len(s)
ForOwner(c, s) == \A n \in In(conn[c].contacts) : n \in 1..Len(s) /\ s[n] = OwnerOf(c)

ContactInv ==
  /\ ContactTypes
  /\ \A c \in Conns : Closed(conn[c]) => Bare(conn[c])
  /\ \A c \in Conns : Known(c, sent) /\ ForOwner(c, sent)
  /\ \A w \in Loggers : \A n \in window[w].logged : n \in 1..Len(sent) /\ sent[n] = w
  /\ ContactsGoToTheTarget

LEMMA Empty == <<>> \in Seq(Nat)
OBVIOUS

LEMMA InEmpty == In(<<>>) = {}
BY DEF In

LEMMA InAppend ==
  ASSUME NEW q \in Seq(Nat), NEW n \in Nat
  PROVE  Append(q, n) \in Seq(Nat) /\ In(Append(q, n)) = In(q) \cup {n}
<1>1. /\ Append(q, n) \in Seq(Nat) /\ Len(Append(q, n)) = Len(q) + 1 /\ Len(q) \in Nat
      /\ Append(q, n)[Len(q) + 1] = n /\ \A k \in 1..Len(q) : Append(q, n)[k] = q[k]
  BY AppendProperties, LenProperties
<1>2. 1..(Len(q) + 1) = 1..Len(q) \cup {Len(q) + 1}
  BY <1>1
<1> QED BY <1>1, <1>2 DEF In

LEMMA InTail ==
  ASSUME NEW q \in Seq(Nat), q # <<>>
  PROVE  Tail(q) \in Seq(Nat) /\ Head(q) \in Nat /\ In(q) = In(Tail(q)) \cup {Head(q)}
<1>1. /\ Tail(q) \in Seq(Nat) /\ Len(Tail(q)) = Len(q) - 1 /\ Head(q) = q[1] /\ Head(q) \in Nat
      /\ Len(q) \in Nat /\ Len(q) >= 1 /\ \A k \in 1..Len(Tail(q)) : Tail(q)[k] = q[k + 1]
  BY HeadTailProperties
<1>2. ASSUME NEW k \in 1..Len(q) PROVE q[k] \in In(Tail(q)) \cup {Head(q)}
  <2>1. CASE k = 1
    BY <1>1, <2>1
  <2>2. CASE k # 1
    <3>1. k - 1 \in 1..Len(Tail(q)) /\ (k - 1) + 1 = k
      BY <1>1, <2>2
    <3>2. Tail(q)[k - 1] = q[k]
      BY <1>1, <3>1
    <3> QED BY <3>1, <3>2 DEF In
  <2> QED BY <2>1, <2>2
<1>3. ASSUME NEW k \in 1..Len(Tail(q)) PROVE Tail(q)[k] \in In(q)
  <2>1. k + 1 \in 1..Len(q) /\ Tail(q)[k] = q[k + 1]
    BY <1>1
  <2> QED BY <2>1 DEF In
<1>4. Head(q) \in In(q)
  BY <1>1 DEF In
<1> QED BY <1>1, <1>2, <1>3, <1>4 DEF In

(* One connection changes.                                                  *)
SetsConn(c, new) == conn' = [conn EXCEPT ![c] = new]

LEMMA ConnStep ==
  ASSUME ContactTypes, NEW c \in Conns, NEW new, IsConn(new), SetsConn(c, new)
  PROVE  /\ conn' = [d \in Conns |-> conn'[d]] /\ \A d \in Conns : IsConn(conn'[d])
         /\ conn'[c] = new /\ \A d \in Conns : d # c => conn'[d] = conn[d]
<1>1. conn = [d \in Conns |-> conn[d]] /\ \A d \in Conns : IsConn(conn[d])
  BY DEF ContactTypes
<1>2. conn'[c] = new /\ \A d \in Conns : d # c => conn'[d] = conn[d]
  BY <1>1 DEF SetsConn
<1>3. conn' = [d \in Conns |-> conn'[d]]
  BY <1>1 DEF SetsConn
<1> QED BY <1>1, <1>2, <1>3

LEMMA WindowStep ==
  ASSUME ContactTypes, NEW w \in Loggers, NEW new, IsWindow(new),
         window' = [window EXCEPT ![w] = new]
  PROVE  /\ window' = [v \in Loggers |-> window'[v]] /\ \A v \in Loggers : IsWindow(window'[v])
         /\ window'[w] = new /\ \A v \in Loggers : v # w => window'[v] = window[v]
<1>1. window = [v \in Loggers |-> window[v]] /\ \A v \in Loggers : IsWindow(window[v])
  BY DEF ContactTypes
<1>2. window'[w] = new /\ \A v \in Loggers : v # w => window'[v] = window[v]
  BY <1>1
<1>3. window' = [v \in Loggers |-> window'[v]]
  BY <1>1
<1> QED BY <1>1, <1>2, <1>3

(* The contacts that were on a way stay there, or are accounted for, and a   *)
(* new one is.                                                              *)
Without(c) == Closed(conn'[c]) => Bare(conn'[c])
Way(c, n) == OwnerOf(c) = sent[n] /\ OnItsWay(c, n)

LEMMA WaysStep ==
  ASSUME ContactInv, ContactTypes', lost \subseteq lost', skipped \subseteq skipped',
         \A n \in 1..Len(sent) : n \in 1..Len(sent') /\ sent'[n] = sent[n],
         \A w \in Loggers : window[w].logged \subseteq window'[w].logged,
         \A w \in Loggers : \A n \in window'[w].logged : n \in 1..Len(sent') /\ sent'[n] = w,
         \A c \in Conns : Without(c) /\ Known(c, sent)' /\ ForOwner(c, sent)',
         \A c \in Conns : \A n \in 1..Len(sent) : Way(c, n) => Accounted(n)',
         \A n \in 1..Len(sent') : n \in 1..Len(sent) \/ Accounted(n)'
  PROVE  ContactInv'
<1>1. ASSUME NEW n \in 1..Len(sent) PROVE Accounted(n)'
  <2>1. sent[n] \in Loggers /\ Accounted(n) /\ sent'[n] = sent[n]
    BY DEF ContactInv, ContactTypes, ContactsGoToTheTarget
  <2>2. CASE n \in window[sent[n]].logged \cup lost \cup skipped
    BY <2>1, <2>2 DEF Accounted
  <2>3. CASE \E c \in Conns : Way(c, n)
    BY <2>3
  <2> QED BY <2>1, <2>2, <2>3 DEF Accounted, Way
<1>2. ASSUME NEW n \in 1..Len(sent')
      PROVE  /\ \A w \in Loggers \ {sent'[n]} : n \notin window'[w].logged
             /\ Accounted(n)'
  BY <1>1, <1>2
<1>3. ContactsGoToTheTarget'
  BY <1>2 DEF ContactsGoToTheTarget
<1> QED BY <1>3 DEF ContactInv, Without

(* Every contact stays where it is, or is lost.                             *)
Emptied(c) == /\ conn'[c].events = <<>> /\ conn'[c].contacts = <<>>
              /\ \A n \in 1..Len(sent) : Way(c, n) => n \in lost'
Unmoved(c) == conn'[c].events = conn[c].events /\ conn'[c].contacts = conn[c].contacts

LEMMA ContactsStay ==
  ASSUME ContactInv, ContactTypes', sent' = sent, lost \subseteq lost', skipped' = skipped,
         \A w \in Loggers : window'[w].logged = window[w].logged,
         \A c \in Conns : Unmoved(c) \/ Emptied(c),
         \A c \in Conns : Without(c)
  PROVE  ContactInv'
<1>1. ASSUME NEW c \in Conns PROVE Known(c, sent)' /\ ForOwner(c, sent)'
  <2>1. Known(c, sent) /\ ForOwner(c, sent)
    BY DEF ContactInv
  <2>2. CASE Unmoved(c)
    BY <2>1, <2>2 DEF Unmoved, Known, ForOwner
  <2>3. CASE Emptied(c)
    BY <2>3, InEmpty DEF Emptied, Known, ForOwner
  <2> QED BY <2>2, <2>3
<1>2. \A w \in Loggers : \A n \in window'[w].logged : n \in 1..Len(sent') /\ sent'[n] = w
  BY DEF ContactInv
<1>3. ASSUME NEW c \in Conns, NEW n \in 1..Len(sent), Way(c, n) PROVE Accounted(n)'
  <2>1. CASE Unmoved(c)
    BY <1>3, <2>1 DEF Way, OnItsWay, Accounted, Unmoved
  <2>2. CASE Emptied(c)
    BY <1>3, <2>2 DEF Accounted, Emptied
  <2> QED BY <2>1, <2>2
<1> QED BY <1>1, <1>2, <1>3, WaysStep

(* One connection changes, and keeps its contacts or loses them.            *)
LEMMA OneConn ==
  ASSUME ContactInv, NEW c \in Conns, NEW new, IsConn(new), SetsConn(c, new),
         target' \in Loggers \cup {NoLogger}, sent' = sent, lost \subseteq lost', skipped' = skipped,
         window' = [w \in Loggers |-> window'[w]],
         \A w \in Loggers : IsWindow(window'[w]) /\ window'[w].logged = window[w].logged,
         \/ new.events = conn[c].events /\ new.contacts = conn[c].contacts
         \/ Bare(new) /\ \A n \in 1..Len(sent) : Way(c, n) => n \in lost',
         Closed(new) => Bare(new)
  PROVE  ContactInv'
<1>1. ContactTypes
  BY DEF ContactInv
<1>2. /\ conn' = [d \in Conns |-> conn'[d]] /\ \A d \in Conns : IsConn(conn'[d])
      /\ conn'[c] = new /\ \A d \in Conns : d # c => conn'[d] = conn[d]
  BY <1>1, ConnStep
<1>3. ContactTypes'
  BY <1>1, <1>2 DEF ContactTypes
<1>4. \A d \in Conns : Unmoved(d) \/ Emptied(d)
  BY <1>2 DEF Emptied, Unmoved, Bare
<1>5. \A d \in Conns : Without(d)
  BY <1>2 DEF Without, ContactInv
<1> QED BY <1>3, <1>4, <1>5, ContactsStay

(* Nothing is on the way of a connection without contacts.                  *)
LEMMA BareHasNoWay ==
  ASSUME NEW c \in Conns, Bare(conn[c]), NEW n \in 1..Len(sent)
  PROVE  ~Way(c, n)
BY DEF Bare, Way, OnItsWay

-----------------------------------------------------------------------------
LEMMA LinkIsAConn ==
  ASSUME ContactInv, NEW w \in Loggers, window[w].link # 0
  PROVE  LinkOf(w) \in Conns /\ OwnerOf(LinkOf(w)) = w
BY DEF ContactInv, ContactTypes, IsWindow, LinkOf, Conns, OwnerOf

LEMMA OperatorClicks ==
  ASSUME ContactInv, NEW w \in Loggers, NEW on \in BOOLEAN, SetWsjtXTarget(w, on)
  PROVE  ContactInv'
<1> DEFINE was == window[w]
           new == [window[w] EXCEPT !.intent = on, !.shown = on]
<1>1. ContactTypes /\ IsWindow(was)
  BY DEF ContactInv, ContactTypes
<1>2. window' = [window EXCEPT ![w] = new]
  BY <1>1 DEF SetWsjtXTarget
<1>3. IsWindow(new) /\ new.logged = was.logged
  BY <1>1 DEF IsWindow
<1>4. /\ window' = [v \in Loggers |-> window'[v]]
      /\ \A v \in Loggers : IsWindow(window'[v]) /\ window'[v].logged = window[v].logged
  <2> HIDE DEF new
  <2> QED BY <1>1, <1>2, <1>3, WindowStep
<1>5. UNCHANGED <<target, sent, lost, skipped>> /\ conn' = Post(w, on) /\ target \in Loggers \cup {NoLogger}
  BY <1>1 DEF SetWsjtXTarget, ContactTypes
<1>6. CASE window[w].link = 0
  <2>1. conn' = conn
    BY <1>5, <1>6 DEF Post
  <2>2. ContactTypes'
    BY <1>1, <1>4, <1>5, <2>1 DEF ContactTypes
  <2> QED BY <1>4, <1>5, <2>1, <2>2, ContactsStay DEF Without, Unmoved, ContactInv
<1>7. CASE window[w].link # 0
  <2> DEFINE c == LinkOf(w)
             now == [conn[c] EXCEPT !.up = Append(@, on)]
  <2>1. c \in Conns /\ IsConn(conn[c])
    BY <1>1, <1>7, LinkIsAConn DEF ContactTypes
  <2>2. SetsConn(c, now)
    BY <1>5, <1>7 DEF Post, SetsConn
  <2>3. /\ IsConn(now) /\ now.events = conn[c].events /\ now.contacts = conn[c].contacts
        /\ now.gone = conn[c].gone /\ now.state = conn[c].state
    BY <2>1 DEF IsConn
  <2>4. Closed(now) => Bare(now)
    BY <2>1, <2>3 DEF ContactInv, Closed, Bare
  <2> HIDE DEF now, c
  <2> QED BY <1>4, <1>5, <2>1, <2>2, <2>3, <2>4, OneConn
<1> QED BY <1>6, <1>7

LEMMA SocketOpens ==
  ASSUME ContactInv, NEW w \in Loggers, OpenRadioSocket(w)
  PROVE  ContactInv'
<1>1. ContactTypes /\ IsWindow(window[w])
  BY DEF ContactInv, ContactTypes
<1>2. PICK i \in 1..2 :
        /\ conn[<<w, i>>].state = "free"
        /\ window' = [window EXCEPT ![w].link = i]
        /\ conn' = [conn EXCEPT ![<<w, i>>] =
                     [Free EXCEPT !.state = "joining", !.data = inData,
                                  !.up = IF window[w].intent THEN <<TRUE>> ELSE <<>>]]
  BY DEF OpenRadioSocket
<1> DEFINE new == [window[w] EXCEPT !.link = i]
           c == <<w, i>>
           now == [Free EXCEPT !.state = "joining", !.data = inData,
                               !.up = IF window[w].intent THEN <<TRUE>> ELSE <<>>]
<1>3. IsWindow(new) /\ new.logged = window[w].logged /\ window' = [window EXCEPT ![w] = new]
  BY <1>1, <1>2 DEF IsWindow
<1>4. /\ window' = [v \in Loggers |-> window'[v]]
      /\ \A v \in Loggers : IsWindow(window'[v]) /\ window'[v].logged = window[v].logged
  <2> HIDE DEF new
  <2> QED BY <1>1, <1>3, WindowStep
<1>5. c \in Conns /\ Bare(conn[c]) /\ SetsConn(c, now)
  BY <1>2 DEF Conns, ContactInv, SetsConn, Closed
<1>6. IsConn(now) /\ Bare(now)
  BY Empty DEF Free, IsConn, Bare
<1>7. UNCHANGED <<target, sent, lost, skipped>> /\ target \in Loggers \cup {NoLogger}
  BY <1>1 DEF OpenRadioSocket, ContactTypes
<1> HIDE DEF now, c
<1> QED BY <1>4, <1>5, <1>6, <1>7, BareHasNoWay, OneConn

LEMMA SocketIsLost ==
  ASSUME ContactInv, NEW w \in Loggers, LoseRadioSocket(w)
  PROVE  ContactInv'
<1> DEFINE new == [window[w] EXCEPT !.link = 0, !.shown = FALSE]
           c == LinkOf(w)
           now == [conn[c] EXCEPT !.gone = TRUE, !.told = <<>>, !.events = <<>>, !.contacts = <<>>]
<1>1. ContactTypes /\ IsWindow(window[w]) /\ window[w].link # 0
  BY DEF ContactInv, ContactTypes, LoseRadioSocket
<1>2. c \in Conns /\ OwnerOf(c) = w /\ IsConn(conn[c])
  BY <1>1, LinkIsAConn DEF ContactTypes
<1>3. IsWindow(new) /\ new.logged = window[w].logged
  BY <1>1 DEF IsWindow
<1>3w. window' = [window EXCEPT ![w] = new]
  BY DEF LoseRadioSocket
<1>4. /\ window' = [v \in Loggers |-> window'[v]]
      /\ \A v \in Loggers : IsWindow(window'[v]) /\ window'[v].logged = window[v].logged
  <2> HIDE DEF new
  <2> QED BY <1>1, <1>3, <1>3w, WindowStep
<1>5. SetsConn(c, now)
  BY DEF LoseRadioSocket, SetsConn
<1>6. IsConn(now) /\ Bare(now)
  BY <1>2, Empty DEF IsConn, Bare
<1>7. lost \subseteq lost' /\ \A n \in 1..Len(sent) : Way(c, n) => n \in lost'
  BY <1>2 DEF LoseRadioSocket, Way
<1>8. UNCHANGED <<target, sent, skipped>> /\ target \in Loggers \cup {NoLogger}
  BY <1>1 DEF LoseRadioSocket, ContactTypes
<1> HIDE DEF now, c
<1> QED BY <1>2, <1>4, <1>5, <1>6, <1>7, <1>8, OneConn

LEMMA TargetIsHeardOf ==
  ASSUME ContactInv, NEW w \in Loggers, HearTarget(w)
  PROVE  ContactInv'
<1> DEFINE c == LinkOf(w)
           t == Head(conn[c].told)
           new == Heard(window[w], w, t)
           up == IF t = NoLogger /\ window[w].intent THEN Append(conn[c].up, TRUE) ELSE conn[c].up
           now == [conn[c] EXCEPT !.told = Tail(conn[c].told), !.up = up]
<1>1. ContactTypes /\ IsWindow(window[w]) /\ window[w].link # 0
  BY DEF ContactInv, ContactTypes, HearTarget
<1>2. c \in Conns /\ IsConn(conn[c])
  BY <1>1, LinkIsAConn DEF ContactTypes
<1>3. IsWindow(new) /\ new.logged = window[w].logged
  BY <1>1 DEF IsWindow, Heard
<1>4. window' = [window EXCEPT ![w] = new]
  BY DEF HearTarget
<1>5. /\ window' = [v \in Loggers |-> window'[v]]
      /\ \A v \in Loggers : IsWindow(window'[v]) /\ window'[v].logged = window[v].logged
  <2> HIDE DEF new
  <2> QED BY <1>1, <1>3, <1>4, WindowStep
<1>6. SetsConn(c, now)
  BY DEF HearTarget, SetsConn
<1>7. /\ IsConn(now) /\ now.events = conn[c].events /\ now.contacts = conn[c].contacts
      /\ now.gone = conn[c].gone /\ now.state = conn[c].state
  <2> HIDE DEF up
  <2> QED BY <1>2 DEF IsConn
<1>8. Closed(now) => Bare(now)
  BY <1>2, <1>7 DEF ContactInv, Closed, Bare
<1>9. UNCHANGED <<target, sent, lost, skipped>> /\ target \in Loggers \cup {NoLogger}
  BY <1>1 DEF HearTarget, ContactTypes
<1> HIDE DEF now, c
<1> QED BY <1>2, <1>5, <1>6, <1>7, <1>8, <1>9, OneConn


(* A window logs the first contact on its way.                              *)
LEMMA ContactIsLogged ==
  ASSUME ContactInv, NEW w \in Loggers, HearContact(w)
  PROVE  ContactInv'
<1> DEFINE c == LinkOf(w)
           first == Head(conn[c].contacts)
           rest == Tail(conn[c].contacts)
           new == [window[w] EXCEPT !.logged = window[w].logged \cup {first}]
           now == [conn[c] EXCEPT !.contacts = rest]
<1>1. ContactTypes /\ IsWindow(window[w]) /\ window[w].link # 0
  BY DEF ContactInv, ContactTypes, HearContact
<1>2. c \in Conns /\ OwnerOf(c) = w /\ IsConn(conn[c]) /\ conn[c].contacts # <<>>
  BY <1>1, LinkIsAConn DEF ContactTypes, HearContact
<1>3. rest \in Seq(Nat) /\ In(conn[c].contacts) = In(rest) \cup {first}
  <2>1. conn[c].contacts \in Seq(Nat)
    BY <1>2 DEF IsConn
  <2> DEFINE q == conn[c].contacts
  <2>2. q \in Seq(Nat) /\ q # <<>>
    BY <1>2, <2>1
  <2> HIDE DEF q
  <2>3. Tail(q) \in Seq(Nat) /\ In(q) = In(Tail(q)) \cup {Head(q)}
    BY <2>2, InTail
  <2> QED BY <2>3 DEF q
<1>4. first \in 1..Len(sent) /\ sent[first] = w
  BY <1>2, <1>3 DEF ContactInv, ForOwner
<1>5. UNCHANGED <<target, sent, lost, skipped>>
  BY DEF HearContact
<1>6. /\ window' = [v \in Loggers |-> window'[v]] /\ \A v \in Loggers : IsWindow(window'[v])
      /\ window'[w].logged = window[w].logged \cup {first}
      /\ \A v \in Loggers : v # w => window'[v] = window[v]
  <2>1. IsWindow(new) /\ new.logged = window[w].logged \cup {first}
    BY <1>1 DEF IsWindow
  <2>2. window' = [window EXCEPT ![w] = new]
    BY DEF HearContact
  <2> HIDE DEF new
  <2> QED BY <1>1, <2>1, <2>2, WindowStep
<1>7. /\ conn' = [d \in Conns |-> conn'[d]] /\ \A d \in Conns : IsConn(conn'[d])
      /\ conn'[c].contacts = rest /\ conn'[c].events = conn[c].events
      /\ conn'[c].gone = conn[c].gone /\ conn'[c].state = conn[c].state
      /\ \A d \in Conns : d # c => conn'[d] = conn[d]
  <2>1. /\ IsConn(now) /\ now.contacts = rest /\ now.events = conn[c].events
        /\ now.gone = conn[c].gone /\ now.state = conn[c].state
    BY <1>2, <1>3 DEF IsConn
  <2>2. SetsConn(c, now)
    BY DEF HearContact, SetsConn
  <2> HIDE DEF now
  <2> QED BY <1>1, <1>2, <2>1, <2>2, ConnStep
<1> HIDE DEF first, rest, c
<1>8. ContactTypes'
  BY <1>1, <1>5, <1>6, <1>7 DEF ContactTypes
<1>9. \A d \in Conns : Without(d) /\ Known(d, sent)'
  BY <1>2, <1>5, <1>7 DEF ContactInv, Without, Known, Closed, Bare
<1>10. \A d \in Conns : ForOwner(d, sent)'
  BY <1>3, <1>5, <1>7 DEF ContactInv, ForOwner
<1>11. \A v \in Loggers : \A n \in window'[v].logged : n \in 1..Len(sent') /\ sent'[n] = v
  BY <1>4, <1>5, <1>6 DEF ContactInv
<1>12. ASSUME NEW d \in Conns, NEW n \in 1..Len(sent), Way(d, n) PROVE Accounted(n)'
  <2>1. OwnerOf(d) = sent[n] /\ OnItsWay(d, n)
    BY <1>12 DEF Way
  <2>2. CASE n = first
    BY <1>4, <1>5, <1>6, <2>2 DEF Accounted
  <2>3. CASE d # c \/ \E k \in 1..Len(conn[d].events) : conn[d].events[k] = n
    BY <1>5, <1>7, <2>1, <2>3 DEF Accounted, OnItsWay
  <2>4. CASE d = c /\ n # first /\ n \in In(conn[c].contacts)
    <3>1. n \in In(rest)
      BY <1>3, <2>4
    <3> QED BY <1>5, <1>7, <2>1, <2>4, <3>1 DEF Accounted, OnItsWay, In
  <2> QED BY <2>1, <2>2, <2>3, <2>4 DEF OnItsWay, In
<1> QED BY <1>5, <1>6, <1>8, <1>9, <1>10, <1>11, <1>12, WaysStep

-----------------------------------------------------------------------------
(* A session.                                                               *)
LEMMA ListenerIsAcquired ==
  ASSUME ContactInv, NEW c \in Conns, AcquireListener(c)
  PROVE  ContactInv'
<1> DEFINE told == IF conn[c].gone THEN <<>> ELSE <<target>> \o conn[c].told
           now == [conn[c] EXCEPT !.state = "open", !.data = FALSE, !.told = told]
<1>1. IsConn(conn[c]) /\ ContactTypes /\ (conn[c].gone => Bare(conn[c]))
  BY DEF ContactInv, ContactTypes, Closed
<1>2. SetsConn(c, now)
  BY DEF AcquireListener, SetsConn
<1>3. /\ IsConn(now) /\ now.events = conn[c].events /\ now.contacts = conn[c].contacts
      /\ now.gone = conn[c].gone /\ now.state = "open"
  <2> HIDE DEF told
  <2> QED BY <1>1 DEF IsConn
<1>4. UNCHANGED <<target, sent, lost, skipped, window>>
  BY DEF AcquireListener
<1> HIDE DEF now
<1>5. Closed(now) => Bare(now)
  BY <1>1, <1>3 DEF Closed, Bare
<1> QED BY <1>1, <1>2, <1>3, <1>4, <1>5, OneConn DEF ContactTypes

LEMMA TargetIsSet ==
  ASSUME ContactInv, NEW c \in Conns, SetTarget(c)
  PROVE  ContactInv'
<1> DEFINE now == [conn[c] EXCEPT !.up = Tail(conn[c].up), !.say = target']
<1>1. IsConn(conn[c]) /\ ContactTypes /\ conn[c].state = "open"
  BY DEF ContactInv, ContactTypes, SetTarget
<1>2. SetsConn(c, now)
  BY DEF SetTarget, SetsConn
<1>3. /\ IsConn(now) /\ now.events = conn[c].events /\ now.contacts = conn[c].contacts
      /\ now.gone = conn[c].gone /\ now.state = conn[c].state
  BY <1>1 DEF IsConn
<1>4. UNCHANGED <<sent, lost, skipped, window>>
  BY DEF SetTarget
<1>5. target' \in Loggers \cup {NoLogger}
  <2>1. target' \in {OwnerOf(c), NoLogger, target}
    <3>1. \A t, v, on : TargetAfter(t, v, on) \in {v, NoLogger, t}
      BY DEF TargetAfter
    <3>2. target' = TargetAfter(target, OwnerOf(c), Head(conn[c].up))
      BY DEF SetTarget
    <3> QED BY <3>1, <3>2
  <2>2. OwnerOf(c) \in Loggers /\ target \in Loggers \cup {NoLogger}
    BY <1>1 DEF ContactTypes, OwnerOf, Conns
  <2> QED BY <2>1, <2>2
<1>6. Closed(now) => Bare(now)
  BY <1>1, <1>3 DEF ContactInv, Closed, Bare
<1> HIDE DEF now
<1> QED BY <1>1, <1>2, <1>3, <1>4, <1>5, <1>6, OneConn DEF ContactTypes

LEMMA TargetIsSaid ==
  ASSUME ContactInv, NEW c \in Conns, SayTarget(c)
  PROVE  ContactInv'
<1>1. ContactTypes /\ \A d \in Conns : IsConn(conn[d])
  BY DEF ContactInv, ContactTypes
<1>2. conn' = [d \in Conns |-> conn'[d]]
  BY DEF SayTarget
<1>3. ASSUME NEW d \in Conns
      PROVE  /\ IsConn(conn'[d]) /\ Unmoved(d)
             /\ conn'[d].gone = conn[d].gone /\ conn'[d].state = conn[d].state
  <2> DEFINE told == Append(conn[d].told, conn[c].say)
             listener == IF Hears(d) THEN [conn[d] EXCEPT !.told = told] ELSE conn[d]
  <2>1. conn'[d] = IF d = c THEN [listener EXCEPT !.say = NoWord] ELSE listener
    BY DEF SayTarget
  <2>2. /\ IsConn(listener)
        /\ listener.events = conn[d].events /\ listener.contacts = conn[d].contacts
        /\ listener.gone = conn[d].gone /\ listener.state = conn[d].state
    <3> HIDE DEF told
    <3> QED BY <1>1 DEF IsConn
  <2> HIDE DEF listener
  <2> QED BY <2>1, <2>2 DEF IsConn, Unmoved
<1>4. UNCHANGED <<target, sent, lost, skipped, window>>
  BY DEF SayTarget
<1>5. ContactTypes'
  BY <1>1, <1>2, <1>3, <1>4 DEF ContactTypes
<1>6. \A d \in Conns : Without(d)
  BY <1>3 DEF Without, ContactInv, Closed, Bare, Unmoved
<1> QED BY <1>3, <1>4, <1>5, <1>6, ContactsStay

LEMMA ListenerIsReleased ==
  ASSUME ContactInv, NEW c \in Conns, ReleaseListener(c) \/ FinishRelease(c)
  PROVE  ContactInv'
<1>1. IsConn(conn[c]) /\ ContactTypes
  BY DEF ContactInv, ContactTypes
<1>2. UNCHANGED <<sent, lost, skipped, window>> /\ target' \in Loggers \cup {NoLogger}
  BY <1>1 DEF ReleaseListener, FinishRelease, ContactTypes
<1>3. Bare(conn[c])
  BY DEF ContactInv, ReleaseListener, FinishRelease, Closed
<1>4. PICK now : (conn' = conn \/ SetsConn(c, now)) /\ IsConn(now) /\ Bare(now)
  <2>1. CASE ReleaseListener(c)
    <3> DEFINE ends == \A w \in Loggers : refs'[w] = 0
               live == CHOOSE g \in Controllers : controller[g].state = "live"
               word == IF ClearsTarget(OwnerOf(c)) THEN NoLogger ELSE NoWord
               waits == IF ends THEN live ELSE 0
               now == [Free EXCEPT !.state = "leaving", !.say = word, !.waits = waits]
    <3>1. SetsConn(c, now)
      BY <2>1 DEF ReleaseListener, SetsConn
    <3>2. IsConn(now) /\ Bare(now)
      <4> HIDE DEF word, waits
      <4> QED BY Empty DEF Free, IsConn, Bare
    <3> HIDE DEF now
    <3> QED BY <3>1, <3>2
  <2>2. CASE FinishRelease(c)
    <3>1. conn' = conn \/ SetsConn(c, Free)
      BY <2>2 DEF FinishRelease, SetsConn
    <3>2. IsConn(Free) /\ Bare(Free)
      BY Empty DEF Free, IsConn, Bare
    <3> QED BY <3>1, <3>2
  <2> QED BY <2>1, <2>2
<1>5. CASE conn' = conn
  <2>1. ContactTypes'
    BY <1>1, <1>2, <1>5 DEF ContactTypes
  <2> QED BY <1>2, <1>5, <2>1, ContactsStay DEF Without, Unmoved, ContactInv
<1>6. CASE SetsConn(c, now)
  BY <1>1, <1>2, <1>3, <1>4, <1>6, BareHasNoWay, OneConn DEF ContactTypes
<1> QED BY <1>4, <1>5, <1>6


-----------------------------------------------------------------------------
(* The channel of the events: an event reaches every bridge that hears, and *)
(* what one that lags misses is skipped.                                    *)
LEMMA EmitStep ==
  ASSUME ContactInv, NEW n \in Nat, Emit(n)
  PROVE  /\ conn' = [d \in Conns |-> conn'[d]] /\ skipped \subseteq skipped'
         /\ \A d \in Conns :
              /\ IsConn(conn'[d]) /\ conn'[d].contacts = conn[d].contacts
              /\ conn'[d].gone = conn[d].gone /\ conn'[d].state = conn[d].state
              /\ Closed(conn[d]) => conn'[d] = conn[d]
              /\ In(conn'[d].events) \subseteq In(conn[d].events) \cup {n}
              /\ Hears(d) => n \in In(conn'[d].events)
              /\ \A m \in 1..Len(sent) : Way(d, m) => m \in skipped' \/ OnItsWay(d, m)'
<1>1. /\ conn' = [d \in Conns |-> conn'[d]] /\ skipped \subseteq skipped'
      /\ \A d \in Conns : conn'[d] = IF Hears(d) THEN [conn[d] EXCEPT !.events = Append(Misses(d), n)]
                                     ELSE conn[d]
  BY DEF Emit
<1>2. ASSUME NEW d \in Conns, ~Hears(d)
      PROVE  /\ IsConn(conn'[d]) /\ conn'[d] = conn[d]
             /\ \A m \in 1..Len(sent) : Way(d, m) => OnItsWay(d, m)'
  BY <1>1, <1>2 DEF ContactInv, ContactTypes, Way, OnItsWay
<1>3. ASSUME NEW d \in Conns, Hears(d)
      PROVE  /\ IsConn(conn'[d]) /\ conn'[d].contacts = conn[d].contacts
             /\ conn'[d].gone = conn[d].gone /\ conn'[d].state = conn[d].state
             /\ ~Closed(conn[d])
             /\ In(conn'[d].events) \subseteq In(conn[d].events) \cup {n} /\ n \in In(conn'[d].events)
             /\ \A m \in 1..Len(sent) : Way(d, m) => m \in skipped' \/ OnItsWay(d, m)'
  <2> DEFINE q == conn[d].events
             r == Misses(d)
             s == Append(r, n)
  <2>1. IsConn(conn[d]) /\ q \in Seq(Nat)
    BY DEF ContactInv, ContactTypes, IsConn
  <2>2. /\ r \in Seq(Nat) /\ In(r) \subseteq In(q)
        /\ \A m \in 1..Len(sent) : Way(d, m) /\ m \in In(q) => m \in In(r) \cup skipped'
    <3>1. CASE Lags(d)
      <4>1. q # <<>> /\ r = Tail(q)
        BY <2>1, <3>1, SlotsAssumption DEF Lags, Misses
      <4>2. r \in Seq(Nat) /\ In(q) = In(r) \cup {Head(q)}
        BY <2>1, <4>1, InTail
      <4>3. ASSUME NEW m \in 1..Len(sent), Way(d, m), m = Head(q) PROVE m \in skipped'
        <5>1. Passes(d, m)
          BY <4>3 DEF Way, Passes, NoContact
        <5> QED BY <3>1, <4>3, <5>1 DEF Emit
      <4> QED BY <4>2, <4>3
    <3>2. CASE ~Lags(d)
      BY <2>1, <3>2 DEF Misses
    <3> QED BY <3>1, <3>2
  <2>3. s \in Seq(Nat) /\ In(s) = In(r) \cup {n}
    BY <2>2, InAppend
  <2>4. conn'[d] = [conn[d] EXCEPT !.events = s]
    BY <1>1, <1>3
  <2> HIDE DEF q, r, s
  <2>5. /\ IsConn(conn'[d]) /\ conn'[d].contacts = conn[d].contacts /\ conn'[d].events = s
        /\ conn'[d].gone = conn[d].gone /\ conn'[d].state = conn[d].state
    BY <2>1, <2>3, <2>4 DEF IsConn
  <2>6. ~Closed(conn[d])
    BY <1>3 DEF Hears, Closed
  <2>7. ASSUME NEW m \in 1..Len(sent), Way(d, m) PROVE m \in skipped' \/ OnItsWay(d, m)'
    <3>1. m \in In(q) \/ \E k \in 1..Len(conn[d].contacts) : conn[d].contacts[k] = m
      BY <2>7 DEF Way, OnItsWay, In, q
    <3>2. m \in In(s) => OnItsWay(d, m)'
      BY <2>5 DEF OnItsWay, In
    <3> QED BY <2>2, <2>3, <2>5, <2>7, <3>1, <3>2 DEF OnItsWay
  <2> QED BY <2>2, <2>3, <2>5, <2>6, <2>7 DEF q
<1> QED BY <1>1, <1>2, <1>3 DEF Hears, Closed

LEMMA OtherIsSent ==
  ASSUME ContactInv, OtherEvent
  PROVE  ContactInv'
<1>1. UNCHANGED <<target, window, sent, lost>> /\ Emit(NoContact) /\ NoContact \in Nat
  BY DEF OtherEvent, NoContact
<1>2. /\ conn' = [d \in Conns |-> conn'[d]] /\ skipped \subseteq skipped'
      /\ \A d \in Conns :
           /\ IsConn(conn'[d]) /\ conn'[d].contacts = conn[d].contacts
           /\ conn'[d].gone = conn[d].gone /\ conn'[d].state = conn[d].state
           /\ Closed(conn[d]) => conn'[d] = conn[d]
           /\ In(conn'[d].events) \subseteq In(conn[d].events) \cup {NoContact}
           /\ \A m \in 1..Len(sent) : Way(d, m) => m \in skipped' \/ OnItsWay(d, m)'
  BY <1>1, EmitStep
<1>3. ContactTypes'
  BY <1>1, <1>2 DEF ContactInv, ContactTypes
<1>4. ASSUME NEW d \in Conns
      PROVE  Without(d) /\ Known(d, sent)' /\ ForOwner(d, sent)'
  <2>1. Without(d)
    BY <1>2 DEF ContactInv, Without, Closed
  <2>2. 0 \in 0..Len(sent)
    BY LenProperties DEF ContactInv, ContactTypes
  <2>3. Known(d, sent)'
    BY <1>1, <1>2, <2>2 DEF ContactInv, Known, NoContact
  <2>4. ForOwner(d, sent)'
    BY <1>1, <1>2 DEF ContactInv, ForOwner
  <2> QED BY <2>1, <2>3, <2>4
<1>5. ASSUME NEW d \in Conns, NEW m \in 1..Len(sent), Way(d, m) PROVE Accounted(m)'
  BY <1>1, <1>2, <1>5 DEF Way, Accounted
<1>6. \A v \in Loggers : \A m \in window'[v].logged : m \in 1..Len(sent') /\ sent'[m] = v
  BY <1>1 DEF ContactInv
<1> QED BY <1>1, <1>2, <1>3, <1>4, <1>5, <1>6, WaysStep

(* A datagram: the contact is new, and waits for the bridge of every        *)
(* connection of the target that hears, or is lost.                         *)
LEMMA ContactIsSent ==
  ASSUME ContactInv, NEW g \in Controllers, LoggedAdif(g)
  PROVE  ContactInv'
<1>0. PICK w, n : w = WatchedBy(g) /\ n = Len(sent) + 1
  OBVIOUS
<1>1. ContactTypes
  BY DEF ContactInv
<1>2. UNCHANGED <<target, window>>
  BY DEF LoggedAdif
<1>3. CASE w = NoLogger
  <2>1. UNCHANGED <<conn, sent, lost, skipped>>
    BY <1>0, <1>3 DEF LoggedAdif
  <2>2. ContactTypes'
    BY <1>1, <1>2, <2>1 DEF ContactTypes
  <2> QED BY <1>2, <2>1, <2>2, ContactsStay DEF Without, Unmoved, ContactInv
<1>4. CASE w # NoLogger
  <2>1. w \in Loggers
    BY <1>0, <1>1, <1>4 DEF WatchedBy, ContactTypes
  <2>2. /\ sent' = Append(sent, w) /\ Emit(n)
        /\ lost' = IF \E d \in Conns : Hears(d) /\ OwnerOf(d) = w THEN lost ELSE lost \cup {n}
    BY <1>0, <1>4 DEF LoggedAdif
  <2>3. /\ sent' \in Seq(Loggers) /\ Len(sent') = n /\ sent'[n] = w /\ n \in 1..Len(sent')
        /\ Len(sent) \in Nat /\ n \in Nat /\ n \in 0..Len(sent')
        /\ \A m \in 1..Len(sent) : sent'[m] = sent[m] /\ m \in 1..Len(sent') /\ m # n
        /\ \A m \in 1..Len(sent') : m = n \/ m \in 1..Len(sent)
        /\ \A m \in 0..Len(sent) : m \in 0..Len(sent')
    <3>1. sent \in Seq(Loggers)
      BY <1>1 DEF ContactTypes
    <3> QED BY <1>0, <2>1, <2>2, <3>1, AppendProperties, LenProperties
  <2>4. /\ conn' = [d \in Conns |-> conn'[d]] /\ skipped \subseteq skipped'
        /\ \A d \in Conns :
             /\ IsConn(conn'[d]) /\ conn'[d].contacts = conn[d].contacts
             /\ conn'[d].gone = conn[d].gone /\ conn'[d].state = conn[d].state
             /\ Closed(conn[d]) => conn'[d] = conn[d]
             /\ In(conn'[d].events) \subseteq In(conn[d].events) \cup {n}
             /\ Hears(d) => n \in In(conn'[d].events)
             /\ \A m \in 1..Len(sent) : Way(d, m) => m \in skipped' \/ OnItsWay(d, m)'
    BY <2>2, <2>3, EmitStep
  <2>5. ContactTypes'
    BY <1>1, <1>2, <2>3, <2>4 DEF ContactTypes
  <2>6. ASSUME NEW d \in Conns
        PROVE  Without(d) /\ Known(d, sent)' /\ ForOwner(d, sent)'
    <3>1. Without(d)
      BY <2>4 DEF ContactInv, Without, Closed
    <3>2. Known(d, sent)'
      <4>1. Known(d, sent) /\ In(conn'[d].events) \subseteq In(conn[d].events) \cup {n}
        BY <2>4 DEF ContactInv
      <4> QED BY <2>3, <4>1 DEF Known
    <3>3. ForOwner(d, sent)'
      BY <2>3, <2>4 DEF ContactInv, ForOwner
    <3> QED BY <3>1, <3>2, <3>3
  <2>7. ASSUME NEW d \in Conns, NEW m \in 1..Len(sent), Way(d, m) PROVE Accounted(m)'
    BY <2>3, <2>4, <2>7 DEF Way, Accounted
  <2>8. Accounted(n)'
    <3>1. CASE \E d \in Conns : Hears(d) /\ OwnerOf(d) = w
      <4>1. PICK d \in Conns : Hears(d) /\ OwnerOf(d) = w
        BY <3>1
      <4>2. OnItsWay(d, n)'
        BY <2>4, <4>1 DEF OnItsWay, In
      <4> QED BY <2>3, <4>1, <4>2 DEF Accounted
    <3>2. CASE ~\E d \in Conns : Hears(d) /\ OwnerOf(d) = w
      BY <2>2, <3>2 DEF Accounted
    <3> QED BY <3>1, <3>2
  <2>9. \A v \in Loggers : \A m \in window'[v].logged : m \in 1..Len(sent') /\ sent'[m] = v
    BY <1>2, <2>3 DEF ContactInv
  <2>10. lost \subseteq lost'
    BY <2>2
  <2>11. \A m \in 1..Len(sent') : m \in 1..Len(sent) \/ Accounted(m)'
    BY <2>3, <2>8
  <2> QED BY <1>2, <2>3, <2>4, <2>5, <2>6, <2>7, <2>9, <2>10, <2>11, WaysStep
<1> QED BY <1>3, <1>4

(* A bridge reads an event, and passes on what is for its window.           *)
LEMMA EventIsRead ==
  ASSUME ContactInv, NEW c \in Conns, PassOn(c)
  PROVE  ContactInv'
<1> DEFINE q == conn[c].events
           n == Head(q)
           out == IF Passes(c, n) THEN Append(conn[c].contacts, n) ELSE conn[c].contacts
           now == [conn[c] EXCEPT !.events = Tail(q), !.contacts = out]
<1>1. ContactTypes /\ IsConn(conn[c]) /\ q # <<>> /\ conn[c].state = "open"
  BY DEF ContactInv, ContactTypes, PassOn
<1>2. q \in Seq(Nat) /\ conn[c].contacts \in Seq(Nat)
  BY <1>1 DEF IsConn
<1>3. Tail(q) \in Seq(Nat) /\ n \in Nat /\ In(q) = In(Tail(q)) \cup {n}
  BY <1>1, <1>2, InTail
<1>4. SetsConn(c, now)
  BY DEF PassOn, SetsConn
<1>5. UNCHANGED <<target, window, sent, lost, skipped>>
  BY DEF PassOn
<1>6. /\ out \in Seq(Nat) /\ In(conn[c].contacts) \subseteq In(out)
      /\ In(out) \subseteq In(conn[c].contacts) \cup {n}
      /\ Passes(c, n) => n \in In(out)
      /\ ~Passes(c, n) => out = conn[c].contacts
  BY <1>2, <1>3, InAppend
<1> HIDE DEF out, n
<1>7. /\ IsConn(now) /\ now.events = Tail(q) /\ now.contacts = out
      /\ now.gone = conn[c].gone /\ now.state = conn[c].state
  <2>1. Tail(q) \in Seq(Nat) /\ out \in Seq(Nat)
    BY <1>3, <1>6
  <2> DEFINE r == Tail(q)
  <2> HIDE DEF r, q
  <2> QED BY <1>1, <2>1 DEF IsConn, r
<1>8. /\ conn' = [d \in Conns |-> conn'[d]] /\ \A d \in Conns : IsConn(conn'[d])
      /\ conn'[c] = now /\ \A d \in Conns : d # c => conn'[d] = conn[d]
  <2> HIDE DEF now
  <2> QED BY <1>1, <1>4, <1>7, ConnStep
<1>9. ContactTypes'
  BY <1>1, <1>5, <1>8 DEF ContactTypes
<1> HIDE DEF now
<1>10. ~Closed(conn[c])
  BY <1>1 DEF ContactInv, Closed, Bare
<1>11. ASSUME NEW d \in Conns, d # c
       PROVE  /\ Without(d) /\ Known(d, sent)' /\ ForOwner(d, sent)'
              /\ \A m \in 1..Len(sent) : Way(d, m) => Accounted(m)'
  BY <1>5, <1>8, <1>11 DEF ContactInv, Without, Known, ForOwner, Way, OnItsWay, Accounted
<1>12. Without(c)
  BY <1>7, <1>8, <1>10 DEF Without, Closed
<1>13. Known(c, sent)' /\ n \in 0..Len(sent)
  BY <1>3, <1>5, <1>7, <1>8 DEF ContactInv, Known
<1>14. ForOwner(c, sent)'
  <2>1. Passes(c, n) => n \in 1..Len(sent) /\ sent[n] = OwnerOf(c)
    BY <1>13, LenProperties DEF Passes, NoContact, ContactInv, ContactTypes
  <2> QED BY <1>5, <1>6, <1>7, <1>8, <2>1 DEF ContactInv, ForOwner
<1>15. ASSUME NEW m \in 1..Len(sent), Way(c, m) PROVE Accounted(m)'
  <2>1. OwnerOf(c) = sent[m] /\ m \in In(q) \cup In(conn[c].contacts)
    BY <1>15 DEF Way, OnItsWay, In
  <2>2. m = n => Passes(c, n)
    BY <2>1 DEF Passes, NoContact
  <2>3. m \in In(Tail(q)) \cup In(out)
    BY <1>3, <1>6, <2>1, <2>2
  <2>4. OnItsWay(c, m)'
    BY <1>7, <1>8, <2>3 DEF OnItsWay, In
  <2> QED BY <1>5, <2>1, <2>4 DEF Accounted
<1>16. \A v \in Loggers : \A m \in window'[v].logged : m \in 1..Len(sent') /\ sent'[m] = v
  BY <1>5 DEF ContactInv
<1> QED BY <1>5, <1>9, <1>11, <1>12, <1>13, <1>14, <1>15, <1>16, WaysStep

(* An event moves nothing but contacts.                                     *)
Events == \/ \E g \in Controllers : LoggedAdif(g)
          \/ OtherEvent
          \/ \E c \in Conns : PassOn(c)

LEMMA EventsKeep ==
  ASSUME ContactInv, Events
  PROVE  /\ UNCHANGED <<target, refs, controller, inData, crossed, window>>
         /\ \A d \in Conns :
              /\ conn'[d].state = conn[d].state /\ conn'[d].gone = conn[d].gone
              /\ conn'[d].data = conn[d].data /\ conn'[d].up = conn[d].up
              /\ conn'[d].told = conn[d].told /\ conn'[d].say = conn[d].say
<1>1. conn = [d \in Conns |-> conn[d]] /\ \A d \in Conns : IsConn(conn[d])
  BY DEF ContactInv, ContactTypes
<1>2. ASSUME NEW n, Emit(n), NEW d \in Conns
      PROVE  /\ conn'[d].state = conn[d].state /\ conn'[d].gone = conn[d].gone
             /\ conn'[d].data = conn[d].data /\ conn'[d].up = conn[d].up
             /\ conn'[d].told = conn[d].told /\ conn'[d].say = conn[d].say
  <2>1. PICK q : conn'[d] = [conn[d] EXCEPT !.events = q] \/ conn'[d] = conn[d]
    BY <1>2 DEF Emit
  <2> QED BY <1>1, <2>1 DEF IsConn
<1>3. CASE \E g \in Controllers : LoggedAdif(g)
  <2>1. /\ UNCHANGED <<target, refs, controller, inData, crossed, window>>
        /\ UNCHANGED conn \/ Emit(Len(sent) + 1)
    BY <1>3 DEF LoggedAdif
  <2> QED BY <1>2, <2>1
<1>4. CASE OtherEvent
  BY <1>2, <1>4 DEF OtherEvent
<1>5. ASSUME NEW c \in Conns, PassOn(c)
      PROVE  /\ UNCHANGED <<target, refs, controller, inData, crossed, window>>
             /\ \A d \in Conns :
                  /\ conn'[d].state = conn[d].state /\ conn'[d].gone = conn[d].gone
                  /\ conn'[d].data = conn[d].data /\ conn'[d].up = conn[d].up
                  /\ conn'[d].told = conn[d].told /\ conn'[d].say = conn[d].say
  <2>1. PICK q, out : conn' = [conn EXCEPT ![c] = [conn[c] EXCEPT !.events = q, !.contacts = out]]
    BY <1>5 DEF PassOn
  <2>2. \A d \in Conns \ {c} : conn'[d] = conn[d]
    BY <1>1, <2>1
  <2>3. conn'[c] = [conn[c] EXCEPT !.events = q, !.contacts = out]
    BY <1>1, <2>1
  <2>4. UNCHANGED <<target, refs, controller, inData, crossed, window>>
    BY <1>5 DEF PassOn
  <2> QED BY <1>1, <2>2, <2>3, <2>4 DEF IsConn
<1> QED BY <1>3, <1>4, <1>5 DEF Events

LEMMA ContactsStart == WsjtXInit => ContactInv
<1> SUFFICES ASSUME WsjtXInit PROVE ContactInv
  OBVIOUS
<1>1. ASSUME NEW c \in Conns
      PROVE  IsConn(conn[c]) /\ Bare(conn[c])
  BY Empty DEF WsjtXInit, Free, IsConn, Bare
<1>2. ASSUME NEW w \in Loggers
      PROVE  IsWindow(window[w]) /\ window[w].logged = {}
  BY DEF WsjtXInit, IsWindow
<1>3. sent = <<>> /\ target \in Loggers \cup {NoLogger}
  BY TargetsAssumption DEF WsjtXInit
<1>4. conn = [c \in Conns |-> conn[c]] /\ window = [w \in Loggers |-> window[w]]
  BY DEF WsjtXInit
<1>5. ContactTypes
  BY <1>1, <1>2, <1>3, <1>4 DEF ContactTypes
<1>6. \A c \in Conns : Known(c, sent) /\ ForOwner(c, sent)
  BY <1>1 DEF Known, ForOwner, Bare, In
<1> QED BY <1>1, <1>2, <1>3, <1>5, <1>6 DEF ContactInv, ContactsGoToTheTarget

LEMMA ContactInvStep == ContactInv /\ [WsjtXNext]_wsjtxVars => ContactInv'
<1> SUFFICES ASSUME ContactInv, [WsjtXNext]_wsjtxVars PROVE ContactInv'
  OBVIOUS
<1>0. ASSUME UNCHANGED <<target, conn, window, sent, lost, skipped>> PROVE ContactInv'
  <2>1. ContactTypes'
    BY <1>0 DEF ContactInv, ContactTypes
  <2> QED BY <1>0, <2>1, ContactsStay DEF Without, Unmoved, ContactInv
<1>1. CASE UNCHANGED wsjtxVars
  BY <1>0, <1>1 DEF wsjtxVars
<1>2. ASSUME NEW w \in Loggers, NEW on \in BOOLEAN, SetWsjtXTarget(w, on) PROVE ContactInv'
  BY <1>2, OperatorClicks
<1>3. ASSUME NEW w \in Loggers, OpenRadioSocket(w) \/ LoseRadioSocket(w) \/ Hearing(w)
      PROVE  ContactInv'
  BY <1>3, SocketOpens, SocketIsLost, TargetIsHeardOf, ContactIsLogged DEF Hearing
<1>4. ASSUME NEW c \in Conns, SocketSteps(c) PROVE ContactInv'
  BY <1>4, ListenerIsAcquired, TargetIsSet, TargetIsSaid, ListenerIsReleased DEF SocketSteps
<1>5. ASSUME NEW g \in Controllers, Control(g) \/ Listening(g) PROVE ContactInv'
  <2>1. UNCHANGED <<target, conn, window, sent, lost, skipped>>
    BY <1>5 DEF Control, Listening, TakeUpdate, TakeTarget, TakeShutdown, StartListener, ListenerStops,
                UnchangedButControllers
  <2> QED BY <1>0, <2>1
<1>6. ASSUME NEW g \in Controllers, LoggedAdif(g) PROVE ContactInv'
  BY <1>6, ContactIsSent
<1>7. ASSUME ChangeMode \/ OtherEvent PROVE ContactInv'
  BY <1>0, <1>7, OtherIsSent DEF ChangeMode
<1>8. ASSUME NEW c \in Conns, PassOn(c) PROVE ContactInv'
  BY <1>8, EventIsRead
<1> QED BY <1>1, <1>2, <1>3, <1>4, <1>5, <1>6, <1>7, <1>8 DEF WsjtXNext

(* However clicks, connections, broadcasts, modes and listeners cross, and  *)
(* however many events there are, a contact that WSJT-X logged is logged in *)
(* the window that was the target at that moment and in no other, is on its *)
(* way to it, its connection was gone, or its bridge was as many events     *)
(* behind as the channel holds (radio-io/src/wsjtx.rs,                      *)
(* WsjtXManager::new, wsjtx_event_message; useRadioSocket.js).              *)
THEOREM ContactsReachTheTarget == WsjtXSpec => []ContactsGoToTheTarget
<1>1. ContactInv => ContactsGoToTheTarget
  BY DEF ContactInv
<1> QED BY <1>1, ContactsStart, ContactInvStep, PTL DEF WsjtXSpec

-----------------------------------------------------------------------------
(* The texts of the digital interface.                                      *)

SomeOrNone == DigitalWindows \cup {NoWindow}

Request ==  [kind : {"text", "stop", "clear"}, text : Nat, by : Sockets]

IsControl(c) ==
  /\ c \in [state : {c.state}, digital : {c.digital}, wrong : {c.wrong}, refused : {c.refused},
            updates : {c.updates}, dirty : {c.dirty}, commands : {c.commands}]
  /\ c.dirty \in BOOLEAN /\ c.commands \in Seq(Request)

IsFace(f) ==
  /\ f \in [state : {f.state}, for : {f.for}, queue : {f.queue}, air : {f.air}, next : {f.next}]
  /\ f.state \in {"none", "up", "dead", "stopping", "gone"}
  /\ f.for \in SomeOrNone /\ f.next \in SomeOrNone
  /\ f.queue \in Seq(Request)
  /\ f.state \in {"none", "dead"} => f.queue = <<>>
  /\ f.state # "none" => f.for # NoWindow

IsSession(s) ==
  /\ s \in [state : {s.state}, mode : {s.mode}, asks : {s.asks}, at : {s.at}]
  /\ s.asks \in Seq(Request)

Text ==
  [by : DigitalWindows, steady : BOOLEAN, under : SomeOrNone,
   state : {"asked", "refused", "accepted", "air", "sent", "failed"}]

(* The controller has seen the target.                                      *)
Calm(ctl) == ctl.state = "live" /\ ~ctl.dirty

(* A text that is steady is bound for w.                                    *)
Goes(ts, c, w) ==
  /\ c.kind = "text" => c.text \in 1..Len(ts) /\ (ts[c.text].steady => ts[c.text].by = w)
  /\ c.kind # "text" => c.text = 0

(* It waits for a controller that has seen its window to be the target.     *)
Bound(ts, h, ctl, c) ==
  Goes(ts, c, h) /\ (c.kind = "text" /\ ts[c.text].steady => Calm(ctl))

(* The interface is that of the target, as far as the controller has seen.  *)
FaceFits(h, ctl, f) ==
  /\ Calm(ctl) => /\ f.state \in {"up", "dead"} => f.for = h
                  /\ f.state \in {"stopping", "gone"} => f.next \in {NoWindow, h}
  /\ ctl.state \in {"none", "done"} => f.state = "none"

RunBase(ts, h, ctl, f) ==
  /\ IsControl(ctl) /\ IsFace(f)
  /\ \A k \in 1..Len(ctl.commands) : Bound(ts, h, ctl, ctl.commands[k])
  /\ \A k \in 1..Len(f.queue) : Goes(ts, f.queue[k], f.for)
  /\ f.air \subseteq 1..Len(ts)

RunOK(ts, h, ctl, f) == RunBase(ts, h, ctl, f) /\ FaceFits(h, ctl, f)

(* A session waits for one answer, and it waits while there is a request.   *)
Asking(ss, s, g) == ss[s].state = "asking" /\ ss[s].at = g

WaitOK(g, cs, q, ss) ==
  /\ \A k \in 1..Len(cs) : Asking(ss, cs[k].by, g)
  /\ \A j, k \in 1..Len(cs) : cs[j].by = cs[k].by => j = k
  /\ \A k \in 1..Len(q) : q[k].kind # "text" =>
       Asking(ss, q[k].by, g) /\ \A j \in 1..Len(cs) : cs[j].by # q[k].by
  /\ \A j, k \in 1..Len(q) : q[j].kind # "text" /\ q[k].kind # "text" /\ q[j].by = q[k].by => j = k

AskOK(ts, h, ctls, s, one) ==
  /\ IsSession(one)
  /\ one.state \in {"checked", "leaving"} => one.at \in Runs
  /\ one.state = "checked" =>
       Len(one.asks) = 1 /\ one.asks[1].by = s /\ Bound(ts, h, ctls[one.at], one.asks[1])

DioReg(one) == one.state \in {"open", "checked", "asking"}

OneEntry(ctls, ss) ==
  /\ \A g, h \in Runs : ctls[g].state = "live" /\ ctls[h].state = "live" => g = h
  /\ (\E g \in Runs : ctls[g].state = "live") <=> (\E s \in Sockets : DioReg(ss[s]))

HolderIsThere(h, ss) == h = NoWindow \/ \E s \in Sockets : WindowOf(s) = h /\ DioReg(ss[s])

DigitalInv ==
  /\ texts \in Seq(Text) /\ holder \in SomeOrNone
  /\ control = [g \in Runs |-> control[g]] /\ face = [g \in Runs |-> face[g]]
  /\ session = [s \in Sockets |-> session[s]]
  /\ \A g \in Runs : RunOK(texts, holder, control[g], face[g])
  /\ \A g \in Runs : WaitOK(g, control[g].commands, face[g].queue, session)
  /\ \A s \in Sockets : AskOK(texts, holder, control, s, session[s])
  /\ OneEntry(control, session) /\ HolderIsThere(holder, session)
  /\ TextsGoOutForTheirWindow

-----------------------------------------------------------------------------
(* Texts are added, and those there are keep their window; a text that is no *)
(* longer steady stays so.                                                  *)
Aged(ts, us) ==
  /\ ts \in Seq(Text) /\ us \in Seq(Text) /\ Len(ts) =< Len(us)
  /\ \A n \in 1..Len(ts) : us[n].by = ts[n].by /\ (us[n].steady => ts[n].steady)

LEMMA SameAge == ASSUME NEW ts \in Seq(Text) PROVE Aged(ts, ts)
BY DEF Aged

LEMMA TextOf == ASSUME NEW ts \in Seq(Text), NEW n \in 1..Len(ts) PROVE ts[n] \in Text
OBVIOUS

LEMMA BoundKept ==
  ASSUME NEW ts, NEW us, Aged(ts, us), NEW h, NEW c, NEW ctl, NEW new, Calm(ctl) => Calm(new),
         Bound(ts, h, ctl, c)
  PROVE  Bound(us, h, new, c)
BY DEF Aged, Bound, Goes

LEMMA GoesKept ==
  ASSUME NEW ts, NEW us, Aged(ts, us), NEW w, NEW c, Goes(ts, c, w)
  PROVE  Goes(us, c, w)
BY DEF Aged, Goes

(* A run that does not change, when texts age.                              *)
LEMMA RunKept ==
  ASSUME NEW ts, NEW us, Aged(ts, us), NEW h, NEW ctl, NEW f, RunOK(ts, h, ctl, f)
  PROVE  RunOK(us, h, ctl, f)
<1>1. \A k \in 1..Len(ctl.commands) : Bound(us, h, ctl, ctl.commands[k])
  BY BoundKept DEF RunOK, RunBase
<1>2. \A k \in 1..Len(f.queue) : Goes(us, f.queue[k], f.for)
  BY GoesKept DEF RunOK, RunBase
<1>3. f.air \subseteq 1..Len(us)
  BY DEF RunOK, RunBase, Aged
<1> QED BY <1>1, <1>2, <1>3 DEF RunOK, RunBase

LEMMA NoRequests == <<>> \in Seq(Request)
OBVIOUS

LEMMA RequestAt ==
  ASSUME NEW q \in Seq(Request), NEW k \in 1..Len(q)
  PROVE  q[k] \in Request /\ q[k].by \in Sockets /\ q[k].kind \in {"text", "stop", "clear"} /\ q[k].text \in Nat
<1>1. q[k] \in Request
  OBVIOUS
<1> QED BY <1>1 DEF Request

LEMMA Opens == IsSession([Out EXCEPT !.state = "open"])
BY NoRequests DEF IsSession, Out

(* One run changes; sessions that waited for it may be answered.            *)
Answers(g, s) ==
  \/ session'[s] = session[s]
  \/ Asking(session, s, g) /\ session'[s] = [Out EXCEPT !.state = "open"]

LEMMA RunStep ==
  ASSUME DigitalInv, NEW g \in Runs,
         control' = [control EXCEPT ![g] = control'[g]], face' = [face EXCEPT ![g] = face'[g]],
         session' = [s \in Sockets |-> session'[s]], \A s \in Sockets : Answers(g, s),
         holder' = holder, Aged(texts, texts'), TextsGoOutForTheirWindow',
         RunOK(texts', holder, control'[g], face'[g]),
         WaitOK(g, control'[g].commands, face'[g].queue, session'),
         control'[g].state = "live" <=> control[g].state = "live",
         Calm(control[g]) => Calm(control'[g])
  PROVE  DigitalInv'
<1>1. /\ texts' \in Seq(Text) /\ holder' \in SomeOrNone
      /\ control' = [h \in Runs |-> control'[h]] /\ face' = [h \in Runs |-> face'[h]]
  BY DEF DigitalInv, Aged
<1>2. \A h \in Runs \ {g} : control'[h] = control[h] /\ face'[h] = face[h]
  BY DEF DigitalInv
<1>3. \A h \in Runs : RunOK(texts, holder, control[h], face[h])' 
  <2> SUFFICES ASSUME NEW h \in Runs PROVE RunOK(texts', holder', control'[h], face'[h])
    OBVIOUS
  <2>1. CASE h = g
    BY <2>1
  <2>2. CASE h # g
    <3>1. RunOK(texts, holder, control[h], face[h])
      BY DEF DigitalInv
    <3> QED BY <1>2, <2>2, <3>1, RunKept
  <2> QED BY <2>1, <2>2
<1>4. \A h \in Runs : WaitOK(h, control'[h].commands, face'[h].queue, session')
  <2> SUFFICES ASSUME NEW h \in Runs, h # g PROVE WaitOK(h, control[h].commands, face[h].queue, session')
    BY <1>2
  <2>1. WaitOK(h, control[h].commands, face[h].queue, session)
    BY DEF DigitalInv
  <2>2. \A s \in Sockets : Asking(session, s, h) => Asking(session', s, h)
    BY DEF Answers, Asking
  <2>3. /\ \A k \in 1..Len(control[h].commands) : control[h].commands[k].by \in Sockets
        /\ \A k \in 1..Len(face[h].queue) : face[h].queue[k].by \in Sockets
    <3>1. RunOK(texts, holder, control[h], face[h])
      BY DEF DigitalInv
    <3>2. control[h].commands \in Seq(Request) /\ face[h].queue \in Seq(Request)
      BY <3>1 DEF RunOK, RunBase, IsControl, IsFace
    <3> QED BY <3>2, RequestAt
  <2> QED BY <2>1, <2>2, <2>3 DEF WaitOK
<1>5. \A s \in Sockets : AskOK(texts', holder', control', s, session'[s])
  <2> SUFFICES ASSUME NEW s \in Sockets PROVE AskOK(texts', holder, control', s, session'[s])
    OBVIOUS
  <2>1. AskOK(texts, holder, control, s, session[s])
    BY DEF DigitalInv
  <2>2. CASE session'[s] = session[s]
    <3>1. \A h \in Runs : Calm(control[h]) => Calm(control'[h])
      BY <1>2
    <3> QED BY <2>1, <2>2, <3>1, BoundKept DEF AskOK
  <2>3. CASE session'[s] = [Out EXCEPT !.state = "open"]
    BY <2>3, Opens DEF AskOK, Out
  <2> QED BY <2>2, <2>3 DEF Answers
<1>6. \A s \in Sockets : DioReg(session'[s]) = DioReg(session[s])
  BY DEF Answers, Asking, DioReg, Out
<1>7. OneEntry(control', session')
  <2>1. \A h \in Runs : control'[h].state = "live" <=> control[h].state = "live"
    BY <1>2
  <2> QED BY <1>6, <2>1 DEF DigitalInv, OneEntry
<1>8. HolderIsThere(holder', session')
  BY <1>6 DEF DigitalInv, HolderIsThere
<1> QED BY <1>1, <1>3, <1>4, <1>5, <1>7, <1>8 DEF DigitalInv

(* What start_running_for_target leaves.                                    *)
LEMMA StartFits ==
  ASSUME NEW g \in Runs, NEW ts, NEW h, NEW ctl, NEW f, NEW w \in SomeOrNone, NEW refused \in BOOLEAN,
         RunOK(ts, h, ctl, f), ctl.state \notin {"none", "done"}, f.state \in {"none", "up", "dead"},
         Calm(ctl) => w \in {h, NoWindow},
         NEW r, r = StartFor(g, ctl, f, w, refused)
  PROVE  /\ RunOK(ts, h, r.ctl, r.face) /\ r.ctl.commands = ctl.commands /\ r.face.queue = f.queue
         /\ r.ctl.state = ctl.state /\ r.ctl.dirty = ctl.dirty
         /\ r.face.state \in {"none", "up", "dead"}
<1>1. CASE f.state # "none" \/ w = NoWindow
  BY <1>1 DEF StartFor
<1>2. CASE f.state = "none" /\ w # NoWindow /\ refused
  <2>1. r.ctl = [ctl EXCEPT !.refused = TRUE] /\ r.face = f
    BY <1>2 DEF StartFor
  <2>2. IsControl(r.ctl) /\ r.ctl.commands = ctl.commands /\ r.ctl.state = ctl.state /\ r.ctl.dirty = ctl.dirty
    BY <2>1 DEF RunOK, RunBase, IsControl
  <2>3. Calm(r.ctl) <=> Calm(ctl)
    BY <2>2 DEF Calm
  <2>4. \A c : Bound(ts, h, r.ctl, c) <=> Bound(ts, h, ctl, c)
    BY <2>3 DEF Bound
  <2> QED BY <1>2, <2>1, <2>2, <2>3, <2>4 DEF RunOK, RunBase, FaceFits
<1>3. CASE f.state = "none" /\ w # NoWindow /\ ~refused
  <2>1. r.ctl = [ctl EXCEPT !.refused = FALSE] /\ r.face = Started(w)
    BY <1>3 DEF StartFor
  <2>2. IsControl(r.ctl) /\ r.ctl.commands = ctl.commands /\ r.ctl.state = ctl.state /\ r.ctl.dirty = ctl.dirty
    BY <2>1 DEF RunOK, RunBase, IsControl
  <2>3. Calm(r.ctl) <=> Calm(ctl)
    BY <2>2 DEF Calm
  <2>4. \A c : Bound(ts, h, r.ctl, c) <=> Bound(ts, h, ctl, c)
    BY <2>3 DEF Bound
  <2>5. /\ r.face = [state |-> "up", for |-> w, queue |-> <<>>, air |-> {}, next |-> NoWindow]
    BY <2>1 DEF Started, NoFace
  <2>6. IsFace(r.face) /\ r.face.queue = f.queue /\ r.face.air = {} /\ r.face.for = w /\ r.face.state = "up"
    BY <1>3, <2>5 DEF RunOK, RunBase, IsFace, SomeOrNone
  <2>7. f.queue = <<>>
    BY <1>3 DEF RunOK, RunBase, IsFace
  <2> QED BY <1>3, <2>2, <2>3, <2>4, <2>6, <2>7 DEF RunOK, RunBase, FaceFits
<1> QED BY <1>1, <1>2, <1>3

(* A run changes that neither takes nor answers a request.                  *)
LEMMA QuietRun ==
  ASSUME DigitalInv, NEW g \in Runs,
         control' = [control EXCEPT ![g] = control'[g]], face' = [face EXCEPT ![g] = face'[g]],
         UNCHANGED <<holder, session, texts>>,
         RunOK(texts, holder, control'[g], face'[g]),
         control'[g].commands = control[g].commands, face'[g].queue = face[g].queue,
         control'[g].state = "live" <=> control[g].state = "live",
         Calm(control[g]) => Calm(control'[g])
  PROVE  DigitalInv'
<1>1. session' = [s \in Sockets |-> session'[s]] /\ \A s \in Sockets : Answers(g, s)
  <2>1. session = [s \in Sockets |-> session[s]]
    BY DEF DigitalInv
  <2>2. session' = session
    OBVIOUS
  <2>3. session' = [s \in Sockets |-> session'[s]]
    BY <2>1, <2>2, Zenon
  <2>4. \A s \in Sockets : Answers(g, s)
    BY <2>2 DEF Answers
  <2> QED BY <2>3, <2>4
<1>2. Aged(texts, texts') /\ TextsGoOutForTheirWindow'
  BY SameAge DEF DigitalInv, TextsGoOutForTheirWindow
<1>3. WaitOK(g, control'[g].commands, face'[g].queue, session')
  BY DEF DigitalInv
<1> QED BY <1>1, <1>2, <1>3, RunStep

LEMMA Reconciled ==
  ASSUME DigitalInv, NEW g \in Runs, Awake(g), NEW ctl, IsControl(ctl),
         ctl.state = control[g].state, ctl.commands = control[g].commands,
         Calm(control[g]) => Calm(ctl), ReconcileAfter(g, ctl),
         UNCHANGED <<holder, session, texts>>
  PROVE  DigitalInv'
<1> DEFINE f == face[g]
<1> HIDE DEF f
<1>1. RunOK(texts, holder, control[g], f) /\ control = [h \in Runs |-> control[h]] /\ face = [h \in Runs |-> face[h]]
  BY DEF DigitalInv, f
<1>2. f.state \in {"none", "up", "dead"} /\ ctl.state \in {"live", "closing"}
  BY <1>1 DEF Awake, RunOK, RunBase, IsFace, f
<1>3. RunBase(texts, holder, ctl, f)
  <2>1. \A k \in 1..Len(ctl.commands) : Bound(texts, holder, ctl, ctl.commands[k])
    BY <1>1, BoundKept, SameAge DEF DigitalInv, RunOK, RunBase
  <2> QED BY <1>1, <2>1 DEF RunOK, RunBase
<1>4. PICK w : w = Wanted(g, ctl)
  OBVIOUS
<1>5. w \in {holder, NoWindow} /\ w \in SomeOrNone
  BY <1>4 DEF Wanted, ReadTarget, DigitalInv, SomeOrNone
<1>6. CASE StopsFor(f, w)
  <2>1. /\ control' = [control EXCEPT ![g] = ctl]
        /\ face' = [face EXCEPT ![g].state = IF @ = "dead" THEN "gone" ELSE "stopping", ![g].next = w]
    BY <1>4, <1>6 DEF ReconcileAfter, f
  <2>2. control'[g] = ctl /\ face'[g] = [f EXCEPT !.state = IF @ = "dead" THEN "gone" ELSE "stopping", !.next = w]
    BY <1>1, <2>1 DEF f
  <2>3. control' = [control EXCEPT ![g] = control'[g]] /\ face' = [face EXCEPT ![g] = face'[g]]
    BY <1>1, <2>1, <2>2 DEF f
  <2>4. /\ IsFace(face'[g]) /\ face'[g].for = f.for /\ face'[g].queue = f.queue /\ face'[g].air = f.air
        /\ face'[g].state \in {"stopping", "gone"} /\ face'[g].next = w
    <3>1. IsFace(f)
      BY <1>1 DEF RunOK, RunBase
    <3>2. /\ face'[g].for = f.for /\ face'[g].queue = f.queue /\ face'[g].air = f.air
          /\ face'[g].state \in {"stopping", "gone"} /\ face'[g].next = w
          /\ face'[g] \in [state : {face'[g].state}, for : {f.for}, queue : {f.queue}, air : {f.air}, next : {w}]
      BY <2>2, <3>1 DEF IsFace
    <3>3. f.state # "none"
      BY <1>6 DEF StopsFor
    <3> QED BY <1>5, <3>1, <3>2, <3>3 DEF IsFace
  <2>5. RunOK(texts, holder, control'[g], face'[g])
    BY <1>2, <1>3, <1>5, <2>2, <2>4 DEF RunOK, RunBase, FaceFits
  <2> QED BY <2>2, <2>3, <2>4, <2>5, QuietRun DEF f
<1>7. CASE ~StopsFor(f, w)
  <2>1. PICK refused \in BOOLEAN :
          /\ control' = [control EXCEPT ![g] = StartFor(g, ctl, f, w, refused).ctl]
          /\ face' = [face EXCEPT ![g] = StartFor(g, ctl, f, w, refused).face]
    BY <1>4, <1>7 DEF ReconcileAfter, f
  <2>2. RunOK(texts, holder, ctl, f)
    BY <1>1, <1>2, <1>3, <1>5, <1>7 DEF RunOK, RunBase, FaceFits, StopsFor, IsFace
  <2>3. PICK r : r = StartFor(g, ctl, f, w, refused)
    OBVIOUS
  <2>4. /\ RunOK(texts, holder, r.ctl, r.face) /\ r.ctl.commands = ctl.commands /\ r.face.queue = f.queue
        /\ r.ctl.state = ctl.state /\ r.ctl.dirty = ctl.dirty
    BY <1>2, <1>5, <2>2, <2>3, StartFits
  <2>5. control'[g] = r.ctl /\ face'[g] = r.face
    BY <1>1, <2>1, <2>3
  <2>6. control' = [control EXCEPT ![g] = control'[g]] /\ face' = [face EXCEPT ![g] = face'[g]]
    BY <2>1, <2>3, <2>5
  <2>7. Calm(control[g]) => Calm(r.ctl)
    BY <2>4 DEF Calm
  <2> QED BY <2>4, <2>5, <2>6, <2>7, QuietRun DEF f
<1> QED BY <1>6, <1>7

LEMMA ModeIsHeard == ASSUME DigitalInv, NEW g \in Runs, HearMode(g) PROVE DigitalInv'
<1> DEFINE ctl == [control[g] EXCEPT !.digital = Head(control[g].updates), !.wrong = FALSE, !.updates = Tail(@)]
<1>1. IsControl(control[g])
  BY DEF DigitalInv, RunOK, RunBase
<1>2. IsControl(ctl) /\ ctl.state = control[g].state /\ ctl.commands = control[g].commands
      /\ ctl.dirty = control[g].dirty
  BY <1>1 DEF IsControl
<1>3. ReconcileAfter(g, ctl) /\ Awake(g) /\ UNCHANGED <<holder, session, texts>>
  BY DEF HearMode
<1> HIDE DEF ctl
<1> QED BY <1>2, <1>3, Reconciled DEF Calm

LEMMA HolderIsHeard == ASSUME DigitalInv, NEW g \in Runs, HearHolder(g) PROVE DigitalInv'
<1> DEFINE ctl == [control[g] EXCEPT !.dirty = FALSE]
<1>1. IsControl(control[g])
  BY DEF DigitalInv, RunOK, RunBase
<1>2. IsControl(ctl) /\ ctl.state = control[g].state /\ ctl.commands = control[g].commands /\ ctl.dirty = FALSE
  BY <1>1 DEF IsControl
<1>3. ReconcileAfter(g, ctl) /\ Awake(g) /\ UNCHANGED <<holder, session, texts>>
  BY DEF HearHolder
<1> HIDE DEF ctl
<1> QED BY <1>2, <1>3, Reconciled DEF Calm

LEMMA ReportsAreLost == ASSUME DigitalInv, NEW g \in Runs, LagBehind(g) PROVE DigitalInv'
<1>1. RunOK(texts, holder, control[g], face[g]) /\ control = [h \in Runs |-> control[h]] /\ face = [h \in Runs |-> face[h]]
  BY DEF DigitalInv
<1>2. control' = [control EXCEPT ![g].updates = Tail(@)] /\ UNCHANGED <<holder, face, session, texts>>
  BY DEF LagBehind
<1>3. control'[g] = [control[g] EXCEPT !.updates = Tail(@)] /\ face'[g] = face[g]
  BY <1>1, <1>2
<1>4. control' = [control EXCEPT ![g] = control'[g]] /\ face' = [face EXCEPT ![g] = face'[g]]
  BY <1>1, <1>2, <1>3
<1>5. /\ IsControl(control'[g]) /\ control'[g].state = control[g].state /\ control'[g].dirty = control[g].dirty
      /\ control'[g].commands = control[g].commands
  BY <1>1, <1>3 DEF RunOK, RunBase, IsControl
<1>6. Calm(control'[g]) <=> Calm(control[g])
  BY <1>5 DEF Calm
<1>7. RunOK(texts, holder, control'[g], face'[g])
  BY <1>1, <1>3, <1>5, <1>6 DEF RunOK, RunBase, FaceFits, Bound
<1> QED BY <1>2, <1>3, <1>4, <1>5, <1>6, <1>7, QuietRun

(* The sessions that wait, when a request is taken from the commands, done  *)
(* by the interface, or dropped.                                            *)
LEMMA Ends ==
  ASSUME NEW q \in Seq(Request), q # <<>>
  PROVE  /\ Head(q) \in Request /\ Head(q) = q[1] /\ Tail(q) \in Seq(Request) /\ Len(Tail(q)) = Len(q) - 1
         /\ 1 \in 1..Len(q) /\ \A k \in 1..Len(Tail(q)) : k + 1 \in 1..Len(q) /\ Tail(q)[k] = q[k + 1]
BY HeadTailProperties

LEMMA More ==
  ASSUME NEW q \in Seq(Request), NEW c \in Request
  PROVE  /\ Append(q, c) \in Seq(Request) /\ Len(Append(q, c)) = Len(q) + 1
         /\ \A k \in 1..Len(q) : Append(q, c)[k] = q[k]
         /\ Append(q, c)[Len(q) + 1] = c
BY AppendProperties

LEMMA WaitTaken ==
  ASSUME NEW g \in Runs, NEW cs \in Seq(Request), cs # <<>>, NEW q \in Seq(Request), NEW ss, NEW tt, NEW p,
         WaitOK(g, cs, q, ss), \A s \in Sockets : s # Head(cs).by => tt[s] = ss[s],
         \/ p = q
         \/ p = Append(q, Head(cs)) /\ (Head(cs).kind = "text" \/ tt = ss)
  PROVE  WaitOK(g, Tail(cs), p, tt)
<1>1. /\ Head(cs) \in Request /\ Head(cs) = cs[1] /\ Tail(cs) \in Seq(Request)
      /\ 1 \in 1..Len(cs) /\ \A k \in 1..Len(Tail(cs)) : k + 1 \in 1..Len(cs) /\ Tail(cs)[k] = cs[k + 1]
  BY Ends
<1>2. /\ \A k \in 1..Len(cs) : Asking(ss, cs[k].by, g) /\ cs[k].by \in Sockets
      /\ \A j, k \in 1..Len(cs) : cs[j].by = cs[k].by => j = k
  BY RequestAt DEF WaitOK
<1>3. \A k \in 1..Len(Tail(cs)) : Tail(cs)[k].by # Head(cs).by
  BY <1>1, <1>2
<1>4. \A k \in 1..Len(Tail(cs)) : Asking(tt, Tail(cs)[k].by, g)
  BY <1>1, <1>2, <1>3 DEF Asking
<1>5. \A j, k \in 1..Len(Tail(cs)) : Tail(cs)[j].by = Tail(cs)[k].by => j = k
  BY <1>1, <1>2
<1>6. \A k \in 1..Len(q) : q[k].kind # "text" =>
        /\ Asking(tt, q[k].by, g) /\ q[k].by # Head(cs).by
        /\ \A j \in 1..Len(Tail(cs)) : Tail(cs)[j].by # q[k].by
  <2> SUFFICES ASSUME NEW k \in 1..Len(q), q[k].kind # "text"
               PROVE  /\ Asking(tt, q[k].by, g) /\ q[k].by # Head(cs).by
                      /\ \A j \in 1..Len(Tail(cs)) : Tail(cs)[j].by # q[k].by
    OBVIOUS
  <2>1. Asking(ss, q[k].by, g) /\ \A j \in 1..Len(cs) : cs[j].by # q[k].by
    BY DEF WaitOK
  <2>2. q[k].by \in Sockets
    BY RequestAt
  <2>3. q[k].by # Head(cs).by
    BY <1>1, <2>1
  <2> QED BY <1>1, <2>1, <2>2, <2>3 DEF Asking
<1>7. \A j, k \in 1..Len(q) : q[j].kind # "text" /\ q[k].kind # "text" /\ q[j].by = q[k].by => j = k
  BY DEF WaitOK
<1>8. CASE p = q
  BY <1>4, <1>5, <1>6, <1>7, <1>8 DEF WaitOK
<1>9. CASE p = Append(q, Head(cs)) /\ (Head(cs).kind = "text" \/ tt = ss)
  <2>1. /\ Len(p) = Len(q) + 1 /\ p[Len(q) + 1] = Head(cs)
        /\ \A k \in 1..Len(q) : p[k] = q[k]
    BY <1>1, <1>9, More
  <2>2. \A k \in 1..Len(p) : k \in 1..Len(q) \/ k = Len(q) + 1
    BY <2>1
  <2>3. Head(cs).kind # "text" => Asking(tt, Head(cs).by, g)
    BY <1>1, <1>2, <1>9
  <2>4. \A k \in 1..Len(p) : p[k].kind # "text" =>
          Asking(tt, p[k].by, g) /\ \A j \in 1..Len(Tail(cs)) : Tail(cs)[j].by # p[k].by
    BY <1>3, <1>6, <2>1, <2>2, <2>3
  <2>5. \A j, k \in 1..Len(p) : p[j].kind # "text" /\ p[k].kind # "text" /\ p[j].by = p[k].by => j = k
    BY <1>6, <1>7, <2>1, <2>2
  <2> QED BY <1>4, <1>5, <2>4, <2>5 DEF WaitOK
<1> QED BY <1>8, <1>9

LEMMA WaitDone ==
  ASSUME NEW g \in Runs, NEW cs \in Seq(Request), NEW q \in Seq(Request), q # <<>>, NEW ss, NEW tt,
         WaitOK(g, cs, q, ss), \A s \in Sockets : s # Head(q).by => tt[s] = ss[s],
         Head(q).kind = "text" => tt = ss
  PROVE  WaitOK(g, cs, Tail(q), tt)
<1>1. /\ Head(q) \in Request /\ Head(q) = q[1] /\ Tail(q) \in Seq(Request)
      /\ 1 \in 1..Len(q) /\ \A k \in 1..Len(Tail(q)) : k + 1 \in 1..Len(q) /\ Tail(q)[k] = q[k + 1]
  BY Ends
<1>2. /\ \A k \in 1..Len(cs) : Asking(ss, cs[k].by, g) /\ cs[k].by \in Sockets
      /\ \A j, k \in 1..Len(cs) : cs[j].by = cs[k].by => j = k
  BY RequestAt DEF WaitOK
<1>3. \A k \in 1..Len(q) : q[k].kind # "text" =>
        Asking(ss, q[k].by, g) /\ q[k].by \in Sockets /\ \A j \in 1..Len(cs) : cs[j].by # q[k].by
  BY RequestAt DEF WaitOK
<1>4. \A j, k \in 1..Len(q) : q[j].kind # "text" /\ q[k].kind # "text" /\ q[j].by = q[k].by => j = k
  BY DEF WaitOK
<1>5. \A k \in 1..Len(cs) : Asking(tt, cs[k].by, g)
  BY <1>1, <1>2, <1>3 DEF Asking
<1>6. \A k \in 1..Len(Tail(q)) : Tail(q)[k].kind # "text" =>
        Asking(tt, Tail(q)[k].by, g) /\ \A j \in 1..Len(cs) : cs[j].by # Tail(q)[k].by
  <2> SUFFICES ASSUME NEW k \in 1..Len(Tail(q)), q[k + 1].kind # "text"
               PROVE  Asking(tt, q[k + 1].by, g) /\ \A j \in 1..Len(cs) : cs[j].by # q[k + 1].by
    BY <1>1
  <2>1. k + 1 \in 1..Len(q) /\ k + 1 # 1
    BY <1>1
  <2>2. Head(q).kind = "text" \/ q[k + 1].by # Head(q).by
    BY <1>1, <1>4, <2>1
  <2> QED BY <1>3, <2>1, <2>2 DEF Asking
<1>7. \A j, k \in 1..Len(Tail(q)) :
        Tail(q)[j].kind # "text" /\ Tail(q)[k].kind # "text" /\ Tail(q)[j].by = Tail(q)[k].by => j = k
  BY <1>1, <1>4
<1> QED BY <1>2, <1>5, <1>6, <1>7 DEF WaitOK

LEMMA WaitDropped ==
  ASSUME NEW g \in Runs, NEW cs \in Seq(Request), NEW q \in Seq(Request), NEW ss, NEW tt,
         WaitOK(g, cs, q, ss),
         \A s \in Sockets : tt[s] = ss[s] \/ \E k \in 1..Len(q) : q[k].kind # "text" /\ q[k].by = s
  PROVE  WaitOK(g, cs, <<>>, tt)
<1>1. /\ \A k \in 1..Len(cs) : Asking(ss, cs[k].by, g) /\ cs[k].by \in Sockets
      /\ \A j, k \in 1..Len(cs) : cs[j].by = cs[k].by => j = k
  BY RequestAt DEF WaitOK
<1>2. \A k \in 1..Len(q) : q[k].kind # "text" => \A j \in 1..Len(cs) : cs[j].by # q[k].by
  BY DEF WaitOK
<1>3. \A k \in 1..Len(cs) : Asking(tt, cs[k].by, g)
  BY <1>1, <1>2 DEF Asking
<1>4. Len(<<>>) = 0 
  OBVIOUS
<1> QED BY <1>1, <1>3, <1>4 DEF WaitOK

(* Texts whose state changes, in whatever way, go where they went.          *)
Same(ts, us) ==
  /\ us \in Seq(Text) /\ Len(us) = Len(ts)
  /\ \A n \in 1..Len(ts) : us[n].by = ts[n].by /\ us[n].steady = ts[n].steady /\ us[n].under = ts[n].under

LEMMA SameStay ==
  ASSUME texts \in Seq(Text), TextsGoOutForTheirWindow, Same(texts, texts')
  PROVE  Aged(texts, texts') /\ TextsGoOutForTheirWindow'
BY DEF Same, Aged, TextsGoOutForTheirWindow

TextStates == {"asked", "refused", "accepted", "air", "sent", "failed"}

LEMMA TextSet ==
  ASSUME texts \in Seq(Text), NEW n \in 1..Len(texts), NEW st \in TextStates
  PROVE  Same(texts, [texts EXCEPT ![n].state = st])
<1> DEFINE t == [texts[n] EXCEPT !.state = st]
<1>1. texts[n] \in Text
  OBVIOUS
<1>2. t \in Text /\ t.by = texts[n].by /\ t.steady = texts[n].steady /\ t.under = texts[n].under
  BY <1>1 DEF Text, TextStates
<1>3. [texts EXCEPT ![n].state = st] = [texts EXCEPT ![n] = t]
  BY DEF t
<1> HIDE DEF t
<1>4. [texts EXCEPT ![n] = t] \in Seq(Text) /\ Len([texts EXCEPT ![n] = t]) = Len(texts)
  BY <1>2
<1>5. \A m \in 1..Len(texts) : [texts EXCEPT ![n] = t][m] = IF m = n THEN t ELSE texts[m]
  OBVIOUS
<1> QED BY <1>2, <1>3, <1>4, <1>5 DEF Same

LEMMA TextsFail ==
  ASSUME texts \in Seq(Text), NEW f, NEW us, us = EndTexts(f)
  PROVE  Same(texts, us)
<1>1. us = [n \in 1..Len(texts) |-> IF n \in TextsOf(f) THEN [texts[n] EXCEPT !.state = "failed"] ELSE texts[n]]
  BY DEF EndTexts
<1>2. \A n \in 1..Len(texts) :
        us[n] \in Text /\ us[n].by = texts[n].by /\ us[n].steady = texts[n].steady /\ us[n].under = texts[n].under
  <2> SUFFICES ASSUME NEW n \in 1..Len(texts)
               PROVE  /\ us[n] \in Text /\ us[n].by = texts[n].by /\ us[n].steady = texts[n].steady
                      /\ us[n].under = texts[n].under
    OBVIOUS
  <2>1. texts[n] \in Text
    OBVIOUS
  <2>2. us[n] = texts[n] \/ us[n] = [texts[n] EXCEPT !.state = "failed"]
    BY <1>1
  <2> QED BY <2>1, <2>2 DEF Text
<1>3. Len(texts) \in Nat
  OBVIOUS
<1>4. us \in Seq(Text) /\ Len(us) = Len(texts)
  <2>1. us \in [1..Len(texts) -> Text]
    BY <1>1, <1>2
  <2> QED BY <1>3, <2>1
<1> QED BY <1>2, <1>4 DEF Same

LEMMA OneAnswer ==
  ASSUME DigitalInv, NEW g \in Runs, NEW s \in Sockets, Asking(session, s, g), session' = AnswerTo(s)
  PROVE  /\ session' = [t \in Sockets |-> session'[t]] /\ \A t \in Sockets : Answers(g, t)
         /\ \A t \in Sockets : t # s => session'[t] = session[t]
<1>1. session = [t \in Sockets |-> session[t]]
  BY DEF DigitalInv
<1>2. session' = [session EXCEPT ![s] = [Out EXCEPT !.state = "open"]]
  BY DEF AnswerTo
<1>3. /\ session' = [t \in Sockets |-> session'[t]] /\ session'[s] = [Out EXCEPT !.state = "open"]
      /\ \A t \in Sockets : t # s => session'[t] = session[t]
  BY <1>1, <1>2
<1> QED BY <1>3 DEF Answers

(* The requests that stay bound, for a controller with other commands.      *)
LEMMA ControlWith ==
  ASSUME NEW ts, NEW h, NEW ctl, NEW f, RunOK(ts, h, ctl, f), NEW new, IsControl(new),
         new.state = ctl.state, new.dirty = ctl.dirty,
         \A k \in 1..Len(new.commands) : Bound(ts, h, ctl, new.commands[k])
  PROVE  RunOK(ts, h, new, f) /\ (Calm(new) <=> Calm(ctl))
<1>1. Calm(new) <=> Calm(ctl)
  BY DEF Calm
<1>2. \A k \in 1..Len(new.commands) : Bound(ts, h, new, new.commands[k])
  BY <1>1 DEF Bound
<1> QED BY <1>1, <1>2 DEF RunOK, RunBase, FaceFits

LEMMA RequestIsTaken == ASSUME DigitalInv, NEW g \in Runs, TakeRequest(g) PROVE DigitalInv'
<1> DEFINE f == face[g]
           cs == control[g].commands
           c == Head(control[g].commands)
           ctl == [control[g] EXCEPT !.commands = Tail(@)]
<1>1. /\ RunOK(texts, holder, control[g], f) /\ control = [h \in Runs |-> control[h]]
      /\ face = [h \in Runs |-> face[h]] /\ session = [s \in Sockets |-> session[s]]
      /\ texts \in Seq(Text) /\ holder \in SomeOrNone
  BY DEF DigitalInv
<1>2. Awake(g) /\ cs # <<>> /\ holder' = holder
  BY DEF TakeRequest
<1>3. f.state \in {"none", "up", "dead"} /\ control[g].state \in {"live", "closing"}
  BY <1>1, <1>2 DEF Awake, RunOK, RunBase, IsFace
<1>4. cs \in Seq(Request) /\ f.queue \in Seq(Request)
  BY <1>1 DEF RunOK, RunBase, IsControl, IsFace
<1>5. /\ c \in Request /\ c = cs[1] /\ Tail(cs) \in Seq(Request) /\ Len(Tail(cs)) = Len(cs) - 1
      /\ 1 \in 1..Len(cs) /\ \A k \in 1..Len(Tail(cs)) : k + 1 \in 1..Len(cs) /\ Tail(cs)[k] = cs[k + 1]
  BY <1>2, <1>4, Ends
<1>6. Bound(texts, holder, control[g], c)
  BY <1>1, <1>5 DEF RunOK, RunBase
<1>7. IsControl(ctl) /\ ctl.state = control[g].state /\ ctl.dirty = control[g].dirty /\ ctl.commands = Tail(cs)
  BY <1>1, <1>5 DEF RunOK, RunBase, IsControl
<1>8. RunOK(texts, holder, ctl, f) /\ (Calm(ctl) <=> Calm(control[g]))
  <2>1. \A k \in 1..Len(ctl.commands) : Bound(texts, holder, control[g], ctl.commands[k])
    BY <1>1, <1>5, <1>7 DEF RunOK, RunBase
  <2>2. RunOK(texts, holder, control[g], f)
    BY <1>1
  <2>3. PICK new : new = ctl
    OBVIOUS
  <2>4. /\ IsControl(new) /\ new.state = control[g].state /\ new.dirty = control[g].dirty
        /\ \A k \in 1..Len(new.commands) : Bound(texts, holder, control[g], new.commands[k])
    BY <1>7, <2>1, <2>3
  <2> HIDE DEF ctl, f
  <2>5. RunOK(texts, holder, new, f) /\ (Calm(new) <=> Calm(control[g]))
    BY <2>2, <2>4, ControlWith
  <2> QED BY <2>3, <2>5
<1>9. Asking(session, c.by, g) /\ c.by \in Sockets
  <2>1. WaitOK(g, cs, f.queue, session)
    BY DEF DigitalInv
  <2> HIDE DEF cs, f
  <2> QED BY <1>4, <1>5, <2>1, RequestAt DEF WaitOK
<1>10. PICK w : w = IF c.kind = "stop" THEN NoWindow ELSE Wanted(g, ctl)
  OBVIOUS
<1>11. w \in {holder, NoWindow} /\ w \in SomeOrNone
  BY <1>1, <1>10 DEF Wanted, ReadTarget, SomeOrNone
<1>12. PICK refused \in BOOLEAN :
         LET r == StartFor(g, ctl, f, w, refused)
             goes == r.face.state = "up"
         IN /\ control' = [control EXCEPT ![g] = r.ctl]
            /\ face' = [face EXCEPT ![g] = IF goes THEN [r.face EXCEPT !.queue = Append(@, c)] ELSE @]
            /\ texts' = TextBecomes(c.text, IF goes THEN "accepted" ELSE "refused")
            /\ session' = IF goes /\ c.kind # "text" THEN session ELSE AnswerTo(c.by)
  BY <1>10 DEF TakeRequest
<1>13. PICK r : r = StartFor(g, ctl, f, w, refused)
  OBVIOUS
<1> DEFINE goes == r.face.state = "up"
<1>14. /\ control' = [control EXCEPT ![g] = r.ctl]
       /\ face' = [face EXCEPT ![g] = IF goes THEN [r.face EXCEPT !.queue = Append(@, c)] ELSE @]
       /\ texts' = TextBecomes(c.text, IF goes THEN "accepted" ELSE "refused")
       /\ session' = IF goes /\ c.kind # "text" THEN session ELSE AnswerTo(c.by)
  BY <1>12, <1>13
<1> HIDE DEF c, ctl
<1>15. /\ RunOK(texts, holder, r.ctl, r.face) /\ r.ctl.commands = Tail(cs) /\ r.face.queue = f.queue
       /\ r.ctl.state = control[g].state /\ r.ctl.dirty = control[g].dirty
       /\ r.face.state \in {"none", "up", "dead"}
  BY <1>3, <1>7, <1>8, <1>11, <1>13, StartFits
<1>16. goes \/ r.face = f
  BY <1>13 DEF StartFor, Started, NoFace
<1>17. /\ control'[g] = r.ctl
       /\ face'[g] = IF goes THEN [r.face EXCEPT !.queue = Append(@, c)] ELSE f
  BY <1>1, <1>14
<1>18. control' = [control EXCEPT ![g] = control'[g]] /\ face' = [face EXCEPT ![g] = face'[g]]
  BY <1>14, <1>17
<1>19. Calm(r.ctl) <=> Calm(control[g])
  BY <1>15 DEF Calm
<1>20. /\ session' = [s \in Sockets |-> session'[s]] /\ \A s \in Sockets : Answers(g, s)
       /\ \A s \in Sockets : s # c.by => session'[s] = session[s]
  <2>1. CASE goes /\ c.kind # "text"
    <3>1. session' = session
      BY <1>14, <2>1
    <3>2. session' = [s \in Sockets |-> session'[s]]
      BY <1>1, <3>1, Zenon
    <3> QED BY <3>1, <3>2 DEF Answers
  <2>2. CASE ~(goes /\ c.kind # "text")
    <3>1. session' = AnswerTo(c.by)
      BY <1>14, <2>2
    <3> QED BY <1>9, <3>1, OneAnswer
  <2> QED BY <2>1, <2>2
<1>21. Same(texts, texts')
  <2>1. CASE c.kind = "text"
    <3>1. c.text \in 1..Len(texts)
      BY <1>6, <2>1 DEF Bound, Goes
    <3>2. texts' = [texts EXCEPT ![c.text].state = IF goes THEN "accepted" ELSE "refused"]
      BY <1>14, <3>1 DEF TextBecomes
    <3> QED BY <1>1, <3>1, <3>2, TextSet DEF TextStates
  <2>2. CASE c.kind # "text"
    <3>1. texts' = texts
      BY <1>6, <1>14, <2>2 DEF Bound, Goes, TextBecomes
    <3> QED BY <1>1, <3>1 DEF Same
  <2> QED BY <2>1, <2>2
<1>22. Aged(texts, texts') /\ TextsGoOutForTheirWindow'
  BY <1>1, <1>21, SameStay DEF DigitalInv
<1>23. RunOK(texts, holder, control'[g], face'[g]) /\ face'[g].queue = IF goes THEN Append(f.queue, c) ELSE f.queue
  <2>1. CASE goes
    <3>1. IsFace(r.face)
      BY <1>15 DEF RunOK, RunBase
    <3>2. Append(f.queue, c) \in Seq(Request)
      BY <1>4, <1>5, More
    <3>3. /\ IsFace(face'[g]) /\ face'[g].queue = Append(f.queue, c) /\ face'[g].for = r.face.for
          /\ face'[g].air = r.face.air /\ face'[g].state = "up"
      BY <1>15, <1>17, <2>1, <3>1, <3>2 DEF IsFace
    <3>4. Goes(texts, c, r.face.for)
      <4>1. Calm(control[g]) => r.face.for = holder
        BY <1>15, <1>19, <2>1 DEF RunOK, FaceFits
      <4> QED BY <1>6, <4>1 DEF Bound, Goes
    <3>5. \A k \in 1..Len(face'[g].queue) : Goes(texts, face'[g].queue[k], face'[g].for)
      <4>1. /\ Len(Append(f.queue, c)) = Len(f.queue) + 1 /\ Append(f.queue, c)[Len(f.queue) + 1] = c
            /\ \A k \in 1..Len(f.queue) : Append(f.queue, c)[k] = f.queue[k]
        BY <1>4, <1>5, More
      <4>2. \A k \in 1..Len(f.queue) : Goes(texts, f.queue[k], r.face.for)
        BY <1>15 DEF RunOK, RunBase
      <4>3. \A k \in 1..Len(Append(f.queue, c)) : k \in 1..Len(f.queue) \/ k = Len(f.queue) + 1
        BY <1>4, <4>1
      <4> QED BY <3>3, <3>4, <4>1, <4>2, <4>3
    <3> QED BY <1>15, <1>17, <2>1, <3>3, <3>5 DEF RunOK, RunBase, FaceFits
  <2>2. CASE ~goes
    BY <1>15, <1>16, <1>17, <2>2
  <2> QED BY <2>1, <2>2
<1>24. RunOK(texts', holder, control'[g], face'[g])
  BY <1>22, <1>23, RunKept
<1>25. WaitOK(g, control'[g].commands, face'[g].queue, session')
  <2>1. WaitOK(g, cs, f.queue, session)
    BY DEF DigitalInv
  <2>2. \/ face'[g].queue = f.queue
        \/ face'[g].queue = Append(f.queue, c) /\ (c.kind = "text" \/ session' = session)
    BY <1>14, <1>23
  <2> HIDE DEF f, cs
  <2>3. c = Head(cs)
    BY DEF c, cs
  <2>4. WaitOK(g, Tail(cs), face'[g].queue, session')
    BY <1>2, <1>4, <1>20, <2>1, <2>2, <2>3, WaitTaken
  <2> QED BY <1>15, <1>17, <2>4
<1> QED BY <1>2, <1>15, <1>17, <1>18, <1>19, <1>20, <1>22, <1>24, <1>25, RunStep

LEMMA ControlIsShut == ASSUME DigitalInv, NEW g \in Runs, ShutDownControl(g) PROVE DigitalInv'
<1> DEFINE f == face[g]
<1>1. /\ RunOK(texts, holder, control[g], f) /\ control = [h \in Runs |-> control[h]]
      /\ face = [h \in Runs |-> face[h]]
  BY DEF DigitalInv
<1>2. /\ control[g].state = "closing" /\ control[g].commands = <<>> /\ UNCHANGED <<holder, session, texts>>
      /\ f.state \notin {"stopping", "gone"}
  BY DEF ShutDownControl, Awake
<1>3. ~Calm(control[g])
  BY <1>2 DEF Calm
<1>4. CASE f.state = "none"
  <2>1. control' = [control EXCEPT ![g] = [NoControl EXCEPT !.state = "done"]] /\ face' = face
    BY <1>4 DEF ShutDownControl
  <2>2. control'[g] = [NoControl EXCEPT !.state = "done"] /\ face'[g] = f
    BY <1>1, <2>1
  <2>3. control' = [control EXCEPT ![g] = control'[g]] /\ face' = [face EXCEPT ![g] = face'[g]]
    BY <1>1, <2>1, <2>2
  <2>4. IsControl(control'[g]) /\ control'[g].state = "done" /\ control'[g].commands = <<>>
    BY <2>2, NoRequests DEF IsControl, NoControl
  <2>5. RunOK(texts, holder, control'[g], face'[g])
    <3>1. Len(<<>>) = 0
      OBVIOUS
    <3> QED BY <1>1, <1>4, <2>2, <2>4, <3>1 DEF RunOK, RunBase, FaceFits, Calm
  <2> QED BY <1>2, <1>3, <2>2, <2>3, <2>4, <2>5, QuietRun
<1>5. CASE f.state # "none"
  <2>1. /\ face' = [face EXCEPT ![g].state = IF @ = "dead" THEN "gone" ELSE "stopping", ![g].next = NoWindow]
        /\ control' = control
    BY <1>5 DEF ShutDownControl
  <2>2. /\ control'[g] = control[g]
        /\ face'[g] = [f EXCEPT !.state = IF @ = "dead" THEN "gone" ELSE "stopping", !.next = NoWindow]
    BY <1>1, <2>1
  <2>3. control' = [control EXCEPT ![g] = control'[g]] /\ face' = [face EXCEPT ![g] = face'[g]]
    BY <1>1, <2>1, <2>2
  <2>4. /\ IsFace(face'[g]) /\ face'[g].for = f.for /\ face'[g].queue = f.queue /\ face'[g].air = f.air
        /\ face'[g].state \in {"stopping", "gone"} /\ face'[g].next = NoWindow
    <3>1. IsFace(f)
      BY <1>1 DEF RunOK, RunBase
    <3> HIDE DEF f
    <3>2. /\ face'[g].for = f.for /\ face'[g].queue = f.queue /\ face'[g].air = f.air
          /\ face'[g].state \in {"stopping", "gone"} /\ face'[g].next = NoWindow
          /\ face'[g] \in [state : {face'[g].state}, for : {f.for}, queue : {f.queue}, air : {f.air}, next : {NoWindow}]
      BY <2>2, <3>1 DEF IsFace
    <3> QED BY <1>5, <3>1, <3>2 DEF IsFace, SomeOrNone
  <2>5. RunOK(texts, holder, control'[g], face'[g])
    BY <1>1, <1>2, <2>2, <2>4 DEF RunOK, RunBase, FaceFits, Calm
  <2> QED BY <1>2, <2>2, <2>3, <2>4, <2>5, QuietRun
<1> QED BY <1>4, <1>5

-----------------------------------------------------------------------------
(* The interface.  Its controller stays, its state and its window too.      *)
LEMMA FaceStep ==
  ASSUME DigitalInv, NEW g \in Runs, NEW f, IsFace(f), face' = [face EXCEPT ![g] = f],
         UNCHANGED <<holder, control>>,
         f.state = face[g].state \/ (face[g].state = "up" /\ f.state = "dead"),
         f.for = face[g].for, f.next = face[g].next \/ f.state \notin {"stopping", "gone"},
         \A k \in 1..Len(f.queue) : Goes(texts, f.queue[k], f.for), f.air \subseteq 1..Len(texts),
         Aged(texts, texts'), TextsGoOutForTheirWindow',
         session' = [s \in Sockets |-> session'[s]], \A s \in Sockets : Answers(g, s),
         WaitOK(g, control[g].commands, f.queue, session')
  PROVE  DigitalInv'
<1>1. /\ RunOK(texts, holder, control[g], face[g]) /\ control = [h \in Runs |-> control[h]]
      /\ face = [h \in Runs |-> face[h]]
  BY DEF DigitalInv
<1>2. face'[g] = f /\ control'[g] = control[g]
  BY <1>1
<1>3. control' = [control EXCEPT ![g] = control'[g]] /\ face' = [face EXCEPT ![g] = face'[g]]
  BY <1>1, <1>2
<1>4. RunOK(texts, holder, control[g], f)
  BY <1>1 DEF RunOK, RunBase, FaceFits
<1>5. RunOK(texts', holder, control'[g], face'[g])
  BY <1>2, <1>4, RunKept
<1> QED BY <1>2, <1>3, <1>5, RunStep

LEMMA TextGoesOut ==
  ASSUME DigitalInv, NEW n \in 1..Len(texts), NEW w \in DigitalWindows, texts[n].steady => texts[n].by = w,
         texts' = [texts EXCEPT ![n].state = "air", ![n].under = w]
  PROVE  Aged(texts, texts') /\ TextsGoOutForTheirWindow'
<1> DEFINE t == [texts[n] EXCEPT !.state = "air", !.under = w]
<1>1. texts \in Seq(Text) /\ texts[n] \in Text /\ TextsGoOutForTheirWindow
  BY DEF DigitalInv
<1>2. t \in Text /\ t.by = texts[n].by /\ t.steady = texts[n].steady /\ t.under = w
  BY <1>1 DEF Text, SomeOrNone
<1>3. texts' = [texts EXCEPT ![n] = t]
  BY <1>1
<1> HIDE DEF t
<1>4. /\ texts' \in Seq(Text) /\ Len(texts') = Len(texts)
      /\ \A m \in 1..Len(texts) : texts'[m] = IF m = n THEN t ELSE texts[m]
  BY <1>1, <1>2, <1>3
<1> QED BY <1>1, <1>2, <1>4 DEF Aged, TextsGoOutForTheirWindow

LEMMA RequestIsDone == ASSUME DigitalInv, NEW g \in Runs, FaceTakes(g) PROVE DigitalInv'
<1> DEFINE o == face[g]
           c == Head(face[g].queue)
           f == [face[g] EXCEPT !.queue = Tail(@)]
<1>1. /\ RunOK(texts, holder, control[g], o) /\ control = [h \in Runs |-> control[h]]
      /\ face = [h \in Runs |-> face[h]] /\ session = [s \in Sockets |-> session[s]]
      /\ texts \in Seq(Text) /\ TextsGoOutForTheirWindow
  BY DEF DigitalInv
<1>2. IsAtWork(o) /\ o.queue # <<>> /\ UNCHANGED <<holder, control>>
  BY DEF FaceTakes
<1>3. IsFace(o) /\ o.queue \in Seq(Request) /\ control[g].commands \in Seq(Request) /\ o.for \in DigitalWindows
  BY <1>1, <1>2 DEF RunOK, RunBase, IsFace, IsControl, IsAtWork, SomeOrNone
<1>4. /\ c \in Request /\ c = o.queue[1] /\ Tail(o.queue) \in Seq(Request)
      /\ 1 \in 1..Len(o.queue)
      /\ \A k \in 1..Len(Tail(o.queue)) : k + 1 \in 1..Len(o.queue) /\ Tail(o.queue)[k] = o.queue[k + 1]
  BY <1>2, <1>3, Ends
<1>5. /\ IsFace(f) /\ f.state = o.state /\ f.for = o.for /\ f.next = o.next /\ f.air = o.air
      /\ f.queue = Tail(o.queue)
  BY <1>3, <1>4, <1>2 DEF IsFace, IsAtWork
<1>6. Goes(texts, c, o.for) /\ \A k \in 1..Len(Tail(o.queue)) : Goes(texts, Tail(o.queue)[k], o.for)
  BY <1>1, <1>4 DEF RunOK, RunBase
<1>7. o.air \subseteq 1..Len(texts)
  BY <1>1 DEF RunOK, RunBase
<1>8. WaitOK(g, control[g].commands, o.queue, session)
  BY DEF DigitalInv
<1>9. CASE c.kind = "text"
  <2>1. /\ texts' = [texts EXCEPT ![c.text].state = "air", ![c.text].under = o.for]
        /\ face' = [face EXCEPT ![g] = [f EXCEPT !.air = @ \cup {c.text}]]
        /\ session' = session
    BY <1>9, <1>5 DEF FaceTakes
  <2>2. c.text \in 1..Len(texts) /\ (texts[c.text].steady => texts[c.text].by = o.for)
    BY <1>6, <1>9 DEF Goes
  <2>3. Aged(texts, texts') /\ TextsGoOutForTheirWindow'
    BY <1>3, <2>1, <2>2, TextGoesOut
  <2>4. PICK new : new = [f EXCEPT !.air = @ \cup {c.text}]
    OBVIOUS
  <2>5. /\ IsFace(new) /\ new.state = o.state /\ new.for = o.for /\ new.next = o.next
        /\ new.air = o.air \cup {c.text} /\ new.queue = Tail(o.queue)
    <3> HIDE DEF f, c, o
    <3> QED BY <1>5, <2>4 DEF IsFace
  <2>6. session' = [s \in Sockets |-> session'[s]]
    BY <1>1, <2>1, Zenon
  <2>7. \A s \in Sockets : Answers(g, s)
    BY <2>1 DEF Answers
  <2>8. WaitOK(g, control[g].commands, new.queue, session')
    <3>1. PICK q \in Seq(Request) : q = o.queue
      BY <1>3
    <3>2. q # <<>> /\ WaitOK(g, control[g].commands, q, session) /\ Head(q).kind = "text"
      BY <1>2, <1>8, <1>9, <3>1
    <3>3. WaitOK(g, control[g].commands, Tail(q), session)
      BY <1>3, <3>2, WaitDone
    <3> QED BY <2>1, <2>5, <3>1, <3>3
  <2>9. new.air \subseteq 1..Len(texts)
    BY <1>7, <2>2, <2>5
  <2>10. face' = [face EXCEPT ![g] = new]
    BY <2>1, <2>4
  <2>11. \A k \in 1..Len(new.queue) : Goes(texts, new.queue[k], new.for)
    BY <1>6, <2>5
  <2>12. /\ holder' = holder /\ control' = control
         /\ new.state = face[g].state /\ new.for = face[g].for /\ new.next = face[g].next
    BY <1>2, <2>5
  <2> QED BY <2>3, <2>5, <2>6, <2>7, <2>8, <2>9, <2>10, <2>11, <2>12, FaceStep
<1>10. CASE c.kind # "text"
  <2>1. /\ texts' = IF c.kind = "stop" THEN EndTexts([f EXCEPT !.queue = <<>>]) ELSE texts
        /\ face' = [face EXCEPT ![g] = IF c.kind = "stop" THEN [f EXCEPT !.air = {}] ELSE f]
        /\ session' = AnswerTo(c.by)
    BY <1>10 DEF FaceTakes
  <2>2. Same(texts, texts')
    <3>1. CASE c.kind = "stop"
      BY <1>1, <2>1, <3>1, TextsFail
    <3>2. CASE c.kind # "stop"
      BY <1>1, <2>1, <3>2 DEF Same
    <3> QED BY <3>1, <3>2
  <2>3. Aged(texts, texts') /\ TextsGoOutForTheirWindow'
    BY <1>1, <2>2, SameStay
  <2>4. PICK new : new = IF c.kind = "stop" THEN [f EXCEPT !.air = {}] ELSE f
    OBVIOUS
  <2>5. /\ IsFace(new) /\ new.state = o.state /\ new.for = o.for /\ new.next = o.next
        /\ new.air \subseteq o.air /\ new.queue = Tail(o.queue)
    <3> HIDE DEF f, c, o
    <3>1. CASE c.kind = "stop"
      <4>1. new = [f EXCEPT !.air = {}]
        BY <2>4, <3>1
      <4> QED BY <1>5, <4>1 DEF IsFace
    <3>2. CASE c.kind # "stop"
      BY <1>5, <2>4, <3>2
    <3> QED BY <3>1, <3>2
  <2>6. Asking(session, c.by, g) /\ c.by \in Sockets
    <3>1. PICK q \in Seq(Request) : q = o.queue
      BY <1>3
    <3>2. c = q[1] /\ 1 \in 1..Len(q) /\ WaitOK(g, control[g].commands, q, session)
      BY <1>4, <1>8, <3>1
    <3> HIDE DEF c
    <3> QED BY <1>10, <3>2, RequestAt DEF WaitOK
  <2>7. /\ session' = [s \in Sockets |-> session'[s]] /\ \A s \in Sockets : Answers(g, s)
        /\ \A s \in Sockets : s # c.by => session'[s] = session[s]
    <3> HIDE DEF c
    <3> QED BY <2>1, <2>6, OneAnswer
  <2>8. WaitOK(g, control[g].commands, new.queue, session')
    <3>1. PICK q \in Seq(Request) : q = o.queue
      BY <1>3
    <3>2. q # <<>> /\ WaitOK(g, control[g].commands, q, session) /\ Head(q) = c
      BY <1>2, <1>8, <3>1
    <3> HIDE DEF c
    <3>3. WaitOK(g, control[g].commands, Tail(q), session')
      BY <1>3, <1>10, <2>7, <3>2, WaitDone
    <3> QED BY <2>5, <3>1, <3>3
  <2>9. new.air \subseteq 1..Len(texts)
    BY <1>7, <2>5
  <2>10. face' = [face EXCEPT ![g] = new]
    BY <2>1, <2>4
  <2>11. \A k \in 1..Len(new.queue) : Goes(texts, new.queue[k], new.for)
    BY <1>6, <2>5
  <2>12. /\ holder' = holder /\ control' = control
         /\ new.state = face[g].state /\ new.for = face[g].for /\ new.next = face[g].next
    BY <1>2, <2>5
  <2> QED BY <2>3, <2>5, <2>7, <2>8, <2>9, <2>10, <2>11, <2>12, FaceStep
<1> QED BY <1>9, <1>10

LEMMA RequestFails == ASSUME DigitalInv, NEW g \in Runs, FaceRefuses(g) PROVE DigitalInv'
<1>0. PICK q, c, f : q = face[g].queue /\ c = Head(q) /\ f = [face[g] EXCEPT !.queue = Tail(@)]
  OBVIOUS
<1>1. /\ RunOK(texts, holder, control[g], face[g]) /\ face = [h \in Runs |-> face[h]]
      /\ session = [s \in Sockets |-> session[s]] /\ texts \in Seq(Text) /\ TextsGoOutForTheirWindow
      /\ WaitOK(g, control[g].commands, q, session)
  BY <1>0 DEF DigitalInv
<1>2. /\ q # <<>> /\ UNCHANGED <<holder, control>>
      /\ face' = [face EXCEPT ![g] = f] /\ texts' = EndTexts([NoFace EXCEPT !.queue = <<c>>])
      /\ session' = IF c.kind = "text" THEN session ELSE AnswerTo(c.by)
  BY <1>0 DEF FaceRefuses
<1>3. IsFace(face[g]) /\ q \in Seq(Request) /\ control[g].commands \in Seq(Request)
  BY <1>0, <1>1 DEF RunOK, RunBase, IsFace, IsControl
<1>4. /\ c \in Request /\ c = q[1] /\ Tail(q) \in Seq(Request) /\ 1 \in 1..Len(q)
      /\ \A k \in 1..Len(Tail(q)) : k + 1 \in 1..Len(q) /\ Tail(q)[k] = q[k + 1]
  BY <1>0, <1>2, <1>3, Ends
<1>5. /\ IsFace(f) /\ f.state = face[g].state /\ f.for = face[g].for /\ f.next = face[g].next
      /\ f.air = face[g].air /\ f.queue = Tail(q)
  BY <1>0, <1>3, <1>4 DEF IsFace
<1>6. \A k \in 1..Len(f.queue) : Goes(texts, f.queue[k], f.for)
  BY <1>0, <1>1, <1>4, <1>5 DEF RunOK, RunBase
<1>7. f.air \subseteq 1..Len(texts)
  BY <1>1, <1>5 DEF RunOK, RunBase
<1>8. Aged(texts, texts') /\ TextsGoOutForTheirWindow'
  BY <1>1, <1>2, TextsFail, SameStay
<1>9. /\ session' = [s \in Sockets |-> session'[s]] /\ \A s \in Sockets : Answers(g, s)
      /\ WaitOK(g, control[g].commands, f.queue, session')
  <2>1. CASE c.kind = "text"
    <3>1. session' = session
      BY <1>2, <2>1
    <3>2. WaitOK(g, control[g].commands, Tail(q), session)
      BY <1>0, <1>1, <1>2, <1>3, <2>1, WaitDone
    <3>3. session' = [s \in Sockets |-> session'[s]]
      BY <1>1, <3>1, Zenon
    <3> QED BY <1>5, <3>1, <3>2, <3>3 DEF Answers
  <2>2. CASE c.kind # "text"
    <3>1. session' = AnswerTo(c.by)
      BY <1>2, <2>2
    <3>2. Asking(session, c.by, g) /\ c.by \in Sockets
      BY <1>1, <1>4, <2>2, RequestAt DEF WaitOK
    <3>3. /\ session' = [s \in Sockets |-> session'[s]] /\ \A s \in Sockets : Answers(g, s)
          /\ \A s \in Sockets : s # c.by => session'[s] = session[s]
      BY <3>1, <3>2, OneAnswer
    <3>4. WaitOK(g, control[g].commands, Tail(q), session')
      BY <1>0, <1>1, <1>2, <1>3, <2>2, <3>3, WaitDone
    <3> QED BY <1>5, <3>3, <3>4
  <2> QED BY <2>1, <2>2
<1> QED BY <1>2, <1>5, <1>6, <1>7, <1>8, <1>9, FaceStep

LEMMA TextHasLeft == ASSUME DigitalInv, NEW g \in Runs, TransmissionEnds(g) PROVE DigitalInv'
<1>1. /\ RunOK(texts, holder, control[g], face[g]) /\ face = [h \in Runs |-> face[h]]
      /\ session = [s \in Sockets |-> session[s]] /\ texts \in Seq(Text) /\ TextsGoOutForTheirWindow
      /\ WaitOK(g, control[g].commands, face[g].queue, session)
  BY DEF DigitalInv
<1>2. PICK n \in face[g].air : /\ texts' = [texts EXCEPT ![n].state = "sent"]
                               /\ face' = [face EXCEPT ![g].air = @ \ {n}]
  BY DEF TransmissionEnds
<1>3. holder' = holder /\ control' = control /\ session' = session
  BY DEF TransmissionEnds
<1>4. PICK f : f = [face[g] EXCEPT !.air = @ \ {n}]
  OBVIOUS
<1>5. IsFace(face[g]) /\ face[g].air \subseteq 1..Len(texts)
  BY <1>1 DEF RunOK, RunBase
<1>6. /\ IsFace(f) /\ f.state = face[g].state /\ f.for = face[g].for /\ f.next = face[g].next
      /\ f.queue = face[g].queue /\ f.air \subseteq face[g].air
  BY <1>4, <1>5 DEF IsFace
<1>7. face' = [face EXCEPT ![g] = f]
  BY <1>1, <1>2, <1>4
<1>8. Aged(texts, texts') /\ TextsGoOutForTheirWindow'
  BY <1>1, <1>2, <1>5, TextSet, SameStay DEF TextStates
<1>9. session' = [s \in Sockets |-> session'[s]]
  BY <1>1, <1>3, Zenon
<1>10. \A s \in Sockets : Answers(g, s)
  BY <1>3 DEF Answers
<1>11. \A k \in 1..Len(f.queue) : Goes(texts, f.queue[k], f.for)
  BY <1>1, <1>6 DEF RunOK, RunBase
<1>12. WaitOK(g, control[g].commands, f.queue, session')
  BY <1>1, <1>3, <1>6
<1>13. f.air \subseteq 1..Len(texts)
  BY <1>5, <1>6
<1> QED BY <1>3, <1>6, <1>7, <1>8, <1>9, <1>10, <1>11, <1>12, <1>13, FaceStep

(* An interface ends: its requests are dropped.                             *)
LEMMA RequestsAreDropped ==
  ASSUME DigitalInv, NEW g \in Runs, texts' = EndTexts(face[g]), session' = Released(face[g])
  PROVE  /\ session' = [s \in Sockets |-> session'[s]] /\ \A s \in Sockets : Answers(g, s)
         /\ WaitOK(g, control[g].commands, <<>>, session')
         /\ Aged(texts, texts') /\ TextsGoOutForTheirWindow'
<1>1. /\ RunOK(texts, holder, control[g], face[g]) /\ texts \in Seq(Text) /\ TextsGoOutForTheirWindow
      /\ WaitOK(g, control[g].commands, face[g].queue, session)
  BY DEF DigitalInv
<1>2. Aged(texts, texts') /\ TextsGoOutForTheirWindow'
  BY <1>1, TextsFail, SameStay
<1>3. face[g].queue \in Seq(Request) /\ control[g].commands \in Seq(Request)
  BY <1>1 DEF RunOK, RunBase, IsFace, IsControl
<1>4. PICK q \in Seq(Request) : q = face[g].queue
  BY <1>3
<1>5. session' = [s \in Sockets |->
                    IF \E k \in 1..Len(q) : q[k].kind # "text" /\ q[k].by = s
                    THEN [Out EXCEPT !.state = "open"] ELSE session[s]]
  <2>1. \A s : s \in Unanswered(face[g]) <=> \E k \in 1..Len(q) : q[k].kind # "text" /\ q[k].by = s
    BY <1>4 DEF Unanswered
  <2> QED BY <2>1 DEF Released
<1>6. WaitOK(g, control[g].commands, q, session)
  BY <1>1, <1>4
<1>7. \A s \in Sockets :
        \/ session'[s] = session[s]
        \/ /\ \E k \in 1..Len(q) : q[k].kind # "text" /\ q[k].by = s
           /\ session'[s] = [Out EXCEPT !.state = "open"]
  BY <1>5
<1>8. WaitOK(g, control[g].commands, <<>>, session')
  <2>1. \A s \in Sockets : session'[s] = session[s] \/ \E k \in 1..Len(q) : q[k].kind # "text" /\ q[k].by = s
    BY <1>7
  <2>2. PICK cs \in Seq(Request) : cs = control[g].commands
    BY <1>3
  <2>3. PICK ss, tt : ss = session /\ tt = session'
    OBVIOUS
  <2>4. WaitOK(g, cs, q, ss)
    BY <1>6, <2>2, <2>3
  <2>5. \A s \in Sockets : tt[s] = ss[s] \/ \E k \in 1..Len(q) : q[k].kind # "text" /\ q[k].by = s
    BY <2>1, <2>3
  <2>6. WaitOK(g, cs, <<>>, tt)
    BY <2>4, <2>5, WaitDropped
  <2> QED BY <2>2, <2>3, <2>6
<1>9. \A s \in Sockets : Answers(g, s)
  BY <1>6, <1>7 DEF Answers, WaitOK
<1>10. session' = [s \in Sockets |-> session'[s]]
  BY <1>5
<1> QED BY <1>2, <1>8, <1>9, <1>10

LEMMA NoneLeft == Len(<<>>) = 0
OBVIOUS

LEMMA FaceIsDead == ASSUME DigitalInv, NEW g \in Runs, FaceDies(g) PROVE DigitalInv'
<1>1. RunOK(texts, holder, control[g], face[g]) /\ face = [h \in Runs |-> face[h]]
  BY DEF DigitalInv
<1>2. /\ face[g].state = "up" /\ texts' = EndTexts(face[g]) /\ session' = Released(face[g])
      /\ face' = [face EXCEPT ![g] = [Started(@.for) EXCEPT !.state = "dead"]]
      /\ holder' = holder /\ control' = control
  BY DEF FaceDies
<1>3. /\ session' = [s \in Sockets |-> session'[s]] /\ \A s \in Sockets : Answers(g, s)
      /\ WaitOK(g, control[g].commands, <<>>, session')
      /\ Aged(texts, texts') /\ TextsGoOutForTheirWindow'
  BY <1>2, RequestsAreDropped
<1>4. IsFace(face[g])
  BY <1>1 DEF RunOK, RunBase
<1>5. PICK w \in SomeOrNone : w = face[g].for
  BY <1>4 DEF IsFace
<1>6. PICK f : f = [Started(w) EXCEPT !.state = "dead"]
  OBVIOUS
<1>7. /\ IsFace(f) /\ f.state = "dead" /\ f.for = w /\ f.queue = <<>> /\ f.air = {}
      /\ w = face[g].for /\ face' = [face EXCEPT ![g] = f]
  <2>1. w # NoWindow
    BY <1>2, <1>4, <1>5 DEF IsFace
  <2>2. IsFace(f) /\ f.state = "dead" /\ f.for = w /\ f.queue = <<>> /\ f.air = {}
    BY <1>6, <2>1, NoRequests DEF IsFace, SomeOrNone, Started, NoFace
  <2>3. face' = [face EXCEPT ![g] = f]
    BY <1>1, <1>2, <1>5, <1>6
  <2> QED BY <1>5, <2>2, <2>3
<1>8. /\ \A k \in 1..Len(f.queue) : Goes(texts, f.queue[k], f.for)
      /\ f.air \subseteq 1..Len(texts) /\ WaitOK(g, control[g].commands, f.queue, session')
  BY <1>3, <1>7, NoneLeft
<1> QED BY <1>2, <1>3, <1>7, <1>8, FaceStep

LEMMA FaceIsOver == ASSUME DigitalInv, NEW g \in Runs, FaceStops(g) PROVE DigitalInv'
<1>1. /\ RunOK(texts, holder, control[g], face[g]) /\ face = [h \in Runs |-> face[h]]
      /\ control = [h \in Runs |-> control[h]]
  BY DEF DigitalInv
<1>2. /\ face[g].state \in {"stopping", "gone"} /\ texts' = EndTexts(face[g])
      /\ session' = Released(face[g]) /\ holder' = holder
  BY DEF FaceStops
<1>3. /\ session' = [s \in Sockets |-> session'[s]] /\ \A s \in Sockets : Answers(g, s)
      /\ WaitOK(g, control[g].commands, <<>>, session')
      /\ Aged(texts, texts') /\ TextsGoOutForTheirWindow'
  BY <1>2, RequestsAreDropped
<1>4. PICK w : w = face[g].next
  OBVIOUS
<1>5. w \in SomeOrNone /\ (Calm(control[g]) => w \in {holder, NoWindow})
  BY <1>1, <1>2, <1>4 DEF RunOK, RunBase, FaceFits, IsFace
<1>6. control[g].state \notin {"none", "done"}
  BY <1>1, <1>2 DEF RunOK, FaceFits
<1>7. PICK refused \in BOOLEAN :
        /\ control' = [control EXCEPT ![g] = StartFor(g, control[g], NoFace, w, refused).ctl]
        /\ face' = [face EXCEPT ![g] = StartFor(g, control[g], NoFace, w, refused).face]
  BY <1>4 DEF FaceStops
<1>8. PICK r : r = StartFor(g, control[g], NoFace, w, refused)
  OBVIOUS
<1>9. /\ NoFace.state = "none" /\ NoFace.for = NoWindow /\ NoFace.queue = <<>> /\ NoFace.air = {}
      /\ IsFace(NoFace)
  BY NoRequests DEF NoFace, IsFace, SomeOrNone
<1>10. RunOK(texts, holder, control[g], NoFace)
  <2>1. \A k \in 1..Len(NoFace.queue) : Goes(texts, NoFace.queue[k], NoFace.for)
    BY <1>9, NoneLeft
  <2> QED BY <1>1, <1>9, <2>1 DEF RunOK, RunBase, FaceFits
<1>11. /\ RunOK(texts, holder, r.ctl, r.face) /\ r.ctl.commands = control[g].commands /\ r.face.queue = <<>>
       /\ r.ctl.state = control[g].state /\ r.ctl.dirty = control[g].dirty
  BY <1>5, <1>6, <1>8, <1>9, <1>10, StartFits
<1>12. control'[g] = r.ctl /\ face'[g] = r.face
  BY <1>1, <1>7, <1>8
<1>13. control' = [control EXCEPT ![g] = control'[g]] /\ face' = [face EXCEPT ![g] = face'[g]]
  BY <1>7, <1>8, <1>12
<1>14. Calm(control[g]) => Calm(control'[g])
  BY <1>11, <1>12 DEF Calm
<1>15. RunOK(texts', holder, control'[g], face'[g])
  BY <1>3, <1>11, <1>12, RunKept
<1>16. WaitOK(g, control'[g].commands, face'[g].queue, session')
  BY <1>3, <1>11, <1>12
<1>17. control'[g].state = "live" <=> control[g].state = "live"
  BY <1>11, <1>12
<1> QED BY <1>2, <1>3, <1>13, <1>14, <1>15, <1>16, <1>17, RunStep

-----------------------------------------------------------------------------
(* Sessions.  One changes, and maybe the controllers with it.               *)
LEMMA SessionStep ==
  ASSUME DigitalInv, NEW s \in Sockets, NEW one, session' = [session EXCEPT ![s] = one], face' = face,
         control' = [g \in Runs |-> control'[g]], texts' \in Seq(Text), holder' \in SomeOrNone,
         \A g \in Runs : RunOK(texts', holder', control'[g], face[g]),
         \A g \in Runs : WaitOK(g, control'[g].commands, face[g].queue, session'),
         AskOK(texts', holder', control', s, one),
         \A t \in Sockets \ {s} : AskOK(texts', holder', control', t, session[t]),
         OneEntry(control', session'), HolderIsThere(holder', session'), TextsGoOutForTheirWindow'
  PROVE  DigitalInv'
<1>1. /\ session' = [t \in Sockets |-> session'[t]] /\ session'[s] = one
      /\ \A t \in Sockets \ {s} : session'[t] = session[t]
  BY DEF DigitalInv
<1>2. face' = [g \in Runs |-> face'[g]] /\ \A g \in Runs : face'[g] = face[g]
  BY DEF DigitalInv
<1>3. \A t \in Sockets : AskOK(texts', holder', control', t, session'[t])
  BY <1>1
<1>4. \A g \in Runs : /\ RunOK(texts', holder', control'[g], face'[g])
                      /\ WaitOK(g, control'[g].commands, face'[g].queue, session')
  BY <1>2
<1> QED BY <1>1, <1>2, <1>3, <1>4 DEF DigitalInv

(* A session that does not wait may change: who waits still does.           *)
LEMMA WaitKept ==
  ASSUME NEW g \in Runs, NEW cs \in Seq(Request), NEW q \in Seq(Request), NEW ss, NEW tt, NEW s \in Sockets,
         WaitOK(g, cs, q, ss), ss[s].state # "asking", \A t \in Sockets \ {s} : tt[t] = ss[t]
  PROVE  WaitOK(g, cs, q, tt)
<1>1. \A t \in Sockets : Asking(ss, t, g) => Asking(tt, t, g)
  BY DEF Asking
<1>2. /\ \A k \in 1..Len(cs) : cs[k].by \in Sockets
      /\ \A k \in 1..Len(q) : q[k].by \in Sockets
  BY RequestAt
<1> QED BY <1>1, <1>2 DEF WaitOK

LEMMA RunTypes ==
  ASSUME DigitalInv, NEW g \in Runs
  PROVE  /\ IsControl(control[g]) /\ IsFace(face[g]) /\ control[g].commands \in Seq(Request)
         /\ face[g].queue \in Seq(Request) /\ RunOK(texts, holder, control[g], face[g])
         /\ WaitOK(g, control[g].commands, face[g].queue, session)
<1>1. RunOK(texts, holder, control[g], face[g]) /\ WaitOK(g, control[g].commands, face[g].queue, session)
  BY DEF DigitalInv
<1> QED BY <1>1 DEF RunOK, RunBase, IsControl, IsFace

LEMMA OthersWait ==
  ASSUME DigitalInv, NEW g \in Runs, NEW s \in Sockets, session[s].state # "asking",
         \A t \in Sockets \ {s} : session'[t] = session[t]
  PROVE  WaitOK(g, control[g].commands, face[g].queue, session')
<1>1. PICK cs \in Seq(Request), q \in Seq(Request) : cs = control[g].commands /\ q = face[g].queue
  BY RunTypes
<1>2. WaitOK(g, cs, q, session)
  BY <1>1, RunTypes
<1>3. WaitOK(g, cs, q, session')
  BY <1>2, WaitKept
<1> QED BY <1>1, <1>3

(* Only a session changes, and stays registered or not.                     *)
LEMMA OneSession ==
  ASSUME DigitalInv, NEW s \in Sockets, NEW one, session' = [session EXCEPT ![s] = one],
         UNCHANGED <<holder, control, face>>, session[s].state # "asking",
         DioReg(one) = DioReg(session[s]), AskOK(texts', holder, control, s, one),
         Aged(texts, texts'), TextsGoOutForTheirWindow'
  PROVE  DigitalInv'
<1>1. holder' = holder /\ control' = control /\ face' = face
  OBVIOUS
<1>2. control = [g \in Runs |-> control[g]] /\ session = [t \in Sockets |-> session[t]] /\ holder \in SomeOrNone
  BY DEF DigitalInv
<1>3. session'[s] = one /\ \A t \in Sockets \ {s} : session'[t] = session[t]
  BY <1>2
<1>4. control' = [g \in Runs |-> control'[g]] /\ texts' \in Seq(Text) /\ holder' \in SomeOrNone
  <2>1. control' = [g \in Runs |-> control'[g]]
    BY <1>1, <1>2, Zenon
  <2> QED BY <1>1, <1>2, <2>1 DEF Aged
<1>5. \A g \in Runs : RunOK(texts', holder', control'[g], face[g])
  BY <1>1, RunTypes, RunKept
<1>6. \A g \in Runs : WaitOK(g, control'[g].commands, face[g].queue, session')
  <2> SUFFICES ASSUME NEW g \in Runs PROVE WaitOK(g, control[g].commands, face[g].queue, session')
    BY <1>1
  <2> QED BY <1>3, OthersWait
<1>7. \A t \in Sockets \ {s} : AskOK(texts', holder', control', t, session[t])
  <2> SUFFICES ASSUME NEW t \in Sockets \ {s} PROVE AskOK(texts', holder, control, t, session[t])
    BY <1>1
  <2>1. AskOK(texts, holder, control, t, session[t])
    BY DEF DigitalInv
  <2> QED BY <2>1, BoundKept DEF AskOK
<1>8. \A t \in Sockets : DioReg(session'[t]) = DioReg(session[t])
  BY <1>3
<1>9. OneEntry(control', session') /\ HolderIsThere(holder', session')
  BY <1>1, <1>8 DEF DigitalInv, OneEntry, HolderIsThere
<1>10. AskOK(texts', holder', control', s, one)
  BY <1>1
<1> QED BY <1>1, <1>4, <1>5, <1>6, <1>7, <1>9, <1>10, SessionStep

LEMMA SessionJoins == ASSUME DigitalInv, NEW s \in Sockets, JoinDigital(s) PROVE DigitalInv'
<1>1. /\ session[s].state = "out" /\ UNCHANGED <<holder, control, face>> /\ texts' = texts
      /\ session' = [session EXCEPT ![s] = [Out EXCEPT !.state = "joining", !.mode = digital]]
  BY DEF JoinDigital
<1>2. PICK one : one = [Out EXCEPT !.state = "joining", !.mode = digital]
  OBVIOUS
<1>3. IsSession(one) /\ one.state = "joining"
  BY <1>2, NoRequests DEF IsSession, Out
<1>4. AskOK(texts', holder, control, s, one) /\ DioReg(one) = DioReg(session[s])
  BY <1>1, <1>3 DEF AskOK, DioReg
<1>5. Aged(texts, texts') /\ TextsGoOutForTheirWindow'
  BY <1>1, SameAge DEF DigitalInv, TextsGoOutForTheirWindow
<1> QED BY <1>1, <1>2, <1>4, <1>5, OneSession

(* The entry of a radio with sessions is live.                              *)
LEMMA EntryIsLive ==
  ASSUME DigitalInv, NEW s \in Sockets, DioReg(session[s])
  PROVE  Entry \in Runs /\ control[Entry].state = "live"
<1>1. \E g \in Runs : control[g].state = "live"
  BY DEF DigitalInv, OneEntry
<1> QED BY <1>1 DEF Entry

(* A session whose request is checked.                                      *)
LEMMA RequestIsChecked ==
  ASSUME DigitalInv, NEW s \in Sockets, session[s].state = "open", NEW c \in Request, c.by = s, NEW us,
         NEW one, one = [session[s] EXCEPT !.state = "checked", !.at = Entry, !.asks = <<c>>],
         Bound(us, holder, control[Entry], c)
  PROVE  AskOK(us, holder, control, s, one) /\ DioReg(one) = DioReg(session[s])
<1>1. Entry \in Runs
  BY EntryIsLive DEF DioReg
<1>2. IsSession(session[s])
  BY DEF DigitalInv, AskOK
<1>3. <<c>> \in Seq(Request) /\ Len(<<c>>) = 1 /\ <<c>>[1] = c
  OBVIOUS
<1>4. IsSession(one) /\ one.state = "checked" /\ one.at = Entry /\ one.asks = <<c>>
  BY <1>2, <1>3 DEF IsSession
<1> QED BY <1>1, <1>3, <1>4 DEF AskOK, DioReg

LEMMA NothingChanges ==
  ASSUME DigitalInv, NEW s \in Sockets, session' = session, Aged(texts, texts')
  PROVE  /\ session' = [session EXCEPT ![s] = session[s]]
         /\ AskOK(texts', holder, control, s, session[s])
<1>1. AskOK(texts, holder, control, s, session[s]) /\ session = [t \in Sockets |-> session[t]]
  BY DEF DigitalInv
<1>2. AskOK(texts', holder, control, s, session[s])
  BY <1>1, BoundKept DEF AskOK
<1> QED BY <1>1, <1>2

LEMMA TextIsAsked == ASSUME DigitalInv, NEW s \in Sockets, Transmit(s) PROVE DigitalInv'
<1>1. PICK w, n, text :
        /\ w = WindowOf(s) /\ n = Len(texts) + 1
        /\ text = [by |-> w, steady |-> ~control[Entry].dirty, under |-> NoWindow,
                   state |-> IF MaySend(w) THEN "asked" ELSE "refused"]
        /\ session[s].state = "open" /\ texts' = Append(texts, text)
        /\ session' = IF MaySend(w)
                      THEN [session EXCEPT ![s].state = "checked", ![s].at = Entry,
                                           ![s].asks = <<[kind |-> "text", text |-> n, by |-> s]>>]
                      ELSE session
        /\ holder' = holder /\ control' = control /\ face' = face
  BY DEF Transmit
<1>2. texts \in Seq(Text) /\ TextsGoOutForTheirWindow /\ session = [t \in Sockets |-> session[t]]
  BY DEF DigitalInv
<1>3. w \in DigitalWindows
  BY <1>1 DEF WindowOf, Sockets
<1>4. Entry \in Runs /\ control[Entry].state = "live"
  BY <1>1, EntryIsLive DEF DioReg
<1>5. control[Entry].dirty \in BOOLEAN
  BY <1>4, RunTypes DEF IsControl
<1>6. text \in Text /\ text.by = w /\ text.under = NoWindow /\ (text.steady => Calm(control[Entry]))
  BY <1>1, <1>3, <1>4, <1>5 DEF Text, SomeOrNone, Calm
<1>7. /\ texts' \in Seq(Text) /\ Len(texts') = Len(texts) + 1 /\ texts'[n] = text
      /\ \A m \in 1..Len(texts) : texts'[m] = texts[m]
  BY <1>1, <1>2, <1>6, AppendProperties
<1>8. Aged(texts, texts')
  BY <1>2, <1>7 DEF Aged
<1>9. TextsGoOutForTheirWindow'
  <2>1. \A m \in 1..Len(texts') : m \in 1..Len(texts) \/ m = n
    BY <1>1, <1>2, <1>7
  <2> QED BY <1>2, <1>6, <1>7, <2>1 DEF TextsGoOutForTheirWindow
<1>10. CASE MaySend(w)
  <2>1. PICK c : c = [kind |-> "text", text |-> n, by |-> s]
    OBVIOUS
  <2>2. c \in Request /\ c.kind = "text" /\ c.text = n /\ c.by = s
    BY <1>1, <1>2, <2>1 DEF Request
  <2>3. Bound(texts', holder, control[Entry], c)
    BY <1>1, <1>2, <1>6, <1>7, <1>10, <2>2 DEF Bound, Goes, MaySend
  <2>4. PICK one : one = [session[s] EXCEPT !.state = "checked", !.at = Entry, !.asks = <<c>>]
    OBVIOUS
  <2>5. AskOK(texts', holder, control, s, one) /\ DioReg(one) = DioReg(session[s])
    BY <1>1, <2>2, <2>3, <2>4, RequestIsChecked
  <2>6. session' = [session EXCEPT ![s] = one]
    BY <1>1, <1>2, <1>10, <2>1, <2>4
  <2> QED BY <1>1, <1>8, <1>9, <2>5, <2>6, OneSession
<1>11. CASE ~MaySend(w)
  <2>1. session' = session
    BY <1>1, <1>11
  <2>2. session' = [session EXCEPT ![s] = session[s]] /\ AskOK(texts', holder, control, s, session[s])
    BY <1>8, <2>1, NothingChanges
  <2> QED BY <1>1, <1>8, <1>9, <2>2, OneSession
<1> QED BY <1>10, <1>11

LEMMA ControlIsAsked ==
  ASSUME DigitalInv, NEW s \in Sockets, NEW kind \in {"stop", "clear"}, AskControl(s, kind)
  PROVE  DigitalInv'
<1>1. /\ session[s].state = "open" /\ texts' = texts
      /\ session' = IF MaySend(WindowOf(s))
                    THEN [session EXCEPT ![s].state = "checked", ![s].at = Entry,
                                         ![s].asks = <<[kind |-> kind, text |-> 0, by |-> s]>>]
                    ELSE session
      /\ holder' = holder /\ control' = control /\ face' = face
  BY DEF AskControl
<1>2. session = [t \in Sockets |-> session[t]]
  BY DEF DigitalInv
<1>3. Aged(texts, texts') /\ TextsGoOutForTheirWindow'
  BY <1>1, SameAge DEF DigitalInv, TextsGoOutForTheirWindow
<1>4. CASE MaySend(WindowOf(s))
  <2>1. PICK c : c = [kind |-> kind, text |-> 0, by |-> s]
    OBVIOUS
  <2>2. c \in Request /\ c.kind # "text" /\ c.text = 0 /\ c.by = s
    BY <2>1 DEF Request
  <2>3. Bound(texts', holder, control[Entry], c)
    BY <2>2 DEF Bound, Goes
  <2>4. PICK one : one = [session[s] EXCEPT !.state = "checked", !.at = Entry, !.asks = <<c>>]
    OBVIOUS
  <2>5. AskOK(texts', holder, control, s, one) /\ DioReg(one) = DioReg(session[s])
    BY <1>1, <2>2, <2>3, <2>4, RequestIsChecked
  <2>6. session' = [session EXCEPT ![s] = one]
    BY <1>1, <1>2, <1>4, <2>1, <2>4
  <2> QED BY <1>1, <1>3, <2>5, <2>6, OneSession
<1>5. CASE ~MaySend(WindowOf(s))
  <2>1. session' = session
    BY <1>1, <1>5
  <2>2. session' = [session EXCEPT ![s] = session[s]] /\ AskOK(texts', holder, control, s, session[s])
    BY <1>3, <2>1, NothingChanges
  <2> QED BY <1>1, <1>3, <2>2, OneSession
<1> QED BY <1>4, <1>5

LEMMA WaitAdded ==
  ASSUME NEW g \in Runs, NEW cs \in Seq(Request), NEW q \in Seq(Request), NEW ss, NEW tt, NEW s \in Sockets,
         NEW c \in Request, c.by = s, WaitOK(g, cs, q, ss), ss[s].state # "asking",
         \A t \in Sockets \ {s} : tt[t] = ss[t], Asking(tt, s, g)
  PROVE  WaitOK(g, Append(cs, c), q, tt)
<1>1. WaitOK(g, cs, q, tt)
  BY WaitKept
<1>2. /\ Len(Append(cs, c)) = Len(cs) + 1 /\ Append(cs, c)[Len(cs) + 1] = c
      /\ \A k \in 1..Len(cs) : Append(cs, c)[k] = cs[k]
  BY More
<1>3. \A k \in 1..Len(Append(cs, c)) : k \in 1..Len(cs) \/ k = Len(cs) + 1
  BY <1>2
<1>4. /\ \A k \in 1..Len(cs) : cs[k].by # s
      /\ \A k \in 1..Len(q) : q[k].kind # "text" => q[k].by # s
  BY DEF WaitOK, Asking
<1>5. \A k \in 1..Len(Append(cs, c)) : Asking(tt, Append(cs, c)[k].by, g)
  BY <1>1, <1>2, <1>3 DEF WaitOK
<1>6. \A j, k \in 1..Len(Append(cs, c)) : Append(cs, c)[j].by = Append(cs, c)[k].by => j = k
  BY <1>1, <1>2, <1>3, <1>4 DEF WaitOK
<1>7. \A k \in 1..Len(q) : q[k].kind # "text" =>
        Asking(tt, q[k].by, g) /\ \A j \in 1..Len(Append(cs, c)) : Append(cs, c)[j].by # q[k].by
  BY <1>1, <1>2, <1>3, <1>4 DEF WaitOK
<1>8. \A j, k \in 1..Len(q) : q[j].kind # "text" /\ q[k].kind # "text" /\ q[j].by = q[k].by => j = k
  BY <1>1 DEF WaitOK
<1> QED BY <1>5, <1>6, <1>7, <1>8 DEF WaitOK

LEMMA OneRequest ==
  ASSUME NEW cs \in Seq(Request), NEW q \in Seq(Request), Len(q) = 1
  PROVE  cs \o q = Append(cs, q[1]) /\ q[1] \in Request
<1>1. q[1] \in Request
  <2>1. 1 \in 1..Len(q)
    OBVIOUS
  <2> QED BY <2>1, RequestAt
<1>2. q = <<q[1]>>
  <2>1. <<q[1]>> \in Seq(Request) /\ Len(<<q[1]>>) = 1 /\ <<q[1]>>[1] = q[1]
    BY <1>1
  <2>2. \A k \in 1..Len(q) : k = 1
    OBVIOUS
  <2> QED BY <2>1, <2>2, SeqEqual
<1>3. cs \o <<q[1]>> = Append(cs, q[1])
  BY <1>1, AppendIsConcat
<1> QED BY <1>1, <1>2, <1>3

LEMMA RequestIsQueued == ASSUME DigitalInv, NEW s \in Sockets, QueueRequest(s) PROVE DigitalInv'
<1>1. /\ session[s].state = "checked" /\ holder' = holder /\ face' = face /\ texts' = texts
      /\ control' = [control EXCEPT ![session[s].at].commands = @ \o session[s].asks]
      /\ session' = [session EXCEPT ![s].state = "asking", ![s].asks = <<>>]
  BY DEF QueueRequest
<1>2. /\ control = [g \in Runs |-> control[g]] /\ session = [t \in Sockets |-> session[t]]
      /\ face = [g \in Runs |-> face[g]]
      /\ texts \in Seq(Text) /\ holder \in SomeOrNone /\ TextsGoOutForTheirWindow
      /\ AskOK(texts, holder, control, s, session[s])
  BY DEF DigitalInv
<1>3. PICK g \in Runs : g = session[s].at
  BY <1>1, <1>2 DEF AskOK
<1>4. IsSession(session[s]) /\ Len(session[s].asks) = 1
  BY <1>1, <1>2 DEF AskOK
<1>5. PICK c \in Request : c = session[s].asks[1]
  BY <1>4, OneRequest, NoRequests DEF IsSession
<1>6. c.by = s /\ Bound(texts, holder, control[g], c)
  BY <1>1, <1>2, <1>3, <1>5 DEF AskOK
<1>7. control[g].commands \o session[s].asks = Append(control[g].commands, c)
  BY <1>4, <1>5, RunTypes, OneRequest DEF IsSession
<1>8. PICK new : new = [control[g] EXCEPT !.commands = Append(@, c)]
  OBVIOUS
<1>9. control' = [control EXCEPT ![g] = new]
  BY <1>1, <1>2, <1>3, <1>7, <1>8
<1>10. PICK one : one = [session[s] EXCEPT !.state = "asking", !.asks = <<>>]
  OBVIOUS
<1>11. session' = [session EXCEPT ![s] = one]
  BY <1>1, <1>2, <1>10
<1>12. /\ session'[s] = one /\ \A t \in Sockets \ {s} : session'[t] = session[t]
       /\ control'[g] = new /\ \A h \in Runs \ {g} : control'[h] = control[h]
       /\ control' = [h \in Runs |-> control'[h]]
  BY <1>2, <1>9, <1>11
<1>13. IsSession(one) /\ one.state = "asking" /\ one.at = g
  BY <1>3, <1>4, <1>10, NoRequests DEF IsSession
<1>14. PICK cs \in Seq(Request) : cs = control[g].commands
  BY RunTypes
<1>15. Append(cs, c) \in Seq(Request)
  BY More
<1>16. /\ IsControl(new) /\ new.state = control[g].state /\ new.dirty = control[g].dirty
       /\ new.commands = Append(cs, c)
  <2>1. IsControl(control[g])
    BY RunTypes
  <2> QED BY <1>8, <1>14, <1>15, <2>1 DEF IsControl
<1>17. RunOK(texts, holder, new, face[g]) /\ (Calm(new) <=> Calm(control[g]))
  <2>1. RunOK(texts, holder, control[g], face[g])
    BY RunTypes
  <2>2. \A k \in 1..Len(cs) : Bound(texts, holder, control[g], cs[k])
    BY <1>14, <2>1 DEF RunOK, RunBase
  <2>3. /\ Len(Append(cs, c)) = Len(cs) + 1 /\ Append(cs, c)[Len(cs) + 1] = c
        /\ \A k \in 1..Len(cs) : Append(cs, c)[k] = cs[k]
    BY More
  <2>4. \A k \in 1..Len(Append(cs, c)) : k \in 1..Len(cs) \/ k = Len(cs) + 1
    BY <2>3
  <2>5. \A k \in 1..Len(new.commands) : Bound(texts, holder, control[g], new.commands[k])
    BY <1>6, <1>16, <2>2, <2>3, <2>4
  <2> QED BY <1>16, <2>1, <2>5, ControlWith
<1>18. \A h \in Runs : RunOK(texts', holder', control'[h], face[h])
  BY <1>1, <1>12, <1>17, RunTypes
<1>19. \A h \in Runs : WaitOK(h, control'[h].commands, face[h].queue, session')
  <2> SUFFICES ASSUME NEW h \in Runs PROVE WaitOK(h, control'[h].commands, face[h].queue, session')
    OBVIOUS
  <2>1. CASE h # g
    BY <1>1, <1>12, <2>1, OthersWait
  <2>2. CASE h = g
    <3>1. PICK q \in Seq(Request) : q = face[g].queue
      BY RunTypes
    <3>2. WaitOK(g, cs, q, session)
      BY <1>14, <3>1, RunTypes
    <3>3. Asking(session', s, g)
      BY <1>12, <1>13 DEF Asking
    <3>4. c.by = s /\ session[s].state # "asking" /\ \A t \in Sockets \ {s} : session'[t] = session[t]
      BY <1>1, <1>6, <1>12
    <3>5. WaitOK(g, Append(cs, c), q, session')
      BY <3>2, <3>3, <3>4, WaitAdded
    <3> QED BY <1>12, <1>16, <2>2, <3>1, <3>5
  <2> QED BY <2>1, <2>2
<1>20. AskOK(texts', holder', control', s, one)
  BY <1>13 DEF AskOK
<1>21. \A t \in Sockets \ {s} : AskOK(texts', holder', control', t, session[t])
  <2> SUFFICES ASSUME NEW t \in Sockets \ {s} PROVE AskOK(texts, holder, control', t, session[t])
    BY <1>1
  <2>1. AskOK(texts, holder, control, t, session[t])
    BY DEF DigitalInv
  <2>2. \A h \in Runs : Calm(control[h]) => Calm(control'[h])
    BY <1>12, <1>17
  <2>3. Aged(texts, texts)
    BY <1>2, SameAge
  <2> QED BY <2>1, <2>2, <2>3, BoundKept DEF AskOK
<1>22. \A t \in Sockets : DioReg(session'[t]) = DioReg(session[t])
  <2>1. DioReg(session[s]) /\ DioReg(one)
    BY <1>1, <1>13 DEF DioReg
  <2> QED BY <1>12, <2>1 DEF DioReg
<1>23. \A h \in Runs : control'[h].state = control[h].state
  BY <1>12, <1>16
<1>24. OneEntry(control', session')
  BY <1>22, <1>23 DEF DigitalInv, OneEntry
<1>25. HolderIsThere(holder', session')
  BY <1>1, <1>22 DEF DigitalInv, HolderIsThere
<1>26. texts' \in Seq(Text) /\ holder' \in SomeOrNone /\ TextsGoOutForTheirWindow'
  BY <1>1, <1>2 DEF TextsGoOutForTheirWindow
<1> QED BY <1>1, <1>11, <1>12, <1>18, <1>19, <1>20, <1>21, <1>24, <1>25, <1>26, SessionStep

-----------------------------------------------------------------------------
(* The target changes: no text that is on its way is steady any more.       *)
LEMMA ASeq ==
  ASSUME NEW S, NEW m \in Nat, NEW us \in [1..m -> S]
  PROVE  us \in Seq(S) /\ Len(us) = m
OBVIOUS

LEMMA TextsUnsettle ==
  ASSUME texts \in Seq(Text), NEW us, us = Unsettled(TRUE)
  PROVE  Aged(texts, us) /\ Len(us) = Len(texts) /\ \A n \in 1..Len(texts) : ~us[n].steady
<1>1. us = [n \in 1..Len(texts) |-> [texts[n] EXCEPT !.steady = FALSE]]
  BY DEF Unsettled
<1>2. \A n \in 1..Len(texts) : us[n] \in Text /\ us[n].by = texts[n].by /\ us[n].steady = FALSE
  <2> SUFFICES ASSUME NEW n \in 1..Len(texts)
               PROVE  us[n] \in Text /\ us[n].by = texts[n].by /\ us[n].steady = FALSE
    OBVIOUS
  <2>1. texts[n] \in Text
    OBVIOUS
  <2>2. us[n] = [texts[n] EXCEPT !.steady = FALSE]
    BY <1>1
  <2> QED BY <2>1, <2>2 DEF Text
<1>3. us \in Seq(Text) /\ Len(us) = Len(texts)
  <2>1. Len(texts) \in Nat
    OBVIOUS
  <2>2. us \in [1..Len(texts) -> Text]
    BY <1>1, <1>2
  <2>3. PICK m \in Nat : m = Len(texts)
    BY <2>1
  <2>4. us \in [1..m -> Text]
    BY <2>2, <2>3
  <2>5. us \in Seq(Text) /\ Len(us) = m
    BY <2>4, ASeq
  <2> QED BY <2>3, <2>5
<1>4. Aged(texts, us)
  <2>1. PICK m \in Nat : m = Len(texts)
    OBVIOUS
  <2>2. Len(texts) =< Len(us)
    <3>1. Len(us) = m
      BY <1>3, <2>1
    <3>2. m =< m
      OBVIOUS
    <3> QED BY <2>1, <3>1, <3>2, Zenon
  <2> QED BY <1>2, <1>3, <2>2 DEF Aged
<1> QED BY <1>2, <1>3, <1>4

LEMMA NoneIsSteady ==
  ASSUME DigitalInv, texts' = Unsettled(TRUE)
  PROVE  /\ Aged(texts, texts') /\ Len(texts') = Len(texts) /\ \A n \in 1..Len(texts) : ~texts'[n].steady
         /\ TextsGoOutForTheirWindow'
<1>1. Aged(texts, texts') /\ Len(texts') = Len(texts) /\ \A n \in 1..Len(texts) : ~texts'[n].steady
  BY TextsUnsettle DEF DigitalInv
<1> QED BY <1>1 DEF TextsGoOutForTheirWindow

LEMMA BoundLost ==
  ASSUME NEW ts, NEW us, Aged(ts, us), Len(us) = Len(ts), \A n \in 1..Len(ts) : ~us[n].steady,
         NEW h, NEW k, NEW ctl, NEW new, NEW c, Bound(ts, h, ctl, c)
  PROVE  Bound(us, k, new, c)
BY DEF Aged, Bound, Goes

LEMMA RunLost ==
  ASSUME NEW ts, NEW us, Aged(ts, us), Len(us) = Len(ts), \A n \in 1..Len(ts) : ~us[n].steady,
         NEW h, NEW k, NEW ctl, NEW new, NEW f, RunOK(ts, h, ctl, f), IsControl(new), ~Calm(new),
         new.state = ctl.state, new.commands = ctl.commands
  PROVE  RunOK(us, k, new, f)
<1>1. \A j \in 1..Len(new.commands) : Bound(us, k, new, new.commands[j])
  BY BoundLost DEF RunOK, RunBase
<1>2. \A j \in 1..Len(f.queue) : Goes(us, f.queue[j], f.for)
  BY GoesKept DEF RunOK, RunBase
<1>3. f.air \subseteq 1..Len(us)
  BY DEF RunOK, RunBase
<1> QED BY <1>1, <1>2, <1>3 DEF RunOK, RunBase, FaceFits

LEMMA AllAreTold ==
  ASSUME DigitalInv, NEW told, told = Told(control, TRUE)
  PROVE  /\ told = [g \in Runs |-> told[g]]
         /\ \A g \in Runs : /\ IsControl(told[g]) /\ told[g].state = control[g].state
                            /\ told[g].commands = control[g].commands /\ ~Calm(told[g])
<1>1. \A g \in Runs : told[g] = IF control[g].state = "live" THEN [control[g] EXCEPT !.dirty = TRUE]
                                ELSE control[g]
  BY DEF Told
<1>2. told = [g \in Runs |-> told[g]]
  BY DEF Told
<1>3. ASSUME NEW g \in Runs
      PROVE  /\ IsControl(told[g]) /\ told[g].state = control[g].state
             /\ told[g].commands = control[g].commands /\ ~Calm(told[g])
  <2>1. IsControl(control[g])
    BY RunTypes
  <2>2. CASE control[g].state = "live"
    <3>1. told[g] = [control[g] EXCEPT !.dirty = TRUE]
      BY <1>1, <2>2
    <3> QED BY <2>1, <3>1 DEF IsControl, Calm
  <2>3. CASE control[g].state # "live"
    BY <1>1, <2>1, <2>3 DEF Calm
  <2> QED BY <2>2, <2>3
<1> QED BY <1>2, <1>3

LEMMA DigitalTargetIsSet ==
  ASSUME DigitalInv, NEW s \in Sockets, NEW on \in BOOLEAN, SetDigitalTarget(s, on)
  PROVE  DigitalInv'
<1>1. /\ session[s].state = "open" /\ on # (holder = WindowOf(s))
      /\ holder' = HolderAfter(WindowOf(s), on)
      /\ face' = face /\ session' = session
  BY DEF SetDigitalTarget
<1>2. /\ session = [t \in Sockets |-> session[t]] /\ holder \in SomeOrNone
  BY DEF DigitalInv
<1>3. WindowOf(s) \in DigitalWindows /\ WindowOf(s) # NoWindow
  BY NoWindowAssumption DEF WindowOf, Sockets
<1>4. /\ holder' # holder /\ holder' \in {WindowOf(s), NoWindow}
  BY <1>1, <1>3 DEF HolderAfter
<1>5. control' = Told(control, TRUE) /\ texts' = Unsettled(TRUE)
  BY <1>4 DEF SetDigitalTarget
<1>6. /\ Aged(texts, texts') /\ Len(texts') = Len(texts) /\ \A n \in 1..Len(texts) : ~texts'[n].steady
      /\ TextsGoOutForTheirWindow'
  BY <1>5, NoneIsSteady
<1>7. /\ control' = [g \in Runs |-> control'[g]]
      /\ \A g \in Runs : /\ IsControl(control'[g]) /\ control'[g].state = control[g].state
                         /\ control'[g].commands = control[g].commands /\ ~Calm(control'[g])
  BY <1>5, AllAreTold
<1>8. \A g \in Runs : RunOK(texts', holder', control'[g], face[g])
  BY <1>6, <1>7, RunTypes, RunLost
<1>9. \A g \in Runs : WaitOK(g, control'[g].commands, face[g].queue, session')
  BY <1>1, <1>7, RunTypes
<1>10. \A t \in Sockets : AskOK(texts', holder', control', t, session[t])
  <2> SUFFICES ASSUME NEW t \in Sockets PROVE AskOK(texts', holder', control', t, session[t])
    OBVIOUS
  <2>1. AskOK(texts, holder, control, t, session[t])
    BY DEF DigitalInv
  <2> QED BY <1>6, <2>1, BoundLost DEF AskOK
<1>11. OneEntry(control', session')
  BY <1>1, <1>7 DEF DigitalInv, OneEntry
<1>12. HolderIsThere(holder', session')
  BY <1>1, <1>4 DEF HolderIsThere, DioReg
<1>13. session' = [session EXCEPT ![s] = session[s]]
  BY <1>1, <1>2
<1>14. texts' \in Seq(Text) /\ holder' \in SomeOrNone
  BY <1>3, <1>4, <1>6 DEF Aged, SomeOrNone
<1> QED BY <1>1, <1>6, <1>7, <1>8, <1>9, <1>10, <1>11, <1>12, <1>13, <1>14, SessionStep

(* Without sessions that are registered nothing waits.                      *)
LEMMA NobodyAsks ==
  ASSUME DigitalInv, NEW s \in Sockets, session[s].state # "asking",
         \A t \in Sockets \ {s} : ~DioReg(session[t]), NEW g \in Runs
  PROVE  /\ Len(control[g].commands) = 0
         /\ \A ss : WaitOK(g, control[g].commands, face[g].queue, ss)
<1>1. \A t \in Sockets : session[t].state # "asking"
  BY DEF DioReg
<1>2. PICK cs \in Seq(Request), q \in Seq(Request) : cs = control[g].commands /\ q = face[g].queue
  BY RunTypes
<1>3. WaitOK(g, cs, q, session)
  BY <1>2, RunTypes
<1>4. /\ \A k \in 1..Len(cs) : cs[k].by \in Sockets
      /\ \A k \in 1..Len(q) : q[k].by \in Sockets
  BY RequestAt
<1>5. /\ \A k \in 1..Len(cs) : FALSE
      /\ \A k \in 1..Len(q) : q[k].kind = "text"
  BY <1>1, <1>3, <1>4 DEF WaitOK, Asking
<1>6. Len(cs) = 0
  BY <1>5
<1>7. \A ss : WaitOK(g, cs, q, ss)
  BY <1>5, <1>6 DEF WaitOK
<1> QED BY <1>2, <1>6, <1>7

LEMMA NoMoreControl ==
  /\ IsControl(NoControl) /\ NoControl.state = "none" /\ NoControl.commands = <<>> /\ ~Calm(NoControl)
BY NoRequests DEF NoControl, IsControl, Calm

LEMMA OpensAsked ==
  ASSUME NEW us, NEW h, NEW ctls, NEW s, NEW one, IsSession(one), one.state \in {"out", "open", "asking"}
  PROVE  AskOK(us, h, ctls, s, one)
BY DEF AskOK

LEMMA SessionIsAcquired == ASSUME DigitalInv, NEW s \in Sockets, AcquireDigital(s) PROVE DigitalInv'
<1>1. /\ session[s].state = "joining" /\ UNCHANGED <<holder, face, texts>>
      /\ session' = [session EXCEPT ![s] = [Out EXCEPT !.state = "open"]]
  BY DEF AcquireDigital
<1>2. PICK one : one = [Out EXCEPT !.state = "open"]
  OBVIOUS
<1>3. IsSession(one) /\ one.state = "open"
  BY <1>2, Opens DEF Out
<1>4. session' = [session EXCEPT ![s] = one]
  BY <1>1, <1>2
<1>5. /\ session = [t \in Sockets |-> session[t]] /\ control = [g \in Runs |-> control[g]]
      /\ texts \in Seq(Text) /\ holder \in SomeOrNone /\ TextsGoOutForTheirWindow
      /\ OneEntry(control, session) /\ HolderIsThere(holder, session)
  BY DEF DigitalInv
<1>6. session'[s] = one /\ \A t \in Sockets \ {s} : session'[t] = session[t]
  BY <1>4, <1>5
<1>7. DioReg(one) /\ ~DioReg(session[s]) /\ \A t \in Sockets \ {s} : DioReg(session'[t]) <=> DioReg(session[t])
  BY <1>1, <1>3, <1>6 DEF DioReg
<1>8. HolderIsThere(holder', session')
  BY <1>1, <1>5, <1>7 DEF HolderIsThere
<1>9. texts' \in Seq(Text) /\ holder' \in SomeOrNone /\ TextsGoOutForTheirWindow'
  BY <1>1, <1>5 DEF TextsGoOutForTheirWindow
<1>10. \A ctls : AskOK(texts', holder', ctls, s, one)
  BY <1>3, OpensAsked
<1>11. CASE HasEntry
  <2>1. control' = control
    BY <1>11 DEF AcquireDigital
  <2>2. control' = [g \in Runs |-> control'[g]]
    BY <1>5, <2>1, Zenon
  <2>3. \A g \in Runs : RunOK(texts', holder', control'[g], face[g])
    BY <1>1, <2>1, RunTypes
  <2>4. \A g \in Runs : WaitOK(g, control'[g].commands, face[g].queue, session')
    BY <1>1, <1>6, <2>1, OthersWait
  <2>5. \A t \in Sockets \ {s} : AskOK(texts', holder', control', t, session[t])
    BY <1>1, <2>1 DEF DigitalInv
  <2>6. OneEntry(control', session')
    <3>1. \E t \in Sockets \ {s} : DioReg(session[t])
      BY <1>1, <1>11 DEF HasEntry, IsRegistered, DioReg
    <3>2. \E g \in Runs : control[g].state = "live"
      BY <1>5, <3>1 DEF OneEntry
    <3> QED BY <1>5, <1>7, <2>1, <3>1, <3>2 DEF OneEntry
  <2> QED BY <1>1, <1>4, <1>8, <1>9, <1>10, <2>2, <2>3, <2>4, <2>5, <2>6, SessionStep
<1>12. CASE ~HasEntry
  <2>1. PICK g \in Runs :
          /\ control[g].state = "none"
          /\ control' = [control EXCEPT ![g] =
               [NoControl EXCEPT !.state = "live", !.digital = session[s].mode, !.wrong = session[s].mode # digital]]
    BY <1>12 DEF AcquireDigital
  <2>2. PICK new : new = [NoControl EXCEPT !.state = "live", !.digital = session[s].mode,
                                           !.wrong = session[s].mode # digital]
    OBVIOUS
  <2>3. IsControl(new) /\ new.state = "live" /\ new.commands = <<>>
    BY <2>2, NoRequests DEF IsControl, NoControl
  <2>4. /\ control'[g] = new /\ \A h \in Runs \ {g} : control'[h] = control[h]
        /\ control' = [h \in Runs |-> control'[h]]
    BY <1>5, <2>1, <2>2
  <2>5. \A t \in Sockets : ~DioReg(session[t])
    BY <1>12 DEF HasEntry, IsRegistered, DioReg
  <2>6. \A h \in Runs : control[h].state # "live"
    BY <1>5, <2>5 DEF OneEntry
  <2>7. OneEntry(control', session')
    BY <1>6, <1>7, <2>3, <2>4, <2>6 DEF OneEntry
  <2>8. \A h \in Runs : RunOK(texts', holder', control'[h], face[h])
    <3>1. RunOK(texts, holder, control[g], face[g]) /\ face[g].state = "none"
      BY <2>1, RunTypes DEF RunOK, FaceFits
    <3>2. RunOK(texts, holder, new, face[g])
      BY <2>3, <3>1, NoneLeft DEF RunOK, RunBase, FaceFits
    <3> QED BY <1>1, <2>4, <3>2, RunTypes
  <2>9. \A h \in Runs : WaitOK(h, control'[h].commands, face[h].queue, session')
    <3> SUFFICES ASSUME NEW h \in Runs PROVE WaitOK(h, control'[h].commands, face[h].queue, session')
      OBVIOUS
    <3>1. CASE h # g
      BY <1>1, <1>6, <2>4, <3>1, OthersWait
    <3>2. CASE h = g
      <4>1. WaitOK(g, control[g].commands, face[g].queue, session')
        BY <1>1, <2>5, NobodyAsks
      <4> QED BY <2>3, <2>4, <3>2, <4>1, NoneLeft DEF WaitOK
    <3> QED BY <3>1, <3>2
  <2>10. \A t \in Sockets \ {s} : AskOK(texts', holder', control', t, session[t])
    <3> SUFFICES ASSUME NEW t \in Sockets \ {s} PROVE AskOK(texts', holder', control', t, session[t])
      OBVIOUS
    <3>1. AskOK(texts, holder, control, t, session[t]) /\ session[t].state # "checked"
      BY <2>5 DEF DigitalInv, DioReg
    <3> QED BY <3>1 DEF AskOK
  <2> QED BY <1>1, <1>4, <1>8, <1>9, <1>10, <2>4, <2>7, <2>8, <2>9, <2>10, SessionStep
<1> QED BY <1>11, <1>12

(* The last session leaves.                                                 *)
LEMMA LastLeaves ==
  ASSUME DigitalInv, NEW s \in Sockets, NEW one, session[s].state = "open", one.state = "leaving",
         IsSession(one), one.at \in Runs,
         \A t \in Sockets \ {s} : ~DioReg(session[t]), session' = [session EXCEPT ![s] = one], face' = face,
         holder' = NoWindow, Aged(texts, texts'), TextsGoOutForTheirWindow',
         NEW told, control' = [told EXCEPT ![Entry].state = "closing"],
         told = [g \in Runs |-> told[g]],
         \A g \in Runs : /\ IsControl(told[g]) /\ told[g].state = control[g].state
                         /\ told[g].commands = control[g].commands
  PROVE  DigitalInv'
<1>1. /\ session = [t \in Sockets |-> session[t]] /\ OneEntry(control, session)
  BY DEF DigitalInv
<1>2. session'[s] = one /\ \A t \in Sockets \ {s} : session'[t] = session[t]
  BY <1>1
<1>3. \A t \in Sockets : ~DioReg(session'[t])
  BY <1>2 DEF DioReg
<1>4. PICK e \in Runs : e = Entry /\ control[e].state = "live"
  BY EntryIsLive DEF DioReg
<1>5. PICK new : new = [told[e] EXCEPT !.state = "closing"]
  OBVIOUS
<1>6. /\ control'[e] = new /\ \A g \in Runs \ {e} : control'[g] = told[g]
      /\ control' = [g \in Runs |-> control'[g]]
  BY <1>4, <1>5
<1>7. IsControl(new) /\ new.state = "closing" /\ new.commands = control[e].commands
  BY <1>5 DEF IsControl
<1>8. \A g \in Runs : g # e => control[g].state # "live"
  BY <1>1, <1>4 DEF OneEntry
<1>9. \A g \in Runs :
        /\ IsControl(control'[g]) /\ control'[g].commands = control[g].commands /\ control'[g].state # "live"
        /\ control'[g].state \in {"none", "done"} => control[g].state \in {"none", "done"}
  <2>1. ASSUME NEW g \in Runs, g = e
        PROVE  /\ IsControl(control'[g]) /\ control'[g].commands = control[g].commands
               /\ control'[g].state = "closing"
    BY <1>6, <1>7, <2>1
  <2>2. ASSUME NEW g \in Runs, g # e
        PROVE  /\ IsControl(control'[g]) /\ control'[g].commands = control[g].commands
               /\ control'[g].state = control[g].state /\ control[g].state # "live"
    BY <1>6, <1>8, <2>2
  <2> QED BY <2>1, <2>2
<1>10. \A g \in Runs : Len(control[g].commands) = 0
  BY NobodyAsks
<1>11. \A g \in Runs : RunOK(texts', holder', control'[g], face[g])
  <2> SUFFICES ASSUME NEW g \in Runs PROVE RunOK(texts', holder', control'[g], face[g])
    OBVIOUS
  <2>1. RunOK(texts, holder, control[g], face[g])
    BY RunTypes
  <2>2. RunOK(texts', holder, control[g], face[g])
    BY <2>1, RunKept
  <2>3. \A k \in 1..Len(control'[g].commands) : Bound(texts', holder', control'[g], control'[g].commands[k])
    BY <1>9, <1>10
  <2>4. RunBase(texts', holder', control'[g], face[g])
    BY <1>9, <2>2, <2>3 DEF RunOK, RunBase
  <2>5. FaceFits(holder', control'[g], face[g])
    BY <1>9, <2>2 DEF RunOK, FaceFits, Calm
  <2> QED BY <2>4, <2>5 DEF RunOK
<1>12. \A g \in Runs : WaitOK(g, control'[g].commands, face[g].queue, session')
  <2> SUFFICES ASSUME NEW g \in Runs PROVE WaitOK(g, control[g].commands, face[g].queue, session')
    BY <1>9
  <2> QED BY NobodyAsks
<1>13. AskOK(texts', holder', control', s, one)
  BY DEF AskOK
<1>14. \A t \in Sockets \ {s} : AskOK(texts', holder', control', t, session[t])
  <2> SUFFICES ASSUME NEW t \in Sockets \ {s} PROVE AskOK(texts', holder', control', t, session[t])
    OBVIOUS
  <2>1. AskOK(texts, holder, control, t, session[t]) /\ session[t].state # "checked"
    BY DEF DigitalInv, DioReg
  <2> QED BY <2>1 DEF AskOK
<1>15. OneEntry(control', session') /\ HolderIsThere(holder', session')
  BY <1>3, <1>9 DEF OneEntry, HolderIsThere
<1>16. texts' \in Seq(Text) /\ holder' \in SomeOrNone
  BY DEF Aged, SomeOrNone
<1> QED BY <1>6, <1>11, <1>12, <1>13, <1>14, <1>15, <1>16, SessionStep

LEMMA SessionIsReleased == ASSUME DigitalInv, NEW s \in Sockets, ReleaseDigital(s) PROVE DigitalInv'
<1> DEFINE w == WindowOf(s)
           clears == Registrations(w) = {s} /\ holder = w
           ends == \A t \in Sockets \ {s} : ~IsRegistered(t)
           told == Told(control, clears)
<1>1. /\ session[s].state = "open" /\ face' = face
      /\ holder' = IF clears THEN NoWindow ELSE holder
      /\ texts' = Unsettled(clears)
      /\ control' = IF ends THEN [told EXCEPT ![Entry].state = "closing"] ELSE told
      /\ session' = [session EXCEPT ![s] = IF ends THEN [Out EXCEPT !.state = "leaving", !.at = Entry] ELSE Out]
  BY DEF ReleaseDigital
<1>2. /\ session = [t \in Sockets |-> session[t]] /\ control = [g \in Runs |-> control[g]]
      /\ texts \in Seq(Text) /\ holder \in SomeOrNone /\ TextsGoOutForTheirWindow
      /\ OneEntry(control, session) /\ HolderIsThere(holder, session)
  BY DEF DigitalInv
<1>3. \A t \in Sockets : IsRegistered(t) <=> DioReg(session[t])
  BY DEF IsRegistered, DioReg
<1>4. Entry \in Runs /\ control[Entry].state = "live" /\ DioReg(session[s])
  BY <1>1, EntryIsLive DEF DioReg
<1>5. \A t \in Sockets : WindowOf(t) = w /\ DioReg(session[t]) <=> t \in Registrations(w)
  BY <1>3 DEF Registrations
<1>6. ends => clears \/ holder = NoWindow
  <2> SUFFICES ASSUME ends, holder # NoWindow PROVE clears
    OBVIOUS
  <2>1. \A t \in Sockets : DioReg(session[t]) => t = s
    BY <1>3
  <2>2. holder = w
    BY <1>2, <2>1 DEF HolderIsThere
  <2>3. Registrations(w) = {s}
    BY <1>3, <1>4, <2>1 DEF Registrations
  <2> QED BY <2>2, <2>3
<1>7. ~clears => \/ holder = NoWindow
                 \/ \E t \in Sockets \ {s} : WindowOf(t) = holder /\ DioReg(session[t])
  <2> SUFFICES ASSUME ~clears, holder # NoWindow
               PROVE  \E t \in Sockets \ {s} : WindowOf(t) = holder /\ DioReg(session[t])
    OBVIOUS
  <2>1. PICK t \in Sockets : WindowOf(t) = holder /\ DioReg(session[t])
    BY <1>2 DEF HolderIsThere
  <2>2. CASE t = s
    <3>1. holder = w /\ s \in Registrations(w)
      BY <1>5, <2>1, <2>2
    <3>2. PICK u \in Registrations(w) : u # s
      BY <3>1
    <3> QED BY <3>1, <3>2 DEF Registrations, IsRegistered, DioReg
  <2>3. CASE t # s
    BY <2>1, <2>3
  <2> QED BY <2>2, <2>3
<1>8. /\ Aged(texts, texts') /\ Len(texts') = Len(texts) /\ TextsGoOutForTheirWindow'
      /\ clears => \A n \in 1..Len(texts) : ~texts'[n].steady
      /\ ~clears => texts' = texts
  <2>1. CASE clears
    <3>1. texts' = Unsettled(TRUE)
      BY <1>1, <2>1 DEF Unsettled
    <3> QED BY <2>1, <3>1, NoneIsSteady
  <2>2. CASE ~clears
    <3>1. texts' = [n \in 1..Len(texts) |-> texts[n]]
      BY <1>1, <2>2 DEF Unsettled
    <3>2. texts' = texts
      BY <1>2, <3>1, LenProperties
    <3> QED BY <1>2, <2>2, <3>2, SameAge DEF TextsGoOutForTheirWindow
  <2> QED BY <2>1, <2>2
<1>9. /\ told = [g \in Runs |-> told[g]]
      /\ \A g \in Runs : /\ IsControl(told[g]) /\ told[g].state = control[g].state
                         /\ told[g].commands = control[g].commands
                         /\ clears => ~Calm(told[g])
                         /\ ~clears => told[g] = control[g]
  <2>1. CASE clears
    <3>1. told = Told(control, TRUE)
      BY <2>1 DEF Told
    <3> HIDE DEF told, clears
    <3> QED BY <2>1, <3>1, AllAreTold
  <2>2. CASE ~clears
    <3>1. told = [g \in Runs |-> control[g]]
      BY <2>2 DEF Told
    <3> HIDE DEF told, clears
    <3> QED BY <2>2, <3>1, RunTypes
  <2> QED BY <2>1, <2>2
<1>10. CASE ends
  <2>1. PICK one : one = [Out EXCEPT !.state = "leaving", !.at = Entry]
    OBVIOUS
  <2>2. IsSession(one) /\ one.state = "leaving" /\ one.at \in Runs
    BY <1>4, <2>1, NoRequests DEF IsSession, Out
  <2>3. session' = [session EXCEPT ![s] = one] /\ control' = [told EXCEPT ![Entry].state = "closing"]
    BY <1>1, <1>10, <2>1
  <2>4. holder' = NoWindow
    BY <1>1, <1>6, <1>10
  <2>5. \A t \in Sockets \ {s} : ~DioReg(session[t])
    BY <1>3, <1>10
  <2> HIDE DEF told, clears, ends
  <2> QED BY <1>1, <1>8, <1>9, <2>2, <2>3, <2>4, <2>5, LastLeaves
<1>11. CASE ~ends
  <2>1. session' = [session EXCEPT ![s] = Out] /\ control' = told
    BY <1>1, <1>11
  <2>2. session'[s] = Out /\ \A t \in Sockets \ {s} : session'[t] = session[t]
    BY <1>2, <2>1
  <2>3. PICK u \in Sockets \ {s} : DioReg(session[u])
    BY <1>3, <1>11
  <2> HIDE DEF told, ends
  <2>4. \A g \in Runs : RunOK(texts', holder', control'[g], face[g])
    <3>1. CASE clears
      <4> HIDE DEF clears
      <4>1. ASSUME NEW g \in Runs PROVE RunOK(texts', holder', told[g], face[g])
        <5>1. RunOK(texts, holder, control[g], face[g])
          BY RunTypes
        <5>2. /\ IsControl(told[g]) /\ ~Calm(told[g]) /\ told[g].state = control[g].state
              /\ told[g].commands = control[g].commands
          BY <1>9, <3>1
        <5> QED BY <1>8, <3>1, <5>1, <5>2, RunLost
      <4>2. control' = told
        BY <2>1
      <4> QED BY <4>1, <4>2, Zenon
    <3>2. CASE ~clears
      <4>1. holder' = holder /\ texts' = texts
        BY <1>1, <1>8, <3>2
      <4> HIDE DEF clears
      <4>2. \A g \in Runs : control'[g] = control[g]
        BY <1>9, <2>1, <3>2
      <4> QED BY <4>1, <4>2, RunTypes
    <3> QED BY <3>1, <3>2
  <2>5. \A g \in Runs : WaitOK(g, control'[g].commands, face[g].queue, session')
    <3> SUFFICES ASSUME NEW g \in Runs PROVE WaitOK(g, control[g].commands, face[g].queue, session')
      BY <1>9, <2>1
    <3> QED BY <1>1, <2>2, OthersWait
  <2>6. AskOK(texts', holder', control', s, Out)
    BY NoRequests DEF AskOK, Out, IsSession
  <2>7. \A t \in Sockets \ {s} : AskOK(texts', holder', control', t, session[t])
    <3> SUFFICES ASSUME NEW t \in Sockets \ {s} PROVE AskOK(texts', holder', control', t, session[t])
      OBVIOUS
    <3>1. AskOK(texts, holder, control, t, session[t])
      BY DEF DigitalInv
    <3>2. CASE clears
      <4> HIDE DEF clears
      <4> QED BY <1>8, <3>1, <3>2, BoundLost DEF AskOK
    <3>3. CASE ~clears
      BY <1>1, <1>8, <1>9, <2>1, <3>1, <3>3 DEF AskOK
    <3> QED BY <3>2, <3>3
  <2>8. OneEntry(control', session')
    <3>1. \A g \in Runs : control'[g].state = control[g].state
      BY <1>9, <2>1
    <3> QED BY <1>2, <1>4, <2>2, <2>3, <3>1 DEF OneEntry
  <2>9. HolderIsThere(holder', session')
    BY <1>1, <1>7, <2>2 DEF HolderIsThere
  <2>10. control' = [g \in Runs |-> control'[g]]
    BY <1>9, <2>1
  <2>11. texts' \in Seq(Text) /\ holder' \in SomeOrNone
    BY <1>1, <1>2, <1>8 DEF Aged, SomeOrNone
  <2> QED BY <1>1, <1>8, <2>1, <2>4, <2>5, <2>6, <2>7, <2>8, <2>9, <2>10, <2>11, SessionStep
<1> QED BY <1>10, <1>11

LEMMA ControlIsReleased == ASSUME DigitalInv, NEW s \in Sockets, ReleasedDigital(s) PROVE DigitalInv'
<1>1. /\ session[s].state = "leaving" /\ control[session[s].at].state = "done"
      /\ control' = [control EXCEPT ![session[s].at] = NoControl]
      /\ session' = [session EXCEPT ![s] = Out] /\ holder' = holder /\ face' = face /\ texts' = texts
  BY DEF ReleasedDigital
<1>2. /\ session = [t \in Sockets |-> session[t]] /\ control = [h \in Runs |-> control[h]]
      /\ texts \in Seq(Text) /\ holder \in SomeOrNone /\ TextsGoOutForTheirWindow
      /\ OneEntry(control, session) /\ HolderIsThere(holder, session)
      /\ AskOK(texts, holder, control, s, session[s])
  BY DEF DigitalInv
<1>3. PICK g \in Runs : g = session[s].at
  BY <1>1, <1>2 DEF AskOK
<1>4. /\ control'[g] = NoControl /\ \A h \in Runs \ {g} : control'[h] = control[h]
      /\ control' = [h \in Runs |-> control'[h]]
      /\ session'[s] = Out /\ \A t \in Sockets \ {s} : session'[t] = session[t]
  BY <1>1, <1>2, <1>3
<1>5. control[g].state = "done" /\ ~Calm(control[g])
  BY <1>1, <1>3 DEF Calm
<1>6. \A h \in Runs : RunOK(texts', holder', control'[h], face[h])
  <2>1. RunOK(texts, holder, control[g], face[g]) /\ face[g].state = "none"
    BY <1>5, RunTypes DEF RunOK, FaceFits
  <2>2. RunOK(texts, holder, NoControl, face[g])
    BY <2>1, NoMoreControl, NoneLeft DEF RunOK, RunBase, FaceFits
  <2> QED BY <1>1, <1>4, <2>2, RunTypes
<1>7. \A h \in Runs : WaitOK(h, control'[h].commands, face[h].queue, session')
  <2> SUFFICES ASSUME NEW h \in Runs PROVE WaitOK(h, control'[h].commands, face[h].queue, session')
    OBVIOUS
  <2>1. WaitOK(h, control[h].commands, face[h].queue, session')
    BY <1>1, <1>4, OthersWait
  <2>2. CASE h = g
    BY <1>4, <2>1, <2>2, NoMoreControl, NoneLeft DEF WaitOK
  <2>3. CASE h # g
    BY <1>4, <2>1, <2>3
  <2> QED BY <2>2, <2>3
<1>8. AskOK(texts', holder', control', s, Out)
  BY NoRequests DEF AskOK, Out, IsSession
<1>9. \A t \in Sockets \ {s} : AskOK(texts', holder', control', t, session[t])
  <2> SUFFICES ASSUME NEW t \in Sockets \ {s} PROVE AskOK(texts, holder, control', t, session[t])
    BY <1>1
  <2>1. AskOK(texts, holder, control, t, session[t])
    BY DEF DigitalInv
  <2>2. \A h \in Runs : Calm(control[h]) => Calm(control'[h])
    BY <1>4, <1>5
  <2>3. Aged(texts, texts)
    BY <1>2, SameAge
  <2> QED BY <2>1, <2>2, <2>3, BoundKept DEF AskOK
<1>10. \A t \in Sockets : DioReg(session'[t]) <=> DioReg(session[t])
  BY <1>1, <1>4 DEF DioReg, Out
<1>11. \A h \in Runs : control'[h].state = "live" <=> control[h].state = "live"
  BY <1>4, <1>5, NoMoreControl
<1>12. OneEntry(control', session') /\ HolderIsThere(holder', session')
  BY <1>1, <1>2, <1>10, <1>11 DEF OneEntry, HolderIsThere
<1>13. texts' \in Seq(Text) /\ holder' \in SomeOrNone /\ TextsGoOutForTheirWindow'
  BY <1>1, <1>2 DEF TextsGoOutForTheirWindow
<1> QED BY <1>1, <1>4, <1>6, <1>7, <1>8, <1>9, <1>12, <1>13, SessionStep

-----------------------------------------------------------------------------
(* The radio changes its mode.                                              *)
LEMMA ModeIsReported == ASSUME DigitalInv, ChangeDigital PROVE DigitalInv'
<1>1. /\ UNCHANGED <<holder, face, session, texts>>
      /\ control' = [g \in Runs |-> IF control[g].state \in {"live", "closing"}
                                    THEN [control[g] EXCEPT !.updates = Append(@, ~digital)] ELSE control[g]]
  BY DEF ChangeDigital
<1>2. \A g \in Runs : /\ IsControl(control'[g]) /\ control'[g].state = control[g].state
                      /\ control'[g].dirty = control[g].dirty /\ control'[g].commands = control[g].commands
  <2> SUFFICES ASSUME NEW g \in Runs
               PROVE  /\ IsControl(control'[g]) /\ control'[g].state = control[g].state
                      /\ control'[g].dirty = control[g].dirty /\ control'[g].commands = control[g].commands
    OBVIOUS
  <2>1. IsControl(control[g])
    BY RunTypes
  <2>2. CASE control[g].state \in {"live", "closing"}
    <3>1. control'[g] = [control[g] EXCEPT !.updates = Append(@, ~digital)]
      BY <1>1, <2>2
    <3> QED BY <2>1, <3>1 DEF IsControl
  <2>3. CASE control[g].state \notin {"live", "closing"}
    BY <1>1, <2>1, <2>3
  <2> QED BY <2>2, <2>3
<1>3. \A g \in Runs : Calm(control'[g]) <=> Calm(control[g])
  BY <1>2 DEF Calm
<1>4. control' = [g \in Runs |-> control'[g]]
  BY <1>1
<1>5. \A g \in Runs : RunOK(texts', holder', control'[g], face'[g])
  <2> SUFFICES ASSUME NEW g \in Runs PROVE RunOK(texts, holder, control'[g], face[g])
    BY <1>1
  <2>1. RunOK(texts, holder, control[g], face[g])
    BY RunTypes
  <2>2. \A k \in 1..Len(control'[g].commands) : Bound(texts, holder, control[g], control'[g].commands[k])
    BY <1>2, <2>1 DEF RunOK, RunBase
  <2> QED BY <1>2, <2>1, <2>2, ControlWith
<1>6. \A g \in Runs : WaitOK(g, control'[g].commands, face'[g].queue, session')
  BY <1>1, <1>2, RunTypes
<1>7. \A t \in Sockets : AskOK(texts', holder', control', t, session'[t])
  <2> SUFFICES ASSUME NEW t \in Sockets PROVE AskOK(texts, holder, control', t, session[t])
    BY <1>1
  <2>1. AskOK(texts, holder, control, t, session[t]) /\ Aged(texts, texts)
    BY SameAge DEF DigitalInv
  <2> QED BY <1>3, <2>1, BoundKept DEF AskOK
<1>8. OneEntry(control', session') /\ HolderIsThere(holder', session')
  BY <1>1, <1>2 DEF DigitalInv, OneEntry, HolderIsThere
<1>9. texts' \in Seq(Text) /\ holder' \in SomeOrNone /\ TextsGoOutForTheirWindow'
  BY <1>1 DEF DigitalInv, TextsGoOutForTheirWindow
<1>10. face' = [g \in Runs |-> face'[g]] /\ session' = [t \in Sockets |-> session'[t]]
  <2>1. face = [g \in Runs |-> face[g]] /\ session = [t \in Sockets |-> session[t]]
    BY DEF DigitalInv
  <2>2. face' = face /\ session' = session
    BY <1>1
  <2> QED BY <2>1, <2>2, Zenon
<1> QED BY <1>4, <1>5, <1>6, <1>7, <1>8, <1>9, <1>10 DEF DigitalInv

-----------------------------------------------------------------------------
LEMMA DigitalStarts == DigitalInit => DigitalInv
<1> SUFFICES ASSUME DigitalInit PROVE DigitalInv
  OBVIOUS
<1>1. /\ dioEnv \in DigitalWorlds /\ holder = dioEnv.holder /\ texts = <<>>
      /\ control = [g \in Runs |-> IF g = 1 /\ dioEnv.open # {}
                                   THEN [NoControl EXCEPT !.state = "live", !.digital = TRUE] ELSE NoControl]
      /\ face = [g \in Runs |-> IF g = 1 /\ holder # NoWindow THEN Started(holder) ELSE NoFace]
      /\ session = [s \in Sockets |-> IF s \in dioEnv.open THEN [Out EXCEPT !.state = "open"] ELSE Out]
  BY DEF DigitalInit
<1>2. /\ dioEnv.open \subseteq Sockets
      /\ holder = NoWindow \/ \E s \in dioEnv.open : WindowOf(s) = holder
  BY <1>1, HoldersAssumption DEF Sockets, WindowOf
<1>3. holder \in SomeOrNone
  BY <1>2 DEF SomeOrNone, Sockets, WindowOf
<1>4. texts \in Seq(Text) /\ Len(texts) = 0
  BY <1>1
<1>5. Aged(<<>>, <<>>)
  BY <1>1, <1>4 DEF Aged
<1> DEFINE on == [NoControl EXCEPT !.state = "live", !.digital = TRUE]
<1>6. IsControl(on) /\ on.state = "live" /\ on.commands = <<>>
  BY NoRequests DEF NoControl, IsControl
<1>7. /\ IsFace(NoFace) /\ NoFace.state = "none" /\ NoFace.queue = <<>> /\ NoFace.air = {}
  BY NoRequests DEF NoFace, IsFace, SomeOrNone
<1>8. holder # NoWindow => /\ IsFace(Started(holder)) /\ Started(holder).state = "up"
                           /\ Started(holder).queue = <<>> /\ Started(holder).air = {}
                           /\ Started(holder).for = holder
  <2>1. PICK w \in SomeOrNone : w = holder
    BY <1>3
  <2>2. w # NoWindow => /\ IsFace(Started(w)) /\ Started(w).state = "up" /\ Started(w).queue = <<>>
                        /\ Started(w).air = {} /\ Started(w).for = w
    BY NoRequests DEF Started, NoFace, IsFace, SomeOrNone
  <2> QED BY <2>1, <2>2
<1>9. ASSUME NEW g \in Runs
      PROVE  /\ IsControl(control[g]) /\ control[g].commands = <<>>
             /\ IsFace(face[g]) /\ face[g].queue = <<>> /\ face[g].air = {}
             /\ control[g].state = (IF g = 1 /\ dioEnv.open # {} THEN "live" ELSE "none")
             /\ \/ face[g].state = "none"
                \/ face[g].state = "up" /\ face[g].for = holder /\ g = 1 /\ holder # NoWindow
  <2>1. control[g] = IF g = 1 /\ dioEnv.open # {} THEN on ELSE NoControl
    BY <1>1
  <2>2. face[g] = IF g = 1 /\ holder # NoWindow THEN Started(holder) ELSE NoFace
    BY <1>1
  <2> HIDE DEF on
  <2> QED BY <1>6, <1>7, <1>8, <2>1, <2>2, NoMoreControl
<1>10. \A g \in Runs : RunOK(texts, holder, control[g], face[g])
  <2> SUFFICES ASSUME NEW g \in Runs PROVE RunOK(texts, holder, control[g], face[g])
    OBVIOUS
  <2>1. RunBase(texts, holder, control[g], face[g])
    BY <1>9, NoneLeft DEF RunBase
  <2>2. FaceFits(holder, control[g], face[g])
    <3>1. holder # NoWindow => dioEnv.open # {}
      BY <1>2
    <3> QED BY <1>9, <3>1 DEF FaceFits
  <2> QED BY <2>1, <2>2 DEF RunOK
<1>11. \A g \in Runs : WaitOK(g, control[g].commands, face[g].queue, session)
  BY <1>9, NoneLeft DEF WaitOK
<1>12. \A s \in Sockets : session[s].state = (IF s \in dioEnv.open THEN "open" ELSE "out") /\ IsSession(session[s])
  <2>1. IsSession(Out) /\ Out.state = "out" /\ [Out EXCEPT !.state = "open"].state = "open"
    BY NoRequests DEF IsSession, Out
  <2> QED BY <1>1, <2>1, Opens
<1>13. \A s \in Sockets : AskOK(texts, holder, control, s, session[s])
  BY <1>12, OpensAsked
<1>14. OneEntry(control, session)
  <2>1. \A s \in Sockets : DioReg(session[s]) <=> s \in dioEnv.open
    BY <1>12 DEF DioReg
  <2>2. \A g \in Runs : control[g].state = "live" <=> g = 1 /\ dioEnv.open # {}
    BY <1>9
  <2>3. 1 \in Runs
    BY DEF Runs
  <2> QED BY <1>2, <2>1, <2>2, <2>3 DEF OneEntry
<1>15. HolderIsThere(holder, session)
  BY <1>2, <1>12 DEF HolderIsThere, DioReg
<1>16. /\ control = [g \in Runs |-> control[g]] /\ face = [g \in Runs |-> face[g]]
       /\ session = [s \in Sockets |-> session[s]]
  BY <1>1
<1>17. TextsGoOutForTheirWindow
  BY <1>4 DEF TextsGoOutForTheirWindow
<1> QED BY <1>3, <1>4, <1>10, <1>11, <1>13, <1>14, <1>15, <1>16, <1>17 DEF DigitalInv

LEMMA DigitalInvStep == DigitalInv /\ [DigitalNext]_dioVars => DigitalInv'
<1> SUFFICES ASSUME DigitalInv, [DigitalNext]_dioVars PROVE DigitalInv'
  OBVIOUS
<1>1. CASE \E s \in Sockets : JoinDigital(s) \/ AcquireDigital(s) \/ ReleaseDigital(s) \/ ReleasedDigital(s)
  BY <1>1, SessionJoins, SessionIsAcquired, SessionIsReleased, ControlIsReleased
<1>2. CASE \E s \in Sockets : \/ Transmit(s) \/ QueueRequest(s)
                               \/ \E on \in BOOLEAN : SetDigitalTarget(s, on)
                               \/ \E kind \in {"stop", "clear"} : AskControl(s, kind)
  BY <1>2, TextIsAsked, RequestIsQueued, DigitalTargetIsSet, ControlIsAsked
<1>3. CASE \E g \in Runs : HearMode(g) \/ HearHolder(g) \/ TakeRequest(g) \/ ShutDownControl(g) \/ LagBehind(g)
  BY <1>3, ModeIsHeard, HolderIsHeard, RequestIsTaken, ControlIsShut, ReportsAreLost
<1>4. CASE \E g \in Runs : FaceTakes(g) \/ FaceRefuses(g) \/ FaceStops(g) \/ TransmissionEnds(g) \/ FaceDies(g)
  BY <1>4, RequestIsDone, RequestFails, FaceIsOver, TextHasLeft, FaceIsDead
<1>5. CASE ChangeDigital
  BY <1>5, ModeIsReported
<1>6. CASE UNCHANGED dioVars
  BY <1>6 DEF DigitalInv, dioVars, TextsGoOutForTheirWindow
<1>7. DigitalNext => \/ \E s \in Sockets : JoinDigital(s) \/ AcquireDigital(s) \/ ReleaseDigital(s) \/ ReleasedDigital(s)
                     \/ \E s \in Sockets : \/ Transmit(s) \/ QueueRequest(s)
                                            \/ \E on \in BOOLEAN : SetDigitalTarget(s, on)
                                            \/ \E kind \in {"stop", "clear"} : AskControl(s, kind)
                     \/ \E g \in Runs : HearMode(g) \/ HearHolder(g) \/ TakeRequest(g) \/ ShutDownControl(g) \/ LagBehind(g)
                     \/ \E g \in Runs : FaceTakes(g) \/ FaceRefuses(g) \/ FaceStops(g) \/ TransmissionEnds(g) \/ FaceDies(g)
                     \/ ChangeDigital
  BY DEF DigitalNext, SessionSteps, ControlSteps, FaceSteps
<1> QED BY <1>1, <1>2, <1>3, <1>4, <1>5, <1>6, <1>7

(* A text goes out through an interface that was started for its window:    *)
(* the manager checks the window of a request under its lock, and the       *)
(* controller stops an interface of another target before it goes on        *)
(* (digital_io.rs transmit, reconcile, stop_running).                       *)
THEOREM TextsKeepTheirWindow == DigitalSpec => []TextsGoOutForTheirWindow
<1>1. DigitalInit => DigitalInv
  BY DigitalStarts
<1>2. DigitalInv /\ [DigitalNext]_dioVars => DigitalInv'
  BY DigitalInvStep
<1>3. DigitalInv => TextsGoOutForTheirWindow
  BY DEF DigitalInv
<1> QED BY <1>1, <1>2, <1>3, PTL DEF DigitalSpec

-----------------------------------------------------------------------------
(* The interface of the target.                                             *)

(* The last report that waits tells the mode; if none waits it is known.    *)
Knows(d, ctl) ==
  /\ ctl.updates \in Seq(BOOLEAN)
  /\ IF ctl.updates = <<>> THEN ctl.wrong \/ ctl.digital = d ELSE ctl.updates[Len(ctl.updates)] = d

(* The interface is for w, or will be once it has stopped.                  *)
IsFor(w, ctl, f) ==
  /\ f.state = "none" => w = NoWindow \/ ctl.refused
  /\ f.state \in {"up", "dead"} => f.for = w
  /\ f.state \in {"stopping", "gone"} => f.next = w

Follows(d, h, ctl, f) ==
  /\ ctl.state \in {"none", "live", "closing", "done"}
  /\ ctl.state \in {"live", "closing"} => Knows(d, ctl)
  /\ f.state = "none" => f.for = NoWindow
  /\ Calm(ctl) => IsFor(IF ctl.digital THEN h ELSE NoWindow, ctl, f)

Followed == digital \in BOOLEAN /\ \A g \in Runs : Follows(digital, holder, control[g], face[g])

LEMMA OneFollows ==
  ASSUME DigitalInv, Followed, NEW g \in Runs,
         \A h \in Runs \ {g} : control'[h] = control[h] /\ face'[h] = face[h],
         UNCHANGED <<holder, digital>>, Follows(digital, holder, control'[g], face'[g])
  PROVE  Followed'
BY DEF Followed

(* Nothing changes that Follows reads of a controller and its interface.    *)
LEMMA StillFollows ==
  ASSUME NEW d, NEW h, NEW ctl, NEW f, Follows(d, h, ctl, f), NEW c, NEW e,
         c.state = ctl.state, c.digital = ctl.digital, c.wrong = ctl.wrong, c.refused = ctl.refused,
         c.updates = ctl.updates, c.dirty = ctl.dirty,
         e.state = f.state, e.for = f.for, e.next = f.next
  PROVE  Follows(d, h, c, e)
BY DEF Follows, Knows, IsFor, Calm

(* start_running_for_target, for the window that is wanted.                 *)
LEMMA StartFollows ==
  ASSUME NEW g \in Runs, NEW d, NEW h, NEW ctl, IsControl(ctl), NEW f, NEW w, NEW refused \in BOOLEAN,
         f.state \in {"none", "up", "dead"}, f.state = "none" => f.for = NoWindow,
         ctl.state \in {"live", "closing"}, Knows(d, ctl),
         Calm(ctl) => /\ w = IF ctl.digital THEN h ELSE NoWindow
                      /\ f.state # "none" => f.for = w,
         NEW r, r = StartFor(g, ctl, f, w, refused)
  PROVE  Follows(d, h, r.ctl, r.face)
<1>1. CASE f.state # "none" \/ w = NoWindow
  BY <1>1 DEF StartFor, Follows, IsFor
<1>2. CASE f.state = "none" /\ w # NoWindow /\ refused
  <2>1. r.ctl = [ctl EXCEPT !.refused = TRUE] /\ r.face = f
    BY <1>2 DEF StartFor
  <2> QED BY <1>2, <2>1 DEF IsControl, Follows, IsFor, Knows, Calm
<1>3. CASE f.state = "none" /\ w # NoWindow /\ ~refused
  <2>1. r.ctl = [ctl EXCEPT !.refused = FALSE] /\ r.face = Started(w)
    BY <1>3 DEF StartFor
  <2>2. r.face.state = "up" /\ r.face.for = w
    BY <2>1 DEF Started, NoFace
  <2> QED BY <1>3, <2>1, <2>2 DEF IsControl, Follows, IsFor, Knows, Calm
<1> QED BY <1>1, <1>2, <1>3

LEMMA ReconcileFollows ==
  ASSUME DigitalInv, Followed, NEW g \in Runs, Awake(g), NEW ctl, IsControl(ctl),
         ctl.state = control[g].state, Knows(digital, ctl), ReconcileAfter(g, ctl),
         UNCHANGED <<holder, digital>>
  PROVE  Followed'
<1> DEFINE f == face[g]
<1> HIDE DEF f
<1>1. /\ control = [h \in Runs |-> control[h]] /\ face = [h \in Runs |-> face[h]]
      /\ IsFace(f) /\ Follows(digital, holder, control[g], f)
  BY DEF DigitalInv, RunOK, RunBase, Followed, f
<1>2. f.state \in {"none", "up", "dead"} /\ ctl.state \in {"live", "closing"}
  BY <1>1 DEF Awake, IsFace, f
<1>3. PICK w : w = Wanted(g, ctl)
  OBVIOUS
<1>4. Calm(ctl) => w = IF ctl.digital THEN holder ELSE NoWindow
  BY <1>3 DEF Wanted, ReadTarget, Calm
<1>5. CASE StopsFor(f, w)
  <2>1. /\ control' = [control EXCEPT ![g] = ctl]
        /\ face' = [face EXCEPT ![g].state = IF @ = "dead" THEN "gone" ELSE "stopping", ![g].next = w]
    BY <1>3, <1>5 DEF ReconcileAfter, f
  <2>2. control'[g] = ctl /\ face'[g] = [f EXCEPT !.state = IF @ = "dead" THEN "gone" ELSE "stopping", !.next = w]
    BY <1>1, <2>1 DEF f
  <2>3. face'[g].state \in {"stopping", "gone"} /\ face'[g].next = w
    BY <1>1, <2>2 DEF IsFace
  <2>4. Follows(digital, holder, control'[g], face'[g])
    BY <1>2, <1>4, <2>2, <2>3 DEF Follows, IsFor
  <2>5. \A h \in Runs \ {g} : control'[h] = control[h] /\ face'[h] = face[h]
    BY <1>1, <2>1
  <2> QED BY <2>4, <2>5, OneFollows
<1>6. CASE ~StopsFor(f, w)
  <2>1. PICK refused \in BOOLEAN :
          /\ control' = [control EXCEPT ![g] = StartFor(g, ctl, f, w, refused).ctl]
          /\ face' = [face EXCEPT ![g] = StartFor(g, ctl, f, w, refused).face]
    BY <1>3, <1>6 DEF ReconcileAfter, f
  <2>2. PICK r : r = StartFor(g, ctl, f, w, refused)
    OBVIOUS
  <2>3. f.state # "none" => f.for = w
    BY <1>6 DEF StopsFor
  <2>4. Follows(digital, holder, r.ctl, r.face)
    <3>1. f.state = "none" => f.for = NoWindow
      BY <1>1 DEF Follows
    <3> QED BY <1>2, <1>4, <2>2, <2>3, <3>1, StartFollows
  <2>5. /\ control'[g] = r.ctl /\ face'[g] = r.face
        /\ \A h \in Runs \ {g} : control'[h] = control[h] /\ face'[h] = face[h]
    BY <1>1, <2>1, <2>2
  <2> QED BY <2>4, <2>5, OneFollows
<1> QED BY <1>5, <1>6

LEMMA Reports ==
  ASSUME NEW q \in Seq(BOOLEAN), q # <<>>
  PROVE  /\ Tail(q) \in Seq(BOOLEAN)
         /\ Tail(q) = <<>> => Head(q) = q[Len(q)]
         /\ Tail(q) # <<>> => Tail(q)[Len(Tail(q))] = q[Len(q)]
         /\ Len(q) > 1 => Tail(q) # <<>>
<1>1. /\ Len(Tail(q)) = Len(q) - 1 /\ Head(q) = q[1] /\ Tail(q) \in Seq(BOOLEAN)
      /\ \A k \in 1..Len(Tail(q)) : Tail(q)[k] = q[k + 1]
  BY HeadTailProperties
<1>2. Len(q) \in Nat /\ Len(q) > 0 /\ (Tail(q) = <<>> <=> Len(Tail(q)) = 0)
  BY <1>1, EmptySeq
<1> QED BY <1>1, <1>2

LEMMA ModeFollows == ASSUME DigitalInv, Followed, NEW g \in Runs, HearMode(g) PROVE Followed'
<1> DEFINE ctl == [control[g] EXCEPT !.digital = Head(control[g].updates), !.wrong = FALSE, !.updates = Tail(@)]
<1>1. IsControl(control[g]) /\ Knows(digital, control[g])
  BY DEF DigitalInv, RunOK, RunBase, HearMode, Awake, Followed, Follows
<1>2. ReconcileAfter(g, ctl) /\ Awake(g) /\ UNCHANGED <<holder, digital>> /\ control[g].updates # <<>>
  BY DEF HearMode
<1>3. IsControl(ctl) /\ ctl.state = control[g].state /\ ctl.digital = Head(control[g].updates)
      /\ ctl.updates = Tail(control[g].updates)
  BY <1>1 DEF IsControl
<1> HIDE DEF ctl
<1>4. Knows(digital, ctl)
  BY <1>1, <1>2, <1>3, Reports DEF Knows
<1> QED BY <1>2, <1>3, <1>4, ReconcileFollows

LEMMA HolderFollows == ASSUME DigitalInv, Followed, NEW g \in Runs, HearHolder(g) PROVE Followed'
<1> DEFINE ctl == [control[g] EXCEPT !.dirty = FALSE]
<1>1. IsControl(control[g]) /\ Knows(digital, control[g])
  BY DEF DigitalInv, RunOK, RunBase, HearHolder, Awake, Followed, Follows
<1>2. ReconcileAfter(g, ctl) /\ Awake(g) /\ UNCHANGED <<holder, digital>>
  BY DEF HearHolder
<1>3. IsControl(ctl) /\ ctl.state = control[g].state /\ Knows(digital, ctl)
  BY <1>1 DEF IsControl, Knows
<1> HIDE DEF ctl
<1> QED BY <1>2, <1>3, ReconcileFollows

LEMMA LagFollows == ASSUME DigitalInv, Followed, NEW g \in Runs, LagBehind(g) PROVE Followed'
<1>1. /\ IsControl(control[g]) /\ control = [h \in Runs |-> control[h]]
      /\ Follows(digital, holder, control[g], face[g])
  BY DEF DigitalInv, RunOK, RunBase, Followed
<1>2. /\ control' = [control EXCEPT ![g].updates = Tail(@)] /\ UNCHANGED <<holder, digital, face>>
      /\ Len(control[g].updates) > 1
  BY DEF LagBehind
<1>3. control'[g] = [control[g] EXCEPT !.updates = Tail(@)]
  BY <1>1, <1>2
<1>4. /\ control'[g].state = control[g].state /\ control'[g].dirty = control[g].dirty
      /\ control'[g].wrong = control[g].wrong /\ control'[g].refused = control[g].refused
      /\ control'[g].digital = control[g].digital /\ control'[g].updates = Tail(control[g].updates)
  BY <1>1, <1>3 DEF IsControl
<1>5. Knows(digital, control[g]) => Knows(digital, control'[g])
  <2> SUFFICES ASSUME Knows(digital, control[g]) PROVE Knows(digital, control'[g])
    OBVIOUS
  <2>1. control[g].updates \in Seq(BOOLEAN) /\ control[g].updates # <<>>
    BY <1>2 DEF Knows
  <2> QED BY <1>2, <1>4, <2>1, Reports DEF Knows
<1>6. Follows(digital, holder, control'[g], face'[g])
  BY <1>1, <1>2, <1>4, <1>5 DEF Follows, IsFor, Calm
<1> QED BY <1>1, <1>2, <1>6, OneFollows

(* What is asked of the controller, without an interface to stop.           *)
LEMMA RequestFollows == ASSUME DigitalInv, Followed, NEW g \in Runs, TakeRequest(g) PROVE Followed'
<1> DEFINE f == face[g]
           c == Head(control[g].commands)
           ctl == [control[g] EXCEPT !.commands = Tail(@)]
           w == IF c.kind = "stop" THEN NoWindow ELSE Wanted(g, ctl)
<1>1. /\ control = [h \in Runs |-> control[h]] /\ face = [h \in Runs |-> face[h]]
      /\ IsControl(control[g]) /\ IsFace(f) /\ Follows(digital, holder, control[g], f)
  BY DEF DigitalInv, RunOK, RunBase, Followed
<1>2. PICK refused \in BOOLEAN :
        LET r == StartFor(g, ctl, f, w, refused)
        IN /\ control' = [control EXCEPT ![g] = r.ctl]
           /\ face' = [face EXCEPT ![g] = IF r.face.state = "up" THEN [r.face EXCEPT !.queue = Append(@, c)] ELSE @]
  BY DEF TakeRequest
<1>3. f.state \in {"none", "up", "dead"} /\ control[g].state \in {"live", "closing"}
      /\ UNCHANGED <<holder, digital>>
  BY <1>1 DEF TakeRequest, Awake, IsFace
<1>4. /\ IsControl(ctl) /\ ctl.state = control[g].state /\ ctl.digital = control[g].digital
      /\ ctl.wrong = control[g].wrong /\ ctl.refused = control[g].refused
      /\ ctl.updates = control[g].updates /\ ctl.dirty = control[g].dirty
  <2>1. /\ ctl \in [state : {control[g].state}, digital : {control[g].digital}, wrong : {control[g].wrong},
                     refused : {control[g].refused}, updates : {control[g].updates},
                     dirty : {control[g].dirty}, commands : {Tail(control[g].commands)}]
        /\ control[g].commands \in Seq(Request) /\ control[g].commands # <<>>
    BY <1>1 DEF IsControl, TakeRequest
  <2>2. Tail(control[g].commands) \in Seq(Request)
    BY <2>1, Ends
  <2> HIDE DEF ctl
  <2> QED BY <1>1, <2>1, <2>2 DEF IsControl
<1>5. PICK r : r = StartFor(g, ctl, f, w, refused)
  OBVIOUS
<1>6. Follows(digital, holder, ctl, f)
  <2> HIDE DEF ctl, f
  <2> QED BY <1>1, <1>4, StillFollows
<1>7. Wanted(g, ctl) = IF ctl.digital THEN ReadTarget(g) ELSE NoWindow
  BY DEF Wanted
<1>8. Follows(digital, holder, r.ctl, r.face)
  <2> HIDE DEF ctl, f
  <2>1. CASE f.state # "none" \/ w = NoWindow
    <3>1. r.ctl = ctl /\ r.face = f
      BY <1>5, <2>1 DEF StartFor
    <3> QED BY <1>6, <3>1
  <2>2. CASE f.state = "none" /\ w # NoWindow
    <3>1. Calm(ctl) => w = IF ctl.digital THEN holder ELSE NoWindow
      BY <1>4, <1>7, <2>2 DEF ReadTarget, Calm
    <3>2. Knows(digital, ctl) /\ (f.state = "none" => f.for = NoWindow) /\ ctl.state \in {"live", "closing"}
      BY <1>3, <1>4, <1>6 DEF Follows
    <3> HIDE DEF w
    <3> QED BY <1>4, <1>5, <2>2, <3>1, <3>2, StartFollows
  <2> QED BY <2>1, <2>2
<1> HIDE DEF ctl, f, w
<1>9. r.face.state = "up" => r.face = f \/ r.face = Started(w)
  BY <1>5 DEF StartFor
<1>10. r.face.state = "up" => LET e == [r.face EXCEPT !.queue = Append(@, c)]
                              IN e.state = r.face.state /\ e.for = r.face.for /\ e.next = r.face.next
  BY <1>1, <1>9 DEF IsFace, Started, NoFace
<1>11. r.face.state # "up" => r.face = f
  BY <1>5 DEF StartFor, Started, NoFace
<1>12. /\ control'[g] = r.ctl
       /\ face'[g] = IF r.face.state = "up" THEN [r.face EXCEPT !.queue = Append(@, c)] ELSE f
       /\ \A h \in Runs \ {g} : control'[h] = control[h] /\ face'[h] = face[h]
  <2>1. /\ control' = [control EXCEPT ![g] = r.ctl]
        /\ face' = [face EXCEPT ![g] = IF r.face.state = "up" THEN [r.face EXCEPT !.queue = Append(@, c)] ELSE @]
    BY <1>2, <1>5
  <2> QED BY <1>1, <2>1 DEF f
<1>13. Follows(digital, holder, control'[g], face'[g])
  BY <1>8, <1>10, <1>11, <1>12, StillFollows
<1> QED BY <1>3, <1>12, <1>13, OneFollows

LEMMA ShutFollows == ASSUME DigitalInv, Followed, NEW g \in Runs, ShutDownControl(g) PROVE Followed'
<1>1. /\ control = [h \in Runs |-> control[h]] /\ face = [h \in Runs |-> face[h]]
      /\ IsControl(control[g]) /\ IsFace(face[g]) /\ Follows(digital, holder, control[g], face[g])
  BY DEF DigitalInv, RunOK, RunBase, Followed
<1>2. UNCHANGED <<holder, digital>> /\ control[g].state = "closing"
  BY DEF ShutDownControl
<1>3. CASE face[g].state = "none"
  <2>1. control' = [control EXCEPT ![g] = [NoControl EXCEPT !.state = "done"]] /\ face' = face
    BY <1>3 DEF ShutDownControl
  <2>2. control'[g].state = "done" /\ \A h \in Runs \ {g} : control'[h] = control[h]
    BY <1>1, <2>1 DEF NoControl
  <2>3. Follows(digital, holder, control'[g], face'[g])
    BY <1>1, <2>1, <2>2 DEF Follows, Calm
  <2> QED BY <1>2, <2>1, <2>2, <2>3, OneFollows
<1>4. CASE face[g].state # "none"
  <2>1. control' = control
        /\ face' = [face EXCEPT ![g].state = IF @ = "dead" THEN "gone" ELSE "stopping", ![g].next = NoWindow]
    BY <1>4 DEF ShutDownControl
  <2>2. face'[g].state \in {"stopping", "gone"} /\ \A h \in Runs \ {g} : face'[h] = face[h]
    BY <1>1, <2>1 DEF IsFace
  <2>3. Follows(digital, holder, control'[g], face'[g])
    BY <1>1, <1>2, <2>1, <2>2 DEF Follows, Calm
  <2> QED BY <1>2, <2>1, <2>2, <2>3, OneFollows
<1> QED BY <1>3, <1>4

(* What the interface does while it runs.                                   *)
LEMMA WorkFollows ==
  ASSUME DigitalInv, Followed, NEW g \in Runs, FaceTakes(g) \/ FaceRefuses(g) \/ TransmissionEnds(g) \/ FaceDies(g)
  PROVE  Followed'
<1>1. /\ face = [h \in Runs |-> face[h]] /\ IsFace(face[g])
      /\ Follows(digital, holder, control[g], face[g])
  BY DEF DigitalInv, RunOK, RunBase, Followed
<1>2. UNCHANGED <<holder, digital, control>>
  BY DEF FaceTakes, FaceRefuses, TransmissionEnds, FaceDies
<1>3. CASE FaceTakes(g)
  <2> DEFINE f == [face[g] EXCEPT !.queue = Tail(@)]
  <2>1. /\ f.state = face[g].state /\ f.for = face[g].for /\ f.next = face[g].next
        /\ \A x : LET e == [f EXCEPT !.air = x]
                  IN e.state = face[g].state /\ e.for = face[g].for /\ e.next = face[g].next
    BY <1>1 DEF IsFace
  <2>2. \/ face' = [face EXCEPT ![g] = f]
        \/ \E x : face' = [face EXCEPT ![g] = [f EXCEPT !.air = x]]
    <3>1. CASE Head(face[g].queue).kind = "text"
      BY <1>3, <3>1 DEF FaceTakes
    <3>2. CASE Head(face[g].queue).kind = "stop"
      BY <1>3, <3>2 DEF FaceTakes
    <3>3. CASE Head(face[g].queue).kind \notin {"text", "stop"}
      BY <1>3, <3>3 DEF FaceTakes
    <3> QED BY <3>1, <3>2, <3>3
  <2> HIDE DEF f
  <2>3. /\ face'[g].state = face[g].state /\ face'[g].for = face[g].for /\ face'[g].next = face[g].next
        /\ \A h \in Runs \ {g} : face'[h] = face[h]
    BY <1>1, <2>1, <2>2
  <2>4. Follows(digital, holder, control'[g], face'[g])
    BY <1>1, <1>2, <2>3, StillFollows
  <2> QED BY <1>2, <2>3, <2>4, OneFollows
<1>3r. CASE FaceRefuses(g)
  <2>1. face' = [face EXCEPT ![g].queue = Tail(@)]
    BY <1>3r DEF FaceRefuses
  <2>2. /\ face'[g].state = face[g].state /\ face'[g].for = face[g].for /\ face'[g].next = face[g].next
        /\ \A h \in Runs \ {g} : face'[h] = face[h]
    BY <1>1, <2>1 DEF IsFace
  <2>3. Follows(digital, holder, control'[g], face'[g])
    BY <1>1, <1>2, <2>2, StillFollows
  <2> QED BY <1>2, <2>2, <2>3, OneFollows
<1>4. CASE TransmissionEnds(g)
  <2>1. PICK n : face' = [face EXCEPT ![g].air = @ \ {n}]
    BY <1>4 DEF TransmissionEnds
  <2>2. /\ face'[g].state = face[g].state /\ face'[g].for = face[g].for /\ face'[g].next = face[g].next
        /\ \A h \in Runs \ {g} : face'[h] = face[h]
    BY <1>1, <2>1 DEF IsFace
  <2>3. Follows(digital, holder, control'[g], face'[g])
    BY <1>1, <1>2, <2>2, StillFollows
  <2> QED BY <1>2, <2>2, <2>3, OneFollows
<1>5. CASE FaceDies(g)
  <2>1. face' = [face EXCEPT ![g] = [Started(@.for) EXCEPT !.state = "dead"]] /\ face[g].state = "up"
    BY <1>5 DEF FaceDies
  <2>2. /\ face'[g].state = "dead" /\ face'[g].for = face[g].for
        /\ \A h \in Runs \ {g} : face'[h] = face[h]
    BY <1>1, <2>1 DEF Started, NoFace
  <2>3. Follows(digital, holder, control'[g], face'[g])
    BY <1>1, <1>2, <2>1, <2>2 DEF Follows, IsFor
  <2> QED BY <1>2, <2>2, <2>3, OneFollows
<1> QED BY <1>3, <1>3r, <1>4, <1>5

LEMMA NextFollows == ASSUME DigitalInv, Followed, NEW g \in Runs, FaceStops(g) PROVE Followed'
<1>1. /\ control = [h \in Runs |-> control[h]] /\ face = [h \in Runs |-> face[h]]
      /\ RunOK(texts, holder, control[g], face[g]) /\ Follows(digital, holder, control[g], face[g])
  BY DEF DigitalInv, Followed
<1>2. UNCHANGED <<holder, digital>> /\ face[g].state \in {"stopping", "gone"}
  BY DEF FaceStops
<1>3. PICK refused \in BOOLEAN :
        LET r == StartFor(g, control[g], NoFace, face[g].next, refused)
        IN control' = [control EXCEPT ![g] = r.ctl] /\ face' = [face EXCEPT ![g] = r.face]
  BY DEF FaceStops
<1>4. PICK r : r = StartFor(g, control[g], NoFace, face[g].next, refused)
  OBVIOUS
<1>5. /\ control'[g] = r.ctl /\ face'[g] = r.face
      /\ \A h \in Runs \ {g} : control'[h] = control[h] /\ face'[h] = face[h]
  BY <1>1, <1>3, <1>4
<1>6. NoFace.state = "none" /\ NoFace.for = NoWindow
  BY DEF NoFace
<1>7. CASE control[g].state \in {"live", "closing"}
  <2>1. Calm(control[g]) => face[g].next = IF control[g].digital THEN holder ELSE NoWindow
    BY <1>1, <1>2 DEF Follows, IsFor
  <2>2. IsControl(control[g]) /\ Knows(digital, control[g])
    BY <1>1, <1>7 DEF RunOK, RunBase, Follows
  <2>3. Follows(digital, holder, r.ctl, r.face)
    BY <1>4, <1>6, <1>7, <2>1, <2>2, StartFollows
  <2> QED BY <1>2, <1>5, <2>3, OneFollows
<1>8. CASE control[g].state \notin {"live", "closing"}
  <2>1. r.ctl.state = control[g].state /\ control[g].state \in {"none", "done"}
    BY <1>1, <1>4, <1>8 DEF StartFor, RunOK, RunBase, IsControl, Follows
  <2>2. r.face.state = "none" => r.face.for = NoWindow
    BY <1>4, <1>6 DEF StartFor, Started, NoFace
  <2>3. Follows(digital, holder, r.ctl, r.face)
    BY <1>8, <2>1, <2>2 DEF Follows, Calm
  <2> QED BY <1>2, <1>5, <2>3, OneFollows
<1> QED BY <1>7, <1>8

(* The sessions tell a controller that lives of a target that changes.      *)
LEMMA ToldFollows ==
  ASSUME DigitalInv, Followed, NEW changed \in BOOLEAN, NEW h, h # holder => changed,
         NEW told, told = Told(control, changed)
  PROVE  /\ told = [g \in Runs |-> told[g]]
         /\ \A g \in Runs : IsControl(told[g]) /\ told[g].state = control[g].state
         /\ \A g \in Runs : Follows(digital, h, told[g], face[g])
<1>1. told = [g \in Runs |-> told[g]]
  BY DEF Told
<1>2. ASSUME NEW g \in Runs
      PROVE  IsControl(told[g]) /\ told[g].state = control[g].state /\ Follows(digital, h, told[g], face[g])
  <2>1. IsControl(control[g]) /\ Follows(digital, holder, control[g], face[g])
    BY RunTypes DEF Followed
  <2>2. CASE changed /\ control[g].state = "live"
    <3>1. told[g] = [control[g] EXCEPT !.dirty = TRUE]
      BY <2>2 DEF Told
    <3>2. /\ IsControl(told[g]) /\ told[g].state = control[g].state /\ told[g].digital = control[g].digital
          /\ told[g].wrong = control[g].wrong /\ told[g].updates = control[g].updates /\ told[g].dirty
      BY <2>1, <3>1 DEF IsControl
    <3> QED BY <2>1, <3>2 DEF Follows, Knows, Calm
  <2>3. CASE ~(changed /\ control[g].state = "live")
    <3>1. told[g] = control[g]
      BY <2>3 DEF Told
    <3> QED BY <2>1, <2>3, <3>1 DEF Follows, Calm
  <2> QED BY <2>2, <2>3
<1> QED BY <1>1, <1>2

LEMMA TargetFollows ==
  ASSUME DigitalInv, Followed, NEW s \in Sockets, NEW on \in BOOLEAN, SetDigitalTarget(s, on)
  PROVE  Followed'
<1>1. control' = Told(control, holder' # holder) /\ UNCHANGED <<face, digital>>
  BY DEF SetDigitalTarget
<1>2. \A g \in Runs : Follows(digital, holder', control'[g], face[g])
  BY <1>1, ToldFollows
<1> QED BY <1>1, <1>2 DEF Followed

LEMMA LeavingFollows == ASSUME DigitalInv, Followed, NEW s \in Sockets, ReleaseDigital(s) PROVE Followed'
<1> DEFINE clears == Registrations(WindowOf(s)) = {s} /\ holder = WindowOf(s)
           told == Told(control, clears)
<1>1. /\ session[s].state = "open" /\ UNCHANGED <<face, digital>>
      /\ holder' = IF clears THEN NoWindow ELSE holder
      /\ control' = told \/ control' = [told EXCEPT ![Entry].state = "closing"]
  BY DEF ReleaseDigital
<1>2. /\ told = [g \in Runs |-> told[g]]
      /\ \A g \in Runs : IsControl(told[g]) /\ told[g].state = control[g].state
      /\ \A g \in Runs : Follows(digital, holder', told[g], face[g])
  <2>1. clears \in BOOLEAN /\ (holder' # holder => clears)
    BY <1>1
  <2> HIDE DEF clears
  <2> QED BY <2>1, ToldFollows
<1>3. Entry \in Runs /\ control[Entry].state = "live"
  BY <1>1, EntryIsLive DEF DioReg
<1> HIDE DEF told
<1>4. \A g \in Runs : Follows(digital, holder', control'[g], face[g])
  <2>1. CASE control' = told
    BY <1>2, <2>1
  <2>2. CASE control' = [told EXCEPT ![Entry].state = "closing"]
    <3>1. /\ control'[Entry] = [told[Entry] EXCEPT !.state = "closing"]
          /\ \A g \in Runs \ {Entry} : control'[g] = told[g]
      BY <1>2, <1>3, <2>2
    <3>2. /\ control'[Entry].state = "closing" /\ control'[Entry].updates = told[Entry].updates
          /\ control'[Entry].wrong = told[Entry].wrong /\ control'[Entry].digital = told[Entry].digital
      BY <1>2, <1>3, <3>1 DEF IsControl
    <3>3. Follows(digital, holder', control'[Entry], face[Entry])
      BY <1>2, <1>3, <3>2 DEF Follows, Knows, Calm
    <3> QED BY <1>2, <3>1, <3>3
  <2> QED BY <1>1, <2>1, <2>2
<1> QED BY <1>1, <1>4 DEF Followed

LEMMA ReleasedFollows == ASSUME DigitalInv, Followed, NEW s \in Sockets, ReleasedDigital(s) PROVE Followed'
<1>1. /\ session[s].state = "leaving" /\ control[session[s].at].state = "done"
      /\ control' = [control EXCEPT ![session[s].at] = NoControl] /\ UNCHANGED <<holder, face, digital>>
  BY DEF ReleasedDigital
<1>2. control = [h \in Runs |-> control[h]] /\ AskOK(texts, holder, control, s, session[s])
  BY DEF DigitalInv
<1>3. PICK g \in Runs : g = session[s].at
  BY <1>1, <1>2 DEF AskOK
<1>4. control'[g] = NoControl /\ \A h \in Runs \ {g} : control'[h] = control[h]
  BY <1>1, <1>2, <1>3
<1>5. Follows(digital, holder, control'[g], face'[g])
  BY <1>1, <1>4, NoMoreControl DEF Followed, Follows
<1> QED BY <1>1, <1>4, <1>5, OneFollows

LEMMA AcquiredFollows == ASSUME DigitalInv, Followed, NEW s \in Sockets, AcquireDigital(s) PROVE Followed'
<1>1. session[s].state = "joining" /\ UNCHANGED <<holder, face, digital>>
  BY DEF AcquireDigital
<1>2. CASE HasEntry
  <2>1. control' = control
    BY <1>2 DEF AcquireDigital
  <2> QED BY <1>1, <2>1 DEF Followed
<1>3. CASE ~HasEntry
  <2>1. PICK g \in Runs :
          /\ control[g].state = "none"
          /\ control' = [control EXCEPT ![g] =
               [NoControl EXCEPT !.state = "live", !.digital = session[s].mode, !.wrong = session[s].mode # digital]]
    BY <1>3 DEF AcquireDigital
  <2>2. PICK new : new = [NoControl EXCEPT !.state = "live", !.digital = session[s].mode,
                                           !.wrong = session[s].mode # digital]
    OBVIOUS
  <2>3. /\ new.state = "live" /\ new.updates = <<>> /\ new.digital = session[s].mode
        /\ new.wrong <=> session[s].mode # digital
    BY <2>2 DEF NoControl
  <2>4. control'[g] = new /\ \A h \in Runs \ {g} : control'[h] = control[h]
    <3>1. control = [h \in Runs |-> control[h]]
      BY DEF DigitalInv
    <3> QED BY <2>1, <2>2, <3>1
  <2>5. holder = NoWindow
    BY <1>3 DEF DigitalInv, HolderIsThere, HasEntry, IsRegistered, DioReg
  <2>6. Knows(digital, new)
    <3>1. <<>> \in Seq(BOOLEAN)
      OBVIOUS
    <3> QED BY <2>3, <3>1 DEF Knows
  <2>7. face[g].state = "none" /\ face[g].for = NoWindow
    BY <2>1, RunTypes DEF RunOK, FaceFits, Followed, Follows
  <2>8. Follows(digital, holder, control'[g], face'[g])
    BY <1>1, <2>3, <2>4, <2>5, <2>6, <2>7 DEF Follows, IsFor
  <2> QED BY <1>1, <2>4, <2>8, OneFollows
<1> QED BY <1>2, <1>3

LEMMA QueueFollows == ASSUME DigitalInv, Followed, NEW s \in Sockets, QueueRequest(s) PROVE Followed'
<1>1. /\ session[s].state = "checked" /\ UNCHANGED <<holder, face, digital>>
      /\ control' = [control EXCEPT ![session[s].at].commands = @ \o session[s].asks]
  BY DEF QueueRequest
<1>2. control = [h \in Runs |-> control[h]] /\ AskOK(texts, holder, control, s, session[s])
  BY DEF DigitalInv
<1>3. PICK g \in Runs : g = session[s].at
  BY <1>1, <1>2 DEF AskOK
<1>4. /\ control'[g] = [control[g] EXCEPT !.commands = @ \o session[s].asks]
      /\ \A h \in Runs \ {g} : control'[h] = control[h]
  BY <1>1, <1>2, <1>3
<1>5. IsControl(control[g]) /\ Follows(digital, holder, control[g], face[g])
  BY RunTypes DEF Followed
<1>6. /\ control'[g].state = control[g].state /\ control'[g].dirty = control[g].dirty
      /\ control'[g].wrong = control[g].wrong /\ control'[g].refused = control[g].refused
      /\ control'[g].digital = control[g].digital /\ control'[g].updates = control[g].updates
  BY <1>4, <1>5 DEF IsControl
<1>7. Follows(digital, holder, control'[g], face'[g])
  BY <1>1, <1>5, <1>6, StillFollows
<1> QED BY <1>1, <1>4, <1>7, OneFollows

LEMMA ChangeFollows == ASSUME DigitalInv, Followed, ChangeDigital PROVE Followed'
<1>1. /\ UNCHANGED <<holder, face>> /\ digital' = ~digital
      /\ control' = [g \in Runs |-> IF control[g].state \in {"live", "closing"}
                                    THEN [control[g] EXCEPT !.updates = Append(@, ~digital)] ELSE control[g]]
  BY DEF ChangeDigital
<1>2. ASSUME NEW g \in Runs PROVE Follows(digital', holder, control'[g], face[g])
  <2>1. IsControl(control[g]) /\ Follows(digital, holder, control[g], face[g])
    BY RunTypes DEF Followed
  <2>2. CASE control[g].state \in {"live", "closing"}
    <3>1. control'[g] = [control[g] EXCEPT !.updates = Append(@, ~digital)]
      BY <1>1, <2>2
    <3>2. /\ control'[g].state = control[g].state /\ control'[g].dirty = control[g].dirty
          /\ control'[g].refused = control[g].refused /\ control'[g].digital = control[g].digital
          /\ control'[g].updates = Append(control[g].updates, ~digital)
      BY <2>1, <3>1 DEF IsControl
    <3>3. Knows(digital', control'[g])
      <4>1. PICK q \in Seq(BOOLEAN) : q = control[g].updates
        BY <2>1, <2>2 DEF Follows, Knows
      <4>2. PICK d \in BOOLEAN : d = ~digital
        OBVIOUS
      <4>3. /\ Append(q, d) \in Seq(BOOLEAN) /\ Append(q, d) # <<>>
            /\ Append(q, d)[Len(Append(q, d))] = d
        OBVIOUS
      <4>4. digital' = d /\ control'[g].updates = Append(q, d)
        BY <1>1, <3>2, <4>1, <4>2
      <4> QED BY <4>3, <4>4 DEF Knows
    <3> QED BY <2>1, <3>2, <3>3 DEF Follows, IsFor, Calm
  <2>3. CASE control[g].state \notin {"live", "closing"}
    BY <1>1, <2>1, <2>3 DEF Follows, Calm
  <2> QED BY <2>2, <2>3
<1> QED BY <1>1, <1>2 DEF Followed

LEMMA FollowStarts == DigitalInit => Followed
<1> SUFFICES ASSUME DigitalInit PROVE Followed
  OBVIOUS
<1>1. /\ dioEnv \in DigitalWorlds /\ holder = dioEnv.holder /\ digital = TRUE
      /\ control = [g \in Runs |-> IF g = 1 /\ dioEnv.open # {}
                                   THEN [NoControl EXCEPT !.state = "live", !.digital = TRUE] ELSE NoControl]
      /\ face = [g \in Runs |-> IF g = 1 /\ holder # NoWindow THEN Started(holder) ELSE NoFace]
  BY DEF DigitalInit
<1> DEFINE on == [NoControl EXCEPT !.state = "live", !.digital = TRUE]
<1>2. Knows(TRUE, on) /\ on.digital = TRUE /\ on.state = "live"
  <2>1. <<>> \in Seq(BOOLEAN)
    OBVIOUS
  <2> QED BY <2>1 DEF Knows, NoControl
<1>3. Started(holder).state = "up" /\ Started(holder).for = holder /\ NoFace.state = "none" /\ NoFace.for = NoWindow
  BY DEF Started, NoFace
<1>4. ASSUME NEW g \in Runs PROVE Follows(digital, holder, control[g], face[g])
  <2>1. control[g] = IF g = 1 /\ dioEnv.open # {} THEN on ELSE NoControl
    BY <1>1
  <2>2. face[g] = IF g = 1 /\ holder # NoWindow THEN Started(holder) ELSE NoFace
    BY <1>1
  <2> HIDE DEF on
  <2>3. CASE g = 1 /\ dioEnv.open # {}
    BY <1>1, <1>2, <1>3, <2>1, <2>2, <2>3 DEF Follows, IsFor
  <2>4. CASE ~(g = 1 /\ dioEnv.open # {})
    BY <1>1, <1>3, <2>1, <2>2, <2>4, NoMoreControl, HoldersAssumption DEF Follows, Sockets
  <2> QED BY <2>3, <2>4
<1> QED BY <1>1, <1>4 DEF Followed

LEMMA FollowedStep == DigitalInv /\ Followed /\ [DigitalNext]_dioVars => Followed'
<1> SUFFICES ASSUME DigitalInv, Followed, [DigitalNext]_dioVars PROVE Followed'
  OBVIOUS
<1>1. CASE \E s \in Sockets : \/ JoinDigital(s) \/ Transmit(s)
                              \/ \E kind \in {"stop", "clear"} : AskControl(s, kind)
  BY <1>1 DEF Followed, JoinDigital, Transmit, AskControl
<1>2. CASE \E s \in Sockets : \/ AcquireDigital(s) \/ ReleaseDigital(s) \/ ReleasedDigital(s) \/ QueueRequest(s)
                              \/ \E on \in BOOLEAN : SetDigitalTarget(s, on)
  BY <1>2, AcquiredFollows, LeavingFollows, ReleasedFollows, QueueFollows, TargetFollows
<1>3. CASE \E g \in Runs : HearMode(g) \/ HearHolder(g) \/ TakeRequest(g) \/ ShutDownControl(g) \/ LagBehind(g)
  BY <1>3, ModeFollows, HolderFollows, RequestFollows, ShutFollows, LagFollows
<1>4. CASE \E g \in Runs : FaceTakes(g) \/ FaceRefuses(g) \/ FaceStops(g) \/ TransmissionEnds(g) \/ FaceDies(g)
  BY <1>4, WorkFollows, NextFollows
<1>5. CASE ChangeDigital
  BY <1>5, ChangeFollows
<1>6. CASE UNCHANGED dioVars
  BY <1>6 DEF Followed, dioVars
<1> QED BY <1>1, <1>2, <1>3, <1>4, <1>5, <1>6 DEF DigitalNext, SessionSteps, ControlSteps, FaceSteps

(* When nothing is left to do, the interface that runs is the one of the    *)
(* target, and none runs without one: the controller reads the target when  *)
(* it reconciles, and what changed while it waited for an interface to stop *)
(* is still reported (digital_io.rs reconcile, run_controller).             *)
THEOREM InterfaceIsOfTheTarget == DigitalSpec => []InterfaceFollowsTheTarget
<1>1. DigitalInit => DigitalInv /\ Followed
  BY DigitalStarts, FollowStarts
<1>2. DigitalInv /\ Followed /\ [DigitalNext]_dioVars => DigitalInv' /\ Followed'
  BY DigitalInvStep, FollowedStep
<1>3. DigitalInv /\ Followed => InterfaceFollowsTheTarget
  <2> SUFFICES ASSUME DigitalInv, Followed, DigitalAtRest, NEW g \in Runs
               PROVE  LET w == IF digital THEN ReadTarget(g) ELSE NoWindow
                      IN \/ face[g].for = w /\ face[g].state \in {"none", "up", "dead"}
                         \/ control[g].wrong \/ control[g].refused
    BY DEF InterfaceFollowsTheTarget
  <2>1. /\ Follows(digital, holder, control[g], face[g]) /\ IsFace(face[g])
        /\ FaceFits(holder, control[g], face[g]) /\ control[g].state \in {"none", "live", "closing", "done"}
    BY RunTypes DEF Followed, Follows, RunOK
  <2>2. face[g].state \in {"none", "up", "dead"} /\ control[g].state # "closing"
    BY <2>1 DEF DigitalAtRest, IsFace
  <2>3. CASE control[g].state = "live"
    <3>1. Calm(control[g]) /\ control[g].updates = <<>>
      BY <2>3 DEF DigitalAtRest, Calm
    <3>2. control[g].wrong \/ control[g].digital = digital
      BY <2>1, <2>3, <3>1 DEF Follows, Knows
    <3>3. ReadTarget(g) = holder
      BY <2>3 DEF ReadTarget
    <3> QED BY <2>1, <2>2, <3>1, <3>2, <3>3 DEF Follows, IsFor
  <2>4. CASE control[g].state # "live"
    <3>1. ReadTarget(g) = NoWindow
      BY <2>4 DEF ReadTarget
    <3>2. face[g].state = "none"
      BY <2>1, <2>2, <2>4 DEF FaceFits
    <3> QED BY <2>1, <3>1, <3>2 DEF Follows
  <2> QED BY <2>3, <2>4
<1> QED BY <1>1, <1>2, <1>3, PTL DEF DigitalSpec

-----------------------------------------------------------------------------
(* The target that the windows show.                                        *)

Target == Loggers \cup {NoLogger}

ShowTypes ==
  /\ crossed \in BOOLEAN
  /\ \A c \in Conns : /\ conn[c].up \in Seq(BOOLEAN) /\ conn[c].told \in Seq(Target)
                      /\ conn[c].say \in Target \cup {NoWord}
                      /\ conn[c].state \in {"free", "joining"} => conn[c].say = NoWord
  /\ \A w \in Loggers : window[w].shown \in BOOLEAN /\ window[w].intent \in BOOLEAN

(* What was last broadcast to a window, or what it shows if it has heard    *)
(* everything, is the target; a window that joins will be told.             *)
ShowsLast(t, w, win, one) ==
  IF one.told = <<>> THEN one.state = "joining" \/ win.shown = (t = w) ELSE one.told[Len(one.told)] = t

SayPending == \E c \in Conns : conn[c].say # NoWord

(* A window that has a connection shows the target, or will: it has asked   *)
(* for a broadcast or one is to come.                                       *)
WillShow(w) ==
  window[w].link # 0 =>
    /\ conn[LinkOf(w)].state \in {"joining", "open"} /\ ~conn[LinkOf(w)].gone
    /\ \/ SayPending \/ crossed
       \/ conn[LinkOf(w)].up # <<>>
       \/ ShowsLast(target, w, window[w], conn[LinkOf(w)])

ShowInv == ShowTypes /\ \A w \in Loggers : WillShow(w)

LEMMA Words == NoWord \notin Target
BY NoLoggerAssumption DEF Target

LEMMA EmptySeqs == <<>> \in Seq(BOOLEAN) /\ <<TRUE>> \in Seq(BOOLEAN) /\ <<>> \in Seq(Target)
OBVIOUS

LEMMA LinksApart ==
  ASSUME ContactInv, NEW v \in Loggers, NEW w \in Loggers, v # w, window[v].link # 0
  PROVE  LinkOf(v) \in Conns /\ \A i : LinkOf(v) # <<w, i>>
<1>1. LinkOf(v) \in Conns
  BY LinkIsAConn
<1> QED BY <1>1 DEF LinkOf

(* A window and its connection stay, as far as WillShow reads them.         *)
LEMMA StillShows ==
  ASSUME NEW w \in Loggers, WillShow(w), target' = target,
         SayPending \/ crossed => SayPending' \/ crossed',
         window'[w].link = window[w].link, window'[w].shown = window[w].shown,
         window[w].link # 0 =>
           LET c == conn[LinkOf(w)]
               d == conn'[LinkOf(w)]
           IN d.state = c.state /\ d.gone = c.gone /\ d.up = c.up /\ d.told = c.told
  PROVE  WillShow(w)'
<1>1. LinkOf(w)' = LinkOf(w)
  BY DEF LinkOf
<1> QED BY <1>1 DEF WillShow, ShowsLast

(* The word that is last in what a window is told.                          *)
LEMMA LastTold ==
  ASSUME NEW q \in Seq(Target), NEW t \in Target
  PROVE  /\ Append(q, t) \in Seq(Target) /\ Append(q, t) # <<>> /\ Append(q, t)[Len(Append(q, t))] = t
         /\ <<t>> \o q \in Seq(Target) /\ <<t>> \o q # <<>>
         /\ q = <<>> => (<<t>> \o q)[Len(<<t>> \o q)] = t
         /\ q # <<>> => (<<t>> \o q)[Len(<<t>> \o q)] = q[Len(q)]
<1>1. /\ Append(q, t) \in Seq(Target) /\ Append(q, t) # <<>> /\ Append(q, t)[Len(Append(q, t))] = t
  OBVIOUS
<1> DEFINE r == <<t>>
<1>2. r \in Seq(Target) /\ Len(r) = 1 /\ r[1] = t
  OBVIOUS
<1> HIDE DEF r
<1>3. /\ r \o q \in Seq(Target) /\ Len(r \o q) = Len(r) + Len(q)
      /\ \A i \in 1..(Len(r) + Len(q)) : (r \o q)[i] = IF i <= Len(r) THEN r[i] ELSE q[i - Len(r)]
  BY <1>2, ConcatProperties
<1>5. Len(q) \in Nat /\ (q = <<>> <=> Len(q) = 0)
  OBVIOUS
<1>6. r \o q # <<>>
  <2>1. Len(r \o q) # 0
    BY <1>2, <1>3, <1>5
  <2> QED BY <2>1, <1>3
<1>7. q = <<>> => (r \o q)[Len(r \o q)] = t
  BY <1>2, <1>3, <1>5
<1>8. q # <<>> => (r \o q)[Len(r \o q)] = q[Len(q)]
  BY <1>2, <1>3, <1>5
<1> QED BY <1>1, <1>3, <1>6, <1>7, <1>8 DEF r

LEMMA TailTold ==
  ASSUME NEW q \in Seq(Target), q # <<>>
  PROVE  /\ Head(q) \in Target /\ Tail(q) \in Seq(Target)
         /\ Tail(q) = <<>> => Head(q) = q[Len(q)]
         /\ Tail(q) # <<>> => Tail(q)[Len(Tail(q))] = q[Len(q)]
<1>1. /\ Len(Tail(q)) = Len(q) - 1 /\ Head(q) = q[1] /\ Tail(q) \in Seq(Target) /\ Head(q) \in Target
      /\ \A k \in 1..Len(Tail(q)) : Tail(q)[k] = q[k + 1]
  BY HeadTailProperties
<1>2. Len(q) \in Nat /\ Len(q) > 0 /\ (Tail(q) = <<>> <=> Len(Tail(q)) = 0)
  BY <1>1, EmptySeq
<1> QED BY <1>1, <1>2

-----------------------------------------------------------------------------
LEMMA ClickShows ==
  ASSUME ContactInv, ShowInv, NEW w \in Loggers, NEW on \in BOOLEAN, SetWsjtXTarget(w, on)
  PROVE  ShowInv'
<1>1. /\ conn = [d \in Conns |-> conn[d]] /\ window = [v \in Loggers |-> window[v]]
      /\ IsWindow(window[w]) /\ \A d \in Conns : IsConn(conn[d])
  BY DEF ContactInv, ContactTypes
<1>2. /\ window' = [window EXCEPT ![w].intent = on, ![w].shown = on] /\ conn' = Post(w, on)
      /\ UNCHANGED <<target, crossed>>
  BY DEF SetWsjtXTarget
<1>3. /\ window'[w].intent = on /\ window'[w].shown = on /\ window'[w].link = window[w].link
      /\ \A v \in Loggers \ {w} : window'[v] = window[v]
  BY <1>1, <1>2 DEF IsWindow
<1>4. CASE window[w].link = 0
  <2>1. conn' = conn
    BY <1>2, <1>4 DEF Post
  <2>2. \A v \in Loggers : WillShow(v)'
    <3> SUFFICES ASSUME NEW v \in Loggers PROVE WillShow(v)'
      OBVIOUS
    <3>1. CASE v = w
      BY <1>3, <1>4, <3>1 DEF WillShow
    <3>2. CASE v # w
      BY <1>2, <1>3, <2>1, <3>2, StillShows DEF ShowInv, SayPending
    <3> QED BY <3>1, <3>2
  <2> QED BY <1>2, <1>3, <2>1, <2>2 DEF ShowInv, ShowTypes
<1>5. CASE window[w].link # 0
  <2> DEFINE c == LinkOf(w)
  <2>1. c \in Conns /\ IsConn(conn[c]) /\ conn[c].up \in Seq(BOOLEAN)
    BY <1>1, <1>5, LinkIsAConn DEF ShowInv, ShowTypes
  <2>2. conn' = [conn EXCEPT ![c].up = Append(@, on)]
    BY <1>2, <1>5 DEF Post
  <2> HIDE DEF c
  <2>3. /\ conn'[c].up = Append(conn[c].up, on) /\ conn'[c].told = conn[c].told /\ conn'[c].say = conn[c].say
        /\ conn'[c].state = conn[c].state /\ conn'[c].gone = conn[c].gone
        /\ \A d \in Conns \ {c} : conn'[d] = conn[d]
    BY <1>1, <2>1, <2>2 DEF IsConn
  <2>4. Append(conn[c].up, on) \in Seq(BOOLEAN) /\ Append(conn[c].up, on) # <<>>
    BY <2>1
  <2>5. SayPending' <=> SayPending
    BY <2>1, <2>3 DEF SayPending
  <2>6. \A v \in Loggers : WillShow(v)'
    <3> SUFFICES ASSUME NEW v \in Loggers PROVE WillShow(v)'
      OBVIOUS
    <3>1. CASE v = w
      <4>1. LinkOf(w)' = c
        BY <1>3 DEF c, LinkOf
      <4>2. conn[c].state \in {"joining", "open"} /\ ~conn[c].gone
        BY <1>5 DEF ShowInv, WillShow, c
      <4> QED BY <2>3, <2>4, <3>1, <4>1, <4>2 DEF WillShow
    <3>2. CASE v # w
      <4>1. window[v].link # 0 => LinkOf(v) \in Conns \ {c}
        BY <3>2, LinksApart DEF c, LinkOf
      <4> QED BY <1>2, <1>3, <2>3, <2>5, <3>2, <4>1, StillShows DEF ShowInv
    <3> QED BY <3>1, <3>2
  <2>7. ShowTypes'
    BY <1>2, <1>3, <2>3, <2>4 DEF ShowInv, ShowTypes
  <2> QED BY <2>6, <2>7 DEF ShowInv
<1> QED BY <1>4, <1>5

LEMMA OpenShows ==
  ASSUME ContactInv, ShowInv, NEW w \in Loggers, OpenRadioSocket(w)
  PROVE  ShowInv'
<1>1. /\ conn = [d \in Conns |-> conn[d]] /\ window = [v \in Loggers |-> window[v]] /\ IsWindow(window[w])
  BY DEF ContactInv, ContactTypes
<1>2. PICK i \in 1..2 :
        /\ conn[<<w, i>>].state = "free"
        /\ window' = [window EXCEPT ![w].link = i]
        /\ conn' = [conn EXCEPT ![<<w, i>>] =
                     [Free EXCEPT !.state = "joining", !.data = inData,
                                  !.up = IF window[w].intent THEN <<TRUE>> ELSE <<>>]]
        /\ UNCHANGED <<target, crossed>>
  BY DEF OpenRadioSocket
<1> DEFINE c == <<w, i>>
           up == IF window[w].intent THEN <<TRUE>> ELSE <<>>
<1>3. c \in Conns /\ conn[c].say = NoWord /\ up \in Seq(BOOLEAN)
  <2>1. c \in Conns
    BY DEF Conns
  <2>2. conn[c].state = "free"
    BY <1>2
  <2>3. conn[c].say = NoWord
    BY <2>1, <2>2 DEF ShowInv, ShowTypes
  <2> QED BY <2>1, <2>3, EmptySeqs
<1>4. /\ conn'[c].state = "joining" /\ ~conn'[c].gone /\ conn'[c].told = <<>> /\ conn'[c].say = NoWord
      /\ conn'[c].up = up /\ \A d \in Conns \ {c} : conn'[d] = conn[d]
  <2> HIDE DEF up
  <2>1. conn' = [conn EXCEPT ![c] = [Free EXCEPT !.state = "joining", !.data = inData, !.up = up]]
    BY <1>2 DEF up
  <2> HIDE DEF c
  <2> QED BY <1>1, <1>3, <2>1 DEF Free
<1>5. /\ window'[w].link = i /\ window'[w].shown = window[w].shown /\ window'[w].intent = window[w].intent
      /\ \A v \in Loggers \ {w} : window'[v] = window[v]
  BY <1>1, <1>2 DEF IsWindow
<1> HIDE DEF up, c
<1>6. SayPending' <=> SayPending
  BY <1>3, <1>4 DEF SayPending
<1>7. \A v \in Loggers : WillShow(v)'
  <2> SUFFICES ASSUME NEW v \in Loggers PROVE WillShow(v)'
    OBVIOUS
  <2>1. CASE v = w
    <3>1. LinkOf(w)' = c
      BY <1>5 DEF LinkOf, c
    <3> QED BY <1>4, <2>1, <3>1 DEF WillShow, ShowsLast
  <2>2. CASE v # w
    <3>1. window[v].link # 0 => LinkOf(v) \in Conns \ {c}
      BY <2>2, LinksApart DEF c
    <3> QED BY <1>2, <1>4, <1>5, <1>6, <2>2, <3>1, StillShows DEF ShowInv
  <2> QED BY <2>1, <2>2
<1>8. ShowTypes'
  BY <1>2, <1>3, <1>4, <1>5, EmptySeqs DEF ShowInv, ShowTypes
<1> QED BY <1>7, <1>8 DEF ShowInv

LEMMA LossShows ==
  ASSUME ContactInv, ShowInv, NEW w \in Loggers, LoseRadioSocket(w)
  PROVE  ShowInv'
<1> DEFINE c == LinkOf(w)
<1>1. /\ conn = [d \in Conns |-> conn[d]] /\ window = [v \in Loggers |-> window[v]] /\ IsWindow(window[w])
      /\ window[w].link # 0
  BY DEF ContactInv, ContactTypes, LoseRadioSocket
<1>2. c \in Conns /\ IsConn(conn[c])
  BY <1>1, LinkIsAConn DEF ContactInv, ContactTypes
<1>3. /\ window' = [window EXCEPT ![w].link = 0, ![w].shown = FALSE]
      /\ conn' = [conn EXCEPT ![c] = [@ EXCEPT !.gone = TRUE, !.told = <<>>,
                                           !.events = <<>>, !.contacts = <<>>]]
      /\ UNCHANGED <<target, crossed>>
  BY DEF LoseRadioSocket
<1> HIDE DEF c
<1>4. /\ window'[w].link = 0 /\ window'[w].shown = FALSE /\ window'[w].intent = window[w].intent
      /\ \A v \in Loggers \ {w} : window'[v] = window[v]
  BY <1>1, <1>3 DEF IsWindow
<1>5. /\ conn'[c].told = <<>> /\ conn'[c].say = conn[c].say /\ conn'[c].state = conn[c].state
      /\ conn'[c].up = conn[c].up /\ \A d \in Conns \ {c} : conn'[d] = conn[d]
  BY <1>1, <1>2, <1>3 DEF IsConn
<1>6. SayPending' <=> SayPending
  BY <1>2, <1>5 DEF SayPending
<1>7. \A v \in Loggers : WillShow(v)'
  <2> SUFFICES ASSUME NEW v \in Loggers PROVE WillShow(v)'
    OBVIOUS
  <2>1. CASE v = w
    BY <1>4, <2>1 DEF WillShow
  <2>2. CASE v # w
    <3>1. window[v].link # 0 => LinkOf(v) \in Conns \ {c}
      BY <2>2, LinksApart DEF c, LinkOf
    <3> QED BY <1>3, <1>4, <1>5, <1>6, <2>2, <3>1, StillShows DEF ShowInv
  <2> QED BY <2>1, <2>2
<1>8. ShowTypes'
  BY <1>2, <1>3, <1>4, <1>5, EmptySeqs DEF ShowInv, ShowTypes
<1> QED BY <1>7, <1>8 DEF ShowInv

(* Windows and connections stay, as far as the shown target goes.           *)
LEMMA AllStillShow ==
  ASSUME ShowInv, UNCHANGED <<target, crossed>>,
         \A w \in Loggers : /\ window'[w].link = window[w].link /\ window'[w].shown = window[w].shown
                            /\ window'[w].intent = window[w].intent,
         \A c \in Conns : /\ conn'[c].state = conn[c].state /\ conn'[c].gone = conn[c].gone
                          /\ conn'[c].up = conn[c].up /\ conn'[c].told = conn[c].told
                          /\ conn'[c].say = conn[c].say,
         ContactInv
  PROVE  ShowInv'
<1>1. SayPending' <=> SayPending
  BY DEF SayPending
<1>2. \A w \in Loggers : WillShow(w)'
  <2> SUFFICES ASSUME NEW w \in Loggers PROVE WillShow(w)'
    OBVIOUS
  <2>1. window[w].link # 0 => LinkOf(w) \in Conns
    BY LinkIsAConn
  <2> QED BY <1>1, <2>1, StillShows DEF ShowInv
<1>3. ShowTypes'
  BY DEF ShowInv, ShowTypes
<1> QED BY <1>2, <1>3 DEF ShowInv

LEMMA Asks ==
  ASSUME NEW u \in Seq(BOOLEAN), NEW on \in BOOLEAN
  PROVE  Append(u, on) \in Seq(BOOLEAN) /\ Append(u, on) # <<>>
OBVIOUS

LEMMA HearingShows ==
  ASSUME ContactInv, ShowInv, NEW w \in Loggers, HearTarget(w)
  PROVE  ShowInv'
<1> DEFINE c == LinkOf(w)
           q == conn[c].told
           t == Head(q)
           up == IF t = NoLogger /\ window[w].intent THEN Append(conn[c].up, TRUE) ELSE conn[c].up
<1>1. /\ conn = [d \in Conns |-> conn[d]] /\ window = [v \in Loggers |-> window[v]] /\ IsWindow(window[w])
      /\ window[w].link # 0 /\ q # <<>> /\ conn[c].state # "joining"
  BY DEF ContactInv, ContactTypes, HearTarget
<1>2. c \in Conns /\ IsConn(conn[c]) /\ OwnerOf(c) = w
  BY <1>1, LinkIsAConn DEF ContactInv, ContactTypes
<1>3. /\ window' = [window EXCEPT ![w] = Heard(@, w, t)]
      /\ conn' = [conn EXCEPT ![c].told = Tail(@),
                              ![c].up = IF t = NoLogger /\ window[w].intent THEN Append(@, TRUE) ELSE @]
      /\ UNCHANGED <<target, crossed>>
  BY DEF HearTarget
<1>4. q \in Seq(Target) /\ conn[c].up \in Seq(BOOLEAN) /\ window[w].intent \in BOOLEAN
  BY <1>2 DEF ShowInv, ShowTypes
<1>5. /\ t \in Target /\ Tail(q) \in Seq(Target) /\ (Tail(q) = <<>> => t = q[Len(q)])
      /\ (Tail(q) # <<>> => Tail(q)[Len(Tail(q))] = q[Len(q)])
  BY <1>1, <1>4, TailTold
<1>6. up \in Seq(BOOLEAN) /\ (conn[c].up # <<>> => up # <<>>)
  <2>1. Append(conn[c].up, TRUE) \in Seq(BOOLEAN) /\ Append(conn[c].up, TRUE) # <<>>
    BY <1>4, Asks
  <2> HIDE DEF c, t
  <2> QED BY <1>4, <2>1
<1>7. /\ conn'[c].told = Tail(q) /\ conn'[c].up = up
      /\ conn'[c].say = conn[c].say /\ conn'[c].state = conn[c].state /\ conn'[c].gone = conn[c].gone
      /\ \A d \in Conns \ {c} : conn'[d] = conn[d]
  <2> HIDE DEF c
  <2> QED BY <1>1, <1>2, <1>3 DEF IsConn
<1>8. /\ window'[w].link = window[w].link /\ window'[w].shown = (t = w /\ t # NoLogger)
      /\ window'[w].intent \in BOOLEAN
      /\ \A v \in Loggers \ {w} : window'[v] = window[v]
  <2>1. window'[w] = Heard(window[w], w, t) /\ \A v \in Loggers \ {w} : window'[v] = window[v]
    <3> HIDE DEF t
    <3> QED BY <1>1, <1>3
  <2> HIDE DEF t
  <2>2. CASE t = NoLogger
    <3>1. Heard(window[w], w, t) = [window[w] EXCEPT !.shown = FALSE]
      BY <2>2 DEF Heard
    <3> QED BY <1>1, <1>4, <2>1, <2>2, <3>1 DEF IsWindow
  <2>3. CASE t # NoLogger
    <3>1. Heard(window[w], w, t) = [window[w] EXCEPT !.shown = (t = w), !.intent = (t = w)]
      BY <2>3 DEF Heard
    <3> QED BY <1>1, <2>1, <2>3, <3>1 DEF IsWindow
  <2> QED BY <2>2, <2>3
<1>9. t = w /\ t # NoLogger <=> t = w
  BY NoLoggerAssumption
<1>10. window[w].link = window'[w].link /\ LinkOf(w)' = c
  BY <1>8 DEF LinkOf
<1>11. WillShow(w)
  BY DEF ShowInv
<1> HIDE DEF up, t, q
<1>12. SayPending' <=> SayPending
  BY <1>2, <1>7 DEF SayPending
<1>13. \A v \in Loggers : WillShow(v)'
  <2> SUFFICES ASSUME NEW v \in Loggers PROVE WillShow(v)'
    OBVIOUS
  <2>1. CASE v = w
    <3>1. conn[c].state \in {"joining", "open"} /\ ~conn[c].gone
      BY <1>1, <1>11 DEF WillShow
    <3>2. CASE SayPending \/ crossed \/ conn[c].up # <<>>
      BY <1>3, <1>6, <1>7, <1>10, <1>12, <2>1, <3>1, <3>2 DEF WillShow
    <3>3. CASE ShowsLast(target, w, window[w], conn[c])
      <4>1. q[Len(q)] = target
        BY <1>1, <3>3 DEF ShowsLast, q
      <4>2. ShowsLast(target', w, window'[w], conn'[c])
        BY <1>3, <1>5, <1>7, <1>8, <1>9, <4>1 DEF ShowsLast
      <4> QED BY <1>7, <1>10, <2>1, <3>1, <4>2 DEF WillShow
    <3> QED BY <1>1, <1>11, <3>2, <3>3 DEF WillShow
  <2>2. CASE v # w
    <3>1. window[v].link # 0 => LinkOf(v) \in Conns \ {c}
      BY <2>2, LinksApart DEF c, LinkOf
    <3> QED BY <1>3, <1>7, <1>8, <1>12, <2>2, <3>1, StillShows DEF ShowInv
  <2> QED BY <2>1, <2>2
<1>14. ShowTypes'
  <2> HIDE DEF c
  <2>1. window'[w].shown \in BOOLEAN
    BY <1>8
  <2>2. \A d \in Conns : /\ conn'[d].up \in Seq(BOOLEAN) /\ conn'[d].told \in Seq(Target)
                         /\ conn'[d].say \in Target \cup {NoWord}
                         /\ conn'[d].state \in {"free", "joining"} => conn'[d].say = NoWord
    <3> SUFFICES ASSUME NEW d \in Conns
                 PROVE  /\ conn'[d].up \in Seq(BOOLEAN) /\ conn'[d].told \in Seq(Target)
                        /\ conn'[d].say \in Target \cup {NoWord}
                        /\ conn'[d].state \in {"free", "joining"} => conn'[d].say = NoWord
      OBVIOUS
    <3>1. /\ conn[d].up \in Seq(BOOLEAN) /\ conn[d].told \in Seq(Target)
          /\ conn[d].say \in Target \cup {NoWord}
          /\ conn[d].state \in {"free", "joining"} => conn[d].say = NoWord
      BY DEF ShowInv, ShowTypes
    <3>2. CASE d = c
      BY <1>5, <1>6, <1>7, <3>1, <3>2
    <3>3. CASE d # c
      BY <1>7, <3>1, <3>3
    <3> QED BY <3>2, <3>3
  <2> QED BY <1>3, <1>8, <2>1, <2>2 DEF ShowInv, ShowTypes
<1> QED BY <1>13, <1>14 DEF ShowInv

LEMMA ContactShows ==
  ASSUME ContactInv, ShowInv, NEW w \in Loggers, HearContact(w)
  PROVE  ShowInv'
<1> DEFINE c == LinkOf(w)
<1>1. /\ conn = [d \in Conns |-> conn[d]] /\ window = [v \in Loggers |-> window[v]] /\ IsWindow(window[w])
      /\ window[w].link # 0
  BY DEF ContactInv, ContactTypes, HearContact
<1>2. c \in Conns /\ IsConn(conn[c])
  BY <1>1, LinkIsAConn DEF ContactInv, ContactTypes
<1>3. /\ window' = [window EXCEPT ![w].logged = @ \cup {Head(conn[c].contacts)}]
      /\ conn' = [conn EXCEPT ![c].contacts = Tail(@)]
      /\ UNCHANGED <<target, crossed>>
  BY DEF HearContact
<1> HIDE DEF c
<1>4. \A v \in Loggers : /\ window'[v].link = window[v].link /\ window'[v].shown = window[v].shown
                         /\ window'[v].intent = window[v].intent
  BY <1>1, <1>3 DEF IsWindow
<1>5. \A d \in Conns : /\ conn'[d].state = conn[d].state /\ conn'[d].gone = conn[d].gone
                       /\ conn'[d].up = conn[d].up /\ conn'[d].told = conn[d].told
                       /\ conn'[d].say = conn[d].say
  BY <1>1, <1>2, <1>3 DEF IsConn
<1> QED BY <1>3, <1>4, <1>5, AllStillShow

(* A connection changes that is no window's, or whose window keeps it and   *)
(* will be told.                                                            *)
LEMMA OneShows ==
  ASSUME ContactInv, ShowInv, NEW c \in Conns, UNCHANGED <<crossed, window>>,
         \A d \in Conns \ {c} : conn'[d] = conn[d],
         conn'[c].up \in Seq(BOOLEAN), conn'[c].told \in Seq(Target), conn'[c].say \in Target \cup {NoWord},
         conn'[c].state \in {"free", "joining"} => conn'[c].say = NoWord,
         conn[c].say # NoWord => conn'[c].say # NoWord,
         target' # target => conn'[c].say # NoWord,
         LET w == OwnerOf(c)
         IN window[w].link # 0 /\ LinkOf(w) = c =>
              /\ conn'[c].state \in {"joining", "open"} /\ ~conn'[c].gone
              /\ \/ conn'[c].say # NoWord \/ conn'[c].up # <<>>
                 \/ /\ conn[c].up = <<>>
                    /\ ShowsLast(target, w, window[w], conn[c]) => ShowsLast(target, w, window[w], conn'[c])
  PROVE  ShowInv'
<1>1. SayPending => SayPending'
  BY DEF SayPending
<1>2. target' # target => SayPending'
  BY DEF SayPending
<1>3. conn'[c].say # NoWord => SayPending'
  BY DEF SayPending
<1>4. \A v \in Loggers : WillShow(v)'
  <2> SUFFICES ASSUME NEW v \in Loggers, window[v].link # 0 PROVE WillShow(v)'
    BY DEF WillShow
  <2>1. LinkOf(v) \in Conns /\ OwnerOf(LinkOf(v)) = v /\ LinkOf(v)' = LinkOf(v)
    BY LinkIsAConn DEF LinkOf
  <2>2. WillShow(v)
    BY DEF ShowInv
  <2>3. CASE LinkOf(v) = c
    <3>1. OwnerOf(c) = v
      BY <2>1, <2>3
    <3>2. /\ conn'[c].state \in {"joining", "open"} /\ ~conn'[c].gone
          /\ \/ conn'[c].say # NoWord \/ conn'[c].up # <<>>
             \/ /\ conn[c].up = <<>>
                /\ ShowsLast(target, v, window[v], conn[c]) => ShowsLast(target, v, window[v], conn'[c])
      BY <2>3, <3>1
    <3>3. CASE SayPending' \/ crossed' \/ conn'[c].up # <<>>
      BY <2>1, <2>3, <3>2, <3>3 DEF WillShow
    <3>4. CASE ~SayPending' /\ ~crossed' /\ conn'[c].up = <<>>
      <4>1. /\ conn[c].up = <<>> /\ target' = target
            /\ ShowsLast(target, v, window[v], conn[c]) => ShowsLast(target, v, window[v], conn'[c])
        BY <1>2, <1>3, <3>2, <3>4
      <4>2. ShowsLast(target, v, window[v], conn[c])
        BY <1>1, <2>2, <2>3, <3>4, <4>1 DEF WillShow
      <4> QED BY <2>1, <2>3, <3>2, <4>1, <4>2 DEF WillShow
    <3> QED BY <3>3, <3>4
  <2>4. CASE LinkOf(v) # c
    <3>1. conn'[LinkOf(v)] = conn[LinkOf(v)]
      BY <2>1, <2>4
    <3> QED BY <1>1, <1>2, <2>1, <2>2, <3>1 DEF WillShow, ShowsLast
  <2> QED BY <2>3, <2>4
<1>5. ShowTypes'
  BY DEF ShowInv, ShowTypes
<1> QED BY <1>4, <1>5 DEF ShowInv

LEMMA AcquireShows ==
  ASSUME ContactInv, ShowInv, NEW c \in Conns, AcquireListener(c)
  PROVE  ShowInv'
<1> DEFINE told == IF conn[c].gone THEN <<>> ELSE <<target>> \o conn[c].told
<1>1. /\ conn = [d \in Conns |-> conn[d]] /\ IsConn(conn[c]) /\ conn[c].state = "joining"
      /\ target \in Target
  BY DEF ContactInv, ContactTypes, AcquireListener, Target
<1>2. /\ conn' = [conn EXCEPT ![c].state = "open", ![c].data = FALSE,
                              ![c].told = IF conn[c].gone THEN <<>> ELSE <<target>> \o @]
      /\ UNCHANGED <<target, crossed, window>>
  BY DEF AcquireListener
<1>3. /\ conn[c].up \in Seq(BOOLEAN) /\ conn[c].told \in Seq(Target) /\ conn[c].say = NoWord
  BY <1>1 DEF ShowInv, ShowTypes
<1>4. /\ conn'[c].state = "open" /\ conn'[c].told = told /\ conn'[c].up = conn[c].up
      /\ conn'[c].say = NoWord /\ conn'[c].gone = conn[c].gone
      /\ \A d \in Conns \ {c} : conn'[d] = conn[d]
  BY <1>1, <1>2, <1>3 DEF IsConn
<1>5. /\ told \in Seq(Target)
      /\ ~conn[c].gone => told # <<>> /\ told[Len(told)] = IF conn[c].told = <<>> THEN target
                                                           ELSE conn[c].told[Len(conn[c].told)]
  BY <1>1, <1>3, LastTold, EmptySeqs
<1> HIDE DEF told
<1>6. LET w == OwnerOf(c)
      IN window[w].link # 0 /\ LinkOf(w) = c =>
           /\ conn'[c].state \in {"joining", "open"} /\ ~conn'[c].gone
           /\ \/ conn'[c].say # NoWord \/ conn'[c].up # <<>>
              \/ /\ conn[c].up = <<>>
                 /\ ShowsLast(target, w, window[w], conn[c]) => ShowsLast(target, w, window[w], conn'[c])
  <2> DEFINE w == OwnerOf(c)
  <2> SUFFICES ASSUME window[w].link # 0, LinkOf(w) = c
               PROVE  /\ ~conn[c].gone
                      /\ ShowsLast(target, w, window[w], conn[c]) => ShowsLast(target, w, window[w], conn'[c])
    BY <1>4
  <2>1. w \in Loggers
    BY DEF Conns, OwnerOf
  <2>2. ~conn[c].gone
    BY <2>1 DEF ShowInv, WillShow
  <2> HIDE DEF w
  <2> QED BY <1>4, <1>5, <2>2 DEF ShowsLast
<1> QED BY <1>2, <1>3, <1>4, <1>5, <1>6, OneShows

LEMMA SetShows ==
  ASSUME ContactInv, ShowInv, NEW c \in Conns, SetTarget(c)
  PROVE  ShowInv'
<1>1. /\ conn = [d \in Conns |-> conn[d]] /\ IsConn(conn[c]) /\ target \in Target
      /\ conn[c].state = "open" /\ conn[c].say = NoWord /\ conn[c].up # <<>>
  BY DEF ContactInv, ContactTypes, SetTarget, Target
<1>2. /\ target' = TargetAfter(target, OwnerOf(c), Head(conn[c].up))
      /\ conn' = [conn EXCEPT ![c].up = Tail(@), ![c].say = target']
      /\ UNCHANGED <<crossed, window>>
  BY DEF SetTarget
<1>3. target' \in Target
  BY <1>1, <1>2 DEF TargetAfter, Target, Conns, OwnerOf
<1>4. target' # NoWord
  BY <1>3, Words
<1>5. conn[c].up \in Seq(BOOLEAN) /\ conn[c].told \in Seq(Target)
  BY DEF ShowInv, ShowTypes
<1>6. /\ conn'[c].state = "open" /\ conn'[c].told = conn[c].told /\ conn'[c].up = Tail(conn[c].up)
      /\ conn'[c].say = target' /\ conn'[c].gone = conn[c].gone
      /\ \A d \in Conns \ {c} : conn'[d] = conn[d]
  BY <1>1, <1>2 DEF IsConn
<1>7. Tail(conn[c].up) \in Seq(BOOLEAN)
  BY <1>1, <1>5, Reports
<1>8. \A w \in Loggers : window[w].link # 0 /\ LinkOf(w) = c => ~conn[c].gone
  BY DEF ShowInv, WillShow
<1>9. OwnerOf(c) \in Loggers
  BY DEF Conns, OwnerOf
<1> QED BY <1>1, <1>2, <1>3, <1>4, <1>5, <1>6, <1>7, <1>8, <1>9, OneShows

LEMMA ReleaseShows ==
  ASSUME ContactInv, ShowInv, NEW c \in Conns, ReleaseListener(c)
  PROVE  ShowInv'
<1> DEFINE clears == ClearsTarget(OwnerOf(c))
<1>1. PICK waits :
        /\ conn[c].state = "open" /\ conn[c].gone /\ conn[c].say = NoWord
        /\ target' = IF clears THEN NoLogger ELSE target
        /\ conn' = [conn EXCEPT ![c] = [Free EXCEPT !.state = "leaving",
                      !.say = IF clears THEN NoLogger ELSE NoWord, !.waits = waits]]
        /\ UNCHANGED <<crossed, window>>
  BY DEF ReleaseListener
<1>2. conn = [d \in Conns |-> conn[d]]
  BY DEF ContactInv, ContactTypes
<1> HIDE DEF clears
<1>3. /\ conn'[c].state = "leaving" /\ conn'[c].up = <<>> /\ conn'[c].told = <<>>
      /\ conn'[c].say = IF clears THEN NoLogger ELSE NoWord
      /\ \A d \in Conns \ {c} : conn'[d] = conn[d]
  BY <1>1, <1>2 DEF Free
<1>4. NoLogger # NoWord /\ NoLogger \in Target
  BY Words DEF Target
<1>5. \A w \in Loggers : ~(window[w].link # 0 /\ LinkOf(w) = c)
  BY <1>1 DEF ShowInv, WillShow
<1>6. OwnerOf(c) \in Loggers
  BY DEF Conns, OwnerOf
<1> QED BY <1>1, <1>3, <1>4, <1>5, <1>6, EmptySeqs, OneShows

LEMMA FinishShows ==
  ASSUME ContactInv, ShowInv, NEW c \in Conns, FinishRelease(c)
  PROVE  ShowInv'
<1>1. /\ conn[c].state = "leaving" /\ conn[c].say = NoWord /\ UNCHANGED <<target, crossed, window>>
      /\ UNCHANGED conn \/ conn' = [conn EXCEPT ![c] = Free]
  BY DEF FinishRelease
<1>2. conn = [d \in Conns |-> conn[d]]
  BY DEF ContactInv, ContactTypes
<1>3. CASE UNCHANGED conn
  BY <1>1, <1>3, AllStillShow
<1>4. CASE conn' = [conn EXCEPT ![c] = Free]
  <2>1. /\ conn'[c].state = "free" /\ conn'[c].up = <<>> /\ conn'[c].told = <<>> /\ conn'[c].say = NoWord
        /\ \A d \in Conns \ {c} : conn'[d] = conn[d]
    BY <1>2, <1>4 DEF Free
  <2>2. \A w \in Loggers : ~(window[w].link # 0 /\ LinkOf(w) = c)
    BY <1>1 DEF ShowInv, WillShow
  <2>3. OwnerOf(c) \in Loggers
    BY DEF Conns, OwnerOf
  <2> QED BY <1>1, <2>1, <2>2, <2>3, EmptySeqs, OneShows
<1> QED BY <1>1, <1>3, <1>4

(* A broadcast reaches every window that has a connection; it is the target *)
(* of now, another is to follow, or it has crossed one.                     *)
LEMMA SayShows ==
  ASSUME ContactInv, ShowInv, NEW c \in Conns, SayTarget(c)
  PROVE  ShowInv'
<1> DEFINE word == conn[c].say
<1>1. /\ word # NoWord /\ crossed' = (word # target /\ \A d \in Conns \ {c} : conn[d].say = NoWord)
      /\ conn' = [d \in Conns |->
                    LET hears == IF Hears(d) THEN [conn[d] EXCEPT !.told = Append(@, word)] ELSE conn[d]
                    IN IF d = c THEN [hears EXCEPT !.say = NoWord] ELSE hears]
      /\ UNCHANGED <<target, window>>
  BY DEF SayTarget
<1>2. word \in Target
  BY <1>1 DEF ShowInv, ShowTypes
<1> HIDE DEF word
<1>3. ASSUME NEW d \in Conns
      PROVE  /\ conn'[d].state = conn[d].state /\ conn'[d].gone = conn[d].gone /\ conn'[d].up = conn[d].up
             /\ conn'[d].told = IF Hears(d) THEN Append(conn[d].told, word) ELSE conn[d].told
             /\ conn'[d].say = IF d = c THEN NoWord ELSE conn[d].say
  <2>1. IsConn(conn[d])
    BY DEF ContactInv, ContactTypes
  <2>2. conn'[d] = LET hears == IF Hears(d) THEN [conn[d] EXCEPT !.told = Append(@, word)] ELSE conn[d]
                   IN IF d = c THEN [hears EXCEPT !.say = NoWord] ELSE hears
    BY <1>1
  <2>3. CASE Hears(d)
    BY <2>1, <2>2, <2>3 DEF IsConn
  <2>4. CASE ~Hears(d)
    BY <2>1, <2>2, <2>4 DEF IsConn
  <2> QED BY <2>3, <2>4
<1>4. ASSUME NEW d \in Conns
      PROVE  /\ conn[d].told \in Seq(Target) /\ conn'[d].told \in Seq(Target)
             /\ Hears(d) => conn'[d].told # <<>> /\ conn'[d].told[Len(conn'[d].told)] = word
  <2>1. conn[d].told \in Seq(Target)
    BY DEF ShowInv, ShowTypes
  <2> DEFINE after == Append(conn[d].told, word)
  <2>2. after \in Seq(Target) /\ after # <<>> /\ after[Len(after)] = word
    BY <1>2, <2>1, LastTold
  <2> HIDE DEF after
  <2>3. conn'[d].told = IF Hears(d) THEN after ELSE conn[d].told
    BY <1>3 DEF after
  <2> QED BY <2>1, <2>2, <2>3
<1>5. \A v \in Loggers : WillShow(v)'
  <2> SUFFICES ASSUME NEW v \in Loggers, window[v].link # 0 PROVE WillShow(v)'
    BY <1>1 DEF WillShow
  <2> DEFINE d == LinkOf(v)
  <2>1. d \in Conns /\ LinkOf(v)' = d
    BY <1>1, LinkIsAConn DEF LinkOf
  <2>2. conn[d].state \in {"joining", "open"} /\ ~conn[d].gone
    BY DEF ShowInv, WillShow
  <2> HIDE DEF d
  <2>3. Hears(d)
    BY <2>2 DEF Hears
  <2>4. conn'[d].told # <<>> /\ conn'[d].told[Len(conn'[d].told)] = word
    BY <1>4, <2>1, <2>3
  <2>5. crossed' \/ SayPending' \/ word = target
    <3>1. CASE \E e \in Conns \ {c} : conn[e].say # NoWord
      BY <1>3, <3>1 DEF SayPending
    <3> QED BY <1>1, <3>1
  <2>6. word = target => ShowsLast(target', v, window'[v], conn'[d])
    BY <1>1, <2>4 DEF ShowsLast
  <2> QED BY <1>3, <2>1, <2>2, <2>5, <2>6 DEF WillShow
<1>6. ShowTypes'
  BY <1>1, <1>3, <1>4 DEF ShowInv, ShowTypes
<1> QED BY <1>5, <1>6 DEF ShowInv

LEMMA EventShows ==
  ASSUME ContactInv, ShowInv, Events
  PROVE  ShowInv'
BY EventsKeep, AllStillShow

LEMMA ShowsAtFirst == WsjtXInit => ShowInv
<1> SUFFICES ASSUME WsjtXInit PROVE ShowInv
  OBVIOUS
<1>1. target \in Target /\ wsjtxEnv.open \subseteq Loggers
  BY TargetsAssumption DEF WsjtXInit, Target
<1>2. \A c \in Conns :
        /\ conn[c].up = <<>> /\ conn[c].told = <<>> /\ conn[c].say = NoWord /\ conn[c].gone = FALSE
        /\ c[2] = 1 /\ OwnerOf(c) \in wsjtxEnv.open => conn[c].state = "open"
  BY DEF WsjtXInit, Free
<1>3. \A w \in Loggers : /\ window[w].shown = (w = target) /\ window[w].intent = (w = target)
                         /\ window[w].link = IF w \in wsjtxEnv.open THEN 1 ELSE 0
  BY DEF WsjtXInit
<1>4. ShowTypes
  BY <1>2, <1>3, EmptySeqs DEF ShowTypes, WsjtXInit
<1>5. ASSUME NEW w \in Loggers, window[w].link # 0
      PROVE  WillShow(w)
  <2>1. LinkOf(w) = <<w, 1>> /\ w \in wsjtxEnv.open
    BY <1>3, <1>5 DEF LinkOf
  <2>2. <<w, 1>> \in Conns /\ OwnerOf(<<w, 1>>) = w /\ <<w, 1>>[2] = 1
    BY DEF Conns, OwnerOf
  <2> DEFINE c == <<w, 1>>
  <2>3. conn[c].state = "open" /\ ~conn[c].gone /\ conn[c].told = <<>>
    BY <1>2, <2>1, <2>2
  <2>4. LinkOf(w) = c
    BY <2>1
  <2> HIDE DEF c
  <2> QED BY <1>3, <2>3, <2>4 DEF WillShow, ShowsLast
<1> QED BY <1>4, <1>5 DEF ShowInv, WillShow

LEMMA ShowInvStep == ContactInv /\ ShowInv /\ [WsjtXNext]_wsjtxVars => ShowInv'
<1> SUFFICES ASSUME ContactInv, ShowInv, [WsjtXNext]_wsjtxVars PROVE ShowInv'
  OBVIOUS
<1>0. ASSUME UNCHANGED <<target, conn, window, crossed>> PROVE ShowInv'
  BY <1>0, AllStillShow
<1>1. CASE UNCHANGED wsjtxVars
  BY <1>0, <1>1 DEF wsjtxVars
<1>2. ASSUME NEW w \in Loggers, NEW on \in BOOLEAN, SetWsjtXTarget(w, on) PROVE ShowInv'
  BY <1>2, ClickShows
<1>3. ASSUME NEW w \in Loggers, OpenRadioSocket(w) \/ LoseRadioSocket(w) \/ Hearing(w)
      PROVE  ShowInv'
  BY <1>3, OpenShows, LossShows, HearingShows, ContactShows DEF Hearing
<1>4. ASSUME NEW c \in Conns, SocketSteps(c) PROVE ShowInv'
  BY <1>4, AcquireShows, SetShows, SayShows, ReleaseShows, FinishShows DEF SocketSteps
<1>5. ASSUME NEW g \in Controllers, Control(g) \/ Listening(g) PROVE ShowInv'
  <2>1. UNCHANGED <<target, conn, window, crossed>>
    BY <1>5 DEF Control, Listening, TakeUpdate, TakeTarget, TakeShutdown, StartListener, ListenerStops,
                UnchangedButControllers
  <2> QED BY <1>0, <2>1
<1>6. ASSUME Events PROVE ShowInv'
  BY <1>6, EventShows
<1>7. ASSUME ChangeMode PROVE ShowInv'
  BY <1>0, <1>7 DEF ChangeMode
<1> QED BY <1>1, <1>2, <1>3, <1>4, <1>5, <1>6, <1>7 DEF WsjtXNext, Events

(* At rest nothing is to be broadcast, asked or heard.                      *)
LEMMA ShowInvShows == ContactInv /\ ShowInv => WindowsShowTheTarget
<1> SUFFICES ASSUME ContactInv, ShowInv, WsjtXAtRest, ~crossed,
                    NEW w \in Loggers, window[w].link # 0
             PROVE  window[w].shown = (target = w)
  BY DEF WindowsShowTheTarget
<1>1. LinkOf(w) \in Conns
  BY LinkIsAConn
<1>2. ~SayPending /\ conn[LinkOf(w)].state = "open" /\ conn[LinkOf(w)].up = <<>> /\ conn[LinkOf(w)].told = <<>>
  <2>1. ~SayPending
    BY DEF WsjtXAtRest, SayPending
  <2>2. conn[LinkOf(w)].state \in {"free", "open"} /\ conn[LinkOf(w)].state \in {"joining", "open"}
    BY <1>1 DEF WsjtXAtRest, ShowInv, WillShow
  <2> QED BY <1>1, <2>1, <2>2 DEF WsjtXAtRest
<1> QED BY <1>2 DEF ShowInv, WillShow, ShowsLast

-----------------------------------------------------------------------------
(* The listener of the target.                                              *)

ListenerStates == {"off", "starting", "bound", "ended", "closing", "aborting"}
IsController(k) ==
  k \in [state : {k.state}, data : BOOLEAN, wrong : BOOLEAN, dirty : BOOLEAN,
         updates : Seq(BOOLEAN), udp : ListenerStates]

ListenTypes ==
  /\ inData \in BOOLEAN
  /\ refs = [w \in Loggers |-> refs[w]]
  /\ controller = [g \in Controllers |-> controller[g]]
  /\ \A g \in Controllers : IsController(controller[g])
  /\ \A c \in Conns : conn[c].data \in BOOLEAN

(* The registrations are those of the connections that are open.            *)
Opened(c) == IF conn[c].state = "open" THEN 1 ELSE 0
Counted == \A w \in Loggers : refs[w] = Opened(<<w, 1>>) + Opened(<<w, 2>>)

TargetIsOpen == target = NoLogger \/ \E c \in Conns : OwnerOf(c) = target /\ conn[c].state = "open"

IsLive(g) == controller[g].state = "live"
AnyOpen == \E c \in Conns : conn[c].state = "open"
LiveWhileOpen ==
  /\ \A g, h \in Controllers : IsLive(g) /\ IsLive(h) => g = h
  /\ (\E g \in Controllers : IsLive(g)) <=> AnyOpen

(* The controller of the entry has the mode of the radio, or will be told;  *)
(* and it listens for its target, or has been woken.                        *)
KnowsTheMode(k, mode) ==
  IF k.updates = <<>> THEN k.wrong \/ k.data = mode ELSE k.updates[Len(k.updates)] = mode
Attends(k, t, mode) ==
  k.state = "live" =>
    /\ KnowsTheMode(k, mode)
    /\ k.dirty \/ t = NoLogger \/ ~k.data \/ k.udp \in {"starting", "bound", "ended"}

ListenInv ==
  /\ ListenTypes /\ Counted /\ TargetIsOpen /\ LiveWhileOpen
  /\ \A g \in Controllers : Attends(controller[g], target, inData)

LEMMA PairsOf ==
  /\ \A c \in Conns : /\ OwnerOf(c) \in Loggers
                      /\ c = <<OwnerOf(c), 1>> \/ c = <<OwnerOf(c), 2>>
  /\ \A w \in Loggers : \A i \in 1..2 : <<w, i>> \in Conns /\ OwnerOf(<<w, i>>) = w
  /\ \A w \in Loggers : <<w, 1>> # <<w, 2>>
BY DEF Conns, OwnerOf

(* A window is registered while one of its connections is open.             *)
RefsTell ==
  /\ \A w \in Loggers : refs[w] \in 0..2
  /\ \A w \in Loggers : refs[w] = 0 <=> \A c \in Conns : OwnerOf(c) = w => conn[c].state # "open"
  /\ Registered <=> AnyOpen

LEMMA RegisteredWhileOpen == Counted => RefsTell
<1> SUFFICES ASSUME Counted PROVE RefsTell
  OBVIOUS
<1>1. \A w \in Loggers : refs[w] \in 0..2
  <2> SUFFICES ASSUME NEW w \in Loggers PROVE refs[w] \in 0..2
    OBVIOUS
  <2> DEFINE x == Opened(<<w, 1>>)
             y == Opened(<<w, 2>>)
  <2>1. x \in {0, 1} /\ y \in {0, 1}
    BY DEF Opened
  <2>2. refs[w] = x + y
    BY DEF Counted
  <2> HIDE DEF x, y
  <2> QED BY <2>1, <2>2
<1>2. ASSUME NEW w \in Loggers
      PROVE  refs[w] = 0 <=> \A c \in Conns : OwnerOf(c) = w => conn[c].state # "open"
  <2> DEFINE a == <<w, 1>>
             b == <<w, 2>>
  <2>1. a \in Conns /\ b \in Conns /\ OwnerOf(a) = w /\ OwnerOf(b) = w
    BY PairsOf
  <2>2. \A c \in Conns : OwnerOf(c) = w => c = a \/ c = b
    BY PairsOf
  <2>3. refs[w] = Opened(a) + Opened(b)
    BY DEF Counted
  <2> HIDE DEF a, b
  <2> QED BY <2>1, <2>2, <2>3 DEF Opened
<1>3. Registered <=> AnyOpen
  <2>1. AnyOpen => Registered
    <3> SUFFICES ASSUME NEW c \in Conns, conn[c].state = "open" PROVE Registered
      BY DEF AnyOpen
    <3>1. OwnerOf(c) \in Loggers
      BY PairsOf
    <3>2. refs[OwnerOf(c)] # 0
      BY <1>2, <3>1
    <3> QED BY <1>1, <3>1, <3>2 DEF Registered
  <2>2. Registered => AnyOpen
    <3> SUFFICES ASSUME NEW w \in Loggers, refs[w] > 0 PROVE AnyOpen
      BY DEF Registered
    <3> QED BY <1>1, <1>2 DEF AnyOpen
  <2> QED BY <2>1, <2>2
<1> QED BY <1>1, <1>2, <1>3 DEF RefsTell

(* Connections stay open, or not.                                           *)
LEMMA AllStillListen ==
  ASSUME ListenInv, UNCHANGED <<target, refs, controller, inData>>,
         \A c \in Conns : /\ conn'[c].state = "open" <=> conn[c].state = "open"
                          /\ conn'[c].data \in BOOLEAN
  PROVE  ListenInv'
<1>1. Counted'
  <2> SUFFICES ASSUME NEW w \in Loggers PROVE refs'[w] = Opened(<<w, 1>>)' + Opened(<<w, 2>>)'
    BY DEF Counted
  <2>1. <<w, 1>> \in Conns /\ <<w, 2>> \in Conns
    BY PairsOf
  <2>2. Opened(<<w, 1>>)' = Opened(<<w, 1>>) /\ Opened(<<w, 2>>)' = Opened(<<w, 2>>)
    BY <2>1 DEF Opened
  <2> QED BY <2>2 DEF ListenInv, Counted
<1>2. TargetIsOpen'
  BY DEF ListenInv, TargetIsOpen
<1>3. LiveWhileOpen'
  BY DEF ListenInv, LiveWhileOpen, IsLive, AnyOpen
<1> QED BY <1>1, <1>2, <1>3 DEF ListenInv, ListenTypes

(* What a window does changes no registration.                              *)
LEMMA WindowsListen ==
  ASSUME ContactInv, ListenInv, NEW w \in Loggers,
         (\E on \in BOOLEAN : SetWsjtXTarget(w, on)) \/ OpenRadioSocket(w) \/ LoseRadioSocket(w) \/ Hearing(w)
  PROVE  ListenInv'
<1>1. /\ conn = [d \in Conns |-> conn[d]] /\ \A c \in Conns : IsConn(conn[c]) /\ conn[c].data \in BOOLEAN
      /\ inData \in BOOLEAN
  BY DEF ContactInv, ContactTypes, ListenInv, ListenTypes
<1>2. UNCHANGED <<target, refs, controller, inData>>
  BY DEF SetWsjtXTarget, OpenRadioSocket, LoseRadioSocket, Hearing, HearTarget, HearContact
<1>3. CASE OpenRadioSocket(w)
  <2>1. PICK i \in 1..2 :
          /\ conn[<<w, i>>].state = "free"
          /\ conn' = [conn EXCEPT ![<<w, i>>] =
                       [Free EXCEPT !.state = "joining", !.data = inData,
                                    !.up = IF window[w].intent THEN <<TRUE>> ELSE <<>>]]
    BY <1>3 DEF OpenRadioSocket
  <2> DEFINE c == <<w, i>>
             up == IF window[w].intent THEN <<TRUE>> ELSE <<>>
  <2>2. c \in Conns
    BY PairsOf
  <2> HIDE DEF up
  <2>3. conn' = [conn EXCEPT ![c] = [Free EXCEPT !.state = "joining", !.data = inData, !.up = up]]
    BY <2>1 DEF up
  <2>4. conn[c].state = "free"
    BY <2>1
  <2> HIDE DEF c
  <2>5. conn'[c].state = "joining" /\ conn'[c].data = inData /\ \A d \in Conns \ {c} : conn'[d] = conn[d]
    BY <1>1, <2>2, <2>3 DEF Free
  <2> QED BY <1>1, <1>2, <2>2, <2>4, <2>5, AllStillListen
<1>4. ASSUME window[w].link # 0,
             \A d \in Conns : conn'[d].state = conn[d].state /\ conn'[d].data = conn[d].data
      PROVE  ListenInv'
  BY <1>1, <1>2, <1>4, AllStillListen
<1> DEFINE c == LinkOf(w)
<1>5. window[w].link # 0 => c \in Conns
  BY LinkIsAConn
<1>6. ASSUME NEW on \in BOOLEAN, SetWsjtXTarget(w, on) PROVE ListenInv'
  <2>1. conn' = Post(w, on)
    BY <1>6 DEF SetWsjtXTarget
  <2>2. CASE window[w].link = 0
    <3>1. conn' = conn
      BY <2>1, <2>2 DEF Post
    <3> QED BY <1>1, <1>2, <3>1, AllStillListen
  <2>3. CASE window[w].link # 0
    <3>1. conn' = [conn EXCEPT ![c].up = Append(@, on)]
      BY <2>1, <2>3 DEF Post
    <3> HIDE DEF c
    <3>2. \A d \in Conns : conn'[d].state = conn[d].state /\ conn'[d].data = conn[d].data
      BY <1>1, <1>5, <2>3, <3>1 DEF IsConn
    <3> QED BY <1>4, <2>3, <3>2
  <2> QED BY <2>2, <2>3
<1>7. CASE LoseRadioSocket(w)
  <2>1. window[w].link # 0 /\ conn' = [conn EXCEPT ![c] = [@ EXCEPT !.gone = TRUE, !.told = <<>>,
                                           !.events = <<>>, !.contacts = <<>>]]
    BY <1>7 DEF LoseRadioSocket
  <2> HIDE DEF c
  <2>2. \A d \in Conns : conn'[d].state = conn[d].state /\ conn'[d].data = conn[d].data
    BY <1>1, <1>5, <2>1 DEF IsConn
  <2> QED BY <1>4, <2>1, <2>2
<1>8. CASE HearTarget(w)
  <2> DEFINE b == Head(conn[c].told) = NoLogger /\ window[w].intent
  <2>1. window[w].link # 0 /\ conn' = [conn EXCEPT ![c].told = Tail(@),
                                                  ![c].up = IF b THEN Append(@, TRUE) ELSE @]
    BY <1>8 DEF HearTarget
  <2> HIDE DEF b, c
  <2>2. \A d \in Conns : conn'[d].state = conn[d].state /\ conn'[d].data = conn[d].data
    BY <1>1, <1>5, <2>1 DEF IsConn
  <2> QED BY <1>4, <2>1, <2>2
<1>9. CASE HearContact(w)
  <2>1. window[w].link # 0 /\ conn' = [conn EXCEPT ![c].contacts = Tail(@)]
    BY <1>9 DEF HearContact
  <2> HIDE DEF c
  <2>2. \A d \in Conns : conn'[d].state = conn[d].state /\ conn'[d].data = conn[d].data
    BY <1>1, <1>5, <2>1 DEF IsConn
  <2> QED BY <1>4, <2>1, <2>2
<1> QED BY <1>3, <1>6, <1>7, <1>8, <1>9 DEF Hearing

(* A registration comes or goes with the connection that opens or closes.   *)
LEMMA CountedOn ==
  ASSUME Counted, NEW c \in Conns, NEW d \in Int,
         \A e \in Conns \ {c} : conn'[e].state = conn[e].state,
         Opened(c)' = Opened(c) + d,
         refs = [w \in Loggers |-> refs[w]],
         refs' = [refs EXCEPT ![OwnerOf(c)] = @ + d]
  PROVE  Counted' /\ refs' = [w \in Loggers |-> refs'[w]]
<1>1. ASSUME NEW w \in Loggers PROVE refs'[w] = Opened(<<w, 1>>)' + Opened(<<w, 2>>)'
  <2> DEFINE a == <<w, 1>>
             b == <<w, 2>>
  <2>1. /\ a \in Conns /\ b \in Conns /\ a # b /\ OwnerOf(a) = w /\ OwnerOf(b) = w
        /\ OwnerOf(c) \in Loggers /\ (OwnerOf(c) = w => c = a \/ c = b)
    BY PairsOf
  <2>2. refs[w] = Opened(a) + Opened(b)
    BY DEF Counted
  <2>3. \A e : Opened(e) \in {0, 1} /\ Opened(e)' \in {0, 1}
    BY DEF Opened
  <2>4. \A e \in Conns \ {c} : Opened(e)' = Opened(e)
    BY DEF Opened
  <2>5. refs'[w] = IF OwnerOf(c) = w THEN refs[w] + d ELSE refs[w]
    BY <2>1
  <2> HIDE DEF a, b
  <2>6. refs'[w] = Opened(a)' + Opened(b)'
    <3>1. CASE c = a
      BY <2>1, <2>2, <2>3, <2>4, <2>5, <3>1
    <3>2. CASE c = b
      BY <2>1, <2>2, <2>3, <2>4, <2>5, <3>2
    <3>3. CASE c # a /\ c # b
      BY <2>1, <2>2, <2>3, <2>4, <2>5, <3>3
    <3> QED BY <3>1, <3>2, <3>3
  <2> QED BY <2>6 DEF a, b
<1> QED BY <1>1 DEF Counted

LEMMA RegisteredWhileOpenAfter == Counted' => RefsTell'
<1>1. Counted => RefsTell
  BY RegisteredWhileOpen
<1> QED BY <1>1, PTL

LEMMA AcquireListens ==
  ASSUME ContactInv, ListenInv, NEW c \in Conns, AcquireListener(c)
  PROVE  ListenInv'
<1>1. /\ conn = [d \in Conns |-> conn[d]] /\ IsConn(conn[c]) /\ \A d \in Conns : conn[d].data \in BOOLEAN
      /\ conn[c].state = "joining" /\ inData \in BOOLEAN
      /\ refs = [w \in Loggers |-> refs[w]] /\ controller = [g \in Controllers |-> controller[g]]
  BY DEF ContactInv, ContactTypes, ListenInv, ListenTypes, AcquireListener
<1>2. /\ refs' = [refs EXCEPT ![OwnerOf(c)] = @ + 1]
      /\ conn' = [conn EXCEPT ![c].state = "open", ![c].data = FALSE,
                              ![c].told = IF conn[c].gone THEN <<>> ELSE <<target>> \o @]
      /\ UNCHANGED <<target, inData>>
  BY DEF AcquireListener
<1>3. /\ conn'[c].state = "open" /\ conn'[c].data = FALSE
      /\ \A d \in Conns \ {c} : conn'[d] = conn[d]
  BY <1>1, <1>2 DEF IsConn
<1>4. Counted' /\ refs' = [w \in Loggers |-> refs'[w]]
  <2>1. Opened(c) = 0 /\ Opened(c)' = 1
    BY <1>1, <1>3 DEF Opened
  <2>2. Opened(c)' = Opened(c) + 1 /\ 1 \in Int
    BY <2>1
  <2>3. \A e \in Conns \ {c} : conn'[e].state = conn[e].state
    BY <1>3
  <2> QED BY <1>1, <1>2, <2>2, <2>3, CountedOn DEF ListenInv
<1>5. TargetIsOpen' /\ AnyOpen'
  <2>1. TargetIsOpen
    BY DEF ListenInv
  <2> QED BY <1>1, <1>2, <1>3, <2>1 DEF TargetIsOpen, AnyOpen
<1>6. Registered <=> AnyOpen
  BY RegisteredWhileOpen DEF ListenInv, RefsTell
<1>7. \A d \in Conns : conn'[d].data \in BOOLEAN
  BY <1>1, <1>3
<1>8. CASE Registered
  <2>1. UNCHANGED controller
    BY <1>8 DEF AcquireListener
  <2>2. LiveWhileOpen'
    BY <1>5, <1>6, <1>8, <2>1 DEF ListenInv, LiveWhileOpen, IsLive
  <2> QED BY <1>2, <1>4, <1>5, <1>7, <2>1, <2>2 DEF ListenInv, ListenTypes
<1>9. CASE ~Registered
  <2>1. PICK g \in Controllers :
          /\ controller[g].state = "none"
          /\ controller' = [controller EXCEPT ![g] =
                              [NoController EXCEPT !.state = "live", !.data = conn[c].data,
                                                   !.wrong = conn[c].data # inData]]
    BY <1>9 DEF AcquireListener
  <2>2. target = NoLogger /\ \A h \in Controllers : ~IsLive(h)
    BY <1>6, <1>9 DEF ListenInv, TargetIsOpen, AnyOpen, LiveWhileOpen
  <2>3. /\ controller'[g].state = "live" /\ controller'[g].data = conn[c].data
        /\ controller'[g].wrong = (conn[c].data # inData) /\ controller'[g].updates = <<>>
        /\ \A h \in Controllers \ {g} : controller'[h] = controller[h]
        /\ IsController(controller'[g])
    <3>1. /\ controller'[g] = [NoController EXCEPT !.state = "live", !.data = conn[c].data,
                                                   !.wrong = conn[c].data # inData]
          /\ \A h \in Controllers \ {g} : controller'[h] = controller[h]
      BY <1>1, <2>1
    <3> QED BY <1>1, <3>1, EmptySeqs DEF NoController, IsController, ListenerStates
  <2>4. controller' = [h \in Controllers |-> controller'[h]]
    BY <1>1, <2>1
  <2>5. KnowsTheMode(controller'[g], inData)
    BY <1>1, <2>3 DEF KnowsTheMode
  <2>6. \A h \in Controllers : Attends(controller'[h], target', inData')
    BY <1>2, <2>2, <2>3, <2>5 DEF ListenInv, Attends, IsLive
  <2>7. LiveWhileOpen'
    BY <1>5, <2>2, <2>3 DEF LiveWhileOpen, IsLive
  <2>8. ListenTypes'
    BY <1>2, <1>4, <1>7, <2>3, <2>4 DEF ListenInv, ListenTypes
  <2> QED BY <1>4, <1>5, <2>6, <2>7, <2>8 DEF ListenInv
<1> QED BY <1>8, <1>9

(* The controller of the entry is woken when the target changes.            *)
LEMMA TouchIsHeeded ==
  ASSUME ListenInv, NEW changed \in BOOLEAN, NEW t, t # target /\ t # NoLogger => changed,
         NEW ctls, ctls = Touch(controller, changed)
  PROVE  /\ ctls = [g \in Controllers |-> ctls[g]]
         /\ \A g \in Controllers : /\ IsController(ctls[g]) /\ Attends(ctls[g], t, inData)
                                   /\ ctls[g].state = controller[g].state
<1>1. ASSUME NEW g \in Controllers
      PROVE  /\ IsController(ctls[g]) /\ Attends(ctls[g], t, inData)
             /\ ctls[g].state = controller[g].state
  <2>1. IsController(controller[g]) /\ Attends(controller[g], target, inData)
    BY DEF ListenInv, ListenTypes
  <2>2. ctls[g] = IF controller[g].state = "live" THEN [controller[g] EXCEPT !.dirty = @ \/ changed]
                  ELSE controller[g]
    BY DEF Touch
  <2> DEFINE k == controller[g]
             l == ctls[g]
  <2>3. CASE k.state = "live"
    <3>1. /\ l.state = k.state /\ l.data = k.data /\ l.wrong = k.wrong /\ l.updates = k.updates
          /\ l.udp = k.udp /\ l.dirty = (k.dirty \/ changed)
          /\ IsController(l)
      BY <2>1, <2>2, <2>3 DEF IsController
    <3>2. KnowsTheMode(l, inData)
      BY <2>1, <2>3, <3>1 DEF Attends, KnowsTheMode
    <3>3. k.dirty \/ target = NoLogger \/ ~k.data \/ k.udp \in {"starting", "bound", "ended"}
      BY <2>1, <2>3 DEF Attends
    <3> HIDE DEF k, l
    <3>4. l.dirty \/ t = NoLogger \/ ~l.data \/ l.udp \in {"starting", "bound", "ended"}
      BY <3>1, <3>3
    <3> QED BY <3>1, <3>2, <3>4 DEF Attends, k, l
  <2>4. CASE k.state # "live"
    BY <2>1, <2>2, <2>4 DEF Attends
  <2> QED BY <2>3, <2>4
<1>2. ctls = [g \in Controllers |-> ctls[g]]
  BY DEF Touch
<1> QED BY <1>1, <1>2

LEMMA SetListens ==
  ASSUME ContactInv, ListenInv, NEW c \in Conns, SetTarget(c)
  PROVE  ListenInv'
<1>1. /\ conn = [d \in Conns |-> conn[d]] /\ IsConn(conn[c]) /\ \A d \in Conns : conn[d].data \in BOOLEAN
      /\ conn[c].state = "open"
  BY DEF ContactInv, ContactTypes, ListenInv, ListenTypes, SetTarget
<1>2. /\ target' = TargetAfter(target, OwnerOf(c), Head(conn[c].up))
      /\ controller' = Touch(controller, target' # target)
      /\ conn' = [conn EXCEPT ![c].up = Tail(@), ![c].say = target']
      /\ UNCHANGED <<refs, inData>>
  BY DEF SetTarget
<1>3. \A d \in Conns : conn'[d].state = conn[d].state /\ conn'[d].data = conn[d].data
  BY <1>1, <1>2 DEF IsConn
<1>4. target' \in {OwnerOf(c), NoLogger, target}
  BY <1>2 DEF TargetAfter
<1>5. TargetIsOpen'
  BY <1>1, <1>3, <1>4 DEF ListenInv, TargetIsOpen
<1>6. /\ controller' = [g \in Controllers |-> controller'[g]]
      /\ \A g \in Controllers : /\ IsController(controller'[g]) /\ Attends(controller'[g], target', inData)
                                /\ controller'[g].state = controller[g].state
  <2> DEFINE changed == target' # target
  <2>1. changed \in BOOLEAN /\ (target' # target /\ target' # NoLogger => changed)
    OBVIOUS
  <2>2. controller' = Touch(controller, changed)
    BY <1>2
  <2> HIDE DEF changed
  <2> QED BY <2>1, <2>2, TouchIsHeeded
<1>7. LiveWhileOpen'
  BY <1>3, <1>6 DEF ListenInv, LiveWhileOpen, IsLive, AnyOpen
<1>8. Counted'
  <2> SUFFICES ASSUME NEW w \in Loggers PROVE refs'[w] = Opened(<<w, 1>>)' + Opened(<<w, 2>>)'
    BY DEF Counted
  <2>1. Opened(<<w, 1>>)' = Opened(<<w, 1>>) /\ Opened(<<w, 2>>)' = Opened(<<w, 2>>)
    BY <1>3, PairsOf DEF Opened
  <2> QED BY <1>2, <2>1 DEF ListenInv, Counted
<1> QED BY <1>1, <1>2, <1>3, <1>5, <1>6, <1>7, <1>8 DEF ListenInv, ListenTypes

(* The first of a window's connections leaves, or the last, or the last of  *)
(* all windows.                                                             *)
LEMMA ReleaseListens ==
  ASSUME ContactInv, ListenInv, NEW c \in Conns, ReleaseListener(c)
  PROVE  ListenInv'
<1> DEFINE w == OwnerOf(c)
           clears == ClearsTarget(w)
           ends == \A v \in Loggers : refs'[v] = 0
           live == CHOOSE g \in Controllers : controller[g].state = "live"
           touched == Touch(controller, clears)
<1>1. /\ conn[c].state = "open"
      /\ refs' = [refs EXCEPT ![w] = @ - 1]
      /\ target' = IF clears THEN NoLogger ELSE target
      /\ controller' = IF ends THEN [touched EXCEPT ![live].state = "closing"] ELSE touched
      /\ conn' = [conn EXCEPT ![c] = [Free EXCEPT !.state = "leaving",
                      !.say = IF clears THEN NoLogger ELSE NoWord, !.waits = IF ends THEN live ELSE 0]]
      /\ UNCHANGED inData
  BY DEF ReleaseListener
<1>2. /\ conn = [d \in Conns |-> conn[d]] /\ \A d \in Conns : conn[d].data \in BOOLEAN
      /\ refs = [v \in Loggers |-> refs[v]] /\ w \in Loggers
  BY PairsOf DEF ContactInv, ContactTypes, ListenInv, ListenTypes
<1>3. conn'[c].state = "leaving" /\ conn'[c].data = FALSE /\ \A d \in Conns \ {c} : conn'[d] = conn[d]
  <2> HIDE DEF clears, ends, live
  <2> QED BY <1>1, <1>2 DEF Free
<1>4. Counted' /\ refs' = [v \in Loggers |-> refs'[v]]
  <2>1. Opened(c) = 1 /\ Opened(c)' = 0
    BY <1>1, <1>3 DEF Opened
  <2>2. Opened(c)' = Opened(c) + (-1) /\ -1 \in Int
    BY <2>1
  <2>3. \A e \in Conns \ {c} : conn'[e].state = conn[e].state
    BY <1>3
  <2>4. refs[w] \in 0..2
    BY <1>2, RegisteredWhileOpen DEF ListenInv, RefsTell
  <2>5. refs' = [refs EXCEPT ![w] = @ + (-1)]
    BY <1>1, <2>4
  <2> QED BY <1>2, <2>2, <2>3, <2>5, CountedOn DEF ListenInv
<1>5. ends <=> ~AnyOpen'
  <2>1. /\ \A v \in Loggers : refs'[v] \in 0..2
        /\ Registered' <=> AnyOpen'
    BY <1>4, RegisteredWhileOpenAfter DEF RefsTell
  <2> QED BY <2>1 DEF Registered
<1>6. TargetIsOpen'
  <2>1. CASE clears
    BY <1>1, <2>1 DEF TargetIsOpen
  <2>2. CASE ~clears /\ target # w
    <3>1. \A d \in Conns : OwnerOf(d) = target => d # c
      BY <2>2
    <3> QED BY <1>1, <1>3, <2>2, <3>1 DEF TargetIsOpen, ListenInv
  <2>3. CASE ~clears /\ target = w
    <3>1. refs[w] # 1 /\ refs[w] \in 0..2 /\ refs[w] # 0
      BY <1>1, <1>2, <2>3, RegisteredWhileOpen DEF ClearsTarget, ListenInv, RefsTell
    <3>2. refs'[w] # 0
      BY <1>1, <1>2, <3>1
    <3>3. \E d \in Conns : OwnerOf(d) = w /\ conn'[d].state = "open"
      BY <1>2, <1>4, <3>2, RegisteredWhileOpenAfter DEF RefsTell
    <3> QED BY <1>1, <2>3, <3>3 DEF TargetIsOpen
  <2> QED BY <2>1, <2>2, <2>3
<1>7. /\ touched = [g \in Controllers |-> touched[g]]
      /\ \A g \in Controllers : /\ IsController(touched[g]) /\ Attends(touched[g], target', inData)
                                /\ touched[g].state = controller[g].state
  <2>1. clears \in BOOLEAN /\ (target' # target /\ target' # NoLogger => clears)
    BY <1>1 DEF ClearsTarget
  <2> DEFINE t == target'
  <2> HIDE DEF clears, t
  <2>2. t # target /\ t # NoLogger => clears
    BY <2>1 DEF t
  <2> QED BY <2>1, <2>2, TouchIsHeeded DEF t
<1>8. live \in Controllers /\ \A g \in Controllers : IsLive(g) => g = live
  <2>1. AnyOpen
    BY <1>1 DEF AnyOpen
  <2>2. \E g \in Controllers : controller[g].state = "live"
    BY <2>1 DEF ListenInv, LiveWhileOpen, IsLive
  <2>3. live \in Controllers /\ IsLive(live)
    BY <2>2 DEF IsLive
  <2> HIDE DEF live
  <2> QED BY <2>3 DEF ListenInv, LiveWhileOpen
<1> HIDE DEF touched, live, clears, w
<1>9. CASE ends
  <2>1. controller' = [touched EXCEPT ![live].state = "closing"]
    BY <1>1, <1>9
  <2>2. /\ controller' = [g \in Controllers |-> controller'[g]]
        /\ \A g \in Controllers : IsController(controller'[g]) /\ controller'[g].state # "live"
    <3>1. controller' = [g \in Controllers |-> controller'[g]]
      BY <1>7, <2>1
    <3>2. /\ controller'[live] = [touched[live] EXCEPT !.state = "closing"]
          /\ \A g \in Controllers \ {live} : controller'[g] = touched[g]
      BY <1>7, <1>8, <2>1
    <3>3. IsController(controller'[live]) /\ controller'[live].state # "live"
      BY <1>7, <1>8, <3>2 DEF IsController
    <3>4. \A g \in Controllers \ {live} : controller'[g].state # "live"
      BY <1>7, <1>8, <3>2 DEF IsLive
    <3> QED BY <1>7, <3>1, <3>2, <3>3, <3>4
  <2>3. LiveWhileOpen'
    BY <1>5, <1>9, <2>2 DEF LiveWhileOpen, IsLive
  <2>4. \A g \in Controllers : Attends(controller'[g], target', inData')
    BY <2>2 DEF Attends
  <2>5. ListenTypes'
    BY <1>1, <1>2, <1>3, <1>4, <2>2 DEF ListenInv, ListenTypes
  <2> QED BY <1>4, <1>6, <2>3, <2>4, <2>5 DEF ListenInv
<1>10. CASE ~ends
  <2>1. controller' = touched
    BY <1>1, <1>10
  <2>2. AnyOpen
    BY <1>1 DEF AnyOpen
  <2>3. LiveWhileOpen'
    BY <1>5, <1>7, <1>10, <2>1, <2>2 DEF ListenInv, LiveWhileOpen, IsLive
  <2>4. ListenTypes'
    BY <1>1, <1>2, <1>3, <1>4, <1>7, <2>1 DEF ListenInv, ListenTypes
  <2> QED BY <1>1, <1>4, <1>6, <1>7, <2>1, <2>3, <2>4 DEF ListenInv
<1> QED BY <1>9, <1>10

LEMMA SayListens ==
  ASSUME ContactInv, ListenInv, NEW c \in Conns, SayTarget(c)
  PROVE  ListenInv'
<1>1. ASSUME NEW d \in Conns PROVE conn'[d].state = conn[d].state /\ conn'[d].data \in BOOLEAN
  <2>1. IsConn(conn[d]) /\ conn[d].data \in BOOLEAN
    BY DEF ContactInv, ContactTypes, ListenInv, ListenTypes
  <2> DEFINE word == conn[c].say
  <2>2. conn'[d] = LET hears == IF Hears(d) THEN [conn[d] EXCEPT !.told = Append(@, word)] ELSE conn[d]
                   IN IF d = c THEN [hears EXCEPT !.say = NoWord] ELSE hears
    BY DEF SayTarget
  <2> HIDE DEF word
  <2>3. CASE Hears(d)
    BY <2>1, <2>2, <2>3 DEF IsConn
  <2>4. CASE ~Hears(d)
    BY <2>1, <2>2, <2>4 DEF IsConn
  <2> QED BY <2>3, <2>4
<1>2. UNCHANGED <<target, refs, controller, inData>>
  BY DEF SayTarget
<1> QED BY <1>1, <1>2, AllStillListen

LEMMA EventListens ==
  ASSUME ContactInv, ListenInv, Events
  PROVE  ListenInv'
<1>1. \A d \in Conns : conn[d].data \in BOOLEAN
  BY DEF ListenInv, ListenTypes
<1> QED BY <1>1, EventsKeep, AllStillListen

LEMMA FinishListens ==
  ASSUME ContactInv, ListenInv, NEW c \in Conns, FinishRelease(c)
  PROVE  ListenInv'
<1> DEFINE g == conn[c].waits
<1>1. /\ conn[c].state = "leaving" /\ UNCHANGED <<target, refs, inData>>
      /\ \/ g # 0 /\ controller[g].state = "closing" /\ UNCHANGED conn
            /\ controller' = [controller EXCEPT ![g].state = "shut"]
         \/ /\ g # 0 => controller[g].state = "done"
            /\ conn' = [conn EXCEPT ![c] = Free]
            /\ controller' = IF g = 0 THEN controller ELSE [controller EXCEPT ![g] = NoController]
  BY DEF FinishRelease
<1>2. /\ conn = [d \in Conns |-> conn[d]] /\ \A d \in Conns : conn[d].data \in BOOLEAN
      /\ controller = [h \in Controllers |-> controller[h]]
      /\ \A h \in Controllers : IsController(controller[h]) /\ Attends(controller[h], target, inData)
  BY DEF ContactInv, ContactTypes, ListenInv, ListenTypes
<1> HIDE DEF g
<1>3. \A d \in Conns : /\ conn'[d].state = "open" <=> conn[d].state = "open"
                       /\ conn'[d].data \in BOOLEAN
  <2>1. Free.state = "free" /\ Free.data = FALSE
    BY DEF Free
  <2>2. CASE UNCHANGED conn
    BY <1>2, <2>2
  <2>3. CASE conn' = [conn EXCEPT ![c] = Free]
    <3>1. \A d \in Conns : conn'[d] = IF d = c THEN Free ELSE conn[d]
      BY <1>2, <2>3
    <3> QED BY <1>1, <1>2, <2>1, <3>1
  <2> QED BY <1>1, <2>2, <2>3
<1>4. /\ controller' = [h \in Controllers |-> controller'[h]]
      /\ \A h \in Controllers : /\ IsController(controller'[h])
                                /\ \/ controller'[h] = controller[h]
                                   \/ controller[h].state # "live" /\ controller'[h].state # "live"
  <2>1. IsController(NoController)
    BY EmptySeqs DEF NoController, IsController, ListenerStates
  <2>2. CASE g # 0 /\ controller[g].state = "closing" /\ controller' = [controller EXCEPT ![g].state = "shut"]
    <3>1. controller' = [h \in Controllers |-> controller'[h]]
      BY <1>2, <2>2
    <3>2. \A h \in Controllers : controller'[h] = IF h = g THEN [controller[h] EXCEPT !.state = "shut"]
                                                  ELSE controller[h]
      BY <1>2, <2>2
    <3> QED BY <1>2, <2>2, <3>1, <3>2 DEF IsController
  <2>3. CASE g # 0 /\ controller[g].state = "done" /\ controller' = [controller EXCEPT ![g] = NoController]
    <3>1. controller' = [h \in Controllers |-> controller'[h]]
      BY <1>2, <2>3
    <3>2. \A h \in Controllers : controller'[h] = IF h = g THEN NoController ELSE controller[h]
      BY <1>2, <2>3
    <3>3. NoController.state # "live"
      BY DEF NoController
    <3> QED BY <1>2, <2>1, <2>3, <3>1, <3>2, <3>3
  <2>4. CASE controller' = controller
    BY <1>2, <2>4
  <2> QED BY <1>1, <2>2, <2>3, <2>4
<1>5. LiveWhileOpen'
  BY <1>3, <1>4 DEF ListenInv, LiveWhileOpen, IsLive, AnyOpen
<1>6. Counted'
  <2> SUFFICES ASSUME NEW w \in Loggers PROVE refs'[w] = Opened(<<w, 1>>)' + Opened(<<w, 2>>)'
    BY DEF Counted
  <2>1. Opened(<<w, 1>>)' = Opened(<<w, 1>>) /\ Opened(<<w, 2>>)' = Opened(<<w, 2>>)
    BY <1>3, PairsOf DEF Opened
  <2> QED BY <1>1, <2>1 DEF ListenInv, Counted
<1>7. TargetIsOpen'
  BY <1>1, <1>3 DEF ListenInv, TargetIsOpen
<1>8. \A h \in Controllers : Attends(controller'[h], target', inData')
  <2> SUFFICES ASSUME NEW h \in Controllers PROVE Attends(controller'[h], target, inData)
    BY <1>1
  <2> QED BY <1>2, <1>4 DEF Attends
<1>9. ListenTypes'
  BY <1>1, <1>3, <1>4 DEF ListenInv, ListenTypes
<1> QED BY <1>5, <1>6, <1>7, <1>8, <1>9 DEF ListenInv

(* One controller moves on, and stays live or does not become it.           *)
LEMMA OneListens ==
  ASSUME ListenInv, NEW g \in Controllers, UNCHANGED <<target, refs, inData, conn>>,
         NEW new, controller' = [controller EXCEPT ![g] = new], IsController(new),
         new.state = "live" <=> controller[g].state = "live",
         new.state = "live" => Attends(new, target, inData)
  PROVE  ListenInv'
<1>1. controller = [h \in Controllers |-> controller[h]]
  BY DEF ListenInv, ListenTypes
<1>2. /\ controller'[g] = new /\ \A h \in Controllers \ {g} : controller'[h] = controller[h]
      /\ controller' = [h \in Controllers |-> controller'[h]]
  BY <1>1
<1>3. Counted' /\ TargetIsOpen'
  BY DEF ListenInv, Counted, TargetIsOpen, Opened
<1>4. LiveWhileOpen'
  BY <1>2 DEF ListenInv, LiveWhileOpen, IsLive, AnyOpen
<1>5. \A h \in Controllers : Attends(controller'[h], target', inData')
  <2>1. \A h \in Controllers : Attends(controller[h], target, inData)
    BY DEF ListenInv
  <2>2. Attends(new, target, inData)
    BY DEF Attends
  <2> QED BY <1>2, <2>1, <2>2
<1>6. ListenTypes'
  BY <1>2 DEF ListenInv, ListenTypes
<1> QED BY <1>3, <1>4, <1>5, <1>6 DEF ListenInv

(* After reconcile_listener a controller listens if it should.              *)
LEMMA ReconcileAttends ==
  ASSUME NEW g \in Controllers, NEW k, IsController(k), k.state = controller[g].state,
         k.udp \notin {"closing", "aborting"}
  PROVE  LET new == Reconcile(g, k)
         IN /\ IsController(new) /\ new.state = k.state /\ new.data = k.data /\ new.wrong = k.wrong
            /\ new.updates = k.updates /\ new.dirty = k.dirty
            /\ new.state = "live" => target = NoLogger \/ ~new.data \/ new.udp \in {"starting", "bound", "ended"}
<1> DEFINE new == Reconcile(g, k)
<1>1. CASE ListenerShouldRun(g, k)
  <2>1. new = [k EXCEPT !.udp = IF @ = "off" THEN "starting" ELSE @]
    BY <1>1 DEF Reconcile
  <2> HIDE DEF new
  <2>2. /\ IsController(new) /\ new.state = k.state /\ new.data = k.data /\ new.wrong = k.wrong
        /\ new.updates = k.updates /\ new.dirty = k.dirty
        /\ new.udp = IF k.udp = "off" THEN "starting" ELSE k.udp
    BY <2>1 DEF IsController, ListenerStates
  <2>3. k.udp \in ListenerStates
    BY DEF IsController
  <2>4. new.udp \in {"starting", "bound", "ended"}
    BY <2>2, <2>3 DEF ListenerStates
  <2> QED BY <2>2, <2>4 DEF new
<1>2. CASE ~ListenerShouldRun(g, k)
  <2> DEFINE udp == CASE k.udp = "bound" -> "closing" [] k.udp = "starting" -> "aborting" [] OTHER -> "off"
  <2>1. new = [k EXCEPT !.udp = udp]
    BY <1>2 DEF Reconcile
  <2>2. udp \in ListenerStates
    BY DEF ListenerStates
  <2> HIDE DEF new, udp
  <2>3. /\ IsController(new) /\ new.state = k.state /\ new.data = k.data /\ new.wrong = k.wrong
        /\ new.updates = k.updates /\ new.dirty = k.dirty
    BY <2>1, <2>2 DEF IsController
  <2>4. k.state = "live" => ~k.data \/ target = NoLogger
    BY <1>2 DEF ListenerShouldRun, WatchedBy
  <2> QED BY <2>3, <2>4 DEF new
<1> QED BY <1>1, <1>2

LEMMA UpdateListens ==
  ASSUME ListenInv, NEW g \in Controllers, TakeUpdate(g)
  PROVE  ListenInv'
<1> DEFINE k == controller[g]
           mode == Head(k.updates)
           read == [k EXCEPT !.updates = Tail(@), !.wrong = FALSE]
           other == [read EXCEPT !.data = mode]
           new == IF mode = read.data THEN read ELSE Reconcile(g, other)
<1>1. /\ k.updates # <<>> /\ k.udp \notin {"closing", "aborting"}
      /\ controller' = [controller EXCEPT ![g] = new]
      /\ UNCHANGED <<target, refs, inData, conn>>
  BY DEF TakeUpdate, CanRun, UnchangedButControllers
<1>2. IsController(k) /\ Attends(k, target, inData)
  BY DEF ListenInv, ListenTypes
<1>3. k.updates \in Seq(BOOLEAN)
  BY <1>2 DEF IsController
<1>4. /\ mode \in BOOLEAN /\ Tail(k.updates) \in Seq(BOOLEAN)
      /\ Tail(k.updates) = <<>> => mode = k.updates[Len(k.updates)]
      /\ Tail(k.updates) # <<>> => Tail(k.updates)[Len(Tail(k.updates))] = k.updates[Len(k.updates)]
  BY <1>1, <1>3, Reports, HeadTailProperties
<1> HIDE DEF mode
<1>5. /\ IsController(read) /\ read.state = k.state /\ read.data = k.data /\ read.wrong = FALSE
      /\ read.updates = Tail(k.updates) /\ read.dirty = k.dirty /\ read.udp = k.udp
  BY <1>2, <1>4 DEF IsController
<1>6. /\ IsController(other) /\ other.state = k.state /\ other.data = mode /\ other.wrong = FALSE
      /\ other.updates = Tail(k.updates) /\ other.dirty = k.dirty /\ other.udp = k.udp
  BY <1>2, <1>4 DEF IsController
<1> HIDE DEF read, other, k
<1>7. ASSUME NEW l, l.data = mode, l.updates = Tail(k.updates), k.state = "live"
      PROVE  KnowsTheMode(l, inData)
  <2>1. k.updates[Len(k.updates)] = inData
    BY <1>1, <1>2, <1>7 DEF Attends, KnowsTheMode
  <2> QED BY <1>4, <1>7, <2>1 DEF KnowsTheMode
<1>8. /\ IsController(new) /\ new.state = k.state
      /\ new.state = "live" => Attends(new, target, inData)
  <2>1. CASE mode = read.data
    <3>1. new = read
      BY <2>1
    <3>2. k.state = "live" => KnowsTheMode(read, inData)
      BY <1>5, <1>7, <2>1
    <3>3. k.state = "live" => k.dirty \/ target = NoLogger \/ ~k.data \/ k.udp \in {"starting", "bound", "ended"}
      BY <1>2 DEF Attends
    <3> QED BY <1>5, <3>1, <3>2, <3>3 DEF Attends
  <2>2. CASE mode # read.data
    <3>1. new = Reconcile(g, other)
      BY <2>2
    <3>2. /\ IsController(new) /\ new.state = other.state /\ new.data = other.data /\ new.wrong = other.wrong
          /\ new.updates = other.updates /\ new.dirty = other.dirty
          /\ new.state = "live" => target = NoLogger \/ ~new.data \/ new.udp \in {"starting", "bound", "ended"}
      <4>1. other.state = controller[g].state /\ other.udp \notin {"closing", "aborting"}
        BY <1>1, <1>6 DEF k
      <4> QED BY <1>6, <3>1, <4>1, ReconcileAttends
    <3> HIDE DEF new
    <3>3. k.state = "live" => KnowsTheMode(new, inData)
      BY <1>6, <1>7, <3>2
    <3> QED BY <1>6, <3>2, <3>3 DEF Attends
  <2> QED BY <2>1, <2>2
<1> HIDE DEF new
<1> QED BY <1>1, <1>8, OneListens DEF k

LEMMA WakingListens ==
  ASSUME ListenInv, NEW g \in Controllers, TakeTarget(g)
  PROVE  ListenInv'
<1> DEFINE k == controller[g]
           clean == [k EXCEPT !.dirty = FALSE]
           new == Reconcile(g, clean)
<1>1. /\ k.udp \notin {"closing", "aborting"}
      /\ controller' = [controller EXCEPT ![g] = Reconcile(g, [@ EXCEPT !.dirty = FALSE])]
      /\ UNCHANGED <<target, refs, inData, conn>>
  BY DEF TakeTarget, CanRun, UnchangedButControllers
<1>2. controller' = [controller EXCEPT ![g] = new]
  BY <1>1
<1>3. IsController(k) /\ Attends(k, target, inData)
  BY DEF ListenInv, ListenTypes
<1>4. /\ IsController(clean) /\ clean.state = k.state /\ clean.data = k.data /\ clean.wrong = k.wrong
      /\ clean.updates = k.updates /\ clean.udp = k.udp
  BY <1>3 DEF IsController
<1> HIDE DEF clean
<1>5. /\ IsController(new) /\ new.state = clean.state /\ new.data = clean.data /\ new.wrong = clean.wrong
      /\ new.updates = clean.updates
      /\ new.state = "live" => target = NoLogger \/ ~new.data \/ new.udp \in {"starting", "bound", "ended"}
  BY <1>1, <1>4, ReconcileAttends
<1> HIDE DEF new, k
<1>6. new.state = "live" => KnowsTheMode(new, inData)
  BY <1>3, <1>4, <1>5 DEF Attends, KnowsTheMode
<1> QED BY <1>1, <1>2, <1>4, <1>5, <1>6, OneListens DEF Attends, k

LEMMA ShutdownListens ==
  ASSUME ListenInv, NEW g \in Controllers, TakeShutdown(g)
  PROVE  ListenInv'
<1> DEFINE k == controller[g]
           new == CASE k.udp = "bound" -> [k EXCEPT !.udp = "closing", !.dirty = FALSE, !.updates = <<>>]
                    [] k.udp = "starting" -> [k EXCEPT !.udp = "aborting", !.dirty = FALSE, !.updates = <<>>]
                    [] OTHER -> [NoController EXCEPT !.state = "done"]
<1>1. k.state = "shut" /\ UNCHANGED <<target, refs, inData, conn>>
  BY DEF TakeShutdown, UnchangedButControllers
<1>2. controller' = [controller EXCEPT ![g] = new]
  BY DEF TakeShutdown
<1>3. IsController(k)
  BY DEF ListenInv, ListenTypes
<1>4. IsController(new) /\ new.state # "live"
  <2>1. CASE k.udp = "bound"
    BY <1>1, <1>3, <2>1, EmptySeqs DEF IsController, ListenerStates
  <2>2. CASE k.udp = "starting"
    BY <1>1, <1>3, <2>2, EmptySeqs DEF IsController, ListenerStates
  <2>3. CASE k.udp \notin {"bound", "starting"}
    <3>1. new = [NoController EXCEPT !.state = "done"]
      BY <2>3
    <3> HIDE DEF new
    <3> QED BY <3>1, EmptySeqs DEF IsController, ListenerStates, NoController
  <2> QED BY <2>1, <2>2, <2>3
<1> HIDE DEF new
<1>5. k.state # "live"
  BY <1>1
<1> QED BY <1>1, <1>2, <1>4, <1>5, OneListens

LEMMA ListeningListens ==
  ASSUME ListenInv, NEW g \in Controllers, Listening(g)
  PROVE  ListenInv'
<1>1. PICK udp \in {"bound", "ended", "off"} :
        /\ controller' = [controller EXCEPT ![g].udp = udp]
        /\ controller[g].udp = "starting" \/ controller[g].udp \in {"closing", "aborting"}
        /\ udp = "off" => controller[g].udp \in {"closing", "aborting"}
        /\ UNCHANGED <<target, refs, inData, conn>>
  <2>1. CASE StartListener(g)
    BY <2>1 DEF StartListener
  <2>2. CASE ListenerStops(g)
    BY <2>2 DEF ListenerStops, UnchangedButControllers
  <2> QED BY <2>1, <2>2 DEF Listening
<1> DEFINE k == controller[g]
           new == [k EXCEPT !.udp = udp]
<1>2. IsController(k) /\ Attends(k, target, inData)
  BY DEF ListenInv, ListenTypes
<1>3. controller' = [controller EXCEPT ![g] = new]
  BY <1>1
<1>4. /\ IsController(new) /\ new.state = k.state /\ new.data = k.data /\ new.wrong = k.wrong
      /\ new.updates = k.updates /\ new.dirty = k.dirty /\ new.udp = udp
  BY <1>1, <1>2 DEF IsController, ListenerStates
<1> HIDE DEF new
<1>5. new.state = "live" => Attends(new, target, inData)
  <2> SUFFICES ASSUME k.state = "live" PROVE Attends(new, target, inData)
    BY <1>4
  <2>1. KnowsTheMode(new, inData)
    BY <1>2, <1>4 DEF Attends, KnowsTheMode
  <2>2. k.dirty \/ target = NoLogger \/ ~k.data \/ k.udp \in {"starting", "bound", "ended"}
    BY <1>2 DEF Attends
  <2> HIDE DEF k
  <2>3. new.dirty \/ target = NoLogger \/ ~new.data \/ new.udp \in {"starting", "bound", "ended"}
    BY <1>1, <1>4, <2>2 DEF k
  <2> QED BY <2>1, <2>3 DEF Attends
<1> QED BY <1>1, <1>3, <1>4, <1>5, OneListens

LEMMA LastAsked ==
  ASSUME NEW u \in Seq(BOOLEAN), NEW on \in BOOLEAN
  PROVE  /\ Append(u, on) \in Seq(BOOLEAN) /\ Append(u, on) # <<>>
         /\ Append(u, on)[Len(Append(u, on))] = on
OBVIOUS

LEMMA ModeListens ==
  ASSUME ListenInv, ChangeMode
  PROVE  ListenInv'
<1>1. /\ inData' = ~inData /\ inData \in BOOLEAN /\ UNCHANGED <<target, refs, conn>>
      /\ controller' = [g \in Controllers |->
           IF controller[g].state \in {"live", "closing", "shut"}
           THEN [controller[g] EXCEPT !.updates = Append(@, ~inData)] ELSE controller[g]]
  BY DEF ChangeMode, ListenInv, ListenTypes
<1>2. ASSUME NEW g \in Controllers
      PROVE  /\ IsController(controller'[g]) /\ controller'[g].state = controller[g].state
             /\ Attends(controller'[g], target, inData')
  <2> DEFINE k == controller[g]
             l == controller'[g]
             mode == ~inData
  <2>1. IsController(k) /\ Attends(k, target, inData) /\ mode \in BOOLEAN
    BY <1>1 DEF ListenInv, ListenTypes
  <2>2. l = IF k.state \in {"live", "closing", "shut"} THEN [k EXCEPT !.updates = Append(@, mode)] ELSE k
    BY <1>1
  <2>3. k.updates \in Seq(BOOLEAN)
    BY <2>1 DEF IsController
  <2>4. inData' = mode
    BY <1>1
  <2>5. /\ Append(k.updates, mode) \in Seq(BOOLEAN) /\ Append(k.updates, mode) # <<>>
        /\ Append(k.updates, mode)[Len(Append(k.updates, mode))] = mode
    <3> HIDE DEF mode, k
    <3> QED BY <2>1, <2>3, LastAsked
  <2> HIDE DEF mode, k, l
  <2>6. CASE k.state \in {"live", "closing", "shut"}
    <3>1. /\ IsController(l) /\ l.state = k.state /\ l.data = k.data /\ l.wrong = k.wrong
          /\ l.updates = Append(k.updates, mode) /\ l.dirty = k.dirty /\ l.udp = k.udp
      BY <2>1, <2>2, <2>5, <2>6 DEF IsController
    <3>2. KnowsTheMode(l, mode)
      BY <2>5, <3>1 DEF KnowsTheMode
    <3>3. k.state = "live" => k.dirty \/ target = NoLogger \/ ~k.data \/ k.udp \in {"starting", "bound", "ended"}
      BY <2>1 DEF Attends
    <3> QED BY <2>4, <3>1, <3>2, <3>3 DEF Attends, k, l
  <2>7. CASE k.state \notin {"live", "closing", "shut"}
    <3>1. l = k
      BY <2>2, <2>7
    <3>2. k.state # "live"
      BY <2>7
    <3> QED BY <2>1, <3>1, <3>2 DEF Attends, k, l
  <2> QED BY <2>6, <2>7
<1>3. controller' = [g \in Controllers |-> controller'[g]]
  BY <1>1
<1>4. Counted' /\ TargetIsOpen'
  BY <1>1 DEF ListenInv, Counted, TargetIsOpen, Opened
<1>5. LiveWhileOpen'
  BY <1>1, <1>2 DEF ListenInv, LiveWhileOpen, IsLive, AnyOpen
<1>6. ListenTypes'
  BY <1>1, <1>2, <1>3 DEF ListenInv, ListenTypes
<1> QED BY <1>1, <1>2, <1>4, <1>5, <1>6 DEF ListenInv

LEMMA ListensAtFirst == WsjtXInit => ListenInv
<1> SUFFICES ASSUME WsjtXInit PROVE ListenInv
  OBVIOUS
<1> DEFINE open == wsjtxEnv.open
<1>1. target \in open \cup {NoLogger} /\ open \subseteq Loggers
  BY TargetsAssumption DEF WsjtXInit
<1>2. \A c \in Conns : /\ conn[c].data = FALSE
                       /\ conn[c].state = IF c[2] = 1 /\ OwnerOf(c) \in open THEN "open" ELSE "free"
  BY DEF WsjtXInit, Free
<1>3. inData = TRUE /\ refs = [w \in Loggers |-> IF w \in open THEN 1 ELSE 0]
  BY DEF WsjtXInit
<1>4. /\ controller = [g \in Controllers |-> controller[g]]
      /\ \A g \in Controllers :
           controller[g] = IF g = 1 /\ open # {}
                           THEN [NoController EXCEPT !.state = "live", !.data = TRUE,
                                             !.udp = IF target = NoLogger THEN "off" ELSE "bound"]
                           ELSE NoController
  BY DEF WsjtXInit
<1> HIDE DEF open
<1>5. ASSUME NEW g \in Controllers
      PROVE  /\ IsController(controller[g]) /\ Attends(controller[g], target, inData)
             /\ IsLive(g) <=> g = 1 /\ open # {}
  <2>1. CASE g = 1 /\ open # {}
    <3> DEFINE udp == IF target = NoLogger THEN "off" ELSE "bound"
    <3>1. udp \in ListenerStates /\ (udp = "bound" \/ target = NoLogger)
      BY DEF ListenerStates
    <3>2. controller[g] = [NoController EXCEPT !.state = "live", !.data = TRUE, !.udp = udp]
      BY <1>4, <2>1
    <3> HIDE DEF udp
    <3>3. /\ IsController(controller[g]) /\ controller[g].state = "live" /\ controller[g].data = TRUE
          /\ controller[g].udp = udp /\ controller[g].updates = <<>>
      BY <3>1, <3>2, EmptySeqs DEF IsController, NoController
    <3> QED BY <1>3, <2>1, <3>1, <3>3 DEF Attends, KnowsTheMode, IsLive
  <2>2. CASE ~(g = 1 /\ open # {})
    <3>1. controller[g] = NoController
      BY <1>4, <2>2
    <3>2. IsController(NoController) /\ NoController.state = "none"
      BY EmptySeqs DEF IsController, NoController, ListenerStates
    <3> QED BY <2>2, <3>1, <3>2 DEF Attends, IsLive
  <2> QED BY <2>1, <2>2
<1>6. ASSUME NEW w \in Loggers
      PROVE  /\ conn[<<w, 1>>].state = IF w \in open THEN "open" ELSE "free"
             /\ conn[<<w, 2>>].state = "free"
  BY <1>2, PairsOf
<1>7. Counted
  <2> SUFFICES ASSUME NEW w \in Loggers PROVE refs[w] = Opened(<<w, 1>>) + Opened(<<w, 2>>)
    BY DEF Counted
  <2>1. refs[w] = IF w \in open THEN 1 ELSE 0
    BY <1>3
  <2>2. Opened(<<w, 1>>) = (IF w \in open THEN 1 ELSE 0) /\ Opened(<<w, 2>>) = 0
    BY <1>6 DEF Opened
  <2> QED BY <2>1, <2>2
<1>8. ASSUME NEW w \in open PROVE \E c \in Conns : OwnerOf(c) = w /\ conn[c].state = "open"
  <2> DEFINE c == <<w, 1>>
  <2>1. c \in Conns /\ OwnerOf(c) = w
    <3>1. w \in Loggers
      BY <1>1
    <3> QED BY <3>1 DEF Conns, OwnerOf
  <2>2. conn[c].state = "open"
    BY <1>1, <1>6
  <2> HIDE DEF c
  <2> QED BY <2>1, <2>2
<1>9. TargetIsOpen /\ LiveWhileOpen
  <2>1. TargetIsOpen
    BY <1>1, <1>8 DEF TargetIsOpen
  <2>2. ASSUME NEW c \in Conns, conn[c].state = "open" PROVE open # {}
    BY <1>2, <2>2
  <2>3. AnyOpen <=> open # {}
    BY <1>8, <2>2 DEF AnyOpen
  <2>4. 1 \in Controllers
    BY DEF Controllers
  <2> QED BY <1>5, <2>1, <2>3, <2>4 DEF LiveWhileOpen
<1>10. ListenTypes
  BY <1>2, <1>3, <1>4, <1>5 DEF ListenTypes
<1> QED BY <1>5, <1>7, <1>9, <1>10 DEF ListenInv

LEMMA ListenInvStep == ContactInv /\ ListenInv /\ [WsjtXNext]_wsjtxVars => ListenInv'
<1> SUFFICES ASSUME ContactInv, ListenInv, [WsjtXNext]_wsjtxVars PROVE ListenInv'
  OBVIOUS
<1>1. CASE UNCHANGED wsjtxVars
  BY <1>1, AllStillListen DEF wsjtxVars, ListenInv, ListenTypes
<1>2. ASSUME NEW w \in Loggers,
             (\E on \in BOOLEAN : SetWsjtXTarget(w, on)) \/ OpenRadioSocket(w) \/ LoseRadioSocket(w) \/ Hearing(w)
      PROVE  ListenInv'
  BY <1>2, WindowsListen
<1>3. ASSUME NEW c \in Conns, SocketSteps(c) PROVE ListenInv'
  BY <1>3, AcquireListens, SetListens, SayListens, ReleaseListens, FinishListens DEF SocketSteps
<1>4. ASSUME NEW g \in Controllers, Control(g) \/ Listening(g) PROVE ListenInv'
  BY <1>4, UpdateListens, WakingListens, ShutdownListens, ListeningListens DEF Control
<1>5. CASE ChangeMode \/ Events
  BY <1>5, ModeListens, EventListens
<1> QED BY <1>1, <1>2, <1>3, <1>4, <1>5 DEF WsjtXNext, Events

LEMMA ListenInvListens == ListenInv => TargetIsHeard
<1> SUFFICES ASSUME ListenInv, WsjtXAtRest, target # NoLogger, inData
             PROVE  \E g \in Controllers : /\ controller[g].state = "live"
                                           /\ controller[g].udp \in {"bound", "ended"} \/ controller[g].wrong
  BY DEF TargetIsHeard
<1>1. PICK g \in Controllers : controller[g].state = "live"
  BY DEF ListenInv, TargetIsOpen, AnyOpen, LiveWhileOpen, IsLive
<1>2. /\ controller[g].dirty = FALSE /\ controller[g].updates = <<>> /\ controller[g].udp # "starting"
      /\ controller[g].dirty \in BOOLEAN /\ controller[g].data \in BOOLEAN
  BY <1>1 DEF WsjtXAtRest, ListenInv, ListenTypes, IsController
<1>3. Attends(controller[g], target, inData)
  BY DEF ListenInv
<1>4. /\ controller[g].wrong \/ controller[g].data = inData
      /\ ~controller[g].data \/ controller[g].udp \in {"starting", "bound", "ended"}
  BY <1>1, <1>2, <1>3 DEF Attends, KnowsTheMode
<1> QED BY <1>1, <1>2, <1>4

(* However clicks, broadcasts, reconnects, mode changes and listeners cross, *)
(* once the tasks and the browsers are done every window shows the target    *)
(* that the manager has, unless a broadcast was crossed by an older one; and *)
(* a target in DATA mode has its listener or was sent the error that ended   *)
(* it (radio-io/src/wsjtx.rs, set_target, release, reconcile_listener;       *)
(* useRadioSocket.js, wsjtxTargetUpdate).                                    *)
THEOREM TheTargetIsServed == WsjtXSpec => []TargetIsServed
<1>1. WsjtXInit => ContactInv /\ ShowInv /\ ListenInv
  BY ContactsStart, ShowsAtFirst, ListensAtFirst
<1>2. ContactInv /\ ShowInv /\ ListenInv /\ [WsjtXNext]_wsjtxVars => (ContactInv /\ ShowInv /\ ListenInv)'
  BY ContactInvStep, ShowInvStep, ListenInvStep
<1>3. ContactInv /\ ShowInv /\ ListenInv => TargetIsServed
  BY ShowInvShows, ListenInvListens DEF TargetIsServed
<1> QED BY <1>1, <1>2, <1>3, PTL DEF WsjtXSpec
=============================================================================
