----------------------------- MODULE MCLogCache -----------------------------
(* Small instances of LogCache for TLC.                                     *)
EXTENDS LogCache

CONSTANTS p1, p2

(* A contact is <<sent serial, version>>.                                   *)
MCSerialOf(v) == v[1]

CONSTANTS t1, t2, t3

One == [c \in ContactIds |-> IF c = 1 THEN <<1, 1>> ELSE NoRow]
Operations == {"upsert", "delete", "page", "updateLog", "deleteLog"}

(* Three requests on one stored log with one contact.                       *)
Crowded ==
  [tasks |-> {t1, t2, t3}, ops |-> Operations \ {"updateLog"}, revisions |-> 1, cancels |-> 0,
   params |-> [l \in LogIds |-> IF l = 1 THEN p1 ELSE NoLog],
   content |-> [l \in LogIds |-> IF l = 1 THEN One ELSE Empty]]

(* The parameters of the log are edited among them.                         *)
Edited == [Crowded EXCEPT !.ops = {"upsert", "updateLog"}]
Reloaded == [Crowded EXCEPT !.ops = {"page", "updateLog", "deleteLog"}]

(* One of them is dropped.                                                  *)
Dropped == [Crowded EXCEPT !.ops = {"upsert", "deleteLog"}, !.cancels = 1]

(* Two stored logs, a contact in the first; logs are created again.         *)
Recreated ==
  [tasks |-> {t1, t2}, ops |-> Operations \cup {"createLog"}, revisions |-> 4, cancels |-> 1,
   params |-> [l \in LogIds |-> p1], content |-> [l \in LogIds |-> IF l = 1 THEN One ELSE Empty]]

MCEdits == {<<1, 1>>, <<1, 2>>}
MCParams == {p1, p2}

MCSetups == {Crowded, Edited, Reloaded, Dropped, Recreated}
=============================================================================
