---------------------------- MODULE VersionedLogs ----------------------------
(***************************************************************************)
(* What the backend's database promises its readers: a set of logs, each   *)
(* with its metadata, its contacts and a revision.  Every mutation of a    *)
(* log is one atomic step that stamps the log with a revision no log of    *)
(* this process ever had; a restart keeps every log and every contact and  *)
(* only renumbers the revisions.  LogDatabase implements this module, and  *)
(* the layers above the database are written against it.                   *)
(***************************************************************************)
EXTENDS Integers

CONSTANTS
  LogIds,       \* keys of table logs
  ContactIds,   \* keys of table qsos
  Params,       \* log metadata (name, contest, station, contest parameters)
  Contacts,     \* contact values
  NoLog,        \* "no such log"
  NoRow         \* "no such contact"

VARIABLES
  metadata,     \* [LogIds -> Params \cup {NoLog}]
  content,      \* [LogIds -> [ContactIds -> Contacts \cup {NoRow}]]
  revision,     \* [LogIds -> Nat], 0 for a log that does not exist
  lastRevision  \* the last revision handed out

versionedVars == <<metadata, content, revision, lastRevision>>

Exists(l) == metadata[l] # NoLog
Empty == [c \in ContactIds |-> NoRow]

Init ==
  /\ metadata = [l \in LogIds |-> NoLog]
  /\ content = [l \in LogIds |-> Empty]
  /\ revision = [l \in LogIds |-> 0]
  /\ lastRevision = 0

(* A mutation publishes log l under a revision never used before. *)
Stamp(l) ==
  /\ lastRevision' = lastRevision + 1
  /\ revision' = [revision EXCEPT ![l] = lastRevision + 1]

Create(l) ==
  /\ ~Exists(l)
  /\ Stamp(l)
  /\ \E p \in Params : metadata' = [metadata EXCEPT ![l] = p]
  /\ content[l] = Empty
  /\ UNCHANGED content

Update(l) ==
  /\ Exists(l)
  /\ Stamp(l)
  /\ \E p \in Params : metadata' = [metadata EXCEPT ![l] = p]
  /\ UNCHANGED content

(* The contacts of l change; a contact id is never in two logs. *)
Mutate(l) ==
  /\ Exists(l)
  /\ Stamp(l)
  /\ UNCHANGED metadata
  /\ content' = [content EXCEPT ![l] = content'[l]]
  /\ content'[l] \in [ContactIds -> Contacts \cup {NoRow}]
  /\ \A c \in ContactIds, m \in LogIds \ {l} :
        content'[l][c] # NoRow => content[m][c] = NoRow

(* A deleted log takes its contacts with it, and leaves the counter alone:  *)
(* a log later created under the same id cannot repeat a revision.          *)
Delete(l) ==
  /\ Exists(l)
  /\ metadata' = [metadata EXCEPT ![l] = NoLog]
  /\ revision' = [revision EXCEPT ![l] = 0]
  /\ UNCHANGED lastRevision
  /\ content' = [content EXCEPT ![l] = Empty]

(* A new process: everything committed is there, under new revisions.       *)
Restart ==
  /\ UNCHANGED metadata
  /\ revision' \in [LogIds -> 0..lastRevision']
  /\ \A l \in LogIds : revision'[l] = 0 <=> ~Exists(l)
  /\ \A l, m \in LogIds : Exists(l) /\ revision'[l] = revision'[m] => l = m
  /\ UNCHANGED content

Next ==
  \/ \E l \in LogIds : Create(l) \/ Update(l) \/ Mutate(l) \/ Delete(l)
  \/ Restart

Spec == Init /\ [][Next]_versionedVars
==============================================================================
