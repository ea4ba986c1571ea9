--------------------------- MODULE SerialAllocator ---------------------------
(***************************************************************************)
(* The sent serial numbers of one log: the logger windows                  *)
(* (loggerScreen/useSerialAllocator.js, serialAllocatorState.js and the    *)
(* entry field they fill) and the backend they ask (serial_state and       *)
(* allocate_serial of main.rs, reserve_serial of db/worker.rs).            *)
(*                                                                         *)
(* reserve says which of the two ways of numbering the log uses: a value   *)
(* reserved in the backend for one contact, or the value after the highest *)
(* one seen (the sequence of a log, or of one band: bands are independent  *)
(* and alike, so one of them is modelled).                                 *)
(*                                                                         *)
(* Abstractions: a render and its effects belong to the turn that caused   *)
(* them; a window's list is the set of its contacts, every change of it is *)
(* observed; edits and deletions are left out, as a sent serial is never   *)
(* edited.                                                                 *)
(***************************************************************************)
EXTENDS Naturals, FiniteSets, FiniteSetsExt

CONSTANTS
  Windows,     \* logger windows, each with its own instance id
  Contacts,    \* contacts that may be logged
  Setups       \* the worlds a run starts in, see Setup

(* A world: the windows in use, the contacts they log, whether the log's    *)
(* rules have reservation_required; and the bounds: failed requests and     *)
(* dropped sockets, loggers left or reloaded, changes of the radio's mode.  *)
Setup ==
  [windows: SUBSET Windows, contacts: SUBSET Contacts, reserve: BOOLEAN,
   faults: Nat, opens: Nat, modes: Nat]

ASSUME SetupsAssumption == Setups \subseteq Setup

VARIABLES
  serial,      \* the sent serial of each contact, None before it is logged
  rows,        \* contacts the backend has stored
  nextSerial,  \* log_serial_state
  win,         \* the windows: manager, list and entry field
  stored,      \* localStorage: the unused reservation of each instance
  calls,       \* requests of the allocators that are under way
  news,        \* log entries on their way to each window
  env          \* the world, with what is left of its bounds

vars == <<serial, rows, nextSerial, win, stored, calls, news, env>>

Reserve == env.reserve

None == 0

(* manager: "none" without settings, "new" before it is initialized.        *)
(* queue: pendingContacts.  busy: requestInFlight.  retry: the action of    *)
(* the retry timer.  list: allContacts.  entry: the sent serial field.      *)
(* unseen, a history: the contacts that waited for the backend when the     *)
(* manager was made, until the manager observes the list.                   *)
Opened(list) ==
  [manager |-> "none", next |-> None, queue |-> {}, busy |-> FALSE, retry |-> "no",
   list |-> list, entry |-> None, unseen |-> {}]

Init ==
  /\ serial = [c \in Contacts |-> None]
  /\ rows = {} /\ nextSerial = 1
  /\ win = [w \in Windows |-> Opened({})]
  /\ stored = [w \in Windows |-> None]
  /\ calls = {}
  /\ news = [w \in Windows |-> {}]
  /\ env \in Setups

-----------------------------------------------------------------------------
(* The backend.                                                             *)

Serials(cs) == {serial[c] : c \in cs}

NextAfterRows == Max(Serials(rows) \cup {0}) + 1

Reservation == Max({nextSerial, NextAfterRows})

(* left: what the manager had queued when its window was left, for then     *)
(* nobody waits for the answer but the request still gets one.              *)
Call(w, kind) ==
  [win |-> w, kind |-> kind, answer |-> None, orphan |-> FALSE, left |-> {}]

Serve(call) ==
  /\ call.answer = None
  /\ calls' = (calls \ {call}) \cup
              {[call EXCEPT !.answer = IF call.kind = "state" THEN NextAfterRows
                                       ELSE Reservation]}
  /\ nextSerial' = IF call.kind = "reserve" THEN Reservation + 1 ELSE nextSerial
  /\ UNCHANGED <<serial, rows, win, stored, news, env>>

-----------------------------------------------------------------------------
(* The functions of a manager, from [m: its window, keep: what localStorage *)
(* holds, asks: the requests it makes] to the next.                         *)

(* publish(): a new allocation fills the entry field.                       *)
Publish(m) == [m EXCEPT !.entry = m.next]

Ask(s, kind) ==
  IF s.m.busy THEN s
  ELSE [s EXCEPT !.m = Publish([s.m EXCEPT !.busy = TRUE, !.retry = "no"]),
                 !.asks = {kind}]

RequestReservation(s) == Ask(s, "reserve")
InitializeStart(s) == Ask(s, "state")

(* A contact at or above the next value was seen.                           *)
Passed(s, ns) ==
  IF Reserve
    THEN RequestReservation([s EXCEPT !.m = Publish([@ EXCEPT !.next = None]),
                                      !.keep = None])
    ELSE [s EXCEPT !.m = Publish([@ EXCEPT !.next = Max(ns) + 1])]

(* Mutant: the reservation that was used stays in localStorage.             *)
ObserveKeeping(s, ns) ==
  LET above == {n \in ns : n >= Max({s.m.next, 1})} IN
  IF s.m.manager = "ready" /\ above # {}
    THEN [Passed(s, above) EXCEPT !.keep = s.keep] ELSE s

(* observeContact() for contacts with the sent serials ns.                  *)
Observe(s, ns) ==
  LET above == {n \in ns : n >= Max({s.m.next, 1})} IN
  CASE s.m.manager = "new" -> [s EXCEPT !.m.queue = @ \cup ns]
    [] s.m.manager = "ready" /\ above # {} -> Passed(s, above)
    [] OTHER -> s

(* The end of initialize(): without a reservation, one is requested.        *)
Finally(s) ==
  IF s.m.manager = "ready" /\ Reserve /\ s.m.next = None
    THEN RequestReservation([s EXCEPT !.m.busy = FALSE])
    ELSE [s EXCEPT !.m.busy = FALSE]

(* mergeSerialStates().                                                     *)
Merge(answer, next) == Max({answer, next})

Initialized(s, answer) ==
  LET m == [s.m EXCEPT !.manager = "ready", !.queue = {},
                       !.next = IF Reserve THEN s.keep ELSE Merge(answer, @)]
      known == [s EXCEPT !.m = m, !.keep = IF Reserve THEN @ ELSE None]
      seen == Observe(known, s.m.queue)
  IN  Finally([seen EXCEPT !.m = Publish(@)])

Reserved(s, answer) ==
  [s EXCEPT !.m = Publish([@ EXCEPT !.next = answer, !.busy = FALSE]), !.keep = answer]

(* Mutant: a failed reservation is not tried again.                         *)
FailedSilently(s, kind) ==
  IF kind = "reserve" THEN [s EXCEPT !.m.busy = FALSE]
  ELSE Finally([s EXCEPT !.m.retry = "state"])

Failed(s, kind) ==
  IF kind = "reserve" THEN [s EXCEPT !.m.busy = FALSE, !.m.retry = "reserve"]
  ELSE Finally([s EXCEPT !.m.retry = "state"])

-----------------------------------------------------------------------------
(* A turn of window w that ends in s; less are the calls it takes away.     *)
Now(w) == [m |-> win[w], keep |-> stored[w], asks |-> {}]

Turn(w, s, less) ==
  /\ win' = [win EXCEPT ![w] = s.m]
  /\ stored' = [stored EXCEPT ![w] = s.keep]
  /\ calls' = (calls \ less) \cup {Call(w, kind) : kind \in s.asks}

(* allContacts changed: every contact in it is observed.                    *)
Listed(w, list, ns) ==
  Observe([Now(w) EXCEPT !.m = [@ EXCEPT !.list = list, !.unseen = {}]],
          Serials(list) \cup ns)

Pending(w) == win[w].list \ rows

(* The settings are loaded: the window gets a manager, to which the list it *)
(* has is not shown.                                                        *)
Enter(w) ==
  /\ w \in env.windows /\ win[w].manager = "none"
  /\ Turn(w, InitializeStart([Now(w) EXCEPT
               !.m = [@ EXCEPT !.manager = "new", !.unseen = Pending(w)]]), {})
  /\ UNCHANGED <<serial, rows, nextSerial, news, env>>

Answered(call) ==
  /\ call.answer # None /\ ~call.orphan
  /\ Turn(call.win, IF call.kind = "state" THEN Initialized(Now(call.win), call.answer)
                    ELSE Reserved(Now(call.win), call.answer), {call})
  /\ UNCHANGED <<serial, rows, nextSerial, news, env>>

(* The answer to a manager that is gone: it still writes localStorage.      *)
AnsweredLate(call) ==
  /\ call.answer # None /\ call.orphan
  /\ calls' = calls \ {call}
  /\ stored' = [stored EXCEPT ![call.win] =
       CASE call.kind = "reserve" -> call.answer
         [] call.kind = "state" /\ Reserve ->
              IF \E n \in call.left : n >= Max({@, 1}) THEN None ELSE @
         [] OTHER -> None]
  /\ UNCHANGED <<serial, rows, nextSerial, win, news, env>>

(* One of a bounded number of events is used up.                            *)
Uses(bound) == env[bound] > 0 /\ env' = [env EXCEPT ![bound] = @ - 1]

Fault == Uses("faults")

(* The request or its answer is lost.                                       *)
CallFails(call) ==
  /\ Fault
  /\ IF call.orphan THEN calls' = calls \ {call} /\ UNCHANGED <<win, stored>>
     ELSE Turn(call.win, Failed(Now(call.win), call.kind), {call})
  /\ UNCHANGED <<serial, rows, nextSerial, news>>

Retry(w) ==
  /\ win[w].retry # "no"
  /\ Turn(w, Ask([Now(w) EXCEPT !.m.retry = "no"], win[w].retry), {})
  /\ UNCHANGED <<serial, rows, nextSerial, news, env>>

(* The backend socket is lost, and the events with it, and opens again.     *)
Reconnect(w) ==
  /\ Fault
  /\ news' = [news EXCEPT ![w] = {}]
  /\ Turn(w, IF win[w].manager = "none" THEN Now(w) ELSE InitializeStart(Now(w)), {})
  /\ UNCHANGED <<serial, rows, nextSerial>>

(* The operator logs a contact: the serial in the entry field is sent.      *)
LogContact(w, c) ==
  LET n == win[w].entry IN
  /\ c \in env.contacts /\ serial[c] = None
  /\ win[w].manager = "ready" /\ win[w].next # None /\ n # None
  /\ serial' = [serial EXCEPT ![c] = n]
  /\ LET s == Listed(w, win[w].list \cup {c}, {n})
     IN  Turn(w, [s EXCEPT !.m = Publish(@)], {})
  /\ UNCHANGED <<rows, nextSerial, news, env>>

(* The outbox of the window commits a contact ...                           *)
Commit(w, c) ==
  /\ c \in Pending(w)
  /\ rows' = rows \cup {c}
  /\ news' = [v \in Windows |->
       IF v \in env.windows \ {w} THEN news[v] \cup {c} ELSE news[v]]
  /\ Turn(w, Listed(w, win[w].list, {}), {})
  /\ UNCHANGED <<serial, nextSerial, env>>

(* ... or marks it after a failure.                                         *)
CommitFails(w) ==
  /\ Pending(w) # {} /\ Fault
  /\ Turn(w, Listed(w, win[w].list, {}), {})
  /\ UNCHANGED <<serial, rows, nextSerial, news>>

Receive(w, c) ==
  /\ c \in news[w]
  /\ news' = [news EXCEPT ![w] = @ \ {c}]
  /\ Turn(w, Listed(w, win[w].list \cup {c}, {}), {})
  /\ UNCHANGED <<serial, rows, nextSerial, env>>

(* A page of contacts arrives, be it an empty one.                          *)
LoadPage(w) ==
  /\ Turn(w, Listed(w, win[w].list \cup rows, {}), {})
  /\ UNCHANGED <<serial, rows, nextSerial, news, env>>

(* The logger is left for another screen and opened again, or the page is   *)
(* reloaded, which forgets the requests that are under way as well.         *)
Reopen(w) ==
  LET mine == {call \in calls : call.win = w}
      left == {IF call.orphan THEN call
               ELSE [call EXCEPT !.orphan = TRUE, !.left = win[w].queue] : call \in mine}
  IN
  /\ Uses("opens")
  /\ win[w].manager # "none"
  /\ win' = [win EXCEPT ![w] = Opened(Pending(w))]
  /\ news' = [news EXCEPT ![w] = {}]
  /\ \E kept \in {{}, left} : calls' = (calls \ mine) \cup kept
  /\ UNCHANGED <<serial, rows, nextSerial, stored>>

(* The radio changes its mode: the entry fields get their defaults.         *)
ModeChange(w) ==
  /\ Uses("modes")
  /\ win' = [win EXCEPT ![w].entry = None]
  /\ UNCHANGED <<serial, rows, nextSerial, stored, calls, news>>

(* The operator clears the entry fields.                                    *)
ClearEntry(w) ==
  /\ win[w].entry # win[w].next
  /\ win' = [win EXCEPT ![w].entry = win[w].next]
  /\ UNCHANGED <<serial, rows, nextSerial, stored, calls, news, env>>

Next ==
  \/ \E call \in calls : Serve(call) \/ Answered(call) \/ AnsweredLate(call) \/ CallFails(call)
  \/ \E w \in env.windows :
       \/ Enter(w) \/ Retry(w) \/ Reconnect(w) \/ CommitFails(w) \/ LoadPage(w)
       \/ Reopen(w) \/ ModeChange(w) \/ ClearEntry(w)
       \/ \E c \in Contacts : LogContact(w, c) \/ Commit(w, c) \/ Receive(w, c)

Spec == Init /\ [][Next]_vars

(* The settings load, the backend serves and answers, retry timers fire.    *)
Fairness ==
  /\ WF_vars(\E call \in calls : Serve(call))
  /\ \A w \in Windows :
       /\ WF_vars(Enter(w)) /\ WF_vars(Retry(w))
       /\ WF_vars(\E call \in calls : call.win = w /\ Answered(call))

FairSpec == Spec /\ Fairness

-----------------------------------------------------------------------------
SerialsUsedOnce ==
  Reserve => \A c, d \in Contacts : c # d /\ serial[c] = serial[d] => serial[c] = None

OfferAboveList ==
  ~Reserve => \A w \in Windows : win[w].manager = "ready" =>
                \A c \in win[w].list \ win[w].unseen : serial[c] < win[w].next

(* With reservations no two contacts of the log are sent the same serial,   *)
(* whichever windows log them, whatever is left, reloaded, lost or answered *)
(* late.  Without them a window never offers a serial at or below one of a  *)
(* contact in its list, however its request for the state crosses the       *)
(* contacts that are logged and received, in a window that is opened again  *)
(* too (useSerialAllocator.js, initialize and observeContact).  The         *)
(* exception, unseen: a logger that is opened with contacts in localStorage *)
(* the backend does not have lists them before it has a manager, the        *)
(* backend does not count them, and the effect that observes the list runs  *)
(* only when the list changes next (lines 235 to 243): until then one of    *)
(* their serials may be offered again.                                      *)
SerialsAreNew == SerialsUsedOnce /\ OfferAboveList

(* A window gets a serial again after every failure and every contact that  *)
(* took the one it had: logging is never blocked for good.                  *)
SerialComes == \A w \in Windows : []<>(w \in env.windows => win[w].next # None)
=============================================================================
