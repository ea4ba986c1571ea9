------------------------- MODULE ReconnectingSocket -------------------------
(***************************************************************************)
(* The reconnecting WebSocket of the logger window                         *)
(* (src/screens/loggerScreen/reconnectingSocketController.js), used for    *)
(* the backend socket (immediate recovery, a grace period for a slow       *)
(* connection when the window comes to the foreground) and for the radio   *)
(* socket (neither): conn says which.  One step is one JavaScript turn of  *)
(* the controller, or something the browser, the network or the server     *)
(* does.                                                                   *)
(*                                                                         *)
(* Abstractions: delays are left out (a timer that is set may fire), so    *)
(* the doubling of the reconnect delay is too; any message counts as the   *)
(* answer to a ping, as activity() has it.                                 *)
(***************************************************************************)
EXTENDS Naturals, Sequences

CONSTANTS
  Socks,         \* WebSocket objects, reused once retired
  NoSock,
  MaxMail,       \* bound: events of one socket waiting to be delivered
  MaxFaults,     \* bound: failures of the browser, the network and the server
  MaxWakes       \* bound: visibility changes and focus events

ASSUME NoSock \notin Socks

VARIABLES
  started, disposed,
  conn,          \* the controller: [current, opened, timers, ping, status], its
                 \* options immediateTimeoutRecovery and (a) grace (period),
                 \* whether there is a backend or a radio to connect to (wanted),
                 \* document.hidden, and whether this turn met an exception
  sock,          \* the browser's sockets: [ready, alive, owes, mail]
  faults, wakes

vars == <<started, disposed, conn, sock, faults, wakes>>

(* alive: the server still hears this socket.  owes: a ping is unanswered.  *)
(* mail: the events the browser has yet to deliver.                         *)
Unused == [ready |-> "CLOSED", alive |-> FALSE, owes |-> FALSE, mail |-> <<>>]
Fresh == [ready |-> "CONNECTING", alive |-> TRUE, owes |-> FALSE, mail |-> <<>>]

Init ==
  /\ started = FALSE /\ disposed = FALSE
  /\ conn \in [current : {NoSock}, opened : {FALSE}, timers : {{}}, ping : {FALSE},
               status : {"disconnected"}, hidden : BOOLEAN, immediate : BOOLEAN,
               grace : BOOLEAN, wanted : BOOLEAN, threw : {FALSE}]
  /\ conn.immediate = conn.grace
  /\ sock = [s \in Socks |-> Unused]
  /\ faults = 0 /\ wakes = 0

-----------------------------------------------------------------------------
(* The functions of the controller: from a state c of it to the next.       *)

Ready(c) == IF c.current = NoSock THEN "none" ELSE sock[c.current].ready

ClearHealth(c) == [c EXCEPT !.ping = FALSE, !.timers = @ \ {"health", "pong"}]

Retire(c) ==
  [ClearHealth(c) EXCEPT !.current = NoSock, !.opened = FALSE, !.status = "disconnected",
                         !.timers = @ \ {"connect", "foreground"}]

ScheduleReconnect(c) == [c EXCEPT !.timers = @ \cup {"reconnect"}]

(* connect(): without a current connection a new socket is opened, or       *)
(* creating one throws.                                                     *)
Opening(c, s) ==
  [ClearHealth(c) EXCEPT !.current = s, !.status = "connecting",
                         !.timers = (@ \ {"reconnect"}) \cup {"connect"}]

Attempts(c) ==
  IF c.current # NoSock THEN {c}
  ELSE {Opening(c, s) : s \in Socks \ {conn.current}} \cup
       {ScheduleReconnect([ClearHealth(c) EXCEPT !.status = "disconnected", !.threw = TRUE])}

Recover(c, immediate) ==
  IF immediate THEN Attempts([Retire(c) EXCEPT !.timers = @ \ {"reconnect"}])
  ELSE {ScheduleReconnect(Retire(c))}

ScheduleHealth(c) ==
  [c EXCEPT !.timers = IF c.hidden \/ Ready(c) # "OPEN" \/ c.ping THEN @ \ {"health"}
                       ELSE @ \cup {"health"}]

Activity(c) == ScheduleHealth([c EXCEPT !.ping = FALSE, !.timers = @ \ {"pong"}])

(* Mutant: a ping is sent without its timeout.                              *)
PingUntimed(c) == [c EXCEPT !.ping = TRUE, !.timers = @ \ {"health"}]

Ping(c) == [c EXCEPT !.ping = TRUE, !.timers = (@ \ {"health"}) \cup {"pong"}]

CheckHealth(c) ==
  CASE c.hidden -> {c}
    [] Ready(c) = "CLOSED" -> Recover(c, TRUE)
    [] Ready(c) = "CLOSING" -> Recover(c, c.immediate)
    [] Ready(c) \in {"none", "CONNECTING"} \/ c.ping -> {c}
    [] OTHER -> {Ping(c)} \cup Recover([c EXCEPT !.threw = TRUE], c.immediate)

(* foreground(); elapsed says whether the grace period is over.             *)
Foreground(c, elapsed) ==
  CASE c.hidden -> {c}
    [] Ready(c) \in {"none", "CLOSED"} -> Recover(c, TRUE)
    [] Ready(c) = "CONNECTING" ->
         IF ~c.grace THEN {c}
         ELSE IF elapsed THEN Recover(c, TRUE)
         ELSE {[c EXCEPT !.timers = @ \cup {"foreground"}]}
    [] Ready(c) = "OPEN" -> CheckHealth([c EXCEPT !.timers = @ \ {"foreground"}])
    [] OTHER -> Recover(c, TRUE)

-----------------------------------------------------------------------------
(* Waiting longer would have helped: a timeout on a working connection is   *)
(* a fault of the network, one on a dead connection is not.                 *)
Slow(s) == s # NoSock /\ sock[s].alive

Counted(isFault) ==
  IF isFault THEN faults < MaxFaults /\ faults' = faults + 1 ELSE UNCHANGED faults

(* A turn ends with one of the outcomes; b are the sockets at its start.    *)
(* It uses up a fault if something was thrown in it, or if isFault.         *)
Turn(outcomes, b, isFault) ==
  \E c \in outcomes :
    /\ Counted(isFault \/ c.threw)
    /\ conn' = [c EXCEPT !.threw = FALSE]
    /\ sock' = IF c.current \notin {NoSock, conn.current} THEN [b EXCEPT ![c.current] = Fresh]
               ELSE IF c.current # NoSock /\ c.ping /\ ~conn.ping
                 THEN [b EXCEPT ![c.current].owes = TRUE]
               ELSE b

Running == started /\ ~disposed

Start ==
  /\ conn.wanted /\ ~started /\ ~disposed
  /\ started' = TRUE
  /\ Turn(Attempts(conn), sock, FALSE)
  /\ UNCHANGED <<disposed, wakes>>

Dispose ==
  /\ conn.wanted /\ ~disposed
  /\ disposed' = TRUE
  /\ conn' = [conn EXCEPT !.current = NoSock, !.timers = {}]
  /\ UNCHANGED <<started, sock, faults, wakes>>

IsCurrent(s) == Running /\ conn.current = s

Handled(s, event) ==
  CASE event = "open" ->
         IF conn.opened THEN {conn}
         ELSE {Activity([conn EXCEPT !.opened = TRUE, !.status = "connected",
                                     !.timers = @ \ {"connect", "foreground"}])}
    [] event = "message" -> {Activity(conn)}
    [] event = "close" -> {ScheduleReconnect(Retire(conn))}
    [] event = "error" -> Recover(conn, FALSE)

(* The browser delivers an event; a retired socket has no listeners.        *)
Deliver(s) ==
  /\ sock[s].mail # <<>>
  /\ Turn(IF IsCurrent(s) THEN Handled(s, Head(sock[s].mail)) ELSE {conn},
          [sock EXCEPT ![s].mail = Tail(@)], FALSE)
  /\ UNCHANGED <<started, disposed, wakes>>

Fires(name) ==
  LET c == [conn EXCEPT !.timers = @ \ {name}] IN
  /\ Running
  /\ name \in conn.timers
  /\ CASE name = "connect" ->
            IF Ready(c) = "OPEN" THEN Turn({c}, sock, FALSE)
            ELSE Turn(Recover(c, c.immediate), sock, Slow(c.current))
       [] name = "reconnect" -> Turn(Attempts(c), sock, FALSE)
       [] name = "health" -> Turn(CheckHealth(c), sock, FALSE)
       [] name = "pong" ->
            Turn(IF c.ping THEN Recover(c, c.immediate) ELSE {c}, sock, Slow(c.current))
       [] name = "foreground" -> Turn(Foreground(c, TRUE), sock, Slow(c.current))
  /\ UNCHANGED <<started, disposed, wakes>>

Timers == {"connect", "reconnect", "health", "pong", "foreground"}

Woken == wakes < MaxWakes /\ wakes' = wakes + 1

(* focus and pageshow.                                                      *)
Focus ==
  /\ Running /\ Woken
  /\ \E elapsed \in BOOLEAN :
       Turn(Foreground(conn, elapsed), sock, elapsed /\ Slow(conn.current))
  /\ UNCHANGED <<started, disposed>>

Hide ==
  /\ Running /\ Woken
  /\ ~conn.hidden
  /\ conn' = [ClearHealth(conn) EXCEPT !.hidden = TRUE, !.timers = @ \ {"foreground"}]
  /\ UNCHANGED <<started, disposed, sock, faults>>

Show ==
  /\ Running /\ Woken
  /\ conn.hidden
  /\ Turn(Foreground([conn EXCEPT !.hidden = FALSE], FALSE), sock, FALSE)
  /\ UNCHANGED <<started, disposed>>

(* The window sends a message and the socket throws.                        *)
SendThrows ==
  /\ Running
  /\ Ready(conn) = "OPEN"
  /\ Turn(Recover(conn, conn.immediate), sock, TRUE)
  /\ UNCHANGED <<started, disposed, wakes>>

-----------------------------------------------------------------------------
(* The browser, the network and the server.                                 *)

Post(s, ready, events) ==
  /\ Len(sock[s].mail) + Len(events) <= MaxMail
  /\ sock' = [sock EXCEPT ![s].ready = ready, ![s].mail = @ \o events]
  /\ UNCHANGED <<started, disposed, conn, wakes>>

Opens(s) == /\ sock[s].ready = "CONNECTING" /\ sock[s].alive
            /\ Post(s, "OPEN", <<"open">>) /\ UNCHANGED faults

Refused(s) == /\ sock[s].ready = "CONNECTING"
              /\ Post(s, "CLOSED", <<"error", "close">>) /\ Counted(TRUE)

ServerSends(s) == /\ sock[s].ready = "OPEN" /\ sock[s].alive
                  /\ Post(s, "OPEN", <<"message">>) /\ UNCHANGED faults

Answers(s) ==
  /\ sock[s].ready = "OPEN" /\ sock[s].alive /\ sock[s].owes
  /\ Len(sock[s].mail) < MaxMail
  /\ sock' = [sock EXCEPT ![s].owes = FALSE, ![s].mail = Append(@, "message")]
  /\ UNCHANGED <<started, disposed, conn, faults, wakes>>

(* The closing handshake begins ...                                         *)
ServerCloses(s) == /\ sock[s].ready = "OPEN" /\ sock[s].alive
                   /\ Post(s, "CLOSING", <<>>) /\ Counted(TRUE)

(* ... and ends, or the connection breaks.                                  *)
Closes(s) ==
  \/ /\ sock[s].ready = "CLOSING"
     /\ Post(s, "CLOSED", <<"close">>) /\ UNCHANGED faults
  \/ /\ sock[s].ready = "OPEN"
     /\ Post(s, "CLOSED", <<"error", "close">>) /\ Counted(TRUE)

(* The other end is gone and nobody says so.                                *)
Dies(s) ==
  /\ sock[s].ready \in {"CONNECTING", "OPEN"} /\ sock[s].alive
  /\ Counted(TRUE)
  /\ sock' = [sock EXCEPT ![s].alive = FALSE]
  /\ UNCHANGED <<started, disposed, conn, wakes>>

Finished == (disposed \/ ~conn.wanted) /\ UNCHANGED vars

Next ==
  \/ Start \/ Dispose \/ Focus \/ Hide \/ Show \/ SendThrows
  \/ \E name \in Timers : Fires(name)
  \/ \E s \in Socks :
       \/ Deliver(s) \/ Opens(s) \/ Refused(s) \/ ServerSends(s) \/ Answers(s)
       \/ ServerCloses(s) \/ Closes(s) \/ Dies(s)
  \/ Finished

Spec == Init /\ [][Next]_vars

(* The browser opens, closes and delivers, timers fire and a server that    *)
(* hears a ping answers it.                                                 *)
SocketFairness ==
  /\ WF_vars(Start)
  /\ \A name \in Timers : WF_vars(Fires(name))
  /\ \A s \in Socks : /\ WF_vars(Deliver(s)) /\ WF_vars(Opens(s)) /\ WF_vars(Answers(s))
                      /\ WF_vars(sock[s].ready = "CLOSING" /\ Closes(s))

FairSpec == Spec /\ SocketFairness

-----------------------------------------------------------------------------
Expects(s, event) == \E i \in DOMAIN sock[s].mail : sock[s].mail[i] = event

(* A running controller always waits for something that will come: without  *)
(* a connection for the reconnect timer, with one that is being made for    *)
(* its timeout, with an open one (in a visible window) for the next health  *)
(* check or the timeout of a ping, with a closed one for the close event.   *)
(* So no sequence of failures and visibility changes leaves the window      *)
(* offline for good.                                                        *)
NeverStranded ==
  Running =>
    /\ conn.ping <=> "pong" \in conn.timers
    /\ CASE Ready(conn) = "none" -> "reconnect" \in conn.timers
         [] Ready(conn) = "CONNECTING" -> "connect" \in conn.timers
         [] Ready(conn) = "OPEN" ->
              \/ ~conn.opened /\ Expects(conn.current, "open")
              \/ conn.opened /\ (conn.hidden \/ conn.ping \/ "health" \in conn.timers)
         [] Ready(conn) = "CLOSED" -> Expects(conn.current, "close")
         [] Ready(conn) = "CLOSING" -> TRUE

Working ==
  ~Running \/ conn.hidden \/ (conn.current # NoSock /\ conn.opened /\ sock[conn.current].alive)

(* The controller always waits for something that will come, and once the   *)
(* network and the server stop failing and the window stays visible, it     *)
(* gets a working connection and keeps it (every callback and timer of      *)
(* createReconnectingSocket).                                               *)
StaysConnected == [](NeverStranded /\ <>[]Working)
=============================================================================
