---------------------------- MODULE MCRadioTargets ----------------------------
(***************************************************************************)
(* The worlds of the windows that share a radio: the target of its WSJT-X  *)
(* listener and the target of its digital interface.  The two managers     *)
(* share nothing but the sockets of the windows, so one of them works in a *)
(* world and the other has no windows.                                     *)
(***************************************************************************)
EXTENDS WsjtXTargets, DigitalIo

CONSTANTS a, b

NoOne == [open |-> {}, moving |-> {}, holder |-> NoLogger, clicks |-> 0, connects |-> 0, drops |-> 0,
          modes |-> 0, contacts |-> 0, others |-> 0, failures |-> 0]
Both == [NoOne EXCEPT !.open = {a, b}]

(* Two windows claim the target; one that held it comes back and claims it  *)
(* again; the only window is replaced before the server has noticed.        *)
Claims == [Both EXCEPT !.clicks = 3]
Returns == [Both EXCEPT !.moving = {a}, !.holder = a, !.clicks = 1, !.connects = 1, !.drops = 1]
Alone == [Returns EXCEPT !.open = {a}, !.clicks = 0, !.contacts = 1]

(* The mode changes while the first window connects; the port is taken.     *)
Ported == [NoOne EXCEPT !.moving = {a}, !.clicks = 2, !.connects = 1, !.modes = 2, !.contacts = 1,
                        !.failures = 1]

(* Contacts are logged while the target moves.                              *)
Passing == [Both EXCEPT !.clicks = 2, !.contacts = 2]

(* Other events fill the channel: bridges that lag miss contacts.           *)
Filling == [Both EXCEPT !.moving = {a}, !.holder = a, !.clicks = 1, !.contacts = 2, !.others = 1, !.drops = 1]

MCWsjtXWorlds == {NoOne, Claims, Returns, Alone, Ported, Passing, Filling}

-----------------------------------------------------------------------------
NoSession == [open |-> {}, moving |-> {}, holder |-> NoWindow, claims |-> 0, sends |-> 0, stops |-> 0,
              joins |-> 0, leaves |-> 0, modes |-> 0, lags |-> 0, refusals |-> 0, faults |-> 0, deaths |-> 0]
Pair == [NoSession EXCEPT !.open = {<<a, 1>>, <<b, 1>>}, !.holder = a]
Single == [Pair EXCEPT !.open = {<<a, 1>>}]

(* Two windows send while the target moves; FLDigi fails; the window leaves *)
(* and comes back; reports of the radio are dropped.                        *)
Sending == [Pair EXCEPT !.claims = 2, !.sends = 2, !.stops = 1, !.faults = 1]
Failing == [Single EXCEPT !.claims = 1, !.sends = 1, !.stops = 1, !.deaths = 1, !.refusals = 1, !.faults = 1,
                          !.modes = 2]
Leaving == [Single EXCEPT !.moving = {<<a, 1>>, <<a, 2>>}, !.claims = 1, !.sends = 1, !.joins = 1,
                          !.leaves = 1, !.modes = 1]
Lagging == [Pair EXCEPT !.modes = 3, !.lags = 1, !.claims = 1]

MCDigitalWorlds == {NoSession, Sending, Failing, Leaving, Lagging}

-----------------------------------------------------------------------------
targetVars == <<wsjtxVars, dioVars>>

MCInit == WsjtXInit /\ DigitalInit /\ (wsjtxEnv = NoOne) # (dioEnv = NoSession)

MCNext ==
  \/ WsjtXNext /\ UNCHANGED dioVars
  \/ DigitalNext /\ UNCHANGED wsjtxVars

MCFairSpec == MCInit /\ [][MCNext]_targetVars /\ WsjtXFairness /\ DigitalFairness
=============================================================================
