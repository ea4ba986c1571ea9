---------------------------- MODULE MCManagedRadio ----------------------------
(***************************************************************************)
(* The worlds ManagedRadio is checked in.                                  *)
(***************************************************************************)
EXTENDS ManagedRadio

World == [texts |-> 0, turns |-> 0, breaks |-> 0, stops |-> 0, tunings |-> 0, lags |-> 0, quits |-> 0,
          failures |-> 0, waits |-> {TRUE}, modes |-> {"CW"}, keyer |-> "none"]

(* The radio is tuned from both sides, refuses and is lost.                 *)
Tuned == [World EXCEPT !.turns = 1, !.tunings = 2, !.breaks = 1, !.lags = 1, !.failures = 1]

(* Texts are keyed and stopped, the radio is lost or left.                  *)
Keyed(kind) == [World EXCEPT !.keyer = kind, !.texts = 3, !.stops = 1, !.breaks = 1, !.quits = 1]

Mixed(kind) == [Keyed(kind) EXCEPT !.waits = BOOLEAN, !.breaks = 0, !.failures = 1]

(* The mode changes while texts wait.                                       *)
Voice == [World EXCEPT !.keyer = "serial", !.texts = 2, !.stops = 1, !.turns = 1, !.failures = 2,
                       !.modes = {"USB"}]

(* A file is cut off by a lost connection or the last session that leaves,  *)
(* and its release fails with it.                                           *)
VoiceLost == [World EXCEPT !.keyer = "serial", !.texts = 2, !.breaks = 1, !.quits = 1, !.failures = 1,
                           !.modes = {"USB"}]

(* The keyer of a radio that is lost cannot be cleared.                     *)
CatLost == [World EXCEPT !.keyer = "cat", !.texts = 2, !.stops = 1, !.breaks = 1]

MCWorlds == {Tuned, Keyed("winkeyer"), Keyed("serial"), Mixed("cat"), Mixed("winkeyer"), Voice,
             VoiceLost, CatLost}
=============================================================================
