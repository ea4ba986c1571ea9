--------------------------- MODULE MCRadioSessions ---------------------------
(***************************************************************************)
(* The worlds RadioSessions is checked in.                                 *)
(***************************************************************************)
EXTENDS RadioSessions

CONSTANTS s1, s2, s3, e1, e2

World == [connects |-> 3, edits |-> 0, drops |-> 0, failures |-> 0, stops |-> FALSE]

(* Windows come and go; a device check fails.                               *)
Crowded == [World EXCEPT !.connects = 4, !.failures = 1]

(* The radio is edited meanwhile, and requests fail or are dropped.         *)
Edited == [World EXCEPT !.edits = 3, !.drops = 1, !.failures = 1]

(* The radio client stops.                                                  *)
Stopped == [World EXCEPT !.stops = TRUE]

MCWorlds == {Crowded, Edited, Stopped}
=============================================================================
