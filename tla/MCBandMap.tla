------------------------------ MODULE MCBandMap ------------------------------
(***************************************************************************)
(* The worlds BandMap is checked in.                                       *)
(***************************************************************************)
EXTENDS BandMap

CONSTANTS cluster, mine, theirs, ours, other

LogOfKey == [k \in Keys |-> CASE k = cluster -> NoLog [] k = mine -> ours [] k = theirs -> other]

World == [enabled |-> TRUE, spotted |-> {<<mine, 1>>, <<theirs, 1>>},
          changes |-> 3, toggles |-> 0, drops |-> 0, failures |-> 0]

(* A snapshot fails.                                                        *)
Failing == [World EXCEPT !.failures = 1]

(* The map is switched off and on again.                                    *)
Toggling == [World EXCEPT !.changes = 2, !.toggles = 2,
                          !.spotted = {<<cluster, 1>>, <<theirs, 1>>}]

(* The map is switched on, the socket is lost; spots change.                *)
Reopening == [World EXCEPT !.enabled = FALSE, !.changes = 2, !.toggles = 1, !.drops = 1,
                           !.spotted = {<<mine, 1>>, <<mine, 2>>, <<theirs, 1>>}]

MCWorlds == {Failing, Toggling, Reopening}
=============================================================================
