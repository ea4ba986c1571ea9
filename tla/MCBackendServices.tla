-------------------------- MODULE MCBackendServices --------------------------
(***************************************************************************)
(* The worlds of four services of the backend that share nothing but the   *)
(* process: the registry of the client radios, the client of the DX        *)
(* cluster, the configuration with the authentication, and the database of *)
(* the logs.  In a world one of them works and the others have nothing to  *)
(* do.                                                                     *)
(***************************************************************************)
EXTENDS ClientRadios, DxCluster, LoginConfig, LogDatabase

CONSTANTS b20, b40

(* Two processes with the settings of one client and one of another client. *)
MCUuidOf == [r \in {"a1", "a2", "b1"} |-> IF r = "b1" THEN "b" ELSE "a"]

NoClients == [starts |-> {}, stops |-> 0, crashes |-> 0, timeouts |-> 0, failures |-> 0,
              restarts |-> 0, deletes |-> 0, slow |-> 0]

(* A client and its second process, which may be a restart.                 *)
Twin == [NoClients EXCEPT !.starts = {"a1", "a2"}, !.stops = 1, !.timeouts = 1, !.slow = 1]
Crashed == [NoClients EXCEPT !.starts = {"a1", "a2"}, !.crashes = 1, !.timeouts = 1]

(* Requests fail and the backend is restarted.                              *)
Rough == [NoClients EXCEPT !.starts = {"a1", "a2"}, !.stops = 1, !.failures = 1, !.restarts = 1]

(* A radio is deleted after a restart, and its id used again.               *)
Deleting == [NoClients EXCEPT !.starts = {"a1", "b1"}, !.restarts = 1, !.deletes = 1]

MCWorlds == {NoClients, Twin, Crashed, Rough, Deleting}

-----------------------------------------------------------------------------
(* Two calls; one of them on adjacent frequencies.                          *)
MCHeard == {[call |-> "K1A", tenth |-> t] : t \in 1..2} \cup {[call |-> "W9B", tenth |-> 2]}

NoCluster == [configs |-> <<>>, drops |-> 0, lines |-> 0, clears |-> 0, manuals |-> 0, ticks |-> 0,
              breaks |-> 0, sends |-> 0]
Dx == [NoCluster EXCEPT !.configs = <<TRUE>>]

(* Spots of one task and of requests; the task is replaced while it speaks; *)
(* configurations, dropped requests and texts.                              *)
Spotting == [Dx EXCEPT !.lines = 2, !.ticks = 2, !.clears = 1, !.manuals = 1]
Overlap == [Dx EXCEPT !.configs = <<TRUE, TRUE>>, !.lines = 2]
Switching == [Dx EXCEPT !.configs = <<TRUE, TRUE, FALSE>>, !.drops = 1, !.sends = 1, !.breaks = 1]
Sending == [Dx EXCEPT !.configs = <<TRUE, TRUE>>, !.sends = 2, !.breaks = 1]

MCDxWorlds == {NoCluster, Spotting, Overlap, Switching, Sending}

-----------------------------------------------------------------------------
Config(region, user, pass) ==
  [region |-> region, user |-> user, hash |-> [pass |-> pass, salt |-> 0], cluster |-> region]
Put(region, user, pass) == [region |-> region, user |-> user, pass |-> pass, cluster |-> region]
Who(user, pass) == [user |-> user, pass |-> pass]

NoLogins == [first |-> Config(1, "op", "x"), asks |-> <<>>, changes |-> <<>>, drops |-> 0, ticks |-> 0,
             panics |-> 0]
Two == <<Who("op", "x"), Who("op", "x")>>
Three == Append(Two, Who("op", "y"))

(* Requests and a change of the password, to another one or to the same     *)
(* with a new salt; two changes; the login is disabled and enabled.         *)
Knocking == [NoLogins EXCEPT !.asks = Three, !.ticks = 1, !.panics = 1, !.drops = 1]
Turning == [NoLogins EXCEPT !.asks = Three, !.changes = <<Put(1, "op", "y")>>]
Resalting == [NoLogins EXCEPT !.asks = Two, !.changes = <<Put(1, "op", "x")>>, !.drops = 1, !.panics = 1]
Crossing == [NoLogins EXCEPT !.asks = <<Who("op", "y")>>, !.drops = 1,
                             !.changes = <<Put(1, "op", "keep"), Put(2, "op", "y")>>]
Disabling == [NoLogins EXCEPT !.asks = <<Who("op", "x"), Who("", "")>>,
                              !.changes = <<Put(2, "op", "off"), Put(1, "op", "x")>>]

MCLoginWorlds == {NoLogins, Knocking, Turning, Resalting, Crossing, Disabling}

-----------------------------------------------------------------------------
(* Two contacts with the same number in different bands, and one at the     *)
(* largest i64, above which allocation overflows.                           *)
MCPayloads ==
  {[serial |-> 1, band |-> b20, time |-> 1],
   [serial |-> 1, band |-> b40, time |-> 2],
   [serial |-> MaxI64, band |-> b20, time |-> 2]}

MCSerials == {1, MaxI64}
MCBands == {b20, b40}

-----------------------------------------------------------------------------
VARIABLE working     \* the service that has something to do

serviceVars == <<clientsVars, dxVars, loginVars, vars, working>>

MCInit ==
  /\ working \in {"clients", "cluster", "logins", "database"}
  /\ ClientsInit /\ (env # NoClients <=> working = "clients")
  /\ DxInit /\ (dxEnv # NoCluster <=> working = "cluster")
  /\ LoginInit /\ (loginEnv # NoLogins <=> working = "logins")
  /\ Init

MCNext ==
  \/ working = "clients" /\ ClientsNext /\ UNCHANGED <<dxVars, loginVars, vars, working>>
  \/ working = "cluster" /\ DxNext /\ UNCHANGED <<clientsVars, loginVars, vars, working>>
  \/ working = "logins" /\ LoginNext /\ UNCHANGED <<clientsVars, dxVars, vars, working>>
  \/ working = "database" /\ Next /\ UNCHANGED <<clientsVars, dxVars, loginVars, working>>

MCFairSpec == MCInit /\ [][MCNext]_serviceVars /\ ClientsFairness
=============================================================================
