------------------------- MODULE MCDesktopPrograms -------------------------
(***************************************************************************)
(* The worlds of three programs with a window that share nothing: the      *)
(* launcher of the backend, the radio client, and the socket of a logger   *)
(* window.  In a world one of them works and the others have nothing to do. *)
(***************************************************************************)
EXTENDS ReconnectingSocket, Launcher, RadioClientApp

-----------------------------------------------------------------------------
NoLaunch == [launches |-> 0, starts |-> 0, failures |-> 0, exits |-> 0, crashes |-> 0,
             downloads |-> 0, screens |-> {}, edits |-> {}, disk |-> "none", isWindows |-> FALSE]
Launched == [NoLaunch EXCEPT !.launches = 1]

(* A backend that ends by itself, and another one; the settings are edited  *)
(* between and while it runs; the launcher dies and is started again.       *)
Restarting == [Launched EXCEPT !.starts = 2, !.exits = 1, !.failures = 1]
Editing == [Launched EXCEPT !.starts = 2, !.screens = {"Settings"},
                            !.edits = {<<"data_dir", "d2">>, <<"port", "unusable">>}]
Dying == [Launched EXCEPT !.launches = 2, !.starts = 2, !.crashes = 1, !.screens = {"Settings"}]

(* Two downloads, also into an unusable directory; on Windows; while the    *)
(* backend runs.                                                            *)
Updating == [Launched EXCEPT !.launches = 2, !.crashes = 1, !.downloads = 2, !.failures = 1,
               !.screens = {"Settings", "Updates"}, !.disk = "old",
               !.edits = {<<"data_dir", "blank">>, <<"data_dir", "unusable">>}]
OnWindows == [Launched EXCEPT !.downloads = 2, !.failures = 1, !.screens = {"Updates"},
                              !.disk = "old", !.isWindows = TRUE]
Both == [Launched EXCEPT !.starts = 2, !.downloads = 1, !.exits = 1, !.screens = {"Updates"}]

MCLauncherWorlds == {NoLaunch, Restarting, Editing, Dying, Updating, OnWindows, Both}

-----------------------------------------------------------------------------
(* A driver for tests, one with all modes and CAT keying, one with few.     *)
MCDriverModes ==
  [d \in {"dummy", "full", "few"} |-> IF d = "full" THEN {"USB", "DATA-USB", "RTTY"} ELSE {"USB"}]

Configured == SettingsStored(ClientSettings("b", [SetDriver(DefaultRadio, "dummy") EXCEPT !.bad = {}]))
NoSettings == [there |-> FALSE, settings |-> DefaultSettings]

NoClient == [launches |-> 0, failures |-> 0, crashes |-> 0, tests |-> 0, toggles |-> 0,
             choices |-> {}, file |-> Configured]
Client == [NoClient EXCEPT !.launches = 1]

(* A host is started, stopped and started again; the first configuration,   *)
(* and a crash; choices in every order; a port shared with the keyer.       *)
Hosting == [Client EXCEPT !.failures = 1, !.toggles = 1, !.tests = 1]
First == [Client EXCEPT !.launches = 2, !.crashes = 1, !.file = NoSettings,
            !.choices = {<<"kind", "dummy">>, <<"good", "name">>, <<"transport", "tcp">>}]
Choosing == [Client EXCEPT !.choices = {<<"kind", d>> : d \in {"dummy", "full", "few"}} \cup
               {<<"data", "DATA-USB">>, <<"rtty", "USB">>, <<"keyer", "cat">>, <<"program", "wsjtx">>}]
Sharing == [Client EXCEPT !.choices = {<<"kind", "full">>,
              <<"keyer", "serial">>, <<"serialPort", "tty0">>, <<"cwPort", "tty0">>, <<"cwBaud", "9600">>}]

MCClientWorlds == {NoClient, Hosting, First, Choosing, Sharing}

-----------------------------------------------------------------------------
programVars == <<vars, launcherVars, clientVars>>

MCInit ==
  /\ Init /\ LauncherInit /\ ClientInit
  /\ Cardinality({k \in 1..3 : <<conn.wanted, lEnv # NoLaunch, rEnv # NoClient>>[k]}) = 1
  /\ ~conn.wanted => ~conn.hidden /\ ~conn.grace
  /\ lEnv = NoLaunch => ~saved.readable

MCNext ==
  \/ Next /\ UNCHANGED <<launcherVars, clientVars>>
  \/ LauncherNext /\ UNCHANGED <<vars, clientVars>>
  \/ ClientNext /\ UNCHANGED <<vars, launcherVars>>

MCFairSpec ==
  /\ MCInit /\ [][MCNext]_programVars
  /\ SocketFairness /\ LauncherFairness /\ ClientFairness

-----------------------------------------------------------------------------
(* A launcher or a radio client that was asked to close closes, whatever    *)
(* its backend or its host does meanwhile, but for a backend that could not *)
(* be killed (handle_backend_exit, attempt_stop, close_if_requested).       *)
ProgramsClose ==
  (win.closing \/ app.closing) ~> (~(win.closing \/ app.closing) \/ StopFailed)
=============================================================================
