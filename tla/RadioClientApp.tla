--------------------------- MODULE RadioClientApp ---------------------------
(***************************************************************************)
(* The window of the radio client (radio-client/src/main.rs): the host it  *)
(* starts and stops, which is the WebSocket server of the radio, the       *)
(* registration at the backend and the runtime of the radio                *)
(* (radio-client/src/lifecycle.rs), its Configure screen                   *)
(* (radio-client/src/configure.rs) and the file of its settings            *)
(* (radio-client/src/settings.rs).  One step is one message of update(),   *)
(* one step of a task it started, or something the user or the system      *)
(* does.                                                                   *)
(*                                                                         *)
(* Abstractions: the events and the labels of the window are left out; a   *)
(* backend is the text of its URL and credentials.                         *)
(***************************************************************************)
EXTENDS Naturals, FiniteSets, RadioSettings

CONSTANTS
  Hosts,           \* hosts, each started once: 1 .. n
  ClientWorlds     \* bounds: [launches, failures, crashes, tests, toggles] left; file: the
                   \* file of the settings at first; choices: the edits of the user

NoHost == 0

ClientSettings(backend, radio) == [debug |-> FALSE, backend |-> backend, radio |-> radio]
DefaultSettings == ClientSettings("default", DefaultRadio)

Ended == [up |-> FALSE, lifecycle |-> "Stopped", settings |-> DefaultSettings,
          screen |-> FALSE, draft |-> DefaultSettings, testing |-> FALSE,
          host |-> NoHost, status |-> NoHost, closing |-> FALSE]
Parts == {"registration", "server", "radio"}
Unstarted == [stage |-> "none", radio |-> DefaultRadio, parts |-> {}, cut |-> "no"]

IsSettings(s) ==
  s = [debug |-> s.debug, backend |-> s.backend, radio |-> s.radio] /\ IsRadio(s.radio)

(* The choices are those of the view; a file is one the program saved.      *)
ChoiceFields ==
  (RadioFields \ {"kind", "program", "wsjtx", "fldigi"}) \cup {"backend", "good", "bad"}
FieldChoices ==
  ({"kind"} \X Drivers) \cup ({"program"} \X Programs) \cup (ChoiceFields \X STRING)

IsClientWorld(w) ==
  w \in [launches : Nat, failures : Nat, crashes : Nat, tests : Nat, toggles : Nat,
         choices : SUBSET FieldChoices, file : {w.file}]

IsSaved(f) == f.there => IsSettings(f.settings) /\ Fits(f.settings.radio)

ASSUME ClientAssumption ==
  /\ Hosts \subseteq Nat \ {0}
  /\ \A w \in ClientWorlds : IsClientWorld(w) /\ IsSaved(w.file)

VARIABLES
  app,             \* the struct RadioClient; up: the program runs; screen: Configure is
                   \* shown; status: the host whose backend status is known
  file,            \* log73-radio-client.json: [there, settings]
  hosts,           \* [stage, radio: the settings it runs with, parts: what of it runs,
                   \* cut: the end of the program that ended it]
  tests,           \* test_connection: how many are asked
  rEnv

clientVars == <<app, file, hosts, tests, rEnv>>

ClientInit ==
  /\ app = Ended /\ tests = 0
  /\ hosts = [h \in Hosts |-> Unstarted]
  /\ rEnv \in ClientWorlds
  /\ file = rEnv.file

Failed(n) == rEnv.failures >= n /\ rEnv' = [rEnv EXCEPT !.failures = @ - n]
Take(what) == rEnv[what] > 0 /\ rEnv' = [rEnv EXCEPT ![what] = @ - 1]
SettingsStored(settings) == [there |-> TRUE, settings |-> settings]

-----------------------------------------------------------------------------
(* The settings and the Configure screen.                                   *)

Initial(settings) == IF Valid(settings.radio) THEN "Stopped" ELSE "NotConfigured"

(* main: load_or_create.                                                    *)
Open ==
  LET settings == IF file.there THEN file.settings ELSE DefaultSettings IN
  /\ ~app.up /\ Take("launches")
  /\ file' = SettingsStored(settings)
  /\ app' = [Ended EXCEPT !.up = TRUE, !.settings = settings, !.lifecycle = Initial(settings)]
  /\ UNCHANGED <<hosts, tests>>

Main == app.up /\ ~app.screen
Configuring == app.up /\ app.screen

MayConfigure == app.lifecycle \notin {"RunningLocal", "Starting", "Stopping"}

ConfigurePressed ==
  /\ Main /\ MayConfigure
  /\ app' = [app EXCEPT !.screen = TRUE, !.draft = app.settings, !.testing = FALSE]
  /\ UNCHANGED <<file, hosts, tests, rEnv>>

(* The choices a pick list offers.                                          *)
Offered(field, value) ==
  CASE field \in {"data", "rtty"} -> value \in ModesOf(app.draft.radio.kind)
    [] field = "keyer" -> value = "cat" => app.draft.radio.kind \in CatKeyed
    [] OTHER -> TRUE

Edited(radio, field, value) ==
  CASE field = "kind" -> SetDriver(radio, value)
    [] field = "program" -> WithProgram(radio, value)
    [] field = "good" -> [radio EXCEPT !.bad = @ \ {value}]
    [] field = "bad" -> [radio EXCEPT !.bad = @ \cup {value}]
    [] OTHER -> [radio EXCEPT ![field] = value]

Change(field, value) ==
  /\ Configuring /\ <<field, value>> \in rEnv.choices /\ Offered(field, value)
  /\ app' = IF field = "backend" THEN [app EXCEPT !.draft.backend = value]
            ELSE [app EXCEPT !.draft.radio = Edited(@, field, value)]
  /\ UNCHANGED <<file, hosts, tests, rEnv>>

ResetDefaults ==
  /\ Configuring
  /\ app' = [app EXCEPT !.draft.radio = DefaultRadio]
  /\ UNCHANGED <<file, hosts, tests, rEnv>>

Cancel ==
  /\ Configuring
  /\ app' = [app EXCEPT !.screen = FALSE, !.draft = DefaultSettings, !.testing = FALSE]
  /\ UNCHANGED <<file, hosts, tests, rEnv>>

(* validated_settings and save_atomic; without them the screen stays.       *)
Save ==
  LET settings == [app.draft EXCEPT !.radio = Normalize(@)] IN
  /\ Configuring /\ Normalizable(app.draft.radio) /\ Valid(settings.radio)
  /\ \/ /\ file' = SettingsStored(settings)
        /\ app' = [app EXCEPT !.screen = FALSE, !.draft = DefaultSettings, !.testing = FALSE,
                              !.settings = settings, !.lifecycle = Initial(settings)]
        /\ UNCHANGED rEnv
     \/ Failed(1) /\ UNCHANGED <<file, app>>
  /\ UNCHANGED <<hosts, tests>>

TestConnection ==
  /\ Configuring /\ ~app.testing /\ Take("tests")
  /\ app' = [app EXCEPT !.testing = TRUE] /\ tests' = tests + 1
  /\ UNCHANGED <<file, hosts>>

(* An answer is taken by the screen that is open, if there is one.          *)
ConnectionTestFinished ==
  /\ app.up /\ tests > 0 /\ tests' = tests - 1
  /\ app' = [app EXCEPT !.testing = FALSE]
  /\ UNCHANGED <<file, hosts, rEnv>>

DebugLoggingChanged ==
  LET settings == [app.settings EXCEPT !.debug = ~@] IN
  /\ Main /\ Take("toggles")
  /\ \/ app' = [app EXCEPT !.settings = settings] /\ file' = SettingsStored(settings)
     \/ rEnv.failures > 0 /\ UNCHANGED <<app, file>>
  /\ UNCHANGED <<hosts, tests>>

-----------------------------------------------------------------------------
(* The host.                                                                *)

StageRuns(h, stage) == app.up /\ hosts[h].stage = stage /\ hosts[h].cut = "no"

StartPressed(h) ==
  /\ Main /\ app.lifecycle \in {"Stopped", "Error"} /\ Valid(app.settings.radio)
  /\ hosts[h].stage = "none" /\ \A g \in Hosts : g < h => hosts[g].stage # "none"
  /\ app' = [app EXCEPT !.lifecycle = "Starting"]
  /\ hosts' = [hosts EXCEPT ![h].stage = "asked"]
  /\ UNCHANGED <<file, tests, rEnv>>

(* start: the settings are read again ...                                   *)
LoadSettings(h) ==
  LET radio == Normalize(file.settings.radio) IN
  /\ StageRuns(h, "asked")
  /\ hosts' = [hosts EXCEPT ![h] =
                 IF Normalizable(file.settings.radio) /\ Valid(radio)
                 THEN [@ EXCEPT !.stage = "loaded", !.radio = radio]
                 ELSE [@ EXCEPT !.stage = "failed"]]
  /\ UNCHANGED <<app, file, tests, rEnv>>

(* ... then the voice assets are loaded, the server and the registration    *)
(* started.                                                                 *)
Serve(h) ==
  /\ StageRuns(h, "loaded")
  /\ \/ hosts' = [hosts EXCEPT ![h].stage = "served", ![h].parts = Parts] /\ UNCHANGED rEnv
     \/ hosts' = [hosts EXCEPT ![h].stage = "failed"] /\ Failed(1)
  /\ UNCHANGED <<app, file, tests>>

(* stop: registration, server, radio, each waited for.                      *)
StopPart(h) ==
  /\ StageRuns(h, "stopping")
  /\ hosts' = [hosts EXCEPT
                 ![h].parts = CASE "registration" \in @ -> @ \ {"registration"}
                                [] "server" \in @ /\ "registration" \notin @ -> @ \ {"server"}
                                [] OTHER -> {},
                 ![h].stage = IF hosts[h].parts = {"radio"} THEN "stopped" ELSE @]
  /\ UNCHANGED <<app, file, tests, rEnv>>

(* The end of the program ends what runs.                                   *)
EndHosts(cause) ==
  hosts' = [h \in Hosts |-> IF hosts[h].stage \in {"none", "gone"} \/ hosts[h].cut # "no"
                            THEN hosts[h] ELSE [hosts[h] EXCEPT !.cut = cause]]

CloseWindow == app' = Ended /\ tests' = 0 /\ EndHosts("close")

StartFailed(h) ==
  /\ StageRuns(h, "failed")
  /\ IF app.closing
     THEN CloseWindow
     ELSE /\ app' = [app EXCEPT !.lifecycle = "Error"]
          /\ hosts' = [hosts EXCEPT ![h].stage = "gone"] /\ UNCHANGED tests
  /\ UNCHANGED <<file, rEnv>>

StartFinished(h) ==
  /\ StageRuns(h, "served")
  /\ IF app.lifecycle = "Stopping" \/ app.closing
     THEN /\ app' = [app EXCEPT !.lifecycle = "Stopping", !.status = NoHost]
          /\ hosts' = [hosts EXCEPT ![h].stage = "stopping"]
     ELSE /\ app' = [app EXCEPT !.lifecycle = "RunningLocal", !.status = NoHost, !.host = h]
          /\ hosts' = [hosts EXCEPT ![h].stage = "held"]
  /\ UNCHANGED <<file, tests, rEnv>>

(* StopPressed, also when the window is to be closed.                       *)
StopHost(closing) ==
  IF app.lifecycle = "Starting"
  THEN /\ app' = [app EXCEPT !.lifecycle = "Stopping", !.closing = closing]
       /\ UNCHANGED hosts
  ELSE /\ app' = [app EXCEPT !.lifecycle = "Stopping", !.closing = closing, !.host = NoHost]
       /\ hosts' = [hosts EXCEPT ![app.host].stage = "stopping"]

StopPressed ==
  /\ Main /\ app.lifecycle \in {"Starting", "RunningLocal"}
  /\ StopHost(FALSE)
  /\ UNCHANGED <<file, tests, rEnv>>

(* Mutant: the close that waited for the stop is forgotten.                 *)
StopFinishedOnly(h) ==
  /\ StageRuns(h, "stopped")
  /\ app' = [app EXCEPT !.lifecycle = "Stopped", !.host = NoHost, !.status = NoHost]
  /\ hosts' = [hosts EXCEPT ![h].stage = "gone"]
  /\ UNCHANGED <<file, tests, rEnv>>

StopFinished(h) ==
  /\ StageRuns(h, "stopped")
  /\ IF app.closing
     THEN CloseWindow
     ELSE /\ app' = [app EXCEPT !.lifecycle = "Stopped", !.host = NoHost, !.status = NoHost]
          /\ hosts' = [hosts EXCEPT ![h].stage = "gone"] /\ UNCHANGED tests
  /\ UNCHANGED <<file, rEnv>>

BackendTick ==
  /\ app.up /\ app.host # NoHost
  /\ app' = [app EXCEPT !.status = app.host]
  /\ UNCHANGED <<file, hosts, tests, rEnv>>

CloseRequested ==
  /\ app.up
  /\ IF app.host # NoHost \/ app.lifecycle = "Starting"
     THEN StopHost(TRUE) /\ UNCHANGED tests
     ELSE CloseWindow
  /\ UNCHANGED <<file, rEnv>>

ClientCrashes ==
  /\ app.up /\ Take("crashes")
  /\ app' = Ended /\ tests' = 0 /\ EndHosts("crash")
  /\ UNCHANGED file

-----------------------------------------------------------------------------
HostSteps ==
  \E h \in Hosts : \/ LoadSettings(h) \/ Serve(h) \/ StartFinished(h) \/ StartFailed(h)
                   \/ StopPart(h) \/ StopFinished(h)

ClientNext ==
  \/ Open \/ ConfigurePressed \/ ResetDefaults \/ Cancel \/ Save
  \/ \E choice \in rEnv.choices : Change(choice[1], choice[2])
  \/ TestConnection \/ ConnectionTestFinished \/ DebugLoggingChanged
  \/ (\E h \in Hosts : StartPressed(h)) \/ StopPressed \/ BackendTick
  \/ HostSteps
  \/ CloseRequested \/ ClientCrashes

ClientSpec == ClientInit /\ [][ClientNext]_clientVars

(* The tasks that start and stop a host run, and their messages arrive.     *)
ClientFairness == WF_clientVars(HostSteps)

-----------------------------------------------------------------------------
(* Properties.                                                              *)

Alive == {h \in Hosts : hosts[h].stage \notin {"none", "gone"} /\ hosts[h].cut = "no"}
Stages(lifecycle) ==
  CASE lifecycle = "Starting" -> {"asked", "loaded", "served", "failed"}
    [] lifecycle = "RunningLocal" -> {"held"}
    [] lifecycle = "Stopping" -> {"asked", "loaded", "served", "failed", "stopping", "stopped"}
    [] OTHER -> {}

(* There is one host at most, in the stage the window shows, with the       *)
(* status of the backend of that host, and a window that was not stopping   *)
(* is not closed over a host (StartFinished, StopPressed).                  *)
OneHost ==
  /\ \A g, h \in Alive : g = h
  /\ \A h \in Alive :
       /\ app.up /\ hosts[h].stage \in Stages(app.lifecycle)
       /\ app.host \in {NoHost, h} /\ (app.host = h <=> hosts[h].stage = "held")
  /\ app.lifecycle = "RunningLocal" => app.host # NoHost /\ app.status \in {NoHost, app.host}
  /\ \A h \in Hosts : hosts[h].cut = "close" => hosts[h].stage # "held"

(* It runs with the settings that the window and the file have, which are   *)
(* valid and stay while it lives (StartPressed, ConfigurePressed, Save).    *)
SettingsStay ==
  /\ app.up => file = SettingsStored(app.settings)
  /\ \A h \in Alive :
       /\ ~app.screen /\ Valid(Normalize(app.settings.radio))
       /\ hosts[h].stage \notin {"asked", "failed"} => hosts[h].radio = Normalize(app.settings.radio)

(* What is drafted fits its driver, in whatever order it is chosen, so that *)
(* only what is missing or a text keeps it from being saved (set_driver and *)
(* the options of the view).                                                *)
DraftsFitTheDriver == app.screen => Fits(app.draft.radio)

(* The host that runs is the one the window shows, and runs with what was   *)
(* configured; what is configured fits the radio.                           *)
HostRunsTheSettings == OneHost /\ SettingsStay /\ DraftsFitTheDriver
=============================================================================
