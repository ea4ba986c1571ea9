------------------------------ MODULE Launcher ------------------------------
(***************************************************************************)
(* The launcher of the backend (launcher/src/main.rs): its window with the *)
(* screens Main, Settings and Updates, the file of its settings, the       *)
(* backend it starts as a child process and stops, the files it removes    *)
(* and the data files it downloads.  One step is one message of update(),  *)
(* one step of a task it started, or something the user or the system      *)
(* does.                                                                   *)
(*                                                                         *)
(* Abstractions: child and active_token, which are set and reset together, *)
(* are one field, and a process is its own token.  A text of the settings  *)
(* is blank, unusable for its field (no port number, no executable, no     *)
(* directory that can be made), or one of Dirs.  Of the line of status     *)
(* only the backend it tells about is kept.                                *)
(***************************************************************************)
EXTENDS Naturals

CONSTANTS
  Pids,            \* processes of the backend: next_token, each used once
  Dirs,            \* usable texts: as data_dir directories, as log_file_path files
  DefaultDir,      \* the one of LauncherSettings::default
  LauncherWorlds   \* bounds: [launches, starts, failures, exits, crashes, downloads]
                   \* left, the screens and the edits of the user; disk: the files at
                   \* first, isWindows: the platform

NoPid == 0

Blank == "blank"
Unusable == "unusable"
Texts == Dirs \cup {Blank, Unusable}
Required == {"backend_path", "config_dir", "data_dir", "app_dir", "port"}
Fields == Required \cup {"log_file_path"}
Kinds == {"cty.csv", "MASTER.SCP"}
Slots == Kinds \cup {"database", "log"}

(* none: there is no file; old: the one there was at first; new: a later one. *)
Contents == {"none", "old", "new"}

LauncherBounds ==
  [launches : Nat, starts : Nat, failures : Nat, exits : Nat, crashes : Nat,
   downloads : Nat, screens : SUBSET {"Settings", "Updates"},
   edits : SUBSET (Fields \X Texts), disk : Contents, isWindows : BOOLEAN]

ASSUME LauncherAssumption ==
  Pids \subseteq Nat \ {0} /\ DefaultDir \in Dirs /\ LauncherWorlds \subseteq LauncherBounds

Default == [f \in Fields |-> DefaultDir]
NoFile == [readable |-> FALSE, settings |-> Default]
File(settings) == [readable |-> TRUE, settings |-> settings]
NoDownload == [kind |-> "none", dir |-> Blank, step |-> "none", before |-> "none"]

VARIABLES
  win,             \* the struct Launcher; up: the program runs; note: the backend
                   \* whose stop the line of status tells about
  saved,           \* launcher-settings.toml: [readable, settings]
  procs,           \* processes: [state, data, log, lost, spared]; lost and spared for
                   \* history: it lives and its exit will not be told; the kill failed
  waits, stops,    \* wait_for_exit and attempt_stop of each process
  fetch,           \* download_data_file; before for history: the file as it was
  disk,            \* [Slots \X Dirs -> content]
  lEnv

launcherVars == <<win, saved, procs, waits, stops, fetch, disk, lEnv>>

Closed == [up |-> FALSE, screen |-> "Main", settings |-> Default, dirty |-> FALSE,
           child |-> NoPid, stopping |-> FALSE, download |-> "none", confirm |-> FALSE,
           closing |-> FALSE, note |-> NoPid]
Unborn == [state |-> "none", data |-> Blank, log |-> Blank, lost |-> FALSE, spared |-> FALSE]

LauncherInit ==
  /\ win = Closed /\ saved \in {NoFile, File([Default EXCEPT !["port"] = Blank])}
  /\ procs = [p \in Pids |-> Unborn]
  /\ waits = [p \in Pids |-> "none"] /\ stops = [p \in Pids |-> "none"]
  /\ fetch = NoDownload
  /\ lEnv \in LauncherWorlds
  /\ disk = [f \in Slots \X Dirs |-> lEnv.disk]

RequestsFail(n) == lEnv.failures >= n /\ lEnv' = [lEnv EXCEPT !.failures = @ - n]
Use(what) == lEnv[what] > 0 /\ lEnv' = [lEnv EXCEPT ![what] = @ - 1]
Cost(failed) == IF failed THEN 1 ELSE 0
Live(p) == procs[p].state \in {"alive", "killed"}
tasks == <<procs, waits, stops>>

-----------------------------------------------------------------------------
(* The settings.                                                            *)

Load(file) ==
  IF ~file.readable THEN Default
  ELSE [f \in Fields |-> IF file.settings[f] = Blank THEN Default[f] ELSE file.settings[f]]

(* persist_settings_if_dirty: a failure is only logged, and may leave a     *)
(* part of the file.                                                        *)
Persist(failed) ==
  CASE failed -> win.dirty /\ saved' \in {saved, NoFile}
    [] ~failed -> saved' = IF win.dirty THEN File(win.settings) ELSE saved

StillDirty(failed) == win.dirty /\ failed

Launch ==
  /\ ~win.up /\ Use("launches")
  /\ win' = [Closed EXCEPT !.up = TRUE, !.settings = Load(saved)]
  /\ UNCHANGED <<saved, tasks, fetch, disk>>

On(screen) == win.up /\ win.screen = screen /\ ~win.confirm
Keep == UNCHANGED <<saved, tasks, fetch, disk, lEnv>>

OpenScreen(screen) == On("Main") /\ screen \in lEnv.screens /\ win' = [win EXCEPT !.screen = screen] /\ Keep

Back ==
  /\ On("Settings") \/ On("Updates")
  /\ win.download = "none"
  /\ \E failed \in BOOLEAN :
       /\ Persist(failed) /\ RequestsFail(Cost(failed))
       /\ win' = [win EXCEPT !.screen = "Main", !.dirty = StillDirty(failed)]
  /\ UNCHANGED <<tasks, fetch, disk>>

SetDefaults ==
  /\ On("Settings")
  /\ win' = [win EXCEPT !.settings = Default, !.dirty = TRUE, !.note = NoPid]
  /\ Keep

Edit(f, t) ==
  /\ On("Settings") /\ <<f, t>> \in lEnv.edits
  /\ win' = [win EXCEPT !.settings[f] = t, !.dirty = TRUE]
  /\ Keep

-----------------------------------------------------------------------------
(* The backend.                                                             *)

(* The checks of start_backend before the process is made.                  *)
Startable(s) == \A f \in Required : s[f] \in Dirs

MayStart == win.child = NoPid /\ ~win.stopping

StartRefused ==
  /\ On("Main") /\ MayStart
  /\ \E unsaved, failed \in BOOLEAN :
       /\ Persist(unsaved) /\ RequestsFail(Cost(unsaved) + Cost(failed))
       /\ failed \/ ~Startable(win.settings)
       /\ win' = [win EXCEPT !.dirty = StillDirty(unsaved), !.note = NoPid]
  /\ UNCHANGED <<tasks, fetch, disk>>

Own(p) == {<<"database", procs[p].data>>, <<"log", procs[p].log>>}

(* The backend makes its database and its log file where they are missing.  *)
StartBackend(p) ==
  /\ On("Main") /\ MayStart
  /\ Startable(win.settings)
  /\ procs[p].state = "none" /\ \A q \in Pids : q < p => procs[q].state # "none"
  /\ lEnv.starts > 0
  /\ \E unsaved \in BOOLEAN :
       /\ Persist(unsaved) /\ lEnv.failures >= Cost(unsaved)
       /\ lEnv' = [lEnv EXCEPT !.starts = @ - 1, !.failures = @ - Cost(unsaved)]
       /\ win' = [win EXCEPT !.dirty = StillDirty(unsaved), !.child = p,
                             !.stopping = FALSE, !.note = NoPid]
  /\ procs' = [procs EXCEPT ![p] = [Unborn EXCEPT !.state = "alive",
                                      !.data = win.settings["data_dir"],
                                      !.log = win.settings["log_file_path"]]]
  /\ disk' = [f \in Slots \X Dirs |-> IF f \in Own(p)' /\ disk[f] = "none" THEN "new" ELSE disk[f]]
  /\ waits' = [waits EXCEPT ![p] = "waiting"]
  /\ UNCHANGED <<stops, fetch>>

StopBackend ==
  /\ On("Main") /\ win.child # NoPid /\ ~win.stopping
  /\ win' = [win EXCEPT !.stopping = TRUE, !.note = NoPid]
  /\ stops' = [stops EXCEPT ![win.child] = "asked"]
  /\ UNCHANGED <<saved, procs, waits, fetch, disk, lEnv>>

(* A backend ends when it was asked to or killed, or by itself.             *)
Exit(p) ==
  /\ Live(p)
  /\ IF procs[p].state = "killed" \/ stops[p] = "asked" THEN UNCHANGED lEnv ELSE Use("exits")
  /\ procs' = [procs EXCEPT ![p].state = "dead"]
  /\ UNCHANGED <<win, saved, waits, stops, fetch, disk>>

(* attempt_stop: it polls, and kills at the deadline; the poll or the kill  *)
(* may fail.                                                                *)
StopSeesExit(p) ==
  /\ stops[p] = "asked" /\ procs[p].state = "dead"
  /\ stops' = [stops EXCEPT ![p] = "noted"]
  /\ UNCHANGED <<win, saved, procs, waits, fetch, disk, lEnv>>

Kill(p) ==
  /\ stops[p] = "asked" /\ Live(p)
  /\ stops' = [stops EXCEPT ![p] = "noted"]
  /\ \E failed \in BOOLEAN :
       /\ RequestsFail(Cost(failed))
       /\ procs' = [procs EXCEPT ![p] = IF failed THEN [@ EXCEPT !.spared = TRUE]
                                        ELSE [@ EXCEPT !.state = "killed"]]
  /\ UNCHANGED <<win, saved, waits, fetch, disk>>

(* wait_for_exit: it may fail while the process lives.                      *)
WaitEnds(p) ==
  /\ waits[p] = "waiting" /\ procs[p].state = "dead"
  /\ waits' = [waits EXCEPT ![p] = "told"]
  /\ UNCHANGED <<win, saved, procs, stops, fetch, disk, lEnv>>

WaitFails(p) ==
  /\ waits[p] = "waiting" /\ Live(p) /\ RequestsFail(1)
  /\ waits' = [waits EXCEPT ![p] = "told"]
  /\ procs' = [procs EXCEPT ![p].lost = TRUE]
  /\ UNCHANGED <<win, saved, stops, fetch, disk>>

(* The program ends: with it its tasks.                                     *)
EndTasks ==
  /\ waits' = [p \in Pids |-> "none"] /\ stops' = [p \in Pids |-> "none"]
  /\ fetch' = NoDownload

(* handle_backend_exit, its token compared.                                 *)
BackendExited(p) ==
  /\ waits[p] = "told"
  /\ IF win.child = p /\ win.closing
     THEN win' = Closed /\ EndTasks
     ELSE /\ win' = IF win.child = p
                    THEN [win EXCEPT !.child = NoPid, !.stopping = FALSE, !.note = NoPid]
                    ELSE win
          /\ waits' = [waits EXCEPT ![p] = "none"]
          /\ UNCHANGED <<stops, fetch>>
  /\ UNCHANGED <<saved, procs, disk, lEnv>>

NoteStop(p) ==
  /\ stops[p] = "noted"
  /\ stops' = [stops EXCEPT ![p] = "none"]
  /\ win' = IF win.child = p THEN [win EXCEPT !.note = p] ELSE win
  /\ UNCHANGED <<saved, procs, waits, fetch, disk, lEnv>>

CloseLauncher ==
  /\ win.up
  /\ IF win.download # "none"
     THEN win' = [win EXCEPT !.note = NoPid] /\ UNCHANGED <<saved, stops, waits, fetch, lEnv>>
     ELSE \E failed \in BOOLEAN :
            /\ Persist(failed) /\ RequestsFail(Cost(failed))
            /\ IF win.child = NoPid /\ ~win.stopping
               THEN win' = Closed /\ EndTasks
               ELSE /\ win' = [win EXCEPT !.dirty = StillDirty(failed), !.closing = TRUE,
                                          !.stopping = TRUE,
                                          !.note = IF win.stopping THEN @ ELSE NoPid]
                    /\ stops' = IF win.stopping THEN stops
                                ELSE [stops EXCEPT ![win.child] = "asked"]
                    /\ UNCHANGED <<waits, fetch>>
  /\ UNCHANGED <<procs, disk>>

(* The program ends without being asked: killed, or with its event loop,    *)
(* and then Drop kills the backend and waits for it.                        *)
LauncherDies ==
  /\ win.up /\ Use("crashes")
  /\ \E dropped \in BOOLEAN :
       procs' = [p \in Pids |->
                   IF dropped /\ p = win.child THEN [procs[p] EXCEPT !.state = "dead"]
                   ELSE [procs[p] EXCEPT !.lost = @ \/ Live(p)]]
  /\ win' = Closed /\ EndTasks
  /\ UNCHANGED <<saved, disk>>

-----------------------------------------------------------------------------
(* The files.                                                               *)

(* Mutant: only a stop under way forbids it.                                *)
CanRemoveUnlessStopping == ~win.stopping

CanRemove == win.child = NoPid /\ ~win.stopping

(* remove_file: it may be absent or fail.                                   *)
RemoveFile(slot, text) ==
  \E failed \in BOOLEAN :
    /\ failed => text \in Dirs /\ disk[<<slot, text>>] # "none"
    /\ RequestsFail(Cost(failed))
    /\ disk' = IF text \in Dirs /\ ~failed THEN [disk EXCEPT ![<<slot, text>>] = "none"] ELSE disk

RemoveLogFile ==
  /\ On("Settings") /\ CanRemove
  /\ RemoveFile("log", win.settings["log_file_path"])
  /\ win' = [win EXCEPT !.note = NoPid]
  /\ UNCHANGED <<saved, tasks, fetch>>

RemoveDatabase ==
  /\ On("Settings") /\ CanRemove
  /\ win' = [win EXCEPT !.confirm = TRUE]
  /\ Keep

ConfirmRemoveDatabase ==
  /\ win.up /\ win.confirm
  /\ win' = [win EXCEPT !.confirm = FALSE, !.note = NoPid]
  /\ IF CanRemove THEN RemoveFile("database", win.settings["data_dir"])
                  ELSE UNCHANGED <<disk, lEnv>>
  /\ UNCHANGED <<saved, tasks, fetch>>

CancelRemoveDatabase ==
  /\ win.up /\ win.confirm
  /\ win' = [win EXCEPT !.confirm = FALSE, !.note = NoPid]
  /\ Keep

-----------------------------------------------------------------------------
(* The downloads.                                                           *)

StartDownload(kind) ==
  LET dir == win.settings["data_dir"] IN
  /\ On("Updates") /\ win.download = "none" /\ lEnv.downloads > 0
  /\ \E failed \in BOOLEAN :
       /\ Persist(failed) /\ lEnv.failures >= Cost(failed)
       /\ lEnv' = [lEnv EXCEPT !.downloads = @ - 1, !.failures = @ - Cost(failed)]
       /\ win' = [win EXCEPT !.dirty = StillDirty(failed), !.note = NoPid,
                             !.download = IF dir = Blank THEN "none" ELSE kind]
  /\ fetch' = IF dir = Blank THEN fetch
              ELSE [kind |-> kind, dir |-> dir, step |-> "asked",
                    before |-> IF dir \in Dirs THEN disk[<<kind, dir>>] ELSE "none"]
  /\ UNCHANGED <<tasks, disk>>

Target == <<fetch.kind, fetch.dir>>
Step(s) == fetch' = [fetch EXCEPT !.step = s] /\ UNCHANGED <<win, saved, tasks>>

(* The directory, the request, the answer and the temporary file, which is  *)
(* written beside the data file: each of them may fail.                     *)
Download ==
  /\ fetch.step = "asked"
  /\ \/ fetch.dir \in Dirs /\ Step("written") /\ UNCHANGED <<disk, lEnv>>
     \/ fetch.dir \in Dirs /\ Step("failed") /\ RequestsFail(1) /\ UNCHANGED disk
     \/ fetch.dir \notin Dirs /\ Step("failed") /\ UNCHANGED <<disk, lEnv>>

(* Mutant: the old file goes first on every platform.                       *)
RemoveOldAlways ==
  /\ fetch.step = "written" /\ disk[Target] # "none"
  /\ \/ Step("removed") /\ disk' = [disk EXCEPT ![Target] = "none"] /\ UNCHANGED lEnv
     \/ Step("failed") /\ RequestsFail(1) /\ UNCHANGED disk

(* Windows only: the old file goes first.                                   *)
RemoveOld ==
  /\ fetch.step = "written" /\ lEnv.isWindows /\ disk[Target] # "none"
  /\ \/ Step("removed") /\ disk' = [disk EXCEPT ![Target] = "none"] /\ UNCHANGED lEnv
     \/ Step("failed") /\ RequestsFail(1) /\ UNCHANGED disk

(* The temporary file is renamed, or removed.                               *)
Rename ==
  /\ \/ fetch.step = "removed"
     \/ fetch.step = "written" /\ (lEnv.isWindows => disk[Target] = "none")
  /\ \/ Step("done") /\ disk' = [disk EXCEPT ![Target] = "new"] /\ UNCHANGED lEnv
     \/ Step("failed") /\ RequestsFail(1) /\ UNCHANGED disk

(* DownloadFinished, its kind compared.                                     *)
DownloadFinished ==
  /\ fetch.step \in {"done", "failed"}
  /\ fetch' = NoDownload
  /\ win' = IF win.download = fetch.kind THEN [win EXCEPT !.download = "none", !.note = NoPid]
            ELSE win
  /\ UNCHANGED <<saved, tasks, disk, lEnv>>

(* OpenActionFinished: the log, the browser or its app mode was opened.     *)
OpenActionFinished ==
  /\ win.up
  /\ win' = [win EXCEPT !.note = NoPid]
  /\ Keep

-----------------------------------------------------------------------------
TaskSteps ==
  \/ \E p \in Pids : StopSeesExit(p) \/ Kill(p) \/ WaitEnds(p) \/ BackendExited(p) \/ NoteStop(p)
  \/ Download \/ RemoveOld \/ Rename \/ DownloadFinished

LauncherNext ==
  \/ Launch \/ (\E s \in {"Settings", "Updates"} : OpenScreen(s)) \/ Back
  \/ SetDefaults \/ (\E f \in Fields, t \in Texts : Edit(f, t))
  \/ StartRefused \/ StopBackend
  \/ \E p \in Pids : StartBackend(p) \/ Exit(p) \/ WaitFails(p)
  \/ CloseLauncher \/ LauncherDies
  \/ RemoveLogFile \/ RemoveDatabase \/ ConfirmRemoveDatabase \/ CancelRemoveDatabase
  \/ (\E k \in Kinds : StartDownload(k)) \/ OpenActionFinished
  \/ TaskSteps

LauncherSpec == LauncherInit /\ [][LauncherNext]_launcherVars

(* The tasks run, and a process that was killed ends.                       *)
LauncherFairness ==
  /\ WF_launcherVars(TaskSteps)
  /\ \A p \in Pids : WF_launcherVars(procs[p].state = "killed" /\ Exit(p))

-----------------------------------------------------------------------------
(* Properties.                                                              *)

(* A backend that lives is the held child, so that it can be stopped and no *)
(* second one is started beside it (start_backend); and neither its         *)
(* database nor its log is removed under it (can_remove_files).  What the   *)
(* launcher cannot know is the exception: a wait that failed, a process     *)
(* left by a launcher that was killed.  The line of status never tells of   *)
(* the stop of another backend than the held one (handle_stop_outcome).     *)
BackendIsHeld ==
  /\ \A p \in Pids : Live(p) /\ ~procs[p].lost =>
       /\ win.up /\ win.child = p
       /\ \A f \in Own(p) : f \in DOMAIN disk => disk[f] # "none"
  /\ win.note \in {NoPid, win.child}

(* A download gives the whole new file, or leaves the old one as it was,    *)
(* also when the program ends in the middle of it.  On Windows the old file *)
(* goes first, and is lost when the new one does not come                   *)
(* (download_data_file_inner).                                              *)
DownloadsAreAllOrNothing ==
  /\ fetch.step = "done" => disk[Target] = "new"
  /\ \/ lEnv.isWindows
     \/ fetch.step \in {"none", "done"}
     \/ fetch.dir \in Dirs => disk[Target] = fetch.before

(* What may keep a window that is to be closed open: attempt_stop gave up.  *)
StopFailed == \E p \in Pids : Live(p) /\ procs[p].spared
=============================================================================
