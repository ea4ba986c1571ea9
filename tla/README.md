# Log73: verification

Log73 is an amateur-radio contest logger: a Rust backend (Axum, SQLite), a React
frontend of logger windows, a library that drives radios (`radio-io`), a client that
offers the radios of another computer (`radio-client`) and a launcher. This directory
holds TLA+ modules translated from that code, the TLC configurations that check them
on small instances and theorems about them that TLAPS checks.

Paths below are relative to `src/`; frontend files are under `src/src/`.
`PROJECT.json` lists components, runs, mutants, hazards, findings and theorems, and maps every
definition to the lines it translates.

## 1. The system

| Component | State | Operations | Talks to |
| --- | --- | --- | --- |
| Database worker (`backend/src/db`) | SQLite tables; cache of logs, owners, counts, contacts, next serials; a revision per log | create, update, delete a log; upsert, delete contacts; load; allocate a serial; restart | a queue of 64 commands from all requests; readers use the cache directly |
| Log cache (`log_cache.rs`) | contacts of a log by position, id and call, with the revision they show; processors (scoring, statistics, band map, partial calls) | page, commit, delete, rescore, create and delete a log | database worker; event broadcast |
| Contest rules (`contest_rules.rs`) | the rules of every contest, made once at start-up | merge files, compose, normalise, validate | scoring, validation, windows |
| Scoring (`scoring.rs`), validation (`validation.rs`) | per log: originals of each duplicate, holders of each multiplier and bonus, totals | score a list; take a contact in, take it back | log cache, contact routes |
| Statistics, partial calls (`stats.rs`, `supercheckpartial.rs`) | times by operator; known calls | on load, upsert, delete | log cache |
| HTTP and sockets (`main.rs`) | per-socket subscription | routes; `handle_socket` | everything; broadcast channels of 128 and 512 events |
| Outbox (`useContactsOutbox.js`) | the window's contacts with status Pending, Updating, Failed or Committed; keys under way; copy in local storage | log, edit, delete, load, commit, retry, receive events | contact routes, events |
| Socket controller (`reconnectingSocketController.js`) | current connection, timers, status | connect, retire, ping, foreground, dispose | browser sockets, `handle_socket` |
| Serial allocator (`useSerialAllocator.js`) | next serial, contacts waiting, request in flight, retry timer | initialize, observe, reserve, refresh | serial routes, outbox, entry field |
| Band map (`bandmap.rs`, `useBandMap.js`) | spots with a sequence; buffering window | upsert, expire, snapshot, refresh | broadcast, bridge task |
| DX cluster (`dxcluster.rs`) | one task per configuration; store of spots; last state | apply a configuration, read lines, send, clear, prune | band map through the bridge |
| Remote radios (`client_radios.rs`, `radio-client`) | leases with deadlines beside database rows | register, heartbeat, leave, expire, delete | database, radio client |
| Radio sessions (`websocket.rs`, `lifecycle.rs`) | registry of radios with users; a slot per running radio with its references | acquire, release, edit, delete, stop the host | HTTP routes, managed radios |
| Managed radio (`cat_runtime.rs`, `cw_task.rs`, `voice.rs`, `keyers/`) | CAT connection, RIT, mode; queue of texts; push-to-talk | commands, reports, key, play, stop | the rig, keyers, sessions |
| WSJT-X and digital (`wsjtx.rs`, `digital_io.rs`) | who holds the target of a radio; a listener; an interface to FLDigi | claim, take back, start, stop, send | windows of the radio |
| Launcher (`launcher/src/main.rs`) | window with its settings, their file, the backend process it holds, a download | start, stop, edit, remove files, download, close | backend process, data files |
| Radio client window (`radio-client/src`) | settings, draft, host that runs, settings file | start, stop, configure, test, close | server, registration and runtime of the radio |
| Authentication, configuration (`auth.rs`, `db/config.rs`) | the login, its generation, checked verdicts and those under way | check, replace | every request |

What makes this code hard:

* **The gate and the queue.** Requests of one log take turns at a fair mutex, but the database has a
  queue of its own. A request whose browser disconnects is dropped at an `await`; the command it
  queued still runs. Deleting a log and another log's use of a freed row id do not wait for the gate.
* **At-least-once commits.** The browser sends a contact until it sees an answer, the backend has no
  request id, and pages, events, edits and reloads change the list meanwhile.
* **Scores kept up by differences.** A deleted or edited contact passes its original, its multipliers
  and bonuses on to contacts that were worth nothing before; all of it must equal a fresh scoring.
* **Three sources of a serial.** The table, the cache and the committed contacts decide the next
  serial; the window keeps one it has not used, across reloads and request failures.
* **Timers and callbacks of things that are gone.** Retired sockets, left logs, cancelled requests,
  aborted tasks, radio clients that were started twice.
* **Broadcast.** Channels drop events for slow readers, and events are sent after the locks that order
  the changes are released; notifications wake only those who wait already.
* **A transmitter.** A text or a file that is stopped must be stopped, and push-to-talk released,
  whichever of the radio, the keyer, the sound and the windows fails first. The code tries to release twice
  and to clear a keyer once; a keyer that refuses and a radio that fails twice leave something on the air.

The properties that make each component correct:

* Database: the cache and its indexes equal the tables; serials strictly increase; changes get fresh
  revisions.
* Log cache: a cached log that carries the current revision shows the current contents, its processors
  too; an answer is at least as new as the request; every request ends. The ordered list, its indexes
  and the rates that are kept up are those of a log loaded now.
* Scoring: one original per duplicate key; the score is that of the list and of the exported file;
  windows show it when all is quiet.
* Outbox: a contact is committed by one request at a time; a second row needs a lost answer or a page
  that overtook the answer; no logged contact disappears; a pending contact has something to wait for.
* Socket: it always waits for something that will come, and stays connected.
* Serials: none is sent twice, none is offered that the window has seen, and one always comes.
* Band map and cluster: a live window shows the store as it was after some change, hears of every later
  one, never goes back, and settles; the map has what the cluster has; one task listens.
* Remote radios: a radio is listed while its client beats, under the address of the client that holds
  the lease, and not long after it is gone.
* Radio: it runs exactly while somebody uses it, with the configuration they were given; it cannot be
  edited while in use; windows are shown what the radio is; every text is answered with the truth.
* Targets: contacts and texts belong to the window that holds the target; listener and interface follow it.
* Login: a verdict is one of the configuration in force; a committed change takes effect.
* Desktop programs: a backend that lives is held, and its files are there; a download is whole or leaves the
  old file; the host that runs is the one the window shows, with what was configured; a program that is to
  close closes.

## 2. Modules

| Module | Models | Role |
| --- | --- | --- |
| `VersionedLogs` | what the layers above rely on of the database | abstract specification: each change of a log comes with a revision never used before |
| `LogDatabase` | `db/worker.rs`, `db/cache.rs`, `db/contacts.rs`, `db/schema.rs` | implements `VersionedLogs` (`ImplementsVersionedLogs`) |
| `LogCache` | `log_cache.rs` and the handlers in `main.rs`, `validation.rs` | extends `VersionedLogs`: the requests run above the abstract database |
| `CachedLog` | the list inside one cached log, `stats.rs`, `supercheckpartial.rs` | what is kept up contact by contact, a request a step |
| `ContestCatalog`, `ContestRulesStore` | `contest_rules.rs` | pure: from the files of the catalog to the rules of every contest |
| `ScoringRules`, `ContactRules` | the rules of `scoring.rs`, `validation.rs` | pure: worth and validity of a contact, score of a list |
| `ScoredLog` | `IncrementalLogState`, `commit_contacts` of `main.rs` | the score kept up, with requests, windows and events |
| `ContactsOutbox` | `useContactsOutbox.js`, `contactsOutboxState.js`, `LoggerScreen.jsx` | several windows, browsers, one log, the network |
| `ReconnectingSocket` | `reconnectingSocketController.js`, the socket loop of `main.rs` | one controller, the browser's sockets, the server |
| `SerialAllocator` | `useSerialAllocator.js`, `serialAllocatorState.js`, `useEntryFields.js` | windows, local storage, the serial routes |
| `BandMap` | `bandmap.rs`, the band map session of `main.rs`, `useBandMap.js` | store, broadcast channel, session, one window |
| `DxCluster` | `dxcluster.rs`, `update_config` and the bridge of `main.rs` | manager, tasks, store, events to the band map |
| `ClientRadios` | `client_radios.rs`, `backend_client.rs`, the routes of `main.rs` | processes of radio clients, the network, leases and rows |
| `LoginConfig` | `auth.rs`, `db/config.rs`, `update_config` of `main.rs` | requests with a password, changes of the configuration |
| `Launcher` | `launcher/src/main.rs` | window, tasks, backend processes, the files |
| `RadioSettings` | `radio-io/src/config.rs`, `modes.rs`, `configure.rs` | pure: normalization and validity of the settings of a radio |
| `RadioClientApp` | `radio-client/src/main.rs`, `lifecycle.rs`, `configure.rs`, `settings.rs` | window, host, settings file |
| `RadioSessions` | `lifecycle.rs`, `websocket.rs` | sessions, edits, the registry, the life of a radio |
| `ManagedRadio` | `cat_runtime.rs`, `commands.rs`, `rit.rs`, `cw_task.rs`, `voice.rs`, `keyers/` | one running radio, its keyer and voice, the devices |
| `WsjtXTargets`, `DigitalIo` | `wsjtx.rs`, `digital_io.rs`, `useRadioSocket.js` | windows of one radio and what they share |
| `LogDatabaseProofs`, `LogCacheProofs`, `ContactsOutboxProofs`, `SerialAllocatorProofs`, `BandMapProofs`, `ManagedRadioProofs` | | the theorems about these modules |
| `RadioClientProofs` | | the theorems about `RadioSessions`, `WsjtXTargets` and `DigitalIo` |
| `ServiceProofs` | | the theorems about `LoginConfig`, `ClientRadios`, `DxCluster`, `Launcher` and `RadioClientApp` |
| `MC...` | | the instances TLC checks |

**LogDatabase.** SQL reads and writes happen on one thread, so a command is one action: its
transaction and the cache publication after it. `logRows`, `qsoRows` and `serialRows` are the tables;
`logs`, `revision`, `owners`, `counts`, `contacts`, `nextSerial` and `lastRevision` are
`DatabaseCache`; `issued` is history. `Restart` rebuilds the cache from the tables
(`DatabaseCache::load`). A command that fails after `load_contacts` is `LoadContacts`. A contact is its
log, serial, band and time. `qsos` has no AUTOINCREMENT, so a freed id comes back. `i64` is scaled to
`MaxI64`.

**LogCache.** A request is a task with a program counter; it stops at every `await`. A step from one
`await` to the next is an action. `gate` is the per-log mutex, `queue` the commands on their way to
the worker, `Cancel` the drop of a task by axum when its client goes away: the gate is released and the
queued command remains. The worker's effect on the log is an action of `VersionedLogs`. The
processors' state is the contents they were computed from, so a missed notification shows.

**CachedLog and ScoredLog** look inside the turn at the gate, which `LogCache` shows to be exclusive; so
a request is one step. `CachedLog` keeps the list with its positions and calls, the entries of the rates
and the known calls. `ScoredLog` keeps `tracker`, the maps of `IncrementalLogState`; what a contact is
worth by the rules is computed once (`Worth`), as it does not change. The windows are one window that
sees every event; an event that waits in the channel may be overtaken. The events of a commit leave in one
step, where `main.rs:2809` sends them one by one after the gate.

**ContestCatalog and ContestRulesStore** are operators. YAML is made of texts, other scalars, maps and
lists. An error is the value `Fail` in the first module and the empty set in the second: one error
stops the start of the backend. What comes out has the form in which `ScoringRules` and `ContactRules`
read it. Recursion is a RECURSIVE operator, so nothing is proved about them.

**ContactsOutbox.** One action is one JavaScript turn with the render and the effects that follow: the
list is saved (lines 61–65) and at most one commit starts (lines 211–304). Of the events after a deletion only
the deletion is modelled, not those of the contacts that it rescored. Requests travel through the
stages sent, stored and answered; the network may lose an answer, the operator may reload the page.

**ReconnectingSocket.** `conn` is the controller, `sock` the browser's sockets with the events still to
deliver (`mail`). The controller's functions are operators from a set of outcomes to a set of outcomes,
because `createSocket`, `send` and `close` may throw and the code catches them in the middle of a turn.

**SerialAllocator.** `win` holds each window's manager, list and entry; `calls` are the requests under
way, `orphan` once their manager was left. `unseen` is history: the contacts that waited in local storage when
the manager was made, until the list changes and the manager sees it.

**BandMap.** `store` is `BandMapSpotStore`; an operation is a draft of it with the events it causes, and
`unsent` holds them until their writer has sent them, after the lock. `conn` is one connection: the
receiver of the broadcast channel, the message the subscription waits to push and the direct channel.
`win` is `bandMapSyncRef` with the spots it shows and its fetches. `past`, `readies`, `failed` and
`misled` are history. A message and the React updater it defers are one turn. Windows do not influence each
other, so there is one.

**DxCluster, ClientRadios, LoginConfig.** A task or request is a program counter that stops at every
`await` and every lock. In `DxCluster` an aborted task may finish the step it is in, and events leave
after the lock of the store; the locks of state and of channel that `start_task` and `stop_task` take one after
the other are one step. In `ClientRadios` two processes may use one uuid, as a restart or a copied
settings file makes them; time passes in ticks of which a lease lasts three. In `LoginConfig` a check
runs on a blocking thread that outlives its request, and a verdict is installed only for the
generation it was started under; `auth.cached` are the verified passwords with the tick they were verified at
and the access that used them last, the least recent of which makes room.

**Launcher, RadioClientApp.** An action is one message of `update()`, one step of a task it started, or
something the user or the system does: the programs are event loops, and what may go wrong is the order in
which their tasks report. In `Launcher` a process is its own token (`Pids`); `waits` and `stops` are the tasks
that wait for it and stop it, `fetch` is the download, `disk` has what each data file, the database and the log
hold. In `RadioClientApp` `hosts` are the hosts that were started, each with the stage of its start or stop;
`RadioSettings` says what the settings become before they are stored or used.

**RadioSessions and ManagedRadio.** A step of `RadioSessions` is what is done under one lock or between
two awaits. `reg` is the registry entry with its users and reservation, `slot` the state of the managed
radio with its references, `tasks` the number of tasks that drive the devices. `ManagedRadio` is what runs
in between: the CAT runtime (`phase`, `online`, `shown`, `tracked`), the keying task, and devices that
report every change and send what is in their buffer. A radio may refuse a command, or take it and lose the
answer; it keeps transmitting when its connection breaks. `guard` is the push-to-talk guard: `active`, the
second attempts to release that are still to run (`late`), and `lapsed`, once nobody is left to release.
`uncleared` are the texts of a keyer that could not be cleared, `cut` the files of unknown length.

**WsjtXTargets and DigitalIo.** One radio, two windows. The manager's map has the holder of the target,
the controller task reads its commands later, and the sockets carry what each window is told. The events of all
radios go through one channel of `EventSlots`; a bridge that lags misses the oldest (`skipped`). For the channel
of targets only the newest matters, and a bridge that lags still gets it. FLDigi may refuse a request and go on
(`FaceRefuses`) or die.

Modules are put into one run where they share nothing (`MCBackendServices`, `MCRadioTargets`, `MCScoredLog`,
`MCDesktopPrograms`, which also holds `ReconnectingSocket`): a world gives requests to one of them, so the state space is a union and no product.

### Order of the work

1. Done: the modules above and the theorems of section 5.
2. What is left to prove are the properties that section 5 lists as only model-checked, each with its reason.

## 3. Runs

| Run | Instance | Shows |
| --- | --- | --- |
| `scoring` | nine logs of eight kinds of contest with 2 or 3 requests each; one log of up to 5 contacts for the lists and rates | the score that is kept up is that of the list and of the exported file, and windows show it; the indexes, pages, rates and known calls are those of a log loaded now |
| `log_cache` | five worlds of 2 or 3 requests, 1 or 2 logs, 2 contact ids, 1 dropped request | a cached log at the current revision shows the current contents, answers are fresh, every request ends |
| `outbox` | six worlds: search and refresh, reload, refused contact, two browsers that edit and delete, rescoring, a row id that is used again | one request per contact and none that waits for nothing (`CommitsAreTracked`), a second row only for a named cause, nothing logged is lost |
| `desktop_programs` | six worlds of `Launcher`; `RadioClientApp` with three drivers and two hosts; both kinds of socket with 2 browser sockets, 2 failures, 2 wake-ups | the backend is held, its files are there, downloads are whole; the host runs the settings; programs close; the connection is kept |
| `serial` | four worlds: crossing reservations, leaving and reloading, counting windows, counting windows that are left and reloaded with contacts that wait | no serial twice, none seen is offered, one always comes |
| `band_map` | 3 changes, 2 writers, channels of 1; three worlds: a snapshot fails, the map goes off and on, the socket is lost while spots change | the window shows a prefix of the store's history, hears of what it misses, settles on the store |
| `radio_sessions` | 3 sessions, 2 editors; three worlds: windows come and go, the radio is edited, the host stops | one task, the agreed configuration, no edit in use, everyone is served or told unless stranded, the host stops |
| `managed_radio` | 3 texts, 3 kinds of keyer and voice files; eight worlds of tunings, failures, stops and losses, of the connection during a file and of a keyer that cannot be cleared among them | what is shown is the radio, a stopped text goes out only from a keyer that could not be cleared, each text is answered with the truth, push-to-talk outlives its file only by named failures |
| `radio_stranded` | as `radio_sessions` | violation: the finding of section 4 |
| `backend_services` | the database with 2 logs, 2 row ids, 3 payloads (one number in two bands, one at the top of the integers), 4 revisions; two client processes or two clients; a cluster reconfigured up to three times; up to three logins and two changes | every command sequence with restarts keeps the cache and the indexes equal to the tables, serials increase, and the whole implements `VersionedLogs`; thirteen worlds of `ClientRadios`, `DxCluster` and `LoginConfig` |
| `radio_targets` | two windows, a channel of 2 events | ten worlds of `WsjtXTargets` and `DigitalIo`: claims, returns, modes, contacts, lag; texts, stops, refusals, deaths |
| `radio_skips` | as `radio_targets` | violation: the second finding of section 4 |

**Bounds.** Two logs, two ids and two contacts suffice for what these components can confuse: a row id
that is used again, in the same log or another; two rows with the same number; an answer that belongs
to an older request. With `MaxI64 = 2` serials go from the first to the last in one step. Three requests in `log_cache` let one hold the gate, one wait and one bypass it. A
third browser socket only repeats the second, since a retired one is never used again. A channel of two events
is full after one contact and one other event, which is what the 32 of the code come to. Two windows make
every conflict about a target; three sessions let one leave, one wait for the shutdown and one arrive
behind it. Each contest of `scoring` puts together rules of contests of `data/contests`, so that each kind of
points, multiplier, cap, bonus and factor occurs, and its contacts repeat calls, bands and modes; credits are
passed on with one contact to spare. Texts that the code scans (prefixes, locators, shapes) are tables.
Worlds are small because one failure at a chosen moment is what makes each case; every world lists its
remaining bounds in `env`. `MaxRevision` stops the creation of new revisions, not other steps.

**The catalog.** The definitions of `ContestCatalog` are compared with what they should return over all
small inputs, before the states of `scoring` are explored (assumptions of `MCContestCatalog`): composition
succeeds exactly for sound references (2 × 125 graphs of profiles and contests), whatever was composed
before; a contest's own word precedes the contest it extends, and that its last profile; a merged list holds
every item once, keeps the order of what was not placed and puts the last one where it says; presets are all
expanded or refused; value sets are hidden, used and cut as they say. One catalog of two files is loaded
whole into the rules of one of the contests that `scoring` checks, and twelve broken variants of it are
refused.

**Deadlock.** It is checked where states in which nothing can happen would be an error: a window of
`SerialAllocator` can always ask, clear or load again, and `Quiescent`
or `Finished` allow stuttering in the others only when no request, event, timer or queued command is left.
The runs with CHECK_DEADLOCK FALSE (`radio_sessions`, `radio_stranded`, `managed_radio`, `backend_services`,
`radio_targets`, `radio_skips`, `desktop_programs`, `scoring`) end when the bounds are used up; what must not be left over then is stated by
their properties.

**Fairness.** Weak fairness only, on steps that some scheduler does owe: Tokio polls a task that can go on
and its mutex is FIFO, the worker thread takes every queued command, the browser delivers events and runs
its timers, the backend answers a request that reached it, time passes. Operators, reloads, disconnections
and failures promise nothing; they are bounded in number where liveness is claimed. `outbox`, `scoring` and
the cluster and login worlds need no fairness: their properties speak of states at rest, in which no step
but the operator's or the network's is left, and as those are bounded such a state is always reached.

**Mutants.** Every property of every passing run has a mutant in the module it concerns: a change
of a mapped definition like a real slip (a dropped cleanup, an index that is not updated, a check on
the wrong value) which violates it.

## 4. Findings

*A session that waits for a closing radio may wait for ever* (`radio_stranded`). `acquire`
(`radio-io/src/radio_manager/lifecycle.rs:93`) takes the notification of a closing radio, releases the lock
and then waits; `notify_waiters` wakes only those who wait already. `docs/radio-client-plan.md:307` says the
connection "is acquired when a logger connects". `ServedUnlessStranded` shows that this is the only way not
to be served.

*A contact of WSJT-X may be skipped in silence* (`radio_skips`). The contacts and errors of all radios go to the
bridge of every connection through one channel of 32 events (`wsjtx.rs:79`). A bridge that waits for its window
and falls that far behind gets `Lagged` and goes on (`radio-io/src/websocket.rs:806`): the contact is gone, on a
connection that lives. `docs/radio-client-plan.md:595` says that "Lag/drop conditions must emit errors; dropping
a Logged ADIF event silently is not acceptable." `ContactsGoToTheTarget` shows that a contact is lost only so or
with its connection.

Weaknesses that a passing property names as an exception, or that the models have and no property forbids:

* **Log cache and outbox.** Two edits that run at once both pass the comparison of sent serials
  (`validation.rs:389`; `docs/api-contract.md:88`). The answer to an earlier request replaces a newer edit
  (`useContactsOutbox.js:238`; `docs/manual.md:405`). Two windows of one browser overwrite each other's list
  (`useContactsOutbox.js:62`). A page that overtakes the answer of a commit gives a contact a second row
  (`overtaken` in `DuplicatesNeedACause`). The id of a deleted row is given out again (`schema.rs:85`), and
  then the answer to a retried request goes to the entry of the deleted contact and the contact itself is sent
  once more (`discarded` in the same property). A commit may answer success with a null contact
  (`log_cache.rs:269`; `docs/api-contract.md:84`). A refused contact that is the latest keeps the others
  waiting (`contactsOutboxState.js:60`).
* **Serials.** A window without reservations that is left or reloaded with contacts still to be committed lists
  them before its new manager exists; the effect that observes contacts runs when the list changes
  (`useSerialAllocator.js:235`), so until then the manager may offer one of their serials (`unseen` in
  `SerialsAreNew`). A reopened window with a contact still to be committed offers its serial again
  (`useSerialAllocator.js:239`; `docs/manual.md:263`). A change of the mode blanks the serial
  (`useEntryFields.js:42`).
* **Events.** A session that falls 128 events behind skips them silently (`main.rs:880`). Events of two
  commits may cross (`main.rs:2809`).
* **Band map.** A window exactly one behind takes the report of a session that lagged for a change without
  content (`main.rs:1017`; `misled`). The second Ready of a map switched off and on is ignored during the
  first fetch (`useBandMap.js:178`; `readies`). A snapshot that fails is not tried again
  (`useBandMap.js:221`; `failed`). The bridge from the cluster skips events when it lags (`main.rs:1053`). A
  commit removes spots that an operator saved (`bandmap.rs:432`).
* **Cluster and configuration.** Two spots of one call can drift within 0.1 kHz of each other. Events that
  leave after the lock may cross. A dropped `apply_config` leaves no task. A dropped `update_config` leaves
  the bands of the old region for good, as the next one sees no change (`main.rs:1512`).
* **Scoring.** A request that commits an original and its duplicate again counts multipliers twice: the
  parts and the totals differ until the next load. A log that is loaded is scored newest first, one that
  grew in the order of commits, the exported file by time (`main.rs:1622`). `totals().unwrap_or_default()`
  sends zeros if the log was changed meanwhile. A contact is validated before its country is filled in,
  so the rule for some countries may be broken without a warning (`main.rs:2758`); no property covers it, as the code
  promises nothing there. A request that is dropped leaves windows with an older score.
* **Radio.** A report that was queued before `SetMode` loses the requested DATA; after a RIT step it resets
  where the next one starts. A keyer whose clear fails sends what it has after the stop, and only the log says so
  (`cw_task.rs:470`; `uncleared`). The second attempt to release push-to-talk may cut the next file; when it fails
  too, is overtaken by the shutdown of the radio, or the radio took a request whose answer was lost, the radio
  stays keyed until the next file (`voice.rs:49`, `voice.rs:88`; `lapsed`). A file of unknown length is cut after
  500 ms and reported sent (`voice_keyer.rs:272`; `cut`). The earlier idle report
  of a CAT keyer ends a later wait. A text that a Winkeyer finished within one poll is reported failed.
  Every command restarts the attempt to connect. A session subscribes after its first snapshot. An HTTP
  request that is dropped between table and registry leaves them apart until the next edit. A session that
  acquires misses the broadcast of the shutdown (`websocket.rs:517`).
* **Remote radios.** Two registrations of one uuid may cross (`main.rs:1916`;
  `docs/radio-client-plan.md:582`); a register request that is dropped leaves a row without lease; a client
  that stops after 3 s leaves its lease up to 30 s; ports are checked, then used (`main.rs:2302`); a freed
  id is used again.
* **WSJT-X and digital.** A window that comes back claims the target it held and takes it from the one that
  has it (`useRadioSocket.js:115`; `docs/radio-client-plan.md:467`). Broadcasts of the target may cross
  (`wsjtx.rs:183`, `wsjtx.rs:251`). A listener that did not start is held to run until the target or mode
  changes. A text that was checked before the target moved is still sent, and a window that lost the target
  cannot stop its own (`digital_io.rs:258`). A stop that FLDigi refuses leaves its texts on the air
  (`digital_io.rs:647`). An interface that dies is not started again.
* **Contest rules.** `remove`, `before` and `after` are neither obeyed nor refused in a list that meets no
  inherited one, though `docs/contest-rules.md` describes them without that condition; ids that only a
  preset brings do not make a list keyed, since presets are expanded afterwards.
* **Launcher.** A backend that could not be killed leaves the launcher stopping, and its window open, until the
  backend ends by itself (`StopFailed`). A wait that fails loses the process (`lost`). On Windows the old data
  file is removed first and is gone when the rename fails (`launcher/src/main.rs:838`). The settings are
  written in place (`launcher/src/main.rs:1661`), so a crash in the middle leaves no readable file.
* **Radio client.** A second close request while the host stops closes the window at once, over the host
  (`radio-client/src/main.rs:488`), though `docs/radio-client-plan.md:271` says that closing "performs the
  same graceful stop sequence, with a bounded timeout".

Other divergences seen while reading:

* An event may come back to the session that caused it, because the payload keeps the session id of the
  window that logged the contact (`contactsOutboxState.js:88`, against `README.md:465`).
* A rescored contact that is matched by `loggerScreenHelpers.js:299` may be sent again in a loop
  (`docs/manual.md:416`).

## 5. Proofs

Every theorem holds for all values of the constants that meet the assumptions named at the end. Each rests on
an inductive invariant, which is not the property itself: the property forgets what the next step needs.

**`LogDatabaseProofs`**, for any number of logs and contacts, any width of the integers and any payloads:

* `TypeCorrect`: `TypeOK` is inductive. The lemmas before it say that the index operators (`UpdateCount`,
  `UpdateBands`, `CachedInsert`, `CachedRemove`, `CachedFrom`) stay in `CachedType`; counting needs the
  finiteness of `ContactIds`.
* `SerialsNeverReissued` (`SerialsStrictlyIncrease`): a serial could be issued again if the table fell behind.
  `SerialInv` adds that each serial issued for a log is below its row of `serialRows`, and that the cached next
  serial is the stored one. The deletion of the log resets the row together with the history of that log.
* `CacheIsTheDatabase` (`CacheMatchesDatabase`): each index operator, applied to the index of some rows, gives
  the index of the rows after the change; so a command that publishes its differences has published what a
  reload would compute. The argument counts: an insertion adds one to the cardinality behind each count.
* `SerialsAboveCommitted` (`AllocationAboveCommitted`, an action property): an allocation lies above every
  serial committed in its log, whether the log is loaded or not.
* `DatabaseIsVersioned` (`ImplementsVersionedLogs`): every initial state is one of `VersionedLogs`, and every
  step of the database is a step of `VersionedLogs` or a stutter, under the mapping from tables and revisions.

**`LogCacheProofs`**, for any number of logs, contacts, requests and queued commands:

* `CacheIsCoherent` (`CoherentWhenCurrent`) and `CacheAnswersAreFresh` (`AnswersAreFresh`) follow from `CacheInv`:
  a request inside the gate holds it (`GateIsHeld`), a queued command is that of its request, which waits for
  it or is gone (`QueueIsAwaited`), each request knows at each place what it was answered (`RequestOK`), a
  cached log shows the database unless the database moved on (`Shows`), and the processors follow the cache
  except between replay and publication (`ProcessorsFollow`). Revisions are never handed out twice, so a cached
  log with the current revision is the current log; a mutation applied to the revision before it as well.

**`ContactsOutboxProofs`**, for any windows, browsers, contacts and bounds:

* `CommitsStayTracked` (`CommitsAreTracked`): the keys a window has under way are those of the requests it waits
  for, one each, and a pending contact has a request or a timer to wait for. `OutboxInv` adds that a request
  knows a page of its window that was opened, so that an answer for an earlier page is nobody's.
* `LoggedContactsAreKept` (`LoggedContactsSurvive`), from `SurvivalInv`, where each browser has one window: what a
  list holds unsent is saved, a contact without a row is in a list, and an answer without an error means a
  row. The list of the window passes through publication, deletion, pages and the saved copy; `Kept` and
  `SortContacts` are shown to drop and add nothing that is unsent (`KeptElements`, `SortedElements`).
* `DuplicatesHaveACause` (`DuplicatesNeedACause`), from `CauseInv`, where each browser has one window and no
  contact was deleted. Rows, pages, events, requests and lists agree on the contact of each row
  (`RowsKeepTheirContact`); a contact without a row id is in one list, once, and its request is waited for only
  while it is there (`OneListEach`, `HeardOnce`). `Counts` is the bound itself with what may still come: rows
  made, plus requests that nobody waits for and that may make one (`Strays`), plus one while the window may make
  one (`MayInsert`), are at most one more than the causes. A window may not once a stored request serves it
  (`Served`): unless an entry with the row's id stands before the unsent one (`Behind`), the answer goes to the
  unsent entry. Only a page can put one there, and that is the cause `overtaken`. So the order of the list
  matters: sorting and filtering keep the order of a contact's entries (`SortIsPart`, `KeptIsPart`).

**`BandMapProofs`**, for any sessions, changes, capacity of the channel and lag:

* `MapShowsAPrefix` (`ShowsAPrefix`), from `BandInv`: the store is what the last change left, every event and
  message on its way, in whatever order they come, tells the truth about the change it belongs to, a page
  that is fetched is the store after some change, and so, unless the window was misled (section 4), it shows
  the spots as they were after the change it remembers.

**`SerialAllocatorProofs`**, for any windows, contacts and worlds:

* `ReservedSerialsDiffer` (`SerialsUsedOnce`, the part of `SerialsAreNew` about reservations): `Reserving` says
  that the numbers in answers, managers, local storage and contacts are reserved, unused and pairwise
  different, but for the copy a window keeps of what it offers.
* `SerialsStayNew` (`SerialsAreNew`), in every world: `Counting` says that a listed contact that the manager has
  seen is in its queue or below what it offers, or was a row when the state it waits for was read; and that a
  request whose answer is awaited has a manager.

**`RadioClientProofs`**, for any finite set of sessions, any windows, editors, permits and bounds:

* `RadioTypeCorrect`, `SessionsKeepTheirRadio` (`RadioServesItsSessions`) and `EditsNeedAnIdleRadio`
  (`EditsWaitForUsers`) follow from one inductive invariant, `TypeOK /\ PlacesOK /\ SlotOK /\ HoldersOK /\
  ConfigOK /\ UsersOK /\ EditsOK`. The properties count: references and users are as many as the sessions in
  certain places of the program. `PlacesOK` says what each place knows of the state of the slot, `SlotOK`
  what the state means, `HoldersOK` and `UsersOK` that the counters are the cardinalities of those sets,
  `ConfigOK` that the sessions of a running radio carry its configuration, `EditsOK` that a reservation
  belongs to one editor and that table and registry agree unless a request was dropped between them. A step
  moves one session, so a set gains or loses one element (`FiniteSetTheorems`).
* `ContactsReachTheTarget` (`ContactsGoToTheTarget`), from `ContactInv`: every contact in the channel was sent
  (`Known`); what a bridge passed on was sent while the window of its connection was the target (`ForOwner`); a
  connection that is gone, free or being left carries none (`Bare`). So a step that takes a contact from where it
  is moves it to its window, into `lost`, or, where a full channel pushes it out, into `skipped` (`WaysStep`).
* `TextsKeepTheirWindow` (`TextsGoOutForTheirWindow`), from `DigitalInv`. `Calm` says that a controller lives and
  has seen the target. A text that is steady is checked, or queued, for a calm controller (`Bound`), the
  interface of a calm controller is that of the target or is being stopped for it (`FaceFits`), and a text in
  the queue of an interface is of the window that the interface is for (`Goes`). A change of the target makes
  no controller calm and no text steady. `WaitOK` (a session waits for one answer, and a request is that of a
  session that waits), `OneEntry` (one controller lives exactly while a session is registered) and
  `HolderIsThere` (the target is a window with a session) account for the last session that leaves: nobody else
  can have a request that its controller still owes.
* `InterfaceIsOfTheTarget` (`InterfaceFollowsTheTarget`): when every broadcast has been read and every wake-up
  been served, the interface is that of the target. `Followed` says that a controller that is not calm has a
  broadcast or a wake-up before it.
* `TheTargetIsServed` (`TargetIsServed`). `ContactInv` as above; `ShowInv`: a window with a connection shows the
  target, or a broadcast, a request or a told word on its way will make it; `ListenInv`: the registrations
  count the open connections, one controller lives while any is open, it knows the mode or will be told, and
  it listens or has been woken.

**`ManagedRadioProofs`**, for any texts, limits and worlds, from `TypeOK /\ TaskOK /\ PttFollowsVoice /\ CatInv
/\ StopInv /\ SentInv`:

* `PttIsReleased` (`PttFollowsVoice`): a radio that transmits has a guard that is active and a file that is played
  or being released, or a second attempt to run, or what the code does not try again (`lapsed`). `TaskOK` ties the
  state of the keying task to the text it is at, without which a step might forget that it plays a file.
* `WindowsSeeTheRadio` (`ShowsTheRadio`): `CatInv` says that the last unread report tells the radio as it is, and
  that what is shown is right once all are read.
* `StopsAreFinal` (`TextsEndAsTold`): `StopInv` says for both queues that what stands behind a stop was asked for
  after it, so that nothing silenced is queued, pending or keyed, unless a keyer could not be cleared of it, and
  nothing silenced is played, but a file may await its release; `SentInv` that a text which is waited for is
  with the keyer or was sent.

**`ServiceProofs`**, for any requests, changes, cache sizes, clients, radios, faults, processes, settings and spots:

* `VerdictsAreOfTheirTime` (`VerdictsFitTheConfig`), from `VerdictInv`: what is remembered matches the hash in
  force; a check of the present generation checks that hash; a request that is served has seen a configuration
  in force and the stored one, and one that waits for a check of an older generation has seen two.
* `ChangesAreInstalled` (`ChangesTakeEffect`), from `ChangeInv`: one change is under way at most, and what it has
  found and done so far accounts for each difference between the row and what was installed.
* `OnlineIsListed` (`OnlineRadiosAreListed`), from `RadioInv`: what is online, or about to be by a request whose
  row is stored, has its row, and a deletion that is not granted concerns a radio that is offline, unless the
  exception `raced` occurred (`Listing`); a process that stopped in good order has one request under way at
  most and knows its lease (`Parting`).
* `BackendsAreHeld` (`BackendIsHeld`) and `DownloadsAreWhole` (`DownloadsAreAllOrNothing`), from `LauncherInv`: the
  exit of a backend that lives is awaited unless the wait failed (`ExitIsAwaited`), and a download touches
  data files only, in a directory that exists (`FetchOK`).
* `HostRunsItsSettings` (`HostRunsTheSettings`), from `ClientInv`: settings that are stored, shown or drafted fit
  their driver, whatever was chosen in whatever order; each stage of a host belongs to one state of the window.
* `TheClusterIsFollowed` (`ClusterIsFollowed`), from `SpotsInv` and `ListenerInv`. The first: the store holds each
  spot once, in the order of age, and unless the bridge was outrun, at most one speaker has events to send,
  and the map, after the events on their way, shows the store. The second: the channel for commands is that of
  the current task, which lives and was not aborted, and a queued text is among the commands of its task.

`TheClusterIsFollowed`, `InterfaceIsOfTheTarget` and `TheTargetIsServed` speak of states at rest. Rest is stated
by the guards of the steps that are owed, so that nothing has to be known of ENABLED.

**Assumptions** are the constants' `...Assumption`s, which TLC evaluates in the runs. Most only give types. The
others: the absent values (`NoRow`, `None`, `NoLogger`, "none") differ from the present ones; a radio transmits
one of the modes that the code falls back to (`DriversAssumption`); the target of a radio is at the start a window
that has a session (`HoldersAssumption`), and no session is called by the name for none (`NoLoggerAssumption`,
`TargetsAssumption`); a world of the outbox is what `IsSetup` says: each contact has one place in time, no key is
a row id, no contact's data is a missing row (`OutboxAssumption`); the settings file of a radio client is one that
the program saved (`ClientAssumption`). Nothing else is assumed.

**Only model-checked:**

* liveness under fairness, which is out of the prover's reach: `EveryRequestEnds`, `EveryTextIsAnswered`,
  `SerialComes`, `StaysConnected`, `ProgramsClose`, `Settles`, `ServedUnlessStranded`, `ShutdownEnds`,
  `DigitalRequestsEnd`, `UrlsFollowTheClients`;
* properties of sums and lists built contact by contact, which need induction over data: `ScoreIsOfTheList`,
  `WindowsShowTheScores`, `KeptUpIsAsLoaded`; and the modules with RECURSIVE operators
  (`ContestCatalog`, `ContestRulesStore`).

## 6. Not modelled

* Paths, the layout of the native windows, the network side of a download.
* Diagnostics, static assets, the file of the radios: input and output.
* The release of push-to-talk when the process has no Tokio runtime left (`voice.rs:95`): nobody releases then.
* Failures of SQLite statements, the load gate of snapshot readers (`worker.rs:326`).
* Protocols below a device: framing of CAT, Winkeyer, rigctl, FLRig and FLDigi; timing of Morse; decoding of
  sound; the packets of WSJT-X.
* The order of contacts inside a page of the outbox and pages beyond the first.
* Text formats (ADIF, Cabrillo), the tables of countries, bands and locators, rendering, keyboard, forms:
  pure conversion, fixed tables or layout. `PROJECT.json` gives the reason for each part.
