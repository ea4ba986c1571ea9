----------------------------- MODULE LoginConfig -----------------------------
(***************************************************************************)
(* The configuration of the server while it is used: basic authentication  *)
(* with its cache of verified passwords (backend/src/auth.rs), and the     *)
(* route that changes the configuration and installs it in the band        *)
(* catalog, the authentication and the DX cluster client                   *)
(* (backend/src/main.rs).  A request may be dropped at any of its awaits.  *)
(*                                                                         *)
(* Abstractions: a hash is the password with the number of its salt, and a *)
(* cache key the password (the user name was compared before); what the    *)
(* routes behind the authentication do, and the rest of a configuration.   *)
(***************************************************************************)
EXTENDS Naturals, Sequences, FiniteSets

CONSTANTS
  CacheCapacity, MaxPending, AuthPermits,
  LoginWorlds   \* bounds: [first, asks, changes, drops, ticks, panics]; first: the configuration at
                \* the start, asks: the credentials of each request, changes: the payloads of PUT
                \* /config (sequences)

VARIABLES
  stored,       \* the row of table config and CachedConfig: [region, user, hash, cluster]
  bandsOf,      \* the region of the BandCatalog
  clusterOf,    \* the DX cluster configuration that was applied last
  auth,         \* AuthState: [user, hash, generation, cached, accesses, pending]; cached: the
                \* passwords that were verified, [key, at, access]; pending: the checks by key
  checks,       \* tasks of verify: [key, hash, generation, step, verdict]
  asks,         \* requests: [user, key, step, generation, check, answer, seen]
  changes,      \* requests that change it: [payload, step, bands, hash]
  salts, loginClock,
  cutShort,     \* history: a change was dropped between its commit and its end
  loginEnv

loginVars == <<stored, bandsOf, clusterOf, auth, checks, asks, changes, salts, loginClock, cutShort,
               loginEnv>>
changeVars == <<stored, bandsOf, clusterOf, changes, salts, cutShort>>

NoHash == [pass |-> "", salt |-> 0]
NoVerdict == "none"

SpendLogin(what) == loginEnv[what] > 0 /\ loginEnv' = [loginEnv EXCEPT ![what] = @ - 1]

(* is_auth_enabled.                                                         *)
Enabled(config) == config.user # "" /\ config.hash # NoHash

Asked(who, step) ==
  [user |-> who.user, key |-> who.pass, step |-> step, generation |-> 0, check |-> 0,
   answer |-> NoVerdict, seen |-> {}]

LoginInit ==
  /\ loginEnv \in LoginWorlds
  /\ stored = loginEnv.first /\ bandsOf = stored.region /\ clusterOf = stored.cluster
  /\ auth = [user |-> stored.user, hash |-> stored.hash, generation |-> 0, cached |-> {},
             accesses |-> 0, pending |-> {}]
  /\ checks = <<>>
  /\ asks = [i \in DOMAIN loginEnv.asks |-> Asked(loginEnv.asks[i], "new")]
  /\ changes = [i \in DOMAIN loginEnv.changes |->
                  [payload |-> loginEnv.changes[i], step |-> "waiting", bands |-> FALSE,
                   hash |-> NoHash]]
  /\ salts = 1 /\ loginClock = 0 /\ cutShort = FALSE

-----------------------------------------------------------------------------
(* replace_config: from the state of the authentication to the next.        *)

Differs(config) == auth.user # config.user \/ auth.hash # config.hash

(* Mutant: the passwords verified for the old configuration are kept.       *)
ReplacedKeepsCache(config) == [auth EXCEPT !.user = config.user, !.hash = config.hash]

Replaced(config) ==
  IF ~Differs(config) THEN auth
  ELSE [user |-> config.user, hash |-> config.hash, generation |-> auth.generation + 1, cached |-> {},
        accesses |-> auth.accesses, pending |-> {}]

(* Whoever waits for a check of the old configuration is woken.             *)
ReplaceConfig(config) ==
  /\ auth' = Replaced(config)
  /\ checks' = [k \in DOMAIN checks |->
       IF Differs(config) /\ k \in auth.pending THEN [checks[k] EXCEPT !.verdict = "unauthorized"]
       ELSE checks[k]]

-----------------------------------------------------------------------------
(* A request: cached_basic_auth, then authorize.                            *)

SetAsk(i, new) == asks' = [asks EXCEPT ![i] = new]

(* Every request brings the authentication up to date, while it holds the   *)
(* read lock of the database's cache.                                       *)
Refresh(i) ==
  /\ asks[i].step = "new"
  /\ ReplaceConfig(stored)
  /\ SetAsk(i, [asks[i] EXCEPT !.step = "refreshed", !.seen = {stored}])
  /\ UNCHANGED <<changeVars, loginClock, loginEnv>>

(* Entries older than CACHE_TTL (a tick) are forgotten.                     *)
Fresh == {e \in auth.cached : e.at = loginClock}
EntriesOf(key) == {e \in Fresh : e.key = key}

(* The entry of the key, if there is one, is the one used last.             *)
Accesses == auth.accesses + 1
Used(key) == (Fresh \ EntriesOf(key)) \cup {[e EXCEPT !.access = Accesses] : e \in EntriesOf(key)}

PendingFor(key) == {k \in auth.pending : checks[k].key = key}

EndAsk(i, answer) == SetAsk(i, [asks[i] EXCEPT !.step = "done", !.answer = answer])

AwaitCheck(i, k) ==
  SetAsk(i, [asks[i] EXCEPT !.step = "waiting", !.generation = auth.generation, !.check = k])

NewCheck(key) ==
  [key |-> key, hash |-> auth.hash, generation |-> auth.generation, step |-> "queued",
   verdict |-> NoVerdict]

Shares(key) == EntriesOf(key) = {} /\ PendingFor(key) # {}
Spawns(key) ==
  EntriesOf(key) = {} /\ PendingFor(key) = {} /\ Cardinality(auth.pending) < MaxPending

Lookup(i) ==
  LET key == asks[i].key IN
  /\ asks[i].step = "refreshed"
  /\ IF ~Enabled(auth) \/ asks[i].user # auth.user
       THEN /\ EndAsk(i, IF Enabled(auth) THEN "unauthorized" ELSE "allowed")
            /\ UNCHANGED <<auth, checks>>
     ELSE /\ auth' = [auth EXCEPT !.cached = Used(key), !.accesses = Accesses,
                                  !.pending = @ \cup IF Spawns(key) THEN {Len(checks) + 1} ELSE {}]
          /\ checks' = IF Spawns(key) THEN Append(checks, NewCheck(key)) ELSE checks
          /\ \/ EntriesOf(key) # {} /\ EndAsk(i, "allowed")
             \/ Shares(key) /\ \E k \in PendingFor(key) : AwaitCheck(i, k)
             \/ Spawns(key) /\ AwaitCheck(i, Len(checks) + 1)
             \/ EntriesOf(key) = {} /\ ~Shares(key) /\ ~Spawns(key) /\ EndAsk(i, "busy")
  /\ UNCHANGED <<changeVars, loginClock, loginEnv>>

(* The verdict is of no use if the configuration changed meanwhile.         *)
AnswerFor(i, decision) == IF auth.generation # asks[i].generation THEN "unauthorized" ELSE decision

Hear(i) ==
  /\ asks[i].step = "waiting" /\ checks[asks[i].check].verdict # NoVerdict
  /\ EndAsk(i, AnswerFor(i, checks[asks[i].check].verdict))
  /\ UNCHANGED <<changeVars, auth, checks, loginClock, loginEnv>>

GoAway(i) ==
  /\ asks[i].step \in {"refreshed", "waiting"} /\ SpendLogin("drops")
  /\ SetAsk(i, [asks[i] EXCEPT !.step = "gone"])
  /\ UNCHANGED <<changeVars, auth, checks, loginClock>>

-----------------------------------------------------------------------------
(* verify: a task of its own.  It shares the permits with hash_password.    *)

Hashing == {i \in DOMAIN changes : changes[i].step \in {"hashing", "abandoned"}}
Running == {k \in DOMAIN checks : checks[k].step = "running"}
PermitFree == Cardinality(Running) + Cardinality(Hashing) < AuthPermits

Check(k, new) == checks' = [checks EXCEPT ![k] = new]

StartCheck(k) ==
  /\ checks[k].step = "queued" /\ PermitFree
  /\ Check(k, IF checks[k].generation # auth.generation
              THEN [checks[k] EXCEPT !.step = "over", !.verdict = "unauthorized"]
              ELSE [checks[k] EXCEPT !.step = "running"])
  /\ UNCHANGED <<changeVars, auth, asks, loginClock, loginEnv>>

PassMatches(pass, hash) == hash # NoHash /\ hash.pass = pass

(* The permit is given back before the state is locked.                     *)
FinishCheck(k) ==
  /\ checks[k].step = "running"
  /\ \/ /\ Check(k, [checks[k] EXCEPT !.step =
                      IF PassMatches(checks[k].key, checks[k].hash) THEN "right" ELSE "wrong"])
        /\ UNCHANGED loginEnv
     \/ SpendLogin("panics") /\ Check(k, [checks[k] EXCEPT !.step = "failed"])
  /\ UNCHANGED <<changeVars, auth, asks, loginClock>>

(* The least recently used entry makes room, one of them if there are more: *)
(* a check that ends counts as used when the state was last accessed.       *)
Oldest(cached) == {e \in cached : \A f \in cached : e.access <= f.access}
WithRoom(cached) ==
  IF Cardinality(cached) < CacheCapacity THEN {cached} ELSE {cached \ {e} : e \in Oldest(cached)}

Stored(cached, key) ==
  {e \in cached : e.key # key} \cup {[key |-> key, at |-> loginClock, access |-> auth.accesses]}

Decision == [right |-> "allowed", wrong |-> "unauthorized", failed |-> "failed"]

(* Mutant: a verdict is stored whatever became of the configuration.        *)
OfThisConfigAlways(k) == TRUE

OfThisConfig(k) == checks[k].generation = auth.generation

ConcludeCheck(k) ==
  LET c == checks[k] IN
  /\ c.step \in DOMAIN Decision
  /\ IF OfThisConfig(k)
       THEN /\ \E room \in WithRoom(auth.cached) :
                 auth' = [auth EXCEPT !.pending = @ \ {k},
                                      !.cached = IF c.step = "right" THEN Stored(room, c.key) ELSE @]
            /\ Check(k, [c EXCEPT !.step = "over", !.verdict = Decision[c.step]])
       ELSE Check(k, [c EXCEPT !.step = "over", !.verdict = "unauthorized"]) /\ UNCHANGED auth
  /\ UNCHANGED <<changeVars, asks, loginClock, loginEnv>>

-----------------------------------------------------------------------------
(* PUT /config.                                                             *)

SetChange(i, new) == changes' = [changes EXCEPT ![i] = new]
To(i, step) == SetChange(i, [changes[i] EXCEPT !.step = step])

Underway == {"locked", "hash", "hashing", "ready", "sent", "committed", "installed"}

(* Mutant: changes are not kept apart.                                      *)
LockFreeAlways == TRUE

(* config_update_lock.                                                      *)
LockFree == \A i \in DOMAIN changes : changes[i].step \notin Underway

(* The region is compared, and new bands are loaded in the background.      *)
Begin(i) ==
  /\ changes[i].step = "waiting" /\ LockFree
  /\ SetChange(i, [changes[i] EXCEPT !.step = "locked",
                                     !.bands = stored.region # changes[i].payload.region])
  /\ UNCHANGED <<stored, bandsOf, clusterOf, auth, checks, asks, salts, loginClock, cutShort, loginEnv>>

LoadBands(i) ==
  /\ changes[i].step = "locked"
  /\ To(i, IF changes[i].payload.pass \in {"keep", "off"} THEN "ready" ELSE "hash")
  /\ UNCHANGED <<stored, bandsOf, clusterOf, auth, checks, asks, salts, loginClock, cutShort, loginEnv>>

StartHash(i) ==
  /\ changes[i].step = "hash" /\ PermitFree
  /\ To(i, "hashing")
  /\ UNCHANGED <<stored, bandsOf, clusterOf, auth, checks, asks, salts, loginClock, cutShort, loginEnv>>

(* A hash nobody waits for keeps its permit to the end.                     *)
FinishHash(i) ==
  /\ \/ /\ changes[i].step = "hashing"
        /\ SetChange(i, [changes[i] EXCEPT !.step = "ready",
                                           !.hash = [pass |-> changes[i].payload.pass, salt |-> salts]])
        /\ salts' = salts + 1
     \/ changes[i].step = "abandoned" /\ To(i, "over") /\ UNCHANGED salts
  /\ UNCHANGED <<stored, bandsOf, clusterOf, auth, checks, asks, loginClock, cutShort, loginEnv>>

SendChange(i) ==
  /\ changes[i].step = "ready"
  /\ To(i, "sent")
  /\ UNCHANGED <<stored, bandsOf, clusterOf, auth, checks, asks, salts, loginClock, cutShort, loginEnv>>

(* db_update_config: the password that is kept is the stored one.           *)
NewHash(change) ==
  CASE change.payload.pass = "keep" -> stored.hash
    [] change.payload.pass = "off" -> NoHash
    [] OTHER -> change.hash

(* The worker of the database writes the row and its cache, wanted or not.  *)
CommitChange(i) ==
  /\ changes[i].step \in {"sent", "orphaned"}
  /\ stored' = [region |-> changes[i].payload.region, user |-> changes[i].payload.user,
                hash |-> NewHash(changes[i]), cluster |-> changes[i].payload.cluster]
  /\ asks' = [j \in DOMAIN asks |->
                IF asks[j].step \in {"refreshed", "waiting"}
                  THEN [asks[j] EXCEPT !.seen = @ \cup {stored'}] ELSE asks[j]]
  /\ To(i, IF changes[i].step = "sent" THEN "committed" ELSE "over")
  /\ UNCHANGED <<bandsOf, clusterOf, auth, checks, salts, loginClock, cutShort, loginEnv>>

(* Bands and authentication, without an await between them ...              *)
Install(i) ==
  /\ changes[i].step = "committed"
  /\ bandsOf' = IF changes[i].bands THEN changes[i].payload.region ELSE bandsOf
  /\ ReplaceConfig(stored)
  /\ To(i, "installed")
  /\ UNCHANGED <<stored, clusterOf, asks, salts, loginClock, cutShort, loginEnv>>

(* ... then the DX cluster, which is awaited (DxCluster, Apply).            *)
ApplyCluster(i) ==
  /\ changes[i].step = "installed"
  /\ clusterOf' = stored.cluster
  /\ To(i, "over")
  /\ UNCHANGED <<stored, bandsOf, auth, checks, asks, salts, loginClock, cutShort, loginEnv>>

(* Invalid data, bands that cannot be read, a write that fails.             *)
Refused(i) ==
  /\ changes[i].step \in {"locked", "ready", "sent"} /\ SpendLogin("panics")
  /\ To(i, "over")
  /\ UNCHANGED <<stored, bandsOf, clusterOf, auth, checks, asks, salts, loginClock, cutShort>>

(* The client of the request goes away.                                     *)
DropChange(i) ==
  LET step == changes[i].step IN
  /\ step \in {"waiting"} \cup Underway /\ SpendLogin("drops")
  /\ To(i, CASE step = "sent" -> "orphaned" [] step = "hashing" -> "abandoned" [] OTHER -> "over")
  /\ cutShort' = (cutShort \/ step \in {"sent", "committed", "installed"})
  /\ UNCHANGED <<stored, bandsOf, clusterOf, auth, checks, asks, salts, loginClock>>

TickLogin ==
  /\ SpendLogin("ticks")
  /\ loginClock' = loginClock + 1
  /\ UNCHANGED <<changeVars, auth, checks, asks>>

-----------------------------------------------------------------------------
LoginNext ==
  \/ \E i \in DOMAIN asks : Refresh(i) \/ Lookup(i) \/ Hear(i) \/ GoAway(i)
  \/ \E k \in DOMAIN checks : StartCheck(k) \/ FinishCheck(k) \/ ConcludeCheck(k)
  \/ \E i \in DOMAIN changes :
       \/ Begin(i) \/ LoadBands(i) \/ StartHash(i) \/ FinishHash(i) \/ SendChange(i) \/ CommitChange(i)
       \/ Install(i) \/ ApplyCluster(i) \/ Refused(i) \/ DropChange(i)
  \/ TickLogin

LoginSpec == LoginInit /\ [][LoginNext]_loginVars

-----------------------------------------------------------------------------
Admits(config, ask) == ~Enabled(config) \/ (ask.user = config.user /\ PassMatches(ask.key, config.hash))

(* A request is let in only by a configuration that was stored while it was *)
(* served, and sent away only by one, or because the configuration changed  *)
(* meanwhile: neither a cached password, nor a verdict that other requests  *)
(* wait for, nor a check that was started before the change, outlives the   *)
(* configuration it belongs to - not even when the request that changed it  *)
(* was dropped after its commit (cached_basic_auth, replace_config).        *)
VerdictsFitTheConfig ==
  \A i \in DOMAIN asks : asks[i].step = "done" =>
    /\ asks[i].answer = "allowed" => \E config \in asks[i].seen : Admits(config, asks[i])
    /\ asks[i].answer = "unauthorized" =>
         Cardinality(asks[i].seen) > 1 \/ \E config \in asks[i].seen : ~Admits(config, asks[i])

(* When no change is under way, the bands and the DX cluster client work    *)
(* with the configuration that is stored, whatever order changes came in    *)
(* (config_update_lock), unless a request was dropped after its commit.     *)
ChangesTakeEffect ==
  (\A i \in DOMAIN changes : changes[i].step \notin Underway \cup {"orphaned"}) =>
    cutShort \/ (bandsOf = stored.region /\ clusterOf = stored.cluster)
=============================================================================
