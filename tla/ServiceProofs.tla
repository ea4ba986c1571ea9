---------------------------- MODULE ServiceProofs ----------------------------
(***************************************************************************)
(* Theorems about the services beside the logs and the programs around     *)
(* them: LoginConfig, for every sequence of requests and of changes of the *)
(* configuration, every password and every limit; ClientRadios, for any    *)
(* number of clients, processes and radios; Launcher and RadioClientApp,   *)
(* for any processes, hosts, files and worlds; DxCluster, for any spots,   *)
(* age, length of the channel and worlds.  Of each there is its invariant, *)
(* inductive, one lemma per part of it, and the properties that follow.    *)
(***************************************************************************)
EXTENDS LoginConfig, ClientRadios, Launcher, RadioClientApp, DxCluster, FiniteSetTheorems, SequenceTheorems,
        WellFoundedInduction, TLAPS

IsAuth(a) ==
  a = [user |-> a.user, hash |-> a.hash, generation |-> a.generation, cached |-> a.cached,
       accesses |-> a.accesses, pending |-> a.pending]
IsAsk(a) ==
  a = [user |-> a.user, key |-> a.key, step |-> a.step, generation |-> a.generation,
       check |-> a.check, answer |-> a.answer, seen |-> a.seen]
IsCheck(c) ==
  c = [key |-> c.key, hash |-> c.hash, generation |-> c.generation, step |-> c.step,
       verdict |-> c.verdict]
IsEntry(e) == e = [key |-> e.key, at |-> e.at, access |-> e.access]
IsChange(c) == c = [payload |-> c.payload, step |-> c.step, bands |-> c.bands, hash |-> c.hash]

IsList(s) == Len(s) \in Nat /\ s = [k \in 1..Len(s) |-> s[k]]

LoginTypes ==
  /\ IsAuth(auth) /\ auth.generation \in Nat /\ auth.pending \subseteq 1..Len(checks)
  /\ IsList(checks)
  /\ \A k \in 1..Len(checks) : IsCheck(checks[k]) /\ checks[k].generation \in Nat
  /\ \A i \in DOMAIN asks : IsAsk(asks[i]) /\ IsFiniteSet(asks[i].seen)

(* A check of the present generation checks the present hash, and its       *)
(* verdict is right.  One that waiters share is of the present generation.  *)
CheckOK(k) ==
  /\ checks[k].generation <= auth.generation
  /\ k \in auth.pending => checks[k].generation = auth.generation
  /\ checks[k].generation = auth.generation =>
       /\ checks[k].hash = auth.hash
       /\ checks[k].verdict = "unauthorized" => ~PassMatches(checks[k].key, checks[k].hash)
  /\ checks[k].verdict = "allowed" => PassMatches(checks[k].key, checks[k].hash)
  /\ checks[k].step = "right" => PassMatches(checks[k].key, checks[k].hash)
  /\ checks[k].step = "wrong" => ~PassMatches(checks[k].key, checks[k].hash)

Remembered == \A e \in auth.cached : IsEntry(e) /\ PassMatches(e.key, auth.hash)

(* What is in force was stored while the request was served.                *)
InForce(config) == config.user = auth.user /\ config.hash = auth.hash

Sees(a) == stored \in a.seen /\ \E config \in a.seen : InForce(config)

Waits(a) ==
  /\ a.check \in 1..Len(checks)
  /\ checks[a.check].key = a.key /\ checks[a.check].generation = a.generation
  /\ a.generation = auth.generation => Enabled(auth) /\ a.user = auth.user
  /\ a.generation # auth.generation => \E c, d \in a.seen : c # d

Judged(a) ==
  /\ a.answer = "allowed" => \E config \in a.seen : Admits(config, a)
  /\ a.answer = "unauthorized" =>
       Cardinality(a.seen) > 1 \/ \E config \in a.seen : ~Admits(config, a)

AskOK(a) ==
  /\ a.step \in {"refreshed", "waiting"} => Sees(a)
  /\ a.step = "waiting" => Waits(a)
  /\ a.step = "done" => Judged(a)

VerdictInv ==
  /\ LoginTypes
  /\ Remembered
  /\ \A k \in 1..Len(checks) : CheckOK(k)
  /\ \A i \in DOMAIN asks : AskOK(asks[i])

-----------------------------------------------------------------------------
(* Lists and small sets.                                                    *)

LEMMA ListOf ==
  ASSUME NEW n \in Nat, NEW s, s = [k \in 1..n |-> s[k]]
  PROVE  Len(s) = n /\ IsList(s) /\ \A S : (\A k \in 1..n : s[k] \in S) => s \in Seq(S)
<1>1. ASSUME NEW S, \A k \in 1..n : s[k] \in S
      PROVE  s \in [1..n -> S]
  <2>1. [k \in 1..n |-> s[k]] \in [1..n -> S]
    BY <1>1
  <2> QED BY <2>1
<1>2. s \in [1..n -> {s[k] : k \in 1..n}]
  BY <1>1
<1>3. Len(s) = n
  <2> DEFINE S == {s[k] : k \in 1..n}
  <2> HIDE DEF S
  <2>1. s \in [1..n -> S]
    BY <1>2 DEF S
  <2> QED BY <2>1
<1>4. ASSUME NEW S, \A k \in 1..n : s[k] \in S
      PROVE  s \in Seq(S)
  BY <1>1, <1>4
<1> QED BY <1>3, <1>4 DEF IsList

LEMMA LongerList ==
  ASSUME NEW s, IsList(s), NEW e
  PROVE  /\ IsList(Append(s, e)) /\ Len(Append(s, e)) = Len(s) + 1
         /\ \A k \in 1..Len(s) : Append(s, e)[k] = s[k]
         /\ Append(s, e)[Len(s) + 1] = e
<1> DEFINE S == {s[k] : k \in 1..Len(s)} \cup {e}
<1>1. Len(s) \in Nat /\ \A k \in 1..Len(s) : s[k] \in S
  BY DEF IsList
<1> HIDE DEF S
<1>2. s \in Seq(S)
  BY <1>1, ListOf DEF IsList
<1>3. e \in S
  BY DEF S
<1>4. Append(s, e) \in Seq(S) /\ Len(Append(s, e)) = Len(s) + 1
  BY <1>2, <1>3
<1>5. Append(s, e) = [k \in 1..Len(Append(s, e)) |-> Append(s, e)[k]]
  <2> DEFINE t == Append(s, e)
  <2>1. t \in Seq(S)
    BY <1>4
  <2> HIDE DEF t
  <2>2. t \in [1..Len(t) -> S]
    BY <2>1
  <2>3. t = [k \in 1..Len(t) |-> t[k]]
    BY <2>2
  <2> QED BY <2>3 DEF t
<1> QED BY <1>1, <1>2, <1>3, <1>4, <1>5 DEF IsList

LEMMA TwoOfMany ==
  ASSUME NEW S, IsFiniteSet(S), NEW c \in S, NEW d \in S, c # d
  PROVE  Cardinality(S) > 1
<1>1. IsFiniteSet(S \ {c}) /\ Cardinality(S \ {c}) = Cardinality(S) - 1
  BY FS_RemoveElement
<1>2. d \in S \ {c}
  OBVIOUS
<1>3. Cardinality(S \ {c}) \in Nat /\ Cardinality(S \ {c}) # 0 /\ Cardinality(S) \in Nat
  BY <1>1, <1>2, FS_EmptySet, FS_CardinalityType
<1> QED BY <1>1, <1>3

(* What is in force admits whom the authentication admits.                  *)
LEMMA Admission ==
  ASSUME NEW a, NEW config, InForce(config)
  PROVE  Admits(config, a) <=> ~Enabled(auth) \/ (a.user = auth.user /\ PassMatches(a.key, auth.hash))
BY DEF Admits, InForce, Enabled

-----------------------------------------------------------------------------
(* Steps that leave the authentication and its checks alone.                *)

LEMMA OthersStay ==
  ASSUME VerdictInv, UNCHANGED <<auth, checks, asks, stored>>
  PROVE  VerdictInv'
<1>1. LoginTypes' /\ Remembered' /\ \A k \in 1..Len(checks') : CheckOK(k)'
  BY DEF VerdictInv, LoginTypes, IsAuth, IsList, IsCheck, IsAsk, Remembered, CheckOK, PassMatches
<1>2. ASSUME NEW j \in DOMAIN asks'
      PROVE  AskOK(asks[j])'
  <2>1. AskOK(asks[j])
    BY <1>2 DEF VerdictInv
  <2> QED BY <2>1 DEF AskOK, Sees, Waits, Judged, InForce, Enabled, PassMatches, Admits
<1> QED BY <1>1, <1>2 DEF VerdictInv

(* A request ends, or goes away, while nothing else happens.                *)
LEMMA AskStep ==
  ASSUME VerdictInv, NEW i \in DOMAIN asks, NEW new, SetAsk(i, new), UNCHANGED <<auth, checks, stored>>,
         IsAsk(new), IsFiniteSet(new.seen), AskOK(new)
  PROVE  VerdictInv'
<1>1. /\ DOMAIN asks' = DOMAIN asks /\ asks'[i] = new
      /\ \A j \in DOMAIN asks : j # i => asks'[j] = asks[j]
  BY DEF SetAsk
<1>2. LoginTypes' /\ Remembered' /\ \A k \in 1..Len(checks') : CheckOK(k)'
  <2>1. \A j \in DOMAIN asks' : IsAsk(asks'[j]) /\ IsFiniteSet(asks'[j].seen)
    BY <1>1 DEF VerdictInv, LoginTypes
  <2> QED BY <2>1 DEF VerdictInv, LoginTypes, IsAuth, IsList, IsCheck, IsAsk, Remembered, CheckOK, PassMatches
<1>3. ASSUME NEW j \in DOMAIN asks'
      PROVE  AskOK(asks[j])'
  <2>1. AskOK(asks'[j])
    BY <1>1, <1>3 DEF VerdictInv
  <2> QED BY <2>1 DEF AskOK, Sees, Waits, Judged, InForce, Enabled, PassMatches, Admits
<1> QED BY <1>2, <1>3 DEF VerdictInv

LEMMA EndedAsk ==
  ASSUME VerdictInv, NEW i \in DOMAIN asks, NEW answer, Sees(asks[i]), EndAsk(i, answer),
         UNCHANGED <<auth, checks, stored>>,
         answer = "allowed" => \E config \in asks[i].seen : Admits(config, asks[i]),
         answer = "unauthorized" =>
           Cardinality(asks[i].seen) > 1 \/ \E config \in asks[i].seen : ~Admits(config, asks[i])
  PROVE  VerdictInv'
<1> DEFINE over == [asks[i] EXCEPT !.step = "done"]
           new == [over EXCEPT !.answer = answer]
<1>1. IsAsk(asks[i]) /\ IsFiniteSet(asks[i].seen)
  BY DEF VerdictInv, LoginTypes
<1>2. /\ IsAsk(new) /\ new.seen = asks[i].seen /\ new.user = asks[i].user /\ new.key = asks[i].key
      /\ new.step = "done" /\ new.answer = answer
  <2>1. /\ IsAsk(over) /\ over.seen = asks[i].seen /\ over.user = asks[i].user /\ over.key = asks[i].key
        /\ over.step = "done"
    BY <1>1 DEF IsAsk
  <2> HIDE DEF over
  <2> QED BY <2>1 DEF IsAsk
<1>3. SetAsk(i, new)
  BY DEF EndAsk
<1> HIDE DEF new
<1>4. AskOK(new)
  BY <1>2 DEF AskOK, Judged, Admits
<1> QED BY <1>1, <1>2, <1>3, <1>4, AskStep

LEMMA HearStep ==
  ASSUME VerdictInv, NEW i \in DOMAIN asks, Hear(i)
  PROVE  VerdictInv'
<1> DEFINE a == asks[i]
           c == checks[asks[i].check]
<1>1. asks[i].step = "waiting" /\ Sees(asks[i]) /\ Waits(asks[i]) /\ IsFiniteSet(asks[i].seen)
  BY DEF Hear, VerdictInv, AskOK, LoginTypes
<1>2. CheckOK(asks[i].check)
  BY <1>1 DEF Waits, VerdictInv
<1>3. PICK config \in asks[i].seen : InForce(config)
  BY <1>1 DEF Sees
<1>4. CASE auth.generation # asks[i].generation
  <2>1. Cardinality(asks[i].seen) > 1
    BY <1>1, <1>4, TwoOfMany DEF Waits
  <2>2. EndAsk(i, "unauthorized") /\ UNCHANGED <<auth, checks, stored>>
    BY <1>4 DEF Hear, AnswerFor, changeVars
  <2> QED BY <1>1, <2>1, <2>2, EndedAsk
<1>5. CASE auth.generation = asks[i].generation
  <2>1. EndAsk(i, checks[asks[i].check].verdict) /\ UNCHANGED <<auth, checks, stored>>
    BY <1>5 DEF Hear, AnswerFor, changeVars
  <2>2. /\ Enabled(auth) /\ asks[i].user = auth.user /\ checks[asks[i].check].key = asks[i].key
        /\ checks[asks[i].check].hash = auth.hash
    BY <1>1, <1>2, <1>5 DEF Waits, CheckOK
  <2>3. checks[asks[i].check].verdict = "allowed" => Admits(config, asks[i])
    BY <1>2, <1>3, <2>2, Admission DEF CheckOK
  <2>4. checks[asks[i].check].verdict = "unauthorized" => ~Admits(config, asks[i])
    BY <1>1, <1>2, <1>3, <1>5, <2>2, Admission DEF CheckOK, Waits
  <2> HIDE DEF a, c
  <2> QED BY <1>1, <2>1, <2>3, <2>4, EndedAsk
<1> QED BY <1>4, <1>5

LEMMA GoAwayStep ==
  ASSUME VerdictInv, NEW i \in DOMAIN asks, GoAway(i)
  PROVE  VerdictInv'
<1> DEFINE new == [asks[i] EXCEPT !.step = "gone"]
<1>1. IsAsk(asks[i]) /\ IsFiniteSet(asks[i].seen)
  BY DEF VerdictInv, LoginTypes
<1>2. IsAsk(new) /\ new.seen = asks[i].seen /\ new.step = "gone"
  BY <1>1 DEF IsAsk
<1>3. SetAsk(i, new) /\ UNCHANGED <<auth, checks, stored>>
  BY DEF GoAway, changeVars
<1> HIDE DEF new
<1>4. AskOK(new)
  BY <1>2 DEF AskOK
<1> QED BY <1>1, <1>2, <1>3, <1>4, AskStep

-----------------------------------------------------------------------------
(* The configuration is replaced.                                           *)

LEMMA ReplacedAuth ==
  ASSUME VerdictInv, ReplaceConfig(stored)
  PROVE  /\ IsAuth(auth') /\ auth'.user = stored.user /\ auth'.hash = stored.hash
         /\ auth'.generation = IF Differs(stored) THEN auth.generation + 1 ELSE auth.generation
         /\ Differs(stored) => auth'.cached = {} /\ auth'.pending = {}
         /\ ~Differs(stored) => auth' = auth
BY DEF VerdictInv, LoginTypes, ReplaceConfig, Replaced, Differs, IsAuth

LEMMA ReplacedChecks ==
  ASSUME VerdictInv, ReplaceConfig(stored)
  PROVE  /\ IsList(checks') /\ Len(checks') = Len(checks)
         /\ \A k \in 1..Len(checks) :
              /\ IsCheck(checks'[k])
              /\ checks'[k].key = checks[k].key /\ checks'[k].hash = checks[k].hash
              /\ checks'[k].generation = checks[k].generation /\ checks'[k].step = checks[k].step
              /\ checks'[k].verdict = checks[k].verdict \/ checks'[k].verdict = "unauthorized"
         /\ ~Differs(stored) => checks' = checks
<1> DEFINE n == Len(checks)
<1>1. n \in Nat /\ checks = [k \in 1..n |-> checks[k]] /\ \A k \in 1..n : IsCheck(checks[k])
  BY DEF VerdictInv, LoginTypes, IsList
<1>2. DOMAIN checks = 1..n
  BY <1>1
<1>3. checks' = [k \in 1..n |-> checks'[k]]
  BY <1>2 DEF ReplaceConfig
<1>4. ASSUME NEW k \in 1..n
      PROVE  /\ IsCheck(checks'[k])
             /\ checks'[k].key = checks[k].key /\ checks'[k].hash = checks[k].hash
             /\ checks'[k].generation = checks[k].generation /\ checks'[k].step = checks[k].step
             /\ checks'[k].verdict = checks[k].verdict \/ checks'[k].verdict = "unauthorized"
  <2>1. checks'[k] = checks[k] \/ checks'[k] = [checks[k] EXCEPT !.verdict = "unauthorized"]
    BY <1>2 DEF ReplaceConfig
  <2>2. IsCheck(checks[k])
    BY <1>1
  <2> QED BY <2>1, <2>2 DEF IsCheck
<1>5. ~Differs(stored) => checks' = checks
  BY <1>1, <1>2 DEF ReplaceConfig
<1> HIDE DEF n
<1>6. Len(checks') = n /\ IsList(checks')
  BY <1>1, <1>3, ListOf
<1> QED BY <1>4, <1>5, <1>6 DEF n

LEMMA Replacement ==
  ASSUME VerdictInv, ReplaceConfig(stored)
  PROVE  /\ IsAuth(auth') /\ auth'.generation \in Nat /\ auth'.pending \subseteq 1..Len(checks')
         /\ IsList(checks')
         /\ \A k \in 1..Len(checks') : IsCheck(checks'[k]) /\ checks'[k].generation \in Nat
         /\ Remembered'
         /\ \A k \in 1..Len(checks') : CheckOK(k)'
<1>1. /\ auth.generation \in Nat /\ auth.pending \subseteq 1..Len(checks) /\ Remembered
      /\ \A k \in 1..Len(checks) : checks[k].generation \in Nat /\ CheckOK(k)
  BY DEF VerdictInv, LoginTypes
<1>2. Remembered'
  BY <1>1, ReplacedAuth DEF Remembered, PassMatches
<1>3. ASSUME NEW k \in 1..Len(checks)
      PROVE  CheckOK(k)'
  <2>1. CASE Differs(stored)
    <3>1. checks'[k].generation <= auth.generation /\ auth'.generation = auth.generation + 1
      BY <1>1, <1>3, <2>1, ReplacedAuth, ReplacedChecks DEF CheckOK
    <3>2. auth'.pending = {} /\ checks'[k].generation # auth'.generation
          /\ checks'[k].generation <= auth'.generation
      BY <1>1, <1>3, <2>1, <3>1, ReplacedAuth, ReplacedChecks
    <3>3. /\ checks'[k].verdict = "allowed" => PassMatches(checks'[k].key, checks'[k].hash)
          /\ checks'[k].step = "right" => PassMatches(checks'[k].key, checks'[k].hash)
          /\ checks'[k].step = "wrong" => ~PassMatches(checks'[k].key, checks'[k].hash)
      BY <1>1, <1>3, ReplacedChecks DEF CheckOK
    <3> QED BY <3>2, <3>3 DEF CheckOK, PassMatches
  <2>2. CASE ~Differs(stored)
    <3>1. auth' = auth /\ checks' = checks
      BY <2>2, ReplacedAuth, ReplacedChecks
    <3>2. CheckOK(k)
      BY <1>1
    <3> QED BY <3>1, <3>2 DEF CheckOK, PassMatches
  <2> QED BY <2>1, <2>2
<1> QED BY <1>1, <1>2, <1>3, ReplacedAuth, ReplacedChecks

(* Whoever waits will find that the configuration changed.                  *)
LEMMA ReplacedAsk ==
  ASSUME VerdictInv, ReplaceConfig(stored), stored' = stored, NEW i \in DOMAIN asks, asks'[i] = asks[i]
  PROVE  AskOK(asks[i])'
<1> DEFINE a == asks[i]
<1>1. AskOK(a)
  BY DEF VerdictInv
<1>2. ASSUME a.step \in {"refreshed", "waiting"}
      PROVE  Sees(asks[i])'
  <2>1. stored \in a.seen
    BY <1>1, <1>2 DEF AskOK, Sees
  <2> QED BY <2>1, ReplacedAuth DEF Sees, InForce
<1>3. ASSUME a.step = "waiting"
      PROVE  Waits(asks[i])'
  <2>1. Sees(a) /\ Waits(a)
    BY <1>1, <1>3 DEF AskOK
  <2>2. /\ a.check \in 1..Len(checks') /\ checks'[a.check].key = a.key
        /\ checks'[a.check].generation = a.generation
    BY <2>1, ReplacedChecks DEF Waits
  <2>3. CASE Differs(stored)
    <3>1. PICK config \in a.seen : InForce(config)
      BY <2>1 DEF Sees
    <3>2. config # stored /\ stored \in a.seen
      BY <2>1, <2>3, <3>1 DEF Sees, InForce, Differs
    <3>3. /\ a.generation <= auth.generation /\ a.generation \in Nat
          /\ auth'.generation = auth.generation + 1 /\ auth.generation \in Nat
      BY <2>1, <2>3, ReplacedAuth DEF Waits, VerdictInv, CheckOK, LoginTypes
    <3>4. a.generation # auth'.generation
      BY <3>3
    <3> HIDE DEF a
    <3>5. asks'[i] = a
      BY DEF a
    <3> QED BY <2>2, <3>1, <3>2, <3>4, <3>5 DEF Waits, a
  <2>4. CASE ~Differs(stored)
    <3>1. auth' = auth /\ checks' = checks
      BY <2>4, ReplacedAuth, ReplacedChecks
    <3> QED BY <2>1, <3>1 DEF Waits, Enabled
  <2> QED BY <2>3, <2>4
<1>4. ASSUME a.step = "done"
      PROVE  Judged(asks[i])'
  BY <1>1, <1>4 DEF AskOK, Judged, Admits, Enabled, PassMatches
<1> QED BY <1>2, <1>3, <1>4 DEF AskOK

LEMMA RefreshStep ==
  ASSUME VerdictInv, NEW i \in DOMAIN asks, Refresh(i)
  PROVE  VerdictInv'
<1> DEFINE there == [asks[i] EXCEPT !.step = "refreshed"]
           new == [there EXCEPT !.seen = {stored}]
<1>1. ReplaceConfig(stored) /\ stored' = stored
  BY DEF Refresh, changeVars
<1>2. /\ DOMAIN asks' = DOMAIN asks /\ asks'[i] = new
      /\ \A j \in DOMAIN asks : j # i => asks'[j] = asks[j]
  BY DEF Refresh, SetAsk
<1>3. IsAsk(new) /\ new.step = "refreshed" /\ new.seen = {stored}
  <2>1. IsAsk(asks[i])
    BY DEF VerdictInv, LoginTypes
  <2>2. IsAsk(there) /\ there.step = "refreshed"
    BY <2>1 DEF IsAsk
  <2> HIDE DEF there
  <2> QED BY <2>2 DEF IsAsk
<1> HIDE DEF new
<1>4. IsFiniteSet({stored})
  BY FS_Singleton
<1>5. \A j \in DOMAIN asks' : IsAsk(asks'[j]) /\ IsFiniteSet(asks'[j].seen)
  BY <1>2, <1>3, <1>4 DEF VerdictInv, LoginTypes
<1>6. ASSUME NEW j \in DOMAIN asks'
      PROVE  AskOK(asks[j])'
  <2>1. CASE j = i
    <3>1. asks'[j].step = "refreshed" /\ stored' \in asks'[j].seen
      BY <1>1, <1>2, <1>3, <2>1
    <3>2. Sees(asks[j])'
      BY <1>1, <3>1, ReplacedAuth DEF Sees, InForce
    <3> QED BY <3>1, <3>2 DEF AskOK
  <2>2. CASE j # i
    BY <1>1, <1>2, <1>6, <2>2, ReplacedAsk
  <2> QED BY <2>1, <2>2
<1> QED BY <1>1, <1>5, <1>6, Replacement DEF VerdictInv, LoginTypes

LEMMA InstallStep ==
  ASSUME VerdictInv, NEW i \in DOMAIN changes, Install(i)
  PROVE  VerdictInv'
<1>1. ReplaceConfig(stored) /\ stored' = stored /\ asks' = asks
  BY DEF Install
<1>2. \A j \in DOMAIN asks' : IsAsk(asks'[j]) /\ IsFiniteSet(asks'[j].seen)
  BY <1>1 DEF VerdictInv, LoginTypes
<1>3. ASSUME NEW j \in DOMAIN asks'
      PROVE  AskOK(asks[j])'
  BY <1>1, <1>3, ReplacedAsk
<1> QED BY <1>1, <1>2, <1>3, Replacement DEF VerdictInv, LoginTypes

-----------------------------------------------------------------------------
(* Steps of the checks.                                                     *)

(* One check goes on; the requests hear of it later.                        *)
LEMMA OneCheck ==
  ASSUME VerdictInv, NEW k \in 1..Len(checks), NEW new, Check(k, new), UNCHANGED <<asks, stored>>,
         IsCheck(new), new.key = checks[k].key, new.generation = checks[k].generation,
         IsAuth(auth'), auth'.user = auth.user, auth'.hash = auth.hash,
         auth'.generation = auth.generation, auth'.pending \subseteq auth.pending, Remembered',
         CheckOK(k)'
  PROVE  VerdictInv'
<1> DEFINE n == Len(checks)
<1>1. n \in Nat /\ checks = [j \in 1..n |-> checks[j]]
  BY DEF VerdictInv, LoginTypes, IsList
<1>2. checks' = [j \in 1..n |-> checks'[j]] /\ checks'[k] = new
      /\ \A j \in 1..n : j # k => checks'[j] = checks[j]
  BY <1>1 DEF Check
<1> HIDE DEF n
<1>3. Len(checks') = n /\ IsList(checks')
  BY <1>1, <1>2, ListOf
<1> USE DEF n
<1>4. LoginTypes'
  <2>1. \A j \in 1..n : IsCheck(checks[j]) /\ checks[j].generation \in Nat
    BY DEF VerdictInv, LoginTypes
  <2>2. \A j \in 1..n : IsCheck(checks'[j]) /\ checks'[j].generation \in Nat
    BY <1>2, <2>1
  <2>3. \A i \in DOMAIN asks' : IsAsk(asks'[i]) /\ IsFiniteSet(asks'[i].seen)
    BY DEF VerdictInv, LoginTypes
  <2>4. auth'.generation \in Nat /\ auth'.pending \subseteq 1..n
    BY DEF VerdictInv, LoginTypes
  <2> QED BY <1>3, <2>2, <2>3, <2>4 DEF LoginTypes
<1>5. ASSUME NEW j \in 1..n
      PROVE  CheckOK(j)'
  <2>1. CASE j = k
    BY <2>1
  <2>2. CASE j # k
    <3>1. checks'[j] = checks[j] /\ CheckOK(j)
      BY <1>2, <2>2 DEF VerdictInv
    <3> QED BY <3>1 DEF CheckOK, PassMatches
  <2> QED BY <2>1, <2>2
<1>6. ASSUME NEW i \in DOMAIN asks'
      PROVE  AskOK(asks[i])'
  <2>1. AskOK(asks[i])
    BY <1>6 DEF VerdictInv
  <2>2. Waits(asks[i]) => Waits(asks[i])'
    BY <1>2, <1>3 DEF Waits, Enabled
  <2> QED BY <2>1, <2>2 DEF AskOK, Sees, Judged, InForce, Enabled, PassMatches, Admits
<1> QED BY <1>3, <1>4, <1>5, <1>6 DEF VerdictInv

LEMMA StartCheckStep ==
  ASSUME VerdictInv, NEW k \in DOMAIN checks, StartCheck(k)
  PROVE  VerdictInv'
<1> DEFINE c == checks[k]
           ended == [c EXCEPT !.step = "over"]
           late == [ended EXCEPT !.verdict = "unauthorized"]
           going == [c EXCEPT !.step = "running"]
<1>1. k \in 1..Len(checks) /\ IsCheck(c) /\ IsAuth(auth) /\ Remembered /\ CheckOK(k)
      /\ checks = [j \in 1..Len(checks) |-> checks[j]]
  BY DEF VerdictInv, LoginTypes, IsList
<1>2. auth' = auth /\ asks' = asks /\ stored' = stored
  BY DEF StartCheck, changeVars
<1>3. Remembered'
  BY <1>1, <1>2 DEF Remembered, PassMatches
<1>4. CASE c.generation # auth.generation
  <2>1. /\ IsCheck(late) /\ late.key = c.key /\ late.generation = c.generation /\ late.hash = c.hash
        /\ late.step = "over" /\ late.verdict = "unauthorized"
    <3>1. /\ IsCheck(ended) /\ ended.key = c.key /\ ended.generation = c.generation
          /\ ended.hash = c.hash /\ ended.step = "over"
      BY <1>1 DEF IsCheck
    <3> HIDE DEF ended
    <3> QED BY <3>1 DEF IsCheck
  <2>2. Check(k, late)
    BY <1>4 DEF StartCheck
  <2>3. checks'[k] = late
    BY <1>1, <2>2 DEF Check
  <2> HIDE DEF late, c
  <2>4. CheckOK(k)'
    BY <1>1, <1>2, <1>4, <2>1, <2>3 DEF CheckOK, PassMatches, c
  <2> QED BY <1>1, <1>2, <1>3, <2>1, <2>2, <2>4, OneCheck DEF c
<1>5. CASE c.generation = auth.generation
  <2>1. /\ IsCheck(going) /\ going.key = c.key /\ going.generation = c.generation /\ going.hash = c.hash
        /\ going.step = "running" /\ going.verdict = c.verdict
    BY <1>1 DEF IsCheck
  <2>2. Check(k, going)
    BY <1>5 DEF StartCheck
  <2>3. checks'[k] = going
    BY <1>1, <2>2 DEF Check
  <2> HIDE DEF going, c
  <2>4. CheckOK(k)'
    BY <1>1, <1>2, <2>1, <2>3 DEF CheckOK, PassMatches, c
  <2> QED BY <1>1, <1>2, <1>3, <2>1, <2>2, <2>4, OneCheck DEF c
<1> QED BY <1>4, <1>5

LEMMA FinishCheckStep ==
  ASSUME VerdictInv, NEW k \in DOMAIN checks, FinishCheck(k)
  PROVE  VerdictInv'
<1> DEFINE c == checks[k]
<1>1. k \in 1..Len(checks) /\ IsCheck(c) /\ IsAuth(auth) /\ Remembered /\ CheckOK(k)
      /\ checks = [j \in 1..Len(checks) |-> checks[j]]
  BY DEF VerdictInv, LoginTypes, IsList
<1>2. auth' = auth /\ asks' = asks /\ stored' = stored
  BY DEF FinishCheck, changeVars
<1>3. Remembered'
  BY <1>1, <1>2 DEF Remembered, PassMatches
<1>4. PICK step : /\ Check(k, [c EXCEPT !.step = step])
                  /\ step = "right" => PassMatches(c.key, c.hash)
                  /\ step = "wrong" => ~PassMatches(c.key, c.hash)
  BY DEF FinishCheck
<1> DEFINE new == [c EXCEPT !.step = step]
<1>5. /\ IsCheck(new) /\ new.key = c.key /\ new.generation = c.generation /\ new.hash = c.hash
      /\ new.step = step /\ new.verdict = c.verdict
  BY <1>1 DEF IsCheck
<1>6. Check(k, new) /\ checks'[k] = new
  BY <1>1, <1>4 DEF Check
<1> HIDE DEF new, c
<1>7. CheckOK(k)'
  BY <1>1, <1>2, <1>4, <1>5, <1>6 DEF CheckOK, PassMatches, c
<1> QED BY <1>1, <1>2, <1>3, <1>5, <1>6, <1>7, OneCheck DEF c

LEMMA RoomIsLess ==
  ASSUME NEW cached, NEW room \in WithRoom(cached)
  PROVE  room \subseteq cached
BY DEF WithRoom

LEMMA ConcludeCheckStep ==
  ASSUME VerdictInv, NEW k \in DOMAIN checks, ConcludeCheck(k)
  PROVE  VerdictInv'
<1> DEFINE c == checks[k]
           ended == [c EXCEPT !.step = "over"]
<1>1. k \in 1..Len(checks) /\ IsCheck(c) /\ IsAuth(auth) /\ Remembered /\ CheckOK(k)
      /\ checks = [j \in 1..Len(checks) |-> checks[j]]
  BY DEF VerdictInv, LoginTypes, IsList
<1>2. asks' = asks /\ stored' = stored /\ c.step \in {"right", "wrong", "failed"}
  BY DEF ConcludeCheck, changeVars, Decision
<1>3. /\ IsCheck(ended) /\ ended.key = c.key /\ ended.generation = c.generation
      /\ ended.hash = c.hash /\ ended.step = "over"
  BY <1>1 DEF IsCheck
<1>4. CASE ~OfThisConfig(k)
  <2> DEFINE late == [ended EXCEPT !.verdict = "unauthorized"]
  <2>1. Check(k, late) /\ auth' = auth
    BY <1>4 DEF ConcludeCheck
  <2>2. checks'[k] = late
    BY <1>1, <2>1 DEF Check
  <2> HIDE DEF ended
  <2>3. /\ IsCheck(late) /\ late.key = c.key /\ late.generation = c.generation /\ late.hash = c.hash
        /\ late.step = "over" /\ late.verdict = "unauthorized"
    BY <1>3 DEF IsCheck
  <2> HIDE DEF late, c
  <2>4. CheckOK(k)'
    BY <1>1, <1>4, <2>1, <2>2, <2>3 DEF CheckOK, PassMatches, OfThisConfig, c
  <2>5. Remembered'
    BY <1>1, <2>1 DEF Remembered, PassMatches
  <2> QED BY <1>1, <1>2, <2>1, <2>3, <2>4, <2>5, OneCheck DEF c
<1>5. CASE OfThisConfig(k)
  <2> DEFINE said == [ended EXCEPT !.verdict = Decision[c.step]]
  <2>1. PICK room \in WithRoom(auth.cached) :
          auth' = [auth EXCEPT !.pending = @ \ {k},
                               !.cached = IF c.step = "right" THEN Stored(room, c.key) ELSE @]
    BY <1>5 DEF ConcludeCheck
  <2>2. Check(k, said)
    BY <1>5 DEF ConcludeCheck
  <2>3. checks'[k] = said
    BY <1>1, <2>2 DEF Check
  <2>4. /\ IsAuth(auth') /\ auth'.user = auth.user /\ auth'.hash = auth.hash
        /\ auth'.generation = auth.generation /\ auth'.pending = auth.pending \ {k}
        /\ auth'.cached = IF c.step = "right" THEN Stored(room, c.key) ELSE auth.cached
    <3> DEFINE rest == auth.pending \ {k}
               less == [auth EXCEPT !.pending = rest]
    <3> HIDE DEF rest
    <3>1. /\ IsAuth(less) /\ less.user = auth.user /\ less.hash = auth.hash
          /\ less.generation = auth.generation /\ less.pending = rest /\ less.cached = auth.cached
      BY <1>1 DEF IsAuth
    <3>2. auth' = [less EXCEPT !.cached = IF c.step = "right" THEN Stored(room, c.key) ELSE @]
      BY <2>1 DEF rest
    <3> HIDE DEF less, c
    <3> QED BY <3>1, <3>2 DEF IsAuth, rest
  <2>5. /\ Decision[c.step] = "allowed" => c.step = "right"
        /\ Decision[c.step] = "unauthorized" => c.step = "wrong"
    BY <1>2 DEF Decision
  <2> HIDE DEF ended
  <2>6. /\ IsCheck(said) /\ said.key = c.key /\ said.generation = c.generation /\ said.hash = c.hash
        /\ said.step = "over" /\ said.verdict = Decision[c.step]
    BY <1>3 DEF IsCheck
  <2>7. Remembered'
    <3>1. c.step = "right" => PassMatches(c.key, auth.hash)
      BY <1>1, <1>5 DEF CheckOK, OfThisConfig
    <3>2. ASSUME NEW e \in auth'.cached
          PROVE  IsEntry(e) /\ PassMatches(e.key, auth.hash)
      <4>1. CASE e \in auth.cached
        BY <1>1, <4>1 DEF Remembered
      <4>2. CASE e \notin auth.cached
        <5>1. c.step = "right" /\ e \in Stored(room, c.key)
          BY <2>4, <3>2, <4>2
        <5>2. e = [key |-> c.key, at |-> loginClock, access |-> auth.accesses]
          BY <4>2, <5>1, RoomIsLess DEF Stored
        <5> QED BY <3>1, <5>1, <5>2 DEF IsEntry
      <4> QED BY <4>1, <4>2
    <3> QED BY <2>4, <3>2 DEF Remembered, PassMatches
  <2> HIDE DEF said, c
  <2>8. CheckOK(k)'
    BY <1>1, <1>5, <2>3, <2>4, <2>5, <2>6 DEF CheckOK, PassMatches, OfThisConfig, c
  <2> QED BY <1>1, <1>2, <2>2, <2>4, <2>6, <2>7, <2>8, OneCheck DEF c
<1> QED BY <1>4, <1>5

-----------------------------------------------------------------------------
(* A request asks the authentication.                                       *)

Asks(i) == Enabled(auth) /\ asks[i].user = auth.user

(* Whom neither the configuration nor the user lets in.                     *)
LEMMA RefusedAsk ==
  ASSUME VerdictInv, NEW i \in DOMAIN asks, Lookup(i), ~Asks(i)
  PROVE  VerdictInv'
<1> DEFINE answer == IF Enabled(auth) THEN "unauthorized" ELSE "allowed"
<1>1. asks[i].step = "refreshed" /\ EndAsk(i, answer) /\ UNCHANGED <<auth, checks, stored>>
  BY DEF Lookup, Asks, changeVars
<1>2. Sees(asks[i])
  BY <1>1 DEF VerdictInv, AskOK
<1>3. PICK config \in asks[i].seen : InForce(config)
  BY <1>2 DEF Sees
<1>4. /\ answer = "allowed" => Admits(config, asks[i])
      /\ answer = "unauthorized" => ~Admits(config, asks[i])
  BY <1>3, Admission DEF Asks
<1> HIDE DEF answer
<1> QED BY <1>1, <1>2, <1>3, <1>4, EndedAsk

LEMMA LookupAuth ==
  ASSUME VerdictInv, NEW i \in DOMAIN asks, Lookup(i), Asks(i)
  PROVE  /\ IsAuth(auth') /\ auth'.user = auth.user /\ auth'.hash = auth.hash
         /\ auth'.generation = auth.generation
         /\ auth'.pending = auth.pending \cup IF Spawns(asks[i].key) THEN {Len(checks) + 1} ELSE {}
         /\ Remembered'
<1> DEFINE key == asks[i].key
           used == Used(key)
           more == auth.pending \cup IF Spawns(key) THEN {Len(checks) + 1} ELSE {}
           one == [auth EXCEPT !.cached = used]
           two == [one EXCEPT !.accesses = Accesses]
<1>1. IsAuth(auth) /\ Remembered
  BY DEF VerdictInv, LoginTypes
<1>2. auth' = [two EXCEPT !.pending = @ \cup IF Spawns(key) THEN {Len(checks) + 1} ELSE {}]
  BY DEF Lookup, Asks
<1>3. \A e \in used : IsEntry(e) /\ PassMatches(e.key, auth.hash)
  <2>1. ASSUME NEW e \in auth.cached, NEW access
        PROVE  /\ IsEntry([e EXCEPT !.access = access])
               /\ PassMatches([e EXCEPT !.access = access].key, auth.hash)
    BY <1>1 DEF Remembered, IsEntry
  <2>2. \A e \in auth.cached : IsEntry(e) /\ PassMatches(e.key, auth.hash)
    BY <1>1 DEF Remembered
  <2>3. \A e \in used : e \in auth.cached \/
          \E f \in auth.cached : e = [f EXCEPT !.access = Accesses]
    BY DEF Used, Fresh, EntriesOf
  <2>4. ASSUME NEW e \in used
        PROVE  IsEntry(e) /\ PassMatches(e.key, auth.hash)
    <3>1. CASE e \in auth.cached
      BY <2>2, <3>1
    <3>2. ASSUME NEW f \in auth.cached, e = [f EXCEPT !.access = Accesses]
          PROVE  IsEntry(e) /\ PassMatches(e.key, auth.hash)
      BY <2>1, <3>2
    <3> QED BY <2>3, <3>1, <3>2
  <2> QED BY <2>4
<1> HIDE DEF used, key
<1>4. /\ IsAuth(one) /\ one.user = auth.user /\ one.hash = auth.hash /\ one.cached = used
      /\ one.generation = auth.generation /\ one.pending = auth.pending
  BY <1>1 DEF IsAuth
<1> HIDE DEF one
<1>5. /\ IsAuth(two) /\ two.user = auth.user /\ two.hash = auth.hash /\ two.cached = used
      /\ two.generation = auth.generation /\ two.pending = auth.pending
  BY <1>4 DEF IsAuth
<1> HIDE DEF two
<1>6. auth' = [two EXCEPT !.pending = more]
  BY <1>2, <1>5 DEF IsAuth
<1> HIDE DEF more
<1>7. /\ IsAuth(auth') /\ auth'.user = auth.user /\ auth'.hash = auth.hash /\ auth'.cached = used
      /\ auth'.generation = auth.generation /\ auth'.pending = more
  BY <1>5, <1>6 DEF IsAuth
<1>8. Remembered'
  BY <1>3, <1>7 DEF Remembered, PassMatches
<1> QED BY <1>7, <1>8 DEF more, key

LEMMA LookupChecks ==
  ASSUME VerdictInv, NEW i \in DOMAIN asks, Lookup(i), Asks(i)
  PROVE  /\ IsList(checks') /\ \A k \in 1..Len(checks) : checks'[k] = checks[k]
         /\ IF Spawns(asks[i].key)
              THEN Len(checks') = Len(checks) + 1 /\ checks'[Len(checks) + 1] = NewCheck(asks[i].key)
            ELSE checks' = checks
<1>1. IsList(checks)
  BY DEF VerdictInv, LoginTypes
<1>2. checks' = IF Spawns(asks[i].key) THEN Append(checks, NewCheck(asks[i].key)) ELSE checks
  BY DEF Lookup, Asks
<1> QED BY <1>1, <1>2, LongerList

(* What the request is told at once, or what it waits for.                  *)
LEMMA LookupAsk ==
  ASSUME VerdictInv, NEW i \in DOMAIN asks, Lookup(i), Asks(i)
  PROVE  /\ DOMAIN asks' = DOMAIN asks /\ \A j \in DOMAIN asks : j # i => asks'[j] = asks[j]
         /\ IsAsk(asks'[i]) /\ asks'[i].seen = asks[i].seen
         /\ asks'[i].user = asks[i].user /\ asks'[i].key = asks[i].key
         /\ \/ asks'[i].step = "done" /\ asks'[i].answer = "busy"
            \/ /\ asks'[i].step = "done" /\ asks'[i].answer = "allowed"
               /\ PassMatches(asks[i].key, auth.hash)
            \/ /\ asks'[i].step = "waiting" /\ asks'[i].generation = auth.generation
               /\ asks'[i].check \in 1..Len(checks')
               /\ checks'[asks'[i].check].key = asks[i].key
               /\ checks'[asks'[i].check].generation = auth.generation
<1> DEFINE key == asks[i].key
<1>1. IsAsk(asks[i]) /\ Remembered /\ auth.pending \subseteq 1..Len(checks)
      /\ \A k \in 1..Len(checks) : CheckOK(k)
  BY DEF VerdictInv, LoginTypes
<1>2. ASSUME NEW answer, EndAsk(i, answer)
      PROVE  /\ DOMAIN asks' = DOMAIN asks /\ \A j \in DOMAIN asks : j # i => asks'[j] = asks[j]
             /\ IsAsk(asks'[i]) /\ asks'[i].seen = asks[i].seen
             /\ asks'[i].user = asks[i].user /\ asks'[i].key = asks[i].key
             /\ asks'[i].step = "done" /\ asks'[i].answer = answer
  <2> DEFINE over == [asks[i] EXCEPT !.step = "done"]
             new == [over EXCEPT !.answer = answer]
  <2>1. /\ DOMAIN asks' = DOMAIN asks /\ \A j \in DOMAIN asks : j # i => asks'[j] = asks[j]
        /\ asks'[i] = new
    BY <1>2 DEF EndAsk, SetAsk
  <2>2. IsAsk(over) /\ over.seen = asks[i].seen /\ over.user = asks[i].user /\ over.key = asks[i].key
        /\ over.step = "done"
    BY <1>1 DEF IsAsk
  <2> HIDE DEF over
  <2>3. IsAsk(new) /\ new.seen = asks[i].seen /\ new.user = asks[i].user /\ new.key = asks[i].key
        /\ new.step = "done" /\ new.answer = answer
    BY <2>2 DEF IsAsk
  <2> HIDE DEF new
  <2> QED BY <2>1, <2>3
<1>3. ASSUME NEW k, AwaitCheck(i, k)
      PROVE  /\ DOMAIN asks' = DOMAIN asks /\ \A j \in DOMAIN asks : j # i => asks'[j] = asks[j]
             /\ IsAsk(asks'[i]) /\ asks'[i].seen = asks[i].seen
             /\ asks'[i].user = asks[i].user /\ asks'[i].key = asks[i].key
             /\ asks'[i].step = "waiting" /\ asks'[i].generation = auth.generation
             /\ asks'[i].check = k
  <2> DEFINE queued == [asks[i] EXCEPT !.step = "waiting"]
             since == [queued EXCEPT !.generation = auth.generation]
             new == [since EXCEPT !.check = k]
  <2>1. /\ DOMAIN asks' = DOMAIN asks /\ \A j \in DOMAIN asks : j # i => asks'[j] = asks[j]
        /\ asks'[i] = new
    BY <1>3 DEF AwaitCheck, SetAsk
  <2>2. IsAsk(queued) /\ queued.seen = asks[i].seen /\ queued.user = asks[i].user
        /\ queued.key = asks[i].key /\ queued.step = "waiting"
    BY <1>1 DEF IsAsk
  <2> HIDE DEF queued
  <2>3. IsAsk(since) /\ since.seen = asks[i].seen /\ since.user = asks[i].user
        /\ since.key = asks[i].key /\ since.step = "waiting" /\ since.generation = auth.generation
    BY <2>2 DEF IsAsk
  <2> HIDE DEF since
  <2>4. IsAsk(new) /\ new.seen = asks[i].seen /\ new.user = asks[i].user /\ new.key = asks[i].key
        /\ new.step = "waiting" /\ new.generation = auth.generation /\ new.check = k
    BY <2>3 DEF IsAsk
  <2> HIDE DEF new
  <2> QED BY <2>1, <2>4
<1>4. CASE EntriesOf(key) # {}
  <2>1. EndAsk(i, "allowed")
    BY <1>4 DEF Lookup, Asks, Shares, Spawns
  <2>2. PassMatches(key, auth.hash)
    BY <1>1, <1>4 DEF EntriesOf, Fresh, Remembered
  <2> QED BY <1>2, <2>1, <2>2
<1>5. CASE EntriesOf(key) = {} /\ Shares(key)
  <2>1. PICK k \in PendingFor(key) : AwaitCheck(i, k)
    BY <1>5 DEF Lookup, Asks, Shares, Spawns
  <2>2. k \in 1..Len(checks) /\ checks[k].key = key /\ checks[k].generation = auth.generation
    BY <1>1 DEF PendingFor, CheckOK
  <2>3. checks' = checks
    BY <1>5, LookupChecks DEF Shares, Spawns
  <2> QED BY <1>3, <2>1, <2>2, <2>3
<1>6. CASE EntriesOf(key) = {} /\ ~Shares(key) /\ Spawns(key)
  <2>1. AwaitCheck(i, Len(checks) + 1)
    BY <1>6 DEF Lookup, Asks, Shares, Spawns
  <2>2. Len(checks) + 1 \in 1..Len(checks') /\ checks'[Len(checks) + 1] = NewCheck(key)
    BY <1>6, LookupChecks DEF VerdictInv, LoginTypes, IsList
  <2>3. checks'[Len(checks) + 1].key = key /\ checks'[Len(checks) + 1].generation = auth.generation
    BY <2>2 DEF NewCheck
  <2> QED BY <1>3, <2>1, <2>2, <2>3
<1>7. CASE EntriesOf(key) = {} /\ ~Shares(key) /\ ~Spawns(key)
  <2>1. EndAsk(i, "busy")
    BY <1>7 DEF Lookup, Asks
  <2> QED BY <1>2, <2>1
<1> QED BY <1>4, <1>5, <1>6, <1>7

LEMMA LookupStep ==
  ASSUME VerdictInv, NEW i \in DOMAIN asks, Lookup(i)
  PROVE  VerdictInv'
<1>1. CASE ~Asks(i)
  BY <1>1, RefusedAsk
<1>2. CASE Asks(i)
  <2> DEFINE n == Len(checks)
  <2>1. n \in Nat /\ stored' = stored /\ asks[i].step = "refreshed"
    BY DEF VerdictInv, LoginTypes, IsList, Lookup, changeVars
  <2>2. Len(checks') = n \/ (Len(checks') = n + 1 /\ checks'[n + 1] = NewCheck(asks[i].key))
    BY <1>2, LookupChecks
  <2>3. 1..n \subseteq 1..Len(checks') /\ \A k \in 1..Len(checks') : k \in 1..n \/ k = n + 1
    BY <2>1, <2>2
  <2>4. ASSUME NEW k \in 1..Len(checks')
        PROVE  IsCheck(checks'[k]) /\ checks'[k].generation \in Nat /\ CheckOK(k)'
    <3>1. CASE k \in 1..n
      <4>1. checks'[k] = checks[k] /\ CheckOK(k) /\ k # n + 1
        BY <1>2, <2>1, <3>1, LookupChecks DEF VerdictInv
      <4>2. k \in auth'.pending => k \in auth.pending
        BY <1>2, <4>1, LookupAuth
      <4>3. CheckOK(k)'
        BY <1>2, <4>1, <4>2, LookupAuth DEF CheckOK, PassMatches
      <4>4. IsCheck(checks[k]) /\ checks[k].generation \in Nat
        BY <3>1 DEF VerdictInv, LoginTypes
      <4> QED BY <4>1, <4>3, <4>4
    <3>2. CASE k \notin 1..n
      <4>1. k = n + 1 /\ checks'[k] = NewCheck(asks[i].key)
        BY <2>1, <2>2, <2>3, <2>4, <3>2
      <4>2. /\ checks'[k].generation = auth.generation /\ checks'[k].hash = auth.hash
            /\ checks'[k].step = "queued" /\ checks'[k].verdict = "none" /\ IsCheck(checks'[k])
        BY <4>1 DEF NewCheck, NoVerdict, IsCheck
      <4>3. auth.generation \in Nat
        BY DEF VerdictInv, LoginTypes
      <4>4. CheckOK(k)'
        BY <1>2, <4>2, <4>3, LookupAuth DEF CheckOK
      <4> QED BY <4>2, <4>3, <4>4
    <3> QED BY <3>1, <3>2
  <2>5. ASSUME NEW j \in DOMAIN asks'
        PROVE  IsAsk(asks'[j]) /\ IsFiniteSet(asks'[j].seen) /\ AskOK(asks[j])'
    <3>1. j \in DOMAIN asks
      BY <1>2, <2>5, LookupAsk
    <3>2. IsAsk(asks[j]) /\ IsFiniteSet(asks[j].seen) /\ AskOK(asks[j])
      BY <3>1 DEF VerdictInv, LoginTypes
    <3>3. CASE j # i
      <4>1. asks'[j] = asks[j]
        BY <1>2, <3>1, <3>3, LookupAsk
      <4>2. Waits(asks[j]) => Waits(asks[j])'
        BY <1>2, <2>3, <4>1, LookupAuth, LookupChecks DEF Waits, Enabled
      <4>3. AskOK(asks[j])'
        BY <1>2, <2>1, <3>2, <4>1, <4>2, LookupAuth
           DEF AskOK, Sees, Judged, InForce, Enabled, PassMatches, Admits
      <4> QED BY <3>2, <4>1, <4>3
    <3>4. CASE j = i
      <4>1. Sees(asks[i])
        BY <2>1, <3>2, <3>4 DEF AskOK
      <4>2. PICK config \in asks[i].seen : InForce(config)
        BY <4>1 DEF Sees
      <4>3. Sees(asks[i])'
        BY <1>2, <2>1, <4>1, LookupAsk, LookupAuth DEF Sees, InForce
      <4>4. asks'[i].step = "waiting" => Waits(asks[i])'
        BY <1>2, LookupAsk, LookupAuth DEF Waits, Asks, Enabled
      <4>5. asks'[i].step = "done" => Judged(asks[i])'
        <5>1. PassMatches(asks[i].key, auth.hash) => Admits(config, asks'[i])
          BY <1>2, <4>2, LookupAsk, Admission DEF Asks
        <5>2. asks'[i].step = "done" =>
                \/ asks'[i].answer = "busy"
                \/ asks'[i].answer = "allowed" /\ PassMatches(asks[i].key, auth.hash)
          BY <1>2, LookupAsk
        <5>3. config \in asks'[i].seen
          BY <1>2, <4>2, LookupAsk
        <5> QED BY <5>1, <5>2, <5>3 DEF Judged, Admits, Enabled, PassMatches
      <4>6. AskOK(asks[i])'
        BY <4>3, <4>4, <4>5 DEF AskOK
      <4> QED BY <1>2, <3>2, <3>4, <4>6, LookupAsk
    <3> QED BY <3>3, <3>4
  <2>6. auth'.generation \in Nat /\ auth'.pending \subseteq 1..Len(checks')
    <3>1. auth.generation \in Nat /\ auth.pending \subseteq 1..n
      BY DEF VerdictInv, LoginTypes
    <3>2. Spawns(asks[i].key) => n + 1 \in 1..Len(checks')
      BY <1>2, <2>1, LookupChecks
    <3> QED BY <1>2, <2>3, <3>1, <3>2, LookupAuth
  <2>7. LoginTypes'
    BY <1>2, <2>4, <2>5, <2>6, LookupAuth, LookupChecks DEF LoginTypes
  <2> QED BY <1>2, <2>4, <2>5, <2>7, LookupAuth DEF VerdictInv
<1> QED BY <1>1, <1>2

-----------------------------------------------------------------------------
(* A change is committed: whoever is served meanwhile sees it too.          *)
LEMMA CommitStep ==
  ASSUME VerdictInv, NEW i \in DOMAIN changes, CommitChange(i)
  PROVE  VerdictInv'
<1>1. auth' = auth /\ checks' = checks
  BY DEF CommitChange
<1>2. LoginTypes /\ Remembered /\ \A k \in 1..Len(checks) : CheckOK(k)
  BY DEF VerdictInv
<1>3. Remembered' /\ \A k \in 1..Len(checks') : CheckOK(k)'
  BY <1>1, <1>2 DEF Remembered, CheckOK, PassMatches
<1>4. ASSUME NEW j \in DOMAIN asks'
      PROVE  IsAsk(asks'[j]) /\ IsFiniteSet(asks'[j].seen) /\ AskOK(asks[j])'
  <2> DEFINE now == stored'
             both == asks[j].seen \cup {now}
             new == [asks[j] EXCEPT !.seen = both]
  <2>1. j \in DOMAIN asks
    BY <1>4 DEF CommitChange
  <2>2. IsAsk(asks[j]) /\ IsFiniteSet(asks[j].seen) /\ AskOK(asks[j])
    BY <2>1 DEF VerdictInv, LoginTypes
  <2>3. CASE asks[j].step \in {"refreshed", "waiting"}
    <3>1. asks'[j] = new
      BY <2>1, <2>3 DEF CommitChange
    <3>2. IsFiniteSet(both) /\ now \in both /\ asks[j].seen \subseteq both
      BY <2>2, FS_AddElement
    <3> HIDE DEF both
    <3>3. IsAsk(new) /\ new.seen = both /\ new.user = asks[j].user /\ new.key = asks[j].key
          /\ new.step = asks[j].step /\ new.check = asks[j].check
          /\ new.generation = asks[j].generation
      BY <2>2 DEF IsAsk
    <3> HIDE DEF new
    <3>4. Sees(asks[j])'
      <4>1. Sees(asks[j])
        BY <2>2, <2>3 DEF AskOK
      <4> QED BY <1>1, <3>1, <3>2, <3>3, <4>1 DEF Sees, InForce
    <3>5. asks[j].step = "waiting" => Waits(asks[j])'
      <4>1. asks[j].step = "waiting" => Waits(asks[j])
        BY <2>2 DEF AskOK
      <4> QED BY <1>1, <3>1, <3>2, <3>3, <4>1 DEF Waits, Enabled
    <3>6. AskOK(asks[j])'
      BY <2>3, <3>1, <3>3, <3>4, <3>5 DEF AskOK
    <3> QED BY <3>1, <3>2, <3>3, <3>6
  <2>4. CASE asks[j].step \notin {"refreshed", "waiting"}
    <3>1. asks'[j] = asks[j]
      BY <2>1, <2>4 DEF CommitChange
    <3>2. AskOK(asks[j])'
      BY <2>2, <2>4, <3>1 DEF AskOK, Judged, Admits, Enabled, PassMatches
    <3> QED BY <2>2, <3>1, <3>2
  <2> QED BY <2>3, <2>4
<1>5. LoginTypes'
  BY <1>1, <1>2, <1>4 DEF LoginTypes, IsAuth, IsList, IsCheck
<1> QED BY <1>3, <1>4, <1>5 DEF VerdictInv

LEMMA VerdictInit ==
  ASSUME LoginInit
  PROVE  VerdictInv
<1>1. IsAuth(auth) /\ auth.generation = 0 /\ auth.pending = {} /\ auth.cached = {}
  BY DEF LoginInit, IsAuth
<1>2. Len(checks) = 0 /\ IsList(checks)
  <2>1. checks = [k \in 1..0 |-> checks[k]]
    BY DEF LoginInit
  <2> QED BY <2>1, ListOf
<1>3. ASSUME NEW i \in DOMAIN asks
      PROVE  IsAsk(asks[i]) /\ IsFiniteSet(asks[i].seen) /\ AskOK(asks[i])
  <2>1. asks[i] = Asked(loginEnv.asks[i], "new")
    BY DEF LoginInit
  <2>2. IsAsk(asks[i]) /\ asks[i].step = "new" /\ asks[i].seen = {}
    BY <2>1 DEF Asked, IsAsk
  <2> QED BY <2>2, FS_EmptySet DEF AskOK
<1> QED BY <1>1, <1>2, <1>3 DEF VerdictInv, LoginTypes, Remembered

LEMMA VerdictStep ==
  ASSUME VerdictInv, [LoginNext]_loginVars
  PROVE  VerdictInv'
<1>1. CASE UNCHANGED loginVars
  BY <1>1, OthersStay DEF loginVars
<1>2. CASE \E i \in DOMAIN asks : Refresh(i) \/ Lookup(i) \/ Hear(i) \/ GoAway(i)
  BY <1>2, RefreshStep, LookupStep, HearStep, GoAwayStep
<1>3. CASE \E k \in DOMAIN checks : StartCheck(k) \/ FinishCheck(k) \/ ConcludeCheck(k)
  BY <1>3, StartCheckStep, FinishCheckStep, ConcludeCheckStep
<1>4. ASSUME NEW i \in DOMAIN changes,
             \/ Begin(i) \/ LoadBands(i) \/ StartHash(i) \/ FinishHash(i) \/ SendChange(i)
             \/ ApplyCluster(i) \/ Refused(i) \/ DropChange(i)
      PROVE  VerdictInv'
  <2>1. UNCHANGED <<auth, checks, asks, stored>>
    BY <1>4 DEF Begin, LoadBands, StartHash, FinishHash, SendChange, ApplyCluster, Refused, DropChange
  <2> QED BY <2>1, OthersStay
<1>5. CASE \E i \in DOMAIN changes : CommitChange(i) \/ Install(i)
  BY <1>5, CommitStep, InstallStep
<1>6. CASE TickLogin
  BY <1>6, OthersStay DEF TickLogin, changeVars
<1> QED BY <1>1, <1>2, <1>3, <1>4, <1>5, <1>6 DEF LoginNext

(* Whatever requests and changes interleave, and whoever goes away, nobody  *)
(* is let in or sent away by a configuration that was not in the database   *)
(* while the request was served (cached_basic_auth, authorize, verify and   *)
(* replace_config of auth.rs).                                              *)
THEOREM VerdictsAreOfTheirTime == LoginSpec => []VerdictsFitTheConfig
<1>1. LoginInit => VerdictInv
  BY VerdictInit
<1>2. VerdictInv /\ [LoginNext]_loginVars => VerdictInv'
  BY VerdictStep
<1>3. VerdictInv => VerdictsFitTheConfig
  BY DEF VerdictInv, AskOK, Judged, VerdictsFitTheConfig
<1> QED BY <1>1, <1>2, <1>3, PTL DEF LoginSpec

-----------------------------------------------------------------------------
(* Changes of the configuration.                                            *)

Loading == {"locked", "hash", "hashing", "ready", "sent"}

(* What a change has found, and done, so far.                               *)
Progress(c) ==
  /\ c.step # "orphaned"
  /\ c.step \in Loading => c.bands \/ stored.region = c.payload.region
  /\ c.step = "committed" =>
       c.payload.region = stored.region /\ (c.bands \/ bandsOf = stored.region)
  /\ c.step = "installed" => bandsOf = stored.region

InEffect ==
  (\A i \in DOMAIN changes : changes[i].step \notin {"committed", "installed"}) =>
    bandsOf = stored.region /\ clusterOf = stored.cluster

ChangeInv ==
  /\ cutShort \in BOOLEAN
  /\ \A i \in DOMAIN changes : IsChange(changes[i])
  /\ \A i, j \in DOMAIN changes : changes[i].step \in Underway /\ changes[j].step \in Underway => i = j
  /\ cutShort \/ (InEffect /\ \A i \in DOMAIN changes : Progress(changes[i]))

LEMMA SetOne ==
  ASSUME NEW i \in DOMAIN changes, NEW new, SetChange(i, new)
  PROVE  /\ DOMAIN changes' = DOMAIN changes /\ changes'[i] = new
         /\ \A j \in DOMAIN changes : j # i => changes'[j] = changes[j]
BY DEF SetChange

LEMMA NewStep ==
  ASSUME NEW c, IsChange(c), NEW step, NEW new, new = [c EXCEPT !.step = step]
  PROVE  IsChange(new) /\ new.step = step /\ new.payload = c.payload /\ new.bands = c.bands
         /\ new.hash = c.hash
BY DEF IsChange

(* Nobody else is under way.                                                *)
LEMMA OneUnderway ==
  ASSUME ChangeInv, NEW i \in DOMAIN changes, NEW new, SetChange(i, new), IsChange(new),
         new.step \in Underway => changes[i].step \in Underway \/ LockFree
  PROVE  /\ \A j \in DOMAIN changes' : IsChange(changes'[j])
         /\ \A j, k \in DOMAIN changes' :
              changes'[j].step \in Underway /\ changes'[k].step \in Underway => j = k
<1>1. /\ DOMAIN changes' = DOMAIN changes /\ changes'[i] = new
      /\ \A j \in DOMAIN changes : j # i => changes'[j] = changes[j]
  BY SetOne
<1>2. \A j \in DOMAIN changes : j # i /\ new.step \in Underway => changes[j].step \notin Underway
  BY DEF ChangeInv, LockFree
<1>3. \A j, k \in DOMAIN changes :
        changes[j].step \in Underway /\ changes[k].step \in Underway => j = k
  BY DEF ChangeInv
<1>4. \A j \in DOMAIN changes' : IsChange(changes'[j])
  BY <1>1 DEF ChangeInv
<1>5. ASSUME NEW j \in DOMAIN changes', NEW k \in DOMAIN changes',
             changes'[j].step \in Underway, changes'[k].step \in Underway, j # k
      PROVE  FALSE
  <2>1. CASE j = i
    BY <1>1, <1>2, <1>5, <2>1
  <2>2. CASE k = i
    BY <1>1, <1>2, <1>5, <2>2
  <2>3. CASE j # i /\ k # i
    BY <1>1, <1>3, <1>5, <2>3
  <2> QED BY <2>1, <2>2, <2>3
<1> QED BY <1>4, <1>5

(* A change that has not come to its commit goes on, or ends.               *)
LEMMA EarlyStep ==
  ASSUME ChangeInv, NEW i \in DOMAIN changes, NEW new, SetChange(i, new), IsChange(new),
         UNCHANGED <<stored, bandsOf, clusterOf, cutShort>>,
         new.payload = changes[i].payload, new.bands = changes[i].bands,
         changes[i].step \in Loading \cup {"waiting", "abandoned"},
         new.step \in Loading \cup {"abandoned", "over"},
         new.step \in Loading => changes[i].step \in Loading
  PROVE  ChangeInv'
<1>1. /\ DOMAIN changes' = DOMAIN changes /\ changes'[i] = new
      /\ \A j \in DOMAIN changes : j # i => changes'[j] = changes[j]
  BY SetOne
<1>2. new.step \in Underway => changes[i].step \in Underway
  BY DEF Underway, Loading
<1>3. ASSUME InEffect /\ \A j \in DOMAIN changes : Progress(changes[j])
      PROVE  InEffect' /\ \A j \in DOMAIN changes' : Progress(changes[j])'
  <2>1. changes[i].step \notin {"committed", "installed"}
    BY DEF Loading
  <2>2. InEffect'
    BY <1>1, <1>3, <2>1 DEF InEffect
  <2>3. ASSUME NEW j \in DOMAIN changes'
        PROVE  Progress(changes[j])'
    <3>1. CASE j = i
      <4>1. Progress(changes[i])
        BY <1>3
      <4> QED BY <1>1, <3>1, <4>1 DEF Progress, Loading
    <3>2. CASE j # i
      <4>1. Progress(changes[j]) /\ changes'[j] = changes[j]
        BY <1>1, <1>3, <3>2
      <4> QED BY <4>1 DEF Progress
    <3> QED BY <3>1, <3>2
  <2> QED BY <2>2, <2>3
<1> QED BY <1>2, <1>3, OneUnderway DEF ChangeInv

LEMMA BeginStep ==
  ASSUME ChangeInv, NEW i \in DOMAIN changes, Begin(i)
  PROVE  ChangeInv'
<1> DEFINE there == [changes[i] EXCEPT !.step = "locked"]
           differ == stored.region # changes[i].payload.region
           new == [there EXCEPT !.bands = differ]
<1>1. SetChange(i, new) /\ LockFree /\ UNCHANGED <<stored, bandsOf, clusterOf, cutShort>>
  BY DEF Begin
<1>2. IsChange(changes[i])
  BY DEF ChangeInv
<1> HIDE DEF differ
<1>3. IsChange(new) /\ new.step = "locked" /\ new.payload = changes[i].payload /\ new.bands = differ
  <2>1. IsChange(there) /\ there.step = "locked" /\ there.payload = changes[i].payload
    BY <1>2, NewStep
  <2> HIDE DEF there
  <2> QED BY <2>1 DEF IsChange
<1> HIDE DEF new
<1>4. /\ DOMAIN changes' = DOMAIN changes /\ changes'[i] = new
      /\ \A j \in DOMAIN changes : j # i => changes'[j] = changes[j]
  BY <1>1, SetOne
<1>5. ASSUME InEffect /\ \A j \in DOMAIN changes : Progress(changes[j])
      PROVE  InEffect' /\ \A j \in DOMAIN changes' : Progress(changes[j])'
  <2>1. changes[i].step \notin {"committed", "installed"}
    BY DEF Begin
  <2>2. InEffect'
    BY <1>1, <1>4, <1>5, <2>1 DEF InEffect
  <2>3. ASSUME NEW j \in DOMAIN changes'
        PROVE  Progress(changes[j])'
    <3>1. CASE j = i
      BY <1>1, <1>3, <1>4, <3>1 DEF Progress, Loading, differ
    <3>2. CASE j # i
      <4>1. Progress(changes[j]) /\ changes'[j] = changes[j]
        BY <1>4, <1>5, <3>2
      <4> QED BY <1>1, <4>1 DEF Progress
    <3> QED BY <3>1, <3>2
  <2> QED BY <2>2, <2>3
<1> QED BY <1>1, <1>3, <1>5, OneUnderway DEF ChangeInv

LEMMA GoesOn ==
  ASSUME ChangeInv, NEW i \in DOMAIN changes,
         LoadBands(i) \/ StartHash(i) \/ SendChange(i) \/ Refused(i)
  PROVE  ChangeInv'
<1>1. PICK step : /\ To(i, step) /\ UNCHANGED <<stored, bandsOf, clusterOf, cutShort>>
                  /\ changes[i].step \in Loading /\ step \in Loading \cup {"over"}
  BY DEF LoadBands, StartHash, SendChange, Refused, Loading
<1> DEFINE new == [changes[i] EXCEPT !.step = step]
<1>2. /\ IsChange(new) /\ new.step = step /\ new.payload = changes[i].payload
      /\ new.bands = changes[i].bands
  BY NewStep DEF ChangeInv
<1>3. SetChange(i, new)
  BY <1>1 DEF To
<1> HIDE DEF new
<1> QED BY <1>1, <1>2, <1>3, EarlyStep

LEMMA FinishHashStep ==
  ASSUME ChangeInv, NEW i \in DOMAIN changes, FinishHash(i)
  PROVE  ChangeInv'
<1>1. UNCHANGED <<stored, bandsOf, clusterOf, cutShort>> /\ IsChange(changes[i])
  BY DEF FinishHash, ChangeInv
<1>2. CASE changes[i].step = "hashing"
  <2> DEFINE made == [pass |-> changes[i].payload.pass, salt |-> salts]
             there == [changes[i] EXCEPT !.step = "ready"]
             new == [there EXCEPT !.hash = made]
  <2>1. SetChange(i, new)
    BY <1>2 DEF FinishHash
  <2> HIDE DEF made
  <2>2. /\ IsChange(new) /\ new.step = "ready" /\ new.payload = changes[i].payload
        /\ new.bands = changes[i].bands
    <3>1. /\ IsChange(there) /\ there.step = "ready" /\ there.payload = changes[i].payload
          /\ there.bands = changes[i].bands
      BY <1>1, NewStep
    <3> HIDE DEF there
    <3> QED BY <3>1 DEF IsChange
  <2> HIDE DEF new
  <2> QED BY <1>1, <1>2, <2>1, <2>2, EarlyStep DEF Loading
<1>3. CASE changes[i].step # "hashing"
  <2> DEFINE new == [changes[i] EXCEPT !.step = "over"]
  <2>1. SetChange(i, new) /\ changes[i].step = "abandoned"
    BY <1>3 DEF FinishHash, To
  <2>2. /\ IsChange(new) /\ new.step = "over" /\ new.payload = changes[i].payload
        /\ new.bands = changes[i].bands
    BY <1>1, NewStep
  <2> HIDE DEF new
  <2> QED BY <1>1, <2>1, <2>2, EarlyStep DEF Loading
<1> QED BY <1>2, <1>3

LEMMA DropStep ==
  ASSUME ChangeInv, NEW i \in DOMAIN changes, DropChange(i)
  PROVE  ChangeInv'
<1>1. IsChange(changes[i]) /\ cutShort \in BOOLEAN
  BY DEF ChangeInv
<1>2. PICK step : /\ To(i, step) /\ step \in {"orphaned", "abandoned", "over"}
                  /\ step = "orphaned" => changes[i].step = "sent"
  BY DEF DropChange
<1> DEFINE new == [changes[i] EXCEPT !.step = step]
<1>3. /\ IsChange(new) /\ new.step = step /\ new.payload = changes[i].payload
      /\ new.bands = changes[i].bands /\ new.step \notin Underway
  <2>1. step \notin Underway
    BY <1>2 DEF Underway
  <2>2. /\ IsChange(new) /\ new.step = step /\ new.payload = changes[i].payload
        /\ new.bands = changes[i].bands
    BY <1>1, NewStep
  <2> QED BY <2>1, <2>2
<1>4. SetChange(i, new)
  BY <1>2 DEF To
<1> HIDE DEF new
<1>5. CASE changes[i].step \in {"sent", "committed", "installed"}
  <2>1. cutShort' = TRUE
    BY <1>5 DEF DropChange
  <2> QED BY <1>3, <1>4, <2>1, OneUnderway DEF ChangeInv
<1>6. CASE changes[i].step \notin {"sent", "committed", "installed"}
  <2>1. UNCHANGED <<stored, bandsOf, clusterOf, cutShort>>
    BY <1>1, <1>6 DEF DropChange
  <2>2. changes[i].step \in Loading \cup {"waiting", "abandoned"}
    BY <1>6 DEF DropChange, Underway, Loading
  <2>3. new.step \in {"abandoned", "over"}
    BY <1>2, <1>3, <1>6
  <2> QED BY <1>3, <1>4, <2>1, <2>2, <2>3, EarlyStep DEF Loading
<1> QED BY <1>5, <1>6

(* The row is written, by the only change under way ...                     *)
LEMMA CommitOne ==
  ASSUME ChangeInv, NEW i \in DOMAIN changes, CommitChange(i)
  PROVE  ChangeInv'
<1> DEFINE step == IF changes[i].step = "sent" THEN "committed" ELSE "over"
           new == [changes[i] EXCEPT !.step = step]
<1>1. /\ changes[i].step \in {"sent", "orphaned"} /\ UNCHANGED <<bandsOf, clusterOf, cutShort>>
      /\ stored'.region = changes[i].payload.region
  BY DEF CommitChange
<1>2. SetChange(i, new)
  BY DEF CommitChange, To
<1> HIDE DEF step
<1>3. IsChange(new) /\ new.step = step /\ new.payload = changes[i].payload /\ new.bands = changes[i].bands
  BY NewStep DEF ChangeInv
<1> HIDE DEF new
<1>4. /\ DOMAIN changes' = DOMAIN changes /\ changes'[i] = new
      /\ \A j \in DOMAIN changes : j # i => changes'[j] = changes[j]
  BY <1>2, SetOne
<1>5. new.step \in Underway => changes[i].step \in Underway
  BY <1>1, <1>3 DEF Underway, step
<1>6. ASSUME InEffect /\ \A j \in DOMAIN changes : Progress(changes[j])
      PROVE  InEffect' /\ \A j \in DOMAIN changes' : Progress(changes[j])'
  <2>1. changes[i].step = "sent" /\ new.step = "committed"
    BY <1>1, <1>3, <1>6 DEF Progress, step
  <2>2. \A j \in DOMAIN changes : j # i => changes[j].step \notin Underway
    BY <2>1 DEF ChangeInv, Underway
  <2>3. bandsOf = stored.region /\ Progress(changes[i])
    BY <1>6, <2>1, <2>2 DEF InEffect, Underway
  <2>4. InEffect'
    BY <1>4, <2>1 DEF InEffect
  <2>5. ASSUME NEW j \in DOMAIN changes'
        PROVE  Progress(changes[j])'
    <3>1. CASE j = i
      BY <1>1, <1>3, <1>4, <2>1, <2>3, <3>1 DEF Progress, Loading
    <3>2. CASE j # i
      <4>1. changes'[j] = changes[j] /\ changes[j].step \notin Underway /\ changes[j].step # "orphaned"
        BY <1>4, <1>6, <2>2, <3>2 DEF Progress
      <4> QED BY <4>1 DEF Progress, Underway, Loading
    <3> QED BY <3>1, <3>2
  <2> QED BY <2>4, <2>5
<1> QED BY <1>1, <1>2, <1>3, <1>5, <1>6, OneUnderway DEF ChangeInv

(* ... and it is put to work, the bands first and then the cluster.         *)
LEMMA WorkStep ==
  ASSUME ChangeInv, NEW i \in DOMAIN changes, Install(i) \/ ApplyCluster(i)
  PROVE  ChangeInv'
<1>1. PICK step : /\ To(i, step) /\ UNCHANGED <<stored, cutShort>>
                  /\ \/ /\ changes[i].step = "committed" /\ step = "installed"
                        /\ bandsOf' = IF changes[i].bands THEN changes[i].payload.region ELSE bandsOf
                     \/ /\ changes[i].step = "installed" /\ step = "over"
                        /\ bandsOf' = bandsOf /\ clusterOf' = stored.cluster
  BY DEF Install, ApplyCluster
<1> DEFINE new == [changes[i] EXCEPT !.step = step]
<1>2. IsChange(new) /\ new.step = step /\ new.payload = changes[i].payload /\ new.bands = changes[i].bands
  BY NewStep DEF ChangeInv
<1>3. SetChange(i, new)
  BY <1>1 DEF To
<1> HIDE DEF new
<1>4. /\ DOMAIN changes' = DOMAIN changes /\ changes'[i] = new
      /\ \A j \in DOMAIN changes : j # i => changes'[j] = changes[j]
  BY <1>3, SetOne
<1>5. changes[i].step \in Underway
  BY <1>1 DEF Underway
<1>6. ASSUME InEffect /\ \A j \in DOMAIN changes : Progress(changes[j])
      PROVE  InEffect' /\ \A j \in DOMAIN changes' : Progress(changes[j])'
  <2>1. \A j \in DOMAIN changes : j # i => changes[j].step \notin Underway
    BY <1>5 DEF ChangeInv
  <2>2. bandsOf' = stored.region
    BY <1>1, <1>6 DEF Progress
  <2>3. InEffect'
    BY <1>1, <1>2, <1>4, <2>2 DEF InEffect
  <2>4. ASSUME NEW j \in DOMAIN changes'
        PROVE  Progress(changes[j])'
    <3>1. CASE j = i
      BY <1>1, <1>2, <1>4, <2>2, <3>1 DEF Progress, Loading
    <3>2. CASE j # i
      <4>1. changes'[j] = changes[j] /\ changes[j].step \notin Underway /\ changes[j].step # "orphaned"
        BY <1>4, <1>6, <2>1, <3>2 DEF Progress
      <4> QED BY <4>1 DEF Progress, Underway, Loading
    <3> QED BY <3>1, <3>2
  <2> QED BY <2>3, <2>4
<1> QED BY <1>1, <1>2, <1>3, <1>5, <1>6, OneUnderway DEF ChangeInv

LEMMA ChangeStep ==
  ASSUME ChangeInv, [LoginNext]_loginVars
  PROVE  ChangeInv'
<1>1. CASE UNCHANGED changeVars
  BY <1>1 DEF changeVars, ChangeInv, InEffect, Progress
<1>2. CASE \E i \in DOMAIN asks : Refresh(i) \/ Lookup(i) \/ Hear(i) \/ GoAway(i)
  <2>1. UNCHANGED changeVars
    BY <1>2 DEF Refresh, Lookup, Hear, GoAway
  <2> QED BY <1>1, <2>1
<1>3. CASE \E k \in DOMAIN checks : StartCheck(k) \/ FinishCheck(k) \/ ConcludeCheck(k)
  <2>1. UNCHANGED changeVars
    BY <1>3 DEF StartCheck, FinishCheck, ConcludeCheck
  <2> QED BY <1>1, <2>1
<1>4. CASE \E i \in DOMAIN changes :
             \/ Begin(i) \/ LoadBands(i) \/ StartHash(i) \/ FinishHash(i) \/ SendChange(i)
             \/ CommitChange(i) \/ Install(i) \/ ApplyCluster(i) \/ Refused(i) \/ DropChange(i)
  BY <1>4, BeginStep, GoesOn, FinishHashStep, CommitOne, WorkStep, DropStep
<1>5. CASE TickLogin
  BY <1>1, <1>5 DEF TickLogin
<1>6. CASE UNCHANGED loginVars
  BY <1>1, <1>6 DEF loginVars, changeVars
<1> QED BY <1>2, <1>3, <1>4, <1>5, <1>6 DEF LoginNext

LEMMA ChangeInit ==
  ASSUME LoginInit
  PROVE  ChangeInv
<1>1. \A i \in DOMAIN changes : changes[i].step = "waiting" /\ IsChange(changes[i])
  BY DEF LoginInit, IsChange
<1>2. bandsOf = stored.region /\ clusterOf = stored.cluster /\ cutShort = FALSE
  BY DEF LoginInit
<1> QED BY <1>1, <1>2 DEF ChangeInv, InEffect, Progress, Underway, Loading

(* In whatever order the changes come, and wherever their requests end, the *)
(* bands and the DX cluster work with the configuration that is stored when *)
(* no change is under way, unless a request was dropped after its commit    *)
(* (update_config of main.rs, under config_update_lock).                    *)
THEOREM ChangesAreInstalled == LoginSpec => []ChangesTakeEffect
<1>1. LoginInit => ChangeInv
  BY ChangeInit
<1>2. ChangeInv /\ [LoginNext]_loginVars => ChangeInv'
  BY ChangeStep
<1>3. ChangeInv => ChangesTakeEffect
  BY DEF ChangeInv, InEffect, ChangesTakeEffect, Underway
<1> QED BY <1>1, <1>2, <1>3, PTL DEF LoginSpec

-----------------------------------------------------------------------------
(* The radios of the clients.                                               *)

IsHeld(h) == h = [id |-> h.id, no |-> h.no]
IsLease(l) == l = [uuid |-> l.uuid, no |-> l.no, run |-> l.run, left |-> l.left]
IsMessage(m) ==
  /\ m = [run |-> m.run, kind |-> m.kind, lease |-> m.lease, stage |-> m.stage, waited |-> m.waited,
          overtaken |-> m.overtaken]
  /\ IsHeld(m.lease) /\ m.run \in Runs
  /\ m.stage = "stored" => m.kind = "register" /\ m.lease.id \in Ids

RadioTypes ==
  /\ rows = [i \in Ids |-> rows[i]] /\ leases = [i \in Ids |-> leases[i]]
  /\ pc = [r \in Runs |-> pc[r]] /\ held = [r \in Runs |-> held[r]] /\ clean \subseteq Runs
  /\ \A i \in Ids :
       /\ IsLease(leases[i])
       /\ leases[i] = NoLease \/ (leases[i].run \in Runs /\ leases[i].uuid = UuidOf[leases[i].run])
  /\ \A m \in net : IsMessage(m)
  /\ \A r \in Runs : IsHeld(held[r])
  /\ del = [id |-> del.id, granted |-> del.granted] /\ del.granted \in BOOLEAN /\ raced \in BOOLEAN

(* What is online, or about to be, has its row, and a radio that is being   *)
(* deleted is offline unless a lease was granted since.                     *)
Listing ==
  /\ \A i \in Ids : Online(i) => rows[i].uuid = leases[i].uuid
  /\ \A m \in net : m.stage = "stored" => rows[m.lease.id].uuid = UuidOf[m.run]
  /\ del.id \in Ids /\ ~del.granted => ~Online(del.id)

(* A request by which its process knows the lease, or will end unclean.     *)
Carries(m, lease) ==
  \/ m.stage = "failed"
  \/ /\ m.lease = lease
     /\ \/ m.kind = "register" /\ m.stage = "ok"
        \/ m.kind = "heartbeat" /\ m.stage \in {"sent", "ok"}
        \/ m.kind = "offline" /\ m.stage = "sent"

LeaseOf(i) == [id |-> i, no |-> leases[i].no]

Knows(r, i) ==
  \/ pc[r] \in {"held", "due"} /\ held[r] = LeaseOf(i)
  \/ \E m \in net : m.run = r /\ Carries(m, LeaseOf(i))

(* A process all of whose requests were answered has one at a time.         *)
OneRequest(r) ==
  \A m \in net : m.run = r =>
    m.waited /\ pc[r] = "asked" /\ \A n \in net : n.run = r => n = m

Parting ==
  \A r \in clean : OneRequest(r) /\ \A i \in Ids : leases[i].run = r => Knows(r, i)

RadioInv == RadioTypes /\ (raced \/ Listing) /\ Parting

LEMMA RadioInit ==
  ASSUME ClientsInit
  PROVE  RadioInv
<1>1. RadioTypes
  <2>1. IsLease(NoLease) /\ IsHeld(NoHeld)
    BY DEF IsLease, IsHeld, NoLease, NoHeld
  <2>2. ASSUME NEW i \in Ids
        PROVE  leases[i] = NoLease
    BY DEF ClientsInit
  <2> QED BY <2>1, <2>2 DEF ClientsInit, RadioTypes
<1>2. Listing
  BY DEF ClientsInit, Listing, Online, Ids
<1>3. Parting
  BY UuidAssumption DEF ClientsInit, Parting, OneRequest, NoLease
<1> QED BY <1>1, <1>2, <1>3 DEF RadioInv

-----------------------------------------------------------------------------
(* What steps have in common.                                               *)

(* Nothing comes online, and no request comes to its row.                   *)
LEMMA ListingStays ==
  ASSUME RadioInv, UNCHANGED <<rows, raced>>, del' = del \/ del'.id \notin Ids,
         \A i \in Ids : Online(i)' => Online(i) /\ leases'[i].uuid = leases[i].uuid,
         \A n \in net' : n.stage = "stored" =>
           \E m \in net : m.stage = "stored" /\ m.run = n.run /\ m.lease.id = n.lease.id
  PROVE  raced' \/ Listing'
<1> SUFFICES ASSUME Listing PROVE Listing'
  BY DEF RadioInv
<1>1. \A i \in Ids : Online(i)' => rows'[i].uuid = leases'[i].uuid
  BY DEF Listing
<1>2. ASSUME NEW n \in net', n.stage = "stored"
      PROVE  rows'[n.lease.id].uuid = UuidOf[n.run]
  BY <1>2 DEF Listing
<1>3. del'.id \in Ids /\ ~del'.granted => leases'[del'.id] = NoLease
  BY DEF Listing, Online
<1> QED BY <1>1, <1>2, <1>3 DEF Listing, Online

(* A process goes on while the server does nothing.                         *)
LEMMA PartingOthers ==
  ASSUME RadioInv, NEW r \in Runs, NEW q \in clean, q # r, UNCHANGED leases,
         pc'[q] = pc[q], held'[q] = held[q],
         \A m : m.run = q => (m \in net' <=> m \in net)
  PROVE  OneRequest(q)' /\ \A i \in Ids : leases'[i].run = q => Knows(q, i)'
<1>1. OneRequest(q) /\ \A i \in Ids : leases[i].run = q => Knows(q, i)
  BY DEF RadioInv, Parting
<1>2. OneRequest(q)'
  BY <1>1 DEF OneRequest
<1>3. ASSUME NEW i \in Ids, leases'[i].run = q
      PROVE  Knows(q, i)'
  BY <1>1, <1>3 DEF Knows, LeaseOf, Carries
<1> QED BY <1>2, <1>3

LEMMA SetPc ==
  ASSUME RadioTypes, NEW r \in Runs, NEW step, pc' = [pc EXCEPT ![r] = step]
  PROVE  /\ pc' = [q \in Runs |-> pc'[q]] /\ pc'[r] = step
         /\ \A q \in Runs : q # r => pc'[q] = pc[q]
<1> DEFINE S == {pc[q] : q \in Runs} \cup {step}
<1>1. pc \in [Runs -> S]
  <2>1. pc = [q \in Runs |-> pc[q]]
    BY DEF RadioTypes
  <2> QED BY <2>1
<1>2. step \in S
  OBVIOUS
<1> HIDE DEF S
<1> QED BY <1>1, <1>2

LEMMA SetHeld ==
  ASSUME RadioTypes, NEW r \in Runs, NEW lease, IsHeld(lease), held' = [held EXCEPT ![r] = lease]
  PROVE  /\ held' = [q \in Runs |-> held'[q]] /\ held'[r] = lease
         /\ \A q \in Runs : q # r => held'[q] = held[q]
         /\ \A q \in Runs : IsHeld(held'[q])
<1> DEFINE S == {held[q] : q \in Runs} \cup {lease}
<1>1. held \in [Runs -> S] /\ \A q \in Runs : IsHeld(held[q])
  <2>1. held = [q \in Runs |-> held[q]] /\ \A q \in Runs : IsHeld(held[q])
    BY DEF RadioTypes
  <2> QED BY <2>1
<1>2. lease \in S
  OBVIOUS
<1> HIDE DEF S
<1> QED BY <1>1, <1>2

(* The server, the rows and the histories rest.                             *)
LEMMA ClientTypes ==
  ASSUME RadioInv, UNCHANGED <<rows, leases, del, raced>>, clean' \subseteq clean,
         pc' = [r \in Runs |-> pc'[r]], held' = [r \in Runs |-> held'[r]],
         \A r \in Runs : IsHeld(held'[r]), \A m \in net' : IsMessage(m)
  PROVE  RadioTypes'
<1>1. RadioTypes
  BY DEF RadioInv
<1>2. ASSUME NEW i \in Ids
      PROVE  /\ IsLease(leases'[i])
             /\ leases'[i] = NoLease
                \/ (leases'[i].run \in Runs /\ leases'[i].uuid = UuidOf[leases'[i].run])
  BY <1>1 DEF RadioTypes
<1> QED BY <1>1, <1>2 DEF RadioTypes

(* A request is sent.                                                       *)
LEMMA RequestSent ==
  ASSUME RadioInv, NEW r \in Runs, NEW kind, NEW lease, IsHeld(lease), Ask(r, kind, lease)
  PROVE  \E new : /\ net' = net \cup {new} /\ IsMessage(new) /\ new.run = r /\ new.kind = kind
                  /\ new.lease = lease /\ new.stage = "sent" /\ new.waited
<1> DEFINE new == [run |-> r, kind |-> kind, lease |-> lease, stage |-> "sent", waited |-> TRUE,
                   overtaken |-> FALSE]
<1>1. net' = net \cup {new}
  BY DEF Ask
<1>2. IsMessage(new) /\ new.run = r /\ new.kind = kind /\ new.lease = lease /\ new.stage = "sent"
      /\ new.waited
  BY DEF IsMessage
<1> QED BY <1>1, <1>2

(* A process that waits for nothing sends a request.  If it holds a lease,  *)
(* the request says so.                                                     *)
LEMMA SendStep ==
  ASSUME RadioInv, NEW r \in Runs, NEW kind, NEW lease, IsHeld(lease), Ask(r, kind, lease),
         pc[r] # "asked", pc' = [pc EXCEPT ![r] = "asked"],
         held' = held \/ held' = [held EXCEPT ![r] = NoHeld],
         UNCHANGED <<rows, leases, del, raced, clean>>,
         pc[r] \in {"held", "due"} => lease = held[r] /\ kind \in {"heartbeat", "offline"}
  PROVE  RadioInv'
<1>1. PICK new : /\ net' = net \cup {new} /\ IsMessage(new) /\ new.run = r /\ new.kind = kind
                 /\ new.lease = lease /\ new.stage = "sent" /\ new.waited
  BY RequestSent
<1>2. RadioTypes
  BY DEF RadioInv
<1>3. /\ held' = [q \in Runs |-> held'[q]] /\ \A q \in Runs : IsHeld(held'[q])
      /\ \A q \in Runs : q # r => held'[q] = held[q]
  <2>1. IsHeld(NoHeld)
    BY DEF IsHeld, NoHeld
  <2>2. CASE held' = held
    BY <1>2, <2>2 DEF RadioTypes
  <2>3. CASE held' = [held EXCEPT ![r] = NoHeld]
    BY <1>2, <2>1, <2>3, SetHeld
  <2> QED BY <2>2, <2>3
<1>4. RadioTypes'
  <2>1. \A m \in net' : IsMessage(m)
    BY <1>1, <1>2 DEF RadioTypes
  <2>2. pc' = [q \in Runs |-> pc'[q]]
    BY <1>2, SetPc
  <2> QED BY <1>3, <2>1, <2>2, ClientTypes
<1>5. raced' \/ Listing'
  <2>1. \A i \in Ids : Online(i)' => Online(i)
    BY DEF Online
  <2> QED BY <1>1, <2>1, ListingStays
<1>6. ASSUME NEW q \in clean
      PROVE  OneRequest(q)' /\ \A i \in Ids : leases'[i].run = q => Knows(q, i)'
  <2>0. q \in Runs
    BY <1>2 DEF RadioTypes
  <2>1. CASE q # r
    BY <1>1, <1>2, <1>3, <2>0, <2>1, SetPc, PartingOthers
  <2>2. CASE q = r
    <3>1. OneRequest(r) /\ \A i \in Ids : leases[i].run = r => Knows(r, i)
      BY <2>2 DEF RadioInv, Parting
    <3>2. \A m \in net : m.run # r
      BY <3>1 DEF OneRequest
    <3>3. pc'[r] = "asked"
      BY <1>2, SetPc
    <3>4. OneRequest(r)'
      BY <1>1, <3>2, <3>3 DEF OneRequest
    <3>5. ASSUME NEW i \in Ids, leases'[i].run = r
          PROVE  Knows(r, i)'
      <4>1. pc[r] \in {"held", "due"} /\ held[r] = LeaseOf(i)
        BY <3>1, <3>2, <3>5 DEF Knows
      <4>2. Carries(new, LeaseOf(i))'
        BY <1>1, <4>1 DEF Carries, LeaseOf
      <4> QED BY <1>1, <4>2 DEF Knows
    <3> QED BY <2>2, <3>4, <3>5
  <2> QED BY <2>1, <2>2
<1>7. Parting'
  BY <1>6 DEF Parting
<1> QED BY <1>4, <1>5, <1>7 DEF RadioInv

(* A process goes on without a request.                                     *)
LEMMA IdleStep ==
  ASSUME RadioInv, NEW r \in Runs, NEW step, pc[r] # "asked", pc' = [pc EXCEPT ![r] = step],
         held' = held \/ held' = [held EXCEPT ![r] = NoHeld],
         UNCHANGED <<net, rows, leases, del, raced, clean>>,
         r \in clean => \A i \in Ids : leases[i].run # r
  PROVE  RadioInv'
<1>1. RadioTypes
  BY DEF RadioInv
<1>2. /\ held' = [q \in Runs |-> held'[q]] /\ \A q \in Runs : IsHeld(held'[q])
      /\ \A q \in Runs : q # r => held'[q] = held[q]
  <2>1. IsHeld(NoHeld)
    BY DEF IsHeld, NoHeld
  <2>2. CASE held' = held
    BY <1>1, <2>2 DEF RadioTypes
  <2>3. CASE held' = [held EXCEPT ![r] = NoHeld]
    BY <1>1, <2>1, <2>3, SetHeld
  <2> QED BY <2>2, <2>3
<1>3. RadioTypes'
  <2>1. \A m \in net' : IsMessage(m)
    BY <1>1 DEF RadioTypes
  <2>2. pc' = [q \in Runs |-> pc'[q]]
    BY <1>1, SetPc
  <2> QED BY <1>2, <2>1, <2>2, ClientTypes
<1>4. raced' \/ Listing'
  <2>1. \A i \in Ids : Online(i)' => Online(i)
    BY DEF Online
  <2> QED BY <2>1, ListingStays
<1>5. ASSUME NEW q \in clean
      PROVE  OneRequest(q)' /\ \A i \in Ids : leases'[i].run = q => Knows(q, i)'
  <2>0. q \in Runs
    BY <1>1 DEF RadioTypes
  <2>1. CASE q # r
    BY <1>1, <1>2, <2>0, <2>1, SetPc, PartingOthers
  <2>2. CASE q = r
    <3>1. \A m \in net : m.run # r
      BY <2>2 DEF RadioInv, Parting, OneRequest
    <3>2. OneRequest(r)'
      BY <3>1 DEF OneRequest
    <3> QED BY <2>2, <3>2
  <2> QED BY <2>1, <2>2
<1>6. Parting'
  BY <1>5 DEF Parting
<1> QED BY <1>3, <1>4, <1>6 DEF RadioInv

(* A process that neither waits for an answer nor holds a lease has none.   *)
LEMMA NoLeaseWithout ==
  ASSUME RadioInv, NEW r \in clean, pc[r] # "asked",
         pc[r] \in {"held", "due"} => held[r] = NoHeld
  PROVE  \A i \in Ids : leases[i].run # r
<1>1. OneRequest(r) /\ \A i \in Ids : leases[i].run = r => Knows(r, i)
  BY DEF RadioInv, Parting
<1>2. \A m \in net : m.run # r
  BY <1>1 DEF OneRequest
<1>3. ASSUME NEW i \in Ids, leases[i].run = r
      PROVE  FALSE
  <2>1. held[r] = LeaseOf(i) /\ held[r] = NoHeld
    BY <1>1, <1>2, <1>3 DEF Knows
  <2>2. i = 0
    BY <2>1 DEF LeaseOf, NoHeld
  <2> QED BY <2>2 DEF Ids
<1> QED BY <1>3

LEMMA ClientStep ==
  ASSUME RadioInv, NEW r \in Runs, Start(r) \/ Register(r) \/ Heartbeat(r) \/ Leave(r)
  PROVE  RadioInv'
<1>1. IsHeld(NoHeld) /\ IsHeld(held[r])
  BY DEF IsHeld, NoHeld, RadioInv, RadioTypes
<1>2. CASE Start(r)
  <2>1. pc[r] = "off" /\ pc' = [pc EXCEPT ![r] = "register"]
        /\ UNCHANGED <<held, net, rows, leases, del, raced, clean>>
    BY <1>2 DEF Start, server, history
  <2> QED BY <2>1, IdleStep, NoLeaseWithout
<1>3. CASE Register(r)
  <2>1. pc[r] = "register" /\ pc' = [pc EXCEPT ![r] = "asked"] /\ Ask(r, "register", NoHeld)
        /\ UNCHANGED <<held, rows, leases, del, raced, clean>>
    BY <1>3 DEF Register, server, history
  <2> QED BY <1>1, <2>1, SendStep
<1>4. CASE Heartbeat(r)
  <2>1. pc[r] = "due" /\ pc' = [pc EXCEPT ![r] = "asked"] /\ Ask(r, "heartbeat", held[r])
        /\ UNCHANGED <<held, rows, leases, del, raced, clean>>
    BY <1>4 DEF Heartbeat, server, history
  <2> QED BY <1>1, <2>1, SendStep
<1>5. CASE Leave(r)
  <2>1. /\ pc[r] \in {"register", "held", "due", "retry"} /\ held' = [held EXCEPT ![r] = NoHeld]
        /\ UNCHANGED <<rows, leases, del, raced, clean>>
    BY <1>5 DEF Leave, server, history
  <2>2. CASE held[r] = NoHeld
    <3>1. pc' = [pc EXCEPT ![r] = "gone"] /\ UNCHANGED net
      BY <1>5, <2>2 DEF Leave
    <3>2. r \in clean => \A i \in Ids : leases[i].run # r
      BY <2>1, <2>2, NoLeaseWithout
    <3> QED BY <2>1, <3>1, <3>2, IdleStep
  <2>3. CASE held[r] # NoHeld
    <3>1. pc' = [pc EXCEPT ![r] = "asked"] /\ Ask(r, "offline", held[r])
      BY <1>5, <2>3 DEF Leave
    <3> QED BY <1>1, <2>1, <3>1, SendStep
  <2> QED BY <2>2, <2>3
<1> QED BY <1>2, <1>3, <1>4, <1>5

(* An answer is heard.                                                      *)
LEMMA AnsweredStep ==
  ASSUME RadioInv, NEW r \in Runs, NEW m \in net, Answered(r, m)
  PROVE  RadioInv'
<1>1. /\ m.run = r /\ m.waited /\ m.stage \in {"ok", "stale", "failed"} /\ net' = net \ {m}
      /\ pc' = [pc EXCEPT ![r] = After(m.kind, m.stage)]
      /\ UNCHANGED <<rows, leases, del, raced>>
      /\ clean' = IF m.stage = "failed" THEN clean \ {r} ELSE clean
  BY DEF Answered, Waiting, Proceed, server
<1> DEFINE lease == IF After(m.kind, m.stage) = "held" THEN m.lease ELSE NoHeld
<1>2. held' = [held EXCEPT ![r] = lease]
  BY DEF Answered, Proceed
<1>3. RadioTypes /\ IsMessage(m) /\ IsHeld(lease)
  BY DEF RadioInv, RadioTypes, IsMessage, IsHeld, NoHeld
<1> HIDE DEF lease
<1>4. RadioTypes'
  <2>1. \A n \in net' : IsMessage(n)
    BY <1>1, <1>3 DEF RadioTypes
  <2>2. pc' = [q \in Runs |-> pc'[q]]
    BY <1>1, <1>3, SetPc
  <2>3. held' = [q \in Runs |-> held'[q]] /\ \A q \in Runs : IsHeld(held'[q])
    BY <1>2, <1>3, SetHeld
  <2> QED BY <1>1, <2>1, <2>2, <2>3, ClientTypes
<1>5. raced' \/ Listing'
  <2>1. \A i \in Ids : Online(i)' => Online(i)
    BY <1>1 DEF Online
  <2> QED BY <1>1, <2>1, ListingStays
<1>6. ASSUME NEW q \in clean'
      PROVE  OneRequest(q)' /\ \A i \in Ids : leases'[i].run = q => Knows(q, i)'
  <2>0. q \in clean /\ q \in Runs
    BY <1>1, <1>3, <1>6 DEF RadioTypes
  <2>1. CASE q # r
    <3>1. \A n : n.run = q => (n \in net' <=> n \in net)
      BY <1>1, <2>1
    <3>2. pc'[q] = pc[q] /\ held'[q] = held[q] /\ UNCHANGED leases
      BY <1>1, <1>2, <1>3, <2>0, <2>1, SetPc, SetHeld
    <3> QED BY <2>0, <2>1, <3>1, <3>2, PartingOthers
  <2>2. CASE q = r
    <3>1. OneRequest(r) /\ \A i \in Ids : leases[i].run = r => Knows(r, i)
      BY <2>0, <2>2 DEF RadioInv, Parting
    <3>2. pc[r] = "asked" /\ \A n \in net : n.run = r => n = m
      BY <1>1, <3>1 DEF OneRequest
    <3>3. OneRequest(r)'
      BY <1>1, <3>2 DEF OneRequest
    <3>4. ASSUME NEW i \in Ids, leases'[i].run = r
          PROVE  Knows(r, i)'
      <4>1. Carries(m, LeaseOf(i)) /\ m.stage # "failed"
        BY <1>1, <1>6, <2>2, <3>1, <3>2, <3>4 DEF Knows
      <4>2. m.lease = LeaseOf(i) /\ m.stage = "ok" /\ m.kind \in {"register", "heartbeat"}
        BY <1>1, <4>1 DEF Carries
      <4>3. After(m.kind, m.stage) = "held"
        BY <4>2 DEF After
      <4>4. pc'[r] = "held"
        BY <1>1, <1>3, <4>3, SetPc
      <4>5. held'[r] = m.lease
        BY <1>1, <1>2, <1>3, <4>3, SetHeld DEF lease
      <4> QED BY <1>1, <4>2, <4>4, <4>5 DEF Knows, LeaseOf
    <3> QED BY <2>2, <3>3, <3>4
  <2> QED BY <2>1, <2>2
<1>7. Parting'
  BY <1>6 DEF Parting
<1> QED BY <1>4, <1>5, <1>7 DEF RadioInv

(* Nobody waits for an answer any more.                                     *)
LEMMA AbandonStep ==
  ASSUME RadioInv, NEW r \in Runs, Abandon(r), NEW step, pc' = [pc EXCEPT ![r] = step],
         NEW lease, IsHeld(lease), held' = [held EXCEPT ![r] = lease],
         UNCHANGED <<rows, leases, del, raced>>
  PROVE  RadioInv'
<1>1. RadioTypes /\ \A m \in net : IsMessage(m)
  BY DEF RadioInv, RadioTypes
<1>2. ASSUME NEW m \in Waiting(r), NEW n, n = [m EXCEPT !.waited = FALSE]
      PROVE  IsMessage(n) /\ n.run = m.run /\ n.stage = m.stage /\ n.lease = m.lease /\ m \in net
  <2>1. IsMessage(m) /\ m \in net
    BY <1>1 DEF Waiting
  <2>2. m = [run |-> m.run, kind |-> m.kind, lease |-> m.lease, stage |-> m.stage,
             waited |-> m.waited, overtaken |-> m.overtaken]
    BY <2>1 DEF IsMessage
  <2>3. n = [run |-> m.run, kind |-> m.kind, lease |-> m.lease, stage |-> m.stage, waited |-> FALSE,
             overtaken |-> m.overtaken]
    BY <1>2, <2>2
  <2> QED BY <2>1, <2>3 DEF IsMessage
<1>3. ASSUME NEW n \in net', n \notin net
      PROVE  \E m \in Waiting(r) : n = [m EXCEPT !.waited = FALSE]
  <2> DEFINE Going == {m \in Waiting(r) : m.stage \in {"sent", "stored"}}
  <2>1. net' = (net \ Waiting(r)) \cup {[m EXCEPT !.waited = FALSE] : m \in Going}
    BY DEF Abandon
  <2>2. n \in {[m EXCEPT !.waited = FALSE] : m \in Going}
    BY <1>3, <2>1
  <2> QED BY <2>2
<1>4. \A n \in net' : IsMessage(n) /\ \E m \in net : m.stage = n.stage /\ m.run = n.run /\ m.lease = n.lease
  <2>1. ASSUME NEW n \in net'
        PROVE  IsMessage(n) /\ \E m \in net : m.stage = n.stage /\ m.run = n.run /\ m.lease = n.lease
    <3>1. CASE n \in net
      BY <1>1, <3>1
    <3>2. CASE n \notin net
      <4>1. PICK m \in Waiting(r) : n = [m EXCEPT !.waited = FALSE]
        BY <1>3, <3>2
      <4> QED BY <1>2, <4>1
    <3> QED BY <3>1, <3>2
  <2> QED BY <2>1
<1>5. \A n : n.run # r => (n \in net' <=> n \in net)
  <2>1. \A m \in Waiting(r) : m.run = r /\ [m EXCEPT !.waited = FALSE].run = r
    BY <1>1, <1>2 DEF Waiting
  <2> QED BY <2>1 DEF Abandon
<1>6. RadioTypes'
  <2>1. clean' \subseteq clean
    BY DEF Abandon
  <2> QED BY <1>1, <1>4, <2>1, SetPc, SetHeld, ClientTypes
<1>7. raced' \/ Listing'
  <2>1. \A i \in Ids : Online(i)' => Online(i)
    BY DEF Online
  <2> QED BY <1>4, <2>1, ListingStays
<1>8. ASSUME NEW q \in clean'
      PROVE  OneRequest(q)' /\ \A i \in Ids : leases'[i].run = q => Knows(q, i)'
  <2>1. q \in clean /\ q # r /\ q \in Runs
    BY <1>1, <1>8 DEF Abandon, RadioTypes
  <2>2. pc'[q] = pc[q] /\ held'[q] = held[q]
    BY <1>1, <2>1, SetPc, SetHeld
  <2> QED BY <1>5, <2>1, <2>2, PartingOthers
<1>9. Parting'
  BY <1>8 DEF Parting
<1> QED BY <1>6, <1>7, <1>9 DEF RadioInv

LEMMA EndStep ==
  ASSUME RadioInv, NEW r \in Runs, TimeOut(r) \/ Abort(r) \/ Crash(r) \/ Stop(r)
  PROVE  RadioInv'
<1>1. IsHeld(NoHeld) /\ \A m \in net : IsHeld(m.lease)
  BY DEF IsHeld, NoHeld, RadioInv, RadioTypes, IsMessage
<1>2. CASE TimeOut(r)
  <2>1. PICK m \in Waiting(r) : Proceed(r, m, "failed")
    BY <1>2 DEF TimeOut
  <2> DEFINE lease == IF After(m.kind, "failed") = "held" THEN m.lease ELSE NoHeld
             step == After(m.kind, "failed")
  <2>2. IsHeld(lease)
    BY <1>1 DEF Waiting
  <2>3. pc' = [pc EXCEPT ![r] = step] /\ held' = [held EXCEPT ![r] = lease]
    BY <2>1 DEF Proceed
  <2> HIDE DEF lease, step
  <2>4. Abandon(r) /\ UNCHANGED <<rows, leases, del, raced>>
    BY <1>2 DEF TimeOut, server
  <2> QED BY <2>2, <2>3, <2>4, AbandonStep
<1>3. CASE Abort(r) \/ Crash(r)
  <2>1. Abandon(r) /\ UNCHANGED <<rows, leases, del, raced>>
        /\ pc' = [pc EXCEPT ![r] = "gone"] /\ held' = [held EXCEPT ![r] = NoHeld]
    BY <1>3 DEF Abort, Crash, End, server
  <2> QED BY <1>1, <2>1, AbandonStep
<1>4. CASE Stop(r)
  <2>1. UNCHANGED <<pc, held, net, rows, leases, del, raced, clean>>
    BY <1>4 DEF Stop, server, history
  <2> QED BY <2>1 DEF RadioInv, RadioTypes, Listing, Online, Parting, OneRequest, Knows, LeaseOf, Carries
<1> QED BY <1>2, <1>3, <1>4

-----------------------------------------------------------------------------
(* The handlers.                                                            *)

(* A request is answered; whoever went away does not hear of it.            *)
LEMMA Handled ==
  ASSUME RadioInv, NEW m \in net, NEW stage, stage # "stored", NEW lease, IsHeld(lease),
         Becomes(m, stage, lease)
  PROVE  \E one : /\ IsMessage(one) /\ one.run = m.run /\ one.kind = m.kind /\ one.stage = stage
                  /\ one.lease = lease /\ one.waited = m.waited
                  /\ net' = (net \ {m}) \cup (IF m.waited THEN {one} ELSE {})
<1> DEFINE first == [m EXCEPT !.stage = stage]
           second == [first EXCEPT !.lease = lease]
           new == FALSE
           one == [second EXCEPT !.overtaken = new]
<1>1. IsMessage(m)
  BY DEF RadioInv, RadioTypes
<1>2. net' = (net \ {m}) \cup (IF m.waited THEN {one} ELSE {})
  BY DEF Becomes
<1>3. m = [run |-> m.run, kind |-> m.kind, lease |-> m.lease, stage |-> m.stage,
           waited |-> m.waited, overtaken |-> m.overtaken] /\ m.run \in Runs
  BY <1>1 DEF IsMessage
<1>4. first = [run |-> m.run, kind |-> m.kind, lease |-> m.lease, stage |-> stage,
               waited |-> m.waited, overtaken |-> m.overtaken]
  BY <1>3
<1> HIDE DEF first
<1>5. second = [run |-> m.run, kind |-> m.kind, lease |-> lease, stage |-> stage,
                waited |-> m.waited, overtaken |-> m.overtaken]
  BY <1>4
<1> HIDE DEF second, new
<1>6. one = [run |-> m.run, kind |-> m.kind, lease |-> lease, stage |-> stage,
             waited |-> m.waited, overtaken |-> new]
  BY <1>5
<1> HIDE DEF one
<1>7. IsMessage(one) /\ one.run = m.run /\ one.kind = m.kind /\ one.stage = stage
      /\ one.lease = lease /\ one.waited = m.waited
  BY <1>3, <1>6 DEF IsMessage
<1> QED BY <1>2, <1>7

(* The process of the request will know the lease it has, and nobody else   *)
(* gets one.                                                                *)
LEMMA HandledParting ==
  ASSUME RadioInv, NEW m \in net, NEW stage, stage # "stored", NEW lease, IsHeld(lease),
         Becomes(m, stage, lease), UNCHANGED <<pc, held, clean>>,
         \A i \in Ids : leases'[i].run # m.run =>
           leases'[i] = NoLease \/ (leases'[i].run = leases[i].run /\ leases'[i].no = leases[i].no),
         m.run \in clean => \A i \in Ids : leases'[i].run = m.run =>
           \/ stage = "failed"
           \/ lease = [id |-> i, no |-> leases'[i].no] /\ stage = "ok"
              /\ m.kind \in {"register", "heartbeat"}
  PROVE  Parting' /\ \A n \in net' : IsMessage(n)
<1>1. PICK one : /\ IsMessage(one) /\ one.run = m.run /\ one.kind = m.kind /\ one.stage = stage
                 /\ one.lease = lease /\ one.waited = m.waited
                 /\ net' = (net \ {m}) \cup (IF m.waited THEN {one} ELSE {})
  BY Handled
<1>2. RadioTypes
  BY DEF RadioInv
<1>3. ASSUME NEW q \in clean
      PROVE  OneRequest(q)' /\ \A i \in Ids : leases'[i].run = q => Knows(q, i)'
  <2>1. OneRequest(q) /\ (\A i \in Ids : leases[i].run = q => Knows(q, i)) /\ q \in Runs
    BY <1>2, <1>3 DEF RadioInv, Parting, RadioTypes
  <2>2. CASE q # m.run
    <3>1. \A n : n.run = q => (n \in net' <=> n \in net)
      BY <1>1, <2>2
    <3>2. OneRequest(q)'
      BY <2>1, <3>1 DEF OneRequest
    <3>3. ASSUME NEW i \in Ids, leases'[i].run = q
          PROVE  Knows(q, i)'
      <4>1. leases[i].run = q /\ leases'[i].no = leases[i].no
        BY <2>1, <2>2, <3>3, UuidAssumption DEF NoLease
      <4> QED BY <2>1, <3>1, <4>1 DEF Knows, LeaseOf, Carries
    <3> QED BY <3>2, <3>3
  <2>3. CASE q = m.run
    <3>1. m.waited /\ pc[q] = "asked" /\ \A n \in net : n.run = q => n = m
      BY <2>1, <2>3 DEF OneRequest
    <3>2. one \in net' /\ \A n \in net' : n.run = q => n = one
      BY <1>1, <3>1
    <3>3. OneRequest(q)'
      BY <1>1, <3>1, <3>2 DEF OneRequest
    <3>4. ASSUME NEW i \in Ids, leases'[i].run = q
          PROVE  Knows(q, i)'
      <4>1. Carries(one, LeaseOf(i))'
        BY <1>1, <1>3, <2>3, <3>4 DEF Carries, LeaseOf
      <4> QED BY <1>1, <2>3, <3>2, <4>1 DEF Knows
    <3> QED BY <3>3, <3>4
  <2> QED BY <2>2, <2>3
<1>4. Parting'
  BY <1>3 DEF Parting
<1>5. \A n \in net' : IsMessage(n)
  BY <1>1, <1>2 DEF RadioTypes
<1> QED BY <1>4, <1>5

LEMMA LeaseTypes ==
  ASSUME RadioInv, UNCHANGED <<rows, pc, held, clean>>, raced' \in BOOLEAN,
         leases' = [i \in Ids |-> leases'[i]],
         \A i \in Ids : \/ leases'[i] = NoLease
                        \/ /\ IsLease(leases'[i]) /\ leases'[i].run \in Runs
                           /\ leases'[i].uuid = UuidOf[leases'[i].run],
         \A n \in net' : IsMessage(n),
         del' = [id |-> del'.id, granted |-> del'.granted], del'.granted \in BOOLEAN
  PROVE  RadioTypes'
<1>1. RadioTypes
  BY DEF RadioInv
<1>2. IsLease(NoLease)
  BY DEF IsLease, NoLease
<1>3. \A i \in Ids :
        /\ IsLease(leases'[i])
        /\ leases'[i] = NoLease \/ (leases'[i].run \in Runs /\ leases'[i].uuid = UuidOf[leases'[i].run])
  BY <1>2
<1> QED BY <1>1, <1>3 DEF RadioTypes

LEMMA SetLease ==
  ASSUME RadioTypes, NEW i, NEW lease, leases' = [leases EXCEPT ![i] = lease]
  PROVE  /\ leases' = [j \in Ids |-> leases'[j]]
         /\ i \in Ids => leases'[i] = lease
         /\ \A j \in Ids : j # i => leases'[j] = leases[j]
<1> DEFINE S == {leases[j] : j \in Ids} \cup {lease}
<1>1. leases \in [Ids -> S]
  <2>1. leases = [j \in Ids |-> leases[j]]
    BY DEF RadioTypes
  <2> QED BY <2>1
<1>2. lease \in S
  OBVIOUS
<1> HIDE DEF S
<1> QED BY <1>1, <1>2

(* A heartbeat, or the last request, finds its lease or another one.        *)
LEMMA OnLeaseStep ==
  ASSUME RadioInv, NEW m \in net, Beat(m) \/ GoOffline(m)
  PROVE  RadioInv'
<1> DEFINE id == m.lease.id
           later == [leases[id] EXCEPT !.left = LeaseTicks]
<1>1. RadioTypes /\ IsMessage(m) /\ IsHeld(m.lease) /\ m.run \in Runs
  BY DEF RadioInv, RadioTypes, IsMessage
<1>2. /\ m.stage = "sent" /\ UNCHANGED <<rows, pc, held, del, raced, clean>>
      /\ m.kind = IF Beat(m) THEN "heartbeat" ELSE "offline"
  BY DEF Beat, GoOffline, OnLease, client, history
<1>3. CASE ~Matches(m)
  <2>1. leases' = leases /\ Becomes(m, "stale", m.lease)
    BY <1>3 DEF Beat, GoOffline, OnLease
  <2>2. ASSUME m.run \in clean, NEW i \in Ids, leases'[i].run = m.run
        PROVE  FALSE
    <3>1. OneRequest(m.run) /\ Knows(m.run, i)
      BY <2>1, <2>2 DEF RadioInv, Parting
    <3>2. Carries(m, LeaseOf(i))
      BY <3>1 DEF OneRequest, Knows
    <3>3. m.lease = LeaseOf(i)
      BY <1>2, <3>2 DEF Carries
    <3>4. leases[i].uuid = UuidOf[m.run]
      BY <1>1, <2>1, <2>2, UuidAssumption DEF RadioTypes, NoLease
    <3> QED BY <1>3, <3>3, <3>4 DEF Matches, LeaseOf
  <2>3. Parting' /\ \A n \in net' : IsMessage(n)
    BY <1>1, <1>2, <2>1, <2>2, HandledParting
  <2>4. RadioTypes'
    BY <1>1, <1>2, <2>1, <2>3 DEF RadioTypes
  <2>5. PICK one : /\ one.stage = "stale"
                   /\ net' = (net \ {m}) \cup (IF m.waited THEN {one} ELSE {})
    BY <1>1, <2>1, Handled
  <2>6. raced' \/ Listing'
    <3>1. \A i \in Ids : Online(i)' => Online(i)
      BY <2>1 DEF Online
    <3> QED BY <1>2, <2>1, <2>5, <3>1, ListingStays
  <2> QED BY <2>3, <2>4, <2>6 DEF RadioInv
<1>4. CASE Matches(m)
  <2> DEFINE lease == IF Beat(m) THEN later ELSE NoLease
  <2>1. leases' = [leases EXCEPT ![id] = lease] /\ Becomes(m, "ok", m.lease)
    BY <1>4 DEF Beat, GoOffline, OnLease
  <2>2. ASSUME id \in Ids, Beat(m)
        PROVE  /\ IsLease(later) /\ later.run = leases[id].run /\ later.no = leases[id].no
               /\ later.uuid = leases[id].uuid /\ leases[id] # NoLease
    <3>1. leases[id] # NoLease
      BY <1>1, <1>4, UuidAssumption DEF Matches, NoLease
    <3>2. IsLease(leases[id])
      BY <1>1, <2>2 DEF RadioTypes
    <3> QED BY <3>1, <3>2 DEF IsLease
  <2> HIDE DEF later, lease, id
  <2>0. /\ leases' = [j \in Ids |-> leases'[j]]
        /\ id \in Ids => leases'[id] = lease
        /\ \A j \in Ids : j # id => leases'[j] = leases[j]
    BY <1>1, <2>1, SetLease
  <2> USE DEF id
  <2>3. ASSUME NEW i \in Ids
        PROVE  \/ leases'[i] = NoLease /\ (i = id => ~Beat(m))
               \/ /\ IsLease(leases'[i]) /\ leases'[i].run = leases[i].run
                  /\ leases'[i].no = leases[i].no /\ leases'[i].uuid = leases[i].uuid
                  /\ leases[i] # NoLease /\ (i = id => Beat(m))
    <3>1. CASE i = id
      <4>1. leases'[i] = lease
        BY <2>0, <3>1
      <4> QED BY <2>2, <3>1, <4>1 DEF lease
    <3>2. CASE i # id
      <4>1. leases'[i] = leases[i] /\ IsLease(leases[i])
        BY <1>1, <2>0, <3>2 DEF RadioTypes
      <4> QED BY <3>2, <4>1
    <3> QED BY <3>1, <3>2
  <2>4. ASSUME m.run \in clean, NEW i \in Ids, leases'[i].run = m.run
        PROVE  m.lease = [id |-> i, no |-> leases'[i].no] /\ m.kind = "heartbeat"
    <3>1. leases[i].run = m.run /\ leases'[i].no = leases[i].no /\ (i = id => Beat(m))
      BY <1>1, <2>3, <2>4, UuidAssumption DEF NoLease
    <3>2. OneRequest(m.run) /\ Knows(m.run, i)
      BY <2>4, <3>1 DEF RadioInv, Parting
    <3>3. Carries(m, LeaseOf(i))
      BY <3>2 DEF OneRequest, Knows
    <3>4. m.lease = LeaseOf(i)
      BY <1>2, <3>3 DEF Carries
    <3>5. i = id
      BY <3>4 DEF LeaseOf
    <3> QED BY <1>2, <3>1, <3>4, <3>5 DEF LeaseOf
  <2>5. Parting' /\ \A n \in net' : IsMessage(n)
    BY <1>1, <1>2, <2>1, <2>3, <2>4, HandledParting
  <2>6. RadioTypes'
    <3>1. leases' = [i \in Ids |-> leases'[i]]
      BY <2>0
    <3>2. \A i \in Ids : \/ leases'[i] = NoLease
                         \/ /\ IsLease(leases'[i]) /\ leases'[i].run \in Runs
                            /\ leases'[i].uuid = UuidOf[leases'[i].run]
      BY <1>1, <2>3 DEF RadioTypes
    <3> QED BY <1>1, <1>2, <2>5, <3>1, <3>2, LeaseTypes DEF RadioTypes
  <2>7. PICK one : /\ one.stage = "ok"
                   /\ net' = (net \ {m}) \cup (IF m.waited THEN {one} ELSE {})
    BY <1>1, <2>1, Handled
  <2>8. raced' \/ Listing'
    <3>1. \A i \in Ids : Online(i)' => Online(i) /\ leases'[i].uuid = leases[i].uuid
      BY <2>3 DEF Online
    <3> QED BY <1>2, <2>7, <3>1, ListingStays
  <2> QED BY <2>5, <2>6, <2>8 DEF RadioInv
<1> QED BY <1>3, <1>4

LEMMA GrantStep ==
  ASSUME RadioInv, NEW m \in net, Grant(m)
  PROVE  RadioInv'
<1> DEFINE i == m.lease.id
           no == FreshNo
           new == [uuid |-> UuidOf[m.run], no |-> no, run |-> m.run, left |-> LeaseTicks]
           lease == [id |-> i, no |-> no]
           rest == [j \in Ids |-> IF leases[j].uuid = UuidOf[m.run] THEN NoLease ELSE leases[j]]
<1>1. RadioTypes /\ IsMessage(m) /\ m.run \in Runs
  BY DEF RadioInv, RadioTypes, IsMessage
<1>2. /\ m.stage = "stored" /\ UNCHANGED <<rows, pc, held, raced, clean>>
      /\ leases' = [rest EXCEPT ![i] = new] /\ Becomes(m, "ok", lease)
      /\ del' = [del EXCEPT !.granted = @ \/ del.id = i]
  BY DEF Grant, client
<1>3. m.kind = "register" /\ i \in Ids
  BY <1>1, <1>2 DEF IsMessage
<1>4. del.granted \in BOOLEAN /\ del = [id |-> del.id, granted |-> del.granted]
  BY <1>1 DEF RadioTypes
<1> HIDE DEF no, i
<1>5. /\ leases' = [j \in Ids |-> leases'[j]]
      /\ leases'[i] = new
      /\ \A j \in Ids : j # i => leases'[j] = NoLease
                                 \/ (leases'[j] = leases[j] /\ leases[j].uuid # UuidOf[m.run])
  BY <1>2, <1>3
<1>6. IsLease(new) /\ new.run = m.run /\ new.uuid = UuidOf[m.run] /\ new.no = no /\ IsHeld(lease)
  BY DEF IsLease, IsHeld
<1>7. /\ del'.id = del.id /\ del' = [id |-> del'.id, granted |-> del'.granted]
      /\ del'.granted \in BOOLEAN
      /\ ~del'.granted => ~del.granted /\ del.id # i
  <2> DEFINE granted == del.granted \/ del.id = i
  <2>1. del' = [del EXCEPT !.granted = granted]
    BY <1>2
  <2>2. granted \in BOOLEAN /\ (granted = FALSE => ~del.granted /\ del.id # i)
    OBVIOUS
  <2> HIDE DEF granted
  <2>3. del' = [id |-> del.id, granted |-> granted]
    BY <1>4, <2>1
  <2>4. del'.id = del.id /\ del'.granted = granted
    BY <2>3
  <2> QED BY <2>2, <2>3, <2>4
<1> HIDE DEF new, lease, rest
<1>8. Parting' /\ \A n \in net' : IsMessage(n)
  <2>1. ASSUME NEW j \in Ids, leases'[j].run # m.run
        PROVE  leases'[j] = NoLease \/ (leases'[j].run = leases[j].run /\ leases'[j].no = leases[j].no)
    BY <1>5, <1>6, <2>1
  <2>2. ASSUME NEW j \in Ids, leases'[j].run = m.run
        PROVE  lease = [id |-> j, no |-> leases'[j].no]
    <3>1. j = i
      <4>1. CASE j # i
        <5>1. leases[j].run = m.run /\ leases[j].uuid # UuidOf[m.run]
          BY <1>1, <1>5, <2>2, <4>1, UuidAssumption DEF NoLease
        <5>2. leases[j] # NoLease
          BY <1>1, <5>1, UuidAssumption DEF NoLease
        <5> QED BY <1>1, <5>1, <5>2 DEF RadioTypes
      <4> QED BY <4>1
    <3> QED BY <1>5, <1>6, <3>1 DEF lease
  <2> QED BY <1>2, <1>3, <1>6, <2>1, <2>2, HandledParting
<1>9. RadioTypes'
  <2>1. ASSUME NEW j \in Ids
        PROVE  \/ leases'[j] = NoLease
               \/ /\ IsLease(leases'[j]) /\ leases'[j].run \in Runs
                  /\ leases'[j].uuid = UuidOf[leases'[j].run]
    BY <1>1, <1>5, <1>6 DEF RadioTypes
  <2>2. raced' \in BOOLEAN
    BY <1>1, <1>2 DEF RadioTypes
  <2> QED BY <1>2, <1>5, <1>7, <1>8, <2>1, <2>2, LeaseTypes
<1>10. ASSUME Listing
       PROVE  Listing'
  <2>1. PICK one : one.stage = "ok" /\ net' = (net \ {m}) \cup (IF m.waited THEN {one} ELSE {})
    BY <1>2, <1>6, Handled
  <2>2. ASSUME NEW j \in Ids, leases'[j] # NoLease
        PROVE  rows'[j].uuid = leases'[j].uuid
    <3>1. CASE j = i
      BY <1>2, <1>5, <1>6, <1>10, <3>1 DEF Listing, i
    <3>2. CASE j # i
      BY <1>2, <1>5, <1>10, <2>2, <3>2 DEF Listing, Online
    <3> QED BY <3>1, <3>2
  <2>3. ASSUME NEW n \in net', n.stage = "stored"
        PROVE  rows'[n.lease.id].uuid = UuidOf[n.run]
    BY <1>2, <1>10, <2>1, <2>3 DEF Listing
  <2>4. ASSUME del'.id \in Ids, ~del'.granted
        PROVE  leases'[del'.id] = NoLease
    BY <1>5, <1>7, <1>10, <2>4 DEF Listing, Online
  <2> QED BY <2>2, <2>3, <2>4 DEF Listing, Online
<1> QED BY <1>2, <1>8, <1>9, <1>10 DEF RadioInv

LEMMA FailStep ==
  ASSUME RadioInv, NEW m \in net, Fail(m)
  PROVE  RadioInv'
<1>1. RadioTypes /\ IsHeld(m.lease)
  BY DEF RadioInv, RadioTypes, IsMessage
<1>2. Becomes(m, "failed", m.lease) /\ UNCHANGED <<rows, leases, del, pc, held, raced, clean>>
  BY DEF Fail, server, client, history
<1>3. Parting' /\ \A n \in net' : IsMessage(n)
  BY <1>1, <1>2, HandledParting
<1>4. RadioTypes'
  BY <1>1, <1>2, <1>3 DEF RadioTypes
<1>5. PICK one : one.stage = "failed" /\ net' = (net \ {m}) \cup (IF m.waited THEN {one} ELSE {})
  BY <1>1, <1>2, Handled
<1>6. raced' \/ Listing'
  <2>1. \A i \in Ids : Online(i)' => Online(i)
    BY <1>2 DEF Online
  <2> QED BY <1>2, <1>5, <2>1, ListingStays
<1> QED BY <1>3, <1>4, <1>6 DEF RadioInv

(* A request nobody waits for ends unhandled.                               *)
LEMMA DropRequestStep ==
  ASSUME RadioInv, NEW m \in net, Drop(m)
  PROVE  RadioInv'
<1>1. RadioTypes
  BY DEF RadioInv
<1>2. ~m.waited /\ net' = net \ {m} /\ UNCHANGED <<rows, leases, del, pc, held, raced, clean>>
  BY DEF Drop, server, client
<1>3. RadioTypes'
  BY <1>1, <1>2 DEF RadioTypes
<1>4. raced' \/ Listing'
  <2>1. \A i \in Ids : Online(i)' => Online(i)
    BY <1>2 DEF Online
  <2> QED BY <1>2, <2>1, ListingStays
<1>5. ASSUME NEW q \in clean
      PROVE  OneRequest(q)' /\ \A i \in Ids : leases'[i].run = q => Knows(q, i)'
  <2>1. OneRequest(q) /\ \A i \in Ids : leases[i].run = q => Knows(q, i)
    BY DEF RadioInv, Parting
  <2>2. \A n : n.run = q => (n \in net' <=> n \in net)
    BY <1>2, <2>1 DEF OneRequest
  <2>3. OneRequest(q)'
    BY <1>2, <2>1, <2>2 DEF OneRequest
  <2>4. ASSUME NEW i \in Ids, leases'[i].run = q
        PROVE  Knows(q, i)'
    BY <1>2, <2>1, <2>2, <2>4 DEF Knows, LeaseOf, Carries
  <2> QED BY <2>3, <2>4
<1>6. Parting'
  BY <1>2, <1>5 DEF Parting
<1> QED BY <1>3, <1>4, <1>6 DEF RadioInv

(* The next id of the table is free.                                        *)
LEMMA NextIdIsFree == NextId \in Ids => rows[NextId] = Unlisted
<1> DEFINE Taken == {0} \cup {i \in Ids : rows[i] # Unlisted}
           T == {MaxId - i : i \in Taken}
<1>1. MaxId \in Nat /\ \A i \in Taken : i \in Nat /\ MaxId - i \in Nat
  BY UuidAssumption DEF Ids
<1>2. T \subseteq Nat /\ T # {}
  BY <1>1
<1>3. PICK t \in T : \A y \in T : ~(<<y, t>> \in OpToRel(<, Nat))
  <2> HIDE DEF T
  <2> QED BY <1>2, WFMin, NatLessThanWellFounded
<1>4. \A y \in T : ~(y < t)
  <2>1. \A y \in T : <<y, t>> \in Nat \X Nat
    BY <1>2
  <2> QED BY <1>2, <1>3, <2>1 DEF OpToRel
<1>5. PICK top \in Taken : t = MaxId - top
  OBVIOUS
<1>6. \A i \in Taken : top >= i
  BY <1>1, <1>4, <1>5
<1>7. Max(Taken) \in Taken /\ \A i \in Taken : Max(Taken) >= i
  BY <1>6 DEF Max
<1> HIDE DEF T
<1>8. NextId = Max(Taken) + 1
  BY DEF NextId
<1>9. ASSUME NextId \in Ids, rows[NextId] # Unlisted
      PROVE  FALSE
  <2>1. NextId \in Taken
    BY <1>9
  <2> HIDE DEF Taken
  <2>2. Max(Taken) >= Max(Taken) + 1 /\ Max(Taken) \in Nat
    BY <1>1, <1>7, <1>8, <2>1
  <2> QED BY <2>2
<1> QED BY <1>9

(* A request on its way to its lease: overtaken, or stored (StoreStep).     *)
LEMMA OvertakenRequest ==
  ASSUME NEW m, IsMessage(m), NEW n, n = [m EXCEPT !.overtaken = TRUE]
  PROVE  /\ IsMessage(n) /\ n.run = m.run /\ n.kind = m.kind /\ n.stage = m.stage
         /\ n.lease = m.lease /\ n.waited = m.waited
<1>1. m = [run |-> m.run, kind |-> m.kind, lease |-> m.lease, stage |-> m.stage,
           waited |-> m.waited, overtaken |-> m.overtaken]
  BY DEF IsMessage
<1>2. n = [run |-> m.run, kind |-> m.kind, lease |-> m.lease, stage |-> m.stage,
           waited |-> m.waited, overtaken |-> TRUE]
  BY <1>1
<1> QED BY <1>2 DEF IsMessage

(* The rows after an upsert: every radio keeps its client, and one that was *)
(* free may get one.                                                        *)
LEMMA UpsertedRows ==
  ASSUME RadioInv, NEW r \in Runs, Upsert(r)
  PROVE  /\ rows' = [i \in Ids |-> rows'[i]]
         /\ \A i \in Ids : rows'[i].uuid = rows[i].uuid \/ rows[i] = Unlisted
<1>1. PICK i \in IF RowOf(UuidOf[r]) # {} THEN RowOf(UuidOf[r]) ELSE {NextId} \cap Ids :
        rows' = [rows EXCEPT ![i] = [uuid |-> UuidOf[r], url |-> r]]
  BY DEF Upsert
<1>2. i \in Ids /\ (rows[i].uuid = UuidOf[r] \/ rows[i] = Unlisted)
  BY <1>1, NextIdIsFree DEF RowOf
<1> DEFINE new == [uuid |-> UuidOf[r], url |-> r]
           S == {rows[j] : j \in Ids} \cup {new}
<1>3. rows \in [Ids -> S]
  <2>1. rows = [j \in Ids |-> rows[j]]
    BY DEF RadioInv, RadioTypes
  <2> QED BY <2>1
<1>4. new \in S /\ new.uuid = UuidOf[r]
  OBVIOUS
<1> HIDE DEF S, new
<1>5. /\ rows' = [j \in Ids |-> rows'[j]]
      /\ rows'[i] = new
      /\ \A j \in Ids : j # i => rows'[j] = rows[j]
  BY <1>1, <1>2, <1>3, <1>4 DEF new
<1> QED BY <1>2, <1>4, <1>5

LEMMA StoreStep ==
  ASSUME RadioInv, NEW m \in net, Store(m)
  PROVE  RadioInv'
<1>1. RadioTypes /\ IsMessage(m) /\ m.run \in Runs
  BY DEF RadioInv, RadioTypes, IsMessage
<1>2. /\ m.kind = "register" /\ m.stage = "sent" /\ Upsert(m.run)
      /\ UNCHANGED <<leases, pc, held, del, raced, clean>>
  BY DEF Store, client, history
<1>3. PICK i \in Ids :
        /\ rows'[i].uuid = UuidOf[m.run]
        /\ net' = {CASE n = m -> [m EXCEPT !.stage = "stored", !.lease = [id |-> i, no |-> 0]]
                     [] Storing(n, i) -> [n EXCEPT !.overtaken = TRUE]
                     [] OTHER -> n : n \in net}
  BY DEF Store
<1> DEFINE now(n) == CASE n = m -> [m EXCEPT !.stage = "stored", !.lease = [id |-> i, no |-> 0]]
                       [] Storing(n, i) -> [n EXCEPT !.overtaken = TRUE]
                       [] OTHER -> n
<1>4. net' = {now(n) : n \in net}
  BY <1>3
<1>5. ASSUME NEW n \in net
      PROVE  /\ IsMessage(now(n)) /\ now(n).run = n.run /\ now(n).waited = n.waited
             /\ n = m => now(n).lease.id = i
             /\ n # m => now(n).stage = n.stage /\ now(n).kind = n.kind /\ now(n).lease = n.lease
  <2>0. IsMessage(n)
    BY <1>1 DEF RadioTypes
  <2>1. CASE n = m
    <3> DEFINE first == [m EXCEPT !.stage = "stored"]
               lease == [id |-> i, no |-> 0]
    <3>1. now(n) = [first EXCEPT !.lease = lease]
      BY <1>2, <2>1 DEF Storing
    <3>2. m = [run |-> m.run, kind |-> m.kind, lease |-> m.lease, stage |-> m.stage,
               waited |-> m.waited, overtaken |-> m.overtaken]
      BY <1>1 DEF IsMessage
    <3>3. first = [run |-> m.run, kind |-> m.kind, lease |-> m.lease, stage |-> "stored",
                   waited |-> m.waited, overtaken |-> m.overtaken]
      BY <3>2
    <3>4. IsHeld(lease) /\ lease.id = i
      BY DEF IsHeld
    <3> HIDE DEF now, first, lease
    <3>5. now(n) = [run |-> m.run, kind |-> m.kind, lease |-> lease, stage |-> "stored",
                    waited |-> m.waited, overtaken |-> m.overtaken]
      BY <3>1, <3>3
    <3>6. /\ now(n).run = m.run /\ now(n).kind = m.kind /\ now(n).lease = lease
          /\ now(n).stage = "stored" /\ now(n).waited = m.waited /\ now(n).overtaken = m.overtaken
      BY <3>5
    <3>7. IsMessage(now(n))
      BY <1>1, <1>2, <3>4, <3>5, <3>6 DEF IsMessage
    <3> QED BY <2>1, <3>4, <3>6, <3>7
  <2>2. CASE n # m /\ Storing(n, i)
    <3>1. now(n) = [n EXCEPT !.overtaken = TRUE]
      BY <2>2 DEF Storing
    <3> HIDE DEF now
    <3> QED BY <2>0, <2>2, <3>1, OvertakenRequest
  <2>3. CASE n # m /\ ~Storing(n, i)
    <3>1. now(n) = n
      BY <2>3 DEF Storing
    <3> QED BY <2>0, <2>3, <3>1
  <2> QED BY <2>1, <2>2, <2>3
<1> HIDE DEF now
<1>6. RadioTypes'
  <2>1. \A n \in net' : IsMessage(n)
    BY <1>4, <1>5
  <2>2. rows' = [j \in Ids |-> rows'[j]]
    BY <1>1, <1>2, UpsertedRows
  <2> QED BY <1>1, <1>2, <2>1, <2>2 DEF RadioTypes
<1>7. ASSUME Listing
      PROVE  Listing'
  <2>1. \A j \in Ids : rows'[j].uuid = rows[j].uuid \/ rows[j].uuid \notin Uuids
    BY <1>1, <1>2, UpsertedRows, UuidAssumption DEF Unlisted
  <2>2. ASSUME NEW j \in Ids, leases'[j] # NoLease
        PROVE  rows'[j].uuid = leases'[j].uuid
    <3>1. rows[j].uuid = leases[j].uuid /\ leases[j].uuid \in Uuids
      BY <1>1, <1>2, <1>7, <2>2, UuidAssumption DEF Listing, Online, RadioTypes
    <3> QED BY <1>2, <2>1, <3>1
  <2>3. ASSUME NEW o \in net', o.stage = "stored"
        PROVE  rows'[o.lease.id].uuid = UuidOf[o.run]
    <3>1. PICK n \in net : o = now(n)
      BY <1>4
    <3>2. CASE n = m
      BY <1>3, <1>5, <3>1, <3>2
    <3>3. CASE n # m
      <4>1. n.stage = "stored" /\ n.lease = o.lease /\ n.run = o.run
        BY <1>5, <2>3, <3>1, <3>3
      <4>2. n.lease.id \in Ids /\ n.run \in Runs /\ rows[n.lease.id].uuid = UuidOf[n.run]
        BY <1>1, <1>7, <4>1 DEF Listing, RadioTypes, IsMessage
      <4>3. UuidOf[n.run] \in Uuids
        BY <4>2, UuidAssumption
      <4> QED BY <2>1, <4>1, <4>2, <4>3
    <3> QED BY <3>2, <3>3
  <2>4. del'.id \in Ids /\ ~del'.granted => leases'[del'.id] = NoLease
    BY <1>2, <1>7 DEF Listing, Online
  <2> QED BY <2>2, <2>3, <2>4 DEF Listing, Online
<1>8. ASSUME NEW q \in clean
      PROVE  OneRequest(q)' /\ \A j \in Ids : leases'[j].run = q => Knows(q, j)'
  <2>1. OneRequest(q) /\ \A j \in Ids : leases[j].run = q => Knows(q, j)
    BY DEF RadioInv, Parting
  <2>2. ASSUME NEW o \in net', o.run = q
        PROVE  o.waited /\ pc'[q] = "asked" /\ \A p \in net' : p.run = q => p = o
    <3>1. PICK n \in net : o = now(n)
      BY <1>4
    <3>2. n.run = q
      BY <1>5, <2>2, <3>1
    <3>3. n.waited /\ pc[q] = "asked" /\ \A k \in net : k.run = q => k = n
      BY <2>1, <3>2 DEF OneRequest
    <3>4. ASSUME NEW p \in net', p.run = q
          PROVE  p = o
      <4>1. PICK k \in net : p = now(k)
        BY <1>4
      <4>2. k.run = q
        BY <1>5, <3>4, <4>1
      <4> QED BY <3>1, <3>3, <4>1, <4>2
    <3> QED BY <1>2, <1>5, <3>1, <3>3, <3>4
  <2>3. OneRequest(q)'
    BY <2>2 DEF OneRequest
  <2>4. ASSUME NEW j \in Ids, leases'[j].run = q
        PROVE  Knows(q, j)'
    <3>1. Knows(q, j)
      BY <1>2, <2>1, <2>4
    <3>2. CASE pc[q] \in {"held", "due"} /\ held[q] = LeaseOf(j)
      BY <1>2, <3>2 DEF Knows, LeaseOf
    <3>3. ASSUME NEW n \in net, n.run = q, Carries(n, LeaseOf(j))
          PROVE  Knows(q, j)'
      <4>1. n # m
        BY <1>2, <3>3 DEF Carries
      <4>2. now(n) \in net' /\ now(n).run = q /\ Carries(now(n), LeaseOf(j))'
        BY <1>2, <1>4, <1>5, <3>3, <4>1 DEF Carries, LeaseOf
      <4> QED BY <4>2 DEF Knows
    <3> QED BY <3>1, <3>2, <3>3 DEF Knows
  <2> QED BY <2>3, <2>4
<1>9. Parting'
  BY <1>2, <1>8 DEF Parting
<1> QED BY <1>2, <1>6, <1>7, <1>9 DEF RadioInv

(* The backend forgets its leases, and its requests fail.                   *)
LEMMA RestartStep ==
  ASSUME RadioInv, RestartBackend
  PROVE  RadioInv'
<1>1. RadioTypes /\ UuidOf \in [Runs -> Uuids] /\ "none" \notin Runs
  BY UuidAssumption DEF RadioInv
<1>2. /\ UNCHANGED <<rows, pc, held, raced, clean>> /\ leases' = [i \in Ids |-> NoLease]
      /\ del' = [id |-> 0, granted |-> FALSE]
  BY DEF RestartBackend, client, history
<1>3. ASSUME NEW n \in net'
      PROVE  \E m \in net : m.waited /\ n = [m EXCEPT !.stage = "failed"]
  <2> DEFINE Waited == {n1 \in net : n1.waited}
  <2>1. net' = {[m EXCEPT !.stage = "failed"] : m \in Waited}
    BY DEF RestartBackend
  <2>2. PICK m \in Waited : n = [m EXCEPT !.stage = "failed"]
    BY <1>3, <2>1
  <2> QED BY <2>2
<1>4. ASSUME NEW m \in net, NEW n, n = [m EXCEPT !.stage = "failed"]
      PROVE  IsMessage(n) /\ n.run = m.run /\ n.stage = "failed" /\ n.waited = m.waited
  <2>1. IsMessage(m)
    BY <1>1 DEF RadioTypes
  <2>2. m = [run |-> m.run, kind |-> m.kind, lease |-> m.lease, stage |-> m.stage,
             waited |-> m.waited, overtaken |-> m.overtaken]
    BY <2>1 DEF IsMessage
  <2>3. n = [run |-> m.run, kind |-> m.kind, lease |-> m.lease, stage |-> "failed",
             waited |-> m.waited, overtaken |-> m.overtaken]
    BY <1>4, <2>2
  <2> QED BY <2>1, <2>3 DEF IsMessage
<1>5. ASSUME NEW n \in net'
      PROVE  IsMessage(n) /\ n.stage = "failed"
  <2>1. PICK m \in net : m.waited /\ n = [m EXCEPT !.stage = "failed"]
    BY <1>3
  <2> QED BY <1>4, <2>1
<1>6. RadioTypes'
  <2>1. del'.granted \in BOOLEAN /\ del' = [id |-> del'.id, granted |-> del'.granted]
    BY <1>2
  <2>2. raced' \in BOOLEAN /\ leases' = [i \in Ids |-> leases'[i]]
    BY <1>1, <1>2 DEF RadioTypes
  <2>3. \A i \in Ids : leases'[i] = NoLease
    BY <1>2
  <2> QED BY <1>2, <1>5, <2>1, <2>2, <2>3, LeaseTypes
<1>7. Listing'
  BY <1>2, <1>5 DEF Listing, Online, Ids
<1>8. ASSUME NEW q \in clean
      PROVE  OneRequest(q)' /\ \A i \in Ids : leases'[i].run = q => Knows(q, i)'
  <2>1. OneRequest(q) /\ q # "none"
    BY <1>1, <1>8 DEF RadioInv, Parting, RadioTypes
  <2>2. ASSUME NEW n \in net', n.run = q
        PROVE  n.waited /\ pc'[q] = "asked" /\ \A o \in net' : o.run = q => o = n
    <3>1. PICK m \in net : m.waited /\ n = [m EXCEPT !.stage = "failed"]
      BY <1>3
    <3>2. m.run = q /\ n.waited = m.waited
      BY <1>4, <2>2, <3>1
    <3>3. pc[q] = "asked" /\ \A o \in net : o.run = q => o = m
      BY <2>1, <3>2 DEF OneRequest
    <3>4. ASSUME NEW o \in net', o.run = q
          PROVE  o = n
      <4>1. PICK k \in net : k.waited /\ o = [k EXCEPT !.stage = "failed"]
        BY <1>3
      <4>2. k.run = q
        BY <1>4, <3>4, <4>1
      <4> QED BY <3>1, <3>3, <4>1, <4>2
    <3> QED BY <1>2, <3>1, <3>2, <3>3, <3>4
  <2>3. OneRequest(q)'
    BY <2>2 DEF OneRequest
  <2>4. \A i \in Ids : leases'[i].run = "none"
    BY <1>2 DEF NoLease
  <2> QED BY <2>1, <2>3, <2>4
<1>9. Parting'
  BY <1>2, <1>8 DEF Parting
<1> QED BY <1>6, <1>7, <1>9 DEF RadioInv

LEMMA CheckDeleteStep ==
  ASSUME RadioInv, NEW i \in Ids, CheckDelete(i)
  PROVE  RadioInv'
<1>1. /\ ~Online(i) /\ UNCHANGED <<rows, leases, pc, held, net, raced, clean>>
      /\ del' = [id |-> i, granted |-> FALSE]
  BY DEF CheckDelete, client, history
<1>2. RadioTypes'
  BY <1>1 DEF RadioInv, RadioTypes
<1>3. Listing => Listing'
  BY <1>1 DEF Listing, Online
<1>4. Parting'
  BY <1>1 DEF RadioInv, Parting, OneRequest, Knows, LeaseOf, Carries
<1> QED BY <1>1, <1>2, <1>3, <1>4 DEF RadioInv

(* The row goes: nobody held it, or a registration raced with the request.  *)
LEMMA DeleteStep ==
  ASSUME RadioInv, Delete
  PROVE  RadioInv'
<1>1. RadioTypes
  BY DEF RadioInv
<1>2. /\ rows' = [rows EXCEPT ![del.id] = Unlisted] /\ del' = [id |-> 0, granted |-> FALSE]
      /\ raced' = (raced \/ del.granted \/ \E m \in net : Storing(m, del.id))
      /\ UNCHANGED <<leases, pc, held, net, clean>>
  BY DEF Delete, client
<1>3. rows' = [i \in Ids |-> rows'[i]] /\ \A i \in Ids : i # del.id => rows'[i] = rows[i]
  <2> DEFINE S == {rows[i] : i \in Ids} \cup {Unlisted}
  <2>1. rows \in [Ids -> S]
    <3>1. rows = [i \in Ids |-> rows[i]]
      BY <1>1 DEF RadioTypes
    <3> QED BY <3>1
  <2>2. Unlisted \in S
    OBVIOUS
  <2> HIDE DEF S
  <2> QED BY <1>2, <2>1, <2>2
<1>4. RadioTypes'
  <2>1. raced' \in BOOLEAN /\ del'.granted \in BOOLEAN
        /\ del' = [id |-> del'.id, granted |-> del'.granted]
    BY <1>1, <1>2 DEF RadioTypes
  <2> QED BY <1>1, <1>2, <1>3, <2>1 DEF RadioTypes
<1>5. ASSUME ~raced'
      PROVE  Listing'
  <2>1. /\ Listing /\ ~del.granted
        /\ \A m \in net : m.stage = "stored" => m.lease.id # del.id
    BY <1>1, <1>2, <1>5 DEF RadioInv, RadioTypes, Storing
  <2>2. ASSUME NEW i \in Ids, leases'[i] # NoLease
        PROVE  rows'[i].uuid = leases'[i].uuid
    BY <1>2, <1>3, <2>1, <2>2 DEF Listing, Online
  <2>3. ASSUME NEW m \in net', m.stage = "stored"
        PROVE  rows'[m.lease.id].uuid = UuidOf[m.run]
    <3>1. m.lease.id \in Ids /\ m.lease.id # del.id
      BY <1>1, <1>2, <2>1, <2>3 DEF RadioTypes, IsMessage
    <3> QED BY <1>2, <1>3, <2>1, <2>3, <3>1 DEF Listing
  <2>4. del'.id \notin Ids
    BY <1>2 DEF Ids
  <2> QED BY <2>2, <2>3, <2>4 DEF Listing, Online
<1>6. Parting'
  BY <1>2 DEF RadioInv, Parting, OneRequest, Knows, LeaseOf, Carries
<1> QED BY <1>4, <1>5, <1>6 DEF RadioInv

(* Ten seconds pass.                                                        *)
LEMMA TickStep ==
  ASSUME RadioInv, Tick
  PROVE  RadioInv'
<1>1. RadioTypes
  BY DEF RadioInv
<1>2. /\ leases' = Expire /\ UNCHANGED <<rows, held, net, del, raced, clean>>
      /\ pc' = [r \in Runs |-> CASE pc[r] = "held" -> "due" [] pc[r] = "retry" -> "register"
                                 [] OTHER -> pc[r]]
  BY DEF Tick, history
<1>3. ASSUME NEW i \in Ids
      PROVE  \/ leases'[i] = NoLease
             \/ /\ leases[i] # NoLease /\ IsLease(leases'[i]) /\ leases'[i].run = leases[i].run
                /\ leases'[i].uuid = leases[i].uuid /\ leases'[i].no = leases[i].no
  <2> DEFINE less == leases[i].left - 1
             later == [leases[i] EXCEPT !.left = less]
  <2>1. leases'[i] = IF leases[i].left <= 1 THEN NoLease ELSE later
    BY <1>2 DEF Expire
  <2>2. leases[i] = NoLease => leases'[i] = NoLease
    BY <2>1 DEF NoLease
  <2>3. IsLease(leases[i])
    BY <1>1 DEF RadioTypes
  <2> HIDE DEF less
  <2>4. /\ IsLease(later) /\ later.run = leases[i].run /\ later.uuid = leases[i].uuid
        /\ later.no = leases[i].no
    BY <2>3 DEF IsLease
  <2> HIDE DEF later
  <2> QED BY <2>1, <2>2, <2>4
<1>4. ASSUME NEW r \in Runs
      PROVE  /\ pc'[r] \in {"held", "due"} <=> pc[r] \in {"held", "due"} /\ pc'[r] = "due"
             /\ pc[r] \in {"held", "due"} => pc'[r] = "due"
             /\ pc[r] = "asked" => pc'[r] = "asked"
  BY <1>2
<1>5. RadioTypes'
  <2>1. ASSUME NEW i \in Ids
        PROVE  /\ IsLease(leases'[i])
               /\ leases'[i] = NoLease
                  \/ (leases'[i].run \in Runs /\ leases'[i].uuid = UuidOf[leases'[i].run])
    <3>1. IsLease(NoLease)
      BY DEF IsLease, NoLease
    <3> QED BY <1>1, <1>3, <3>1 DEF RadioTypes
  <2>2. leases' = [i \in Ids |-> leases'[i]]
    BY <1>2 DEF Expire
  <2>3. pc' = [r \in Runs |-> pc'[r]]
    BY <1>2
  <2> QED BY <1>1, <1>2, <2>1, <2>2, <2>3 DEF RadioTypes
<1>6. raced' \/ Listing'
  <2>1. \A i \in Ids : Online(i)' => Online(i) /\ leases'[i].uuid = leases[i].uuid
    BY <1>3 DEF Online
  <2> QED BY <1>2, <2>1, ListingStays
<1>7. ASSUME NEW q \in clean
      PROVE  OneRequest(q)' /\ \A i \in Ids : leases'[i].run = q => Knows(q, i)'
  <2>1. OneRequest(q) /\ (\A i \in Ids : leases[i].run = q => Knows(q, i)) /\ q \in Runs
    BY <1>1, <1>7 DEF RadioInv, Parting, RadioTypes
  <2>2. OneRequest(q)'
    BY <1>2, <1>4, <2>1 DEF OneRequest
  <2>3. ASSUME NEW i \in Ids, leases'[i].run = q
        PROVE  Knows(q, i)'
    <3>1. leases[i].run = q /\ leases'[i].no = leases[i].no
      BY <1>3, <2>1, <2>3, UuidAssumption DEF NoLease
    <3> QED BY <1>2, <1>4, <2>1, <3>1 DEF Knows, LeaseOf, Carries
  <2> QED BY <2>2, <2>3
<1>8. Parting'
  BY <1>2, <1>7 DEF Parting
<1> QED BY <1>5, <1>6, <1>8 DEF RadioInv

LEMMA RadioStep ==
  ASSUME RadioInv, [ClientsNext]_clientsVars
  PROVE  RadioInv'
<1>1. CASE UNCHANGED clientsVars
  <2>1. RadioTypes' <=> RadioTypes
    BY <1>1 DEF clientsVars, RadioTypes
  <2>2. raced' = raced /\ (Listing' <=> Listing)
    BY <1>1 DEF clientsVars, Listing, Online
  <2>3. Parting' <=> Parting
    BY <1>1 DEF clientsVars, Parting, OneRequest, Knows, LeaseOf, Carries
  <2> QED BY <2>1, <2>2, <2>3 DEF RadioInv
<1>2. CASE \E r \in Runs : Loop(r)
  BY <1>2, ClientStep, AnsweredStep DEF Loop
<1>3. CASE Handle
  <2>1. ASSUME NEW m \in net, Store(m) \/ Grant(m) \/ Beat(m) \/ GoOffline(m)
        PROVE  RadioInv'
    BY <2>1, StoreStep, GrantStep, OnLeaseStep
  <2> QED BY <1>3, <2>1, DeleteStep DEF Handle
<1>4. CASE Faults
  <2>1. ASSUME NEW r \in Runs, Start(r) \/ Stop(r) \/ TimeOut(r) \/ Abort(r) \/ Crash(r)
        PROVE  RadioInv'
    BY <2>1, ClientStep, EndStep
  <2>2. ASSUME NEW m \in net, Fail(m) \/ Drop(m)
        PROVE  RadioInv'
    BY <2>2, FailStep, DropRequestStep
  <2> QED BY <1>4, <2>1, <2>2, CheckDeleteStep, RestartStep DEF Faults
<1>5. CASE Tick
  BY <1>5, TickStep
<1> QED BY <1>1, <1>2, <1>3, <1>4, <1>5 DEF ClientsNext

(* However registrations, heartbeats and partings interleave, get lost or   *)
(* come late, and whatever is deleted or restarted: a radio that is online  *)
(* has the row of its client, and a process that left in good order leaves  *)
(* no lease behind (client_radios.rs, backend_client.rs, db/radios.rs).     *)
THEOREM OnlineIsListed == ClientsSpec => []OnlineRadiosAreListed
<1>1. ClientsInit => RadioInv
  BY RadioInit
<1>2. RadioInv /\ [ClientsNext]_clientsVars => RadioInv'
  BY RadioStep
<1>3. RadioInv => OnlineRadiosAreListed
  <2> SUFFICES ASSUME RadioInv PROVE OnlineRadiosAreListed
    OBVIOUS
  <2>1. ASSUME NEW i \in Ids, Online(i)
        PROVE  rows[i].uuid = leases[i].uuid \/ raced
    BY <2>1 DEF RadioInv, Listing
  <2>2. ASSUME NEW r \in clean, pc[r] = "gone", NEW i \in Ids
        PROVE  leases[i].run # r
    BY <2>2, NoLeaseWithout
  <2> QED BY <2>1, <2>2 DEF OnlineRadiosAreListed
<1> QED BY <1>1, <1>2, <1>3, PTL DEF ClientsSpec
-----------------------------------------------------------------------------
(* The launcher.                                                            *)

Settings == [Fields -> Texts]
Files == [readable : BOOLEAN, settings : Settings]
Screens == {"Main", "Settings", "Updates"}

Wins ==
  [up : BOOLEAN, screen : Screens, settings : Settings, dirty : BOOLEAN,
   child : Pids \cup {NoPid}, stopping : BOOLEAN, download : Kinds \cup {"none"},
   confirm : BOOLEAN, closing : BOOLEAN, note : Pids \cup {NoPid}]

Processes ==
  [state : {"none", "alive", "killed", "dead"}, data : Texts, log : Texts,
   lost : BOOLEAN, spared : BOOLEAN]

Fetches ==
  [kind : Kinds \cup {"none"}, dir : Texts,
   step : {"none", "asked", "written", "removed", "failed", "done"}, before : Contents]

LauncherTypes ==
  /\ win \in Wins /\ saved \in Files
  /\ procs \in [Pids -> Processes]
  /\ waits \in [Pids -> {"none", "waiting", "told"}]
  /\ stops \in [Pids -> {"none", "asked", "noted"}]
  /\ fetch \in Fetches
  /\ disk \in [Slots \X Dirs -> Contents]
  /\ lEnv \in LauncherBounds

(* The exit of a backend that lives will be told.                           *)
ExitIsAwaited == \A p \in Pids : Live(p) /\ ~procs[p].lost => waits[p] = "waiting"

(* A download writes beside and over a data file, never a database or log.  *)
FetchOK ==
  /\ fetch.step # "none" => fetch.kind \in Kinds
  /\ fetch.step \in {"written", "removed", "done"} => fetch.dir \in Dirs

LauncherInv ==
  LauncherTypes /\ BackendIsHeld /\ ExitIsAwaited /\ FetchOK /\ DownloadsAreAllOrNothing

(* The text of no setting is the default one where it was blank.            *)
LEMMA LoadedSettings ==
  ASSUME NEW f \in Files
  PROVE  Load(f) \in Settings
BY LauncherAssumption DEF Load, Files, Settings, Default, Texts

LEMMA DefaultsAreSettings == Default \in Settings
BY LauncherAssumption DEF Settings, Default, Texts

LEMMA ClosedIsTyped == Closed \in Wins /\ NoDownload \in Fetches
<1>1. NoDownload \in Fetches
  BY DEF NoDownload, Fetches, Texts, Contents
<1>2. Closed \in Wins
  BY DefaultsAreSettings DEF Closed, Wins, Screens
<1> QED BY <1>1, <1>2

LEMMA FilesAreTyped ==
  /\ NoFile \in Files
  /\ \A s \in Settings : File(s) \in Files
  /\ [Default EXCEPT !["port"] = Blank] \in Settings
<1>1. NoFile \in Files
  BY DefaultsAreSettings DEF NoFile, Files
<1>2. \A s \in Settings : File(s) \in Files
  BY DEF File, Files
<1>3. Blank \in Texts
  BY DEF Texts
<1>4. [Default EXCEPT !["port"] = Blank] \in Settings
  BY <1>3, DefaultsAreSettings DEF Settings
<1> QED BY <1>1, <1>2, <1>4

LEMMA LauncherStarts == LauncherInit => LauncherInv
<1> SUFFICES ASSUME LauncherInit PROVE LauncherInv
  OBVIOUS
<1>1. LauncherTypes
  <2>1. win \in Wins /\ fetch \in Fetches
    BY ClosedIsTyped DEF LauncherInit
  <2>2. saved \in Files
    BY FilesAreTyped DEF LauncherInit
  <2>3. procs \in [Pids -> Processes]
    BY DEF LauncherInit, Unborn, Processes, Texts
  <2>4. lEnv \in LauncherBounds
    BY LauncherAssumption DEF LauncherInit
  <2>5. disk \in [Slots \X Dirs -> Contents]
    BY <2>4 DEF LauncherInit, LauncherBounds
  <2> QED BY <2>1, <2>2, <2>3, <2>4, <2>5 DEF LauncherInit, LauncherTypes
<1>2. BackendIsHeld /\ ExitIsAwaited
  BY DEF LauncherInit, BackendIsHeld, ExitIsAwaited, Live, Unborn, Closed
<1>3. FetchOK /\ DownloadsAreAllOrNothing
  BY DEF LauncherInit, FetchOK, DownloadsAreAllOrNothing, NoDownload
<1> QED BY <1>1, <1>2, <1>3 DEF LauncherInv

(* What a step takes from its bounds changes nothing else.                  *)
EnvStep == lEnv' \in LauncherBounds /\ lEnv'.isWindows = lEnv.isWindows

LEMMA LaunchFailStep ==
  ASSUME lEnv \in LauncherBounds, NEW n \in Nat, RequestsFail(n)
  PROVE  EnvStep
BY DEF RequestsFail, EnvStep, LauncherBounds

LEMMA UseStep ==
  ASSUME lEnv \in LauncherBounds, NEW what \in {"launches", "exits", "crashes"}, Use(what)
  PROVE  EnvStep
BY DEF Use, EnvStep, LauncherBounds

LEMMA PersistStep ==
  ASSUME win \in Wins, saved \in Files, NEW failed \in BOOLEAN, Persist(failed)
  PROVE  saved' \in Files
BY FilesAreTyped DEF Persist, Wins

LEMMA LauncherEnvStep ==
  ASSUME LauncherTypes, [LauncherNext]_launcherVars
  PROVE  EnvStep
<1>0. lEnv \in LauncherBounds
  BY DEF LauncherTypes
<1>1. ASSUME Launch PROVE EnvStep
  BY <1>0, <1>1, UseStep DEF Launch
<1>2. ASSUME NEW s \in {"Settings", "Updates"}, OpenScreen(s) PROVE EnvStep
  BY <1>0, <1>2 DEF OpenScreen, Keep, EnvStep
<1>3. ASSUME Back PROVE EnvStep
  BY <1>0, <1>3, LaunchFailStep DEF Back, Cost
<1>4. ASSUME SetDefaults PROVE EnvStep
  BY <1>0, <1>4 DEF SetDefaults, Keep, EnvStep
<1>5. ASSUME NEW f \in Fields, NEW t \in Texts, Edit(f, t) PROVE EnvStep
  BY <1>0, <1>5 DEF Edit, Keep, EnvStep
<1>6. ASSUME StartRefused PROVE EnvStep
  BY <1>0, <1>6, LaunchFailStep DEF StartRefused, Cost
<1>7. ASSUME StopBackend PROVE EnvStep
  BY <1>0, <1>7 DEF StopBackend, Keep, EnvStep
<1>8. ASSUME NEW p \in Pids, StartBackend(p) PROVE EnvStep
  <2>1. PICK n \in {0, 1} : /\ lEnv.failures >= n /\ lEnv.starts > 0
                          /\ lEnv' = [lEnv EXCEPT !.starts = @ - 1, !.failures = @ - n]
    BY <1>8 DEF StartBackend, Cost
  <2>2. lEnv.failures - n \in Nat /\ lEnv.starts - 1 \in Nat
    BY <1>0, <2>1 DEF LauncherBounds
  <2> QED BY <1>0, <2>1, <2>2 DEF EnvStep, LauncherBounds
<1>9. ASSUME NEW p \in Pids, Exit(p) PROVE EnvStep
  BY <1>0, <1>9, UseStep DEF Exit, EnvStep
<1>10. ASSUME NEW p \in Pids, WaitFails(p) PROVE EnvStep
  BY <1>0, <1>10, LaunchFailStep DEF WaitFails, Cost
<1>11. ASSUME CloseLauncher PROVE EnvStep
  BY <1>0, <1>11, LaunchFailStep DEF CloseLauncher, Cost, EnvStep
<1>12. ASSUME LauncherDies PROVE EnvStep
  BY <1>0, <1>12, UseStep DEF LauncherDies
<1>13. ASSUME RemoveLogFile PROVE EnvStep
  BY <1>0, <1>13, LaunchFailStep DEF RemoveLogFile, Cost, RemoveFile
<1>14. ASSUME RemoveDatabase PROVE EnvStep
  BY <1>0, <1>14 DEF RemoveDatabase, Keep, EnvStep
<1>15. ASSUME ConfirmRemoveDatabase PROVE EnvStep
  BY <1>0, <1>15, LaunchFailStep DEF ConfirmRemoveDatabase, Cost, RemoveFile, EnvStep
<1>16. ASSUME CancelRemoveDatabase PROVE EnvStep
  BY <1>0, <1>16 DEF CancelRemoveDatabase, Keep, EnvStep
<1>17. ASSUME NEW k \in Kinds, StartDownload(k) PROVE EnvStep
  <2>1. PICK n \in {0, 1} : /\ lEnv.failures >= n /\ lEnv.downloads > 0
                          /\ lEnv' = [lEnv EXCEPT !.downloads = @ - 1, !.failures = @ - n]
    BY <1>17 DEF StartDownload, Cost
  <2>2. lEnv.failures - n \in Nat /\ lEnv.downloads - 1 \in Nat
    BY <1>0, <2>1 DEF LauncherBounds
  <2> QED BY <1>0, <2>1, <2>2 DEF EnvStep, LauncherBounds
<1>18. ASSUME OpenActionFinished PROVE EnvStep
  BY <1>0, <1>18 DEF OpenActionFinished, Keep, EnvStep
<1>19. ASSUME NEW p \in Pids, StopSeesExit(p) PROVE EnvStep
  BY <1>0, <1>19 DEF StopSeesExit, Keep, EnvStep
<1>20. ASSUME NEW p \in Pids, Kill(p) PROVE EnvStep
  BY <1>0, <1>20, LaunchFailStep DEF Kill, Cost
<1>21. ASSUME NEW p \in Pids, WaitEnds(p) PROVE EnvStep
  BY <1>0, <1>21 DEF WaitEnds, Keep, EnvStep
<1>22. ASSUME NEW p \in Pids, BackendExited(p) PROVE EnvStep
  BY <1>0, <1>22 DEF BackendExited, Keep, EnvStep
<1>23. ASSUME NEW p \in Pids, NoteStop(p) PROVE EnvStep
  BY <1>0, <1>23 DEF NoteStop, Keep, EnvStep
<1>24. ASSUME Download PROVE EnvStep
  BY <1>0, <1>24, LaunchFailStep DEF Download, Cost, EnvStep
<1>25. ASSUME RemoveOld PROVE EnvStep
  BY <1>0, <1>25, LaunchFailStep DEF RemoveOld, Cost, EnvStep
<1>26. ASSUME Rename PROVE EnvStep
  BY <1>0, <1>26, LaunchFailStep DEF Rename, Cost, EnvStep
<1>27. ASSUME DownloadFinished PROVE EnvStep
  BY <1>0, <1>27 DEF DownloadFinished, Keep, EnvStep
<1>28. CASE UNCHANGED launcherVars
  BY <1>0, <1>28 DEF launcherVars, EnvStep
<1> QED
  BY <1>1, <1>2, <1>3, <1>4, <1>5, <1>6, <1>7, <1>8, <1>9, <1>10, <1>11, <1>12, <1>13, <1>14,
     <1>15, <1>16, <1>17, <1>18, <1>19, <1>20, <1>21, <1>22, <1>23, <1>24, <1>25, <1>26, <1>27,
     <1>28 DEF LauncherNext, TaskSteps

LEMMA LauncherTypesKept ==
  ASSUME LauncherTypes, [LauncherNext]_launcherVars
  PROVE  LauncherTypes'
<1>0. lEnv' \in LauncherBounds
  BY LauncherEnvStep DEF EnvStep
<1>a. win \in Wins /\ saved \in Files
  BY DEF LauncherTypes
<1>1. ASSUME Launch PROVE LauncherTypes'
  <2>1. win' \in Wins
    BY <1>a, <1>1, LoadedSettings, ClosedIsTyped DEF Launch, Wins
  <2> QED BY <1>0, <2>1, <1>1 DEF Launch, LauncherTypes, tasks
<1>2. ASSUME NEW s \in {"Settings", "Updates"}, OpenScreen(s) PROVE LauncherTypes'
  <2>1. win' \in Wins
    BY <1>a, <1>2, DefaultsAreSettings DEF OpenScreen, Wins, Screens, Settings, NoPid
  <2> QED BY <1>0, <2>1, <1>2 DEF OpenScreen, Keep, LauncherTypes, tasks
<1>3. ASSUME Back PROVE LauncherTypes'
  <2>1. saved' \in Files
    BY <1>a, <1>3, PersistStep DEF Back
  <2>2. win' \in Wins
    BY <1>a, <1>3 DEF Back, Wins, Screens, StillDirty, NoPid
  <2> QED BY <1>0, <2>1, <2>2, <1>3 DEF Back, LauncherTypes, tasks
<1>4. ASSUME SetDefaults PROVE LauncherTypes'
  <2>1. win' \in Wins
    BY <1>a, <1>4, DefaultsAreSettings DEF SetDefaults, Wins, Screens, Settings, NoPid
  <2> QED BY <1>0, <2>1, <1>4 DEF SetDefaults, Keep, LauncherTypes, tasks
<1>5. ASSUME NEW f \in Fields, NEW t \in Texts, Edit(f, t) PROVE LauncherTypes'
  <2>1. win' \in Wins
    BY <1>a, <1>5, DefaultsAreSettings DEF Edit, Wins, Screens, Settings, NoPid
  <2> QED BY <1>0, <2>1, <1>5 DEF Edit, Keep, LauncherTypes, tasks
<1>6. ASSUME StartRefused PROVE LauncherTypes'
  <2>1. saved' \in Files
    BY <1>a, <1>6, PersistStep DEF StartRefused
  <2>2. win' \in Wins
    BY <1>a, <1>6 DEF StartRefused, Wins, Screens, StillDirty, NoPid
  <2> QED BY <1>0, <2>1, <2>2, <1>6 DEF StartRefused, LauncherTypes, tasks
<1>7. ASSUME StopBackend PROVE LauncherTypes'
  <2>1. win' \in Wins
    BY <1>a, <1>7, DefaultsAreSettings DEF StopBackend, Wins, Screens, Settings, NoPid
  <2> QED BY <1>0, <2>1, <1>7 DEF StopBackend, Keep, LauncherTypes, tasks
<1>8. ASSUME NEW p \in Pids, StartBackend(p) PROVE LauncherTypes'
  <2>1. saved' \in Files
    BY <1>a, <1>8, PersistStep DEF StartBackend
  <2>2. win' \in Wins
    BY <1>a, <1>8 DEF StartBackend, Wins, StillDirty, NoPid
  <2>3. procs' \in [Pids -> Processes]
    <3>1. win.settings["data_dir"] \in Texts /\ win.settings["log_file_path"] \in Texts
      BY <1>a DEF Wins, Settings, Fields, Required
    <3> DEFINE started == [Unborn EXCEPT !.state = "alive", !.data = win.settings["data_dir"],
                                         !.log = win.settings["log_file_path"]]
    <3>2. started \in Processes
      BY <3>1 DEF Unborn, Processes
    <3>3. procs' = [procs EXCEPT ![p] = started]
      BY <1>8 DEF StartBackend
    <3> HIDE DEF started
    <3> QED BY <3>2, <3>3 DEF LauncherTypes
  <2>4. disk' \in [Slots \X Dirs -> Contents]
    BY <1>8 DEF StartBackend, LauncherTypes, Contents
  <2> QED BY <1>0, <2>1, <2>2, <2>3, <2>4, <1>8 DEF StartBackend, LauncherTypes
<1>9. ASSUME NEW p \in Pids, Exit(p) PROVE LauncherTypes'
  <2>1. procs' \in [Pids -> Processes]
    BY <1>9 DEF Exit, LauncherTypes, Processes
  <2> QED BY <1>0, <2>1, <1>9 DEF Exit, LauncherTypes
<1>10. ASSUME NEW p \in Pids, WaitFails(p) PROVE LauncherTypes'
  <2>1. procs' \in [Pids -> Processes]
    BY <1>10 DEF WaitFails, LauncherTypes, Processes
  <2> QED BY <1>0, <2>1, <1>10 DEF WaitFails, LauncherTypes
<1>11. ASSUME CloseLauncher PROVE LauncherTypes'
  <2>1. saved' \in Files
    BY <1>a, <1>11, PersistStep DEF CloseLauncher
  <2>2. win' \in Wins
    <3>1. CASE win' = Closed
      BY <3>1, ClosedIsTyped
    <3>2. CASE win' = [win EXCEPT !.note = NoPid]
      BY <1>a, <3>2 DEF Wins
    <3>3. CASE \E failed \in BOOLEAN :
                 win' = [win EXCEPT !.dirty = StillDirty(failed), !.closing = TRUE,
                                    !.stopping = TRUE,
                                    !.note = IF win.stopping THEN @ ELSE NoPid]
      BY <1>a, <3>3 DEF Wins, StillDirty
    <3> QED BY <3>1, <3>2, <3>3, <1>11 DEF CloseLauncher
  <2>3. /\ waits' \in [Pids -> {"none", "waiting", "told"}]
        /\ stops' \in [Pids -> {"none", "asked", "noted"}]
        /\ fetch' \in Fetches
    BY <1>11, ClosedIsTyped DEF CloseLauncher, EndTasks, LauncherTypes
  <2> QED BY <1>0, <2>1, <2>2, <2>3, <1>11 DEF CloseLauncher, LauncherTypes
<1>12. ASSUME LauncherDies PROVE LauncherTypes'
  <2>1. procs' \in [Pids -> Processes]
    <3>1. ASSUME NEW q \in Pids
          PROVE  /\ [procs[q] EXCEPT !.state = "dead"] \in Processes
                 /\ [procs[q] EXCEPT !.lost = @ \/ Live(q)] \in Processes
      BY DEF LauncherTypes, Processes, Live
    <3>2. PICK dropped \in BOOLEAN :
            procs' = [q \in Pids |->
                        IF dropped /\ q = win.child THEN [procs[q] EXCEPT !.state = "dead"]
                        ELSE [procs[q] EXCEPT !.lost = @ \/ Live(q)]]
      BY <1>12 DEF LauncherDies
    <3> QED BY <3>1, <3>2
  <2> QED BY <1>0, <2>1, <1>12, ClosedIsTyped DEF LauncherDies, EndTasks, LauncherTypes
<1>13. ASSUME RemoveLogFile PROVE LauncherTypes'
  <2>1. win' \in Wins
    BY <1>a, <1>13 DEF RemoveLogFile, Wins, NoPid
  <2>2. disk' \in [Slots \X Dirs -> Contents]
    BY <1>13 DEF RemoveLogFile, RemoveFile, LauncherTypes, Slots, Contents
  <2> QED BY <1>0, <2>1, <2>2, <1>13 DEF RemoveLogFile, LauncherTypes, tasks
<1>14. ASSUME RemoveDatabase PROVE LauncherTypes'
  <2>1. win' \in Wins
    BY <1>a, <1>14, DefaultsAreSettings DEF RemoveDatabase, Wins, Screens, Settings, NoPid
  <2> QED BY <1>0, <2>1, <1>14 DEF RemoveDatabase, Keep, LauncherTypes, tasks
<1>15. ASSUME ConfirmRemoveDatabase PROVE LauncherTypes'
  <2>1. win' \in Wins
    BY <1>a, <1>15 DEF ConfirmRemoveDatabase, Wins, NoPid
  <2>2. disk' \in [Slots \X Dirs -> Contents]
    BY <1>15 DEF ConfirmRemoveDatabase, RemoveFile, LauncherTypes, Slots, Contents
  <2> QED BY <1>0, <2>1, <2>2, <1>15 DEF ConfirmRemoveDatabase, LauncherTypes, tasks
<1>16. ASSUME CancelRemoveDatabase PROVE LauncherTypes'
  <2>1. win' \in Wins
    BY <1>a, <1>16, DefaultsAreSettings DEF CancelRemoveDatabase, Wins, Screens, Settings, NoPid
  <2> QED BY <1>0, <2>1, <1>16 DEF CancelRemoveDatabase, Keep, LauncherTypes, tasks
<1>17. ASSUME NEW k \in Kinds, StartDownload(k) PROVE LauncherTypes'
  <2>1. saved' \in Files
    BY <1>a, <1>17, PersistStep DEF StartDownload
  <2>2. win' \in Wins
    BY <1>a, <1>17 DEF StartDownload, Wins, StillDirty, NoPid
  <2>3. fetch' \in Fetches
    <3>1. win.settings["data_dir"] \in Texts
      BY <1>a DEF Wins, Settings, Fields, Required
    <3>2. win.settings["data_dir"] \in Dirs => disk[<<k, win.settings["data_dir"]>>] \in Contents
      BY DEF LauncherTypes, Slots
    <3> QED BY <3>1, <3>2, <1>17 DEF StartDownload, LauncherTypes, Fetches, Contents
  <2> QED BY <1>0, <2>1, <2>2, <2>3, <1>17 DEF StartDownload, LauncherTypes, tasks
<1>18. ASSUME OpenActionFinished PROVE LauncherTypes'
  <2>1. win' \in Wins
    BY <1>a, <1>18, DefaultsAreSettings DEF OpenActionFinished, Wins, Screens, Settings, NoPid
  <2> QED BY <1>0, <2>1, <1>18 DEF OpenActionFinished, Keep, LauncherTypes, tasks
<1>19. ASSUME NEW p \in Pids, StopSeesExit(p) PROVE LauncherTypes'
  BY <1>19 DEF StopSeesExit, LauncherTypes
<1>20. ASSUME NEW p \in Pids, Kill(p) PROVE LauncherTypes'
  <2>1. /\ [procs[p] EXCEPT !.spared = TRUE] \in Processes
        /\ [procs[p] EXCEPT !.state = "killed"] \in Processes
    BY DEF LauncherTypes, Processes
  <2>2. procs' \in [Pids -> Processes]
    <3>1. \/ procs' = [procs EXCEPT ![p] = [@ EXCEPT !.spared = TRUE]]
          \/ procs' = [procs EXCEPT ![p] = [@ EXCEPT !.state = "killed"]]
      BY <1>20 DEF Kill
    <3> QED BY <2>1, <3>1 DEF LauncherTypes
  <2>3. stops' \in [Pids -> {"none", "asked", "noted"}] /\ UNCHANGED <<win, saved, waits, fetch, disk>>
    BY <1>20 DEF Kill, LauncherTypes
  <2> QED BY <1>0, <2>2, <2>3 DEF LauncherTypes
<1>21. ASSUME NEW p \in Pids, WaitEnds(p) PROVE LauncherTypes'
  BY <1>21 DEF WaitEnds, LauncherTypes
<1>22. ASSUME NEW p \in Pids, BackendExited(p) PROVE LauncherTypes'
  <2>1. win' \in Wins
    <3>1. [win EXCEPT !.child = NoPid, !.stopping = FALSE, !.note = NoPid] \in Wins
      BY <1>a DEF Wins, NoPid
    <3> QED BY <1>a, <1>22, <3>1, ClosedIsTyped DEF BackendExited
  <2>2. /\ waits' \in [Pids -> {"none", "waiting", "told"}]
        /\ stops' \in [Pids -> {"none", "asked", "noted"}]
        /\ fetch' \in Fetches
    BY <1>22, ClosedIsTyped DEF BackendExited, EndTasks, LauncherTypes
  <2> QED BY <1>0, <2>1, <2>2, <1>22 DEF BackendExited, LauncherTypes
<1>23. ASSUME NEW p \in Pids, NoteStop(p) PROVE LauncherTypes'
  <2>1. win' \in Wins
    BY <1>a, <1>23, DefaultsAreSettings DEF NoteStop, Wins, Screens, Settings, NoPid
  <2> QED BY <1>0, <2>1, <1>23 DEF NoteStop, Keep, LauncherTypes, tasks
<1>24. ASSUME Download PROVE LauncherTypes'
  <2>1. fetch' \in Fetches /\ UNCHANGED <<win, saved, procs, waits, stops>>
    BY <1>24 DEF Download, Step, LauncherTypes, Fetches, tasks
  <2>2. disk' \in [Slots \X Dirs -> Contents]
    BY <1>24 DEF Download, LauncherTypes, Contents
  <2> QED BY <1>0, <2>1, <2>2 DEF LauncherTypes
<1>25. ASSUME RemoveOld PROVE LauncherTypes'
  <2>1. fetch' \in Fetches /\ UNCHANGED <<win, saved, procs, waits, stops>>
    BY <1>25 DEF RemoveOld, Step, LauncherTypes, Fetches, tasks
  <2>2. disk' \in [Slots \X Dirs -> Contents]
    BY <1>25 DEF RemoveOld, LauncherTypes, Contents
  <2> QED BY <1>0, <2>1, <2>2 DEF LauncherTypes
<1>26. ASSUME Rename PROVE LauncherTypes'
  <2>1. fetch' \in Fetches /\ UNCHANGED <<win, saved, procs, waits, stops>>
    BY <1>26 DEF Rename, Step, LauncherTypes, Fetches, tasks
  <2>2. disk' \in [Slots \X Dirs -> Contents]
    BY <1>26 DEF Rename, LauncherTypes, Contents
  <2> QED BY <1>0, <2>1, <2>2 DEF LauncherTypes
<1>27. ASSUME DownloadFinished PROVE LauncherTypes'
  <2>1. win' \in Wins
    BY <1>a, <1>27 DEF DownloadFinished, Wins, NoPid
  <2> QED BY <1>0, <2>1, <1>27, ClosedIsTyped DEF DownloadFinished, LauncherTypes, tasks
<1>28. CASE UNCHANGED launcherVars
  BY <1>28 DEF launcherVars, LauncherTypes
<1> QED
  BY <1>1, <1>2, <1>3, <1>4, <1>5, <1>6, <1>7, <1>8, <1>9, <1>10, <1>11, <1>12, <1>13, <1>14,
     <1>15, <1>16, <1>17, <1>18, <1>19, <1>20, <1>21, <1>22, <1>23, <1>24, <1>25, <1>26, <1>27,
     <1>28 DEF LauncherNext, TaskSteps

(* A step that leaves processes, their waits and the files as they are, and *)
(* the child too, keeps the backend held.                                   *)
LEMMA HeldUntouched ==
  ASSUME BackendIsHeld, ExitIsAwaited, UNCHANGED <<procs, waits, disk>>,
         win'.up = win.up, win'.child = win.child, win'.note \in {NoPid, win.note}
  PROVE  BackendIsHeld' /\ ExitIsAwaited'
BY DEF BackendIsHeld, ExitIsAwaited, Live, Own

LEMMA HeldKept ==
  ASSUME LauncherInv, [LauncherNext]_launcherVars
  PROVE  BackendIsHeld' /\ ExitIsAwaited'
<1>a. win \in Wins /\ LauncherTypes /\ BackendIsHeld /\ ExitIsAwaited
  BY DEF LauncherInv, LauncherTypes
<1>b. \A p \in Pids : p # NoPid
  BY LauncherAssumption DEF NoPid
<1>1. ASSUME Launch PROVE BackendIsHeld' /\ ExitIsAwaited'
  BY <1>a, <1>b, <1>1 DEF Launch, BackendIsHeld, ExitIsAwaited, Live, Own, Closed, tasks, Wins
<1>2. ASSUME NEW s \in {"Settings", "Updates"}, OpenScreen(s) PROVE BackendIsHeld' /\ ExitIsAwaited'
  BY <1>a, <1>2, HeldUntouched DEF OpenScreen, Keep, tasks, Wins
<1>3. ASSUME Back PROVE BackendIsHeld' /\ ExitIsAwaited'
  BY <1>a, <1>3, HeldUntouched DEF Back, Keep, tasks, Wins
<1>4. ASSUME SetDefaults PROVE BackendIsHeld' /\ ExitIsAwaited'
  BY <1>a, <1>4, HeldUntouched DEF SetDefaults, Keep, tasks, Wins
<1>5. ASSUME NEW f \in Fields, NEW t \in Texts, Edit(f, t) PROVE BackendIsHeld' /\ ExitIsAwaited'
  BY <1>a, <1>5, HeldUntouched DEF Edit, Keep, tasks, Wins
<1>6. ASSUME StartRefused PROVE BackendIsHeld' /\ ExitIsAwaited'
  BY <1>a, <1>6, HeldUntouched DEF StartRefused, Keep, tasks, Wins
<1>7. ASSUME StopBackend PROVE BackendIsHeld' /\ ExitIsAwaited'
  BY <1>a, <1>7, HeldUntouched DEF StopBackend, Keep, tasks, Wins
<1>8. ASSUME NEW p \in Pids, StartBackend(p) PROVE BackendIsHeld' /\ ExitIsAwaited'
  <2>1. /\ win' = [win EXCEPT !.dirty = win'.dirty, !.child = p, !.stopping = FALSE,
                           !.note = NoPid]
        /\ win.up /\ win.child = NoPid
    BY <1>a, <1>8 DEF StartBackend, On, MayStart, Wins
  <2>2. \A q \in Pids : ~(Live(q) /\ ~procs[q].lost)
    BY <1>a, <1>b, <2>1 DEF BackendIsHeld
  <2>3. \A q \in Pids : (Live(q) /\ ~procs[q].lost)' => q = p
    BY <1>a, <2>2, <1>8 DEF StartBackend, Live, LauncherTypes
  <2>4. \A f \in Own(p)' : f \in DOMAIN disk' => disk'[f] # "none"
    BY <1>8 DEF StartBackend
  <2>5. waits'[p] = "waiting"
    BY <1>a, <1>8 DEF StartBackend, LauncherTypes
  <2>6. win'.up /\ win'.child = p /\ win'.note = NoPid
    BY <1>a, <2>1 DEF Wins
  <2> QED BY <2>3, <2>4, <2>5, <2>6 DEF BackendIsHeld, ExitIsAwaited
<1>9. ASSUME NEW p \in Pids, Exit(p) PROVE BackendIsHeld' /\ ExitIsAwaited'
  BY <1>a, <1>9 DEF Exit, BackendIsHeld, ExitIsAwaited, Live, Own, LauncherTypes, Processes
<1>10. ASSUME NEW p \in Pids, WaitFails(p) PROVE BackendIsHeld' /\ ExitIsAwaited'
  BY <1>a, <1>10 DEF WaitFails, BackendIsHeld, ExitIsAwaited, Live, Own, LauncherTypes,
     Processes
<1>11. ASSUME CloseLauncher PROVE BackendIsHeld' /\ ExitIsAwaited'
  <2>1. CASE win' = Closed /\ win.child = NoPid
    <3>1. \A q \in Pids : ~(Live(q) /\ ~procs[q].lost)
      BY <1>a, <1>b, <2>1 DEF BackendIsHeld
    <3>2. \A q \in Pids : ~(Live(q) /\ ~procs[q].lost)'
      BY <3>1, <1>11 DEF CloseLauncher, Live
    <3> QED BY <2>1, <3>2 DEF BackendIsHeld, ExitIsAwaited, Closed
  <2>2. CASE /\ win'.up = win.up /\ win'.child = win.child /\ win'.note \in {NoPid, win.note}
             /\ UNCHANGED <<procs, waits, disk>>
    BY <1>a, <2>2, HeldUntouched
  <2>3. CASE win.download # "none"
    <3>1. win' = [win EXCEPT !.note = NoPid] /\ UNCHANGED <<procs, waits, disk>>
      BY <2>3, <1>11 DEF CloseLauncher
    <3> QED BY <1>a, <2>2, <3>1 DEF Wins
  <2>4. CASE win.download = "none" /\ ~(win.child = NoPid /\ ~win.stopping)
    <3>1. PICK failed \in BOOLEAN :
            win' = [win EXCEPT !.dirty = StillDirty(failed), !.closing = TRUE, !.stopping = TRUE,
                               !.note = IF win.stopping THEN @ ELSE NoPid]
      BY <2>4, <1>11 DEF CloseLauncher
    <3>2. win'.up = win.up /\ win'.child = win.child /\ win'.note \in {NoPid, win.note}
      BY <1>a, <3>1 DEF Wins
    <3> QED BY <2>2, <2>4, <3>2, <1>11 DEF CloseLauncher
  <2> QED BY <2>1, <2>3, <2>4, <1>11 DEF CloseLauncher
<1>12. ASSUME LauncherDies PROVE BackendIsHeld' /\ ExitIsAwaited'
  <2>1. \A q \in Pids : ~(Live(q) /\ ~procs[q].lost)'
    <3>1. PICK dropped \in BOOLEAN :
            procs' = [q \in Pids |->
                        IF dropped /\ q = win.child THEN [procs[q] EXCEPT !.state = "dead"]
                        ELSE [procs[q] EXCEPT !.lost = @ \/ Live(q)]]
      BY <1>12 DEF LauncherDies
    <3> SUFFICES ASSUME NEW q \in Pids PROVE ~(Live(q) /\ ~procs[q].lost)'
      OBVIOUS
    <3>2. procs[q] \in Processes
      BY <1>a DEF LauncherTypes
    <3>3. CASE dropped /\ q = win.child
      <4>1. procs'[q].state = "dead"
        BY <3>1, <3>2, <3>3 DEF Processes
      <4> QED BY <4>1 DEF Live
    <3>4. CASE ~(dropped /\ q = win.child)
      <4>1. procs'[q].state = procs[q].state /\ procs'[q].lost = (procs[q].lost \/ Live(q))
        BY <3>1, <3>2, <3>4 DEF Processes
      <4> QED BY <4>1 DEF Live
    <3> QED BY <3>3, <3>4
  <2>2. Closed.note = NoPid
    BY DEF Closed
  <2> QED BY <2>1, <2>2, <1>12 DEF LauncherDies, BackendIsHeld, ExitIsAwaited
<1>13. ASSUME RemoveLogFile PROVE BackendIsHeld' /\ ExitIsAwaited'
  <2>1. CASE CanRemove
    <3>1. \A q \in Pids : ~(Live(q) /\ ~procs[q].lost)
      BY <1>a, <1>b, <2>1 DEF BackendIsHeld, CanRemove
    <3>2. \A q \in Pids : ~(Live(q) /\ ~procs[q].lost)'
      BY <3>1, <1>13 DEF RemoveLogFile, Live, tasks
    <3>3. win'.note = NoPid
      BY <1>a, <1>13 DEF RemoveLogFile, Wins
    <3> QED BY <3>2, <3>3 DEF BackendIsHeld, ExitIsAwaited
  <2>2. CASE ~CanRemove
    BY <1>a, <2>2, <1>13, HeldUntouched DEF RemoveLogFile, tasks, Wins
  <2> QED BY <2>1, <2>2
<1>14. ASSUME RemoveDatabase PROVE BackendIsHeld' /\ ExitIsAwaited'
  BY <1>a, <1>14, HeldUntouched DEF RemoveDatabase, Keep, tasks, Wins
<1>15. ASSUME ConfirmRemoveDatabase PROVE BackendIsHeld' /\ ExitIsAwaited'
  <2>1. CASE CanRemove
    <3>1. \A q \in Pids : ~(Live(q) /\ ~procs[q].lost)
      BY <1>a, <1>b, <2>1 DEF BackendIsHeld, CanRemove
    <3>2. \A q \in Pids : ~(Live(q) /\ ~procs[q].lost)'
      BY <3>1, <1>15 DEF ConfirmRemoveDatabase, Live, tasks
    <3>3. win'.note = NoPid
      BY <1>a, <1>15 DEF ConfirmRemoveDatabase, Wins
    <3> QED BY <3>2, <3>3 DEF BackendIsHeld, ExitIsAwaited
  <2>2. CASE ~CanRemove
    BY <1>a, <2>2, <1>15, HeldUntouched DEF ConfirmRemoveDatabase, tasks, Wins
  <2> QED BY <2>1, <2>2
<1>16. ASSUME CancelRemoveDatabase PROVE BackendIsHeld' /\ ExitIsAwaited'
  BY <1>a, <1>16, HeldUntouched DEF CancelRemoveDatabase, Keep, tasks, Wins
<1>17. ASSUME NEW k \in Kinds, StartDownload(k) PROVE BackendIsHeld' /\ ExitIsAwaited'
  BY <1>a, <1>17, HeldUntouched DEF StartDownload, Keep, tasks, Wins
<1>18. ASSUME OpenActionFinished PROVE BackendIsHeld' /\ ExitIsAwaited'
  BY <1>a, <1>18, HeldUntouched DEF OpenActionFinished, Keep, tasks, Wins
<1>19. ASSUME NEW p \in Pids, StopSeesExit(p) PROVE BackendIsHeld' /\ ExitIsAwaited'
  BY <1>a, <1>19, HeldUntouched DEF StopSeesExit, Keep, tasks, Wins
<1>20. ASSUME NEW p \in Pids, Kill(p) PROVE BackendIsHeld' /\ ExitIsAwaited'
  BY <1>a, <1>20 DEF Kill, BackendIsHeld, ExitIsAwaited, Live, Own, LauncherTypes, Processes
<1>21. ASSUME NEW p \in Pids, WaitEnds(p) PROVE BackendIsHeld' /\ ExitIsAwaited'
  BY <1>a, <1>21 DEF WaitEnds, BackendIsHeld, ExitIsAwaited, Live, Own, LauncherTypes
<1>22. ASSUME NEW p \in Pids, BackendExited(p) PROVE BackendIsHeld' /\ ExitIsAwaited'
  <2>1. ~(Live(p) /\ ~procs[p].lost)
    BY <1>a, <1>22 DEF BackendExited, ExitIsAwaited
  <2>2. CASE win.child = p
    <3>1. \A q \in Pids : ~(Live(q) /\ ~procs[q].lost)
      BY <1>a, <2>1, <2>2 DEF BackendIsHeld
    <3>2. \A q \in Pids : ~(Live(q) /\ ~procs[q].lost)'
      BY <3>1, <1>22 DEF BackendExited, Live
    <3>3. win'.note = NoPid
      <4>1. Closed.note = NoPid
        BY DEF Closed
      <4>2. [win EXCEPT !.child = NoPid, !.stopping = FALSE, !.note = NoPid].note = NoPid
        BY <1>a DEF Wins
      <4> QED BY <2>2, <4>1, <4>2, <1>22 DEF BackendExited
    <3> QED BY <3>2, <3>3 DEF BackendIsHeld, ExitIsAwaited
  <2>3. CASE win.child # p
    BY <1>a, <2>1, <2>3, <1>22 DEF BackendExited, BackendIsHeld, ExitIsAwaited, Live, Own,
       LauncherTypes
  <2> QED BY <2>2, <2>3
<1>23. ASSUME NEW p \in Pids, NoteStop(p) PROVE BackendIsHeld' /\ ExitIsAwaited'
  BY <1>a, <1>23 DEF NoteStop, BackendIsHeld, ExitIsAwaited, Live, Own, Wins
<1>24. ASSUME Download PROVE BackendIsHeld' /\ ExitIsAwaited'
  BY <1>a, <1>24, HeldUntouched DEF Download, Step, tasks
<1>25. ASSUME RemoveOld PROVE BackendIsHeld' /\ ExitIsAwaited'
  <2>1. fetch.kind \in Kinds
    BY <1>25 DEF RemoveOld, LauncherInv, FetchOK
  <2>2. \A f \in DOMAIN disk : f[1] \notin Kinds => disk'[f] = disk[f]
    BY <1>a, <2>1, <1>25 DEF RemoveOld, Target, LauncherTypes, Slots
  <2>3. \A q \in Pids : \A f \in Own(q) : f[1] \notin Kinds
    BY DEF Own, Kinds
  <2>4. DOMAIN disk' = DOMAIN disk /\ UNCHANGED <<win, procs, waits>>
    BY <1>a, <1>25 DEF RemoveOld, Step, tasks, LauncherTypes
  <2> QED BY <1>a, <2>2, <2>3, <2>4 DEF BackendIsHeld, ExitIsAwaited, Live, Own
<1>26. ASSUME Rename PROVE BackendIsHeld' /\ ExitIsAwaited'
  <2>1. fetch.kind \in Kinds
    BY <1>26 DEF Rename, LauncherInv, FetchOK
  <2>2. \A f \in DOMAIN disk : f[1] \notin Kinds => disk'[f] = disk[f]
    BY <1>a, <2>1, <1>26 DEF Rename, Target, LauncherTypes, Slots
  <2>3. \A q \in Pids : \A f \in Own(q) : f[1] \notin Kinds
    BY DEF Own, Kinds
  <2>4. DOMAIN disk' = DOMAIN disk /\ UNCHANGED <<win, procs, waits>>
    BY <1>a, <1>26 DEF Rename, Step, tasks, LauncherTypes
  <2> QED BY <1>a, <2>2, <2>3, <2>4 DEF BackendIsHeld, ExitIsAwaited, Live, Own
<1>27. ASSUME DownloadFinished PROVE BackendIsHeld' /\ ExitIsAwaited'
  BY <1>a, <1>27, HeldUntouched DEF DownloadFinished, Keep, tasks, Wins
<1>28. CASE UNCHANGED launcherVars
  BY <1>a, <1>28, HeldUntouched DEF launcherVars
<1> QED
  BY <1>1, <1>2, <1>3, <1>4, <1>5, <1>6, <1>7, <1>8, <1>9, <1>10, <1>11, <1>12, <1>13, <1>14,
     <1>15, <1>16, <1>17, <1>18, <1>19, <1>20, <1>21, <1>22, <1>23, <1>24, <1>25, <1>26, <1>27,
     <1>28 DEF LauncherNext, TaskSteps

LEMMA FilesKept ==
  ASSUME LauncherInv, [LauncherNext]_launcherVars
  PROVE  FetchOK' /\ DownloadsAreAllOrNothing'
<1>a. LauncherTypes /\ FetchOK /\ DownloadsAreAllOrNothing
  BY DEF LauncherInv
<1>b. lEnv'.isWindows = lEnv.isWindows
  BY <1>a, LauncherEnvStep DEF EnvStep
(* A step that leaves the download as it is and the data files too.         *)
<1>c. ASSUME UNCHANGED fetch, \A f \in Kinds \X Dirs : disk'[f] = disk[f]
      PROVE  FetchOK' /\ DownloadsAreAllOrNothing'
  <2>1. fetch.step # "none" /\ fetch.dir \in Dirs => disk'[Target] = disk[Target]
    BY <1>a, <1>c DEF FetchOK, Target
  <2> QED BY <1>a, <1>b, <1>c, <2>1 DEF FetchOK, DownloadsAreAllOrNothing, Target
<1>d. ASSUME fetch' = NoDownload
      PROVE  FetchOK' /\ DownloadsAreAllOrNothing'
  BY <1>d DEF FetchOK, DownloadsAreAllOrNothing, NoDownload
<1>1. ASSUME Launch PROVE FetchOK' /\ DownloadsAreAllOrNothing'
  BY <1>c, <1>1 DEF Launch, Keep, tasks
<1>2. ASSUME NEW s \in {"Settings", "Updates"}, OpenScreen(s) PROVE FetchOK' /\ DownloadsAreAllOrNothing'
  BY <1>c, <1>2 DEF OpenScreen, Keep, tasks
<1>3. ASSUME Back PROVE FetchOK' /\ DownloadsAreAllOrNothing'
  BY <1>c, <1>3 DEF Back, Keep, tasks
<1>4. ASSUME SetDefaults PROVE FetchOK' /\ DownloadsAreAllOrNothing'
  BY <1>c, <1>4 DEF SetDefaults, Keep, tasks
<1>5. ASSUME NEW f \in Fields, NEW t \in Texts, Edit(f, t) PROVE FetchOK' /\ DownloadsAreAllOrNothing'
  BY <1>c, <1>5 DEF Edit, Keep, tasks
<1>6. ASSUME StartRefused PROVE FetchOK' /\ DownloadsAreAllOrNothing'
  BY <1>c, <1>6 DEF StartRefused, Keep, tasks
<1>7. ASSUME StopBackend PROVE FetchOK' /\ DownloadsAreAllOrNothing'
  BY <1>c, <1>7 DEF StopBackend, Keep, tasks
<1>8. ASSUME NEW p \in Pids, StartBackend(p) PROVE FetchOK' /\ DownloadsAreAllOrNothing'
  <2>1. \A f \in Kinds \X Dirs : f \in Slots \X Dirs /\ f \notin Own(p)'
    BY DEF Own, Kinds, Slots
  <2> QED BY <1>a, <1>c, <2>1, <1>8 DEF StartBackend, LauncherTypes
<1>9. ASSUME NEW p \in Pids, Exit(p) PROVE FetchOK' /\ DownloadsAreAllOrNothing'
  BY <1>c, <1>9 DEF Exit, Keep, tasks
<1>10. ASSUME NEW p \in Pids, WaitFails(p) PROVE FetchOK' /\ DownloadsAreAllOrNothing'
  BY <1>c, <1>10 DEF WaitFails, Keep, tasks
<1>11. ASSUME CloseLauncher PROVE FetchOK' /\ DownloadsAreAllOrNothing'
  BY <1>c, <1>d, <1>11 DEF CloseLauncher, EndTasks
<1>12. ASSUME LauncherDies PROVE FetchOK' /\ DownloadsAreAllOrNothing'
  BY <1>d, <1>12 DEF LauncherDies, EndTasks
<1>13. ASSUME RemoveLogFile PROVE FetchOK' /\ DownloadsAreAllOrNothing'
  <2>1. \A f \in Kinds \X Dirs : f \in Slots \X Dirs /\ f[1] # "log"
    BY DEF Kinds, Slots
  <2>2. \A f \in Kinds \X Dirs : disk'[f] = disk[f]
    BY <1>a, <2>1, <1>13 DEF RemoveLogFile, RemoveFile, LauncherTypes
  <2> QED BY <1>c, <2>2, <1>13 DEF RemoveLogFile
<1>14. ASSUME RemoveDatabase PROVE FetchOK' /\ DownloadsAreAllOrNothing'
  BY <1>c, <1>14 DEF RemoveDatabase, Keep, tasks
<1>15. ASSUME ConfirmRemoveDatabase PROVE FetchOK' /\ DownloadsAreAllOrNothing'
  <2>1. \A f \in Kinds \X Dirs : f \in Slots \X Dirs /\ f[1] # "database"
    BY DEF Kinds, Slots
  <2>2. \A f \in Kinds \X Dirs : disk'[f] = disk[f]
    BY <1>a, <2>1, <1>15 DEF ConfirmRemoveDatabase, RemoveFile, LauncherTypes
  <2> QED BY <1>c, <2>2, <1>15 DEF ConfirmRemoveDatabase
<1>16. ASSUME CancelRemoveDatabase PROVE FetchOK' /\ DownloadsAreAllOrNothing'
  BY <1>c, <1>16 DEF CancelRemoveDatabase, Keep, tasks
<1>17. ASSUME NEW k \in Kinds, StartDownload(k) PROVE FetchOK' /\ DownloadsAreAllOrNothing'
  <2>1. CASE win.settings["data_dir"] = Blank
    BY <1>c, <2>1, <1>17 DEF StartDownload
  <2>2. CASE win.settings["data_dir"] # Blank
    BY <1>a, <2>2, <1>17 DEF StartDownload, FetchOK, DownloadsAreAllOrNothing, Target
  <2> QED BY <2>1, <2>2
<1>18. ASSUME OpenActionFinished PROVE FetchOK' /\ DownloadsAreAllOrNothing'
  BY <1>c, <1>18 DEF OpenActionFinished, Keep, tasks
<1>19. ASSUME NEW p \in Pids, StopSeesExit(p) PROVE FetchOK' /\ DownloadsAreAllOrNothing'
  BY <1>c, <1>19 DEF StopSeesExit, Keep, tasks
<1>20. ASSUME NEW p \in Pids, Kill(p) PROVE FetchOK' /\ DownloadsAreAllOrNothing'
  BY <1>c, <1>20 DEF Kill, Keep, tasks
<1>21. ASSUME NEW p \in Pids, WaitEnds(p) PROVE FetchOK' /\ DownloadsAreAllOrNothing'
  BY <1>c, <1>21 DEF WaitEnds, Keep, tasks
<1>22. ASSUME NEW p \in Pids, BackendExited(p) PROVE FetchOK' /\ DownloadsAreAllOrNothing'
  BY <1>c, <1>d, <1>22 DEF BackendExited, EndTasks
<1>23. ASSUME NEW p \in Pids, NoteStop(p) PROVE FetchOK' /\ DownloadsAreAllOrNothing'
  BY <1>c, <1>23 DEF NoteStop, Keep, tasks
<1>24. ASSUME Download PROVE FetchOK' /\ DownloadsAreAllOrNothing'
  BY <1>a, <1>b, <1>24 DEF Download, Step, FetchOK, DownloadsAreAllOrNothing, Target,
     LauncherTypes, Fetches, Slots
<1>25. ASSUME RemoveOld PROVE FetchOK' /\ DownloadsAreAllOrNothing'
  BY <1>a, <1>b, <1>25 DEF RemoveOld, Step, FetchOK, DownloadsAreAllOrNothing, Target,
     LauncherTypes, Fetches, Slots
<1>26. ASSUME Rename PROVE FetchOK' /\ DownloadsAreAllOrNothing'
  BY <1>a, <1>b, <1>26 DEF Rename, Step, FetchOK, DownloadsAreAllOrNothing, Target,
     LauncherTypes, Fetches, Slots
<1>27. ASSUME DownloadFinished PROVE FetchOK' /\ DownloadsAreAllOrNothing'
  BY <1>d, <1>27 DEF DownloadFinished
<1>28. CASE UNCHANGED launcherVars
  BY <1>c, <1>28 DEF launcherVars
<1> QED
  BY <1>1, <1>2, <1>3, <1>4, <1>5, <1>6, <1>7, <1>8, <1>9, <1>10, <1>11, <1>12, <1>13, <1>14,
     <1>15, <1>16, <1>17, <1>18, <1>19, <1>20, <1>21, <1>22, <1>23, <1>24, <1>25, <1>26, <1>27,
     <1>28 DEF LauncherNext, TaskSteps

LEMMA LauncherInvHolds == LauncherSpec => []LauncherInv
<1>1. LauncherInv /\ [LauncherNext]_launcherVars => LauncherInv'
  BY LauncherTypesKept, HeldKept, FilesKept DEF LauncherInv
<1> QED BY <1>1, LauncherStarts, PTL DEF LauncherSpec

(* A backend that lives is the child the launcher holds and can stop, there *)
(* is no second one beside it, and its database and its log are there       *)
(* (start_backend, handle_backend_exit, can_remove_files).                  *)
THEOREM BackendsAreHeld == LauncherSpec => []BackendIsHeld
<1>1. LauncherInv => BackendIsHeld
  BY DEF LauncherInv
<1> QED BY <1>1, LauncherInvHolds, PTL

(* A data file that is downloaded is the whole new one or the old one as it *)
(* was, but on Windows (download_data_file_inner).                          *)
THEOREM DownloadsAreWhole == LauncherSpec => []DownloadsAreAllOrNothing
<1>1. LauncherInv => DownloadsAreAllOrNothing
  BY DEF LauncherInv
<1> QED BY <1>1, LauncherInvHolds, PTL

-----------------------------------------------------------------------------
(* The settings of a radio.                                                 *)
LEMMA RadioFieldsAre ==
  RadioFields = {"kind", "transport", "keyer", "data", "rtty", "program", "wsjtx", "fldigi",
                 "fldigiRtty", "serialPort", "serialBaud", "winkeyerPort", "cwPort", "cwBaud",
                 "bad"}
BY DEF RadioFields, DefaultRadio

LEMMA DefaultFits == IsRadio(DefaultRadio) /\ Fits(DefaultRadio)
<1>1. IsRadio(DefaultRadio)
  BY RadioFieldsAre DEF IsRadio, DefaultRadio
<1>2. Fits(DefaultRadio)
  BY DriversAssumption DEF Fits, DefaultRadio, Programs
<1> QED BY <1>1, <1>2

(* The mode a driver falls back to is one it transmits, and none is "".     *)
LEMMA DefaultModes ==
  ASSUME NEW kind \in Drivers
  PROVE  /\ DefaultData(kind) \in ModesOf(kind) \ {""}
         /\ DefaultRtty(kind) \in ModesOf(kind) \ {""}
BY DriversAssumption DEF DefaultData, DefaultRtty, ModesOf

LEMMA ProgramOnly ==
  ASSUME NEW s, IsRadio(s), NEW program
  PROVE  /\ IsRadio(WithProgram(s, program))
         /\ WithProgram(s, program).program = program
         /\ WithProgram(s, program).wsjtx = (program = "wsjtx")
         /\ WithProgram(s, program).fldigi = (program = "fldigi")
         /\ \A f \in RadioFields \ {"program", "wsjtx", "fldigi"} : WithProgram(s, program)[f] = s[f]
BY RadioFieldsAre DEF IsRadio, WithProgram

(* normalize changes the modes and the switches of the programs.            *)
LEMMA NormalizeOnly ==
  ASSUME NEW s, IsRadio(s)
  PROVE  /\ IsRadio(Normalize(s))
         /\ Normalize(s).data = DataMode(s) /\ Normalize(s).rtty = RttyMode(s)
         /\ Normalize(s).program = s.program
         /\ Normalize(s).wsjtx = (s.program = "wsjtx")
         /\ Normalize(s).fldigi = (s.program = "fldigi")
         /\ \A f \in RadioFields \ {"data", "rtty", "wsjtx", "fldigi"} : Normalize(s)[f] = s[f]
<1> DEFINE t == [s EXCEPT !.data = DataMode(s), !.rtty = RttyMode(s)]
<1>1. /\ IsRadio(t) /\ t.data = DataMode(s) /\ t.rtty = RttyMode(s)
      /\ \A f \in RadioFields \ {"data", "rtty"} : t[f] = s[f]
  BY RadioFieldsAre DEF IsRadio
<1>2. Normalize(s) = WithProgram(t, s.program)
  BY DEF Normalize
<1> HIDE DEF t
<1>3. WithProgram(t, s.program).data = t.data /\ WithProgram(t, s.program).rtty = t.rtty
  BY <1>1, ProgramOnly, RadioFieldsAre
<1> QED BY <1>1, <1>2, <1>3, ProgramOnly, RadioFieldsAre

LEMMA NormalizedModes ==
  ASSUME NEW s, IsRadio(s), Mappable(s)
  PROVE  Mappable(Normalize(s))
<1> DEFINE n == Normalize(s)
<1>1. n.kind = s.kind /\ n.data = DataMode(s) /\ n.rtty = RttyMode(s)
  BY NormalizeOnly, RadioFieldsAre
<1>2. s.kind \in Drivers /\ DataMode(s) # "" /\ RttyMode(s) # ""
  BY DefaultModes DEF Mappable, DataMode, RttyMode, Resolved
<1> HIDE DEF n
<1>3. DataMode(n) = DataMode(s) /\ RttyMode(n) = RttyMode(s)
  BY <1>1, <1>2 DEF DataMode, RttyMode, Resolved
<1>4. Mappable(n)
  BY <1>1, <1>3 DEF Mappable
<1> QED BY <1>4 DEF n

LEMMA NormalizedIsValid ==
  ASSUME NEW s, IsRadio(s), Valid(s)
  PROVE  Valid(Normalize(s))
<1> DEFINE n == Normalize(s)
<1>1. /\ n.program = s.program /\ n.wsjtx = s.wsjtx /\ n.fldigi = s.fldigi
      /\ \A f \in RadioFields \ {"data", "rtty", "wsjtx", "fldigi"} : n[f] = s[f]
  BY NormalizeOnly DEF Valid, Consistent
<1>2. Mappable(n)
  BY NormalizedModes DEF Valid, Consistent
<1> HIDE DEF n
<1>3. /\ n.kind = s.kind /\ n.transport = s.transport /\ n.keyer = s.keyer
      /\ n.fldigiRtty = s.fldigiRtty /\ n.serialPort = s.serialPort /\ n.bad = s.bad
      /\ n.serialBaud = s.serialBaud /\ n.winkeyerPort = s.winkeyerPort
      /\ n.cwPort = s.cwPort /\ n.cwBaud = s.cwBaud
  BY <1>1, RadioFieldsAre
<1>4. Consistent(n)
  BY <1>1, <1>2, <1>3 DEF Valid, Consistent
<1>5. Complete(n)
  BY <1>1, <1>3 DEF Valid, Complete
<1>6. Valid(n)
  BY <1>3, <1>4, <1>5 DEF Valid
<1> QED BY <1>6 DEF n

LEMMA ValidFits ==
  ASSUME NEW s, Valid(s)
  PROVE  Fits(s)
BY DEF Valid, Consistent, Fits

(* set_driver leaves a radio that fits its driver.                          *)
LEMMA SetDriverFits ==
  ASSUME NEW s, IsRadio(s), s.program \in Programs, NEW kind \in Drivers
  PROVE  IsRadio(SetDriver(s, kind)) /\ Fits(SetDriver(s, kind))
<1> DEFINE m == FitModes(s, kind)
           t == FitTransport(m, kind)
           d == SetDriver(s, kind)
<1>1. /\ IsRadio(m) /\ m.program = s.program
      /\ m.data \in ModesOf(kind) /\ m.rtty \in ModesOf(kind)
  BY RadioFieldsAre, DefaultModes DEF IsRadio, FitModes
<1> HIDE DEF m
<1>2. IsRadio(t) /\ t.program = m.program /\ t.data = m.data /\ t.rtty = m.rtty
  BY <1>1, RadioFieldsAre DEF IsRadio, FitTransport
<1>3. d = [t EXCEPT !.kind = kind,
                    !.keyer = IF @ = "cat" /\ kind \notin CatKeyed THEN "none" ELSE @]
  BY DEF SetDriver, m
<1> HIDE DEF t, d
<1>4. /\ IsRadio(d) /\ d.kind = kind /\ d.program = t.program /\ d.data = t.data
      /\ d.rtty = t.rtty /\ (d.keyer = "cat" => kind \in CatKeyed)
  BY <1>2, <1>3, RadioFieldsAre DEF IsRadio
<1>5. Mappable(d)
  BY <1>1, <1>2, <1>4, DefaultModes DEF Mappable, DataMode, RttyMode, Resolved
<1>6. Fits(d)
  BY <1>1, <1>2, <1>4, <1>5 DEF Fits
<1> QED BY <1>4, <1>6 DEF d

LEMMA EditedFits ==
  ASSUME NEW r, IsRadio(r), Fits(r), r = app.draft.radio,
         NEW field, NEW value, <<field, value>> \in FieldChoices,
         field # "backend", Offered(field, value)
  PROVE  IsRadio(Edited(r, field, value)) /\ Fits(Edited(r, field, value))
<1> DEFINE e == Edited(r, field, value)
<1>1. CASE field = "kind"
  BY <1>1, SetDriverFits DEF Edited, FieldChoices, Fits, ChoiceFields
<1>2. CASE field = "program"
  <2>1. value \in Programs
    BY <1>2 DEF FieldChoices, ChoiceFields
  <2>2. e = WithProgram(r, value)
    BY <1>2 DEF Edited
  <2> HIDE DEF e
  <2>3. /\ IsRadio(e) /\ e.program = value /\ e.kind = r.kind /\ e.data = r.data
        /\ e.rtty = r.rtty /\ e.keyer = r.keyer
    BY <2>2, ProgramOnly, RadioFieldsAre
  <2>4. Fits(e)
    BY <2>1, <2>3 DEF Fits, Mappable, DataMode, RttyMode
  <2> QED BY <2>3, <2>4 DEF e
<1>3. CASE field \in {"good", "bad"}
  <2>1. \E b : e = [r EXCEPT !.bad = b]
    BY <1>3 DEF Edited
  <2> HIDE DEF e
  <2>2. /\ IsRadio(e) /\ e.program = r.program /\ e.kind = r.kind /\ e.data = r.data
        /\ e.rtty = r.rtty /\ e.keyer = r.keyer
    BY <2>1, RadioFieldsAre DEF IsRadio
  <2>3. Fits(e)
    BY <2>2 DEF Fits, Mappable, DataMode, RttyMode
  <2> QED BY <2>2, <2>3 DEF e
<1>4. CASE field \notin {"kind", "program", "good", "bad"}
  <2>1. field \in RadioFields \ {"kind", "program"}
    BY <1>4 DEF FieldChoices, ChoiceFields
  <2>2. e = [r EXCEPT ![field] = value]
    BY <1>4 DEF Edited
  <2> HIDE DEF e
  <2>3. /\ IsRadio(e) /\ e.program = r.program /\ e.kind = r.kind
        /\ e.data = (IF field = "data" THEN value ELSE r.data)
        /\ e.rtty = (IF field = "rtty" THEN value ELSE r.rtty)
        /\ e.keyer = (IF field = "keyer" THEN value ELSE r.keyer)
    BY <2>1, <2>2, RadioFieldsAre DEF IsRadio
  <2>4. /\ field \in {"data", "rtty"} => value \in ModesOf(r.kind)
        /\ field = "keyer" /\ value = "cat" => r.kind \in CatKeyed
    BY DEF Offered
  <2>5. r.kind \in Drivers => Mappable(e)
    BY <2>3, <2>4, DefaultModes DEF Fits, Mappable, DataMode, RttyMode, Resolved
  <2>6. Fits(e)
    BY <2>3, <2>4, <2>5 DEF Fits
  <2> QED BY <2>3, <2>6 DEF e
<1> QED BY <1>1, <1>2, <1>3, <1>4

-----------------------------------------------------------------------------
(* The window, the file and the hosts.                                      *)

IsApp(a) ==
  /\ a = [field \in DOMAIN Ended |-> a[field]]
  /\ a.up \in BOOLEAN /\ a.screen \in BOOLEAN /\ a.closing \in BOOLEAN
  /\ IsSettings(a.settings) /\ IsSettings(a.draft)

HostStages ==
  {"none", "asked", "loaded", "served", "failed", "held", "stopping", "stopped", "gone"}

IsHost(h) ==
  /\ h = [stage |-> h.stage, radio |-> h.radio, parts |-> h.parts, cut |-> h.cut]
  /\ h.stage \in HostStages /\ h.cut \in {"no", "close", "crash"}

AppTypes ==
  /\ IsApp(app)
  /\ hosts = [h \in Hosts |-> hosts[h]] /\ \A h \in Hosts : IsHost(hosts[h])
  /\ IsClientWorld(rEnv)

(* What is stored, used or drafted fits its driver.                         *)
AllFits ==
  /\ IsSaved(file) /\ Fits(app.settings.radio)
  /\ app.screen => Fits(app.draft.radio)

(* The window holds a host only when it shows it, and configures only when  *)
(* there is none.                                                           *)
HeldOK == app.host # NoHost => app.lifecycle = "RunningLocal" /\ app.host \in Alive
ScreenOK == app.screen => MayConfigure

(* A host that was not started was not ended.                               *)
FreshOK == \A h \in Hosts : hosts[h].stage = "none" => hosts[h].cut = "no"

HostInv == OneHost /\ HeldOK /\ ScreenOK /\ FreshOK

ClientInv == AppTypes /\ AllFits /\ HostInv /\ SettingsStay

AppFields ==
  {"up", "lifecycle", "settings", "screen", "draft", "testing", "host", "status", "closing"}

LEMMA AppFieldsAre == DOMAIN Ended = AppFields
BY DEF Ended, AppFields

LEMMA DefaultSettingsFit ==
  IsSettings(DefaultSettings) /\ Fits(DefaultSettings.radio)
BY DefaultFits DEF DefaultSettings, ClientSettings, IsSettings

LEMMA EndedIsTyped == IsApp(Ended)
<1>1. Ended = [field \in DOMAIN Ended |-> Ended[field]]
  BY DEF Ended
<1>2. /\ Ended.up = FALSE /\ Ended.screen = FALSE /\ Ended.closing = FALSE
      /\ Ended.settings = DefaultSettings /\ Ended.draft = DefaultSettings
  BY DEF Ended
<1> QED BY <1>1, <1>2, DefaultSettingsFit DEF IsApp

LEMMA EndedFields ==
  /\ Ended.up = FALSE /\ Ended.screen = FALSE /\ Ended.lifecycle = "Stopped"
  /\ Ended.settings = DefaultSettings /\ Ended.host = NoHost /\ Ended.status = NoHost
BY DEF Ended

LEMMA ClientStarts == ClientInit => ClientInv
<1> SUFFICES ASSUME ClientInit PROVE ClientInv
  OBVIOUS
<1>1. AppTypes
  <2>1. IsHost(Unstarted)
    BY DEF IsHost, Unstarted, HostStages
  <2> QED BY <2>1, EndedIsTyped, ClientAssumption DEF ClientInit, AppTypes
<1>2. AllFits
  BY EndedFields, DefaultSettingsFit, ClientAssumption DEF ClientInit, AllFits
<1>3. Alive = {} /\ \A h \in Hosts : hosts[h].cut # "close"
  BY DEF ClientInit, Alive, Unstarted
<1>4. HostInv /\ SettingsStay
  BY <1>3, EndedFields DEF ClientInit, HostInv, OneHost, HeldOK, ScreenOK, MayConfigure,
     FreshOK, SettingsStay, Unstarted
<1> QED BY <1>1, <1>2, <1>4 DEF ClientInv

LEMMA FailedStep ==
  ASSUME IsClientWorld(rEnv), NEW n \in Nat, Failed(n)
  PROVE  IsClientWorld(rEnv')
BY DEF Failed, IsClientWorld

LEMMA TakeStep ==
  ASSUME IsClientWorld(rEnv), NEW what \in {"launches", "crashes", "tests", "toggles"}, Take(what)
  PROVE  IsClientWorld(rEnv')
BY DEF Take, IsClientWorld

LEMMA ClientEnvStep ==
  ASSUME AppTypes, [ClientNext]_clientVars
  PROVE  IsClientWorld(rEnv')
<1>a. IsClientWorld(rEnv)
  BY DEF AppTypes
<1>1. ASSUME Open PROVE IsClientWorld(rEnv')
  BY <1>a, <1>1, TakeStep DEF Open
<1>2. ASSUME ConfigurePressed PROVE IsClientWorld(rEnv')
  BY <1>a, <1>2 DEF ConfigurePressed
<1>3. ASSUME ResetDefaults PROVE IsClientWorld(rEnv')
  BY <1>a, <1>3 DEF ResetDefaults
<1>4. ASSUME Cancel PROVE IsClientWorld(rEnv')
  BY <1>a, <1>4 DEF Cancel
<1>5. ASSUME Save PROVE IsClientWorld(rEnv')
  BY <1>a, <1>5, FailedStep DEF Save
<1>6. ASSUME NEW choice \in rEnv.choices, Change(choice[1], choice[2]) PROVE IsClientWorld(rEnv')
  BY <1>a, <1>6 DEF Change
<1>7. ASSUME TestConnection PROVE IsClientWorld(rEnv')
  BY <1>a, <1>7, TakeStep DEF TestConnection
<1>8. ASSUME ConnectionTestFinished PROVE IsClientWorld(rEnv')
  BY <1>a, <1>8 DEF ConnectionTestFinished
<1>9. ASSUME DebugLoggingChanged PROVE IsClientWorld(rEnv')
  BY <1>a, <1>9, TakeStep DEF DebugLoggingChanged
<1>10. ASSUME NEW h \in Hosts, StartPressed(h) PROVE IsClientWorld(rEnv')
  BY <1>a, <1>10 DEF StartPressed
<1>11. ASSUME StopPressed PROVE IsClientWorld(rEnv')
  BY <1>a, <1>11 DEF StopPressed
<1>12. ASSUME BackendTick PROVE IsClientWorld(rEnv')
  BY <1>a, <1>12 DEF BackendTick
<1>13. ASSUME NEW h \in Hosts, LoadSettings(h) PROVE IsClientWorld(rEnv')
  BY <1>a, <1>13 DEF LoadSettings
<1>14. ASSUME NEW h \in Hosts, Serve(h) PROVE IsClientWorld(rEnv')
  BY <1>a, <1>14, FailedStep DEF Serve
<1>15. ASSUME NEW h \in Hosts, StartFinished(h) PROVE IsClientWorld(rEnv')
  BY <1>a, <1>15 DEF StartFinished
<1>16. ASSUME NEW h \in Hosts, StartFailed(h) PROVE IsClientWorld(rEnv')
  BY <1>a, <1>16 DEF StartFailed
<1>17. ASSUME NEW h \in Hosts, StopPart(h) PROVE IsClientWorld(rEnv')
  BY <1>a, <1>17 DEF StopPart
<1>18. ASSUME NEW h \in Hosts, StopFinished(h) PROVE IsClientWorld(rEnv')
  BY <1>a, <1>18 DEF StopFinished
<1>19. ASSUME CloseRequested PROVE IsClientWorld(rEnv')
  BY <1>a, <1>19 DEF CloseRequested
<1>20. ASSUME ClientCrashes PROVE IsClientWorld(rEnv')
  BY <1>a, <1>20, TakeStep DEF ClientCrashes
<1>21. CASE UNCHANGED clientVars
  BY <1>a, <1>21 DEF clientVars
<1> QED
  BY <1>1, <1>2, <1>3, <1>4, <1>5, <1>6, <1>7, <1>8, <1>9, <1>10, <1>11, <1>12, <1>13, <1>14,
     <1>15, <1>16, <1>17, <1>18, <1>19, <1>20, <1>21 DEF ClientNext, HostSteps

LEMMA HostChanges ==
  ASSUME NEW x, IsHost(x)
  PROVE  /\ \A stage \in HostStages : IsHost([x EXCEPT !.stage = stage])
         /\ \A radio : IsHost([x EXCEPT !.radio = radio])
         /\ \A parts : IsHost([x EXCEPT !.parts = parts])
BY DEF IsHost

LEMMA StageAndParts ==
  ASSUME AppTypes, NEW h \in Hosts, NEW stage, NEW parts
  PROVE  /\ [hosts EXCEPT ![h].stage = stage, ![h].parts = parts] =
             [hosts EXCEPT ![h] = [[hosts[h] EXCEPT !.stage = stage] EXCEPT !.parts = parts]]
         /\ [hosts EXCEPT ![h].parts = parts, ![h].stage = stage] =
             [hosts EXCEPT ![h] = [[hosts[h] EXCEPT !.parts = parts] EXCEPT !.stage = stage]]
<1> DEFINE s == [hosts EXCEPT ![h].stage = stage]
           p == [hosts EXCEPT ![h].parts = parts]
<1>1. /\ s = [g \in Hosts |-> IF g = h THEN [hosts[h] EXCEPT !.stage = stage] ELSE hosts[g]]
      /\ p = [g \in Hosts |-> IF g = h THEN [hosts[h] EXCEPT !.parts = parts] ELSE hosts[g]]
  BY DEF AppTypes
<1>2. /\ [hosts EXCEPT ![h].stage = stage, ![h].parts = parts] = [s EXCEPT ![h].parts = parts]
      /\ [hosts EXCEPT ![h].parts = parts, ![h].stage = stage] = [p EXCEPT ![h].stage = stage]
  OBVIOUS
<1> HIDE DEF s, p
<1>3. /\ [s EXCEPT ![h].parts = parts] = [s EXCEPT ![h] = [s[h] EXCEPT !.parts = parts]]
      /\ [p EXCEPT ![h].stage = stage] = [p EXCEPT ![h] = [p[h] EXCEPT !.stage = stage]]
  OBVIOUS
<1>4. \A v : [s EXCEPT ![h] = v] = [hosts EXCEPT ![h] = v] /\ [p EXCEPT ![h] = v] = [hosts EXCEPT ![h] = v]
  BY <1>1 DEF AppTypes
<1>5. s[h] = [hosts[h] EXCEPT !.stage = stage] /\ p[h] = [hosts[h] EXCEPT !.parts = parts]
  BY <1>1
<1> QED BY <1>2, <1>3, <1>4, <1>5

LEMMA HostsTyped ==
  ASSUME AppTypes, [ClientNext]_clientVars
  PROVE  hosts' = [h \in Hosts |-> hosts'[h]] /\ \A h \in Hosts : IsHost(hosts'[h])
<1> DEFINE Goal == hosts' = [h \in Hosts |-> hosts'[h]] /\ \A h \in Hosts : IsHost(hosts'[h])
<1>a. UNCHANGED hosts => Goal
  BY DEF AppTypes
<1>b. ASSUME NEW cause \in {"close", "crash"}, EndHosts(cause) PROVE Goal
  <2>1. \A h \in Hosts : IsHost([hosts[h] EXCEPT !.cut = cause])
    BY DEF AppTypes, IsHost
  <2> QED BY <1>b, <2>1 DEF EndHosts, AppTypes
<1>c. ASSUME NEW h \in Hosts, NEW stage \in HostStages, hosts' = [hosts EXCEPT ![h].stage = stage]
      PROVE  Goal
  <2>1. IsHost([hosts[h] EXCEPT !.stage = stage])
    BY DEF AppTypes, IsHost
  <2> QED BY <1>c, <2>1 DEF AppTypes
<1>1. ASSUME Open PROVE Goal
  BY <1>a, <1>1 DEF Open
<1>2. ASSUME ConfigurePressed PROVE Goal
  BY <1>a, <1>2 DEF ConfigurePressed
<1>3. ASSUME ResetDefaults PROVE Goal
  BY <1>a, <1>3 DEF ResetDefaults
<1>4. ASSUME Cancel PROVE Goal
  BY <1>a, <1>4 DEF Cancel
<1>5. ASSUME Save PROVE Goal
  BY <1>a, <1>5 DEF Save
<1>6. ASSUME NEW choice \in rEnv.choices, Change(choice[1], choice[2]) PROVE Goal
  BY <1>a, <1>6 DEF Change
<1>7. ASSUME TestConnection PROVE Goal
  BY <1>a, <1>7 DEF TestConnection
<1>8. ASSUME ConnectionTestFinished PROVE Goal
  BY <1>a, <1>8 DEF ConnectionTestFinished
<1>9. ASSUME DebugLoggingChanged PROVE Goal
  BY <1>a, <1>9 DEF DebugLoggingChanged
<1>10. ASSUME NEW h \in Hosts, StartPressed(h) PROVE Goal
  BY <1>c, <1>10 DEF StartPressed, HostStages
<1>11. ASSUME StopPressed PROVE Goal
  <2>1. CASE app.lifecycle = "Starting"
    BY <1>a, <2>1, <1>11 DEF StopPressed, StopHost
  <2>2. CASE app.lifecycle # "Starting"
    <3>1. hosts' = [hosts EXCEPT ![app.host].stage = "stopping"]
      BY <2>2, <1>11 DEF StopPressed, StopHost
    <3>2. IsHost([hosts[app.host] EXCEPT !.stage = "stopping"]) \/ app.host \notin Hosts
      BY DEF AppTypes, IsHost, HostStages
    <3> QED BY <3>1, <3>2 DEF AppTypes
  <2> QED BY <2>1, <2>2
<1>12. ASSUME BackendTick PROVE Goal
  BY <1>a, <1>12 DEF BackendTick
<1>13. ASSUME NEW h \in Hosts, LoadSettings(h) PROVE Goal
  <2>0. IsHost([hosts[h] EXCEPT !.stage = "loaded"])
    BY HostChanges DEF AppTypes, HostStages
  <2>1. IsHost([[hosts[h] EXCEPT !.stage = "loaded"] EXCEPT !.radio = Normalize(file.settings.radio)])
    BY <2>0, HostChanges
  <2>2. IsHost([hosts[h] EXCEPT !.stage = "failed"])
    BY DEF AppTypes, IsHost, HostStages
  <2> QED BY <2>1, <2>2, <1>13 DEF LoadSettings, AppTypes
<1>14. ASSUME NEW h \in Hosts, Serve(h) PROVE Goal
  <2>1. IsHost([[hosts[h] EXCEPT !.stage = "served"] EXCEPT !.parts = Parts])
    BY HostChanges DEF AppTypes, HostStages
  <2>2. CASE hosts' = [hosts EXCEPT ![h].stage = "served", ![h].parts = Parts]
    BY <2>1, <2>2, StageAndParts DEF AppTypes
  <2> QED BY <1>c, <2>2, <1>14 DEF Serve, HostStages
<1>15. ASSUME NEW h \in Hosts, StartFinished(h) PROVE Goal
  BY <1>c, <1>15 DEF StartFinished, HostStages
<1>16. ASSUME NEW h \in Hosts, StartFailed(h) PROVE Goal
  BY <1>b, <1>c, <1>16 DEF StartFailed, CloseWindow, HostStages
<1>17. ASSUME NEW h \in Hosts, StopPart(h) PROVE Goal
  <2> DEFINE parts == CASE "registration" \in hosts[h].parts -> hosts[h].parts \ {"registration"}
                       [] "server" \in hosts[h].parts /\ "registration" \notin hosts[h].parts
                            -> hosts[h].parts \ {"server"}
                       [] OTHER -> {}
             stage == IF hosts[h].parts = {"radio"} THEN "stopped" ELSE hosts[h].stage
  <2>1. hosts' = [hosts EXCEPT ![h].parts = parts, ![h].stage = stage]
    BY <1>17 DEF StopPart, AppTypes, IsHost
  <2>2. stage \in HostStages
    BY DEF AppTypes, IsHost, HostStages
  <2> HIDE DEF parts, stage
  <2>3. IsHost([[hosts[h] EXCEPT !.parts = parts] EXCEPT !.stage = stage])
    BY <2>2, HostChanges DEF AppTypes
  <2> QED BY <2>1, <2>3, StageAndParts DEF AppTypes
<1>18. ASSUME NEW h \in Hosts, StopFinished(h) PROVE Goal
  BY <1>b, <1>c, <1>18 DEF StopFinished, CloseWindow, HostStages
<1>19. ASSUME CloseRequested PROVE Goal
  <2>1. CASE StopHost(TRUE)
    <3>1. CASE app.lifecycle = "Starting"
      BY <1>a, <2>1, <3>1 DEF StopHost
    <3>2. CASE app.lifecycle # "Starting"
      <4>1. hosts' = [hosts EXCEPT ![app.host].stage = "stopping"]
        BY <2>1, <3>2 DEF StopHost
      <4>2. IsHost([hosts[app.host] EXCEPT !.stage = "stopping"]) \/ app.host \notin Hosts
        BY DEF AppTypes, IsHost, HostStages
      <4> QED BY <4>1, <4>2 DEF AppTypes
    <3> QED BY <3>1, <3>2
  <2> QED BY <1>b, <2>1, <1>19 DEF CloseRequested, CloseWindow
<1>20. ASSUME ClientCrashes PROVE Goal
  BY <1>b, <1>20 DEF ClientCrashes
<1>21. CASE UNCHANGED clientVars
  BY <1>a, <1>21 DEF clientVars
<1> QED
  BY <1>1, <1>2, <1>3, <1>4, <1>5, <1>6, <1>7, <1>8, <1>9, <1>10, <1>11, <1>12, <1>13, <1>14,
     <1>15, <1>16, <1>17, <1>18, <1>19, <1>20, <1>21 DEF ClientNext, HostSteps

LEMMA AppFits ==
  ASSUME AppTypes, AllFits, ScreenOK, [ClientNext]_clientVars
  PROVE  IsApp(app') /\ AllFits'
<1> DEFINE Goal == IsApp(app') /\ AllFits'
<1>a. IsApp(app) /\ AllFits
  BY DEF AppTypes
(* The window changes but its settings and its draft stay.                  *)
<1>b. ASSUME app' = [field \in AppFields |-> app'[field]],
             app'.up \in BOOLEAN, app'.closing \in BOOLEAN, app'.screen \in {app.screen, FALSE},
             UNCHANGED <<file, app.settings, app.draft>>
      PROVE  Goal
  BY <1>a, <1>b, AppFieldsAre DEF IsApp, AllFits
<1>c. ASSUME app' = Ended, UNCHANGED file PROVE Goal
  BY <1>a, <1>c, EndedIsTyped, EndedFields, DefaultSettingsFit DEF AllFits
<1>d. app = [field \in AppFields |-> app[field]] /\ {app.up, app.closing, app.screen} \subseteq BOOLEAN
  BY <1>a, AppFieldsAre DEF IsApp
<1>1. ASSUME Open PROVE Goal
  <2> DEFINE settings == IF file.there THEN file.settings ELSE DefaultSettings
  <2>1. IsSettings(settings) /\ Fits(settings.radio)
    BY <1>a, DefaultSettingsFit DEF AllFits, IsSaved
  <2>2. /\ file' = SettingsStored(settings)
        /\ app' = [Ended EXCEPT !.up = TRUE, !.settings = settings, !.lifecycle = Initial(settings)]
    BY <1>1 DEF Open
  <2> HIDE DEF settings
  <2>3. /\ app' = [field \in AppFields |-> app'[field]]
        /\ app'.up = TRUE /\ app'.screen = FALSE /\ app'.closing = FALSE
        /\ app'.settings = settings /\ app'.draft = DefaultSettings
    BY <2>2 DEF Ended, AppFields
  <2>4. IsApp(app')
    BY <2>1, <2>3, AppFieldsAre, DefaultSettingsFit DEF IsApp
  <2> QED BY <2>1, <2>2, <2>3, <2>4 DEF AllFits, IsSaved, SettingsStored
<1>2. ASSUME ConfigurePressed PROVE Goal
  <2>1. /\ app' = [field \in AppFields |-> app'[field]]
        /\ app'.up = app.up /\ app'.screen = TRUE /\ app'.closing = app.closing
        /\ app'.settings = app.settings /\ app'.draft = app.settings /\ UNCHANGED file
    BY <1>d, <1>2 DEF ConfigurePressed, AppFields
  <2> QED BY <1>a, <2>1, AppFieldsAre DEF IsApp, AllFits
<1>3. ASSUME ResetDefaults PROVE Goal
  <2>1. /\ app' = [field \in AppFields |-> app'[field]]
        /\ app'.up = app.up /\ app'.screen = app.screen /\ app'.closing = app.closing
        /\ app'.settings = app.settings /\ UNCHANGED file
        /\ app'.draft = [app.draft EXCEPT !.radio = DefaultRadio]
    BY <1>d, <1>3 DEF ResetDefaults, AppFields
  <2>2. IsSettings(app'.draft) /\ app'.draft.radio = DefaultRadio
    BY <1>a, <2>1, DefaultFits DEF IsApp, IsSettings
  <2> QED BY <1>a, <2>1, <2>2, AppFieldsAre, DefaultFits DEF IsApp, AllFits
<1>4. ASSUME Cancel PROVE Goal
  <2>1. /\ app' = [field \in AppFields |-> app'[field]]
        /\ app'.up = app.up /\ app'.screen = FALSE /\ app'.closing = app.closing
        /\ app'.settings = app.settings /\ app'.draft = DefaultSettings /\ UNCHANGED file
    BY <1>d, <1>4 DEF Cancel, AppFields
  <2> QED BY <1>a, <2>1, AppFieldsAre, DefaultSettingsFit DEF IsApp, AllFits
<1>5. ASSUME Save PROVE Goal
  <2> DEFINE settings == [app.draft EXCEPT !.radio = Normalize(@)]
  <2>1. CASE UNCHANGED <<file, app>>
    BY <1>b, <1>d, <2>1
  <2>2. CASE /\ file' = SettingsStored(settings)
             /\ app' = [app EXCEPT !.screen = FALSE, !.draft = DefaultSettings, !.testing = FALSE,
                                   !.settings = settings, !.lifecycle = Initial(settings)]
    <3>1. IsSettings(app.draft)
      BY <1>a DEF IsApp
    <3>2. IsSettings(settings) /\ settings.radio = Normalize(app.draft.radio)
      BY <3>1, NormalizeOnly DEF IsSettings
    <3>3. Fits(settings.radio)
      BY <3>2, ValidFits, <1>5 DEF Save
    <3> HIDE DEF settings
    <3>4. /\ app' = [f \in AppFields |-> app'[f]]
          /\ app'.up = app.up /\ app'.screen = FALSE /\ app'.closing = app.closing
          /\ app'.settings = settings /\ app'.draft = DefaultSettings
      BY <1>d, <2>2 DEF AppFields
    <3>5. IsApp(app')
      BY <1>a, <3>2, <3>4, AppFieldsAre, DefaultSettingsFit DEF IsApp
    <3> QED BY <2>2, <3>2, <3>3, <3>4, <3>5 DEF AllFits, IsSaved, SettingsStored
  <2> QED BY <2>1, <2>2, <1>5 DEF Save
<1>6. ASSUME NEW choice \in rEnv.choices, Change(choice[1], choice[2]) PROVE Goal
  <2> DEFINE field == choice[1]
             value == choice[2]
             r == app.draft.radio
  <2>1. /\ app.screen /\ <<field, value>> \in FieldChoices /\ Offered(field, value)
        /\ UNCHANGED file
        /\ app' = IF field = "backend" THEN [app EXCEPT !.draft.backend = value]
                  ELSE [app EXCEPT !.draft.radio = Edited(r, field, value)]
    BY <1>6 DEF Change, Configuring, AppTypes, IsClientWorld
  <2> HIDE DEF field, value
  <2>2. IsRadio(r) /\ Fits(r) /\ IsSettings(app.draft)
    BY <1>a, <2>1 DEF IsApp, IsSettings, AllFits
  <2>3. CASE field = "backend"
    <3>1. /\ app' = [f \in AppFields |-> app'[f]]
          /\ app'.up = app.up /\ app'.screen = app.screen /\ app'.closing = app.closing
          /\ app'.settings = app.settings /\ app'.draft = [app.draft EXCEPT !.backend = value]
      BY <1>d, <2>1, <2>3 DEF AppFields
    <3>2. IsSettings(app'.draft) /\ app'.draft.radio = r
      BY <2>2, <3>1 DEF IsSettings
    <3> QED BY <1>a, <2>1, <2>2, <3>1, <3>2, AppFieldsAre DEF IsApp, AllFits
  <2>4. CASE field # "backend"
    <3> DEFINE e == Edited(r, field, value)
    <3>1. IsRadio(e) /\ Fits(e)
      BY <2>1, <2>2, <2>4, EditedFits
    <3>2. app' = [app EXCEPT !.draft.radio = e]
      BY <2>1, <2>4
    <3> HIDE DEF e, r
    <3>3. /\ app' = [f \in AppFields |-> app'[f]]
          /\ app'.up = app.up /\ app'.screen = app.screen /\ app'.closing = app.closing
          /\ app'.settings = app.settings /\ app'.draft = [app.draft EXCEPT !.radio = e]
      BY <1>d, <3>2 DEF AppFields
    <3>4. IsSettings(app'.draft) /\ app'.draft.radio = e
      BY <2>2, <3>1, <3>3 DEF IsSettings
    <3> QED BY <1>a, <2>1, <3>1, <3>3, <3>4, AppFieldsAre DEF IsApp, AllFits
  <2> QED BY <2>3, <2>4
<1>7. ASSUME TestConnection PROVE Goal
  BY <1>b, <1>c, <1>d, <1>7 DEF TestConnection, AppFields
<1>8. ASSUME ConnectionTestFinished PROVE Goal
  BY <1>b, <1>c, <1>d, <1>8 DEF ConnectionTestFinished, AppFields
<1>9. ASSUME DebugLoggingChanged PROVE Goal
  <2> DEFINE settings == [app.settings EXCEPT !.debug = ~@]
  <2>1. CASE UNCHANGED <<file, app>>
    BY <1>b, <1>d, <2>1
  <2>2. CASE app' = [app EXCEPT !.settings = settings] /\ file' = SettingsStored(settings)
    <3>1. IsSettings(settings) /\ settings.radio = app.settings.radio
      BY <1>a DEF IsApp, IsSettings
    <3> HIDE DEF settings
    <3>2. /\ app' = [f \in AppFields |-> app'[f]]
          /\ app'.up = app.up /\ app'.screen = app.screen /\ app'.closing = app.closing
          /\ app'.settings = settings /\ app'.draft = app.draft
      BY <1>d, <2>2 DEF AppFields
    <3>3. IsApp(app')
      BY <1>a, <3>1, <3>2, AppFieldsAre DEF IsApp
    <3> QED BY <1>a, <2>2, <3>1, <3>2, <3>3 DEF AllFits, IsSaved, SettingsStored
  <2> QED BY <2>1, <2>2, <1>9 DEF DebugLoggingChanged
<1>10. ASSUME NEW h \in Hosts, StartPressed(h) PROVE Goal
  BY <1>b, <1>c, <1>d, <1>10 DEF StartPressed, AppFields
<1>11. ASSUME StopPressed PROVE Goal
  BY <1>b, <1>c, <1>d, <1>11 DEF StopPressed, AppFields, StopHost
<1>12. ASSUME BackendTick PROVE Goal
  BY <1>b, <1>c, <1>d, <1>12 DEF BackendTick, AppFields
<1>13. ASSUME NEW h \in Hosts, LoadSettings(h) PROVE Goal
  BY <1>b, <1>c, <1>d, <1>13 DEF LoadSettings, AppFields
<1>14. ASSUME NEW h \in Hosts, Serve(h) PROVE Goal
  BY <1>b, <1>c, <1>d, <1>14 DEF Serve, AppFields
<1>15. ASSUME NEW h \in Hosts, StartFinished(h) PROVE Goal
  BY <1>b, <1>c, <1>d, <1>15 DEF StartFinished, AppFields
<1>16. ASSUME NEW h \in Hosts, StartFailed(h) PROVE Goal
  BY <1>b, <1>c, <1>d, <1>16 DEF StartFailed, AppFields, CloseWindow
<1>17. ASSUME NEW h \in Hosts, StopPart(h) PROVE Goal
  BY <1>b, <1>c, <1>d, <1>17 DEF StopPart, AppFields
<1>18. ASSUME NEW h \in Hosts, StopFinished(h) PROVE Goal
  BY <1>b, <1>c, <1>d, <1>18 DEF StopFinished, AppFields, CloseWindow
<1>19. ASSUME CloseRequested PROVE Goal
  BY <1>b, <1>c, <1>d, <1>19 DEF CloseRequested, AppFields, StopHost, CloseWindow
<1>20. ASSUME ClientCrashes PROVE Goal
  BY <1>b, <1>c, <1>d, <1>20 DEF ClientCrashes, AppFields
<1>21. CASE UNCHANGED clientVars
  BY <1>b, <1>d, <1>21 DEF clientVars
<1> QED
  BY <1>1, <1>2, <1>3, <1>4, <1>5, <1>6, <1>7, <1>8, <1>9, <1>10, <1>11, <1>12, <1>13, <1>14,
     <1>15, <1>16, <1>17, <1>18, <1>19, <1>20, <1>21 DEF ClientNext, HostSteps

(* What a change of the stage of h, the only host that may live, leaves.    *)
Settled ==
  \A g \in Hosts :
    /\ hosts[g].cut = "close" => hosts[g].stage # "held"
    /\ hosts[g].stage = "none" => hosts[g].cut = "no"

LEMMA StageChanges ==
  ASSUME AppTypes, HostInv, NEW h \in Hosts, hosts[h].cut = "no", Alive \subseteq {h},
         NEW stage \in HostStages, hosts' = [hosts EXCEPT ![h].stage = stage]
  PROVE  /\ Settled' /\ hosts'[h].stage = stage /\ hosts'[h].radio = hosts[h].radio
         /\ stage = "gone" => Alive' = {}
         /\ stage \notin {"none", "gone"} => Alive' = {h}
<1>1. /\ hosts'[h].stage = stage /\ hosts'[h].cut = "no" /\ hosts'[h].radio = hosts[h].radio
      /\ \A g \in Hosts \ {h} : hosts'[g] = hosts[g]
  BY DEF AppTypes, IsHost
<1>2. Settled'
  BY <1>1 DEF Settled, HostInv, OneHost, FreshOK
<1>3. \A g \in Hosts \ {h} : g \notin Alive'
  BY <1>1 DEF Alive
<1> QED BY <1>1, <1>2, <1>3 DEF Alive

LEMMA HostsEnd ==
  ASSUME AppTypes, HostInv, NEW cause \in {"close", "crash"}, EndHosts(cause),
         cause = "close" => \A h \in Alive : hosts[h].stage # "held"
  PROVE  Settled' /\ Alive' = {}
<1> SUFFICES ASSUME NEW g \in Hosts
             PROVE  /\ hosts'[g].cut = "close" => hosts'[g].stage # "held"
                    /\ hosts'[g].stage = "none" => hosts'[g].cut = "no"
                    /\ g \notin Alive'
  BY DEF Settled, Alive
<1>0. IsHost(hosts[g])
  BY DEF AppTypes
<1>1. CASE hosts[g].stage \in {"none", "gone"} \/ hosts[g].cut # "no"
  <2>1. hosts'[g] = hosts[g]
    BY <1>1 DEF EndHosts
  <2> QED BY <1>1, <2>1 DEF HostInv, OneHost, FreshOK, Alive
<1>2. CASE ~(hosts[g].stage \in {"none", "gone"} \/ hosts[g].cut # "no")
  <2>1. hosts'[g].cut = cause /\ hosts'[g].stage = hosts[g].stage
    BY <1>0, <1>2 DEF EndHosts, IsHost
  <2>2. g \in Alive
    BY <1>2 DEF Alive
  <2> QED BY <1>2, <2>1, <2>2 DEF Alive
<1> QED BY <1>1, <1>2

LEMMA HostsKept ==
  ASSUME ClientInv, [ClientNext]_clientVars
  PROVE  HostInv' /\ SettingsStay'
<1> DEFINE Goal == HostInv' /\ SettingsStay'
           NoneLives(lifecycle) == lifecycle \notin {"RunningLocal", "Starting", "Stopping"}
<1>a. AppTypes /\ HostInv /\ SettingsStay /\ IsApp(app) /\ IsApp(app')
  BY AppFits DEF ClientInv, AppTypes, HostInv
<1>b. app = [field \in AppFields |-> app[field]]
  BY <1>a, AppFieldsAre DEF IsApp
<1>c. \A h \in Alive : /\ Alive = {h} /\ app.up /\ hosts[h].stage \in Stages(app.lifecycle)
                       /\ ~app.screen /\ Valid(Normalize(app.settings.radio))
                       /\ app.host = IF hosts[h].stage = "held" THEN h ELSE NoHost
  BY <1>a DEF HostInv, OneHost, SettingsStay
<1>d. NoneLives(app.lifecycle) => Alive = {}
  BY <1>c DEF Stages
<1>e. Settled
  BY <1>a DEF HostInv, OneHost, FreshOK, Settled
<1>n. \A h \in Hosts : h # NoHost
  BY ClientAssumption DEF NoHost
<1>p. NoneLives(app.lifecycle) \/ app.lifecycle = "Starting" => app.host = NoHost
  BY <1>a DEF HostInv, HeldOK
<1>r. ASSUME NEW h \in Hosts, NEW stage, StageRuns(h, stage), stage \notin {"none", "gone"}
      PROVE  h \in Alive /\ hosts[h].cut = "no" /\ hosts[h].stage = stage
  BY <1>r DEF StageRuns, Alive
(* No host lives any more.                                                  *)
<1>f. ASSUME Settled', Alive' = {}, NoneLives(app'.lifecycle), app'.host = NoHost,
             app'.up => file' = SettingsStored(app'.settings)
      PROVE  Goal
  BY <1>f DEF HostInv, OneHost, HeldOK, ScreenOK, MayConfigure, FreshOK, Settled, SettingsStay
(* One host lives.                                                          *)
<1>g. ASSUME NEW h \in Hosts, Settled', Alive' = {h}, app'.up, ~app'.screen,
             hosts'[h].stage \in Stages(app'.lifecycle),
             app'.host = (IF hosts'[h].stage = "held" THEN h ELSE NoHost),
             app'.lifecycle = "RunningLocal" => app'.status \in {NoHost, h},
             file' = SettingsStored(app'.settings), Valid(Normalize(app'.settings.radio)),
             hosts'[h].stage \notin {"asked", "failed"} =>
               hosts'[h].radio = Normalize(app'.settings.radio)
      PROVE  Goal
  <2>1. app'.lifecycle = "RunningLocal" <=> hosts'[h].stage = "held"
    BY <1>g DEF Stages
  <2> QED BY <1>g, <1>n, <2>1 DEF HostInv, OneHost, HeldOK, ScreenOK, MayConfigure, FreshOK,
             Settled, SettingsStay
(* The hosts stay, and the window shows them so.                            *)
<1>h. ASSUME UNCHANGED <<hosts, app.up, app.lifecycle, app.host>>,
             app'.status \in {app.status, app.host},
             app'.screen => NoneLives(app.lifecycle),
             app'.up => file' = SettingsStored(app'.settings),
             app'.settings.radio = app.settings.radio
      PROVE  Goal
  BY <1>a, <1>d, <1>h DEF HostInv, OneHost, HeldOK, ScreenOK, MayConfigure, FreshOK,
     SettingsStay, Alive
(* The program ends.                                                        *)
<1>i. ASSUME app' = Ended, NEW cause \in {"close", "crash"}, EndHosts(cause),
             cause = "close" => \A h \in Alive : hosts[h].stage # "held"
      PROVE  Goal
  BY <1>a, <1>f, <1>i, HostsEnd, EndedFields
(* A host that runs takes another stage.                                    *)
<1>j. ASSUME NEW h \in Alive, NEW stage \in HostStages \ {"none", "gone"},
             hosts' = [hosts EXCEPT ![h].stage = stage],
             UNCHANGED <<app.up, app.screen, app.settings, file>>,
             stage \in Stages(app'.lifecycle),
             app'.host = (IF stage = "held" THEN h ELSE NoHost),
             app'.lifecycle = "RunningLocal" => app'.status \in {NoHost, h},
             stage \notin {"asked", "failed"} => hosts[h].radio = Normalize(app.settings.radio)
      PROVE  Goal
  <2>1. /\ h \in Hosts /\ hosts[h].cut = "no" /\ Alive \subseteq {h}
        /\ app.up /\ ~app.screen /\ Valid(Normalize(app.settings.radio))
    BY <1>c DEF Alive
  <2>2. /\ Settled' /\ hosts'[h].stage = stage /\ hosts'[h].radio = hosts[h].radio
        /\ Alive' = {h}
    BY <1>a, <1>j, <2>1, StageChanges
  <2>3. file' = SettingsStored(app'.settings)
    BY <1>a, <1>j, <2>1 DEF SettingsStay
  <2> QED BY <1>g, <1>j, <2>1, <2>2, <2>3
<1>k. ASSUME NEW h \in Alive, hosts[h].stage \notin {"asked", "failed"}
      PROVE  hosts[h].radio = Normalize(app.settings.radio)
  BY <1>a, <1>k DEF SettingsStay
(* StopPressed, also by a close.                                            *)
<1>s. ASSUME NEW closing, app.lifecycle = "Starting" \/ app.host # NoHost, StopHost(closing),
             UNCHANGED file
      PROVE  Goal
  <2>1. CASE app.lifecycle = "Starting"
    <3>1. /\ app'.lifecycle = "Stopping" /\ UNCHANGED hosts
          /\ UNCHANGED <<app.up, app.screen, app.settings, app.host, app.status>>
      BY <1>b, <1>s, <2>1 DEF StopHost, AppFields
    <3>2. app.host = NoHost /\ ~app.screen
      BY <1>a, <1>p, <2>1 DEF HostInv, ScreenOK, MayConfigure
    <3>3. \A h \in Alive : hosts[h].stage \in {"asked", "loaded", "served", "failed"}
      BY <1>c, <2>1 DEF Stages
    <3>4. \A h \in Alive : hosts[h].stage \in Stages("Stopping")
      BY <3>3 DEF Stages
    <3> QED BY <1>a, <1>s, <3>1, <3>2, <3>4 DEF HostInv, OneHost, HeldOK, ScreenOK,
               MayConfigure, FreshOK,
                                                SettingsStay, Alive
  <2>2. CASE app.lifecycle # "Starting"
    <3>1. /\ app'.lifecycle = "Stopping" /\ app'.host = NoHost
          /\ UNCHANGED <<app.up, app.screen, app.settings>>
          /\ hosts' = [hosts EXCEPT ![app.host].stage = "stopping"]
      BY <1>b, <1>s, <2>2 DEF StopHost, AppFields
    <3>2. app.host \in Alive /\ hosts[app.host].stage = "held"
      BY <1>a, <1>c, <1>n, <1>s, <2>2 DEF HostInv, HeldOK
    <3> DEFINE h == app.host
    <3>3. h \in Alive /\ hosts[h].radio = Normalize(app.settings.radio)
      BY <1>k, <3>2
    <3>4. "stopping" \in Stages("Stopping") /\ "stopping" \in HostStages \ {"none", "gone"}
      BY DEF Stages, HostStages
    <3> QED BY <1>j, <1>s, <3>1, <3>3, <3>4
  <2> QED BY <2>1, <2>2
<1>1. ASSUME Open PROVE Goal
  <2>1. Alive = {} /\ ~app.up
    BY <1>c, <1>1 DEF Open
  <2>2. /\ Settled' /\ Alive' = {}
    BY <1>e, <2>1, <1>1 DEF Open, Settled, Alive
  <2> DEFINE settings == IF file.there THEN file.settings ELSE DefaultSettings
  <2>3. /\ file' = SettingsStored(settings)
        /\ app' = [Ended EXCEPT !.up = TRUE, !.settings = settings, !.lifecycle = Initial(settings)]
    BY <1>1 DEF Open
  <2> HIDE DEF settings
  <2>4. /\ app'.lifecycle = Initial(settings) /\ app'.host = NoHost /\ app'.settings = settings
    BY <2>3 DEF Ended
  <2>5. NoneLives(app'.lifecycle)
    BY <2>4 DEF Initial
  <2> QED BY <1>f, <2>2, <2>3, <2>4, <2>5
<1>2. ASSUME ConfigurePressed PROVE Goal
  <2>1. /\ UNCHANGED <<hosts, file, app.up, app.lifecycle, app.host, app.status, app.settings>>
    BY <1>b, <1>2 DEF ConfigurePressed, AppFields
  <2>2. Alive = {}
    BY <1>c, <1>2 DEF ConfigurePressed, MayConfigure, Stages
  <2>3. app.host = NoHost
    BY <1>a, <2>2 DEF HostInv, HeldOK
  <2> QED BY <1>a, <1>h, <2>1, <1>2 DEF ConfigurePressed, MayConfigure, SettingsStay
<1>3. ASSUME ResetDefaults PROVE Goal
  <2>1. /\ UNCHANGED <<hosts, file, app.up, app.lifecycle, app.host, app.status, app.settings>>
        /\ app'.screen => app.screen
    BY <1>b, <1>3 DEF ResetDefaults, AppFields
  <2> QED BY <1>a, <1>h, <2>1 DEF SettingsStay, HostInv, ScreenOK, MayConfigure
<1>4. ASSUME Cancel PROVE Goal
  <2>1. /\ UNCHANGED <<hosts, file, app.up, app.lifecycle, app.host, app.status, app.settings>>
        /\ app'.screen => app.screen
    BY <1>b, <1>4 DEF Cancel, AppFields
  <2> QED BY <1>a, <1>h, <2>1 DEF SettingsStay, HostInv, ScreenOK, MayConfigure
<1>5. ASSUME Save PROVE Goal
  <2> DEFINE settings == [app.draft EXCEPT !.radio = Normalize(@)]
  <2>1. CASE UNCHANGED <<file, app>>
    BY <1>a, <1>h, <2>1, <1>5 DEF Save, SettingsStay, HostInv, ScreenOK, MayConfigure
  <2>2. CASE /\ file' = SettingsStored(settings)
             /\ app' = [app EXCEPT !.screen = FALSE, !.draft = DefaultSettings, !.testing = FALSE,
                                   !.settings = settings, !.lifecycle = Initial(settings)]
    <3> HIDE DEF settings
    <3>1. NoneLives(app.lifecycle) /\ app.host = NoHost
      BY <1>a, <1>p, <1>5 DEF Save, Configuring, HostInv, ScreenOK, MayConfigure
    <3>2. /\ app'.lifecycle = Initial(settings) /\ app'.host = NoHost /\ app'.settings = settings
      BY <1>b, <2>2, <3>1 DEF AppFields
    <3>3. NoneLives(app'.lifecycle)
      BY <3>2 DEF Initial
    <3>4. Settled' /\ Alive' = {}
      BY <1>d, <1>e, <3>1, <1>5 DEF Save, Settled, Alive
    <3> QED BY <1>f, <2>2, <3>2, <3>3, <3>4
  <2> QED BY <2>1, <2>2, <1>5 DEF Save
<1>6. ASSUME NEW choice \in rEnv.choices, Change(choice[1], choice[2]) PROVE Goal
  <2>1. /\ UNCHANGED <<hosts, file, app.up, app.lifecycle, app.host, app.status, app.settings>>
        /\ app'.screen => app.screen
    BY <1>b, <1>6 DEF Change, AppFields
  <2> QED BY <1>a, <1>h, <2>1 DEF SettingsStay, HostInv, ScreenOK, MayConfigure
<1>7. ASSUME TestConnection PROVE Goal
  <2>1. /\ UNCHANGED <<hosts, file, app.up, app.lifecycle, app.host, app.status, app.settings>>
        /\ app'.screen => app.screen
    BY <1>b, <1>7 DEF TestConnection, AppFields
  <2> QED BY <1>a, <1>h, <2>1 DEF SettingsStay, HostInv, ScreenOK, MayConfigure
<1>8. ASSUME ConnectionTestFinished PROVE Goal
  <2>1. /\ UNCHANGED <<hosts, file, app.up, app.lifecycle, app.host, app.status, app.settings>>
        /\ app'.screen => app.screen
    BY <1>b, <1>8 DEF ConnectionTestFinished, AppFields
  <2> QED BY <1>a, <1>h, <2>1 DEF SettingsStay, HostInv, ScreenOK, MayConfigure
<1>9. ASSUME DebugLoggingChanged PROVE Goal
  <2> DEFINE settings == [app.settings EXCEPT !.debug = ~@]
  <2>1. CASE UNCHANGED <<file, app>>
    BY <1>a, <1>h, <2>1, <1>9 DEF DebugLoggingChanged, SettingsStay, HostInv, ScreenOK,
       MayConfigure
  <2>2. CASE app' = [app EXCEPT !.settings = settings] /\ file' = SettingsStored(settings)
    <3>1. settings.radio = app.settings.radio
      BY <1>a DEF IsApp, IsSettings
    <3> HIDE DEF settings
    <3>2. /\ UNCHANGED <<app.up, app.lifecycle, app.host, app.status, app.screen>>
          /\ app'.settings = settings
      BY <1>b, <2>2 DEF AppFields
    <3> QED BY <1>a, <1>h, <2>2, <3>1, <3>2, <1>9 DEF DebugLoggingChanged, HostInv, ScreenOK,
               MayConfigure
  <2> QED BY <2>1, <2>2, <1>9 DEF DebugLoggingChanged
<1>10. ASSUME NEW h \in Hosts, StartPressed(h) PROVE Goal
  <2>1. /\ app.up /\ ~app.screen /\ NoneLives(app.lifecycle) /\ Valid(app.settings.radio)
    BY <1>10 DEF StartPressed, Main
  <2>2. /\ UNCHANGED <<file, app.up, app.host, app.screen, app.settings>>
        /\ app'.lifecycle = "Starting"
    BY <1>b, <1>10 DEF StartPressed, AppFields
  <2>3. hosts[h].cut = "no" /\ Alive \subseteq {h}
    BY <1>a, <1>d, <2>1, <1>10 DEF StartPressed, HostInv, FreshOK
  <2>4. "asked" \in HostStages /\ "asked" \notin {"none", "gone"}
    BY DEF HostStages
  <2>5. Settled' /\ hosts'[h].stage = "asked" /\ Alive' = {h}
    BY <1>a, <2>3, <2>4, StageChanges, <1>10 DEF StartPressed
  <2>6. "asked" \in Stages("Starting")
    BY DEF Stages
  <2>7. Valid(Normalize(app.settings.radio))
    BY <1>a, <2>1, NormalizedIsValid DEF IsApp, IsSettings
  <2>8. file' = SettingsStored(app'.settings)
    BY <1>a, <2>1, <2>2 DEF SettingsStay
  <2> QED BY <1>g, <1>p, <2>1, <2>2, <2>5, <2>6, <2>7, <2>8
<1>11. ASSUME StopPressed PROVE Goal
  <2>1. app.lifecycle = "Starting" \/ app.host # NoHost
    BY <1>a, <1>11 DEF StopPressed, HostInv, OneHost
  <2> QED BY <1>s, <2>1, <1>11 DEF StopPressed
<1>12. ASSUME BackendTick PROVE Goal
  <2>1. /\ UNCHANGED <<hosts, file, app.up, app.lifecycle, app.host, app.screen, app.settings>>
        /\ app'.status = app.host
    BY <1>b, <1>12 DEF BackendTick, AppFields
  <2> QED BY <1>a, <1>h, <2>1 DEF SettingsStay, HostInv, ScreenOK, MayConfigure
<1>13. ASSUME NEW h \in Hosts, LoadSettings(h) PROVE Goal
  <2>1. h \in Alive /\ hosts[h].cut = "no" /\ hosts[h].stage = "asked"
    BY <1>r, <1>13 DEF LoadSettings
  <2> DEFINE radio == Normalize(app.settings.radio)
  <2>2. app.up /\ file.settings.radio = app.settings.radio /\ file = SettingsStored(app.settings)
    BY <1>a, <1>c, <2>1 DEF SettingsStay, SettingsStored
  <2>3. CASE hosts' = [hosts EXCEPT ![h].stage = "failed"]
    <3>1. "failed" \in Stages(app.lifecycle) /\ "failed" \in HostStages \ {"none", "gone"}
      BY <1>c, <2>1 DEF Stages, HostStages
    <3>2. app.lifecycle # "RunningLocal" /\ app.host = NoHost
      BY <1>c, <2>1 DEF Stages
    <3> QED BY <1>j, <2>1, <2>3, <3>1, <3>2, <1>13 DEF LoadSettings
  <2>4. CASE hosts' = [hosts EXCEPT ![h] = [@ EXCEPT !.stage = "loaded", !.radio = radio]]
    <3> HIDE DEF radio
    <3>1. IsHost(hosts[h])
      BY <1>a DEF AppTypes
    <3>2. /\ hosts'[h].stage = "loaded" /\ hosts'[h].cut = "no" /\ hosts'[h].radio = radio
          /\ \A g \in Hosts \ {h} : hosts'[g] = hosts[g]
      BY <1>a, <2>1, <2>4, <3>1 DEF AppTypes, IsHost
    <3>3. Settled'
      BY <1>e, <3>2 DEF Settled
    <3>4. Alive' = {h}
      BY <1>c, <2>1, <3>2 DEF Alive
    <3>5. "loaded" \in Stages(app.lifecycle) /\ app.lifecycle # "RunningLocal" /\ app.host = NoHost
      BY <1>c, <2>1 DEF Stages
    <3>6. ~app.screen /\ Valid(Normalize(app.settings.radio))
      BY <1>c, <2>1
    <3> QED BY <1>g, <2>2, <3>2, <3>3, <3>4, <3>5, <3>6, <1>13 DEF LoadSettings, radio
  <2> QED BY <2>2, <2>3, <2>4, <1>13 DEF LoadSettings
<1>14. ASSUME NEW h \in Hosts, Serve(h) PROVE Goal
  <2>1. h \in Alive /\ hosts[h].cut = "no" /\ hosts[h].stage = "loaded"
    BY <1>r, <1>14 DEF Serve
  <2>2. /\ {"served", "failed"} \subseteq Stages(app.lifecycle)
        /\ app.lifecycle # "RunningLocal" /\ app.host = NoHost
    BY <1>c, <2>1 DEF Stages
  <2>3. hosts[h].radio = Normalize(app.settings.radio)
    BY <1>k, <2>1
  <2>4. CASE hosts' = [hosts EXCEPT ![h].stage = "failed"]
    BY <1>j, <2>1, <2>2, <2>4, <1>14 DEF Serve, HostStages
  <2>5. CASE hosts' = [hosts EXCEPT ![h].stage = "served", ![h].parts = Parts]
    <3>1. hosts' = [hosts EXCEPT ![h] = [[hosts[h] EXCEPT !.stage = "served"] EXCEPT !.parts = Parts]]
      BY <1>a, <2>5, StageAndParts
    <3>2. IsHost(hosts[h])
      BY <1>a DEF AppTypes
    <3>3. /\ hosts'[h].stage = "served" /\ hosts'[h].cut = "no" /\ hosts'[h].radio = hosts[h].radio
          /\ \A g \in Hosts \ {h} : hosts'[g] = hosts[g]
      BY <1>a, <2>1, <3>1, <3>2 DEF AppTypes, IsHost
    <3>4. Settled'
      BY <1>e, <3>3 DEF Settled
    <3>5. Alive' = {h}
      BY <1>c, <2>1, <3>3 DEF Alive
    <3>6. app.up /\ ~app.screen /\ Valid(Normalize(app.settings.radio))
          /\ file = SettingsStored(app.settings)
      BY <1>a, <1>c, <2>1 DEF SettingsStay
    <3> QED BY <1>g, <2>2, <2>3, <3>3, <3>4, <3>5, <3>6, <1>14 DEF Serve
  <2> QED BY <2>4, <2>5, <1>14 DEF Serve
<1>15. ASSUME NEW h \in Hosts, StartFinished(h) PROVE Goal
  <2>1. h \in Alive /\ hosts[h].cut = "no" /\ hosts[h].stage = "served"
    BY <1>r, <1>15 DEF StartFinished
  <2>2. app.host = NoHost /\ hosts[h].radio = Normalize(app.settings.radio)
    BY <1>c, <1>k, <2>1
  <2>3. CASE app.lifecycle = "Stopping" \/ app.closing
    <3>1. /\ app'.lifecycle = "Stopping" /\ UNCHANGED <<app.up, app.host, app.screen, app.settings>>
      BY <1>b, <2>3, <1>15 DEF StartFinished, AppFields
    <3>2. "stopping" \in Stages("Stopping")
      BY DEF Stages
    <3> QED BY <1>j, <2>1, <2>2, <2>3, <3>1, <3>2, <1>15 DEF StartFinished, HostStages
  <2>4. CASE ~(app.lifecycle = "Stopping" \/ app.closing)
    <3>1. /\ app'.lifecycle = "RunningLocal" /\ app'.host = h /\ app'.status = NoHost
          /\ UNCHANGED <<app.up, app.screen, app.settings>>
      BY <1>b, <2>4, <1>15 DEF StartFinished, AppFields
    <3>2. "held" \in Stages("RunningLocal")
      BY DEF Stages
    <3> QED BY <1>j, <2>1, <2>2, <2>4, <3>1, <3>2, <1>15 DEF StartFinished, HostStages
  <2> QED BY <2>3, <2>4
<1>16. ASSUME NEW h \in Hosts, StartFailed(h) PROVE Goal
  <2>1. h \in Alive /\ hosts[h].cut = "no" /\ hosts[h].stage = "failed"
    BY <1>r, <1>16 DEF StartFailed
  <2>2. app.host = NoHost /\ Alive = {h} /\ app.up
    BY <1>c, <2>1
  <2>3. CASE app.closing
    <3>1. app' = Ended /\ EndHosts("close")
      BY <2>3, <1>16 DEF StartFailed, CloseWindow
    <3> QED BY <1>i, <2>1, <2>2, <3>1
  <2>4. CASE ~app.closing
    <3>0. /\ app'.lifecycle = "Error" /\ app'.host = NoHost
          /\ app'.settings = app.settings
      BY <1>b, <2>2, <2>4, <1>16 DEF StartFailed, AppFields
    <3>1. /\ NoneLives(app'.lifecycle) /\ app'.host = NoHost /\ app'.settings = app.settings
      BY <3>0
    <3>2. Settled' /\ Alive' = {}
      <4>1. hosts' = [hosts EXCEPT ![h].stage = "gone"]
        BY <2>4, <1>16 DEF StartFailed
      <4>2. "gone" \in HostStages /\ Alive \subseteq {h}
        BY <2>2 DEF HostStages
      <4> QED BY <1>a, <2>1, <4>1, <4>2, StageChanges
    <3>3. file' = SettingsStored(app'.settings)
      BY <1>a, <2>2, <3>1, <1>16 DEF StartFailed, SettingsStay
    <3> QED BY <1>f, <3>1, <3>2, <3>3
  <2> QED BY <2>3, <2>4
<1>17. ASSUME NEW h \in Hosts, StopPart(h) PROVE Goal
  <2>1. h \in Alive /\ hosts[h].cut = "no" /\ hosts[h].stage = "stopping"
    BY <1>r, <1>17 DEF StopPart
  <2> DEFINE parts == CASE "registration" \in hosts[h].parts -> hosts[h].parts \ {"registration"}
                       [] "server" \in hosts[h].parts /\ "registration" \notin hosts[h].parts
                            -> hosts[h].parts \ {"server"}
                       [] OTHER -> {}
             stage == IF hosts[h].parts = {"radio"} THEN "stopped" ELSE hosts[h].stage
  <2>2. hosts' = [hosts EXCEPT ![h].parts = parts, ![h].stage = stage]
    BY <1>a, <1>17 DEF StopPart, AppTypes, IsHost
  <2>3. stage \in {"stopping", "stopped"}
    BY <2>1
  <2> HIDE DEF parts, stage
  <2>4. hosts' = [hosts EXCEPT ![h] = [[hosts[h] EXCEPT !.parts = parts] EXCEPT !.stage = stage]]
    BY <1>a, <2>2, StageAndParts
  <2>5. IsHost(hosts[h])
    BY <1>a DEF AppTypes
  <2>6. /\ hosts'[h].stage = stage /\ hosts'[h].cut = "no" /\ hosts'[h].radio = hosts[h].radio
        /\ \A g \in Hosts \ {h} : hosts'[g] = hosts[g]
    BY <1>a, <2>1, <2>4, <2>5 DEF AppTypes, IsHost
  <2>7. Settled'
    BY <1>e, <2>3, <2>6 DEF Settled
  <2>8. Alive' = {h}
    BY <1>c, <2>1, <2>3, <2>6 DEF Alive
  <2>9. stage \in Stages(app.lifecycle) /\ app.lifecycle # "RunningLocal" /\ app.host = NoHost
    BY <1>c, <2>1, <2>3 DEF Stages
  <2>10. /\ app.up /\ ~app.screen /\ Valid(Normalize(app.settings.radio))
         /\ file = SettingsStored(app.settings) /\ hosts[h].radio = Normalize(app.settings.radio)
    BY <1>a, <1>c, <1>k, <2>1 DEF SettingsStay
  <2> QED BY <1>g, <2>3, <2>6, <2>7, <2>8, <2>9, <2>10, <1>17 DEF StopPart
<1>18. ASSUME NEW h \in Hosts, StopFinished(h) PROVE Goal
  <2>1. h \in Alive /\ hosts[h].cut = "no" /\ hosts[h].stage = "stopped"
    BY <1>r, <1>18 DEF StopFinished
  <2>2. app.host = NoHost /\ Alive = {h} /\ app.up
    BY <1>c, <2>1
  <2>3. CASE app.closing
    <3>1. app' = Ended /\ EndHosts("close")
      BY <2>3, <1>18 DEF StopFinished, CloseWindow
    <3> QED BY <1>i, <2>1, <2>2, <3>1
  <2>4. CASE ~app.closing
    <3>0. /\ app'.lifecycle = "Stopped" /\ app'.host = NoHost
          /\ app'.settings = app.settings
      BY <1>b, <2>2, <2>4, <1>18 DEF StopFinished, AppFields
    <3>1. /\ NoneLives(app'.lifecycle) /\ app'.host = NoHost /\ app'.settings = app.settings
      BY <3>0
    <3>2. Settled' /\ Alive' = {}
      <4>1. hosts' = [hosts EXCEPT ![h].stage = "gone"]
        BY <2>4, <1>18 DEF StopFinished
      <4>2. "gone" \in HostStages /\ Alive \subseteq {h}
        BY <2>2 DEF HostStages
      <4> QED BY <1>a, <2>1, <4>1, <4>2, StageChanges
    <3>3. file' = SettingsStored(app'.settings)
      BY <1>a, <2>2, <3>1, <1>18 DEF StopFinished, SettingsStay
    <3> QED BY <1>f, <3>1, <3>2, <3>3
  <2> QED BY <2>3, <2>4
<1>19. ASSUME CloseRequested PROVE Goal
  <2>1. CASE app.host # NoHost \/ app.lifecycle = "Starting"
    BY <1>s, <2>1, <1>19 DEF CloseRequested
  <2>2. CASE ~(app.host # NoHost \/ app.lifecycle = "Starting")
    <3>1. app' = Ended /\ EndHosts("close")
      BY <2>2, <1>19 DEF CloseRequested, CloseWindow
    <3>2. \A h \in Alive : hosts[h].stage # "held"
      BY <1>c, <1>n, <2>2 DEF Alive
    <3> QED BY <1>i, <3>1, <3>2
  <2> QED BY <2>1, <2>2
<1>20. ASSUME ClientCrashes PROVE Goal
  <2>1. app' = Ended /\ EndHosts("crash")
    BY <1>20 DEF ClientCrashes
  <2> QED BY <1>i, <2>1
<1>21. CASE UNCHANGED clientVars
  BY <1>a, <1>h, <1>21 DEF clientVars, SettingsStay, HostInv, ScreenOK, MayConfigure
<1> QED
  BY <1>1, <1>2, <1>3, <1>4, <1>5, <1>6, <1>7, <1>8, <1>9, <1>10, <1>11, <1>12, <1>13, <1>14,
     <1>15, <1>16, <1>17, <1>18, <1>19, <1>20, <1>21 DEF ClientNext, HostSteps

LEMMA ClientInvHolds == ClientSpec => []ClientInv
<1>1. ClientInv /\ [ClientNext]_clientVars => ClientInv'
  BY ClientEnvStep, HostsTyped, AppFits, HostsKept DEF ClientInv, AppTypes, HostInv
<1> QED BY <1>1, ClientStarts, PTL DEF ClientSpec

(* There is one host at most, the one the window shows, and it runs with    *)
(* the settings that were saved, which are valid; what is drafted fits its  *)
(* driver (StartPressed, StartFinished, Save, set_driver).                  *)
THEOREM HostRunsItsSettings == ClientSpec => []HostRunsTheSettings
<1>1. ClientInv => HostRunsTheSettings
  BY DEF ClientInv, AllFits, HostInv, HostRunsTheSettings, DraftsFitTheDriver
<1> QED BY <1>1, ClientInvHolds, PTL

-----------------------------------------------------------------------------
(* The spots of the cluster.                                                *)

AnySpot == [id : Nat, call : {dx.call : dx \in Heard}, tenth : {dx.tenth : dx \in Heard}, at : Nat]
DxEvent == [kind : {"added", "deleted"}, id : Nat]
IdsOf(spots) == {spots[i].id : i \in 1..Len(spots)}

(* Spots in the order of their age, each id once.                           *)
InOrder(spots) ==
  /\ spots \in Seq(AnySpot)
  /\ \A i, j \in 1..Len(spots) : i < j => spots[i].at <= spots[j].at /\ spots[i].id # spots[j].id
  /\ \A i \in 1..Len(spots) : spots[i].at <= dxClock

LEMMA LeastOf ==
  ASSUME NEW S, S \subseteq Nat, S # {}
  PROVE  \E n \in S : \A m \in S : n <= m
<1>1. PICK x \in S : \A y \in S : ~(<<y, x>> \in OpToRel(<, Nat))
  BY WFMin, NatLessThanWellFounded
<1>2. \A y \in S : ~(y < x)
  <2>1. \A y \in S : <<y, x>> \in Nat \X Nat
    OBVIOUS
  <2> QED BY <1>1, <2>1 DEF OpToRel
<1> QED BY <1>2

LEMMA SpotSeq ==
  ASSUME NEW spots \in Seq(AnySpot)
  PROVE  /\ Len(spots) \in Nat /\ ToSet(spots) = {spots[i] : i \in 1..Len(spots)}
         /\ \A i \in 1..Len(spots) : spots[i] \in AnySpot /\ spots[i].id \in Nat /\ spots[i].at \in Nat
<1>1. /\ Len(spots) \in Nat /\ DOMAIN spots = 1..Len(spots)
      /\ \A i \in 1..Len(spots) : spots[i] \in AnySpot
  OBVIOUS
<1>2. \A s \in AnySpot : s.id \in Nat /\ s.at \in Nat
  BY DEF AnySpot
<1> QED BY <1>1, <1>2 DEF ToSet

(* prune stops at the first spot that is young enough.                      *)
LEMMA OldCountIs ==
  ASSUME NEW spots \in Seq(AnySpot)
  PROVE  OldCount(spots) \in 0..Len(spots)
<1> DEFINE T == {n \in 0..Len(spots) : n = Len(spots) \/ ~IsOld(spots[n + 1])}
<1>1. Len(spots) \in Nat
  OBVIOUS
<1>2. T \subseteq Nat /\ T # {}
  BY <1>1
<1>3. PICK n \in T : \A m \in T : n <= m
  <2> HIDE DEF T
  <2> QED BY <1>2, LeastOf
<1>4. n \in 0..Len(spots) /\ (n < Len(spots) => ~IsOld(spots[n + 1]))
  BY <1>1, <1>3
<1>5. ASSUME NEW i \in 1..n PROVE IsOld(spots[i])
  <2>1. i - 1 \in 0..Len(spots) /\ i - 1 < n /\ (i - 1) + 1 = i /\ i - 1 # Len(spots)
    BY <1>1, <1>4
  <2>2. i - 1 \notin T
    <3> SUFFICES ASSUME i - 1 \in T PROVE FALSE
      OBVIOUS
    <3>1. n <= i - 1
      <4> HIDE DEF T
      <4> QED BY <1>3
    <3> QED BY <1>4, <2>1, <3>1
  <2>3. i - 1 \in 0..Len(spots) /\ ~(i - 1 = Len(spots) \/ ~IsOld(spots[(i - 1) + 1]))
    BY <2>1, <2>2
  <2> QED BY <2>1, <2>3
<1> HIDE DEF T
<1>6. \E k \in 0..Len(spots) : /\ \A i \in 1..k : IsOld(spots[i])
                               /\ k < Len(spots) => ~IsOld(spots[k + 1])
  BY <1>4, <1>5
<1> QED BY <1>6 DEF OldCount

LEMMA PrunedIs ==
  ASSUME NEW spots, InOrder(spots)
  PROVE  /\ InOrder(Pruned(spots))
         /\ Prunes(spots) \in Seq(DxEvent)
         /\ \A i \in 1..Len(Prunes(spots)) : Prunes(spots)[i].kind = "deleted"
         /\ \A id : id \in IdsOf(Pruned(spots)) <=>
                      id \in IdsOf(spots) /\ \A i \in 1..Len(Prunes(spots)) : Prunes(spots)[i].id # id
         /\ IdsOf(Pruned(spots)) \subseteq IdsOf(spots)
         /\ Prunes(spots) = <<>> => Pruned(spots) = spots
<1> DEFINE n == OldCount(spots)
           l == Len(spots)
           rest == SubSeq(spots, n + 1, l)
           gone == SubSeq(spots, 1, n)
           says1 == DeletedAll(gone)
<1>1. spots \in Seq(AnySpot) /\ l \in Nat /\ n \in 0..l
  BY OldCountIs DEF InOrder
<1>2. \A i \in 1..l : spots[i] \in AnySpot /\ spots[i].id \in Nat /\ spots[i].at \in Nat
  BY <1>1, SpotSeq
<1> HIDE DEF n
<1>3. /\ rest \in Seq(AnySpot) /\ Len(rest) = l - n
      /\ \A i \in 1..(l - n) : rest[i] = spots[n + i]
  <2>1. n + 1 \in Int /\ l \in Int /\ \A i \in (n + 1)..l : spots[i] \in AnySpot
    BY <1>1, <1>2
  <2>2. /\ rest \in Seq(AnySpot) /\ Len(rest) = (IF n + 1 <= l THEN l - (n + 1) + 1 ELSE 0)
        /\ \A i \in 1..(l - (n + 1) + 1) : rest[i] = spots[(n + 1) + i - 1]
    BY <2>1, SubSeqProperties
  <2> QED BY <1>1, <2>2
<1>4. /\ gone \in Seq(AnySpot) /\ Len(gone) = n /\ \A i \in 1..n : gone[i] = spots[i]
  <2>1. 1 \in Int /\ n \in Int /\ \A i \in 1..n : spots[i] \in AnySpot
    BY <1>1, <1>2
  <2>2. /\ gone \in Seq(AnySpot) /\ Len(gone) = (IF 1 <= n THEN n - 1 + 1 ELSE 0)
        /\ \A i \in 1..(n - 1 + 1) : gone[i] = spots[1 + i - 1]
    BY <2>1, SubSeqProperties
  <2> QED BY <1>1, <2>2
<1> HIDE DEF rest, gone
<1>5. /\ says1 \in Seq(DxEvent) /\ Len(says1) = n
      /\ \A i \in 1..n : says1[i].kind = "deleted" /\ says1[i].id = spots[i].id
  <2>1. says1 = [i \in 1..n |-> [kind |-> "deleted", id |-> gone[i].id]]
    BY <1>4 DEF DeletedAll, Deleted
  <2>2. \A i \in 1..n : [kind |-> "deleted", id |-> gone[i].id] \in DxEvent /\ gone[i].id = spots[i].id
    BY <1>1, <1>2, <1>4 DEF DxEvent
  <2> HIDE DEF says1
  <2>3. says1 \in Seq(DxEvent) /\ Len(says1) = n
    <3>1. DOMAIN says1 = 1..n /\ \A i \in 1..n : says1[i] \in DxEvent
      BY <2>1, <2>2
    <3> QED BY <1>1, <2>1, <3>1
  <2> QED BY <2>1, <2>2, <2>3
<1> HIDE DEF says1
<1>6. Pruned(spots) = rest /\ Prunes(spots) = says1
  BY DEF Pruned, Prunes, rest, gone, says1, n
<1>7. InOrder(rest)
  <2>1. \A i \in 1..Len(rest) : n + i \in 1..l
    BY <1>1, <1>3
  <2>2. /\ \A i, j \in 1..l : i < j => spots[i].at <= spots[j].at /\ spots[i].id # spots[j].id
        /\ \A i \in 1..l : spots[i].at <= dxClock
    BY DEF InOrder
  <2>3. ASSUME NEW i \in 1..Len(rest), NEW j \in 1..Len(rest), i < j
        PROVE  rest[i].at <= rest[j].at /\ rest[i].id # rest[j].id
    <3>1. n + i < n + j
      BY <1>1, <1>3, <2>3
    <3>2. rest[i] = spots[n + i] /\ rest[j] = spots[n + j]
      BY <1>3
    <3> QED BY <2>1, <2>2, <3>1, <3>2
  <2>4. ASSUME NEW i \in 1..Len(rest) PROVE rest[i].at <= dxClock
    BY <1>3, <2>1, <2>2
  <2> QED BY <1>3, <2>3, <2>4 DEF InOrder
<1>8. ASSUME NEW id
      PROVE  id \in IdsOf(rest) <=> id \in IdsOf(spots) /\ \A i \in 1..Len(says1) : says1[i].id # id
  <2>1. \A i, j \in 1..l : i < j => spots[i].id # spots[j].id
    BY DEF InOrder
  <2>2. id \in IdsOf(rest) <=> \E j \in 1..(l - n) : spots[n + j].id = id
    BY <1>1, <1>3 DEF IdsOf
  <2>3. id \in IdsOf(spots) <=> \E j \in 1..l : spots[j].id = id
    BY DEF IdsOf
  <2>4. (\A i \in 1..Len(says1) : says1[i].id # id) <=> \A i \in 1..n : spots[i].id # id
    BY <1>5
  <2>5. ASSUME NEW j \in 1..(l - n), spots[n + j].id = id
        PROVE  (\E k \in 1..l : spots[k].id = id) /\ \A i \in 1..n : spots[i].id # id
    <3>1. n + j \in 1..l
      BY <1>1
    <3>2. \A i \in 1..n : i \in 1..l /\ i < n + j
      BY <1>1
    <3> QED BY <2>1, <2>5, <3>1, <3>2
  <2>6. ASSUME NEW k \in 1..l, spots[k].id = id, \A i \in 1..n : spots[i].id # id
        PROVE  \E j \in 1..(l - n) : spots[n + j].id = id
    <3>1. k \notin 1..n
      BY <2>6
    <3>2. k - n \in 1..(l - n) /\ n + (k - n) = k
      BY <1>1, <3>1
    <3> QED BY <2>6, <3>2
  <2> QED BY <2>2, <2>3, <2>4, <2>5, <2>6
<1>9. says1 = <<>> => rest = spots
  <2> SUFFICES ASSUME says1 = <<>> PROVE rest = spots
    OBVIOUS
  <2>1. n = 0
    BY <1>1, <1>5
  <2>2. Len(rest) = l /\ \A i \in 1..l : rest[i] = spots[i]
    BY <1>1, <1>3, <2>1
  <2> QED BY <1>1, <1>3, <2>2, SeqEqual
<1> QED BY <1>5, <1>6, <1>7, <1>8, <1>9

(* The spot that is heard comes last, under its old id if it has one.       *)
LEMMA StoreWithIs ==
  ASSUME NEW spots, InOrder(spots), NEW spot \in AnySpot, spot.at = dxClock, dxClock \in Nat
  PROVE  /\ InOrder(StoreWith(spots, spot))
         /\ IdsOf(StoreWith(spots, spot)) = IdsOf(spots) \cup {spot.id}
<1> DEFINE l == Len(spots)
<1>1. spots \in Seq(AnySpot) /\ l \in Nat
  BY DEF InOrder
<1>2. /\ ToSet(spots) = {spots[i] : i \in 1..l}
      /\ \A i \in 1..l : spots[i] \in AnySpot /\ spots[i].id \in Nat /\ spots[i].at \in Nat
  BY <1>1, SpotSeq
<1>3. /\ \A i, j \in 1..l : i < j => spots[i].at <= spots[j].at /\ spots[i].id # spots[j].id
      /\ \A i \in 1..l : spots[i].at <= dxClock
  BY DEF InOrder
<1>4. ASSUME NEW q \in Seq(AnySpot), InOrder(q), \A i \in 1..Len(q) : q[i].id # spot.id
      PROVE  InOrder(Append(q, spot)) /\ IdsOf(Append(q, spot)) = IdsOf(q) \cup {spot.id}
  <2> DEFINE r == Append(q, spot)
  <2>1. /\ r \in Seq(AnySpot) /\ Len(r) = Len(q) + 1 /\ Len(q) \in Nat
        /\ \A i \in 1..Len(q) : r[i] = q[i]
        /\ r[Len(q) + 1] = spot
    BY AppendProperties
  <2> HIDE DEF r
  <2>2. /\ \A i, j \in 1..Len(q) : i < j => q[i].at <= q[j].at /\ q[i].id # q[j].id
        /\ \A i \in 1..Len(q) : q[i].at <= dxClock
    BY <1>4 DEF InOrder
  <2>3. \A i \in 1..Len(r) : i \in 1..Len(q) \/ i = Len(q) + 1
    BY <2>1
  <2>4. InOrder(r)
    <3>1. ASSUME NEW i \in 1..Len(r), NEW j \in 1..Len(r), i < j
          PROVE  r[i].at <= r[j].at /\ r[i].id # r[j].id
      <4>1. i \in 1..Len(q)
        BY <2>1, <3>1
      <4>2. CASE j \in 1..Len(q)
        BY <2>1, <2>2, <3>1, <4>1, <4>2
      <4>3. CASE j = Len(q) + 1
        BY <1>4, <2>1, <2>2, <4>1, <4>3
      <4> QED BY <2>3, <4>2, <4>3
    <3>2. ASSUME NEW i \in 1..Len(r) PROVE r[i].at <= dxClock
      BY <2>1, <2>2, <2>3
    <3> QED BY <2>1, <3>1, <3>2 DEF InOrder
  <2>5. IdsOf(r) = IdsOf(q) \cup {spot.id}
    <3>1. \A x : x \in IdsOf(r) <=> \E i \in 1..Len(r) : r[i].id = x
      BY DEF IdsOf
    <3>2. \A x : x \in IdsOf(q) <=> \E i \in 1..Len(q) : q[i].id = x
      BY DEF IdsOf
    <3>3. \A i \in 1..Len(q) : i \in 1..Len(r) /\ r[i].id = q[i].id
      BY <2>1
    <3>4. Len(q) + 1 \in 1..Len(r) /\ r[Len(q) + 1].id = spot.id
      BY <2>1
    <3> QED BY <2>3, <3>1, <3>2, <3>3, <3>4
  <2> QED BY <2>4, <2>5 DEF r
<1>5. CASE \A s \in ToSet(spots) : s.id # spot.id
  <2>1. StoreWith(spots, spot) = Append(spots, spot)
    BY <1>5 DEF StoreWith
  <2>2. \A i \in 1..Len(spots) : spots[i].id # spot.id
    BY <1>2, <1>5
  <2> QED BY <1>1, <1>4, <2>1, <2>2
<1>6. CASE \E s \in ToSet(spots) : s.id = spot.id
  <2> DEFINE k == CHOOSE i \in 1..Len(spots) : spots[i].id = spot.id
             a == SubSeq(spots, 1, k - 1)
             b == SubSeq(spots, k + 1, l)
             q == a \o b
  <2>1. StoreWith(spots, spot) = Append(q, spot)
    BY <1>6 DEF StoreWith, Refreshed, Without, RemoveAt
  <2>2. k \in 1..l /\ spots[k].id = spot.id
    <3>1. \E i \in 1..l : spots[i].id = spot.id
      BY <1>2, <1>6
    <3> QED BY <3>1
  <2> HIDE DEF k
  <2>3. /\ a \in Seq(AnySpot) /\ Len(a) = k - 1 /\ \A i \in 1..(k - 1) : a[i] = spots[i]
    <3>1. 1 \in Int /\ k - 1 \in Int /\ \A i \in 1..(k - 1) : spots[i] \in AnySpot
      BY <1>1, <1>2, <2>2
    <3>2. /\ a \in Seq(AnySpot) /\ Len(a) = (IF 1 <= k - 1 THEN (k - 1) - 1 + 1 ELSE 0)
          /\ \A i \in 1..((k - 1) - 1 + 1) : a[i] = spots[1 + i - 1]
      BY <3>1, SubSeqProperties
    <3> QED BY <1>1, <2>2, <3>2
  <2>4. /\ b \in Seq(AnySpot) /\ Len(b) = l - k /\ \A i \in 1..(l - k) : b[i] = spots[k + i]
    <3>1. k + 1 \in Int /\ l \in Int /\ \A i \in (k + 1)..l : spots[i] \in AnySpot
      BY <1>1, <1>2, <2>2
    <3>2. /\ b \in Seq(AnySpot) /\ Len(b) = (IF k + 1 <= l THEN l - (k + 1) + 1 ELSE 0)
          /\ \A i \in 1..(l - (k + 1) + 1) : b[i] = spots[(k + 1) + i - 1]
      BY <3>1, SubSeqProperties
    <3> QED BY <1>1, <2>2, <3>2
  <2> HIDE DEF a, b
  <2>5. /\ q \in Seq(AnySpot) /\ Len(q) = Len(a) + Len(b)
        /\ \A i \in 1..(Len(a) + Len(b)) : q[i] = IF i <= Len(a) THEN a[i] ELSE b[i - Len(a)]
    BY <2>3, <2>4, ConcatProperties
  <2> DEFINE at(i) == IF i < k THEN i ELSE i + 1
  <2>6. Len(q) = l - 1 /\ \A i \in 1..(l - 1) : q[i] = spots[at(i)] /\ at(i) \in 1..l /\ at(i) # k
    BY <1>1, <2>2, <2>3, <2>4, <2>5
  <2>7. \A i, j \in 1..(l - 1) : i < j => at(i) < at(j)
    BY <1>1, <2>2
  <2> HIDE DEF q
  <2>8. \A i \in 1..l : i # k => \E j \in 1..(l - 1) : at(j) = i
    <3> SUFFICES ASSUME NEW i \in 1..l, i # k PROVE \E j \in 1..(l - 1) : at(j) = i
      OBVIOUS
    <3>1. CASE i < k
      <4>1. i \in 1..(l - 1) /\ at(i) = i
        BY <1>1, <2>2, <3>1
      <4> HIDE DEF at
      <4> QED BY <4>1
    <3>2. CASE i > k
      <4>1. i - 1 \in 1..(l - 1) /\ ~(i - 1 < k) /\ (i - 1) + 1 = i
        BY <1>1, <2>2, <3>2
      <4>2. at(i - 1) = i
        BY <4>1
      <4> HIDE DEF at
      <4> QED BY <4>1, <4>2
    <3> QED BY <1>1, <2>2, <3>1, <3>2
  <2> HIDE DEF at
  <2>9. InOrder(q)
    <3>1. ASSUME NEW i \in 1..Len(q), NEW j \in 1..Len(q), i < j
          PROVE  q[i].at <= q[j].at /\ q[i].id # q[j].id
      <4>1. i \in 1..(l - 1) /\ j \in 1..(l - 1)
        BY <2>6
      <4>2. at(i) < at(j) /\ at(i) \in 1..l /\ at(j) \in 1..l /\ q[i] = spots[at(i)] /\ q[j] = spots[at(j)]
        BY <2>6, <2>7, <3>1, <4>1
      <4> QED BY <1>3, <4>2
    <3>2. ASSUME NEW i \in 1..Len(q) PROVE q[i].at <= dxClock
      <4>1. at(i) \in 1..l /\ q[i] = spots[at(i)]
        BY <2>6
      <4> QED BY <1>3, <4>1
    <3> QED BY <2>5, <3>1, <3>2 DEF InOrder
  <2>10. \A i \in 1..Len(q) : q[i].id # spot.id
    <3> SUFFICES ASSUME NEW i \in 1..(l - 1) PROVE spots[at(i)].id # spot.id
      BY <2>6
    <3>1. at(i) \in 1..l /\ at(i) # k
      BY <2>6
    <3> QED BY <1>1, <1>3, <2>2, <3>1
  <2>11. IdsOf(q) \cup {spot.id} = IdsOf(spots) \cup {spot.id}
    <3>1. \A x : x \in IdsOf(q) <=> \E i \in 1..(l - 1) : spots[at(i)].id = x
      BY <2>6 DEF IdsOf
    <3>2. \A x : x \in IdsOf(spots) <=> \E i \in 1..l : spots[i].id = x
      BY DEF IdsOf
    <3>3. \A i \in 1..(l - 1) : at(i) \in 1..l
      BY <2>6
    <3> QED BY <2>2, <2>8, <3>1, <3>2, <3>3
  <2> QED BY <1>4, <2>1, <2>5, <2>9, <2>10, <2>11
<1> QED BY <1>5, <1>6

(* Whether a map that shows m shows id when the events q were applied.      *)
Shown(m, q, id) ==
  \/ \E i \in 1..Len(q) : /\ q[i].id = id /\ q[i].kind = "added"
                          /\ \A j \in (i + 1)..Len(q) : q[j].id # id
  \/ id \in m /\ \A i \in 1..Len(q) : q[i].id # id

LEMMA NoEvents == \A m, id : Shown(m, <<>>, id) <=> id \in m
BY DEF Shown

LEMMA ShownAppend ==
  ASSUME NEW m, NEW q \in Seq(DxEvent), NEW e \in DxEvent, NEW id
  PROVE  Shown(m, Append(q, e), id) <=> IF e.id = id THEN e.kind = "added" ELSE Shown(m, q, id)
<1> DEFINE r == Append(q, e)
           l == Len(q)
<1>1. /\ l \in Nat /\ Len(r) = l + 1 /\ (\A i \in 1..l : r[i] = q[i]) /\ r[l + 1] = e
  BY AppendProperties
<1> HIDE DEF r, l
<1>2. \A i \in 1..Len(r) : i \in 1..l \/ i = l + 1
  BY <1>1
<1>3. CASE e.id = id
  <2>1. Shown(m, r, id) => e.kind = "added"
    <3>1. l + 1 \in 1..Len(r)
      BY <1>1
    <3>2. ASSUME NEW i \in 1..Len(r), \A j \in (i + 1)..Len(r) : r[j].id # id PROVE i = l + 1
      <4>1. SUFFICES ASSUME i \in 1..l PROVE FALSE
        BY <1>2
      <4>2. l + 1 \in (i + 1)..Len(r)
        BY <1>1, <4>1
      <4> QED BY <1>1, <1>3, <3>2, <4>2
    <3> QED BY <1>1, <1>3, <3>1, <3>2 DEF Shown
  <2>2. e.kind = "added" => Shown(m, r, id)
    <3>1. l + 1 \in 1..Len(r) /\ \A j \in ((l + 1) + 1)..Len(r) : r[j].id # id
      BY <1>1
    <3> QED BY <1>1, <1>3, <3>1 DEF Shown
  <2> QED BY <1>3, <2>1, <2>2 DEF r
<1>4. CASE e.id # id
  <2>1. (\A i \in 1..Len(r) : r[i].id # id) <=> \A i \in 1..l : q[i].id # id
    <3>1. \A i \in 1..l : i \in 1..Len(r)
      BY <1>1
    <3> QED BY <1>1, <1>2, <1>4, <3>1
  <2>2. ASSUME NEW i \in 1..l
        PROVE  (\A j \in (i + 1)..Len(r) : r[j].id # id) <=> \A j \in (i + 1)..l : q[j].id # id
    <3>1. \A j \in (i + 1)..l : j \in (i + 1)..Len(r) /\ r[j] = q[j]
      BY <1>1
    <3>2. \A j \in (i + 1)..Len(r) : j \in (i + 1)..l \/ j = l + 1
      BY <1>1
    <3> QED BY <1>1, <1>4, <3>1, <3>2
  <2>3. (\E i \in 1..Len(r) : r[i].id = id /\ r[i].kind = "added" /\ \A j \in (i + 1)..Len(r) : r[j].id # id)
          <=> \E i \in 1..l : q[i].id = id /\ q[i].kind = "added" /\ \A j \in (i + 1)..l : q[j].id # id
    <3>1. \A i \in 1..l : i \in 1..Len(r)
      BY <1>1
    <3> QED BY <1>1, <1>2, <1>4, <2>2, <3>1
  <2> QED BY <1>4, <2>1, <2>3 DEF Shown, r, l
<1> QED BY <1>3, <1>4

(* The first event is applied.                                              *)
MapAfter(m, e) == IF e.kind = "added" THEN m \cup {e.id} ELSE m \ {e.id}

LEMMA ShownHead ==
  ASSUME NEW m, NEW q \in Seq(DxEvent), q # <<>>, NEW id
  PROVE  Shown(MapAfter(m, Head(q)), Tail(q), id) <=> Shown(m, q, id)
<1> DEFINE t == Tail(q)
           e == Head(q)
           l == Len(q)
<1>1. /\ l \in Nat /\ l > 0 /\ Len(t) = l - 1 /\ e = q[1] /\ e \in DxEvent
      /\ \A i \in 1..(l - 1) : t[i] = q[i + 1]
  <2>1. l \in Nat /\ l > 0
    BY EmptySeq
  <2>2. e = q[1]
    OBVIOUS
  <2> QED BY <2>1, <2>2, HeadTailProperties
<1> HIDE DEF t, e, l
<1>2. /\ \A i \in 1..(l - 1) : i + 1 \in 1..l
      /\ \A i \in 1..l : i = 1 \/ (i - 1 \in 1..(l - 1) /\ (i - 1) + 1 = i)
      /\ 1 \in 1..l
  BY <1>1
<1>3. (\A i \in 1..l : q[i].id # id) <=> e.id # id /\ \A i \in 1..(l - 1) : t[i].id # id
  <2>1. ASSUME \A i \in 1..l : q[i].id # id
        PROVE  e.id # id /\ \A i \in 1..(l - 1) : t[i].id # id
    <3>1. ASSUME NEW i \in 1..(l - 1) PROVE t[i].id # id
      <4>1. i + 1 \in 1..l /\ t[i] = q[i + 1]
        BY <1>1, <1>2
      <4> QED BY <2>1, <4>1
    <3> QED BY <1>1, <1>2, <2>1, <3>1
  <2>2. ASSUME e.id # id, \A i \in 1..(l - 1) : t[i].id # id, NEW i \in 1..l
        PROVE  q[i].id # id
    <3>1. CASE i = 1
      BY <1>1, <2>2, <3>1
    <3>2. CASE i # 1
      <4>1. i - 1 \in 1..(l - 1) /\ (i - 1) + 1 = i
        BY <1>2, <3>2
      <4>2. t[i - 1] = q[i]
        BY <1>1, <4>1
      <4> QED BY <2>2, <4>1, <4>2
    <3> QED BY <3>1, <3>2
  <2> QED BY <2>1, <2>2
<1>4. (\A j \in (1 + 1)..l : q[j].id # id) <=> \A i \in 1..(l - 1) : t[i].id # id
  <2>1. ASSUME \A j \in (1 + 1)..l : q[j].id # id, NEW i \in 1..(l - 1)
        PROVE  t[i].id # id
    <3>1. i + 1 \in (1 + 1)..l /\ t[i] = q[i + 1]
      BY <1>1
    <3> QED BY <2>1, <3>1
  <2>2. ASSUME \A i \in 1..(l - 1) : t[i].id # id, NEW j \in (1 + 1)..l
        PROVE  q[j].id # id
    <3>1. j - 1 \in 1..(l - 1) /\ (j - 1) + 1 = j
      BY <1>1
    <3>2. t[j - 1] = q[j]
      BY <1>1, <3>1
    <3> QED BY <2>2, <3>1, <3>2
  <2> QED BY <2>1, <2>2
<1>5. ASSUME NEW i \in 1..(l - 1)
      PROVE  (\A j \in (i + 1)..(l - 1) : t[j].id # id) <=> \A j \in ((i + 1) + 1)..l : q[j].id # id
  <2>1. \A j \in ((i + 1) + 1)..l : j - 1 \in (i + 1)..(l - 1) /\ t[j - 1] = q[j]
    <3> SUFFICES ASSUME NEW j \in ((i + 1) + 1)..l PROVE j - 1 \in (i + 1)..(l - 1) /\ t[j - 1] = q[j]
      OBVIOUS
    <3>1. j - 1 \in (i + 1)..(l - 1) /\ j - 1 \in 1..(l - 1) /\ (j - 1) + 1 = j
      BY <1>1
    <3> QED BY <1>1, <3>1
  <2>2. \A j \in (i + 1)..(l - 1) : j + 1 \in ((i + 1) + 1)..l /\ t[j] = q[j + 1]
    BY <1>1
  <2> QED BY <2>1, <2>2
<1> DEFINE L(i) == q[i].id = id /\ q[i].kind = "added" /\ \A j \in (i + 1)..l : q[j].id # id
           T(i) == t[i].id = id /\ t[i].kind = "added" /\ \A j \in (i + 1)..(l - 1) : t[j].id # id
<1>6. \A i \in 1..(l - 1) : T(i) <=> L(i + 1)
  BY <1>1, <1>5
<1>7. L(1) <=> e.id = id /\ e.kind = "added" /\ \A i \in 1..(l - 1) : t[i].id # id
  BY <1>1, <1>4
<1>8. Shown(m, q, id) <=> (\E i \in 1..l : L(i)) \/ (id \in m /\ \A i \in 1..l : q[i].id # id)
  BY DEF Shown, l
<1>9. Shown(MapAfter(m, e), t, id) <=>
        (\E i \in 1..(l - 1) : T(i)) \/ (id \in MapAfter(m, e) /\ \A i \in 1..(l - 1) : t[i].id # id)
  BY <1>1 DEF Shown
<1> HIDE DEF L, T
<1>10. (\E i \in 1..l : L(i)) <=> L(1) \/ \E i \in 1..(l - 1) : T(i)
  <2>1. ASSUME NEW i \in 1..l, L(i) PROVE L(1) \/ \E k \in 1..(l - 1) : T(k)
    <3>1. CASE i = 1
      BY <2>1, <3>1
    <3>2. CASE i # 1
      <4>1. i - 1 \in 1..(l - 1) /\ (i - 1) + 1 = i
        BY <1>2, <3>2
      <4> QED BY <1>6, <2>1, <4>1
    <3> QED BY <3>1, <3>2
  <2> QED BY <1>2, <1>6, <2>1
<1>11. id \in MapAfter(m, e) <=> IF e.id = id THEN e.kind = "added" ELSE id \in m
  BY DEF MapAfter
<1>12. Shown(MapAfter(m, e), t, id) <=> Shown(m, q, id)
  BY <1>3, <1>7, <1>8, <1>9, <1>10, <1>11
<1> QED BY <1>12 DEF t, e

(* Deletions follow.                                                        *)
LEMMA ShownDeleted ==
  ASSUME NEW m, NEW q \in Seq(DxEvent), NEW r \in Seq(DxEvent),
         \A i \in 1..Len(r) : r[i].kind = "deleted", NEW id
  PROVE  Shown(m, q \o r, id) <=> Shown(m, q, id) /\ \A i \in 1..Len(r) : r[i].id # id
<1> DEFINE s == q \o r
           l == Len(q)
           n == Len(r)
<1>1. /\ l \in Nat /\ n \in Nat /\ Len(s) = l + n
      /\ \A i \in 1..(l + n) : s[i] = IF i <= l THEN q[i] ELSE r[i - l]
  BY ConcatProperties
<1> HIDE DEF s
<1>2. /\ \A i \in 1..l : i \in 1..(l + n) /\ s[i] = q[i]
      /\ \A i \in 1..n : l + i \in 1..(l + n) /\ s[l + i] = r[i]
  <2>1. \A i \in 1..l : i \in 1..(l + n) /\ i <= l
    BY <1>1
  <2>2. \A i \in 1..n : l + i \in 1..(l + n) /\ ~(l + i <= l) /\ (l + i) - l = i
    BY <1>1
  <2> QED BY <1>1, <2>1, <2>2
<1>3. \A i \in 1..(l + n) : i \in 1..l \/ (i - l \in 1..n /\ l + (i - l) = i)
  BY <1>1
<1>4. (\A i \in 1..(l + n) : s[i].id # id) <=> (\A i \in 1..l : q[i].id # id) /\ \A i \in 1..n : r[i].id # id
  <2>1. ASSUME \A i \in 1..(l + n) : s[i].id # id, NEW i \in 1..n PROVE r[i].id # id
    <3>1. l + i \in 1..(l + n) /\ s[l + i] = r[i]
      BY <1>2
    <3> QED BY <2>1, <3>1
  <2>2. ASSUME \A i \in 1..l : q[i].id # id, \A i \in 1..n : r[i].id # id, NEW i \in 1..(l + n)
        PROVE  s[i].id # id
    <3>1. CASE i \in 1..l
      BY <1>2, <2>2, <3>1
    <3>2. CASE i - l \in 1..n /\ l + (i - l) = i
      <4>1. s[i] = r[i - l]
        BY <1>2, <3>2
      <4> QED BY <2>2, <3>2, <4>1
    <3> QED BY <1>3, <3>1, <3>2
  <2>3. (\A i \in 1..(l + n) : s[i].id # id) => \A i \in 1..l : q[i].id # id
    BY <1>2
  <2> QED BY <2>1, <2>2, <2>3
<1>5. ASSUME NEW i \in 1..l
      PROVE  (\A j \in (i + 1)..(l + n) : s[j].id # id) <=>
               (\A j \in (i + 1)..l : q[j].id # id) /\ \A j \in 1..n : r[j].id # id
  <2>1. \A j \in (i + 1)..(l + n) : j \in (i + 1)..l \/ (j - l \in 1..n /\ l + (j - l) = j)
    BY <1>1
  <2>2. \A j \in (i + 1)..l : j \in 1..l /\ j \in (i + 1)..(l + n)
    BY <1>1
  <2>3. \A j \in 1..n : l + j \in (i + 1)..(l + n)
    BY <1>1
  <2>4. ASSUME \A j \in (i + 1)..(l + n) : s[j].id # id, NEW j \in 1..n PROVE r[j].id # id
    <3>1. l + j \in (i + 1)..(l + n) /\ s[l + j] = r[j]
      BY <1>2, <2>3
    <3> QED BY <2>4, <3>1
  <2>5. ASSUME \A j \in (i + 1)..l : q[j].id # id, \A j \in 1..n : r[j].id # id,
               NEW j \in (i + 1)..(l + n)
        PROVE  s[j].id # id
    <3>1. CASE j \in (i + 1)..l
      BY <1>2, <2>2, <2>5, <3>1
    <3>2. CASE j - l \in 1..n /\ l + (j - l) = j
      <4>1. s[j] = r[j - l]
        BY <1>2, <3>2
      <4> QED BY <2>5, <3>2, <4>1
    <3> QED BY <2>1, <3>1, <3>2
  <2>6. (\A j \in (i + 1)..(l + n) : s[j].id # id) => \A j \in (i + 1)..l : q[j].id # id
    BY <1>2, <2>2
  <2> QED BY <2>4, <2>5, <2>6
<1>6. (\E i \in 1..(l + n) : s[i].id = id /\ s[i].kind = "added" /\ \A j \in (i + 1)..(l + n) : s[j].id # id)
        <=> /\ \E i \in 1..l : q[i].id = id /\ q[i].kind = "added" /\ \A j \in (i + 1)..l : q[j].id # id
            /\ \A j \in 1..n : r[j].id # id
  <2>1. ASSUME NEW i \in 1..(l + n), s[i].id = id, s[i].kind = "added", \A j \in (i + 1)..(l + n) : s[j].id # id
        PROVE  /\ \E k \in 1..l : q[k].id = id /\ q[k].kind = "added" /\ \A j \in (k + 1)..l : q[j].id # id
               /\ \A j \in 1..n : r[j].id # id
    <3>1. i \in 1..l
      <4>1. SUFFICES ASSUME i - l \in 1..n, l + (i - l) = i PROVE FALSE
        BY <1>3
      <4>2. s[i] = r[i - l]
        BY <1>2, <4>1
      <4> QED BY <2>1, <4>1, <4>2
    <3> QED BY <1>2, <1>5, <2>1, <3>1
  <2>2. ASSUME NEW i \in 1..l, q[i].id = id, q[i].kind = "added", \A j \in (i + 1)..l : q[j].id # id,
               \A j \in 1..n : r[j].id # id
        PROVE  \E k \in 1..(l + n) : s[k].id = id /\ s[k].kind = "added" /\ \A j \in (k + 1)..(l + n) : s[j].id # id
    <3>1. i \in 1..(l + n) /\ s[i] = q[i]
      BY <1>2
    <3>2. \A j \in (i + 1)..(l + n) : s[j].id # id
      BY <1>5, <2>2
    <3> QED BY <2>2, <3>1, <3>2
  <2> QED BY <2>1, <2>2
<1>7. Shown(m, s, id) <=>
        \/ \E i \in 1..(l + n) : s[i].id = id /\ s[i].kind = "added" /\ \A j \in (i + 1)..(l + n) : s[j].id # id
        \/ id \in m /\ \A i \in 1..(l + n) : s[i].id # id
  BY <1>1 DEF Shown
<1> QED BY <1>4, <1>6, <1>7 DEF Shown, s

(* The map m, when the events q were applied, shows the spots.              *)
Tells(m, q, spots) == \A id : Shown(m, q, id) <=> id \in IdsOf(spots)
OthersAreQuiet(p) == \A q \in Speakers \ {p} : says[q] = <<>>

StoreInv ==
  /\ dxClock \in Nat /\ nextId \in Nat
  /\ InOrder(store) /\ \A id \in IdsOf(store) : id <= nextId
EventTypes == says \in [Speakers -> Seq(DxEvent)] /\ dxEvents \in Seq(DxEvent) /\ outrun \in BOOLEAN
EventsTell ==
  outrun \/ \E p \in Speakers : OthersAreQuiet(p) /\ Tells(onMap, dxEvents \o says[p], store)
SpotsInv == StoreInv /\ EventTypes /\ EventsTell

LEMMA ConcatEmpty == ASSUME NEW q \in Seq(DxEvent) PROVE q \o <<>> = q
OBVIOUS

(* A change of the store that its events tell of.                           *)
LEMMA ChangeIsTold ==
  ASSUME EventTypes, EventsTell, NEW p \in Speakers, says[p] = <<>>, NEW spots, NEW events \in Seq(DxEvent),
         ChangeStore(p, spots, events), UNCHANGED <<dxEvents, onMap>>, events = <<>> => spots = store,
         \A q \in Seq(DxEvent) : Tells(onMap, q, store) => Tells(onMap, q \o events, spots)
  PROVE  EventTypes' /\ EventsTell'
<1>1. /\ store' = spots /\ says' = [says EXCEPT ![p] = events] /\ dxEvents' = dxEvents /\ onMap' = onMap
      /\ outrun' = (outrun \/ (events # <<>> /\ \E q \in Speakers \ {p} : says[q] # <<>>))
  BY DEF ChangeStore
<1>2. EventTypes'
  <2>1. outrun' \in BOOLEAN
    BY <1>1 DEF EventTypes
  <2>2. says' \in [Speakers -> Seq(DxEvent)]
    BY <1>1 DEF EventTypes
  <2> QED BY <1>1, <2>1, <2>2 DEF EventTypes
<1>3. CASE outrun
  BY <1>1, <1>2, <1>3 DEF EventsTell
<1>4. CASE ~outrun
  <2>1. PICK r \in Speakers : OthersAreQuiet(r) /\ Tells(onMap, dxEvents \o says[r], store)
    BY <1>4 DEF EventsTell
  <2>2. CASE events = <<>>
    <3>1. says' = says /\ store' = store
      BY <1>1, <2>2 DEF EventTypes
    <3>2. Tells(onMap', dxEvents' \o says'[r], store')
      BY <1>1, <2>1, <3>1
    <3>3. \A q \in Speakers \ {r} : says'[q] = <<>>
      BY <2>1, <3>1 DEF OthersAreQuiet
    <3> QED BY <1>2, <3>2, <3>3 DEF EventsTell, OthersAreQuiet
  <2>3. CASE events # <<>> /\ \E q \in Speakers \ {p} : says[q] # <<>>
    BY <1>1, <1>2, <2>3 DEF EventsTell
  <2>4. CASE events # <<>> /\ \A q \in Speakers \ {p} : says[q] = <<>>
    <3>1. says[r] = <<>>
      BY <2>4
    <3>2. Tells(onMap, dxEvents, store)
      BY <2>1, <3>1, ConcatEmpty DEF EventTypes
    <3>3. Tells(onMap, dxEvents \o events, spots)
      BY <3>2 DEF EventTypes
    <3>4. says'[p] = events /\ \A q \in Speakers \ {p} : says'[q] = <<>>
      BY <1>1, <2>4 DEF EventTypes
    <3>5. Tells(onMap', dxEvents' \o says'[p], store')
      BY <1>1, <3>3, <3>4
    <3> QED BY <1>2, <3>4, <3>5 DEF EventsTell, OthersAreQuiet
  <2> QED BY <2>2, <2>3, <2>4
<1> QED BY <1>3, <1>4 DEF EventTypes

(* What is pruned is told.                                                  *)
LEMMA DeletionsTell ==
  ASSUME NEW m, NEW q \in Seq(DxEvent), NEW r \in Seq(DxEvent), \A i \in 1..Len(r) : r[i].kind = "deleted",
         NEW spots, Tells(m, q, spots), NEW rest,
         \A id : id \in IdsOf(rest) <=> id \in IdsOf(spots) /\ \A i \in 1..Len(r) : r[i].id # id
  PROVE  Tells(m, q \o r, rest)
BY ShownDeleted DEF Tells

LEMMA PruneStep ==
  ASSUME SpotsInv, NEW k \in Tasks, says[k] = <<>>, ChangeStore(k, Pruned(store), Prunes(store)),
         UNCHANGED <<nextId, dxClock, dxEvents, onMap>>
  PROVE  SpotsInv'
<1>1. /\ InOrder(Pruned(store)) /\ Prunes(store) \in Seq(DxEvent)
      /\ \A i \in 1..Len(Prunes(store)) : Prunes(store)[i].kind = "deleted"
      /\ \A id : id \in IdsOf(Pruned(store)) <=>
                   id \in IdsOf(store) /\ \A i \in 1..Len(Prunes(store)) : Prunes(store)[i].id # id
      /\ IdsOf(Pruned(store)) \subseteq IdsOf(store)
      /\ Prunes(store) = <<>> => Pruned(store) = store
  BY PrunedIs DEF SpotsInv, StoreInv
<1>2. \A q \in Seq(DxEvent) : Tells(onMap, q, store) => Tells(onMap, q \o Prunes(store), Pruned(store))
  BY <1>1, DeletionsTell
<1>3. EventTypes' /\ EventsTell'
  <2>1. k \in Speakers
    BY DEF Speakers
  <2> QED BY <1>1, <1>2, <2>1, ChangeIsTold DEF SpotsInv
<1>4. StoreInv'
  <2>1. store' = Pruned(store) /\ nextId' = nextId /\ dxClock' = dxClock
    BY DEF ChangeStore
  <2>2. InOrder(store)'
    BY <1>1, <2>1 DEF InOrder
  <2>3. \A id \in IdsOf(store)' : id <= nextId'
    <3>1. IdsOf(store)' = IdsOf(Pruned(store))
      BY <2>1 DEF IdsOf
    <3> QED BY <1>1, <2>1, <3>1 DEF SpotsInv, StoreInv
  <2> QED BY <2>1, <2>2, <2>3 DEF SpotsInv, StoreInv
<1> QED BY <1>3, <1>4 DEF SpotsInv

(* The spot that is added or refreshed.                                     *)
LEMMA SpotForIs ==
  ASSUME NEW spots, InOrder(spots), NEW dx \in Heard, dxClock \in Nat, nextId \in Nat
  PROVE  SpotFor(spots, dx) \in AnySpot /\ SpotFor(spots, dx).at = dxClock
<1> DEFINE same == Duplicates(spots, dx)
           ids == {s.id : s \in same}
           least == CHOOSE s \in same : \A t \in same : s.id <= t.id
<1>1. same \subseteq AnySpot /\ \A s \in AnySpot : s.id \in Nat
  BY SpotSeq DEF InOrder, Duplicates, AnySpot
<1> HIDE DEF same
<1>2. ASSUME same # {} PROVE least.id \in Nat
  <2>1. ids \subseteq Nat /\ ids # {}
    BY <1>1, <1>2
  <2>2. PICK n \in ids : \A m \in ids : n <= m
    <3> HIDE DEF ids
    <3> QED BY <2>1, LeastOf
  <2>3. \E s \in same : \A t \in same : s.id <= t.id
    BY <2>2
  <2>4. least \in same
    BY <2>3
  <2> HIDE DEF least
  <2> QED BY <1>1, <2>4
<1> HIDE DEF least
<1>3. SpotFor(spots, dx) = [id |-> IF same = {} THEN nextId + 1 ELSE least.id, call |-> dx.call,
                            tenth |-> dx.tenth, at |-> dxClock]
  BY DEF SpotFor, same, least
<1> QED BY <1>2, <1>3 DEF AnySpot

LEMMA AddStep ==
  ASSUME SpotsInv, NEW p \in Speakers, says[p] = <<>>, NEW dx \in Heard, NEW spots, NEW pruned \in Seq(DxEvent),
         InOrder(spots), IdsOf(spots) \subseteq IdsOf(store),
         \A i \in 1..Len(pruned) : pruned[i].kind = "deleted",
         \A id : id \in IdsOf(spots) <=> id \in IdsOf(store) /\ \A i \in 1..Len(pruned) : pruned[i].id # id,
         AddSpot(p, spots, dx, pruned), UNCHANGED <<dxClock, dxEvents, onMap>>
  PROVE  SpotsInv'
<1> DEFINE spot == SpotFor(spots, dx)
           events == Append(pruned, Added(spot))
<1>1. spot \in AnySpot /\ spot.at = dxClock /\ spot.id \in Nat
  <2>1. spot \in AnySpot /\ spot.at = dxClock
    BY SpotForIs DEF SpotsInv, StoreInv
  <2> HIDE DEF spot
  <2> QED BY <2>1 DEF AnySpot
<1>2. /\ ChangeStore(p, StoreWith(spots, spot), events)
      /\ nextId' = IF spot.id > nextId THEN spot.id ELSE nextId
  BY DEF AddSpot
<1> HIDE DEF spot
<1>3. InOrder(StoreWith(spots, spot)) /\ IdsOf(StoreWith(spots, spot)) = IdsOf(spots) \cup {spot.id}
  BY <1>1, StoreWithIs DEF SpotsInv, StoreInv
<1>4. Added(spot) \in DxEvent /\ Added(spot).id = spot.id /\ Added(spot).kind = "added"
  BY <1>1 DEF Added, DxEvent
<1>5. events \in Seq(DxEvent) /\ events # <<>>
  BY <1>4, AppendProperties
<1>6. ASSUME NEW q \in Seq(DxEvent), Tells(onMap, q, store)
      PROVE  Tells(onMap, q \o events, StoreWith(spots, spot))
  <2>1. Tells(onMap, q \o pruned, spots)
    BY <1>6, DeletionsTell
  <2>2. q \o events = Append(q \o pruned, Added(spot)) /\ q \o pruned \in Seq(DxEvent)
    BY <1>4
  <2>3. \A id : Shown(onMap, q \o events, id) <=> IF spot.id = id THEN TRUE ELSE Shown(onMap, q \o pruned, id)
    <3> TAKE id
    <3> HIDE DEF events
    <3>1. Shown(onMap, Append(q \o pruned, Added(spot)), id)
            <=> IF spot.id = id THEN TRUE ELSE Shown(onMap, q \o pruned, id)
      BY <1>4, <2>2, ShownAppend
    <3> QED BY <2>2, <3>1
  <2> QED BY <1>3, <2>1, <2>3 DEF Tells
<1>7. EventTypes' /\ EventsTell'
  <2> HIDE DEF events
  <2> QED BY <1>2, <1>5, <1>6, ChangeIsTold DEF SpotsInv
<1>8. StoreInv'
  <2>1. store' = StoreWith(spots, spot) /\ dxClock' = dxClock
    BY <1>2 DEF ChangeStore
  <2>2. InOrder(store)'
    BY <1>3, <2>1 DEF InOrder
  <2>3. IdsOf(store)' = IdsOf(spots) \cup {spot.id}
    BY <1>3, <2>1 DEF IdsOf
  <2>4. \A id \in IdsOf(store) : id \in Nat /\ id <= nextId
    <3>1. \A i \in 1..Len(store) : store[i].id \in Nat
      BY SpotSeq DEF SpotsInv, StoreInv, InOrder
    <3> QED BY <3>1 DEF SpotsInv, StoreInv, IdsOf
  <2>5. nextId \in Nat
    BY DEF SpotsInv, StoreInv
  <2>6. \A id \in IdsOf(store)' : id <= nextId'
    BY <1>1, <1>2, <2>3, <2>4, <2>5
  <2> QED BY <1>1, <1>2, <2>1, <2>2, <2>5, <2>6 DEF SpotsInv, StoreInv
<1> QED BY <1>7, <1>8 DEF SpotsInv

(* The events and the spots are as they were.                               *)
LEMMA NothingNewToTell ==
  ASSUME EventTypes, EventsTell, UNCHANGED <<store, says, outrun, dxEvents, onMap>>
  PROVE  EventTypes' /\ EventsTell'
<1>1. EventTypes'
  BY DEF EventTypes
<1>2. CASE outrun
  BY <1>1, <1>2 DEF EventsTell
<1>3. CASE ~outrun
  <2>1. PICK p \in Speakers : OthersAreQuiet(p) /\ Tells(onMap, dxEvents \o says[p], store)
    BY <1>3 DEF EventsTell
  <2>2. Tells(onMap', dxEvents' \o says'[p], store')
    BY <2>1
  <2>3. \A q \in Speakers \ {p} : says'[q] = <<>>
    BY <2>1 DEF OthersAreQuiet
  <2> QED BY <1>1, <2>2, <2>3 DEF EventsTell, OthersAreQuiet
<1> QED BY <1>2, <1>3

LEMMA NoOneAsks ==
  ASSUME SpotsInv, UNCHANGED <<storeVars, dxClock, dxEvents, onMap>>
  PROVE  SpotsInv'
<1>1. /\ store' = store /\ nextId' = nextId /\ says' = says /\ outrun' = outrun
      /\ dxClock' = dxClock /\ dxEvents' = dxEvents /\ onMap' = onMap
  BY DEF storeVars
<1>2. StoreInv'
  BY <1>1 DEF SpotsInv, StoreInv, InOrder, IdsOf
<1>3. EventTypes' /\ EventsTell'
  BY <1>1, NothingNewToTell DEF SpotsInv
<1> QED BY <1>2, <1>3 DEF SpotsInv

LEMMA FirstIsMoved ==
  ASSUME NEW q \in Seq(DxEvent), NEW r \in Seq(DxEvent), r # <<>>
  PROVE  Append(q, Head(r)) \o Tail(r) = q \o r
<1> DEFINE e == Head(r)
           t == Tail(r)
           one == <<e>>
<1>1. e \in DxEvent /\ t \in Seq(DxEvent)
  BY HeadTailProperties
<1>2. r = one \o t
  OBVIOUS
<1> HIDE DEF e, t
<1>3. one \in Seq(DxEvent) /\ Append(q, e) = q \o one
  BY <1>1, AppendIsConcat
<1> HIDE DEF one
<1>4. (q \o one) \o t = q \o (one \o t)
  BY <1>1, <1>3, ConcatAssociative
<1> QED BY <1>2, <1>3, <1>4 DEF e, t

LEMMA SayStep == ASSUME SpotsInv, NEW p \in Speakers, Say(p) PROVE SpotsInv'
<1> DEFINE all == Append(dxEvents, Head(says[p]))
<1>1. /\ says[p] # <<>> /\ says[p] \in Seq(DxEvent) /\ dxEvents \in Seq(DxEvent)
      /\ dxEvents' = IF Len(all) > DxBuffer THEN Tail(all) ELSE all
      /\ outrun' = (outrun \/ Len(all) > DxBuffer)
      /\ says' = [says EXCEPT ![p] = Tail(@)]
      /\ store' = store /\ nextId' = nextId /\ dxClock' = dxClock /\ onMap' = onMap
  BY DEF Say, SpotsInv, EventTypes
<1>2. Head(says[p]) \in DxEvent /\ Tail(says[p]) \in Seq(DxEvent)
  BY <1>1, HeadTailProperties
<1>3. all \in Seq(DxEvent) /\ Tail(all) \in Seq(DxEvent)
  <2>1. all \in Seq(DxEvent) /\ all # <<>>
    BY <1>1, <1>2, AppendProperties
  <2> HIDE DEF all
  <2> QED BY <2>1, HeadTailProperties
<1>4. all \o Tail(says[p]) = dxEvents \o says[p]
  BY <1>1, FirstIsMoved
<1> HIDE DEF all
<1>5. StoreInv'
  BY <1>1 DEF SpotsInv, StoreInv, InOrder, IdsOf
<1>6. EventTypes'
  <2>1. outrun' \in BOOLEAN
    BY <1>1 DEF SpotsInv, EventTypes
  <2>2. says' \in [Speakers -> Seq(DxEvent)]
    BY <1>1, <1>2 DEF SpotsInv, EventTypes
  <2> QED BY <1>1, <1>3, <2>1, <2>2 DEF EventTypes
<1>7. EventsTell'
  <2>1. CASE outrun \/ Len(all) > DxBuffer
    BY <1>1, <2>1 DEF EventsTell
  <2>2. CASE ~outrun /\ ~(Len(all) > DxBuffer)
    <3>1. PICK r \in Speakers : OthersAreQuiet(r) /\ Tells(onMap, dxEvents \o says[r], store)
      BY <2>2 DEF SpotsInv, EventsTell
    <3>2. r = p
      BY <1>1, <3>1 DEF OthersAreQuiet
    <3>3. says'[p] = Tail(says[p]) /\ \A q \in Speakers \ {p} : says'[q] = says[q]
      BY <1>1 DEF SpotsInv, EventTypes
    <3>4. Tells(onMap', dxEvents' \o says'[p], store')
      BY <1>1, <1>4, <2>2, <3>1, <3>2, <3>3
    <3>5. \A q \in Speakers \ {p} : says'[q] = <<>>
      BY <3>1, <3>2, <3>3 DEF OthersAreQuiet
    <3> QED BY <3>4, <3>5 DEF EventsTell, OthersAreQuiet
  <2> QED BY <2>1, <2>2
<1> QED BY <1>5, <1>6, <1>7 DEF SpotsInv

LEMMA BridgeStep == ASSUME SpotsInv, Bridge PROVE SpotsInv'
<1>1. /\ dxEvents # <<>> /\ dxEvents \in Seq(DxEvent)
      /\ onMap' = MapAfter(onMap, Head(dxEvents)) /\ dxEvents' = Tail(dxEvents)
      /\ says' = says /\ outrun' = outrun /\ store' = store /\ nextId' = nextId /\ dxClock' = dxClock
  BY DEF Bridge, MapAfter, storeVars, SpotsInv, EventTypes
<1>2. Tail(dxEvents) \in Seq(DxEvent)
  BY <1>1, HeadTailProperties
<1>3. StoreInv'
  BY <1>1 DEF SpotsInv, StoreInv, InOrder, IdsOf
<1>4. EventTypes'
  BY <1>1, <1>2 DEF SpotsInv, EventTypes
<1>5. EventsTell'
  <2>1. CASE outrun
    BY <1>1, <2>1 DEF EventsTell
  <2>2. CASE ~outrun
    <3>1. PICK p \in Speakers : OthersAreQuiet(p) /\ Tells(onMap, dxEvents \o says[p], store)
      BY <2>2 DEF SpotsInv, EventsTell
    <3> DEFINE q == dxEvents \o says[p]
    <3>2. says[p] \in Seq(DxEvent)
      BY DEF SpotsInv, EventTypes
    <3>3. q \in Seq(DxEvent) /\ q # <<>> /\ Head(q) = Head(dxEvents) /\ Tail(q) = Tail(dxEvents) \o says[p]
      BY <1>1, <3>2
    <3> HIDE DEF q
    <3>4. Tells(onMap', Tail(q), store')
      <4>1. \A id : Shown(MapAfter(onMap, Head(q)), Tail(q), id) <=> Shown(onMap, q, id)
        BY <3>3, ShownHead
      <4>2. Tells(onMap, q, store)
        BY <3>1 DEF q
      <4>3. Tells(MapAfter(onMap, Head(q)), Tail(q), store)
        BY <4>1, <4>2 DEF Tells
      <4> QED BY <1>1, <3>3, <4>3
    <3>5. Tells(onMap', dxEvents' \o says'[p], store')
      BY <1>1, <3>3, <3>4
    <3>6. \A r \in Speakers \ {p} : says'[r] = <<>>
      BY <1>1, <3>1 DEF OthersAreQuiet
    <3> QED BY <3>5, <3>6 DEF EventsTell, OthersAreQuiet
  <2> QED BY <2>1, <2>2
<1> QED BY <1>3, <1>4, <1>5 DEF SpotsInv

LEMMA AbortSilences ==
  ASSUME SpotsInv, NEW k \in Tasks, AbortTakes(k)
  PROVE  SpotsInv'
<1>1. /\ says' = [says EXCEPT ![k] = <<>>] /\ outrun' = (outrun \/ says[k] # <<>>)
      /\ store' = store /\ nextId' = nextId /\ dxClock' = dxClock /\ dxEvents' = dxEvents /\ onMap' = onMap
  BY DEF AbortTakes
<1>2. CASE says[k] = <<>>
  <2>1. says' = says /\ outrun' = outrun
    BY <1>1, <1>2 DEF SpotsInv, EventTypes
  <2> QED BY <1>1, <2>1, NoOneAsks DEF storeVars
<1>3. CASE says[k] # <<>>
  <2>1. StoreInv'
    BY <1>1 DEF SpotsInv, StoreInv, InOrder, IdsOf
  <2>2. EventTypes'
    <3>1. says' \in [Speakers -> Seq(DxEvent)]
      <4>1. <<>> \in Seq(DxEvent)
        OBVIOUS
      <4> QED BY <1>1, <4>1 DEF SpotsInv, EventTypes
    <3>2. outrun' = TRUE
      BY <1>1, <1>3
    <3> QED BY <1>1, <3>1, <3>2 DEF SpotsInv, EventTypes
  <2>3. EventsTell'
    BY <1>1, <1>3 DEF EventsTell
  <2> QED BY <2>1, <2>2, <2>3 DEF SpotsInv
<1> QED BY <1>2, <1>3

LEMMA ClearStep ==
  ASSUME SpotsInv, says[Requests] = <<>>, store # <<>>, ChangeStore(Requests, <<>>, DeletedAll(store)),
         UNCHANGED <<nextId, dxClock, dxEvents, onMap>>
  PROVE  SpotsInv'
<1> DEFINE r == DeletedAll(store)
           l == Len(store)
<1>1. /\ store \in Seq(AnySpot) /\ l \in Nat /\ l # 0
      /\ \A i \in 1..l : store[i].id \in Nat
  <2>1. store \in Seq(AnySpot)
    BY DEF SpotsInv, StoreInv, InOrder
  <2> QED BY <2>1, SpotSeq
<1>2. /\ r \in Seq(DxEvent) /\ Len(r) = l
      /\ \A i \in 1..l : r[i].kind = "deleted" /\ r[i].id = store[i].id
  <2>1. r = [i \in 1..l |-> [kind |-> "deleted", id |-> store[i].id]]
    BY DEF DeletedAll, Deleted
  <2>2. \A i \in 1..l : [kind |-> "deleted", id |-> store[i].id] \in DxEvent
    BY <1>1 DEF DxEvent
  <2> HIDE DEF r
  <2>3. DOMAIN r = 1..l /\ \A i \in 1..l : r[i] \in DxEvent
    BY <2>1, <2>2
  <2> QED BY <1>1, <2>1, <2>3
<1> HIDE DEF r
<1>3. IdsOf(<<>>) = {}
  BY DEF IdsOf
<1>4. \A id : id \in IdsOf(<<>>) <=> id \in IdsOf(store) /\ \A i \in 1..Len(r) : r[i].id # id
  BY <1>2, <1>3 DEF IdsOf
<1>5. \A q \in Seq(DxEvent) : Tells(onMap, q, store) => Tells(onMap, q \o r, <<>>)
  BY <1>2, <1>4, DeletionsTell
<1>6. EventTypes' /\ EventsTell'
  <2>1. Requests \in Speakers /\ r # <<>>
    BY <1>1, <1>2 DEF Speakers
  <2>2. ChangeStore(Requests, <<>>, r)
    BY DEF r
  <2> QED BY <1>2, <1>5, <2>1, <2>2, ChangeIsTold DEF SpotsInv
<1>7. StoreInv'
  <2>1. store' = <<>> /\ nextId' = nextId /\ dxClock' = dxClock
    BY DEF ChangeStore
  <2> QED BY <2>1 DEF SpotsInv, StoreInv, InOrder, IdsOf
<1> QED BY <1>6, <1>7 DEF SpotsInv

LEMMA DxTickStep == ASSUME SpotsInv, DxTick PROVE SpotsInv'
<1>1. /\ dxClock' = dxClock + 1 /\ dxClock \in Nat
      /\ store' = store /\ nextId' = nextId /\ says' = says /\ outrun' = outrun
      /\ dxEvents' = dxEvents /\ onMap' = onMap
  BY DEF DxTick, storeVars, SpotsInv, StoreInv
<1>2. StoreInv'
  <2>1. \A i \in 1..Len(store) : store[i].at \in Nat
    BY SpotSeq DEF SpotsInv, StoreInv, InOrder
  <2>2. InOrder(store)'
    BY <1>1, <2>1 DEF SpotsInv, StoreInv, InOrder
  <2>3. IdsOf(store)' = IdsOf(store)
    BY <1>1 DEF IdsOf
  <2> QED BY <1>1, <2>2, <2>3 DEF SpotsInv, StoreInv
<1>3. EventTypes' /\ EventsTell'
  BY <1>1, NothingNewToTell DEF SpotsInv
<1> QED BY <1>2, <1>3 DEF SpotsInv

LEMMA SpotsInit == DxInit => SpotsInv
<1> SUFFICES ASSUME DxInit PROVE SpotsInv
  OBVIOUS
<1>1. /\ store = <<>> /\ nextId = 0 /\ dxClock = 0 /\ dxEvents = <<>> /\ onMap = {} /\ outrun = FALSE
      /\ says = [p \in Speakers |-> <<>>]
  BY DEF DxInit
<1>2. StoreInv
  BY <1>1 DEF StoreInv, InOrder, IdsOf
<1>3. EventTypes
  <2>1. <<>> \in Seq(DxEvent)
    OBVIOUS
  <2> QED BY <1>1, <2>1 DEF EventTypes
<1>4. EventsTell
  <2>1. Requests \in Speakers /\ OthersAreQuiet(Requests) /\ says[Requests] = <<>>
    BY <1>1 DEF Speakers, OthersAreQuiet
  <2>2. dxEvents \o says[Requests] = <<>>
    BY <1>1, <2>1
  <2>3. Tells(onMap, <<>>, store)
    BY <1>1, NoEvents DEF Tells, IdsOf
  <2> QED BY <2>1, <2>2, <2>3 DEF EventsTell
<1> QED BY <1>2, <1>3, <1>4 DEF SpotsInv

LEMMA SpotsStep == SpotsInv /\ [DxNext]_dxVars => SpotsInv'
<1> SUFFICES ASSUME SpotsInv, [DxNext]_dxVars PROVE SpotsInv'
  OBVIOUS
<1>1. CASE UNCHANGED dxVars
  BY <1>1, NoOneAsks DEF dxVars, storeVars
<1>2. CASE StopTask \/ AbortTask \/ StartTask \/ KeepHandle \/ DropApply \/ SendText
  BY <1>2, NoOneAsks DEF StopTask, AbortTask, StartTask, KeepHandle, DropApply, SendText
<1>3. ASSUME NEW n \in 1..MaxSends, SendSteps(n) PROVE SpotsInv'
  BY <1>3, NoOneAsks DEF SendSteps, CloneSender, QueueText
<1>4. ASSUME NEW k \in Tasks, Reconnect(k) \/ TaskSends(k) \/ ChannelEnds(k) \/ Connects(k) \/ Breaks(k)
      PROVE  SpotsInv'
  BY <1>4, NoOneAsks DEF Reconnect, TaskSends, ChannelEnds, Connects, Breaks
<1>5. ASSUME NEW k \in Tasks, AbortTakes(k) PROVE SpotsInv'
  BY <1>5, AbortSilences
<1>6. ASSUME NEW k \in Tasks, BeginConnect(k) \/ PruneTick(k) PROVE SpotsInv'
  BY <1>6, PruneStep DEF BeginConnect, PruneTick, MayRun
<1>7. ASSUME NEW k \in Tasks, ClusterLine(k) PROVE SpotsInv'
  <2>1. PICK dx \in Heard : AddSpot(k, Pruned(store), dx, Prunes(store))
    BY <1>7 DEF ClusterLine
  <2>2. /\ InOrder(Pruned(store)) /\ Prunes(store) \in Seq(DxEvent)
        /\ \A i \in 1..Len(Prunes(store)) : Prunes(store)[i].kind = "deleted"
        /\ \A id : id \in IdsOf(Pruned(store)) <=>
                     id \in IdsOf(store) /\ \A i \in 1..Len(Prunes(store)) : Prunes(store)[i].id # id
        /\ IdsOf(Pruned(store)) \subseteq IdsOf(store)
    BY PrunedIs DEF SpotsInv, StoreInv
  <2>3. k \in Speakers /\ says[k] = <<>> /\ dxClock' = dxClock /\ dxEvents' = dxEvents /\ onMap' = onMap
    BY <1>7 DEF ClusterLine, MayRun, Speakers
  <2> QED BY <2>1, <2>2, <2>3, AddStep
<1>8. ASSUME ManualSpot PROVE SpotsInv'
  <2>1. PICK dx \in Heard : AddSpot(Requests, store, dx, <<>>)
    BY <1>8 DEF ManualSpot
  <2>2. InOrder(store) /\ <<>> \in Seq(DxEvent) /\ Len(<<>>) = 0
    BY DEF SpotsInv, StoreInv
  <2>3. /\ Requests \in Speakers /\ says[Requests] = <<>>
        /\ dxClock' = dxClock /\ dxEvents' = dxEvents /\ onMap' = onMap
    BY <1>8 DEF ManualSpot, Speakers
  <2> DEFINE none == <<>>
  <2>4. /\ \A i \in 1..Len(none) : none[i].kind = "deleted"
        /\ \A id : id \in IdsOf(store) <=> id \in IdsOf(store) /\ \A i \in 1..Len(none) : none[i].id # id
    BY <2>2
  <2> QED BY <2>1, <2>2, <2>3, <2>4, AddStep
<1>9. ASSUME ClearSpots PROVE SpotsInv'
  BY <1>9, ClearStep DEF ClearSpots
<1>10. ASSUME NEW p \in Speakers, Say(p) PROVE SpotsInv'
  BY <1>10, SayStep
<1> QED
  BY <1>1, <1>2, <1>3, <1>4, <1>5, <1>6, <1>7, <1>8, <1>9, <1>10, BridgeStep, DxTickStep
  DEF DxNext, Apply, DxTaskSteps

(* When nothing is left to tell, the map shows the store.                   *)
LEMMA SpotsAreShown == SpotsInv => MapFollowsTheStore
<1> SUFFICES ASSUME SpotsInv PROVE MapFollowsTheStore
  OBVIOUS
<1>1. OldSpotsAreFound
  BY DEF SpotsInv, StoreInv, InOrder, OldSpotsAreFound
<1>2. ASSUME dxEvents = <<>>, \A p \in Speakers : says[p] = <<>>, ~outrun
      PROVE  onMap = {s.id : s \in ToSet(store)}
  <2>1. PICK p \in Speakers : Tells(onMap, dxEvents \o says[p], store)
    BY <1>2 DEF SpotsInv, EventsTell
  <2>2. dxEvents \o says[p] = <<>>
    BY <1>2
  <2>3. \A id : id \in onMap <=> id \in IdsOf(store)
    BY <2>1, <2>2, NoEvents DEF Tells
  <2>4. ToSet(store) = {store[i] : i \in 1..Len(store)}
    BY SpotSeq DEF SpotsInv, StoreInv, InOrder
  <2>5. IdsOf(store) = {s.id : s \in ToSet(store)}
    BY <2>4 DEF IdsOf
  <2>6. \A id : id \in onMap <=> id \in {s.id : s \in ToSet(store)}
    BY <2>3, <2>5
  <2> QED BY <2>6
<1> QED BY <1>1, <1>2 DEF MapFollowsTheStore, MapShowsTheStore

-----------------------------------------------------------------------------
(* The tasks of the cluster and the texts they are to send.                 *)

TaskStates == {"none", "begin", "connecting", "session", "waiting", "ended"}
LiveStates == {"begin", "connecting", "session", "waiting"}
AnyTask == [state : TaskStates, aborted : BOOLEAN, once : BOOLEAN, commands : Seq(Nat)]
AnyApply == [step : {"idle", "stop", "start", "keep"}, enabled : BOOLEAN, task : 0..3]
AnySend == [state : {"failed", "asked", "cloned", "queued", "sent"}, to : 0..3]

TaskTypes ==
  /\ applying \in AnyApply /\ dxTask \in [Tasks -> AnyTask] /\ sends \in Seq(AnySend)
  /\ handle \in 0..3 /\ current \in 0..3

(* The task of the last configuration has the channel and goes on.          *)
CurrentGoesOn ==
  /\ outbound = current
  /\ applying.step \in {"stop", "start"} => current = 0
  /\ current # 0 => dxTask[current].state \in LiveStates /\ ~dxTask[current].aborted

(* Who is or will be kept was started.                                      *)
KeptWasStarted ==
  /\ applying.step = "keep" => applying.task \in Tasks /\ dxTask[applying.task].state # "none"
  /\ handle # 0 => dxTask[handle].state # "none"

(* Only a task that was started is aborted or has commands, and one that    *)
(* ended has none.                                                          *)
IdleTasks ==
  \A k \in Tasks :
    /\ dxTask[k].state = "none" => ~dxTask[k].aborted /\ dxTask[k].commands = <<>>
    /\ dxTask[k].state = "ended" => dxTask[k].commands = <<>>

IsAmong(n, texts) == \E i \in 1..Len(texts) : texts[i] = n
TextsHaveATask ==
  \A n \in 1..Len(sends) :
    /\ sends[n].state = "cloned" => sends[n].to \in Tasks /\ dxTask[sends[n].to].state # "none"
    /\ sends[n].state = "queued" => sends[n].to \in Tasks /\ IsAmong(n, dxTask[sends[n].to].commands)

ListenerInv == TaskTypes /\ CurrentGoesOn /\ KeptWasStarted /\ IdleTasks /\ TextsHaveATask

LEMMA ListenerInit == DxInit => ListenerInv
<1> SUFFICES ASSUME DxInit PROVE ListenerInv
  OBVIOUS
<1>1. /\ applying = [step |-> "idle", enabled |-> FALSE, task |-> 0]
      /\ dxTask = [k \in Tasks |-> [state |-> "none", aborted |-> FALSE, once |-> FALSE, commands |-> <<>>]]
      /\ handle = 0 /\ outbound = 0 /\ current = 0 /\ sends = <<>>
  BY DEF DxInit, Resting, NoTask
<1>2. TaskTypes
  <2>1. <<>> \in Seq(Nat) /\ <<>> \in Seq(AnySend)
    OBVIOUS
  <2>2. [state |-> "none", aborted |-> FALSE, once |-> FALSE, commands |-> <<>>] \in AnyTask
    BY <2>1 DEF AnyTask, TaskStates
  <2>3. applying \in AnyApply
    BY <1>1 DEF AnyApply
  <2> QED BY <1>1, <2>1, <2>2, <2>3 DEF TaskTypes
<1>3. CurrentGoesOn /\ KeptWasStarted /\ IdleTasks /\ TextsHaveATask
  BY <1>1 DEF CurrentGoesOn, KeptWasStarted, IdleTasks, TextsHaveATask
<1> QED BY <1>2, <1>3 DEF ListenerInv

(* A task that changes but neither ends nor loses or gets a command.        *)
LEMMA TaskGoesOn ==
  ASSUME ListenerInv, NEW k \in Tasks, dxTask[k].state \in LiveStates,
         NEW t \in AnyTask, dxTask' = [dxTask EXCEPT ![k] = t], t.state \in LiveStates,
         t.aborted = dxTask[k].aborted, t.commands = dxTask[k].commands,
         UNCHANGED <<applying, handle, outbound, current, sends>>
  PROVE  ListenerInv'
<1>1. /\ dxTask' \in [Tasks -> AnyTask] /\ dxTask'[k] = t
      /\ \A j \in Tasks \ {k} : dxTask'[j] = dxTask[j]
  BY DEF ListenerInv, TaskTypes
<1>2. TaskTypes'
  BY <1>1 DEF ListenerInv, TaskTypes
<1>3. \A j \in Tasks : dxTask'[j].commands = dxTask[j].commands /\ dxTask'[j].aborted = dxTask[j].aborted
  BY <1>1
<1>4. \A j \in Tasks : /\ dxTask'[j].state = "none" <=> dxTask[j].state = "none"
                       /\ dxTask'[j].state = "ended" <=> dxTask[j].state = "ended"
                       /\ dxTask[j].state \in LiveStates => dxTask'[j].state \in LiveStates
  BY <1>1 DEF LiveStates
<1>5. CurrentGoesOn' /\ KeptWasStarted'
  <2>1. current \in 0..3 /\ handle \in 0..3 /\ (current # 0 => current \in Tasks) /\ (handle # 0 => handle \in Tasks)
    BY DEF ListenerInv, TaskTypes, Tasks
  <2>2. CurrentGoesOn /\ KeptWasStarted
    BY DEF ListenerInv
  <2> QED BY <1>3, <1>4, <2>1, <2>2 DEF CurrentGoesOn, KeptWasStarted
<1>6. IdleTasks'
  BY <1>3, <1>4 DEF ListenerInv, IdleTasks
<1>7. TextsHaveATask'
  BY <1>3, <1>4 DEF ListenerInv, TextsHaveATask
<1> QED BY <1>2, <1>5, <1>6, <1>7 DEF ListenerInv

(* Steps that leave the tasks and the texts alone.                          *)
LEMMA TasksAsTheyWere ==
  ASSUME ListenerInv, UNCHANGED <<applying, dxTask, handle, outbound, current, sends>>
  PROVE  ListenerInv'
BY DEF ListenerInv, TaskTypes, CurrentGoesOn, KeptWasStarted, IdleTasks, TextsHaveATask

LEMMA StopTaskStep == ASSUME ListenerInv, StopTask PROVE ListenerInv'
<1>1. PICK enabled \in BOOLEAN : applying' = [step |-> "stop", enabled |-> enabled, task |-> 0]
  BY DEF StopTask
<1>2. /\ outbound' = 0 /\ current' = 0 /\ dxTask' = dxTask /\ handle' = handle /\ sends' = sends
  BY DEF StopTask
<1>3. applying' \in AnyApply
  BY <1>1 DEF AnyApply
<1> QED BY <1>1, <1>2, <1>3
  DEF ListenerInv, TaskTypes, CurrentGoesOn, KeptWasStarted, IdleTasks, TextsHaveATask

LEMMA AbortTaskStep == ASSUME ListenerInv, AbortTask PROVE ListenerInv'
<1>1. /\ applying.step = "stop" /\ handle' = 0 /\ outbound' = outbound /\ current' = current /\ sends' = sends
      /\ dxTask' = IF handle = 0 THEN dxTask ELSE [dxTask EXCEPT ![handle].aborted = TRUE]
      /\ applying' = IF applying.enabled THEN [applying EXCEPT !.step = "start"] ELSE Resting
  BY DEF AbortTask
<1>2. current = 0 /\ outbound = 0 /\ (handle # 0 => handle \in Tasks /\ dxTask[handle].state # "none")
  BY <1>1 DEF ListenerInv, CurrentGoesOn, KeptWasStarted, TaskTypes, Tasks
<1>3. applying' \in AnyApply /\ applying'.step \in {"start", "idle"}
  BY <1>1 DEF ListenerInv, TaskTypes, AnyApply, Resting
<1>4. /\ dxTask' \in [Tasks -> AnyTask]
      /\ \A k \in Tasks : /\ dxTask'[k].state = dxTask[k].state /\ dxTask'[k].commands = dxTask[k].commands
                          /\ dxTask[k].state = "none" => dxTask'[k].aborted = dxTask[k].aborted
  <2>1. CASE handle = 0
    BY <1>1, <2>1 DEF ListenerInv, TaskTypes
  <2>2. CASE handle # 0
    <3> DEFINE t == [dxTask[handle] EXCEPT !.aborted = TRUE]
    <3>1. dxTask[handle] \in AnyTask
      BY <1>2, <2>2 DEF ListenerInv, TaskTypes
    <3>2. /\ t \in AnyTask /\ t.state = dxTask[handle].state /\ t.commands = dxTask[handle].commands
      BY <3>1 DEF AnyTask
    <3>3. dxTask' = [dxTask EXCEPT ![handle] = t]
      BY <1>1, <2>2
    <3> HIDE DEF t
    <3> QED BY <1>2, <2>2, <3>2, <3>3 DEF ListenerInv, TaskTypes
  <2> QED BY <2>1, <2>2
<1>5. TaskTypes'
  BY <1>1, <1>3, <1>4 DEF ListenerInv, TaskTypes
<1>6. CurrentGoesOn' /\ KeptWasStarted'
  BY <1>1, <1>2, <1>3 DEF CurrentGoesOn, KeptWasStarted
<1>7. IdleTasks'
  BY <1>4 DEF ListenerInv, IdleTasks
<1>8. TextsHaveATask'
  BY <1>1, <1>4 DEF ListenerInv, TextsHaveATask
<1> QED BY <1>5, <1>6, <1>7, <1>8 DEF ListenerInv

LEMMA StartTaskStep == ASSUME ListenerInv, StartTask PROVE ListenerInv'
<1>1. PICK k \in Tasks : /\ dxTask[k].state = "none"
                         /\ dxTask' = [dxTask EXCEPT ![k].state = "begin"]
                         /\ outbound' = k /\ current' = k
                         /\ applying' = [applying EXCEPT !.step = "keep", !.task = k]
  BY DEF StartTask
<1>2. handle' = handle /\ sends' = sends
  BY DEF StartTask
<1> DEFINE t == [dxTask[k] EXCEPT !.state = "begin"]
<1>3. dxTask[k] \in AnyTask /\ k \in 0..3
  BY DEF ListenerInv, TaskTypes, Tasks
<1>4. t \in AnyTask /\ t.state = "begin" /\ t.commands = dxTask[k].commands /\ t.aborted = dxTask[k].aborted
  BY <1>3 DEF AnyTask, TaskStates
<1>5. dxTask' = [dxTask EXCEPT ![k] = t]
  BY <1>1
<1> HIDE DEF t
<1>6. /\ dxTask' \in [Tasks -> AnyTask] /\ dxTask'[k] = t
      /\ \A j \in Tasks \ {k} : dxTask'[j] = dxTask[j]
  BY <1>4, <1>5 DEF ListenerInv, TaskTypes
<1>7. applying' \in AnyApply /\ applying'.step = "keep" /\ applying'.task = k
  BY <1>1, <1>3 DEF ListenerInv, TaskTypes, AnyApply
<1>8. TaskTypes'
  BY <1>1, <1>2, <1>3, <1>6, <1>7 DEF ListenerInv, TaskTypes
<1>9. ~dxTask[k].aborted
  BY <1>1 DEF ListenerInv, IdleTasks
<1>10. CurrentGoesOn'
  BY <1>1, <1>4, <1>6, <1>7, <1>9 DEF CurrentGoesOn, LiveStates
<1>11. \A j \in Tasks : dxTask'[j].commands = dxTask[j].commands /\ (dxTask[j].state # "none" => dxTask'[j] = dxTask[j])
  BY <1>1, <1>4, <1>6
<1>12. KeptWasStarted'
  <2>1. handle # 0 => handle \in Tasks /\ dxTask[handle].state # "none"
    BY DEF ListenerInv, KeptWasStarted, TaskTypes, Tasks
  <2> QED BY <1>2, <1>4, <1>6, <1>7, <1>11, <2>1 DEF KeptWasStarted
<1>13. IdleTasks'
  <2>1. \A j \in Tasks \ {k} : /\ dxTask'[j].state = "none" => ~dxTask'[j].aborted /\ dxTask'[j].commands = <<>>
                               /\ dxTask'[j].state = "ended" => dxTask'[j].commands = <<>>
    BY <1>6 DEF ListenerInv, IdleTasks
  <2> QED BY <1>4, <1>6, <2>1 DEF IdleTasks
<1>14. TextsHaveATask'
  BY <1>2, <1>11 DEF ListenerInv, TextsHaveATask
<1> QED BY <1>8, <1>10, <1>12, <1>13, <1>14 DEF ListenerInv

LEMMA KeepHandleStep == ASSUME ListenerInv, KeepHandle PROVE ListenerInv'
<1>1. /\ applying.step = "keep" /\ handle' = applying.task /\ applying' = Resting
      /\ dxTask' = dxTask /\ outbound' = outbound /\ current' = current /\ sends' = sends
  BY DEF KeepHandle
<1>2. applying' \in AnyApply /\ applying'.step = "idle" /\ applying.task \in 0..3
  BY <1>1 DEF ListenerInv, TaskTypes, AnyApply, Resting
<1>3. TaskTypes'
  BY <1>1, <1>2 DEF ListenerInv, TaskTypes
<1>4. CurrentGoesOn' /\ KeptWasStarted'
  BY <1>1, <1>2 DEF ListenerInv, CurrentGoesOn, KeptWasStarted
<1>5. IdleTasks' /\ TextsHaveATask'
  BY <1>1 DEF ListenerInv, IdleTasks, TextsHaveATask
<1> QED BY <1>3, <1>4, <1>5 DEF ListenerInv

LEMMA DropApplyStep == ASSUME ListenerInv, DropApply PROVE ListenerInv'
<1>1. /\ applying' = Resting
      /\ dxTask' = dxTask /\ handle' = handle /\ outbound' = outbound /\ current' = current /\ sends' = sends
  BY DEF DropApply
<1>2. applying' \in AnyApply /\ applying'.step = "idle"
  BY <1>1 DEF AnyApply, Resting
<1>3. TaskTypes'
  BY <1>1, <1>2 DEF ListenerInv, TaskTypes
<1>4. CurrentGoesOn' /\ KeptWasStarted'
  BY <1>1, <1>2 DEF ListenerInv, CurrentGoesOn, KeptWasStarted
<1>5. IdleTasks' /\ TextsHaveATask'
  BY <1>1 DEF ListenerInv, IdleTasks, TextsHaveATask
<1> QED BY <1>3, <1>4, <1>5 DEF ListenerInv

(* A task ends, and every text in its channel is answered.                  *)
LEMMA TaskEnds ==
  ASSUME ListenerInv, NEW k \in Tasks, k # current, dxTask' = EndTask(k),
         UNCHANGED <<applying, handle, outbound, current>>, sends' \in Seq(AnySend), Len(sends') = Len(sends),
         \A n \in 1..Len(sends) :
           \/ sends'[n] = sends[n] /\ ~IsAmong(n, dxTask[k].commands)
           \/ sends'[n].state = "failed"
  PROVE  ListenerInv'
<1> DEFINE t == [NoTask EXCEPT !.state = "ended"]
<1>1. t \in AnyTask /\ t.state = "ended" /\ t.commands = <<>>
  <2>1. <<>> \in Seq(Nat)
    OBVIOUS
  <2> QED BY <2>1 DEF NoTask, AnyTask, TaskStates
<1>2. dxTask' = [dxTask EXCEPT ![k] = t]
  BY DEF EndTask
<1> HIDE DEF t
<1>3. dxTask' \in [Tasks -> AnyTask] /\ dxTask'[k] = t /\ \A j \in Tasks \ {k} : dxTask'[j] = dxTask[j]
  BY <1>1, <1>2 DEF ListenerInv, TaskTypes
<1>4. TaskTypes'
  BY <1>3 DEF ListenerInv, TaskTypes
<1>5. CurrentGoesOn' /\ KeptWasStarted'
  <2>1. current \in 0..3 /\ handle \in 0..3 /\ (current # 0 => current \in Tasks \ {k}) /\ (handle # 0 => handle \in Tasks)
    BY DEF ListenerInv, TaskTypes, Tasks
  <2>2. CurrentGoesOn /\ KeptWasStarted
    BY DEF ListenerInv
  <2>3. \A j \in Tasks : dxTask[j].state # "none" => dxTask'[j].state # "none"
    BY <1>1, <1>3
  <2> QED BY <1>1, <1>3, <2>1, <2>2, <2>3 DEF CurrentGoesOn, KeptWasStarted
<1>6. IdleTasks'
  <2>1. \A j \in Tasks \ {k} : /\ dxTask'[j].state = "none" => ~dxTask'[j].aborted /\ dxTask'[j].commands = <<>>
                               /\ dxTask'[j].state = "ended" => dxTask'[j].commands = <<>>
    BY <1>3 DEF ListenerInv, IdleTasks
  <2> QED BY <1>1, <1>3, <2>1 DEF IdleTasks
<1>7. TextsHaveATask'
  <2> SUFFICES ASSUME NEW n \in 1..Len(sends)
               PROVE  /\ sends'[n].state = "cloned" => sends'[n].to \in Tasks /\ dxTask'[sends'[n].to].state # "none"
                      /\ sends'[n].state = "queued" => sends'[n].to \in Tasks /\ IsAmong(n, dxTask'[sends'[n].to].commands)
    BY DEF TextsHaveATask
  <2>1. CASE sends'[n].state = "failed"
    BY <2>1
  <2>2. CASE sends'[n] = sends[n] /\ ~IsAmong(n, dxTask[k].commands)
    <3>1. /\ sends[n].state = "cloned" => sends[n].to \in Tasks /\ dxTask[sends[n].to].state # "none"
          /\ sends[n].state = "queued" => sends[n].to \in Tasks /\ IsAmong(n, dxTask[sends[n].to].commands)
      BY DEF ListenerInv, TextsHaveATask
    <3>2. \A j \in Tasks : dxTask[j].state # "none" => dxTask'[j].state # "none"
      BY <1>1, <1>3
    <3>3. \A j \in Tasks \ {k} : dxTask'[j].commands = dxTask[j].commands
      BY <1>3 DEF IsAmong
    <3> QED BY <2>2, <3>1, <3>2, <3>3
  <2> QED BY <2>1, <2>2
<1> QED BY <1>4, <1>5, <1>6, <1>7 DEF ListenerInv

LEMMA AbortTakesStep == ASSUME ListenerInv, NEW k \in Tasks, AbortTakes(k) PROVE ListenerInv'
<1>1. /\ dxTask[k].aborted /\ dxTask' = EndTask(k) /\ sends' = Failing(ToSet(dxTask[k].commands))
      /\ applying' = applying /\ handle' = handle /\ outbound' = outbound /\ current' = current
  BY DEF AbortTakes, ButTheTask
<1>2. k # current
  BY <1>1 DEF ListenerInv, CurrentGoesOn, Tasks
<1>3. sends \in Seq(AnySend) /\ dxTask[k].commands \in Seq(Nat)
  BY DEF ListenerInv, TaskTypes, AnyTask
<1>4. \A n : n \in ToSet(dxTask[k].commands) <=> IsAmong(n, dxTask[k].commands)
  <2> DEFINE q == dxTask[k].commands
  <2>1. DOMAIN q = 1..Len(q)
    BY <1>3
  <2> HIDE DEF q
  <2>2. \A n : n \in ToSet(q) <=> \E i \in 1..Len(q) : q[i] = n
    BY <2>1 DEF ToSet
  <2> QED BY <2>2 DEF q, IsAmong
<1> DEFINE failed(n) == [sends[n] EXCEPT !.state = "failed"]
<1>5. sends' = [n \in 1..Len(sends) |-> IF n \in ToSet(dxTask[k].commands) THEN failed(n) ELSE sends[n]]
  BY <1>1 DEF Failing
<1>6. \A n \in 1..Len(sends) : sends[n] \in AnySend /\ failed(n) \in AnySend /\ failed(n).state = "failed"
  <2>1. \A n \in 1..Len(sends) : sends[n] \in AnySend
    BY <1>3
  <2> QED BY <2>1 DEF AnySend
<1> HIDE DEF failed
<1>7. sends' \in Seq(AnySend) /\ Len(sends') = Len(sends)
  <2>1. DOMAIN sends' = 1..Len(sends) /\ (\A n \in 1..Len(sends) : sends'[n] \in AnySend) /\ Len(sends) \in Nat
    BY <1>3, <1>5, <1>6
  <2> QED BY <1>5, <2>1
<1>8. \A n \in 1..Len(sends) : \/ sends'[n] = sends[n] /\ ~IsAmong(n, dxTask[k].commands)
                               \/ sends'[n].state = "failed"
  BY <1>4, <1>5, <1>6
<1> QED BY <1>1, <1>2, <1>7, <1>8, TaskEnds

LEMMA ChannelEndsStep == ASSUME ListenerInv, NEW k \in Tasks, ChannelEnds(k) PROVE ListenerInv'
<1>1. /\ outbound # k /\ dxTask[k].commands = <<>> /\ dxTask' = EndTask(k) /\ sends' = sends
      /\ applying' = applying /\ handle' = handle /\ outbound' = outbound /\ current' = current
  BY DEF ChannelEnds, ChannelClosed, ButTheTask
<1>2. k # current /\ sends' \in Seq(AnySend) /\ Len(sends') = Len(sends)
  BY <1>1 DEF ListenerInv, CurrentGoesOn, TaskTypes
<1>3. \A n : ~IsAmong(n, dxTask[k].commands)
  BY <1>1 DEF IsAmong
<1> QED BY <1>1, <1>2, <1>3, TaskEnds

LEMMA TaskSendsStep == ASSUME ListenerInv, NEW k \in Tasks, TaskSends(k) PROVE ListenerInv'
<1> DEFINE c == dxTask[k].commands
           n == Head(c)
           t == [dxTask[k] EXCEPT !.commands = Tail(c)]
           st == IF dxTask[k].state = "session" THEN "sent" ELSE "failed"
<1>1. /\ dxTask[k].state \in {"session", "waiting"} /\ c # <<>>
      /\ sends' = [sends EXCEPT ![n].state = st]
      /\ dxTask' = [dxTask EXCEPT ![k] = t]
      /\ applying' = applying /\ handle' = handle /\ outbound' = outbound /\ current' = current
  BY DEF TaskSends, ButTheTask
<1>2. dxTask[k] \in AnyTask /\ c \in Seq(Nat) /\ sends \in Seq(AnySend)
  BY DEF ListenerInv, TaskTypes, AnyTask
<1>3. Tail(c) \in Seq(Nat) /\ Len(Tail(c)) = Len(c) - 1 /\ Len(c) \in Nat /\ n = c[1]
      /\ \A i \in 1..Len(Tail(c)) : Tail(c)[i] = c[i + 1]
  <2>1. n = c[1]
    OBVIOUS
  <2> HIDE DEF c, n
  <2> QED BY <1>1, <1>2, <2>1, HeadTailProperties
<1>4. /\ t \in AnyTask /\ t.state = dxTask[k].state /\ t.aborted = dxTask[k].aborted /\ t.commands = Tail(c)
  BY <1>2, <1>3 DEF AnyTask
<1> HIDE DEF t
<1>5. dxTask' \in [Tasks -> AnyTask] /\ dxTask'[k] = t /\ \A j \in Tasks \ {k} : dxTask'[j] = dxTask[j]
  BY <1>1, <1>4 DEF ListenerInv, TaskTypes
<1>6. \A m \in 1..Len(sends) : sends[m] \in AnySend /\ [sends[m] EXCEPT !.state = st] \in AnySend
                               /\ [sends[m] EXCEPT !.state = st].state = st
  <2>1. \A m \in 1..Len(sends) : sends[m] \in AnySend
    BY <1>2
  <2> QED BY <2>1 DEF AnySend
<1> HIDE DEF n, c, st
<1>7. /\ sends' \in Seq(AnySend) /\ Len(sends') = Len(sends)
      /\ \A m \in 1..Len(sends) : sends'[m] = IF m = n THEN [sends[m] EXCEPT !.state = st] ELSE sends[m]
  <2>1. sends' = [m \in 1..Len(sends) |-> IF m = n THEN [sends[m] EXCEPT !.state = st] ELSE sends[m]]
    <3>1. sends = [m \in 1..Len(sends) |-> sends[m]] /\ DOMAIN sends = 1..Len(sends)
      BY <1>2
    <3>2. sends' = [m \in DOMAIN sends |-> IF m = n THEN [sends[n] EXCEPT !.state = st] ELSE sends[m]]
      BY <1>1, Zenon
    <3> QED BY <3>1, <3>2
  <2>2. DOMAIN sends' = 1..Len(sends) /\ (\A m \in 1..Len(sends) : sends'[m] \in AnySend) /\ Len(sends) \in Nat
    BY <1>2, <1>6, <2>1
  <2> QED BY <2>1, <2>2
<1>8. TaskTypes'
  BY <1>1, <1>5, <1>7 DEF ListenerInv, TaskTypes
<1>9. \A j \in Tasks : dxTask'[j].state = dxTask[j].state /\ dxTask'[j].aborted = dxTask[j].aborted
  BY <1>4, <1>5
<1>10. CurrentGoesOn' /\ KeptWasStarted'
  <2>1. current \in 0..3 /\ handle \in 0..3 /\ (current # 0 => current \in Tasks) /\ (handle # 0 => handle \in Tasks)
    BY DEF ListenerInv, TaskTypes, Tasks
  <2>2. CurrentGoesOn /\ KeptWasStarted
    BY DEF ListenerInv
  <2> QED BY <1>1, <1>9, <2>1, <2>2 DEF CurrentGoesOn, KeptWasStarted
<1>11. IdleTasks'
  <2>1. \A j \in Tasks \ {k} : /\ dxTask'[j].state = "none" => ~dxTask'[j].aborted /\ dxTask'[j].commands = <<>>
                               /\ dxTask'[j].state = "ended" => dxTask'[j].commands = <<>>
    BY <1>5 DEF ListenerInv, IdleTasks
  <2> QED BY <1>1, <1>9, <2>1 DEF IdleTasks
<1>12. \A m : m # n /\ IsAmong(m, dxTask[k].commands) => IsAmong(m, dxTask'[k].commands)
  <2> SUFFICES ASSUME NEW m, m # n, NEW i \in 1..Len(c), c[i] = m
               PROVE  \E j \in 1..Len(Tail(c)) : Tail(c)[j] = m
    BY <1>4, <1>5 DEF IsAmong, c
  <2>1. i # 1
    BY <1>3
  <2>2. i - 1 \in 1..Len(Tail(c)) /\ (i - 1) + 1 = i
    BY <1>3, <2>1
  <2>3. Tail(c)[i - 1] = m
    BY <1>3, <2>2
  <2> QED BY <2>2, <2>3
<1>13. TextsHaveATask'
  <2> SUFFICES ASSUME NEW m \in 1..Len(sends)
               PROVE  /\ sends'[m].state = "cloned" => sends'[m].to \in Tasks /\ dxTask'[sends'[m].to].state # "none"
                      /\ sends'[m].state = "queued" => sends'[m].to \in Tasks /\ IsAmong(m, dxTask'[sends'[m].to].commands)
    BY <1>7 DEF TextsHaveATask
  <2>1. CASE m = n
    <3>1. sends'[m].state = st
      BY <1>6, <1>7, <2>1
    <3> QED BY <3>1 DEF st
  <2>2. CASE m # n
    <3>1. sends'[m] = sends[m]
      BY <1>7, <2>2
    <3>2. /\ sends[m].state = "cloned" => sends[m].to \in Tasks /\ dxTask[sends[m].to].state # "none"
          /\ sends[m].state = "queued" => sends[m].to \in Tasks /\ IsAmong(m, dxTask[sends[m].to].commands)
      BY DEF ListenerInv, TextsHaveATask
    <3>3. \A j \in Tasks \ {k} : dxTask'[j].commands = dxTask[j].commands
      BY <1>5 DEF IsAmong
    <3> QED BY <1>9, <1>12, <2>2, <3>1, <3>2, <3>3
  <2> QED BY <2>1, <2>2
<1> QED BY <1>8, <1>10, <1>11, <1>13 DEF ListenerInv

LEMMA TaskConnects ==
  ASSUME ListenerInv, NEW k \in Tasks, BeginConnect(k) \/ Connects(k) \/ Breaks(k) \/ Reconnect(k)
  PROVE  ListenerInv'
<1>1. dxTask[k] \in AnyTask
  BY DEF ListenerInv, TaskTypes
<1>2. PICK st \in {"begin", "connecting", "session", "waiting"} :
        \/ dxTask' = [dxTask EXCEPT ![k].state = st]
        \/ dxTask' = [dxTask EXCEPT ![k].state = st, ![k].once = TRUE]
  BY DEF BeginConnect, Connects, Breaks, Reconnect
<1>3. /\ dxTask[k].state \in LiveStates /\ sends' = sends
      /\ applying' = applying /\ handle' = handle /\ outbound' = outbound /\ current' = current
  BY DEF BeginConnect, Connects, Breaks, Reconnect, ButTheTask, LiveStates
<1>4. CASE dxTask' = [dxTask EXCEPT ![k].state = st]
  <2> DEFINE t == [dxTask[k] EXCEPT !.state = st]
  <2>1. /\ t \in AnyTask /\ t.state \in LiveStates
        /\ t.aborted = dxTask[k].aborted /\ t.commands = dxTask[k].commands
    BY <1>1 DEF AnyTask, TaskStates, LiveStates
  <2>2. dxTask' = [dxTask EXCEPT ![k] = t]
    BY <1>4
  <2> HIDE DEF t
  <2> QED BY <1>3, <2>1, <2>2, TaskGoesOn
<1>5. CASE dxTask' = [dxTask EXCEPT ![k].state = st, ![k].once = TRUE]
  <2> DEFINE t == [dxTask[k] EXCEPT !.state = st, !.once = TRUE]
  <2>1. /\ t \in AnyTask /\ t.state \in LiveStates
        /\ t.aborted = dxTask[k].aborted /\ t.commands = dxTask[k].commands
    BY <1>1 DEF AnyTask, TaskStates, LiveStates
  <2>2. dxTask' = [dxTask EXCEPT ![k] = t]
    BY <1>1, <1>5 DEF ListenerInv, TaskTypes
  <2> HIDE DEF t
  <2> QED BY <1>3, <2>1, <2>2, TaskGoesOn
<1> QED BY <1>2, <1>4, <1>5

LEMMA SendTextStep == ASSUME ListenerInv, SendText PROVE ListenerInv'
<1> DEFINE text == [state |-> IF dxState \in {"connecting", "reconnecting"} THEN "failed" ELSE "asked", to |-> 0]
<1>1. /\ sends' = Append(sends, text) /\ applying' = applying /\ dxTask' = dxTask /\ handle' = handle
      /\ outbound' = outbound /\ current' = current
  BY DEF SendText
<1>2. text \in AnySend /\ text.state \in {"failed", "asked"} /\ sends \in Seq(AnySend)
  BY DEF AnySend, ListenerInv, TaskTypes
<1> HIDE DEF text
<1>3. /\ sends' \in Seq(AnySend) /\ Len(sends') = Len(sends) + 1 /\ Len(sends) \in Nat
      /\ (\A n \in 1..Len(sends) : sends'[n] = sends[n]) /\ sends'[Len(sends) + 1] = text
  BY <1>1, <1>2, AppendProperties
<1>4. TaskTypes'
  BY <1>1, <1>3 DEF ListenerInv, TaskTypes
<1>5. CurrentGoesOn' /\ KeptWasStarted' /\ IdleTasks'
  BY <1>1 DEF ListenerInv, CurrentGoesOn, KeptWasStarted, IdleTasks
<1>6. TextsHaveATask'
  <2> SUFFICES ASSUME NEW n \in 1..Len(sends')
               PROVE  /\ sends'[n].state = "cloned" => sends'[n].to \in Tasks /\ dxTask[sends'[n].to].state # "none"
                      /\ sends'[n].state = "queued" =>
                           sends'[n].to \in Tasks /\ IsAmong(n, dxTask[sends'[n].to].commands)
    BY <1>1 DEF TextsHaveATask
  <2>1. CASE n = Len(sends) + 1
    BY <1>2, <1>3, <2>1
  <2>2. CASE n \in 1..Len(sends)
    BY <1>3, <2>2 DEF ListenerInv, TextsHaveATask
  <2> QED BY <1>3, <2>1, <2>2
<1> QED BY <1>4, <1>5, <1>6 DEF ListenerInv

(* One text changes, and what the tasks hold does not shrink.               *)
LEMMA TextChanges ==
  ASSUME ListenerInv, NEW n \in 1..Len(sends), NEW text \in AnySend, sends' = [sends EXCEPT ![n] = text],
         text.state = "cloned" => text.to \in Tasks /\ dxTask'[text.to].state # "none",
         text.state = "queued" => text.to \in Tasks /\ IsAmong(n, dxTask'[text.to].commands),
         \A k \in Tasks : dxTask'[k].state = dxTask[k].state,
         \A k \in Tasks, m \in 1..Len(sends) :
           IsAmong(m, dxTask[k].commands) => IsAmong(m, dxTask'[k].commands)
  PROVE  sends' \in Seq(AnySend) /\ TextsHaveATask'
<1>1. sends \in Seq(AnySend)
  BY DEF ListenerInv, TaskTypes
<1>2. /\ sends' \in Seq(AnySend) /\ Len(sends') = Len(sends) /\ sends'[n] = text
      /\ \A m \in 1..Len(sends) : m # n => sends'[m] = sends[m]
  BY <1>1
<1>3. ASSUME NEW m \in 1..Len(sends)
      PROVE  /\ sends'[m].state = "cloned" => sends'[m].to \in Tasks /\ dxTask'[sends'[m].to].state # "none"
             /\ sends'[m].state = "queued" =>
                  sends'[m].to \in Tasks /\ IsAmong(m, dxTask'[sends'[m].to].commands)
  <2>1. CASE m = n
    BY <1>2, <2>1
  <2>2. CASE m # n
    <3>1. sends'[m] = sends[m]
      BY <1>2, <2>2
    <3>2. /\ sends[m].state = "cloned" => sends[m].to \in Tasks /\ dxTask[sends[m].to].state # "none"
          /\ sends[m].state = "queued" => sends[m].to \in Tasks /\ IsAmong(m, dxTask[sends[m].to].commands)
      BY DEF ListenerInv, TextsHaveATask
    <3> QED BY <3>1, <3>2
  <2> QED BY <2>1, <2>2
<1> QED BY <1>2, <1>3 DEF TextsHaveATask

LEMMA CloneSenderStep == ASSUME ListenerInv, NEW n \in 1..MaxSends, CloneSender(n) PROVE ListenerInv'
<1> DEFINE text == [state |-> IF outbound = 0 THEN "failed" ELSE "cloned", to |-> outbound]
<1>1. /\ n \in 1..Len(sends) /\ sends' = [sends EXCEPT ![n] = text]
      /\ applying' = applying /\ dxTask' = dxTask /\ handle' = handle /\ outbound' = outbound /\ current' = current
  <2>1. Len(sends) \in Nat
    BY DEF ListenerInv, TaskTypes
  <2> QED BY <2>1 DEF CloneSender
<1>2. outbound \in 0..3 /\ (outbound # 0 => outbound \in Tasks /\ dxTask[outbound].state # "none")
  BY DEF ListenerInv, TaskTypes, CurrentGoesOn, Tasks, LiveStates
<1>3. text \in AnySend /\ text.to = outbound /\ (text.state = "cloned" => outbound # 0) /\ text.state # "queued"
  BY <1>2 DEF AnySend
<1> HIDE DEF text
<1>4. sends' \in Seq(AnySend) /\ TextsHaveATask'
  BY <1>1, <1>2, <1>3, TextChanges
<1>5. TaskTypes'
  BY <1>1, <1>4 DEF ListenerInv, TaskTypes
<1>6. CurrentGoesOn' /\ KeptWasStarted' /\ IdleTasks'
  BY <1>1 DEF ListenerInv, CurrentGoesOn, KeptWasStarted, IdleTasks
<1> QED BY <1>4, <1>5, <1>6 DEF ListenerInv

LEMMA AppendedIsAmong ==
  ASSUME NEW q \in Seq(Nat), NEW n \in Nat
  PROVE  IsAmong(n, Append(q, n)) /\ \A m : IsAmong(m, q) => IsAmong(m, Append(q, n))
<1> DEFINE r == Append(q, n)
<1>1. Len(q) \in Nat /\ Len(r) = Len(q) + 1 /\ (\A i \in 1..Len(q) : r[i] = q[i]) /\ r[Len(q) + 1] = n
  BY AppendProperties
<1> HIDE DEF r
<1>2. IsAmong(n, r)
  <2>1. Len(q) + 1 \in 1..Len(r)
    BY <1>1
  <2> QED BY <1>1, <2>1 DEF IsAmong
<1>3. ASSUME NEW m, IsAmong(m, q) PROVE IsAmong(m, r)
  <2>1. PICK i \in 1..Len(q) : q[i] = m
    BY <1>3 DEF IsAmong
  <2>2. i \in 1..Len(r) /\ r[i] = m
    BY <1>1, <2>1
  <2> QED BY <2>2 DEF IsAmong
<1> QED BY <1>2, <1>3 DEF r

LEMMA QueueTextStep == ASSUME ListenerInv, NEW n \in 1..MaxSends, QueueText(n) PROVE ListenerInv'
<1> DEFINE k == sends[n].to
           ended == dxTask[k].state = "ended"
           text == [sends[n] EXCEPT !.state = IF ended THEN "failed" ELSE "queued"]
           t == [dxTask[k] EXCEPT !.commands = Append(dxTask[k].commands, n)]
<1>1. /\ n \in 1..Len(sends) /\ n \in Nat /\ sends[n].state = "cloned"
      /\ applying' = applying /\ handle' = handle /\ outbound' = outbound /\ current' = current
  <2>1. Len(sends) \in Nat
    BY DEF ListenerInv, TaskTypes
  <2> QED BY <2>1 DEF QueueText, MaxSends
<1>2. sends[n] \in AnySend /\ k \in Tasks /\ dxTask[k].state # "none" /\ dxTask[k] \in AnyTask
  BY <1>1 DEF ListenerInv, TextsHaveATask, TaskTypes
<1>3. sends' = [sends EXCEPT ![n] = text] /\ dxTask' = IF ended THEN dxTask ELSE [dxTask EXCEPT ![k] = t]
  BY DEF QueueText
<1>4. text \in AnySend /\ text.to = k /\ text.state \in {"failed", "queued"} /\ (text.state = "queued" => ~ended)
  BY <1>2 DEF AnySend
<1>5. dxTask[k].commands \in Seq(Nat)
  BY <1>2 DEF AnyTask
<1>6. /\ t \in AnyTask /\ t.state = dxTask[k].state /\ t.aborted = dxTask[k].aborted
      /\ t.commands = Append(dxTask[k].commands, n)
  <2>1. Append(dxTask[k].commands, n) \in Seq(Nat)
    <3> HIDE DEF k
    <3> QED BY <1>1, <1>5, AppendProperties
  <2> HIDE DEF k
  <2> QED BY <1>2, <2>1 DEF AnyTask
<1> HIDE DEF k, text, t
<1>7. /\ dxTask' \in [Tasks -> AnyTask]
      /\ \A j \in Tasks : /\ dxTask'[j].state = dxTask[j].state /\ dxTask'[j].aborted = dxTask[j].aborted
                          /\ dxTask'[j].commands = dxTask[j].commands \/ (j = k /\ ~ended)
      /\ ~ended => dxTask'[k].commands = Append(dxTask[k].commands, n)
  <2>1. CASE ended
    BY <1>3, <2>1 DEF ListenerInv, TaskTypes
  <2>2. CASE ~ended
    <3>1. dxTask' \in [Tasks -> AnyTask] /\ dxTask'[k] = t /\ \A j \in Tasks \ {k} : dxTask'[j] = dxTask[j]
      BY <1>2, <1>3, <1>6, <2>2 DEF ListenerInv, TaskTypes
    <3> QED BY <1>6, <2>2, <3>1
  <2> QED BY <2>1, <2>2
<1>8. \A m : IsAmong(m, dxTask[k].commands) => IsAmong(m, Append(dxTask[k].commands, n))
  BY <1>1, <1>5, AppendedIsAmong
<1>9. IsAmong(n, Append(dxTask[k].commands, n))
  BY <1>1, <1>5, AppendedIsAmong
<1>10. sends' \in Seq(AnySend) /\ TextsHaveATask'
  <2>1. text.state = "cloned" => text.to \in Tasks /\ dxTask'[text.to].state # "none"
    BY <1>4
  <2>2. text.state = "queued" => text.to \in Tasks /\ IsAmong(n, dxTask'[text.to].commands)
    BY <1>2, <1>4, <1>7, <1>9
  <2>3. ASSUME NEW j \in Tasks, NEW m \in 1..Len(sends), IsAmong(m, dxTask[j].commands)
        PROVE  IsAmong(m, dxTask'[j].commands)
    BY <1>7, <1>8, <2>3
  <2> QED BY <1>1, <1>3, <1>4, <1>7, <2>1, <2>2, <2>3, TextChanges
<1>11. TaskTypes'
  BY <1>1, <1>7, <1>10 DEF ListenerInv, TaskTypes
<1>12. CurrentGoesOn' /\ KeptWasStarted'
  <2>1. current \in 0..3 /\ handle \in 0..3 /\ (current # 0 => current \in Tasks) /\ (handle # 0 => handle \in Tasks)
    BY DEF ListenerInv, TaskTypes, Tasks
  <2>2. CurrentGoesOn /\ KeptWasStarted
    BY DEF ListenerInv
  <2> QED BY <1>1, <1>7, <2>1, <2>2 DEF CurrentGoesOn, KeptWasStarted
<1>13. IdleTasks'
  <2> SUFFICES ASSUME NEW j \in Tasks
               PROVE  /\ dxTask'[j].state = "none" => ~dxTask'[j].aborted /\ dxTask'[j].commands = <<>>
                      /\ dxTask'[j].state = "ended" => dxTask'[j].commands = <<>>
    BY DEF IdleTasks
  <2>1. /\ dxTask[j].state = "none" => ~dxTask[j].aborted /\ dxTask[j].commands = <<>>
        /\ dxTask[j].state = "ended" => dxTask[j].commands = <<>>
    BY DEF ListenerInv, IdleTasks
  <2> QED BY <1>2, <1>7, <2>1
<1> QED BY <1>10, <1>11, <1>12, <1>13 DEF ListenerInv

LEMMA ListenerStep == ListenerInv /\ [DxNext]_dxVars => ListenerInv'
<1> SUFFICES ASSUME ListenerInv, [DxNext]_dxVars PROVE ListenerInv'
  OBVIOUS
<1>1. CASE UNCHANGED dxVars
  BY <1>1, TasksAsTheyWere DEF dxVars
<1>2. ASSUME NEW k \in Tasks, ClusterLine(k) \/ PruneTick(k) PROVE ListenerInv'
  BY <1>2, TasksAsTheyWere DEF ClusterLine, PruneTick, taskVars
<1>3. ASSUME NEW p \in Speakers, Say(p) PROVE ListenerInv'
  BY <1>3, TasksAsTheyWere DEF Say, taskVars
<1>4. CASE Bridge \/ ManualSpot \/ ClearSpots \/ DxTick
  BY <1>4, TasksAsTheyWere DEF Bridge, ManualSpot, ClearSpots, DxTick, taskVars
<1>5. ASSUME NEW k \in Tasks, DxTaskSteps(k) \/ Connects(k) \/ Breaks(k) PROVE ListenerInv'
  BY <1>2, <1>5, AbortTakesStep, TaskConnects, TaskSendsStep, ChannelEndsStep DEF DxTaskSteps
<1>6. ASSUME NEW n \in 1..MaxSends, SendSteps(n) PROVE ListenerInv'
  BY <1>6, CloneSenderStep, QueueTextStep DEF SendSteps
<1> QED
  BY <1>1, <1>2, <1>3, <1>4, <1>5, <1>6, StopTaskStep, AbortTaskStep, StartTaskStep, KeepHandleStep,
     DropApplyStep, SendTextStep
  DEF DxNext, Apply

LEMMA OneListens == ListenerInv => OneListener
<1> SUFFICES ASSUME ListenerInv, DxAtRest PROVE OneListener
  BY DEF OneListener
<1>1. ASSUME NEW k \in Tasks, dxTask[k].state \in LiveStates PROVE current = k
  <2>1. dxTask[k].state = "session" /\ dxTask[k].commands = <<>> /\ ~ChannelClosed(k)
    BY <1>1 DEF DxAtRest, LiveStates
  <2>2. \A n \in 1..Len(sends) : sends[n].state # "cloned"
    BY DEF DxAtRest
  <2>3. outbound = k
    BY <2>1, <2>2 DEF ChannelClosed
  <2> QED BY <2>3 DEF ListenerInv, CurrentGoesOn
<1>2. ASSUME NEW k \in Tasks, current = k PROVE dxTask[k].state \in LiveStates
  BY <1>2 DEF ListenerInv, CurrentGoesOn, Tasks
<1>3. ASSUME NEW n \in 1..Len(sends) PROVE sends[n].state # "queued"
  <2> SUFFICES ASSUME sends[n].state = "queued" PROVE FALSE
    OBVIOUS
  <2>1. sends[n].to \in Tasks /\ IsAmong(n, dxTask[sends[n].to].commands)
    BY DEF ListenerInv, TextsHaveATask
  <2>2. dxTask[sends[n].to].commands # <<>>
    BY <2>1 DEF IsAmong
  <2>3. dxTask[sends[n].to].state \in {"none", "session", "ended"}
    BY <2>1 DEF DxAtRest
  <2> QED BY <2>1, <2>2, <2>3 DEF DxAtRest, ListenerInv, IdleTasks
<1>4. \A k \in Tasks : (dxTask[k].state \in LiveStates) = (current = k)
  BY <1>1, <1>2
<1> QED BY <1>3, <1>4 DEF OneListener, LiveStates

(* Whatever the cluster, the operators and the clock do, the map of the     *)
(* band shows the spots of the store when nothing is left to tell, and only *)
(* the task of the last configuration listens when nothing is left to do    *)
(* (dxcluster.rs).                                                          *)
THEOREM TheClusterIsFollowed == DxSpec => []ClusterIsFollowed
<1>1. DxInit => SpotsInv /\ ListenerInv
  BY SpotsInit, ListenerInit
<1>2. SpotsInv /\ ListenerInv /\ [DxNext]_dxVars => (SpotsInv /\ ListenerInv)'
  BY SpotsStep, ListenerStep
<1>3. SpotsInv /\ ListenerInv => ClusterIsFollowed
  BY SpotsAreShown, OneListens DEF ClusterIsFollowed
<1> QED BY <1>1, <1>2, <1>3, PTL DEF DxSpec
=============================================================================
