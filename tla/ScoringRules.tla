----------------------------- MODULE ScoringRules -----------------------------
(***************************************************************************)
(* How the rules of a contest value one contact, and how a list of         *)
(* contacts is scored from nothing (backend/src/scoring.rs; the rules are  *)
(* the structs of backend/src/contest_rules.rs).                           *)
(*                                                                         *)
(* A contact has ADIF fields, by name; a field it lacks reads as None.     *)
(* Text is a string that is compared whole, already trimmed and in upper   *)
(* case.  What the program reads inside a text (the station a portable     *)
(* call belongs to, its WPX prefix, the digits, the first letters, its     *)
(* endings) is the table Parts; distances between locators are Kilometers. *)
(* Keys that the code joins into one string are sequences of strings.      *)
(***************************************************************************)
EXTENDS Integers, Sequences, FiniteSets, TLC, SequencesExt, FiniteSetsExt, Functions

CONSTANTS
  Parts,             \* [text -> [identity, prefix, family, first, last, field, letter, ends]]
  Kilometers(_, _)   \* grid_distance_kilometers of two locators, -1 if one is not a locator

None == ""

-----------------------------------------------------------------------------
(* The value of a field of a contact (field_value).                         *)

Plain(v) == [identity |-> v, prefix |-> None, family |-> None, first |-> "0", last |-> "0",
             field |-> v, letter |-> None, ends |-> {}]
Part(v) == IF v \in DOMAIN Parts THEN Parts[v] ELSE Plain(v)

Adif(c, f) == IF f \in DOMAIN c.adif THEN c.adif[f] ELSE None
FirstOf(c, fields) == IF Adif(c, fields[1]) # None THEN Adif(c, fields[1]) ELSE Adif(c, fields[2])

ModeClass(mode) ==
  CASE mode \in {"CW", "CW-R"} -> "CW" [] mode \in {"SSB", "FM", "AM"} -> "PHONE" [] OTHER -> mode

DupeModeClass(mode) ==
  CASE mode \in {"CW", "CW-R"} -> "CW" [] mode \in {"SSB", "FM", None} -> mode [] OTHER -> "DATA"

Prefix(c) == IF Adif(c, "PFX") # None THEN Adif(c, "PFX") ELSE Part(Adif(c, "CALL")).prefix

(* The families of prefixes JARL tells apart, and the DXCC entity each of   *)
(* them counts for when the entity of the contact is known.                 *)
JarlEntity == [JA |-> "339", W |-> "291", VE |-> "1", VK |-> "150"]

JarlArea(call, dxcc) ==
  CASE call.prefix = None \/ call.family = "JD1" -> None
    [] dxcc = "339" -> "JA" \o call.last
    [] call.family \notin DOMAIN JarlEntity -> None
    [] dxcc \in {None, JarlEntity[call.family]} -> call.family \o call.last
    [] OTHER -> None

JarlCallArea(c) == JarlArea(Part(Adif(c, "CALL")), Adif(c, "DXCC"))

SacCountry == ("259" :> "JW") @@ ("118" :> "JX") @@ ("266" :> "LA") @@ ("224" :> "OH")
              @@ ("237" :> "OX") @@ ("222" :> "OY") @@ ("221" :> "OZ") @@ ("284" :> "SM")
              @@ ("242" :> "TF")

SacArea(c) == IF Adif(c, "DXCC") \in DOMAIN SacCountry
              THEN SacCountry[Adif(c, "DXCC")] \o Part(Prefix(c)).first ELSE None

FieldValue(c, f) ==
  CASE f = "MODE_CLASS" -> ModeClass(Adif(c, "MODE"))
    [] f = "WPX_PREFIX" -> Prefix(c)
    [] f = "GRID_FIELD" -> Part(Adif(c, "GRIDSQUARE")).field
    [] f = "JARL_CALL_AREA" -> JarlCallArea(c)
    [] f = "JARL_ENTITY" -> IF JarlCallArea(c) = None THEN Adif(c, "DXCC") ELSE None
    [] f = "DOK_AREA" -> Part(FirstOf(c, <<"SRX_STRING", "SRX">>)).letter
    [] f = "SAC_AREA" -> SacArea(c)
    [] f = "CALL" -> Part(Adif(c, "CALL")).identity
    [] OTHER -> Adif(c, f)

ScoringKey(c, fields) == [i \in DOMAIN fields |-> FieldValue(c, fields[i])]

(* dupe_key_for; a contest without a dupe key has no duplicates.            *)
DupeKey(rules, c) ==
  [i \in DOMAIN rules.dupe_key |-> IF rules.dupe_key[i] = "MODE" THEN DupeModeClass(Adif(c, "MODE"))
                                   ELSE FieldValue(c, rules.dupe_key[i])]

(* ScoringCondition; a rule holds if its when and all of its when_all do.   *)
ValueMatches(cond, value) ==
  /\ value # None
  /\ cond.values = {} \/ value \in cond.values
  /\ value \notin cond.exclude_values

EndsMatch(cond, text) ==
  /\ cond.suffixes = {} \/ cond.suffixes \cap Part(text).ends # {}
  /\ cond.exclude_suffixes \cap Part(text).ends = {}

FieldMatches(cond, c, value) ==
  /\ ValueMatches(cond, value)
  /\ cond.matches_field # None => value = FieldValue(c, cond.matches_field)
  /\ cond.not_matches_field # None => FieldValue(c, cond.not_matches_field) \notin {None, value}
  /\ EndsMatch(cond, IF Adif(c, cond.field) # None THEN Adif(c, cond.field) ELSE value)

ConditionMatches(cond, c) == FieldMatches(cond, c, FieldValue(c, cond.field))

AllMatch(conditions, c) == \A cond \in conditions : ConditionMatches(cond, c)

-----------------------------------------------------------------------------
(* Points of a contact (qso_points_for).                                    *)

(* category_band_param: a single-band entry is scored on its band only.     *)
InCategoryBand(rules, params, c) ==
  LET band == IF rules.qso_points.category_band_param \in DOMAIN params
              THEN params[rules.qso_points.category_band_param] ELSE None IN
  band \in {None, "ALL", Adif(c, "BAND")}

InPeriod(minute, rule) ==
  \/ rule.start = rule.end
  \/ rule.start < rule.end /\ rule.start <= minute /\ minute < rule.end
  \/ rule.start > rule.end /\ (rule.start <= minute \/ minute < rule.end)

(* The periods wrap around midnight; a contact's time is in minutes.        *)
TimeBonus(points, c) ==
  LET due == {i \in DOMAIN points.time_bonus_points :
                InPeriod(c.time % 1440, points.time_bonus_points[i])} IN
  MapThenSumSet(LAMBDA i : points.time_bonus_points[i].points, due)

ForBand(value, band) == IF band \in DOMAIN value.by_band THEN value.by_band[band] ELSE value.default

GeographyClass(country, mine, continent, home) ==
  CASE None \in {country, mine, continent, home} -> "unresolved"
    [] country = mine -> "same_country"
    [] continent # home -> "different_continent"
    [] continent = "NA" -> "different_country_north_america"
    [] OTHER -> "different_country_same_continent"

GeographyPoints(g, c) ==
  ForBand(g[GeographyClass(FieldValue(c, g.country_field), FieldValue(c, g.station_country_field),
                           FieldValue(c, g.continent_field), FieldValue(c, g.station_continent_field))],
          Adif(c, "BAND"))

NoPoints == -1  \* no rule applies: not even the time counts

Steps(d, km) == (km + d.kilometers_per_point - 1) \div d.kilometers_per_point
PointsForKm(d, km) ==
  IF km < 0 THEN NoPoints ELSE d.base_points + Max({Steps(d, km), d.minimum_distance_points})
DistancePoints(d, c) ==
  PointsForKm(d, Kilometers(FieldValue(c, d.station_grid_field), FieldValue(c, d.contact_grid_field)))

(* The first rule that applies.                                             *)
PointsOfFirst(points, applying) ==
  IF applying = {} THEN NoPoints ELSE points.rules[Min(applying)].points
RulePoints(points, c) ==
  PointsOfFirst(points, {i \in DOMAIN points.rules : AllMatch(points.rules[i].when, c)})

BasePoints(points, c) ==
  CASE points.kind = "grid_distance" -> DistancePoints(points.grid_distance, c)
    [] points.kind = "geography" -> GeographyPoints(points.geography, c)
    [] points.kind = "points" -> points.points
    [] points.kind = "rules" -> RulePoints(points, c)
    [] OTHER -> NoPoints

WithBonus(base, bonus) == IF base = NoPoints THEN 0 ELSE base + bonus
QsoPoints(rules, params, c) ==
  IF ~InCategoryBand(rules, params, c) THEN 0
  ELSE WithBonus(BasePoints(rules.qso_points, c), TimeBonus(rules.qso_points, c))

-----------------------------------------------------------------------------
(* Multipliers and bonuses.                                                 *)

MultiplierMatches(m, c) ==
  /\ m.exclude_call_suffixes \cap Part(Adif(c, "CALL")).ends = {}
  /\ AllMatch(m.when, c)
  /\ FieldValue(c, m.field) \notin {None} \cup m.exclude_values
  /\ m.values = {} \/ FieldValue(c, m.field) \in m.values

(* A candidate has the group it is counted in and the most the group holds, *)
(* 0 if there is no limit.                                                  *)
Candidate(m, c) ==
  [key |-> <<m.name>> \o IF m.fixed_key # None THEN <<m.fixed_key>> ELSE ScoringKey(c, m.key),
   group |-> IF m.cap_group # None THEN m.cap_group ELSE m.id, max |-> m.max_count]

CandidatesOf(multipliers, c) ==
  [i \in DOMAIN multipliers |-> Candidate(multipliers[i], c)]

Candidates(rules, params, c) ==
  IF ~InCategoryBand(rules, params, c) THEN <<>>
  ELSE CandidatesOf(SelectSeq(rules.multipliers, LAMBDA m : MultiplierMatches(m, c)), c)

MultiplierKeys(rules, params, c) == {k.key : k \in ToSet(Candidates(rules, params, c))}

(* [key, points] of every bonus the contact can earn.                       *)
KeysOfBonuses(earned, c) ==
  [i \in DOMAIN earned |-> [key |-> <<earned[i].name>> \o ScoringKey(c, earned[i].key),
                            points |-> earned[i].values[FieldValue(c, earned[i].field)]]]

BonusKeys(rules, c) ==
  KeysOfBonuses(SelectSeq(rules.bonus_points, LAMBDA b : FieldValue(c, b.field) \in DOMAIN b.values), c)

Chosen(params, param) == IF param \in DOMAIN params THEN params[param] ELSE None

IsDue(b, params, c) ==
  /\ b.param # None => /\ Chosen(params, b.param) # None
                       /\ b.values = {} \/ Chosen(params, b.param) \in b.values
  /\ FieldValue(c, b.field) # None

CountKeysOf(due, c) == [i \in DOMAIN due |-> <<due[i].id, FieldValue(c, due[i].field)>>]

QsoCountKeys(rules, params, c) ==
  CountKeysOf(SelectSeq(rules.qso_count_bonus_points, LAMBDA b : IsDue(b, params, c)), c)

(* The points of the highest threshold that is reached.                     *)
Reached(thresholds, count) ==
  LET passed == {t \in DOMAIN thresholds : t <= count}
  IN IF passed = {} THEN 0 ELSE thresholds[Max(passed)]

MultiplierCountBonus(rules, keys) ==
  LET of(b) == Reached(b.thresholds, Cardinality({k \in keys : k[1] = b.multiplier})) IN
  MapThenSumSet(LAMBDA i : of(rules.multiplier_count_bonus_points[i]),
                DOMAIN rules.multiplier_count_bonus_points)

QsoCountBonus(rules, counts) ==
  LET of(b) == MapThenSumSet(LAMBDA k : Reached(b.thresholds, counts[k]),
                             {k \in DOMAIN counts : k[1] = b.id}) IN
  MapThenSumSet(LAMBDA i : of(rules.qso_count_bonus_points[i]),
                DOMAIN rules.qso_count_bonus_points)

ScoreFactor(rules, params) ==
  LET factor(p) == IF Chosen(params, p.param) \in DOMAIN p.values
                   THEN p.values[Chosen(params, p.param)] ELSE 1 IN
  FoldLeft(LAMBDA product, p : product * factor(p), 1, rules.param_multipliers)

(* recalculate_score, the same text in ContestScorer and IncrementalLogState. *)
Totals(rules, params, s, keys) ==
  LET mults == Max({s.raw_multiplier_count, rules.minimum_multiplier_count})
      bonus == s.direct_bonus_points + MultiplierCountBonus(rules, keys)
               + QsoCountBonus(rules, s.qso_count_bonus_counts) IN
  [qso_count |-> s.qso_count, qso_points |-> s.qso_points, bonus_points |-> bonus,
   multipliers |-> IF rules.multipliers = <<>> THEN 0 ELSE mults,
   score |-> s.qso_points * (IF rules.multipliers = <<>> THEN 1 ELSE mults)
               * ScoreFactor(rules, params) + bonus]

-----------------------------------------------------------------------------
(* Scoring a list from nothing: ContestScorer, score_contacts.              *)

TallyOf(counts, k) == IF k \in DOMAIN counts THEN counts[k] ELSE 0
Plus(counts, k) == (k :> TallyOf(counts, k) + 1) @@ counts
Minus(counts, k) == IF TallyOf(counts, k) > 1 THEN [counts EXCEPT ![k] = @ - 1]
                    ELSE Restrict(counts, DOMAIN counts \ {k})

(* The group of a candidate holds no more.                                  *)
Full(counts, k) == k.max > 0 /\ TallyOf(counts, k.group) >= k.max

NewScorer == [qso_count |-> 0, qso_points |-> 0, raw_multiplier_count |-> 0,
              direct_bonus_points |-> 0, qso_count_bonus_counts |-> <<>>,
              dupe_keys |-> {}, multiplier_keys |-> {}, multiplier_counts |-> <<>>,
              bonus_keys |-> {}, scores |-> <<>>]

(* The multipliers that are new, within what their groups still hold.       *)
CountMultipliers(s, candidates) ==
  FoldLeft(LAMBDA t, k : IF k.key \in t.multiplier_keys \/ Full(t.multiplier_counts, k) THEN t
                         ELSE [t EXCEPT !.multiplier_keys = @ \cup {k.key},
                                        !.multiplier_counts = Plus(@, k.group),
                                        !.raw_multiplier_count = @ + 1],
           s, candidates)

CountBonuses(s, bonuses) ==
  FoldLeft(LAMBDA t, b : IF b.key \in t.bonus_keys THEN t
                         ELSE [t EXCEPT !.bonus_keys = @ \cup {b.key},
                                        !.direct_bonus_points = @ + b.points],
           s, bonuses)

Score(pts, mult, bonus, dupe) == [pts |-> pts, mult |-> mult, bonus |-> bonus, dupe |-> dupe]

(* What a contact is worth by the rules; neither they nor the contact       *)
(* change.                                                                  *)
Worth(rules, params, c) ==
  [dupe |-> DupeKey(rules, c), points |-> QsoPoints(rules, params, c),
   candidates |-> Candidates(rules, params, c), bonuses |-> BonusKeys(rules, c),
   counted |-> QsoCountKeys(rules, params, c)]

Seen(s, worth) == [s EXCEPT !.qso_count = @ + 1, !.dupe_keys = @ \cup {worth.dupe}]

(* t is s with the multipliers and bonuses of the contact.                  *)
Scored(s, t, id, worth) ==
  [t EXCEPT !.qso_points = @ + worth.points,
            !.qso_count_bonus_counts =
              IF worth.points > 0 THEN FoldLeft(Plus, @, worth.counted) ELSE @,
            !.scores = (id :> Score(worth.points, t.raw_multiplier_count - s.raw_multiplier_count,
                                    t.direct_bonus_points - s.direct_bonus_points, FALSE)) @@ @]

AddQso(s, id, worth) ==
  IF worth.dupe # <<>> /\ worth.dupe \in s.dupe_keys
  THEN [Seen(s, worth) EXCEPT !.scores = (id :> Score(0, 0, 0, TRUE)) @@ @]
  ELSE Scored(s, CountBonuses(CountMultipliers(Seen(s, worth), worth.candidates), worth.bonuses), id, worth)

ScoreContacts(rules, params, contacts) ==
  FoldLeft(LAMBDA s, c : AddQso(s, c.id, Worth(rules, params, c)), NewScorer, contacts)

ScorerTotals(rules, params, s) == Totals(rules, params, s, s.multiplier_keys)
=============================================================================
