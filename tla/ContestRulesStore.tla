--------------------------- MODULE ContestRulesStore ---------------------------
(***************************************************************************)
(* What becomes of a composed contest (backend/src/contest_rules.rs): it   *)
(* is read into the structs of the rules, the value sets it names are put  *)
(* in place of their names, its table is derived, and it is checked.       *)
(*                                                                         *)
(* The rules that come out have the form ScoringRules and ContactRules     *)
(* read them in.  Labels, help texts and widgets are left out; the types   *)
(* of fields and the times of day are tables.                              *)
(***************************************************************************)
EXTENDS ContestCatalog

CONSTANTS
  FieldTypes,   \* [text -> [kind, max_length]]: what FieldInput::parse accepts
  Minutes       \* [text -> minute of the day]: what parse_utc_minute accepts

(* Reading (serde).  Fields that may be left out have a default; in structs *)
(* that deny them other fields are an error.                                *)
RECURSIVE Value(_)
Value(v) ==
  CASE v.kind = "text" -> v.text
    [] v.kind = "scalar" -> v.scalar
    [] v.kind = "list" -> [i \in DOMAIN v.items |-> Value(v.items[i])]
    [] v.kind = "map" -> [k \in DOMAIN v.entries |-> Value(v.entries[k])]

Reads(p, required, defaults) ==
  required \subseteq DOMAIN p /\ DOMAIN p \subseteq required \cup DOMAIN defaults
EachReads(list, required, defaults) == \A p \in ToSet(list) : Reads(p, required, defaults)
EachWith(list, defaults) == [i \in DOMAIN list |-> list[i] @@ defaults]

FieldDefaults == [regex |-> Absent, valid_values_or_regex |-> FALSE, in_sets |-> <<>>, valid_values |-> <<>>,
                  default |-> Absent]
SetupDefaults == FieldDefaults @@ [required |-> TRUE, widget |-> Absent, help_text |-> Absent, max_lines |-> 0,
                                   preserve_case |-> FALSE, cabrillo_header |-> Absent,
                                   multi_single_has_mult_transmitter |-> FALSE]
ExchangeDefaults == FieldDefaults @@ [fixed |-> FALSE, source |-> Absent, serial_scope |-> "global", table |-> "auto",
                                      only_when |-> <<>>]
SetupRequired == {"id", "key", "label", "type"}
ExchangeRequired == {"id", "label", "type", "adif", "direction"}
TableRequired == {"id", "field", "editable"}

ConditionDefaults ==
  [matches_field |-> Absent, not_matches_field |-> Absent, values |-> <<>>, exclude_values |-> <<>>, suffixes |-> <<>>,
   exclude_suffixes |-> <<>>, in_set |-> Absent, in_sets |-> <<>>, exclude_in_sets |-> <<>>]
MultiplierDefaults ==
  [key |-> <<>>, values |-> <<>>, when |-> <<>>, when_all |-> <<>>, exclude_call_suffixes |-> <<>>,
   exclude_values |-> <<>>, fixed_key |-> Absent, cap_group |-> Absent, in_sets |-> <<>>]
PointsDefaults == [rules |-> <<>>, time_bonus_points |-> <<>>, category_band_param |-> Absent]
ScoringDefaults ==
  [qso_points |-> <<>>, minimum_multiplier_count |-> 0, dupe_key |-> <<>>, multipliers |-> <<>>, bonus_points |-> <<>>,
   param_multipliers |-> <<>>, multiplier_count_bonus_points |-> <<>>, qso_count_bonus_points |-> <<>>]
CabrilloDefaults == [fixed_headers |-> <<>>, export_fields |-> <<>>]
ContestDefaults ==
  [name |-> Absent, excluded_modes |-> <<>>, value_sets |-> <<>>, setup_fields |-> <<>>, qso_table |-> <<>>,
   scoring |-> <<>>, cabrillo |-> <<>>, metadata |-> <<>>]

ReadSet(v) ==
  LET p == Value(v) @@ [use |-> Absent, values |-> NoValues, values_from_file |-> Absent, exclude |-> <<>>]
  IN [use |-> p.use, values |-> p.values, file |-> p.values_from_file, exclude |-> ToSet(p.exclude)]
SetReads(v) == DOMAIN Value(v) \subseteq {"use", "values", "values_from_file", "exclude"}

ReadScoring(p) ==
  LET s == p @@ ScoringDefaults IN
  [s EXCEPT !.qso_points = IF @ = <<>> THEN @ ELSE @ @@ PointsDefaults,
            !.multipliers = EachWith(@, MultiplierDefaults), !.bonus_points = EachWith(@, [key |-> <<>>]),
            !.qso_count_bonus_points = EachWith(@, [param |-> Absent, values |-> <<>>])]

(* The contest as it was read, or none.                                     *)
ReadContest(v) ==
  LET p == Value(v) @@ ContestDefaults
      cabrillo == p.cabrillo @@ CabrilloDefaults IN
  IF ~ /\ Reads(Value(v), {"bands", "modes", "exchange"}, ContestDefaults)
       /\ EachReads(p.setup_fields \o cabrillo.export_fields, SetupRequired, SetupDefaults)
       /\ EachReads(p.exchange, ExchangeRequired, ExchangeDefaults)
       /\ Reads(p.cabrillo, {}, CabrilloDefaults)
       /\ p.qso_table # <<>> => Reads(p.qso_table, {"columns"}, <<>>)
       /\ "value_sets" \in DOMAIN v.entries =>
            \A set \in Range(v.entries["value_sets"].entries) : SetReads(set)
  THEN {}
  ELSE {[p EXCEPT
           !.value_sets = IF @ = <<>> THEN @ ELSE LET sets == v.entries["value_sets"].entries
                                                  IN [n \in DOMAIN sets |-> ReadSet(sets[n])],
           !.setup_fields = EachWith(@, SetupDefaults), !.exchange = EachWith(@, ExchangeDefaults),
           !.scoring = ReadScoring(@),
           !.cabrillo = [cabrillo EXCEPT !.export_fields = EachWith(@, SetupDefaults)]]}

-----------------------------------------------------------------------------
(* Names of value sets are replaced by what the sets hold.                  *)

ConditionsOf(rule) ==
  {c @@ ConditionDefaults : c \in ToSet(rule.when_all) \cup (IF rule.when = <<>> THEN {} ELSE {rule.when})}
PointRules(s) == IF s.qso_points = <<>> THEN <<>> ELSE EachWith(s.qso_points.rules, [when |-> <<>>, when_all |-> <<>>])
OnlyWhen(field) == IF field.only_when = <<>> THEN {} ELSE {field.only_when @@ ConditionDefaults}

Listed(cond) == ToSet(cond.in_sets) \cup ({cond.in_set} \ {Absent})
AllConditions(c) ==
  UNION {ConditionsOf(r) : r \in ToSet(PointRules(c.scoring)) \cup ToSet(c.scoring.multipliers)}
  \cup UNION {OnlyWhen(f) : f \in ToSet(c.exchange)}
ReferencedSets(c) ==
  UNION ({ToSet(x.in_sets) : x \in ToSet(c.setup_fields \o c.cabrillo.export_fields) \cup ToSet(c.exchange)
                                   \cup ToSet(c.scoring.multipliers)}
         \cup {Listed(x) \cup ToSet(x.exclude_in_sets) : x \in AllConditions(c)})

ValuesIn(sets, names) == UNION {ToSet(sets[n].items) : n \in names}

Condition(c, sets) ==
  [field |-> c.field, values |-> ToSet(c.values) \cup ValuesIn(sets, Listed(c)),
   exclude_values |-> ToSet(c.exclude_values) \cup ValuesIn(sets, ToSet(c.exclude_in_sets)),
   matches_field |-> c.matches_field, not_matches_field |-> c.not_matches_field,
   suffixes |-> ToSet(c.suffixes), exclude_suffixes |-> ToSet(c.exclude_suffixes)]
Conditions(rule, sets) == {Condition(c, sets) : c \in ConditionsOf(rule)}

TypeOf(f) == FieldTypes[f.type]
Validation(f, sets) ==
  [kind |-> TypeOf(f).kind, max_length |-> TypeOf(f).max_length, pattern |-> f.regex,
   values |-> ValuesIn(sets, ToSet(f.in_sets)) \cup ToSet(f.valid_values), any |-> f.valid_values_or_regex]
SetupField(f, sets) == [key |-> f.key, required |-> f.required] @@ Validation(f, sets)
ExchangeField(f, sets) ==
  [adif |-> f.adif, direction |-> f.direction, only_when |-> {Condition(c, sets) : c \in OnlyWhen(f)}]
  @@ Validation(f, sets)

MultiplierRule(m, sets) ==
  [id |-> m.id, name |-> m.name, field |-> m.field, key |-> IF m.key = <<>> THEN <<m.field>> ELSE m.key,
   values |-> ToSet(m.values) \cup ValuesIn(sets, ToSet(m.in_sets)), when |-> Conditions(m, sets),
   exclude_call_suffixes |-> ToSet(m.exclude_call_suffixes), exclude_values |-> ToSet(m.exclude_values),
   fixed_key |-> m.fixed_key, cap_group |-> m.cap_group,
   max_count |-> IF "max_count" \in DOMAIN m THEN m.max_count ELSE 0]

(* The kind of points that scoring asks for first (base_qso_points_for).    *)
PointKinds == <<"grid_distance", "geography", "points">>
KindOf(points) ==
  LET given == SelectSeq(PointKinds, LAMBDA k : k \in DOMAIN points)
  IN IF given # <<>> THEN given[1] ELSE IF points = <<>> THEN "none" ELSE "rules"
Period(b) == [start |-> Minutes[b.start_utc], end |-> Minutes[b.end_utc], points |-> b.points]
QsoPointsOf(s, sets) ==
  LET points == s.qso_points @@ PointsDefaults
      rules == [i \in DOMAIN PointRules(s) |->
                  [when |-> Conditions(PointRules(s)[i], sets), points |-> PointRules(s)[i].points]]
      kept == [k \in DOMAIN points \cap ToSet(PointKinds) |-> points[k]] IN
  [kind |-> KindOf(s.qso_points), category_band_param |-> points.category_band_param,
   time_bonus_points |-> [i \in DOMAIN points.time_bonus_points |-> Period(points.time_bonus_points[i])]]
  @@ kept @@ (IF rules = <<>> THEN <<>> ELSE "rules" :> rules)

(* derive_qso_table                                                         *)
Column(id, field, editable) == [id |-> id, field |-> field, editable |-> editable]
InTable(f) ==
  \/ f.table = "show"
  \/ f.table = "auto" /\ (f.direction = "received" \/ ~f.fixed \/ TypeOf(f).kind = "SERIAL")
ExchangeColumn(f) ==
  Column("exchange-" \o f.id, f.adif, ~(f.fixed \/ (f.direction = "sent" /\ TypeOf(f).kind = "SERIAL")))
DerivedTable(c) ==
  <<Column("date-time", "QSO_DATE_TIME_ON", TRUE), Column("frequency", "FREQ", TRUE), Column("mode", "MODE", TRUE),
    Column("call", "CALL", TRUE)>>
  \o LET shown == SelectSeq(c.exchange, InTable) IN [i \in DOMAIN shown |-> ExchangeColumn(shown[i])]
  \o (IF c.scoring.multipliers # <<>> THEN <<Column("multipliers", "mult", FALSE)>> ELSE <<>>)
  \o (IF c.scoring.qso_points # <<>> THEN <<Column("points", "pts", FALSE)>> ELSE <<>>)
  \o <<Column("operator", "OPERATOR", TRUE)>>
Table(c) == IF c.qso_table = <<>> THEN DerivedTable(c) ELSE c.qso_table.columns

-----------------------------------------------------------------------------
(* validate_contest                                                         *)

ValidIds(list, key) ==
  LET ids == [i \in DOMAIN list |-> list[i][key]] IN Absent \notin ToSet(ids) /\ IsInjective(ids)

ValidThresholds(b) == b.thresholds # <<>> /\ \A t \in DOMAIN b.thresholds : t > 0 /\ b.thresholds[t] > 0

ValidLists(c) ==
  LET points == c.scoring.qso_points @@ PointsDefaults IN
  /\ ValidIds(c.setup_fields, "id") /\ ValidIds(c.setup_fields, "key")
  /\ ValidIds(c.exchange, "id") /\ ValidIds(Table(c), "id")
  /\ ValidIds(c.cabrillo.export_fields, "id") /\ ValidIds(c.cabrillo.export_fields, "key")
  /\ ValidIds(c.cabrillo.fixed_headers, "id")
  /\ ValidIds(points.rules, "id") /\ ValidIds(points.time_bonus_points, "id")
  /\ \A kind \in {"multipliers", "bonus_points", "param_multipliers", "multiplier_count_bonus_points",
                  "qso_count_bonus_points"} : ValidIds(c.scoring[kind], "id")

ValidExchange(f) ==
  /\ f.serial_scope # "global" => TypeOf(f).kind = "SERIAL"
  /\ f.direction = "received" => f.source = Absent

ValidPoints(points) ==
  /\ "grid_distance" \in DOMAIN points =>
       LET d == points.grid_distance
       IN d.base_points >= 0 /\ d.kilometers_per_point > 0 /\ d.minimum_distance_points >= 0
  /\ \A b \in ToSet(points.time_bonus_points) : {b.start_utc, b.end_utc} \subseteq DOMAIN Minutes /\ b.points # 0

(* fields are those of the setup, with their values.                        *)
ValidParamMultiplier(p, fields) ==
  /\ p.param \in {f.key : f \in fields}
  /\ p.values # <<>> /\ \A v \in DOMAIN p.values : p.values[v] > 0
  /\ \A f \in fields : f.key = p.param /\ f.values # {} => DOMAIN p.values \subseteq f.values

ValidScoring(s, fields) ==
  /\ s.qso_points # <<>> => ValidPoints(s.qso_points)
  /\ s.minimum_multiplier_count >= 0
  /\ \A p \in ToSet(s.param_multipliers) : ValidParamMultiplier(p, fields)
  /\ \A b \in ToSet(s.multiplier_count_bonus_points) :
       b.multiplier \in {m.name : m \in ToSet(s.multipliers)} /\ ValidThresholds(b)
  /\ \A m \in ToSet(s.multipliers) : "max_count" \in DOMAIN m => m.max_count # 0
  /\ \A b \in ToSet(s.qso_count_bonus_points) :
       b.field # Absent /\ ValidThresholds(b) /\ (b.param = Absent => b.values = <<>>)

ValidContest(c, fields) ==
  ValidLists(c) /\ (\A f \in ToSet(c.exchange) : ValidExchange(f)) /\ ValidScoring(c.scoring, fields)

-----------------------------------------------------------------------------
RulesOf(id, c, sets) ==
  [id |-> id, bands |-> ToSet(c.bands), modes |-> ToSet(c.modes), excluded_modes |-> ToSet(c.excluded_modes),
   setup_fields |-> [i \in DOMAIN c.setup_fields |-> SetupField(c.setup_fields[i], sets)],
   exchange |-> [i \in DOMAIN c.exchange |-> ExchangeField(c.exchange[i], sets)],
   qso_points |-> QsoPointsOf(c.scoring, sets),
   multipliers |-> [i \in DOMAIN c.scoring.multipliers |-> MultiplierRule(c.scoring.multipliers[i], sets)],
   qso_count_bonus_points |->
     [i \in DOMAIN c.scoring.qso_count_bonus_points |->
        [c.scoring.qso_count_bonus_points[i] EXCEPT !.values = ToSet(@)]],
   qso_table |-> Table(c), value_sets |-> [n \in ReferencedSets(c) |-> sets[n].items]]
  @@ c.scoring

(* normalize_contest: the rules, or none.                                   *)
NormalizeContest(id, c, global) ==
  LET sets == AvailableSets(c.value_sets, global)
      fields == {SetupField(f, sets) : f \in ToSet(c.setup_fields)} IN
  IF \/ Fail \in Range(sets) \/ ~ReferencedSets(c) \subseteq DOMAIN sets
     \/ \E f \in ToSet(c.setup_fields \o c.cabrillo.export_fields) \cup ToSet(c.exchange) :
          f.type \notin DOMAIN FieldTypes
  THEN {} ELSE IF ValidContest(c, fields) THEN {RulesOf(id, c, sets)} ELSE {}

(* load_dirs: one contest that cannot be resolved refuses them all.         *)
LoadContest(id, v, presets, global) ==
  LET expanded == ExpandPresets(v, presets, {})
  IN IF Fail \in {v, expanded} THEN {}
     ELSE UNION {NormalizeContest(id, c, global) : c \in ReadContest(expanded)}

LoadContests(catalog) ==
  LET composed == ComposeAll(catalog)
      global == ResolveAll([n \in DOMAIN catalog.value_sets |-> ReadSet(catalog.value_sets[n])], <<>>)
      loaded == [id \in DOMAIN catalog.contests |-> LoadContest(id, composed[id], catalog.presets, global)]
  IN IF \/ catalog.contests = <<>> \/ Fail \in Range(global) \/ {} \in Range(loaded)
        \/ \E set \in Range(catalog.value_sets) : ~SetReads(set)
     THEN {} ELSE {[id \in DOMAIN loaded |-> CHOOSE c \in loaded[id] : TRUE]}

LoadDirs(files) == UNION {LoadContests(catalog) : catalog \in LoadCatalog(files)}
=============================================================================
