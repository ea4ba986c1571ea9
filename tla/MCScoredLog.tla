----------------------------- MODULE MCScoredLog -----------------------------
(***************************************************************************)
(* The contests and the requests ScoredLog is checked with, and the lists  *)
(* CachedLog is.  Each contest puts together rules of contests of          *)
(* data/contests, cut to a few values.                                     *)
(***************************************************************************)
EXTENDS ScoredLog, CachedLog, MCContestCatalog

(* The stations of the tests of derived fields (backend/src/scoring.rs).    *)
DerivedParts(text) ==
  CASE text = "JA1ABC" -> [Plain(text) EXCEPT !.prefix = "JA1", !.family = "JA", !.last = "1"]
    [] text = "JD1ABC" -> [Plain(text) EXCEPT !.prefix = "JD1", !.family = "JD1", !.last = "1"]
    [] text = "W7ABC" -> [Plain(text) EXCEPT !.prefix = "W7", !.family = "W", !.last = "7"]
    [] text = "FN31" -> [Plain(text) EXCEPT !.field = "FN"]
    [] text = "C25" -> [Plain(text) EXCEPT !.letter = "C"]
    [] text = "SI3" -> [Plain(text) EXCEPT !.first = "3"]

DerivedTexts == {"JA1ABC", "JD1ABC", "W7ABC", "FN31", "C25", "SI3"}

(* W4A is also worked as a portable station, W4A/M.                         *)
MCParts ==
  [t \in DerivedTexts |-> DerivedParts(t)]
  @@ ("W4A" :> [Plain("W4A") EXCEPT !.identity = "W4A", !.prefix = "W4", !.family = "W",
                                !.first = "4", !.last = "4"])
  @@ ("W4A/M" :> [Plain("W4A/M") EXCEPT !.identity = "W4A", !.prefix = "W4", !.family = "W",
                                !.first = "4", !.last = "4", !.ends = {"/M"}])
  @@ ("JA1B" :> [Plain("JA1B") EXCEPT !.prefix = "JA1", !.family = "JA", !.first = "1", !.last = "1"])
  @@ ("W4" :> [Plain("W4") EXCEPT !.first = "4", !.last = "4"])
  @@ ("JA1" :> [Plain("JA1") EXCEPT !.first = "1", !.last = "1"])

MCKilometers(a, b) == CASE {a, b} \subseteq {"FM05"} -> 0
                        [] {a, b} \subseteq {"FM05", "PM95"} -> 11000
                        [] OTHER -> -1

Derived(c, f) == FieldValue([adif |-> c], f)
ASSUME DerivedFields ==
  LET europe == ("GRIDSQUARE" :> "FN31") @@ ("SRX_STRING" :> "C25") @@ ("DXCC" :> "284")
                @@ ("PFX" :> "SI3") IN
  /\ Derived(europe, "GRID_FIELD") = "FN" /\ Derived(europe, "DOK_AREA") = "C"
  /\ Derived(europe, "SAC_AREA") = "SM3"
ASSUME DerivedAreas ==
  LET station(call, dxcc) == ("CALL" :> call) @@ ("DXCC" :> dxcc)
      areas(c) == <<Derived(c, "JARL_CALL_AREA"), Derived(c, "JARL_ENTITY")>> IN
  /\ areas(station("JA1ABC", "339")) = <<"JA1", None>>
  /\ areas(station("JD1ABC", "339")) = <<None, "339">>
  /\ areas(station("W7ABC", "291")) = <<"W7", None>>

Calls == {"K4X", "W4A", "JA1B"}
MCShapes == [t \in Calls \cup {"W4A/M"} |->
               [length |-> 4, numeric |-> FALSE, rst |-> 0, call |-> TRUE, matches |-> {}]]
MCBandOf == ("14.0" :> "20m") @@ ("7.0" :> "40m")
MCEntityOf == ("K4X" :> [dxcc |-> "291", cont |-> "NA"]) @@ ("W4A" :> [dxcc |-> "291", cont |-> "NA"])
              @@ ("W4A/M" :> [dxcc |-> "291", cont |-> "NA"]) @@ ("JA1B" :> [dxcc |-> "339", cont |-> "AS"])

FreqOf == ("20m" :> "14.0") @@ ("40m" :> "7.0")
Qso(id, time, call, band, mode, more) ==
  [id |-> id, time |-> time, force |-> FALSE,
   adif |-> more @@ ("STATION_CALLSIGN" :> "K4X") @@ ("CALL" :> call) @@ ("BAND" :> band)
            @@ ("FREQ" :> FreqOf[band]) @@ ("MODE" :> mode) @@ ("CONTEST_ID" :> "TEST")]
Forced(e) == [e EXCEPT !.force = TRUE]
In(state) == "STATE" :> state

(* A batch of one, new or as an edit of a contact.                          *)
Each(entries) == {<<e>> : e \in entries}
AsEdits(entries, ids) == {<<[e EXCEPT !.id = id]>> : e \in entries, id \in ids}
StoredRow(e) == [id |-> e.id, time |-> e.time, adif |-> Enrich(e).adif, warned |-> FALSE]

-----------------------------------------------------------------------------
When(field, values) ==
  [field |-> field, values |-> values, exclude_values |-> {}, matches_field |-> None,
   not_matches_field |-> None, suffixes |-> {}, exclude_suffixes |-> {}]

State == [adif |-> "STATE", kind |-> "TEXT", direction |-> "received", max_length |-> 2,
          pattern |-> None, values |-> {}, any |-> FALSE, only_when |-> {When("DXCC", {"291"})}]

Multiplier(field) ==
  [id |-> field, name |-> field, field |-> field, key |-> <<field>>, values |-> {}, when |-> {},
   exclude_call_suffixes |-> {}, exclude_values |-> {}, fixed_key |-> None, max_count |-> 0,
   cap_group |-> None]

Flat(points) == [kind |-> "points", points |-> points, time_bonus_points |-> <<>>,
                 category_band_param |-> None]

Plainly ==
  [id |-> "TEST", bands |-> {}, modes |-> {}, excluded_modes |-> {}, setup_fields |-> <<>>,
   exchange |-> <<>>, dupe_key |-> <<"CALL", "BAND", "MODE">>, qso_points |-> Flat(2),
   multipliers |-> <<>>, minimum_multiplier_count |-> 0, bonus_points |-> <<>>,
   param_multipliers |-> <<>>, multiplier_count_bonus_points |-> <<>>,
   qso_count_bonus_points |-> <<>>]

(* A state QSO party: states once per mode, a bonus station, rewards for    *)
(* numbers of states and of contacts.                                       *)
Party ==
  [Plainly EXCEPT
     !.multipliers = <<[Multiplier("STATE") EXCEPT !.key = <<"STATE", "MODE_CLASS">>]>>,
     !.minimum_multiplier_count = 1,
     !.bonus_points = <<[id |-> "station", name |-> "station", field |-> "CALL", key |-> <<"CALL">>,
                         values |-> "W4A" :> 350]>>,
     !.multiplier_count_bonus_points = <<[id |-> "many", name |-> "many", multiplier |-> "STATE", thresholds |-> 2 :> 100]>>,
     !.qso_count_bonus_points = <<[id |-> "busy", name |-> "busy", field |-> "STATE", param |-> None, values |-> {},
                                   thresholds |-> 2 :> 10]>>]

(* Points by continent and hour, a single-band entry, a power factor.       *)
Geography ==
  LET flat(n) == [default |-> n, by_band |-> <<>>] IN
  [country_field |-> "DXCC", station_country_field |-> "MY_DXCC", continent_field |-> "CONT",
   station_continent_field |-> "MY_CONT", unresolved |-> flat(0), same_country |-> flat(0),
   different_country_same_continent |-> flat(1), different_country_north_america |-> flat(2),
   different_continent |-> [default |-> 3, by_band |-> "40m" :> 6]]

World_Wide ==
  [Plainly EXCEPT
     !.dupe_key = <<"CALL", "BAND">>,
     !.setup_fields = <<[key |-> "band", kind |-> "TEXT", required |-> FALSE, max_length |-> 3,
                         pattern |-> None, values |-> {"20m", "ALL"}, any |-> FALSE],
                        [key |-> "power", kind |-> "TEXT", required |-> TRUE, max_length |-> 3,
                         pattern |-> None, values |-> {"LOW", "QRP"}, any |-> FALSE]>>,
     !.qso_points = [kind |-> "geography", geography |-> Geography,
                     category_band_param |-> "band",
                     time_bonus_points |-> <<[start |-> 1380, end |-> 60, points |-> 1]>>],
     !.multipliers = <<Multiplier("WPX_PREFIX"), [Multiplier("DXCC") EXCEPT !.key = <<"DXCC", "BAND">>]>>,
     !.param_multipliers = <<[param |-> "power", values |-> "QRP" :> 3]>>]

(* Rovers count for more, by rule; no contact is a duplicate.               *)
Rovers ==
  [Plainly EXCEPT
     !.dupe_key = <<>>,
     !.qso_points = [kind |-> "rules", time_bonus_points |-> <<>>, category_band_param |-> None,
                     rules |-> <<[when |-> {[When("CALL", {}) EXCEPT !.suffixes = {"/M"}]}, points |-> 5],
                                 [when |-> {When("MODE", {"CW"})}, points |-> 1]>>],
     !.multipliers = <<[Multiplier("CALL") EXCEPT !.exclude_call_suffixes = {"/M"}]>>]

(* At most one of the calls and areas together is a multiplier.             *)
Limited ==
  [Plainly EXCEPT
     !.multipliers = <<[Multiplier("STATE") EXCEPT !.max_count = 1, !.cap_group = "some"],
                       [Multiplier("JARL_CALL_AREA") EXCEPT !.max_count = 2, !.cap_group = "some"]>>]

(* Of the states in one limit, those of a set count as one multiplier, as   *)
(* the counties of California do.                                           *)
Counties ==
  LET location(values) == [Multiplier("STATE") EXCEPT !.values = values, !.max_count = 2, !.cap_group = "location"] IN
  [Plainly EXCEPT
     !.multipliers = <<[location({"SC", "GA"}) EXCEPT !.id = "county", !.fixed_key = "CA"],
                       [location({"NC", "VA"}) EXCEPT !.id = "state"]>>]

Distances ==
  [Plainly EXCEPT
     !.qso_points = [kind |-> "grid_distance", time_bonus_points |-> <<>>, category_band_param |-> None,
                     grid_distance |-> [station_grid_field |-> "MY_GRIDSQUARE",
                                        contact_grid_field |-> "GRIDSQUARE",
                                        kilometers_per_point |-> 3000, base_points |-> 1,
                                        minimum_distance_points |-> 2]],
     !.multipliers = <<Multiplier("GRID_FIELD")>>]

-----------------------------------------------------------------------------
Requests(batches, deletes, drops, changes) ==
  [batches |-> batches, deletes |-> deletes, drops |-> drops, changes |-> changes]

Log(r, p, stored, pool, changes, left) ==
  [rules |-> r, params |-> p, stored |-> {StoredRow(e) : e \in stored}, pool |-> pool,
   changes |-> changes, env |-> left]

First == Qso(1, 10, "W4A", "20m", "CW", In("NC"))
Second == Qso(2, 20, "W4A", "20m", "CW", In("NC"))
Again == {Qso(0, 30, "W4A", "20m", "CW", In("NC")), Qso(0, 30, "W4A", "20m", "SSB", In("NC")),
          Qso(0, 30, "JA1B", "20m", "CW-R", In("SC"))}

PartyLog ==
  Log(Party, <<>>, {First, Qso(2, 40, "JA1B", "20m", "CW", In("NC"))}, AsEdits(Again, {0, 1}), {}, Requests(2, 1, 0, 0))

DroppedLog ==
  LET some == {Qso(0, 30, "W4A", "20m", "CW", In("NC"))} IN
  Log(Party, <<>>, {First}, AsEdits(some, {0, 1}), {}, Requests(1, 1, 1, 0))

(* The rules of this contest are those the catalog of MCContestCatalog has. *)
Checked == [Party EXCEPT !.exchange = <<State>>]
ASSUME CheckedIsLoaded == \A part \in DOMAIN Checked : LoadedRules["TEST"][part] = Checked[part]

Lost == {Qso(0, 20, "W4A", "20m", "CW", <<>>), Qso(0, 30, "JA1B", "20m", "CW", <<>>),
         Qso(0, 5, "W4A", "40m", "FM", In("NC") @@ "DXCC" :> "291")}
CheckedLog ==
  Log(Checked, <<>>, {}, Each({Forced(e) : e \in Lost}) \cup AsEdits(Lost, {0, 1}),
      {}, Requests(2, 1, 0, 0))

Abroad == {Qso(0, 30, "JA1B", "40m", "CW", <<>>), Qso(0, 1400, "JA1B", "20m", "CW", <<>>),
           Qso(0, 30, "W4A/M", "20m", "CW", <<>>)}
AbroadLog ==
  Log(World_Wide, "power" :> "LOW", {}, AsEdits(Abroad, {0, 1}),
      {("power" :> "QRP") @@ ("band" :> "20m")}, Requests(2, 0, 0, 1))

RoverLog ==
  LET some == {Qso(0, 30, "W4A/M", "20m", "CW", <<>>), Qso(0, 20, "W4A", "20m", "CW", <<>>),
               Qso(0, 40, "W4A", "20m", "SSB", <<>>)} IN
  Log(Rovers, <<>>, {}, AsEdits(some, {0, 1}), {}, Requests(2, 1, 0, 0))

LimitedLog ==
  LET some == {Qso(0, 30, "W4A", "20m", "CW", In("NC")), Qso(0, 20, "W4A", "40m", "CW", In("SC")),
               Qso(0, 40, "JA1B", "20m", "SSB", <<>>)} IN
  Log(Limited, <<>>, {First}, AsEdits(some, {0, 1}), {}, Requests(2, 1, 0, 0))

CountyLog ==
  LET some == {Qso(0, 30, "W4A", "20m", "CW", In("GA")), Qso(0, 10, "W4A", "40m", "CW", In("VA"))} IN
  Log(Counties, <<>>, {Qso(1, 20, "W4A", "20m", "SSB", In("NC")), Qso(2, 25, "JA1B", "20m", "CW", In("SC"))},
      AsEdits(some, {0, 1}), {}, Requests(2, 1, 0, 0))

DistanceLog ==
  LET at(grid) == ("GRIDSQUARE" :> grid) @@ ("MY_GRIDSQUARE" :> "FM05")
      some == {Qso(0, 30, "W4A", "20m", "CW", at("FM05")), Qso(0, 20, "JA1B", "40m", "CW", at("PM95")),
               Qso(0, 40, "JA1B", "20m", "SSB", at("??"))} IN
  Log(Distances, <<>>, {}, AsEdits(some, {0, 1}), {}, Requests(2, 1, 0, 0))

(* Two contacts are edited by one request.                                  *)
EditBoth == <<[First EXCEPT !.time = 15], [Second EXCEPT !.time = 16]>>
BatchLog == Log(Party, <<>>, {First, Qso(2, 40, "JA1B", "20m", "CW", In("NC"))}, {EditBoth}, {}, Requests(1, 0, 0, 0))

MCWorlds == "party" :> PartyLog @@ "dropped" :> DroppedLog @@ "checked" :> CheckedLog @@ "abroad" :> AbroadLog
            @@ "rovers" :> RoverLog @@ "limited" :> LimitedLog @@ "distances" :> DistanceLog
            @@ "batch" :> BatchLog @@ "counties" :> CountyLog

-----------------------------------------------------------------------------
(* Letters 1 to 3, and 11 to 13 for the small ones.                         *)
MCUpper == [l \in (1 .. 3) \cup (11 .. 13) |-> l % 10]

Worked(id, time, call, op) == [id |-> id, time |-> time, call |-> call, operator |-> op]

KeptIdle == [master |-> <<>>, stored |-> {}, pool |-> {}, prefixes |-> {}, clocks |-> {}, env |-> <<>>]

(* New contacts before, between and behind the stored ones, edits of their  *)
(* time and call, and batches of both, with one contact twice.              *)
MCKept ==
  [master |-> <<Worked(0, 0, <<12, 1>>, <<>>)>>,
   stored |-> {Worked(1, 2, <<1, 2>>, <<>>), Worked(2, 5, <<2>>, <<3>>)},
   pool |-> {<<Worked(0, 1, <<1>>, <<3>>)>>, <<Worked(0, 3, <<11, 2>>, <<3>>)>>, <<Worked(0, 7, <<2, 1>>, <<>>)>>,
             <<Worked(1, 6, <<1, 2>>, <<>>)>>, <<Worked(2, 5, <<1, 2>>, <<13>>)>>,
             <<Worked(0, 4, <<1, 2>>, <<>>), Worked(0, 4, <<2, 3>>, <<3>>)>>,
             <<Worked(0, 6, <<1, 1>>, <<>>), Worked(1, 3, <<2>>, <<>>), Worked(1, 4, <<2, 2>>, <<3>>)>>},
   prefixes |-> {<<>>, <<1>>, <<11>>, <<1, 2>>, <<2>>, <<2, 2>>, <<3>>}, clocks |-> 0 .. 8,
   env |-> [upserts |-> 3, deletes |-> 2, unseen |-> 1]]

MCKeptWorlds == "idle" :> KeptIdle @@ "kept" :> MCKept

(* The two are checked side by side: one of them has requests.              *)
MCWithNone == MCWorlds @@ "none" :> Log(Plainly, <<>>, {}, {}, {}, <<>>)
MCInit == ScoredInit /\ KeptInit /\ ((world = "none") # (keptWorld = "idle"))
MCNext == \/ world # "none" /\ ScoredNext /\ UNCHANGED keptVars
          \/ keptWorld # "idle" /\ KeptNext /\ UNCHANGED scoredVars
MCSpec == MCInit /\ [][MCNext]_<<scoredVars, keptVars>>
=============================================================================
