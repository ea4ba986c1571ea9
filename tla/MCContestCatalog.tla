--------------------------- MODULE MCContestCatalog ---------------------------
(***************************************************************************)
(* Small catalogs: what the definitions of ContestCatalog return is        *)
(* compared with what it should be for all of them, and one catalog is     *)
(* loaded whole.                                                           *)
(***************************************************************************)
EXTENDS ContestRulesStore

Texts(names) == List([i \in DOMAIN names |-> Text(names[i])])
Item(id, options) == Map(("id" :> Text(id)) @@ options)
Of(option, text) == option :> Text(text)

-----------------------------------------------------------------------------
(* References: every name to the set of names it is made of.  What is found *)
(* along them must exist and never lead back (push_resolution).             *)
RECURSIVE FoundFrom(_, _, _)
FoundFrom(refs, from, n) ==
  IF n = 0 THEN from
  ELSE FoundFrom(refs, from \cup UNION {refs[x] : x \in from \cap DOMAIN refs}, n - 1)
Beyond(refs, id) == FoundFrom(refs, refs[id], Cardinality(DOMAIN refs))
Sound(refs, id) == /\ Beyond(refs, id) \subseteq DOMAIN refs
                   /\ \A x \in {id} \cup Beyond(refs, id) : x \notin Beyond(refs, x)

Abc == {"A", "B", "C"}
Catalog(profiles, contests) ==
  [value_sets |-> <<>>, presets |-> <<>>, profiles |-> profiles, contests |-> contests]

Body(id, parents) == Map(("profiles" :> Texts(parents)) @@ Of("made", id) @@ Of("own" \o id, id))
ProfilesOf(parents) == [id \in Abc |-> Body(id, parents[id])]
ParentLists == {<<>>, <<"A">>, <<"C">>, <<"B", "C">>, <<"D">>}

(* Profiles are composed if and only if their references are sound, and     *)
(* what is left of every body is in the result, its own made over theirs.   *)
ASSUME ProfilesAreComposed ==
  \A parents \in [Abc -> ParentLists] :
    LET refs == [id \in Abc |-> ToSet(parents[id])] IN
    \A id \in Abc :
      LET v == ComposeProfile(ProfilesOf(parents), id, <<>>, {}).value IN
      IF Sound(refs, id)
      THEN v = Map([k \in {"own" \o x : x \in {id} \cup Beyond(refs, id)} |-> Text(CHOOSE x \in Abc : k = "own" \o x)]
                   @@ Of("made", id))
      ELSE v = Fail

Extends(parent) == IF parent = Absent THEN <<>> ELSE Of("extends", parent)
Contests(parent) == [id \in Abc |-> Map(Extends(parent[id]) @@ Of("made", id))]

(* The contests that were composed before are used again: each is what it   *)
(* is when it is composed alone, whatever the order.                        *)
ASSUME ComposedOnce ==
  \A parent \in [Abc -> Abc \cup {Absent, "D"}] :
    LET catalog == Catalog(<<>>, Contests(parent))
        refs == [id \in Abc |-> {parent[id]} \ {Absent}] IN
    \A id \in Abc : /\ ComposeAll(catalog)[id] = ComposeContest(catalog, id, <<>>, {}).value
                    /\ (ComposeAll(catalog)[id] # Fail) <=> Sound(refs, id)

(* The contest's own word counts first, then that of the contest it extends *)
(* and that of its last profile.                                            *)
Layers == <<"own", "extended", "right", "left">>
ASSUME Precedence ==
  \A given \in SUBSET ToSet(Layers) :
    LET word(layer) == IF layer \in given THEN Of("word", layer) ELSE <<>>
        catalog == Catalog([p \in {"left", "right"} |-> Map(word(p))],
                           "A" :> Map(word("own") @@ Of("extends", "B") @@ ("profiles" :> Texts(<<"left", "right">>)))
                           @@ "B" :> Map(word("extended")))
        first == SelectSeq(Layers, LAMBDA l : l \in given) IN
    ComposeAll(catalog)["A"] = Map(IF first = <<>> THEN <<>> ELSE Of("word", first[1]))

-----------------------------------------------------------------------------
Items(ids) == List([i \in DOMAIN ids |-> Item(ids[i], Of("old", "yes"))])
IdsOf(list) == [i \in DOMAIN list.items |-> ItemId(list.items[i])]
Ways == {<<>>, "remove" :> Scalar(TRUE), Of("before", "A"), Of("after", "B"), Of("before", "A") @@ Of("after", "B")}
Overlays == UNION {{<<Item(id, w)>> : w \in Ways} : id \in {"A", "D"}}
            \cup {<<Item("C", w), Item("D", x)>> : w, x \in Ways}
Changed(overlay) == {ItemId(v) : v \in ToSet(overlay)}
Removed(overlay) == {ItemId(v) : v \in {x \in ToSet(overlay) : Has(x, "remove")}}

(* A merged list holds every item once, without those removed; the others   *)
(* keep what they had, items nothing was said of keep their order, and the  *)
(* last one that was placed is next to what it names.                       *)
ASSUME KeyedMerge ==
  \A ids \in UNION {[1 .. n -> Abc] : n \in 1 .. 3}, overlay \in Overlays :
    LET merged == Merge(Items(ids), List(overlay))
        untouched(list) == SelectSeq(list, LAMBDA id : id \notin Changed(overlay))
        at(id) == Place(merged.items, id)
        last == overlay[Len(overlay)] IN
    merged # Fail =>
      /\ Has(last, "before") => at("A") > 0 /\ at(ItemId(last)) = at("A") - 1
      /\ Has(last, "after") => at("B") > 0 /\ at(ItemId(last)) = at("B") + 1
      /\ IsInjective(ids) /\ IsInjective(IdsOf(merged))
      /\ ToSet(IdsOf(merged)) = (ToSet(ids) \cup Changed(overlay)) \ Removed(overlay)
      /\ untouched(IdsOf(merged)) = untouched(ids)
      /\ \A v \in ToSet(merged.items) :
           /\ Has(v, "old") <=> ItemId(v) \in ToSet(ids)
           /\ \A option \in {"remove", "before", "after"} : ~Has(v, option)

(* keyed_overlays_patch_remove_and_place_entries (contest_rules.rs)         *)
ASSUME PatchRemoveAndPlace ==
  LET base == List(<<Item("one", "value" :> Scalar(1)), Item("two", "value" :> Scalar(2))>>)
      overlay == List(<<Item("one", "value" :> Scalar(3)), Item("two", "remove" :> Scalar(TRUE)),
                        Item("zero", Of("before", "one"))>>)
      merged == Merge(base, overlay) IN
  IdsOf(merged) = <<"zero", "one">> /\ Entry(merged.items[2], "value") = Scalar(3)

-----------------------------------------------------------------------------
RECURSIVE NoPreset(_)
NoPreset(v) == CASE v.kind = "list" -> \A x \in Range(v.items) : NoPreset(x)
                 [] v.kind = "map" -> ~Has(v, "preset") /\ \A x \in Range(v.entries) : NoPreset(x)
                 [] OTHER -> TRUE

PresetNames == {"P", "Q"}
Using(name) == IF name = Absent THEN <<>> ELSE Of("preset", name)
Inside(name) == IF name = Absent THEN <<>> ELSE "items" :> List(<<Map(Using(name))>>)

(* Presets that name each other end, or are an error; none is left.         *)
ASSUME PresetsAreExpanded ==
  \A use \in [PresetNames -> PresetNames \cup {Absent, "R"}], inside \in [PresetNames -> {Absent, "Q"}] :
    LET presets == [p \in PresetNames |-> Map(Using(use[p]) @@ Inside(inside[p]) @@ Of("made", p))]
        refs == [p \in PresetNames |-> {use[p], inside[p]} \ {Absent}]
        v == ExpandPresets(List(<<Map(Using("P"))>>), presets, {}) IN
    IF Sound(refs, "P") THEN NoPreset(v) /\ Entry(v.items[1], "made") = Text("P") ELSE v = Fail

-----------------------------------------------------------------------------
SetNames == {"u", "v"}
ASetUsing(use, values, exclude) == [use |-> use, values |-> values, file |-> Absent, exclude |-> exclude]
SomeSets == {ASetUsing(use, values, exclude) :
               use \in {Absent, "u", "v", "w"}, values \in {NoValues, <<"1", "2">>}, exclude \in {{}, {"1"}}}
GlobalSets == "u" :> List(<<"1", "3">>) @@ "w" :> List(<<"1">>)

(* A set of the contest takes the place of the one of the catalog, which it *)
(* can use by its own name.  Nothing that is left out comes back.           *)
ASSUME ValueSetsAreResolved ==
  \A sets \in [SetNames -> SomeSets] :
    LET available == AvailableSets(sets, GlobalSets)
        refs == [n \in SetNames |-> ({sets[n].use} \cap SetNames) \ {n}]
        refused(n) == \/ ~Sound(refs, n)
                      \/ \E x \in {n} \cup Beyond(refs, n) :
                           \/ sets[x].use = Absent /\ sets[x].values = NoValues
                           \/ sets[x].use = x /\ x \notin DOMAIN GlobalSets IN
    /\ available["w"] = GlobalSets["w"]
    /\ \A n \in SetNames :
         /\ (available[n] = Fail) <=> refused(n)
         /\ ~refused(n) => /\ ToSet(available[n].items) \cap sets[n].exclude = {}
                           /\ sets[n].values # NoValues =>
                                ToSet(available[n].items) = ToSet(sets[n].values) \ sets[n].exclude

-----------------------------------------------------------------------------
(* One contest in two files: states of two countries, as MCScoredLog checks *)
(* them with.                                                               *)
MCValueFiles == "countries.dat" :> <<"1", "6", "291">>
MCFieldTypes == ("STRING:2" :> [kind |-> "TEXT", max_length |-> 2])
                @@ ("SERIAL:4" :> [kind |-> "SERIAL", max_length |-> 4])
MCMinutes == ("23:00" :> 1380) @@ ("01:00" :> 60)

Named(id, field, more) == Item(id, Of("name", id) @@ Of("field", field) @@ more)
PartyProfile ==
  Map(("bands" :> List(<<>>)) @@ ("modes" :> List(<<>>))
      @@ ("exchange" :> List(<<Item("serial", Of("preset", "sent-serial")), Item("state", Of("preset", "state"))>>))
      @@ ("scoring" :> Map(
            ("dupe_key" :> Texts(<<"CALL", "BAND", "MODE">>)) @@ ("minimum_multiplier_count" :> Scalar(1))
            @@ ("qso_points" :> Map("points" :> Scalar(1)))
            @@ ("multipliers" :> List(<<Named("DXCC", "DXCC", <<>>), Named("STATE", "STATE", <<>>)>>))
            @@ ("bonus_points" :> List(<<Named("station", "CALL", ("key" :> Texts(<<"CALL">>))
                                                                 @@ ("values" :> Map("W4A" :> Scalar(350))))>>)))))
CommonFile ==
  [schema |-> 2, contests |-> <<>>,
   value_sets |-> "countries" :> Map(Of("values_from_file", "countries.dat"))
                  @@ "states" :> Map(Of("use", "countries") @@ ("exclude" :> Texts(<<"1">>))),
   presets |-> "sent-serial" :> Map(Of("label", "Serial") @@ Of("type", "SERIAL:4") @@ Of("adif", "STX")
                                    @@ Of("direction", "sent"))
               @@ "state" :> Map(Of("label", "State") @@ Of("type", "STRING:2") @@ Of("adif", "STATE")
                                 @@ Of("direction", "received")),
   profiles |-> "party" :> PartyProfile]
Thresholds(of) == "thresholds" :> Scalar(of)
ContestFile ==
  [schema |-> 2, value_sets |-> <<>>, presets |-> <<>>, profiles |-> <<>>,
   contests |-> "TEST" :> Map(
     ("profiles" :> Texts(<<"party">>))
     @@ ("value_sets" :> Map("states" :> Map(Of("use", "states") @@ ("exclude" :> Texts(<<"6">>)))))
     @@ ("exchange" :> List(<<Item("serial", "remove" :> Scalar(TRUE)),
                              Item("state", "only_when" :> Map(Of("field", "DXCC") @@ Of("in_set", "states")))>>))
     @@ ("scoring" :> Map(
           ("qso_points" :> Map("points" :> Scalar(2)))
           @@ ("multipliers" :> List(<<Item("DXCC", "remove" :> Scalar(TRUE)),
                                       Item("STATE", "key" :> Texts(<<"STATE", "MODE_CLASS">>))>>))
           @@ ("multiplier_count_bonus_points" :>
                 List(<<Item("many", Of("name", "many") @@ Of("multiplier", "STATE")
                                     @@ Thresholds(2 :> 100))>>))
           @@ ("qso_count_bonus_points" :>
                 List(<<Named("busy", "STATE", Thresholds(2 :> 10))>>)))))]

LoadedRules == CHOOSE rules \in LoadDirs(<<CommonFile, ContestFile>>) : TRUE

ASSUME TheTableIsDerived ==
  [i \in DOMAIN LoadedRules["TEST"].qso_table |-> LoadedRules["TEST"].qso_table[i].id]
    = <<"date-time", "frequency", "mode", "call", "exchange-state", "multipliers", "points", "operator">>

(* What is wrong in one contest refuses the whole catalog.                  *)
Broken(change) == [ContestFile EXCEPT !.contests["TEST"] = Merge(@, Map(change))]
ScoredAs(change) == Broken("scoring" :> Map(change))
BrokenFiles ==
  {[ContestFile EXCEPT !.schema = 1], Broken(Of("extends", "TEST")), Broken(Of("labels", "none")),
   Broken("profiles" :> Texts(<<"parties">>)),
   Broken("exchange" :> List(<<Item("state", Of("serial_scope", "band"))>>)),
   Broken("exchange" :> List(<<Item("state", Of("source", "power"))>>)),
   Broken("exchange" :> List(<<Item("state", "in_sets" :> Texts(<<"provinces">>))>>)),
   ScoredAs("minimum_multiplier_count" :> Scalar(-1)),
   ScoredAs("multipliers" :> List(<<Item("STATE", "max_count" :> Scalar(0))>>)),
   ScoredAs("multipliers" :> List(<<Item("STATE", Of("name", "states"))>>)),
   ScoredAs("param_multipliers" :> List(<<Item("power", Of("param", "power") @@ ("values" :> Map("QRP" :> Scalar(3))))>>)),
   ScoredAs("qso_points" :> Map("time_bonus_points" :> List(
     <<Item("night", Of("start_utc", "23:00") @@ Of("end_utc", "25:00") @@ ("points" :> Scalar(1)))>>)))}
ASSUME NothingBrokenIsLoaded ==
  LoadDirs(<<CommonFile, ContestFile>>) # {} /\ \A file \in BrokenFiles : LoadDirs(<<CommonFile, file>>) = {}
=============================================================================
