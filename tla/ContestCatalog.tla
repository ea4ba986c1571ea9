----------------------------- MODULE ContestCatalog -----------------------------
(***************************************************************************)
(* How the backend puts the rules of a contest together at start-up        *)
(* (backend/src/contest_rules.rs, ContestRulesStore::load_dirs): the files *)
(* of the catalog are merged, contests are composed of profiles and of the *)
(* contests they extend, presets and value sets are filled in, and what    *)
(* comes out is checked.  One error stops the start.                       *)
(*                                                                         *)
(* What the rules then mean is in ScoringRules and ContactRules.  YAML is   *)
(* made of values here: a text, another scalar, a map or a list.           *)
(***************************************************************************)
EXTENDS Integers, FiniteSetsExt, SequencesExt, TLC

CONSTANT ValueFiles    \* [file names -> sequences of values]: the .dat files found

Absent == ""           \* an option without a value; an empty id

Text(t) == [kind |-> "text", text |-> t]
Map(entries) == [kind |-> "map", entries |-> entries]
List(items) == [kind |-> "list", items |-> items]
Scalar(x) == [kind |-> "scalar", scalar |-> x]   \* a number, a truth value
Fail == [kind |-> "error"]

Empty == Map(<<>>)
IsText(v) == v.kind = "text"
Has(v, key) == v.kind = "map" /\ key \in DOMAIN v.entries
Entry(v, key) == IF Has(v, key) THEN v.entries[key] ELSE Fail
Drop(v, keys) == Map([k \in DOMAIN v.entries \ keys |-> v.entries[k]])
AllOf(v, results) == IF \E r \in results : r = Fail THEN Fail ELSE v

-----------------------------------------------------------------------------
(* Merging.  Items with an id are put together one by one, and an item may  *)
(* name its place; other lists replace each other.                          *)

ItemId(v) == IF Has(v, "id") /\ IsText(v.entries["id"]) THEN v.entries["id"].text ELSE Absent
HasId(v) == Has(v, "id") /\ IsText(v.entries["id"])
IsKeyed(items) == items # <<>> /\ \A i \in DOMAIN items : HasId(items[i])
Place(items, id) == SelectInSeq(items, LAMBDA v : ItemId(v) = id)

(* An option of an item that has to be a text when it is there.             *)
Option(v, key) == IF Has(v, key) THEN Entry(v, key) ELSE Text(Absent)

RECURSIVE Merge(_, _)

(* merge_keyed_collection, for one item of the overlay.                     *)
Placed(list, item) ==
  LET id == ItemId(item)
      at == Place(list.items, id)
      before == Option(item, "before")
      after == Option(item, "after")
      clean == Drop(item, {"remove", "before", "after"})
      merged == IF at # 0 THEN Merge(list.items[at], clean) ELSE clean
      rest == IF at # 0 THEN RemoveAt(list.items, at) ELSE list.items
      target == CASE before # Text(Absent) -> Place(rest, before.text)
                  [] after # Text(Absent) -> IF Place(rest, after.text) = 0 THEN 0 ELSE Place(rest, after.text) + 1
                  [] at # 0 -> at
                  [] OTHER -> Len(rest) + 1
  IN CASE list = Fail -> Fail
       [] Entry(item, "remove") = Scalar(TRUE) -> IF at = 0 THEN Fail ELSE List(rest)
       [] ~IsText(before) \/ ~IsText(after) -> Fail
       [] before # Text(Absent) /\ after # Text(Absent) -> Fail
       [] OTHER -> IF merged = Fail \/ target = 0 THEN Fail ELSE List(InsertAt(rest, target, merged))

UniqueIds(items) == \A i, j \in DOMAIN items : ItemId(items[i]) = ItemId(items[j]) => i = j

MergeKeyed(base, overlay) ==
  IF (\E v \in ToSet(base \o overlay) : ~HasId(v)) \/ ~UniqueIds(base) \/ ~UniqueIds(overlay) THEN Fail
  ELSE IF overlay = <<>> THEN List(<<>>)
  ELSE FoldLeft(Placed, List(base), overlay)

(* merge_yaml; an error of either side is the result.                       *)
Merge(base, overlay) ==
  CASE base = Fail \/ overlay = Fail -> Fail
    [] base.kind = "map" /\ overlay.kind = "map" ->
         LET merged == [k \in DOMAIN overlay.entries |->
                          IF Has(base, k) THEN Merge(base.entries[k], overlay.entries[k]) ELSE overlay.entries[k]]
         IN AllOf(Map(merged @@ base.entries), Range(merged))
    [] base.kind = "list" /\ overlay.kind = "list" /\ (IsKeyed(base.items) \/ IsKeyed(overlay.items)) ->
         MergeKeyed(base.items, overlay.items)
    [] OTHER -> overlay

-----------------------------------------------------------------------------
(* The catalog: [value_sets, presets, profiles, contests], each a function  *)
(* of names, merged from the files; a name that is defined twice or a file  *)
(* of another schema is an error (load_catalog).                            *)

Sections == {"value_sets", "presets", "profiles", "contests"}
Clash(catalog, file) ==
  file.schema # 2 \/ \E s \in Sections : DOMAIN catalog[s] \cap DOMAIN file[s] # {}
LoadCatalog(files) ==
  FoldLeft(LAMBDA catalog, file :
             IF catalog = {} \/ \E c \in catalog : Clash(c, file) THEN {}
             ELSE {[s \in Sections |-> file[s] @@ c[s]] : c \in catalog},
           {[s \in Sections |-> <<>>]}, files)

(* string_list *)
Names(v, key) ==
  IF ~Has(v, key) THEN <<>> ELSE [i \in DOMAIN v.entries[key].items |-> v.entries[key].items[i].text]
NamesAreTexts(v, key) ==
  Has(v, key) => v.entries[key].kind = "list" /\ \A i \in DOMAIN v.entries[key].items : IsText(v.entries[key].items[i])

(* What is being resolved, [value, done]: done are the results so far, of   *)
(* which each is used again.  under are the names it is resolved for        *)
(* (push_resolution): one of them again is a cycle.                         *)
Resolved(value, done) == [value |-> value, done |-> done]

RECURSIVE ComposeProfile(_, _, _, _)
ComposeProfile(profiles, id, done, under) ==
  LET body == profiles[id]
      layered == FoldLeft(LAMBDA acc, p :
                            LET r == ComposeProfile(profiles, p, acc.done, under \cup {id})
                            IN IF acc.value = Fail THEN acc ELSE Resolved(Merge(acc.value, r.value), r.done),
                          Resolved(Empty, done), Names(body, "profiles"))
      value == Merge(layered.value, Drop(body, {"profiles"}))
  IN CASE id \in DOMAIN done -> Resolved(done[id], done)
       [] id \in under \/ id \notin DOMAIN profiles -> Resolved(Fail, done)
       [] body.kind # "map" \/ ~NamesAreTexts(body, "profiles") -> Resolved(Fail, done)
       [] OTHER -> Resolved(value, (id :> value) @@ layered.done)

(* Profiles from left to right, then the contest it extends, then its own.  *)
RECURSIVE ComposeContest(_, _, _, _)
ComposeContest(catalog, id, done, under) ==
  LET body == catalog.contests[id]
      profiled == FoldLeft(LAMBDA v, p : Merge(v, ComposeProfile(catalog.profiles, p, <<>>, {}).value),
                           Empty, Names(body, "profiles"))
      parent == Option(body, "extends")
      extended == IF parent = Text(Absent) THEN Resolved(Empty, done)
                  ELSE ComposeContest(catalog, parent.text, done, under \cup {id})
      value == Merge(Merge(profiled, extended.value), Drop(body, {"profiles", "extends"}))
  IN CASE id \in DOMAIN done -> Resolved(done[id], done)
       [] id \in under \/ id \notin DOMAIN catalog.contests -> Resolved(Fail, done)
       [] body.kind # "map" \/ ~NamesAreTexts(body, "profiles") \/ ~IsText(parent) -> Resolved(Fail, done)
       [] OTHER -> Resolved(value, (id :> value) @@ extended.done)

ComposeAll(catalog) ==
  FoldLeft(LAMBDA done, id : LET r == ComposeContest(catalog, id, done, {}) IN (id :> r.value) @@ r.done,
           <<>>, SetToSeq(DOMAIN catalog.contests))

(* expand_presets: everywhere in a value, and again in what a preset brings. *)
RECURSIVE ExpandPresets(_, _, _)
ExpandPresets(v, presets, under) ==
  LET children(m) == LET expanded == [k \in DOMAIN m.entries |-> ExpandPresets(m.entries[k], presets, under)]
                     IN AllOf(Map(expanded), Range(expanded))
      items == [i \in DOMAIN v.items |-> ExpandPresets(v.items[i], presets, under)]
      name == Entry(v, "preset").text
      brought == IF name \in under \/ name \notin DOMAIN presets THEN Fail
                 ELSE Merge(ExpandPresets(presets[name], presets, under \cup {name}), Drop(v, {"preset"}))
  IN CASE v.kind = "list" -> AllOf(List(items), Range(items))
       [] v.kind = "map" /\ Has(v, "preset") /\ IsText(v.entries["preset"]) ->
            IF brought = Fail THEN Fail ELSE children(brought)
       [] v.kind = "map" -> children(v)
       [] OTHER -> v

-----------------------------------------------------------------------------
(* Value sets, [use, values, file, exclude].  Own values or a file take the *)
(* place of those of the set that is used (resolve_value_set_body).         *)

NoValues == <<Absent>>

(* value_set_file_path: the file of that name, which is in the last of the  *)
(* directories that has one.                                                *)
FileValues(name) == IF name \in DOMAIN ValueFiles THEN List(ValueFiles[name]) ELSE Fail

ValuesOf(set, base) ==
  LET values == CASE set.values # NoValues -> List(set.values)
                  [] set.file # Absent -> FileValues(set.file)
                  [] set.use # Absent -> base
                  [] OTHER -> Fail
  IN IF (set.values # NoValues /\ set.file # Absent) \/ values = Fail THEN Fail
     ELSE List(SelectSeq(values.items, LAMBDA x : x # Absent /\ x \notin set.exclude))

(* A set of the contest hides the global one; it may use it by its own name. *)
RECURSIVE ResolveValueSet(_, _, _, _, _)
ResolveValueSet(sets, global, name, done, under) ==
  LET set == sets[name]
      named(n) == IF n \in DOMAIN global THEN global[n] ELSE Fail
      base == CASE set.use = Absent -> Resolved(List(<<>>), done)
                [] global # <<>> /\ (set.use = name \/ set.use \notin DOMAIN sets) -> Resolved(named(set.use), done)
                [] OTHER -> ResolveValueSet(sets, global, set.use, done, under \cup {name})
      value == IF base.value = Fail THEN Fail ELSE ValuesOf(set, base.value)
  IN CASE name \in DOMAIN done -> Resolved(done[name], done)
       [] name \in under \/ name \notin DOMAIN sets -> Resolved(Fail, done)
       [] OTHER -> Resolved(value, (name :> value) @@ base.done)

ResolveAll(sets, global) ==
  FoldLeft(LAMBDA done, n : ResolveValueSet(sets, global, n, done, {}).done, <<>>, SetToSeq(DOMAIN sets))
AvailableSets(sets, global) == ResolveAll(sets, global) @@ global
=============================================================================
