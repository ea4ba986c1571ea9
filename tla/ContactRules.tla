----------------------------- MODULE ContactRules -----------------------------
(***************************************************************************)
(* What the backend asks of a contact before it is logged                  *)
(* (backend/src/validation.rs), and what it fills in itself                *)
(* (enrich_missing_dxcc of backend/src/log_cache.rs).                      *)
(*                                                                         *)
(* Facts about texts that the code finds by scanning them are the table    *)
(* Shapes; patterns are named by the texts that match them.                *)
(***************************************************************************)
EXTENDS ScoringRules

CONSTANTS
  Shapes,     \* [text -> [length, numeric, rst (its digits, 0 if it is no report), call, matches]]
  BandOf,     \* [frequency -> the band it lies in]
  EntityOf    \* [callsign -> [dxcc, cont]]: DxccDatabase.lookup

Region == Range(BandOf)
Shape(v) == IF v \in DOMAIN Shapes THEN Shapes[v]
            ELSE [length |-> 1, numeric |-> FALSE, rst |-> 0, call |-> FALSE, matches |-> {}]

-----------------------------------------------------------------------------
(* Fields with a type (validate_typed_field).  A field has a pattern or     *)
(* None, and values; with both, any of the two or both must agree.          *)

ReportLength(mode) == IF mode \in {"CW", "CW-R"} THEN 3 ELSE 2

MaxLength(field, mode) == IF field.kind = "RST" THEN ReportLength(mode) ELSE field.max_length

FitsValidation(field, v) ==
  LET listed == v \in field.values
      matched == field.pattern \in Shape(v).matches IN
  CASE field.values = {} -> field.pattern = None \/ matched
    [] field.pattern = None -> listed
    [] field.any -> listed \/ matched
    [] OTHER -> listed /\ matched

FitsType(field, v, mode) ==
  /\ v # None
  /\ Shape(v).length <= MaxLength(field, mode)
  /\ field.kind = "RST" => Shape(v).rst = ReportLength(mode)
  /\ field.kind \in {"NUMERIC", "SERIAL"} => Shape(v).numeric
  /\ FitsValidation(field, v)

(* contact_matches_condition: as in scoring, but for the text as it is      *)
(* entered (a portable call is not its station) and without endings.        *)
Holds(cond, c) ==
  LET v == Adif(c, cond.field) IN
  /\ v # None
  /\ cond.values = {} \/ v \in cond.values
  /\ v \notin cond.exclude_values
  /\ cond.matches_field # None => v = Adif(c, cond.matches_field)
  /\ cond.not_matches_field # None => Adif(c, cond.not_matches_field) \notin {None, v}

Applies(field, c) == \A cond \in field.only_when : Holds(cond, c)

ExchangeIsValid(field, c) ==
  LET v == Adif(c, field.adif) IN
  IF Applies(field, c) THEN FitsType(field, v, Adif(c, "MODE")) ELSE v = None

-----------------------------------------------------------------------------
(* A contact (validate_contact).                                            *)

ModeMatches(allowed, mode) ==
  CASE allowed = "PHONE" -> mode \in {"SSB", "FM", "AM"}
    [] allowed = "DIGITAL" -> mode \notin {"CW", "CW-R", "SSB", "FM", "AM"}
    [] OTHER -> mode = allowed

ModeIsValid(rules, mode) ==
  /\ mode # None
  /\ rules.modes = {} \/ \E allowed \in rules.modes : ModeMatches(allowed, mode)
  /\ ~ \E excluded \in rules.excluded_modes : ModeMatches(excluded, mode)

BandIsValid(rules, c) ==
  /\ Adif(c, "BAND") \in Region
  /\ rules.bands = {} \/ Adif(c, "BAND") \in rules.bands
  /\ Adif(c, "FREQ") \in DOMAIN BandOf /\ BandOf[Adif(c, "FREQ")] = Adif(c, "BAND")

CallsAreValid(c) ==
  /\ Shape(Adif(c, "STATION_CALLSIGN")).call
  /\ Adif(c, "OPERATOR") # None => Shape(Adif(c, "OPERATOR")).call
  /\ Shape(Adif(c, "CALL")).call

(* The id and the log that a contact names are checked here, its shape      *)
(* before: a contact without ADIF fields never gets this far.               *)
ValidContact(rules, c) ==
  /\ Adif(c, "CONTEST_ID") = rules.id
  /\ c.time >= 0
  /\ CallsAreValid(c)
  /\ BandIsValid(rules, c)
  /\ ModeIsValid(rules, Adif(c, "MODE"))
  /\ \A i \in DOMAIN rules.exchange : ExchangeIsValid(rules.exchange[i], c)

SentSerials(rules) == {rules.exchange[i].adif : i \in
  {j \in DOMAIN rules.exchange : rules.exchange[j].direction = "sent" /\ rules.exchange[j].kind = "SERIAL"}}

(* validate_immutable_sent_serial_fields                                    *)
KeepsSerials(rules, old, new) == \A f \in SentSerials(rules) : Adif(old, f) = Adif(new, f)

(* Parameters of a log: nothing unknown, and every field of the setup.      *)
ParamIsValid(field, v) == IF v = None THEN ~field.required ELSE FitsType(field, v, "CW")

ParamsAreValid(rules, params) ==
  /\ DOMAIN params \subseteq {rules.setup_fields[i].key : i \in DOMAIN rules.setup_fields}
  /\ \A i \in DOMAIN rules.setup_fields :
       ParamIsValid(rules.setup_fields[i], Chosen(params, rules.setup_fields[i].key))

-----------------------------------------------------------------------------
(* The station's own entity is always looked up, the other's where it is    *)
(* missing; what cannot be looked up stays.                                 *)

Mine(c) == IF Adif(c, "STATION_CALLSIGN") \in DOMAIN EntityOf
           THEN LET e == EntityOf[Adif(c, "STATION_CALLSIGN")]
                IN ("MY_DXCC" :> e.dxcc) @@ ("MY_CONT" :> e.cont)
           ELSE <<>>

Theirs(c) == IF Adif(c, "CALL") \in DOMAIN EntityOf
             THEN LET e == EntityOf[Adif(c, "CALL")] IN ("DXCC" :> e.dxcc) @@ ("CONT" :> e.cont)
             ELSE <<>>

Enrich(c) == [c EXCEPT !.adif = Mine(c) @@ @ @@ Theirs(c)]
=============================================================================
