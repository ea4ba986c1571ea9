---------------------------- MODULE RadioSettings ----------------------------
(***************************************************************************)
(* The settings of a radio: how they are normalized and validated before   *)
(* they are stored or used (radio-io/src/config.rs, radio-io/src/modes.rs) *)
(* and what the choice of a driver or of a digital program changes in them *)
(* (radio-client/src/configure.rs).                                        *)
(*                                                                         *)
(* A port or a baud rate is "" when it is empty, or zero; of the texts and *)
(* numbers that are checked one by one only the names of the bad ones are  *)
(* kept, in bad.                                                           *)
(***************************************************************************)
CONSTANTS
  Drivers,         \* supported_drivers
  DriverModes,     \* [Drivers -> SUBSET STRING], what each can transmit
  CatKeyed         \* the drivers that key CW over CAT

(* A radio transmits the mode default_data_mode falls back to, and has a    *)
(* name.                                                                    *)
ASSUME DriversAssumption ==
  /\ DOMAIN DriverModes = Drivers /\ CatKeyed \subseteq Drivers /\ "" \notin Drivers
  /\ \A d \in Drivers : {"DATA-USB", "USB"} \cap DriverModes[d] # {}

Programs == {"none", "wsjtx", "fldigi"}
Transports == {"none", "tcp", "serial"}
Keyers == {"none", "winkeyer", "cat", "serial"}

DefaultRadio ==
  [kind |-> "", transport |-> "", keyer |-> "none", data |-> "", rtty |-> "",
   program |-> "none", wsjtx |-> FALSE, fldigi |-> FALSE, fldigiRtty |-> FALSE,
   serialPort |-> "", serialBaud |-> "115200", winkeyerPort |-> "", cwPort |-> "",
   cwBaud |-> "115200", bad |-> {"name", "tcp_host", "tcp_port"}]

RadioFields == DOMAIN DefaultRadio
IsRadio(s) == s = [field \in RadioFields |-> s[field]]

-----------------------------------------------------------------------------
ModesOf(kind) == IF kind \in Drivers THEN DriverModes[kind] ELSE {}

DefaultData(kind) == IF "DATA-USB" \in ModesOf(kind) THEN "DATA-USB" ELSE "USB"
DefaultRtty(kind) == IF "RTTY" \in ModesOf(kind) THEN "RTTY" ELSE DefaultData(kind)

Resolved(mode, default) == IF mode = "" THEN default ELSE mode
DataMode(s) == Resolved(s.data, DefaultData(s.kind))
RttyMode(s) == Resolved(s.rtty, DefaultRtty(s.kind))

(* resolved_mode_mappings, where it is no error.                            *)
Mappable(s) == s.kind \in Drivers /\ {DataMode(s), RttyMode(s)} \subseteq ModesOf(s.kind)

Normalizable(s) == Mappable(s) /\ s.program \in Programs

WithProgram(s, program) ==
  [s EXCEPT !.program = program, !.wsjtx = program = "wsjtx", !.fldigi = program = "fldigi"]

Normalize(s) == WithProgram([s EXCEPT !.data = DataMode(s), !.rtty = RttyMode(s)], s.program)

(* What the choices ask of each other, then what some of them ask of the    *)
(* texts and numbers.                                                       *)
Consistent(s) ==
  /\ Mappable(s) /\ s.program \in Programs
  /\ s.wsjtx = (s.program = "wsjtx") /\ s.fldigi = (s.program = "fldigi")
  /\ s.transport \in Transports /\ (s.transport = "none" => s.kind = "dummy")
  /\ s.keyer \in Keyers /\ (s.keyer = "cat" => s.kind \in CatKeyed)

Complete(s) ==
  /\ s.transport = "tcp" => s.bad \cap {"tcp_host", "tcp_port"} = {}
  /\ s.transport = "serial" => s.serialPort # "" /\ s.serialBaud # ""
  /\ s.keyer = "winkeyer" => s.winkeyerPort # ""
  /\ s.keyer = "serial" => s.cwPort # ""
  /\ s.cwBaud # ""
  /\ s.transport = "serial" /\ s.keyer = "serial" /\ s.serialPort = s.cwPort
       => s.serialBaud = s.cwBaud
  /\ s.fldigi \/ s.fldigiRtty => s.bad \cap {"fldigi_host", "fldigi_port"} = {}

Valid(s) ==
  /\ Consistent(s) /\ Complete(s)
  /\ s.bad \subseteq {"tcp_host", "tcp_port", "fldigi_host", "fldigi_port"}

(* Nothing but what is missing, or a text, keeps it from being stored.      *)
Fits(s) ==
  /\ s.program \in Programs
  /\ s.kind \in Drivers => Mappable(s) /\ (s.keyer = "cat" => s.kind \in CatKeyed)

-----------------------------------------------------------------------------
(* Mutant: the mode mappings of the old driver stay.                        *)
KeepModes(s, kind) == s

(* set_driver: first the modes, then the transport, then the keyer.         *)
FitModes(s, kind) ==
  [s EXCEPT !.data = IF @ \in ModesOf(kind) THEN @ ELSE DefaultData(kind),
            !.rtty = IF @ \in ModesOf(kind) THEN @ ELSE DefaultRtty(kind)]

FitTransport(s, kind) ==
  [s EXCEPT !.transport = CASE kind = "dummy" -> "none"
                            [] kind # "dummy" /\ @ = "none" -> "serial"
                            [] OTHER -> @]

SetDriver(s, kind) ==
  [FitTransport(FitModes(s, kind), kind) EXCEPT
     !.kind = kind,
     !.keyer = IF @ = "cat" /\ kind \notin CatKeyed THEN "none" ELSE @]
=============================================================================
