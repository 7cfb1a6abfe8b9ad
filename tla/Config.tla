------------------------------- MODULE Config -------------------------------
(***************************************************************************)
(* The configuration file (host/config.c): its lines are read one after    *)
(* another into the settings and the lists of module, param. and pin.      *)
(* lines; faults are counted to the end of the file, and what only the     *)
(* whole file can tell is looked at after it.                              *)
(*                                                                         *)
(* A text is a number in tenths, or a word.  Numbers that are kept in      *)
(* unsigned 32-bit fields are taken modulo Words; what is kept wider stays *)
(* as it is.  Keys that nothing is asked of are left to PlainKey.          *)
(***************************************************************************)
EXTENDS Integers, Sequences

CONSTANTS
  ModuleNames, LongNames,  \* module parameters; those too long to be kept
  ParamNames, PinNames,    \* HAL names
  Counts, Reals,           \* the numbers lines give, whole and fractional
  Words,                   \* how many values a 32-bit field has
  MaxIndex, MaxLines       \* bounds: name[n], and lines of the file

ASSUME ConfigAssumption ==
  /\ LongNames \subseteq ModuleNames
  /\ Counts \subseteq Nat /\ Reals \subseteq Nat
  /\ Words \in Nat /\ Words > 10000 /\ MaxIndex \in Nat /\ MaxLines \in Nat

VARIABLES
  file,                   \* the lines read so far
  verdict,                \* "reading", "loaded" or "refused"
  failures,
  settings,               \* the scalar keys
  moduleParams, params, pins   \* the lists, in the file's order

configVars == <<file, verdict, failures, settings, moduleParams, params, pins>>

-----------------------------------------------------------------------------
(* What the lines say. *)

Number(tenths) == <<"number", tenths>>
NaN == <<"nan">>
Word == <<"word">>
Yes == <<"true">>

(* strtoul: no digits are zero, and digits end at the point. *)
Whole(text) == IF text[1] = "number" THEN text[2] \div 10 ELSE 0
Unsigned(text) == Whole(text) % Words
(* strtod *)
Real(text) == IF text[1] \in {"number", "nan"} THEN text ELSE Number(0)
AtLeast(real, tenths) == real[1] = "number" /\ real[2] >= tenths
AtMost(real, tenths) == real[1] = "number" /\ real[2] <= tenths

PlainKey == "response_watchdog_cycles"
CountKeys == {"cycle_us", "measure_cycles", "sserial_transfer_us", PlainKey}
RealKeys == {"worst_case_margin", "send_deadline"}
WideKey == "worst_case_cycle_ns"
SwitchKey == "same_cycle"
Keys == CountKeys \cup RealKeys \cup {WideKey, SwitchKey}

Defaults ==
  [key \in Keys |->
     CASE key = "cycle_us" -> 1000
       [] key = "measure_cycles" -> 1000
       [] key = "sserial_transfer_us" -> 150
       [] key = PlainKey -> 100
       [] key = WideKey -> 0
       [] key = "worst_case_margin" -> Number(15)
       [] key = "send_deadline" -> Number(8)
       [] key = SwitchKey -> TRUE]

CountTexts == {Number(10 * n) : n \in Counts} \cup {Word}
RealTexts == {Number(n) : n \in Reals} \cup {NaN}
Lines ==
  [kind : {"blank", "malformed", "unknown"}]
    \cup [kind : {"module"}, name : ModuleNames, index : 0..MaxIndex, text : {Number(10), Word}]
    \cup [kind : {"param"}, name : ParamNames, text : {Number(25), Word}]
    \cup [kind : {"pin"}, name : PinNames, text : {Yes, Word}]
    \cup [kind : {"key"}, name : CountKeys \cup {WideKey}, text : CountTexts]
    \cup [kind : {"key"}, name : RealKeys, text : RealTexts]
    \cup [kind : {"key"}, name : {SwitchKey}, text : {Yes, Number(10), Number(0), Word}]

(* parse_pin_value: true, false or a finite number, and nothing after it. *)
PinValue(text) == IF text = Yes THEN 10 ELSE text[2]
IsPinValue(text) == text[1] \in {"true", "number"}
IsSwitch(text) == text \in {Yes, Number(10), Number(0)}

SettingOf(key, text) ==
  CASE key \in CountKeys -> Unsigned(text)
    [] key = WideKey -> Whole(text)
    [] key \in RealKeys -> Real(text)
    [] key = SwitchKey -> text # Number(0)

-----------------------------------------------------------------------------
ConfigInit ==
  /\ file = <<>> /\ verdict = "reading" /\ failures = 0
  /\ settings = Defaults
  /\ moduleParams = <<>> /\ params = <<>> /\ pins = <<>>

Fail == failures' = failures + 1 /\ UNCHANGED <<settings, moduleParams, params, pins>>

(* add_module_param: refused rather than cut. *)
AddModuleParam(line) ==
  IF line.name \in LongNames THEN Fail
  ELSE /\ moduleParams' = Append(moduleParams, line)
       /\ UNCHANGED <<failures, settings, params, pins>>

AddHalParam(line) ==
  /\ params' = Append(params, [name |-> line.name, value |-> Real(line.text)])
  /\ UNCHANGED <<failures, settings, moduleParams, pins>>

(* add_pin: one pin, one value. *)
AddPin(line) ==
  IF ~IsPinValue(line.text) \/ \E i \in DOMAIN pins : pins[i].name = line.name THEN Fail
  ELSE /\ pins' = Append(pins, [name |-> line.name, value |-> PinValue(line.text)])
       /\ UNCHANGED <<failures, settings, moduleParams, params>>

SetKey(line) ==
  IF line.name = SwitchKey /\ ~IsSwitch(line.text) THEN Fail
  ELSE /\ settings' = [settings EXCEPT ![line.name] = SettingOf(line.name, line.text)]
       /\ UNCHANGED <<failures, moduleParams, params, pins>>

Skip == UNCHANGED <<failures, settings, moduleParams, params, pins>>

(* One turn of hm2_config_load's loop. *)
ReadLine(line) ==
  /\ verdict = "reading" /\ Len(file) < MaxLines
  /\ file' = Append(file, line)
  /\ \/ line.kind = "blank" /\ Skip
     \/ line.kind = "module" /\ AddModuleParam(line)
     \/ line.kind = "param" /\ AddHalParam(line)
     \/ line.kind = "pin" /\ AddPin(line)
     \/ line.kind = "key" /\ SetKey(line)
     \/ line.kind \in {"malformed", "unknown"} /\ Fail
  /\ UNCHANGED verdict

(* What the whole file has to satisfy. A deadline that is no number is     *)
(* neither at most zero nor at least one.                                  *)
Coherent ==
  /\ settings["cycle_us"] # 0
  /\ settings[WideKey] # 0 \/ settings["measure_cycles"] >= 10
  /\ AtLeast(settings["worst_case_margin"], 10)
  /\ settings["sserial_transfer_us"] < settings["cycle_us"]
  /\ ~AtMost(settings["send_deadline"], 0) /\ ~AtLeast(settings["send_deadline"], 10)

(* hm2_config_free *)
Free == moduleParams' = <<>> /\ params' = <<>> /\ pins' = <<>>

EndOfFile ==
  /\ verdict = "reading"
  /\ IF failures = 0 /\ Coherent
       THEN verdict' = "loaded" /\ UNCHANGED <<moduleParams, params, pins>>
       ELSE verdict' = "refused" /\ Free
  /\ UNCHANGED <<file, failures, settings>>

(* The file cannot be opened. *)
NoFile ==
  /\ verdict = "reading" /\ file = <<>>
  /\ verdict' = "refused"
  /\ UNCHANGED <<file, failures, settings, moduleParams, params, pins>>

Load == NoFile \/ EndOfFile \/ \E line \in Lines : ReadLine(line)
=============================================================================
