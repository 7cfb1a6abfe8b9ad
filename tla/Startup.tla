------------------------------- MODULE Startup -------------------------------
(***************************************************************************)
(* One run of hm2-host from its configuration to its return: main of       *)
(* host/main.c with hm2_shim_init, _fini and the declarations of           *)
(* shim/hal_shim.c, the table of shim/param_table.c, the module parameters *)
(* of shim/rtapi_shim.c, the three ways out (the loop left, the card tool  *)
(* done, a start given up), and --setsserial.                              *)
(*                                                                         *)
(* The driver is external: the generic module and the transport, which     *)
(* declares pins and parameters in any order as long as there is room.     *)
(* A region's life among other runs is Region's, a period's Channel's.     *)
(***************************************************************************)
EXTENDS Config, FiniteSets

CONSTANTS
  ArrayParams, TextParams, OddParams, \* what the transport declares
  GenericParams,                      \* what the generic module does
  ArraySize,
  ReadPins, OtherPins, HalParams,     \* what the driver declares
  BoolParams, WholeParams,            \* the types of HalParams; others are real
  SetByDriver,                        \* HalParams the driver sets as it starts
  MaxRoom                             \* bound: room for declarations

Modules == {"generic", "transport"}
TransportParams == ArrayParams \cup TextParams \cup OddParams
Declared == ReadPins \cup OtherPins \cup HalParams

ASSUME StartupAssumption ==
  /\ ArraySize \in Nat /\ MaxRoom \in Nat
  /\ ReadPins \cap OtherPins = {} /\ HalParams \cap (ReadPins \cup OtherPins) = {}
  /\ BoolParams \cap WholeParams = {}

VARIABLES
  step,
  tool,        \* run as --setsserial
  way,         \* how main is left: "stop", "tool", "fail"
  status,      \* what main returns
  arena,       \* "none", "live", "freed"
  room,        \* declarations the arena and the tables still have room for
  module,      \* of each module: "out", "loaded", "starting" (in its app_main),
               \* "running", "failed", "exited"
  placed,      \* module parameters set, by name and index
  nextParam,
  cells,       \* the parameters declared and their values
  signals,     \* the pins in the table
  claimed,     \* the param. lines a declaration took
  fixed,       \* the pins fixed, and their values
  region,      \* "none", "measuring", "named", "removed"
  writer       \* the log's writer thread runs

given == <<configVars, tool>>
outcome == <<way, status>>
loading == <<arena, module, placed, nextParam>>
driver == <<room, cells, signals, claimed>>
bound == <<fixed, region, writer>>
vars == <<given, step, outcome, loading, driver, bound>>

Init ==
  /\ ConfigInit
  /\ step = "config" /\ tool \in BOOLEAN /\ way = "none" /\ status = 0
  /\ arena = "none" /\ room \in 0..MaxRoom
  /\ module = [m \in Modules |-> "out"]
  /\ placed = <<>> /\ nextParam = 1
  /\ cells = <<>> /\ signals = {} /\ claimed = {} /\ fixed = <<>>
  /\ region = "none" /\ writer = FALSE

-----------------------------------------------------------------------------
Go(from, to) == step = from /\ step' = to

(* goto fail *)
GiveUp(from) == Go(from, "exitTransport") /\ way' = "fail"

(* A return before there is anything to give back. *)
ReturnEarly ==
  /\ step' = "returned" /\ way' = "fail" /\ status' = 1
  /\ UNCHANGED <<loading, driver, bound, tool>>

ReadConfig ==
  /\ step = "config" /\ Load
  /\ IF verdict' = "refused" THEN ReturnEarly
     ELSE /\ step' = IF verdict' = "loaded" THEN "inUse" ELSE "config"
          /\ UNCHANGED <<outcome, loading, driver, bound, tool>>

(* region_in_use, for the card tool. *)
FoundInUse ==
  /\ step = "inUse" /\ tool
  /\ Free /\ ReturnEarly
  /\ UNCHANGED <<file, verdict, failures, settings>>

NotInUse ==
  /\ Go("inUse", "shim")
  /\ UNCHANGED <<given, outcome, loading, driver, bound>>

(* hm2_shim_init: all or nothing. *)
NoArena ==
  /\ step = "shim" /\ Free /\ ReturnEarly
  /\ UNCHANGED <<file, verdict, failures, settings>>

InitShim ==
  /\ Go("shim", "loadGeneric")
  /\ arena' = "live"
  /\ UNCHANGED <<given, outcome, driver, bound, module, placed, nextParam>>

(* load_module *)
LoadStep(m) == IF m = "generic" THEN "loadGeneric" ELSE "loadTransport"
LoadModule(m) ==
  /\ Go(LoadStep(m), IF m = "generic" THEN "loadTransport" ELSE "place")
  /\ module' = [module EXCEPT ![m] = "loaded"]
  /\ UNCHANGED <<given, outcome, driver, bound, arena, placed, nextParam>>

(* No such library, or none with a start. *)
NotLoaded(m) ==
  /\ GiveUp(LoadStep(m))
  /\ UNCHANGED <<given, loading, driver, bound, status>>

-----------------------------------------------------------------------------
(* hm2_shim_set_module_param: whether a module that declares it takes it.  *)
Takes(param) ==
  CASE param.name \in ArrayParams -> param.index < ArraySize
    [] param.name \in TextParams \cup GenericParams -> param.index = 0
    [] OTHER -> FALSE

ParamValue(param) == IF param.name \in TextParams THEN param.text ELSE Whole(param.text)

(* One turn of main's loop over the module. lines: what the transport      *)
(* declares is the transport's, and the generic module is asked for the    *)
(* others.                                                                 *)
PlaceParam ==
  /\ step = "place" /\ nextParam <= Len(moduleParams)
  /\ LET param == moduleParams[nextParam]
         key == <<param.name, param.index>>
     IN  IF Takes(param)
           THEN /\ placed' = [k \in DOMAIN placed \cup {key} |->
                                IF k = key THEN ParamValue(param) ELSE placed[k]]
                /\ nextParam' = nextParam + 1
                /\ UNCHANGED <<step, way>>
           ELSE GiveUp("place") /\ UNCHANGED <<placed, nextParam>>
  /\ UNCHANGED <<given, driver, bound, status, arena, module>>

AllPlaced ==
  /\ nextParam > Len(moduleParams) /\ Go("place", "genericMain")
  /\ UNCHANGED <<given, outcome, loading, driver, bound>>

(* rtapi_app_main of the generic module, which registers a component. *)
GenericMain ==
  /\ \/ /\ Go("genericMain", "declare") /\ UNCHANGED way
        /\ module' = [module EXCEPT !["generic"] = "running", !["transport"] = "starting"]
     \/ GiveUp("genericMain") /\ module' = [module EXCEPT !["generic"] = "failed"]
  /\ UNCHANGED <<given, driver, bound, status, arena, placed, nextParam>>

(* hal_pin_new, in rtapi_app_main of the transport. *)
DeclarePin(pin) ==
  /\ step = "declare" /\ room > 0 /\ pin \notin signals
  /\ signals' = signals \cup {pin} /\ room' = room - 1
  /\ UNCHANGED <<given, outcome, loading, bound, step, cells, claimed>>

(* hm2_shim_param_lookup: the first line of the name, and only that. *)
Lookup(param) == {i \in DOMAIN params : params[i].name = param /\
                    \A j \in DOMAIN params : params[j].name = param => i <= j}

(* new_param, by type: whether it is not zero, its whole part, or itself.   *)
Converted(param, real) ==
  CASE param \in BoolParams -> Number(IF real = Number(0) THEN 0 ELSE 10)
    [] param \in WholeParams -> Number(10 * (real[2] \div 10))
    [] OTHER -> real

(* hal_param_new: the value of the file, or the driver's own. *)
DeclareParam(param) ==
  /\ step = "declare" /\ room > 0 /\ param \notin DOMAIN cells
  /\ LET value == IF Lookup(param) = {} THEN Number(0)
                  ELSE Converted(param, params[CHOOSE i \in Lookup(param) : TRUE].value)
     IN  cells' = [p \in DOMAIN cells \cup {param} |-> IF p = param THEN value ELSE cells[p]]
  /\ claimed' = claimed \cup Lookup(param)
  /\ room' = room - 1
  /\ UNCHANGED <<given, outcome, loading, bound, step, signals>>

(* hm2_sserial_get_param_value: what a remote holds goes over what the file *)
(* gave its parameter.  So does the limit hm2_force_write puts to a pwmgen's *)
(* frequency, a stepgen's timing or the watchdog's time.                   *)
SetParam(param) ==
  /\ step = "declare" /\ param \in DOMAIN cells \cap SetByDriver
  /\ \E n \in Reals : cells' = [cells EXCEPT ![param] = Converted(param, Number(n))]
  /\ UNCHANGED <<given, outcome, loading, bound, step, room, signals, claimed>>

(* The board does not answer, or hal_malloc or a table has no room. *)
TransportFails ==
  /\ GiveUp("declare")
  /\ module' = [module EXCEPT !["transport"] = "failed"]
  /\ UNCHANGED <<given, driver, bound, status, arena, placed, nextParam>>

Complete == signals \cup DOMAIN cells = Declared

TransportMain ==
  /\ Complete /\ Go("declare", "claims")
  /\ module' = [module EXCEPT !["transport"] = "running"]
  /\ UNCHANGED <<given, outcome, driver, bound, arena, placed, nextParam>>

(* hm2_shim_unclaimed_params *)
Unclaimed_byName == {i \in DOMAIN params : \A j \in claimed : params[i].name # params[j].name}
Unclaimed == DOMAIN params \ claimed

CheckClaims ==
  /\ \/ Unclaimed # {} /\ GiveUp("claims")
     \/ Unclaimed = {} /\ Go("claims", IF tool THEN "tool" ELSE "fix") /\ UNCHANGED way
  /\ UNCHANGED <<given, loading, driver, bound, status>>

-----------------------------------------------------------------------------
(* setsserial_mode: the list, or a command run by a module loaded for it. *)
SetSserial ==
  /\ Go("tool", "exitTransport")
  /\ way' = "tool" /\ status' \in {0, 1}
  /\ UNCHANGED <<given, loading, driver, bound>>

(* No read or write function is exported, or bind_signals gives up. *)
GiveUpBinding ==
  /\ \E from \in {"fix", "bind"} : GiveUp(from)
  /\ UNCHANGED <<given, loading, driver, bound, status>>

(* fix_pins: only a pin that the driver reads and nothing writes. *)
Fixable == {i \in DOMAIN pins : pins[i].name \in ReadPins}
FixPins ==
  /\ \/ Fixable = DOMAIN pins /\ Go("fix", "bind") /\ UNCHANGED way
     \/ Fixable # DOMAIN pins /\ GiveUp("fix")
  /\ fixed' = [pin \in {pins[i].name : i \in Fixable} |->
                 (CHOOSE p \in {pins[i] : i \in Fixable} : p.name = pin).value]
  /\ UNCHANGED <<given, loading, driver, status, region, writer>>

BindSignals ==
  /\ Go("bind", "region")
  /\ UNCHANGED <<given, outcome, loading, driver, bound>>

CreateRegion ==
  /\ Go("region", "writer") /\ region' = "measuring"
  /\ UNCHANGED <<given, outcome, loading, driver, fixed, writer>>

NoRegion ==
  /\ GiveUp("region")
  /\ UNCHANGED <<given, loading, driver, bound, status>>

(* log_to_ring: without a thread the log goes straight out. *)
StartWriter ==
  /\ Go("writer", "measure") /\ writer' \in BOOLEAN
  /\ UNCHANGED <<given, outcome, loading, driver, fixed, region>>

(* Measured, and the region named; or a signal, or no such name.           *)
Enter ==
  /\ Go("measure", "cycle") /\ region' = "named"
  /\ UNCHANGED <<given, outcome, loading, driver, fixed, writer>>

StopMeasuring_left ==
  /\ GiveUp("measure")
  /\ UNCHANGED <<given, loading, driver, bound, status>>
StopMeasuring ==
  /\ GiveUp("measure") /\ region' = "removed"
  /\ UNCHANGED <<given, loading, driver, status, fixed, writer>>

LeaveCycle ==
  /\ Go("cycle", "exitTransport") /\ way' = "stop"
  /\ UNCHANGED <<given, loading, driver, bound, status>>

-----------------------------------------------------------------------------
(* The ways out. *)

(* rtapi_app_exit, of whatever is loaded.  The transport walks lists that  *)
(* its app_main, or the generic module's, would have made: before that it  *)
(* follows a null pointer.                                                 *)
HasExit(m) == module[m] # "out"
Crashes == module["transport"] = "loaded"

ExitTransport ==
  /\ step = "exitTransport"
  /\ step' = IF Crashes THEN "crashed" ELSE "exitGeneric"
  /\ module' = [module EXCEPT !["transport"] = IF HasExit("transport") THEN "exited" ELSE @]
  /\ UNCHANGED <<given, outcome, driver, bound, arena, placed, nextParam>>

ExitGeneric ==
  /\ Go("exitGeneric", "join")
  /\ module' = [module EXCEPT !["generic"] = IF HasExit("generic") THEN "exited" ELSE @]
  /\ UNCHANGED <<given, outcome, driver, bound, arena, placed, nextParam>>

(* log_from_ring; the card tool never started the writer. *)
JoinWriter ==
  /\ Go("join", "destroy") /\ writer' = FALSE
  /\ UNCHANGED <<given, outcome, loading, driver, fixed, region>>

DestroyRegion ==
  /\ Go("destroy", "fini")
  /\ region' = IF way = "stop" THEN "removed" ELSE region
  /\ UNCHANGED <<given, outcome, loading, driver, fixed, writer>>

(* hm2_shim_fini: the arena and the tables. *)
FiniShim_early ==
  /\ step = "exitTransport" /\ arena = "live"
  /\ arena' = "freed" /\ cells' = <<>> /\ signals' = {}
  /\ UNCHANGED <<given, outcome, bound, step, room, module, placed, nextParam,
                 claimed>>
FiniShim ==
  /\ Go("fini", "free") /\ arena' = "freed" /\ cells' = <<>> /\ signals' = {}
  /\ UNCHANGED <<given, outcome, bound, room, module, placed, nextParam,
                 claimed>>

(* hm2_config_free, and the return. *)
Return ==
  /\ Go("free", "returned") /\ Free
  /\ status' = IF way = "fail" THEN 1 ELSE status
  /\ UNCHANGED <<loading, driver, bound, file, verdict, failures, settings,
                 tool, way>>

Leave == ExitTransport \/ ExitGeneric \/ JoinWriter \/ DestroyRegion \/ FiniShim \/ Return

SetUp ==
  \/ ReadConfig \/ FoundInUse \/ NotInUse \/ NoArena \/ InitShim
  \/ (\E m \in Modules : LoadModule(m) \/ NotLoaded(m))
  \/ PlaceParam \/ AllPlaced \/ GenericMain

Declare ==
  \/ (\E pin \in ReadPins \cup OtherPins : DeclarePin(pin))
  \/ (\E param \in HalParams : DeclareParam(param) \/ SetParam(param))
  \/ TransportFails \/ TransportMain \/ CheckClaims

Next ==
  \/ SetUp \/ Declare \/ Leave \/ SetSserial
  \/ GiveUpBinding \/ FixPins \/ BindSignals \/ CreateRegion \/ NoRegion \/ StartWriter \/ Enter \/ StopMeasuring \/ LeaveCycle

Spec == Init /\ [][Next]_vars

-----------------------------------------------------------------------------
(* The driver runs on its file and on nothing else: once the tool or the   *)
(* cycle is reached, of every line of the file -- the last of a key or of  *)
(* a module parameter, each of a param. or a pin. line -- the value is in  *)
(* the setting, the module, the cell, by its type, or the pin it names,    *)
(* every setting no line names is at its default, and everything that the  *)
(* driver declares is declared.  Only a cell that the driver sets itself   *)
(* as it starts may hold what the driver put there.  The checks that see   *)
(* to it are spread over config.c, param_table.c, rtapi_shim.c, hal_shim.c *)
(* and main.c.                                                             *)
Started == step \in {"tool", "bind", "region", "writer", "measure", "cycle"}
Names(i) == {j \in DOMAIN file : /\ file[j].kind = file[i].kind
                                 /\ file[j].name = file[i].name
                                 /\ file[i].kind = "module" => file[j].index = file[i].index}
IsLast(i) == \A j \in Names(i) : j <= i
HasItsLine(line) == cells[line.name] = Converted(line.name, Real(line.text))
LineInForce(i) ==
  LET line == file[i]
  IN  /\ line.kind \in {"blank", "key", "module", "param", "pin"}
      /\ line.kind = "key" /\ IsLast(i) =>
           settings[line.name] = SettingOf(line.name, line.text)
      /\ line.kind = "module" /\ IsLast(i) =>
           placed[<<line.name, line.index>>] = ParamValue(line)
      /\ line.kind = "param" =>
           line.name \in SetByDriver \/ HasItsLine(line)
      /\ line.kind = "pin" => tool \/ fixed[line.name] = PinValue(line.text)
InForce ==
  Started =>
    /\ \A i \in DOMAIN file : LineInForce(i)
    /\ \A key \in Keys :
         settings[key] # Defaults[key] =>
           \E i \in DOMAIN file : file[i].kind = "key" /\ file[i].name = key
    /\ signals \cup DOMAIN cells = Declared

(* README.md says of every parameter: "Its starting value is the `param.`  *)
(* line's, or the driver's default".  A Smart Serial remote's is the       *)
(* card's, whatever line it was given.                                     *)
StartsAtItsLine ==
  Started => \A i \in DOMAIN file : file[i].kind = "param" => HasItsLine(file[i])

(* hal_shim.c keeps every pin, name and cell in the arena, and rtapi_app_  *)
(* exit of a module that was started still uses them: as long as a module  *)
(* has not been exited the arena is there, and so are, while it declares,  *)
(* the lists of the file that its declarations are looked up in.           *)
ArenaOutlivesDriver ==
  \A m \in Modules :
    /\ module[m] \notin {"out", "exited"} => arena = "live"
    /\ module[m] = "starting" => verdict = "loaded" /\
         Cardinality({i \in DOMAIN file : file[i].kind = "param"}) = Len(params)

(* Each of main's ways out gives back what was taken up to where it left:  *)
(* the modules, the writer thread, the region, the arena and the lists of  *)
(* the file; it says success only for a cycle left or a tool that did what *)
(* it was asked; and where a start crashes it leaves no region behind.     *)
(* The tables of what is bound are left out: a start given up after        *)
(* bind_signals does not free param_views.                                 *)
CleanEnd ==
  /\ step = "returned" =>
       /\ \A m \in Modules : module[m] \in {"out", "exited"}
       /\ arena # "live" /\ cells = <<>> /\ signals = {}
       /\ ~writer /\ region \in {"none", "removed"}
       /\ moduleParams = <<>> /\ params = <<>> /\ pins = <<>>
       /\ status = 0 => way # "fail"
  /\ step = "crashed" => region = "none" /\ ~writer

(* hm2_eth.c says of its failing start: "rtapi_app_exit() is not called    *)
(* when rtapi_app_main() fails, so this is the only chance to remove the   *)
(* chain and jump."  main's fail: label calls it whenever the library is   *)
(* there: after a failed start, and before any start at all.               *)
ExitFollowsMain ==
  [][\A m \in Modules :
       module'[m] = "exited" /\ module[m] # "exited" => module[m] = "running"]_vars
=============================================================================
