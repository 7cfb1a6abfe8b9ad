----------------------------- MODULE Host_proofs -----------------------------
(***************************************************************************)
(* Proofs about one run of the host process.                               *)
(*                                                                         *)
(* Its start and its ways out (Startup), for every set of names, every     *)
(* file and every driver: what the file says is in force before a cycle    *)
(* is, the arena outlives the driver, and every way out gives back what    *)
(* was taken.                                                              *)
(*                                                                         *)
(* The period of its loop (Timing), for every grid of times and every set  *)
(* of deadlines: no period begins off the grid, no write is begun that     *)
(* would not be done in time, and the figure declared covers every period  *)
(* that was measured.                                                      *)
(***************************************************************************)
EXTENDS Startup, Timing, FiniteSetTheorems, TLAPS

-----------------------------------------------------------------------------
(* The start and the ways out: the steps of main.                          *)
Early == {"config", "inUse", "shim"}
Loading == {"loadGeneric", "loadTransport", "place", "genericMain"}
Driving == {"claims", "fix", "tool", "bind", "region", "writer", "measure", "cycle"}
Leaving == {"exitTransport", "exitGeneric", "join", "destroy", "fini"}
Ended == {"free", "returned"}
Steps == Early \cup Loading \cup {"declare"} \cup Driving \cup Leaving \cup Ended \cup {"crashed"}

LinesOf(kind) == {l \in Lines : l.kind = kind}
HalLines == {[name |-> l.name, value |-> Real(l.text)] : l \in LinesOf("param")}
PinLines ==
  {[name |-> l.name, value |-> PinValue(l.text)] :
     l \in {x \in LinesOf("pin") : IsPinValue(x.text)}}

ListsTypeOK ==
  /\ file \in Seq(Lines) /\ failures \in Nat /\ DOMAIN settings = Keys
  /\ moduleParams \in Seq(LinesOf("module")) /\ params \in Seq(HalLines) /\ pins \in Seq(PinLines)

ControlTypeOK ==
  /\ verdict \in {"reading", "loaded", "refused"} /\ step \in Steps /\ tool \in BOOLEAN
  /\ way \in {"none", "stop", "tool", "fail"} /\ status \in {0, 1}
  /\ arena \in {"none", "live", "freed"}
  /\ module \in [Modules -> {"out", "loaded", "starting", "running", "failed", "exited"}]
  /\ region \in {"none", "measuring", "named", "removed"} /\ writer \in BOOLEAN

(* The file is read at one step, and main goes on with none that failed.   *)
Verdicts ==
  /\ step = "config" => verdict = "reading"
  /\ step \notin {"config", "returned"} => verdict = "loaded" /\ failures = 0

(* Which of the modules have been loaded, started and exited at each step. *)
ModulesByStep ==
  /\ step \in Early \cup {"loadGeneric"} => module["generic"] = "out" /\ module["transport"] = "out"
  /\ step = "loadTransport" => module["generic"] = "loaded" /\ module["transport"] = "out"
  /\ step \in {"place", "genericMain"} =>
       module["generic"] = "loaded" /\ module["transport"] = "loaded"
  /\ step = "declare" => module["generic"] = "running" /\ module["transport"] = "starting"
  /\ step \in Driving => module["generic"] = "running" /\ module["transport"] = "running"
  /\ step \notin {"declare"} => \A m \in Modules : module[m] # "starting"
  /\ step \in (Leaving \ {"exitTransport"}) \cup Ended => module["transport"] \in {"out", "exited"}
  /\ step \in {"join", "destroy", "fini"} \cup Ended => module["generic"] \in {"out", "exited"}

(* What is there to be given back at each step. *)
HeldByStep ==
  /\ step \in Early => arena = "none" /\ cells = <<>> /\ signals = {}
  /\ step \in Loading \cup {"declare", "crashed"} \cup Driving \cup Leaving => arena = "live"
  /\ step \in Ended => arena # "live" /\ cells = <<>> /\ signals = {}
  /\ step \in Early \cup Loading \cup {"declare", "claims", "fix", "tool", "bind", "region",
              "crashed"} => region = "none" /\ ~writer
  /\ step = "writer" => ~writer
  /\ step = "cycle" => region = "named"
  /\ step \in Leaving => region \in {"none", "removed"} \/ (region = "named" /\ way = "stop")
  /\ step = "exitTransport" /\ Crashes => region = "none" /\ ~writer
  /\ step \in {"destroy", "fini"} \cup Ended => ~writer
  /\ step \in {"fini"} \cup Ended => region \in {"none", "removed"}
  /\ step \in Leaving \cup {"free"} => way # "none"
  /\ step = "returned" =>
       /\ moduleParams = <<>> /\ params = <<>> /\ pins = <<>>
       /\ status = 0 => way # "fail"

-----------------------------------------------------------------------------
(* Every line that was read lies in a setting or a list: the last of a key *)
(* in its setting, and the last of a module parameter before no other of   *)
(* its name and index.                                                     *)
SameParam(a, b) == a.name = b.name /\ a.index = b.index
KeyFiled(i) ==
  file[i].kind = "key" /\ IsLast(i) =>
    settings[file[i].name] = SettingOf(file[i].name, file[i].text)
ModuleFiled(i) ==
  file[i].kind = "module" /\ IsLast(i) =>
    \E j \in DOMAIN moduleParams :
      /\ moduleParams[j] = file[i]
      /\ \A k \in DOMAIN moduleParams : k > j => ~SameParam(moduleParams[k], file[i])
ParamFiled(i) ==
  file[i].kind = "param" =>
    \E j \in DOMAIN params :
      params[j].name = file[i].name /\ params[j].value = Real(file[i].text)
PinFiled(i) ==
  file[i].kind = "pin" =>
    \E j \in DOMAIN pins :
      pins[j].name = file[i].name /\ pins[j].value = PinValue(file[i].text)
Filed(i) ==
  /\ file[i].kind \in {"blank", "key", "module", "param", "pin"}
  /\ KeyFiled(i) /\ ModuleFiled(i) /\ ParamFiled(i) /\ PinFiled(i)

AllFiled == failures = 0 => \A i \in DOMAIN file : Filed(i)
OnePinEach == \A i, j \in DOMAIN pins : pins[i].name = pins[j].name => i = j
NoneYet == file = <<>> => moduleParams = <<>> /\ params = <<>> /\ pins = <<>>
ParamLines == {i \in DOMAIN file : file[i].kind = "param"}
Counted == IsFiniteSet(ParamLines) /\ Cardinality(ParamLines) = Len(params)
FileKept == step # "returned" => AllFiled /\ OnePinEach /\ NoneYet /\ Counted

Defaulted ==
  \A key \in Keys : settings[key] # Defaults[key] =>
    \E i \in DOMAIN file : file[i].kind = "key" /\ file[i].name = key

-----------------------------------------------------------------------------
(* What has been set up from the lists so far: of the module parameters    *)
(* that were asked for, the last of each name and index is the one in the  *)
(* module; a line that was claimed is in its cell, unless the driver sets  *)
(* that itself; a pin line is in its pin.                                  *)
ParamsPlaced ==
  \A j \in DOMAIN moduleParams :
    /\ j < nextParam
    /\ \A k \in DOMAIN moduleParams :
         j < k /\ k < nextParam => ~SameParam(moduleParams[k], moduleParams[j])
    => /\ <<moduleParams[j].name, moduleParams[j].index>> \in DOMAIN placed
       /\ placed[<<moduleParams[j].name, moduleParams[j].index>>] = ParamValue(moduleParams[j])

PlacedSoFar ==
  /\ nextParam \in Nat \ {0}
  /\ step \in Early \cup {"loadGeneric", "loadTransport"} => nextParam = 1
  /\ step \in {"place", "genericMain", "declare"} \cup Driving => ParamsPlaced
  /\ step \in {"genericMain", "declare"} \cup Driving => nextParam > Len(moduleParams)

InItsCell(param) ==
  \/ param.name \in SetByDriver
  \/ cells[param.name] = Converted(param.name, param.value)
LinesInCells ==
  \A j \in claimed : params[j].name \in DOMAIN cells /\ InItsCell(params[j])

ClaimedSoFar ==
  /\ step \in Early \cup Loading => claimed = {}
  /\ step \in {"declare"} \cup Driving => claimed \subseteq DOMAIN params /\ LinesInCells
  /\ step \in Driving => signals \cup DOMAIN cells = Declared
  /\ step \in Driving \ {"claims"} => claimed = DOMAIN params

PinsFixed ==
  \A j \in DOMAIN pins :
    pins[j].name \in DOMAIN fixed /\ fixed[pins[j].name] = pins[j].value

FixedSoFar ==
  /\ step = "tool" => tool
  /\ step \in Driving \ {"claims", "fix", "tool"} => PinsFixed

ControlInv == ControlTypeOK /\ Verdicts /\ ModulesByStep /\ HeldByStep
ReadInv == ListsTypeOK /\ AllFiled /\ OnePinEach /\ Counted /\ Defaulted
FileInv == ListsTypeOK /\ FileKept /\ Defaulted
SetUpInv == PlacedSoFar /\ ClaimedSoFar /\ FixedSoFar
StartupInv == ControlInv /\ FileInv /\ SetUpInv
-----------------------------------------------------------------------------
(* The steps of main keep to the verdict, the modules and what is held.     *)
LEMMA ControlStep ==
  ASSUME ControlInv, FileKept, [Next]_vars
  PROVE  ControlInv'
<1> USE DEF ControlInv, ControlTypeOK, Verdicts, ModulesByStep, HeldByStep, Early, Loading, Driving,
        Leaving, Ended, Steps, Modules, Crashes, given, configVars, outcome, loading, driver, bound
<1>1. CASE ReadConfig
  BY <1>1 DEF ReadConfig, Load, NoFile, EndOfFile, ReadLine, ReturnEarly, Free, FileKept, NoneYet
<1>2. ASSUME NEW m \in Modules, LoadModule(m)
      PROVE  ControlInv'
  BY <1>2 DEF LoadModule, LoadStep, Go
<1>3. ASSUME NEW m \in Modules, NotLoaded(m)
      PROVE  ControlInv'
  BY <1>3 DEF NotLoaded, LoadStep, GiveUp, Go
<1>4. ASSUME NEW pin \in ReadPins \cup OtherPins, DeclarePin(pin)
      PROVE  ControlInv'
  BY <1>4 DEF DeclarePin
<1>5. ASSUME NEW param \in HalParams, DeclareParam(param) \/ SetParam(param)
      PROVE  ControlInv'
  BY <1>5 DEF DeclareParam, SetParam
<1>6. CASE FoundInUse
  BY <1>6 DEF FoundInUse, ReturnEarly, Free
<1>7. CASE NotInUse
  BY <1>7 DEF NotInUse, Go
<1>8. CASE NoArena
  BY <1>8 DEF NoArena, ReturnEarly, Free
<1>9. CASE InitShim
  BY <1>9 DEF InitShim, Go
<1>10. CASE PlaceParam
  BY <1>10 DEF PlaceParam, GiveUp, Go
<1>11. CASE AllPlaced
  BY <1>11 DEF AllPlaced, Go
<1>12. CASE GenericMain
  BY <1>12 DEF GenericMain, Go, GiveUp
<1>13. CASE TransportFails
  BY <1>13 DEF TransportFails, GiveUp, Go
<1>14. CASE TransportMain
  BY <1>14 DEF TransportMain, Go
<1>15. CASE CheckClaims
  BY <1>15 DEF CheckClaims, Go, GiveUp
<1>16. CASE ExitTransport
  BY <1>16 DEF ExitTransport, HasExit
<1>17. CASE ExitGeneric
  BY <1>17 DEF ExitGeneric, Go, HasExit
<1>18. CASE JoinWriter
  BY <1>18 DEF JoinWriter, Go
<1>19. CASE DestroyRegion
  BY <1>19 DEF DestroyRegion, Go
<1>20. CASE FiniShim
  BY <1>20 DEF FiniShim, Go
<1>21. CASE Return
  BY <1>21 DEF Return, Go, Free
<1>22. CASE SetSserial
  BY <1>22 DEF SetSserial, Go
<1>23. CASE GiveUpBinding
  BY <1>23 DEF GiveUpBinding, GiveUp, Go
<1>24. CASE FixPins
  BY <1>24 DEF FixPins, GiveUp, Go
<1>25. CASE BindSignals
  BY <1>25 DEF BindSignals, Go
<1>26. CASE CreateRegion
  BY <1>26 DEF CreateRegion, Go
<1>27. CASE NoRegion
  BY <1>27 DEF NoRegion, GiveUp, Go
<1>28. CASE StartWriter
  BY <1>28 DEF StartWriter, Go
<1>29. CASE Enter
  BY <1>29 DEF Enter, Go
<1>30. CASE StopMeasuring
  BY <1>30 DEF StopMeasuring, GiveUp, Go
<1>31. CASE LeaveCycle
  BY <1>31 DEF LeaveCycle, Go
<1>32. CASE UNCHANGED vars
  <2>1. ControlTypeOK' /\ Verdicts'
    BY <1>32 DEF vars
  <2>2. ModulesByStep'
    BY <1>32 DEF vars
  <2>3. HeldByStep'
    BY <1>32 DEF vars
  <2> QED
    BY <2>1, <2>2, <2>3
<1> QED
  BY <1>1, <1>2, <1>3, <1>4, <1>5, <1>6, <1>7, <1>8, <1>9, <1>10, <1>11, <1>12, <1>13, <1>14,
     <1>15, <1>16, <1>17, <1>18, <1>19, <1>20, <1>21, <1>22, <1>23, <1>24, <1>25, <1>26, <1>27,
     <1>28, <1>29, <1>30, <1>31, <1>32
  DEF Next, SetUp, Declare, Leave

(* What a sequence with one more element has. *)
LEMMA Appended ==
  ASSUME NEW S, NEW s \in Seq(S), NEW e \in S
  PROVE  /\ Append(s, e) \in Seq(S) /\ Len(s) \in Nat /\ Len(Append(s, e)) = Len(s) + 1
         /\ DOMAIN s = 1..Len(s) /\ DOMAIN Append(s, e) = DOMAIN s \cup {Len(s) + 1}
         /\ \A i \in DOMAIN s : Append(s, e)[i] = s[i] /\ i \in Int /\ i <= Len(s) /\ i > 0
         /\ Append(s, e)[Len(s) + 1] = e
         /\ Len(s) + 1 \notin DOMAIN s
  OBVIOUS

(* Reading a line changes none of those before it, and one that is the     *)
(* last of its name in the longer file was so, and is not named again.     *)
LEMMA LineAppended ==
  ASSUME ListsTypeOK, NEW line \in Lines, file' = Append(file, line)
  PROVE  /\ file' \in Seq(Lines) /\ file' # <<>>
         /\ DOMAIN file' = DOMAIN file \cup {Len(file) + 1}
         /\ Len(file) + 1 \notin DOMAIN file
         /\ \A i \in DOMAIN file : file'[i] = file[i]
         /\ file'[Len(file) + 1] = line
         /\ \A i \in DOMAIN file : IsLast(i)' =>
              /\ IsLast(i)
              /\ file[i].kind = line.kind /\ file[i].name = line.name =>
                   line.kind = "module" /\ file[i].index # line.index
<1>1. /\ file' \in Seq(Lines) /\ file' # <<>> /\ Len(file) \in Nat
      /\ DOMAIN file' = DOMAIN file \cup {Len(file) + 1}
      /\ Len(file) + 1 \notin DOMAIN file
      /\ \A i \in DOMAIN file : file'[i] = file[i] /\ i \in Int /\ i <= Len(file)
      /\ file'[Len(file) + 1] = line
  BY Appended DEF ListsTypeOK
<1>2. ASSUME NEW i \in DOMAIN file, IsLast(i)'
      PROVE  /\ IsLast(i)
             /\ file[i].kind = line.kind /\ file[i].name = line.name =>
                  line.kind = "module" /\ file[i].index # line.index
  BY <1>1, <1>2 DEF IsLast, Names
<1> QED
  BY <1>1, <1>2

(* A line stays where it was filed as long as its list or setting does. *)
LEMMA FiledBefore ==
  ASSUME ListsTypeOK, NEW line \in Lines, file' = Append(file, line), NEW i \in DOMAIN file
  PROVE  /\ KeyFiled(i) /\ settings' = settings => KeyFiled(i)'
         /\ ModuleFiled(i) /\ moduleParams' = moduleParams => ModuleFiled(i)'
         /\ ParamFiled(i) /\ params' = params => ParamFiled(i)'
         /\ PinFiled(i) /\ pins' = pins => PinFiled(i)'
<1>1. file'[i] = file[i] /\ (IsLast(i)' => IsLast(i))
  BY LineAppended
<1>2. KeyFiled(i) /\ settings' = settings => KeyFiled(i)'
  BY <1>1 DEF KeyFiled
<1>3. ModuleFiled(i) /\ moduleParams' = moduleParams => ModuleFiled(i)'
  BY <1>1 DEF ModuleFiled
<1>4. ParamFiled(i) /\ params' = params => ParamFiled(i)'
  BY <1>1 DEF ParamFiled
<1>5. PinFiled(i) /\ pins' = pins => PinFiled(i)'
  BY <1>1 DEF PinFiled
<1> QED
  BY <1>2, <1>3, <1>4, <1>5

(* How a line that is filed keeps AllFiled: the one step left to each kind *)
(* of line is its own list.                                                *)
LEMMA OneMoreFiled ==
  ASSUME ListsTypeOK, AllFiled, NEW line \in Lines, file' = Append(file, line),
         failures' = failures, NEW n, n = Len(file) + 1, Filed(n)',
         \A i \in DOMAIN file : Filed(i) => 
           KeyFiled(i)' /\ ModuleFiled(i)' /\ ParamFiled(i)' /\ PinFiled(i)'
  PROVE  AllFiled'
<1>1. /\ DOMAIN file' = DOMAIN file \cup {Len(file) + 1}
      /\ \A i \in DOMAIN file : file'[i] = file[i]
  BY LineAppended
<1>2. ASSUME failures = 0, NEW i \in DOMAIN file
      PROVE  Filed(i)'
  BY <1>1, <1>2 DEF AllFiled, Filed
<1> QED
  BY <1>1, <1>2 DEF AllFiled

(* The param. lines are counted as they are listed. *)
LEMMA OneMoreCounted ==
  ASSUME ListsTypeOK, Counted, NEW line \in Lines, file' = Append(file, line),
         Len(params') = IF line.kind = "param" THEN Len(params) + 1 ELSE Len(params)
  PROVE  Counted'
<1>1. /\ DOMAIN file' = DOMAIN file \cup {Len(file) + 1}
      /\ Len(file) + 1 \notin DOMAIN file
      /\ \A i \in DOMAIN file : file'[i] = file[i]
      /\ file'[Len(file) + 1] = line
  BY LineAppended
<1>2. CASE line.kind = "param"
  <2>1. ParamLines' = ParamLines \cup {Len(file) + 1} /\ Len(file) + 1 \notin ParamLines
    BY <1>1, <1>2 DEF ParamLines
  <2>2. /\ IsFiniteSet(ParamLines \cup {Len(file) + 1})
        /\ Cardinality(ParamLines \cup {Len(file) + 1}) = Cardinality(ParamLines) + 1
    BY <2>1, FS_AddElement DEF Counted
  <2> QED
    BY <1>2, <2>1, <2>2 DEF Counted
<1>3. CASE line.kind # "param"
  <2>1. ParamLines' = ParamLines
    BY <1>1, <1>3 DEF ParamLines
  <2> QED
    BY <1>3, <2>1 DEF Counted
<1> QED
  BY <1>2, <1>3

(* A setting that is not at its default keeps the line that set it. *)
LEMMA DefaultedBefore ==
  ASSUME ListsTypeOK, Defaulted, NEW line \in Lines, file' = Append(file, line),
         NEW key \in Keys, settings[key] # Defaults[key]
  PROVE  \E i \in DOMAIN file' : file'[i].kind = "key" /\ file'[i].name = key
  BY LineAppended DEF Defaulted

(* The kinds of lines. *)
LEMMA KindOfLine ==
  ASSUME NEW line \in Lines
  PROVE  /\ line.kind \in {"blank", "malformed", "unknown", "module", "param", "pin", "key"}
         /\ line.kind = "key" => line.name \in Keys
         /\ line.kind = "module" => line \in LinesOf("module")
         /\ line.kind = "param" => [name |-> line.name, value |-> Real(line.text)] \in HalLines
         /\ line.kind = "pin" /\ IsPinValue(line.text) =>
              [name |-> line.name, value |-> PinValue(line.text)] \in PinLines
<1>1. line.kind \in {"blank", "malformed", "unknown", "module", "param", "pin", "key"}
  BY DEF Lines
<1>2. line.kind = "key" => line.name \in Keys
  BY DEF Lines, Keys
<1> QED
  BY <1>1, <1>2 DEF LinesOf, HalLines, PinLines

(* A line that changes no setting leaves the others as they were told. *)
LEMMA SettingsLeft ==
  ASSUME ListsTypeOK, Defaulted, NEW line \in Lines, file' = Append(file, line),
         settings' = settings
  PROVE  Defaulted'
  BY DefaultedBefore DEF Defaulted

(* A fault is counted, and of a file with a fault nothing is promised. *)
LEMMA FaultFiled ==
  ASSUME ReadInv, NEW line \in Lines, line.kind # "param", file' = Append(file, line), Fail
  PROVE  ReadInv'
<1> USE DEF ReadInv, Fail
<1>1. ListsTypeOK'
  BY LineAppended DEF ListsTypeOK
<1>2. AllFiled'
  BY DEF ListsTypeOK, AllFiled
<1>3. OnePinEach'
  BY DEF OnePinEach
<1>4. Counted'
  BY OneMoreCounted
<1>5. Defaulted'
  BY SettingsLeft
<1> QED
  BY <1>1, <1>2, <1>3, <1>4, <1>5

LEMMA BlankFiled ==
  ASSUME ReadInv, NEW line \in Lines, line.kind = "blank", file' = Append(file, line), Skip
  PROVE  ReadInv'
<1> USE DEF ReadInv, Skip
<1>1. ListsTypeOK'
  BY LineAppended DEF ListsTypeOK
<1>2. AllFiled'
  <2>1. PICK n : n = Len(file) + 1
    OBVIOUS
  <2>2. Filed(n)'
    BY <2>1, LineAppended DEF Filed, KeyFiled, ModuleFiled, ParamFiled, PinFiled
  <2> QED
    BY <2>1, <2>2, OneMoreFiled, FiledBefore DEF Filed
<1>3. OnePinEach'
  BY DEF OnePinEach
<1>4. Counted'
  BY OneMoreCounted
<1>5. Defaulted'
  BY SettingsLeft
<1> QED
  BY <1>1, <1>2, <1>3, <1>4, <1>5

(* add_module_param: the longer list ends with the line, which is the last *)
(* of its name and index; another's last is still its last.                *)
LEMMA ModuleParamFiled ==
  ASSUME ReadInv, NEW line \in Lines, line.kind = "module", file' = Append(file, line),
         moduleParams' = Append(moduleParams, line),
         UNCHANGED <<failures, settings, params, pins>>
  PROVE  ReadInv'
<1> USE DEF ReadInv
<1>0. /\ moduleParams' \in Seq(LinesOf("module"))
      /\ DOMAIN moduleParams' = DOMAIN moduleParams \cup {Len(moduleParams) + 1}
      /\ \A i \in DOMAIN moduleParams :
           moduleParams'[i] = moduleParams[i] /\ i \in Int /\ i <= Len(moduleParams)
      /\ moduleParams'[Len(moduleParams) + 1] = line /\ Len(moduleParams) \in Nat
  <2>1. line \in LinesOf("module") /\ moduleParams \in Seq(LinesOf("module"))
    BY KindOfLine DEF ListsTypeOK
  <2> QED
    BY <2>1, Appended
<1>1. ListsTypeOK'
  BY <1>0, LineAppended DEF ListsTypeOK
<1>2. AllFiled'
  <2>1. PICK n : n = Len(file) + 1
    OBVIOUS
  <2>2. ModuleFiled(n)'
    <3>1. \A k \in DOMAIN moduleParams' : ~(k > Len(moduleParams) + 1)
      BY <1>0
    <3> QED
      BY <1>0, <2>1, <3>1, LineAppended DEF ModuleFiled
  <2>3. Filed(n)'
    BY <2>1, <2>2, LineAppended DEF Filed, KeyFiled, ParamFiled, PinFiled
  <2>4. ASSUME NEW i \in DOMAIN file, ModuleFiled(i)
        PROVE  ModuleFiled(i)'
    <3>1. SUFFICES ASSUME file[i].kind = "module", IsLast(i)'
                   PROVE  (\E j \in DOMAIN moduleParams :
                             /\ moduleParams[j] = file[i]
                             /\ \A k \in DOMAIN moduleParams :
                                  k > j => ~SameParam(moduleParams[k], file[i]))'
      BY LineAppended DEF ModuleFiled
    <3>2. /\ IsLast(i) /\ file'[i] = file[i]
          /\ ~SameParam(line, file[i])
      BY <3>1, LineAppended DEF SameParam
    <3>3. PICK j \in DOMAIN moduleParams :
                 /\ moduleParams[j] = file[i]
                 /\ \A k \in DOMAIN moduleParams : k > j => ~SameParam(moduleParams[k], file[i])
      BY <2>4, <3>1, <3>2 DEF ModuleFiled
    <3> QED
      BY <1>0, <3>2, <3>3
  <2> QED
    BY <2>1, <2>3, <2>4, OneMoreFiled, FiledBefore DEF Filed
<1>3. OnePinEach'
  BY DEF OnePinEach
<1>4. Counted'
  BY OneMoreCounted
<1>5. Defaulted'
  BY SettingsLeft
<1> QED
  BY <1>1, <1>2, <1>3, <1>4, <1>5

(* add_hal_param: every line of a param. is kept. *)
LEMMA HalParamFiled ==
  ASSUME ReadInv, NEW line \in Lines, line.kind = "param", file' = Append(file, line),
         AddHalParam(line)
  PROVE  ReadInv'
<1> USE DEF ReadInv, AddHalParam
<1>0. /\ params' \in Seq(HalLines) /\ Len(params') = Len(params) + 1
      /\ DOMAIN params' = DOMAIN params \cup {Len(params) + 1}
      /\ \A i \in DOMAIN params : params'[i] = params[i]
      /\ params'[Len(params) + 1] = [name |-> line.name, value |-> Real(line.text)]
  <2>1. [name |-> line.name, value |-> Real(line.text)] \in HalLines /\ params \in Seq(HalLines)
    BY KindOfLine DEF ListsTypeOK
  <2> QED
    BY <2>1, Appended
<1>1. ListsTypeOK'
  BY <1>0, LineAppended DEF ListsTypeOK
<1>2. AllFiled'
  <2>1. PICK n : n = Len(file) + 1
    OBVIOUS
  <2>2. ParamFiled(n)'
    BY <1>0, <2>1, LineAppended DEF ParamFiled
  <2>3. Filed(n)'
    BY <2>1, <2>2, LineAppended DEF Filed, KeyFiled, ModuleFiled, PinFiled
  <2>4. ASSUME NEW i \in DOMAIN file, ParamFiled(i)
        PROVE  ParamFiled(i)'
    <3>1. file'[i] = file[i]
      BY LineAppended
    <3> QED
      BY <1>0, <2>4, <3>1 DEF ParamFiled
  <2> QED
    BY <2>1, <2>3, <2>4, OneMoreFiled, FiledBefore DEF Filed
<1>3. OnePinEach'
  BY DEF OnePinEach
<1>4. Counted'
  BY <1>0, OneMoreCounted
<1>5. Defaulted'
  BY SettingsLeft
<1> QED
  BY <1>1, <1>2, <1>3, <1>4, <1>5

(* add_pin: a pin that is in the list already is a fault, so that each pin *)
(* has one line.                                                           *)
LEMMA PinLineFiled ==
  ASSUME ReadInv, NEW line \in Lines, line.kind = "pin", file' = Append(file, line),
         IsPinValue(line.text), \A i \in DOMAIN pins : pins[i].name # line.name,
         pins' = Append(pins, [name |-> line.name, value |-> PinValue(line.text)]),
         UNCHANGED <<failures, settings, moduleParams, params>>
  PROVE  ReadInv'
<1> USE DEF ReadInv
<1>0. /\ pins' \in Seq(PinLines)
      /\ DOMAIN pins' = DOMAIN pins \cup {Len(pins) + 1}
      /\ \A i \in DOMAIN pins : pins'[i] = pins[i]
      /\ pins'[Len(pins) + 1] = [name |-> line.name, value |-> PinValue(line.text)]
  <2>1. /\ [name |-> line.name, value |-> PinValue(line.text)] \in PinLines
        /\ pins \in Seq(PinLines)
    BY KindOfLine DEF ListsTypeOK
  <2> QED
    BY <2>1, Appended
<1>1. ListsTypeOK'
  BY <1>0, LineAppended DEF ListsTypeOK
<1>2. AllFiled'
  <2>1. PICK n : n = Len(file) + 1
    OBVIOUS
  <2>2. PinFiled(n)'
    BY <1>0, <2>1, LineAppended DEF PinFiled
  <2>3. Filed(n)'
    BY <2>1, <2>2, LineAppended DEF Filed, KeyFiled, ModuleFiled, ParamFiled
  <2>4. ASSUME NEW i \in DOMAIN file, PinFiled(i)
        PROVE  PinFiled(i)'
    <3>1. file'[i] = file[i]
      BY LineAppended
    <3> QED
      BY <1>0, <2>4, <3>1 DEF PinFiled
  <2> QED
    BY <2>1, <2>3, <2>4, OneMoreFiled, FiledBefore DEF Filed
<1>3. OnePinEach'
  BY <1>0 DEF OnePinEach
<1>4. Counted'
  BY OneMoreCounted
<1>5. Defaulted'
  BY SettingsLeft
<1> QED
  BY <1>1, <1>2, <1>3, <1>4, <1>5

(* A key's setting is that of its last line. *)
LEMMA KeyFiledNow ==
  ASSUME ReadInv, NEW line \in Lines, line.kind = "key", file' = Append(file, line),
         settings' = [settings EXCEPT ![line.name] = SettingOf(line.name, line.text)],
         UNCHANGED <<failures, moduleParams, params, pins>>
  PROVE  ReadInv'
<1> USE DEF ReadInv
<1>0. /\ line.name \in Keys /\ DOMAIN settings' = Keys
      /\ settings'[line.name] = SettingOf(line.name, line.text)
      /\ \A key \in Keys : key # line.name => settings'[key] = settings[key]
  BY KindOfLine DEF ListsTypeOK
<1>1. ListsTypeOK'
  BY <1>0, LineAppended DEF ListsTypeOK
<1>2. AllFiled'
  <2>1. PICK n : n = Len(file) + 1
    OBVIOUS
  <2>2. KeyFiled(n)'
    BY <1>0, <2>1, LineAppended DEF KeyFiled
  <2>3. Filed(n)'
    BY <2>1, <2>2, LineAppended DEF Filed, ModuleFiled, ParamFiled, PinFiled
  <2>4. ASSUME NEW i \in DOMAIN file, KeyFiled(i)
        PROVE  KeyFiled(i)'
    <3>1. SUFFICES ASSUME file[i].kind = "key", IsLast(i)'
                   PROVE  settings'[file[i].name] = SettingOf(file[i].name, file[i].text)
      BY LineAppended DEF KeyFiled
    <3>2. IsLast(i) /\ file[i].name # line.name
      BY <3>1, LineAppended
    <3>3. file[i].name \in Keys
      <4>1. file[i] \in Lines
        BY DEF ListsTypeOK
      <4> QED
        BY <3>1, <4>1, KindOfLine
    <3> QED
      BY <1>0, <2>4, <3>1, <3>2, <3>3 DEF KeyFiled
  <2> QED
    BY <2>1, <2>3, <2>4, OneMoreFiled, FiledBefore DEF Filed
<1>3. OnePinEach'
  BY DEF OnePinEach
<1>4. Counted'
  BY OneMoreCounted
<1>5. Defaulted'
  <2>1. ASSUME NEW key \in Keys, settings'[key] # Defaults[key]
        PROVE  (\E i \in DOMAIN file : file[i].kind = "key" /\ file[i].name = key)'
    <3>1. CASE key = line.name
      BY <3>1, LineAppended
    <3>2. CASE key # line.name
      BY <1>0, <2>1, <3>2, DefaultedBefore
    <3> QED
      BY <3>1, <3>2
  <2> QED
    BY <2>1 DEF Defaulted
<1> QED
  BY <1>1, <1>2, <1>3, <1>4, <1>5

(* One turn of hm2_config_load's loop. *)
LEMMA ReadLineFiles ==
  ASSUME ReadInv, NEW line \in Lines, ReadLine(line)
  PROVE  ReadInv' /\ file' # <<>>
<1>0. file' = Append(file, line) /\ file' # <<>>
  BY LineAppended DEF ReadLine, ReadInv
<1>1. CASE line.kind = "blank" /\ Skip
  BY <1>0, <1>1, BlankFiled
<1>2. CASE line.kind = "module" /\ AddModuleParam(line)
  BY <1>0, <1>2, ModuleParamFiled, FaultFiled DEF AddModuleParam
<1>3. CASE line.kind = "param" /\ AddHalParam(line)
  BY <1>0, <1>3, HalParamFiled
<1>4. CASE line.kind = "pin" /\ AddPin(line)
  BY <1>0, <1>4, PinLineFiled, FaultFiled DEF AddPin
<1>5. CASE line.kind = "key" /\ SetKey(line)
  BY <1>0, <1>5, KeyFiledNow, FaultFiled DEF SetKey
<1>6. CASE line.kind \in {"malformed", "unknown"} /\ Fail
  BY <1>0, <1>6, FaultFiled
<1> QED
  BY <1>1, <1>2, <1>3, <1>4, <1>5, <1>6 DEF ReadLine

(* What the file was filed in stays as long as main does not return. *)
LEMMA FileUntouched ==
  ASSUME FileInv, UNCHANGED <<file, failures, settings, moduleParams, params, pins>>,
         step' # "returned" => step # "returned"
  PROVE  FileInv'
<1>1. ListsTypeOK' /\ Defaulted'
  BY DEF FileInv, ListsTypeOK, Defaulted
<1>2. AllFiled' = AllFiled
  BY DEF AllFiled, Filed, KeyFiled, ModuleFiled, ParamFiled, PinFiled, IsLast, Names
<1>3. OnePinEach' = OnePinEach /\ NoneYet' = NoneYet /\ Counted' = Counted
  BY DEF OnePinEach, NoneYet, Counted, ParamLines
<1> QED
  BY <1>1, <1>2, <1>3 DEF FileInv, FileKept

LEMMA FileFreed ==
  ASSUME FileInv, UNCHANGED <<file, failures, settings>>, Free, step' = "returned"
  PROVE  FileInv'
  BY DEF FileInv, ListsTypeOK, Defaulted, FileKept, Free

LEMMA FileStep ==
  ASSUME ControlInv, FileInv, [Next]_vars
  PROVE  FileInv'
<1>1. CASE ReadConfig
  <2>1. step # "returned"
    BY <1>1 DEF ReadConfig
  <2>2. CASE NoFile \/ EndOfFile
    <3>1. \/ UNCHANGED <<file, failures, settings>> /\ Free /\ step' = "returned"
          \/ UNCHANGED <<file, failures, settings, moduleParams, params, pins>>
      BY <1>1, <2>2 DEF ReadConfig, NoFile, EndOfFile, ReturnEarly
    <3> QED
      BY <2>1, <3>1, FileUntouched, FileFreed
  <2>3. ASSUME NEW line \in Lines, ReadLine(line)
        PROVE  FileInv'
    <3>1. ReadInv
      BY <2>1 DEF FileInv, FileKept, ReadInv
    <3>2. ReadInv' /\ file' # <<>>
      BY <2>3, <3>1, ReadLineFiles
    <3> QED
      BY <3>2 DEF ReadInv, FileInv, FileKept, NoneYet
  <2> QED
    BY <1>1, <2>2, <2>3 DEF ReadConfig, Load
<1>2. CASE FoundInUse \/ NoArena \/ Return
  BY <1>2, FileFreed DEF FoundInUse, NoArena, Return, ReturnEarly, Go
<1>3. CASE UNCHANGED vars
  BY <1>3, FileUntouched DEF vars, given, configVars
<1>4. CASE \/ NotInUse \/ InitShim \/ \E m \in Modules : LoadModule(m) \/ NotLoaded(m)
           \/ PlaceParam \/ AllPlaced \/ GenericMain
  <2>1. UNCHANGED configVars /\ step # "returned"
    BY <1>4 DEF NotInUse, InitShim, LoadModule, NotLoaded, LoadStep, PlaceParam, AllPlaced,
                GenericMain, Go, GiveUp, given
  <2> QED
    BY <2>1, FileUntouched DEF configVars
<1>5. CASE Declare
  <2>1. UNCHANGED configVars /\ step # "returned"
    BY <1>5 DEF Declare, DeclarePin, DeclareParam, SetParam, TransportFails, TransportMain, CheckClaims,
                Go, GiveUp, given
  <2> QED
    BY <2>1, FileUntouched DEF configVars
<1>6. CASE \/ ExitTransport \/ ExitGeneric \/ JoinWriter \/ DestroyRegion \/ FiniShim
           \/ SetSserial
  <2>1. UNCHANGED configVars /\ step # "returned"
    BY <1>6 DEF ExitTransport, ExitGeneric, JoinWriter, DestroyRegion, FiniShim, SetSserial,
                Go, given
  <2> QED
    BY <2>1, FileUntouched DEF configVars
<1>7. CASE \/ GiveUpBinding \/ FixPins \/ BindSignals \/ CreateRegion \/ NoRegion
           \/ StartWriter \/ Enter \/ StopMeasuring \/ LeaveCycle
  <2>1. UNCHANGED configVars /\ step # "returned"
    BY <1>7 DEF GiveUpBinding, FixPins, BindSignals, CreateRegion, NoRegion, StartWriter, Enter,
                StopMeasuring, LeaveCycle, Go, GiveUp, given
  <2> QED
    BY <2>1, FileUntouched DEF configVars
<1> QED
  BY <1>1, <1>2, <1>3, <1>4, <1>5, <1>6, <1>7 DEF Next, SetUp, Leave

-----------------------------------------------------------------------------
(* One turn of main's loop over the module parameters: a later line of the *)
(* same name and index overwrites what an earlier one placed.              *)
LEMMA OneMorePlaced ==
  ASSUME ListsTypeOK, PlacedSoFar, ParamsPlaced, PlaceParam, Takes(moduleParams[nextParam])
  PROVE  ParamsPlaced'
<1> DEFINE param == moduleParams[nextParam]
           key == <<param.name, param.index>>
<1>1. /\ placed' = [k \in DOMAIN placed \cup {key} |->
                      IF k = key THEN ParamValue(param) ELSE placed[k]]
      /\ nextParam' = nextParam + 1 /\ moduleParams' = moduleParams
      /\ nextParam \in 1..Len(moduleParams) /\ DOMAIN moduleParams = 1..Len(moduleParams)
  BY DEF PlaceParam, PlacedSoFar, given, configVars, ListsTypeOK
<1>2. ASSUME NEW j \in DOMAIN moduleParams, j < nextParam + 1,
             \A k \in DOMAIN moduleParams :
               j < k /\ k < nextParam + 1 => ~SameParam(moduleParams[k], moduleParams[j])
      PROVE  /\ <<moduleParams[j].name, moduleParams[j].index>> \in DOMAIN placed'
             /\ placed'[<<moduleParams[j].name, moduleParams[j].index>>] =
                  ParamValue(moduleParams[j])
  <2>1. CASE j = nextParam
    BY <1>1, <2>1
  <2>2. CASE j < nextParam
    <3>1. <<moduleParams[j].name, moduleParams[j].index>> # key
      BY <1>1, <1>2, <2>2 DEF SameParam
    <3>2. \A k \in DOMAIN moduleParams :
            j < k /\ k < nextParam => ~SameParam(moduleParams[k], moduleParams[j])
      BY <1>1, <1>2
    <3>3. /\ <<moduleParams[j].name, moduleParams[j].index>> \in DOMAIN placed
          /\ placed[<<moduleParams[j].name, moduleParams[j].index>>] = ParamValue(moduleParams[j])
      BY <2>2, <3>2 DEF ParamsPlaced
    <3> QED
      BY <1>1, <3>1, <3>3
  <2> QED
    BY <1>1, <1>2, <2>1, <2>2
<1> HIDE DEF param, key
<1> QED
  BY <1>1, <1>2 DEF ParamsPlaced, ParamValue, SameParam

(* Which step follows which, as far as the module parameters, the          *)
(* declarations and the fixed pins are asked for at them.                  *)
Reached == {"place", "genericMain", "declare"} \cup Driving
LEMMA PlacedKept ==
  ASSUME ListsTypeOK, PlacedSoFar, UNCHANGED <<placed, nextParam>>,
         step' \in Early \cup {"loadGeneric", "loadTransport"} =>
           step \in Early \cup {"loadGeneric", "loadTransport"},
         step' \in Reached =>
           /\ moduleParams' = moduleParams
           /\ step \in Reached \/ step = "loadTransport",
         step' \in Reached \ {"place"} =>
           step \in Reached \ {"place"} \/ nextParam > Len(moduleParams)
  PROVE  PlacedSoFar'
<1>1. CASE step' \notin Reached
  BY <1>1 DEF PlacedSoFar, Reached, Driving, Early
<1>2. CASE step' \in Reached
  <2>1. ParamsPlaced
    <3>1. CASE step = "loadTransport"
      BY <3>1 DEF PlacedSoFar, ParamsPlaced, ListsTypeOK
    <3>2. CASE step \in Reached
      BY <3>2 DEF PlacedSoFar, Reached
    <3> QED
      BY <1>2, <3>1, <3>2
  <2>2. ParamsPlaced'
    BY <1>2, <2>1 DEF ParamsPlaced, ParamValue, SameParam
  <2>3. step' \notin Early \cup {"loadGeneric", "loadTransport"}
    BY <1>2 DEF Reached, Driving, Early
  <2>4. step' \in {"genericMain", "declare"} \cup Driving => nextParam' > Len(moduleParams')
    BY <1>2 DEF PlacedSoFar, Reached, Driving
  <2> QED
    BY <2>2, <2>3, <2>4 DEF PlacedSoFar
<1> QED
  BY <1>1, <1>2

LEMMA PlacedStep ==
  ASSUME ListsTypeOK, PlacedSoFar, [Next]_vars
  PROVE  PlacedSoFar'
<1> USE DEF given, configVars, outcome, loading, driver, bound, Reached, Early, Driving
<1>1. CASE PlaceParam
  <2>1. CASE Takes(moduleParams[nextParam])
    <3>1. step = "place" /\ step' = "place" /\ nextParam' \in Nat \ {0} /\ ParamsPlaced
      BY <1>1, <2>1 DEF PlaceParam, PlacedSoFar
    <3> QED
      BY <1>1, <2>1, <3>1, OneMorePlaced DEF PlacedSoFar
  <2>2. CASE ~Takes(moduleParams[nextParam])
    BY <1>1, <2>2, PlacedKept DEF PlaceParam, GiveUp, Go
  <2> QED
    BY <2>1, <2>2
<1>2. CASE ReadConfig
  BY <1>2, PlacedKept DEF ReadConfig, ReturnEarly
<1>3. CASE FoundInUse \/ NotInUse \/ NoArena \/ InitShim
  BY <1>3, PlacedKept DEF FoundInUse, NotInUse, NoArena, InitShim, ReturnEarly, Go
<1>4. CASE \E m \in Modules : LoadModule(m) \/ NotLoaded(m)
  BY <1>4, PlacedKept DEF LoadModule, NotLoaded, LoadStep, Modules, GiveUp, Go
<1>5. CASE AllPlaced \/ GenericMain
  BY <1>5, PlacedKept DEF AllPlaced, GenericMain, GiveUp, Go
<1>6. CASE Declare
  BY <1>6, PlacedKept
  DEF Declare, DeclarePin, DeclareParam, SetParam, TransportFails, TransportMain, CheckClaims, Go, GiveUp
<1>7. CASE Leave
  BY <1>7, PlacedKept
  DEF Leave, ExitTransport, ExitGeneric, JoinWriter, DestroyRegion, FiniShim, Return, Go
<1>8. CASE SetSserial \/ GiveUpBinding \/ FixPins \/ BindSignals
  BY <1>8, PlacedKept DEF SetSserial, GiveUpBinding, FixPins, BindSignals, Go, GiveUp
<1>9. CASE CreateRegion \/ NoRegion \/ StartWriter \/ Enter \/ StopMeasuring \/ LeaveCycle
  BY <1>9, PlacedKept
  DEF CreateRegion, NoRegion, StartWriter, Enter, StopMeasuring, LeaveCycle, Go, GiveUp
<1>10. CASE UNCHANGED vars
  BY <1>10, PlacedKept DEF vars
<1> QED
  BY <1>1, <1>2, <1>3, <1>4, <1>5, <1>6, <1>7, <1>8, <1>9, <1>10 DEF Next, SetUp

-----------------------------------------------------------------------------
(* hm2_shim_param_lookup finds one line at most, the first of the name. *)
LEMMA LookupFindsOne ==
  ASSUME ListsTypeOK, NEW param, NEW i \in Lookup(param)
  PROVE  (CHOOSE j \in Lookup(param) : TRUE) = i /\ i \in DOMAIN params /\ params[i].name = param
<1>1. \A j \in Lookup(param) : j = i
  BY DEF Lookup, ListsTypeOK
<1> QED
  BY <1>1 DEF Lookup

(* hal_param_new: the cells declared before are of other names.            *)
LEMMA CellDeclared ==
  ASSUME ListsTypeOK, ClaimedSoFar, NEW param, DeclareParam(param)
  PROVE  claimed' \subseteq DOMAIN params' /\ LinesInCells'
<1>1. /\ step = "declare" /\ param \notin DOMAIN cells /\ params' = params
      /\ claimed' = claimed \cup Lookup(param)
      /\ DOMAIN cells' = DOMAIN cells \cup {param}
      /\ \A p \in DOMAIN cells : cells'[p] = cells[p]
      /\ Lookup(param) # {} =>
           cells'[param] = Converted(param, params[CHOOSE i \in Lookup(param) : TRUE].value)
  BY DEF DeclareParam, given, configVars
<1>2. ASSUME NEW j \in claimed
      PROVE  /\ j \in DOMAIN params
             /\ params[j].name \in DOMAIN cells' /\ InItsCell(params[j])'
  BY <1>1, <1>2 DEF ClaimedSoFar, LinesInCells, InItsCell
<1>3. ASSUME NEW j \in Lookup(param)
      PROVE  /\ j \in DOMAIN params
             /\ params[j].name \in DOMAIN cells' /\ InItsCell(params[j])'
  BY <1>1, <1>3, LookupFindsOne DEF InItsCell
<1> QED
  BY <1>1, <1>2, <1>3 DEF LinesInCells

(* Of the cells declared before, only those the driver may set are set.    *)
LEMMA CellSet ==
  ASSUME ClaimedSoFar, NEW param, SetParam(param)
  PROVE  ClaimedSoFar'
<1>1. /\ step = "declare" /\ step' = "declare" /\ UNCHANGED <<params, claimed>>
      /\ param \in SetByDriver /\ DOMAIN cells' = DOMAIN cells
      /\ \A p \in DOMAIN cells : p = param \/ cells'[p] = cells[p]
  BY DEF SetParam, given, configVars
<1>2. claimed \subseteq DOMAIN params /\ LinesInCells
  BY <1>1 DEF ClaimedSoFar
<1>3. LinesInCells'
  BY <1>1, <1>2 DEF LinesInCells, InItsCell
<1> QED
  BY <1>1, <1>2, <1>3 DEF ClaimedSoFar, Early, Loading, Driving

Declaring == {"declare"} \cup Driving
LEMMA ClaimedKept ==
  ASSUME ClaimedSoFar, UNCHANGED claimed,
         step' \in Early \cup Loading => step \in Early \cup Loading,
         step' \in Declaring =>
           /\ UNCHANGED <<cells, signals, params>>
           /\ step \in Declaring \/ claimed = {},
         step' \in Driving => step \in Driving \/ Complete,
         step' \in Driving \ {"claims"} =>
           step \in Driving \ {"claims"} \/ (step = "claims" /\ Unclaimed = {})
  PROVE  ClaimedSoFar'
<1> USE DEF Early, Loading, Driving, Declaring
<1>1. step' \in Early \cup Loading => claimed' = {}
  BY DEF ClaimedSoFar
<1>2. ASSUME step' \in Declaring
      PROVE  claimed' \subseteq DOMAIN params' /\ LinesInCells'
  <2>1. claimed \subseteq DOMAIN params /\ LinesInCells
    BY <1>2 DEF ClaimedSoFar, LinesInCells
  <2> QED
    BY <1>2, <2>1 DEF LinesInCells, InItsCell
<1>3. ASSUME step' \in Driving
      PROVE  signals' \cup DOMAIN cells' = Declared
  BY <1>3 DEF ClaimedSoFar, Complete
<1>4. ASSUME step' \in Driving \ {"claims"}
      PROVE  claimed' = DOMAIN params'
  <2>1. claimed \subseteq DOMAIN params
    BY <1>4 DEF ClaimedSoFar
  <2>2. claimed = DOMAIN params
    BY <1>4, <2>1 DEF ClaimedSoFar, Unclaimed
  <2> QED
    BY <1>4, <2>2
<1> QED
  BY <1>1, <1>2, <1>3, <1>4 DEF ClaimedSoFar

LEMMA ClaimedStep ==
  ASSUME ListsTypeOK, ClaimedSoFar, [Next]_vars
  PROVE  ClaimedSoFar'
<1> USE DEF given, configVars, outcome, loading, driver, bound, Early, Loading, Driving, Declaring
<1>1. ASSUME NEW param \in HalParams, DeclareParam(param)
      PROVE  ClaimedSoFar'
  <2>1. claimed' \subseteq DOMAIN params' /\ LinesInCells'
    BY <1>1, CellDeclared
  <2>2. step = "declare" /\ step' = "declare"
    BY <1>1 DEF DeclareParam
  <2> QED
    BY <2>1, <2>2 DEF ClaimedSoFar
<1>2. CASE ReadConfig
  BY <1>2, ClaimedKept DEF ReadConfig, ReturnEarly
<1>3. CASE FoundInUse \/ NotInUse \/ NoArena \/ InitShim
  BY <1>3, ClaimedKept DEF FoundInUse, NotInUse, NoArena, InitShim, ReturnEarly, Go
<1>4. CASE \E m \in Modules : LoadModule(m) \/ NotLoaded(m)
  BY <1>4, ClaimedKept DEF LoadModule, NotLoaded, LoadStep, Modules, GiveUp, Go
<1>5. CASE PlaceParam \/ AllPlaced
  BY <1>5, ClaimedKept DEF PlaceParam, AllPlaced, GiveUp, Go
<1>6. CASE GenericMain
  <2>1. claimed = {}
    BY <1>6 DEF GenericMain, GiveUp, Go, ClaimedSoFar
  <2> QED
    BY <1>6, <2>1, ClaimedKept DEF GenericMain, GiveUp, Go
<1>7. ASSUME NEW pin, DeclarePin(pin)
      PROVE  ClaimedSoFar'
  <2>1. /\ step = "declare" /\ step' = "declare"
        /\ UNCHANGED <<claimed, cells, params>>
    BY <1>7 DEF DeclarePin
  <2>2. LinesInCells' = LinesInCells
    BY <2>1 DEF LinesInCells, InItsCell
  <2> QED
    BY <2>1, <2>2 DEF ClaimedSoFar
<1>8. CASE TransportFails \/ TransportMain \/ CheckClaims
  BY <1>8, ClaimedKept DEF TransportFails, TransportMain, CheckClaims, Go, GiveUp
<1>9. CASE Leave
  BY <1>9, ClaimedKept
  DEF Leave, ExitTransport, ExitGeneric, JoinWriter, DestroyRegion, FiniShim, Return, Go
<1>10. CASE SetSserial \/ GiveUpBinding \/ FixPins \/ BindSignals
  BY <1>10, ClaimedKept DEF SetSserial, GiveUpBinding, FixPins, BindSignals, Go, GiveUp
<1>11. CASE CreateRegion \/ NoRegion \/ StartWriter \/ Enter \/ StopMeasuring \/ LeaveCycle
  BY <1>11, ClaimedKept
  DEF CreateRegion, NoRegion, StartWriter, Enter, StopMeasuring, LeaveCycle, Go, GiveUp
<1>12. CASE UNCHANGED vars
  BY <1>12, ClaimedKept DEF vars
<1>13. ASSUME NEW param, SetParam(param)
       PROVE  ClaimedSoFar'
  BY <1>13, CellSet
<1> QED
  BY <1>1, <1>2, <1>3, <1>4, <1>5, <1>6, <1>7, <1>8, <1>9, <1>10, <1>11, <1>12, <1>13
  DEF Next, SetUp, Declare

-----------------------------------------------------------------------------
(* fix_pins: each pin has one line, so that it is fixed to that line's     *)
(* value.                                                                  *)
LEMMA PinsFixedNow ==
  ASSUME OnePinEach, FixPins, Fixable = DOMAIN pins
  PROVE  PinsFixed'
<1>1. /\ fixed' = [pin \in {pins[i].name : i \in Fixable} |->
                     (CHOOSE p \in {pins[i] : i \in Fixable} : p.name = pin).value]
      /\ pins' = pins
  BY DEF FixPins, given, configVars
<1>2. ASSUME NEW j \in DOMAIN pins
      PROVE  /\ pins[j].name \in DOMAIN fixed' /\ fixed'[pins[j].name] = pins[j].value
  <2>1. \A p \in {pins[i] : i \in Fixable} : p.name = pins[j].name => p = pins[j]
    BY DEF OnePinEach
  <2>2. (CHOOSE p \in {pins[i] : i \in Fixable} : p.name = pins[j].name) = pins[j]
    BY <2>1
  <2> QED
    BY <1>1, <2>2
<1> QED
  BY <1>1, <1>2 DEF PinsFixed

Fixed == Driving \ {"claims", "fix", "tool"}
LEMMA FixedKept ==
  ASSUME FixedSoFar, UNCHANGED <<fixed, tool>>,
         step' \in Fixed => step \in Fixed /\ pins' = pins,
         step' = "tool" => step = "tool" \/ tool
  PROVE  FixedSoFar'
  BY DEF FixedSoFar, PinsFixed, Fixed, Driving

LEMMA FixedStep ==
  ASSUME ControlInv, FileKept, FixedSoFar, [Next]_vars
  PROVE  FixedSoFar'
<1> USE DEF given, configVars, outcome, loading, driver, bound, Fixed, Driving
<1>1. CASE FixPins
  <2>1. CASE Fixable = DOMAIN pins
    <3>1. OnePinEach /\ step' = "bind"
      BY <1>1, <2>1 DEF FixPins, FileKept, Go
    <3> QED
      BY <1>1, <2>1, <3>1, PinsFixedNow DEF FixedSoFar
  <2>2. CASE Fixable # DOMAIN pins
    BY <1>1, <2>2 DEF FixPins, GiveUp, Go, FixedSoFar
  <2> QED
    BY <2>1, <2>2
<1>2. CASE ReadConfig
  BY <1>2, FixedKept DEF ReadConfig, ReturnEarly
<1>3. CASE FoundInUse \/ NotInUse \/ NoArena \/ InitShim
  BY <1>3, FixedKept DEF FoundInUse, NotInUse, NoArena, InitShim, ReturnEarly, Go
<1>4. CASE \E m \in Modules : LoadModule(m) \/ NotLoaded(m)
  BY <1>4, FixedKept DEF LoadModule, NotLoaded, LoadStep, Modules, GiveUp, Go
<1>5. CASE PlaceParam \/ AllPlaced \/ GenericMain
  BY <1>5, FixedKept DEF PlaceParam, AllPlaced, GenericMain, GiveUp, Go
<1>6. CASE Declare
  BY <1>6, FixedKept
  DEF Declare, DeclarePin, DeclareParam, SetParam, TransportFails, TransportMain, CheckClaims, Go, GiveUp
<1>7. CASE Leave
  BY <1>7, FixedKept
  DEF Leave, ExitTransport, ExitGeneric, JoinWriter, DestroyRegion, FiniShim, Return, Go
<1>8. CASE SetSserial \/ GiveUpBinding \/ BindSignals
  BY <1>8, FixedKept DEF SetSserial, GiveUpBinding, BindSignals, Go, GiveUp
<1>9. CASE CreateRegion \/ NoRegion \/ StartWriter \/ Enter \/ StopMeasuring \/ LeaveCycle
  BY <1>9, FixedKept
  DEF CreateRegion, NoRegion, StartWriter, Enter, StopMeasuring, LeaveCycle, Go, GiveUp
<1>10. CASE UNCHANGED vars
  BY <1>10, FixedKept DEF vars
<1> QED
  BY <1>1, <1>2, <1>3, <1>4, <1>5, <1>6, <1>7, <1>8, <1>9, <1>10 DEF Next, SetUp

-----------------------------------------------------------------------------
LEMMA StartupInit ==
  ASSUME Init
  PROVE  StartupInv
<1> USE DEF Init, ConfigInit
<1>1. ControlInv
  BY DEF ControlInv, ControlTypeOK, Verdicts, ModulesByStep, HeldByStep, Early, Loading, Driving,
         Leaving, Ended, Steps, Modules
<1>2. ListsTypeOK /\ OnePinEach /\ NoneYet
  BY DEF ListsTypeOK, OnePinEach, NoneYet, Defaults
<1>3. AllFiled /\ Defaulted
  BY DEF AllFiled, Defaulted
<1>4. Counted
  <2>1. ParamLines = {}
    BY DEF ParamLines
  <2> QED
    BY <2>1, FS_EmptySet DEF Counted
<1>5. PlacedSoFar /\ ClaimedSoFar /\ FixedSoFar
  BY DEF PlacedSoFar, ClaimedSoFar, FixedSoFar, Driving
<1> QED
  BY <1>1, <1>2, <1>3, <1>4, <1>5 DEF StartupInv, FileInv, FileKept, SetUpInv

LEMMA StartupStep ==
  ASSUME StartupInv, [Next]_vars
  PROVE  StartupInv'
BY ControlStep, FileStep, PlacedStep, ClaimedStep, FixedStep DEF StartupInv, FileInv, SetUpInv

(* The lists, the settings and the resources at every step of main: the    *)
(* invariant the theorems below rest on.                                   *)
THEOREM StartupKept == Spec => []StartupInv
<1> QED
  BY StartupInit, StartupStep, PTL DEF Spec

(* Of the loader of config.c and the four checks behind it (unplaced       *)
(* module parameters, unclaimed param. lines, unfixable pins, the driver's *)
(* own declarations): the driver runs on its file and on nothing else, the *)
(* cells it sets itself as it starts apart.                                *)
THEOREM FileInForce == Spec => []InForce
<1>1. ASSUME StartupInv, Started
      PROVE  /\ \A i \in DOMAIN file : LineInForce(i)
             /\ signals \cup DOMAIN cells = Declared
  <2>1. /\ step \in Driving \ {"claims", "fix"} /\ step # "returned"
        /\ step = "tool" \/ step \in Driving \ {"claims", "fix", "tool"}
    BY <1>1 DEF Started, Driving
  <2>2. /\ failures = 0 /\ AllFiled /\ LinesInCells /\ claimed = DOMAIN params
        /\ ParamsPlaced /\ nextParam > Len(moduleParams)
        /\ nextParam \in Nat /\ moduleParams \in Seq(LinesOf("module"))
        /\ tool \/ PinsFixed
        /\ signals \cup DOMAIN cells = Declared
    BY <1>1, <2>1
    DEF StartupInv, ControlInv, FileInv, SetUpInv, Verdicts, FileKept, PlacedSoFar, ClaimedSoFar,
        FixedSoFar, ListsTypeOK, Driving
  <2>3. ASSUME NEW i \in DOMAIN file
        PROVE  LineInForce(i)
    <3>1. Filed(i)
      BY <2>2, <2>3 DEF AllFiled
    <3>2. ASSUME file[i].kind = "module", IsLast(i)
          PROVE  placed[<<file[i].name, file[i].index>>] = ParamValue(file[i])
      <4>1. PICK j \in DOMAIN moduleParams :
                   /\ moduleParams[j] = file[i]
                   /\ \A k \in DOMAIN moduleParams : k > j => ~SameParam(moduleParams[k], file[i])
        BY <3>1, <3>2 DEF Filed, ModuleFiled
      <4>2. j \in 1..Len(moduleParams) /\ Len(moduleParams) \in Nat
        BY <2>2
      <4>3. /\ j < nextParam
            /\ \A k \in DOMAIN moduleParams :
                 j < k /\ k < nextParam => ~SameParam(moduleParams[k], moduleParams[j])
        BY <2>2, <4>1, <4>2
      <4> QED
        BY <2>2, <4>1, <4>3 DEF ParamsPlaced
    <3>3. file[i].kind = "param" => file[i].name \in SetByDriver \/ HasItsLine(file[i])
      BY <2>2, <3>1 DEF Filed, ParamFiled, LinesInCells, InItsCell, HasItsLine
    <3>4. file[i].kind = "pin" => tool \/ fixed[file[i].name] = PinValue(file[i].text)
      BY <2>2, <3>1 DEF Filed, PinFiled, PinsFixed
    <3> QED
      BY <3>1, <3>2, <3>3, <3>4 DEF LineInForce, Filed, KeyFiled
  <2> QED
    BY <2>2, <2>3
<1>2. StartupInv => InForce
  BY <1>1 DEF InForce, StartupInv, FileInv, Defaulted
<1> QED
  BY <1>2, StartupKept, PTL

(* Of load_module, rtapi_app_main, rtapi_app_exit and hm2_shim_fini: the   *)
(* arena is there as long as a module is that has not been exited, and the *)
(* lists of the file as long as the driver declares.                       *)
THEOREM DriverHasItsArena == Spec => []ArenaOutlivesDriver
<1>1. ASSUME StartupInv, NEW m \in Modules
      PROVE  module[m] \notin {"out", "exited"} => arena = "live"
  BY <1>1 DEF StartupInv, ControlInv, ControlTypeOK, ModulesByStep, HeldByStep, Early, Loading,
              Driving, Leaving, Ended, Steps, Modules
<1>2. ASSUME StartupInv, NEW m \in Modules, module[m] = "starting"
      PROVE  verdict = "loaded" /\ Cardinality(ParamLines) = Len(params)
  <2>1. step = "declare"
    BY <1>2 DEF StartupInv, ControlInv, ModulesByStep
  <2> QED
    BY <1>2, <2>1 DEF StartupInv, ControlInv, Verdicts, FileInv, FileKept, Counted
<1>3. StartupInv => ArenaOutlivesDriver
  BY <1>1, <1>2 DEF ArenaOutlivesDriver, ParamLines
<1> QED
  BY <1>3, StartupKept, PTL

(* Of main's ways out: what was taken is given back, whichever way it is   *)
(* left, and a start that crashes leaves no region behind.                 *)
THEOREM EndsClean == Spec => []CleanEnd
<1>1. StartupInv => CleanEnd
  BY DEF StartupInv, ControlInv, ModulesByStep, HeldByStep, CleanEnd, Ended, Modules, Early,
         Loading, Driving, Leaving
<1> QED
  BY <1>1, StartupKept, PTL

-----------------------------------------------------------------------------
(* The period: the steps of measure and of run_cycle.                      *)
Measures == {"measure", "measure_sleep", "measure_read", "measure_write"}
Cycles == {"top", "sleep", "guard", "read", "publish", "answer", "write", "state", "send"}

(* The type of every variable of the period.                              *)
TimingTypeOK ==
  /\ same \in BOOLEAN /\ watched \in BOOLEAN /\ stated \in Stated
  /\ pc \in Measures \cup Cycles \cup {"name", "left"}
  /\ now \in Nat /\ now > 0 /\ stopping \in BOOLEAN
  /\ next \in Nat /\ start \in Nat /\ count \in Nat
  /\ worst \in Nat /\ counted \in Nat /\ declared \in Nat /\ measured \in Nat
  /\ woke \in Nat /\ readAt \in Nat /\ writtenAt \in Nat /\ publishedAt \in Nat
  /\ begun \in BOOLEAN /\ core \in {"idle", "owes", "answered"} /\ ever \in BOOLEAN
  /\ costs \subseteq Nat /\ lastWrite \in Nat /\ gap \in Int

(* No stamp is of the future, and no deadline before the start.            *)
Stamps ==
  /\ measured <= now /\ lastWrite <= now /\ readAt <= now /\ publishedAt <= now
  /\ start <= next

(* The deadlines are whole periods from the start. *)
Deadlines == next = start + count * Period

(* The measurement: nothing of the cycle has happened yet, and the worst   *)
(* bounds what was counted.                                                *)
MeasuredSoFar ==
  /\ pc \in Measures \cup {"name"} =>
       writtenAt = Never /\ core = "idle" /\ ~ever /\ gap = 0
  /\ pc \in {"measure", "name"} /\ measured # Never => measured = now
  /\ \A cost \in costs : cost <= worst
  /\ pc = "measure" => count <= MeasureCycles /\ (count > Skipped => counted > 0)
  /\ pc \in Measures => count <= MeasureCycles

(* Which write was the last, and that the measurement's lies before the    *)
(* first period.                                                           *)
Writes ==
  /\ pc \in Cycles =>
       IF writtenAt # Never THEN writtenAt = lastWrite ELSE lastWrite <= start
  /\ pc = "send" => ~same
  /\ pc \in {"state", "send"} \/ (pc = "publish" /\ ~same) => now = lastWrite
  /\ pc \in {"sleep", "guard"} => next >= start + Period

(* A period is over in time for the next, but for the waking that was late *)
(* and for what it wrote late.                                             *)
Grid ==
  /\ pc = "top" => now <= Larger(lastWrite, next + Period) + (IF same THEN 0 ELSE Max(Lates))
  /\ pc = "sleep" => now <= Larger(lastWrite, next) + (IF same THEN 0 ELSE Max(Lates))
  /\ pc = "guard" =>
       /\ woke = now /\ woke >= next
       /\ woke <= Larger(lastWrite, next) + (IF same THEN Max(Lates) ELSE 2 * Max(Lates))

(* Until the cycle's first write no answer is waited for.                  *)
FirstPeriod ==
  pc \in Cycles /\ measured # Never =>
    /\ writtenAt = Never /\ start <= measured + Max(SetUpTimes)
    /\ pc \notin {"state", "send"} /\ (pc = "publish" => same)
    /\ pc = "top" => now = start /\ next = start
    /\ pc = "sleep" => now = start /\ next = start + Period
    /\ pc \in {"guard", "read"} => now <= start + Period + Max(Lates)
    /\ pc \in {"publish", "answer", "write"} => now <= start + Period + Max(Lates) + Max(ReadTimes)
    /\ pc \in {"answer", "write"} /\ ever => core = "answered"
    /\ pc \notin {"answer", "write"} => core = "idle" /\ ~ever

(* The wait for an answer that was asked for in this period.               *)
Waits ==
  /\ pc \in {"answer", "write"} /\ same /\ begun =>
       now <= (IF ever THEN Larger(next + Send, publishedAt) ELSE publishedAt) + Max(Lates)
  /\ pc = "answer" /\ begun /\ ~ever => now = publishedAt

TimingInv ==
  /\ TimingTypeOK /\ Stamps /\ Deadlines /\ MeasuredSoFar /\ Writes /\ Grid /\ FirstPeriod /\ Waits
  /\ TransferHad /\ FirstWriteSoon /\ DeclaredCovers

-----------------------------------------------------------------------------
(* What the largest of a set of numbers is. *)
LEMMA Largest ==
  ASSUME NEW times \in SUBSET Nat, \E longest \in times : \A t \in times : t <= longest
  PROVE  Max(times) \in Nat /\ \A t \in times : t <= Max(times)
<1>1. \E x \in times : \A y \in times : x >= y
  OBVIOUS
<1>2. Max(times) \in times /\ \A y \in times : Max(times) >= y
  BY <1>1 DEF Max
<1>3. QED
  BY <1>2

(* What a sleep, a read, a write and the set-up may take. *)
LEMMA Times ==
  /\ Lates \subseteq Nat /\ Max(Lates) \in Nat /\ \A l \in Lates : l <= Max(Lates)
  /\ ReadTimes \subseteq Nat /\ Max(ReadTimes) \in Nat /\ \A t \in ReadTimes : t <= Max(ReadTimes)
  /\ WriteTimes \subseteq Nat /\ Max(WriteTimes) \in Nat
  /\ \A t \in WriteTimes : t <= Max(WriteTimes)
  /\ SetUpTimes \subseteq Nat /\ Max(SetUpTimes) \in Nat
  /\ \A t \in SetUpTimes : t <= Max(SetUpTimes)
<1>1. \A times \in {Lates, ReadTimes, WriteTimes, SetUpTimes} :
        /\ times \in SUBSET Nat
        /\ \E longest \in times : \A t \in times : t <= longest
  BY TimingAssumption
<1>2. \A times \in {Lates, ReadTimes, WriteTimes, SetUpTimes} :
        Max(times) \in Nat /\ \A t \in times : t <= Max(times)
  BY <1>1, Largest
<1>3. QED
  BY <1>1, <1>2

LEMMA Sizes ==
  /\ Period \in Nat /\ Period > 0
  /\ Send \in Nat /\ 0 < Send /\ Send < Period
  /\ Transfer \in Nat /\ Transfer < Period
  /\ MeasureCycles \in Nat /\ Margin \in Nat /\ Margin >= 10
  BY TimingAssumption

(* One period further, and a number of periods that is not none. *)
LEMMA Multiples ==
  \A n \in Nat : /\ n * Period \in Nat /\ (n + 1) * Period = n * Period + Period
                 /\ n >= 1 => n * Period >= Period
                 /\ 0 * Period = 0
<1> SUFFICES ASSUME NEW n \in Nat
             PROVE  /\ n * Period \in Nat /\ (n + 1) * Period = n * Period + Period
                    /\ n >= 1 => n * Period >= Period
                    /\ 0 * Period = 0
  OBVIOUS
<1>1. n * Period \in Nat /\ (n + 1) * Period = n * Period + Period /\ 0 * Period = 0
  BY Sizes
<1>2. ASSUME n >= 1 PROVE n * Period >= Period
  <2>1. (n - 1) * Period \in Nat /\ n * Period = (n - 1) * Period + Period
    BY <1>2, Sizes
  <2>2. QED
    BY <2>1, Sizes
<1>3. QED
  BY <1>1, <1>2

LEMMA Differences ==
  /\ \A a, b \in Nat : a <= b => b - a \in Nat
  /\ \A a, b, c \in Nat : b >= c + a => b - c >= a
  OBVIOUS

(* What is declared is more than the worst. *)
LEMMA Declares ==
  \A w \in Nat : (w * Margin) \div 10 + 1 \in Nat /\ (w * Margin) \div 10 + 1 > w
<1> SUFFICES ASSUME NEW w \in Nat
             PROVE  (w * Margin) \div 10 + 1 \in Nat /\ (w * Margin) \div 10 + 1 > w
  OBVIOUS
<1>1. w * Margin \in Nat /\ w * Margin >= w * 10
  <2>1. w * (Margin - 10) \in Nat /\ w * Margin = w * 10 + w * (Margin - 10)
    BY Sizes
  <2>2. QED
    BY <2>1, Sizes
<1>2. \A n \in Nat : n >= w * 10 => n \div 10 \in Nat /\ n \div 10 >= w
  OBVIOUS
<1>3. QED
  BY <1>1, <1>2

(* A sleep ends at its time or late, or a stop ended it before. *)
LEMMA Slept ==
  ASSUME NEW when \in Int, now \in Nat, stopping \in BOOLEAN, Sleep(when)
  PROVE  /\ now' \in Nat /\ now' >= now /\ now' <= Larger(now, when) + Max(Lates)
         /\ stopping' \in BOOLEAN /\ (stopping => stopping')
         /\ now' >= when \/ stopping'
<1>1. CASE SleepUntil(when)
  BY <1>1, Times DEF SleepUntil, Larger
<1>2. CASE Interrupted(when)
  BY <1>2, Times DEF Interrupted, Larger
<1>3. QED
  BY <1>1, <1>2 DEF Sleep

-----------------------------------------------------------------------------
(* The invariant, kept by each action: a step for each of its parts, with  *)
(* what the action's sleep, read or write says of the time before them.    *)
LEMMA TimingInitInv == TimingInit => TimingInv
<1> SUFFICES ASSUME TimingInit PROVE TimingInv
  OBVIOUS
<1> USE DEF TimingInit, Never, Larger, Measures, Cycles
<1>1. TimingTypeOK
  <2>1. /\ same \in BOOLEAN /\ watched \in BOOLEAN /\ stopping \in BOOLEAN
        /\ begun \in BOOLEAN /\ ever \in BOOLEAN /\ costs \subseteq Nat
    OBVIOUS
  <2>2. QED
    BY <2>1 DEF TimingTypeOK
<1>2. Stamps /\ MeasuredSoFar /\ DeclaredCovers
  BY Sizes DEF Stamps, MeasuredSoFar, DeclaredCovers, Skipped
<1>3. Deadlines
  BY Sizes DEF Deadlines
<1>4. Writes /\ Grid /\ FirstPeriod /\ Waits /\ TransferHad
  BY DEF Writes, Grid, FirstPeriod, Waits, TransferHad
<1>5. FirstWriteSoon
  BY Times, Sizes DEF FirstWriteSoon
<1>6. QED
  BY <1>1, <1>2, <1>3, <1>4, <1>5 DEF TimingInv

LEMMA SignalKeeps ==
  ASSUME TimingInv, Signal
  PROVE  TimingInv'
<1> USE DEF setup, schedule, measurement, stamps, answers, written, Never, Larger
<1>1. /\ TimingTypeOK /\ Stamps /\ Deadlines /\ MeasuredSoFar /\ Writes /\ Grid
      /\ FirstPeriod /\ Waits /\ TransferHad /\ FirstWriteSoon /\ DeclaredCovers
  BY DEF TimingInv
<1>2. TimingTypeOK'
  BY <1>1, Times
  DEF Signal, TimingTypeOK, Measures, Cycles
<1>3. (Stamps /\ Deadlines)'
  BY <1>1, Sizes
  DEF Signal, TimingTypeOK, Stamps, Deadlines, Measures, Cycles
<1>4. (MeasuredSoFar /\ DeclaredCovers)'
  BY <1>1, Sizes
  DEF Signal, TimingTypeOK, MeasuredSoFar, DeclaredCovers, Skipped, Measures, Cycles
<1>5. (Writes /\ Grid)'
  BY <1>1, Sizes, Times
  DEF Signal, TimingTypeOK, Stamps, MeasuredSoFar, Writes, Grid, Measures, Cycles
<1>6. (FirstPeriod /\ FirstWriteSoon)'
  BY <1>1, Sizes, Times
  DEF Signal, TimingTypeOK, Stamps, MeasuredSoFar, FirstPeriod, FirstWriteSoon, Measures,
      Cycles
<1>7. Waits'
  BY <1>1, Sizes, Times
  DEF Signal, TimingTypeOK, Stamps, Waits, Measures, Cycles
<1>8. TransferHad'
  BY <1>1, Sizes
  DEF Signal, TimingTypeOK, Stamps, Writes, Grid, TransferHad, Measures, Cycles
<1>9. QED
  BY <1>2, <1>3, <1>4, <1>5, <1>6, <1>7, <1>8 DEF TimingInv

LEMMA MeasurePeriodKeeps ==
  ASSUME TimingInv, MeasurePeriod
  PROVE  TimingInv'
<1> USE DEF setup, schedule, measurement, stamps, answers, written, Never, Larger
<1>1. /\ TimingTypeOK /\ Stamps /\ Deadlines /\ MeasuredSoFar /\ Writes /\ Grid
      /\ FirstPeriod /\ Waits /\ TransferHad /\ FirstWriteSoon /\ DeclaredCovers
  BY DEF TimingInv
<1>2. TimingTypeOK'
  BY <1>1, Times, Sizes
  DEF MeasurePeriod, TimingTypeOK, Measures, Cycles
<1>3. (Stamps /\ Deadlines)'
  BY <1>1, Sizes, Multiples
  DEF MeasurePeriod, TimingTypeOK, Stamps, Deadlines, Measures, Cycles
<1>4. (MeasuredSoFar /\ DeclaredCovers)'
  BY <1>1, Sizes
  DEF MeasurePeriod, TimingTypeOK, MeasuredSoFar, DeclaredCovers, Skipped, Measures, Cycles
<1>5. (Writes /\ Grid)'
  BY <1>1, Sizes, Times
  DEF MeasurePeriod, TimingTypeOK, Stamps, MeasuredSoFar, Writes, Grid, Measures, Cycles
<1>6. (FirstPeriod /\ FirstWriteSoon)'
  BY <1>1, Sizes, Times
  DEF MeasurePeriod, TimingTypeOK, Stamps, MeasuredSoFar, FirstPeriod, FirstWriteSoon,
      Measures, Cycles
<1>7. Waits'
  BY <1>1, Sizes, Times
  DEF MeasurePeriod, TimingTypeOK, Stamps, Waits, Measures, Cycles
<1>8. TransferHad'
  BY <1>1, Sizes
  DEF MeasurePeriod, TimingTypeOK, Stamps, Writes, Grid, TransferHad, Measures, Cycles
<1>9. QED
  BY <1>2, <1>3, <1>4, <1>5, <1>6, <1>7, <1>8 DEF TimingInv

LEMMA MeasureWakeKeeps ==
  ASSUME TimingInv, MeasureWake
  PROVE  TimingInv'
<1> USE DEF setup, schedule, measurement, stamps, answers, written, Never, Larger
<1>1. /\ TimingTypeOK /\ Stamps /\ Deadlines /\ MeasuredSoFar /\ Writes /\ Grid
      /\ FirstPeriod /\ Waits /\ TransferHad /\ FirstWriteSoon /\ DeclaredCovers
  BY DEF TimingInv
<1>2. /\ now' \in Nat /\ now' >= now /\ now' <= Larger(now, next) + Max(Lates)
      /\ stopping' \in BOOLEAN /\ (stopping => stopping')
      /\ now' >= next \/ stopping'
  BY <1>1, Slept, Sizes DEF MeasureWake, TimingTypeOK
<1>3. TimingTypeOK'
  BY <1>1, <1>2, Times
  DEF MeasureWake, TimingTypeOK, Measures, Cycles
<1>4. (Stamps /\ Deadlines)'
  BY <1>1, <1>2, Sizes
  DEF MeasureWake, TimingTypeOK, Stamps, Deadlines, Measures, Cycles
<1>5. (MeasuredSoFar /\ DeclaredCovers)'
  BY <1>1, <1>2, Sizes
  DEF MeasureWake, TimingTypeOK, MeasuredSoFar, DeclaredCovers, Skipped, Measures, Cycles
<1>6. (Writes /\ Grid)'
  BY <1>1, <1>2, Sizes, Times
  DEF MeasureWake, TimingTypeOK, Stamps, MeasuredSoFar, Writes, Grid, Measures, Cycles
<1>7. (FirstPeriod /\ FirstWriteSoon)'
  BY <1>1, <1>2, Sizes, Times
  DEF MeasureWake, TimingTypeOK, Stamps, MeasuredSoFar, FirstPeriod, FirstWriteSoon,
      Measures, Cycles
<1>8. Waits'
  BY <1>1, <1>2, Sizes, Times
  DEF MeasureWake, TimingTypeOK, Stamps, Waits, Measures, Cycles
<1>9. TransferHad'
  BY <1>1, <1>2, Sizes
  DEF MeasureWake, TimingTypeOK, Stamps, Writes, Grid, TransferHad, Measures, Cycles
<1>10. QED
  BY <1>3, <1>4, <1>5, <1>6, <1>7, <1>8, <1>9 DEF TimingInv

LEMMA MeasureReadKeeps ==
  ASSUME TimingInv, MeasureRead
  PROVE  TimingInv'
<1> USE DEF setup, schedule, measurement, stamps, answers, written, Never, Larger
<1>1. /\ TimingTypeOK /\ Stamps /\ Deadlines /\ MeasuredSoFar /\ Writes /\ Grid
      /\ FirstPeriod /\ Waits /\ TransferHad /\ FirstWriteSoon /\ DeclaredCovers
  BY DEF TimingInv
<1>2. /\ now' \in Nat /\ now' >= now /\ now' <= now + Max(ReadTimes)
  BY <1>1, Times DEF MeasureRead, Take, TimingTypeOK
<1>3. TimingTypeOK'
  BY <1>1, <1>2, Times
  DEF MeasureRead, TimingTypeOK, Measures, Cycles, Take
<1>4. (Stamps /\ Deadlines)'
  BY <1>1, <1>2, Sizes
  DEF MeasureRead, TimingTypeOK, Stamps, Deadlines, Measures, Cycles, Take
<1>5. (MeasuredSoFar /\ DeclaredCovers)'
  BY <1>1, <1>2, Sizes
  DEF MeasureRead, TimingTypeOK, MeasuredSoFar, DeclaredCovers, Skipped, Measures, Cycles,
      Take
<1>6. (Writes /\ Grid)'
  BY <1>1, <1>2, Sizes, Times
  DEF MeasureRead, TimingTypeOK, Stamps, MeasuredSoFar, Writes, Grid, Measures, Cycles, Take
<1>7. (FirstPeriod /\ FirstWriteSoon)'
  BY <1>1, <1>2, Sizes, Times
  DEF MeasureRead, TimingTypeOK, Stamps, MeasuredSoFar, FirstPeriod, FirstWriteSoon,
      Measures, Cycles, Take
<1>8. Waits'
  BY <1>1, <1>2, Sizes, Times
  DEF MeasureRead, TimingTypeOK, Stamps, Waits, Measures, Cycles, Take
<1>9. TransferHad'
  BY <1>1, <1>2, Sizes
  DEF MeasureRead, TimingTypeOK, Stamps, Writes, Grid, TransferHad, Measures, Cycles, Take
<1>10. QED
  BY <1>3, <1>4, <1>5, <1>6, <1>7, <1>8, <1>9 DEF TimingInv

LEMMA MeasureWriteKeeps ==
  ASSUME TimingInv, MeasureWrite
  PROVE  TimingInv'
<1> USE DEF setup, schedule, measurement, stamps, answers, written, Never, Larger
<1>1. /\ TimingTypeOK /\ Stamps /\ Deadlines /\ MeasuredSoFar /\ Writes /\ Grid
      /\ FirstPeriod /\ Waits /\ TransferHad /\ FirstWriteSoon /\ DeclaredCovers
  BY DEF TimingInv
<1>2. /\ now' \in Nat /\ now' >= now /\ now' <= now + Max(WriteTimes)
  BY <1>1, Times DEF MeasureWrite, Take, TimingTypeOK
<1>3. /\ worst' \in Nat /\ worst' >= worst /\ costs' \subseteq Nat
      /\ \A cost \in costs' : cost \in costs \/ cost <= worst'
  <2>1. readAt \in Nat /\ readAt <= now /\ now \in Nat /\ worst \in Nat /\ costs \subseteq Nat
    BY <1>1 DEF TimingTypeOK, Stamps
  <2>2. now' - readAt \in Nat
    <3>1. now' \in Nat /\ readAt <= now'
      BY <1>2, <2>1
    <3>2. QED
      BY <2>1, <3>1, Differences
  <2>3. CASE count > Skipped
    <3>1. /\ worst' = (IF worst >= now' - readAt THEN worst ELSE now' - readAt)
          /\ costs' = costs \cup {now' - readAt}
      BY <1>1, <2>3 DEF MeasureWrite, Worst
    <3>2. worst' \in Nat /\ worst' >= worst /\ now' - readAt <= worst'
      BY <2>1, <2>2, <3>1
    <3>3. QED
      BY <2>1, <2>2, <3>1, <3>2
  <2>4. CASE ~(count > Skipped)
    <3>1. worst' = worst /\ costs' = costs
      BY <1>1, <2>4 DEF MeasureWrite
    <3>2. QED
      BY <2>1, <3>1
  <2>5. QED
    BY <2>3, <2>4
<1>4. TimingTypeOK'
  BY <1>1, <1>2, <1>3, Times DEF MeasureWrite, TimingTypeOK, Measures, Cycles, Take
<1>5. (Stamps /\ Deadlines)'
  BY <1>1, <1>2, <1>3, Sizes
  DEF MeasureWrite, TimingTypeOK, Stamps, Deadlines, Measures, Cycles, Take
<1>6. (MeasuredSoFar /\ DeclaredCovers)'
  BY <1>1, <1>2, <1>3, Sizes
  DEF MeasureWrite, TimingTypeOK, MeasuredSoFar, DeclaredCovers, Skipped, Measures, Cycles,
      Take
<1>7. (Writes /\ Grid)'
  BY <1>1, <1>2, <1>3, Sizes, Times
  DEF MeasureWrite, TimingTypeOK, Stamps, MeasuredSoFar, Writes, Grid, Measures, Cycles,
      Take
<1>8. (FirstPeriod /\ FirstWriteSoon)'
  BY <1>1, <1>2, <1>3, Sizes, Times
  DEF MeasureWrite, TimingTypeOK, Stamps, MeasuredSoFar, FirstPeriod, FirstWriteSoon,
      Measures, Cycles, Take
<1>9. Waits'
  BY <1>1, <1>2, <1>3, Sizes, Times
  DEF MeasureWrite, TimingTypeOK, Stamps, Waits, Measures, Cycles, Take
<1>10. TransferHad'
  BY <1>1, <1>2, <1>3, Sizes
  DEF MeasureWrite, TimingTypeOK, Stamps, Writes, Grid, TransferHad, Measures, Cycles, Take
<1>11. QED
  BY <1>4, <1>5, <1>6, <1>7, <1>8, <1>9, <1>10 DEF TimingInv

LEMMA DeclareWorstKeeps ==
  ASSUME TimingInv, DeclareWorst
  PROVE  TimingInv'
<1> USE DEF setup, schedule, measurement, stamps, answers, written, Never, Larger
<1>1. /\ TimingTypeOK /\ Stamps /\ Deadlines /\ MeasuredSoFar /\ Writes /\ Grid
      /\ FirstPeriod /\ Waits /\ TransferHad /\ FirstWriteSoon /\ DeclaredCovers
  BY DEF TimingInv
<1>2. TimingTypeOK'
  BY <1>1, Times, Declares, TimingAssumption
  DEF DeclareWorst, TimingTypeOK, Measures, Cycles
<1>3. (Stamps /\ Deadlines)'
  BY <1>1, Sizes
  DEF DeclareWorst, TimingTypeOK, Stamps, Deadlines, Measures, Cycles
<1>4. (MeasuredSoFar /\ DeclaredCovers)'
  BY <1>1, Sizes, Declares, TimingAssumption
  DEF DeclareWorst, TimingTypeOK, MeasuredSoFar, DeclaredCovers, Skipped, Measures, Cycles
<1>5. (Writes /\ Grid)'
  BY <1>1, Sizes, Times
  DEF DeclareWorst, TimingTypeOK, Stamps, MeasuredSoFar, Writes, Grid, Measures, Cycles
<1>6. (FirstPeriod /\ FirstWriteSoon)'
  BY <1>1, Sizes, Times
  DEF DeclareWorst, TimingTypeOK, Stamps, MeasuredSoFar, FirstPeriod, FirstWriteSoon,
      Measures, Cycles
<1>7. Waits'
  BY <1>1, Sizes, Times
  DEF DeclareWorst, TimingTypeOK, Stamps, Waits, Measures, Cycles
<1>8. TransferHad'
  BY <1>1, Sizes
  DEF DeclareWorst, TimingTypeOK, Stamps, Writes, Grid, TransferHad, Measures, Cycles
<1>9. QED
  BY <1>2, <1>3, <1>4, <1>5, <1>6, <1>7, <1>8 DEF TimingInv

LEMMA NameKeeps ==
  ASSUME TimingInv, Name
  PROVE  TimingInv'
<1> USE DEF setup, schedule, measurement, stamps, answers, written, Never, Larger
<1>1. /\ TimingTypeOK /\ Stamps /\ Deadlines /\ MeasuredSoFar /\ Writes /\ Grid
      /\ FirstPeriod /\ Waits /\ TransferHad /\ FirstWriteSoon /\ DeclaredCovers
  BY DEF TimingInv
<1>2. /\ now' \in Nat /\ now' >= now /\ now' <= now + Max(SetUpTimes)
  BY <1>1, Times DEF Name, Take, TimingTypeOK
<1>3. TimingTypeOK'
  BY <1>1, <1>2, Times
  DEF Name, TimingTypeOK, Measures, Cycles, Take
<1>4. (Stamps /\ Deadlines)'
  BY <1>1, <1>2, Sizes, Multiples
  DEF Name, TimingTypeOK, Stamps, Deadlines, Measures, Cycles, Take
<1>5. (MeasuredSoFar /\ DeclaredCovers)'
  BY <1>1, <1>2, Sizes
  DEF Name, TimingTypeOK, MeasuredSoFar, DeclaredCovers, Skipped, Measures, Cycles, Take
<1>6. (Writes /\ Grid)'
  BY <1>1, <1>2, Sizes, Times
  DEF Name, TimingTypeOK, Stamps, MeasuredSoFar, Writes, Grid, Measures, Cycles, Take
<1>7. (FirstPeriod /\ FirstWriteSoon)'
  BY <1>1, <1>2, Sizes, Times
  DEF Name, TimingTypeOK, Stamps, MeasuredSoFar, FirstPeriod, FirstWriteSoon, Measures,
      Cycles, Take
<1>8. Waits'
  BY <1>1, <1>2, Sizes, Times
  DEF Name, TimingTypeOK, Stamps, Waits, Measures, Cycles, Take
<1>9. TransferHad'
  BY <1>1, <1>2, Sizes
  DEF Name, TimingTypeOK, Stamps, Writes, Grid, TransferHad, Measures, Cycles, Take
<1>10. QED
  BY <1>3, <1>4, <1>5, <1>6, <1>7, <1>8, <1>9 DEF TimingInv

LEMMA NextPeriodKeeps ==
  ASSUME TimingInv, NextPeriod
  PROVE  TimingInv'
<1> USE DEF setup, schedule, measurement, stamps, answers, written, Never, Larger
<1>1. /\ TimingTypeOK /\ Stamps /\ Deadlines /\ MeasuredSoFar /\ Writes /\ Grid
      /\ FirstPeriod /\ Waits /\ TransferHad /\ FirstWriteSoon /\ DeclaredCovers
  BY DEF TimingInv
<1>2. TimingTypeOK'
  BY <1>1, Times, Sizes
  DEF NextPeriod, TimingTypeOK, Measures, Cycles, NextDeadline
<1>3. (Stamps /\ Deadlines)'
  BY <1>1, Sizes, Multiples
  DEF NextPeriod, TimingTypeOK, Stamps, Deadlines, Measures, Cycles, NextDeadline
<1>4. (MeasuredSoFar /\ DeclaredCovers)'
  BY <1>1, Sizes
  DEF NextPeriod, TimingTypeOK, MeasuredSoFar, DeclaredCovers, Skipped, Measures, Cycles,
      NextDeadline
<1>5. (Writes /\ Grid)'
  BY <1>1, Sizes, Times
  DEF NextPeriod, TimingTypeOK, Stamps, MeasuredSoFar, Writes, Grid, Measures, Cycles,
      NextDeadline
<1>6. (FirstPeriod /\ FirstWriteSoon)'
  BY <1>1, Sizes, Times
  DEF NextPeriod, TimingTypeOK, Stamps, MeasuredSoFar, FirstPeriod, FirstWriteSoon,
      Measures, Cycles, NextDeadline
<1>7. Waits'
  BY <1>1, Sizes, Times
  DEF NextPeriod, TimingTypeOK, Stamps, Waits, Measures, Cycles, NextDeadline
<1>8. TransferHad'
  BY <1>1, Sizes
  DEF NextPeriod, TimingTypeOK, Stamps, Writes, Grid, TransferHad, Measures, Cycles,
      NextDeadline
<1>9. QED
  BY <1>2, <1>3, <1>4, <1>5, <1>6, <1>7, <1>8 DEF TimingInv

LEMMA WakeKeeps ==
  ASSUME TimingInv, Wake
  PROVE  TimingInv'
<1> USE DEF setup, schedule, measurement, stamps, answers, written, Never, Larger
<1>1. /\ TimingTypeOK /\ Stamps /\ Deadlines /\ MeasuredSoFar /\ Writes /\ Grid
      /\ FirstPeriod /\ Waits /\ TransferHad /\ FirstWriteSoon /\ DeclaredCovers
  BY DEF TimingInv
<1>2. /\ now' \in Nat /\ now' >= now /\ now' <= Larger(now, next) + Max(Lates)
      /\ stopping' \in BOOLEAN /\ (stopping => stopping')
      /\ now' >= next \/ stopping'
  BY <1>1, Slept, Sizes DEF Wake, TimingTypeOK
<1>3. TimingTypeOK'
  BY <1>1, <1>2, Times
  DEF Wake, TimingTypeOK, Measures, Cycles
<1>4. (Stamps /\ Deadlines)'
  BY <1>1, <1>2, Sizes
  DEF Wake, TimingTypeOK, Stamps, Deadlines, Measures, Cycles
<1>5. (MeasuredSoFar /\ DeclaredCovers)'
  BY <1>1, <1>2, Sizes
  DEF Wake, TimingTypeOK, MeasuredSoFar, DeclaredCovers, Skipped, Measures, Cycles
<1>6. (Writes /\ Grid)'
  BY <1>1, <1>2, Sizes, Times
  DEF Wake, TimingTypeOK, Stamps, MeasuredSoFar, Writes, Grid, Measures, Cycles
<1>7. (FirstPeriod /\ FirstWriteSoon)'
  BY <1>1, <1>2, Sizes, Times
  DEF Wake, TimingTypeOK, Stamps, MeasuredSoFar, FirstPeriod, FirstWriteSoon, Measures,
      Cycles
<1>8. Waits'
  BY <1>1, <1>2, Sizes, Times
  DEF Wake, TimingTypeOK, Stamps, Waits, Measures, Cycles
<1>9. TransferHad'
  BY <1>1, <1>2, Sizes
  DEF Wake, TimingTypeOK, Stamps, Writes, Grid, TransferHad, Measures, Cycles
<1>10. QED
  BY <1>3, <1>4, <1>5, <1>6, <1>7, <1>8, <1>9 DEF TimingInv

LEMMA NoTransferWaitKeeps ==
  ASSUME TimingInv, NoTransferWait
  PROVE  TimingInv'
<1> USE DEF setup, schedule, measurement, stamps, answers, written, Never, Larger
<1>1. /\ TimingTypeOK /\ Stamps /\ Deadlines /\ MeasuredSoFar /\ Writes /\ Grid
      /\ FirstPeriod /\ Waits /\ TransferHad /\ FirstWriteSoon /\ DeclaredCovers
  BY DEF TimingInv
<1>2. TimingTypeOK'
  BY <1>1, Times
  DEF NoTransferWait, TimingTypeOK, Measures, Cycles, Guards, TransferWait, SinceWrite
<1>3. (Stamps /\ Deadlines)'
  BY <1>1, Sizes
  DEF NoTransferWait, TimingTypeOK, Stamps, Deadlines, Measures, Cycles, Guards,
      TransferWait, SinceWrite
<1>4. (MeasuredSoFar /\ DeclaredCovers)'
  BY <1>1, Sizes
  DEF NoTransferWait, TimingTypeOK, MeasuredSoFar, DeclaredCovers, Skipped, Measures,
      Cycles, Guards, TransferWait, SinceWrite
<1>5. (Writes /\ Grid)'
  BY <1>1, Sizes, Times
  DEF NoTransferWait, TimingTypeOK, Stamps, MeasuredSoFar, Writes, Grid, Measures, Cycles,
      Guards, TransferWait, SinceWrite
<1>6. (FirstPeriod /\ FirstWriteSoon)'
  BY <1>1, Sizes, Times
  DEF NoTransferWait, TimingTypeOK, Stamps, MeasuredSoFar, FirstPeriod, FirstWriteSoon,
      Measures, Cycles, Guards, TransferWait, SinceWrite
<1>7. Waits'
  BY <1>1, Sizes, Times
  DEF NoTransferWait, TimingTypeOK, Stamps, Waits, Measures, Cycles, Guards, TransferWait,
      SinceWrite
<1>8. TransferHad'
  BY <1>1, Sizes
  DEF NoTransferWait, TimingTypeOK, Stamps, Writes, Grid, TransferHad, Measures, Cycles,
      Guards, TransferWait, SinceWrite
<1>9. QED
  BY <1>2, <1>3, <1>4, <1>5, <1>6, <1>7, <1>8 DEF TimingInv

LEMMA WaitForTransferKeeps ==
  ASSUME TimingInv, WaitForTransfer
  PROVE  TimingInv'
<1> USE DEF setup, schedule, measurement, stamps, answers, written, Never, Larger
<1>1. /\ TimingTypeOK /\ Stamps /\ Deadlines /\ MeasuredSoFar /\ Writes /\ Grid
      /\ FirstPeriod /\ Waits /\ TransferHad /\ FirstWriteSoon /\ DeclaredCovers
  BY DEF TimingInv
<1>2. /\ now' \in Nat /\ now' >= now /\ now' <= Larger(now, woke + TransferWait) + Max(Lates)
      /\ stopping' \in BOOLEAN /\ (stopping => stopping')
      /\ now' >= woke + TransferWait \/ stopping'
  BY <1>1, Slept, Sizes DEF WaitForTransfer, TimingTypeOK, Guards, TransferWait, SinceWrite
<1>3. now' - lastWrite >= Transfer \/ stopping'
  <2>1. /\ now' \in Nat /\ woke \in Nat /\ lastWrite \in Nat
        /\ TransferWait = Transfer - (woke - lastWrite)
    BY <1>1, <1>2, Sizes
    DEF WaitForTransfer, TimingTypeOK, Writes, Cycles, Guards, TransferWait, SinceWrite
  <2>2. woke + TransferWait = lastWrite + Transfer
    BY <2>1, Sizes
  <2>3. now' >= lastWrite + Transfer \/ stopping'
    BY <1>2, <2>2
  <2>4. QED
    BY <2>1, <2>3, Sizes, Differences
<1>4. TimingTypeOK'
  BY <1>1, <1>2, <1>3, Times
  DEF WaitForTransfer, TimingTypeOK, Measures, Cycles, Guards, TransferWait, SinceWrite
<1>5. (Stamps /\ Deadlines)'
  BY <1>1, <1>2, <1>3, Sizes
  DEF WaitForTransfer, TimingTypeOK, Stamps, Deadlines, Measures, Cycles, Guards,
      TransferWait, SinceWrite
<1>6. (MeasuredSoFar /\ DeclaredCovers)'
  BY <1>1, <1>2, <1>3, Sizes
  DEF WaitForTransfer, TimingTypeOK, MeasuredSoFar, DeclaredCovers, Skipped, Measures,
      Cycles, Guards, TransferWait, SinceWrite
<1>7. (Writes /\ Grid)'
  BY <1>1, <1>2, <1>3, Sizes, Times
  DEF WaitForTransfer, TimingTypeOK, Stamps, MeasuredSoFar, Writes, Grid, Measures, Cycles,
      Guards, TransferWait, SinceWrite
<1>8. (FirstPeriod /\ FirstWriteSoon)'
  BY <1>1, <1>2, <1>3, Sizes, Times
  DEF WaitForTransfer, TimingTypeOK, Stamps, MeasuredSoFar, FirstPeriod, FirstWriteSoon,
      Measures, Cycles, Guards, TransferWait, SinceWrite
<1>9. Waits'
  BY <1>1, <1>2, <1>3, Sizes, Times
  DEF WaitForTransfer, TimingTypeOK, Stamps, Waits, Measures, Cycles, Guards, TransferWait,
      SinceWrite
<1>10. TransferHad'
  BY <1>1, <1>2, <1>3, Sizes
  DEF WaitForTransfer, TimingTypeOK, Stamps, Writes, Grid, TransferHad, Measures, Cycles,
      Guards, TransferWait, SinceWrite
<1>11. QED
  BY <1>4, <1>5, <1>6, <1>7, <1>8, <1>9, <1>10 DEF TimingInv

LEMMA ReadKeeps ==
  ASSUME TimingInv, Read
  PROVE  TimingInv'
<1> USE DEF setup, schedule, measurement, stamps, answers, written, Never, Larger
<1>1. /\ TimingTypeOK /\ Stamps /\ Deadlines /\ MeasuredSoFar /\ Writes /\ Grid
      /\ FirstPeriod /\ Waits /\ TransferHad /\ FirstWriteSoon /\ DeclaredCovers
  BY DEF TimingInv
<1>2. /\ now' \in Nat /\ now' >= now /\ now' <= now + Max(ReadTimes)
  BY <1>1, Times DEF Read, Take, TimingTypeOK
<1>3. TimingTypeOK'
  BY <1>1, <1>2, Times
  DEF Read, TimingTypeOK, Measures, Cycles, Take
<1>4. (Stamps /\ Deadlines)'
  BY <1>1, <1>2, Sizes
  DEF Read, TimingTypeOK, Stamps, Deadlines, Measures, Cycles, Take
<1>5. (MeasuredSoFar /\ DeclaredCovers)'
  BY <1>1, <1>2, Sizes
  DEF Read, TimingTypeOK, MeasuredSoFar, DeclaredCovers, Skipped, Measures, Cycles, Take
<1>6. (Writes /\ Grid)'
  BY <1>1, <1>2, Sizes, Times
  DEF Read, TimingTypeOK, Stamps, MeasuredSoFar, Writes, Grid, Measures, Cycles, Take
<1>7. (FirstPeriod /\ FirstWriteSoon)'
  BY <1>1, <1>2, Sizes, Times
  DEF Read, TimingTypeOK, Stamps, MeasuredSoFar, FirstPeriod, FirstWriteSoon, Measures,
      Cycles, Take
<1>8. Waits'
  BY <1>1, <1>2, Sizes, Times
  DEF Read, TimingTypeOK, Stamps, Waits, Measures, Cycles, Take
<1>9. TransferHad'
  BY <1>1, <1>2, Sizes
  DEF Read, TimingTypeOK, Stamps, Writes, Grid, TransferHad, Measures, Cycles, Take
<1>10. QED
  BY <1>3, <1>4, <1>5, <1>6, <1>7, <1>8, <1>9 DEF TimingInv

LEMMA PublishKeeps ==
  ASSUME TimingInv, Publish
  PROVE  TimingInv'
<1> USE DEF setup, schedule, measurement, stamps, answers, written, Never, Larger
<1>1. /\ TimingTypeOK /\ Stamps /\ Deadlines /\ MeasuredSoFar /\ Writes /\ Grid
      /\ FirstPeriod /\ Waits /\ TransferHad /\ FirstWriteSoon /\ DeclaredCovers
  BY DEF TimingInv
<1>2. TimingTypeOK'
  BY <1>1, Times
  DEF Publish, TimingTypeOK, Measures, Cycles
<1>3. (Stamps /\ Deadlines)'
  BY <1>1, Sizes
  DEF Publish, TimingTypeOK, Stamps, Deadlines, Measures, Cycles
<1>4. (MeasuredSoFar /\ DeclaredCovers)'
  BY <1>1, Sizes
  DEF Publish, TimingTypeOK, MeasuredSoFar, DeclaredCovers, Skipped, Measures, Cycles
<1>5. (Writes /\ Grid)'
  BY <1>1, Sizes, Times
  DEF Publish, TimingTypeOK, Stamps, MeasuredSoFar, Writes, Grid, Measures, Cycles
<1>6. (FirstPeriod /\ FirstWriteSoon)'
  BY <1>1, Sizes, Times
  DEF Publish, TimingTypeOK, Stamps, MeasuredSoFar, FirstPeriod, FirstWriteSoon, Measures,
      Cycles
<1>7. Waits'
  BY <1>1, Sizes, Times
  DEF Publish, TimingTypeOK, Stamps, Waits, Measures, Cycles
<1>8. TransferHad'
  BY <1>1, Sizes
  DEF Publish, TimingTypeOK, Stamps, Writes, Grid, TransferHad, Measures, Cycles
<1>9. QED
  BY <1>2, <1>3, <1>4, <1>5, <1>6, <1>7, <1>8 DEF TimingInv

LEMMA CoreAnswersKeeps ==
  ASSUME TimingInv, CoreAnswers
  PROVE  TimingInv'
<1> USE DEF setup, schedule, measurement, stamps, answers, written, Never, Larger
<1>1. /\ TimingTypeOK /\ Stamps /\ Deadlines /\ MeasuredSoFar /\ Writes /\ Grid
      /\ FirstPeriod /\ Waits /\ TransferHad /\ FirstWriteSoon /\ DeclaredCovers
  BY DEF TimingInv
<1>2. TimingTypeOK'
  BY <1>1, Times
  DEF CoreAnswers, TimingTypeOK, Measures, Cycles
<1>3. (Stamps /\ Deadlines)'
  BY <1>1, Sizes
  DEF CoreAnswers, TimingTypeOK, Stamps, Deadlines, Measures, Cycles
<1>4. (MeasuredSoFar /\ DeclaredCovers)'
  BY <1>1, Sizes
  DEF CoreAnswers, TimingTypeOK, MeasuredSoFar, DeclaredCovers, Skipped, Measures, Cycles
<1>5. (Writes /\ Grid)'
  BY <1>1, Sizes, Times
  DEF CoreAnswers, TimingTypeOK, Stamps, MeasuredSoFar, Writes, Grid, Measures, Cycles
<1>6. (FirstPeriod /\ FirstWriteSoon)'
  BY <1>1, Sizes, Times
  DEF CoreAnswers, TimingTypeOK, Stamps, MeasuredSoFar, FirstPeriod, FirstWriteSoon,
      Measures, Cycles
<1>7. Waits'
  BY <1>1, Sizes, Times
  DEF CoreAnswers, TimingTypeOK, Stamps, Waits, Measures, Cycles
<1>8. TransferHad'
  BY <1>1, Sizes
  DEF CoreAnswers, TimingTypeOK, Stamps, Writes, Grid, TransferHad, Measures, Cycles
<1>9. QED
  BY <1>2, <1>3, <1>4, <1>5, <1>6, <1>7, <1>8 DEF TimingInv

LEMMA NoWaitKeeps ==
  ASSUME TimingInv, NoWait
  PROVE  TimingInv'
<1> USE DEF setup, schedule, measurement, stamps, answers, written, Never, Larger
<1>1. /\ TimingTypeOK /\ Stamps /\ Deadlines /\ MeasuredSoFar /\ Writes /\ Grid
      /\ FirstPeriod /\ Waits /\ TransferHad /\ FirstWriteSoon /\ DeclaredCovers
  BY DEF TimingInv
<1>2. TimingTypeOK'
  BY <1>1, Times
  DEF NoWait, TimingTypeOK, Measures, Cycles, Awaits
<1>3. (Stamps /\ Deadlines)'
  BY <1>1, Sizes
  DEF NoWait, TimingTypeOK, Stamps, Deadlines, Measures, Cycles, Awaits
<1>4. (MeasuredSoFar /\ DeclaredCovers)'
  BY <1>1, Sizes
  DEF NoWait, TimingTypeOK, MeasuredSoFar, DeclaredCovers, Skipped, Measures, Cycles, Awaits
<1>5. (Writes /\ Grid)'
  BY <1>1, Sizes, Times
  DEF NoWait, TimingTypeOK, Stamps, MeasuredSoFar, Writes, Grid, Measures, Cycles, Awaits
<1>6. (FirstPeriod /\ FirstWriteSoon)'
  BY <1>1, Sizes, Times
  DEF NoWait, TimingTypeOK, Stamps, MeasuredSoFar, FirstPeriod, FirstWriteSoon, Measures,
      Cycles, Awaits
<1>7. Waits'
  BY <1>1, Sizes, Times
  DEF NoWait, TimingTypeOK, Stamps, Waits, Measures, Cycles, Awaits
<1>8. TransferHad'
  BY <1>1, Sizes
  DEF NoWait, TimingTypeOK, Stamps, Writes, Grid, TransferHad, Measures, Cycles, Awaits
<1>9. QED
  BY <1>2, <1>3, <1>4, <1>5, <1>6, <1>7, <1>8 DEF TimingInv

LEMMA WaitEndsKeeps ==
  ASSUME TimingInv, WaitEnds
  PROVE  TimingInv'
<1> USE DEF setup, schedule, measurement, stamps, answers, written, Never, Larger
<1>1. /\ TimingTypeOK /\ Stamps /\ Deadlines /\ MeasuredSoFar /\ Writes /\ Grid
      /\ FirstPeriod /\ Waits /\ TransferHad /\ FirstWriteSoon /\ DeclaredCovers
  BY DEF TimingInv
<1>2. TimingTypeOK'
  BY <1>1, Times
  DEF WaitEnds, TimingTypeOK, Measures, Cycles, Awaits, SendDeadline
<1>3. (Stamps /\ Deadlines)'
  BY <1>1, Sizes
  DEF WaitEnds, TimingTypeOK, Stamps, Deadlines, Measures, Cycles, Awaits, SendDeadline
<1>4. (MeasuredSoFar /\ DeclaredCovers)'
  BY <1>1, Sizes
  DEF WaitEnds, TimingTypeOK, MeasuredSoFar, DeclaredCovers, Skipped, Measures, Cycles,
      Awaits, SendDeadline
<1>5. (Writes /\ Grid)'
  BY <1>1, Sizes, Times
  DEF WaitEnds, TimingTypeOK, Stamps, MeasuredSoFar, Writes, Grid, Measures, Cycles, Awaits,
      SendDeadline
<1>6. (FirstPeriod /\ FirstWriteSoon)'
  BY <1>1, Sizes, Times
  DEF WaitEnds, TimingTypeOK, Stamps, MeasuredSoFar, FirstPeriod, FirstWriteSoon, Measures,
      Cycles, Awaits, SendDeadline
<1>7. Waits'
  BY <1>1, Sizes, Times
  DEF WaitEnds, TimingTypeOK, Stamps, Waits, Measures, Cycles, Awaits, SendDeadline
<1>8. TransferHad'
  BY <1>1, Sizes
  DEF WaitEnds, TimingTypeOK, Stamps, Writes, Grid, TransferHad, Measures, Cycles, Awaits,
      SendDeadline
<1>9. QED
  BY <1>2, <1>3, <1>4, <1>5, <1>6, <1>7, <1>8 DEF TimingInv

LEMMA WaitSleepsKeeps ==
  ASSUME TimingInv, WaitSleeps
  PROVE  TimingInv'
<1> USE DEF setup, schedule, measurement, stamps, answers, written, Never, Larger
<1>1. /\ TimingTypeOK /\ Stamps /\ Deadlines /\ MeasuredSoFar /\ Writes /\ Grid
      /\ FirstPeriod /\ Waits /\ TransferHad /\ FirstWriteSoon /\ DeclaredCovers
  BY DEF TimingInv
<1>2. TimingTypeOK'
  <2>1. now' \in Nat /\ now' > 0 /\ core' \in {"owes", "answered"}
    <3>1. CASE now' = SendDeadline - 1 /\ core' = "answered"
      BY <1>1, <3>1, Sizes DEF WaitSleeps, TimingTypeOK, SendDeadline
    <3>2. CASE SleepUntil(SendDeadline) /\ UNCHANGED core
      BY <1>1, <3>2, Sizes, Times DEF WaitSleeps, TimingTypeOK, SendDeadline, SleepUntil
    <3>3. QED
      BY <3>1, <3>2 DEF WaitSleeps
  <2>2. QED
    BY <1>1, <2>1 DEF WaitSleeps, TimingTypeOK
<1>3. (Stamps /\ Deadlines)'
  BY <1>1, Sizes, Times
  DEF WaitSleeps, TimingTypeOK, Stamps, Deadlines, Measures, Cycles, Awaits, SendDeadline,
      SleepUntil
<1>4. (MeasuredSoFar /\ DeclaredCovers)'
  BY <1>1, Sizes, Times
  DEF WaitSleeps, TimingTypeOK, MeasuredSoFar, DeclaredCovers, Skipped, Measures, Cycles,
      Awaits, SendDeadline, SleepUntil
<1>5. (Writes /\ Grid)'
  BY <1>1, Sizes, Times
  DEF WaitSleeps, TimingTypeOK, Stamps, MeasuredSoFar, Writes, Grid, Measures, Cycles,
      Awaits, SendDeadline, SleepUntil
<1>6. (FirstPeriod /\ FirstWriteSoon)'
  BY <1>1, Sizes, Times
  DEF WaitSleeps, TimingTypeOK, Stamps, MeasuredSoFar, FirstPeriod, FirstWriteSoon,
      Measures, Cycles, Awaits, SendDeadline, SleepUntil
<1>7. Waits'
  BY <1>1, Sizes, Times
  DEF WaitSleeps, TimingTypeOK, Stamps, Waits, Measures, Cycles, Awaits, SendDeadline,
      SleepUntil
<1>8. TransferHad'
  BY <1>1, Sizes, Times
  DEF WaitSleeps, TimingTypeOK, Stamps, Writes, Grid, TransferHad, Measures, Cycles, Awaits,
      SendDeadline, SleepUntil
<1>9. QED
  BY <1>2, <1>3, <1>4, <1>5, <1>6, <1>7, <1>8 DEF TimingInv

LEMMA WriteKeeps ==
  ASSUME TimingInv, Write
  PROVE  TimingInv'
<1> USE DEF setup, schedule, measurement, stamps, answers, written, Never, Larger
<1>1. /\ TimingTypeOK /\ Stamps /\ Deadlines /\ MeasuredSoFar /\ Writes /\ Grid
      /\ FirstPeriod /\ Waits /\ TransferHad /\ FirstWriteSoon /\ DeclaredCovers
  BY DEF TimingInv
<1>2. /\ now' \in Nat /\ now' >= now /\ now' <= now + Max(WriteTimes)
  BY <1>1, Times DEF Write, Take, TimingTypeOK
<1>3. TimingTypeOK'
  BY <1>1, <1>2, Times
  DEF Write, TimingTypeOK, Measures, Cycles, Take
<1>4. (Stamps /\ Deadlines)'
  BY <1>1, <1>2, Sizes
  DEF Write, TimingTypeOK, Stamps, Deadlines, Measures, Cycles, Take
<1>5. (MeasuredSoFar /\ DeclaredCovers)'
  BY <1>1, <1>2, Sizes
  DEF Write, TimingTypeOK, MeasuredSoFar, DeclaredCovers, Skipped, Measures, Cycles, Take
<1>6. (Writes /\ Grid)'
  BY <1>1, <1>2, Sizes, Times
  DEF Write, TimingTypeOK, Stamps, MeasuredSoFar, Writes, Grid, Measures, Cycles, Take
<1>7. (FirstPeriod /\ FirstWriteSoon)'
  BY <1>1, <1>2, Sizes, Times
  DEF Write, TimingTypeOK, Stamps, MeasuredSoFar, FirstPeriod, FirstWriteSoon, Measures,
      Cycles, Take
<1>8. Waits'
  BY <1>1, <1>2, Sizes, Times
  DEF Write, TimingTypeOK, Stamps, Waits, Measures, Cycles, Take
<1>9. TransferHad'
  BY <1>1, <1>2, Sizes
  DEF Write, TimingTypeOK, Stamps, Writes, Grid, TransferHad, Measures, Cycles, Take
<1>10. QED
  BY <1>3, <1>4, <1>5, <1>6, <1>7, <1>8, <1>9 DEF TimingInv

LEMMA CheckStateKeeps ==
  ASSUME TimingInv, CheckState
  PROVE  TimingInv'
<1> USE DEF setup, schedule, measurement, stamps, answers, written, Never, Larger
<1>1. /\ TimingTypeOK /\ Stamps /\ Deadlines /\ MeasuredSoFar /\ Writes /\ Grid
      /\ FirstPeriod /\ Waits /\ TransferHad /\ FirstWriteSoon /\ DeclaredCovers
  BY DEF TimingInv
<1>2. TimingTypeOK'
  BY <1>1, Times
  DEF CheckState, TimingTypeOK, Measures, Cycles
<1>3. (Stamps /\ Deadlines)'
  BY <1>1, Sizes
  DEF CheckState, TimingTypeOK, Stamps, Deadlines, Measures, Cycles
<1>4. (MeasuredSoFar /\ DeclaredCovers)'
  BY <1>1, Sizes
  DEF CheckState, TimingTypeOK, MeasuredSoFar, DeclaredCovers, Skipped, Measures, Cycles
<1>5. (Writes /\ Grid)'
  BY <1>1, Sizes, Times
  DEF CheckState, TimingTypeOK, Stamps, MeasuredSoFar, Writes, Grid, Measures, Cycles
<1>6. (FirstPeriod /\ FirstWriteSoon)'
  BY <1>1, Sizes, Times
  DEF CheckState, TimingTypeOK, Stamps, MeasuredSoFar, FirstPeriod, FirstWriteSoon,
      Measures, Cycles
<1>7. Waits'
  BY <1>1, Sizes, Times
  DEF CheckState, TimingTypeOK, Stamps, Waits, Measures, Cycles
<1>8. TransferHad'
  BY <1>1, Sizes
  DEF CheckState, TimingTypeOK, Stamps, Writes, Grid, TransferHad, Measures, Cycles
<1>9. QED
  BY <1>2, <1>3, <1>4, <1>5, <1>6, <1>7, <1>8 DEF TimingInv

LEMMA SleepToSendKeeps ==
  ASSUME TimingInv, SleepToSend
  PROVE  TimingInv'
<1> USE DEF setup, schedule, measurement, stamps, answers, written, Never, Larger
<1>1. /\ TimingTypeOK /\ Stamps /\ Deadlines /\ MeasuredSoFar /\ Writes /\ Grid
      /\ FirstPeriod /\ Waits /\ TransferHad /\ FirstWriteSoon /\ DeclaredCovers
  BY DEF TimingInv
<1>2. /\ now' \in Nat /\ now' >= now /\ now' <= Larger(now, SendDeadline) + Max(Lates)
      /\ stopping' \in BOOLEAN /\ (stopping => stopping')
      /\ now' >= SendDeadline \/ stopping'
  BY <1>1, Slept, Sizes DEF SleepToSend, TimingTypeOK, SendDeadline
<1>3. TimingTypeOK'
  BY <1>1, <1>2, Times
  DEF SleepToSend, TimingTypeOK, Measures, Cycles, SendDeadline
<1>4. (Stamps /\ Deadlines)'
  BY <1>1, <1>2, Sizes
  DEF SleepToSend, TimingTypeOK, Stamps, Deadlines, Measures, Cycles, SendDeadline
<1>5. (MeasuredSoFar /\ DeclaredCovers)'
  BY <1>1, <1>2, Sizes
  DEF SleepToSend, TimingTypeOK, MeasuredSoFar, DeclaredCovers, Skipped, Measures, Cycles,
      SendDeadline
<1>6. (Writes /\ Grid)'
  BY <1>1, <1>2, Sizes, Times
  DEF SleepToSend, TimingTypeOK, Stamps, MeasuredSoFar, Writes, Grid, Measures, Cycles,
      SendDeadline
<1>7. (FirstPeriod /\ FirstWriteSoon)'
  BY <1>1, <1>2, Sizes, Times
  DEF SleepToSend, TimingTypeOK, Stamps, MeasuredSoFar, FirstPeriod, FirstWriteSoon,
      Measures, Cycles, SendDeadline
<1>8. Waits'
  BY <1>1, <1>2, Sizes, Times
  DEF SleepToSend, TimingTypeOK, Stamps, Waits, Measures, Cycles, SendDeadline
<1>9. TransferHad'
  BY <1>1, <1>2, Sizes
  DEF SleepToSend, TimingTypeOK, Stamps, Writes, Grid, TransferHad, Measures, Cycles,
      SendDeadline
<1>10. QED
  BY <1>3, <1>4, <1>5, <1>6, <1>7, <1>8, <1>9 DEF TimingInv

LEMMA LeaveLoopKeeps ==
  ASSUME TimingInv, LeaveLoop
  PROVE  TimingInv'
<1> USE DEF setup, schedule, measurement, stamps, answers, written, Never, Larger
<1>1. /\ TimingTypeOK /\ Stamps /\ Deadlines /\ MeasuredSoFar /\ Writes /\ Grid
      /\ FirstPeriod /\ Waits /\ TransferHad /\ FirstWriteSoon /\ DeclaredCovers
  BY DEF TimingInv
<1>2. TimingTypeOK'
  BY <1>1, Times
  DEF LeaveLoop, TimingTypeOK, Measures, Cycles
<1>3. (Stamps /\ Deadlines)'
  BY <1>1, Sizes
  DEF LeaveLoop, TimingTypeOK, Stamps, Deadlines, Measures, Cycles
<1>4. (MeasuredSoFar /\ DeclaredCovers)'
  BY <1>1, Sizes
  DEF LeaveLoop, TimingTypeOK, MeasuredSoFar, DeclaredCovers, Skipped, Measures, Cycles
<1>5. (Writes /\ Grid)'
  BY <1>1, Sizes, Times
  DEF LeaveLoop, TimingTypeOK, Stamps, MeasuredSoFar, Writes, Grid, Measures, Cycles
<1>6. (FirstPeriod /\ FirstWriteSoon)'
  BY <1>1, Sizes, Times
  DEF LeaveLoop, TimingTypeOK, Stamps, MeasuredSoFar, FirstPeriod, FirstWriteSoon, Measures,
      Cycles
<1>7. Waits'
  BY <1>1, Sizes, Times
  DEF LeaveLoop, TimingTypeOK, Stamps, Waits, Measures, Cycles
<1>8. TransferHad'
  BY <1>1, Sizes
  DEF LeaveLoop, TimingTypeOK, Stamps, Writes, Grid, TransferHad, Measures, Cycles
<1>9. QED
  BY <1>2, <1>3, <1>4, <1>5, <1>6, <1>7, <1>8 DEF TimingInv

-----------------------------------------------------------------------------
LEMMA TimingNextInv ==
  ASSUME TimingInv, [TimingNext]_timingVars
  PROVE  TimingInv'
<1>1. CASE Measuring
  BY <1>1, MeasurePeriodKeeps, MeasureWakeKeeps, MeasureReadKeeps, MeasureWriteKeeps,
     DeclareWorstKeeps, NameKeeps
  DEF Measuring
<1>2. CASE Cycling
  BY <1>2, NextPeriodKeeps, WakeKeeps, NoTransferWaitKeeps, WaitForTransferKeeps,
     ReadKeeps, PublishKeeps, CoreAnswersKeeps, NoWaitKeeps, WaitEndsKeeps,
     WaitSleepsKeeps, WriteKeeps, CheckStateKeeps, SleepToSendKeeps, LeaveLoopKeeps
  DEF Cycling
<1>3. CASE UNCHANGED timingVars
  BY <1>3
  DEF timingVars, setup, schedule, measurement, stamps, answers, written, TimingInv,
      TimingTypeOK, Stamps, Deadlines, MeasuredSoFar, Writes, Grid, FirstPeriod, Waits,
      TransferHad, FirstWriteSoon, DeclaredCovers, Skipped
<1>4. QED
  BY <1>1, <1>2, <1>3, SignalKeeps DEF TimingNext

LEMMA TimingAlways == TimingSpec => []TimingInv
  BY TimingInitInv, TimingNextInv, PTL DEF TimingSpec

(* Types of the host's times. *)
THEOREM TimingTypes == TimingSpec => []TimingTypeOK
<1>1. TimingInv => TimingTypeOK
  BY DEF TimingInv
<1>2. QED
  BY <1>1, TimingAlways, PTL

(* A Smart Serial transfer has had its time when the next read begins, in  *)
(* both orders of a period and after the measurement.                      *)
THEOREM TransferAlwaysHad == TimingSpec => []TransferHad
<1>1. TimingInv => TransferHad
  BY DEF TimingInv
<1>2. QED
  BY <1>1, TimingAlways, PTL

(* Periods keep to their grid, whatever sleeps, reads and writes take.     *)
THEOREM PeriodsStayOnGrid == TimingSpec => []PeriodsOnGrid
<1>1. TimingInv => PeriodsOnGrid
  <2>1. SUFFICES ASSUME TimingInv, pc = "guard" PROVE PeriodsOnGrid
    BY DEF PeriodsOnGrid
  <2>2. next = start + count * Period
    BY <2>1 DEF TimingInv, Deadlines
  <2>3. /\ woke >= next
        /\ woke <= Larger(next, lastWrite) + (IF same THEN 1 ELSE 2) * Max(Lates)
    BY <2>1, Times DEF TimingInv, TimingTypeOK, Grid, Larger
  <2>4. QED
    BY <2>2, <2>3 DEF PeriodsOnGrid
<1>2. QED
  BY <1>1, TimingAlways, PTL

(* The core's answer delays the write to the send deadline and no further. *)
THEOREM WritesInTime == TimingSpec => []WriteInTime
<1>1. TimingInv => WriteInTime
  BY DEF TimingInv, Waits, WriteInTime
<1>2. QED
  BY <1>1, TimingAlways, PTL

(* The core cannot stretch the gap before the cycle's first write.         *)
THEOREM FirstWriteIsSoon == TimingSpec => []FirstWriteSoon
<1>1. TimingInv => FirstWriteSoon
  BY DEF TimingInv
<1>2. QED
  BY <1>1, TimingAlways, PTL

(* The declared worst cycle covers every period the measurement counted.   *)
THEOREM DeclarationCovers == TimingSpec => []DeclaredCovers
<1>1. TimingInv => DeclaredCovers
  BY DEF TimingInv
<1>2. QED
  BY <1>1, TimingAlways, PTL
=============================================================================
