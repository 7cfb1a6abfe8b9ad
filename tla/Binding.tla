------------------------------ MODULE Binding ------------------------------
(***************************************************************************)
(* How the driver's pins and parameters become the channel's signals and   *)
(* who may write their cells: the shim's tables (shim/hal_shim.c,          *)
(* shim/param_table.c), the param. and pin. lines of the configuration,    *)
(* the binding, seeding and take_answer of host/main.c, and then a period  *)
(* after another in which the control answers and the driver runs.         *)
(*                                                                         *)
(* Every pin and parameter holds a value of Values; Unfit stands for a     *)
(* configured value that does not fit.  The driver is external: it         *)
(* declares its pins in some order and writes those it owns.               *)
(***************************************************************************)
EXTENDS FiniteSets, Naturals

CONSTANTS
  InPins, OutPins, IoPins,  \* the pins the driver declares HAL_IN, _OUT, _IO
  ProbePins,     \* those whose names end in .probe-enable
  Strobes,       \* bits the driver clears when it has done what they ask
  Rewritten,     \* pins it declares HAL_IN and rewrites, the probe's or not
  RwParams, RoParams,  \* the parameters it declares HAL_RW, HAL_RO
  Strays,        \* names in the configuration nobody declares
  Values, Zero, One, Unfit,
  MaxLines       \* bound: pin. lines in the configuration

Pins == InPins \cup OutPins \cup IoPins
Unheeded == Rewritten \ ProbePins  \* rewritten, and the shim does not know
Params == RwParams \cup RoParams

(* Upstream declares no parameter under the name of a pin it only reads;   *)
(* binding looks for a pin of the parameter's name and direction, and      *)
(* would miss one of those that was fixed.                                 *)
ASSUME BindingAssumption ==
  /\ {Zero, One} \subseteq Values /\ Unfit \notin Values /\ Zero # One
  /\ ProbePins \subseteq InPins /\ Rewritten \subseteq InPins
  /\ Strobes \subseteq IoPins \cup ProbePins \cup Rewritten
  /\ InPins \cap (OutPins \cup IoPins) = {} /\ OutPins \cap IoPins = {}
  /\ RwParams \cap RoParams = {} /\ Params \cap (InPins \cup IoPins) = {}
  /\ Strays \cap (Pins \cup Params) = {}
  /\ MaxLines \in Nat

VARIABLES
  phase,         \* "declare", "fix", "bind", "seed", "control", "take",
                 \* "drive" or "refused"
  paramLines, pinLines,     \* the configuration: names to values
  declared, signals,        \* the cells and the shim's table, in no order
  claimed,                  \* the param. lines a declaration claimed
  cells,
  fixed,                    \* the pins pin. lines fixed
  inputs, outputs,          \* bound_inputs, bound_outputs
  last,                     \* the level last applied, of on-change outputs
  answer,                   \* what the control answers, output by output
  applied, owed             \* history: the answer taken before; the strobes
                            \* the control has raised since they were done

config == <<paramLines, pinLines>>
table  == <<declared, signals, claimed>>
bound  == <<fixed, inputs, outputs>>
bindingVars == <<phase, config, table, cells, bound, last, answer, applied, owed>>

Partial(D, R) == UNION {[S -> R] : S \in SUBSET D}
Pin(name) == <<"pin", name>>
Param(name) == <<"param", name>>
Cells == {Pin(p) : p \in Pins} \cup {Param(p) : p \in Params}

BindingInit ==
  /\ phase = "declare"
  /\ paramLines \in Partial(Params \cup Strays, Values)
  /\ pinLines \in {f \in Partial(Pins \cup Strays, Values \cup {Unfit}) :
                     Cardinality(DOMAIN f) <= MaxLines}
  /\ declared = {} /\ signals = {} /\ claimed = {}
  /\ cells = [c \in Cells |-> Zero]
  /\ fixed = {} /\ inputs = {} /\ outputs = {}
  /\ last = <<>> /\ answer = <<>> /\ applied = <<>> /\ owed = {}

-----------------------------------------------------------------------------
(* The shim. *)

(* A HAL_IO pin is published both ways, and so is one the driver writes    *)
(* back anyway.                                                            *)
BothWays_ioOnly(pin) == pin \in IoPins
BothWays(pin) == pin \in IoPins \/ pin \in ProbePins

Directions(pin) ==
  IF BothWays(pin) THEN {"fromCore", "toCore"}
  ELSE IF pin \in InPins THEN {"fromCore"} ELSE {"toCore"}

(* new_pin: a cell with the driver's default, and its signals.            *)
NewPin(pin) ==
  /\ phase = "declare" /\ Pin(pin) \notin declared
  /\ declared' = declared \cup {Pin(pin)}
  /\ \E value \in IF pin \in Strobes THEN {Zero} ELSE Values :
       cells' = [cells EXCEPT ![Pin(pin)] = value]
  /\ signals' = signals \cup {[name |-> pin, dir |-> d] : d \in Directions(pin)}
  /\ UNCHANGED <<phase, config, claimed, bound, last, answer, applied, owed>>

(* new_param: the configured value, or the driver's default. *)
NewParam(param) ==
  /\ phase = "declare" /\ Param(param) \notin declared
  /\ declared' = declared \cup {Param(param)}
  /\ \E value \in IF param \in DOMAIN paramLines THEN {paramLines[param]} ELSE Values :
       cells' = [cells EXCEPT ![Param(param)] = value]
  /\ claimed' = claimed \cup ({param} \cap DOMAIN paramLines)
  /\ UNCHANGED <<phase, config, signals, bound, last, answer, applied, owed>>

(* The table or the arena is full, or a name too long: the start fails.    *)
DeclareFails ==
  /\ phase = "declare" /\ declared # Cells
  /\ phase' = "refused"
  /\ UNCHANGED <<config, table, cells, bound, last, answer, applied, owed>>

(* The driver has declared everything; a line nobody claimed stops here.   *)
Unclaimed == DOMAIN paramLines \ claimed

AllDeclared ==
  /\ phase = "declare" /\ declared = Cells
  /\ phase' = IF Unclaimed = {} THEN "fix" ELSE "refused"
  /\ UNCHANGED <<config, table, cells, bound, last, answer, applied, owed>>

-----------------------------------------------------------------------------
(* host/main.c, before the first period. *)

Published(name, dir) == [name |-> name, dir |-> dir] \in signals

(* A pin. line may fix a pin the driver reads and does not write.          *)
Fixable(pin) ==
  /\ Published(pin, "fromCore") /\ ~Published(pin, "toCore")
  /\ pinLines[pin] # Unfit

FixPins ==
  LET fit == {pin \in DOMAIN pinLines : Fixable(pin)}
  IN  /\ phase = "fix"
      /\ phase' = IF fit = DOMAIN pinLines THEN "bind" ELSE "refused"
      /\ fixed' = fit
      /\ cells' = [c \in Cells |->
                     IF c \in {Pin(p) : p \in fit} THEN pinLines[c[2]] ELSE cells[c]]
      /\ UNCHANGED <<config, table, inputs, outputs, last, answer, applied, owed>>

Output(name, cell, onChange) == [name |-> name, cell |-> cell, onChange |-> onChange]

(* A fixed pin is read, never written; an output the driver writes too is  *)
(* applied when the control changes it.                                    *)
WrittenByTheDriver(pin) == Published(pin, "toCore")

PinOutputs ==
  {Output(s.name, Pin(s.name), WrittenByTheDriver(s.name)) :
     s \in {t \in signals : t.dir = "fromCore" /\ t.name \notin fixed}}

PinInputs ==
  {[name |-> s.name, cell |-> Pin(s.name)] :
     s \in {t \in signals : t.dir = "toCore" \/ t.name \in fixed}}

(* bind_params: a name the pins have in a direction stays theirs.          *)
ParamsRead_all == Params
ParamsRead == {p \in Params : ~Published(p, "toCore")}
ParamsWritten == {p \in ParamsRead \cap RwParams : ~Published(p, "fromCore")}

BindSignals ==
  /\ phase = "bind" /\ phase' = "seed"
  /\ inputs' = PinInputs \cup {[name |-> p, cell |-> Param(p)] : p \in ParamsRead}
  /\ outputs' = PinOutputs \cup {Output(p, Param(p), TRUE) : p \in ParamsWritten}
  /\ UNCHANGED <<config, table, cells, fixed, last, answer, applied, owed>>

(* Every output starts from the value its cell has. *)
Seeds_zero == [o \in outputs |-> Zero]
Seeds == [o \in outputs |-> cells[o.cell]]

Seed ==
  /\ phase = "seed" /\ phase' = "drive"
  /\ last' = Seeds
  /\ answer' = [o \in outputs |-> cells[o.cell]] /\ applied' = answer'
  /\ UNCHANGED <<config, table, cells, bound, owed>>

-----------------------------------------------------------------------------
(* A period. *)

(* The control answers, or is late and the answer stays as it was.         *)
Control ==
  /\ phase = "control" /\ phase' = "take"
  /\ answer' \in [outputs -> Values]
  /\ UNCHANGED <<config, table, cells, bound, last, applied, owed>>

(* take_answer *)
Written(o) == ~o.onChange \/ answer[o] # last[o]

TakeAnswer ==
  LET written == {o \in outputs : Written(o)}
  IN  /\ phase = "take" /\ phase' = "drive"
      /\ cells' = [c \in Cells |->
                     IF \E o \in written : o.cell = c
                       THEN answer[CHOOSE o \in written : o.cell = c] ELSE cells[c]]
      /\ last' = [o \in outputs |-> IF o.onChange THEN answer[o] ELSE last[o]]
      /\ applied' = answer
      /\ owed' = owed \cup {o.name : o \in {x \in outputs : x.name \in Strobes /\
                               answer[x] = One /\ applied[x] # One}}
      /\ UNCHANGED <<config, table, bound, answer>>

(* The driver does what a strobe asks and clears it, ... *)
DriverActs(pin) ==
  /\ phase = "drive" /\ cells[Pin(pin)] = One
  /\ cells' = [cells EXCEPT ![Pin(pin)] = Zero]
  /\ owed' = owed \ {pin}
  /\ UNCHANGED <<phase, config, table, bound, last, answer, applied>>

(* ... and writes the other cells it owns.                                 *)
DriverOwns ==
  {Pin(p) : p \in (OutPins \cup IoPins \cup Rewritten) \ Strobes}
    \cup {Param(p) : p \in Params}

DriverWrites ==
  /\ phase = "drive"
  /\ \E cell \in DriverOwns, value \in Values : cells' = [cells EXCEPT ![cell] = value]
  /\ UNCHANGED <<phase, config, table, bound, last, answer, applied, owed>>

DriverDone ==
  /\ phase = "drive" /\ phase' = "control"
  /\ UNCHANGED <<config, table, cells, bound, last, answer, applied, owed>>

-----------------------------------------------------------------------------
Start ==
  \/ \E pin \in Pins : NewPin(pin)
  \/ \E param \in Params : NewParam(param)
  \/ DeclareFails \/ AllDeclared \/ FixPins \/ BindSignals \/ Seed

Driver == DriverWrites \/ DriverDone \/ \E pin \in Strobes : DriverActs(pin)

BindingNext == Start \/ Control \/ TakeAnswer \/ Driver

BindingSpec == BindingInit /\ [][BindingNext]_bindingVars

-----------------------------------------------------------------------------
(* The channel has one signal of a name in each direction. *)
UniqueNames ==
  /\ \A a, b \in inputs : a.name = b.name => a = b
  /\ \A a, b \in outputs : a.name = b.name => a = b

(* The answer changes a cell only when the control changed its mind about  *)
(* that cell's output: what the driver wrote is not undone by a value the  *)
(* control merely holds, nor by the values it starts from.  Excepted are   *)
(* the inputs the driver rewrites and the shim publishes one way           *)
(* (encoder.c:167 limits sample-frequency in place, raw.c:124 clears       *)
(* write_strobe): take_answer writes those each period.                    *)
OnlyWhenAsked ==
  [][phase = "take" =>
       \A cell \in Cells \ {Pin(p) : p \in Unheeded} : cells'[cell] # cells[cell] =>
         \E o \in outputs : o.cell = cell /\ answer[o] # applied[o]]_bindingVars

(* The driver does what a strobe asks (latch at the index, or at the       *)
(* probe) once for each time the control raises it.  A strobe that the     *)
(* shim publishes one way is excepted; what it does is EveryStrobeOnce's.  *)
DoneOnce(pin) ==
  phase = "drive" /\ cells[Pin(pin)] = One /\ cells'[Pin(pin)] = Zero => pin \in owed

ActsOnce == [][\A pin \in Strobes \ Unheeded : DoneOnce(pin)]_bindingVars

(* What hal_shim.c:285-300 says of the pins the driver writes although it  *)
(* declares them HAL_IN: that probe-enable is the one there is, so that no *)
(* held true is written over the driver's clear.  The raw interface's      *)
(* write_strobe (raw.c:74, 124) is another, and writes again each period.  *)
EveryStrobeOnce == [][\A pin \in Strobes : DoneOnce(pin)]_bindingVars
=============================================================================
