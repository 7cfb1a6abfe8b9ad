-------------------------------- MODULE Arena --------------------------------
(***************************************************************************)
(* HAL as the shim gives it to the driver (shim/hal_shim.c): one arena of  *)
(* bytes that is only ever added to, and the tables of the pins,           *)
(* parameters and functions the driver declares while it starts.           *)
(*                                                                         *)
(* An address is a distance from the start of the arena, which calloc      *)
(* aligns and zeroes.  Every action is one call of the driver, with any    *)
(* arguments and in any order; a call that fails may be followed by any    *)
(* other.  A name is a model value with its length, the values in the      *)
(* cells are those of module Cells.  hm2_shim_fini is in module Startup.   *)
(***************************************************************************)
EXTENDS Integers, Sequences

CONSTANTS
  ArenaBytes, MaxSignals, MaxFuncts,  \* of the host's configuration
  Names, NameLength,                  \* the names and their lengths
  ProbeNames                          \* those that end in .probe-enable

(* What the sizes are, whatever the configuration says. *)
Sizes ==
  /\ ArenaBytes \in Nat /\ MaxSignals \in Nat /\ MaxFuncts \in Nat
  /\ NameLength \in [Names -> Nat] /\ ProbeNames \subseteq Names

HAL_NAME_LEN == 55
HM2_MAX_COMPONENTS == 8
CellSize == 8
Types == {"bool", "sint", "uint", "real"}
PinDirs == {"in", "out", "io"}
ParamDirs == {"ro", "rw"}

VARIABLES
  used, overflowed,       \* arena_used, arena_overflowed
  signals, signalCount,   \* the table of published signals
  functs, functCount,     \* the table of exported functions
  params,                 \* what hm2_shim_note_param noted
  ready,                  \* the components, and whether they are ready
  blocks,                 \* history: the blocks handed out
  refs                    \* history: the pins whose handle the driver has

heap == <<used, overflowed, blocks>>
vars == <<heap, signals, signalCount, functs, functCount, params, ready, refs>>

Init ==
  /\ used = 0 /\ overflowed = FALSE /\ blocks = {}
  /\ signals = {} /\ signalCount = 0
  /\ functs = {} /\ functCount = 0
  /\ params = {} /\ ready = <<>> /\ refs = {}

-----------------------------------------------------------------------------
(* The arena. *)

(* hal_malloc rounds up to whole cells and hands out what lies there; a     *)
(* negative size gets nothing.                                             *)
Want(size) == ((size + 7) \div 8) * 8
Fits(from, size) == Want(size) <= ArenaBytes - from
Block(from, size) == [at |-> from, end |-> from + Want(size)]

Take(sizeOf) ==
  /\ used' = used + Want(sizeOf)
  /\ blocks' = blocks \cup {Block(used, sizeOf)}
  /\ UNCHANGED overflowed

Full ==
  /\ overflowed' = TRUE
  /\ UNCHANGED <<used, blocks>>

HalMalloc(size) ==
  /\ IF Fits(used, size) THEN Take(size) ELSE Full
  /\ UNCHANGED <<signals, signalCount, functs, functCount, params, ready, refs>>

(* arena_name: a name that is too long is refused, not cut.               *)
TooLong(name) == NameLength[name] > HAL_NAME_LEN
NameBytes(name) == NameLength[name] + 1

(* A name, and then a cell behind it. *)
CellAt(name) == used + Want(NameBytes(name))
NameFits(name) == ~TooLong(name) /\ Fits(used, NameBytes(name))
CellFits(name) == NameFits(name) /\ Fits(CellAt(name), CellSize)

TakeCell(name) ==
  /\ used' = CellAt(name) + CellSize
  /\ blocks' = blocks \cup {Block(used, NameBytes(name)), Block(CellAt(name), CellSize)}
  /\ UNCHANGED overflowed

(* The name does not fit, or it does and the cell does not.               *)
TakeFails(name) ==
  \/ /\ TooLong(name)
     /\ UNCHANGED heap
  \/ /\ ~TooLong(name) /\ ~NameFits(name)
     /\ Full
  \/ /\ NameFits(name) /\ ~CellFits(name)
     /\ overflowed' = TRUE
     /\ used' = CellAt(name) /\ blocks' = blocks \cup {Block(used, NameBytes(name))}

-----------------------------------------------------------------------------
(* Components. *)

HalInit ==
  /\ ready' = IF Len(ready) < HM2_MAX_COMPONENTS THEN Append(ready, FALSE) ELSE ready
  /\ UNCHANGED <<heap, signals, signalCount, functs, functCount, params, refs>>

(* hal_ready and hal_exit *)
HalSetReady(id, value) ==
  /\ ready' = [ready EXCEPT ![id] = value]
  /\ UNCHANGED <<heap, signals, signalCount, functs, functCount, params, refs>>

ComponentReady == ready # <<>> /\ \A id \in DOMAIN ready : ready[id]

-----------------------------------------------------------------------------
(* Pins. *)

(* Published both ways: HAL_IO, and the probe-enable the driver writes     *)
(* although it declares it HAL_IN.                                         *)
BothWays(name, dir) == dir = "io" \/ (dir = "in" /\ name \in ProbeNames)
ChannelDir(dir) == IF dir = "out" THEN "toCore" ELSE "fromCore"

Entry(slot, name, type, dir, cell) ==
  [slot |-> slot, name |-> name, type |-> type, dir |-> dir, cell |-> cell]

(* publish, once or twice: the second may find the table full. *)
PublishOne(name, type, dir, cell) ==
  /\ signalCount < MaxSignals
  /\ signals' = signals \cup {Entry(signalCount, name, type, dir, cell)}
  /\ signalCount' = signalCount + 1

PublishBoth(name, type, cell) ==
  /\ signalCount + 1 < MaxSignals
  /\ signals' = signals \cup {Entry(signalCount, name, type, "fromCore", cell),
                              Entry(signalCount + 1, name, type, "toCore", cell)}
  /\ signalCount' = signalCount + 2

NewPin(name, dir, type) ==
  /\ CellFits(name) /\ TakeCell(name)
  /\ IF BothWays(name, dir) THEN PublishBoth(name, type, CellAt(name))
     ELSE PublishOne(name, type, ChannelDir(dir), CellAt(name))
  /\ refs' = refs \cup {[name |-> name, dir |-> dir, type |-> type, cell |-> CellAt(name)]}
  /\ UNCHANGED <<functs, functCount, params, ready>>

(* The table is full: the driver gets no handle, and half a pin may stay.  *)
NewPinUnpublished(name, dir, type) ==
  /\ CellFits(name) /\ TakeCell(name)
  /\ \/ /\ BothWays(name, dir) /\ signalCount + 1 = MaxSignals
        /\ PublishOne(name, type, "fromCore", CellAt(name))
     \/ /\ signalCount >= MaxSignals
        /\ UNCHANGED <<signals, signalCount>>
  /\ UNCHANGED <<functs, functCount, params, ready, refs>>

NewPinFails(name) ==
  /\ TakeFails(name)
  /\ UNCHANGED <<signals, signalCount, functs, functCount, params, ready, refs>>

-----------------------------------------------------------------------------
(* Parameters: a cell, noted where the host can find it unless the list    *)
(* of them cannot grow.  A fake one has a cell and no name.                *)
NewParam(name, dir, type) ==
  /\ CellFits(name) /\ TakeCell(name)
  /\ \/ params' = params \cup {[name |-> name, type |-> type, cell |-> CellAt(name),
                                writable |-> dir = "rw"]}
     \/ UNCHANGED params
  /\ UNCHANGED <<signals, signalCount, functs, functCount, ready, refs>>

NewParamFails(name) == NewPinFails(name)
NewFakeParam == HalMalloc(CellSize)

-----------------------------------------------------------------------------
(* hal_export_functf *)
ExportFunct(name) ==
  /\ functCount < MaxFuncts /\ NameFits(name)
  /\ Take(NameBytes(name))
  /\ functs' = functs \cup {[slot |-> functCount, name |-> name]}
  /\ functCount' = functCount + 1
  /\ UNCHANGED <<signals, signalCount, params, ready, refs>>

ExportFails(name) ==
  /\ functCount < MaxFuncts /\ ~TooLong(name) /\ ~NameFits(name)
  /\ Full
  /\ UNCHANGED <<signals, signalCount, functs, functCount, params, ready, refs>>

-----------------------------------------------------------------------------
Next ==
  \/ \E size \in Nat : HalMalloc(size)
  \/ HalInit
  \/ \E id \in DOMAIN ready, value \in BOOLEAN : HalSetReady(id, value)
  \/ \E name \in Names :
       \/ \E dir \in PinDirs, type \in Types : NewPin(name, dir, type)
       \/ \E dir \in PinDirs, type \in Types : NewPinUnpublished(name, dir, type)
       \/ NewPinFails(name)
       \/ \E dir \in ParamDirs, type \in Types : NewParam(name, dir, type)
       \/ NewParamFails(name)
       \/ ExportFunct(name)
       \/ ExportFails(name)
  \/ NewFakeParam

Spec == Init /\ [][Next]_vars

-----------------------------------------------------------------------------
TypeOK ==
  /\ used \in Nat /\ overflowed \in BOOLEAN
  /\ blocks \subseteq [at : Nat, end : Nat]
  /\ signals \subseteq [slot : Nat, name : Names, type : Types,
                        dir : {"toCore", "fromCore"}, cell : Nat]
  /\ signalCount \in Nat
  /\ functs \subseteq [slot : Nat, name : Names] /\ functCount \in Nat
  /\ params \subseteq [name : Names, type : Types, cell : Nat, writable : BOOLEAN]
  /\ ready \in Seq(BOOLEAN)
  /\ refs \subseteq [name : Names, dir : PinDirs, type : Types, cell : Nat]

Apart(a, b) == a.end <= b.at \/ b.end <= a.at

(* No two blocks of the arena overlap, whatever is asked for in whatever   *)
(* order, none leaves the arena, and each starts where a cell may.         *)
BlocksApart ==
  /\ \A a \in blocks : a.end <= ArenaBytes /\ a.at % 8 = 0
  /\ \A a, b \in blocks : a # b => Apart(a, b)

(* No table is ever written past its end, and no slot of it twice.        *)
TablesHold ==
  /\ signalCount <= MaxSignals /\ functCount <= MaxFuncts
  /\ \A s \in signals : s.slot < signalCount
  /\ \A f \in functs : f.slot < functCount
  /\ \A s, t \in signals : s.slot = t.slot => s = t
  /\ \A f, g \in functs : f.slot = g.slot => f = g

(* Two signals share a cell only as the two directions of one pin, and no  *)
(* parameter has a pin's cell or another parameter's: nobody's write is    *)
(* seen under another name.                                                *)
CellsApart ==
  /\ \A s, t \in signals : s.cell = t.cell /\ s # t =>
       s.name = t.name /\ s.type = t.type /\ s.dir # t.dir
  /\ \A p \in params, s \in signals : p.cell # s.cell
  /\ \A p, q \in params : p.cell = q.cell => p = q

(* A pin the driver has a handle of crosses the channel in every direction *)
(* it was declared for, at the driver's own cell.                          *)
HandlesPublished ==
  \A r \in refs : \A dir \in {"toCore", "fromCore"} :
    BothWays(r.name, r.dir) \/ dir = ChannelDir(r.dir) =>
      \E s \in signals : s.name = r.name /\ s.type = r.type /\ s.dir = dir /\ s.cell = r.cell
=============================================================================
