------------------------------- MODULE Layout -------------------------------
(***************************************************************************)
(* Where everything lies in the shared region: the structures of           *)
(* include/cnc_outboard.h, hm2_region_layout, value_half, seed_output and  *)
(* declare of host/region.c, and declare_signals of host/main.c.           *)
(*                                                                         *)
(* A place is a set of bytes [at, end) counted from the start of the       *)
(* region.  Sizes are the C compiler's for these structures on a machine   *)
(* with doubles and 64-bit words of eight bytes; signals number less than  *)
(* 2^32, so neither the casts to uint32_t nor the sums of size_t wrap.  A  *)
(* signal's name is a model value: what it says is told by NameShapes.     *)
(***************************************************************************)
EXTENDS Naturals, Sequences

CacheLine == 64
MaxAxes == 32
Word == 4
Double == 8
NameMax == 64

(* Struct sizes: no padding but what alignas asks for. *)
AxisInputSize == 3 * Double + 2 * Word
AxisOutputSize == 2 * Double + 2 * Word
InputSize == 2 * Double + 4 * Word + MaxAxes * AxisInputSize
OutputSize == MaxAxes * AxisOutputSize
ConfigSize == 4 * Word + 2 * Double + 6 * Word + Double
DescSize == NameMax + 8 * Word
BlockSize == 4 * Word + 6 * Double + 2 * Double

ToLine(bytes) == ((bytes + CacheLine - 1) \div CacheLine) * CacheLine

(* cnc_outboard_shm: every counter and every pair of buffers starts a line *)
CycleAt == ToLine(ConfigSize)
InputAt == ToLine(CycleAt + Double)
ResponseAt == ToLine(InputAt + 2 * InputSize)
OutputAt == ToLine(ResponseAt + Double)
FutexAt == ToLine(OutputAt + 2 * OutputSize)
StateAt == ToLine(FutexAt + Word)
ShmSize == ToLine(StateAt + Word)

Place(at, size) == [at |-> at, end |-> at + size]

FixedPlaces ==
  [config   |-> Place(0, ConfigSize),
   cycle    |-> Place(CycleAt, Double),
   input    |-> Place(InputAt, 2 * InputSize),
   response |-> Place(ResponseAt, Double),
   output   |-> Place(OutputAt, 2 * OutputSize),
   futex    |-> Place(FutexAt, Word),
   state    |-> Place(StateAt, Word)]

-----------------------------------------------------------------------------
(* hm2_region_layout: the block of a region with signals. *)
TableAt == ToLine(ShmSize + BlockSize)

Block(inputs, outputs) ==
  LET inputAt == ToLine(TableAt + (inputs + outputs) * DescSize)
      inputStride == ToLine(inputs * Double)
      outputAt == inputAt + 2 * inputStride
      outputStride == ToLine(outputs * Double)
  IN  [table |-> TableAt, input |-> inputAt, inputStride |-> inputStride,
       output |-> outputAt, outputStride |-> outputStride,
       size |-> outputAt + 2 * outputStride]

RegionSize(inputs, outputs) ==
  IF inputs + outputs = 0 THEN ShmSize ELSE Block(inputs, outputs).size

(* value_half: the half of a cycle. *)
HalfAt(at, stride, cycle) == at + (cycle % 2) * stride
InputHalf(inputs, outputs, cycle) ==
  LET b == Block(inputs, outputs) IN HalfAt(b.input, b.inputStride, cycle)
OutputHalf(inputs, outputs, cycle) ==
  LET b == Block(inputs, outputs) IN HalfAt(b.output, b.outputStride, cycle)

(* Where the value and the descriptor of a signal lie. *)
ValuePlace(half, index) == Place(half + index * Double, Double)
DescPlace(slot) == Place(TableAt + slot * DescSize, DescSize)

(* hm2_region_seed_output writes both halves, or nothing. *)
SeedPlaces(inputs, outputs, index) ==
  {ValuePlace(OutputHalf(inputs, outputs, parity), index) :
     parity \in IF index >= outputs THEN {} ELSE {0, 1}}

(* The pieces of a region with signals, from its start to its end. *)
Pieces == {"fixed", "block", "table", "input0", "input1", "output0", "output1"}

Piece(inputs, outputs) ==
  LET b == Block(inputs, outputs)
  IN  [fixed   |-> Place(0, ShmSize),
       block   |-> Place(ShmSize, BlockSize),
       table   |-> Place(TableAt, (inputs + outputs) * DescSize),
       input0  |-> Place(HalfAt(b.input, b.inputStride, 0), inputs * Double),
       input1  |-> Place(HalfAt(b.input, b.inputStride, 1), inputs * Double),
       output0 |-> Place(HalfAt(b.output, b.outputStride, 0), outputs * Double),
       output1 |-> Place(HalfAt(b.output, b.outputStride, 1), outputs * Double)]

-----------------------------------------------------------------------------
(* The descriptors: what hm2_region_declare writes for declare_signals. *)
ShimTypes == {"bool", "sint", "uint", "real"}
NameShapes == {"position", "velocity", "latch", "other"}
SignalTypes == {"bool", "i32", "f64"}
SignalRoles ==
  {"digital", "analog", "position", "velocity", "torque", "statusWord",
   "controlWord", "encoderCount", "probeLatch", "fastDigital"}
SignalUnits ==
  {"none", "metre", "radian", "metrePerSecond", "radianPerSecond", "newton",
   "newtonMetre", "volt", "ampere", "second", "count"}
Flags == {"onChange", "fixed"}

(* channel_type and channel_role; a name shows the first shape it matches. *)
ChannelType(type) ==
  CASE type = "bool" -> "bool"
    [] type \in {"sint", "uint"} -> "i32"
    [] OTHER -> "f64"

ChannelRole(shape, type) ==
  CASE shape \in {"position", "velocity"} -> shape
    [] shape = "latch" -> "probeLatch"
    [] OTHER -> IF type = "bool" THEN "digital" ELSE "analog"

(* What this process measures of itself, after the driver's own inputs.    *)
HostSignals ==
  <<[name |-> "read-time", type |-> "f64", unit |-> "second"],
    [name |-> "answer-time", type |-> "f64", unit |-> "second"],
    [name |-> "answers-late", type |-> "i32", unit |-> "count"],
    [name |-> "sserial-faults", type |-> "i32", unit |-> "count"],
    [name |-> "sserial-waits", type |-> "i32", unit |-> "count"]>>

Desc(direction, type, role, unit, index, flags) ==
  [direction |-> direction, type |-> type, role |-> role, unit |-> unit,
   index |-> index, flags |-> flags]

BoundDesc(direction, bound, index) ==
  Desc(direction, ChannelType(bound[index + 1].type),
       ChannelRole(bound[index + 1].shape, bound[index + 1].type), "none",
       index, bound[index + 1].flags)

HostDesc(h, index) ==
  Desc("input", HostSignals[h].type, "analog", HostSignals[h].unit, index, {})

(* declare_signals: slot by slot the bound inputs, the host's own, and the *)
(* bound outputs, each with the next index of its direction.               *)
Inputs(ins) == Len(ins) + Len(HostSignals)

Declared(ins, outs) ==
  [slot \in 0 .. Inputs(ins) + Len(outs) - 1 |->
     IF slot < Len(ins) THEN BoundDesc("input", ins, slot)
     ELSE IF slot < Inputs(ins) THEN HostDesc(slot - Len(ins) + 1, slot)
     ELSE BoundDesc("output", outs, slot - Inputs(ins))]

BoundSignal == [shape : NameShapes, type : ShimTypes, flags : SUBSET Flags]

-----------------------------------------------------------------------------
(* What must hold of it. *)
Apart(p, q) == p.end <= q.at \/ q.end <= p.at
Within(p, q) == q.at <= p.at /\ p.end <= q.end
Line(byte) == byte \div CacheLine

(* No piece overlaps another or runs over the end of the object, which     *)
(* hm2_region_create sizes; all but the block and the table of a region    *)
(* with signals start a line.                                              *)
PiecesApart(inputs, outputs) ==
  \A p, q \in Pieces :
    /\ p # q => Apart(Piece(inputs, outputs)[p], Piece(inputs, outputs)[q])
    /\ Piece(inputs, outputs)[p].end <= RegionSize(inputs, outputs)

(* The two halves of a value block never have a byte in one cache line,    *)
(* so writing one never disturbs a reader of the other.                    *)
HalvesOnOwnLines(inputs, outputs) ==
  LET P == Piece(inputs, outputs)
  IN  \A a, b \in Nat :
        \/ P.input0.at <= a /\ a < P.input0.end /\ P.input1.at <= b /\ b < P.input1.end
        \/ P.output0.at <= a /\ a < P.output0.end /\ P.output1.at <= b /\ b < P.output1.end
        => Line(a) # Line(b)

(* Each signal has a value of its own in the half of every cycle.          *)
OwnValue(ins, outs) ==
  LET D == Declared(ins, outs)
      Half(slot, cycle) ==
        IF D[slot].direction = "input" THEN InputHalf(Inputs(ins), Len(outs), cycle)
        ELSE OutputHalf(Inputs(ins), Len(outs), cycle)
  IN  \A s, t \in DOMAIN D : \A cycle \in Nat : s # t =>
        Apart(ValuePlace(Half(s, cycle), D[s].index), ValuePlace(Half(t, cycle), D[t].index))

(* What is written before a core can attach stays inside the output halves *)
(* and the table.                                                          *)
WritesInside(ins, outs) ==
  LET P == Piece(Inputs(ins), Len(outs))
  IN  /\ \A slot \in DOMAIN Declared(ins, outs) : Within(DescPlace(slot), P.table)
      /\ \A index \in Nat : \A place \in SeedPlaces(Inputs(ins), Len(outs), index) :
           Within(place, P.output0) \/ Within(place, P.output1)

(* Its index is within its direction's block, and the core                 *)
(* knows every enumerator and every flag (it refuses those it does not),   *)
(* none of them the promise of a fast output.                              *)
DescriptorsKnown(ins, outs) ==
  LET D == Declared(ins, outs)
  IN  \A s \in DOMAIN D :
        /\ D[s].type \in SignalTypes /\ D[s].unit \in SignalUnits
        /\ D[s].role \in SignalRoles \ {"fastDigital"} /\ D[s].flags \subseteq Flags
        /\ D[s].direction = "input" => D[s].index < Inputs(ins)
        /\ D[s].direction = "output" => D[s].index < Len(outs)
=============================================================================
