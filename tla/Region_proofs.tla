---------------------------- MODULE Region_proofs ----------------------------
(***************************************************************************)
(* Proofs about the region.                                                *)
(*                                                                         *)
(* Its life, for any number of runs: no core ever finds it half made, no   *)
(* ended channel runs again, and from the rename until the driver has let  *)
(* go of the card nobody takes the name or is told that it is free.        *)
(*                                                                         *)
(* Its layout, for every number of signals: no piece of it overlaps        *)
(* another, the two halves of a block never share a cache line, and every  *)
(* declared signal has a value of its own in each half.                    *)
(*                                                                         *)
(* Its signals, for every driver and every file: a name is one signal, the *)
(* driver's cells change only as the core asked, and a strobe acts once.   *)
(***************************************************************************)
EXTENDS Region, Layout, Binding, TLAPS

-----------------------------------------------------------------------------
(* The life of the region. *)

Before == {"out", "started", "made", "declared", "measured"}
Named == {"named", "running", "left"}

(* One run lives at a time: the next is started when the last has ended.   *)
OneAlive ==
  \A g, h \in Hosts : pc[g] \notin Ended \cup {"out"} /\ pc[h] \notin Ended \cup {"out"} => g = h

(* What each place of main says of the run's object and of its names.      *)
Places ==
  \A h \in Hosts :
    /\ pc[h] \in {"made", "declared", "measured"} => linked["measuring"] = h
    /\ pc[h] = "measured" => made[h] = "finished"
    /\ pc[h] \in Named => linked["region"] = h
    /\ ownName[h] = "region" => pc[h] \in Named \cup {"released"} \cup Ended
    /\ pc[h] \in Named \cup {"released"} => ownName[h] = "region"

(* An object that bears the final name is finished, and stays it.          *)
Found ==
  \A h \in Hosts :
    linked["region"] = h \/ core = h => made[h] = "finished" /\ pc[h] \notin Before

IInv == TypeOK /\ OneAlive /\ Places /\ Found

LEMMA InitInv == Init => IInv
  BY RegionAssumption
  DEF Init, IInv, TypeOK, OneAlive, Places, Found, Names, Steps, Ended, Before, Named

-----------------------------------------------------------------------------
LEMMA StartInv ==
  ASSUME IInv, NEW h \in Hosts,
         StartDriver(h) \/ StartFails(h) \/ Create(h) \/ Declare(h) \/ Measure(h)
  PROVE  IInv'
<1> USE RegionAssumption DEF IInv, TypeOK, OneAlive, Places, Found, Names, Steps, Ended,
        Before, Named, Step
<1>1. CASE StartDriver(h)
  BY <1>1 DEF StartDriver
<1>2. CASE StartFails(h)
  BY <1>2 DEF StartFails
<1>3. CASE Create(h)
  BY <1>3 DEF Create
<1>4. CASE Declare(h)
  BY <1>4 DEF Declare
<1>5. CASE Measure(h)
  BY <1>5 DEF Measure
<1>6. QED
  BY <1>1, <1>2, <1>3, <1>4, <1>5

LEMMA CycleInv ==
  ASSUME IInv, NEW h \in Hosts,
         Rename(h) \/ SetRunning(h) \/ Leave(h) \/ GiveUp(h) \/ Release(h)
  PROVE  IInv'
<1> USE RegionAssumption DEF IInv, TypeOK, OneAlive, Places, Found, Names, Steps, Ended,
        Before, Named, Step
<1>1. CASE Rename(h)
  BY <1>1 DEF Rename
<1>2. CASE SetRunning(h)
  BY <1>2 DEF SetRunning
<1>3. CASE Leave(h)
  BY <1>3 DEF Leave
<1>4. CASE GiveUp(h)
  BY <1>4 DEF GiveUp
<1>5. CASE Release(h)
  BY <1>5 DEF Release
<1>6. QED
  BY <1>1, <1>2, <1>3, <1>4, <1>5

LEMMA EndInv ==
  ASSUME IInv, NEW h \in Hosts,
         GiveUpStart(h) \/ FailExit(h) \/ End(h) \/ Kill(h)
  PROVE  IInv'
<1> USE RegionAssumption DEF IInv, TypeOK, OneAlive, Places, Found, Names, Steps, Ended,
        Before, Named, Step
<1>1. CASE GiveUpStart(h)
  BY <1>1 DEF GiveUpStart, Destroy
<1>2. CASE FailExit(h)
  BY <1>2 DEF FailExit
<1>3. CASE End(h)
  BY <1>3 DEF End, Destroy
<1>4. CASE Kill(h)
  BY <1>4 DEF Kill
<1>5. QED
  BY <1>1, <1>2, <1>3, <1>4

LEMMA OthersInv ==
  ASSUME IInv, Attach \/ CoreGoes \/ Tool \/ UNCHANGED vars
  PROVE  IInv'
<1> USE RegionAssumption DEF IInv, TypeOK, OneAlive, Places, Found, Names, Steps, Ended,
        Before, Named
<1>1. CASE Attach
  BY <1>1 DEF Attach
<1>2. CASE CoreGoes
  BY <1>2 DEF CoreGoes
<1>3. CASE Tool \/ UNCHANGED vars
  BY <1>3 DEF Tool, ToolLooks, ToolOpens, ToolEnds, ToolStep, vars
<1>4. QED
  BY <1>1, <1>2, <1>3

LEMMA NextInv == IInv /\ [Next]_vars => IInv'
  BY StartInv, CycleInv, EndInv, OthersInv DEF Next, Host

LEMMA Invariant == Spec => []IInv
  BY InitInv, NextInv, PTL DEF Spec

-----------------------------------------------------------------------------
(* hm2_region_create to hm2_region_rename: a core that finds the region    *)
(* finds it whole, whichever runs were killed before.                      *)
THEOREM WholeWhenFound == Spec => []NeverHalfMade
<1>1. IInv => NeverHalfMade
  BY DEF IInv, TypeOK, Names, Found, NeverHalfMade
<1>2. QED
  BY <1>1, Invariant, PTL

(* What a run or a core ended is not run again by a later run, each of     *)
(* which makes its own object, nor by its own but for the store of RUNNING *)
(* that follows the rename.                                                *)
THEOREM EndedStays == Spec => NotResumed
<1> DEFINE Kept(h) == Over(state[h]) => Over(state'[h]) \/ (pc[h] = "named" /\ pc'[h] = "running")
<1>1. IInv /\ [Next]_vars => \A h \in Hosts : Kept(h)
  <2> SUFFICES ASSUME IInv, [Next]_vars, NEW h \in Hosts, Over(state[h])
               PROVE  Over(state'[h]) \/ (pc[h] = "named" /\ pc'[h] = "running")
    OBVIOUS
  <2> USE DEF IInv, TypeOK, Over, Step
  <2>1. CASE Attach \/ Tool \/ UNCHANGED vars
    BY <2>1 DEF Attach, Tool, ToolLooks, ToolOpens, ToolEnds, ToolStep, vars
  <2>2. CASE CoreGoes
    BY <2>2 DEF CoreGoes
  <2>3. ASSUME NEW g \in Hosts, Host(g)
        PROVE  Over(state'[h]) \/ (pc[h] = "named" /\ pc'[h] = "running")
    <3>1. CASE SetRunning(g)
      BY <3>1 DEF SetRunning
    <3>2. CASE ~SetRunning(g)
      BY <2>3, <3>2 DEF Host, StartDriver, StartFails, Create, Declare, Measure, Rename,
         GiveUpStart, FailExit, Leave, GiveUp, Release, End, Kill, Destroy
    <3>3. QED
      BY <3>1, <3>2
  <2>4. QED
    BY <2>1, <2>2, <2>3 DEF Next
<1>2. IInv /\ [Next]_vars => [\A h \in Hosts : Kept(h)]_vars
  BY <1>1
<1>3. QED
  BY <1>2, Invariant, PTL DEF Spec, NotResumed

(* main's order of rtapi_app_exit and hm2_region_destroy, and region_in_   *)
(* use: until the driver is done nobody takes the name, and a tool that    *)
(* looks for it is refused.                                                *)
THEOREM OneMaster == Spec => CardFreedFirst
<1> DEFINE Kept == \A h \in Hosts : Master(h) =>
                     /\ linked["region"] = h => linked'["region"] = h
                     /\ tool' = "looked" => tool = "looked"
<1>1. IInv /\ [Next]_vars => Kept
  <2> SUFFICES ASSUME IInv, [Next]_vars, NEW h \in Hosts, Master(h)
               PROVE  /\ linked["region"] = h => linked'["region"] = h
                      /\ tool' = "looked" => tool = "looked"
    OBVIOUS
  <2>1. pc[h] \in Named /\ linked["region"] = h /\ h # None
    BY RegionAssumption DEF IInv, Places, Master, Driving, Named, Steps
  <2>2. CASE Attach \/ CoreGoes \/ Tool \/ UNCHANGED vars
    BY <2>1, <2>2 DEF Attach, CoreGoes, Tool, ToolLooks, ToolOpens, ToolEnds, ToolStep, InUse,
       vars
  <2>3. ASSUME NEW g \in Hosts, Host(g)
        PROVE  linked'["region"] = h /\ tool' = tool
    <3>1. g = h \/ StartDriver(g)
      BY <2>1, <2>3 DEF IInv, OneAlive, Named, Ended, Host, StartFails, Create, Declare,
         Measure, Rename, SetRunning, GiveUpStart, FailExit, Leave, GiveUp, Release, End,
         Kill, Destroy, Step
    <3>2. CASE StartDriver(g)
      BY <2>1, <3>2 DEF StartDriver
    <3>3. CASE g = h
      BY <2>1, <2>3, <3>3 DEF Named, Ended, Host, StartDriver, StartFails, Create, Declare,
         Measure, Rename, SetRunning, GiveUpStart, FailExit, Leave, GiveUp, Release, End,
         Kill, Destroy, Step, IInv, TypeOK, Names
    <3>4. QED
      BY <3>1, <3>2, <3>3
  <2>4. QED
    BY <2>2, <2>3 DEF Next
<1>2. IInv /\ [Next]_vars => [Kept]_vars
  BY <1>1
<1>3. QED
  BY <1>2, Invariant, PTL DEF Spec, CardFreedFirst

-----------------------------------------------------------------------------
(* The layout of the region. *)

(* Rounding up to a cache line. *)
LEMMA ToLineFacts ==
  \A n \in Nat : /\ ToLine(n) \in Nat /\ n <= ToLine(n)
                 /\ ToLine(n) = 64 * (ToLine(n) \div 64)
  BY DEF ToLine, CacheLine

(* The sizes of the fixed part, as the compiler lays it out. *)
LEMMA FixedSizes ==
  /\ ConfigSize = 64 /\ InputSize = 1056 /\ OutputSize = 768
  /\ DescSize = 96 /\ BlockSize = 80
  /\ CycleAt = 64 /\ InputAt = 128 /\ ResponseAt = 2240 /\ OutputAt = 2304
  /\ FutexAt = 3840 /\ StateAt = 3904 /\ ShmSize = 3968 /\ TableAt = 4096
<1> USE DEF CacheLine, MaxAxes, Word, Double, NameMax, ToLine
<1>1. ConfigSize = 64 /\ InputSize = 1056 /\ OutputSize = 768
  BY DEF ConfigSize, InputSize, OutputSize, AxisInputSize, AxisOutputSize
<1>2. DescSize = 96 /\ BlockSize = 80
  BY DEF DescSize, BlockSize
<1>3. CycleAt = 64 /\ InputAt = 128 /\ ResponseAt = 2240
  BY <1>1 DEF CycleAt, InputAt, ResponseAt
<1>4. OutputAt = 2304 /\ FutexAt = 3840 /\ StateAt = 3904
  BY <1>1, <1>3 DEF OutputAt, FutexAt, StateAt
<1>5. ShmSize = 3968 /\ TableAt = 4096
  BY <1>2, <1>4 DEF ShmSize, TableAt
<1>6. QED
  BY <1>1, <1>2, <1>3, <1>4, <1>5

(* Every counter and every pair of buffers of the fixed part is on cache   *)
(* lines of its own, as the structure's comment claims.                    *)
THEOREM FixedOnOwnLines ==
  \A p, q \in DOMAIN FixedPlaces : p # q =>
    \A a, b \in Nat :
      /\ FixedPlaces[p].at <= a /\ a < FixedPlaces[p].end
      /\ FixedPlaces[q].at <= b /\ b < FixedPlaces[q].end
      => Line(a) # Line(b)
  BY FixedSizes DEF FixedPlaces, Place, Line, CacheLine, Double, Word

(* The block's offsets and strides follow each other by whole lines. *)
LEMMA BlockFacts ==
  ASSUME NEW nIns \in Nat, NEW nOuts \in Nat
  PROVE  LET b == Block(nIns, nOuts)
         IN  /\ 4096 + (nIns + nOuts) * 96 <= b.input
             /\ b.output = b.input + 2 * b.inputStride
             /\ b.size = b.output + 2 * b.outputStride
             /\ nIns * 8 <= b.inputStride /\ nOuts * 8 <= b.outputStride
             /\ b.input \in Nat /\ b.input = 64 * (b.input \div 64)
             /\ b.inputStride \in Nat /\ b.inputStride = 64 * (b.inputStride \div 64)
             /\ b.output \in Nat /\ b.output = 64 * (b.output \div 64)
             /\ b.outputStride \in Nat /\ b.outputStride = 64 * (b.outputStride \div 64)
<1> DEFINE tableEnd == 4096 + (nIns + nOuts) * 96
           inputAt == ToLine(tableEnd)
           inputStride == ToLine(nIns * 8)
           outputAt == inputAt + 2 * inputStride
           outputStride == ToLine(nOuts * 8)
<1>1. Block(nIns, nOuts) =
        [table |-> 4096, input |-> inputAt, inputStride |-> inputStride,
         output |-> outputAt, outputStride |-> outputStride,
         size |-> outputAt + 2 * outputStride]
  BY FixedSizes DEF Block, Double
<1>2. tableEnd \in Nat /\ nIns * 8 \in Nat /\ nOuts * 8 \in Nat
  OBVIOUS
<1>3. /\ inputAt \in Nat /\ tableEnd <= inputAt /\ inputAt = 64 * (inputAt \div 64)
      /\ inputStride \in Nat /\ nIns * 8 <= inputStride
      /\ inputStride = 64 * (inputStride \div 64)
      /\ outputStride \in Nat /\ nOuts * 8 <= outputStride
      /\ outputStride = 64 * (outputStride \div 64)
  BY <1>2, ToLineFacts
<1> HIDE DEF inputAt, inputStride, outputStride, tableEnd
<1>4. outputAt \in Nat /\ outputAt = 64 * (outputAt \div 64)
  BY <1>3
<1>5. (4096 + (nIns + nOuts) * 96) <= inputAt
  BY <1>3 DEF tableEnd
<1> HIDE DEF outputAt
<1>6. outputAt = inputAt + 2 * inputStride
  BY DEF outputAt
<1>7. QED
  BY <1>1, <1>3, <1>4, <1>5, <1>6

(* The pieces, by where the block says they are. *)
LEMMA PieceFacts ==
  ASSUME NEW nIns \in Nat, NEW nOuts \in Nat
  PROVE  LET b == Block(nIns, nOuts)
         IN  Piece(nIns, nOuts) =
               [fixed   |-> [at |-> 0, end |-> 3968],
                block   |-> [at |-> 3968, end |-> 4048],
                table   |-> [at |-> 4096, end |-> 4096 + (nIns + nOuts) * 96],
                input0  |-> [at |-> b.input, end |-> b.input + nIns * 8],
                input1  |-> [at |-> b.input + b.inputStride,
                             end |-> b.input + b.inputStride + nIns * 8],
                output0 |-> [at |-> b.output, end |-> b.output + nOuts * 8],
                output1 |-> [at |-> b.output + b.outputStride,
                             end |-> b.output + b.outputStride + nOuts * 8]]
<1> DEFINE b == Block(nIns, nOuts)
<1>1. b.input \in Nat /\ b.inputStride \in Nat /\ b.output \in Nat /\ b.outputStride \in Nat
  BY BlockFacts
<1> HIDE DEF b
<1>2. /\ HalfAt(b.input, b.inputStride, 0) = b.input
      /\ HalfAt(b.input, b.inputStride, 1) = b.input + b.inputStride
      /\ HalfAt(b.output, b.outputStride, 0) = b.output
      /\ HalfAt(b.output, b.outputStride, 1) = b.output + b.outputStride
  BY <1>1 DEF HalfAt
<1>3. QED
  BY <1>2, FixedSizes DEF Piece, Place, Double, b

(* In a region with signals no piece overlaps another, and none runs over  *)
(* the end of the object that hm2_region_create makes.                     *)
THEOREM PiecesNeverOverlap ==
  \A nIns, nOuts \in Nat : nIns + nOuts > 0 => PiecesApart(nIns, nOuts)
<1> SUFFICES ASSUME NEW nIns \in Nat, NEW nOuts \in Nat, nIns + nOuts > 0
             PROVE  PiecesApart(nIns, nOuts)
  OBVIOUS
<1> DEFINE b == Block(nIns, nOuts)
           P == Piece(nIns, nOuts)
<1>1. /\ 4096 + (nIns + nOuts) * 96 <= b.input
      /\ b.input \in Nat /\ b.inputStride \in Nat /\ b.output \in Nat /\ b.outputStride \in Nat
      /\ nIns * 8 <= b.inputStride /\ nOuts * 8 <= b.outputStride
      /\ b.output = b.input + 2 * b.inputStride
      /\ b.size = b.output + 2 * b.outputStride
  BY BlockFacts
<1>2. RegionSize(nIns, nOuts) = b.size
  BY DEF RegionSize
<1> HIDE DEF b
<1>3. P = [fixed   |-> [at |-> 0, end |-> 3968],
           block   |-> [at |-> 3968, end |-> 4048],
           table   |-> [at |-> 4096, end |-> 4096 + (nIns + nOuts) * 96],
           input0  |-> [at |-> b.input, end |-> b.input + nIns * 8],
           input1  |-> [at |-> b.input + b.inputStride,
                        end |-> b.input + b.inputStride + nIns * 8],
           output0 |-> [at |-> b.output, end |-> b.output + nOuts * 8],
           output1 |-> [at |-> b.output + b.outputStride,
                        end |-> b.output + b.outputStride + nOuts * 8]]
  BY PieceFacts DEF b
<1> HIDE DEF P
<1>4. ASSUME NEW p \in Pieces, NEW q \in Pieces, p # q
      PROVE  Apart(P[p], P[q])
  BY <1>1, <1>3, <1>4 DEF Apart, Pieces
<1>5. ASSUME NEW p \in Pieces
      PROVE  P[p].end <= b.size
  BY <1>1, <1>3 DEF Pieces
<1>6. QED
  BY <1>2, <1>4, <1>5 DEF PiecesApart, P

(* The halves of a value block are on cache lines of their own.            *)
THEOREM HalvesNeverShareALine ==
  \A nIns, nOuts \in Nat : HalvesOnOwnLines(nIns, nOuts)
<1> SUFFICES ASSUME NEW nIns \in Nat, NEW nOuts \in Nat
             PROVE  HalvesOnOwnLines(nIns, nOuts)
  OBVIOUS
<1> DEFINE b == Block(nIns, nOuts)
           P == Piece(nIns, nOuts)
<1>1. ASSUME NEW at \in Nat, NEW stride \in Nat, NEW size \in Nat, size <= stride,
             at = 64 * (at \div 64), stride = 64 * (stride \div 64),
             NEW x \in Nat, NEW y \in Nat, at <= x, x < at + size,
             at + stride <= y, y < at + stride + size
      PROVE  Line(x) # Line(y)
  <2>1. x < 64 * ((at + stride) \div 64) /\ 64 * ((at + stride) \div 64) <= y
    BY <1>1
  <2>2. x \div 64 < (at + stride) \div 64 /\ (at + stride) \div 64 <= y \div 64
    BY <2>1
  <2>3. QED
    BY <2>2 DEF Line, CacheLine
<1>2. /\ b.input \in Nat /\ b.input = 64 * (b.input \div 64)
      /\ b.output \in Nat /\ b.output = 64 * (b.output \div 64)
      /\ b.inputStride \in Nat /\ b.inputStride = 64 * (b.inputStride \div 64)
      /\ b.outputStride \in Nat /\ b.outputStride = 64 * (b.outputStride \div 64)
      /\ nIns * 8 \in Nat /\ nIns * 8 <= b.inputStride
      /\ nOuts * 8 \in Nat /\ nOuts * 8 <= b.outputStride
  BY BlockFacts
<1> HIDE DEF b
<1>3. P = [fixed   |-> [at |-> 0, end |-> 3968],
           block   |-> [at |-> 3968, end |-> 4048],
           table   |-> [at |-> 4096, end |-> 4096 + (nIns + nOuts) * 96],
           input0  |-> [at |-> b.input, end |-> b.input + nIns * 8],
           input1  |-> [at |-> b.input + b.inputStride,
                        end |-> b.input + b.inputStride + nIns * 8],
           output0 |-> [at |-> b.output, end |-> b.output + nOuts * 8],
           output1 |-> [at |-> b.output + b.outputStride,
                        end |-> b.output + b.outputStride + nOuts * 8]]
  BY PieceFacts DEF b
<1> HIDE DEF P
<1>4. ASSUME NEW x \in Nat, NEW y \in Nat, P.input0.at <= x, x < P.input0.end,
             P.input1.at <= y, y < P.input1.end
      PROVE  Line(x) # Line(y)
  <2>1. /\ b.input <= x /\ x < b.input + nIns * 8
        /\ b.input + b.inputStride <= y /\ y < b.input + b.inputStride + nIns * 8
    BY <1>3, <1>4
  <2>2. QED
    BY <1>1, <1>2, <2>1
<1>5. ASSUME NEW x \in Nat, NEW y \in Nat, P.output0.at <= x, x < P.output0.end,
             P.output1.at <= y, y < P.output1.end
      PROVE  Line(x) # Line(y)
  <2>1. /\ b.output <= x /\ x < b.output + nOuts * 8
        /\ b.output + b.outputStride <= y /\ y < b.output + b.outputStride + nOuts * 8
    BY <1>3, <1>5
  <2>2. QED
    BY <1>1, <1>2, <2>1
<1>6. QED
  BY <1>4, <1>5 DEF HalvesOnOwnLines, P

-----------------------------------------------------------------------------
(* Every slot has the next index of its direction. *)
LEMMA DeclaredFacts ==
  ASSUME NEW ins \in Seq(BoundSignal), NEW outs \in Seq(BoundSignal),
         NEW s \in DOMAIN Declared(ins, outs)
  PROVE  LET d == Declared(ins, outs)[s]
         IN  /\ Inputs(ins) = Len(ins) + 5 /\ s \in Nat
             /\ s < Inputs(ins) => d.direction = "input" /\ d.index = s
             /\ Inputs(ins) <= s =>
                  /\ d.direction = "output" /\ d.index = s - Inputs(ins)
                  /\ d.index < Len(outs)
<1>1. Len(HostSignals) = 5
  BY DEF HostSignals
<1>2. Len(ins) \in Nat /\ Len(outs) \in Nat
  OBVIOUS
<1>3. s \in 0 .. Inputs(ins) + Len(outs) - 1
  BY DEF Declared
<1>4. Inputs(ins) = Len(ins) + 5
  BY <1>1 DEF Inputs
<1>5. CASE s < Len(ins)
  <2>1. Declared(ins, outs)[s] = BoundDesc("input", ins, s)
    BY <1>3, <1>5 DEF Declared
  <2>2. QED
    BY <1>2, <1>3, <1>4, <1>5, <2>1 DEF BoundDesc, Desc
<1>6. CASE Len(ins) <= s /\ s < Inputs(ins)
  <2>1. Declared(ins, outs)[s] = HostDesc(s - Len(ins) + 1, s)
    BY <1>2, <1>3, <1>6 DEF Declared
  <2>2. QED
    BY <1>2, <1>3, <1>4, <1>6, <2>1 DEF HostDesc, Desc
<1>7. CASE Inputs(ins) <= s
  <2>1. Declared(ins, outs)[s] = BoundDesc("output", outs, s - Inputs(ins))
    BY <1>2, <1>3, <1>4, <1>7 DEF Declared
  <2>2. QED
    BY <1>2, <1>3, <1>4, <1>7, <2>1 DEF BoundDesc, Desc
<1>8. QED
  BY <1>2, <1>3, <1>4, <1>5, <1>6, <1>7

(* The half of a cycle is the first or the second of its block. *)
LEMMA HalfAtFacts ==
  ASSUME NEW at \in Nat, NEW stride \in Nat, NEW cycle \in Nat
  PROVE  HalfAt(at, stride, cycle) = at \/ HalfAt(at, stride, cycle) = at + stride
<1>1. cycle % 2 = 0 \/ cycle % 2 = 1
  OBVIOUS
<1>2. QED
  BY <1>1 DEF HalfAt

(* In every cycle the input half ends before the output half begins. *)
LEMMA HalvesInOrder ==
  ASSUME NEW nIns \in Nat, NEW nOuts \in Nat, NEW cycle \in Nat
  PROVE  /\ InputHalf(nIns, nOuts, cycle) \in Nat
         /\ OutputHalf(nIns, nOuts, cycle) \in Nat
         /\ InputHalf(nIns, nOuts, cycle) + nIns * 8
              <= OutputHalf(nIns, nOuts, cycle)
<1> DEFINE b == Block(nIns, nOuts)
<1>1. /\ b.input \in Nat /\ b.inputStride \in Nat /\ b.output \in Nat
      /\ b.outputStride \in Nat /\ nIns * 8 <= b.inputStride
      /\ b.output = b.input + 2 * b.inputStride
  BY BlockFacts
<1>2. /\ InputHalf(nIns, nOuts, cycle) = HalfAt(b.input, b.inputStride, cycle)
      /\ OutputHalf(nIns, nOuts, cycle) = HalfAt(b.output, b.outputStride, cycle)
  BY DEF InputHalf, OutputHalf
<1> HIDE DEF b
<1>3. /\ InputHalf(nIns, nOuts, cycle) \in {b.input, b.input + b.inputStride}
      /\ OutputHalf(nIns, nOuts, cycle) \in {b.output, b.output + b.outputStride}
  BY <1>1, <1>2, HalfAtFacts
<1>4. QED
  BY <1>1, <1>3

(* No two signals have their values at the same place, in any cycle.       *)
THEOREM ValuesNeverShared ==
  \A ins, outs \in Seq(BoundSignal) : OwnValue(ins, outs)
<1> SUFFICES ASSUME NEW ins \in Seq(BoundSignal), NEW outs \in Seq(BoundSignal)
             PROVE  OwnValue(ins, outs)
  OBVIOUS
<1> DEFINE D == Declared(ins, outs)
           I == Inputs(ins)
           O == Len(outs)
           Half(slot, cycle) ==
             IF D[slot].direction = "input" THEN InputHalf(I, O, cycle)
             ELSE OutputHalf(I, O, cycle)
<1> SUFFICES ASSUME NEW s \in DOMAIN D, NEW t \in DOMAIN D, NEW cycle \in Nat, s # t
             PROVE  Apart(ValuePlace(Half(s, cycle), D[s].index),
                          ValuePlace(Half(t, cycle), D[t].index))
  BY DEF OwnValue
<1> DEFINE in == InputHalf(I, O, cycle)
           out == OutputHalf(I, O, cycle)
<1>1. Len(ins) \in Nat /\ O \in Nat
  OBVIOUS
<1>2. I \in Nat
  BY <1>1, DeclaredFacts
<1>3. in \in Nat /\ out \in Nat /\ in + I * 8 <= out
  BY <1>1, <1>2, HalvesInOrder
<1>4. /\ s \in Nat /\ t \in Nat
      /\ s < I => D[s].direction = "input" /\ D[s].index = s
      /\ I <= s => D[s].direction = "output" /\ D[s].index = s - I
      /\ t < I => D[t].direction = "input" /\ D[t].index = t
      /\ I <= t => D[t].direction = "output" /\ D[t].index = t - I
  BY DeclaredFacts
<1> HIDE DEF D, in, out
<1>5. /\ s < I => Half(s, cycle) = in /\ D[s].index = s
      /\ I <= s => Half(s, cycle) = out /\ D[s].index = s - I
      /\ t < I => Half(t, cycle) = in /\ D[t].index = t
      /\ I <= t => Half(t, cycle) = out /\ D[t].index = t - I
  BY <1>4 DEF in, out
<1> HIDE DEF I, Half
<1>6. ASSUME NEW h \in Nat, NEW k \in Nat, NEW m \in Nat, NEW n \in Nat,
             h + m * 8 + 8 <= k + n * 8 \/ k + n * 8 + 8 <= h + m * 8
      PROVE  Apart(ValuePlace(h, m), ValuePlace(k, n))
  BY <1>6 DEF Apart, ValuePlace, Place, Double
<1>7. CASE s < I /\ t < I
  BY <1>2, <1>3, <1>4, <1>5, <1>6, <1>7
<1>8. CASE I <= s /\ I <= t
  BY <1>2, <1>3, <1>4, <1>5, <1>6, <1>8
<1>9. CASE s < I /\ I <= t
  BY <1>2, <1>3, <1>4, <1>5, <1>6, <1>9
<1>10. CASE I <= s /\ t < I
  BY <1>2, <1>3, <1>4, <1>5, <1>6, <1>10
<1>11. QED
  BY <1>2, <1>4, <1>7, <1>8, <1>9, <1>10

LEMMA DescInTable ==
  ASSUME NEW nIns \in Nat, NEW nOuts \in Nat, NEW slot \in Nat,
         slot + 1 <= nIns + nOuts
  PROVE  Within(DescPlace(slot), Piece(nIns, nOuts).table)
<1>1. Piece(nIns, nOuts).table = [at |-> 4096, end |-> 4096 + (nIns + nOuts) * 96]
  BY PieceFacts
<1>2. DescPlace(slot) = [at |-> 4096 + slot * 96, end |-> 4096 + slot * 96 + 96]
  BY FixedSizes DEF DescPlace, Place
<1>3. QED
  BY <1>1, <1>2 DEF Within

LEMMA SeedInOutputs ==
  ASSUME NEW nIns \in Nat, NEW nOuts \in Nat, NEW index \in Nat,
         NEW place \in SeedPlaces(nIns, nOuts, index)
  PROVE  \/ Within(place, Piece(nIns, nOuts).output0)
         \/ Within(place, Piece(nIns, nOuts).output1)
<1> DEFINE b == Block(nIns, nOuts)
           P == Piece(nIns, nOuts)
<1>1. b.output \in Nat /\ b.outputStride \in Nat
  BY BlockFacts
<1>2. PICK parity \in {0, 1} :
        index < nOuts /\ place = ValuePlace(OutputHalf(nIns, nOuts, parity), index)
  BY DEF SeedPlaces
<1>3. OutputHalf(nIns, nOuts, parity) = HalfAt(b.output, b.outputStride, parity)
  BY DEF OutputHalf
<1> HIDE DEF b
<1>4. OutputHalf(nIns, nOuts, parity) \in {b.output, b.output + b.outputStride}
  BY <1>1, <1>3, HalfAtFacts
<1>5. PICK half \in Nat : /\ half = b.output \/ half = b.output + b.outputStride
                          /\ place = ValuePlace(half, index)
  BY <1>1, <1>2, <1>4
<1>6. place = [at |-> half + index * 8, end |-> half + index * 8 + 8]
  BY <1>5 DEF ValuePlace, Place, Double
<1>7. P = [fixed   |-> [at |-> 0, end |-> 3968],
           block   |-> [at |-> 3968, end |-> 4048],
           table   |-> [at |-> 4096, end |-> 4096 + (nIns + nOuts) * 96],
           input0  |-> [at |-> b.input, end |-> b.input + nIns * 8],
           input1  |-> [at |-> b.input + b.inputStride,
                        end |-> b.input + b.inputStride + nIns * 8],
           output0 |-> [at |-> b.output, end |-> b.output + nOuts * 8],
           output1 |-> [at |-> b.output + b.outputStride,
                        end |-> b.output + b.outputStride + nOuts * 8]]
  BY PieceFacts DEF b
<1> HIDE DEF P
<1>8. Within(place, P.output0) \/ Within(place, P.output1)
  BY <1>1, <1>2, <1>5, <1>6, <1>7 DEF Within
<1>9. QED
  BY <1>8 DEF P

(* The descriptors and the starting values go nowhere else.                *)
THEOREM WritesStayInside ==
  \A ins, outs \in Seq(BoundSignal) : WritesInside(ins, outs)
<1> SUFFICES ASSUME NEW ins \in Seq(BoundSignal), NEW outs \in Seq(BoundSignal)
             PROVE  WritesInside(ins, outs)
  OBVIOUS
<1>1. Inputs(ins) \in Nat /\ Len(outs) \in Nat
  <2>1. Len(HostSignals) = 5
    BY DEF HostSignals
  <2>2. QED
    BY <2>1 DEF Inputs
<1>2. ASSUME NEW slot \in DOMAIN Declared(ins, outs)
      PROVE  slot \in Nat /\ slot + 1 <= Inputs(ins) + Len(outs)
  BY <1>1, <1>2 DEF Declared
<1>3. QED
  BY <1>1, <1>2, DescInTable, SeedInOutputs DEF WritesInside

(* Every descriptor says what the core accepts, its index within its       *)
(* direction's block.                                                      *)
THEOREM DescriptorsAlwaysKnown ==
  \A ins, outs \in Seq(BoundSignal) : DescriptorsKnown(ins, outs)
<1> SUFFICES ASSUME NEW ins \in Seq(BoundSignal), NEW outs \in Seq(BoundSignal),
                    NEW s \in DOMAIN Declared(ins, outs)
             PROVE  LET d == Declared(ins, outs)[s]
                    IN  /\ d.type \in SignalTypes /\ d.unit \in SignalUnits
                        /\ d.role \in SignalRoles \ {"fastDigital"}
                        /\ d.flags \subseteq Flags
                        /\ d.direction = "input" => d.index < Inputs(ins)
                        /\ d.direction = "output" => d.index < Len(outs)
  BY DEF DescriptorsKnown
<1> DEFINE d == Declared(ins, outs)[s]
<1>1. /\ Inputs(ins) = Len(ins) + 5 /\ s \in Nat /\ Len(ins) \in Nat /\ Len(outs) \in Nat
      /\ s < Inputs(ins) => d.direction = "input" /\ d.index = s
      /\ Inputs(ins) <= s => d.direction = "output" /\ d.index < Len(outs)
  BY DeclaredFacts
<1>2. s \in 0 .. Inputs(ins) + Len(outs) - 1
  BY DEF Declared
<1>3. ASSUME NEW from \in Seq(BoundSignal), NEW index \in Nat, index < Len(from),
             NEW direction
      PROVE  LET e == BoundDesc(direction, from, index)
             IN  /\ e.type \in SignalTypes /\ e.unit \in SignalUnits
                 /\ e.role \in SignalRoles \ {"fastDigital"} /\ e.flags \subseteq Flags
  <2>1. from[index + 1] \in BoundSignal
    BY <1>3
  <2>2. PICK signal \in BoundSignal : signal = from[index + 1]
    BY <2>1
  <2>3. /\ signal.shape \in NameShapes /\ signal.type \in ShimTypes
        /\ signal.flags \subseteq Flags
    BY DEF BoundSignal
  <2>4. ChannelType(signal.type) \in SignalTypes
    BY <2>3 DEF ChannelType, ShimTypes, SignalTypes
  <2>5. ChannelRole(signal.shape, signal.type) \in SignalRoles \ {"fastDigital"}
    BY <2>3 DEF ChannelRole, NameShapes, ShimTypes, SignalRoles
  <2>6. "none" \in SignalUnits
    BY DEF SignalUnits
  <2>7. QED
    BY <2>2, <2>3, <2>4, <2>5, <2>6 DEF BoundDesc, Desc
<1>4. ASSUME NEW h \in 1 .. 5, NEW index
      PROVE  LET e == HostDesc(h, index)
             IN  /\ e.type \in SignalTypes /\ e.unit \in SignalUnits
                 /\ e.role \in SignalRoles \ {"fastDigital"} /\ e.flags \subseteq Flags
  <2>1. h = 1 \/ h = 2 \/ h = 3 \/ h = 4 \/ h = 5
    OBVIOUS
  <2>2. HostSignals[h].type \in SignalTypes /\ HostSignals[h].unit \in SignalUnits
    BY <2>1 DEF HostSignals, SignalTypes, SignalUnits
  <2>3. "analog" \in SignalRoles \ {"fastDigital"}
    BY DEF SignalRoles
  <2>4. QED
    BY <2>2, <2>3 DEF HostDesc, Desc
<1>5. CASE s < Len(ins)
  <2>1. d = BoundDesc("input", ins, s)
    BY <1>2, <1>5 DEF Declared
  <2>2. QED
    BY <1>1, <1>3, <1>5, <2>1
<1>6. CASE Len(ins) <= s /\ s < Inputs(ins)
  <2>1. d = HostDesc(s - Len(ins) + 1, s)
    BY <1>1, <1>2, <1>6 DEF Declared
  <2>2. s - Len(ins) + 1 \in 1 .. 5
    BY <1>1, <1>6
  <2>3. QED
    BY <1>1, <1>4, <1>6, <2>1, <2>2
<1>7. CASE Inputs(ins) <= s
  <2>1. d = BoundDesc("output", outs, s - Inputs(ins))
    BY <1>1, <1>2, <1>7 DEF Declared
  <2>2. s - Inputs(ins) \in Nat /\ s - Inputs(ins) < Len(outs)
    BY <1>1, <1>2, <1>7
  <2>3. QED
    BY <1>1, <1>3, <1>7, <2>1, <2>2
<1>8. QED
  BY <1>1, <1>5, <1>6, <1>7

-----------------------------------------------------------------------------
(* The signals of the region. *)

Phases == {"declare", "fix", "bind", "seed", "control", "take", "drive", "refused"}
Bound == {"seed", "control", "take", "drive"}
Running == {"control", "take", "drive"}

(* The type of every variable. *)
BindingTypeOK ==
  /\ phase \in Phases
  /\ DOMAIN paramLines \subseteq Params \cup Strays /\ paramLines \in [DOMAIN paramLines -> Values]
  /\ DOMAIN pinLines \subseteq Pins \cup Strays
  /\ pinLines \in [DOMAIN pinLines -> Values \cup {Unfit}]
  /\ declared \subseteq Cells /\ claimed \subseteq Params /\ fixed \subseteq Pins
  /\ cells \in [Cells -> Values]
  /\ owed \subseteq Strobes
  /\ phase \in Running =>
       /\ last \in [outputs -> Values] /\ answer \in [outputs -> Values]
       /\ applied \in [outputs -> Values]

(* A pin is published in all of its directions or in none. *)
Table ==
  /\ \A s \in signals : s.name \in Pins /\ s.dir \in Directions(s.name)
                          /\ s = [name |-> s.name, dir |-> s.dir]
  /\ \A s \in signals : \A d \in Directions(s.name) : Published(s.name, d)
  /\ phase \in {"declare", "fix"} => fixed = {}
  /\ \A p \in fixed : Published(p, "fromCore") /\ ~Published(p, "toCore")

(* What was bound is what the table and the fixed pins say. *)
BoundAsPublished ==
  IF phase \in Bound
    THEN /\ inputs = PinInputs \cup {[name |-> p, cell |-> Param(p)] : p \in ParamsRead}
         /\ outputs = PinOutputs \cup {Output(p, Param(p), TRUE) : p \in ParamsWritten}
    ELSE inputs = {} /\ outputs = {}

(* Of an output that is applied on change, the level to compare with is    *)
(* the one applied last; any other output's level is in its cell.          *)
Levels ==
  phase \in Running =>
    \A o \in outputs :
      IF o.onChange THEN last[o] = applied[o]
      ELSE o.name \in Unheeded \/ cells[o.cell] = applied[o]

(* A strobe that is up was raised by the control and is not done yet.      *)
Raised == \A pin \in Strobes \ Unheeded : cells[Pin(pin)] = One => pin \in owed

BindingInv == BindingTypeOK /\ Table /\ BoundAsPublished /\ Levels /\ Raised

-----------------------------------------------------------------------------
(* Two cells are one only under one name and one kind. *)
LEMMA CellNames ==
  \A a, b : /\ Pin(a) = Pin(b) => a = b
            /\ Param(a) = Param(b) => a = b
            /\ Pin(a) # Param(b)
  BY DEF Pin, Param

(* What is known of a pin that is published from the core. *)
LEMMA Publishing ==
  ASSUME Table, NEW name, Published(name, "fromCore")
  PROVE  /\ name \in InPins \cup IoPins
         /\ IF Published(name, "toCore") THEN BothWays(name)
            ELSE name \in InPins \ ProbePins
<1> DEFINE s == [name |-> name, dir |-> "fromCore"]
<1>1. s \in signals /\ s.name = name /\ s.dir = "fromCore"
  BY DEF Published
<1>2. name \in Pins /\ "fromCore" \in Directions(name)
  BY <1>1 DEF Table
<1>3. \A d \in Directions(name) : Published(name, d)
  BY <1>1 DEF Table
<1>4. name \in InPins \cup IoPins
  BY <1>2, BindingAssumption DEF Directions, BothWays, Pins
<1>5. CASE Published(name, "toCore")
  <2>1. /\ [name |-> name, dir |-> "toCore"].name = name
        /\ [name |-> name, dir |-> "toCore"].dir = "toCore"
    OBVIOUS
  <2>2. "toCore" \in Directions(name)
    BY <1>5, <2>1 DEF Published, Table
  <2>3. BothWays(name)
    BY <1>4, <2>2, BindingAssumption DEF Directions, BothWays
  <2>4. QED
    BY <1>4, <1>5, <2>3
<1>6. CASE ~Published(name, "toCore")
  <2>1. "toCore" \notin Directions(name)
    BY <1>3, <1>6
  <2>2. ~BothWays(name)
    BY <2>1 DEF Directions
  <2>3. QED
    BY <1>4, <1>6, <2>2 DEF BothWays
<1>7. QED
  BY <1>5, <1>6

(* What an output is. *)
LEMMA OutputKinds ==
  ASSUME BindingTypeOK, Table, BoundAsPublished, phase \in Bound, NEW o \in outputs
  PROVE  \/ /\ o.cell = Pin(o.name) /\ o.name \in Pins
            /\ o.onChange = Published(o.name, "toCore")
            /\ Published(o.name, "fromCore")
            /\ o = [name |-> o.name, cell |-> Pin(o.name), onChange |-> Published(o.name, "toCore")]
         \/ /\ o.cell = Param(o.name) /\ o.name \in Params /\ o.onChange = TRUE
            /\ ~Published(o.name, "fromCore")
            /\ o = [name |-> o.name, cell |-> Param(o.name), onChange |-> TRUE]
<1>1. CASE o \in PinOutputs
  <2>1. PICK s \in signals :
               s.dir = "fromCore" /\ o = Output(s.name, Pin(s.name), WrittenByTheDriver(s.name))
    BY <1>1 DEF PinOutputs
  <2>2. s.name \in Pins /\ Published(s.name, "fromCore")
    BY <2>1 DEF Table, Published
  <2>3. QED
    BY <2>1, <2>2 DEF Output, WrittenByTheDriver
<1>2. CASE o \in {Output(p, Param(p), TRUE) : p \in ParamsWritten}
  <2>1. PICK p \in ParamsWritten : o = Output(p, Param(p), TRUE)
    BY <1>2
  <2>2. p \in Params /\ ~Published(p, "fromCore")
    BY <2>1 DEF ParamsWritten, ParamsRead
  <2>3. QED
    BY <2>1, <2>2 DEF Output
<1>3. QED
  BY <1>1, <1>2 DEF BoundAsPublished

(* Outputs have cells of their own, and a cell of the model. *)
LEMMA OutputCells ==
  ASSUME BindingTypeOK, Table, BoundAsPublished, phase \in Bound
  PROVE  /\ \A o \in outputs : o.cell \in Cells /\ o.onChange \in BOOLEAN
         /\ \A a, b \in outputs : a.cell = b.cell => a = b
         /\ \A a, b \in outputs : a.name = b.name => a = b
<1>1. ASSUME NEW o \in outputs PROVE o.cell \in Cells /\ o.onChange \in BOOLEAN
  <2>1. Published(o.name, "toCore") \in BOOLEAN
    BY DEF Published
  <2>2. CASE o.cell = Pin(o.name)
    BY <1>1, <2>1, <2>2, OutputKinds, CellNames DEF Cells
  <2>3. CASE o.cell = Param(o.name)
    BY <1>1, <2>3, OutputKinds, CellNames DEF Cells
  <2>4. QED
    BY <1>1, <2>2, <2>3, OutputKinds
<1>2. ASSUME NEW a \in outputs, NEW b \in outputs, a.cell = b.cell PROVE a = b
  BY <1>2, OutputKinds, CellNames
<1>3. ASSUME NEW a \in outputs, NEW b \in outputs, a.name = b.name PROVE a = b
  BY <1>3, OutputKinds, CellNames
<1>4. QED
  BY <1>1, <1>2, <1>3

(* An output that is not applied on change is of a pin the driver only     *)
(* reads.                                                                  *)
LEMMA Heeded ==
  ASSUME BindingTypeOK, Table, BoundAsPublished, phase \in Bound, NEW o \in outputs,
         ~o.onChange, o.name \notin Unheeded
  PROVE  o.cell \notin DriverOwns /\ \A pin \in Strobes : o.cell # Pin(pin)
<1>1. o.cell = Pin(o.name) /\ Published(o.name, "fromCore") /\ ~Published(o.name, "toCore")
  BY OutputKinds
<1>2. o.name \in InPins \ ProbePins
  BY <1>1, Publishing
<1>3. o.name \notin OutPins \cup IoPins \cup Rewritten \cup Strobes
  BY <1>2, BindingAssumption DEF Unheeded
<1>4. QED
  BY <1>1, <1>3, CellNames DEF DriverOwns

-----------------------------------------------------------------------------
LEMMA BindingInitInv == BindingInit => BindingInv
<1> SUFFICES ASSUME BindingInit PROVE BindingInv
  OBVIOUS
<1>1. BindingTypeOK
  <2>1. /\ DOMAIN paramLines \subseteq Params \cup Strays
        /\ paramLines \in [DOMAIN paramLines -> Values]
    BY DEF BindingInit, Partial
  <2>2. pinLines \in Partial(Pins \cup Strays, Values \cup {Unfit})
    BY DEF BindingInit
  <2>3. /\ DOMAIN pinLines \subseteq Pins \cup Strays
        /\ pinLines \in [DOMAIN pinLines -> Values \cup {Unfit}]
    BY <2>2 DEF Partial
  <2>4. QED
    BY <2>1, <2>3, BindingAssumption DEF BindingInit, BindingTypeOK, Phases, Running
<1>2. Table /\ BoundAsPublished /\ Levels
  BY DEF BindingInit, Table, BoundAsPublished, Levels, Bound, Running
<1>3. Raised
  BY BindingAssumption DEF BindingInit, Raised, Cells, Pins
<1>4. QED
  BY <1>1, <1>2, <1>3 DEF BindingInv

-----------------------------------------------------------------------------
(* The driver declares. *)
LEMMA NewPinKeeps ==
  ASSUME BindingInv, NEW pin \in Pins, NewPin(pin)
  PROVE  BindingInv'
<1> USE DEF config, bound
<1>1. BindingTypeOK /\ Table /\ BoundAsPublished /\ Raised
  BY DEF BindingInv
<1>2. PICK value \in Values : /\ cells' = [cells EXCEPT ![Pin(pin)] = value]
                              /\ pin \in Strobes => value = Zero
  BY BindingAssumption DEF NewPin
<1>3. Pin(pin) \in Cells
  BY DEF Cells
<1>4. cells' \in [Cells -> Values]
  BY <1>1, <1>2 DEF BindingTypeOK
<1>5. BindingTypeOK'
  BY <1>1, <1>3, <1>4 DEF BindingTypeOK, NewPin, Phases, Running
<1>6. Table'
  <2>1. ASSUME NEW s \in signals'
        PROVE  /\ s.name \in Pins /\ s.dir \in Directions(s.name)
               /\ s = [name |-> s.name, dir |-> s.dir]
               /\ \A d \in Directions(s.name) : [name |-> s.name, dir |-> d] \in signals'
    <3>1. CASE s \in signals
      BY <1>1, <3>1 DEF NewPin, Table, Published
    <3>2. CASE s \in {[name |-> pin, dir |-> d] : d \in Directions(pin)}
      BY <3>2 DEF NewPin
    <3>3. QED
      BY <2>1, <3>1, <3>2 DEF NewPin
  <2>2. fixed' = {}
    BY <1>1 DEF NewPin, Table
  <2>3. QED
    BY <2>1, <2>2 DEF Table, Published
<1>7. (BoundAsPublished /\ Levels)'
  BY <1>1 DEF NewPin, BoundAsPublished, Levels, Bound, Running
<1>8. Raised'
  <2>1. SUFFICES ASSUME NEW p \in Strobes \ Unheeded, cells'[Pin(p)] = One
                 PROVE  p \in owed'
    BY DEF Raised
  <2>2. CASE p = pin
    BY <1>1, <1>2, <1>3, <2>1, <2>2, BindingAssumption DEF BindingTypeOK
  <2>3. CASE p # pin
    BY <1>1, <1>2, <2>1, <2>3, CellNames DEF BindingTypeOK, Raised, NewPin
  <2>4. QED
    BY <2>2, <2>3
<1>9. QED
  BY <1>5, <1>6, <1>7, <1>8 DEF BindingInv

LEMMA NewParamKeeps ==
  ASSUME BindingInv, NEW param \in Params, NewParam(param)
  PROVE  BindingInv'
<1> USE DEF config, bound
<1>1. BindingTypeOK /\ Table /\ BoundAsPublished /\ Raised
  BY DEF BindingInv
<1>2. PICK value \in Values : cells' = [cells EXCEPT ![Param(param)] = value]
  BY <1>1 DEF NewParam, BindingTypeOK
<1>3. Param(param) \in Cells
  BY DEF Cells
<1>4. cells' \in [Cells -> Values]
  BY <1>1, <1>2 DEF BindingTypeOK
<1>5. BindingTypeOK'
  BY <1>1, <1>3, <1>4 DEF BindingTypeOK, NewParam, Phases, Running
<1>6. Table'
  BY <1>1 DEF NewParam, Table, Published
<1>7. (BoundAsPublished /\ Levels)'
  BY <1>1 DEF NewParam, BoundAsPublished, Levels, Bound, Running
<1>8. Raised'
  BY <1>1, <1>2, CellNames DEF BindingTypeOK, Raised, NewParam
<1>9. QED
  BY <1>5, <1>6, <1>7, <1>8 DEF BindingInv

(* All is declared, or the start fails. *)
LEMMA DeclaredKeeps ==
  ASSUME BindingInv, DeclareFails \/ AllDeclared
  PROVE  BindingInv'
<1> USE DEF config, table, bound, DeclareFails, AllDeclared
<1>1. BindingTypeOK /\ Table /\ BoundAsPublished /\ Raised
  BY DEF BindingInv
<1>2. /\ phase = "declare" /\ phase' \in {"fix", "refused"}
      /\ UNCHANGED <<config, table, cells, bound, last, answer, applied, owed>>
  OBVIOUS
<1>3. BindingTypeOK'
  BY <1>1, <1>2 DEF BindingTypeOK, Phases, Running
<1>4. Table'
  BY <1>1, <1>2 DEF Table, Published
<1>5. (BoundAsPublished /\ Levels)'
  BY <1>1, <1>2 DEF BoundAsPublished, Levels, Bound, Running
<1>6. Raised'
  BY <1>1, <1>2 DEF Raised
<1>7. QED
  BY <1>3, <1>4, <1>5, <1>6 DEF BindingInv

-----------------------------------------------------------------------------
(* The host binds. *)
LEMMA FixPinsKeeps ==
  ASSUME BindingInv, FixPins
  PROVE  BindingInv'
<1> DEFINE fit == {pin \in DOMAIN pinLines : Fixable(pin)}
<1> USE DEF config, table
<1>1. BindingTypeOK /\ Table /\ BoundAsPublished /\ Raised
  BY DEF BindingInv
<1>2. /\ phase = "fix" /\ phase' \in {"bind", "refused"} /\ fixed' = fit
      /\ UNCHANGED <<config, table, inputs, outputs, last, answer, applied, owed>>
      /\ cells' = [c \in Cells |->
                     IF c \in {Pin(p) : p \in fit} THEN pinLines[c[2]] ELSE cells[c]]
  BY DEF FixPins
<1>3. ASSUME NEW p \in fit
      PROVE  /\ p \in Pins /\ pinLines[p] \in Values /\ Pin(p)[2] = p
             /\ Published(p, "fromCore") /\ ~Published(p, "toCore") /\ p \notin Strobes \ Unheeded
  <2>1. Published(p, "fromCore") /\ ~Published(p, "toCore") /\ pinLines[p] # Unfit
    BY <1>3 DEF Fixable
  <2>2. p \in InPins \ ProbePins
    BY <1>1, <2>1, Publishing
  <2>3. pinLines[p] \in Values
    BY <1>1, <1>3, <2>1 DEF BindingTypeOK
  <2>4. p \notin Strobes \ Unheeded
    BY <2>2, BindingAssumption DEF Unheeded
  <2>5. QED
    BY <2>1, <2>2, <2>3, <2>4 DEF Pins, Pin
<1>4. cells' \in [Cells -> Values]
  <2>1. ASSUME NEW c \in Cells
        PROVE  (IF c \in {Pin(p) : p \in fit} THEN pinLines[c[2]] ELSE cells[c]) \in Values
    BY <1>1, <1>3 DEF BindingTypeOK
  <2>2. QED
    BY <1>2, <2>1
<1>5. BindingTypeOK'
  BY <1>1, <1>2, <1>3, <1>4 DEF BindingTypeOK, Phases, Running
<1>6. Table'
  BY <1>1, <1>2, <1>3 DEF Table, Published
<1>7. (BoundAsPublished /\ Levels)'
  BY <1>1, <1>2 DEF BoundAsPublished, Levels, Bound, Running
<1>8. Raised'
  <2>1. SUFFICES ASSUME NEW p \in Strobes \ Unheeded, cells'[Pin(p)] = One
                 PROVE  p \in owed'
    BY DEF Raised
  <2>2. Pin(p) \in Cells /\ Pin(p) \notin {Pin(q) : q \in fit}
    BY <1>3, CellNames, BindingAssumption DEF Cells, Pins
  <2>3. cells'[Pin(p)] = cells[Pin(p)]
    BY <1>2, <2>2
  <2>4. QED
    BY <1>1, <1>2, <2>1, <2>3 DEF Raised
<1>9. QED
  BY <1>5, <1>6, <1>7, <1>8 DEF BindingInv

LEMMA BindSignalsKeeps ==
  ASSUME BindingInv, BindSignals
  PROVE  BindingInv'
<1> USE DEF config, table
<1>1. BindingTypeOK /\ Table /\ BoundAsPublished /\ Raised
  BY DEF BindingInv
<1>2. /\ phase = "bind" /\ phase' = "seed"
      /\ UNCHANGED <<config, table, cells, fixed, last, answer, applied, owed>>
      /\ inputs' = PinInputs \cup {[name |-> p, cell |-> Param(p)] : p \in ParamsRead}
      /\ outputs' = PinOutputs \cup {Output(p, Param(p), TRUE) : p \in ParamsWritten}
  BY DEF BindSignals
<1>3. BindingTypeOK'
  BY <1>1, <1>2 DEF BindingTypeOK, Phases, Running
<1>4. Table'
  BY <1>1, <1>2 DEF Table, Published
<1>5. BoundAsPublished'
  <2>1. PinInputs' = PinInputs /\ PinOutputs' = PinOutputs
    BY <1>2 DEF PinInputs, PinOutputs, Published, WrittenByTheDriver
  <2>2. ParamsRead' = ParamsRead /\ ParamsWritten' = ParamsWritten
    BY <1>2 DEF ParamsRead, ParamsWritten, Published
  <2>3. QED
    BY <1>2, <2>1, <2>2 DEF BoundAsPublished, Bound
<1>6. Levels' /\ Raised'
  BY <1>1, <1>2 DEF Levels, Running, Raised
<1>7. QED
  BY <1>3, <1>4, <1>5, <1>6 DEF BindingInv

(* From here on what is bound and published stays. *)
LEMMA BoundStays ==
  ASSUME Table, BoundAsPublished, phase \in Bound, phase' \in Running,
         UNCHANGED <<table, bound>>
  PROVE  Table' /\ BoundAsPublished'
<1> USE DEF table, bound
<1>1. Table'
  BY DEF Table, Published, Bound, Running
<1>2. BoundAsPublished'
  <2>1. PinInputs' = PinInputs /\ PinOutputs' = PinOutputs
    BY DEF PinInputs, PinOutputs, Published, WrittenByTheDriver
  <2>2. ParamsRead' = ParamsRead /\ ParamsWritten' = ParamsWritten
    BY DEF ParamsRead, ParamsWritten, Published
  <2>3. QED
    BY <2>1, <2>2 DEF BoundAsPublished, Bound, Running
<1>3. QED
  BY <1>1, <1>2

LEMMA SeedKeeps ==
  ASSUME BindingInv, Seed
  PROVE  BindingInv'
<1> USE DEF config, bound
<1>1. BindingTypeOK /\ Table /\ BoundAsPublished /\ Raised
  BY DEF BindingInv
<1>2. /\ phase = "seed" /\ phase' = "drive" /\ UNCHANGED <<config, table, cells, bound, owed>>
      /\ last' = [o \in outputs |-> cells[o.cell]]
      /\ answer' = [o \in outputs |-> cells[o.cell]] /\ applied' = answer'
  BY DEF Seed, Seeds
<1>3. \A o \in outputs : cells[o.cell] \in Values
  BY <1>1, <1>2, OutputCells DEF BindingTypeOK, Bound
<1>4. BindingTypeOK'
  BY <1>1, <1>2, <1>3 DEF BindingTypeOK, Phases, Running, table
<1>5. (Table /\ BoundAsPublished)'
  BY <1>1, <1>2, BoundStays DEF Bound, Running
<1>6. Levels' /\ Raised'
  BY <1>1, <1>2 DEF Levels, Raised
<1>7. QED
  BY <1>4, <1>5, <1>6 DEF BindingInv

-----------------------------------------------------------------------------
(* A period. *)
LEMMA ControlKeeps ==
  ASSUME BindingInv, Control
  PROVE  BindingInv'
<1> USE DEF config, bound
<1>1. BindingTypeOK /\ Table /\ BoundAsPublished /\ Levels /\ Raised
  BY DEF BindingInv
<1>2. /\ phase = "control" /\ phase' = "take" /\ answer' \in [outputs -> Values]
      /\ UNCHANGED <<config, table, cells, bound, last, applied, owed>>
  BY DEF Control
<1>3. BindingTypeOK'
  BY <1>1, <1>2 DEF BindingTypeOK, Phases, Running, table
<1>4. (Table /\ BoundAsPublished)'
  BY <1>1, <1>2, BoundStays DEF Bound, Running
<1>5. Levels' /\ Raised'
  BY <1>1, <1>2 DEF Levels, Running, Raised
<1>6. QED
  BY <1>3, <1>4, <1>5 DEF BindingInv

(* What take_answer leaves in the cells: of each output that it writes the *)
(* answer, and else what was there.                                        *)
LEMMA Taken ==
  ASSUME BindingInv, TakeAnswer
  PROVE  \A c \in Cells :
           \/ \E o \in outputs : o.cell = c /\ Written(o) /\ cells'[c] = answer[o]
           \/ /\ cells'[c] = cells[c]
              /\ \A o \in outputs : o.cell = c => ~Written(o)
<1> DEFINE written == {o \in outputs : Written(o)}
<1>1. BindingTypeOK /\ Table /\ BoundAsPublished /\ phase \in Bound
  BY DEF BindingInv, TakeAnswer, Bound
<1>2. cells' = [c \in Cells |->
                  IF \E o \in written : o.cell = c
                    THEN answer[CHOOSE o \in written : o.cell = c] ELSE cells[c]]
  BY DEF TakeAnswer
<1>3. SUFFICES ASSUME NEW c \in Cells
               PROVE  \/ \E o \in outputs : o.cell = c /\ Written(o) /\ cells'[c] = answer[o]
                      \/ /\ cells'[c] = cells[c]
                         /\ \A o \in outputs : o.cell = c => ~Written(o)
  OBVIOUS
<1>4. CASE \E o \in written : o.cell = c
  <2>1. PICK o \in written : o = CHOOSE x \in written : x.cell = c
    BY <1>4
  <2>2. o.cell = c
    BY <1>4, <2>1
  <2>3. cells'[c] = answer[o]
    BY <1>2, <1>4, <2>1
  <2>4. QED
    BY <2>2, <2>3
<1>5. CASE ~\E o \in written : o.cell = c
  BY <1>2, <1>5
<1>6. QED
  BY <1>4, <1>5

LEMMA TakeAnswerKeeps ==
  ASSUME BindingInv, TakeAnswer
  PROVE  BindingInv'
<1> USE DEF config, bound
<1>1. BindingTypeOK /\ Table /\ BoundAsPublished /\ Levels /\ Raised
  BY DEF BindingInv
<1>2. /\ phase = "take" /\ phase' = "drive" /\ UNCHANGED <<config, table, bound, answer>>
      /\ last' = [o \in outputs |-> IF o.onChange THEN answer[o] ELSE last[o]]
      /\ applied' = answer
      /\ owed' = owed \cup {o.name : o \in {x \in outputs : x.name \in Strobes /\
                               answer[x] = One /\ applied[x] # One}}
      /\ DOMAIN cells' = Cells
  BY DEF TakeAnswer
<1>3. /\ last \in [outputs -> Values] /\ answer \in [outputs -> Values]
      /\ applied \in [outputs -> Values] /\ cells \in [Cells -> Values]
  BY <1>1, <1>2 DEF BindingTypeOK, Running
<1>4. cells' \in [Cells -> Values]
  <2>1. \A c \in Cells : cells'[c] \in Values
    BY <1>3, Taken
  <2>2. cells' = [c \in Cells |-> cells'[c]]
    BY DEF TakeAnswer
  <2>3. QED
    BY <2>1, <2>2
<1>5. BindingTypeOK'
  <2>1. last' \in [outputs -> Values]
    BY <1>2, <1>3
  <2>2. owed' \subseteq Strobes
    BY <1>1, <1>2 DEF BindingTypeOK
  <2>3. QED
    BY <1>1, <1>2, <1>3, <1>4, <2>1, <2>2 DEF BindingTypeOK, Phases, Running, table
<1>6. (Table /\ BoundAsPublished)'
  BY <1>1, <1>2, BoundStays DEF Bound, Running
<1>7. Levels'
  <2>1. SUFFICES ASSUME NEW o \in outputs
                 PROVE  IF o.onChange THEN last'[o] = applied'[o]
                        ELSE o.name \in Unheeded \/ cells'[o.cell] = applied'[o]
    BY <1>2 DEF Levels
  <2>2. o.cell \in Cells /\ \A x \in outputs : x.cell = o.cell => x = o
    BY <1>1, <1>2, OutputCells DEF Bound
  <2>3. CASE o.onChange
    BY <1>2, <2>3
  <2>4. CASE ~o.onChange
    <3>1. Written(o)
      BY <2>4 DEF Written
    <3>2. cells'[o.cell] = answer[o]
      BY <2>2, <3>1, Taken
    <3>3. QED
      BY <1>2, <2>4, <3>2
  <2>5. QED
    BY <2>3, <2>4
<1>8. Raised'
  <2>1. SUFFICES ASSUME NEW pin \in Strobes \ Unheeded, cells'[Pin(pin)] = One
                 PROVE  pin \in owed'
    BY DEF Raised
  <2>2. Pin(pin) \in Cells
    BY BindingAssumption DEF Cells, Pins
  <2>3. CASE cells[Pin(pin)] = One
    BY <1>1, <1>2, <2>3 DEF Raised
  <2>4. CASE cells[Pin(pin)] # One
    <3>1. PICK o \in outputs : o.cell = Pin(pin) /\ Written(o) /\ cells'[Pin(pin)] = answer[o]
      BY <2>1, <2>2, <2>4, Taken
    <3>2. o.name = pin
      BY <1>1, <1>2, <3>1, OutputKinds, CellNames DEF Bound
    <3>3. o.onChange
      BY <1>1, <1>2, <3>1, <3>2, Heeded DEF Bound
    <3>4. answer[o] # applied[o]
      BY <1>1, <1>2, <3>1, <3>3 DEF Levels, Running, Written
    <3>5. QED
      BY <1>2, <2>1, <3>1, <3>2, <3>4
  <2>5. QED
    BY <2>3, <2>4
<1>9. QED
  BY <1>5, <1>6, <1>7, <1>8 DEF BindingInv

(* The driver's part of a period: what it changes are cells it owns, and   *)
(* strobes that are up.                                                    *)
LEMMA DriverKeeps ==
  ASSUME BindingInv, Driver
  PROVE  BindingInv'
<1> USE DEF config, bound
<1>1. BindingTypeOK /\ Table /\ BoundAsPublished /\ Levels /\ Raised
  BY DEF BindingInv
<1>2. /\ phase = "drive" /\ phase' \in Running
      /\ UNCHANGED <<config, table, bound, last, answer, applied>>
      /\ owed' \subseteq owed
  BY DEF Driver, DriverWrites, DriverDone, DriverActs, Running
<1>3. /\ cells' \in [Cells -> Values]
      /\ \A c \in Cells :
           cells'[c] # cells[c] => c \in DriverOwns \cup {Pin(p) : p \in Strobes}
      /\ \A p \in Strobes :
           cells'[Pin(p)] = One => cells[Pin(p)] = One /\ (p \in owed => p \in owed')
  <2>1. CASE DriverWrites
    <3>1. PICK cell \in DriverOwns, value \in Values : cells' = [cells EXCEPT ![cell] = value]
      BY <2>1 DEF DriverWrites
    <3>2. \A p \in Strobes : Pin(p) # cell
      BY CellNames DEF DriverOwns
    <3>3. UNCHANGED owed
      BY <2>1 DEF DriverWrites
    <3>4. cells' \in [Cells -> Values] /\ \A c \in Cells : c # cell => cells'[c] = cells[c]
      BY <1>1, <3>1 DEF BindingTypeOK
    <3>5. \A p \in Strobes : Pin(p) \in Cells
      BY BindingAssumption DEF Cells, Pins
    <3>6. QED
      BY <3>1, <3>2, <3>3, <3>4, <3>5
  <2>2. CASE DriverDone
    BY <1>1, <2>2 DEF DriverDone, BindingTypeOK
  <2>3. ASSUME NEW pin \in Strobes, DriverActs(pin)
        PROVE  /\ cells' \in [Cells -> Values]
               /\ \A c \in Cells :
                    cells'[c] # cells[c] => c \in DriverOwns \cup {Pin(p) : p \in Strobes}
               /\ \A p \in Strobes :
                    cells'[Pin(p)] = One => cells[Pin(p)] = One /\ (p \in owed => p \in owed')
    <3>1. cells' = [cells EXCEPT ![Pin(pin)] = Zero] /\ owed' = owed \ {pin}
      BY <2>3 DEF DriverActs
    <3>2. Pin(pin) \in Cells
      BY BindingAssumption DEF Cells, Pins
    <3>3. QED
      BY <1>1, <3>1, <3>2, CellNames, BindingAssumption DEF BindingTypeOK
  <2>4. QED
    BY <2>1, <2>2, <2>3 DEF Driver
<1>4. BindingTypeOK'
  BY <1>1, <1>2, <1>3 DEF BindingTypeOK, Phases, Running, table
<1>5. (Table /\ BoundAsPublished)'
  BY <1>1, <1>2, BoundStays DEF Bound, Running
<1>6. Levels'
  <2>1. SUFFICES ASSUME NEW o \in outputs, ~o.onChange, o.name \notin Unheeded
                 PROVE  cells'[o.cell] = cells[o.cell]
    BY <1>1, <1>2 DEF Levels, Running
  <2>2. o.cell \in Cells
    BY <1>1, <1>2, OutputCells DEF Bound
  <2>3. o.cell \notin DriverOwns \cup {Pin(p) : p \in Strobes}
    BY <1>1, <1>2, <2>1, Heeded DEF Bound
  <2>4. QED
    BY <1>3, <2>2, <2>3
<1>7. Raised'
  <2>1. SUFFICES ASSUME NEW pin \in Strobes \ Unheeded, cells'[Pin(pin)] = One
                 PROVE  pin \in owed'
    BY DEF Raised
  <2>2. QED
    BY <1>1, <1>3, <2>1 DEF Raised
<1>8. QED
  BY <1>4, <1>5, <1>6, <1>7 DEF BindingInv

-----------------------------------------------------------------------------
LEMMA BindingNextInv ==
  ASSUME BindingInv, [BindingNext]_bindingVars
  PROVE  BindingInv'
<1>1. CASE Start
  BY <1>1, NewPinKeeps, NewParamKeeps, DeclaredKeeps, FixPinsKeeps, BindSignalsKeeps,
     SeedKeeps
  DEF Start
<1>2. CASE UNCHANGED bindingVars
  <2> USE <1>2 DEF bindingVars, config, table, bound
  <2>1. BindingTypeOK /\ Table /\ BoundAsPublished /\ Levels /\ Raised
    BY DEF BindingInv
  <2>2. BindingTypeOK'
    BY <2>1 DEF BindingTypeOK, Running
  <2>3. Table'
    BY <2>1 DEF Table, Published
  <2>4. BoundAsPublished'
    BY <2>1
    DEF BoundAsPublished, Published, PinInputs, PinOutputs, ParamsRead, ParamsWritten,
        WrittenByTheDriver
  <2>5. Levels' /\ Raised'
    BY <2>1 DEF Levels, Raised, Running
  <2>6. QED
    BY <2>2, <2>3, <2>4, <2>5 DEF BindingInv
<1>3. QED
  BY <1>1, <1>2, ControlKeeps, TakeAnswerKeeps, DriverKeeps DEF BindingNext

LEMMA BindingAlways == BindingSpec => []BindingInv
  BY BindingInitInv, BindingNextInv, PTL DEF BindingSpec

(* Types of what is bound. *)
THEOREM BindingTypes == BindingSpec => []BindingTypeOK
<1>1. BindingInv => BindingTypeOK
  BY DEF BindingInv
<1>2. QED
  BY <1>1, BindingAlways, PTL

(* A name stands for one signal of each direction: a fixed pin that became *)
(* an input never meets a parameter of its name, and a parameter that has  *)
(* the name of a pin is left to the pin.                                   *)
THEOREM NamesAreUnique == BindingSpec => []UniqueNames
<1>1. ASSUME BindingInv PROVE UniqueNames
  <2>1. BindingTypeOK /\ Table /\ BoundAsPublished
    BY <1>1 DEF BindingInv
  <2>2. CASE phase \in Bound
    <3>1. \A a, b \in outputs : a.name = b.name => a = b
      BY <2>1, <2>2, OutputCells
    <3>2. ASSUME NEW a \in inputs
          PROVE  \/ /\ a = [name |-> a.name, cell |-> Pin(a.name)]
                    /\ Published(a.name, "toCore") \/ a.name \in fixed
                 \/ /\ a = [name |-> a.name, cell |-> Param(a.name)]
                    /\ a.name \in Params /\ ~Published(a.name, "toCore")
      <4>1. CASE a \in PinInputs
        <5>1. PICK s \in signals : /\ s.dir = "toCore" \/ s.name \in fixed
                                   /\ a = [name |-> s.name, cell |-> Pin(s.name)]
          BY <4>1 DEF PinInputs
        <5>2. s.dir = "toCore" => Published(s.name, "toCore")
          BY <2>1 DEF Table, Published
        <5>3. QED
          BY <5>1, <5>2
      <4>2. CASE a \in {[name |-> p, cell |-> Param(p)] : p \in ParamsRead}
        BY <4>2 DEF ParamsRead
      <4>3. QED
        BY <2>1, <2>2, <3>2, <4>1, <4>2 DEF BoundAsPublished
    <3>3. \A p \in fixed : p \notin Params
      <4>1. \A p \in fixed : p \in InPins
        BY <2>1, Publishing DEF Table
      <4>2. QED
        BY <4>1, BindingAssumption
    <3>4. \A a, b \in inputs : a.name = b.name => a = b
      BY <3>2, <3>3
    <3>5. QED
      BY <3>1, <3>4 DEF UniqueNames
  <2>3. CASE phase \notin Bound
    BY <2>1, <2>3 DEF BoundAsPublished, UniqueNames
  <2>4. QED
    BY <2>2, <2>3
<1>2. QED
  BY <1>1, BindingAlways, PTL

-----------------------------------------------------------------------------
(* The cells an answer changes, but for pins the driver rewrites behind    *)
(* the shim's back.                                                        *)
LEMMA ChangesAreAsked ==
  ASSUME BindingInv, [BindingNext]_bindingVars, phase = "take",
         NEW c \in Cells, cells'[c] # cells[c], \A p \in Unheeded : c # Pin(p)
  PROVE  \E o \in outputs : o.cell = c /\ answer[o] # applied[o]
<1>1. BindingTypeOK /\ Table /\ BoundAsPublished /\ Levels
  BY DEF BindingInv
<1>2. TakeAnswer
  <2>1. CASE UNCHANGED bindingVars
    BY <2>1 DEF bindingVars
  <2>2. CASE Start
    BY <2>2
    DEF Start, NewPin, NewParam, DeclareFails, AllDeclared, FixPins, BindSignals, Seed
  <2>3. CASE Driver \/ Control
    BY <2>3 DEF Driver, DriverWrites, DriverDone, DriverActs, Control
  <2>4. QED
    BY <2>1, <2>2, <2>3 DEF BindingNext
<1>3. PICK o \in outputs : o.cell = c /\ Written(o) /\ cells'[c] = answer[o]
  BY <1>2, Taken
<1>4. CASE o.onChange
  BY <1>1, <1>3, <1>4 DEF Levels, Running, Written
<1>5. CASE ~o.onChange
  <2>1. o.cell = Pin(o.name)
    BY <1>1, <1>5, OutputKinds DEF Bound
  <2>2. o.name \notin Unheeded
    BY <1>3, <2>1
  <2>3. cells[c] = applied[o]
    BY <1>1, <1>3, <1>5, <2>2 DEF Levels, Running
  <2>4. QED
    BY <1>3, <2>3
<1>6. QED
  BY <1>4, <1>5

(* Whatever the driver declares, the answer changes a cell only when the   *)
(* control changed its mind about that cell's output, but for the inputs   *)
(* the driver rewrites that the shim does not know of.                     *)
THEOREM AnswersChangeWhatIsAsked == BindingSpec => OnlyWhenAsked
<1>1. BindingInv /\ [BindingNext]_bindingVars =>
        [phase = "take" =>
           \A cell \in Cells \ {Pin(p) : p \in Unheeded} : cells'[cell] # cells[cell] =>
             \E o \in outputs : o.cell = cell /\ answer[o] # applied[o]]_bindingVars
  BY ChangesAreAsked
<1>2. QED
  BY <1>1, BindingAlways, PTL DEF BindingSpec, OnlyWhenAsked

(* A strobe is acted on once for each time the control raises it, but for  *)
(* those that the shim publishes one way only.                             *)
THEOREM StrobesActOnce == BindingSpec => ActsOnce
<1>1. BindingInv =>
        \A pin \in Strobes \ Unheeded : cells[Pin(pin)] = One => pin \in owed
  BY DEF BindingInv, Raised
<1>2. BindingInv /\ [BindingNext]_bindingVars =>
        [\A pin \in Strobes \ Unheeded : DoneOnce(pin)]_bindingVars
  BY <1>1 DEF DoneOnce
<1>3. QED
  BY <1>2, BindingAlways, PTL DEF BindingSpec, ActsOnce
=============================================================================
