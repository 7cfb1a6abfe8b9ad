----------------------------- MODULE Shim_proofs -----------------------------
(***************************************************************************)
(* Proofs about HAL's arena and tables, for every size of them, every set  *)
(* of names and every sequence of calls: no block overlaps another, no     *)
(* table is overrun, no cell is anybody else's.  And about the cells: what *)
(* one side writes is what the other reads.                                *)
(*                                                                         *)
(* The invariant adds to these that everything handed out lies below the   *)
(* mark, so that what is taken next is new.                                *)
(***************************************************************************)
EXTENDS Arena, Cells, SequenceTheorems, TLAPS

(* The heap with the mark at u and the blocks of B below it. *)
HeapOf(u, B) ==
  /\ u \in Nat /\ u <= ArenaBytes /\ u % 8 = 0
  /\ B \subseteq [at : Nat, end : Nat]
  /\ \A a \in B : a.end <= u /\ a.at % 8 = 0
  /\ \A a, b \in B : a # b => Apart(a, b)

Heap == HeapOf(used, blocks)

CellsBelow ==
  /\ \A s \in signals : s.cell < used
  /\ \A p \in params : p.cell < used

Tables == TablesHold /\ CellsApart /\ HandlesPublished

IInv == TypeOK /\ Heap /\ CellsBelow /\ Tables

LEMMA WantFacts ==
  \A n \in Nat : Want(n) \in Nat /\ n <= Want(n) /\ Want(n) % 8 = 0
<1> SUFFICES ASSUME NEW n \in Nat
             PROVE  Want(n) \in Nat /\ n <= Want(n) /\ Want(n) % 8 = 0
  OBVIOUS
<1>1. PICK k \in Nat : k = (n + 7) \div 8
  OBVIOUS
<1>2. Want(n) = k * 8 /\ n <= k * 8
  BY <1>1 DEF Want
<1>3. QED
  BY <1>2

(* One more block above the mark. *)
LEMMA OneBlock ==
  ASSUME Sizes, NEW u, NEW B, HeapOf(u, B), NEW size \in Nat, Fits(u, size)
  PROVE  HeapOf(u + Want(size), B \cup {Block(u, size)}) /\ u <= u + Want(size)
<1> DEFINE C == B \cup {Block(u, size)}
<1>1. PICK w \in Nat : w = Want(size) /\ w % 8 = 0
  BY WantFacts
<1>2. Block(u, size) = [at |-> u, end |-> u + w]
  BY <1>1 DEF Block
<1>3. u \in Nat /\ u % 8 = 0 /\ u + w <= ArenaBytes
  BY <1>1 DEF Fits, Sizes, HeapOf
<1>4. u + w \in Nat /\ u <= u + w /\ (u + w) % 8 = 0
  BY <1>1, <1>3
<1>5. C \subseteq [at : Nat, end : Nat]
  BY <1>2, <1>3, <1>4 DEF HeapOf
<1>6. \A a \in C : a.end <= u + w /\ a.at % 8 = 0
  BY <1>2, <1>3, <1>4 DEF HeapOf
<1>7. ASSUME NEW a \in C, NEW b \in C, a # b
      PROVE  Apart(a, b)
  <2>1. CASE a \in B /\ b \in B
    BY <1>7, <2>1 DEF HeapOf
  <2>2. CASE a \in B /\ b = Block(u, size)
    BY <1>2, <2>2 DEF HeapOf, Apart
  <2>3. CASE a = Block(u, size) /\ b \in B
    BY <1>2, <2>3 DEF HeapOf, Apart
  <2>4. QED
    BY <1>7, <2>1, <2>2, <2>3
<1>8. QED
  BY <1>1, <1>3, <1>4, <1>5, <1>6, <1>7 DEF HeapOf

(* A name and a cell above the mark, and the cell is new. *)
LEMMA NameAndCell ==
  ASSUME Sizes, TypeOK, Heap, NEW name \in Names, CellFits(name)
  PROVE  LET B == blocks \cup {Block(used, NameBytes(name)), Block(CellAt(name), CellSize)}
         IN  /\ HeapOf(CellAt(name) + CellSize, B)
             /\ CellAt(name) \in Nat /\ used <= CellAt(name)
             /\ CellAt(name) < CellAt(name) + CellSize
<1>1. NameBytes(name) \in Nat /\ CellSize = 8 /\ CellSize \in Nat
  BY DEF NameBytes, Sizes, CellSize
<1>2. Fits(used, NameBytes(name)) /\ Fits(CellAt(name), CellSize)
  BY DEF CellFits, NameFits
<1>3. /\ HeapOf(CellAt(name), blocks \cup {Block(used, NameBytes(name))})
      /\ used <= CellAt(name)
  BY <1>1, <1>2, OneBlock DEF Heap, CellAt
<1>4. HeapOf(CellAt(name) + Want(CellSize),
             (blocks \cup {Block(used, NameBytes(name))}) \cup {Block(CellAt(name), CellSize)})
  BY <1>1, <1>2, <1>3, OneBlock
<1>5. Want(CellSize) = CellSize
  BY <1>1 DEF Want
<1>6. CellAt(name) \in Nat
  BY <1>3 DEF HeapOf
<1>7. (blocks \cup {Block(used, NameBytes(name))}) \cup {Block(CellAt(name), CellSize)}
        = blocks \cup {Block(used, NameBytes(name)), Block(CellAt(name), CellSize)}
  OBVIOUS
<1>8. QED
  BY <1>1, <1>3, <1>4, <1>5, <1>6, <1>7

-----------------------------------------------------------------------------
LEMMA InitInv == Sizes /\ Init => IInv
<1> SUFFICES ASSUME Sizes, Init PROVE IInv
  OBVIOUS
<1>1. TypeOK
  <2>1. ready \in Seq(BOOLEAN)
    BY DEF Init
  <2>2. overflowed \in BOOLEAN
    BY DEF Init
  <2>3. QED
    BY <2>1, <2>2 DEF Init, TypeOK
<1>2. Heap
  BY DEF Init, Heap, HeapOf, Sizes
<1>3. CellsBelow /\ Tables
  BY DEF Init, CellsBelow, Tables, TablesHold, CellsApart, HandlesPublished, Sizes
<1>4. QED
  BY <1>1, <1>2, <1>3 DEF IInv

(* Calls that hand out memory but declare nothing. *)
LEMMA HeapOnly ==
  ASSUME Sizes, IInv, Heap', used <= used', overflowed' \in BOOLEAN, ready' \in Seq(BOOLEAN),
         UNCHANGED <<signals, signalCount, functs, functCount, params, refs>>
  PROVE  IInv'
<1>1. TypeOK'
  BY DEF IInv, TypeOK, Heap, HeapOf
<1>2. CellsBelow'
  BY DEF IInv, CellsBelow, TypeOK, Heap, HeapOf
<1>3. Tables'
  BY DEF IInv, Tables, TablesHold, CellsApart, HandlesPublished
<1>4. QED
  BY <1>1, <1>2, <1>3 DEF IInv

(* hal_malloc, one block or none. *)
LEMMA OneTake ==
  ASSUME Sizes, IInv, NEW size \in Nat, (Fits(used, size) /\ Take(size)) \/ Full
  PROVE  Heap' /\ used <= used' /\ overflowed' \in BOOLEAN
<1>1. CASE Fits(used, size) /\ Take(size)
  <2>1. HeapOf(used + Want(size), blocks \cup {Block(used, size)}) /\ used <= used + Want(size)
    BY <1>1, OneBlock DEF IInv, Heap
  <2>2. /\ used' = used + Want(size) /\ blocks' = blocks \cup {Block(used, size)}
        /\ overflowed' = overflowed
    BY <1>1 DEF Take
  <2>3. QED
    BY <2>1, <2>2 DEF Heap, IInv, TypeOK
<1>2. CASE Full
  <2>1. used' = used /\ blocks' = blocks /\ overflowed' = TRUE
    BY <1>2 DEF Full
  <2>2. QED
    BY <2>1 DEF IInv, Heap, HeapOf
<1>3. QED
  BY <1>1, <1>2

LEMMA MallocInv ==
  ASSUME Sizes, IInv, NEW size \in Nat, HalMalloc(size)
  PROVE  IInv'
<1>1. (Fits(used, size) /\ Take(size)) \/ Full
  BY DEF HalMalloc
<1>2. /\ UNCHANGED <<signals, signalCount, functs, functCount, params, refs>>
      /\ ready' \in Seq(BOOLEAN)
  BY DEF HalMalloc, IInv, TypeOK
<1>3. QED
  BY <1>1, <1>2, OneTake, HeapOnly

LEMMA ComponentInv ==
  ASSUME Sizes, IInv,
         HalInit \/ \E id \in DOMAIN ready, value \in BOOLEAN : HalSetReady(id, value)
  PROVE  IInv'
<1>1. /\ UNCHANGED <<signals, signalCount, functs, functCount, params, refs>>
      /\ used' = used /\ blocks' = blocks /\ overflowed' = overflowed
  BY DEF HalInit, HalSetReady, heap
<1>2. ready' \in Seq(BOOLEAN)
  <2>1. ready \in Seq(BOOLEAN)
    BY DEF IInv, TypeOK
  <2>2. CASE HalInit
    <3>1. Append(ready, FALSE) \in Seq(BOOLEAN)
      BY <2>1, AppendProperties
    <3>2. QED
      BY <2>1, <2>2, <3>1 DEF HalInit
  <2>3. ASSUME NEW id \in DOMAIN ready, NEW value \in BOOLEAN, HalSetReady(id, value)
        PROVE  ready' \in Seq(BOOLEAN)
    <3>1. id \in 1 .. Len(ready)
      BY <2>1
    <3>2. [ready EXCEPT ![id] = value] \in Seq(BOOLEAN)
      BY <2>1, <3>1, ExceptSeq
    <3>3. QED
      BY <2>3, <3>2 DEF HalSetReady
  <2>4. QED
    BY <2>2, <2>3
<1>3. Heap' /\ used <= used' /\ overflowed' \in BOOLEAN
  BY <1>1 DEF IInv, TypeOK, Heap, HeapOf
<1>4. QED
  BY <1>1, <1>2, <1>3, HeapOnly

LEMMA NewPinFailsInv ==
  ASSUME Sizes, IInv, NEW name \in Names, NewPinFails(name)
  PROVE  IInv'
<1>1. /\ UNCHANGED <<signals, signalCount, functs, functCount, params, refs>>
      /\ ready' \in Seq(BOOLEAN)
  BY DEF NewPinFails, IInv, TypeOK
<1>2. CASE TooLong(name) /\ UNCHANGED heap
  <2>1. Heap' /\ used <= used' /\ overflowed' \in BOOLEAN
    BY <1>2 DEF heap, IInv, TypeOK, Heap, HeapOf
  <2>2. QED
    BY <1>1, <2>1, HeapOnly
<1>3. CASE Full
  BY <1>1, <1>3, OneTake, HeapOnly
<1>4. CASE /\ NameFits(name) /\ overflowed' = TRUE
           /\ used' = CellAt(name) /\ blocks' = blocks \cup {Block(used, NameBytes(name))}
  <2>1. NameBytes(name) \in Nat /\ Fits(used, NameBytes(name))
    BY <1>4 DEF NameBytes, Sizes, NameFits
  <2>2. /\ HeapOf(used + Want(NameBytes(name)), blocks \cup {Block(used, NameBytes(name))})
        /\ used <= used + Want(NameBytes(name))
    BY <2>1, OneBlock DEF IInv, Heap
  <2>3. Heap' /\ used <= used' /\ overflowed' \in BOOLEAN
    BY <1>4, <2>2 DEF Heap, CellAt
  <2>4. QED
    BY <1>1, <2>3, HeapOnly
<1>5. QED
  BY <1>2, <1>3, <1>4 DEF NewPinFails, TakeFails

-----------------------------------------------------------------------------
(* What a call that takes a name and a cell does to the heap. *)
LEMMA CellTaken ==
  ASSUME Sizes, IInv, NEW name \in Names, CellFits(name), TakeCell(name)
  PROVE  /\ Heap' /\ used <= used' /\ overflowed' \in BOOLEAN
         /\ CellAt(name) \in Nat /\ used <= CellAt(name) /\ CellAt(name) < used'
         /\ \A s \in signals : s.cell < CellAt(name)
         /\ \A p \in params : p.cell < CellAt(name)
<1>1. /\ used' = CellAt(name) + CellSize
      /\ blocks' = blocks \cup {Block(used, NameBytes(name)), Block(CellAt(name), CellSize)}
      /\ overflowed' = overflowed
  BY DEF TakeCell
<1>2. /\ Heap' /\ CellAt(name) \in Nat /\ used <= CellAt(name)
      /\ CellAt(name) < CellAt(name) + CellSize
  BY <1>1, NameAndCell DEF IInv, Heap
<1>3. used \in Nat /\ used' \in Nat
  BY <1>2 DEF IInv, Heap, HeapOf
<1>4. \A s \in signals : s.cell \in Nat /\ s.cell < used
  BY DEF IInv, TypeOK, CellsBelow
<1>5. \A p \in params : p.cell \in Nat /\ p.cell < used
  BY DEF IInv, TypeOK, CellsBelow
<1>6. overflowed' \in BOOLEAN
  BY <1>1 DEF IInv, TypeOK
<1>7. QED
  BY <1>1, <1>2, <1>3, <1>4, <1>5, <1>6

(* What the table of signals has to hold, for the calls that add to it.   *)
SignalsOK ==
  /\ signals \subseteq [slot : Nat, name : Names, type : Types,
                        dir : {"toCore", "fromCore"}, cell : Nat]
  /\ signalCount \in Nat /\ signalCount <= MaxSignals
  /\ \A s \in signals : s.slot < signalCount /\ s.cell < used
  /\ \A s, t \in signals : s.slot = t.slot => s = t
  /\ \A s, t \in signals : s.cell = t.cell /\ s # t =>
       s.name = t.name /\ s.type = t.type /\ s.dir # t.dir
  /\ \A p \in params, s \in signals : p.cell # s.cell

(* One more signal, at a cell nobody has. *)
LEMMA OnePublished ==
  ASSUME Sizes, IInv, NEW name \in Names, NEW type \in Types,
         NEW dir \in {"toCore", "fromCore"}, CellFits(name), TakeCell(name),
         PublishOne(name, type, dir, CellAt(name)), params' = params
  PROVE  SignalsOK'
<1> DEFINE new == Entry(signalCount, name, type, dir, CellAt(name))
<1>1. /\ signals' = signals \cup {new} /\ signalCount' = signalCount + 1
      /\ signalCount < MaxSignals
  BY DEF PublishOne
<1>2. /\ used \in Nat /\ used' \in Nat /\ CellAt(name) \in Nat /\ CellAt(name) < used'
      /\ used <= used'
      /\ \A s \in signals : s.cell < CellAt(name)
      /\ \A p \in params : p.cell < CellAt(name)
  BY CellTaken DEF Heap, HeapOf, IInv
<1>3. /\ new.slot = signalCount /\ new.cell = CellAt(name)
      /\ new \in [slot : Nat, name : Names, type : Types,
                  dir : {"toCore", "fromCore"}, cell : Nat]
  BY <1>2 DEF Entry, IInv, TypeOK
<1> HIDE DEF new
<1>4. /\ signals \subseteq [slot : Nat, name : Names, type : Types,
                            dir : {"toCore", "fromCore"}, cell : Nat]
      /\ params \subseteq [name : Names, type : Types, cell : Nat, writable : BOOLEAN]
      /\ signalCount \in Nat /\ MaxSignals \in Nat
  BY DEF IInv, TypeOK, Sizes
<1>5. /\ \A s \in signals : s.slot < signalCount
      /\ \A s, t \in signals : s.slot = t.slot => s = t
      /\ \A s, t \in signals : s.cell = t.cell /\ s # t =>
           s.name = t.name /\ s.type = t.type /\ s.dir # t.dir
      /\ \A p \in params, s \in signals : p.cell # s.cell
  BY DEF IInv, Tables, TablesHold, CellsApart
<1>6. \A s \in signals' : s.slot < signalCount' /\ s.cell < used'
  BY <1>1, <1>2, <1>3, <1>4, <1>5
<1>7. \A s, t \in signals' : s.slot = t.slot => s = t
  BY <1>1, <1>3, <1>4, <1>5
<1>8. \A s, t \in signals' : s.cell = t.cell /\ s # t =>
        s.name = t.name /\ s.type = t.type /\ s.dir # t.dir
  BY <1>1, <1>2, <1>3, <1>4, <1>5
<1>9. \A p \in params, s \in signals' : p.cell # s.cell
  BY <1>1, <1>2, <1>3, <1>4, <1>5
<1>10. QED
  BY <1>1, <1>3, <1>4, <1>6, <1>7, <1>8, <1>9 DEF SignalsOK

(* Both directions of a pin, at a cell nobody has. *)
LEMMA BothPublished ==
  ASSUME Sizes, IInv, NEW name \in Names, NEW type \in Types,
         CellFits(name), TakeCell(name), PublishBoth(name, type, CellAt(name)),
         params' = params
  PROVE  SignalsOK'
<1> DEFINE in == Entry(signalCount, name, type, "fromCore", CellAt(name))
           out == Entry(signalCount + 1, name, type, "toCore", CellAt(name))
<1>1. /\ signals' = signals \cup {in, out} /\ signalCount' = signalCount + 2
      /\ signalCount + 1 < MaxSignals
  BY DEF PublishBoth
<1>2. /\ used \in Nat /\ used' \in Nat /\ CellAt(name) \in Nat /\ CellAt(name) < used'
      /\ used <= used'
      /\ \A s \in signals : s.cell < CellAt(name)
      /\ \A p \in params : p.cell < CellAt(name)
  BY CellTaken DEF Heap, HeapOf, IInv
<1>3. /\ in.slot = signalCount /\ in.cell = CellAt(name)
      /\ out.slot = signalCount + 1 /\ out.cell = CellAt(name)
      /\ in.name = out.name /\ in.type = out.type /\ in.dir # out.dir
      /\ {in, out} \subseteq [slot : Nat, name : Names, type : Types,
                              dir : {"toCore", "fromCore"}, cell : Nat]
  BY <1>2 DEF Entry, IInv, TypeOK
<1> HIDE DEF in, out
<1>4. /\ signals \subseteq [slot : Nat, name : Names, type : Types,
                            dir : {"toCore", "fromCore"}, cell : Nat]
      /\ params \subseteq [name : Names, type : Types, cell : Nat, writable : BOOLEAN]
      /\ signalCount \in Nat /\ MaxSignals \in Nat
  BY DEF IInv, TypeOK, Sizes
<1>5. /\ \A s \in signals : s.slot < signalCount
      /\ \A s, t \in signals : s.slot = t.slot => s = t
      /\ \A s, t \in signals : s.cell = t.cell /\ s # t =>
           s.name = t.name /\ s.type = t.type /\ s.dir # t.dir
      /\ \A p \in params, s \in signals : p.cell # s.cell
  BY DEF IInv, Tables, TablesHold, CellsApart
<1>6. \A s \in signals' : s.slot < signalCount' /\ s.cell < used'
  BY <1>1, <1>2, <1>3, <1>4, <1>5
<1>7. \A s, t \in signals' : s.slot = t.slot => s = t
  BY <1>1, <1>3, <1>4, <1>5
<1>8. \A s, t \in signals' : s.cell = t.cell /\ s # t =>
        s.name = t.name /\ s.type = t.type /\ s.dir # t.dir
  BY <1>1, <1>2, <1>3, <1>4, <1>5
<1>9. \A p \in params, s \in signals' : p.cell # s.cell
  BY <1>1, <1>2, <1>3, <1>4, <1>5
<1>10. QED
  BY <1>1, <1>3, <1>4, <1>6, <1>7, <1>8, <1>9 DEF SignalsOK

(* A pin is declared, published or not: what is left to show is what the   *)
(* driver has a handle of.                                                 *)
LEMMA PinDeclared ==
  ASSUME Sizes, IInv, NEW name \in Names, CellFits(name), TakeCell(name), SignalsOK',
         UNCHANGED <<functs, functCount, params, ready>>,
         refs' \subseteq [name : Names, dir : PinDirs, type : Types, cell : Nat],
         HandlesPublished'
  PROVE  IInv'
<1>1. /\ Heap' /\ used <= used' /\ overflowed' \in BOOLEAN
      /\ \A p \in params : p.cell < CellAt(name)
      /\ CellAt(name) < used' /\ CellAt(name) \in Nat
  BY CellTaken
<1>2. used' \in Nat /\ blocks' \subseteq [at : Nat, end : Nat]
  BY <1>1 DEF Heap, HeapOf
<1>3. TypeOK'
  BY <1>1, <1>2 DEF IInv, TypeOK, SignalsOK
<1>4. CellsBelow'
  <2>1. \A p \in params' : p.cell \in Nat /\ p.cell < CellAt(name)
    BY <1>1 DEF IInv, TypeOK
  <2>2. \A p \in params' : p.cell < used'
    BY <1>1, <1>2, <2>1
  <2>3. QED
    BY <2>2 DEF CellsBelow, SignalsOK
<1>5. TablesHold'
  BY DEF IInv, Tables, TablesHold, SignalsOK
<1>6. CellsApart'
  BY DEF IInv, Tables, CellsApart, SignalsOK
<1>7. QED
  BY <1>1, <1>3, <1>4, <1>5, <1>6 DEF IInv, Tables

LEMMA NewPinInv ==
  ASSUME Sizes, IInv, NEW name \in Names, NEW dir \in PinDirs, NEW type \in Types,
         NewPin(name, dir, type)
  PROVE  IInv'
<1> DEFINE cell == CellAt(name)
           new == [name |-> name, dir |-> dir, type |-> type, cell |-> cell]
<1>1. /\ CellFits(name) /\ TakeCell(name)
      /\ UNCHANGED <<functs, functCount, params, ready>>
      /\ refs' = refs \cup {new}
  BY DEF NewPin
<1>2. cell \in Nat
  BY <1>1, CellTaken
<1>3. refs' \subseteq [name : Names, dir : PinDirs, type : Types, cell : Nat]
  BY <1>1, <1>2 DEF IInv, TypeOK
<1>4. ChannelDir(dir) \in {"toCore", "fromCore"}
  BY DEF ChannelDir
<1>5. CASE BothWays(name, dir)
  <2>1. PublishBoth(name, type, cell)
    BY <1>5 DEF NewPin
  <2>2. SignalsOK'
    BY <1>1, <2>1, BothPublished
  <2>3. /\ signals \subseteq signals'
        /\ Entry(signalCount, name, type, "fromCore", cell) \in signals'
        /\ Entry(signalCount + 1, name, type, "toCore", cell) \in signals'
    BY <2>1 DEF PublishBoth
  <2>4. \A d \in {"toCore", "fromCore"} :
          \E s \in signals' : s.name = name /\ s.type = type /\ s.dir = d /\ s.cell = cell
    BY <2>3 DEF Entry
  <2>5. HandlesPublished'
    BY <1>1, <2>3, <2>4 DEF HandlesPublished, IInv, Tables
  <2>6. QED
    BY <1>1, <1>3, <2>2, <2>5, PinDeclared
<1>6. CASE ~BothWays(name, dir)
  <2>1. PublishOne(name, type, ChannelDir(dir), cell)
    BY <1>6 DEF NewPin
  <2>2. SignalsOK'
    BY <1>1, <1>4, <2>1, OnePublished
  <2>3. /\ signals \subseteq signals'
        /\ Entry(signalCount, name, type, ChannelDir(dir), cell) \in signals'
    BY <2>1 DEF PublishOne
  <2>4. \E s \in signals' : s.name = name /\ s.type = type
                              /\ s.dir = ChannelDir(dir) /\ s.cell = cell
    BY <2>3 DEF Entry
  <2>5. HandlesPublished'
    BY <1>1, <1>6, <2>3, <2>4 DEF HandlesPublished, IInv, Tables
  <2>6. QED
    BY <1>1, <1>3, <2>2, <2>5, PinDeclared
<1>7. QED
  BY <1>5, <1>6

LEMMA UnpublishedInv ==
  ASSUME Sizes, IInv, NEW name \in Names, NEW dir \in PinDirs, NEW type \in Types,
         NewPinUnpublished(name, dir, type)
  PROVE  IInv'
<1>1. /\ CellFits(name) /\ TakeCell(name)
      /\ UNCHANGED <<functs, functCount, params, ready, refs>>
  BY DEF NewPinUnpublished
<1>2. refs' \subseteq [name : Names, dir : PinDirs, type : Types, cell : Nat]
  BY <1>1 DEF IInv, TypeOK
<1>3. CASE PublishOne(name, type, "fromCore", CellAt(name))
  <2>1. SignalsOK'
    BY <1>1, <1>3, OnePublished
  <2>2. signals \subseteq signals'
    BY <1>3 DEF PublishOne
  <2>3. HandlesPublished'
    BY <1>1, <2>2 DEF HandlesPublished, IInv, Tables
  <2>4. QED
    BY <1>1, <1>2, <2>1, <2>3, PinDeclared
<1>4. CASE UNCHANGED <<signals, signalCount>>
  <2>1. used \in Nat /\ used' \in Nat /\ used <= used'
    BY <1>1, CellTaken DEF IInv, Heap, HeapOf
  <2>2. \A s \in signals : s.cell \in Nat /\ s.cell < used
    BY DEF IInv, TypeOK, CellsBelow
  <2>3. \A s \in signals' : s.cell < used'
    BY <1>4, <2>1, <2>2
  <2>4. SignalsOK'
    BY <1>1, <1>4, <2>3 DEF SignalsOK, IInv, TypeOK, Tables, TablesHold, CellsApart
  <2>5. HandlesPublished'
    BY <1>1, <1>4 DEF HandlesPublished, IInv, Tables
  <2>6. QED
    BY <1>1, <1>2, <2>4, <2>5, PinDeclared
<1>5. QED
  BY <1>3, <1>4 DEF NewPinUnpublished

LEMMA NewParamInv ==
  ASSUME Sizes, IInv, NEW name \in Names, NEW dir \in ParamDirs, NEW type \in Types,
         NewParam(name, dir, type)
  PROVE  IInv'
<1> DEFINE new == [name |-> name, type |-> type, cell |-> CellAt(name),
                   writable |-> dir = "rw"]
<1>1. /\ CellFits(name) /\ TakeCell(name)
      /\ UNCHANGED <<signals, signalCount, functs, functCount, ready, refs>>
      /\ params' = params \cup {new} \/ params' = params
  BY DEF NewParam
<1>2. /\ Heap' /\ used <= used' /\ overflowed' \in BOOLEAN
      /\ CellAt(name) \in Nat /\ CellAt(name) < used'
      /\ \A s \in signals : s.cell < CellAt(name)
      /\ \A p \in params : p.cell < CellAt(name)
  BY <1>1, CellTaken
<1>3. used \in Nat /\ used' \in Nat /\ blocks' \subseteq [at : Nat, end : Nat]
  BY <1>2 DEF Heap, HeapOf, IInv
<1>4. (dir = "rw") \in BOOLEAN
  OBVIOUS
<1>5. new \in [name : Names, type : Types, cell : Nat, writable : BOOLEAN]
  BY <1>2, <1>4, Zenon
<1>6. new.cell = CellAt(name)
  OBVIOUS
<1> HIDE DEF new
<1>7. /\ signals \subseteq [slot : Nat, name : Names, type : Types,
                            dir : {"toCore", "fromCore"}, cell : Nat]
      /\ params \subseteq [name : Names, type : Types, cell : Nat, writable : BOOLEAN]
  BY DEF IInv, TypeOK
<1>8. TypeOK'
  <2>1. params' \subseteq [name : Names, type : Types, cell : Nat, writable : BOOLEAN]
    BY <1>1, <1>5, <1>7
  <2>2. QED
    BY <1>1, <1>2, <1>3, <2>1 DEF IInv, TypeOK
<1>9. CellsBelow'
  <2>1. \A s \in signals : s.cell \in Nat /\ s.cell < used'
    BY <1>2, <1>3, <1>7
  <2>2. \A p \in params : p.cell \in Nat /\ p.cell < used'
    BY <1>2, <1>3, <1>7
  <2>3. QED
    BY <1>1, <1>2, <1>6, <2>1, <2>2 DEF CellsBelow
<1>10. CellsApart'
  <2>1. \A s, t \in signals : s.cell = t.cell /\ s # t =>
          s.name = t.name /\ s.type = t.type /\ s.dir # t.dir
    BY DEF IInv, Tables, CellsApart
  <2>2. \A p \in params, s \in signals : p.cell # s.cell
    BY DEF IInv, Tables, CellsApart
  <2>3. \A p, q \in params : p.cell = q.cell => p = q
    BY DEF IInv, Tables, CellsApart
  <2>4. \A p \in params', s \in signals' : p.cell # s.cell
    BY <1>1, <1>2, <1>6, <1>7, <2>2
  <2>5. \A p, q \in params' : p.cell = q.cell => p = q
    BY <1>1, <1>2, <1>6, <1>7, <2>3
  <2>6. QED
    BY <1>1, <2>1, <2>4, <2>5 DEF CellsApart
<1>11. TablesHold' /\ HandlesPublished'
  BY <1>1 DEF IInv, Tables, TablesHold, HandlesPublished
<1>12. QED
  BY <1>2, <1>8, <1>9, <1>10, <1>11 DEF IInv, Tables

LEMMA ExportInv ==
  ASSUME Sizes, IInv, NEW name \in Names, ExportFunct(name)
  PROVE  IInv'
<1> DEFINE new == [slot |-> functCount, name |-> name]
<1>1. /\ functCount < MaxFuncts /\ Fits(used, NameBytes(name)) /\ Take(NameBytes(name))
      /\ functs' = functs \cup {new} /\ functCount' = functCount + 1
      /\ UNCHANGED <<signals, signalCount, params, ready, refs>>
  BY DEF ExportFunct, NameFits
<1>2. NameBytes(name) \in Nat
  BY DEF NameBytes, Sizes
<1>3. Heap' /\ used <= used' /\ overflowed' \in BOOLEAN
  BY <1>1, <1>2, OneTake
<1>4. used \in Nat /\ used' \in Nat /\ blocks' \subseteq [at : Nat, end : Nat]
  BY <1>3 DEF Heap, HeapOf, IInv
<1>5. /\ functs \subseteq [slot : Nat, name : Names] /\ functCount \in Nat
      /\ MaxFuncts \in Nat /\ \A f \in functs : f.slot < functCount
      /\ \A f, g \in functs : f.slot = g.slot => f = g
  BY DEF IInv, TypeOK, Sizes, Tables, TablesHold
<1>6. new \in [slot : Nat, name : Names] /\ new.slot = functCount
  BY <1>5
<1> HIDE DEF new
<1>7. /\ functs' \subseteq [slot : Nat, name : Names] /\ functCount' \in Nat
      /\ functCount' <= MaxFuncts /\ \A f \in functs' : f.slot < functCount'
      /\ \A f, g \in functs' : f.slot = g.slot => f = g
  BY <1>1, <1>5, <1>6
<1>8. TypeOK'
  BY <1>1, <1>3, <1>4, <1>7 DEF IInv, TypeOK
<1>9. CellsBelow'
  BY <1>1, <1>3, <1>4 DEF IInv, CellsBelow, TypeOK
<1>10. TablesHold'
  BY <1>1, <1>7 DEF IInv, Tables, TablesHold
<1>11. CellsApart' /\ HandlesPublished'
  BY <1>1 DEF IInv, Tables, CellsApart, HandlesPublished
<1>12. QED
  BY <1>3, <1>8, <1>9, <1>10, <1>11 DEF IInv, Tables

LEMMA ExportFailsInv ==
  ASSUME Sizes, IInv, NEW name \in Names, ExportFails(name)
  PROVE  IInv'
<1>1. /\ Full
      /\ UNCHANGED <<signals, signalCount, functs, functCount, params, ready, refs>>
  BY DEF ExportFails
<1>2. ready' \in Seq(BOOLEAN)
  BY <1>1 DEF IInv, TypeOK
<1>3. NameBytes(name) \in Nat
  BY DEF NameBytes, Sizes
<1>4. QED
  BY <1>1, <1>2, <1>3, OneTake, HeapOnly

LEMMA StepInv == Sizes /\ IInv /\ [Next]_vars => IInv'
<1> SUFFICES ASSUME Sizes, IInv, [Next]_vars PROVE IInv'
  OBVIOUS
<1>1. ASSUME NEW size \in Nat, HalMalloc(size) PROVE IInv'
  BY <1>1, MallocInv
<1>2. CASE HalInit \/ \E id \in DOMAIN ready, value \in BOOLEAN : HalSetReady(id, value)
  BY <1>2, ComponentInv
<1>3. ASSUME NEW name \in Names, NEW dir \in PinDirs, NEW type \in Types,
             NewPin(name, dir, type) \/ NewPinUnpublished(name, dir, type)
      PROVE  IInv'
  BY <1>3, NewPinInv, UnpublishedInv
<1>4. ASSUME NEW name \in Names, NEW dir \in ParamDirs, NEW type \in Types,
             NewParam(name, dir, type)
      PROVE  IInv'
  BY <1>4, NewParamInv
<1>5. ASSUME NEW name \in Names, NewPinFails(name) \/ NewParamFails(name)
      PROVE  IInv'
  BY <1>5, NewPinFailsInv DEF NewParamFails
<1>6. ASSUME NEW name \in Names, ExportFunct(name) \/ ExportFails(name)
      PROVE  IInv'
  BY <1>6, ExportInv, ExportFailsInv
<1>7. CASE NewFakeParam
  <2>1. CellSize \in Nat
    BY DEF CellSize
  <2>2. QED
    BY <1>7, <2>1, MallocInv DEF NewFakeParam
<1>8. CASE UNCHANGED vars
  <2>1. /\ UNCHANGED <<signals, signalCount, functs, functCount, params, refs>>
        /\ used' = used /\ blocks' = blocks /\ overflowed' = overflowed /\ ready' = ready
    BY <1>8 DEF vars, heap
  <2>2. ready' \in Seq(BOOLEAN) /\ overflowed' \in BOOLEAN
    BY <2>1 DEF IInv, TypeOK
  <2>3. Heap' /\ used <= used'
    BY <2>1 DEF IInv, Heap, HeapOf
  <2>4. QED
    BY <2>1, <2>2, <2>3, HeapOnly
<1>9. QED
  BY <1>1, <1>2, <1>3, <1>4, <1>5, <1>6, <1>7, <1>8 DEF Next

LEMMA Invariant == ASSUME Sizes PROVE Spec => []IInv
<1>1. Init => IInv
  BY InitInv
<1>2. IInv /\ [Next]_vars => IInv'
  BY StepInv
<1>3. QED
  BY <1>1, <1>2, PTL DEF Spec

(* Whatever the driver asks hal_malloc for, the blocks it gets are its own *)
(* and inside the arena.                                                   *)
THEOREM ArenaNeverOverlaps == ASSUME Sizes PROVE Spec => []BlocksApart
<1>1. IInv => BlocksApart
  <2> SUFFICES ASSUME IInv PROVE BlocksApart
    OBVIOUS
  <2>1. \A a \in blocks : a.end <= ArenaBytes /\ a.at % 8 = 0
    BY DEF IInv, Heap, HeapOf, Sizes
  <2>2. QED
    BY <2>1 DEF IInv, Heap, HeapOf, BlocksApart
<1>2. QED
  BY <1>1, Invariant, PTL

(* publish and hal_export_functf never write past their tables.            *)
THEOREM TablesNeverOverrun == ASSUME Sizes PROVE Spec => []TablesHold
<1>1. IInv => TablesHold
  BY DEF IInv, Tables
<1>2. QED
  BY <1>1, Invariant, PTL

(* new_pin and new_param never give two names one cell.                    *)
THEOREM CellsNeverShared == ASSUME Sizes PROVE Spec => []CellsApart
<1>1. IInv => CellsApart
  BY DEF IInv, Tables
<1>2. QED
  BY <1>1, Invariant, PTL

(* A pin that new_pin half published is one the driver has no handle of.   *)
THEOREM HandlesAlwaysPublished == ASSUME Sizes PROVE Spec => []HandlesPublished
<1>1. IInv => HandlesPublished
  BY DEF IInv, Tables
<1>2. QED
  BY <1>1, Invariant, PTL

-----------------------------------------------------------------------------
(* A signed number of 64 bits is read back from its word. *)
LEMMA SintOfWord ==
  \A n \in S64 : Word(n) \in Words /\ Sint(Word(n)) = n
<1> SUFFICES ASSUME NEW n \in S64 PROVE Word(n) \in Words /\ Sint(Word(n)) = n
  OBVIOUS
<1>1. n \in Int /\ -9223372036854775808 <= n /\ n < 9223372036854775808
  BY SMT DEF S64, TwoTo63
<1>2. CASE n >= 0
  <2>1. Word(n) = n
    BY <1>1, <1>2, SMT DEF Word, TwoTo64
  <2>2. QED
    BY <1>1, <1>2, <2>1, SMT DEF Words, Sint, TwoTo64, TwoTo63
<1>3. CASE n < 0
  <2>1. Word(n) = n + 18446744073709551616
    BY <1>1, <1>3, SMT DEF Word, TwoTo64
  <2>2. QED
    BY <1>1, <1>3, <2>1, SMT DEF Words, Sint, TwoTo64, TwoTo63
<1>4. n >= 0 \/ n < 0
  BY <1>1
<1>5. QED
  BY <1>2, <1>3, <1>4

(* One of 32 bits is read back from the low half of it too. *)
LEMMA SsOfWord ==
  \A n \in S32 : Ss(Word(n)) = n
<1> SUFFICES ASSUME NEW n \in S32 PROVE Ss(Word(n)) = n
  OBVIOUS
<1>1. n \in Int /\ -2147483648 <= n /\ n < 2147483648
  BY SMT DEF S32, TwoTo31
<1>2. CASE n >= 0
  <2>1. Word(n) = n /\ Su(n) = n
    BY <1>1, <1>2, SMT DEF Word, Su, TwoTo32
  <2>2. QED
    BY <1>1, <1>2, <2>1, SMT DEF Ss, TwoTo32, TwoTo31
<1>3. CASE n < 0
  <2>1. Word(n) = n + 18446744073709551616
    BY <1>3, SMT DEF Word, TwoTo64
  <2>2. (n + 18446744073709551616) % 4294967296 = n + 4294967296
    BY <1>1, <1>3, SMT
  <2>3. Su(Word(n)) = n + 4294967296
    BY <2>1, <2>2, SMT DEF Su, TwoTo32
  <2>4. QED
    BY <1>1, <1>3, <2>3, SMT DEF Ss, TwoTo32, TwoTo31
<1>4. n >= 0 \/ n < 0
  BY <1>1
<1>5. QED
  BY <1>2, <1>3, <1>4

LEMMA ExactDoubles ==
  \A n : n \in Exact => Doubles(n) = {Value(n)}
<1> SUFFICES ASSUME NEW n, n \in Exact PROVE Doubles(n) = {Value(n)}
  OBVIOUS
<1>1. Doubles(n) = IF n \in Exact THEN {Value(n)} ELSE Value(n - 1024) .. Value(n + 1024)
  BY Zenon DEF Doubles
<1>2. QED
  BY <1>1

(* A value that fix_pins lets through is what the host reads back, and     *)
(* what the driver reads at either width, clamped or not.                  *)
THEOREM FixedReadBack ==
  \A type \in IntTypes, d \in Int : PinFits(type, d) =>
    \A cell \in CellSet(type, d) :
      /\ CellGet(type, cell) = {d}
      /\ type = "sint" => /\ Value(HalGetSi32(cell)) = d
                          /\ HalGetSi32Clamped(cell) = HalGetSi32(cell)
                          /\ HalGetSint(cell) = HalGetSi32(cell)
      /\ type = "uint" => /\ Value(HalGetUi32(cell)) = d
                          /\ HalGetUi32Clamped(cell) = HalGetUi32(cell)
                          /\ HalGetUint(cell) = HalGetUi32(cell)
      /\ type = "bool" => HalGetBools(cell) = {d = Value(1)}
<1> SUFFICES ASSUME NEW type \in IntTypes, NEW d \in Int, PinFits(type, d),
                    NEW cell \in CellSet(type, d)
             PROVE  /\ CellGet(type, cell) = {d}
                    /\ type = "sint" => /\ Value(HalGetSi32(cell)) = d
                                        /\ HalGetSi32Clamped(cell) = HalGetSi32(cell)
                                        /\ HalGetSint(cell) = HalGetSi32(cell)
                    /\ type = "uint" => /\ Value(HalGetUi32(cell)) = d
                                        /\ HalGetUi32Clamped(cell) = HalGetUi32(cell)
                                        /\ HalGetUint(cell) = HalGetUi32(cell)
                    /\ type = "bool" => HalGetBools(cell) = {d = Value(1)}
  OBVIOUS
<1>1. CASE type = "bool"
  <2>1. d = 0 \/ d = 2
    BY <1>1, SMT DEF PinFits, Value
  <2>2. cell = IF d = 0 THEN 0 ELSE 1
    BY <1>1, SMT DEF CellSet
  <2>3. CellGet(type, cell) = {d}
    BY <1>1, <2>1, <2>2, SMT DEF CellGet, Value
  <2>4. LowByte(cell) = cell
    BY <2>2, SMT DEF LowByte
  <2>5. (cell = 1) <=> (d = Value(1))
    BY <2>1, <2>2, SMT DEF Value
  <2>6. cell \in {0, 1}
    BY <2>2, SMT
  <2>7. HalGetBools(cell) = {d = Value(1)}
    BY <2>4, <2>5, <2>6, Zenon DEF HalGetBools
  <2>8. QED
    BY <1>1, <2>3, <2>7, SMT
<1>2. CASE type = "sint"
  <2>1. PICK n \in S32 : n = Truncated(d) /\ d = Value(n)
    BY <1>2, SMT DEF PinFits
  <2>2. /\ n \in Int /\ -2147483648 <= n /\ n < 2147483648
          /\ n \in S64 /\ n \in Exact
    BY SMT DEF S32, S64, Exact, TwoTo31, TwoTo63
  <2>3. cell = Word(n)
    BY <1>2, <2>1, <2>2, SMT DEF CellSet, Integers64
  <2>4. Sint(cell) = n /\ Ss(cell) = n
    BY <2>2, <2>3, SintOfWord, SsOfWord, SMT
  <2>5. CellGet(type, cell) = {d}
    <3>1. Doubles(n) = {d}
      <4>1. n \in Exact
        BY <2>2, SMT
      <4>2. QED
        BY <2>1, <4>1, ExactDoubles, SMT
    <3>2. CellGet(type, cell) = Doubles(Sint(cell))
      BY <1>2, SMT DEF CellGet
    <3>3. QED
      BY <2>4, <3>1, <3>2, SMT
  <2>6. HalGetSi32Clamped(cell) = n
    BY <2>2, <2>4, SMT DEF HalGetSi32Clamped, TwoTo31
  <2>7. QED
    BY <1>2, <2>1, <2>4, <2>5, <2>6, SMT DEF HalGetSi32, HalGetSint
<1>3. CASE type = "uint"
  <2>1. PICK n \in U32 : n = Truncated(d) /\ d = Value(n)
    BY <1>3, SMT DEF PinFits
  <2>2. n \in Int /\ 0 <= n /\ n < 4294967296 /\ n \in Words /\ n \in Exact
    BY SMT DEF U32, Words, Exact, TwoTo32, TwoTo64
  <2>3. ~(d < 0)
    BY <2>1, <2>2, SMT DEF Value
  <2>4. cell = n
    BY <1>3, <2>1, <2>2, <2>3, SMT DEF CellSet, Unsigned64
  <2>5. Su(cell) = n
    BY <2>2, <2>4, SMT DEF Su, TwoTo32
  <2>6. CellGet(type, cell) = {d}
    <3>1. Doubles(n) = {d}
      <4>1. n \in Exact
        BY <2>2, SMT
      <4>2. QED
        BY <2>1, <4>1, ExactDoubles, SMT
    <3>2. CellGet(type, cell) = Doubles(cell)
      BY <1>3, SMT DEF CellGet
    <3>3. QED
      BY <2>4, <3>1, <3>2, SMT
  <2>7. HalGetUi32Clamped(cell) = n
    BY <2>2, <2>4, <2>5, SMT DEF HalGetUi32Clamped, TwoTo32
  <2>8. QED
    BY <1>3, <2>1, <2>4, <2>5, <2>6, <2>7, SMT DEF HalGetUi32, HalGetUint
<1>4. QED
  BY <1>1, <1>2, <1>3, SMT DEF IntTypes

(* What the driver writes at 32 bits is what the host publishes, whether   *)
(* the cell was made for 32 bits or for 64: hm2_shim_cell_get has one case *)
(* for both.  A bool written over a wider value leaves none of it behind.  *)
THEOREM DriverWritesAreRead ==
  /\ \A n \in S32 : CellGet("sint", HalSetSi32(n)) = {Value(n)}
  /\ \A n \in U32 : CellGet("uint", HalSetUi32(n)) = {Value(n)}
  /\ \A b \in BOOLEAN : /\ CellGet("bool", HalSetBool(b)) = {Value(HalSetBool(b))}
                        /\ HalGetBools(HalSetBool(b)) = {b}
                        /\ HalGetUint(HalSetBool(b)) \in {0, 1}
<1>1. ASSUME NEW n \in S32 PROVE CellGet("sint", HalSetSi32(n)) = {Value(n)}
  <2>1. n \in S64 /\ n \in Exact
    BY SMT DEF S32, S64, Exact, TwoTo31, TwoTo63
  <2>2. Sint(HalSetSi32(n)) = n
    BY <2>1, SintOfWord, SMT DEF HalSetSi32
  <2>3. CellGet("sint", HalSetSi32(n)) = Doubles(n)
    BY <2>2, SMT DEF CellGet
  <2>4. QED
    BY <2>1, <2>3, ExactDoubles, SMT
<1>2. ASSUME NEW n \in U32 PROVE CellGet("uint", HalSetUi32(n)) = {Value(n)}
  <2>1. n \in Exact
    BY SMT DEF U32, Exact, TwoTo32
  <2>2. CellGet("uint", HalSetUi32(n)) = Doubles(n)
    BY SMT DEF CellGet, HalSetUi32
  <2>3. QED
    BY <2>1, <2>2, ExactDoubles, SMT
<1>3. ASSUME NEW b \in BOOLEAN
      PROVE  /\ CellGet("bool", HalSetBool(b)) = {Value(HalSetBool(b))}
             /\ HalGetBools(HalSetBool(b)) = {b}
             /\ HalGetUint(HalSetBool(b)) \in {0, 1}
  <2>1. HalSetBool(b) \in {0, 1} /\ (HalSetBool(b) = 1 <=> b)
    BY SMT DEF HalSetBool
  <2>2. CellGet("bool", HalSetBool(b)) = {Value(HalSetBool(b))}
    BY <2>1, SMT DEF CellGet
  <2>3. LowByte(HalSetBool(b)) = HalSetBool(b)
    BY <2>1, SMT DEF LowByte
  <2>4. HalGetBools(HalSetBool(b)) = {HalSetBool(b) = 1}
    BY <2>1, <2>3, Zenon DEF HalGetBools
  <2>5. (HalSetBool(b) = 1) = b
    BY <2>1, Zenon
  <2>6. QED
    BY <2>1, <2>2, <2>4, <2>5, Zenon DEF HalGetUint
<1>4. QED
  BY <1>1, <1>2, <1>3, Zenon
=============================================================================
