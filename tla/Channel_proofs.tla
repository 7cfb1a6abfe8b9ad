--------------------------- MODULE Channel_proofs ---------------------------
(***************************************************************************)
(* Proofs about the shared region, for every limit, every set of levels    *)
(* and every number of answers: the two processes never touch one half of  *)
(* a block at once, the halves implement one block in each direction, no   *)
(* wake-up is lost, a silent core is given up in time and a held level is  *)
(* not applied again.                                                      *)
(***************************************************************************)
EXTENDS Channel, TLAPS, FiniteSetTheorems

CoreBusy == cpc \in {"readValues", "readBus", "writeEvery", "writeChange", "respond"}
HostPublishes == hpc \in {"fill", "setBus", "publish"}

(* The counters: the core is at most one cycle behind, level with the host *)
(* while it fills a half, and one behind while it works on an answer.      *)
Handshake ==
  /\ response <= cycle /\ cycle <= response + 1
  /\ HostPublishes => hcycle = cycle + 1 /\ response = cycle
  /\ CoreBusy => ccycle = cycle /\ cycle = response + 1 /\ ccycle <= MaxAnswers
  /\ HostReadsOutput => answered >= 1 /\ answered <= response /\ cycle <= answered + 1

(* The blocks: what a half holds at each point of its filling. *)
InputBlocks ==
  /\ input[Half(cycle)] = [values |-> cycle, bus |-> cycle]
  /\ At("setBus") => input[Half(hcycle)].values = hcycle
  /\ At("publish") => input[Half(hcycle)] = [values |-> hcycle, bus |-> hcycle]
  /\ CoreAt("readBus") => cread.values = ccycle
  /\ cpc \in {"writeEvery", "writeChange", "respond"} =>
       cread = [values |-> ccycle, bus |-> ccycle]

OutputBlocks ==
  /\ output[Half(response)].every = response
  /\ cpc \in {"writeChange", "respond"} => output[Half(ccycle)].every = ccycle
  /\ CoreAt("respond") => output[Half(ccycle)].change = request
  /\ HostReadsOutput => output[Half(answered)].every = answered
  /\ At("takeChange") => pin.every = answered

IInv == TypeOK /\ Handshake /\ InputBlocks /\ OutputBlocks

(* Consecutive cycles use different halves (value_half). *)
LEMMA HalfFacts ==
  \A n \in Nat : Half(n) \in {0, 1} /\ Half(n + 1) # Half(n)
  BY DEF Half

LEMMA InitInv == Init => IInv
<1> SUFFICES ASSUME Init PROVE IInv
  OBVIOUS
<1> USE ChannelAssumption
<1>1. Half(0) \in {0, 1}
  BY HalfFacts
<1>2. TypeOK
  <2>1. Seeded \in Taken /\ [values |-> 0, bus |-> 0] \in Block
    BY DEF Seeded, Taken, Block
  <2>2. input \in [{0, 1} -> Block] /\ output \in [{0, 1} -> Taken]
    BY <2>1 DEF Init
  <2>3. cread \in Block /\ pin \in Taken /\ applied \in Taken
    BY <2>1 DEF Init
  <2>4. asked \in Seq(Levels)
    BY DEF Init
  <2>5. hpc \in HostLabels /\ cpc \in CoreLabels /\ chan \in {Running, Shutdown, Faulted}
    BY DEF Init, HostLabels, CoreLabels
  <2>6. /\ cycle \in 0 .. MaxAnswers + 1 /\ response \in 0 .. MaxAnswers
        /\ hcycle \in 0 .. MaxAnswers + 1 /\ ccycle \in 0 .. MaxAnswers + 1
        /\ answered \in 0 .. MaxAnswers /\ unanswered \in 0 .. MaxUnanswered
        /\ word \in Nat /\ expected \in Nat /\ changes \in Nat /\ writes \in Nat
    BY DEF Init
  <2>7. /\ late \in BOOLEAN /\ attached \in BOOLEAN /\ stopping \in BOOLEAN
        /\ sameCycle \in BOOLEAN
    BY DEF Init
  <2>8. last \in Levels /\ request \in Levels
    BY DEF Init
  <2> QED
    BY <2>2, <2>3, <2>4, <2>5, <2>6, <2>7, <2>8 DEF TypeOK
<1>3. Handshake
  BY DEF Init, Handshake, HostPublishes, CoreBusy, HostReadsOutput
<1>4. InputBlocks /\ OutputBlocks
  BY <1>1 DEF Init, InputBlocks, OutputBlocks, At, CoreAt, HostReadsOutput, Seeded
<1> QED
  BY <1>2, <1>3, <1>4 DEF IInv

(* The host's steps that leave the region and its counters alone. *)
LEMMA HostQuiet ==
  IInv /\ (Wake \/ Read \/ Collect \/ TakeEvery \/ TakeChange \/ Write) => IInv'
<1> SUFFICES ASSUME IInv, Wake \/ Read \/ Collect \/ TakeEvery \/ TakeChange \/ Write
             PROVE IInv'
  OBVIOUS
<1> USE ChannelAssumption DEF vars, region, local, pins, core, history, At, Goto, CoreAt
<1>0. Half(answered) \in {0, 1}
  BY HalfFacts DEF IInv, TypeOK
<1>1. TypeOK'
  <2>1. CASE Wake
    BY <2>1 DEF IInv, TypeOK, Wake, HostLabels
  <2>2. CASE Read
    BY <2>2 DEF IInv, TypeOK, Read, HostLabels, AfterRead, Taken
  <2>3. CASE Collect
    BY <2>3 DEF IInv, TypeOK, Collect, HostLabels, AfterCollect
  <2>4. CASE TakeEvery
    BY <2>4, <1>0 DEF IInv, TypeOK, TakeEvery, TakenHalf, HostLabels, Taken
  <2>5. CASE TakeChange
    <3>1. output[TakenHalf].change \in Levels
      BY <1>0 DEF IInv, TypeOK, TakenHalf, Taken
    <3>2. last' \in Levels /\ pin' \in Taken /\ applied' \in Taken
      BY <2>5, <3>1 DEF IInv, TypeOK, TakeChange, IsChange, Taken
    <3>3. changes' \in Nat /\ attached' \in BOOLEAN
      BY <2>5 DEF IInv, TypeOK, TakeChange
    <3>4. hpc' \in HostLabels
      BY <2>5 DEF TakeChange, AfterCollect, HostLabels
    <3> QED
      BY <2>5, <3>2, <3>3, <3>4 DEF IInv, TypeOK, TakeChange
  <2>6. CASE Write
    BY <2>6 DEF IInv, TypeOK, Write, HostLabels, AfterWrite
  <2> QED
    BY <2>1, <2>2, <2>3, <2>4, <2>5, <2>6
<1>2. Handshake'
  <2>1. CASE Wake
    BY <2>1 DEF IInv, Handshake, Wake, HostPublishes, CoreBusy, HostReadsOutput
  <2>2. CASE Read
    BY <2>2 DEF IInv, Handshake, Read, HostPublishes, CoreBusy, HostReadsOutput, AfterRead
  <2>3. CASE Collect
    BY <2>3 DEF IInv, TypeOK, Handshake, Collect, HostPublishes, CoreBusy,
                HostReadsOutput, AfterCollect
  <2>4. CASE TakeEvery
    BY <2>4 DEF IInv, Handshake, TakeEvery, HostPublishes, CoreBusy, HostReadsOutput
  <2>5. CASE TakeChange
    BY <2>5 DEF IInv, Handshake, TakeChange, HostPublishes, CoreBusy,
                HostReadsOutput, AfterCollect
  <2>6. CASE Write
    BY <2>6 DEF IInv, Handshake, Write, HostPublishes, CoreBusy, HostReadsOutput, AfterWrite
  <2> QED
    BY <2>1, <2>2, <2>3, <2>4, <2>5, <2>6
<1>3. InputBlocks' /\ OutputBlocks'
  <2>1. CASE Wake
    BY <2>1 DEF IInv, InputBlocks, OutputBlocks, Wake, HostReadsOutput
  <2>2. CASE Read
    BY <2>2 DEF IInv, InputBlocks, OutputBlocks, Read, HostReadsOutput, AfterRead
  <2>3. CASE Collect
    BY <2>3 DEF IInv, InputBlocks, OutputBlocks, Collect, HostReadsOutput, AfterCollect
  <2>4. CASE TakeEvery
    BY <2>4 DEF IInv, TypeOK, Taken, InputBlocks, OutputBlocks, TakeEvery, TakenHalf,
                HostReadsOutput
  <2>5. CASE TakeChange
    BY <2>5 DEF IInv, InputBlocks, OutputBlocks, TakeChange, HostReadsOutput, AfterCollect
  <2>6. CASE Write
    BY <2>6 DEF IInv, InputBlocks, OutputBlocks, Write, HostReadsOutput, AfterWrite
  <2> QED
    BY <2>1, <2>2, <2>3, <2>4, <2>5, <2>6
<1> QED
  BY <1>1, <1>2, <1>3 DEF IInv

(* The host's steps that begin, fill and publish a cycle, and the wait. *)
LEMMA HostPublishing ==
  IInv /\ (Begin \/ Overrun \/ Fill \/ SetBus \/ Publish \/ Bump) => IInv'
<1> SUFFICES ASSUME IInv, Begin \/ Overrun \/ Fill \/ SetBus \/ Publish \/ Bump
             PROVE IInv'
  OBVIOUS
<1> USE ChannelAssumption DEF vars, region, local, pins, core, history, At, Goto, CoreAt
<1>0. /\ Half(hcycle) \in {0, 1} /\ Half(cycle) \in {0, 1}
      /\ Half(cycle + 1) # Half(cycle)
  BY HalfFacts DEF IInv, TypeOK
<1>1. TypeOK'
  <2>1. CASE Begin
    <3>1. hcycle' \in 0 .. MaxAnswers + 1
      BY <2>1 DEF IInv, TypeOK, Handshake, Begin, Behind
    <3> QED
      BY <2>1, <3>1 DEF IInv, TypeOK, Begin, HostLabels
  <2>2. CASE Overrun
    <3>1. unanswered' \in 0 .. MaxUnanswered
      BY <2>2 DEF IInv, TypeOK, Overrun, Counted
    <3>2. hpc' \in HostLabels /\ chan' \in {Running, Shutdown, Faulted}
      BY <2>2 DEF IInv, TypeOK, Overrun, HostLabels
    <3> QED
      BY <2>2, <3>1, <3>2 DEF IInv, TypeOK, Overrun
  <2>3. CASE Fill
    <3>1. input' \in [{0, 1} -> Block]
      BY <2>3, <1>0 DEF IInv, TypeOK, Fill, Block
    <3> QED
      BY <2>3, <3>1 DEF IInv, TypeOK, Fill, HostLabels
  <2>4. CASE SetBus
    <3>1. input' \in [{0, 1} -> Block]
      BY <2>4, <1>0 DEF IInv, TypeOK, SetBus, Block
    <3> QED
      BY <2>4, <3>1 DEF IInv, TypeOK, SetBus, HostLabels
  <2>5. CASE Publish
    BY <2>5 DEF IInv, TypeOK, Publish, HostLabels
  <2>6. CASE Bump
    BY <2>6 DEF IInv, TypeOK, Bump, HostLabels, AfterBegin
  <2> QED
    BY <2>1, <2>2, <2>3, <2>4, <2>5, <2>6
<1>2. Handshake'
  <2>1. CASE Begin
    BY <2>1 DEF IInv, TypeOK, Handshake, Begin, Behind, HostPublishes, CoreBusy,
                HostReadsOutput
  <2>2. CASE Overrun
    <3>1. hpc' \in {"leave", "collect", "checkState"}
      BY <2>2 DEF Overrun
    <3> QED
      BY <2>2, <3>1 DEF IInv, Handshake, Overrun, HostPublishes, CoreBusy, HostReadsOutput
  <2>3. CASE Fill
    BY <2>3 DEF IInv, Handshake, Fill, HostPublishes, CoreBusy, HostReadsOutput
  <2>4. CASE SetBus
    BY <2>4 DEF IInv, Handshake, SetBus, HostPublishes, CoreBusy, HostReadsOutput
  <2>5. CASE Publish
    BY <2>5 DEF IInv, TypeOK, Handshake, Publish, HostPublishes, CoreBusy, HostReadsOutput
  <2>6. CASE Bump
    BY <2>6 DEF IInv, Handshake, Bump, HostPublishes, CoreBusy, HostReadsOutput, AfterBegin
  <2> QED
    BY <2>1, <2>2, <2>3, <2>4, <2>5, <2>6
<1>3. InputBlocks' /\ OutputBlocks'
  <2>1. CASE Begin
    BY <2>1 DEF IInv, InputBlocks, OutputBlocks, Begin, HostReadsOutput
  <2>2. CASE Overrun
    <3>1. hpc' \in {"leave", "collect", "checkState"}
      BY <2>2 DEF Overrun
    <3> QED
      BY <2>2, <3>1 DEF IInv, InputBlocks, OutputBlocks, Overrun, HostReadsOutput
  <2>3. CASE Fill
    <3>1. hcycle = cycle + 1
      BY <2>3 DEF IInv, Handshake, HostPublishes, Fill
    <3>2. /\ input'[Half(cycle)] = input[Half(cycle)]
          /\ input'[Half(hcycle)].values = hcycle
      BY <2>3, <3>1, <1>0 DEF IInv, TypeOK, Fill, Block
    <3> QED
      BY <2>3, <3>2 DEF IInv, InputBlocks, OutputBlocks, Fill, HostReadsOutput
  <2>4. CASE SetBus
    <3>1. hcycle = cycle + 1
      BY <2>4 DEF IInv, Handshake, HostPublishes, SetBus
    <3>2. input[Half(hcycle)].values = hcycle
      BY <2>4 DEF IInv, InputBlocks, SetBus
    <3>3. /\ input'[Half(cycle)] = input[Half(cycle)]
          /\ input'[Half(hcycle)] = [values |-> hcycle, bus |-> hcycle]
      BY <2>4, <3>1, <3>2, <1>0 DEF IInv, TypeOK, SetBus, Block
    <3> QED
      BY <2>4, <3>3 DEF IInv, InputBlocks, OutputBlocks, SetBus, HostReadsOutput
  <2>5. CASE Publish
    BY <2>5 DEF IInv, InputBlocks, OutputBlocks, Publish, HostReadsOutput
  <2>6. CASE Bump
    BY <2>6 DEF IInv, InputBlocks, OutputBlocks, Bump, HostReadsOutput, AfterBegin
  <2> QED
    BY <2>1, <2>2, <2>3, <2>4, <2>5, <2>6
<1> QED
  BY <1>1, <1>2, <1>3 DEF IInv

(* Waiting, leaving and the core's last words change no block and neither  *)
(* counter.                                                                *)
LEMMA Idle ==
  /\ IInv
  /\ \/ Wait \/ LoadWord \/ CheckAnswer \/ FutexWait \/ TimedOut \/ CheckState
     \/ Destroy \/ Deadline \/ Signal
     \/ CoreAttach \/ CoreBump \/ CoreWake \/ CoreLeave \/ CoreDie
  => IInv'
<1> SUFFICES ASSUME IInv,
                    \/ Wait \/ LoadWord \/ CheckAnswer \/ FutexWait \/ TimedOut \/ CheckState
                    \/ Destroy \/ Deadline \/ Signal
                    \/ CoreAttach \/ CoreBump \/ CoreWake \/ CoreLeave \/ CoreDie
             PROVE IInv'
  OBVIOUS
<1> USE DEF vars, region, local, pins, core, history, At, Goto, CoreAt, CoreGoto
<1>1. UNCHANGED <<cycle, response, input, output, hcycle, answered, attached,
                  unanswered, pin, last, ccycle, cread, request,
                  applied, asked, changes, writes, sameCycle>>
  BY DEF Wait, LoadWord, CheckAnswer, FutexWait, TimedOut, CheckState,
         Destroy, Deadline, Signal, CoreAttach, CoreBump, CoreWake, CoreLeave, CoreDie
<1>2. word' \in Nat /\ expected' \in Nat
  BY DEF IInv, TypeOK, Wait, LoadWord, CheckAnswer, FutexWait, TimedOut, CheckState,
         Destroy, Deadline, Signal, CoreAttach, CoreBump, CoreWake, CoreLeave, CoreDie
<1>3. chan' \in {Running, Shutdown, Faulted}
  BY DEF IInv, TypeOK, Wait, LoadWord, CheckAnswer, FutexWait, TimedOut, CheckState,
         Destroy, Deadline, Signal, CoreAttach, CoreBump, CoreWake, CoreLeave, CoreDie
<1>4. late' \in BOOLEAN /\ stopping' \in BOOLEAN
  BY DEF IInv, TypeOK, Wait, LoadWord, CheckAnswer, FutexWait, TimedOut, CheckState,
         Destroy, Deadline, Signal, CoreAttach, CoreBump, CoreWake, CoreLeave, CoreDie
<1>5. \/ hpc' = hpc
      \/ hpc' \in {"collect", "loadWord", "checkAnswer", "futexWait", "asleep", "top",
                   "leave", "gone"}
  BY DEF Wait, LoadWord, CheckAnswer, FutexWait, TimedOut, CheckState,
         Destroy, Deadline, Signal, CoreAttach, CoreBump, CoreWake, CoreLeave, CoreDie
<1>6. cpc' = cpc \/ cpc' \in {"idle", "wakeHost", "gone"}
  BY DEF Wait, LoadWord, CheckAnswer, FutexWait, TimedOut, CheckState,
         Destroy, Deadline, Signal, CoreAttach, CoreBump, CoreWake, CoreLeave, CoreDie
<1>7. TypeOK'
  BY <1>1, <1>5, <1>6, <1>2, <1>3, <1>4 DEF IInv, TypeOK, HostLabels, CoreLabels
<1>8. Handshake'
  BY <1>1, <1>5, <1>6 DEF IInv, Handshake, HostPublishes, CoreBusy, HostReadsOutput
<1>9. InputBlocks' /\ OutputBlocks'
  BY <1>1, <1>5, <1>6 DEF IInv, InputBlocks, OutputBlocks, HostReadsOutput
<1> QED
  BY <1>7, <1>8, <1>9 DEF IInv

(* The core's work on a cycle. *)
LEMMA CoreWorking ==
  /\ IInv
  /\ \/ CoreTakeUp \/ CoreReadValues \/ CoreReadBus \/ CoreWriteEvery
     \/ CoreWriteChange \/ CoreRespond
  => IInv'
<1> SUFFICES ASSUME IInv,
                    \/ CoreTakeUp \/ CoreReadValues \/ CoreReadBus \/ CoreWriteEvery
                    \/ CoreWriteChange \/ CoreRespond
             PROVE IInv'
  OBVIOUS
<1> USE ChannelAssumption
    DEF vars, region, local, pins, core, history, At, Goto, CoreAt, CoreGoto
<1>0. /\ Half(cycle) \in {0, 1} /\ Half(ccycle) \in {0, 1} /\ Half(response) \in {0, 1}
      /\ Half(response + 1) # Half(response)
      /\ Half(answered) \in {0, 1} /\ Half(answered + 1) # Half(answered)
  BY HalfFacts DEF IInv, TypeOK
<1>1. CASE CoreTakeUp
  <2>1. ccycle' = cycle /\ cycle = response + 1 /\ cycle \in 0 .. MaxAnswers
    BY <1>1 DEF IInv, TypeOK, Handshake, CoreTakeUp
  <2>2. TypeOK'
    BY <1>1, <2>1 DEF IInv, TypeOK, CoreTakeUp, CoreLabels
  <2>3. Handshake'
    BY <1>1, <2>1 DEF IInv, TypeOK, Handshake, CoreTakeUp, HostPublishes, CoreBusy,
                      HostReadsOutput
  <2>4. InputBlocks' /\ OutputBlocks'
    BY <1>1 DEF IInv, InputBlocks, OutputBlocks, CoreTakeUp, HostReadsOutput
  <2> QED
    BY <2>2, <2>3, <2>4 DEF IInv
<1>2. CASE CoreReadValues
  <2>1. ccycle = cycle /\ cread' = [cread EXCEPT !.values = cycle]
    BY <1>2 DEF IInv, Handshake, InputBlocks, CoreReadValues, CoreBusy
  <2>2. cread' \in Block /\ cread'.values = ccycle
    BY <2>1 DEF IInv, TypeOK, Block
  <2>3. TypeOK'
    BY <1>2, <2>2 DEF IInv, TypeOK, CoreReadValues, CoreLabels
  <2>4. Handshake'
    BY <1>2 DEF IInv, Handshake, CoreReadValues, HostPublishes, CoreBusy, HostReadsOutput
  <2>5. InputBlocks' /\ OutputBlocks'
    BY <1>2, <2>2 DEF IInv, InputBlocks, OutputBlocks, CoreReadValues, HostReadsOutput
  <2> QED
    BY <2>3, <2>4, <2>5 DEF IInv
<1>3. CASE CoreReadBus
  <2>1. /\ ccycle = cycle /\ cread' = [cread EXCEPT !.bus = cycle]
        /\ cread.values = ccycle
    BY <1>3 DEF IInv, Handshake, InputBlocks, CoreReadBus, CoreBusy
  <2>2. cread' \in Block /\ cread' = [values |-> ccycle, bus |-> ccycle]
    BY <2>1 DEF IInv, TypeOK, Block
  <2>3. TypeOK'
    BY <1>3, <2>2 DEF IInv, TypeOK, CoreReadBus, CoreLabels
  <2>4. Handshake'
    BY <1>3 DEF IInv, Handshake, CoreReadBus, HostPublishes, CoreBusy, HostReadsOutput
  <2>5. InputBlocks' /\ OutputBlocks'
    BY <1>3, <2>2 DEF IInv, InputBlocks, OutputBlocks, CoreReadBus, HostReadsOutput
  <2> QED
    BY <2>3, <2>4, <2>5 DEF IInv
<1>4. CASE CoreWriteEvery \/ CoreWriteChange
  <2>1. /\ ccycle = response + 1 /\ ccycle \in 0 .. MaxAnswers /\ cread.values = ccycle
        /\ HostReadsOutput => Half(answered) # Half(ccycle)
    <3>1. CoreBusy /\ cpc \in {"writeEvery", "writeChange"}
      BY <1>4 DEF CoreWriteEvery, CoreWriteChange, CoreBusy
    <3>2. /\ ccycle = cycle /\ cycle = response + 1 /\ ccycle <= MaxAnswers
          /\ ccycle \in Nat /\ cread.values = ccycle
      BY <3>1 DEF IInv, TypeOK, Handshake, InputBlocks
    <3>3. HostReadsOutput => Half(answered) # Half(ccycle)
      BY <1>0, <3>2 DEF IInv, TypeOK, Handshake
    <3> QED
      BY <3>2, <3>3 DEF IInv, TypeOK
  <2>2. /\ output' \in [{0, 1} -> Taken]
        /\ output'[Half(response)] = output[Half(response)]
        /\ HostReadsOutput => output'[Half(answered)] = output[Half(answered)]
    <3>0. Half(ccycle) # Half(response) /\ output[Half(ccycle)] \in Taken
      BY <2>1, <1>0 DEF IInv, TypeOK
    <3>1. CASE CoreWriteEvery
      <4>1. [output[Half(ccycle)] EXCEPT !.every = cread.values] \in Taken
        BY <3>0, <2>1 DEF Taken
      <4> QED
        BY <3>1, <4>1, <3>0, <2>1, <1>0 DEF IInv, TypeOK, CoreWriteEvery
    <3>2. CASE CoreWriteChange
      <4>1. PICK level \in Levels :
              output' = [output EXCEPT ![Half(ccycle)].change = level]
        BY <3>2 DEF CoreWriteChange
      <4>2. [output[Half(ccycle)] EXCEPT !.change = level] \in Taken
        BY <3>0 DEF Taken
      <4> QED
        BY <4>1, <4>2, <3>0, <2>1, <1>0 DEF IInv, TypeOK
    <3> QED
      BY <1>4, <3>1, <3>2
  <2>3. /\ output'[Half(ccycle)].every = ccycle
        /\ CoreWriteChange => output'[Half(ccycle)].change = request' /\ request' \in Levels
    <3>1. CASE CoreWriteEvery
      BY <3>1, <2>1, <1>0 DEF IInv, TypeOK, CoreWriteEvery, CoreWriteChange, Taken
    <3>2. CASE CoreWriteChange
      <4>1. PICK level \in Levels :
              /\ request' = level
              /\ output' = [output EXCEPT ![Half(ccycle)].change = level]
        BY <3>2 DEF CoreWriteChange
      <4>2. output[Half(ccycle)].every = ccycle /\ output[Half(ccycle)] \in Taken
        BY <3>2, <1>0 DEF IInv, TypeOK, OutputBlocks, CoreWriteChange
      <4>3. output'[Half(ccycle)] = [output[Half(ccycle)] EXCEPT !.change = level]
        BY <4>1, <1>0 DEF IInv, TypeOK
      <4> QED
        BY <4>1, <4>2, <4>3 DEF Taken
    <3> QED
      BY <1>4, <3>1, <3>2
  <2>4. TypeOK'
    BY <1>4, <2>2, <2>3 DEF IInv, TypeOK, CoreWriteEvery, CoreWriteChange, CoreLabels
  <2>5. Handshake'
    BY <1>4 DEF IInv, Handshake, CoreWriteEvery, CoreWriteChange, HostPublishes, CoreBusy,
                HostReadsOutput
  <2>6. InputBlocks'
    BY <1>4 DEF IInv, InputBlocks, CoreWriteEvery, CoreWriteChange
  <2>7. OutputBlocks'
    BY <1>4, <2>2, <2>3 DEF IInv, OutputBlocks, CoreWriteEvery, CoreWriteChange,
                            HostReadsOutput
  <2> QED
    BY <2>4, <2>5, <2>6, <2>7 DEF IInv
<1>5. CASE CoreRespond
  <2>1. response' = ccycle /\ ccycle = response + 1 /\ ccycle \in 0 .. MaxAnswers
    BY <1>5 DEF IInv, TypeOK, Handshake, CoreRespond, CoreBusy
  <2>2. asked' \in Seq(Levels)
    BY <1>5 DEF IInv, TypeOK, CoreRespond
  <2>3. cpc' \in {"bumpWord", "idle"}
    BY <1>5 DEF CoreRespond
  <2>4. TypeOK'
    BY <1>5, <2>1, <2>2, <2>3 DEF IInv, TypeOK, CoreRespond, CoreLabels
  <2>5. Handshake'
    BY <1>5, <2>1, <2>3 DEF IInv, TypeOK, Handshake, CoreRespond, HostPublishes, CoreBusy,
                            HostReadsOutput
  <2>6. InputBlocks' /\ OutputBlocks'
    BY <1>5, <2>1, <2>3 DEF IInv, InputBlocks, OutputBlocks, CoreRespond, HostReadsOutput
  <2> QED
    BY <2>4, <2>5, <2>6 DEF IInv
<1> QED
  BY <1>1, <1>2, <1>3, <1>4, <1>5

LEMMA NextInv == IInv /\ [Next]_vars => IInv'
<1> SUFFICES ASSUME IInv, [Next]_vars PROVE IInv'
  OBVIOUS
<1>1. CASE Next
  BY <1>1, HostQuiet, HostPublishing, Idle, CoreWorking DEF Next, HostStep, CoreStep
<1>2. CASE UNCHANGED vars
  BY <1>2 DEF vars, region, local, pins, core, history, IInv, TypeOK, Handshake,
              InputBlocks, OutputBlocks, HostPublishes, CoreBusy, HostReadsOutput,
              At, CoreAt
<1> QED
  BY <1>1, <1>2

(* The counters, the blocks and both processes stay as IInv says. *)
THEOREM Invariance == Spec => []IInv
  BY InitInv, NextInv, PTL DEF Spec

(* Every variable keeps its type, and no counter passes the cycle after    *)
(* the last one the core may answer.                                       *)
THEOREM TypeCorrect == Spec => []TypeOK
  BY Invariance, PTL DEF IInv

(* No half of the region is written by one process while the other reads   *)
(* it: the guard of hm2_region_begin is enough, without a lock.            *)
THEOREM NoRace == Spec => []NoDataRace
<1>1. IInv => NoDataRace
  <2> SUFFICES ASSUME IInv PROVE NoDataRace
    OBVIOUS
  <2>1. ~(HostWritesInput /\ CoreReadsInput)
    BY DEF IInv, TypeOK, Handshake, HostPublishes, CoreBusy, HostWritesInput, CoreReadsInput
  <2>2. HostReadsOutput /\ CoreWritesOutput => ccycle = answered + 1
    BY DEF IInv, TypeOK, Handshake, CoreBusy, CoreWritesOutput
  <2>3. Half(answered + 1) # Half(answered)
    BY HalfFacts DEF IInv, TypeOK
  <2> QED
    BY <2>1, <2>2, <2>3 DEF NoDataRace
<1> QED
  BY <1>1, Invariance, PTL

(* The core answers cycle n from the values and the bus state of cycle n,  *)
(* never from a mixture of two periods' samples.                           *)
THEOREM WholeSamples == Spec => []AnswerOfItsCycle
<1>1. IInv => AnswerOfItsCycle
  BY DEF IInv, InputBlocks, AnswerOfItsCycle
<1> QED
  BY <1>1, Invariance, PTL

(* A step of the processes is a step, or a stutter, of the two blocks that *)
(* change at once.                                                         *)
LEMMA InitRefines == Init => Abstract!Init
  BY HalfFacts DEF Init, Abstract!Init, Abstract!Inputs, Abstract!Outputs, Seeded,
                   Offered, NewestAnswer, HeldOutputs, HostReadsOutput

LEMMA StepRefines == IInv /\ IInv' /\ [Next]_vars => [Abstract!Next]_(Abstract!vars)
<1> SUFFICES ASSUME IInv, IInv', [Next]_vars PROVE [Abstract!Next]_(Abstract!vars)
  OBVIOUS
<1> USE DEF region, local, pins, core, history, At, Goto, CoreAt, CoreGoto
<1>0. /\ Half(cycle) \in {0, 1} /\ Half(cycle + 1) # Half(cycle)
      /\ Half(ccycle) \in {0, 1} /\ Half(response) \in {0, 1}
      /\ Half(response + 1) # Half(response)
      /\ Half(answered) \in {0, 1} /\ Half(answered + 1) # Half(answered)
  BY HalfFacts DEF IInv, TypeOK
<1>1. CASE Collect
  <2>1. UNCHANGED <<cycle, Offered, NewestAnswer, applied>> /\ HeldOutputs = applied
    BY <1>1 DEF Collect, Offered, NewestAnswer, HeldOutputs, HostReadsOutput
  <2>2. HeldOutputs' \in {HeldOutputs, NewestAnswer}
    BY <1>1 DEF Collect, AfterCollect, NewestAnswer, HeldOutputs, HostReadsOutput
  <2> QED
    BY <2>1, <2>2 DEF Abstract!Next, Abstract!Collect, Abstract!vars
<1>2. CASE TakeChange
  <2>1. UNCHANGED <<cycle, Offered, NewestAnswer>> /\ HeldOutputs = output[Half(answered)]
    BY <1>2 DEF TakeChange, Offered, NewestAnswer, HeldOutputs, HostReadsOutput
  <2>2. output[Half(answered)].every = pin.every /\ output[Half(answered)] \in Taken
    BY <1>2, <1>0 DEF IInv, TypeOK, OutputBlocks, TakeChange, HostReadsOutput
  <2>3. applied' = output[Half(answered)]
    BY <1>2, <2>2 DEF TakeChange, TakenHalf, Taken
  <2>4. HeldOutputs' = applied'
    BY <1>2 DEF TakeChange, AfterCollect, HeldOutputs, HostReadsOutput
  <2> QED
    BY <2>1, <2>3, <2>4 DEF Abstract!Next, Abstract!Apply
<1>3. CASE Fill \/ SetBus
  <2>1. hcycle = cycle + 1
    BY <1>3 DEF IInv, Handshake, HostPublishes, Fill, SetBus
  <2>2. Offered' = Offered
    BY <1>3, <2>1, <1>0 DEF IInv, TypeOK, Fill, SetBus, Offered
  <2>3. UNCHANGED <<cycle, NewestAnswer, HeldOutputs, applied>>
    BY <1>3 DEF Fill, SetBus, NewestAnswer, HeldOutputs, HostReadsOutput
  <2> QED
    BY <2>2, <2>3 DEF Abstract!vars
<1>4. CASE Publish
  <2>1. hcycle = cycle + 1 /\ response = cycle /\ cycle' = cycle + 1
    BY <1>4 DEF IInv, Handshake, HostPublishes, Publish
  <2>2. NewestAnswer.every = cycle
    BY <2>1 DEF IInv, OutputBlocks, NewestAnswer
  <2>3. Offered' = [values |-> cycle', bus |-> cycle']
    BY DEF IInv, InputBlocks, Offered
  <2>4. UNCHANGED <<NewestAnswer, HeldOutputs, applied>>
    BY <1>4 DEF Publish, NewestAnswer, HeldOutputs, HostReadsOutput
  <2> QED
    BY <2>1, <2>2, <2>3, <2>4 DEF Abstract!Next, Abstract!Publish, Abstract!Inputs
<1>5. CASE CoreWriteEvery \/ CoreWriteChange
  <2>1. ccycle = response + 1 /\ (HostReadsOutput => ccycle = answered + 1)
    BY <1>5 DEF IInv, TypeOK, Handshake, CoreWriteEvery, CoreWriteChange, CoreBusy
  <2>2. /\ NewestAnswer' = NewestAnswer
        /\ HeldOutputs' = HeldOutputs
    BY <1>5, <2>1, <1>0 DEF IInv, TypeOK, CoreWriteEvery, CoreWriteChange, NewestAnswer,
                            HeldOutputs, HostReadsOutput
  <2>3. UNCHANGED <<cycle, Offered, applied>>
    BY <1>5 DEF CoreWriteEvery, CoreWriteChange, Offered
  <2> QED
    BY <2>2, <2>3 DEF Abstract!vars
<1>6. CASE CoreRespond
  <2>1. response' = ccycle /\ ccycle = cycle /\ response < cycle
    BY <1>6 DEF IInv, TypeOK, Handshake, CoreRespond, CoreBusy
  <2>2. NewestAnswer.every = response /\ Offered.values = cycle
    BY DEF IInv, InputBlocks, OutputBlocks, NewestAnswer, Offered
  <2>3. NewestAnswer' = [every |-> ccycle, change |-> request] /\ request \in Levels
    <3>1. /\ output[Half(ccycle)] \in Taken /\ request \in Levels
          /\ output[Half(ccycle)].every = ccycle
          /\ output[Half(ccycle)].change = request
      BY <1>6, <1>0 DEF IInv, TypeOK, OutputBlocks, CoreRespond
    <3>2. NewestAnswer' = output[Half(ccycle)]
      BY <1>6 DEF CoreRespond, NewestAnswer
    <3> QED
      BY <3>1, <3>2 DEF Taken
  <2>4. UNCHANGED <<cycle, Offered, HeldOutputs, applied>>
    BY <1>6 DEF CoreRespond, Offered, HeldOutputs, HostReadsOutput
  <2> QED
    BY <2>1, <2>2, <2>3, <2>4 DEF Abstract!Next, Abstract!Answer, Abstract!Outputs
<1>7. CASE /\ UNCHANGED <<cycle, response, input, output, applied, answered>>
           /\ HostReadsOutput' = HostReadsOutput
  BY <1>7 DEF Abstract!vars, Offered, NewestAnswer, HeldOutputs
<1>8. CASE \/ Wake \/ Read \/ TakeEvery \/ Write \/ Begin \/ Overrun \/ Bump \/ Wait
  <2>1. UNCHANGED <<cycle, response, input, output, applied, answered>>
    BY <1>8 DEF Wake, Read, TakeEvery, Write, Begin, Overrun, Bump, Wait
  <2>2. HostReadsOutput' = HostReadsOutput
    BY <1>8 DEF Wake, Read, TakeEvery, Write, Begin, Overrun, Bump, Wait, AfterRead,
                AfterWrite, AfterBegin, HostReadsOutput
  <2> QED
    BY <2>1, <2>2, <1>7
<1>9. CASE \/ LoadWord \/ CheckAnswer \/ FutexWait \/ TimedOut \/ CheckState \/ Destroy
           \/ Deadline \/ Signal
  <2>1. UNCHANGED <<cycle, response, input, output, applied, answered>>
    BY <1>9 DEF LoadWord, CheckAnswer, FutexWait, TimedOut, CheckState, Destroy,
                Deadline, Signal
  <2>2. HostReadsOutput' = HostReadsOutput
    BY <1>9 DEF LoadWord, CheckAnswer, FutexWait, TimedOut, CheckState, Destroy,
                Deadline, Signal, HostReadsOutput
  <2> QED
    BY <2>1, <2>2, <1>7
<1>10. CASE \/ CoreAttach \/ CoreTakeUp \/ CoreReadValues \/ CoreReadBus \/ CoreBump
            \/ CoreWake \/ CoreLeave \/ CoreDie
  <2>1. UNCHANGED <<cycle, response, input, output, applied, answered>>
    BY <1>10 DEF CoreAttach, CoreTakeUp, CoreReadValues, CoreReadBus, CoreBump, CoreWake,
                 CoreLeave, CoreDie
  <2>2. HostReadsOutput' = HostReadsOutput
    BY <1>10 DEF CoreAttach, CoreTakeUp, CoreReadValues, CoreReadBus, CoreBump, CoreWake,
                 CoreLeave, CoreDie, HostReadsOutput
  <2> QED
    BY <2>1, <2>2, <1>7
<1>11. CASE UNCHANGED vars
  BY <1>11, <1>7 DEF vars, HostReadsOutput
<1> QED
  BY <1>1, <1>2, <1>3, <1>4, <1>5, <1>6, <1>8, <1>9, <1>10, <1>11
     DEF Next, HostStep, CoreStep

(* The two halves, the two counters and the parity implement one input     *)
(* block and one output block that change in one step each: what reaches   *)
(* the pins is one whole answer, in the order they were given.             *)
THEOREM Implements == Spec => Refines
  BY InitRefines, StepRefines, Invariance, PTL DEF Spec, Refines, Abstract!Spec

-----------------------------------------------------------------------------
(* The wait: between the load of the word and the sleep an answer shows in *)
(* the word, or its core has yet to bump it.                               *)
Waits == hpc \in {"wait", "loadWord", "checkAnswer", "futexWait", "asleep"}

Waiting ==
  /\ Waits \/ At("bump") => hcycle = cycle
  /\ Waits => sameCycle
  /\ hpc \in {"checkAnswer", "futexWait"} => expected <= word
  /\ At("futexWait") /\ response >= hcycle => word # expected \/ cpc \in {"bumpWord", "gone"}
  /\ NoLostWakeup

LEMMA WaitingInv == Spec => []Waiting
<1>1. Init => Waiting
  BY DEF Init, Waiting, Waits, NoLostWakeup, At
<1>2. IInv /\ Waiting /\ [Next]_vars => Waiting'
  <2> SUFFICES ASSUME IInv, Waiting, [Next]_vars PROVE Waiting'
    OBVIOUS
  <2>0. /\ word \in Nat /\ expected \in Nat /\ response \in Nat /\ hcycle \in Nat
        /\ cycle \in Nat /\ ccycle \in Nat
    BY DEF IInv, TypeOK
  <2> USE <2>0 DEF Waiting, Waits, NoLostWakeup, At, Goto, CoreAt, CoreGoto, region, local, core
  <2>1. CASE Wake \/ Read \/ Collect \/ TakeEvery \/ TakeChange \/ Write
    BY <2>1 DEF Wake, Read, Collect, TakeEvery, TakeChange, Write, AfterRead, AfterCollect,
       AfterWrite
  <2>2. CASE Begin \/ Overrun \/ Fill \/ SetBus \/ Publish \/ CheckState \/ Destroy
    BY <2>2 DEF Begin, Overrun, Fill, SetBus, Publish, CheckState, Destroy
  <2>3. CASE Bump \/ Wait \/ LoadWord
    BY <2>3 DEF Bump, AfterBegin, Wait, LoadWord
  <2>4. CASE CheckAnswer \/ FutexWait \/ TimedOut
    BY <2>4 DEF CheckAnswer, InTime, FutexWait, Unchanged, TimedOut
  <2>5. CASE Deadline \/ Signal \/ CoreAttach \/ CoreLeave \/ CoreDie
    BY <2>5 DEF Deadline, Signal, CoreAttach, CoreLeave, CoreDie
  <2>6. CASE CoreTakeUp \/ CoreReadValues \/ CoreReadBus \/ CoreWriteEvery \/ CoreWriteChange
    BY <2>6 DEF CoreTakeUp, CoreReadValues, CoreReadBus, CoreWriteEvery, CoreWriteChange
  <2>7. CASE CoreRespond
    BY <2>7 DEF CoreRespond
  <2>8. CASE CoreBump \/ CoreWake
    BY <2>8 DEF CoreBump, CoreWake
  <2>9. CASE UNCHANGED vars
    BY <2>9 DEF vars
  <2> QED
    BY <2>1, <2>2, <2>3, <2>4, <2>5, <2>6, <2>7, <2>8, <2>9 DEF Next, HostStep, CoreStep
<1> QED
  BY <1>1, <1>2, Invariance, PTL DEF Spec

(* hm2_region_wait_answer never sleeps through the answer it waits for.    *)
THEOREM NoWakeupLost == Spec => []NoLostWakeup
<1>1. Waiting => NoLostWakeup
  BY DEF Waiting
<1> QED
  BY <1>1, WaitingInv, PTL

-----------------------------------------------------------------------------
(* Once the wait ends in time the answer is this cycle's, and its outputs  *)
(* are those collected and applied.                                        *)
Fresh ==
  /\ sameCycle /\ hcycle > 1 /\ ~late =>
      /\ hpc \in {"collect", "takeEvery", "takeChange"} => response = hcycle /\ hcycle = cycle
      /\ HostReadsOutput => answered = hcycle
  /\ SameCycleFresh

LEMMA FreshInv == Spec => []Fresh
<1>1. Init => Fresh
  BY DEF Init, Fresh, SameCycleFresh, HostReadsOutput, At
<1>2. IInv /\ Waiting /\ Fresh /\ [Next]_vars => Fresh'
  <2> SUFFICES ASSUME IInv, Waiting, Fresh, [Next]_vars PROVE Fresh'
    OBVIOUS
  <2>0. /\ response \in Nat /\ hcycle \in Nat /\ answered \in Nat
        /\ cycle \in Nat /\ ccycle \in Nat /\ response <= cycle /\ cycle <= response + 1
        /\ CoreBusy => ccycle = response + 1 /\ cycle = response + 1
    BY DEF IInv, TypeOK, Handshake
  <2> USE <2>0 DEF Fresh, SameCycleFresh, HostReadsOutput, At, Goto, CoreAt, CoreGoto,
          region, local, core, history, pins
  <2>1. CASE Wake \/ Read \/ Write \/ CheckState \/ Destroy
    BY <2>1 DEF Wake, Read, Write, AfterRead, AfterWrite, CheckState, Destroy
  <2>2. CASE Collect
    BY <2>2 DEF Collect, AfterCollect
  <2>3. CASE TakeEvery
    BY <2>3 DEF TakeEvery
  <2>4. CASE TakeChange
    <3>1. pin.every = answered /\ applied'.every = pin.every
      BY <2>4 DEF TakeChange, IInv, OutputBlocks
    <3>2. QED
      BY <2>4, <3>1 DEF TakeChange, AfterCollect
  <2>5. CASE Begin \/ Overrun \/ Fill \/ SetBus \/ Publish \/ Bump
    BY <2>5 DEF Begin, Overrun, Fill, SetBus, Publish, Bump, AfterBegin
  <2>6. CASE Wait \/ LoadWord \/ CheckAnswer
    BY <2>6 DEF Wait, LoadWord, CheckAnswer, InTime, Waiting, Waits
  <2>7. CASE FutexWait \/ TimedOut \/ Deadline \/ Signal
    BY <2>7 DEF FutexWait, TimedOut, Deadline, Signal
  <2>8. CASE CoreAttach \/ CoreLeave \/ CoreDie \/ CoreTakeUp \/ CoreReadValues \/ CoreReadBus
             \/ CoreWriteEvery \/ CoreWriteChange
    BY <2>8 DEF CoreAttach, CoreLeave, CoreDie, CoreTakeUp, CoreReadValues, CoreReadBus,
          CoreWriteEvery, CoreWriteChange
  <2>9. CASE CoreRespond
    BY <2>9 DEF CoreRespond, CoreBusy
  <2>10. CASE CoreBump \/ CoreWake
    BY <2>10 DEF CoreBump, CoreWake
  <2>11. CASE UNCHANGED vars
    BY <2>11 DEF vars
  <2> QED
    BY <2>1, <2>2, <2>3, <2>4, <2>5, <2>6, <2>7, <2>8, <2>9, <2>10, <2>11
       DEF Next, HostStep, CoreStep
<1> QED
  BY <1>1, <1>2, Invariance, WaitingInv, PTL DEF Spec

(* With same_cycle a write that is not late puts out the answer to the     *)
(* inputs of the same period.                                              *)
THEOREM FreshWhenInTime == Spec => []SameCycleFresh
<1>1. Fresh => SameCycleFresh
  BY DEF Fresh
<1> QED
  BY <1>1, FreshInv, PTL

-----------------------------------------------------------------------------
(* The writes since the answer: two periods may write before a begin is    *)
(* refused, the one the answer fell in and the one that the answer let     *)
(* begin; after that each costs an unanswered cycle.                       *)
Ended == hpc \in {"leave", "gone"}
Spare == IF sameCycle THEN hpc \in {"checkState", "top", "read", "begin"} ELSE At("begin")
Collected == IF sameCycle THEN hpc \in {"write", "checkState", "top", "read", "begin"}
                          ELSE hpc \in {"read", "write", "begin"}

Silenced == ResponseLimit > 0 =>
  /\ response = 0 => writes = 0
  /\ Collected /\ response > 0 /\ response # cycle => attached = TRUE
  /\ Ended => writes <= ResponseLimit + 1
  /\ ~Ended => unanswered < ResponseLimit
  /\ ~Ended /\ response = cycle /\ (Spare \/ HostPublishes) => writes <= 1
  /\ ~Ended /\ response = cycle /\ ~Spare /\ ~HostPublishes => writes = 0
  /\ ~Ended /\ response # cycle /\ Spare => writes <= unanswered + 2
  /\ ~Ended /\ response # cycle /\ ~Spare => writes <= unanswered + 1

LEMMA SilencedInv == Spec => []Silenced
<1>1. Init => Silenced
  BY DEF Init, Silenced, Spare, HostPublishes, Ended, Collected, At
<1>2. IInv /\ Silenced /\ [Next]_vars => Silenced'
  <2> SUFFICES ASSUME ResponseLimit > 0, IInv, Silenced, [Next]_vars PROVE Silenced'
    BY DEF Silenced
  <2>0. /\ response \in Nat /\ cycle \in Nat /\ ccycle \in Nat /\ writes \in Nat
        /\ unanswered \in Nat /\ unanswered <= MaxUnanswered
        /\ response <= cycle /\ cycle <= response + 1
        /\ CoreBusy => ccycle = response + 1 /\ cycle = response + 1
        /\ HostPublishes => hcycle = cycle + 1 /\ response = cycle
        /\ sameCycle \in BOOLEAN
    BY ChannelAssumption DEF IInv, TypeOK, Handshake
  <2> USE <2>0, ChannelAssumption
      DEF Silenced, Spare, HostPublishes, Ended, Collected, At, Goto, CoreAt, CoreGoto,
          region, local, core, history, pins
  <2>1. CASE Wake \/ Read \/ CheckState \/ Destroy
    BY <2>1 DEF Wake, Read, AfterRead, CheckState, Destroy
  <2>2. CASE Collect \/ TakeEvery \/ TakeChange
    BY <2>2 DEF Collect, AfterCollect, TakeEvery, TakeChange
  <2>3. CASE Write
    BY <2>3 DEF Write, AfterWrite
  <2>4. CASE Begin
    BY <2>4 DEF Begin, Behind
  <2>5. CASE Overrun
    BY <2>5 DEF Overrun, Behind, Counted
  <2>6. CASE Fill \/ SetBus \/ Publish \/ Bump
    BY <2>6 DEF Fill, SetBus, Publish, Bump, AfterBegin, HostPublishes
  <2>7. CASE Wait \/ LoadWord \/ CheckAnswer \/ FutexWait \/ TimedOut \/ Deadline \/ Signal
    BY <2>7 DEF Wait, LoadWord, CheckAnswer, FutexWait, TimedOut, Deadline, Signal
  <2>8. CASE CoreAttach \/ CoreLeave \/ CoreDie \/ CoreTakeUp \/ CoreReadValues \/ CoreReadBus
             \/ CoreWriteEvery \/ CoreWriteChange
    BY <2>8 DEF CoreAttach, CoreLeave, CoreDie, CoreTakeUp, CoreReadValues, CoreReadBus,
          CoreWriteEvery, CoreWriteChange
  <2>9. CASE CoreRespond
    BY <2>9 DEF CoreRespond, CoreBusy
  <2>10. CASE CoreBump \/ CoreWake
    BY <2>10 DEF CoreBump, CoreWake
  <2>11. CASE UNCHANGED vars
    BY <2>11 DEF vars
  <2> QED
    BY <2>1, <2>2, <2>3, <2>4, <2>5, <2>6, <2>7, <2>8, <2>9, <2>10, <2>11
       DEF Next, HostStep, CoreStep
<1> QED
  BY <1>1, <1>2, Invariance, PTL DEF Spec

(* A core that answers no more has its last outputs written at most        *)
(* response_watchdog_cycles + 1 times, in either order of the period.      *)
THEOREM SilentCoreBounded == Spec => []SilentBound
<1>1. IInv /\ Silenced => SilentBound
  <2> SUFFICES ASSUME IInv, Silenced, ResponseLimit > 0 PROVE writes <= ResponseLimit + 1
    BY DEF SilentBound
  <2>1. writes \in Nat /\ unanswered \in Nat /\ ResponseLimit \in Nat
    BY ChannelAssumption DEF IInv, TypeOK
  <2> QED
    BY <2>1 DEF Silenced
<1> QED
  BY <1>1, Invariance, SilencedInv, PTL

-----------------------------------------------------------------------------
(* The level asked in answer n, or the seed, and the answers that changed it. *)
Level(s, n) == IF n = 0 THEN Seed ELSE s[n]
Changed(s, n) == {k \in 1 .. n : s[k] # Level(s, k - 1)}

(* A level that is not on the pin yet costs a change in some answer not    *)
(* taken yet.                                                              *)
Counts ==
  \A m \in applied.every .. response :
    /\ changes <= Cardinality(Changed(asked, m))
    /\ Level(asked, m) # last => changes + 1 <= Cardinality(Changed(asked, m))

Levelled ==
  /\ Len(asked) = response
  /\ output[Half(response)].change = Level(asked, response)
  /\ HostReadsOutput => output[Half(answered)].change = Level(asked, answered)
  /\ HostReadsOutput => applied.every <= answered
  /\ applied.every <= response /\ last = Level(asked, applied.every)

Requests == Levelled /\ Counts

LEMMA ChangedFinite ==
  ASSUME NEW s, NEW n \in Nat
  PROVE  IsFiniteSet(Changed(s, n)) /\ Cardinality(Changed(s, n)) \in Nat
<1>1. IsFiniteSet(1 .. n)
  BY FS_Interval
<1>2. Changed(s, n) \subseteq 1 .. n
  BY DEF Changed
<1> QED
  BY <1>1, <1>2, FS_Subset, FS_CardinalityType

(* One answer more is one change more, if it changes the level.            *)
LEMMA ChangedNext ==
  ASSUME NEW s, NEW n \in Nat
  PROVE  /\ Cardinality(Changed(s, n)) <= Cardinality(Changed(s, n + 1))
         /\ Level(s, n + 1) # Level(s, n) =>
              Cardinality(Changed(s, n + 1)) = Cardinality(Changed(s, n)) + 1
<1>1. s[n + 1] = Level(s, n + 1)
  BY DEF Level
<1>2. Changed(s, n + 1) = IF Level(s, n + 1) # Level(s, n) THEN Changed(s, n) \cup {n + 1}
                                                         ELSE Changed(s, n)
  BY <1>1 DEF Changed
<1>3. n + 1 \notin Changed(s, n)
  BY DEF Changed
<1>4. IsFiniteSet(Changed(s, n)) /\ Cardinality(Changed(s, n)) \in Nat
  BY ChangedFinite
<1>5. Cardinality(Changed(s, n) \cup {n + 1}) = Cardinality(Changed(s, n)) + 1
  BY <1>3, <1>4, FS_AddElement
<1> QED
  BY <1>2, <1>4, <1>5

(* The sequence of requests grows at its end.                              *)
LEMMA AskedGrows ==
  ASSUME NEW s \in Seq(Levels), NEW level \in Levels, NEW n \in 0 .. Len(s)
  PROVE  /\ Level(Append(s, level), n) = Level(s, n)
         /\ Changed(Append(s, level), n) = Changed(s, n)
<1>1. \A k \in 1 .. n : Append(s, level)[k] = s[k]
  OBVIOUS
<1>2. \A k \in 1 .. n : Level(Append(s, level), k - 1) = Level(s, k - 1)
  BY <1>1 DEF Level
<1> QED
  BY <1>1, <1>2 DEF Level, Changed

LEMMA RequestsInv == Spec => []Requests
<1>1. Init => Requests
  <2> SUFFICES ASSUME Init PROVE Requests
    OBVIOUS
  <2>1. asked = <<>> /\ response = 0 /\ applied.every = 0 /\ changes = 0 /\ last = Seed
    BY DEF Init, Seeded
  <2>2. Levelled
    BY <2>1, HalfFacts DEF Init, Seeded, Levelled, Level, HostReadsOutput
  <2>3. Cardinality(Changed(asked, 0)) \in Nat /\ Level(asked, 0) = last
    BY <2>1, ChangedFinite DEF Level
  <2> QED
    BY <2>1, <2>2, <2>3 DEF Requests, Counts
<1>2. IInv /\ Requests /\ [Next]_vars => Requests'
  <2> SUFFICES ASSUME IInv, Requests, [Next]_vars PROVE Requests'
    OBVIOUS
  <2>0. /\ response \in Nat /\ answered \in Nat /\ applied.every \in Nat /\ changes \in Nat
        /\ asked \in Seq(Levels) /\ Len(asked) = response /\ request \in Levels
        /\ applied.every <= response
        /\ HostReadsOutput => answered <= response /\ response <= answered + 1
    BY DEF IInv, TypeOK, Handshake, Taken, Requests, Levelled
  <2>h. /\ Half(response) \in {0, 1} /\ Half(answered) \in {0, 1} /\ Half(ccycle) \in {0, 1}
        /\ Half(response + 1) # Half(response) /\ Half(answered + 1) # Half(answered)
    BY <2>0, HalfFacts DEF IInv, TypeOK
  <2>1. CASE UNCHANGED <<response, output, applied, asked, changes, last>>
             /\ (HostReadsOutput' => HostReadsOutput /\ answered' = answered)
    BY <2>1 DEF Requests, Levelled, Counts
  <2>2. CASE \/ Wake \/ Read \/ TakeEvery \/ Write \/ Begin \/ Overrun \/ Fill \/ SetBus
             \/ Publish \/ Bump \/ Wait
    BY <2>1, <2>2 DEF Wake, Read, TakeEvery, Write, Begin, Overrun, Fill, SetBus, Publish, Bump,
       Wait, AfterRead, AfterWrite, AfterBegin, HostReadsOutput, region, local, pins, core,
       history, At, Goto
  <2>3. CASE \/ LoadWord \/ CheckAnswer \/ FutexWait \/ TimedOut \/ CheckState \/ Destroy
             \/ Deadline \/ Signal
    BY <2>1, <2>3 DEF LoadWord, CheckAnswer, FutexWait, TimedOut, CheckState, Destroy, Deadline,
       Signal, HostReadsOutput, region, local, pins, core, history, At, Goto
  <2>4. CASE \/ CoreAttach \/ CoreTakeUp \/ CoreReadValues \/ CoreReadBus \/ CoreBump
             \/ CoreWake \/ CoreLeave \/ CoreDie \/ UNCHANGED vars
    BY <2>1, <2>4 DEF CoreAttach, CoreTakeUp, CoreReadValues, CoreReadBus, CoreBump, CoreWake,
       CoreLeave, CoreDie, vars, HostReadsOutput, region, local, pins, core, history, At, Goto,
       CoreAt, CoreGoto
  <2>5. CASE CoreWriteEvery \/ CoreWriteChange
    <3>1. UNCHANGED <<response, applied, asked, changes, last, hpc, answered>>
      BY <2>5 DEF CoreWriteEvery, CoreWriteChange, local, pins, history
    <3>2. /\ ccycle = response + 1 /\ (HostReadsOutput => Half(answered) # Half(ccycle))
      BY <2>5, <2>0, <2>h DEF IInv, TypeOK, Handshake, CoreWriteEvery, CoreWriteChange, CoreBusy,
         CoreAt
    <3>3. /\ output'[Half(response)] = output[Half(response)]
          /\ HostReadsOutput => output'[Half(answered)] = output[Half(answered)]
      BY <2>5, <3>2, <2>h DEF CoreWriteEvery, CoreWriteChange, IInv, TypeOK
    <3> QED
      BY <3>1, <3>3 DEF Requests, Levelled, Counts, HostReadsOutput
  <2>6. CASE Collect
    <3>1. UNCHANGED <<response, output, applied, asked, changes, last>> /\ answered' = response
      BY <2>6 DEF Collect, region, pins, history
    <3>2. output[Half(response)].change = Level(asked, response)
      BY DEF Requests, Levelled
    <3> QED
      BY <3>1, <3>2, <2>0 DEF Requests, Levelled, Counts
  <2>7. CASE TakeChange
    <3>0. HostReadsOutput /\ ~HostReadsOutput'
      BY <2>7 DEF TakeChange, HostReadsOutput, AfterCollect, At, Goto
    <3>1. /\ pin.every = answered /\ applied'.every = answered
          /\ last' = Level(asked, answered) /\ UNCHANGED <<response, output, asked>>
          /\ changes' = IF Level(asked, answered) # last THEN changes + 1 ELSE changes
      BY <2>7, <3>0 DEF TakeChange, TakenHalf, IsChange, IInv, OutputBlocks, Requests, Levelled,
         region, At
    <3>2. /\ changes' <= Cardinality(Changed(asked, answered))
      BY <2>0, <3>0, <3>1 DEF Requests, Levelled, Counts
    <3>3. ASSUME NEW m \in answered .. response
          PROVE  /\ changes' <= Cardinality(Changed(asked, m))
                 /\ Level(asked, m) # Level(asked, answered) =>
                      changes' + 1 <= Cardinality(Changed(asked, m))
      <4>1. m = answered \/ m = answered + 1
        BY <2>0, <3>0
      <4>2. /\ Cardinality(Changed(asked, answered)) \in Nat
            /\ Cardinality(Changed(asked, answered + 1)) \in Nat
        <5>1. answered + 1 \in Nat
          BY <2>0
        <5> QED
          BY <2>0, <5>1, ChangedFinite
      <4>3. changes' \in Nat
        BY <2>0, <3>1
      <4>4. /\ Cardinality(Changed(asked, answered)) <= Cardinality(Changed(asked, answered + 1))
            /\ Level(asked, answered + 1) # Level(asked, answered) =>
                 Cardinality(Changed(asked, answered + 1))
                   = Cardinality(Changed(asked, answered)) + 1
        BY <2>0, ChangedNext
      <4> QED
        BY <3>2, <4>1, <4>2, <4>3, <4>4
    <3>4. Counts'
      BY <3>1, <3>3 DEF Counts
    <3>5. Levelled'
      BY <2>0, <3>0, <3>1 DEF Requests, Levelled, Level
    <3> QED
      BY <3>4, <3>5 DEF Requests
  <2>8. CASE CoreRespond
    <3>1. /\ response' = response + 1 /\ ccycle = response + 1
          /\ asked' = Append(asked, request)
          /\ UNCHANGED <<output, applied, changes, last, hpc, answered>>
      BY <2>8 DEF CoreRespond, IInv, Handshake, CoreBusy, CoreAt, local, pins
    <3>2. output[Half(response + 1)].change = request
      BY <2>8, <3>1 DEF CoreRespond, IInv, OutputBlocks, CoreAt
    <3>3. /\ Level(asked', response + 1) = request /\ Len(asked') = response + 1
      BY <2>0, <3>1 DEF Level
    <3>4. \A n \in 0 .. response :
            Level(asked', n) = Level(asked, n) /\ Changed(asked', n) = Changed(asked, n)
      BY <2>0, <3>1, AskedGrows
    <3>5. Levelled'
      BY <2>0, <3>1, <3>2, <3>3, <3>4 DEF Requests, Levelled, HostReadsOutput
    <3>6. ASSUME NEW m \in applied.every .. response + 1
          PROVE  /\ changes <= Cardinality(Changed(asked', m))
                 /\ Level(asked', m) # last => changes + 1 <= Cardinality(Changed(asked', m))
      <4>1. CASE m <= response
        BY <4>1, <2>0, <3>4 DEF Requests, Counts
      <4>2. CASE m = response + 1
        <5>1. /\ Cardinality(Changed(asked', response))
                   <= Cardinality(Changed(asked', response + 1))
              /\ Level(asked', response + 1) # Level(asked', response) =>
                   Cardinality(Changed(asked', response + 1))
                     = Cardinality(Changed(asked', response)) + 1
          BY <2>0, ChangedNext
        <5>2. /\ changes <= Cardinality(Changed(asked, response))
              /\ Level(asked, response) # last =>
                   changes + 1 <= Cardinality(Changed(asked, response))
          BY <2>0 DEF Requests, Counts
        <5>3. /\ Level(asked', response) = Level(asked, response)
              /\ Changed(asked', response) = Changed(asked, response)
          BY <2>0, <3>4
        <5>4. /\ Cardinality(Changed(asked', response + 1)) \in Nat
              /\ Cardinality(Changed(asked', response)) \in Nat
          <6>1. response + 1 \in Nat
            BY <2>0
          <6> QED
            BY <2>0, <6>1, ChangedFinite
        <5> QED
          BY <4>2, <5>1, <5>2, <5>3, <5>4, <2>0
      <4> QED
        BY <4>1, <4>2, <2>0
    <3>7. Counts'
      BY <3>1, <3>6 DEF Counts
    <3> QED
      BY <3>5, <3>7 DEF Requests
  <2> QED
    BY <2>2, <2>3, <2>4, <2>5, <2>6, <2>7, <2>8 DEF Next, HostStep, CoreStep
<1> QED
  BY <1>1, <1>2, Invariance, PTL DEF Spec

(* An on-change output is written at most once for each change of the      *)
(* level the core asks for.                                                *)
THEOREM HeldLevelsStay == Spec => []AppliedOnce
<1>1. ASSUME IInv, Requests PROVE AppliedOnce
  <2>1. applied.every \in applied.every .. response
    BY <1>1 DEF IInv, TypeOK, Taken, Requests, Levelled
  <2>2. changes <= Cardinality(Changed(asked, applied.every))
    BY <1>1, <2>1 DEF Requests, Counts
  <2>3. Changed(asked, applied.every)
          = {n \in 1 .. applied.every : asked[n] # AskedBefore(n)}
    BY <1>1, <2>1 DEF Changed, Level, AskedBefore
  <2> QED
    BY <2>2, <2>3 DEF AppliedOnce
<1> QED
  BY <1>1, Invariance, RequestsInv, PTL
=============================================================================
