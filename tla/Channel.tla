------------------------------ MODULE Channel ------------------------------
(***************************************************************************)
(* The shared region of driver-hostmot2 and the two processes that use it: *)
(* this host's cycle (src/host/main.c, src/host/region.c) and the core,    *)
(* which is outside the repository and is modelled from the protocol       *)
(* src/host/include/cnc_outboard.h says it follows.                        *)
(*                                                                         *)
(* The region holds two halves of inputs and two of outputs, selected by   *)
(* the parity of the cycle number, and two counters.  Every access to a    *)
(* half that another access could interrupt is a step of its own, so the   *)
(* two processes interleave as two processes on two CPUs do.  A block is   *)
(* abstracted to its parts: an input half to its value block and its bus   *)
(* state, an output half to a signal the host applies every cycle and one  *)
(* it applies on change.  A part is the number of the cycle that wrote it, *)
(* or, for the on-change output, the level the core asked for.             *)
(***************************************************************************)
EXTENDS Naturals, Sequences, FiniteSets

CONSTANTS
  ResponseLimit,  \* config.response_watchdog_cycles, 0: no limit
  Levels, Seed,   \* values of the on-change output, and its first one
  MaxAnswers,     \* bound: the core answers at most this many cycles
  MaxUnanswered   \* bound: the counter of unanswered cycles stops here

ASSUME ChannelAssumption ==
  /\ ResponseLimit \in Nat
  /\ MaxAnswers \in Nat
  /\ MaxUnanswered \in Nat /\ MaxUnanswered >= ResponseLimit
  /\ Seed \in Levels

VARIABLES
  sameCycle,         \* config.same_cycle
  (* the shared region *)
  cycle, response,   \* the counters: published by the host, answered by the core
  input, output,     \* the two halves of each block
  word, chan,        \* the futex word, the channel's state
  (* the host *)
  hpc,               \* where its cycle stands
  hcycle,            \* the cycle begun in this period, 0 for none
  answered,          \* the cycle whose outputs it collected
  expected,          \* the futex word it will sleep on
  late,              \* the send deadline of this period has passed
  attached, unanswered, stopping,
  pin, last,         \* the driver's output pins; the last level applied
  (* the core *)
  cpc, ccycle, cread, request,
  (* history: for the properties, never read by the code *)
  applied,           \* the outputs last put on the pins as a whole
  asked,             \* the level asked in each answer
  changes,           \* times the host wrote the on-change pin
  writes             \* writes to the card since the newest answer

region == <<cycle, response, input, output, word, chan>>
local  == <<hcycle, answered, expected, late, attached, unanswered, stopping>>
pins   == <<pin, last>>
core   == <<cpc, ccycle, cread, request>>
history == <<applied, asked, changes, writes>>
vars   == <<sameCycle, region, hpc, local, pins, core, history>>

Running == "running"
Shutdown == "shutdown"
Faulted == "faulted"

(* This parity's half of a block. *)
Half(n) == n % 2

-----------------------------------------------------------------------------
(* The start of the cycle: both output halves seeded, every counter zero,  *)
(* the region named and its state RUNNING.                                 *)

Seeded == [every |-> 0, change |-> Seed]

Init ==
  /\ sameCycle \in BOOLEAN
  /\ cycle = 0 /\ response = 0 /\ word = 0 /\ chan = Running
  /\ input = [h \in {0, 1} |-> [values |-> 0, bus |-> 0]]
  /\ output = [h \in {0, 1} |-> Seeded]
  /\ hpc = "top" /\ hcycle = 0 /\ answered = 0 /\ expected = 0
  /\ late = FALSE /\ attached = FALSE /\ unanswered = 0 /\ stopping = FALSE
  /\ pin = Seeded /\ last = Seed
  /\ cpc = "off" /\ ccycle = 0 /\ cread = [values |-> 0, bus |-> 0]
  /\ request = Seed
  /\ applied = Seeded /\ asked = <<>> /\ changes = 0 /\ writes = 0

-----------------------------------------------------------------------------
(* The host's period.  A host that waits for the answer of the same cycle  *)
(* reads, publishes, waits, collects and writes; one that does not         *)
(* collects the answer to the previous publish, reads, writes, publishes.  *)

At(label) == hpc = label
Goto(label) == hpc' = label

AfterCollect == IF sameCycle THEN "write" ELSE "read"
AfterRead    == IF sameCycle THEN "begin" ELSE "write"
AfterWrite   == IF sameCycle THEN "checkState" ELSE "begin"
AfterBegin   == IF sameCycle THEN "wait" ELSE "checkState"

(* A period begins, unless a signal has asked the process to stop. *)
Wake ==
  /\ At("top") /\ late' = FALSE
  /\ Goto(IF stopping THEN "leave" ELSE IF sameCycle THEN "read" ELSE "collect")
  /\ UNCHANGED <<sameCycle, region, pins, core, history,
                 hcycle, answered, expected, attached, unanswered, stopping>>

(* The read: what the card writes into the pin both sides write. *)
Read ==
  /\ At("read") /\ Goto(AfterRead)
  /\ \E level \in Levels : pin' = [pin EXCEPT !.change = level]
  /\ UNCHANGED <<sameCycle, region, local, last, core, history>>

(* The newest answer's number, read once; nothing to take before the first. *)
Collect ==
  /\ At("collect")
  /\ answered' = response
  /\ Goto(IF response = 0 THEN AfterCollect ELSE "takeEvery")
  /\ UNCHANGED <<sameCycle, region, pins, core, history,
                 hcycle, expected, late, attached, unanswered, stopping>>

(* The outputs come from the half of the cycle that answered, which is not *)
(* always the current one.                                                 *)
TakenHalf_current == Half(cycle)
TakenHalf == Half(answered)

TakeEvery ==
  /\ At("takeEvery") /\ Goto("takeChange")
  /\ pin' = [pin EXCEPT !.every = output[TakenHalf].every]
  /\ UNCHANGED <<sameCycle, region, local, last, core, history>>

(* An output the driver writes too is applied when the core changes it. *)
IsChange_always(level) == TRUE
IsChange(level) == level # last

TakeChange ==
  LET level == output[TakenHalf].change IN
  /\ At("takeChange") /\ Goto(AfterCollect)
  /\ last' = level
  /\ pin' = IF IsChange(level) THEN [pin EXCEPT !.change = level] ELSE pin
  /\ changes' = IF IsChange(level) THEN changes + 1 ELSE changes
  /\ attached' = TRUE
  /\ applied' = [every |-> pin.every, change |-> level]
  /\ UNCHANGED <<sameCycle, region, core, asked, writes,
                 hcycle, answered, expected, late, unanswered, stopping>>

(* The write: the pins go to the card, and its watchdog is petted.  The     *)
(* count is of the writes since the core last answered, once it has.        *)
Write ==
  /\ At("write") /\ Goto(AfterWrite)
  /\ writes' = IF response = 0 \/ writes > MaxUnanswered + 1 THEN writes ELSE writes + 1
  /\ UNCHANGED <<sameCycle, region, local, pins, core, applied, asked, changes>>

(* The guard: the core has answered the cycle before the next one. *)
Behind_none(n) == FALSE
Behind_byOne(n) == n >= 2 /\ response + 2 < n
Behind(n) == n >= 2 /\ response + 1 < n

Begin ==
  /\ At("begin") /\ ~Behind(cycle + 1)
  /\ hcycle' = cycle + 1
  /\ unanswered' = 0
  /\ Goto("fill")
  /\ UNCHANGED <<sameCycle, region, pins, core, history,
                 answered, expected, late, attached, stopping>>

(* One more unanswered cycle, counted only once a core has attached. *)
Counted_never == unanswered
Counted == IF attached /\ unanswered < MaxUnanswered THEN unanswered + 1
                                                     ELSE unanswered

(* Begin refused: the core is behind.  The last outputs are repeated until *)
(* the limit, and then the host leaves before it writes again.             *)
Overrun ==
  /\ At("begin") /\ Behind(cycle + 1)
  /\ hcycle' = 0
  /\ unanswered' = Counted
  /\ IF ResponseLimit > 0 /\ unanswered' >= ResponseLimit
     THEN chan' = Faulted /\ Goto("leave")
     ELSE UNCHANGED chan /\ Goto(IF sameCycle THEN "collect" ELSE "checkState")
  /\ UNCHANGED <<sameCycle, cycle, response, input, output, word, pins, core, history,
                 answered, expected, late, attached, stopping>>

(* The value block, then the bus state, into the half of the cycle begun;  *)
(* then the counter that publishes them, then the futex word.              *)
Fill ==
  /\ At("fill") /\ Goto("setBus")
  /\ input' = [input EXCEPT ![Half(hcycle)].values = hcycle]
  /\ UNCHANGED <<sameCycle, cycle, response, output, word, chan, local, pins, core, history>>

SetBus ==
  /\ At("setBus") /\ Goto("publish")
  /\ input' = [input EXCEPT ![Half(hcycle)].bus = hcycle]
  /\ UNCHANGED <<sameCycle, cycle, response, output, word, chan, local, pins, core, history>>

Publish ==
  /\ At("publish") /\ Goto("bump")
  /\ cycle' = hcycle
  /\ UNCHANGED <<sameCycle, response, input, output, word, chan, local, pins, core, history>>

Bump ==
  /\ At("bump") /\ Goto(AfterBegin)
  /\ word' = word + 1
  /\ UNCHANGED <<sameCycle, cycle, response, input, output, chan, local, pins, core, history>>

(* The wait for the answer to the cycle just published, only once a core   *)
(* has answered at all: the word is loaded before the counter is checked.  *)
Wait ==
  /\ At("wait") /\ Goto(IF response > 0 THEN "loadWord" ELSE "collect")
  /\ UNCHANGED <<sameCycle, region, local, pins, core, history>>

LoadWord ==
  /\ At("loadWord") /\ Goto("checkAnswer")
  /\ expected' = word
  /\ UNCHANGED <<sameCycle, region, pins, core, history,
                 hcycle, answered, late, attached, unanswered, stopping>>

(* Answered, or too late to wait on; off by one, the last cycle's will do. *)
InTime_offByOne == response + 1 >= hcycle
InTime == response >= hcycle

CheckAnswer ==
  /\ At("checkAnswer")
  /\ Goto(IF InTime \/ late THEN "collect" ELSE "futexWait")
  /\ UNCHANGED <<sameCycle, region, local, pins, core, history>>

(* FUTEX_WAIT: the kernel compares the word with the one loaded before the *)
(* check, and sleeps, in one step; loaded at the call it would always match. *)
Unchanged_atCall == TRUE
Unchanged == word = expected

FutexWait ==
  /\ At("futexWait") /\ Goto(IF Unchanged THEN "asleep" ELSE "loadWord")
  /\ UNCHANGED <<sameCycle, region, local, pins, core, history>>

(* The send deadline passes, and ends a sleep that was timed to it. *)
Deadline ==
  /\ hpc \in {"loadWord", "checkAnswer", "futexWait", "asleep"} /\ ~late
  /\ late' = TRUE
  /\ UNCHANGED <<sameCycle, region, hpc, pins, core, history,
                 hcycle, answered, expected, attached, unanswered, stopping>>

Timeout_never == FALSE
Timeout == late

TimedOut ==
  /\ At("asleep") /\ Timeout /\ Goto("loadWord")
  /\ UNCHANGED <<sameCycle, region, local, pins, core, history>>

(* The end of a period: a channel either side has ended ends the cycle. *)
CheckState ==
  /\ At("checkState") /\ Goto(IF chan = Running THEN "top" ELSE "leave")
  /\ UNCHANGED <<sameCycle, region, local, pins, core, history>>

(* Out of the loop: the modules' exit, then the region is said to be       *)
(* shut down, unmapped and unlinked.                                       *)
Destroy ==
  /\ At("leave") /\ Goto("gone")
  /\ chan' = Shutdown
  /\ UNCHANGED <<sameCycle, cycle, response, input, output, word, local, pins, core, history>>

(* SIGINT or SIGTERM. *)
Signal ==
  /\ ~stopping /\ stopping' = TRUE
  /\ UNCHANGED <<sameCycle, region, hpc, pins, core, history,
                 hcycle, answered, expected, late, attached, unanswered>>

-----------------------------------------------------------------------------
(* The core, as cnc_outboard.h describes it. *)

CoreAt(label) == cpc = label
CoreGoto(label) == cpc' = label

CoreAttach ==
  /\ CoreAt("off") /\ chan = Running /\ CoreGoto("idle")
  /\ UNCHANGED <<sameCycle, region, hpc, local, pins, ccycle, cread, request, history>>

(* It takes up a cycle it has not answered. *)
CoreTakeUp ==
  /\ CoreAt("idle") /\ cycle > response /\ response < MaxAnswers
  /\ ccycle' = cycle
  /\ CoreGoto("readValues")
  /\ UNCHANGED <<sameCycle, region, hpc, local, pins, cread, request, history>>

CoreReadValues ==
  /\ CoreAt("readValues") /\ CoreGoto("readBus")
  /\ cread' = [cread EXCEPT !.values = input[Half(ccycle)].values]
  /\ UNCHANGED <<sameCycle, region, hpc, local, pins, ccycle, request, history>>

CoreReadBus ==
  /\ CoreAt("readBus") /\ CoreGoto("writeEvery")
  /\ cread' = [cread EXCEPT !.bus = input[Half(ccycle)].bus]
  /\ UNCHANGED <<sameCycle, region, hpc, local, pins, ccycle, request, history>>

CoreWriteEvery ==
  /\ CoreAt("writeEvery") /\ CoreGoto("writeChange")
  /\ output' = [output EXCEPT ![Half(ccycle)].every = cread.values]
  /\ UNCHANGED <<sameCycle, cycle, response, input, word, chan,
                 hpc, local, pins, ccycle, cread, request, history>>

CoreWriteChange ==
  /\ CoreAt("writeChange") /\ CoreGoto("respond")
  /\ \E level \in Levels :
       /\ request' = level
       /\ output' = [output EXCEPT ![Half(ccycle)].change = level]
  /\ UNCHANGED <<sameCycle, cycle, response, input, word, chan,
                 hpc, local, pins, ccycle, cread, history>>

CoreRespond ==
  /\ CoreAt("respond")
  /\ response' = ccycle
  /\ asked' = Append(asked, request)
  /\ writes' = 0
  /\ CoreGoto(IF sameCycle THEN "bumpWord" ELSE "idle")
  /\ UNCHANGED <<sameCycle, cycle, input, output, word, chan,
                 hpc, local, pins, ccycle, cread, request, applied, changes>>

(* The wake for a host that says it waits: the word, then the syscall. *)
CoreBump ==
  /\ CoreAt("bumpWord") /\ CoreGoto("wakeHost")
  /\ word' = word + 1
  /\ UNCHANGED <<sameCycle, cycle, response, input, output, chan,
                 hpc, local, pins, ccycle, cread, request, history>>

CoreWake ==
  /\ CoreAt("wakeHost") /\ CoreGoto("idle")
  /\ Goto(IF At("asleep") THEN "loadWord" ELSE hpc)
  /\ UNCHANGED <<sameCycle, region, local, pins, ccycle, cread, request, history>>

(* It leaves by intent or gives up, and says so. *)
CoreLeave ==
  /\ CoreAt("idle") /\ chan = Running
  /\ chan' \in {Shutdown, Faulted}
  /\ CoreGoto("gone")
  /\ UNCHANGED <<sameCycle, cycle, response, input, output, word,
                 hpc, local, pins, ccycle, cread, request, history>>

(* It dies anywhere, in the middle of a block too, and says nothing. *)
CoreDie ==
  /\ cpc \notin {"off", "gone"}
  /\ CoreGoto("gone")
  /\ UNCHANGED <<sameCycle, region, hpc, local, pins, ccycle, cread, request, history>>

-----------------------------------------------------------------------------
HostStep ==
  \/ Wake \/ Read \/ Collect \/ TakeEvery \/ TakeChange \/ Write
  \/ Begin \/ Overrun \/ Fill \/ SetBus \/ Publish \/ Bump
  \/ Wait \/ LoadWord \/ CheckAnswer \/ FutexWait \/ TimedOut
  \/ CheckState \/ Destroy

CoreStep ==
  \/ CoreAttach \/ CoreTakeUp \/ CoreReadValues \/ CoreReadBus
  \/ CoreWriteEvery \/ CoreWriteChange \/ CoreRespond \/ CoreBump \/ CoreWake

Next == HostStep \/ Deadline \/ Signal \/ CoreStep \/ CoreLeave \/ CoreDie

Spec == Init /\ [][Next]_vars

(* The host's thread runs whatever the core does, and time passes for it.  *)
(* Nothing is assumed of the core.                                         *)
FairSpec == Spec /\ WF_vars(HostStep) /\ WF_vars(Deadline)

-----------------------------------------------------------------------------
(* Properties. *)

Block == [values : 0 .. MaxAnswers + 1, bus : 0 .. MaxAnswers + 1]
Taken == [every : 0 .. MaxAnswers, change : Levels]

HostLabels ==
  {"top", "read", "collect", "takeEvery", "takeChange", "write", "begin",
   "fill", "setBus", "publish", "bump", "wait", "loadWord", "checkAnswer",
   "futexWait", "asleep", "checkState", "leave", "gone"}

CoreLabels ==
  {"off", "idle", "readValues", "readBus", "writeEvery", "writeChange",
   "respond", "bumpWord", "wakeHost", "gone"}

(* The types of the region and of both processes' variables; no counter    *)
(* passes the cycle after the last one the core may answer.                *)
TypeOK ==
  /\ sameCycle \in BOOLEAN
  /\ cycle \in 0 .. MaxAnswers + 1 /\ response \in 0 .. MaxAnswers
  /\ input \in [{0, 1} -> Block] /\ output \in [{0, 1} -> Taken]
  /\ word \in Nat /\ chan \in {Running, Shutdown, Faulted}
  /\ hpc \in HostLabels /\ hcycle \in 0 .. MaxAnswers + 1
  /\ answered \in 0 .. MaxAnswers /\ expected \in Nat
  /\ late \in BOOLEAN /\ attached \in BOOLEAN /\ stopping \in BOOLEAN
  /\ unanswered \in 0 .. MaxUnanswered
  /\ pin \in Taken /\ last \in Levels
  /\ cpc \in CoreLabels /\ ccycle \in 0 .. MaxAnswers + 1
  /\ cread \in Block /\ request \in Levels
  /\ applied \in Taken /\ asked \in Seq(Levels)
  /\ changes \in Nat /\ writes \in Nat

HostWritesInput == hpc \in {"fill", "setBus"}
CoreReadsInput == cpc \in {"readValues", "readBus"}
HostReadsOutput == hpc \in {"takeEvery", "takeChange"}
CoreWritesOutput == cpc \in {"writeEvery", "writeChange"}

(* "That guard is the whole basis for touching the buffers without a       *)
(* lock": no half is written by one process while the other reads it.      *)
NoDataRace ==
  /\ ~(HostWritesInput /\ CoreReadsInput /\ Half(hcycle) = Half(ccycle))
  /\ ~(HostReadsOutput /\ CoreWritesOutput /\ Half(answered) = Half(ccycle))

(* The core computes from one period's sample: the values and the bus      *)
(* state it read are both the ones of the cycle it answers.                *)
AnswerOfItsCycle ==
  cpc \in {"writeEvery", "writeChange", "respond"} =>
    cread = [values |-> ccycle, bus |-> ccycle]

(* hm2_region_wait_answer: a host asleep while its answer stands is about  *)
(* to be woken, unless the core died before it could.                      *)
NoLostWakeup ==
  At("asleep") /\ response >= hcycle => cpc \in {"bumpWord", "wakeHost", "gone"}

(* Same cycle: unless the deadline passed, what this period writes is the  *)
(* answer to what it published (the first cycle is not waited for).        *)
SameCycleFresh ==
  sameCycle /\ At("write") /\ hcycle > 1 /\ ~late => applied.every = hcycle

(* A core's last outputs reach the card in at most one write more than the *)
(* limit of unanswered cycles.                                             *)
SilentBound ==
  ResponseLimit > 0 => writes <= ResponseLimit + 1

(* The level asked before answer n: the one of answer n - 1, or the seed.  *)
AskedBefore(n) == IF n = 1 THEN Seed ELSE asked[n - 1]

(* A request is applied once: the host never writes the pin both sides     *)
(* write more often than the core changed the level it asks for, so a held *)
(* level and a repeated answer leave the pin to the card.                  *)
AppliedOnce ==
  changes <= Cardinality({n \in 1 .. applied.every : asked[n] # AskedBefore(n)})

(* "So the core's level is a request, and a change of it is the write":    *)
(* an answer that changes the level, once taken, writes the pin.           *)
ChangeIsTheWrite ==
  [][applied'.every > applied.every
       /\ asked[applied'.every] # AskedBefore(applied'.every)
     => changes' = changes + 1]_vars

(* The halves and the parity implement one input block and one output      *)
(* block that change in one step each.                                     *)
Offered == input[Half(cycle)]
NewestAnswer == output[Half(response)]
HeldOutputs == IF HostReadsOutput THEN output[Half(answered)] ELSE applied

Abstract == INSTANCE ChannelSpec WITH
  published <- cycle, offer <- Offered, answer <- NewestAnswer,
  held <- HeldOutputs, driven <- applied

Refines == Abstract!Spec

(* A period always ends, whatever the core does. *)
PeriodEnds == hpc # "top" ~> hpc \in {"top", "gone"}

(* A core that has answered and then falls silent for good ends the run:   *)
(* the host stops petting the card's watchdog.                             *)
SilenceEnds ==
  ResponseLimit > 0 => (response > 0 /\ cpc = "gone" ~> hpc = "gone")
=============================================================================
