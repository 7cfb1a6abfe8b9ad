------------------------------- MODULE Sserial -------------------------------
(***************************************************************************)
(* A Smart Serial port (src/third_party/linuxcnc/sserial.c): the state     *)
(* machine that starts, runs and stops it, the writing of the remote's     *)
(* changed parameters before a start, the fault count, and the host's      *)
(* watch of that count (src/host/sserial_watch.c).                         *)
(*                                                                         *)
(* The driver sees the card through two words of the last good read and    *)
(* one command word, which is sent every period, changed or not.  A reply  *)
(* may be lost, which leaves the words as they were, and so may a write.   *)
(* The card and its remote are external: a command is busy until the card  *)
(* has done it, and may fail.  The port has one remote.                    *)
(***************************************************************************)
EXTENDS Integers

CONSTANTS
  Parameters,     \* the number of the remote's parameters
  ReadOnly,       \* those the remote declares for reading
  Values,         \* of a parameter; first those the card has
  FromCard,
  FaultInc, FaultDec, FaultLim,   \* fault-inc, fault-dec, fault-lim
  Patience,       \* bound: periods a timer lasts
  MaxRow          \* bound: faults in a row counted by the history

(* At fault-dec or below a failed transfer would not raise the count.      *)
ASSUME SserialAssumption ==
  /\ Parameters \in Nat \ {0} /\ ReadOnly \subseteq 1 .. Parameters
  /\ FromCard \subseteq Values
  /\ FaultInc \in Nat /\ FaultDec \in Nat /\ FaultInc > FaultDec
  /\ FaultLim \in Nat /\ Patience \in Nat \ {0}
  /\ (MaxRow - 1) * (FaultInc - FaultDec) > FaultLim

VARIABLES
  phase,
  run, param,               \* the run pin and the parameters, the control's
  state,                    \* port_state
  nonVolatile,              \* the parameters of an LBP_NONVOL type
  loop, step, index,        \* port_state2 and 3, and the parameter looked at
  timer, written, faultCount,
  command,                  \* the command word to be sent, with its data
  readBusy, readFailed,     \* the two words read
  last, seen,               \* the watch: the count before, the faults of this period
  card, remote,             \* the card's command, its remote's parameters
  (* history *)
  fault, row,               \* this period had a fault; so many in a row had
  spoiled                   \* something disturbed the writing of a parameter

control == <<run, param>>
machine == <<nonVolatile, state, loop, step, index, timer, written>>
words   == <<readBusy, readFailed>>
watch   == <<last, seen>>
history == <<fault, row, spoiled>>
vars    == <<phase, control, machine, faultCount, command, words, watch,
             card, remote, history>>

Indices == 1 .. Parameters
Settings == [Indices -> Values]

(* Ignored has bit 31 set; Nothing is the word before the first command.   *)
Command(op) == [op |-> op]
Ignored == Command("ignored")
Nothing == Command("nothing")
StopAll == Command("stop")
Set(p, value) == [op |-> "set", parameter |-> p, value |-> value]
IsReal(c) == c.op \notin {"ignored", "nothing"}

(* Reading the parameters from the card as they are declared put the       *)
(* card's values in place of the configured ones.                          *)
Init ==
  /\ phase = "read" /\ run = TRUE
  /\ remote \in [Indices -> FromCard]
  /\ nonVolatile \in SUBSET (Indices \ ReadOnly)
  /\ written = remote /\ param = remote
  /\ state = 0 /\ loop = 0 /\ step = 0 /\ index = 1 /\ timer = 0
  /\ faultCount = 0 /\ command = Nothing
  /\ readBusy = FALSE /\ readFailed = FALSE
  /\ last = 0 /\ seen = 0
  /\ card = [busy |-> FALSE, failed |-> FALSE, doing |-> Nothing]
  /\ fault = FALSE /\ row = 0 /\ spoiled = FALSE

-----------------------------------------------------------------------------
(* The read, and the card between the last write and it. *)

Updating == state = 0 /\ step # 0

(* The card has done its command, or failed it. *)
CardDoes(fails) ==
  /\ card.busy
  /\ card' = [card EXCEPT !.busy = FALSE, !.failed = fails, !.doing = Nothing]
  /\ remote' = IF card.doing.op = "set" /\ ~fails
                 THEN [remote EXCEPT ![card.doing.parameter] = card.doing.value]
                 ELSE remote

(* It may take for ever over it. *)
CardWaits == UNCHANGED <<card, remote>>

Read(lost, fails) ==
  /\ phase = "read" /\ phase' = "control"
  /\ CardDoes(fails) \/ (~fails /\ CardWaits)
  /\ readBusy' = IF lost THEN readBusy ELSE card'.busy
  /\ readFailed' = IF lost THEN readFailed ELSE card'.failed
  /\ spoiled' = (spoiled \/ (Updating /\ (lost \/ fails)))
  /\ UNCHANGED <<control, machine, faultCount, command, watch, fault, row>>

(* The control's answer. *)
Answer ==
  /\ phase = "control" /\ phase' = "write"
  /\ run' \in BOOLEAN
  /\ \/ UNCHANGED <<param, spoiled>>
     \/ \E p \in Indices \ ReadOnly : \E value \in Values \ {param[p]} :
          /\ param' = [param EXCEPT ![p] = value]
          /\ spoiled' = (spoiled \/ (step = 5 /\ p = index))
  /\ UNCHANGED <<machine, faultCount, command, words, watch, card, remote,
                 fault, row>>

-----------------------------------------------------------------------------
(* What ends every write: the command word goes to the card, and the watch *)
(* looks at the count.                                                     *)

Deliver(arrives) ==
  /\ card' = IF arrives /\ IsReal(command')
               THEN [card EXCEPT !.busy = TRUE, !.doing = command'] ELSE card
  /\ UNCHANGED remote

(* Each rise is one fault. *)
Rises_fromZero == faultCount' > 0 /\ last = 0
Rises == faultCount' > last

Watch ==
  /\ seen' = IF Rises THEN 1 ELSE 0
  /\ last' = faultCount'

Sent(spoils) ==
  /\ phase = "write" /\ phase' = "read"
  /\ Watch
  /\ \E arrives \in BOOLEAN :
       /\ Deliver(arrives)
       /\ spoiled' = (spoiled \/ spoils \/ (Updating /\ ~arrives))
  /\ UNCHANGED <<control, words>>

NoFault == fault' = FALSE /\ UNCHANGED <<faultCount, row>>

(* hm2_sserial_wait: until the command is clear or the time is up.  What   *)
(* it returns then, no caller tells apart from success.                    *)
Waits == readBusy /\ timer > 1

Elapsed_never == timer
Elapsed == timer - 1

Wait(spoils) ==
  /\ Waits
  /\ command' = Ignored /\ timer' = Elapsed
  /\ NoFault
  /\ Sent(spoils)
  /\ UNCHANGED <<nonVolatile, state, loop, step, index, written>>

-----------------------------------------------------------------------------
(* State 0: nothing until run; then the parameters, one after another.     *)

Idle ==
  /\ state = 0 /\ ~run
  /\ NoFault /\ UNCHANGED <<machine, command>>
  /\ Sent(FALSE)

Looking == state = 0 /\ run /\ loop \in {0, 1}
Current == IF loop = 0 THEN 1 ELSE index

(* Unchanged: on to the next. *)
SkipParameter ==
  /\ Looking /\ step = 0 /\ param[Current] = written[Current]
  /\ loop' = 2 /\ index' = Current
  /\ NoFault /\ UNCHANGED <<nonVolatile, state, step, timer, written, command>>
  /\ Sent(FALSE)

TakeParameter ==
  /\ Looking /\ step = 0 /\ param[Current] # written[Current]
  /\ loop' = 1 /\ index' = Current
  /\ step' = 1 /\ timer' = Patience /\ command' = StopAll
  /\ NoFault /\ UNCHANGED <<nonVolatile, state, written>>
  /\ Sent(FALSE)

WaitStep ==
  /\ Looking /\ step \in {1, 2, 3, 5, 7, 9}
  /\ Wait(FALSE)

(* The steps that follow a wait: the channel into setup mode, the unlock   *)
(* of non-volatile memory, the value, the lock again, all stopped.         *)
NextStep(from, to, c) ==
  /\ Looking /\ step = from /\ ~Waits
  /\ step' = to /\ command' = c
  /\ timer' = Patience
  /\ NoFault /\ UNCHANGED <<nonVolatile, state, loop, index, written>>
  /\ Sent(readBusy)

SetupMode == NextStep(1, 2, Command("setup"))
Unlock == index \in nonVolatile /\ NextStep(2, 3, Command("unlock"))
NoUnlock == index \notin nonVolatile /\ NextStep(2, 4, Ignored)
Unlocked == NextStep(3, 4, Ignored)

SendValue ==
  /\ Looking /\ step = 4
  /\ step' = 5 /\ timer' = Patience
  /\ command' = Set(index, param[index])
  /\ NoFault /\ UNCHANGED <<nonVolatile, state, loop, index, written>>
  /\ Sent(FALSE)

(* "Success? Set the written = param." *)
Noted_nextParameter == (index % Parameters) + 1
Noted == index

ValueSent ==
  /\ Looking /\ step = 5 /\ ~Waits
  /\ written' = [written EXCEPT ![Noted] = param[Noted]]
  /\ IF index \in nonVolatile
       THEN step' = 7 /\ command' = Command("lock")
       ELSE step' = 8 /\ command' = Ignored
  /\ timer' = Patience
  /\ NoFault /\ UNCHANGED <<nonVolatile, state, loop, index>>
  /\ Sent(readBusy)

Locked == NextStep(7, 8, Ignored)

StopSetup ==
  /\ Looking /\ step = 8
  /\ step' = 9 /\ timer' = Patience /\ command' = StopAll
  /\ NoFault /\ UNCHANGED <<nonVolatile, state, loop, index, written>>
  /\ Sent(FALSE)

ParameterDone ==
  /\ Looking /\ step = 9 /\ ~Waits
  /\ step' = 0 /\ loop' = 2
  /\ command' = Ignored /\ timer' = Patience
  /\ NoFault /\ UNCHANGED <<nonVolatile, state, index, written>>
  /\ Sent(readBusy)

NextParameter ==
  /\ state = 0 /\ run /\ loop = 2 /\ index < Parameters
  /\ loop' = 1 /\ index' = index + 1
  /\ NoFault /\ UNCHANGED <<nonVolatile, state, step, timer, written, command>>
  /\ Sent(FALSE)

(* All looked at: the port is started. *)
Start ==
  /\ state = 0 /\ run /\ loop = 2 /\ index = Parameters
  /\ loop' = 0 /\ state' = 2
  /\ command' = Command("start") /\ timer' = Patience
  /\ faultCount' = 0 /\ fault' = FALSE /\ row' = 0
  /\ UNCHANGED <<nonVolatile, step, index, written>>
  /\ Sent(FALSE)

-----------------------------------------------------------------------------
(* The other states. *)

WaitState == state \in {2, 5} /\ Wait(FALSE)

StateDone(from, to) ==
  /\ state = from /\ ~Waits
  /\ state' = to
  /\ command' = Ignored /\ timer' = Patience
  /\ NoFault /\ UNCHANGED <<nonVolatile, loop, step, index, written>>
  /\ Sent(FALSE)

Started == StateDone(2, 3)
Stopped == StateDone(5, 0)

(* run is low: the command word is left as it was for this period.         *)
Stopping ==
  /\ state = 3 /\ ~run /\ state' = 4
  /\ NoFault /\ UNCHANGED <<nonVolatile, loop, step, index, timer, written, command>>
  /\ Sent(FALSE)

Stop ==
  /\ state = 4 /\ state' = 5
  /\ command' = StopAll /\ timer' = Patience
  /\ NoFault /\ UNCHANGED <<nonVolatile, loop, step, index, written>>
  /\ Sent(FALSE)

(* hm2_sserial_write_pins *)
Running == state = 3 /\ run

TooMany == faultCount > FaultLim

GiveUp ==
  /\ Running /\ TooMany
  /\ state' = 10 /\ command' = StopAll
  /\ NoFault /\ UNCHANGED <<nonVolatile, loop, step, index, timer, written>>
  /\ Sent(FALSE)

Fault ==
  /\ fault' = TRUE
  /\ row' = IF row < MaxRow THEN row + 1 ELSE row

(* The transfer had not finished by this period's read. *)
Unfinished ==
  /\ Running /\ ~TooMany /\ readBusy
  /\ faultCount' = faultCount + FaultInc
  /\ command' = Ignored
  /\ Fault /\ UNCHANGED machine
  /\ Sent(FALSE)

Decayed_toZero(n) == 0
Decayed(n) == IF n > FaultDec THEN n - FaultDec ELSE 0

(* It had, or had failed: the count decays and the next transfer starts.   *)
Transfer ==
  /\ Running /\ ~TooMany /\ ~readBusy
  /\ faultCount' = Decayed(IF readFailed THEN faultCount + FaultInc ELSE faultCount)
  /\ command' = Command("transfer")
  /\ IF readFailed THEN Fault ELSE fault' = FALSE /\ row' = 0
  /\ UNCHANGED machine
  /\ Sent(FALSE)

(* State 10: stopped until run has been low. *)
Broken ==
  /\ state = 10
  /\ state' = IF run THEN 10 ELSE 0
  /\ command' = Ignored
  /\ NoFault /\ UNCHANGED <<nonVolatile, loop, step, index, timer, written>>
  /\ Sent(FALSE)

-----------------------------------------------------------------------------
Update ==
  \/ SkipParameter \/ TakeParameter \/ WaitStep \/ SetupMode \/ Unlock \/ NoUnlock
  \/ Unlocked \/ SendValue \/ ValueSent \/ Locked \/ StopSetup \/ ParameterDone
  \/ NextParameter \/ Start

Write ==
  \/ Idle \/ Update \/ WaitState \/ Started \/ Stopping \/ Stop \/ Stopped
  \/ GiveUp \/ Unfinished \/ Transfer \/ Broken

Next == (\E lost, fails \in BOOLEAN : Read(lost, fails)) \/ Answer \/ Write

(* The host's cycle goes on; nothing is assumed of card or control.        *)
Spec == Init /\ [][Next]_vars /\ WF_vars(Next)

-----------------------------------------------------------------------------
(* Types; the fault count passes its limit by one fault at most.           *)
TypeOK ==
  /\ phase \in {"read", "control", "write"} /\ run \in BOOLEAN
  /\ param \in Settings /\ written \in Settings /\ remote \in Settings
  /\ nonVolatile \subseteq Indices
  /\ state \in {0, 2, 3, 4, 5, 10} /\ loop \in {0, 1, 2}
  /\ step \in {0, 1, 2, 3, 4, 5, 7, 8, 9} /\ index \in Indices
  /\ timer \in 0 .. Patience /\ faultCount \in 0 .. FaultLim + FaultInc
  /\ readBusy \in BOOLEAN /\ readFailed \in BOOLEAN
  /\ last \in 0 .. FaultLim + FaultInc /\ seen \in {0, 1}
  /\ fault \in BOOLEAN /\ row \in 0 .. MaxRow
  /\ spoiled \in BOOLEAN

(* "Each rise is one fault": the watch counts a fault in a period exactly  *)
(* when the driver found one in it, decayed counts and restarts included.  *)
EveryFaultSeen == seen = 1 <=> fault

(* "A port faulting about twenty times in quick succession is stopped":    *)
(* it does not run on past the faults in a row its limit stands for.       *)
FaultsStop == state = 3 => (row - 1) * (FaultInc - FaultDec) <= FaultLim

(* What the driver takes as written is what the remote has, once no        *)
(* parameter is under way, unless a packet, the card or a change of the    *)
(* control's at the wrong moment disturbed its writing.                    *)
WrittenIsSent == step = 0 /\ ~spoiled => written = remote

(* However the card behaves, a port asked to run ends up running or        *)
(* stopped by its faults, and one asked to stop ends up idle.              *)
Settles ==
  /\ <>[]run => <>[](state \in {3, 10})
  /\ <>[](~run) => <>[](state = 0)
=============================================================================
