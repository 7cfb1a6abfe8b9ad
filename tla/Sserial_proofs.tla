---------------------------- MODULE Sserial_proofs ----------------------------
(***************************************************************************)
(* The fault count of a Smart Serial port, for every increment, decrement  *)
(* and limit: the host's watch counts exactly the faults, and faults in a  *)
(* row stop the port.  And the writing of parameters, for any number of    *)
(* them: what is taken as written is what the remote has.                  *)
(***************************************************************************)
EXTENDS Sserial, TLAPS

Gain == FaultInc - FaultDec

(* The watch remembers the count it saw; a row of faults has cost at least *)
(* what its faults cost, less the decay; a row starts with the port.       *)
RowCosts ==
  /\ faultCount \in Nat /\ row \in Nat /\ row * Gain <= faultCount
  /\ state = 2 => row = 0
  /\ FaultsStop

IInv ==
  /\ RowCosts
  /\ last = faultCount /\ seen \in {0, 1} /\ fault \in BOOLEAN
  /\ EveryFaultSeen

LEMMA Gains == Gain \in Nat \ {0} /\ FaultInc \in Nat /\ FaultDec \in Nat /\ FaultLim \in Nat
  BY SserialAssumption DEF Gain

LEMMA OneMore ==
  ASSUME NEW n \in Nat
  PROVE  (n + 1) * Gain = n * Gain + Gain /\ n * Gain \in Int
  BY Gains

LEMMA InitInv == Init => IInv
<1> SUFFICES ASSUME Init PROVE IInv
  OBVIOUS
<1>1. row * Gain = 0 /\ state # 3
  BY Gains DEF Init
<1>2. faultCount = 0 /\ row = 0 /\ last = faultCount /\ seen = 0
  BY DEF Init
<1>3. RowCosts
  BY <1>1, <1>2 DEF FaultsStop, RowCosts
<1>4. fault = FALSE /\ EveryFaultSeen
  BY <1>2 DEF Init, EveryFaultSeen
<1>5. QED
  BY <1>2, <1>3, <1>4 DEF IInv

-----------------------------------------------------------------------------
(* A port gets to state 2 by Start and to state 3 from it. *)
Onward == (state' = 2 => state = 2) /\ (state' = 3 => state \in {2, 3})

Unseen == UNCHANGED <<faultCount, last, seen, fault, row>> /\ Onward
Quiet  == Watch /\ NoFault /\ Onward

(* Every step but a start and a transfer's leaves the count as it is.      *)
LEMMA QuietSteps ==
  ASSUME [Next]_vars
  PROVE  Unseen \/ Quiet \/ Start \/ Unfinished \/ Transfer
<1> USE DEF Onward
<1>1. CASE (\E lost, fails \in BOOLEAN : Read(lost, fails)) \/ Answer \/ UNCHANGED vars
  BY <1>1 DEF Read, Answer, machine, watch, vars, history, Unseen
<1>2. CASE Idle \/ Stopping \/ Stop \/ GiveUp \/ Broken
  BY <1>2 DEF Idle, Stopping, Stop, GiveUp, Broken, machine, Sent, Quiet
<1>3. CASE WaitState \/ WaitStep
  BY <1>3 DEF WaitState, WaitStep, Wait, Sent, Quiet
<1>4. CASE Started \/ Stopped
  BY <1>4 DEF Started, Stopped, StateDone, Sent, Quiet
<1>5. CASE SkipParameter \/ TakeParameter \/ SendValue \/ ValueSent \/ StopSetup
             \/ ParameterDone \/ NextParameter
  BY <1>5 DEF SkipParameter, TakeParameter, SendValue, ValueSent, StopSetup, ParameterDone,
     NextParameter, Sent, Quiet
<1>6. CASE SetupMode \/ Unlock \/ NoUnlock \/ Unlocked \/ Locked
  BY <1>6 DEF SetupMode, Unlock, NoUnlock, Unlocked, Locked, NextStep, Sent, Quiet
<1>7. QED
  BY <1>1, <1>2, <1>3, <1>4, <1>5, <1>6 DEF Next, Write, Update

(* A fault raises the count by the gain at least; a good transfer does not *)
(* raise it.                                                               *)
LEMMA Counting ==
  ASSUME faultCount \in Nat
  PROVE  /\ Decayed(faultCount) \in Nat /\ Decayed(faultCount) <= faultCount
         /\ Decayed(faultCount + FaultInc) \in Nat
         /\ Decayed(faultCount + FaultInc) >= faultCount + Gain
         /\ faultCount + FaultInc >= faultCount + Gain
  BY Gains DEF Decayed, Gain

(* A fault of a port that runs and was not given up. *)
LEMMA FaultInv ==
  ASSUME IInv, Fault, Watch, ~TooMany, state = 3, state' = 3,
         faultCount' \in Nat, faultCount' >= faultCount + Gain
  PROVE  IInv'
<1>1. row' = row \/ row' = row + 1
  BY DEF Fault
<1>2. /\ row' \in Nat /\ row' * Gain <= faultCount' /\ (row' - 1) * Gain <= FaultLim
  <2>1. CASE row' = row
    BY <2>1, Gains, OneMore DEF IInv, RowCosts, FaultsStop, Gain
  <2>2. CASE row' = row + 1
    <3>1. row' * Gain = row * Gain + Gain /\ (row' - 1) * Gain = row * Gain
      BY <2>2, OneMore DEF IInv, RowCosts
    <3>2. QED
      BY <2>2, <3>1, Gains, OneMore DEF IInv, RowCosts, TooMany
  <2>3. QED
    BY <1>1, <2>1, <2>2
<1>3. faultCount' > last
  BY Gains DEF IInv, RowCosts
<1>4. fault' = TRUE /\ seen' = 1 /\ last' = faultCount'
  BY <1>3 DEF Fault, Watch, Rises
<1>5. RowCosts'
  BY <1>2 DEF RowCosts, FaultsStop, Gain
<1>6. EveryFaultSeen'
  BY <1>4 DEF EveryFaultSeen
<1>7. QED
  BY <1>4, <1>5, <1>6 DEF IInv

(* A write that found no fault. *)
LEMMA NoFaultInv ==
  ASSUME IInv, Watch, fault' = FALSE, RowCosts', faultCount' <= faultCount
  PROVE  IInv'
<1>1. ~(faultCount' > last)
  BY DEF IInv, RowCosts
<1>2. seen' = 0 /\ last' = faultCount'
  BY <1>1 DEF Watch, Rises
<1>3. EveryFaultSeen'
  BY <1>2 DEF EveryFaultSeen
<1>4. QED
  BY <1>2, <1>3 DEF IInv

LEMMA NextInv ==
  ASSUME IInv, [Next]_vars
  PROVE  IInv'
<1>1. CASE Unseen
  <2>1. state' = 3 /\ state = 2 => FaultsStop'
    BY <1>1, Gains DEF Unseen, IInv, RowCosts, FaultsStop, Gain
  <2>2. RowCosts'
    BY <1>1, <2>1 DEF Unseen, Onward, IInv, RowCosts, FaultsStop
  <2>3. QED
    BY <1>1, <2>2 DEF Unseen, IInv, EveryFaultSeen
<1>2. CASE Quiet
  <2>1. faultCount' = faultCount /\ row' = row
    BY <1>2 DEF Quiet, NoFault
  <2>2. row = 0 => (row' - 1) * (FaultInc - FaultDec) <= FaultLim
    BY <2>1, Gains DEF Gain
  <2>3. RowCosts' /\ faultCount' <= faultCount
    BY <1>2, <2>1, <2>2 DEF Quiet, Onward, IInv, RowCosts, FaultsStop
  <2>4. Watch /\ fault' = FALSE
    BY <1>2 DEF Quiet, NoFault
  <2>5. QED
    BY <2>3, <2>4, NoFaultInv
<1>3. CASE Start
  <2>1. faultCount' = 0 /\ row' = 0 /\ state' = 2
    BY <1>3 DEF Start, Sent
  <2>2. row' * Gain = 0
    BY <2>1, Gains
  <2>3. RowCosts' /\ faultCount' <= faultCount
    BY <2>1, <2>2 DEF RowCosts, FaultsStop, IInv
  <2>4. Watch /\ fault' = FALSE
    BY <1>3 DEF Start, Sent
  <2>5. QED
    BY <2>3, <2>4, NoFaultInv
<1>4. CASE Unfinished
  <2>1. /\ Fault /\ Watch /\ ~TooMany /\ state = 3 /\ state' = 3
        /\ faultCount' = faultCount + FaultInc
    BY <1>4 DEF Unfinished, Running, Sent, machine
  <2>2. QED
    BY <2>1, FaultInv, Counting, Gains DEF IInv, RowCosts
<1>5. CASE Transfer
  <2>1. /\ Watch /\ ~TooMany /\ state = 3 /\ state' = 3
    BY <1>5 DEF Transfer, Running, Sent, machine
  <2>2. CASE readFailed
    <3>1. Fault /\ faultCount' = Decayed(faultCount + FaultInc)
      BY <1>5, <2>2 DEF Transfer
    <3>2. QED
      BY <2>1, <3>1, FaultInv, Counting DEF IInv, RowCosts
  <2>3. CASE ~readFailed
    <3>1. faultCount' = Decayed(faultCount) /\ row' = 0
      BY <1>5, <2>3 DEF Transfer
    <3>2. row' * Gain = 0 /\ (row' - 1) * (FaultInc - FaultDec) <= FaultLim
      BY <3>1, Gains DEF Gain
    <3>3. RowCosts' /\ faultCount' <= faultCount
      BY <2>1, <3>1, <3>2, Counting DEF IInv, RowCosts, FaultsStop
    <3>4. fault' = FALSE
      BY <1>5, <2>3 DEF Transfer
    <3>5. QED
      BY <2>1, <3>3, <3>4, NoFaultInv
  <2>4. QED
    BY <2>2, <2>3
<1>6. QED
  BY <1>1, <1>2, <1>3, <1>4, <1>5, QuietSteps

LEMMA Invariant == Spec => []IInv
  BY InitInv, NextInv, PTL DEF Spec

-----------------------------------------------------------------------------
(* sserial_faults_seen sees the count once a period, and counts a fault    *)
(* exactly when hm2_sserial_write_pins found one.                          *)
THEOREM WatchCountsFaults == Spec => []EveryFaultSeen
<1>1. IInv => EveryFaultSeen
  BY DEF IInv
<1>2. QED
  BY <1>1, Invariant, PTL

(* fault-lim stops a port that keeps failing.                              *)
THEOREM FaultsStopThePort == Spec => []FaultsStop
<1>1. IInv => FaultsStop
  BY DEF IInv, RowCosts
<1>2. QED
  BY <1>1, Invariant, PTL

-----------------------------------------------------------------------------
(* The writing of a parameter.  Between the sending and the noting of a    *)
(* value, which is step 5, the remote lacks at most that one, and a card   *)
(* that is not busy has it; at any other time nothing is being set.        *)
Commands ==
  [op : {"ignored", "nothing", "stop", "setup", "unlock", "lock", "start", "transfer"}]
    \cup [op : {"set"}, parameter : Indices, value : Values]

Kinds ==
  /\ param \in Settings /\ written \in Settings /\ remote \in Settings /\ index \in Indices
  /\ command \in Commands /\ card \in [busy : BOOLEAN, failed : BOOLEAN, doing : Commands]
  /\ readBusy \in BOOLEAN /\ spoiled \in BOOLEAN
  /\ step # 0 => state = 0 /\ loop = 1

UnderWay ==
  /\ \A p \in Indices \ {index} : written[p] = remote[p]
  /\ command \in {Ignored, Set(index, param[index])}
  /\ card.busy => card.doing = Set(index, param[index])
  /\ ~card.busy => remote[index] = param[index]
  /\ phase # "read" => readBusy = card.busy

NotSet(c) == c.op # "set"
AtRest == written = remote /\ NotSet(command) /\ (card.busy => NotSet(card.doing))

Followed == ~spoiled => IF step = 5 THEN UnderWay ELSE AtRest

Writing == Kinds /\ Followed

LEMMA CommandKinds ==
  /\ \A op \in {"ignored", "nothing", "stop", "setup", "unlock", "lock", "start", "transfer"} :
       Command(op) \in Commands /\ NotSet(Command(op))
  /\ \A p \in Indices, v \in Values :
       /\ Set(p, v) \in Commands /\ ~NotSet(Set(p, v)) /\ IsReal(Set(p, v))
       /\ Set(p, v).parameter = p /\ Set(p, v).value = v
  BY DEF Command, Commands, NotSet, Set, IsReal

LEMMA NamedCommands ==
  /\ Ignored \in Commands /\ NotSet(Ignored) /\ ~IsReal(Ignored)
  /\ Nothing \in Commands /\ NotSet(Nothing)
  /\ StopAll \in Commands /\ NotSet(StopAll)
  BY CommandKinds DEF Ignored, Nothing, StopAll, Command, IsReal

(* The writes: those away from step 5, those that stay in it, the one that *)
(* sends a value and the one that takes it as written.                     *)
Away ==
  /\ step # 5 /\ step' # 5 /\ UNCHANGED written
  /\ command' = command \/ NotSet(command')

Stays ==
  /\ step = 5 /\ step' = 5 /\ UNCHANGED <<written, index>>
  /\ command' \in {command, Ignored}

LEMMA WriteSends ==
  ASSUME Write
  PROVE  Sent(FALSE) \/ Sent(readBusy)
<1>1. CASE Idle \/ Stopping \/ Stop \/ GiveUp \/ Unfinished \/ Transfer \/ Broken
  BY <1>1 DEF Idle, Stopping, Stop, GiveUp, Unfinished, Transfer, Broken
<1>2. CASE WaitState \/ WaitStep \/ Started \/ Stopped
  BY <1>2 DEF WaitState, WaitStep, Wait, Started, Stopped, StateDone
<1>3. CASE SkipParameter \/ TakeParameter \/ SendValue \/ StopSetup \/ NextParameter \/ Start
  BY <1>3 DEF SkipParameter, TakeParameter, SendValue, StopSetup, NextParameter, Start
<1>4. CASE SetupMode \/ Unlock \/ NoUnlock \/ Unlocked \/ Locked \/ ValueSent \/ ParameterDone
  BY <1>4 DEF SetupMode, Unlock, NoUnlock, Unlocked, Locked, NextStep, ValueSent, ParameterDone
<1>5. QED
  BY <1>1, <1>2, <1>3, <1>4 DEF Write, Update

LEMMA WriteKinds ==
  ASSUME Kinds, Write
  PROVE  /\ index' \in Indices /\ command' \in Commands /\ (step' # 0 => state' = 0 /\ loop' = 1)
         /\ Away \/ Stays \/ SendValue \/ ValueSent
<1> DEFINE Goal == /\ index' \in Indices /\ command' \in Commands
                   /\ step' # 0 => state' = 0 /\ loop' = 1
                   /\ Away \/ Stays \/ SendValue \/ ValueSent
<1> SUFFICES Goal
  OBVIOUS
<1>a. readBusy \in BOOLEAN /\ index \in Indices /\ command \in Commands
  BY DEF Kinds
<1>b. step # 0 => state = 0 /\ loop = 1
  BY DEF Kinds
<1>c. 1 \in Indices /\ (index < Parameters => index + 1 \in Indices)
  BY <1>a, SserialAssumption DEF Indices
<1>1. CASE Idle
  BY <1>1, <1>a, <1>b DEF Idle, machine, Away, Stays
<1>2. CASE WaitState \/ WaitStep
  <2>1. Wait(FALSE)
    BY <1>2 DEF WaitState, WaitStep
  <2>2. QED
    BY <2>1, <1>a, <1>b, NamedCommands DEF Wait, Away, Stays
<1>3. CASE Started \/ Stopped
  <2>1. \E from \in {2, 5}, to \in {3, 0} : StateDone(from, to)
    BY <1>3 DEF Started, Stopped
  <2>2. command' = Ignored
    BY <2>1 DEF StateDone
  <2>3. UNCHANGED <<step, index, written>> /\ step = 0
    BY <2>1, <1>b DEF StateDone
  <2>4. QED
    BY <2>2, <2>3, <1>a, NamedCommands DEF Away
<1>4. CASE Stopping \/ Stop \/ GiveUp \/ Broken
  <2>1. command' \in {command, StopAll, Ignored}
    BY <1>4 DEF Stopping, Stop, GiveUp, Broken
  <2>2. UNCHANGED <<step, index, written>>
    BY <1>4 DEF Stopping, Stop, GiveUp, Broken
  <2>3. state # 0
    <3>1. state \in {3, 4, 10}
      BY <1>4 DEF Stopping, Stop, GiveUp, Broken, Running
    <3>2. QED
      BY <3>1
  <2>4. QED
    BY <2>1, <2>2, <2>3, <1>a, <1>b, NamedCommands DEF Away
<1>5. CASE Unfinished \/ Transfer
  <2>0. Running /\ UNCHANGED machine
    BY <1>5 DEF Unfinished, Transfer
  <2>1. command' = Ignored \/ command' = Command("transfer")
    <3>1. CASE Unfinished
      BY <3>1 DEF Unfinished
    <3>2. CASE Transfer
      BY <3>2 DEF Transfer
    <3>3. QED
      BY <1>5, <3>1, <3>2
  <2>2. command' \in Commands /\ NotSet(command')
    BY <2>1, NamedCommands, CommandKinds
  <2>3. UNCHANGED <<step, index, written>> /\ step = 0
    BY <2>0, <1>b DEF machine, Running
  <2>4. QED
    BY <2>1, <2>2, <2>3, <1>a DEF Away
<1>6. CASE SkipParameter
  <2>2. index' \in Indices
    BY <1>6, <1>a, <1>c DEF SkipParameter, Current
  <2>3. command' \in Commands
    BY <1>6, <1>a DEF SkipParameter
  <2>4. step' = 0
    BY <1>6 DEF SkipParameter
  <2>5. Away
    BY <1>6 DEF SkipParameter, Away
  <2>6. QED
    BY <2>2, <2>3, <2>4, <2>5
<1>7. CASE TakeParameter
  <2>1. command' = StopAll /\ step' # 5 /\ UNCHANGED written /\ step = 0
    BY <1>7 DEF TakeParameter
  <2>2. index' \in Indices
    BY <1>7, <1>a, <1>c DEF TakeParameter, Current
  <2>3. state' = 0 /\ loop' = 1
    BY <1>7 DEF TakeParameter, Looking
  <2>4. QED
    BY <2>1, <2>2, <2>3, NamedCommands DEF Away
<1>8. CASE NextParameter
  <2>1. UNCHANGED <<step, written, command>> /\ step = 0
    BY <1>8, <1>b DEF NextParameter
  <2>2. index' \in Indices
    BY <1>8, <1>a, <1>c DEF NextParameter
  <2>3. QED
    BY <2>1, <2>2, <1>a DEF Away
<1>9. CASE Start
  <2>1. UNCHANGED <<step, index, written>> /\ step = 0 /\ command' = Command("start")
    BY <1>9, <1>b DEF Start
  <2>2. QED
    BY <2>1, <1>a, CommandKinds DEF Away
<1>10. CASE SetupMode \/ Unlock \/ NoUnlock \/ Unlocked \/ Locked
  <2>1. \E from \in {1, 2, 3, 7}, to \in {2, 3, 4, 8}, 
           c \in {Command("setup"), Command("unlock"), Ignored} : NextStep(from, to, c)
    BY <1>10 DEF SetupMode, Unlock, NoUnlock, Unlocked, Locked
  <2>2. PICK from \in {1, 2, 3, 7}, to \in {2, 3, 4, 8}, 
             c \in {Command("setup"), Command("unlock"), Ignored} : NextStep(from, to, c)
    BY <2>1
  <2>3. c \in Commands /\ NotSet(c)
    BY NamedCommands, CommandKinds
  <2>4. index' = index /\ command' = c
    BY <2>2 DEF NextStep
  <2>5. step # 5 /\ step' # 5 /\ written' = written /\ (step' # 0 => state' = 0 /\ loop' = 1)
    BY <2>2, <1>b DEF NextStep
  <2>6. QED
    BY <2>3, <2>4, <2>5, <1>a DEF Away
<1>11. CASE StopSetup
  BY <1>11, <1>a, <1>b, NamedCommands DEF StopSetup, Looking, Away
<1>12. CASE ParameterDone
  <2>1. index' = index /\ command' = Ignored /\ step' = 0 /\ Away
    BY <1>12, NamedCommands DEF ParameterDone, Away
  <2>2. QED
    BY <2>1, <1>a, NamedCommands
<1>13. CASE SendValue
  <2>1. param[index] \in Values
    BY <1>a DEF Kinds, Settings
  <2>2. index' = index /\ command' = Set(index, param[index])
    BY <1>13 DEF SendValue
  <2>3. step' # 0 => state' = 0 /\ loop' = 1
    BY <1>13, <1>b DEF SendValue
  <2>4. QED
    BY <2>1, <2>2, <2>3, <1>a, <1>13, CommandKinds
<1>14. CASE ValueSent
  <2>1. index' = index /\ command' \in {Command("lock"), Ignored}
    BY <1>14 DEF ValueSent
  <2>2. step' # 0 => state' = 0 /\ loop' = 1
    BY <1>14, <1>b DEF ValueSent
  <2>3. QED
    BY <2>1, <2>2, <1>a, <1>14, CommandKinds, NamedCommands
<1>15. QED
  BY <1>1, <1>2, <1>3, <1>4, <1>5, <1>6, <1>7, <1>8, <1>9, <1>10, <1>11, <1>12, <1>13,
     <1>14 DEF Write, Update

(* What the card makes of the word sent.                                   *)
LEMMA CardGets ==
  ASSUME Kinds, command' \in Commands, NEW arrives \in BOOLEAN, Deliver(arrives)
  PROVE  /\ card' \in [busy : BOOLEAN, failed : BOOLEAN, doing : Commands]
         /\ remote' = remote
         /\ arrives /\ IsReal(command') => card'.busy /\ card'.doing = command'
         /\ ~(arrives /\ IsReal(command')) => card' = card
  BY DEF Kinds, Deliver

LEMMA WritingInit == Init => Writing
<1> SUFFICES ASSUME Init PROVE Writing
  OBVIOUS
<1>1. Kinds
  <2>1. remote \in Settings /\ index \in Indices
    BY SserialAssumption DEF Init, Settings, Indices
  <2>2. card \in [busy : BOOLEAN, failed : BOOLEAN, doing : Commands] /\ command \in Commands
    BY NamedCommands DEF Init
  <2>3. QED
    BY <2>1, <2>2 DEF Init, Kinds
<1>2. AtRest /\ step = 0
  BY NamedCommands DEF Init, AtRest
<1>3. QED
  BY <1>1, <1>2 DEF Writing, Followed

LEMMA ReadWriting ==
  ASSUME Writing, NEW lost \in BOOLEAN, NEW fails \in BOOLEAN, Read(lost, fails)
  PROVE  Writing'
<1> USE DEF Writing
<1>1. /\ UNCHANGED <<param, written, index, command, step, state, loop>> /\ phase' = "control"
      /\ spoiled' = (spoiled \/ (Updating /\ (lost \/ fails)))
      /\ readBusy' = IF lost THEN readBusy ELSE card'.busy
  <2>1. UNCHANGED <<control, machine, command>> /\ phase' = "control"
    BY DEF Read
  <2>2. spoiled' = (spoiled \/ (Updating /\ (lost \/ fails)))
    BY DEF Read
  <2>3. readBusy' = IF lost THEN readBusy ELSE card'.busy
    BY DEF Read
  <2>4. QED
    BY <2>1, <2>2, <2>3 DEF control, machine
<1>2. CASE CardWaits /\ ~fails
  <2>1. UNCHANGED <<card, remote>>
    BY <1>2 DEF CardWaits
  <2>2. Kinds'
    BY <1>1, <2>1 DEF Kinds
  <2>3. CASE step = 5
    BY <1>1, <2>1, <2>3 DEF Kinds, Followed, UnderWay, Updating
  <2>4. CASE step # 5
    BY <1>1, <2>1, <2>4 DEF Kinds, Followed, AtRest
  <2>5. QED
    BY <2>2, <2>3, <2>4 DEF Followed
<1>3. CASE CardDoes(fails)
  <2>1. /\ card.busy /\ card' = [card EXCEPT !.busy = FALSE, !.failed = fails, !.doing = Nothing]
        /\ remote' = IF card.doing.op = "set" /\ ~fails
                       THEN [remote EXCEPT ![card.doing.parameter] = card.doing.value]
                       ELSE remote
    BY <1>3 DEF CardDoes
  <2>2. card' \in [busy : BOOLEAN, failed : BOOLEAN, doing : Commands] /\ ~card'.busy
    BY <2>1, NamedCommands DEF Kinds
  <2>3. card.doing.op = "set" => card.doing.parameter \in Indices /\ card.doing.value \in Values
    BY DEF Kinds, Commands
  <2>4. remote' \in Settings
    BY <2>1, <2>3 DEF Kinds, Settings
  <2>5. Kinds'
    BY <1>1, <2>2, <2>4 DEF Kinds
  <2>6. CASE step = 5
    <3> SUFFICES ASSUME ~spoiled' PROVE UnderWay'
      BY <1>1, <2>5, <2>6 DEF Followed
    <3>1. ~spoiled /\ ~lost /\ ~fails
      BY <1>1, <2>6 DEF Updating, Kinds
    <3>2. UnderWay
      BY <2>6, <3>1 DEF Followed
    <3>3. card.doing = Set(index, param[index])
      BY <2>1, <3>2 DEF UnderWay
    <3>4. param[index] \in Values /\ index \in Indices
      BY DEF Kinds, Settings
    <3>5. remote' = [remote EXCEPT ![index] = param[index]]
      BY <2>1, <3>1, <3>3 DEF Set
    <3>6. /\ remote'[index] = param[index]
          /\ \A p \in Indices \ {index} : remote'[p] = remote[p]
      BY <3>4, <3>5 DEF Kinds, Settings
    <3>7. readBusy' = FALSE
      BY <1>1, <2>2, <3>1 DEF Kinds
    <3>8. QED
      BY <1>1, <2>2, <3>2, <3>6, <3>7 DEF UnderWay
  <2>7. CASE step # 5
    <3>1. ~spoiled => remote' = remote
      BY <2>1, <2>7 DEF Followed, AtRest, NotSet
    <3>2. ~spoiled' => ~spoiled
      BY <1>1 DEF Kinds
    <3>3. QED
      BY <1>1, <2>2, <2>5, <2>7, <3>1, <3>2 DEF Followed, AtRest
  <2>8. QED
    BY <2>6, <2>7
<1>4. QED
  BY <1>2, <1>3 DEF Read

LEMMA AnswerWriting ==
  ASSUME Writing, Answer
  PROVE  Writing'
<1> USE DEF Writing
<1>1. /\ UNCHANGED <<written, index, command, step, state, loop, card, remote, readBusy>>
      /\ phase = "control" /\ phase' = "write"
  BY DEF Answer, machine, words
<1>2. CASE UNCHANGED <<param, spoiled>>
  BY <1>1, <1>2 DEF Kinds, Followed, UnderWay, AtRest
<1>3. CASE \E p \in Indices \ ReadOnly : \E value \in Values \ {param[p]} :
             /\ param' = [param EXCEPT ![p] = value]
             /\ spoiled' = (spoiled \/ (step = 5 /\ p = index))
  <2>1. PICK p \in Indices \ ReadOnly, value \in Values :
             /\ param' = [param EXCEPT ![p] = value]
             /\ spoiled' = (spoiled \/ (step = 5 /\ p = index))
    BY <1>3
  <2>2. Kinds'
    BY <1>1, <2>1 DEF Kinds, Settings
  <2>3. CASE step = 5 /\ ~spoiled'
    <3>1. param'[index] = param[index] /\ ~spoiled
      BY <2>1, <2>3 DEF Kinds, Settings
    <3>2. QED
      BY <1>1, <2>2, <2>3, <3>1 DEF Followed, UnderWay
  <2>4. CASE step # 5 /\ ~spoiled'
    BY <1>1, <2>1, <2>2, <2>4 DEF Followed, AtRest
  <2>5. QED
    BY <2>2, <2>3, <2>4 DEF Followed
<1>4. QED
  BY <1>2, <1>3 DEF Answer

(* A value taken as written while the card was still busy spoils.          *)
LEMMA SpoiledWait ==
  ASSUME ValueSent, ~spoiled'
  PROVE  ~readBusy
  BY DEF ValueSent, Sent

LEMMA WriteWriting ==
  ASSUME Writing, Write
  PROVE  Writing'
<1> USE DEF Writing
<1>1. PICK spoils \in {FALSE, readBusy} : Sent(spoils)
  BY WriteSends
<1>2. /\ index' \in Indices /\ command' \in Commands /\ (step' # 0 => state' = 0 /\ loop' = 1)
      /\ Away \/ Stays \/ SendValue \/ ValueSent
  BY WriteKinds
<1>3. PICK arrives \in BOOLEAN :
        /\ Deliver(arrives)
        /\ spoiled' = (spoiled \/ spoils \/ (Updating /\ ~arrives))
  BY <1>1 DEF Sent
<1>4. UNCHANGED <<param, readBusy>> /\ phase = "write" /\ phase' = "read"
  BY <1>1 DEF Sent, control, words
<1>5. /\ card' \in [busy : BOOLEAN, failed : BOOLEAN, doing : Commands]
      /\ remote' = remote
      /\ arrives /\ IsReal(command') => card'.busy /\ card'.doing = command'
      /\ ~(arrives /\ IsReal(command')) => card' = card
  BY <1>2, <1>3, CardGets
<1>6. spoiled' \in BOOLEAN /\ (~spoiled' => ~spoiled /\ (Updating => arrives))
  BY <1>1, <1>3 DEF Kinds
<1>7. index \in Indices /\ param[index] \in Values
  BY DEF Kinds, Settings
<1>8. written' \in Settings
  <2>1. CASE Away \/ Stays \/ SendValue
    BY <2>1 DEF Away, Stays, SendValue, Kinds
  <2>2. CASE ValueSent
    BY <2>2, <1>7 DEF ValueSent, Noted, Kinds, Settings
  <2>3. QED
    BY <1>2, <2>1, <2>2
<1>9. Kinds'
  BY <1>2, <1>4, <1>5, <1>6, <1>8 DEF Kinds
<1>10. SUFFICES ASSUME ~spoiled' PROVE IF step' = 5 THEN UnderWay' ELSE AtRest'
  BY <1>9 DEF Followed
<1>11. CASE Away
  <2>1. AtRest /\ step' # 5 /\ written' = written
    BY <1>6, <1>10, <1>11 DEF Away, Followed
  <2>2. NotSet(command')
    BY <1>11, <2>1 DEF Away, AtRest
  <2>3. card'.busy => NotSet(card'.doing)
    BY <1>5, <2>1, <2>2 DEF AtRest
  <2>4. QED
    BY <1>5, <2>1, <2>2, <2>3 DEF AtRest
<1>12. CASE Stays
  <2>1. UnderWay /\ step' = 5 /\ UNCHANGED <<written, index>> /\ arrives
    BY <1>6, <1>10, <1>12 DEF Stays, Followed, Updating, Kinds
  <2>2. command' \in {Ignored, Set(index, param[index])}
    BY <1>12, <2>1 DEF Stays, UnderWay
  <2>3. card'.busy => card'.doing = Set(index, param[index])
    BY <1>5, <2>1, <2>2, NamedCommands DEF UnderWay
  <2>4. ~card'.busy => card' = card
    BY <1>5, <2>1
  <2>5. QED
    BY <1>4, <1>5, <2>1, <2>2, <2>3, <2>4 DEF UnderWay
<1>13. CASE SendValue
  <2>1. /\ step = 4 /\ step' = 5 /\ UNCHANGED <<index, written>>
        /\ command' = Set(index, param[index])
    BY <1>13 DEF SendValue
  <2>2. AtRest /\ arrives
    BY <1>6, <1>10, <2>1 DEF Followed, Updating, Kinds
  <2>3. card'.busy /\ card'.doing = Set(index, param[index])
    BY <1>5, <1>7, <2>1, <2>2, CommandKinds
  <2>4. QED
    BY <1>4, <1>5, <2>1, <2>2, <2>3 DEF UnderWay, AtRest
<1>14. CASE ValueSent
  <2>1. /\ step = 5 /\ step' # 5 /\ written' = [written EXCEPT ![index] = param[index]]
        /\ command' \in {Command("lock"), Ignored}
    BY <1>14 DEF ValueSent, Noted
  <2>2. ~readBusy
    BY <1>10, <1>14, SpoiledWait
  <2>3. UnderWay /\ ~card.busy
    BY <1>4, <1>6, <1>10, <2>1, <2>2 DEF Followed, UnderWay, Kinds
  <2>4. written' = remote
    BY <1>7, <2>1, <2>3 DEF UnderWay, Kinds, Settings
  <2>5. NotSet(command')
    BY <2>1, CommandKinds, NamedCommands
  <2>6. QED
    BY <1>5, <2>1, <2>3, <2>4, <2>5 DEF AtRest
<1>15. QED
  BY <1>2, <1>11, <1>12, <1>13, <1>14

LEMMA WritingInv == Spec => []Writing
<1>1. Writing /\ [Next]_vars => Writing'
  <2> SUFFICES ASSUME Writing, [Next]_vars PROVE Writing'
    OBVIOUS
  <2>1. CASE UNCHANGED vars
    BY <2>1 DEF vars, control, machine, words, history, Writing, Kinds, Followed, UnderWay, AtRest
  <2>2. QED
    BY <2>1, ReadWriting, AnswerWriting, WriteWriting DEF Next
<1>2. QED
  BY <1>1, WritingInit, PTL DEF Spec

(* What sserial.c takes as written the remote has, for any number of *)
(* parameters of either kind of memory.                                    *)
THEOREM TakenIsSent == Spec => []WrittenIsSent
<1>1. Writing => WrittenIsSent
  BY DEF Writing, Followed, AtRest, WrittenIsSent
<1>2. QED
  BY <1>1, WritingInv, PTL
=============================================================================
