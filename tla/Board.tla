------------------------------- MODULE Board -------------------------------
(***************************************************************************)
(* A period of the driver over the link to a board that has a watchdog:    *)
(* hm2_read and hm2_write (hostmot2.c), the watchdog's part of them        *)
(* (watchdog.c), the bus state the host publishes (host/main.c) and the    *)
(* control, which lowers has_bit and clears io_error when it likes.        *)
(*                                                                         *)
(* The board is external: its watchdog may bite when EarliestBite writes   *)
(* in a row did not arrive; bitten, it may have lost what was set, and a   *)
(* write to its status register wakes it up.  One setting stands for       *)
(* every register that is written only when it changed.                    *)
(***************************************************************************)
EXTENDS EthLink

CONSTANTS
  EarliestBite,  \* writes in a row the board must miss before it may bite
  Settings       \* the values of the setting

ASSUME BoardAssumption ==
  /\ EarliestBite \in Nat \ {0} /\ Settings # {}

VARIABLES
  sameCycle,   \* the host's same_cycle: write in the period read
  forceEnqueue,  \* the transport sends a rewrite of all settings apart
  phase,
  hasBit,      \* the has_bit pin
  needsReset,  \* needs_reset
  written,     \* the setting the driver last wrote
  bus,         \* the bus state last published
  bitten, setting, missed,   \* the board: its status, setting, writes missed
  told,        \* history: a fault was published since the board last ran
  clean,       \* history: this period's read counted as good and newest
  silent       \* history: reads in a row without a reply that counted

setup   == <<sameCycle, forceEnqueue>>
driver  == <<hasBit, needsReset, written>>
board   == <<bitten, setting, missed>>
history == <<told, clean, silent>>
vars    == <<setup, linkVars, phase, driver, bus, board, history>>

Phases == {"read", "await", "publish", "control", "write"}

(* The order of a period: the answer is written in the period it was       *)
(* computed in, or taken at the start of the next.                         *)
After(p) ==
  IF sameCycle
    THEN [read |-> "publish", publish |-> "control",
          control |-> "write", write |-> "read"][p]
    ELSE [control |-> "read", read |-> "write",
          write |-> "publish", publish |-> "control"][p]

Init ==
  /\ sameCycle \in BOOLEAN /\ forceEnqueue \in BOOLEAN
  /\ LinkInit
  /\ phase = IF sameCycle THEN "read" ELSE "control"
  /\ hasBit = FALSE /\ needsReset = FALSE /\ bus = "OK"
  /\ \E s \in Settings : written = s /\ setting = s
  /\ bitten = FALSE /\ missed = 0
  /\ told = FALSE /\ clean = FALSE /\ silent = 0

-----------------------------------------------------------------------------
(* hm2_read.  Nothing is read while io_error is set.                       *)

ReadNothing ==
  /\ phase = "read" /\ ioError
  /\ phase' = After("read")
  /\ UNCHANGED <<setup, linkVars, driver, bus, board, history>>

ReadRequest ==
  /\ phase = "read" /\ ~ioError
  /\ SendRequest(bitten)
  /\ phase' = "await"
  /\ UNCHANGED <<setup, driver, bus, board, history>>

ReadTimeout ==
  /\ phase = "await" /\ Timeout
  /\ phase' = After("read")
  /\ silent' = silent + 1
  /\ UNCHANGED <<setup, driver, bus, board, told, clean>>

ReadSkip ==
  /\ phase = "await" /\ SkipOlder
  /\ UNCHANGED <<setup, phase, driver, bus, board, history>>

(* hm2_watchdog_process_tram_read: needs_reset, not the pin, says whether  *)
(* a bite is already known, for the control may lower the pin any time.    *)
Notices_byPin(reply) == ~ioError' /\ ~hasBit /\ reply.status
Notices(reply) == ~ioError' /\ ~needsReset /\ reply.status

ReadReply ==
  /\ phase = "await"
  /\ \E reply \in {air[i] : i \in DOMAIN air} :
       /\ TakeReply(reply)
       /\ hasBit' = (hasBit \/ Notices(reply))
       /\ needsReset' = (needsReset \/ Notices(reply))
       /\ clean' = (Confirmed(reply) /\ reply.age = 0)
       /\ silent' = IF Confirmed(reply) THEN 0 ELSE silent + 1
  /\ phase' = After("read")
  /\ UNCHANGED <<setup, written, bus, board, told>>

-----------------------------------------------------------------------------
(* The board, and one write of the driver's to it. *)

Missed == IF missed < EarliestBite THEN missed + 1 ELSE missed

(* A packet bears the pet, a value for the setting and maybe the clearing  *)
(* of the watchdog's status.                                               *)
BoardGets(arrives, value, clears) ==
  /\ missed' = IF arrives THEN 0 ELSE Missed
  /\ setting' = IF arrives THEN value ELSE setting
  /\ bitten' = (bitten /\ ~(arrives /\ clears))
  /\ told' = (told /\ (bitten' \/ ~arrives))

Bite ==
  /\ missed >= EarliestBite /\ ~bitten
  /\ bitten' = TRUE
  /\ setting' \in Settings
  /\ UNCHANGED <<setup, linkVars, phase, driver, bus, missed, history>>

-----------------------------------------------------------------------------
(* hm2_write.  Nothing is written while io_error is set. *)

WriteNothing ==
  /\ phase = "write" /\ ioError
  /\ missed' = Missed /\ clean' = FALSE
  /\ phase' = After("write")
  /\ UNCHANGED <<setup, linkVars, driver, bus, bitten, setting, told, silent>>

(* hm2_watchdog_write: a bite waits for the control; then, or after soft   *)
(* errors, everything is written and the status cleared.                   *)
ResetDue_unheld == needsReset \/ softReset
ResetDue == ~hasBit /\ (needsReset \/ softReset)

(* The pet, and the setting if the control changed it: the watchdog's own  *)
(* timeout_ns, at the end of hm2_watchdog_write, is one such.              *)
WriteChanges ==
  /\ phase = "write" /\ ~ioError /\ ~ResetDue
  /\ \E value \in Settings, arrives \in BOOLEAN :
       /\ SendPacket(arrives)
       /\ BoardGets(arrives, IF value = written THEN setting ELSE value, FALSE)
       /\ written' = value
  /\ clean' = FALSE
  /\ phase' = After("write")
  /\ UNCHANGED <<setup, link, errors, ioError, softReset, hasBit, needsReset, bus, silent>>

(* hm2_force_write: all settings and the status, in the period's packet or *)
(* in one before it, whose write number only the packet after it confirms. *)
WriteAll ==
  /\ phase = "write" /\ ~ioError /\ ResetDue
  /\ \E value \in Settings, all, last \in BOOLEAN :
       /\ forceEnqueue \/ all = last
       /\ all \/ link = "lossy"
       /\ SendPacket(last)
       /\ BoardGets(all, value, TRUE)
       /\ written' = value
  /\ needsReset' = FALSE /\ softReset' = FALSE
  /\ clean' = FALSE
  /\ phase' = After("write")
  /\ UNCHANGED <<setup, link, errors, ioError, hasBit, bus, silent>>

-----------------------------------------------------------------------------
(* The host and the control. *)

BusState == IF ioError THEN "LINK" ELSE IF hasBit THEN "WATCHDOG" ELSE "OK"

Publish ==
  /\ phase = "publish" /\ phase' = After("publish")
  /\ bus' = BusState
  /\ told' = (told \/ bus' # "OK")
  /\ UNCHANGED <<setup, linkVars, driver, board, clean, silent>>

(* The control's answer may lower has_bit and clear io_error. *)
Control ==
  /\ phase = "control" /\ phase' = After("control")
  /\ hasBit' \in {hasBit, FALSE}
  /\ ioError' \in {ioError, FALSE}
  /\ silent' = IF ioError /\ ~ioError' THEN 0 ELSE silent
  /\ UNCHANGED <<setup, link, air, acked, errors, softReset, needsReset, written,
                 bus, board, told, clean>>

LinkHeals == Heal /\ UNCHANGED <<setup, phase, driver, bus, board, history>>

-----------------------------------------------------------------------------
Read == ReadNothing \/ ReadRequest \/ ReadTimeout \/ ReadSkip \/ ReadReply
Write == WriteNothing \/ WriteChanges \/ WriteAll
Period == Read \/ Write \/ Publish \/ Control

Next == Period \/ Bite \/ LinkHeals

Spec == Init /\ [][Next]_vars

(* The host's cycle goes on: a clock releases every period and every wait  *)
(* in it has a deadline.                                                   *)
FairSpec == Spec /\ WF_vars(Period)

-----------------------------------------------------------------------------
(* Types; errors stays within its limit whatever the parameters are.       *)
TypeOK ==
  /\ sameCycle \in BOOLEAN /\ forceEnqueue \in BOOLEAN
  /\ LinkTypeOK
  /\ phase \in Phases
  /\ hasBit \in BOOLEAN /\ needsReset \in BOOLEAN
  /\ written \in Settings /\ bus \in {"OK", "LINK", "WATCHDOG"}
  /\ bitten \in BOOLEAN /\ setting \in Settings /\ missed \in 0 .. EarliestBite
  /\ told \in BOOLEAN /\ clean \in BOOLEAN /\ silent \in Nat

(* A link that does not answer is given up in time: when the reads in a    *)
(* row that brought no confirmed reply, since the control last tried the   *)
(* link again, cost as many errors as the limit has, io_error is set: so   *)
(* the bus the host publishes next is a fault.                             *)
SilenceTold ==
  silent > 0 /\ silent * AtLeastOne(ErrorIncrement) >= ErrorLimit => ioError

(* When a read confirms the last write and nothing is left to rewrite, the *)
(* running board's setting is the one the driver takes it to have.  Not so *)
(* where all settings go in a packet of their own: it may be lost and the  *)
(* next be confirmed.                                                      *)
InSync ==
  clean /\ ~forceEnqueue /\ ~softReset /\ ~needsReset /\ ~bitten => setting = written

(* A bite is never cleared behind the control's back: when the driver      *)
(* wakes the board up the control was told of a fault since the board last *)
(* ran, and does not hold has_bit up.  The same exception.                 *)
BiteIsAnswered == [][~forceEnqueue /\ bitten /\ ~bitten' => told /\ ~hasBit]_vars

(* When what is read is published before the next write, a read that       *)
(* counts as good brought the reply to its own request.                    *)
GoodIsNewest ==
  [][sameCycle /\ phase = "await" /\ phase' # "await" /\ silent' = 0
       => Head(air).age = 0]_vars

(* Once the link is good, a control that keeps lowering has_bit and        *)
(* clearing io_error gets the board back, and it stays.                    *)
Recovers ==
  <>[](link = "good") /\ []<>(phase = After("control") /\ ~hasBit /\ ~ioError)
    => <>[](~bitten /\ ~hasBit /\ ~ioError /\ ~softReset)
=============================================================================
