------------------------------ MODULE Encoder ------------------------------
(***************************************************************************)
(* A quadrature encoder of the card over a link that loses and delays      *)
(* packets (src/third_party/linuxcnc/encoder.c over hm2_eth.c): the card's *)
(* narrow count extended by the driver, and the latch at an index pulse or *)
(* a probe's edge, which the control asks for, the driver arms, the card   *)
(* does once and the driver then reports.                                  *)
(*                                                                         *)
(* The card is external.  Its axis turns by at most Speed counts a period; *)
(* armed, it latches its count at the next event and disarms itself; a     *)
(* write of the control register arms or disarms it anew.                  *)
(* Velocities, scaling and the offset reset asks for are left out, and so  *)
(* is the link once it is given up for good.                               *)
(***************************************************************************)
EXTENDS EthLink

CONSTANTS
  Width,           \* counts of the card's register, 2^16
  Speed,           \* counts the axis turns in a period at most
  First, Last,     \* bound: the positions the axis has
  FirmwareProbe,   \* firmware_supports_probe
  None

ASSUME EncoderAssumption ==
  /\ Width \in Nat \ {0} /\ Width % 2 = 0 /\ Speed \in Nat
  /\ First \in Int /\ Last \in Int /\ First <= Last /\ 0 <= Last
  /\ FirmwareProbe \in BOOLEAN /\ None \notin Int

VARIABLES
  sameCycle,     \* the host's same_cycle: write in the period read
  phase,
  indexEnable, latchEnable,   \* the pins; both sides write them
  levels,        \* the levels last applied of the control's on-change outputs
  others,        \* another encoder's control, or a setting of all, changed
  quadRises,     \* an encoder's quad-error-enable is up that was down at the
                 \* last read used
  prevControl,   \* the latch bits last sent
  rawcounts,     \* the count extended
  event,         \* what this period's read latched: rawlatch, zero_offset
  queued,        \* the read put the control registers into the next packet
  position, armed, latchAt,   \* the card
  due            \* history: events since one was asked for, not reported yet:
                 \* "no", "one", or "missed", one that the card forgot

pins    == <<indexEnable, latchEnable, levels, others, quadRises>>
driver  == <<prevControl, rawcounts, event, queued>>
card    == <<position, armed, latchAt>>
vars    == <<sameCycle, linkVars, phase, pins, driver, card, due>>

Latches == {"none", "index", "probe"}
NoEvent == [kind |-> "none", at |-> 0]

(* The order of a period. *)
After(p) ==
  IF sameCycle THEN [read |-> "control", control |-> "write", write |-> "read"][p]
               ELSE [control |-> "read", read |-> "write", write |-> "control"][p]

(* hm2_encoder_tram_init: all start stopped where they are, the first count *)
(* being the register's.                                                   *)
Init ==
  /\ sameCycle \in BOOLEAN
  /\ LinkInit
  /\ phase = "control"
  /\ indexEnable = FALSE /\ latchEnable = FALSE
  /\ others = FALSE /\ quadRises = FALSE /\ queued = FALSE
  /\ levels = [index |-> FALSE, latch |-> FALSE]
  /\ prevControl = "none" /\ event = NoEvent
  /\ position \in (0 .. Width - 1) \cap (First .. Last) /\ rawcounts = position
  /\ armed = "none" /\ latchAt = None
  /\ due = "no"

-----------------------------------------------------------------------------
(* hal_extend_counter: the change of the narrow count is the smallest that *)
(* fits, up or down.                                                       *)
Extend_narrow(old, low) == low
Extend_upwards(old, low) == old + ((low - old) % Width)
Extend(old, low) ==
  LET up == (low - old) % Width
  IN  old + (IF 2 * up >= Width THEN up - Width ELSE up)

(* The words of a reply; at and latchAt are known to the driver only as    *)
(* narrow counts, and the latch holds any while it has caught nothing.    *)
Words == [at |-> position, armed |-> armed, latchAt |-> latchAt]
Low(n) == IF n = None THEN 0 ELSE n % Width

ReadNothing ==
  /\ phase = "read" /\ ioError
  /\ phase' = After("read")
  /\ UNCHANGED <<sameCycle, linkVars, pins, driver, card, due>>

ReadRequest ==
  /\ phase = "read" /\ ~ioError
  /\ SendRequest(Words)
  /\ phase' = "await"
  /\ UNCHANGED <<sameCycle, pins, driver, card, due>>

(* hm2_read goes no further: no word is looked at. *)
ReadTimeout ==
  /\ phase = "await" /\ Timeout
  /\ phase' = After("read")
  /\ UNCHANGED <<sameCycle, pins, driver, card, due>>

ReadSkip ==
  /\ phase = "await" /\ SkipOlder
  /\ UNCHANGED <<sameCycle, phase, pins, driver, card, due>>

(* hm2_encoder_update_control_register: what the pins ask of the card.    *)
Control ==
  IF indexEnable THEN "index"
  ELSE IF latchEnable /\ FirmwareProbe THEN "probe" ELSE "none"

(* What was armed is no longer: the card reports the event.  The bits last *)
(* sent, not the pins, say what was asked of the card; but a rise of any   *)
(* encoder's quad-error-enable makes the read itself write all controls    *)
(* (hm2_encoder_read_control_register), and those count as sent at once.   *)
(* That the error is reset by it, and not in the next, is one of others.   *)
Asked == IF quadRises THEN Control ELSE prevControl

Reported_byPin(words) ==
  IF indexEnable /\ words.armed # "index" THEN "index"
  ELSE IF latchEnable /\ FirmwareProbe /\ words.armed # "probe" THEN "probe"
  ELSE "none"
Reported(words) ==
  IF Asked = "index" /\ words.armed # "index" THEN "index"
  ELSE IF Asked = "probe" /\ FirmwareProbe /\ words.armed # "probe" THEN "probe"
  ELSE "none"

(* hm2_encoder_process_tram_read.  A reply that does not confirm the last  *)
(* write counts as an error and is used all the same, unless it is the one *)
(* that ends the link.                                                     *)
Process(words) ==
  LET kind == Reported(words)
  IN  /\ prevControl' = Asked /\ queued' = quadRises /\ quadRises' = FALSE
      /\ rawcounts' = Extend(rawcounts, Low(words.at))
      /\ event' = IF kind = "none" THEN NoEvent
                  ELSE [kind |-> kind, at |-> Extend(rawcounts, Low(words.latchAt))]
      /\ indexEnable' = (indexEnable /\ kind # "index")
      /\ latchEnable' = (latchEnable /\ kind # "probe")
      /\ due' = IF kind = "none" /\ Asked = prevControl THEN due ELSE "no"
      /\ UNCHANGED <<levels, others>>

ReadReply ==
  /\ phase = "await"
  /\ \E reply \in {air[i] : i \in DOMAIN air} :
       /\ TakeReply(reply)
       /\ IF ioError' THEN UNCHANGED <<pins, driver, due>> ELSE Process(reply.status)
  /\ phase' = After("read")
  /\ UNCHANGED <<sameCycle, card>>

-----------------------------------------------------------------------------
(* Until the write: the control asks, withdraws or leaves the pins alone;  *)
(* the axis turns, and the card may meet an event.                         *)

(* take_answer: a change of the level is the write. *)
Applied(pin, last, level) == IF level # last THEN level ELSE pin

Answer ==
  /\ phase = "control" /\ phase' = After("control")
  /\ levels' \in [index : BOOLEAN, latch : {FALSE, FirmwareProbe}]
  /\ indexEnable' = Applied(indexEnable, levels.index, levels'.index)
  /\ latchEnable' = Applied(latchEnable, levels.latch, levels'.latch)
  /\ others' \in BOOLEAN /\ quadRises' \in BOOLEAN
  /\ event' = NoEvent
  /\ UNCHANGED <<sameCycle, linkVars, prevControl, rawcounts, queued>>
  /\ position' \in (position - Speed .. position + Speed) \cap (First .. Last)
  /\ \/ UNCHANGED <<armed, latchAt, due>>
     \/ /\ armed # "none" /\ armed' = "none"
        /\ latchAt' = position'
        /\ due' = IF due = "no" THEN "one" ELSE due

-----------------------------------------------------------------------------
(* hm2_encoder_write: the control registers of all encoders are sent when  *)
(* one of them or a common setting changed, or every setting is sent again;*)
(* those the read put into the packet are sent anyway, and before them.    *)
Changed == Control # prevControl
Rewritten == Changed \/ others \/ softReset \/ queued

WriteNothing ==
  /\ phase = "write" /\ ioError
  /\ phase' = After("write")
  /\ UNCHANGED <<sameCycle, linkVars, pins, driver, card, due>>

Arm(control) == armed' = control /\ latchAt' = None

Write(arrives) ==
  /\ phase = "write" /\ ~ioError
  /\ SendPacket(arrives) /\ softReset' = FALSE /\ queued' = FALSE
  /\ IF Rewritten THEN prevControl' = Control ELSE UNCHANGED prevControl
  /\ IF Rewritten /\ arrives THEN Arm(Control) ELSE UNCHANGED <<armed, latchAt>>
  /\ due' = IF Changed THEN "no"
            ELSE IF Rewritten /\ arrives /\ due = "one" THEN "missed" ELSE due
  /\ phase' = After("write")
  /\ UNCHANGED <<sameCycle, link, errors, ioError, pins, rawcounts, event, position>>

-----------------------------------------------------------------------------
Next ==
  \/ ReadNothing \/ ReadRequest \/ ReadTimeout \/ ReadSkip \/ ReadReply
  \/ Answer \/ WriteNothing \/ \E arrives \in BOOLEAN : Write(arrives)

Spec == Init /\ [][Next]_vars

-----------------------------------------------------------------------------
(* A reply was used in this step.                                          *)
Used == phase = "await" /\ phase' # "await" /\ air' # air /\ ~ioError'

(* The extended count is the axis's position when the reply was made, lost *)
(* and late replies before it notwithstanding.                             *)
CountFollows == [][Used => rawcounts' = Head(air).status.at]_vars

(* In a read that confirms the last write, an event the driver reports is  *)
(* one the card had since it was asked for, at the position it had it.     *)
(* Excepted is a read that itself changes what counts as asked.            *)
RealEvent == due # "no" /\ event'.at = latchAt

EventIsReal ==
  [][Used /\ Head(air).acked /\ UNCHANGED prevControl /\ event'.kind # "none" =>
       RealEvent]_vars

(* What encoder.c:804-813 says of the test, for every read that confirms   *)
(* the last write: it is made if the card has been told to look for an     *)
(* index pulse, and then a bit that is clear is the pulse.                 *)
EventAskedOfCard ==
  [][Used /\ Head(air).acked /\ event'.kind # "none" => RealEvent]_vars
=============================================================================
