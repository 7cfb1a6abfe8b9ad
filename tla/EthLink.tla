------------------------------ MODULE EthLink ------------------------------
(***************************************************************************)
(* The transport hm2_eth (src/third_party/linuxcnc/hm2_eth.c) over UDP:    *)
(* one read request and its reply, one or two write packets a period, and  *)
(* the soft errors it counts.  A packet may be lost, and a reply may come  *)
(* in a later period than the request it answers.                          *)
(*                                                                         *)
(* read_cnt and write_cnt only matter by comparison, so a reply bears its  *)
(* age, 0 for the reply to the newest request, and whether the board's     *)
(* write number, as it read it, is the newest the driver sent.             *)
(***************************************************************************)
EXTENDS Integers, Sequences

CONSTANTS
  ErrorLimit, ErrorIncrement, ErrorDecrement,  \* the packet-error-* parameters
  MaxLate    \* bound: replies that may be on their way at once

ASSUME EthAssumption ==
  /\ ErrorLimit \in Nat /\ ErrorIncrement \in Int /\ ErrorDecrement \in Int
  /\ MaxLate \in Nat

VARIABLES
  link,        \* "lossy", or "good" from some moment on
  air,         \* replies on their way or in the socket, oldest first
  acked,       \* the board's write number is the newest the driver sent
  errors,      \* comm_error_counter
  ioError,     \* the io_error parameter
  softReset    \* needs_soft_reset

linkVars == <<link, air, acked, errors, ioError, softReset>>

(* The parameters may hold any number; a step is one at least. *)
AtLeastOne(n) == IF n < 1 THEN 1 ELSE n

LinkInit ==
  /\ link = "lossy" /\ air = <<>> /\ acked = TRUE
  /\ errors = 0 /\ ioError = FALSE /\ softReset = FALSE

(* record_soft_error: the settings will be sent again; at the limit the    *)
(* link is given up.                                                       *)
Raised_unbounded == errors + AtLeastOne(ErrorIncrement)
Raised ==
  LET sum == errors + AtLeastOne(ErrorIncrement)
  IN  IF sum < 0 \/ sum > ErrorLimit THEN ErrorLimit ELSE sum

SoftError_pastLimit ==
  /\ errors' = Raised
  /\ ioError' = (ioError \/ errors + AtLeastOne(ErrorIncrement) > ErrorLimit)
  /\ softReset' = TRUE
SoftError ==
  /\ errors' = Raised
  /\ ioError' = (ioError \/ errors' >= ErrorLimit)
  /\ softReset' = TRUE

(* decrement_soft_error *)
Lowered == errors - AtLeastOne(ErrorDecrement)

GoodPacket ==
  /\ errors' = IF Lowered < 0 THEN 0 ELSE Lowered
  /\ UNCHANGED <<ioError, softReset>>

(* The counter of an error the control has cleared starts again.           *)
Forgiven == IF errors = ErrorLimit /\ ~ioError THEN 0 ELSE errors

(* A new request makes every reply on its way an older one, a new write    *)
(* makes every one of them, and the board itself, behind.                  *)
Aged(reply) == [reply EXCEPT !.age = 1]
Outdated(reply) == [reply EXCEPT !.acked = FALSE]

Older(replies) == [i \in DOMAIN replies |-> Aged(replies[i])]
Behind_not(replies) == replies
Behind(replies) == [i \in DOMAIN replies |-> Outdated(replies[i])]

(* send_queued_reads: the request is lost, or the board replies with its   *)
(* registers as they are.                                                  *)
RequestReply(status) ==
  \/ link = "lossy" /\ air' = Older(air)
  \/ /\ Len(air) < MaxLate
     /\ air' = Append(Older(air), [age |-> 0, acked |-> acked, status |-> status])

SendRequest(status) ==
  /\ errors' = Forgiven
  /\ RequestReply(status)
  /\ UNCHANGED <<link, acked, ioError, softReset>>

(* receive_queued_reads: nothing comes before the timeout; ... *)
Timeout ==
  /\ link = "lossy" \/ air = <<>>
  /\ SoftError
  /\ UNCHANGED <<link, air, acked>>

(* ... an older reply comes with time left, and the next is waited for;    *)
SkipOlder ==
  /\ air # <<>> /\ Head(air).age > 0
  /\ air' = Tail(air)
  /\ UNCHANGED <<link, acked, errors, ioError, softReset>>

(* ... or the reply is taken, an older one when the time is up.  The write *)
(* number it bears tells a write that was lost.                            *)
Confirmed_never(reply) == TRUE
Confirmed(reply) == reply.acked

TakeReply(reply) ==
  /\ air # <<>> /\ reply = Head(air)
  /\ reply.age = 0 \/ link = "lossy"
  /\ air' = Tail(air)
  /\ IF Confirmed(reply) THEN GoodPacket ELSE SoftError
  /\ UNCHANGED <<link, acked>>

(* send_queued_writes: one packet, which bears the next write number.      *)
SendPacket(arrives) ==
  /\ arrives \/ link = "lossy"
  /\ air' = Behind(air)
  /\ acked' = arrives

(* Bound on the faults: the link may become good, for good. *)
Heal ==
  /\ link = "lossy" /\ link' = "good" /\ Len(air) < MaxLate
  /\ UNCHANGED <<air, acked, errors, ioError, softReset>>

LinkTypeOK ==
  /\ link \in {"lossy", "good"}
  /\ air \in Seq([age : {0, 1}, acked : BOOLEAN, status : BOOLEAN])
  /\ Len(air) <= MaxLate
  /\ acked \in BOOLEAN /\ errors \in 0 .. ErrorLimit
  /\ ioError \in BOOLEAN /\ softReset \in BOOLEAN
=============================================================================
