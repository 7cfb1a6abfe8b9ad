--------------------------- MODULE Encoder_proofs ---------------------------
(***************************************************************************)
(* The encoder's count and its events over a link that loses and delays    *)
(* packets, for every width of the register, every axis that is slow       *)
(* enough for it and every number of late replies.                         *)
(*                                                                         *)
(* The invariant adds a window: since the last good read so many reads     *)
(* have failed as the error counter tells, so all that the card had since  *)
(* lies no further apart than the axis turns in as many periods and one.   *)
(***************************************************************************)
EXTENDS Encoder, TLAPS

(* What a read without a good reply costs. *)
Step == AtLeastOne(ErrorIncrement)

(* The axis turns by less than half the register before the link is given  *)
(* up: n reads in a row cost less than the limit, and one more is used.    *)
SlowEnough ==
  /\ 2 * Speed < Width
  /\ \A n \in Nat : n * Step < ErrorLimit => 2 * (n * Speed + Speed) < Width

Statuses == [at : Int, armed : Latches, latchAt : Int \cup {None}]
Replies == [age : {0, 1}, acked : BOOLEAN, status : Statuses]

Kinds ==
  /\ sameCycle \in BOOLEAN /\ phase \in {"control", "read", "await", "write"}
  /\ air \in Seq(Replies) /\ acked \in BOOLEAN /\ errors \in Nat
  /\ ioError \in BOOLEAN /\ softReset \in BOOLEAN
  /\ indexEnable \in BOOLEAN /\ latchEnable \in BOOLEAN
  /\ levels \in [index : BOOLEAN, latch : BOOLEAN]
  /\ prevControl \in Latches /\ rawcounts \in Int
  /\ position \in Int /\ armed \in Latches /\ latchAt \in Int \cup {None}
  /\ due \in {"no", "one", "missed"}
  /\ quadRises \in BOOLEAN /\ queued \in BOOLEAN

(* The card's turn has come since the last read ended; a read has ended    *)
(* and its write is to come.                                               *)
Turned == phase \in IF sameCycle THEN {"write", "read", "await"} ELSE {"read", "await"}
ReadDone == phase \in IF sameCycle THEN {"control", "write"} ELSE {"write"}

Pin(kind)   == IF kind = "index" THEN indexEnable ELSE latchEnable
Level(kind) == IF kind = "index" THEN levels.index ELSE levels.latch

Below == errors < ErrorLimit \/ errors = 0

(* A reply that confirms the last write was made in this period, after all *)
(* others, and holds what the card has.                                    *)
Newest ==
  \A i \in DOMAIN air : air[i].acked =>
    /\ phase = "await" \/ ReadDone
    /\ acked
    /\ phase = "await" => i = Len(air) /\ air[i].status = Words

(* A write that was lost is sent again, and what a read has queued leaves   *)
(* with the write that follows it.  But for what is queued, a card that    *)
(* has the last write is armed as it was told or has met an event since;   *)
(* such an event is due until it is reported, and then the control         *)
(* register is to be changed.                                              *)
Retold == ReadDone => acked \/ softReset
Queued == queued => ReadDone
Told == acked /\ ~queued
Synced == Told => armed = "none" \/ armed = prevControl
Owed ==
  Told /\ prevControl # "none" /\ armed = "none" =>
    due # "no" \/ (ReadDone /\ ~Pin(prevControl))

(* What was asked for by a pin the control's level still asks for. *)
Levels ==
  /\ prevControl = "probe" => FirmwareProbe
  /\ sameCycle /\ phase # "write" /\ prevControl # "none" => Level(prevControl)
  /\ indexEnable => levels.index
  /\ latchEnable => levels.latch

(* The window: what the card had since the last good read. *)
Caught == acked /\ prevControl # "none" /\ armed = "none" /\ due # "no"
Reach(n) == IF Turned THEN n * Speed + Speed ELSE n * Speed
Inside(x, low, n) == low <= x /\ x <= low + Reach(n)
Spans(low, n) ==
  /\ Inside(rawcounts, low, n) /\ Inside(position, low, n)
  /\ \A i \in DOMAIN air : Inside(air[i].status.at, low, n)
  /\ Caught => latchAt # None /\ Inside(latchAt, low, n)
Window == \E n \in Nat, low \in Int : n * Step <= errors /\ Spans(low, n)

Followed == Below /\ Newest /\ Retold /\ Queued /\ Synced /\ Owed /\ Levels /\ Window

IInv == Kinds /\ (~ioError => Followed)

LEMMA Numbers ==
  /\ Step \in Nat /\ Step >= 1 /\ Speed \in Nat /\ AtLeastOne(ErrorDecrement) \in Nat
  /\ AtLeastOne(ErrorDecrement) >= 1
  /\ Width \in Nat \ {0} /\ ErrorLimit \in Nat /\ None \notin Int
  BY EthAssumption, EncoderAssumption DEF Step, AtLeastOne

LEMMA Products ==
  ASSUME NEW n \in Nat
  PROVE  /\ n * Step \in Nat /\ n <= n * Step /\ (n + 1) * Step = n * Step + Step
         /\ n * Speed \in Nat /\ (n + 1) * Speed = n * Speed + Speed
<1>1. Step \in Nat /\ Step >= 1 /\ Speed \in Nat
  BY Numbers
<1>2. QED
  BY <1>1

(* Low and Extend undo each other for a count less than half the register  *)
(* away from the last.                                                     *)
LEMMA Multiples ==
  ASSUME NEW w \in Nat \ {0}, NEW t \in Int
  PROVE  /\ w * t \in Int
         /\ t >= 1 => w * t >= w
         /\ t = 0 => w * t = 0
         /\ t = -1 => w * t = -w
         /\ t <= -2 => w * t <= -(2 * w)
  OBVIOUS

LEMMA Remainders ==
  ASSUME NEW w \in Nat \ {0}, NEW n \in Int
  PROVE  /\ n % w \in Int /\ n \div w \in Int /\ n = w * (n \div w) + (n % w)
         /\ 0 <= n % w /\ n % w < w
  OBVIOUS

LEMMA Extended ==
  ASSUME NEW raw \in Int, NEW at \in Int,
         2 * (at - raw) < Width, 2 * (raw - at) < Width
  PROVE  Extend(raw, Low(at)) = at
<1>1. Low(at) = at % Width
  BY Numbers DEF Low
<1> DEFINE low == at % Width
           up == (low - raw) % Width
           t == (at \div Width) + ((low - raw) \div Width)
<1>2. /\ low \in Int /\ at \div Width \in Int /\ at = Width * (at \div Width) + low
  BY Numbers, Remainders
<1>3. low - raw \in Int
  BY <1>2
<1>4. /\ up \in Int /\ (low - raw) \div Width \in Int /\ 0 <= up /\ up < Width
      /\ low - raw = Width * ((low - raw) \div Width) + up
  BY <1>3, Numbers, Remainders
<1>5. t \in Int /\ Width * t = Width * (at \div Width) + Width * ((low - raw) \div Width)
  BY <1>2, <1>4, Numbers
<1>6. at - raw = Width * t + up
  BY <1>2, <1>4, <1>5, Numbers
<1>7. Extend(raw, low) = raw + (IF 2 * up >= Width THEN up - Width ELSE up)
  BY DEF Extend
<1>8. CASE t >= 1 \/ t <= -2
  BY <1>4, <1>5, <1>6, <1>8, Numbers, Multiples
<1>9. CASE t = 0
  BY <1>1, <1>4, <1>5, <1>6, <1>7, <1>9, Numbers, Multiples
<1>10. CASE t = -1
  BY <1>1, <1>4, <1>5, <1>6, <1>7, <1>10, Numbers, Multiples
<1>11. QED
  BY <1>5, <1>8, <1>9, <1>10

-----------------------------------------------------------------------------
(* Marking the replies on their way keeps what they are, and how they were *)
(* made.                                                                   *)
LEMMA MarkedReplies ==
  ASSUME NEW replies \in Seq(Replies)
  PROVE  /\ Older(replies) \in Seq(Replies) /\ Behind(replies) \in Seq(Replies)
         /\ Len(Older(replies)) = Len(replies) /\ Len(Behind(replies)) = Len(replies)
         /\ DOMAIN Older(replies) = DOMAIN replies
         /\ DOMAIN Behind(replies) = DOMAIN replies
         /\ \A i \in DOMAIN replies :
              /\ Older(replies)[i].acked = replies[i].acked
              /\ Older(replies)[i].status = replies[i].status
              /\ ~Behind(replies)[i].acked
              /\ Behind(replies)[i].status = replies[i].status
<1>1. \A r \in Replies : /\ Aged(r) \in Replies /\ Outdated(r) \in Replies
                        /\ Aged(r).acked = r.acked /\ Aged(r).status = r.status
                        /\ ~Outdated(r).acked /\ Outdated(r).status = r.status
  BY DEF Aged, Outdated, Replies
<1>2. /\ replies \in [1 .. Len(replies) -> Replies] /\ Len(replies) \in Nat
      /\ DOMAIN replies = 1 .. Len(replies)
  OBVIOUS
<1>3. Older(replies) \in [1 .. Len(replies) -> Replies]
  BY <1>1, <1>2 DEF Older
<1>4. Behind(replies) \in [1 .. Len(replies) -> Replies]
  BY <1>1, <1>2 DEF Behind
<1>5. \A i \in DOMAIN replies :
        /\ Older(replies)[i].acked = replies[i].acked
        /\ Older(replies)[i].status = replies[i].status
        /\ ~Behind(replies)[i].acked
        /\ Behind(replies)[i].status = replies[i].status
  BY <1>1, <1>2 DEF Older, Behind
<1>6. Older(replies) \in Seq(Replies) /\ Len(Older(replies)) = Len(replies)
  BY <1>2, <1>3
<1>7. Behind(replies) \in Seq(Replies) /\ Len(Behind(replies)) = Len(replies)
  BY <1>2, <1>4
<1>8. DOMAIN Older(replies) = DOMAIN replies /\ DOMAIN Behind(replies) = DOMAIN replies
  BY <1>2, <1>3, <1>4
<1>9. QED
  BY <1>5, <1>6, <1>7, <1>8

(* The reply taken, and those behind it.                                   *)
LEMMA FirstReply ==
  ASSUME NEW replies \in Seq(Replies), replies # <<>>
  PROVE  /\ Head(replies) \in Replies /\ Head(replies) = replies[1]
         /\ 1 \in DOMAIN replies
         /\ Tail(replies) \in Seq(Replies) /\ Len(Tail(replies)) = Len(replies) - 1
         /\ \A i \in DOMAIN Tail(replies) :
              i + 1 \in DOMAIN replies /\ Tail(replies)[i] = replies[i + 1]
  OBVIOUS

LEMMA Phases ==
  /\ After("read") \in {"control", "read", "await", "write"}
  /\ After("write") \in {"control", "read", "await", "write"}
  /\ After("control") \in {"control", "read", "await", "write"}
  BY DEF After

(* The counter stays a number. *)
LEMMA Counted ==
  ASSUME errors \in Nat
  PROVE  /\ Forgiven \in Nat /\ Raised \in Nat
         /\ (IF Lowered < 0 THEN 0 ELSE Lowered) \in Nat
         /\ Raised < ErrorLimit => Raised = errors + Step
  BY Numbers DEF Forgiven, Raised, Lowered, Step

LEMMA Extends == ASSUME NEW raw \in Int, NEW low \in Int PROVE Extend(raw, low) \in Int
<1>1. (low - raw) % Width \in Int
  BY Numbers, Remainders
<1>2. QED
  BY <1>1, Numbers DEF Extend

LEMMA Lows == ASSUME NEW n \in Int \cup {None} PROVE Low(n) \in Int
  BY Numbers, Remainders DEF Low

-----------------------------------------------------------------------------
(* Every step keeps what kinds of values there are.                        *)
LEMMA KindsInit == Init => Kinds
<1> SUFFICES ASSUME Init PROVE Kinds
  OBVIOUS
<1>1. air \in Seq(Replies) /\ acked \in BOOLEAN /\ errors \in Nat
  BY DEF Init, LinkInit
<1>2. ioError \in BOOLEAN /\ softReset \in BOOLEAN /\ sameCycle \in BOOLEAN
  BY DEF Init, LinkInit
<1>3. position \in Int /\ rawcounts \in Int
  BY Numbers DEF Init
<1>4. QED
  BY <1>1, <1>2, <1>3 DEF Init, Kinds, Latches

LEMMA ReadKinds ==
  ASSUME Kinds, ReadNothing \/ ReadRequest \/ ReadTimeout \/ ReadSkip
  PROVE  Kinds'
<1>1. CASE ReadNothing
  BY <1>1, Phases DEF ReadNothing, linkVars, pins, driver, card, Kinds
<1>2. CASE ReadRequest
  <2>1. Words \in Statuses
    BY DEF Words, Statuses, Kinds
  <2>2. [age |-> 0, acked |-> acked, status |-> Words] \in Replies
    BY <2>1 DEF Replies, Kinds
  <2>3. air' \in Seq(Replies)
    <3> DEFINE reply == [age |-> 0, acked |-> acked, status |-> Words]
    <3>1. air' = Older(air) \/ air' = Append(Older(air), reply)
      BY <1>2 DEF ReadRequest, SendRequest, RequestReply
    <3>2. Older(air) \in Seq(Replies)
      BY MarkedReplies DEF Kinds
    <3> HIDE DEF reply
    <3>3. QED
      BY <2>2, <3>1, <3>2 DEF reply
  <2>4. errors' \in Nat
    BY <1>2, Counted DEF ReadRequest, SendRequest, Kinds
  <2>5. acked' = acked /\ ioError' = ioError /\ softReset' = softReset
    BY <1>2 DEF ReadRequest, SendRequest
  <2>6. phase' = "await" /\ UNCHANGED <<sameCycle, pins, driver, card, due>>
    BY <1>2 DEF ReadRequest
  <2>7. QED
    BY <2>3, <2>4, <2>5, <2>6 DEF pins, driver, card, Kinds
<1>3. CASE ReadTimeout
  <2>1. errors' \in Nat /\ ioError' \in BOOLEAN /\ softReset' \in BOOLEAN
    BY <1>3, Counted DEF ReadTimeout, Timeout, SoftError, Kinds
  <2>2. air' = air /\ acked' = acked /\ phase' = After("read")
    BY <1>3 DEF ReadTimeout, Timeout
  <2>3. QED
    BY <1>3, <2>1, <2>2, Phases DEF ReadTimeout, pins, driver, card, Kinds
<1>4. CASE ReadSkip
  <2>1. air' \in Seq(Replies)
    BY <1>4, FirstReply DEF ReadSkip, SkipOlder, Kinds
  <2>2. QED
    BY <1>4, <2>1 DEF ReadSkip, SkipOlder, pins, driver, card, Kinds
<1>5. QED
  BY <1>1, <1>2, <1>3, <1>4

(* The reply that is taken, and how it counts. *)
LEMMA Taken ==
  ASSUME Kinds, ReadReply
  PROVE  /\ air # <<>> /\ Head(air) \in Replies /\ air' = Tail(air) /\ air' \in Seq(Replies)
         /\ IF Head(air).acked THEN GoodPacket ELSE SoftError
         /\ acked' = acked /\ phase = "await" /\ phase' = After("read")
         /\ sameCycle' = sameCycle /\ position' = position
         /\ armed' = armed /\ latchAt' = latchAt
         /\ IF ioError' THEN UNCHANGED <<pins, driver, due>> ELSE Process(Head(air).status)
<1>1. PICK reply \in {air[i] : i \in DOMAIN air} :
        /\ TakeReply(reply)
        /\ IF ioError' THEN UNCHANGED <<pins, driver, due>> ELSE Process(reply.status)
  BY DEF ReadReply
<1>2. air # <<>> /\ reply = Head(air)
  BY <1>1 DEF TakeReply
<1>3. Head(air) \in Replies /\ Tail(air) \in Seq(Replies)
  BY <1>2, FirstReply DEF Kinds
<1>4. air' = Tail(air) /\ acked' = acked
  BY <1>1 DEF TakeReply
<1>5. IF Head(air).acked THEN GoodPacket ELSE SoftError
  BY <1>1, <1>2 DEF TakeReply, Confirmed
<1>6. /\ phase = "await" /\ phase' = After("read") /\ sameCycle' = sameCycle
      /\ position' = position /\ armed' = armed /\ latchAt' = latchAt
  BY DEF ReadReply, card
<1>7. QED
  BY <1>1, <1>2, <1>3, <1>4, <1>5, <1>6

LEMMA ReplyKinds == ASSUME Kinds, ReadReply PROVE Kinds'
<1>1. errors' \in Nat /\ ioError' \in BOOLEAN /\ softReset' \in BOOLEAN
  BY Taken, Counted DEF GoodPacket, SoftError, Kinds
<1>2. /\ indexEnable' \in BOOLEAN /\ latchEnable' \in BOOLEAN
      /\ levels' \in [index : BOOLEAN, latch : BOOLEAN] /\ prevControl' \in Latches
      /\ rawcounts' \in Int /\ due' \in {"no", "one", "missed"}
      /\ quadRises' \in BOOLEAN /\ queued' \in BOOLEAN
  <2>1. CASE ioError'
    BY <2>1, Taken DEF pins, driver, Kinds
  <2>2. CASE ~ioError'
    <3>1. Process(Head(air).status)
      BY <2>2, Taken
    <3>2. Head(air).status.at \in Int
      BY Taken DEF Replies, Statuses
    <3>3. Extend(rawcounts, Low(Head(air).status.at)) \in Int
      BY <3>2, Lows, Extends DEF Kinds
    <3>4. Asked \in Latches
      BY DEF Asked, Control, Latches, Kinds
    <3>5. QED
      BY <3>1, <3>3, <3>4 DEF Process, Kinds
  <2>3. QED
    BY <2>1, <2>2
<1>3. QED
  BY <1>1, <1>2, Taken, Phases DEF Kinds

LEMMA TurnKinds ==
  ASSUME Kinds, Answer \/ WriteNothing \/ \E arrives \in BOOLEAN : Write(arrives)
  PROVE  Kinds'
<1>1. CASE Answer
  <2>1. levels' \in [index : BOOLEAN, latch : BOOLEAN]
    BY <1>1, EncoderAssumption DEF Answer
  <2>2. indexEnable' \in BOOLEAN /\ latchEnable' \in BOOLEAN
    BY <1>1, <2>1 DEF Answer, Applied, Kinds
  <2>3. position' \in Int
    BY <1>1, Numbers, EncoderAssumption DEF Answer, Kinds
  <2>4. armed' \in Latches /\ latchAt' \in Int \cup {None} /\ due' \in {"no", "one", "missed"}
    BY <1>1, <2>3 DEF Answer, Kinds, Latches
  <2>5. QED
    BY <1>1, <2>1, <2>2, <2>3, <2>4, Phases DEF Answer, linkVars, Kinds
<1>2. CASE WriteNothing
  BY <1>2, Phases DEF WriteNothing, linkVars, pins, driver, card, Kinds
<1>3. ASSUME NEW arrives \in BOOLEAN, Write(arrives) PROVE Kinds'
  <2>1. air' \in Seq(Replies) /\ acked' \in BOOLEAN
    BY <1>3, MarkedReplies DEF Write, SendPacket, Kinds
  <2>2. Control \in Latches
    BY DEF Control, Latches
  <2>3. prevControl' \in Latches
    BY <1>3, <2>2 DEF Write, Kinds
  <2>4. armed' \in Latches /\ latchAt' \in Int \cup {None}
    BY <1>3, <2>2 DEF Write, Arm, Kinds
  <2>5. due' \in {"no", "one", "missed"}
    BY <1>3 DEF Write, Kinds
  <2>6. QED
    BY <1>3, <2>1, <2>3, <2>4, <2>5, Phases DEF Write, pins, Kinds
<1>4. QED
  BY <1>1, <1>2, <1>3

LEMMA KindsNext == ASSUME Kinds, [Next]_vars PROVE Kinds'
<1>1. CASE UNCHANGED vars
  BY <1>1 DEF vars, linkVars, pins, driver, card, Kinds
<1>2. QED
  BY <1>1, ReadKinds, ReplyKinds, TurnKinds DEF Next

-----------------------------------------------------------------------------
(* What the window says of a reading: the axis has not turned half the     *)
(* register since the last good read, so that the count is extended right. *)
LEMMA NearEnough ==
  ASSUME SlowEnough, Kinds, Below, NEW n \in Nat, n * Step <= errors
  PROVE  2 * (n * Speed + Speed) < Width
<1>1. n * Step \in Nat /\ n <= n * Step /\ n * Speed \in Nat
  BY Products
<1>2. errors \in Nat /\ ErrorLimit \in Nat /\ Speed \in Nat
  BY Numbers DEF Kinds
<1>3. CASE errors < ErrorLimit
  <2>1. n * Step < ErrorLimit
    BY <1>1, <1>2, <1>3
  <2>2. QED
    BY <2>1 DEF SlowEnough
<1>4. CASE errors = 0
  <2>1. n = 0
    BY <1>1, <1>2, <1>4
  <2>2. n * Speed = 0
    BY <2>1, <1>2
  <2>3. QED
    BY <2>2, <1>2 DEF SlowEnough
<1>5. QED
  BY <1>3, <1>4 DEF Below

LEMMA ReadRight ==
  ASSUME SlowEnough, Kinds, Below, phase = "await",
         NEW n \in Nat, NEW low \in Int, n * Step <= errors,
         NEW at \in Int, Inside(rawcounts, low, n), Inside(at, low, n)
  PROVE  Extend(rawcounts, Low(at)) = at
<1>1. Reach(n) = n * Speed + Speed
  BY DEF Reach, Turned
<1>2. 2 * (n * Speed + Speed) < Width
  BY NearEnough
<1>3. n * Speed \in Nat /\ Speed \in Nat /\ Width \in Nat /\ rawcounts \in Int
  BY Products, Numbers DEF Kinds
<1>4. low <= at /\ at <= low + (n * Speed + Speed)
  BY <1>1 DEF Inside
<1>5. low <= rawcounts /\ rawcounts <= low + (n * Speed + Speed)
  BY <1>1 DEF Inside
<1>6. 2 * (at - rawcounts) < Width /\ 2 * (rawcounts - at) < Width
  BY <1>2, <1>3, <1>4, <1>5
<1>7. QED
  BY <1>3, <1>6, Extended

(* A failed read costs a step of the counter and a period of the window.   *)
LEMMA WindowGrows ==
  ASSUME Kinds, phase = "await", phase' = After("read"), sameCycle' = sameCycle,
         NEW n \in Nat
  PROVE  /\ n + 1 \in Nat /\ Reach(n + 1)' = Reach(n) /\ Reach(0)' = 0
         /\ n * Step <= errors /\ errors' = errors + Step => (n + 1) * Step <= errors'
         /\ 0 * Step = 0 /\ ReadDone' /\ ~Turned'
<1>1. Turned /\ ~Turned' /\ ReadDone'
  BY DEF Turned, ReadDone, After, Kinds
<1>2. Reach(n) = n * Speed + Speed /\ Reach(n + 1)' = (n + 1) * Speed /\ Reach(0)' = 0 * Speed
  BY <1>1 DEF Reach
<1>3. 0 * Speed = 0 /\ 0 * Step = 0
  BY Numbers
<1>4. /\ (n + 1) * Speed = n * Speed + Speed
      /\ (n + 1) * Step = n * Step + Step /\ n * Step \in Nat
  BY Products
<1>5. n * Step <= errors /\ errors' = errors + Step => (n + 1) * Step <= errors'
  BY <1>4, Numbers DEF Kinds
<1>6. QED
  BY <1>1, <1>2, <1>3, <1>4, <1>5

LEMMA SoftErrorBelow ==
  ASSUME Kinds, SoftError, ~ioError'
  PROVE  Below' /\ errors' = errors + Step /\ softReset' = TRUE
<1>1. errors' = Raised /\ ~(Raised >= ErrorLimit) /\ softReset' = TRUE
  BY DEF SoftError
<1>2. Raised \in Nat /\ (Raised < ErrorLimit => Raised = errors + Step)
  BY Counted DEF Kinds
<1>3. Raised < ErrorLimit
  BY <1>1, <1>2, Numbers
<1>4. QED
  BY <1>1, <1>2, <1>3 DEF Below

-----------------------------------------------------------------------------
(* The invariant through each step that leaves the link trusted.           *)
LEMMA RequestFollowed == ASSUME Kinds, Followed, ReadRequest PROVE Followed'
<1>1. /\ phase = "read" /\ phase' = "await" /\ ~ioError /\ acked' = acked
      /\ softReset' = softReset /\ sameCycle' = sameCycle
      /\ levels' = levels /\ indexEnable' = indexEnable /\ latchEnable' = latchEnable
      /\ prevControl' = prevControl /\ rawcounts' = rawcounts /\ due' = due
      /\ queued' = queued
      /\ position' = position /\ armed' = armed /\ latchAt' = latchAt
  BY DEF ReadRequest, SendRequest, pins, driver, card
<1>2. errors' = errors
  BY Numbers DEF ReadRequest, SendRequest, Forgiven, Followed, Below
<1>3. ~ReadDone /\ ~ReadDone' /\ Turned /\ Turned'
  BY <1>1 DEF ReadDone, Turned
<1>4. Words' = Words /\ Words.at = position
  BY <1>1 DEF Words
<1>5. \A i \in DOMAIN air' :
        \/ i \in DOMAIN air /\ ~air'[i].acked /\ air'[i].status = air[i].status
        \/ i = Len(air') /\ air'[i].acked = acked /\ air'[i].status = Words
  <2>1. \A i \in DOMAIN air : ~air[i].acked
    BY <1>1, <1>3 DEF Followed, Newest
  <2>2. /\ Older(air) \in Seq(Replies) /\ DOMAIN Older(air) = DOMAIN air
        /\ \A i \in DOMAIN air :
             ~Older(air)[i].acked /\ Older(air)[i].status = air[i].status
    BY <2>1, MarkedReplies DEF Kinds
  <2>3. CASE air' = Older(air)
    BY <2>2, <2>3
  <2>4. CASE air' = Append(Older(air), [age |-> 0, acked |-> acked, status |-> Words])
    <3> DEFINE reply == [age |-> 0, acked |-> acked, status |-> Words]
    <3>1. reply.acked = acked /\ reply.status = Words
      OBVIOUS
    <3> HIDE DEF reply
    <3>2. /\ Len(air') = Len(Older(air)) + 1 /\ DOMAIN air' = 1 .. Len(air')
          /\ DOMAIN Older(air) = 1 .. Len(Older(air)) /\ Len(Older(air)) \in Nat
          /\ air'[Len(air')] = reply
          /\ \A i \in 1 .. Len(Older(air)) : air'[i] = Older(air)[i]
      BY <2>2, <2>4 DEF reply
    <3>3. \A i \in DOMAIN air' : i \in DOMAIN air \/ i = Len(air')
      BY <2>2, <3>2
    <3>4. QED
      BY <2>2, <3>1, <3>2, <3>3
  <2>5. QED
    BY <2>3, <2>4 DEF ReadRequest, SendRequest, RequestReply
<1>6. Below' /\ Retold' /\ Queued' /\ Synced' /\ Owed' /\ Levels'
  <2>1. Below' /\ Retold' /\ Queued' /\ Synced'
    BY <1>1, <1>2, <1>3 DEF Followed, Below, Retold, Queued, Synced, Told
  <2>2. Owed'
    BY <1>1, <1>3 DEF Followed, Owed, Told
  <2>3. Levels'
    BY <1>1 DEF Followed, Levels, Level
  <2>4. QED
    BY <2>1, <2>2, <2>3
<1>7. Newest'
  BY <1>1, <1>4, <1>5 DEF Newest
<1>8. Window'
  <2>1. PICK n \in Nat, low \in Int : n * Step <= errors /\ Spans(low, n)
    BY DEF Followed, Window
  <2>2. Reach(n)' = Reach(n)
    BY <1>3 DEF Reach
  <2>3. Spans(low, n)'
    <3>1. Inside(rawcounts, low, n)' /\ Inside(position, low, n)'
      BY <1>1, <2>1, <2>2 DEF Spans, Inside
    <3>2. (\A i \in DOMAIN air : Inside(air[i].status.at, low, n))'
      BY <1>4, <1>5, <2>1, <2>2 DEF Spans, Inside
    <3>3. (Caught => latchAt # None /\ Inside(latchAt, low, n))'
      BY <1>1, <2>1, <2>2 DEF Spans, Inside, Caught
    <3>4. QED
      BY <3>1, <3>2, <3>3 DEF Spans
  <2>4. QED
    BY <1>2, <2>1, <2>3 DEF Window
<1>9. QED
  BY <1>6, <1>7, <1>8 DEF Followed

LEMMA TimeoutFollowed == ASSUME Kinds, Followed, ReadTimeout, ~ioError' PROVE Followed'
<1>1. /\ phase = "await" /\ phase' = After("read") /\ acked' = acked /\ air' = air
      /\ sameCycle' = sameCycle
      /\ levels' = levels /\ indexEnable' = indexEnable /\ latchEnable' = latchEnable
      /\ prevControl' = prevControl /\ rawcounts' = rawcounts /\ due' = due
      /\ queued' = queued
      /\ position' = position /\ armed' = armed /\ latchAt' = latchAt
  BY DEF ReadTimeout, Timeout, pins, driver, card
<1>2. SoftError
  BY DEF ReadTimeout, Timeout
<1>3. Below' /\ errors' = errors + Step /\ softReset' = TRUE
  BY <1>2, SoftErrorBelow
<1>4. ReadDone' /\ ~ReadDone /\ (sameCycle => phase' # "write") /\ phase' # "await"
  BY <1>1 DEF ReadDone, After, Kinds
<1>5. Newest'
  BY <1>1, <1>4 DEF Followed, Newest
<1>6. Retold' /\ Queued' /\ Synced' /\ Owed'
  BY <1>1, <1>3, <1>4 DEF Followed, Retold, Queued, Synced, Owed, Told
<1>7. Levels'
  BY <1>1 DEF Followed, Levels, Level
<1>8. Window'
  <2>1. PICK n \in Nat, low \in Int : n * Step <= errors /\ Spans(low, n)
    BY DEF Followed, Window
  <2>2. n + 1 \in Nat /\ Reach(n + 1)' = Reach(n) /\ (n + 1) * Step <= errors'
    BY <1>1, <1>3, <2>1, WindowGrows
  <2>3. Spans(low, n + 1)'
    BY <1>1, <2>1, <2>2 DEF Spans, Inside, Caught
  <2>4. QED
    BY <2>2, <2>3 DEF Window
<1>9. QED
  BY <1>3, <1>5, <1>6, <1>7, <1>8 DEF Followed

LEMMA SkipFollowed == ASSUME Kinds, Followed, ReadSkip PROVE Followed'
<1>1. /\ phase' = phase /\ acked' = acked /\ air # <<>> /\ air' = Tail(air)
      /\ errors' = errors /\ softReset' = softReset /\ sameCycle' = sameCycle
      /\ levels' = levels /\ indexEnable' = indexEnable /\ latchEnable' = latchEnable
      /\ prevControl' = prevControl /\ rawcounts' = rawcounts /\ due' = due
      /\ queued' = queued
      /\ position' = position /\ armed' = armed /\ latchAt' = latchAt
  BY DEF ReadSkip, SkipOlder, pins, driver, card
<1>2. /\ Len(air') = Len(air) - 1 /\ air' \in Seq(Replies) /\ air \in Seq(Replies)
      /\ \A i \in DOMAIN air' : i + 1 \in DOMAIN air /\ air'[i] = air[i + 1]
  BY <1>1, FirstReply DEF Kinds
<1>3. Words' = Words
  BY <1>1 DEF Words
<1>4. Newest'
  <2>1. ReadDone' = ReadDone
    BY <1>1 DEF ReadDone
  <2>2. ASSUME NEW i \in DOMAIN air', air'[i].acked
        PROVE  /\ phase' = "await" \/ ReadDone'
               /\ acked' /\ (phase' = "await" => i = Len(air') /\ air'[i].status = Words')
    <3>1. i + 1 \in DOMAIN air /\ air[i + 1].acked /\ air'[i] = air[i + 1]
      BY <1>2, <2>2
    <3>2. /\ phase = "await" \/ ReadDone
          /\ acked /\ (phase = "await" => i + 1 = Len(air) /\ air[i + 1].status = Words)
      BY <3>1 DEF Followed, Newest
    <3>3. i \in Int /\ Len(air) \in Int
      BY <1>2
    <3>4. QED
      BY <1>1, <1>2, <1>3, <2>1, <3>1, <3>2, <3>3
  <2>3. QED
    BY <2>2 DEF Newest
<1>5. Below' /\ Retold' /\ Queued' /\ Synced'
  BY <1>1 DEF Followed, Below, Retold, Queued, Synced, Told, ReadDone
<1>6. Owed' /\ Levels'
  BY <1>1 DEF Followed, Owed, Told, Levels, Level, ReadDone, Pin
<1>7. Window'
  <2>1. PICK n \in Nat, low \in Int : n * Step <= errors /\ Spans(low, n)
    BY DEF Followed, Window
  <2>2. Reach(n)' = Reach(n)
    BY <1>1 DEF Reach, Turned
  <2>3. Spans(low, n)'
    BY <1>1, <1>2, <2>1, <2>2 DEF Spans, Inside, Caught
  <2>4. QED
    BY <1>1, <2>1, <2>3 DEF Window
<1>8. QED
  BY <1>4, <1>5, <1>6, <1>7 DEF Followed

(* What a reply says, and what the driver makes of it.                     *)
LEMMA ReplyTells ==
  ASSUME SlowEnough, Kinds, Followed, ReadReply, ~ioError'
  PROVE  /\ rawcounts' = Head(air).status.at
         /\ Head(air).acked =>
              /\ acked /\ air' = <<>> /\ Head(air).status = Words
              /\ Asked = prevControl /\ Reported(Words) # "none" =>
                   /\ event' = [kind |-> Reported(Words), at |-> latchAt]
                   /\ Caught
<1>1. /\ air # <<>> /\ Head(air) \in Replies /\ air' = Tail(air) /\ phase = "await"
      /\ Process(Head(air).status)
  BY Taken
<1>2. PICK n \in Nat, low \in Int : n * Step <= errors /\ Spans(low, n)
  BY DEF Followed, Window
<1>3. Head(air) = air[1] /\ 1 \in DOMAIN air /\ air \in Seq(Replies)
  BY <1>1, FirstReply DEF Kinds
<1>4. Head(air).status.at \in Int
  BY <1>1 DEF Replies, Statuses
<1>5. rawcounts' = Head(air).status.at
  <2>1. Inside(rawcounts, low, n) /\ Inside(Head(air).status.at, low, n)
    BY <1>2, <1>3 DEF Spans
  <2>2. Extend(rawcounts, Low(Head(air).status.at)) = Head(air).status.at
    BY <1>1, <1>2, <1>4, <2>1, ReadRight DEF Followed
  <2>3. QED
    BY <1>1, <2>2 DEF Process
<1>6. ASSUME Head(air).acked
      PROVE  acked /\ air' = <<>> /\ Head(air).status = Words
  <2>1. acked /\ Len(air) = 1 /\ Head(air).status = Words
    BY <1>1, <1>3, <1>6 DEF Followed, Newest
  <2>2. QED
    BY <1>1, <1>3, <2>1
<1>7. ASSUME Head(air).acked, Asked = prevControl, Reported(Words) # "none"
      PROVE  event' = [kind |-> Reported(Words), at |-> latchAt] /\ Caught
  <2>1. acked /\ Head(air).status = Words
    BY <1>6, <1>7
  <2>2. prevControl # "none" /\ armed # prevControl
    BY <1>7 DEF Reported, Words
  <2>3. armed = "none" /\ ~ReadDone /\ Told
    BY <1>1, <2>1, <2>2 DEF Followed, Queued, Synced, Told, ReadDone
  <2>4. Caught
    BY <2>2, <2>3 DEF Followed, Owed, Told, Caught
  <2>5. latchAt \in Int /\ Inside(latchAt, low, n)
    BY <1>2, <2>4 DEF Spans, Kinds
  <2>6. Extend(rawcounts, Low(latchAt)) = latchAt
    BY <1>1, <1>2, <2>5, ReadRight DEF Followed, Spans
  <2>7. event' = [kind |-> Reported(Words), at |-> Extend(rawcounts, Low(latchAt))]
    <3>1. Words.latchAt = latchAt
      BY DEF Words
    <3>2. QED
      BY <1>1, <1>7, <2>1, <3>1 DEF Process
  <2>8. QED
    BY <2>4, <2>6, <2>7
<1>8. QED
  BY <1>5, <1>6, <1>7

(* An event that is due no longer is one whose pin is lowered, unless the  *)
(* read itself changes what is asked for.                                  *)
LEMMA ReplyPins ==
  ASSUME Kinds, Followed, ReadReply, ~ioError', prevControl # "none", Asked = prevControl
  PROVE  /\ due' = due \/ (due' = "no" /\ ~Pin(prevControl)')
         /\ Head(air).status = Words /\ armed = "none" => due' = "no" /\ ~Pin(prevControl)'
<1>1. Process(Head(air).status)
  BY Taken
<1> DEFINE kind == Reported(Head(air).status)
<1>2. /\ indexEnable' = (indexEnable /\ kind # "index")
      /\ latchEnable' = (latchEnable /\ kind # "probe")
      /\ due' = (IF kind = "none" THEN due ELSE "no") /\ prevControl' = prevControl
  BY <1>1 DEF Process
<1>3. kind # "none" => kind = prevControl
  BY DEF Reported
<1>4. Head(air).status = Words /\ armed = "none" => kind = prevControl
  <2>1. Words.armed = armed
    BY DEF Words
  <2>2. prevControl = "index" \/ (prevControl = "probe" /\ FirmwareProbe)
    BY DEF Kinds, Latches, Followed, Levels
  <2>3. QED
    BY <2>1, <2>2 DEF Reported
<1> HIDE DEF kind
<1>5. kind = prevControl => ~Pin(prevControl)'
  BY <1>2 DEF Pin, Kinds, Latches
<1>6. QED
  BY <1>2, <1>3, <1>4, <1>5

(* What is still due is so of what was asked for before.                   *)
LEMMA ReplyDue ==
  ASSUME ReadReply, Kinds, ~ioError', due' # "no"
  PROVE  due' = due /\ Asked = prevControl /\ prevControl' = prevControl
  BY Taken DEF Process

LEMMA ReplyFollowed ==
  ASSUME SlowEnough, Kinds, Followed, ReadReply, ~ioError'
  PROVE  Followed'
<1>1. /\ air # <<>> /\ Head(air) \in Replies /\ air' = Tail(air) /\ acked' = acked
      /\ phase = "await" /\ phase' = After("read") /\ sameCycle' = sameCycle
      /\ position' = position /\ armed' = armed /\ latchAt' = latchAt
  BY Taken
<1>2. /\ prevControl' = Asked /\ queued' = quadRises /\ levels' = levels
      /\ indexEnable' \in {indexEnable, FALSE} /\ latchEnable' \in {latchEnable, FALSE}
  BY Taken DEF Process, Kinds
<1>3. ReadDone' /\ ~ReadDone /\ (sameCycle => phase' # "write") /\ phase' # "await"
  BY <1>1 DEF ReadDone, After, Kinds
<1>4. /\ air \in Seq(Replies) /\ 1 \in DOMAIN air /\ Head(air) = air[1]
      /\ \A i \in DOMAIN air' : i + 1 \in DOMAIN air /\ air'[i] = air[i + 1]
  BY <1>1, FirstReply DEF Kinds
<1>5. Newest'
  BY <1>1, <1>3, <1>4 DEF Followed, Newest
<1>6. Synced' /\ Levels'
  <2>1. Synced'
    <3>1. ~queued /\ (Told' => acked /\ Asked = prevControl)
      BY <1>1, <1>2, <1>3 DEF Followed, Queued, Told, Asked, Kinds
    <3>2. QED
      BY <1>1, <1>2, <3>1 DEF Followed, Synced, Told
  <2>2. Levels'
    <3>1. /\ Asked = "probe" => FirmwareProbe
          /\ sameCycle /\ Asked # "none" => Level(Asked)
      <4>1. /\ Control = "probe" => FirmwareProbe
            /\ Control # "none" => Level(Control)
        BY DEF Followed, Levels, Control, Level
      <4>2. /\ prevControl = "probe" => FirmwareProbe
            /\ sameCycle /\ prevControl # "none" => Level(prevControl)
        BY <1>1 DEF Followed, Levels
      <4>3. QED
        BY <4>1, <4>2 DEF Asked
    <3>2. (indexEnable => levels.index) /\ (latchEnable => levels.latch)
      BY DEF Followed, Levels
    <3>3. (indexEnable' => levels.index) /\ (latchEnable' => levels.latch)
      <4>1. CASE indexEnable' = FALSE /\ latchEnable' = FALSE
        BY <4>1
      <4>2. CASE indexEnable' = FALSE /\ latchEnable' = latchEnable
        BY <4>2, <3>2
      <4>3. CASE indexEnable' = indexEnable /\ latchEnable' = FALSE
        BY <4>3, <3>2
      <4>4. CASE indexEnable' = indexEnable /\ latchEnable' = latchEnable
        BY <4>4, <3>2
      <4>5. QED
        BY <1>2, <4>1, <4>2, <4>3, <4>4
    <3>4. QED
      BY <1>1, <1>2, <3>1, <3>3 DEF Levels, Level
  <2>3. QED
    BY <2>1, <2>2
<1>7. Owed'
  <2>1. ASSUME acked, ~quadRises, prevControl # "none", armed = "none"
        PROVE  due' # "no" \/ ~Pin(prevControl)'
    <3>1. due # "no"
      BY <1>3, <2>1 DEF Followed, Queued, Told, Owed
    <3>2. due' = due \/ ~Pin(prevControl)'
      BY <2>1, ReplyPins DEF Asked
    <3>3. QED
      BY <3>1, <3>2
  <2>2. ~quadRises => Asked = prevControl
    BY DEF Asked
  <2>3. QED
    BY <1>1, <1>2, <1>3, <2>1, <2>2 DEF Owed, Told, Pin
<1>8. rawcounts' = Head(air).status.at
  BY ReplyTells
<1>9. CASE Head(air).acked
  <2>1. acked /\ air' = <<>> /\ Head(air).status = Words
    BY <1>9, ReplyTells
  <2>2. GoodPacket /\ softReset' = softReset
    BY <1>9, Taken DEF GoodPacket
  <2>3. Below' /\ errors' \in Nat
    <3>1. errors' = IF Lowered < 0 THEN 0 ELSE Lowered
      BY <2>2 DEF GoodPacket
    <3>2. QED
      BY <3>1, Numbers, Counted DEF Lowered, Followed, Below, Kinds
  <2>4. Retold'
    BY <1>1, <2>1 DEF Retold
  <2>5. ~Caught'
    BY <1>1, <2>1, ReplyPins, ReplyDue DEF Caught
  <2>6. Window'
    <3>1. Reach(0)' = 0 /\ 0 * Step = 0
      BY <1>1, WindowGrows
    <3>2. rawcounts' = position /\ position \in Int
      BY <1>8, <2>1 DEF Words, Kinds
    <3>3. Inside(rawcounts, position, 0)' /\ Inside(position, position, 0)'
      BY <1>1, <3>1, <3>2 DEF Inside
    <3>4. \E low \in Int : Spans(low, 0)'
      BY <1>1, <2>1, <2>5, <3>1, <3>2 DEF Spans, Inside
    <3>5. QED
      BY <2>3, <3>1, <3>4 DEF Window
  <2>7. QED
    BY <1>3, <1>5, <1>6, <1>7, <2>3, <2>4, <2>6 DEF Followed, Queued
<1>10. CASE ~Head(air).acked
  <2>1. Below' /\ errors' = errors + Step /\ softReset' = TRUE
    BY <1>10, Taken, SoftErrorBelow
  <2>2. Retold'
    BY <2>1 DEF Retold
  <2>3. Caught' => Caught
    BY <1>1, ReplyDue DEF Caught
  <2>4. Window'
    <3>1. PICK n \in Nat, low \in Int : n * Step <= errors /\ Spans(low, n)
      BY DEF Followed, Window
    <3>2. n + 1 \in Nat /\ Reach(n + 1)' = Reach(n) /\ (n + 1) * Step <= errors'
      BY <1>1, <2>1, <3>1, WindowGrows
    <3>3. Inside(Head(air).status.at, low, n)
      BY <1>4, <3>1 DEF Spans
    <3>4. Spans(low, n + 1)'
      BY <1>1, <1>4, <1>8, <2>3, <3>1, <3>2, <3>3 DEF Spans, Inside
    <3>5. QED
      BY <3>2, <3>4 DEF Window
  <2>5. QED
    BY <1>3, <1>5, <1>6, <1>7, <2>1, <2>2, <2>4 DEF Followed, Queued
<1>11. QED
  BY <1>9, <1>10

(* The control's turn: the pins follow its levels, and the axis turns.     *)
LEMMA AnswerPins ==
  ASSUME Kinds, Followed, Answer
  PROVE  /\ indexEnable' => levels'.index
         /\ latchEnable' => levels'.latch
         /\ \A kind \in Latches : Level(kind) /\ ~Pin(kind) => ~Pin(kind)'
<1>1. /\ indexEnable' = Applied(indexEnable, levels.index, levels'.index)
      /\ latchEnable' = Applied(latchEnable, levels.latch, levels'.latch)
      /\ levels'.index \in BOOLEAN /\ levels'.latch \in BOOLEAN
  BY EncoderAssumption DEF Answer
<1>2. /\ levels.index \in BOOLEAN /\ levels.latch \in BOOLEAN
      /\ indexEnable \in BOOLEAN /\ latchEnable \in BOOLEAN
  BY DEF Kinds
<1>3. (indexEnable => levels.index) /\ (latchEnable => levels.latch)
  BY DEF Followed, Levels
<1>4. indexEnable' => levels'.index
  BY <1>1, <1>2, <1>3 DEF Applied
<1>5. latchEnable' => levels'.latch
  BY <1>1, <1>2, <1>3 DEF Applied
<1>6. /\ levels.index /\ ~indexEnable => ~indexEnable'
      /\ levels.latch /\ ~latchEnable => ~latchEnable'
  BY <1>1, <1>2 DEF Applied
<1>7. QED
  BY <1>4, <1>5, <1>6 DEF Level, Pin

LEMMA AnswerFollowed == ASSUME Kinds, Followed, Answer PROVE Followed'
<1>1. /\ phase = "control" /\ phase' = After("control") /\ sameCycle' = sameCycle
      /\ air' = air /\ acked' = acked /\ errors' = errors /\ softReset' = softReset
      /\ prevControl' = prevControl /\ rawcounts' = rawcounts /\ queued' = queued
      /\ position' \in position - Speed .. position + Speed
  BY DEF Answer, linkVars
<1>2. \/ armed' = armed /\ latchAt' = latchAt /\ due' = due
      \/ /\ armed' = "none" /\ armed # "none" /\ latchAt' = position'
         /\ due' = IF due = "no" THEN "one" ELSE due
  BY DEF Answer
<1>3. /\ ReadDone' = ReadDone /\ ReadDone = sameCycle /\ ~Turned /\ Turned'
      /\ sameCycle => phase' = "write"
      /\ phase' # "await"
  BY <1>1 DEF ReadDone, Turned, After, Kinds
<1>4. Below' /\ Newest' /\ Retold' /\ Queued'
  BY <1>1, <1>3 DEF Followed, Below, Newest, Retold, Queued
<1>5. Synced'
  BY <1>1, <1>2 DEF Followed, Synced, Told
<1>6. Levels'
  <2>1. prevControl' = "probe" => FirmwareProbe
    BY <1>1 DEF Followed, Levels
  <2>2. QED
    BY <1>1, <1>3, <2>1, AnswerPins DEF Levels
<1>7. Owed'
  <2>1. ASSUME Told, prevControl # "none", armed = "none"
        PROVE  due # "no" \/ (ReadDone /\ ~Pin(prevControl)')
    <3>1. due # "no" \/ (ReadDone /\ ~Pin(prevControl))
      BY <2>1 DEF Followed, Owed
    <3>2. ReadDone => Level(prevControl)
      BY <1>1, <1>3, <2>1 DEF Followed, Levels
    <3>3. prevControl \in Latches
      BY DEF Kinds
    <3>4. QED
      BY <1>1, <3>1, <3>2, <3>3, AnswerPins DEF Pin
  <2>2. CASE armed' = armed /\ due' = due
    BY <1>1, <1>3, <2>1, <2>2 DEF Owed, Told, Pin
  <2>3. CASE due' = IF due = "no" THEN "one" ELSE due
    <3>1. CASE armed = "none"
      BY <1>2, <1>3, <1>1, <2>1, <2>2, <3>1 DEF Owed, Told, Pin
    <3>2. CASE armed # "none"
      BY <1>2, <2>2, <2>3, <3>2 DEF Owed, Told
    <3>3. QED
      BY <3>1, <3>2
  <2>4. QED
    BY <1>2, <2>2, <2>3
<1>8. Window'
  <2>1. PICK n \in Nat, low \in Int : n * Step <= errors /\ Spans(low, n)
    BY DEF Followed, Window
  <2>2. Reach(n) = n * Speed /\ Reach(n)' = n * Speed + Speed /\ n * Speed \in Nat
    BY <1>3, Products DEF Reach
  <2>3. PICK bottom \in Int :
          /\ bottom <= low /\ low <= bottom + Speed
          /\ bottom <= position' /\ position' <= bottom + (n * Speed + Speed)
    <3>1. /\ low <= position /\ position <= low + n * Speed
          /\ position' \in Int /\ position - Speed <= position'
          /\ position' <= position + Speed /\ position \in Int /\ Speed \in Nat
      BY <1>1, <2>1, <2>2, Numbers DEF Spans, Inside, Kinds
    <3>2. CASE position' >= position
      BY <2>2, <3>1, <3>2
    <3>3. CASE position' < position
      <4>1. low - Speed \in Int
        BY <3>1
      <4>2. /\ low - Speed <= low /\ low <= (low - Speed) + Speed
            /\ low - Speed <= position'
            /\ position' <= (low - Speed) + (n * Speed + Speed)
        BY <2>2, <3>1, <3>3
      <4>3. QED
        BY <4>1, <4>2
    <3>4. QED
      BY <3>1, <3>2, <3>3
  <2>4. ASSUME NEW x \in Int, Inside(x, low, n)
        PROVE  bottom <= x /\ x <= bottom + (n * Speed + Speed)
    BY <2>2, <2>3, <2>4, Numbers DEF Inside
  <2>5. rawcounts \in Int /\ \A i \in DOMAIN air : air[i].status.at \in Int
    <3>1. \A i \in DOMAIN air : air[i] \in Replies
      BY DEF Kinds
    <3>2. QED
      BY <3>1 DEF Kinds, Replies, Statuses
  <2>6. Inside(rawcounts, bottom, n)' /\ Inside(position, bottom, n)'
    BY <1>1, <2>1, <2>2, <2>3, <2>4, <2>5 DEF Spans, Inside
  <2>7. (\A i \in DOMAIN air : Inside(air[i].status.at, bottom, n))'
    BY <1>1, <2>1, <2>2, <2>4, <2>5 DEF Spans, Inside
  <2>8. (Caught => latchAt # None /\ Inside(latchAt, bottom, n))'
    <3>1. CASE latchAt' = position'
      <4>1. position' \in Int
        BY <1>1, Numbers DEF Kinds
      <4>2. QED
        BY <2>2, <2>3, <3>1, <4>1, Numbers DEF Inside
    <3>2. CASE armed' = armed /\ latchAt' = latchAt /\ due' = due
      <4>1. Caught' => Caught /\ latchAt # None /\ Inside(latchAt, low, n) /\ latchAt \in Int
        BY <1>1, <2>1, <3>2 DEF Spans, Caught, Kinds
      <4>2. QED
        BY <2>2, <2>4, <3>2, <4>1 DEF Inside
    <3>3. QED
      BY <1>2, <3>1, <3>2
  <2>9. QED
    BY <1>1, <2>1, <2>6, <2>7, <2>8 DEF Window, Spans
<1>9. QED
  BY <1>4, <1>5, <1>6, <1>7, <1>8 DEF Followed

(* A write that arrives arms the card as it was told, or leaves it as it   *)
(* was told before.                                                        *)
LEMMA WriteFollowed ==
  ASSUME Kinds, Followed, NEW arrives \in BOOLEAN, Write(arrives)
  PROVE  Followed'
<1>1. /\ phase = "write" /\ phase' = After("write") /\ sameCycle' = sameCycle
      /\ air' = Behind(air) /\ acked' = arrives /\ errors' = errors
      /\ indexEnable' = indexEnable /\ latchEnable' = latchEnable /\ levels' = levels
      /\ rawcounts' = rawcounts /\ position' = position /\ queued' = FALSE
  BY DEF Write, SendPacket, pins
<1>2. /\ Rewritten => prevControl' = Control
      /\ ~Rewritten => prevControl' = prevControl /\ due' = due
      /\ ~Rewritten \/ ~arrives => armed' = armed /\ latchAt' = latchAt
      /\ Rewritten /\ arrives => armed' = Control
  BY DEF Write, Rewritten, Arm
<1>3. ~Rewritten => Control = prevControl /\ acked /\ Told
  BY <1>1 DEF Rewritten, Changed, Followed, Retold, ReadDone, Told
<1>4. /\ ~ReadDone' /\ (Turned' <=> Turned)
      /\ ReadDone
  BY <1>1 DEF ReadDone, Turned, After, Kinds
<1>5. /\ Control = "index" => levels.index /\ indexEnable
      /\ Control = "probe" => levels.latch /\ latchEnable /\ FirmwareProbe
  BY DEF Control, Followed, Levels
<1>6. /\ \A i \in DOMAIN air' : ~air'[i].acked /\ i \in DOMAIN air
      /\ \A i \in DOMAIN air' : air'[i].status = air[i].status
  BY <1>1, MarkedReplies DEF Kinds
<1>7. Below' /\ Newest' /\ Retold' /\ Queued'
  BY <1>1, <1>4, <1>6 DEF Followed, Below, Newest, Retold, Queued
<1>8. Synced'
  BY <1>1, <1>2, <1>3 DEF Followed, Synced, Told
<1>9. acked' /\ prevControl' # "none" /\ armed' = "none" =>
        /\ ~Rewritten /\ acked /\ prevControl # "none" /\ armed = "none"
        /\ due' = due /\ latchAt' = latchAt
  BY <1>1, <1>2, <1>3
<1>10. Owed'
  <2>1. ASSUME ~Rewritten, acked, prevControl # "none", armed = "none" PROVE due # "no"
    <3>1. Pin(prevControl)
      BY <1>3, <1>5, <2>1 DEF Pin, Kinds, Latches
    <3>2. QED
      BY <1>3, <2>1, <3>1 DEF Followed, Owed
  <2>2. QED
    BY <1>9, <2>1 DEF Owed, Told
<1>11. Levels'
  <2>1. prevControl' = Control \/ prevControl' = prevControl
    BY <1>2
  <2>2. prevControl' = Control
    BY <1>2, <1>3
  <2>3. Control # "none" => Level(Control)
    BY <1>5 DEF Level, Control
  <2>4. (indexEnable => levels.index) /\ (latchEnable => levels.latch)
    BY DEF Followed, Levels
  <2>5. QED
    BY <1>1, <1>5, <2>2, <2>3, <2>4 DEF Levels, Level
<1>12. Window'
  <2>1. PICK n \in Nat, low \in Int : n * Step <= errors /\ Spans(low, n)
    BY DEF Followed, Window
  <2>2. Reach(n)' = Reach(n)
    BY <1>4 DEF Reach
  <2>3. Caught' => Caught /\ latchAt' = latchAt
    BY <1>9 DEF Caught
  <2>4. Spans(low, n)'
    BY <1>1, <1>6, <2>1, <2>2, <2>3 DEF Spans, Inside
  <2>5. QED
    BY <1>1, <2>1, <2>4 DEF Window
<1>13. QED
  BY <1>7, <1>8, <1>10, <1>11, <1>12 DEF Followed

-----------------------------------------------------------------------------
LEMMA InitInv == Init => IInv
<1> SUFFICES ASSUME Init PROVE Followed
  BY KindsInit DEF IInv
<1>1. /\ phase = "control" /\ air = <<>> /\ acked = TRUE /\ errors = 0
      /\ prevControl = "none" /\ armed = "none" /\ position = rawcounts /\ rawcounts \in Int
      /\ ~indexEnable /\ ~latchEnable /\ ~queued
  BY KindsInit DEF Init, LinkInit, Kinds
<1>2. Below /\ Newest /\ Retold /\ Queued /\ Synced /\ Owed /\ Levels
  BY <1>1 DEF Below, Newest, Retold, Queued, Synced, Owed, Levels
<1>3. Window
  <2>1. ~Turned /\ 0 * Step = 0 /\ 0 * Speed = 0
    BY <1>1, Numbers DEF Turned
  <2>2. Reach(0) = 0
    BY <2>1 DEF Reach
  <2>3. Spans(rawcounts, 0)
    BY <1>1, <2>2 DEF Spans, Inside, Caught
  <2>4. QED
    BY <1>1, <2>1, <2>3 DEF Window
<1>4. QED
  BY <1>2, <1>3 DEF Followed

LEMMA NextInv == ASSUME SlowEnough, IInv, [Next]_vars PROVE IInv'
<1>1. Kinds /\ Kinds'
  BY KindsNext DEF IInv
<1> SUFFICES ASSUME ~ioError' PROVE Followed'
  BY <1>1 DEF IInv
<1>2. CASE UNCHANGED vars
  <2>1. ~ioError
    BY <1>2 DEF vars, linkVars
  <2>2. Followed
    BY <2>1 DEF IInv
  <2>3. Below' /\ Newest' /\ Retold' /\ Queued' /\ Synced' /\ Owed' /\ Levels'
    BY <1>2, <2>2 DEF vars, linkVars, pins, driver, card, Followed, Below, Newest, Retold,
                      Queued, Synced, Owed, Told, Levels, Level, Pin, ReadDone, Words
  <2>4. Window'
    BY <1>2, <2>2 DEF vars, linkVars, pins, driver, card, Followed, Window, Spans, Inside,
                      Caught, Reach, Turned
  <2>5. QED
    BY <2>3, <2>4 DEF Followed
<1>3. CASE ReadNothing \/ WriteNothing
  BY <1>3 DEF ReadNothing, WriteNothing, linkVars
<1>4. ~ioError => Followed
  BY DEF IInv
<1>5. CASE ReadRequest
  BY <1>1, <1>4, <1>5, RequestFollowed DEF ReadRequest
<1>6. CASE ReadTimeout
  <2>1. ~ioError
    BY <1>6 DEF ReadTimeout, Timeout, SoftError
  <2>2. QED
    BY <1>1, <1>4, <1>6, <2>1, TimeoutFollowed
<1>7. CASE ReadSkip
  <2>1. ~ioError
    BY <1>7 DEF ReadSkip, SkipOlder
  <2>2. QED
    BY <1>1, <1>4, <1>7, <2>1, SkipFollowed
<1>8. CASE ReadReply
  <2>1. ~ioError
    BY <1>1, <1>8, Taken DEF GoodPacket, SoftError
  <2>2. QED
    BY <1>1, <1>4, <1>8, <2>1, ReplyFollowed
<1>9. CASE Answer
  <2>1. ~ioError
    BY <1>9 DEF Answer, linkVars
  <2>2. QED
    BY <1>1, <1>4, <1>9, <2>1, AnswerFollowed
<1>10. ASSUME NEW arrives \in BOOLEAN, Write(arrives) PROVE Followed'
  <2>1. ~ioError
    BY <1>10 DEF Write
  <2>2. QED
    BY <1>1, <1>4, <1>10, <2>1, WriteFollowed
<1>11. QED
  BY <1>2, <1>3, <1>5, <1>6, <1>7, <1>8, <1>9, <1>10 DEF Next

LEMMA Invariant == ASSUME SlowEnough PROVE Spec => []IInv
<1>1. Init => IInv
  BY InitInv
<1>2. IInv /\ [Next]_vars => IInv'
  BY NextInv
<1>3. QED
  BY <1>1, <1>2, PTL DEF Spec

(* A step that uses a reply is the read's. *)
LEMMA UseIsReply ==
  ASSUME IInv, [Next]_vars, Used
  PROVE  ReadReply /\ ~ioError' /\ Kinds /\ Followed
<1>1. /\ phase = "await" /\ phase' # "await" /\ air' # air /\ ~ioError'
  BY DEF Used
<1>2. Kinds /\ (~ioError => Followed)
  BY DEF IInv
<1>3. ReadReply
  BY <1>1 DEF Next, vars, linkVars, ReadNothing, ReadRequest, ReadTimeout, Timeout, ReadSkip,
              Answer, WriteNothing, Write
<1>4. ~ioError
  BY <1>1, <1>2, <1>3, Taken DEF GoodPacket, SoftError
<1>5. QED
  BY <1>1, <1>2, <1>3, <1>4

(* hal_extend_counter: on an axis slow enough for the register the count   *)
(* is the axis's position when the reply was made, however many packets    *)
(* were lost or late before.                                               *)
THEOREM CountIsTheAxis == ASSUME SlowEnough PROVE Spec => CountFollows
<1>1. IInv /\ [Next]_vars => [Used => rawcounts' = Head(air).status.at]_vars
  BY UseIsReply, ReplyTells
<1>2. QED
  BY <1>1, Invariant, PTL DEF Spec, CountFollows

(* hm2_encoder_process_tram_read: an event reported by a read that         *)
(* confirms the last write, and does not itself change what is asked, is   *)
(* one the card had since it was asked for, at the position it had it.     *)
THEOREM EventsAreReal == ASSUME SlowEnough PROVE Spec => EventIsReal
<1>1. ASSUME IInv, [Next]_vars, Used, Head(air).acked, prevControl' = prevControl,
             event'.kind # "none"
      PROVE  due # "no" /\ event'.at = latchAt
  <2>1. ReadReply /\ ~ioError' /\ Kinds /\ Followed
    BY <1>1, UseIsReply
  <2>2. Head(air).status = Words
    BY <1>1, <2>1, ReplyTells
  <2>3. Process(Words)
    BY <2>1, <2>2, Taken
  <2>4. Reported(Words) # "none" /\ Asked = prevControl
    BY <1>1, <2>3 DEF Process, NoEvent
  <2>5. QED
    BY <1>1, <2>1, <2>4, ReplyTells DEF Caught
<1>2. IInv /\ [Next]_vars =>
        [Used /\ Head(air).acked /\ UNCHANGED prevControl /\ event'.kind # "none" =>
           RealEvent]_vars
  BY <1>1 DEF RealEvent
<1>3. QED
  BY <1>2, Invariant, PTL DEF Spec, EventIsReal
=============================================================================
