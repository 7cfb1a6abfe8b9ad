---------------------------- MODULE Board_proofs ----------------------------
(***************************************************************************)
(* The period of the driver over the link, for every limit and every step  *)
(* of the error counter, both orders of a period and every number of late  *)
(* replies: a silent link is given up in time, a good read is the newest,  *)
(* what is confirmed is in step, and no bite is cleared behind the         *)
(* control's back.                                                         *)
(***************************************************************************)
EXTENDS Board, TLAPS

Replies == [age : {0, 1}, acked : BOOLEAN, status : BOOLEAN]

(* What a silent read costs. *)
Step == AtLeastOne(ErrorIncrement)

(* Until io_error is set the counter holds what the silent reads cost; and *)
(* at its limit, with io_error cleared, no read was silent since.          *)
CostCounted ==
  ~ioError => /\ silent * Step <= errors
              /\ errors = ErrorLimit => silent = 0

(* A reply is waited for only while the link is trusted, and the counter   *)
(* of an error that was cleared was reset before.                          *)
Trusted == phase = "await" => ~ioError /\ (errors = ErrorLimit => ErrorLimit = 0)

IInv == TypeOK /\ CostCounted /\ Trusted

(* Numbers the code forces to be one at least. *)
LEMMA StepPositive == Step \in Nat /\ Step >= 1 /\ AtLeastOne(ErrorDecrement) \in Nat
  BY EthAssumption DEF Step, AtLeastOne

LEMMA CostOfOneMore ==
  ASSUME NEW n \in Nat
  PROVE  (n + 1) * Step = n * Step + Step /\ n * Step \in Nat
  <1>1. Step \in Nat
    BY StepPositive
  <1> QED
    BY <1>1

LEMMA NoCost == 0 * Step = 0
  BY StepPositive

(* record_soft_error and decrement_soft_error keep the counter in bounds. *)
LEMMA RaisedBound ==
  ASSUME errors \in 0 .. ErrorLimit
  PROVE  /\ Raised \in 0 .. ErrorLimit
         /\ Raised < ErrorLimit => Raised = errors + Step
  BY StepPositive, EthAssumption DEF Raised, Step

LEMMA LoweredBound ==
  ASSUME errors \in 0 .. ErrorLimit
  PROVE  (IF Lowered < 0 THEN 0 ELSE Lowered) \in 0 .. ErrorLimit
  BY StepPositive, EthAssumption DEF Lowered

(* Marking the replies on their way keeps what they are. *)
LEMMA MarkedReplies ==
  ASSUME NEW replies \in Seq(Replies)
  PROVE  /\ Older(replies) \in Seq(Replies) /\ Len(Older(replies)) = Len(replies)
         /\ Behind(replies) \in Seq(Replies) /\ Len(Behind(replies)) = Len(replies)
  <1>1. \A r \in Replies : Aged(r) \in Replies /\ Outdated(r) \in Replies
    BY DEF Aged, Outdated, Replies
  <1>2. replies \in [1 .. Len(replies) -> Replies] /\ Len(replies) \in Nat
    OBVIOUS
  <1>3. Older(replies) \in [1 .. Len(replies) -> Replies]
    BY <1>1, <1>2 DEF Older
  <1>4. Behind(replies) \in [1 .. Len(replies) -> Replies]
    BY <1>1, <1>2 DEF Behind
  <1> QED
    BY <1>2, <1>3, <1>4

(* The phases after a read, a write, a publish and the control's turn. *)
LEMMA AfterPhases ==
  /\ After("read") \in Phases /\ After("write") \in Phases
  /\ After("publish") \in Phases /\ After("control") \in Phases
  BY DEF After, Phases

(* The counter and io_error through a soft error, where n reads were       *)
(* silent before it, and through a good packet.                            *)
LEMMA SoftErrorCost ==
  ASSUME TypeOK, CostCounted, SoftError, ~ioError, errors # ErrorLimit \/ ErrorLimit = 0
  PROVE  /\ errors' \in 0 .. ErrorLimit /\ ioError' \in BOOLEAN /\ softReset' \in BOOLEAN
         /\ ~ioError' => (silent + 1) * Step <= errors' /\ errors' < ErrorLimit
  <1>1. errors \in 0 .. ErrorLimit /\ silent \in Nat
    BY DEF TypeOK, LinkTypeOK
  <1>2. Raised \in 0 .. ErrorLimit /\ (Raised < ErrorLimit => Raised = errors + Step)
    BY <1>1, RaisedBound
  <1>3. (silent + 1) * Step = silent * Step + Step /\ silent * Step \in Nat
    BY <1>1, CostOfOneMore
  <1>4. silent * Step <= errors
    BY DEF CostCounted
  <1>5. errors' = Raised /\ softReset' = TRUE /\ ioError' = (ioError \/ errors' >= ErrorLimit)
    BY DEF SoftError
  <1>6. ASSUME ~ioError' PROVE (silent + 1) * Step <= errors' /\ errors' < ErrorLimit
    <2>1. ~(errors' >= ErrorLimit)
      BY <1>5, <1>6
    <2>2. errors' < ErrorLimit /\ errors' = errors + Step
      BY <2>1, <1>2, <1>5, EthAssumption
    <2> QED
      BY <2>2, <1>1, <1>3, <1>4, StepPositive
  <1> QED
    BY <1>2, <1>5, <1>6

LEMMA InitInv == Init => IInv
  <1> SUFFICES ASSUME Init PROVE IInv
    OBVIOUS
  <1>1. LinkTypeOK
    <2>1. air = <<>> /\ air \in Seq(Replies) /\ Len(air) = 0
      BY DEF Init, LinkInit
    <2>2. Len(air) <= MaxLate /\ errors \in 0 .. ErrorLimit
      BY <2>1, EthAssumption DEF Init, LinkInit
    <2>3. /\ link \in {"lossy", "good"} /\ acked \in BOOLEAN
          /\ ioError \in BOOLEAN /\ softReset \in BOOLEAN
      BY DEF Init, LinkInit
    <2> QED
      BY <2>1, <2>2, <2>3 DEF LinkTypeOK, Replies
  <1>2. phase \in Phases
    BY DEF Init, Phases
  <1>3. TypeOK
    <2>1. written \in Settings /\ setting \in Settings
      BY DEF Init
    <2>2. missed \in 0 .. EarliestBite /\ silent \in Nat
      BY BoardAssumption DEF Init
    <2>3. /\ hasBit \in BOOLEAN /\ needsReset \in BOOLEAN /\ bitten \in BOOLEAN
          /\ told \in BOOLEAN /\ clean \in BOOLEAN /\ bus \in {"OK", "LINK", "WATCHDOG"}
          /\ sameCycle \in BOOLEAN /\ forceEnqueue \in BOOLEAN
      BY DEF Init
    <2> QED
      BY <1>1, <1>2, <2>1, <2>2, <2>3 DEF TypeOK
  <1>4. CostCounted
    BY NoCost DEF Init, LinkInit, CostCounted
  <1>5. Trusted
    BY DEF Init, Trusted
  <1> QED
    BY <1>3, <1>4, <1>5 DEF IInv
(* Every step keeps the types and the cost of the silent reads.            *)
LEMMA NextInv == IInv /\ [Next]_vars => IInv'
  <1> SUFFICES ASSUME IInv, [Next]_vars PROVE IInv'
    OBVIOUS
  <1> USE DEF IInv
  <1>t. /\ link \in {"lossy", "good"} /\ air \in Seq(Replies) /\ Len(air) <= MaxLate
        /\ acked \in BOOLEAN /\ errors \in 0 .. ErrorLimit
        /\ ioError \in BOOLEAN /\ softReset \in BOOLEAN
    BY DEF TypeOK, LinkTypeOK, Replies
  <1>b. /\ phase \in Phases /\ hasBit \in BOOLEAN /\ needsReset \in BOOLEAN
        /\ written \in Settings /\ bus \in {"OK", "LINK", "WATCHDOG"}
        /\ bitten \in BOOLEAN /\ setting \in Settings /\ missed \in 0 .. EarliestBite
        /\ told \in BOOLEAN /\ clean \in BOOLEAN /\ silent \in Nat
    BY DEF TypeOK
  <1>1. CASE ReadNothing
    <2>1. TypeOK'
      BY <1>1, <1>t, <1>b, AfterPhases
         DEF ReadNothing, linkVars, setup, driver, board, history, TypeOK, LinkTypeOK, Replies
    <2>2. CostCounted' /\ Trusted'
      BY <1>1 DEF ReadNothing, linkVars, setup, history, CostCounted, Trusted, After
    <2> QED
      BY <2>1, <2>2
  <1>2. CASE ReadRequest
    <2>1. air' \in Seq(Replies) /\ Len(air') <= MaxLate
      <3>1. /\ Older(air) \in Seq(Replies) /\ Len(Older(air)) = Len(air)
            /\ [age |-> 0, acked |-> acked, status |-> bitten] \in Replies
        BY <1>t, <1>b, MarkedReplies DEF Replies
      <3>2. \/ air' = Older(air)
            \/ /\ Len(air) < MaxLate
               /\ air' = Append(Older(air), [age |-> 0, acked |-> acked, status |-> bitten])
        BY <1>2 DEF ReadRequest, SendRequest, RequestReply
      <3> QED
        BY <3>1, <3>2, EthAssumption, <1>t
    <2>2. errors' = (IF errors = ErrorLimit THEN 0 ELSE errors) /\ ~ioError /\ ~ioError'
      BY <1>2 DEF ReadRequest, SendRequest, Forgiven
    <2>3. TypeOK'
      BY <1>2, <1>t, <1>b, <2>1, <2>2, EthAssumption
         DEF ReadRequest, SendRequest, setup, driver, board, history, TypeOK, LinkTypeOK, Replies,
             Phases
    <2>4. silent' = silent /\ phase' = "await"
      BY <1>2 DEF ReadRequest, setup, history
    <2>5. CostCounted'
      <3>1. CASE errors = ErrorLimit
        <4>1. silent' = 0 /\ errors' = 0
          BY <3>1, <2>2, <2>4 DEF CostCounted
        <4> QED
          BY <4>1, NoCost DEF CostCounted
      <3>2. CASE errors # ErrorLimit
        BY <3>2, <2>2, <2>4 DEF CostCounted
      <3> QED
        BY <3>1, <3>2
    <2>6. Trusted'
      BY <2>2, <2>4 DEF Trusted
    <2> QED
      BY <2>3, <2>5, <2>6
  <1>3. CASE ReadTimeout
    <2>1. /\ errors' \in 0 .. ErrorLimit /\ ioError' \in BOOLEAN /\ softReset' \in BOOLEAN
          /\ ~ioError' => (silent + 1) * Step <= errors' /\ errors' < ErrorLimit
      BY <1>3, SoftErrorCost DEF ReadTimeout, Timeout, Trusted
    <2>2. TypeOK'
      BY <1>3, <1>t, <1>b, <2>1, AfterPhases
         DEF ReadTimeout, Timeout, setup, driver, board, TypeOK, LinkTypeOK, Replies
    <2>3. CostCounted'
      BY <1>3, <2>1, EthAssumption DEF ReadTimeout, CostCounted
    <2>4. Trusted'
      BY <1>3 DEF ReadTimeout, Trusted, After
    <2> QED
      BY <2>2, <2>3, <2>4
  <1>4. CASE ReadSkip
    <2>1. air' \in Seq(Replies) /\ Len(air') <= MaxLate
      BY <1>4, <1>t, EthAssumption DEF ReadSkip, SkipOlder
    <2>2. TypeOK'
      BY <1>4, <1>t, <1>b, <2>1
         DEF ReadSkip, SkipOlder, setup, driver, board, history, TypeOK, LinkTypeOK, Replies
    <2>3. CostCounted' /\ Trusted'
      BY <1>4 DEF ReadSkip, SkipOlder, setup, history, CostCounted, Trusted
    <2> QED
      BY <2>2, <2>3
  <1>5. CASE ReadReply
    <2>1. PICK reply \in {air[i] : i \in DOMAIN air} :
            /\ TakeReply(reply)
            /\ hasBit' = (hasBit \/ Notices(reply))
            /\ needsReset' = (needsReset \/ Notices(reply))
            /\ clean' = (Confirmed(reply) /\ reply.age = 0)
            /\ silent' = IF Confirmed(reply) THEN 0 ELSE silent + 1
      BY <1>5 DEF ReadReply
    <2>2. /\ phase = "await" /\ phase' = After("read") /\ ~ioError
          /\ UNCHANGED <<setup, written, bus, board, told, link, acked>>
      BY <1>5, <2>1 DEF ReadReply, TakeReply, Trusted
    <2>3. air' \in Seq(Replies) /\ Len(air') <= MaxLate
      BY <2>1, <1>t, EthAssumption DEF TakeReply
    <2>4. /\ errors' \in 0 .. ErrorLimit /\ ioError' \in BOOLEAN /\ softReset' \in BOOLEAN
          /\ ~ioError' => silent' * Step <= errors' /\ (errors' = ErrorLimit => silent' = 0)
      <3>1. CASE Confirmed(reply)
        <4>1. GoodPacket /\ silent' = 0
          BY <2>1, <3>1 DEF TakeReply
        <4>2. errors' \in 0 .. ErrorLimit /\ UNCHANGED <<ioError, softReset>>
          BY <4>1, <1>t, LoweredBound DEF GoodPacket
        <4>3. silent' * Step <= errors' /\ ioError' \in BOOLEAN /\ softReset' \in BOOLEAN
          BY <4>1, <4>2, <1>t, NoCost, EthAssumption
        <4> QED
          BY <4>1, <4>2, <4>3
      <3>2. CASE ~Confirmed(reply)
        <4>1. SoftError /\ silent' = silent + 1
          BY <2>1, <3>2 DEF TakeReply
        <4>2. errors # ErrorLimit \/ ErrorLimit = 0
          BY <2>2 DEF Trusted
        <4> QED
          BY <4>1, <4>2, <2>2, SoftErrorCost, EthAssumption
      <3> QED
        BY <3>1, <3>2
    <2>5. hasBit' \in BOOLEAN /\ needsReset' \in BOOLEAN /\ clean' \in BOOLEAN /\ silent' \in Nat
      BY <2>1, <1>b
    <2>6. TypeOK'
      BY <1>t, <1>b, <2>2, <2>3, <2>4, <2>5, AfterPhases
         DEF setup, board, TypeOK, LinkTypeOK, Replies
    <2>7. CostCounted' /\ Trusted'
      BY <2>2, <2>4 DEF CostCounted, Trusted, After
    <2> QED
      BY <2>6, <2>7
  <1>6. CASE WriteNothing
    <2>1. Missed \in 0 .. EarliestBite
      BY <1>b, BoardAssumption DEF Missed
    <2>2. TypeOK'
      <3>1. LinkTypeOK'
        BY <1>6, <1>t DEF WriteNothing, linkVars, LinkTypeOK, Replies
      <3>2. missed' \in 0 .. EarliestBite /\ clean' \in BOOLEAN /\ phase' \in Phases
        BY <1>6, <2>1, AfterPhases DEF WriteNothing
      <3> QED
        BY <1>6, <1>b, <3>1, <3>2 DEF WriteNothing, setup, driver, TypeOK
    <2>3. CostCounted' /\ Trusted'
      BY <1>6 DEF WriteNothing, linkVars, CostCounted, Trusted, After
    <2> QED
      BY <2>2, <2>3
  <1>7. CASE WriteChanges
    <2>1. PICK value \in Settings, arrives \in BOOLEAN :
            /\ SendPacket(arrives)
            /\ BoardGets(arrives, IF value = written THEN setting ELSE value, FALSE)
            /\ written' = value
      BY <1>7 DEF WriteChanges
    <2>2. /\ missed' \in 0 .. EarliestBite /\ setting' \in Settings
          /\ bitten' \in BOOLEAN /\ told' \in BOOLEAN /\ written' \in Settings
      BY <2>1, <1>b, BoardAssumption DEF BoardGets, Missed
    <2>3. air' \in Seq(Replies) /\ Len(air') <= MaxLate /\ acked' \in BOOLEAN
      BY <2>1, <1>t, MarkedReplies DEF SendPacket
    <2>4. TypeOK'
      BY <1>7, <1>t, <1>b, <2>2, <2>3, AfterPhases
         DEF WriteChanges, setup, TypeOK, LinkTypeOK, Replies
    <2>5. CostCounted' /\ Trusted'
      BY <1>7 DEF WriteChanges, CostCounted, Trusted, After
    <2> QED
      BY <2>4, <2>5
  <1>8. CASE WriteAll
    <2>1. PICK value \in Settings, all \in BOOLEAN, last \in BOOLEAN :
            /\ SendPacket(last)
            /\ BoardGets(all, value, TRUE)
            /\ written' = value
      BY <1>8 DEF WriteAll
    <2>2. /\ missed' \in 0 .. EarliestBite /\ setting' \in Settings
          /\ bitten' \in BOOLEAN /\ told' \in BOOLEAN /\ written' \in Settings
      BY <2>1, <1>b, BoardAssumption DEF BoardGets, Missed
    <2>3. air' \in Seq(Replies) /\ Len(air') <= MaxLate /\ acked' \in BOOLEAN
      BY <2>1, <1>t, MarkedReplies DEF SendPacket
    <2>4. TypeOK'
      BY <1>8, <1>t, <1>b, <2>2, <2>3, AfterPhases DEF WriteAll, setup, TypeOK, LinkTypeOK, Replies
    <2>5. CostCounted' /\ Trusted'
      BY <1>8 DEF WriteAll, CostCounted, Trusted, After
    <2> QED
      BY <2>4, <2>5
  <1>9. CASE Publish
    <2>1. TypeOK'
      BY <1>9, <1>t, <1>b, AfterPhases
         DEF Publish, BusState, linkVars, setup, driver, board, TypeOK, LinkTypeOK, Replies
    <2>2. CostCounted' /\ Trusted'
      BY <1>9 DEF Publish, linkVars, CostCounted, Trusted, After
    <2> QED
      BY <2>1, <2>2
  <1>10. CASE Control
    <2>1. /\ phase' = After("control") /\ UNCHANGED <<link, air, acked, errors, softReset>>
          /\ hasBit' \in BOOLEAN /\ ioError' \in BOOLEAN
          /\ silent' = IF ioError /\ ~ioError' THEN 0 ELSE silent
      BY <1>10, <1>t, <1>b DEF Control
    <2>2. TypeOK'
      BY <1>10, <1>t, <1>b, <2>1, AfterPhases DEF Control, setup, board, TypeOK, LinkTypeOK, Replies
    <2>3. CostCounted'
      <3>1. CASE ioError /\ ~ioError'
        BY <3>1, <2>1, <1>t, NoCost, EthAssumption DEF CostCounted
      <3>2. CASE ~(ioError /\ ~ioError')
        BY <3>2, <2>1 DEF CostCounted
      <3> QED
        BY <3>1, <3>2
    <2>4. Trusted'
      BY <2>1 DEF Trusted, After
    <2> QED
      BY <2>2, <2>3, <2>4
  <1>11. CASE Bite
    <2>1. TypeOK'
      BY <1>11, <1>t, <1>b DEF Bite, linkVars, setup, driver, history, TypeOK, LinkTypeOK, Replies
    <2>2. CostCounted' /\ Trusted'
      BY <1>11 DEF Bite, linkVars, setup, history, CostCounted, Trusted
    <2> QED
      BY <2>1, <2>2
  <1>12. CASE LinkHeals
    <2>1. TypeOK'
      BY <1>12, <1>t, <1>b
         DEF LinkHeals, Heal, setup, driver, board, history, TypeOK, LinkTypeOK, Replies
    <2>2. CostCounted' /\ Trusted'
      BY <1>12 DEF LinkHeals, Heal, setup, history, CostCounted, Trusted
    <2> QED
      BY <2>1, <2>2
  <1>13. CASE UNCHANGED vars
    <2>1. TypeOK'
      BY <1>13, <1>t, <1>b
         DEF vars, linkVars, setup, driver, board, history, TypeOK, LinkTypeOK, Replies
    <2>2. CostCounted' /\ Trusted'
      BY <1>13 DEF vars, linkVars, setup, history, CostCounted, Trusted
    <2> QED
      BY <2>1, <2>2
  <1> QED
    BY <1>1, <1>2, <1>3, <1>4, <1>5, <1>6, <1>7, <1>8, <1>9, <1>10, <1>11, <1>12, <1>13
       DEF Next, Period, Read, Write

-----------------------------------------------------------------------------
THEOREM Invariance == Spec => []IInv
  BY InitInv, NextInv, PTL DEF Spec

(* The types of the link, the driver and the board, and the error counter  *)
(* within its limit, whatever the packet-error-* parameters are            *)
(* (record_soft_error, decrement_soft_error).                              *)
THEOREM TypeCorrect == Spec => []TypeOK
  <1>1. IInv => TypeOK
    BY DEF IInv
  <1> QED
    BY <1>1, Invariance, PTL

(* A link that stays silent is given up as soon as its silence cost the    *)
(* limit, however errors and good packets alternated before                *)
(* (record_soft_error, hm2_eth_receive_queued_reads).                      *)
THEOREM GivesUp == Spec => []SilenceTold
  <1>1. IInv => SilenceTold
    <2> SUFFICES ASSUME IInv, silent > 0, silent * Step >= ErrorLimit, ~ioError PROVE FALSE
      BY DEF SilenceTold, Step
    <2>1. silent * Step <= errors /\ (errors = ErrorLimit => silent = 0)
      BY DEF IInv, CostCounted
    <2>2. errors \in 0 .. ErrorLimit /\ silent \in Nat
      BY DEF IInv, TypeOK, LinkTypeOK
    <2>3. silent * Step \in Nat
      BY <2>2, CostOfOneMore
    <2> QED
      BY <2>1, <2>2, <2>3, EthAssumption
  <1> QED
    BY <1>1, Invariance, PTL

-----------------------------------------------------------------------------
(* Where a write has been sent and not confirmed yet, and where a fault is *)
(* known and not published yet.                                            *)
Unread == phase \in IF sameCycle THEN {"read", "await"}
                                 ELSE {"publish", "control", "read", "await"}
Unpublished == phase \in IF sameCycle THEN {"publish"} ELSE {"write", "publish"}

(* A reply that bears the newest write number was asked for after the      *)
(* board had that write; in the same-cycle order by the newest request.    *)
AckedAreNewest == \A i \in DOMAIN air : air[i].acked => acked

OldAreBehind ==
  sameCycle =>
    /\ phase = "read" /\ ~ioError => \A i \in DOMAIN air : ~air[i].acked
    /\ phase = "await" => \A i \in DOMAIN air : air[i].age > 0 => ~air[i].acked

Numbers == AckedAreNewest /\ OldAreBehind

LEMMA Marks ==
  ASSUME NEW replies \in Seq(Replies)
  PROVE  /\ DOMAIN Older(replies) = DOMAIN replies /\ DOMAIN Behind(replies) = DOMAIN replies
         /\ \A i \in DOMAIN replies :
              /\ Older(replies)[i].acked = replies[i].acked
              /\ Behind(replies)[i].acked = FALSE
<1>1. \A i \in DOMAIN replies : replies[i] \in Replies
  OBVIOUS
<1> QED
  BY <1>1 DEF Older, Behind, Aged, Outdated, Replies

LEMMA NumbersInv == Spec => []Numbers
<1>1. Init => Numbers
  BY DEF Init, LinkInit, Numbers, AckedAreNewest, OldAreBehind
<1>2. IInv /\ Numbers /\ [Next]_vars => Numbers'
  <2> SUFFICES ASSUME IInv, Numbers, [Next]_vars PROVE Numbers'
    OBVIOUS
  <2>t. air \in Seq(Replies) /\ sameCycle \in BOOLEAN /\ phase \in Phases /\ acked \in BOOLEAN
    BY DEF IInv, TypeOK, LinkTypeOK, Replies
  <2> USE DEF Numbers, AckedAreNewest, OldAreBehind
  <2>1. CASE ReadRequest
    <3>1. /\ phase = "read" /\ ~ioError /\ phase' = "await" /\ acked' = acked
          /\ sameCycle' = sameCycle
          /\ \/ air' = Older(air)
             \/ air' = Append(Older(air), [age |-> 0, acked |-> acked, status |-> bitten])
      BY <2>1 DEF ReadRequest, SendRequest, RequestReply, setup
    <3>2. /\ Older(air) \in Seq(Replies) /\ DOMAIN Older(air) = DOMAIN air
          /\ \A i \in DOMAIN air : Older(air)[i].acked = air[i].acked
      BY <2>t, Marks, MarkedReplies
    <3>3. ASSUME NEW i \in DOMAIN air'
          PROVE  \/ i \in DOMAIN air /\ air'[i].acked = air[i].acked
                 \/ air'[i].age = 0 /\ air'[i].acked = acked
      BY <3>1, <3>2
    <3> QED
      BY <3>1, <3>3
  <2>2. CASE ReadSkip \/ ReadReply
    <3>1. /\ air # <<>> /\ air' = Tail(air) /\ acked' = acked /\ sameCycle' = sameCycle
          /\ phase = "await" /\ (phase' = "await" \/ phase' = After("read"))
      BY <2>2 DEF ReadSkip, SkipOlder, ReadReply, TakeReply, setup
    <3>2. \A i \in DOMAIN air' : i + 1 \in DOMAIN air /\ air'[i] = air[i + 1]
      BY <3>1, <2>t
    <3>3. phase' = "await" \/ phase' \notin {"read", "await"}
      BY <3>1 DEF After
    <3> QED
      BY <3>1, <3>2, <3>3
  <2>3. CASE WriteChanges \/ WriteAll
    <3>1. air' = Behind(air) /\ phase' = After("write") /\ sameCycle' = sameCycle
      BY <2>3 DEF WriteChanges, WriteAll, SendPacket, setup
    <3>2. \A i \in DOMAIN air' : air'[i].acked = FALSE
      BY <3>1, <2>t, Marks
    <3> QED
      BY <3>1, <3>2
  <2>4. CASE UNCHANGED <<air, acked, sameCycle>> /\ phase' \notin {"read", "await"}
    BY <2>4
  <2>5. CASE UNCHANGED <<air, acked, sameCycle, phase, ioError>>
    BY <2>5
  <2>6. CASE ReadNothing \/ ReadTimeout \/ Publish
    BY <2>4, <2>6 DEF ReadNothing, ReadTimeout, Timeout, Publish, After, linkVars, setup
  <2>7. CASE Bite \/ LinkHeals \/ UNCHANGED vars
    BY <2>5, <2>7 DEF Bite, LinkHeals, Heal, vars, linkVars, setup
  <2>8. CASE Control
    <3>1. UNCHANGED <<air, acked, sameCycle>> /\ phase' = After("control")
      BY <2>8 DEF Control, setup
    <3>2. sameCycle => phase' \notin {"read", "await"}
      BY <3>1 DEF After
    <3>3. phase' # "await"
      BY <3>1 DEF After
    <3> QED
      BY <3>1, <3>2, <3>3
  <2>9. CASE WriteNothing
    <3>1. /\ UNCHANGED <<air, acked, sameCycle, ioError>>
          /\ phase' = After("write") /\ ioError
      BY <2>9 DEF WriteNothing, linkVars, setup
    <3>2. phase' # "await"
      BY <3>1 DEF After
    <3> QED
      BY <3>1, <3>2
  <2> QED
    BY <2>1, <2>2, <2>3, <2>6, <2>7, <2>8, <2>9 DEF Next, Period, Read, Write
<1> QED
  BY <1>1, <1>2, Invariance, PTL DEF Spec

(* In the same-cycle order the reply a read counts as good is the one to   *)
(* its own request: every older one bears an older write number            *)
(* (hm2_eth_receive_queued_reads, hm2_eth_send_queued_writes).             *)
THEOREM GoodReadIsNewest == Spec => GoodIsNewest
<1>1. IInv /\ Numbers /\ [Next]_vars
        => (sameCycle /\ phase = "await" /\ phase' # "await" /\ silent' = 0 => Head(air).age = 0)
  <2> SUFFICES ASSUME IInv, Numbers, [Next]_vars,
                      sameCycle, phase = "await", phase' # "await", silent' = 0
               PROVE  Head(air).age = 0
    OBVIOUS
  <2>t. air \in Seq(Replies) /\ silent \in Nat
    BY DEF IInv, TypeOK, LinkTypeOK, Replies
  <2>1. ReadTimeout \/ ReadReply
    BY DEF Next, Period, Read, Write, ReadNothing, ReadRequest, ReadSkip, Publish, Control,
       WriteNothing, WriteChanges, WriteAll, Bite, LinkHeals, vars
  <2>2. ~ReadTimeout
    BY <2>t DEF ReadTimeout
  <2>3. PICK reply : /\ air # <<>> /\ reply = Head(air)
                     /\ silent' = IF Confirmed(reply) THEN 0 ELSE silent + 1
    BY <2>1, <2>2 DEF ReadReply, TakeReply
  <2>4. reply.acked
    BY <2>3, <2>t DEF Confirmed
  <2>5. 1 \in DOMAIN air /\ air[1] = reply /\ reply \in Replies
    BY <2>3, <2>t
  <2>6. ~(reply.age > 0)
    BY <2>4, <2>5 DEF Numbers, OldAreBehind
  <2> QED
    BY <2>3, <2>5, <2>6 DEF Replies
<1> QED
  BY <1>1, Invariance, NumbersInv, PTL DEF Spec, GoodIsNewest

-----------------------------------------------------------------------------
(* A setting that is not the driver's is one whose write is not confirmed  *)
(* yet, and no read has looked; or a soft reset is due; or the board waits *)
(* for one.                                                                *)
Agreed ==
  /\ ioError => softReset
  /\ clean => ~Unread
  /\ ~forceEnqueue /\ ~bitten /\ ~softReset /\ setting # written => ~acked /\ Unread

LEMMA OrderKept == [Next]_vars => UNCHANGED <<sameCycle, forceEnqueue>>
  BY DEF Next, Period, Read, Write, ReadNothing, ReadRequest, ReadTimeout, ReadSkip, ReadReply,
         WriteNothing, WriteChanges, WriteAll, Publish, Control, Bite, LinkHeals, vars, setup

(* The host or the control at its turn. *)
Kept(p) == phase = p /\ phase' = After(p)

LEMMA PhaseSteps ==
  ASSUME [Next]_vars
  PROVE  /\ phase = "await" => Unread
         /\ phase = "read" => Unread
         /\ phase = "write" => ~Unread
         /\ phase' = After("read") => ~Unread'
         /\ phase' = After("write") => Unread'
         /\ Kept("publish") \/ Kept("control") => Unread' = Unread
<1>1. sameCycle' = sameCycle
  BY OrderKept
<1>2. CASE sameCycle
  BY <1>1, <1>2 DEF Unread, After, Kept
<1>3. CASE ~sameCycle
  BY <1>1, <1>3 DEF Unread, After, Kept
<1> QED
  BY <1>2, <1>3

LEMMA AgreedInv == Spec => []Agreed
<1>1. Init => Agreed
  BY DEF Init, LinkInit, Agreed
<1>2. IInv /\ Numbers /\ Agreed /\ [Next]_vars => Agreed'
  <2> SUFFICES ASSUME IInv, Numbers, Agreed, [Next]_vars PROVE Agreed'
    OBVIOUS
  <2>t. /\ ioError \in BOOLEAN /\ softReset \in BOOLEAN /\ clean \in BOOLEAN /\ bitten \in BOOLEAN
        /\ acked \in BOOLEAN /\ forceEnqueue \in BOOLEAN /\ sameCycle \in BOOLEAN
    BY DEF IInv, TypeOK, LinkTypeOK
  <2> USE DEF Agreed
  <2>1. CASE ReadNothing
    <3>1. /\ UNCHANGED <<ioError, softReset, forceEnqueue, bitten, setting, written, acked>>
          /\ ioError /\ phase' = After("read")
      BY <2>1 DEF ReadNothing, linkVars, setup, driver, board
    <3> QED
      BY <3>1, PhaseSteps
  <2>2. CASE ReadRequest \/ ReadSkip
    <3>1. /\ UNCHANGED <<ioError, softReset, forceEnqueue, bitten, setting, written, acked, clean>>
          /\ Unread /\ Unread'
      BY <2>2, PhaseSteps
         DEF ReadRequest, SendRequest, ReadSkip, SkipOlder, setup, driver, board, history, Unread
    <3> QED
      BY <3>1
  <2>3. CASE ReadTimeout
    <3>1. softReset' = TRUE /\ phase' = After("read")
      BY <2>3 DEF ReadTimeout, Timeout, SoftError
    <3> QED
      BY <3>1, PhaseSteps
  <2>4. CASE ReadReply
    <3>1. PICK reply : /\ reply \in {air[i] : i \in DOMAIN air} /\ phase' = After("read")
                       /\ UNCHANGED <<forceEnqueue, bitten, setting, written, acked>>
                       /\ IF Confirmed(reply) THEN GoodPacket ELSE SoftError
      BY <2>4 DEF ReadReply, TakeReply, setup, board
    <3>2. CASE ~Confirmed(reply)
      <4>1. softReset' = TRUE
        BY <3>1, <3>2 DEF SoftError
      <4> QED
        BY <3>1, <4>1, PhaseSteps
    <3>3. CASE Confirmed(reply)
      <4>1. acked /\ UNCHANGED <<ioError, softReset>>
        BY <3>1, <3>3 DEF Confirmed, GoodPacket, Numbers, AckedAreNewest
      <4> QED
        BY <3>1, <4>1, PhaseSteps
    <3> QED
      BY <3>2, <3>3
  <2>5. CASE WriteNothing
    <3>1. /\ UNCHANGED <<ioError, softReset>> /\ ioError /\ clean' = FALSE
      BY <2>5 DEF WriteNothing, linkVars
    <3> QED
      BY <3>1
  <2>6. CASE WriteChanges
    <3>1. PICK value \in Settings, arrives \in BOOLEAN :
            /\ acked' = arrives
            /\ BoardGets(arrives, IF value = written THEN setting ELSE value, FALSE)
            /\ written' = value
      BY <2>6 DEF WriteChanges, SendPacket
    <3>2. /\ ~Unread /\ Unread' /\ clean' = FALSE /\ ~ioError
          /\ UNCHANGED <<ioError, softReset, forceEnqueue>>
      BY <2>6, PhaseSteps DEF WriteChanges, setup
    <3>3. bitten' = bitten /\ (arrives => setting' = IF value = written THEN setting ELSE value)
      BY <3>1, <2>t DEF BoardGets
    <3> QED
      BY <3>1, <3>2, <3>3
  <2>7. CASE WriteAll
    <3>1. PICK value \in Settings, all \in BOOLEAN, last \in BOOLEAN :
            /\ forceEnqueue \/ all = last
            /\ acked' = last /\ BoardGets(all, value, TRUE) /\ written' = value
      BY <2>7 DEF WriteAll, SendPacket
    <3>2. Unread' /\ clean' = FALSE /\ ~ioError /\ UNCHANGED <<ioError, forceEnqueue>>
      BY <2>7, PhaseSteps DEF WriteAll, setup
    <3>3. all => setting' = value
      BY <3>1 DEF BoardGets
    <3> QED
      BY <3>1, <3>2, <3>3, <2>t
  <2>8. CASE Publish
    <3>1. /\ UNCHANGED <<ioError, softReset, forceEnqueue, bitten, setting, written, acked, clean>>
          /\ Unread' = Unread
      BY <2>8, PhaseSteps DEF Kept, Publish, linkVars, setup, driver, board
    <3> QED
      BY <3>1
  <2>9. CASE Control
    <3>1. /\ UNCHANGED <<softReset, forceEnqueue, bitten, setting, written, acked, clean>>
          /\ ioError' \in {ioError, FALSE}
      BY <2>9 DEF Control, setup, board
    <3>2. Unread' = Unread
      BY <2>9, PhaseSteps DEF Control, Kept
    <3>3. ioError' => ioError
      BY <3>1
    <3>4. softReset' = softReset
      BY <3>1
    <3>5. (ioError => softReset)'
      BY <3>3, <3>4
    <3>6. (clean => ~Unread)'
      BY <3>1, <3>2
    <3>7. (~forceEnqueue /\ ~bitten /\ ~softReset /\ setting # written => ~acked /\ Unread)'
      BY <3>1, <3>2
    <3> QED
      BY <3>5, <3>6, <3>7
  <2>10. CASE Bite
    <3>1. /\ UNCHANGED <<ioError, softReset, clean>> /\ bitten' = TRUE /\ Unread' = Unread
      BY <2>10 DEF Bite, linkVars, setup, history, Unread
    <3> QED
      BY <3>1
  <2>11. CASE LinkHeals \/ UNCHANGED vars
    <3>1. /\ UNCHANGED <<ioError, softReset, forceEnqueue, bitten, setting, written, acked, clean>>
          /\ Unread' = Unread
      BY <2>11 DEF LinkHeals, Heal, vars, linkVars, setup, driver, board, history, Unread
    <3> QED
      BY <3>1
  <2> QED
    BY <2>1, <2>2, <2>3, <2>4, <2>5, <2>6, <2>7, <2>8, <2>9, <2>10, <2>11
       DEF Next, Period, Read, Write
<1> QED
  BY <1>1, <1>2, Invariance, NumbersInv, PTL DEF Spec

(* Registers written on change and confirmed are what the board has.       *)
THEOREM SettingsInSync == Spec => []InSync
<1>1. Agreed => InSync
  BY DEF Agreed, InSync
<1> QED
  BY <1>1, AgreedInv, PTL

-----------------------------------------------------------------------------
(* A fault is published in the period it is found, before anything is      *)
(* written after it.                                                       *)
FaultTold == ioError /\ ~Unpublished => told

(* Until a fault was told, each write in a row that the board missed had a *)
(* read that failed, but for the newest, which no read has looked for.     *)
MissesCounted ==
  ~told /\ ~forceEnqueue =>
    /\ ~Unread => missed <= silent
    /\ Unread => missed <= silent + 1
    /\ Unread /\ missed > 0 /\ ~ioError => ~acked

(* A bite nobody was told of: the read that finds the link given up is to  *)
(* come, or a fault is to be published.                                    *)
NextReadFails == Unread /\ ~acked /\ (silent + 1) * Step >= ErrorLimit /\ ~ioError

BiteSeen ==
  ~forceEnqueue /\ bitten /\ ~told => NextReadFails \/ (Unpublished /\ (ioError \/ hasBit))

Warned == FaultTold /\ MissesCounted /\ BiteSeen

(* So many reads in a row without a confirmed reply raise io_error.        *)
LEMMA LinkGivenUp ==
  ASSUME IInv, silent > 0, silent * Step >= ErrorLimit
  PROVE  ioError
<1> SUFFICES ASSUME ~ioError PROVE FALSE
  OBVIOUS
<1>1. silent * Step <= errors /\ (errors = ErrorLimit => silent = 0)
  BY DEF IInv, CostCounted
<1>2. errors \in 0 .. ErrorLimit /\ silent \in Nat
  BY DEF IInv, TypeOK, LinkTypeOK
<1>3. silent * Step \in Nat
  BY <1>2, CostOfOneMore
<1> QED
  BY <1>1, <1>2, <1>3, EthAssumption

(* As many misses as the watchdog allows cost the limit.                   *)
LEMMA MissesCost ==
  ASSUME EarliestBite * Step >= ErrorLimit, NEW n \in Nat, n >= EarliestBite
  PROVE  n * Step >= ErrorLimit
<1>1. PICK k \in Nat : n = EarliestBite + k
  <2>1. n - EarliestBite \in Nat /\ n = EarliestBite + (n - EarliestBite)
    BY BoardAssumption
  <2> QED
    BY <2>1
<1>2. n * Step = EarliestBite * Step + k * Step /\ k * Step \in Nat /\ EarliestBite * Step \in Nat
  BY <1>1, StepPositive, BoardAssumption
<1> QED
  BY <1>2, EthAssumption

LEMMA WarnedPhases ==
  ASSUME [Next]_vars
  PROVE  /\ phase = "await" => ~Unpublished
         /\ phase = "read" => ~Unpublished
         /\ phase = "control" => ~Unpublished
         /\ phase' = After("read") => Unpublished'
         /\ phase = "write" /\ phase' = After("write") => Unpublished' = Unpublished
         /\ phase = "publish" => Unpublished
         /\ phase' = After("publish") => ~Unpublished'
         /\ phase' = After("control") => ~Unpublished'
<1>1. sameCycle' = sameCycle
  BY OrderKept
<1>2. CASE sameCycle
  BY <1>1, <1>2 DEF Unpublished, After
<1>3. CASE ~sameCycle
  BY <1>1, <1>3 DEF Unpublished, After
<1> QED
  BY <1>2, <1>3

(* io_error is told of at the publish that follows the read.               *)
LEMMA FaultToldStep ==
  ASSUME IInv, FaultTold, [Next]_vars
  PROVE  FaultTold'
<1>t. ioError \in BOOLEAN /\ told \in BOOLEAN
  BY DEF IInv, TypeOK, LinkTypeOK
<1> USE DEF FaultTold
<1>1. CASE ReadNothing \/ ReadTimeout \/ ReadReply
  <2>1. phase' = After("read")
    BY <1>1 DEF ReadNothing, ReadTimeout, ReadReply
  <2> QED
    BY <2>1, WarnedPhases
<1>2. CASE ReadRequest \/ ReadSkip
  <2>1. ~ioError /\ ioError' = ioError
    BY <1>2 DEF ReadRequest, SendRequest, ReadSkip, SkipOlder, IInv, Trusted
  <2> QED
    BY <2>1
<1>3. CASE WriteNothing
  <2>1. UNCHANGED <<ioError, told>> /\ phase = "write" /\ phase' = After("write")
    BY <1>3 DEF WriteNothing, linkVars
  <2> QED
    BY <2>1, WarnedPhases
<1>4. CASE WriteChanges \/ WriteAll
  <2>1. ~ioError /\ ioError' = ioError
    BY <1>4 DEF WriteChanges, WriteAll
  <2> QED
    BY <2>1
<1>5. CASE Publish
  <2>1. ioError' = ioError /\ bus' = BusState /\ told' = (told \/ bus' # "OK")
    BY <1>5 DEF Publish, linkVars
  <2>2. ioError => bus' = "LINK"
    BY <2>1 DEF BusState
  <2>3. ioError => told'
    BY <2>1, <2>2
  <2> QED
    BY <2>1, <2>3
<1>6. CASE Control
  <2>1. ioError' \in {ioError, FALSE} /\ told' = told /\ phase = "control"
    BY <1>6 DEF Control
  <2>2. ioError' => ioError
    BY <2>1
  <2> QED
    BY <2>1, <2>2, WarnedPhases
<1>7. CASE Bite \/ LinkHeals \/ UNCHANGED vars
  <2>1. UNCHANGED <<ioError, told, phase, sameCycle>>
    BY <1>7 DEF Bite, LinkHeals, Heal, vars, linkVars, setup, history
  <2> QED
    BY <2>1 DEF Unpublished
<1> QED
  BY <1>1, <1>2, <1>3, <1>4, <1>5, <1>6, <1>7 DEF Next, Period, Read, Write

(* A read looks for the write before it, and misses it or confirms it.     *)
LEMMA ReadOutcome ==
  ASSUME IInv, Numbers, ReadTimeout \/ ReadReply
  PROVE  /\ phase = "await" /\ phase' = After("read") /\ ~ioError
         /\ UNCHANGED <<setup, board, told, acked>>
         /\ \/ silent' = silent + 1
            \/ silent' = 0 /\ acked = TRUE
<1>1. /\ phase = "await" /\ phase' = After("read") /\ UNCHANGED <<setup, board, told, acked>>
  BY DEF ReadTimeout, Timeout, ReadReply, TakeReply
<1>2. ~ioError
  BY <1>1 DEF IInv, Trusted
<1>3. CASE ReadTimeout
  BY <1>1, <1>2, <1>3 DEF ReadTimeout
<1>4. CASE ReadReply
  <2>1. PICK reply \in {air[i] : i \in DOMAIN air} :
          silent' = IF Confirmed(reply) THEN 0 ELSE silent + 1
    BY <1>4 DEF ReadReply
  <2>2. Confirmed(reply) => acked
    BY DEF Confirmed, Numbers, AckedAreNewest
  <2>3. acked \in BOOLEAN
    BY DEF IInv, TypeOK, LinkTypeOK
  <2>4. CASE Confirmed(reply)
    BY <1>1, <1>2, <2>1, <2>2, <2>3, <2>4
  <2>5. CASE ~Confirmed(reply)
    BY <1>1, <1>2, <2>1, <2>5
  <2> QED
    BY <2>4, <2>5
<1> QED
  BY <1>3, <1>4

LEMMA MissesStep ==
  ASSUME IInv, Numbers, FaultTold, MissesCounted, [Next]_vars
  PROVE  MissesCounted'
<1> SUFFICES ASSUME ~told', ~forceEnqueue'
             PROVE  /\ ~Unread' => missed' <= silent'
                    /\ Unread' => missed' <= silent' + 1
                    /\ Unread' /\ missed' > 0 /\ ~ioError' => ~acked'
  BY DEF MissesCounted
<1>t. /\ missed \in Nat /\ silent \in Nat /\ EarliestBite \in Nat
      /\ told \in BOOLEAN /\ ioError \in BOOLEAN /\ acked \in BOOLEAN
  BY BoardAssumption DEF IInv, TypeOK, LinkTypeOK
<1>f. ~forceEnqueue
  BY OrderKept
<1>0. ~told => /\ ~Unread => missed <= silent
               /\ Unread => missed <= silent + 1
               /\ Unread /\ missed > 0 /\ ~ioError => ~acked
  BY <1>f DEF MissesCounted
<1>1. CASE ReadNothing
  <2>1. phase = "read" /\ ioError /\ told' = told
    BY <1>1 DEF ReadNothing, history
  <2> QED
    BY <2>1, WarnedPhases DEF FaultTold
<1>2. CASE ReadRequest \/ ReadSkip
  <2>1. UNCHANGED <<told, missed, silent, acked, ioError>> /\ Unread /\ Unread'
    BY <1>2, PhaseSteps
       DEF ReadRequest, SendRequest, ReadSkip, SkipOlder, setup, board, history, Unread
  <2> QED
    BY <1>0, <2>1
<1>3. CASE ReadTimeout \/ ReadReply
  <2>1. /\ phase = "await" /\ phase' = After("read") /\ ~ioError
        /\ UNCHANGED <<setup, board, told, acked>>
        /\ \/ silent' = silent + 1
           \/ silent' = 0 /\ acked = TRUE
    BY <1>3, ReadOutcome
  <2>2. Unread /\ ~Unread' /\ missed' = missed /\ ~told
    BY <2>1, PhaseSteps DEF board
  <2>3. CASE silent' = silent + 1
    BY <2>2, <2>3, <1>0
  <2>4. CASE silent' = 0 /\ acked = TRUE
    <3>1. ~(missed > 0)
      BY <2>1, <2>2, <2>4, <1>0
    <3> QED
      BY <3>1, <2>2, <2>4, <1>t
  <2> QED
    BY <2>1, <2>3, <2>4
<1>4. CASE WriteNothing
  <2>1. /\ phase = "write" /\ phase' = After("write") /\ ioError /\ ioError' = ioError
        /\ missed' = Missed /\ UNCHANGED <<told, silent>>
    BY <1>4 DEF WriteNothing, linkVars
  <2>2. ~Unread /\ Unread' /\ ~told /\ Missed <= missed + 1
    BY <2>1, <1>t, PhaseSteps DEF Missed
  <2>3. missed <= silent
    BY <2>2, <1>0
  <2>4. missed' <= silent' + 1
    BY <2>1, <2>2, <2>3, <1>t DEF Missed
  <2> QED
    BY <2>1, <2>2, <2>4
<1>5. CASE WriteChanges \/ WriteAll
  <2>1. PICK arrives \in BOOLEAN :
          /\ acked' = arrives
          /\ arrives => missed' = 0
          /\ ~arrives => missed' = Missed /\ told' = told
    <3>1. CASE WriteChanges
      <4>1. PICK value \in Settings, arrives \in BOOLEAN :
              /\ SendPacket(arrives)
              /\ BoardGets(arrives, IF value = written THEN setting ELSE value, FALSE)
        BY <3>1 DEF WriteChanges
      <4>2. acked' = arrives /\ missed' = (IF arrives THEN 0 ELSE Missed)
            /\ told' = (told /\ (bitten' \/ ~arrives))
        BY <4>1 DEF SendPacket, BoardGets
      <4>3. ~arrives => told' = told
        BY <4>2, <1>t
      <4> QED
        BY <4>2, <4>3
    <3>2. CASE WriteAll
      <4>1. PICK value \in Settings, all \in BOOLEAN, last \in BOOLEAN :
              (forceEnqueue \/ all = last) /\ SendPacket(last) /\ BoardGets(all, value, TRUE)
        BY <3>2 DEF WriteAll
      <4>2. acked' = all /\ missed' = (IF all THEN 0 ELSE Missed)
            /\ told' = (told /\ (bitten' \/ ~all))
        BY <4>1, <1>f DEF SendPacket, BoardGets
      <4>3. ~all => told' = told
        BY <4>2, <1>t
      <4> QED
        BY <4>2, <4>3
    <3> QED
      BY <1>5, <3>1, <3>2
  <2>2. phase = "write" /\ phase' = After("write") /\ silent' = silent
    BY <1>5 DEF WriteChanges, WriteAll
  <2>3. ~Unread /\ Unread'
    BY <2>2, PhaseSteps
  <2>4. CASE arrives
    <3>1. missed' = 0
      BY <2>1, <2>4
    <3> QED
      BY <3>1, <2>2, <2>3, <1>t
  <2>5. CASE ~arrives
    <3>1. missed' = Missed /\ told' = told /\ acked' = FALSE
      BY <2>1, <2>5
    <3>2. missed <= silent
      BY <3>1, <2>3, <1>0
    <3>3. missed' <= silent' + 1
      BY <3>1, <3>2, <2>2, <1>t DEF Missed
    <3> QED
      BY <3>1, <3>3, <2>3
  <2> QED
    BY <2>4, <2>5
<1>6. CASE Publish
  <2>1. UNCHANGED <<missed, silent, acked, ioError>> /\ ~told /\ Unread' = Unread
    BY <1>6, <1>t, PhaseSteps DEF Publish, Kept, linkVars, board
  <2> QED
    BY <2>1, <1>0
<1>7. CASE Control
  <2>1. /\ UNCHANGED <<missed, acked, told>> /\ phase = "control"
        /\ ioError' \in {ioError, FALSE}
        /\ silent' = IF ioError /\ ~ioError' THEN 0 ELSE silent
    BY <1>7 DEF Control, board
  <2>2. ~ioError
    BY <2>1, WarnedPhases DEF FaultTold
  <2>3. silent' = silent /\ ioError' = ioError /\ ~told
    BY <2>1, <2>2, <1>t
  <2>4. Unread' = Unread
    BY <1>7, PhaseSteps DEF Control, Kept
  <2> QED
    BY <2>1, <2>3, <2>4, <1>0
<1>8. CASE Bite \/ LinkHeals \/ UNCHANGED vars
  <2>1. UNCHANGED <<missed, silent, acked, ioError, told>> /\ Unread' = Unread
    BY <1>8 DEF Bite, LinkHeals, Heal, vars, linkVars, setup, history, board, Unread
  <2> QED
    BY <2>1, <1>0
<1> QED
  BY <1>1, <1>2, <1>3, <1>4, <1>5, <1>6, <1>7, <1>8 DEF Next, Period, Read, Write

LEMMA BiteSeenStep ==
  ASSUME EarliestBite * Step >= ErrorLimit,
         IInv, IInv', Numbers, FaultTold, MissesCounted, BiteSeen, [Next]_vars
  PROVE  BiteSeen'
<1> SUFFICES ASSUME ~forceEnqueue', bitten', ~told'
             PROVE  NextReadFails' \/ (Unpublished' /\ (ioError' \/ hasBit'))
  BY DEF BiteSeen
<1>t. /\ missed \in Nat /\ missed <= EarliestBite /\ silent \in Nat
      /\ EarliestBite \in Nat \ {0} /\ ErrorLimit \in Nat
      /\ told \in BOOLEAN /\ ioError \in BOOLEAN /\ acked \in BOOLEAN /\ bitten \in BOOLEAN
      /\ hasBit \in BOOLEAN
  BY BoardAssumption, EthAssumption DEF IInv, TypeOK, LinkTypeOK
<1>f. ~forceEnqueue
  BY OrderKept
<1>0. bitten /\ ~told => NextReadFails \/ (Unpublished /\ (ioError \/ hasBit))
  BY <1>f DEF BiteSeen
<1>1. CASE ReadNothing
  <2>1. /\ phase = "read" /\ ioError /\ UNCHANGED <<told, bitten>>
    BY <1>1 DEF ReadNothing, history, board
  <2> QED
    BY <2>1, WarnedPhases DEF FaultTold
<1>2. CASE ReadRequest \/ ReadSkip
  <2>1. /\ UNCHANGED <<told, bitten, silent, acked, ioError>> /\ Unread' /\ ~Unpublished
    BY <1>2, WarnedPhases
       DEF ReadRequest, SendRequest, ReadSkip, SkipOlder, setup, board, history, Unread
  <2>2. NextReadFails
    BY <2>1, <1>0
  <2> QED
    BY <2>1, <2>2 DEF NextReadFails
<1>3. CASE ReadTimeout \/ ReadReply
  <2>1. /\ phase = "await" /\ phase' = After("read")
        /\ UNCHANGED <<setup, board, told, acked>>
        /\ \/ silent' = silent + 1
           \/ silent' = 0 /\ acked = TRUE
    BY <1>3, ReadOutcome
  <2>2. Unpublished' /\ ~Unpublished /\ bitten /\ ~told
    BY <2>1, WarnedPhases DEF board
  <2>3. NextReadFails
    BY <2>2, <1>0
  <2>4. silent' = silent + 1
    BY <2>1, <2>3 DEF NextReadFails
  <2>5. silent' > 0 /\ silent' * Step >= ErrorLimit
    BY <2>3, <2>4, <1>t DEF NextReadFails
  <2>6. ioError'
    <3>1. silent' > 0 /\ silent' * Step >= ErrorLimit /\ ~ioError' => FALSE
      <4>1. ~ioError' => silent' * Step <= errors' /\ (errors' = ErrorLimit => silent' = 0)
        BY DEF IInv, CostCounted
      <4>2. errors' \in 0 .. ErrorLimit /\ silent' \in Nat
        BY DEF IInv, TypeOK, LinkTypeOK
      <4>3. silent' * Step \in Nat
        BY <4>2, CostOfOneMore
      <4> QED
        BY <4>1, <4>2, <4>3, EthAssumption
    <3> QED
      BY <2>5, <3>1
  <2> QED
    BY <2>2, <2>6
<1>4. CASE WriteNothing
  <2>1. /\ phase = "write" /\ phase' = After("write") /\ ioError /\ ioError' = ioError
        /\ UNCHANGED <<told, bitten>>
    BY <1>4 DEF WriteNothing, linkVars
  <2>2. Unpublished
    BY <2>1 DEF FaultTold
  <2> QED
    BY <2>1, <2>2, WarnedPhases
<1>5. CASE WriteChanges \/ WriteAll
  <2>1. /\ phase = "write" /\ phase' = After("write") /\ ~ioError
        /\ UNCHANGED <<ioError, hasBit>>
    BY <1>5 DEF WriteChanges, WriteAll
  <2>2. bitten /\ ~told
    <3>1. PICK value, clears \in BOOLEAN, arrives \in BOOLEAN :
            /\ bitten' = (bitten /\ ~(arrives /\ clears))
            /\ told' = (told /\ (bitten' \/ ~arrives))
      <4>1. CASE WriteChanges
        <5>1. PICK value \in Settings, arrives \in BOOLEAN :
                BoardGets(arrives, IF value = written THEN setting ELSE value, FALSE)
          BY <4>1 DEF WriteChanges
        <5> QED
          BY <5>1 DEF BoardGets
      <4>2. CASE WriteAll
        <5>1. PICK value \in Settings, all \in BOOLEAN : BoardGets(all, value, TRUE)
          BY <4>2 DEF WriteAll
        <5> QED
          BY <5>1 DEF BoardGets
      <4> QED
        BY <1>5, <4>1, <4>2
    <3>2. bitten
      BY <3>1
    <3>3. ~told
      BY <3>1
    <3> QED
      BY <3>2, <3>3
  <2>3. ~NextReadFails
    BY <2>1, PhaseSteps DEF NextReadFails
  <2>4. Unpublished /\ hasBit
    BY <2>1, <2>2, <2>3, <1>0
  <2> QED
    BY <2>1, <2>4, WarnedPhases
<1>6. CASE Publish
  <2>1. /\ UNCHANGED <<bitten, silent, acked, ioError, hasBit>>
        /\ bus' = BusState /\ told' = (told \/ bus' # "OK")
    BY <1>6 DEF Publish, linkVars, board, driver
  <2>2. bitten /\ ~told /\ bus' = "OK"
    BY <2>1
  <2>3. ~ioError /\ ~hasBit
    BY <2>1, <2>2 DEF BusState
  <2>4. NextReadFails
    BY <2>2, <2>3, <1>0
  <2>5. Unread' = Unread
    BY <1>6, PhaseSteps DEF Publish, Kept
  <2> QED
    BY <2>1, <2>4, <2>5 DEF NextReadFails
<1>7. CASE Control
  <2>1. /\ UNCHANGED <<bitten, acked, told>> /\ phase = "control"
        /\ ioError' \in {ioError, FALSE}
        /\ silent' = IF ioError /\ ~ioError' THEN 0 ELSE silent
    BY <1>7 DEF Control, board
  <2>2. ~Unpublished /\ NextReadFails
    BY <2>1, <1>0, WarnedPhases
  <2>3. silent' = silent /\ ioError' = ioError
    BY <2>1, <2>2, <1>t DEF NextReadFails
  <2>4. Unread' = Unread
    BY <1>7, PhaseSteps DEF Control, Kept
  <2> QED
    BY <2>1, <2>2, <2>3, <2>4 DEF NextReadFails
<1>8. CASE Bite
  <2>1. /\ UNCHANGED <<silent, acked, ioError, told, hasBit>>
        /\ Unread' = Unread /\ Unpublished' = Unpublished /\ missed >= EarliestBite
    BY <1>8 DEF Bite, linkVars, setup, driver, history, Unread, Unpublished
  <2>2. ~told
    BY <2>1
  <2>3. CASE ioError
    BY <2>1, <2>2, <2>3 DEF FaultTold
  <2>4. CASE ~ioError
    <3>1. CASE Unread
      <4>1. silent + 1 >= EarliestBite /\ ~acked
        BY <2>1, <2>2, <2>4, <3>1, <1>t, <1>f DEF MissesCounted
      <4>2. (silent + 1) * Step >= ErrorLimit
        <5>1. silent + 1 \in Nat
          BY <1>t
        <5> QED
          BY <4>1, <5>1, MissesCost
      <4> QED
        BY <2>1, <2>4, <3>1, <4>1, <4>2 DEF NextReadFails
    <3>2. CASE ~Unread
      <4>1. silent >= EarliestBite /\ silent > 0
        BY <2>1, <2>2, <3>2, <1>t, <1>f DEF MissesCounted
      <4>2. silent * Step >= ErrorLimit
        BY <4>1, <1>t, MissesCost
      <4> QED
        BY <4>1, <4>2, <2>4, LinkGivenUp
    <3> QED
      BY <3>1, <3>2
  <2> QED
    BY <2>3, <2>4
<1>9. CASE LinkHeals \/ UNCHANGED vars
  <2>1. UNCHANGED <<silent, acked, ioError, told, hasBit, bitten, phase, sameCycle>>
    BY <1>9 DEF LinkHeals, Heal, vars, linkVars, setup, driver, history, board
  <2>2. Unread' = Unread /\ Unpublished' = Unpublished
    BY <2>1 DEF Unread, Unpublished
  <2>3. bitten /\ ~told
    BY <2>1
  <2>4. CASE NextReadFails
    BY <2>1, <2>2, <2>4 DEF NextReadFails
  <2>5. CASE Unpublished /\ (ioError \/ hasBit)
    BY <2>1, <2>2, <2>5
  <2> QED
    BY <2>3, <2>4, <2>5, <1>0
<1> QED
  BY <1>1, <1>2, <1>3, <1>4, <1>5, <1>6, <1>7, <1>8, <1>9 DEF Next, Period, Read, Write

LEMMA WarnedInv ==
  ASSUME EarliestBite * Step >= ErrorLimit
  PROVE  Spec => []Warned
<1>1. Init => Warned
  BY DEF Init, LinkInit, Warned, FaultTold, MissesCounted, BiteSeen
<1>2. IInv /\ IInv' /\ Numbers /\ Warned /\ [Next]_vars => Warned'
  BY FaultToldStep, MissesStep, BiteSeenStep DEF Warned
<1> QED
  BY <1>1, <1>2, Invariance, NumbersInv, PTL DEF Spec

(* hm2_watchdog_write wakes a bitten board only once the control was told  *)
(* of a fault and has lowered has_bit, if a watchdog's time out costs as   *)
(* many lost packets as the link may lose.                                 *)
THEOREM BitesAreAnswered ==
  ASSUME EarliestBite * AtLeastOne(ErrorIncrement) >= ErrorLimit
  PROVE  Spec => BiteIsAnswered
<1>1. IInv /\ Warned /\ [Next]_vars
        => (~forceEnqueue /\ bitten /\ ~bitten' => told /\ ~hasBit)
  <2> SUFFICES ASSUME IInv, Warned, [Next]_vars, ~forceEnqueue, bitten, ~bitten'
               PROVE  told /\ ~hasBit
    OBVIOUS
  <2>t. told \in BOOLEAN /\ bitten \in BOOLEAN
    BY DEF IInv, TypeOK
  <2>1. WriteAll
    <3>1. CASE WriteChanges
      <4>1. PICK value \in Settings, arrives \in BOOLEAN :
              BoardGets(arrives, IF value = written THEN setting ELSE value, FALSE)
        BY <3>1 DEF WriteChanges
      <4> QED
        BY <4>1 DEF BoardGets
    <3> QED
      BY <3>1 DEF Next, Period, Read, Write, ReadNothing, ReadRequest, ReadTimeout, ReadSkip,
         ReadReply, WriteNothing, Publish, Control, Bite, LinkHeals, vars, board
  <2>2. ~ioError /\ ~hasBit /\ phase = "write"
    BY <2>1 DEF WriteAll, ResetDue
  <2>3. ~NextReadFails
    BY <2>2, PhaseSteps DEF NextReadFails
  <2> QED
    BY <2>2, <2>3 DEF Warned, BiteSeen
<1>2. EarliestBite * Step >= ErrorLimit
  BY DEF Step
<1> QED
  BY <1>1, <1>2, Invariance, WarnedInv, PTL DEF Spec, BiteIsAnswered
=============================================================================
