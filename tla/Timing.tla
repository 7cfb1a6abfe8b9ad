------------------------------- MODULE Timing -------------------------------
(***************************************************************************)
(* The periods of hm2-host in time (host/main.c): the measurement that     *)
(* declares its worst cycle, and the cycle with its absolute deadlines,    *)
(* the transfer guard before the read and the wait for the core's answer   *)
(* before the write.                                                       *)
(*                                                                         *)
(* Time is counted in whole units from the process's start.  A sleep ends  *)
(* at its deadline or as late as the system lets it; a read, a write and   *)
(* the set-up between take what they take.  Nothing else takes time.  What *)
(* the channel does with an answer is Channel's, what the driver's read    *)
(* and write do is Board's and Sserial's.                                  *)
(***************************************************************************)
EXTENDS Integers, FiniteSetsExt

CONSTANTS
  Period, Send, Transfer,   \* cycle_us, send_deadline of it, sserial_transfer_us
  MeasureCycles, Margin,    \* measure_cycles, worst_case_margin in tenths
  Stated,                   \* worst_case_cycle_ns: 0 for none
  Lates,                    \* how much too late a sleep may end
  ReadTimes, WriteTimes, SetUpTimes,
  MaxPeriods                \* bound: periods of the cycle

ASSUME TimingAssumption ==
  /\ Period \in Nat \ {0} /\ Send \in 1..(Period - 1) /\ Transfer \in 0..(Period - 1)
  /\ MeasureCycles \in Nat /\ Margin \in Nat /\ Margin >= 10
  /\ Stated \subseteq Nat /\ (0 \in Stated => MeasureCycles >= 10)
  /\ \A times \in {Lates, ReadTimes, WriteTimes, SetUpTimes} :
       times \subseteq Nat /\ \E longest \in times : \A t \in times : t <= longest
  /\ MaxPeriods \in Nat

VARIABLES
  same, watched, stated, \* same_cycle; a Smart Serial port is watched; the file's figure
  pc, now, stopping,
  next,                  \* the deadline the period sleeps to
  start, count,          \* where the periods are counted from, and how many
  (* the measurement *)
  worst, counted, declared,
  measured,              \* when its last write ended, until it is compared
  (* the cycle *)
  woke, readAt, writtenAt, publishedAt,   \* 0: not yet
  begun,                 \* a cycle was published in this period
  core, ever,            \* "idle", "owes" an answer, "answered"; has it ever
  (* history *)
  costs,                 \* read plus write of every period counted
  lastWrite,             \* when the last write ended, of either
  gap                    \* from the measurement's last write to the cycle's first

setup == <<same, watched, stated>>
schedule == <<next, start, count>>
measurement == <<worst, counted, declared, costs>>
stamps == <<woke, readAt, writtenAt, publishedAt>>
answers == <<begun, core, ever>>
written == <<measured, lastWrite, gap>>
timingVars == <<setup, pc, now, stopping, schedule, measurement, stamps, answers, written>>

Never == 0

TimingInit ==
  /\ same \in BOOLEAN /\ watched \in BOOLEAN /\ stated \in Stated
  /\ pc = "measure" /\ now = 1 /\ stopping = FALSE
  /\ next = now /\ start = now /\ count = 0
  /\ worst = 0 /\ counted = 0 /\ declared = 0 /\ measured = Never
  /\ woke = Never /\ readAt = Never /\ writtenAt = Never /\ publishedAt = Never
  /\ begun = FALSE /\ core = "idle" /\ ever = FALSE
  /\ costs = {} /\ lastWrite = Never /\ gap = 0

-----------------------------------------------------------------------------
Larger(a, b) == IF a >= b THEN a ELSE b

(* sleep_until: to an absolute time that may be past.  A signal that asks  *)
(* the process to stop ends it; one that came before does not.             *)
SleepUntil(when) == \E l \in Lates : now' = Larger(now, when) + l /\ UNCHANGED stopping
Interrupted(when) ==
  /\ ~stopping /\ stopping' = TRUE
  /\ now < when /\ now' \in {now, when - 1}
Sleep(when) == SleepUntil(when) \/ Interrupted(when)

Take(from, to, times) == pc = from /\ pc' = to /\ \E t \in times : now' = now + t

(* on_signal, while the process is awake. *)
Signal ==
  /\ ~stopping /\ stopping' = TRUE
  /\ UNCHANGED <<setup, pc, now, schedule, measurement, stamps, answers, written>>

-----------------------------------------------------------------------------
(* declare_worst_cycle *)
Skipped == MeasureCycles \div 10

MeasurePeriod ==
  /\ pc = "measure" /\ count < MeasureCycles /\ ~stopping
  /\ pc' = "measure_sleep"
  /\ next' = next + Period /\ count' = count + 1
  /\ UNCHANGED <<setup, now, stopping, start, measurement, stamps, answers, written>>

MeasureWake ==
  /\ pc = "measure_sleep" /\ pc' = "measure_read" /\ Sleep(next)
  /\ readAt' = now'
  /\ UNCHANGED <<setup, schedule, measurement, woke, writtenAt, publishedAt, answers,
                 written>>

MeasureRead ==
  /\ Take("measure_read", "measure_write", ReadTimes)
  /\ UNCHANGED <<setup, stopping, schedule, measurement, stamps, answers, written>>

(* The worst is of a read and its write together. *)
Worst_write(cost, write) == Larger(worst, write)
Worst(cost, write) == Larger(worst, cost)

MeasureWrite ==
  /\ Take("measure_write", "measure", WriteTimes)
  /\ measured' = now' /\ lastWrite' = now'
  /\ IF count > Skipped
       THEN /\ counted' = counted + 1
            /\ worst' = Worst(now' - readAt, now' - now)
            /\ costs' = costs \cup {now' - readAt}
       ELSE UNCHANGED <<counted, worst, costs>>
  /\ UNCHANGED <<setup, stopping, schedule, declared, stamps, answers, gap>>

DeclareWorst ==
  /\ pc = "measure" /\ (count = MeasureCycles \/ stopping)
  /\ pc' = "name"
  /\ declared' = IF stated > 0 THEN stated ELSE (worst * Margin) \div 10 + 1
  /\ UNCHANGED <<setup, now, stopping, schedule, worst, counted, costs, stamps, answers,
                 written>>

(* main: no region for a process that was asked to stop, and a schedule of *)
(* its own for the cycle, from after its set-up.  What the measurement     *)
(* kept for itself is gone.                                                *)
Name ==
  /\ Take("name", IF stopping THEN "left" ELSE "top", SetUpTimes)
  /\ next' = now' /\ start' = now' /\ count' = 0
  /\ readAt' = Never /\ worst' = 0 /\ counted' = 0 /\ costs' = {}
  /\ UNCHANGED <<setup, stopping, declared, woke, writtenAt, publishedAt, answers,
                 written>>

-----------------------------------------------------------------------------
NextDeadline_fromNow == now + Period
NextDeadline == next + Period

NextPeriod ==
  /\ pc = "top" /\ ~stopping /\ count < MaxPeriods
  /\ pc' = "sleep"
  /\ next' = NextDeadline /\ count' = count + 1
  /\ UNCHANGED <<setup, now, stopping, start, measurement, stamps, answers, written>>

Wake ==
  /\ pc = "sleep" /\ Sleep(next)
  /\ pc' = IF stopping' THEN "left" ELSE "guard"
  /\ woke' = now'
  /\ UNCHANGED <<setup, schedule, measurement, readAt, writtenAt, publishedAt, answers,
                 written>>

(* sserial_transfer_wait *)
SinceWrite_read == woke - readAt
SinceWrite == woke - writtenAt
TransferWait == IF SinceWrite < Transfer THEN Transfer - SinceWrite ELSE 0
Guards == watched /\ writtenAt # Never /\ TransferWait > 0

NoTransferWait ==
  /\ pc = "guard" /\ ~Guards
  /\ pc' = "read" /\ readAt' = now
  /\ UNCHANGED <<setup, now, stopping, schedule, measurement, woke, writtenAt, publishedAt,
                 answers, written>>

WaitForTransfer ==
  /\ pc = "guard" /\ Guards
  /\ pc' = "read" /\ Sleep(woke + TransferWait)
  /\ readAt' = now'
  /\ UNCHANGED <<setup, schedule, measurement, woke, writtenAt, publishedAt, answers, written>>

(* The read, and straight after it the write where the answer is of the    *)
(* period before.                                                          *)
Read ==
  /\ Take("read", IF same THEN "publish" ELSE "write", ReadTimes)
  /\ UNCHANGED <<setup, stopping, schedule, measurement, stamps, answers, written>>

(* hm2_region_begin begins no cycle while the core owes an answer. *)
Publish ==
  /\ pc = "publish" /\ pc' = IF same THEN "answer" ELSE "state"
  /\ begun' = (core # "owes")
  /\ IF begun' THEN core' = "owes" /\ publishedAt' = now ELSE UNCHANGED <<core, publishedAt>>
  /\ UNCHANGED <<setup, now, stopping, schedule, measurement, woke, readAt, writtenAt, ever,
                 written>>

CoreAnswers ==
  /\ core = "owes" /\ core' = "answered" /\ ever' = TRUE
  /\ UNCHANGED <<setup, pc, now, stopping, schedule, measurement, stamps, begun, written>>

(* Nobody is waited for before the core has answered at all. *)
Awaits_always == begun
Awaits == begun /\ ever
SendDeadline_fromNow == now + Send
SendDeadline == next + Send

NoWait ==
  /\ pc = "answer" /\ ~Awaits /\ pc' = "write"
  /\ UNCHANGED <<setup, now, stopping, schedule, measurement, stamps, answers, written>>

(* hm2_region_wait_answer: an answer that is there, even late, or none by  *)
(* the deadline; else it sleeps till the core wakes it or the deadline.    *)
WaitEnds ==
  /\ pc = "answer" /\ Awaits /\ (core = "answered" \/ now >= SendDeadline)
  /\ pc' = "write"
  /\ UNCHANGED <<setup, now, stopping, schedule, measurement, stamps, answers, written>>

WaitSleeps ==
  /\ pc = "answer" /\ Awaits /\ core = "owes" /\ now < SendDeadline
  /\ \/ now' = SendDeadline - 1 /\ core' = "answered"
     \/ SleepUntil(SendDeadline) /\ UNCHANGED core
  /\ UNCHANGED <<setup, pc, stopping, schedule, measurement, stamps, begun, ever, written>>

(* The write, and first_write_after_measuring. *)
Write ==
  /\ Take("write", IF same THEN "state" ELSE "publish", WriteTimes)
  /\ writtenAt' = now' /\ lastWrite' = now'
  /\ gap' = IF measured # Never THEN now' - measured ELSE gap
  /\ measured' = Never
  /\ UNCHANGED <<setup, stopping, schedule, measurement, woke, readAt, publishedAt, answers>>

(* The core has gone, or has not answered for as long as it may. *)
CheckState ==
  /\ pc = "state" /\ pc' \in {IF same THEN "top" ELSE "send", "left"}
  /\ UNCHANGED <<setup, now, stopping, schedule, measurement, stamps, answers, written>>

SleepToSend ==
  /\ pc = "send" /\ pc' = "top" /\ Sleep(SendDeadline)
  /\ UNCHANGED <<setup, schedule, measurement, stamps, answers, written>>

LeaveLoop ==
  /\ pc = "top" /\ stopping /\ pc' = "left"
  /\ UNCHANGED <<setup, now, stopping, schedule, measurement, stamps, answers, written>>

Measuring == MeasurePeriod \/ MeasureWake \/ MeasureRead \/ MeasureWrite \/ DeclareWorst \/ Name
Cycling ==
  \/ NextPeriod \/ Wake \/ NoTransferWait \/ WaitForTransfer \/ Read \/ Publish
  \/ CoreAnswers \/ NoWait \/ WaitEnds \/ WaitSleeps \/ Write \/ CheckState \/ SleepToSend \/ LeaveLoop

TimingNext == Signal \/ Measuring \/ Cycling

TimingSpec == TimingInit /\ [][TimingNext]_timingVars

-----------------------------------------------------------------------------
(* The transfer guard of main.c: "a read that would come less than         *)
(* `sserial_transfer_us` after the write that started a Smart Serial       *)
(* transfer waits until it has had that long" -- in both orders of a       *)
(* period, after a period that ran late and for the first read, whose      *)
(* write was the measurement's; only a stop cuts the wait short.           *)
TransferHad ==
  pc = "read" /\ watched /\ lastWrite # Never => readAt - lastWrite >= Transfer \/ stopping

(* The periods are counted from one point of time: none begins before its  *)
(* place, and one that begins late did so because a sleep ended late or    *)
(* the period before was not over, so lateness does not add up.            *)
PeriodsOnGrid ==
  pc = "guard" =>
    /\ woke >= start + count * Period
    /\ woke <= Larger(start + count * Period, lastWrite) + (IF same THEN 1 ELSE 2) * Max(Lates)

(* The wait for the core delays the write to the send deadline at most,    *)
(* and a write that nobody answers for yet not at all (main.c).            *)
WriteInTime ==
  pc = "write" /\ same /\ begun =>
    now <= (IF ever THEN Larger(next + Send, publishedAt) ELSE publishedAt) + Max(Lates)

(* From the measurement's last write to the cycle's first the card's       *)
(* watchdog counts: the gap is the set-up between, a period, a read and a  *)
(* write, and whatever the core does adds nothing to it.                   *)
FirstWriteSoon ==
  gap <= Max(SetUpTimes) + Period + Max(Lates) + Max(ReadTimes) + Max(WriteTimes)

(* What the header declares to the core when the region gets its name: the *)
(* file's figure, or more than the longest read and write of any period    *)
(* counted, of which there is one at least (declare_worst_cycle, and the   *)
(* file's check of measure_cycles).                                        *)
DeclaredCovers ==
  pc = "name" /\ ~stopping =>
    \/ stated > 0 /\ declared = stated
    \/ counted > 0 /\ \A cost \in costs : declared > cost
=============================================================================
