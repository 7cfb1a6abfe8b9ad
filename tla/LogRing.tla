------------------------------ MODULE LogRing ------------------------------
(***************************************************************************)
(* The host's log (src/host/main.c): a ring the cycle's thread writes      *)
(* lines into and a writer thread drains to stderr.  One producer, one     *)
(* consumer, two counters and no lock; a line the ring has no room for is  *)
(* dropped and counted.  Before the writer starts and after it stopped a   *)
(* line goes straight to stderr.                                           *)
(*                                                                         *)
(* A line is its number in the order the main thread logs.  The copy of a  *)
(* line into its slot and its output from the slot are steps of their own. *)
(***************************************************************************)
EXTENDS Naturals, Sequences

CONSTANTS Slots,     \* LOG_SLOTS
          MaxLines   \* bound: the main thread logs at most this many lines

ASSUME LogAssumption == Slots \in Nat \ {0} /\ MaxLines \in Nat

VARIABLES
  ring, head, tail, dropped, ringed, stop,   \* shared by the two threads
  mpc, line, mhead,                          \* the main thread
  wpc, wtail, whead, reported,               \* the writer thread
  err,                                       \* stderr: the lines, in order
  told                                       \* drops stderr was told of

shared == <<ring, head, tail, dropped, ringed, stop>>
main   == <<mpc, line, mhead>>
writer == <<wpc, wtail, whead, reported>>
stderr == <<err, told>>
vars   == <<shared, main, writer, stderr>>

Slot(n) == n % Slots

Init ==
  /\ ring = [s \in 0 .. Slots - 1 |-> 0]
  /\ head = 0 /\ tail = 0 /\ dropped = 0 /\ ringed = FALSE /\ stop = FALSE
  /\ mpc = "starting" /\ line = 0 /\ mhead = 0
  /\ wpc = "none" /\ wtail = 0 /\ whead = 0 /\ reported = 0
  /\ err = <<>> /\ told = 0

-----------------------------------------------------------------------------
(* The main thread.  hm2_log: straight out while there is no writer, into  *)
(* the ring while there is.                                                *)

Idle == {"starting", "cycling", "ending"}

LogDirect ==
  /\ mpc \in Idle /\ ~ringed /\ line < MaxLines
  /\ line' = line + 1
  /\ err' = Append(err, line')
  /\ UNCHANGED <<shared, mpc, mhead, writer, told>>

Full_offByOne == head - tail > Slots
Full == head - tail >= Slots

(* The counters are loaded and the line is dropped or has a slot. *)
LogRinged_published ==
  /\ mpc = "cycling" /\ ringed /\ line < MaxLines
  /\ line' = line + 1
  /\ mhead' = head
  /\ mpc' = IF Full THEN "drop" ELSE "copy"
  /\ head' = IF Full THEN head ELSE head + 1
  /\ UNCHANGED <<ring, tail, dropped, ringed, stop, writer, stderr>>
LogRinged ==
  /\ mpc = "cycling" /\ ringed /\ line < MaxLines
  /\ line' = line + 1
  /\ mhead' = head
  /\ mpc' = IF Full THEN "drop" ELSE "copy"
  /\ UNCHANGED <<shared, writer, stderr>>

Drop ==
  /\ mpc = "drop" /\ mpc' = "cycling"
  /\ dropped' = dropped + 1
  /\ UNCHANGED <<ring, head, tail, ringed, stop, line, mhead, writer, stderr>>

Copy ==
  /\ mpc = "copy" /\ mpc' = "publish"
  /\ ring' = [ring EXCEPT ![Slot(mhead)] = line]
  /\ UNCHANGED <<head, tail, dropped, ringed, stop, line, mhead, writer, stderr>>

PublishLine ==
  /\ mpc = "publish" /\ mpc' = "cycling"
  /\ head' = mhead + 1
  /\ UNCHANGED <<ring, tail, dropped, ringed, stop, line, mhead, writer, stderr>>

(* log_to_ring: the thread, if there can be one, and then the flag. *)
StartWriter ==
  /\ mpc = "starting"
  /\ \/ mpc' = "flag" /\ wpc' = "load"
     \/ mpc' = "cycling" /\ UNCHANGED wpc
  /\ UNCHANGED <<shared, line, mhead, wtail, whead, reported, stderr>>

SetRinged ==
  /\ mpc = "flag" /\ mpc' = "cycling"
  /\ ringed' = TRUE
  /\ UNCHANGED <<ring, head, tail, dropped, stop, line, mhead, writer, stderr>>

(* log_from_ring: nothing without a writer; else stop it, join it, and     *)
(* lines go straight out again.                                            *)
StopWriter_unsaid ==
  /\ mpc = "cycling"
  /\ mpc' = IF ringed THEN "join" ELSE "ending"
  /\ UNCHANGED <<shared, line, mhead, writer, stderr>>
StopWriter ==
  /\ mpc = "cycling"
  /\ IF ringed THEN mpc' = "join" /\ stop' = TRUE
               ELSE mpc' = "ending" /\ UNCHANGED stop
  /\ UNCHANGED <<ring, head, tail, dropped, ringed, line, mhead, writer, stderr>>

Join ==
  /\ mpc = "join" /\ wpc = "done"
  /\ mpc' = "ending" /\ ringed' = FALSE
  /\ UNCHANGED <<ring, head, tail, dropped, stop, line, mhead, writer, stderr>>

-----------------------------------------------------------------------------
(* The writer thread. *)

Load ==
  /\ wpc = "load" /\ wpc' = "drain"
  /\ wtail' = tail /\ whead' = head
  /\ UNCHANGED <<shared, main, reported, stderr>>

(* The next line to stderr, or none left of those it saw. *)
Emit ==
  /\ wpc = "drain" /\ wtail # whead
  /\ err' = Append(err, ring[Slot(wtail)])
  /\ wpc' = "free"
  /\ UNCHANGED <<shared, main, wtail, whead, reported, told>>

Free ==
  /\ wpc = "free" /\ wpc' = "drain"
  /\ wtail' = wtail + 1
  /\ tail' = wtail'
  /\ UNCHANGED <<ring, head, dropped, ringed, stop, main, whead, reported, stderr>>

(* How many were dropped since it last said so. *)
Reported == dropped

Report ==
  /\ wpc = "drain" /\ wtail = whead /\ wpc' = "check"
  /\ told' = told + (dropped - reported)
  /\ reported' = Reported
  /\ UNCHANGED <<shared, main, wtail, whead, err>>

Drained_unchecked == TRUE
Drained == head = wtail

(* Told to stop, it goes when nothing is left; else it rests and returns.  *)
Check ==
  /\ wpc = "check"
  /\ wpc' = IF stop /\ Drained THEN "done" ELSE "load"
  /\ UNCHANGED <<shared, main, wtail, whead, reported, stderr>>

-----------------------------------------------------------------------------
MainStep ==
  \/ LogDirect \/ LogRinged \/ Drop \/ Copy \/ PublishLine
  \/ StartWriter \/ SetRinged \/ StopWriter \/ Join

WriterStep == Load \/ Emit \/ Free \/ Report \/ Check

Next == MainStep \/ WriterStep

Spec == Init /\ [][Next]_vars

(* The writer runs where ordinary work runs: not forever starved.  The     *)
(* main thread leaves a call it began, as far as the writer lets it.       *)
FairSpec ==
  /\ Spec /\ WF_vars(WriterStep)
  /\ WF_vars(Drop \/ Copy \/ PublishLine \/ SetRinged \/ Join)

-----------------------------------------------------------------------------
MainLabels == Idle \cup {"drop", "copy", "publish", "flag", "join"}
WriterLabels == {"none", "load", "drain", "free", "check", "done"}

(* Types; the ring never holds more than it has slots for. *)
TypeOK ==
  /\ ring \in [0 .. Slots - 1 -> 0 .. MaxLines]
  /\ head \in Nat /\ tail \in Nat /\ tail <= head /\ head <= tail + Slots
  /\ dropped \in Nat /\ ringed \in BOOLEAN /\ stop \in BOOLEAN
  /\ mpc \in MainLabels /\ line \in 0 .. MaxLines /\ mhead \in Nat
  /\ wpc \in WriterLabels /\ wtail \in Nat /\ whead \in Nat /\ reported \in Nat
  /\ err \in Seq(0 .. MaxLines) /\ told \in Nat

(* The line being copied is not the one being put out: no slot is written  *)
(* by one thread while the other reads it.                                 *)
NoSlotRace ==
  ~(mpc = "copy" /\ wpc = "drain" /\ wtail # whead /\ Slot(mhead) = Slot(wtail))

(* The lines come out in the order they were logged, each once: those put  *)
(* straight out before the writer started and after it stopped too.        *)
InOrder == \A i \in 1 .. Len(err) - 1 : err[i] < err[i + 1]

(* Once the writer is joined every line is out or counted as dropped, and  *)
(* stderr was told of every drop but at most one: the last, when the main  *)
(* thread found the ring full, and counts it only after the writer emptied *)
(* the ring and reported for the last time.                                *)
NothingUnaccounted ==
  mpc = "ending" =>
    /\ Len(err) + dropped = line
    /\ told <= dropped /\ dropped <= told + 1

(* The ring, its counters and the two threads implement a queue lines are  *)
(* put in whole and leave in order: what waits is in the slots from the    *)
(* first line not put out up to head, and a slot the main thread fills is  *)
(* none of them until head passes it.                                      *)
Out == IF wpc = "free" THEN tail + 1 ELSE tail
Waiting == [i \in 1 .. head - Out |-> ring[Slot(Out + i - 1)]]
Pending ==
  CASE mpc \in {"copy", "publish"} -> "put"
    [] mpc = "drop" -> "drop"
    [] OTHER -> "none"

Abstract == INSTANCE LogSpec WITH
  logged <- line, pending <- Pending, queue <- Waiting, out <- err

IsAQueue == Abstract!Spec

(* log_from_ring returns: the writer drains what there is and goes. *)
StopReturns == mpc = "join" ~> mpc = "ending"
=============================================================================
