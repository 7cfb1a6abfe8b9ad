------------------------------ MODULE LogSpec ------------------------------
(***************************************************************************)
(* What the log promises who writes to it, without the ring, its counters  *)
(* or its two threads: a queue with room for so many lines, which come out *)
(* in the order they went in.                                              *)
(*                                                                         *)
(* A line is put in whole, in one step, or dropped and counted; it may be  *)
(* dropped only when the queue is full, or full but for the line that is   *)
(* leaving it.  A line goes out past the queue only when that is empty.    *)
(***************************************************************************)
EXTENDS Naturals, Sequences

CONSTANT Slots         \* lines the queue has room for

VARIABLES logged,      \* lines logged: the number of the newest
          pending,     \* what becomes of the newest: "put", "drop", "none" left
          queue,       \* the lines that wait, oldest first
          out,         \* the lines that are out, oldest first
          dropped      \* how many were dropped

vars == <<logged, pending, queue, out, dropped>>

Init == logged = 0 /\ pending = "none" /\ queue = <<>> /\ out = <<>> /\ dropped = 0

(* A line is logged straight out ... *)
Direct ==
  /\ pending = "none" /\ queue = <<>>
  /\ logged' = logged + 1
  /\ out' = Append(out, logged')
  /\ UNCHANGED <<pending, queue, dropped>>

(* ... or for the queue, which may have no room for it. *)
Call ==
  /\ pending = "none"
  /\ logged' = logged + 1
  /\ \/ pending' = "put"
     \/ pending' = "drop" /\ Len(queue) + 1 >= Slots
  /\ UNCHANGED <<queue, out, dropped>>

Put ==
  /\ pending = "put" /\ pending' = "none"
  /\ Len(queue) < Slots
  /\ queue' = Append(queue, logged)
  /\ UNCHANGED <<logged, out, dropped>>

Drop ==
  /\ pending = "drop" /\ pending' = "none"
  /\ dropped' = dropped + 1
  /\ UNCHANGED <<logged, queue, out>>

(* The oldest line that waits goes out. *)
Leave ==
  /\ queue # <<>>
  /\ out' = Append(out, Head(queue))
  /\ queue' = Tail(queue)
  /\ UNCHANGED <<logged, pending, dropped>>

Next == Direct \/ Call \/ Put \/ Drop \/ Leave

Spec == Init /\ [][Next]_vars
=============================================================================
