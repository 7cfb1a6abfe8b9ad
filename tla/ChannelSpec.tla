---------------------------- MODULE ChannelSpec ----------------------------
(***************************************************************************)
(* What the shared region promises the two processes that use it, without  *)
(* the halves, the parity or the futex: one input block and one output     *)
(* block that change in one step each.                                     *)
(*                                                                         *)
(* The process publishes a cycle only when the core has answered the one   *)
(* before, the core answers the cycle it was given and no other, and what  *)
(* reaches the driver's pins is one whole answer, never older than the     *)
(* one they held.                                                          *)
(***************************************************************************)
EXTENDS Naturals

CONSTANTS Levels,   \* values of an output both sides write
          Seed      \* the value every such output starts with

VARIABLES published,   \* number of the cycle the process published last
          offer,       \* the input block of that cycle
          answer,      \* the newest complete output block
          held,        \* the output block the process has collected
          driven       \* the output block the driver's pins show

vars == <<published, offer, answer, held, driven>>

(* A block is the work of one cycle: every part of it bears its number. *)
Inputs(n) == [values |-> n, bus |-> n]
Outputs(n, level) == [every |-> n, change |-> level]

Init ==
  /\ published = 0
  /\ offer = Inputs(0)
  /\ answer = Outputs(0, Seed)
  /\ held = answer
  /\ driven = answer

(* The process publishes the next cycle: the last one is answered. *)
Publish ==
  /\ answer.every = published
  /\ published' = published + 1
  /\ offer' = Inputs(published')
  /\ UNCHANGED <<answer, held, driven>>

(* The core answers the cycle it was offered. *)
Answer ==
  /\ answer.every < published
  /\ \E level \in Levels : answer' = Outputs(offer.values, level)
  /\ UNCHANGED <<published, offer, held, driven>>

(* The process takes the newest complete answer ... *)
Collect ==
  /\ held' = answer
  /\ UNCHANGED <<published, offer, answer, driven>>

(* ... and puts all of it on the driver's pins. *)
Apply ==
  /\ driven' = held
  /\ UNCHANGED <<published, offer, answer, held>>

Next == Publish \/ Answer \/ Collect \/ Apply

Spec == Init /\ [][Next]_vars
=============================================================================
