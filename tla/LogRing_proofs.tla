---------------------------- MODULE LogRing_proofs ----------------------------
(***************************************************************************)
(* That the log's ring needs no lock: for every number of slots and lines  *)
(* no slot is written while it is read, the lines come out in order, and   *)
(* none is lost without being counted.                                     *)
(***************************************************************************)
EXTENDS LogRing, Integers, SequenceTheorems, TLAPS

(* The slots of lines that the ring holds at once are different slots.     *)
LEMMA Slotted ==
  ASSUME NEW n \in Nat
  PROVE  n = Slots * (n \div Slots) + Slot(n) /\ Slot(n) \in 0 .. Slots - 1
<1>1. Slots \in Nat \ {0}
  BY LogAssumption
<1>2. QED
  BY <1>1, SMT DEF Slot

LEMMA SlotsApart ==
  ASSUME NEW m \in Nat, NEW n \in Nat, m < n, n < m + Slots
  PROVE  Slot(m) # Slot(n)
<1> SUFFICES ASSUME Slot(m) = Slot(n) PROVE FALSE
  OBVIOUS
<1> DEFINE turns == (n \div Slots) - (m \div Slots)
<1>1. Slot(m) \in Int /\ Slots \in Nat \ {0} /\ m \div Slots \in Int /\ n \div Slots \in Int
  BY Slotted, LogAssumption
<1>2. n - m = Slots * turns
  <2>1. m = Slots * (m \div Slots) + Slot(m) /\ n = Slots * (n \div Slots) + Slot(n)
    BY Slotted
  <2>2. QED
    BY <1>1, <2>1
<1>3. CASE turns <= 0
  <2>1. Slots * turns <= 0
    BY <1>1, <1>3
  <2>2. QED
    BY <1>1, <1>2, <2>1
<1>4. CASE turns >= 1
  <2>1. Slots * turns >= Slots
    BY <1>1, <1>4
  <2>2. QED
    BY <1>1, <1>2, <2>1
<1>5. QED
  BY <1>1, <1>3, <1>4

-----------------------------------------------------------------------------
(* The two threads' places. *)
Turns ==
  /\ mpc = "starting" => wpc = "none"
  /\ mpc \in {"drop", "copy", "publish", "join"} => ringed
  /\ mpc \in {"starting", "flag", "ending"} => ~ringed
  /\ mpc = "flag" => wpc # "none"
  /\ mpc = "cycling" /\ wpc # "none" => ringed
  /\ mpc = "ending" => wpc \in {"none", "done"}
  /\ ringed => wpc # "none"
  /\ stop => mpc = "join" \/ mpc = "ending"
  /\ wpc = "done" => stop

(* The counters: what one thread has loaded of the other's only lags.      *)
Counters ==
  /\ tail <= head /\ head <= tail + Slots
  /\ wtail = tail /\ whead <= head
  /\ wpc \in {"drain", "free"} => wtail <= whead
  /\ wpc = "free" => wtail # whead
  /\ wpc = "check" => wtail = whead
  /\ wpc = "done" => head = tail
  /\ mpc \in {"copy", "publish"} => mhead = head /\ head < tail + Slots
  /\ wpc = "none" \/ mpc = "flag" => head = 0

(* Whether a line is being logged. *)
Logging == mpc \in {"drop", "copy", "publish"}

(* Each line is out, in the ring, dropped or being logged; and a drop that *)
(* was not told yet, with the ring empty after a report, is one at most.   *)
Accounts ==
  /\ Len(err) + (head - Out) + dropped + (IF Logging THEN 1 ELSE 0) = line
  /\ told = reported /\ told <= dropped
  /\ wpc = "check" /\ head = tail =>
       dropped + (IF mpc = "drop" THEN 1 ELSE 0) <= told + 1
  /\ wpc = "done" => dropped <= told + 1
  /\ wpc = "none" => dropped = 0

(* What is out, what waits in the ring and what is being logged follow one *)
(* another.                                                                *)
Newest == IF Logging THEN line - 1 ELSE line
Order ==
  /\ \A i, j \in 1 .. Len(err) : i < j => err[i] < err[j]
  /\ \A i \in 1 .. Len(err) : err[i] <= Newest
  /\ \A n \in Nat : Out <= n /\ n < head =>
       /\ ring[Slot(n)] <= Newest
       /\ \A i \in 1 .. Len(err) : err[i] < ring[Slot(n)]
  /\ \A m, n \in Nat : Out <= m /\ m < n /\ n < head => ring[Slot(m)] < ring[Slot(n)]
  /\ mpc = "publish" => ring[Slot(mhead)] = line

IInv == TypeOK /\ Turns /\ Counters /\ Accounts /\ Order

LEMMA InitInv == Init => IInv
<1> SUFFICES ASSUME Init PROVE IInv
  OBVIOUS
<1> USE LogAssumption DEF Init
<1>1. TypeOK
  BY DEF TypeOK, MainLabels, WriterLabels, Idle
<1>2. Turns /\ Counters
  BY DEF Turns, Counters
<1>3. Accounts
  BY DEF Accounts, Out, Logging
<1>4. Order
  BY DEF Order, Out, Logging
<1>5. QED
  BY <1>1, <1>2, <1>3, <1>4 DEF IInv

-----------------------------------------------------------------------------
LEMMA TypeInv ==
  ASSUME IInv, [Next]_vars
  PROVE  TypeOK'
<1> USE LogAssumption DEF IInv, TypeOK, Counters, MainLabels, WriterLabels, Idle
<1>1. CASE LogDirect
  BY <1>1 DEF LogDirect, shared, writer
<1>2. CASE LogRinged
  BY <1>2 DEF LogRinged, Full, shared, writer, stderr
<1>3. CASE Drop
  BY <1>3 DEF Drop, writer, stderr
<1>4. CASE Copy
  BY <1>4, Slotted DEF Copy, writer, stderr
<1>5. CASE PublishLine
  BY <1>5 DEF PublishLine, writer, stderr
<1>6. CASE StartWriter \/ SetRinged \/ StopWriter \/ Join
  BY <1>6 DEF StartWriter, SetRinged, StopWriter, Join, shared, writer, stderr
<1>7. CASE Load
  BY <1>7 DEF Load, shared, main, stderr
<1>8. CASE Emit
  <2>1. ring[Slot(wtail)] \in 0 .. MaxLines
    BY Slotted
  <2>2. QED
    BY <1>8, <2>1 DEF Emit, shared, main
<1>9. CASE Free
  BY <1>9 DEF Free, main, stderr
<1>10. CASE Report
  <2>1. told' = dropped /\ reported' = dropped
    BY <1>10 DEF Report, Reported, Accounts
  <2>2. QED
    BY <1>10, <2>1 DEF Report, shared, main
<1>11. CASE Check
  BY <1>11 DEF Check, shared, main, stderr
<1>12. CASE UNCHANGED vars
  BY <1>12 DEF vars, shared, main, writer, stderr
<1>13. QED
  BY <1>1, <1>2, <1>3, <1>4, <1>5, <1>6, <1>7, <1>8, <1>9, <1>10, <1>11, <1>12
  DEF Next, MainStep, WriterStep

LEMMA TurnsInv ==
  ASSUME IInv, [Next]_vars
  PROVE  Turns'
<1> USE DEF IInv, Turns
<1>1. CASE LogDirect \/ LogRinged \/ Drop \/ Copy \/ PublishLine
  BY <1>1 DEF LogDirect, LogRinged, Drop, Copy, PublishLine, Idle, shared, writer, stderr
<1>2. CASE StartWriter \/ SetRinged \/ StopWriter \/ Join
  BY <1>2 DEF StartWriter, SetRinged, StopWriter, Join, shared, writer, stderr
<1>3. CASE WriterStep
  BY <1>3 DEF WriterStep, Load, Emit, Free, Report, Check, shared, main, stderr
<1>4. CASE UNCHANGED vars
  BY <1>4 DEF vars, shared, main, writer, stderr
<1>5. QED
  BY <1>1, <1>2, <1>3, <1>4 DEF Next, MainStep

LEMMA CountersInv ==
  ASSUME IInv, [Next]_vars
  PROVE  Counters'
<1> USE LogAssumption DEF IInv, Counters, Turns, TypeOK
<1>1. CASE LogDirect \/ LogRinged \/ Drop \/ Copy
  <2>1. CASE LogDirect \/ Drop
    BY <2>1 DEF LogDirect, Drop, Idle, shared, writer, stderr
  <2>2. CASE LogRinged
    BY <2>2 DEF LogRinged, Full, shared, writer, stderr
  <2>3. CASE Copy
    BY <2>3 DEF Copy, writer, stderr
  <2>4. QED
    BY <1>1, <2>1, <2>2, <2>3
<1>2. CASE PublishLine
  BY <1>2 DEF PublishLine, writer, stderr
<1>3. CASE StartWriter \/ SetRinged \/ StopWriter \/ Join
  <2>1. CASE StartWriter
    BY <2>1 DEF StartWriter, shared, stderr
  <2>2. CASE SetRinged \/ StopWriter \/ Join
    BY <2>2 DEF SetRinged, StopWriter, Join, writer, stderr
  <2>3. QED
    BY <1>3, <2>1, <2>2
<1>4. CASE Load \/ Emit \/ Report
  <2>1. CASE Load
    BY <2>1 DEF Load, shared, main, stderr
  <2>2. CASE Emit
    BY <2>2 DEF Emit, shared, main
  <2>3. CASE Report
    BY <2>3 DEF Report, shared, main
  <2>4. QED
    BY <1>4, <2>1, <2>2, <2>3
<1>5. CASE Free
  BY <1>5 DEF Free, main, stderr
<1>6. CASE Check
  BY <1>6 DEF Check, Drained, shared, main, stderr
<1>7. CASE UNCHANGED vars
  BY <1>7 DEF vars, shared, main, writer, stderr
<1>8. QED
  BY <1>1, <1>2, <1>3, <1>4, <1>5, <1>6, <1>7 DEF Next, MainStep, WriterStep

LEMMA AccountsInv ==
  ASSUME IInv, [Next]_vars
  PROVE  Accounts'
<1> USE LogAssumption DEF IInv, Counters, Turns, TypeOK, Accounts, Out, Logging
<1>1. CASE LogDirect
  <2>1. Len(err') = Len(err) + 1
    BY <1>1 DEF LogDirect
  <2>2. /\ line' = line + 1 /\ mpc \in Idle /\ mpc' = mpc
        /\ UNCHANGED <<head, tail, dropped, wpc, told, reported>>
    BY <1>1 DEF LogDirect, shared, writer
  <2>3. QED
    BY <2>1, <2>2 DEF Idle
<1>2. CASE LogRinged
  <2>1. /\ line' = line + 1 /\ mpc = "cycling"
        /\ mpc' = IF head - tail >= Slots THEN "drop" ELSE "copy"
        /\ UNCHANGED <<head, tail, dropped, wpc, told, reported, err>>
    BY <1>2 DEF LogRinged, Full, shared, writer, stderr
  <2>2. wpc # "none"
    BY <1>2 DEF LogRinged
  <2>3. QED
    BY <2>1, <2>2
<1>3. CASE Drop
  BY <1>3 DEF Drop, writer, stderr
<1>4. CASE Copy
  BY <1>4 DEF Copy, writer, stderr
<1>5. CASE PublishLine
  BY <1>5 DEF PublishLine, writer, stderr
<1>6. CASE StartWriter \/ SetRinged \/ StopWriter \/ Join
  BY <1>6 DEF StartWriter, SetRinged, StopWriter, Join, shared, writer, stderr
<1>7. CASE Load
  BY <1>7 DEF Load, shared, main, stderr
<1>8. CASE Emit
  <2>1. Len(err') = Len(err) + 1
    BY <1>8, Slotted DEF Emit
  <2>2. /\ wpc = "drain" /\ wpc' = "free" /\ wtail # whead
        /\ UNCHANGED <<head, tail, dropped, mpc, line, told, reported>>
    BY <1>8 DEF Emit, shared, main
  <2>3. QED
    BY <2>1, <2>2
<1>9. CASE Free
  BY <1>9 DEF Free, main, stderr
<1>10. CASE Report
  BY <1>10 DEF Report, Reported, shared, main
<1>11. CASE Check
  BY <1>11 DEF Check, Drained, shared, main, stderr
<1>12. CASE UNCHANGED vars
  BY <1>12 DEF vars, shared, main, writer, stderr
<1>13. QED
  BY <1>1, <1>2, <1>3, <1>4, <1>5, <1>6, <1>7, <1>8, <1>9, <1>10, <1>11, <1>12
  DEF Next, MainStep, WriterStep

-----------------------------------------------------------------------------
LEMMA LineTypes ==
  ASSUME IInv
  PROVE  /\ err \in Seq(Int) /\ Len(err) \in Nat /\ line \in Nat
         /\ \A i \in 1 .. Len(err) : err[i] \in Int
         /\ \A n \in Nat : ring[Slot(n)] \in Int
         /\ head \in Nat /\ tail \in Nat /\ Out \in Nat
<1>1. /\ err \in Seq(0 .. MaxLines) /\ head \in Nat /\ tail \in Nat /\ line \in Nat
      /\ ring \in [0 .. Slots - 1 -> 0 .. MaxLines] /\ MaxLines \in Nat
  BY LogAssumption DEF IInv, TypeOK
<1>2. err \in Seq(Int) /\ Len(err) \in Nat /\ \A i \in 1 .. Len(err) : err[i] \in Int
  BY <1>1
<1>3. ASSUME NEW n \in Nat PROVE ring[Slot(n)] \in Int
  <2>1. Slot(n) \in 0 .. Slots - 1
    BY Slotted
  <2>2. QED
    BY <1>1, <2>1
<1>4. Out \in Nat
  BY <1>1 DEF Out
<1>5. QED
  BY <1>1, <1>2, <1>3, <1>4

(* A step that moves neither lines nor places and begins no line's logging *)
(* keeps their order.                                                      *)
LEMMA OrderKept ==
  ASSUME IInv, UNCHANGED <<ring, head, err, line>>, Out' = Out,
         mpc' = mpc \/ mpc' \notin {"drop", "copy", "publish"}, mhead' = mhead
  PROVE  Order'
<1>1. Newest \in Int /\ Newest' \in Int /\ Newest <= Newest'
  BY LineTypes DEF Newest, Logging
<1>2. \A n \in Nat : Slot(n)' = Slot(n)
  BY DEF Slot
<1>3. Slot(mhead)' = Slot(mhead)
  BY DEF Slot
<1>4. mpc' = "publish" => mpc = "publish"
  OBVIOUS
<1>5. QED
  BY <1>1, <1>2, <1>3, <1>4, LineTypes DEF IInv, Order

LEMMA OrderInv ==
  ASSUME IInv, [Next]_vars
  PROVE  Order'
<1> USE DEF IInv
<1>0. \A n \in Nat : Slot(n)' = Slot(n)
  BY DEF Slot
<1>1. CASE LogDirect
  <2>1. head = Out
    BY <1>1, LineTypes, LogAssumption DEF LogDirect, Idle, Turns, Counters, Out
  <2>2. /\ err' = Append(err, line + 1) /\ line' = line + 1
        /\ ~Logging /\ ~Logging' /\ head' = head /\ Out' = Out /\ mpc' # "publish"
    BY <1>1 DEF LogDirect, Idle, Logging, Out, shared, writer
  <2>3. Newest = line /\ Newest' = line + 1
    BY <2>2 DEF Newest
  <2>4. QED
    BY <2>1, <2>2, <2>3, <1>0, LineTypes DEF Order
<1>2. CASE LogRinged
  <2>1. /\ line' = line + 1 /\ UNCHANGED <<ring, head, err>> /\ Out' = Out
        /\ ~Logging /\ Logging' /\ mpc' # "publish"
    BY <1>2 DEF LogRinged, Logging, Out, shared, writer, stderr
  <2>2. Newest = line /\ Newest' = line
    BY <2>1, LineTypes DEF Newest
  <2>3. QED
    BY <2>1, <2>2, <1>0, LineTypes DEF Order
<1>3. CASE Copy
  <2>1. /\ mhead = head /\ head < tail + Slots /\ tail <= Out /\ mhead' = mhead
        /\ UNCHANGED <<head, err, line>> /\ Out' = Out /\ Logging /\ Logging'
        /\ ring' = [ring EXCEPT ![Slot(head)] = line]
    BY <1>3, LineTypes DEF Copy, Counters, Logging, Out, writer, stderr
  <2>2. ASSUME NEW n \in Nat, Out <= n, n < head
        PROVE  ring'[Slot(n)] = ring[Slot(n)]
    <3>1. n < head /\ head < n + Slots
      BY <2>1, <2>2, LineTypes, LogAssumption
    <3>2. Slot(n) # Slot(head) /\ Slot(n) \in 0 .. Slots - 1
      BY <3>1, LineTypes, SlotsApart, Slotted
    <3>3. QED
      BY <2>1, <3>2 DEF TypeOK
  <2>3. ring'[Slot(mhead)] = line
    BY <2>1, LineTypes, Slotted DEF TypeOK
  <2>4. Newest = line - 1 /\ Newest' = line - 1
    BY <2>1 DEF Newest
  <2>5. \A n \in Nat : Out' <= n /\ n < head' =>
           /\ n < head /\ Out <= n /\ ring'[Slot(n)] = ring[Slot(n)]
    BY <2>1, <2>2
  <2>6. /\ \A i, j \in 1 .. Len(err') : i < j => err'[i] < err'[j]
        /\ \A i \in 1 .. Len(err') : err'[i] <= Newest'
    BY <2>1, <2>4 DEF Order
  <2>7. \A n \in Nat : Out' <= n /\ n < head' =>
          /\ ring'[Slot(n)] <= Newest'
          /\ \A i \in 1 .. Len(err') : err'[i] < ring'[Slot(n)]
    <3> SUFFICES ASSUME NEW n \in Nat, Out' <= n, n < head'
                 PROVE  /\ ring'[Slot(n)] <= Newest'
                        /\ \A i \in 1 .. Len(err') : err'[i] < ring'[Slot(n)]
      OBVIOUS
    <3>1. ring[Slot(n)] <= Newest /\ \A i \in 1 .. Len(err) : err[i] < ring[Slot(n)]
      BY <2>5 DEF Order
    <3>2. QED
      BY <2>1, <2>4, <2>5, <3>1
  <2>8. \A m, n \in Nat : Out' <= m /\ m < n /\ n < head' =>
           ring'[Slot(m)] < ring'[Slot(n)]
    <3> SUFFICES ASSUME NEW m \in Nat, NEW n \in Nat, Out' <= m, m < n, n < head'
                 PROVE  ring'[Slot(m)] < ring'[Slot(n)]
      OBVIOUS
    <3>1. m < head' /\ Out' <= n
      BY <2>1, LineTypes
    <3>2. ring[Slot(m)] < ring[Slot(n)]
      BY <2>5, <3>1 DEF Order
    <3>3. QED
      BY <2>5, <3>1, <3>2
  <2>9. (mpc = "publish" => ring[Slot(mhead)] = line)'
    BY <2>1, <2>3
  <2>10. QED
    BY <2>6, <2>7, <2>8, <2>9 DEF Order
<1>4. CASE PublishLine
  <2>1. /\ head' = head + 1 /\ Out' = Out /\ UNCHANGED <<ring, err, line>>
        /\ Logging /\ ~Logging' /\ mpc' # "publish" /\ ring[Slot(head)] = line
    BY <1>4 DEF PublishLine, Counters, Order, Logging, Out, writer, stderr
  <2>2. Newest = line - 1 /\ Newest' = line
    BY <2>1 DEF Newest
  <2>3. ASSUME NEW n \in Nat, Out <= n, n < head'
        PROVE  /\ ring[Slot(n)] <= line
               /\ \A i \in 1 .. Len(err) : err[i] < ring[Slot(n)]
    <3>1. CASE n = head
      BY <2>1, <2>2, <3>1, LineTypes DEF Order
    <3>2. CASE n # head
      <4>1. n < head
        BY <2>1, <2>3, <3>2, LineTypes
      <4>2. ring[Slot(n)] <= Newest /\ \A i \in 1 .. Len(err) : err[i] < ring[Slot(n)]
        BY <2>3, <4>1 DEF Order
      <4>3. QED
        BY <2>2, <4>2, LineTypes
    <3>3. QED
      BY <3>1, <3>2
  <2>4. ASSUME NEW m \in Nat, NEW n \in Nat, Out <= m, m < n, n < head'
        PROVE  ring[Slot(m)] < ring[Slot(n)]
    <3>1. CASE n = head
      BY <2>1, <2>2, <2>4, <3>1, LineTypes DEF Order
    <3>2. CASE n # head
      BY <2>1, <2>4, <3>2, LineTypes DEF Order
    <3>3. QED
      BY <3>1, <3>2
  <2>5. \A i \in 1 .. Len(err) : err[i] <= line
    BY <2>2, LineTypes DEF Order
  <2>6. QED
    BY <2>1, <2>2, <2>3, <2>4, <2>5, <1>0, LineTypes DEF Order
<1>5. CASE Emit
  <2>1. /\ Out = tail /\ Out' = tail + 1 /\ tail < head /\ wtail = tail
        /\ UNCHANGED <<ring, head, line, mpc, mhead>>
    BY <1>5, LineTypes DEF Emit, Counters, Out, TypeOK, shared, main
  <2>2. err' = Append(err, ring[Slot(tail)])
    BY <1>5, <2>1 DEF Emit
  <2>3. Newest' = Newest /\ Newest \in Int
    BY <2>1, LineTypes DEF Newest, Logging
  <2>4. ring[Slot(tail)] <= Newest /\ \A i \in 1 .. Len(err) : err[i] < ring[Slot(tail)]
    BY <2>1, LineTypes DEF Order
  <2>5. \A n \in Nat : tail + 1 <= n /\ n < head => ring[Slot(tail)] < ring[Slot(n)]
    BY <2>1, LineTypes DEF Order
  <2>6. /\ Len(err') = Len(err) + 1 /\ err'[Len(err) + 1] = ring[Slot(tail)]
        /\ \A i \in 1 .. Len(err) : err'[i] = err[i]
    BY <2>2, LineTypes
  <2>7. \A i \in 1 .. Len(err') : \/ i \in 1 .. Len(err) /\ err'[i] = err[i]
                                  \/ i = Len(err) + 1 /\ err'[i] = ring[Slot(tail)]
    BY <2>6, LineTypes
  <2>8. ASSUME NEW i \in 1 .. Len(err')
        PROVE  /\ err'[i] <= Newest
               /\ \A j \in 1 .. Len(err') : i < j => err'[i] < err'[j]
               /\ \A n \in Nat : tail + 1 <= n /\ n < head => err'[i] < ring[Slot(n)]
    <3>1. CASE i \in 1 .. Len(err) /\ err'[i] = err[i]
      <4>1. err[i] <= Newest
        BY <3>1 DEF Order
      <4>2. ASSUME NEW j \in 1 .. Len(err'), i < j PROVE err[i] < err'[j]
        BY <2>4, <2>7, <3>1, <4>2 DEF Order
      <4>3. ASSUME NEW n \in Nat, tail + 1 <= n, n < head PROVE err[i] < ring[Slot(n)]
        <5>1. Out <= n
          BY <2>1, <4>3, LineTypes
        <5>2. QED
          BY <3>1, <4>3, <5>1 DEF Order
      <4>4. QED
        BY <3>1, <4>1, <4>2, <4>3
    <3>2. CASE i = Len(err) + 1 /\ err'[i] = ring[Slot(tail)]
      BY <2>4, <2>5, <2>6, <3>2, LineTypes
    <3>3. QED
      BY <2>7, <3>1, <3>2
  <2>9. \A n \in Nat : tail + 1 <= n /\ n < head => ring[Slot(n)] <= Newest
    BY <2>1, LineTypes DEF Order
  <2>10. \A m, n \in Nat : tail + 1 <= m /\ m < n /\ n < head => ring[Slot(m)] < ring[Slot(n)]
    BY <2>1, LineTypes DEF Order
  <2>11. (mpc = "publish" => ring[Slot(mhead)] = line)'
    BY <2>1 DEF Order, Slot
  <2>12. QED
    BY <2>1, <2>3, <2>8, <2>9, <2>10, <2>11, <1>0 DEF Order
<1>6. CASE Free
  <2>1. Out' = Out
    BY <1>6 DEF Free, Counters, Out
  <2>2. QED
    BY <1>6, <2>1, OrderKept DEF Free, main, stderr
<1>7. CASE Drop
  BY <1>7, OrderKept DEF Drop, Out, writer, stderr
<1>8. CASE StartWriter \/ SetRinged \/ StopWriter \/ Join
  <2>1. Out' = Out
    BY <1>8 DEF StartWriter, SetRinged, StopWriter, Join, Turns, Out, shared, writer
  <2>2. QED
    BY <1>8, <2>1, OrderKept
    DEF StartWriter, SetRinged, StopWriter, Join, shared, stderr
<1>9. CASE Load \/ Report \/ Check
  <2>1. Out' = Out
    BY <1>9 DEF Load, Report, Check, Out, shared
  <2>2. QED
    BY <1>9, <2>1, OrderKept DEF Load, Report, Check, shared, main, stderr
<1>10. CASE UNCHANGED vars
  BY <1>10, OrderKept DEF vars, shared, main, writer, stderr, Out
<1>11. QED
  BY <1>1, <1>2, <1>3, <1>4, <1>5, <1>6, <1>7, <1>8, <1>9, <1>10
  DEF Next, MainStep, WriterStep

LEMMA Invariant == Spec => []IInv
<1>1. IInv /\ [Next]_vars => IInv'
  BY TypeInv, TurnsInv, CountersInv, AccountsInv, OrderInv DEF IInv
<1>2. QED
  BY <1>1, InitInv, PTL DEF Spec

-----------------------------------------------------------------------------
(* The ring never holds more lines than it has slots, and every variable   *)
(* of the two threads has its type (hm2_log, log_writer).                  *)
THEOREM TypeCorrect == Spec => []TypeOK
<1>1. IInv => TypeOK
  BY DEF IInv
<1>2. QED
  BY <1>1, Invariant, PTL

(* hm2_log never writes the slot that log_writer is putting out.           *)
THEOREM SlotsUnshared == Spec => []NoSlotRace
<1>1. IInv => NoSlotRace
  <2> SUFFICES ASSUME IInv, mpc = "copy", wpc = "drain", wtail # whead
               PROVE  Slot(mhead) # Slot(wtail)
    BY DEF NoSlotRace
  <2>1. wtail < head /\ head < wtail + Slots /\ mhead = head /\ wtail \in Nat /\ head \in Nat
    BY LogAssumption DEF IInv, Counters, TypeOK
  <2>2. QED
    BY <2>1, SlotsApart
<1>2. QED
  BY <1>1, Invariant, PTL

(* Lines reach stderr in the order of the hm2_log calls, each once.        *)
THEOREM LinesInOrder == Spec => []InOrder
<1>1. IInv => InOrder
  BY LineTypes DEF IInv, Order, InOrder
<1>2. QED
  BY <1>1, Invariant, PTL

(* After log_from_ring each line is out or counted, and told up to one.    *)
THEOREM NothingLost == Spec => []NothingUnaccounted
<1>1. IInv => NothingUnaccounted
  <2> SUFFICES ASSUME IInv, mpc = "ending" PROVE NothingUnaccounted
    BY DEF NothingUnaccounted
  <2>1. head = Out
    BY LineTypes, LogAssumption DEF IInv, Turns, Counters, Out
  <2>2. QED
    BY <2>1, LineTypes DEF IInv, TypeOK, Turns, Accounts, Logging, NothingUnaccounted
<1>2. QED
  BY <1>1, Invariant, PTL

-----------------------------------------------------------------------------
(* The lines that wait are a sequence, from the first not put out to the   *)
(* last below head.                                                        *)
LEMMA WaitingLines ==
  ASSUME IInv
  PROVE  /\ Out <= head /\ head - Out \in Nat
         /\ Waiting \in Seq(Int) /\ Len(Waiting) = head - Out
         /\ \A i \in 1 .. head - Out :
              Out + i - 1 \in Nat /\ Waiting[i] = ring[Slot(Out + i - 1)]
<1>1. Out <= head /\ head - Out \in Nat
  BY LineTypes DEF IInv, TypeOK, Counters, Out
<1>2. \A i \in 1 .. head - Out : Out + i - 1 \in Nat
  BY <1>1, LineTypes
<1>3. \A i \in 1 .. head - Out : ring[Slot(Out + i - 1)] \in Int
  BY <1>2, LineTypes
<1>4. Waiting \in [1 .. head - Out -> Int]
  BY <1>3 DEF Waiting
<1>5. Waiting \in Seq(Int) /\ Len(Waiting) = head - Out
  <2>1. Waiting \in Seq(Int)
    BY <1>1, <1>4, SeqDef
  <2>2. DOMAIN Waiting = 1 .. head - Out
    BY <1>4
  <2>3. QED
    BY <1>1, <2>1, <2>2, LenProperties
<1>6. QED
  BY <1>1, <1>2, <1>5 DEF Waiting

(* What moves neither end and fills no slot between them keeps the queue.  *)
LEMMA WaitingKept ==
  ASSUME IInv, Out' = Out, head' = head,
         \A n \in Nat : Out <= n /\ n < head => ring'[Slot(n)] = ring[Slot(n)]
  PROVE  Waiting' = Waiting
<1>1. ASSUME NEW i \in 1 .. head - Out
      PROVE  ring'[Slot(Out + i - 1)] = ring[Slot(Out + i - 1)]
  <2>1. Out + i - 1 \in Nat /\ Out <= Out + i - 1 /\ Out + i - 1 < head
    BY WaitingLines, LineTypes
  <2>2. QED
    BY <2>1
<1>2. QED
  BY <1>1 DEF Waiting, Slot

LEMMA InitRefines == Init => Abstract!Init
<1> SUFFICES ASSUME Init PROVE Abstract!Init
  OBVIOUS
<1>1. head = 0 /\ Out = 0 /\ Pending = "none" /\ IInv
  BY InitInv DEF Init, Out, Pending
<1>2. Waiting = <<>>
  BY <1>1, WaitingLines, EmptySeq
<1>3. QED
  BY <1>2, <1>1 DEF Init, Abstract!Init

(* A step that logs nothing, puts nothing out and leaves the queue and the *)
(* newest line's fate alone is none of the queue's.                        *)
LEMMA Stutters ==
  ASSUME IInv, UNCHANGED <<ring, head, line, err, dropped>>, Out' = Out, Pending' = Pending
  PROVE  UNCHANGED Abstract!vars
<1>1. Waiting' = Waiting
  BY WaitingKept
<1>2. QED
  BY <1>1 DEF Abstract!vars

LEMMA StepRefines == IInv /\ [Next]_vars => [Abstract!Next]_(Abstract!vars)
<1> SUFFICES ASSUME IInv, [Next]_vars PROVE [Abstract!Next]_(Abstract!vars)
  OBVIOUS
<1>1. CASE LogDirect
  <2>1. /\ mpc' = mpc /\ mpc \in Idle /\ Pending = "none" /\ Pending' = "none"
        /\ line' = line + 1 /\ err' = Append(err, line')
        /\ UNCHANGED <<ring, head, dropped>> /\ Out' = Out
    BY <1>1 DEF LogDirect, Idle, Pending, Out, shared, writer
  <2>2. head = Out
    BY <1>1, LineTypes, LogAssumption DEF LogDirect, Idle, IInv, Turns, Counters, Out
  <2>3. Waiting = <<>> /\ Waiting' = Waiting
    BY <2>1, <2>2, WaitingLines, WaitingKept, LineTypes, EmptySeq
  <2>4. QED
    BY <2>1, <2>3 DEF Abstract!Next, Abstract!Direct
<1>2. CASE LogRinged
  <2>1. /\ mpc = "cycling" /\ line' = line + 1
        /\ mpc' = IF Full THEN "drop" ELSE "copy"
        /\ UNCHANGED <<ring, head, err, dropped>> /\ Out' = Out
    BY <1>2 DEF LogRinged, Out, shared, writer, stderr
  <2>2. Waiting' = Waiting
    BY <2>1, WaitingKept
  <2>3. Pending = "none" /\ Pending' = IF Full THEN "drop" ELSE "put"
    BY <2>1 DEF Pending
  <2>4. Full => Len(Waiting) + 1 >= Slots
    BY WaitingLines, LineTypes, LogAssumption DEF Full, Out
  <2>5. QED
    BY <2>1, <2>2, <2>3, <2>4 DEF Abstract!Next, Abstract!Call
<1>3. CASE Drop
  <2>1. /\ UNCHANGED <<ring, head, line, err>> /\ Out' = Out /\ dropped' = dropped + 1
        /\ Pending = "drop" /\ Pending' = "none"
    BY <1>3 DEF Drop, Pending, Out, writer, stderr
  <2>2. Waiting' = Waiting
    BY <2>1, WaitingKept
  <2>3. QED
    BY <2>1, <2>2 DEF Abstract!Next, Abstract!Drop
<1>4. CASE Copy
  <2>1. /\ mhead = head /\ head < tail + Slots /\ tail <= Out
        /\ UNCHANGED <<head, line, err, dropped>> /\ Out' = Out
        /\ Pending = "put" /\ Pending' = "put"
        /\ ring' = [ring EXCEPT ![Slot(head)] = line]
    BY <1>4, LineTypes DEF Copy, IInv, Counters, Pending, Out, writer, stderr
  <2>2. ASSUME NEW n \in Nat, Out <= n, n < head
        PROVE  ring'[Slot(n)] = ring[Slot(n)]
    <3>1. n < head /\ head < n + Slots
      BY <2>1, <2>2, LineTypes, LogAssumption
    <3>2. Slot(n) # Slot(head) /\ Slot(n) \in 0 .. Slots - 1
      BY <3>1, LineTypes, SlotsApart, Slotted
    <3>3. QED
      BY <2>1, <3>2 DEF IInv, TypeOK
  <2>3. Waiting' = Waiting
    BY <2>1, <2>2, WaitingKept
  <2>4. QED
    BY <2>1, <2>3 DEF Abstract!vars
<1>5. CASE PublishLine
  <2>1. /\ head' = head + 1 /\ Out' = Out /\ UNCHANGED <<ring, line, err, dropped>>
        /\ Pending = "put" /\ Pending' = "none" /\ ring[Slot(head)] = line
        /\ head < tail + Slots /\ tail <= Out
    BY <1>5, LineTypes DEF PublishLine, IInv, Counters, Order, Pending, Out, writer, stderr
  <2>2. Len(Waiting) < Slots
    BY <2>1, WaitingLines, LineTypes, LogAssumption
  <2>3. Waiting' = [i \in 1 .. (head + 1) - Out |-> ring[Slot(Out + i - 1)]]
    BY <2>1 DEF Waiting, Slot
  <2>4. Waiting' = Append(Waiting, line)
    <3> DEFINE put == Append(Waiting, line)
    <3>1. /\ put \in Seq(Int) /\ Len(put) = (head + 1) - Out
          /\ put[(head + 1) - Out] = line
          /\ \A i \in 1 .. head - Out : put[i] = Waiting[i]
      BY WaitingLines, LineTypes
    <3>2. ASSUME NEW i \in 1 .. (head + 1) - Out
          PROVE  put[i] = ring[Slot(Out + i - 1)]
      <4>1. CASE i \in 1 .. head - Out
        BY <3>1, <4>1, WaitingLines
      <4>2. CASE i = (head + 1) - Out
        <5>1. Out + i - 1 = head
          BY <4>2, WaitingLines, LineTypes
        <5>2. QED
          BY <2>1, <3>1, <4>2, <5>1
      <4>3. i \in 1 .. head - Out \/ i = (head + 1) - Out
        <5>1. head \in Int /\ Out \in Int
          BY LineTypes
        <5>2. QED
          BY <5>1
      <4>4. QED
        BY <4>1, <4>2, <4>3
    <3>3. put = [i \in 1 .. (head + 1) - Out |-> put[i]]
      BY <3>1, LenProperties
    <3> HIDE DEF put
    <3>4. put = Waiting'
      BY <2>3, <3>2, <3>3
    <3>5. QED
      BY <3>4 DEF put
  <2>5. QED
    BY <2>1, <2>2, <2>4 DEF Abstract!Next, Abstract!Put
<1>6. CASE Emit
  <2>1. /\ Out = tail /\ Out' = tail + 1 /\ tail < head /\ wtail = tail
        /\ UNCHANGED <<ring, head, line, dropped, mpc>> /\ Pending' = Pending
    BY <1>6, LineTypes DEF Emit, IInv, Counters, Out, TypeOK, Pending, shared, main
  <2>2. Waiting # <<>> /\ Head(Waiting) = Waiting[1] /\ Waiting[1] = ring[Slot(tail)]
    <3>1. 1 \in 1 .. head - Out /\ Out + 1 - 1 = tail
      BY <2>1, LineTypes
    <3>2. Len(Waiting) # 0 /\ Waiting[1] = ring[Slot(tail)]
      BY <3>1, WaitingLines, LineTypes
    <3>3. QED
      BY <3>2, EmptySeq
  <2>3. err' = Append(err, Head(Waiting))
    BY <1>6, <2>1, <2>2 DEF Emit
  <2>4. Waiting' = [i \in 1 .. head - (tail + 1) |-> ring[Slot(tail + 1 + i - 1)]]
    BY <2>1 DEF Waiting, Slot
  <2>5. Waiting' = Tail(Waiting)
    <3> DEFINE rest == Tail(Waiting)
    <3>1. /\ rest \in Seq(Int) /\ Len(rest) = head - (tail + 1)
          /\ \A i \in 1 .. Len(rest) : rest[i] = Waiting[i + 1]
      BY <2>1, <2>2, WaitingLines, LineTypes, HeadTailProperties
    <3>2. ASSUME NEW i \in 1 .. head - (tail + 1)
          PROVE  rest[i] = ring[Slot(tail + 1 + i - 1)]
      <4>1. i + 1 \in 1 .. head - Out /\ Out + (i + 1) - 1 = tail + 1 + i - 1
        BY <2>1, LineTypes
      <4>2. Waiting[i + 1] = ring[Slot(Out + (i + 1) - 1)]
        BY <4>1, WaitingLines
      <4>3. QED
        BY <3>1, <4>1, <4>2
    <3>3. rest = [i \in 1 .. head - (tail + 1) |-> rest[i]]
      BY <3>1, LenProperties
    <3> HIDE DEF rest
    <3>4. rest = Waiting'
      BY <2>4, <3>2, <3>3
    <3>5. QED
      BY <3>4 DEF rest
  <2>6. QED
    BY <2>1, <2>2, <2>3, <2>5 DEF Abstract!Next, Abstract!Leave
<1>7. CASE StartWriter \/ SetRinged \/ StopWriter \/ Join
  <2>1. Out' = Out /\ Pending' = Pending
    BY <1>7 DEF StartWriter, SetRinged, StopWriter, Join, IInv, Turns, Out, Pending,
                shared, writer
  <2>2. UNCHANGED <<ring, head, line, err, dropped>>
    BY <1>7 DEF StartWriter, SetRinged, StopWriter, Join, shared, stderr
  <2>3. QED
    BY <2>1, <2>2, Stutters
<1>8. CASE Load \/ Free \/ Report \/ Check
  <2>1. Out' = Out /\ Pending' = Pending
    BY <1>8 DEF Load, Free, Report, Check, IInv, Counters, Out, Pending, shared, main
  <2>2. UNCHANGED <<ring, head, line, err, dropped>>
    BY <1>8 DEF Load, Free, Report, Check, shared, main, stderr
  <2>3. QED
    BY <2>1, <2>2, Stutters
<1>9. CASE UNCHANGED vars
  BY <1>9, Stutters DEF vars, shared, main, writer, stderr, Out, Pending
<1>10. QED
  BY <1>1, <1>2, <1>3, <1>4, <1>5, <1>6, <1>7, <1>8, <1>9 DEF Next, MainStep, WriterStep

(* The ring, its two counters and its two threads implement a queue with   *)
(* room for LOG_SLOTS lines: hm2_log puts a line in whole or drops it, and *)
(* only when that queue is full but for the line that leaves it, and       *)
(* log_writer takes them out oldest first.                                 *)
THEOREM Implements == Spec => IsAQueue
  BY InitRefines, StepRefines, Invariant, PTL DEF Spec, IsAQueue, Abstract!Spec
=============================================================================
