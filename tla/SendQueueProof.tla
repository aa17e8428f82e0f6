--------------------------- MODULE SendQueueProof ---------------------------
(***************************************************************************)
(* Proofs about SendQueue, for every depth, payload size, message length   *)
(* and number of messages, over UDP and TCP.                               *)
(***************************************************************************)
EXTENDS SendQueue, SequenceTheorems, TLAPS

\* The points at which the send thread has elements in its hands.
Busy == {"append", "peek", "timed", "woken", "tryPop", "flush", "complete"}

\* The ring: the tail follows from head and count, and the element the send
\* thread is about to copy is still in its slot, just behind the head.
RingInv ==
    /\ tail = (head + count) % Depth
    /\ sender = "append" => Succ(held.slot) = head /\ held.elem = entries[held.slot]

\* What is in flight is in the hands of the send thread.
FlightInv == sender \in Busy <=> dequeued > 0

\* How the packet is built up.
PackInv ==
    /\ packedLen <= MaxPayload
    /\ sender \notin Busy \ {"complete"} => packed = << >> /\ packedLen = 0
    /\ sender = "append" =>
          /\ packedLen + HdrSize + held.elem.len <= MaxPayload
          /\ held.elem.more => packed = << >>
    /\ sender = "tryPop" => count > 0 /\ Packable(entries[head])
    /\ sender # "flush" => \A i \in DOMAIN packed : ~packed[i].more
    /\ \A i \in DOMAIN packed : packed[i].more => Len(packed) = 1

\* Who may start and stop the send thread.
ThreadInv ==
    /\ sender # "none" =>
          running \/ conn \in {"shutdown", "join"} \/ app \in {"shutdown", "join"}
    /\ app \in {"shutdown", "join", "closed"} => conn = "exited"
    /\ app = "closed" => sender = "none"

\* Once close has drained the queue nothing enters it any more.
DrainInv ==
    app = "fin" \/ (~Tcp /\ app \in {"stop", "shutdown", "join", "closed"}) => Drained

\* The inductive invariant.
Inv == TypeOK /\ Capacity /\ RingInv /\ FlightInv /\ PackInv /\ ThreadInv /\ DrainInv /\ InOrder

-----------------------------------------------------------------------------
\* Index arithmetic

\* An index that went past the end of the pool at most once is reduced by
\* one Depth.
LEMMA Wrap ==
    ASSUME NEW x \in 0 .. 2 * Depth - 1
    PROVE  x % Depth = IF x < Depth THEN x ELSE x - Depth
  BY DepthAssumption

\* Succ stays in the pool.
LEMMA SuccWrap ==
    ASSUME NEW i \in Slots
    PROVE  Succ(i) = (IF i + 1 < Depth THEN i + 1 ELSE 0) /\ Succ(i) \in Slots
  BY DepthAssumption, Wrap DEF Succ, Slots

\* Positions of the ring less than Depth apart are different slots.
LEMMA Apart ==
    ASSUME NEW h \in Slots, NEW a \in 0 .. Depth - 1, NEW b \in 0 .. Depth - 1, a # b
    PROVE  (h + a) % Depth # (h + b) % Depth
  <1>1. h + a \in 0 .. 2 * Depth - 1 /\ h + b \in 0 .. 2 * Depth - 1
    BY DepthAssumption DEF Slots
  <1>2. QED
    BY <1>1, Wrap, DepthAssumption DEF Slots

\* Position k from the slot after h is position k + 1 from h.
LEMMA Shift ==
    ASSUME NEW h \in Slots, NEW k \in 0 .. Depth - 1
    PROVE  (Succ(h) + k) % Depth = (h + k + 1) % Depth
  <1>1. CASE h + 1 < Depth
    BY <1>1, SuccWrap, DepthAssumption DEF Slots
  <1>2. CASE h + 1 = Depth
    <2>1. k % Depth = k
      BY Wrap, DepthAssumption
    <2>2. (Depth + k) % Depth = k
      <3>1. Depth + k \in 0 .. 2 * Depth - 1
        BY DepthAssumption
      <3>2. \A x \in 0 .. 2 * Depth - 1 : x >= Depth => x % Depth = x - Depth
        BY Wrap, DepthAssumption
      <3>3. QED
        BY <3>1, <3>2, DepthAssumption
    <2>3. h + k + 1 = Depth + k /\ Succ(h) + k = k
      BY <1>2, SuccWrap, DepthAssumption DEF Slots
    <2>4. QED
      BY <2>1, <2>2, <2>3
  <1>3. QED
    BY <1>1, <1>2, DepthAssumption DEF Slots

\* A position of the ring is a slot.
LEMMA InPool ==
    ASSUME NEW h \in Slots, NEW k \in 0 .. Depth
    PROVE  (h + k) % Depth \in Slots
  <1>1. h + k \in 0 .. 2 * Depth - 1
    BY DepthAssumption DEF Slots
  <1>2. QED
    BY <1>1, Wrap, DepthAssumption DEF Slots

\* The same as Wrap, for a position of the ring.
LEMMA WrapSum ==
    ASSUME NEW h \in Slots, NEW k \in 0 .. Depth
    PROVE  (h + k) % Depth = IF h + k < Depth THEN h + k ELSE h + k - Depth
  <1>1. h + k \in 0 .. 2 * Depth - 1
    BY DepthAssumption DEF Slots
  <1>2. QED
    BY <1>1, Wrap, DepthAssumption DEF Slots

\* The slot just behind the head is the last one a full ring takes.
LEMMA BehindHead ==
    ASSUME NEW h \in Slots, NEW k \in 0 .. Depth - 2, NEW s \in Slots, Succ(s) = h
    PROVE  (h + k) % Depth # s
  <1>1. h = IF s + 1 < Depth THEN s + 1 ELSE 0
    BY SuccWrap
  <1>2. (h + k) % Depth = IF h + k < Depth THEN h + k ELSE h + k - Depth
    BY WrapSum, DepthAssumption
  <1>3. (IF h + k < Depth THEN h + k ELSE h + k - Depth) # s
    BY <1>1, DepthAssumption DEF Slots
  <1>4. QED
    BY <1>2, <1>3

\* The position after position k is position k + 1.
LEMMA NextPosition ==
    ASSUME NEW h \in Slots, NEW k \in 0 .. Depth - 1
    PROVE  Succ((h + k) % Depth) = (h + (k + 1)) % Depth
  <1>1. (h + k) % Depth \in Slots
    BY InPool, DepthAssumption
  <1>2. (h + k) % Depth = IF h + k < Depth THEN h + k ELSE h + k - Depth
    BY WrapSum, DepthAssumption
  <1>3. k + 1 \in 0 .. Depth
    BY DepthAssumption
  <1>4. (h + (k + 1)) % Depth = IF h + (k + 1) < Depth THEN h + (k + 1) ELSE h + (k + 1) - Depth
    BY <1>3, WrapSum
  <1>5. QED
    BY <1>1, <1>2, <1>4, SuccWrap, DepthAssumption DEF Slots

-----------------------------------------------------------------------------
\* The contents of the ring as a sequence

RingOf(en, h, n) == [i \in 1 .. n |-> en[(h + (i - 1)) % Depth]]

\* Concatenation, for sequences of elements.
LEMMA Reassociate ==
    \A a, b, c \in Seq(Elems) : (a \o b) \o c = a \o (b \o c)
  BY ConcatAssociative

\* The ring is a sequence of elements.
LEMMA RingSeq ==
    ASSUME NEW en \in [Slots -> Elems], NEW h \in Slots, NEW n \in 0 .. Depth
    PROVE  RingOf(en, h, n) \in Seq(Elems) /\ Len(RingOf(en, h, n)) = n
  <1>1. \A i \in 1 .. n : (h + (i - 1)) % Depth \in Slots
    BY InPool, DepthAssumption
  <1>2. \A i \in 1 .. n : en[(h + (i - 1)) % Depth] \in Elems
    BY <1>1
  <1>3. QED
    BY <1>2, DepthAssumption DEF RingOf

\* Writing the slot at the tail appends to the ring.
LEMMA RingPush ==
    ASSUME NEW en \in [Slots -> Elems], NEW h \in Slots, NEW n \in 0 .. Depth - 1,
           NEW e \in Elems
    PROVE  RingOf([en EXCEPT ![(h + n) % Depth] = e], h, n + 1) = Append(RingOf(en, h, n), e)
  <1> DEFINE new == [en EXCEPT ![(h + n) % Depth] = e]
  <1>1. (h + n) % Depth \in Slots
    BY InPool, DepthAssumption
  <1>2. new \in [Slots -> Elems]
    BY <1>1
  <1>3. RingOf(new, h, n + 1) \in Seq(Elems) /\ Len(RingOf(new, h, n + 1)) = n + 1
    <2>1. n + 1 \in 0 .. Depth
      BY DepthAssumption
    <2> HIDE DEF new
    <2>2. QED
      BY <1>2, <2>1, RingSeq
  <1>4. RingOf(en, h, n) \in Seq(Elems) /\ Len(RingOf(en, h, n)) = n
    BY RingSeq, DepthAssumption
  <1>5. ASSUME NEW i \in 1 .. n
        PROVE  RingOf(new, h, n + 1)[i] = RingOf(en, h, n)[i]
    <2>1. (h + (i - 1)) % Depth \in Slots
      BY InPool, DepthAssumption
    <2>2. (h + (i - 1)) % Depth # (h + n) % Depth
      BY Apart, DepthAssumption
    <2>3. QED
      BY <2>1, <2>2, DepthAssumption DEF RingOf
  <1>6. RingOf(new, h, n + 1)[n + 1] = e
    BY <1>1, DepthAssumption DEF RingOf
  <1>7. QED
    <2>1. Append(RingOf(en, h, n), e) \in Seq(Elems) /\ Len(Append(RingOf(en, h, n), e)) = n + 1
      BY <1>4, DepthAssumption
    <2>2. \A i \in 1 .. n + 1 : RingOf(new, h, n + 1)[i] = Append(RingOf(en, h, n), e)[i]
      <3> HIDE DEF new
      <3>1. /\ \A i \in 1 .. n : Append(RingOf(en, h, n), e)[i] = RingOf(en, h, n)[i]
            /\ Append(RingOf(en, h, n), e)[n + 1] = e
        BY <1>4, AppendProperties
      <3>2. \A i \in 1 .. n + 1 : i \in 1 .. n \/ i = n + 1
        BY DepthAssumption
      <3>3. QED
        BY <1>5, <1>6, <3>1, <3>2
    <2>3. QED
      BY <1>3, <2>1, <2>2, SeqEqual

\* The element at the head comes first.
LEMMA RingPop ==
    ASSUME NEW en \in [Slots -> Elems], NEW h \in Slots, NEW n \in 1 .. Depth
    PROVE  RingOf(en, h, n) = <<en[h]>> \o RingOf(en, Succ(h), n - 1)
  <1>1. Succ(h) \in Slots
    BY SuccWrap
  <1>2. RingOf(en, h, n) \in Seq(Elems) /\ Len(RingOf(en, h, n)) = n
    BY RingSeq, DepthAssumption
  <1>3. RingOf(en, Succ(h), n - 1) \in Seq(Elems) /\ Len(RingOf(en, Succ(h), n - 1)) = n - 1
    BY <1>1, RingSeq, DepthAssumption
  <1>4. RingOf(en, h, n)[1] = en[h]
    BY Wrap, DepthAssumption DEF RingOf, Slots
  <1>5. ASSUME NEW i \in 2 .. n
        PROVE  RingOf(en, h, n)[i] = RingOf(en, Succ(h), n - 1)[i - 1]
    <2>1. (Succ(h) + (i - 2)) % Depth = (h + (i - 2) + 1) % Depth
      BY Shift, DepthAssumption
    <2>2. h + (i - 2) + 1 = h + (i - 1) /\ (i - 1) - 1 = i - 2
      BY DepthAssumption DEF Slots
    <2>3. QED
      BY <2>1, <2>2, DepthAssumption DEF RingOf
  <1>6. <<en[h]>> \in Seq(Elems) /\ Len(<<en[h]>>) = 1
    OBVIOUS
  <1>7. /\ <<en[h]>> \o RingOf(en, Succ(h), n - 1) \in Seq(Elems)
        /\ Len(<<en[h]>> \o RingOf(en, Succ(h), n - 1)) = n
        /\ \A i \in 1 .. n : (<<en[h]>> \o RingOf(en, Succ(h), n - 1))[i] =
              IF i <= 1 THEN en[h] ELSE RingOf(en, Succ(h), n - 1)[i - 1]
    BY <1>3, <1>6, ConcatProperties, DepthAssumption
  <1>8. QED
    BY <1>2, <1>4, <1>5, <1>7, SeqEqual

-----------------------------------------------------------------------------
\* The invariant

\* The elements a call of potr_service_send cuts are queue elements.
LEMMA NextElemType ==
    ASSUME NEW c \in [id : Nat, rest : Nat, blocking : BOOLEAN]
    PROVE  NextElem(c) \in Elems /\ NextChunk(c) \in 0 .. c.rest
  BY PayloadAssumption DEF NextElem, NextChunk, Elems, MaxChunk

\* Where the application thread is after it queued an element.
LEMMA AfterPushPoints ==
    ASSUME NEW c \in [id : Nat, rest : Nat, blocking : BOOLEAN]
    PROVE  AfterPush(c) \in {"push", "drainLast", "idle"} /\ (c.blocking => AfterPush(c) # "idle")
  BY NextElemType DEF AfterPush, Elems

LEMMA RingType ==
    ASSUME TypeOK, count <= Depth
    PROVE  Ring \in Seq(Elems) /\ Len(Ring) = count
  <1>1. Ring = RingOf(entries, head, count)
    BY DEF Ring, RingOf
  <1>2. count \in 0 .. Depth
    BY DepthAssumption DEF TypeOK
  <1>3. QED
    BY <1>1, <1>2, RingSeq DEF TypeOK

\* What the send thread reads from the slot is the element it popped.
LEMMA HoldingType ==
    ASSUME TypeOK, RingInv
    PROVE  /\ Holding = IF sender = "append" THEN <<held.elem>> ELSE << >>
           /\ Holding \in Seq(Elems)
  <1>1. held.elem \in Elems
    BY DEF TypeOK
  <1>2. sender = "append" => [held.elem EXCEPT !.payload = entries[held.slot].payload] = held.elem
    BY <1>1 DEF RingInv, Elems
  <1>3. Holding = IF sender = "append" THEN <<held.elem>> ELSE << >>
    BY <1>2 DEF Holding
  <1>4. <<held.elem>> \in Seq(Elems) /\ << >> \in Seq(Elems)
    BY <1>1, SMTT(30)
  <1>5. QED
    BY <1>3, <1>4

\* A step that moves no element keeps the order.
LEMMA Kept ==
    ASSUME InOrder, UNCHANGED <<entries, head, count, held, packed, pushed, flushed>>,
           (sender = "append") <=> (sender' = "append")
    PROVE  InOrder'
  BY DEF InOrder, Ring, Holding

\* A step that leaves the queue and what the send thread has taken out of it
\* alone keeps all the invariant says of them.
LEMMA QueueKept ==
    ASSUME Inv, UNCHANGED <<queueVars, held, packed, packedLen, dequeued, pushed, flushed>>,
           \/ sender' = sender
           \/ sender' = SignalNotEmpty(sender)
           \/ {sender, sender'} \subseteq SenderPoints \ Busy
    PROVE  Capacity' /\ RingInv' /\ FlightInv' /\ PackInv' /\ InOrder'
  <1>1. (sender = "append") <=> (sender' = "append")
    BY DEF SignalNotEmpty, Busy
  <1>2. InOrder'
    BY <1>1, Kept DEF Inv, queueVars
  <1>3. Capacity' /\ RingInv'
    BY <1>1 DEF Inv, Capacity, RingInv, queueVars, Succ
  <1>4. FlightInv'
    BY DEF Inv, TypeOK, SenderPoints, FlightInv, Busy, SignalNotEmpty
  <1>5. PackInv'
    BY DEF Inv, TypeOK, SenderPoints, PackInv, Busy, SignalNotEmpty, Packable, queueVars
  <1>6. QED
    BY <1>2, <1>3, <1>4, <1>5

LEMMA InitInv == Init => Inv
  <1> SUFFICES ASSUME Init PROVE Inv
    OBVIOUS
  <1>1. TypeOK
    BY DepthAssumption, PayloadAssumption, ModeAssumption
       DEF Init, TypeOK, Slots, Elems, NoElem, MaxChunk, SenderPoints, AppPoints, ConnPoints
  <1>2. Capacity /\ FlightInv
    BY DepthAssumption, ModeAssumption DEF Init, Capacity, FlightInv, Busy
  <1>3. ThreadInv /\ DrainInv
    BY ModeAssumption, Zenon DEF Init, ThreadInv, DrainInv
  <1>4. RingInv
    BY DepthAssumption, ModeAssumption DEF Init, RingInv
  <1>5. PackInv
    BY PayloadAssumption, ModeAssumption DEF Init, PackInv, Busy
  <1>6. InOrder
    <2>1. Holding = << >>
      BY ModeAssumption DEF Init, Holding
    <2>2. Ring = << >>
      BY SMTT(30) DEF Init, Ring
    <2>3. QED
      BY <2>1, <2>2 DEF Init, InOrder
  <1>7. QED
    BY <1>1, <1>2, <1>3, <1>4, <1>5, <1>6 DEF Inv

\* The steps that only move the application or the connect thread.
LEMMA ControlStep ==
    ASSUME Inv,
           \/ SendRefused \/ SendStep \/ PushFull \/ WaitDrained
           \/ CloseBegin \/ CloseFin \/ CloseStop \/ CloseShutdown \/ CloseJoin
           \/ ConnAttempt \/ ConnStep \/ LinkChange \/ SpuriousWake
    PROVE  Inv'
  <1> DEFINE Quiet == /\ UNCHANGED <<queueVars, held, packed, packedLen, dequeued, pushed, flushed>>
                      /\ \/ sender' = sender
                         \/ sender' = SignalNotEmpty(sender)
                         \/ {sender, sender'} \subseteq SenderPoints \ Busy
             Rest == TypeOK' /\ ThreadInv' /\ DrainInv'
  <1> SUFFICES Quiet /\ Rest
    BY QueueKept DEF Inv
  <1> USE DEF Inv, TypeOK, AppPoints, ParkedPoints, senderVars, appVars
  <1>1. CASE SendRefused
    BY <1>1 DEF SendRefused, ThreadInv, DrainInv, Drained, queueVars
  <1>2. CASE SendStep
    BY <1>2, MsgAssumption DEF SendStep, SendBegin, ThreadInv, DrainInv, Drained, queueVars
  <1>3. CASE PushFull
    BY <1>3 DEF PushFull, ThreadInv, DrainInv, Drained, queueVars
  <1>4. CASE WaitDrained
    BY <1>4 DEF WaitDrained, DrainTests, AfterDrain, Parked, ThreadInv, DrainInv, Drained, queueVars
  <1>5. CASE CloseBegin
    BY <1>5 DEF CloseBegin, ThreadInv, DrainInv, Drained, queueVars
  <1>6. CASE CloseFin
    BY <1>6 DEF CloseFin, ThreadInv, DrainInv, Drained, queueVars
  <1>7. CASE CloseStop
    BY <1>7 DEF CloseStop, ThreadInv, DrainInv, Drained, queueVars
  <1>8. CASE CloseShutdown
    BY <1>8 DEF CloseShutdown, ShutdownQueue, SignalNotEmpty, SenderPoints, ThreadInv, DrainInv,
                Drained, queueVars
  <1>9. CASE CloseJoin
    BY <1>9 DEF CloseJoin, SenderPoints, Busy, ThreadInv, DrainInv, Drained, queueVars
  <1>10. CASE ConnAttempt
    BY <1>10 DEF ConnAttempt, ConnPoints, ThreadInv, DrainInv, Drained, queueVars
  <1>11. CASE ConnStep
    <2>1. CASE ConnFailed
      BY <2>1 DEF ConnFailed, ConnPoints, ThreadInv, DrainInv, Drained, queueVars
    <2>2. CASE ConnStart
      <3>1. sender = "none"
        BY <2>2 DEF ConnStart, ThreadInv
      <3>2. QED
        BY <2>2, <3>1 DEF ConnStart, ConnPoints, SenderPoints, Busy, ThreadInv, DrainInv, Drained,
                          queueVars
    <2>3. CASE ConnStarted
      BY <2>3 DEF ConnStarted, ConnPoints, ThreadInv, DrainInv, Drained, queueVars
    <2>4. CASE ConnStop
      BY <2>4, ZenonT(40) DEF ConnStop, ConnPoints, ThreadInv, DrainInv, Drained, queueVars
    <2>5. CASE ConnShutdown
      BY <2>5 DEF ConnShutdown, ConnPoints, ShutdownQueue, SignalNotEmpty, SignalNotFull,
                  SenderPoints, ThreadInv, DrainInv, Drained, queueVars
    <2>6. CASE ConnJoin
      BY <2>6 DEF ConnJoin, ConnPoints, SenderPoints, Busy, ThreadInv, DrainInv, Drained, queueVars
    <2>7. CASE ConnExit
      BY <2>7 DEF ConnExit, ConnPoints, ThreadInv, DrainInv, Drained, queueVars
    <2>8. QED
      BY <1>11, <2>1, <2>2, <2>3, <2>4, <2>5, <2>6, <2>7 DEF ConnStep
  <1>12. CASE LinkChange
    BY <1>12 DEF LinkChange, ThreadInv, DrainInv, Drained, queueVars
  <1>13. CASE SpuriousWake
    BY <1>13 DEF SpuriousWake, SignalNotEmpty, SignalNotFull, BroadcastDrained, Unparked,
                 SenderPoints, ThreadInv, DrainInv, Drained, queueVars
  <1>14. QED
    BY <1>1, <1>2, <1>3, <1>4, <1>5, <1>6, <1>7, <1>8, <1>9, <1>10, <1>11, <1>12, <1>13

\* potr_internal_send_queue_push_wait.  The slot at the tail is neither in
\* the ring nor the one the send thread reads from, because a slot in
\* flight counts against the depth.
LEMMA PushStep ==
    ASSUME Inv, Push
    PROVE  Inv'
  <1> DEFINE e == NextElem(cur)
  <1> USE DEF Inv
  <1>1. e \in Elems /\ NextChunk(cur) \in 0 .. cur.rest
    BY NextElemType DEF TypeOK
  <1>2. /\ count \in 0 .. Depth - 1 /\ inflight = dequeued
        /\ sender = "append" => count \in 0 .. Depth - 2
    BY DepthAssumption, SMTT(30) DEF Push, Full, TypeOK, Capacity, FlightInv, Busy
  <1>3. (sender = "append") <=> (sender' = "append")
    BY DEF Push, SignalNotEmpty
  <1>4. tail = (head + count) % Depth /\ tail' = (head' + count') % Depth
    BY <1>2, NextPosition DEF Push, RingInv, TypeOK
  <1>5. sender = "append" => held.slot # tail
    <2> SUFFICES ASSUME sender = "append" PROVE held.slot # tail
      OBVIOUS
    <2>1. held.slot \in Slots /\ head \in Slots /\ Succ(held.slot) = head
      BY DEF TypeOK, RingInv
    <2>2. QED
      BY <1>2, <1>4, <2>1, BehindHead
  <1>6. sender' = "append" => held'.slot = held.slot /\ entries'[held.slot] = entries[held.slot]
    BY <1>3, <1>5 DEF Push, TypeOK
  <1>7. TypeOK'
    <2>1. sender' \in SenderPoints
      BY DEF Push, SignalNotEmpty, SenderPoints, TypeOK
    <2>2. app' \in AppPoints /\ ret' \in {"none", "OK", "CANCELED", "DISCONNECTED"}
      BY <1>1, AfterPushPoints, SMTT(30) DEF Push, AppPoints, TypeOK
    <2>3. cur' \in [id : Nat, rest : Nat, blocking : BOOLEAN]
      <3>1. cur.rest - NextChunk(cur) \in Nat
        BY <1>1 DEF TypeOK
      <3>2. QED
        BY <3>1 DEF Push, TypeOK
    <2>4. entries' \in [Slots -> Elems] /\ pushed' \in Seq(Elems) /\ tail' \in Slots
      BY <1>1, SuccWrap DEF Push, TypeOK
    <2>5. QED
      BY <2>1, <2>2, <2>3, <2>4 DEF Push, TypeOK
  <1>8. Capacity'
    BY DepthAssumption DEF Push, Full, Capacity, TypeOK
  <1>9. RingInv'
    BY <1>3, <1>4, <1>6 DEF Push, RingInv
  <1>10. FlightInv'
    BY DEF Push, FlightInv, Busy, SignalNotEmpty, TypeOK, SenderPoints
  <1>11. PackInv'
    <2>1. sender = "tryPop" => entries'[head] = entries[head]
      <3> SUFFICES ASSUME sender = "tryPop" PROVE entries'[head] = entries[head]
        OBVIOUS
      <3>1. (head + 0) % Depth # (head + count) % Depth
        BY <1>2, Apart, DepthAssumption DEF PackInv, TypeOK
      <3>2. (head + 0) % Depth = head
        <4>1. head \in 0 .. 2 * Depth - 1 /\ head < Depth /\ head + 0 = head
          BY DepthAssumption DEF TypeOK, Slots
        <4>2. QED
          BY <4>1, Wrap
      <3>3. QED
        BY <1>4, <3>1, <3>2 DEF Push, TypeOK
    <2>2. QED
      BY <2>1, SMTT(30) DEF Push, PackInv, Packable, Busy, SignalNotEmpty, TypeOK, SenderPoints
  <1>12. ThreadInv' /\ DrainInv'
    BY AfterPushPoints DEF Push, ThreadInv, DrainInv, SignalNotEmpty, TypeOK, SenderPoints
  <1>13. InOrder'
    <2>1. Ring' = Append(Ring, e)
      <3>1. Ring = RingOf(entries, head, count) /\ Ring' = RingOf(entries', head', count')
        BY DEF Ring, RingOf
      <3>2. RingOf([entries EXCEPT ![(head + count) % Depth] = e], head, count + 1)
               = Append(RingOf(entries, head, count), e)
        <4> HIDE DEF e
        <4>1. entries \in [Slots -> Elems] /\ head \in Slots
          BY DEF TypeOK
        <4>2. QED
          BY <1>1, <1>2, <4>1, RingPush
      <3>3. QED
        BY <1>4, <3>1, <3>2 DEF Push
    <2>2. Holding' = Holding
      BY <1>3, <1>6 DEF Push, Holding
    <2>3. Ring \in Seq(Elems) /\ Holding \in Seq(Elems)
      BY <1>2, RingType, HoldingType, DepthAssumption
    <2>4. flushed \o packed \o Holding \in Seq(Elems)
      BY <2>3 DEF TypeOK
    <2>5. (flushed \o packed \o Holding) \o Append(Ring, e) =
             Append((flushed \o packed \o Holding) \o Ring, e)
      BY <1>1, <2>3, <2>4, SMTT(30)
    <2>6. QED
      BY <2>1, <2>2, <2>5 DEF Push, InOrder
  <1>14. QED
    BY <1>7, <1>8, <1>9, <1>10, <1>11, <1>12, <1>13

\* pop and try_pop take the head of the ring into the hands of the send
\* thread.
LEMMA PopKeeps ==
    ASSUME Inv, sender # "append", count > 0, PopHead, sender' = "append",
           UNCHANGED <<entries, tail, packed, flushed, pushed>>
    PROVE  /\ held' \in [slot : Slots, elem : Elems] /\ head' \in Slots
           /\ count' \in Nat /\ inflight' \in Nat /\ count' + inflight' <= Depth
           /\ RingInv' /\ InOrder'
  <1> USE DEF Inv
  <1>1. count \in 1 .. Depth /\ count - 1 \in 0 .. Depth - 1 /\ head \in Slots
        /\ entries \in [Slots -> Elems]
    BY DepthAssumption DEF TypeOK, Capacity
  <1>2. head' \in Slots /\ held' \in [slot : Slots, elem : Elems]
    BY <1>1, SuccWrap DEF PopHead
  <1>3. count' \in Nat /\ inflight' \in Nat /\ count' + inflight' <= Depth
    BY <1>1, DepthAssumption DEF PopHead, TypeOK, Capacity
  <1>4. RingInv'
    <2>1. (Succ(head) + (count - 1)) % Depth = (head + (count - 1) + 1) % Depth
      BY <1>1, Shift
    <2>2. head + (count - 1) + 1 = head + count
      BY <1>1, DepthAssumption DEF Slots
    <2>3. QED
      BY <2>1, <2>2 DEF PopHead, RingInv
  <1>5. Ring = <<entries[head]>> \o Ring'
    <2>1. Ring = RingOf(entries, head, count) /\ Ring' = RingOf(entries, Succ(head), count - 1)
      BY DEF Ring, RingOf, PopHead
    <2>2. QED
      BY <1>1, <2>1, RingPop
  <1>6. Holding = << >> /\ Holding' = <<entries[head]>>
    <2>1. [entries[head] EXCEPT !.payload = entries[head].payload] = entries[head]
      BY <1>1 DEF Elems
    <2>2. QED
      BY <1>1, <2>1 DEF Holding, PopHead
  <1>7. InOrder'
    <2>1. flushed \o packed \in Seq(Elems) /\ <<entries[head]>> \in Seq(Elems)
      BY <1>1 DEF TypeOK
    <2>2. Ring' \in Seq(Elems)
      <3>1. Ring' = RingOf(entries, Succ(head), count - 1)
        BY DEF Ring, RingOf, PopHead
      <3>2. Succ(head) \in Slots /\ count - 1 \in 0 .. Depth
        BY <1>1, SuccWrap, DepthAssumption
      <3>3. QED
        BY <1>1, <3>1, <3>2, RingSeq
    <2>3. (flushed \o packed) \o << >> = flushed \o packed
      BY <2>1
    <2>4. (flushed \o packed) \o (<<entries[head]>> \o Ring')
             = ((flushed \o packed) \o <<entries[head]>>) \o Ring'
      <3> DEFINE a == flushed \o packed  b == <<entries[head]>>  c == Ring'
      <3>1. a \in Seq(Elems) /\ b \in Seq(Elems) /\ c \in Seq(Elems)
        BY <2>1, <2>2
      <3>2. a \o (b \o c) = (a \o b) \o c
        <4> HIDE DEF a, b, c
        <4>1. QED
          BY <3>1, Reassociate, ZenonT(40)
      <3>3. QED
        BY <3>2
    <2>5. QED
      BY <1>5, <1>6, <2>3, <2>4, SMTT(30) DEF InOrder
  <1>8. QED
    BY <1>2, <1>3, <1>4, <1>7

\* potr_internal_send_queue_pop
LEMMA PopStep ==
    ASSUME Inv, Pop
    PROVE  Inv'
  <1> USE DEF Inv
  <1>1. CASE count > 0 /\ PopHead /\ sender' = "append" /\ dequeued' = 1
    <2>1. /\ held' \in [slot : Slots, elem : Elems] /\ head' \in Slots
          /\ count' \in Nat /\ inflight' \in Nat /\ count' + inflight' <= Depth
          /\ RingInv' /\ InOrder'
      BY <1>1, PopKeeps DEF Pop
    <2>2. inflight = 0 /\ dequeued = 0 /\ packed = << >> /\ packedLen = 0
      BY DEF Pop, Capacity, FlightInv, PackInv, Busy, TypeOK
    <2>3. TypeOK'
      BY <1>1, <2>1 DEF Pop, TypeOK, SenderPoints, appVars
    <2>4. Capacity' /\ FlightInv'
      BY <1>1, <2>1, <2>2 DEF PopHead, Capacity, FlightInv, Busy
    <2>5. PackInv'
      <3>1. HdrSize + held'.elem.len <= MaxPayload
        BY <2>1, PayloadAssumption DEF Elems, MaxChunk
      <3>2. packed' = << >> /\ packedLen' = 0
        BY <2>2 DEF Pop
      <3>3. QED
        BY <1>1, <2>1, <3>1, <3>2, PayloadAssumption DEF PackInv, Busy, Elems
    <2>6. ThreadInv' /\ DrainInv'
      BY <1>1 DEF Pop, ThreadInv, DrainInv, Drained, appVars, TypeOK
    <2>7. QED
      BY <2>1, <2>3, <2>4, <2>5, <2>6
  <1>2. CASE /\ count = 0
             /\ sender' = IF running THEN "notEmpty" ELSE "exited"
             /\ UNCHANGED <<held, head, count, inflight, dequeued>>
    <2>1. {sender, sender'} \subseteq SenderPoints \ Busy
      BY <1>2 DEF Pop, SenderPoints, Busy
    <2>2. Capacity' /\ RingInv' /\ FlightInv' /\ PackInv' /\ InOrder'
      BY <1>2, <2>1, QueueKept DEF Pop, queueVars
    <2>3. TypeOK' /\ ThreadInv' /\ DrainInv'
      BY <1>2 DEF Pop, TypeOK, SenderPoints, appVars, ThreadInv, DrainInv, Drained
    <2>4. QED
      BY <2>2, <2>3
  <1>3. QED
    BY <1>1, <1>2 DEF Pop

\* potr_internal_send_queue_try_pop
LEMMA TryPopStep ==
    ASSUME Inv, TryPop
    PROVE  Inv'
  <1> USE DEF Inv
  <1>1. count > 0 /\ Packable(entries[head])
    BY DEF TryPop, PackInv
  <1>2. PopHead /\ sender' = "append" /\ dequeued' = dequeued + 1
    BY <1>1 DEF TryPop
  <1>3. /\ held' \in [slot : Slots, elem : Elems] /\ head' \in Slots
        /\ count' \in Nat /\ inflight' \in Nat /\ count' + inflight' <= Depth
        /\ RingInv' /\ InOrder'
    BY <1>1, <1>2, PopKeeps DEF TryPop
  <1>4. TypeOK'
    BY <1>2, <1>3 DEF TryPop, TypeOK, SenderPoints, appVars
  <1>5. Capacity' /\ FlightInv'
    BY <1>2, <1>3, SMTT(30) DEF PopHead, Capacity, FlightInv, Busy, TypeOK
  <1>6. PackInv'
    BY <1>1, <1>2 DEF TryPop, PopHead, PackInv, Packable, Busy
  <1>7. ThreadInv' /\ DrainInv'
    BY <1>1, <1>2 DEF TryPop, ThreadInv, DrainInv, Drained, appVars, TypeOK
  <1>8. QED
    BY <1>3, <1>4, <1>5, <1>6, <1>7

\* append_payload_elem
LEMMA AppendStep ==
    ASSUME Inv, AppendElem
    PROVE  Inv'
  <1> DEFINE e == held.elem
  <1> USE DEF Inv
  <1>1. e \in Elems /\ e.len \in Nat /\ e.more \in BOOLEAN
    <2>1. held \in [slot : Slots, elem : Elems]
      BY DEF TypeOK
    <2>2. e \in Elems
      BY <2>1
    <2>3. e.len \in 0 .. MaxPayload - HdrSize /\ e.more \in BOOLEAN
      BY <2>2 DEF Elems, MaxChunk
    <2>4. QED
      BY <2>2, <2>3, PayloadAssumption
  <1>2. Holding = <<e>> /\ packed' = Append(packed, e)
    <2>1. [held.elem EXCEPT !.payload = entries[held.slot].payload] = e
      BY DEF AppendElem, TypeOK, RingInv, Elems
    <2>2. QED
      BY <2>1 DEF AppendElem, Holding
  <1>3. sender' = (IF e.more THEN "flush" ELSE "peek") /\ packedLen' = packedLen + HdrSize + e.len
    BY DEF AppendElem
  <1>4. TypeOK'
    <2>1. packed' \in Seq(Elems) /\ packedLen' \in Nat
      BY <1>1, <1>2, <1>3, PayloadAssumption, SMTT(30) DEF TypeOK
    <2>2. QED
      BY <1>3, <2>1 DEF AppendElem, TypeOK, SenderPoints, queueVars, appVars
  <1>5. Capacity' /\ RingInv' /\ FlightInv'
    BY <1>3 DEF AppendElem, Capacity, RingInv, FlightInv, Busy, queueVars
  <1>6. PackInv'
    <2>1. packedLen + HdrSize + e.len <= MaxPayload /\ (e.more => packed = << >>)
      BY DEF AppendElem, PackInv
    <2>2. \A i \in DOMAIN packed : ~packed[i].more
      BY DEF AppendElem, PackInv
    <2>3. /\ Len(packed') = Len(packed) + 1
          /\ DOMAIN packed' = 1 .. Len(packed) + 1
          /\ \A i \in 1 .. Len(packed) : packed'[i] = packed[i]
          /\ packed'[Len(packed) + 1] = e
      BY <1>1, <1>2, AppendProperties DEF TypeOK
    <2>4. DOMAIN packed = 1 .. Len(packed) /\ Len(packed) \in Nat
      BY DEF TypeOK
    <2>5. \A i \in DOMAIN packed' : packed'[i].more => e.more /\ i = Len(packed) + 1
      BY <2>2, <2>3, <2>4
    <2>6. e.more => Len(packed') = 1
      BY <2>1, <2>3
    <2>7. QED
      BY <1>3, <2>1, <2>5, <2>6 DEF PackInv, Busy
  <1>7. ThreadInv' /\ DrainInv'
    BY <1>3 DEF AppendElem, ThreadInv, DrainInv, Drained, queueVars, appVars
  <1>8. InOrder'
    <2>1. Ring' = Ring /\ Holding' = << >>
      BY <1>3 DEF AppendElem, Ring, Holding, queueVars
    <2>2. (flushed \o packed) \o <<e>> = flushed \o Append(packed, e)
      <3>1. flushed \in Seq(Elems) /\ packed \in Seq(Elems) /\ <<e>> \in Seq(Elems)
        BY <1>1 DEF TypeOK
      <3>2. Append(packed, e) = packed \o <<e>>
        BY <1>1, <3>1, AppendIsConcat
      <3> DEFINE b == <<e>>
      <3>3. (flushed \o packed) \o b = flushed \o (packed \o b)
        <4>1. b \in Seq(Elems)
          BY <3>1
        <4> HIDE DEF b
        <4>2. QED
          BY <3>1, <4>1, Reassociate, ZenonT(40)
      <3>4. QED
        BY <3>2, <3>3
    <2>3. flushed \o Append(packed, e) = (flushed \o Append(packed, e)) \o << >>
      BY <1>1 DEF TypeOK
    <2>4. QED
      BY <1>2, <2>1, <2>2, <2>3, SMTT(30) DEF AppendElem, InOrder
  <1>9. QED
    BY <1>4, <1>5, <1>6, <1>7, <1>8

\* peek, peek_timed and the pack deadline
LEMMA PeekStep ==
    ASSUME Inv, Peek \/ PackDeadline
    PROVE  Inv'
  <1> USE DEF Inv
  <1>1. /\ UNCHANGED <<queueVars, held, packed, packedLen, dequeued, pushed, flushed>>
        /\ UNCHANGED <<running, appVars, conn, linkUp>>
    BY DEF Peek, PackDeadline
  <1>2. /\ sender \in {"peek", "woken", "timed"}
        /\ sender' \in {"timed", "woken", "tryPop", "flush"}
        /\ sender' = "tryPop" => count > 0 /\ Packable(entries[head])
    BY DEF Peek, PackDeadline
  <1>3. TypeOK' /\ ThreadInv' /\ DrainInv'
    BY <1>1, <1>2, SMTT(30) DEF TypeOK, SenderPoints, ThreadInv, DrainInv, Drained, queueVars, appVars
  <1>4. Capacity' /\ RingInv' /\ FlightInv'
    BY <1>1, <1>2, SMTT(30) DEF Capacity, RingInv, FlightInv, Busy, queueVars
  <1>5. PackInv'
    BY <1>1, <1>2 DEF PackInv, Packable, Busy, queueVars
  <1>6. InOrder'
    BY <1>1, <1>2, Kept DEF queueVars
  <1>7. QED
    BY <1>3, <1>4, <1>5, <1>6

\* flush_packed
LEMMA FlushStep ==
    ASSUME Inv, Flush
    PROVE  Inv'
  <1> USE DEF Inv
  <1>1. flushed' = flushed \o packed /\ packed' = << >> /\ packedLen' = 0 /\ sender' = "complete"
    BY DEF Flush
  <1>2. TypeOK' /\ ThreadInv' /\ DrainInv'
    BY <1>1, SMTT(30) DEF Flush, TypeOK, SenderPoints, ThreadInv, DrainInv, Drained, queueVars, appVars
  <1>3. Capacity' /\ RingInv' /\ FlightInv'
    BY <1>1 DEF Flush, Capacity, RingInv, FlightInv, Busy, queueVars
  <1>4. PackInv'
    BY <1>1, PayloadAssumption DEF PackInv, Busy
  <1>5. InOrder'
    <2>1. Ring' = Ring /\ Holding = << >> /\ Holding' = << >>
      BY <1>1 DEF Flush, Ring, Holding, queueVars
    <2>2. (flushed \o packed) \o << >> = flushed \o packed
      BY DEF TypeOK
    <2>3. QED
      BY <1>1, <2>1, <2>2 DEF Flush, InOrder
  <1>6. QED
    BY <1>2, <1>3, <1>4, <1>5

\* potr_internal_send_queue_complete
LEMMA CompleteStep ==
    ASSUME Inv, Complete
    PROVE  Inv'
  <1> USE DEF Inv
  <1>1. inflight = dequeued /\ dequeued \in Nat \ {0}
    BY DEF Complete, Capacity, FlightInv, Busy, TypeOK
  <1>2. /\ inflight' = inflight - 1 /\ dequeued' = dequeued - 1
        /\ sender' = IF dequeued = 1 THEN "pop" ELSE "complete"
    BY <1>1, SMTT(30) DEF Complete
  <1>3. app' \in {app, "push"} \cup DrainTests
    BY DEF Complete, BroadcastDrained, SignalNotFull, ParkedPoints, Unparked, DrainTests
  <1>4. TypeOK'
    BY <1>1, <1>2, <1>3 DEF Complete, TypeOK, SenderPoints, AppPoints, DrainTests
  <1>5. Capacity' /\ RingInv' /\ FlightInv'
    <2>1. Capacity'
      <3>1. count' = count /\ count \in Nat /\ count + inflight <= Depth
        BY DEF Complete, Capacity, TypeOK
      <3>2. QED
        BY <1>1, <1>2, <3>1, DepthAssumption DEF Capacity
    <2>2. FlightInv'
      <3>1. CASE dequeued = 1
        BY <1>2, <3>1 DEF FlightInv, Busy
      <3>2. CASE dequeued > 1
        BY <1>1, <1>2, <3>2 DEF FlightInv, Busy
      <3>3. QED
        BY <1>1, <3>1, <3>2
    <2>3. RingInv'
      BY <1>2, SMTT(30) DEF Complete, RingInv
    <2>4. QED
      BY <2>1, <2>2, <2>3
  <1>6. PackInv'
    BY <1>2 DEF Complete, PackInv, Busy
  <1>7. ThreadInv'
    <2>1. app \in {"shutdown", "join"} => app' = app
      BY DEF Complete, BroadcastDrained, SignalNotFull, ParkedPoints
    <2>2. QED
      BY <1>2, <1>3, <2>1 DEF Complete, ThreadInv, DrainTests
  <1>8. DrainInv'
    BY <1>1, <1>3 DEF DrainInv, Drained, DrainTests, Complete
  <1>9. InOrder'
    BY <1>2, Kept DEF Complete
  <1>10. QED
    BY <1>4, <1>5, <1>6, <1>7, <1>8, <1>9

\* Every step keeps the invariant.
LEMMA NextInv == Inv /\ [Next]_vars => Inv'
  <1> SUFFICES ASSUME Inv, [Next]_vars PROVE Inv'
    OBVIOUS
  <1>1. CASE SendRefused \/ SendStep \/ CloseBegin \/ ConnAttempt \/ ConnStep \/ LinkChange \/ SpuriousWake
    BY <1>1, ControlStep
  <1>2. CASE AppStep
    BY <1>2, ControlStep, PushStep DEF AppStep
  <1>3. CASE SenderStep
    BY <1>3, PopStep, AppendStep, PeekStep, TryPopStep, FlushStep, CompleteStep DEF SenderStep
  <1>4. CASE Finished \/ UNCHANGED vars
    <2>1. UNCHANGED vars
      BY <1>4 DEF Finished
    <2>2. Capacity' /\ RingInv' /\ FlightInv' /\ PackInv' /\ InOrder'
      BY <2>1, QueueKept, SMTT(30) DEF vars, senderVars
    <2>3. TypeOK' /\ ThreadInv' /\ DrainInv'
      BY <2>1 DEF Inv, TypeOK, ThreadInv, DrainInv, Drained, vars, queueVars, senderVars, appVars
    <2>4. QED
      BY <2>2, <2>3 DEF Inv
  <1>5. QED
    BY <1>1, <1>2, <1>3, <1>4 DEF Next

-----------------------------------------------------------------------------
\* The theorems

LEMMA Invariance == Spec => []Inv
  <1>1. Init => Inv
    BY InitInv
  <1>2. Inv /\ [Next]_vars => Inv'
    BY NextInv
  <1>3. QED
    BY <1>1, <1>2, PTL DEF Spec

\* With an empty queue and nothing in flight, everything was handed over.
LEMMA DrainedMeansFlushed ==
    ASSUME Inv, Drained
    PROVE  flushed = pushed
  <1> USE DEF Inv
  <1>1. sender \notin Busy
    BY DEF Drained, Capacity, FlightInv
  <1>2. packed = << >> /\ Holding = << >>
    BY <1>1 DEF PackInv, Holding, Busy
  <1>3. Ring = << >>
    BY RingType, DepthAssumption DEF Drained, TypeOK
  <1>4. flushed \o << >> = flushed
    BY DEF TypeOK
  <1>5. QED
    BY <1>2, <1>3, <1>4 DEF InOrder

\* The variables of the send path keep their types: no index leaves the
\* pool, no counter goes below zero, every control point is one of the code.
THEOREM TypeCorrect == Spec => []TypeOK
  BY Invariance, PTL DEF Inv

\* potr_send_queue.h:62: the elements queued and in flight never exceed the
\* depth, and inflight is the number of elements popped and not completed.
THEOREM CapacityHolds == Spec => []Capacity
  BY Invariance, PTL DEF Inv

\* Every element push_wait accepted is flushed, packed, held or queued, once,
\* in the order of acceptance and with its own payload: the send thread
\* reads no slot that was overwritten.
THEOREM OrderHolds == Spec => []InOrder
  BY Invariance, PTL DEF Inv

\* send_thread_func never packs more than send_wire_buf holds, nor anything
\* beside an element with MORE_FRAG.
THEOREM PackingHolds == Spec => []PackingSound
  <1>1. Inv => PackingSound
    BY DEF Inv, PackInv, PackingSound
  <1>2. QED
    BY <1>1, Invariance, PTL

\* potr_service_close sends FIN only after everything it accepted was handed
\* to the sockets.
THEOREM FinHolds == Spec => []FinFollowsData
  <1>1. Inv => FinFollowsData
    <2> SUFFICES ASSUME Inv, app = "fin" PROVE flushed = pushed
      BY DEF FinFollowsData
    <2>1. Drained
      BY DEF Inv, DrainInv
    <2>2. QED
      BY <2>1, DrainedMeansFlushed
  <1>2. QED
    BY <1>1, Invariance, PTL

\* When potr_service_close of a UDP service returns, the send thread is gone
\* and every element the queue accepted was handed to the sockets.
THEOREM ClosedHolds ==
    ASSUME ~Tcp
    PROVE  Spec => []ClosedMeansSent
  <1>1. Inv => ClosedMeansSent
    <2> SUFFICES ASSUME Inv, app = "closed" PROVE sender = "none" /\ flushed = pushed
      BY DEF ClosedMeansSent
    <2>1. sender = "none" /\ Drained
      BY DEF Inv, ThreadInv, DrainInv
    <2>2. QED
      BY <2>1, DrainedMeansFlushed
  <1>2. QED
    BY <1>1, Invariance, PTL

\* Waking the application thread makes no call return.
LEMMA WakingReturnsNothing ==
    ASSUME NEW a, a # "idle"
    PROVE  /\ BroadcastDrained(a) # "idle"
           /\ SignalNotFull(a) # "idle"
           /\ SignalNotFull(BroadcastDrained(a)) # "idle"
  <1>1. BroadcastDrained(a) # "idle"
    BY DEF BroadcastDrained, ParkedPoints, Unparked
  <1>2. \A b : b # "idle" => SignalNotFull(b) # "idle"
    BY DEF SignalNotFull
  <1>3. QED
    BY <1>1, <1>2

\* A blocking potr_service_send that returns OK has handed every element to
\* the sockets: only wait_drained lets it return.
THEOREM BlockingHolds == Spec => BlockingSendHandsOver
  <1> DEFINE Returns == cur.blocking /\ app # "idle" /\ app' = "idle" /\ ret' = "OK"
  <1>1. Inv /\ [Next]_vars => [Returns => flushed' = pushed']_vars
    <2> SUFFICES ASSUME Inv, Next, Returns PROVE flushed' = pushed'
      OBVIOUS
    <2>1. WaitDrained
      <3>1. ~(SendRefused \/ SendStep \/ CloseBegin \/ ConnAttempt \/ LinkChange \/ Finished)
        BY DEF SendRefused, SendStep, SendBegin, CloseBegin, ConnAttempt, LinkChange,
               Finished, vars, appVars
      <3>2. AppStep => WaitDrained
        <4>1. ~Push
          BY AfterPushPoints DEF Push, Inv, TypeOK
        <4>2. QED
          BY <4>1 DEF AppStep, PushFull, CloseFin, CloseStop, CloseShutdown, ShutdownQueue, CloseJoin
      <3>3. ~SenderStep
        <4>1. ~(Pop \/ AppendElem \/ Peek \/ PackDeadline \/ TryPop \/ Flush)
          BY DEF Pop, AppendElem, Peek, PackDeadline, TryPop, Flush, appVars
        <4>2. ~Complete
          BY WakingReturnsNothing DEF Complete
        <4>3. QED
          BY <4>1, <4>2 DEF SenderStep
      <3>4. ~ConnStep
        <4>1. ~(ConnFailed \/ ConnStart \/ ConnStarted \/ ConnStop \/ ConnJoin \/ ConnExit)
          BY DEF ConnFailed, ConnStart, ConnStarted, ConnStop, ConnJoin, ConnExit, appVars
        <4>2. ~ConnShutdown
          BY WakingReturnsNothing, SMTT(30) DEF ConnShutdown, ShutdownQueue
        <4>3. QED
          BY <4>1, <4>2 DEF ConnStep
      <3>5. ~SpuriousWake
        BY WakingReturnsNothing, SMTT(30) DEF SpuriousWake
      <3>6. QED
        BY <3>1, <3>2, <3>3, <3>4, <3>5, SMTT(30) DEF Next
    <2>2. Drained
      BY <2>1 DEF WaitDrained, DrainTests, Parked
    <2>3. QED
      BY <2>1, <2>2, DrainedMeansFlushed DEF WaitDrained
  <1>2. QED
    BY <1>1, Invariance, PTL DEF Spec, BlockingSendHandsOver

-----------------------------------------------------------------------------
\* The send queue with its send thread implements the safety part of
\* SendChannel: every step accepts an element while there is room, hands over
\* the elements that waited longest, or changes nothing that the channel
\* knows of.

Channel == INSTANCE SendChannel
           WITH Capacity <- Depth, Elem <- Elems, accepted <- pushed, sent <- flushed

\* The elements in the hands of the send thread that were not flushed yet are
\* among those it dequeued.
HandsInv ==
    sender \in Busy \ {"complete"} =>
        Len(packed) + (IF sender = "append" THEN 1 ELSE 0) = dequeued

-----------------------------------------------------------------------------
\* The steps of the send thread, one by one.
LEMMA SenderHands ==
    ASSUME Inv, HandsInv, SenderStep
    PROVE  HandsInv'
  <1>1. packed \in Seq(Elems) /\ Len(packed) \in Nat /\ dequeued \in Nat
    BY DEF Inv, TypeOK
  <1>2. CASE Pop
    <2>1. packed = << >>
      BY <1>2 DEF Pop, Inv, PackInv, Busy
    <2>2. /\ packed' = packed
          /\ (sender' = "append" /\ dequeued' = 1) \/ sender' \in {"notEmpty", "exited"}
      BY <1>2 DEF Pop
    <2>3. QED
      BY <2>1, <2>2 DEF HandsInv, Busy
  <1>3. CASE AppendElem
    <2>1. [held.elem EXCEPT !.payload = entries[held.slot].payload] \in Elems
      BY DEF Inv, TypeOK, Elems
    <2>2. Len(packed') = Len(packed) + 1
      BY <1>1, <1>3, <2>1 DEF AppendElem
    <2>3. sender = "append" /\ sender' \in {"flush", "peek"} /\ dequeued' = dequeued
      BY <1>3 DEF AppendElem
    <2>4. QED
      BY <1>1, <2>2, <2>3 DEF HandsInv, Busy
  <1>4. CASE Peek \/ PackDeadline
    <2>1. /\ sender \in {"peek", "woken", "timed"} /\ sender' \in {"timed", "woken", "tryPop", "flush"}
          /\ packed' = packed /\ dequeued' = dequeued
      BY <1>4 DEF Peek, PackDeadline
    <2>2. QED
      BY <2>1 DEF HandsInv, Busy
  <1>5. CASE TryPop
    <2>1. /\ sender = "tryPop" /\ packed' = packed
          /\ \/ sender' = "append" /\ dequeued' = dequeued + 1
             \/ sender' = "flush" /\ dequeued' = dequeued
      BY <1>5 DEF TryPop
    <2>2. QED
      BY <1>1, <2>1 DEF HandsInv, Busy
  <1>6. CASE Flush \/ Complete
    <2>1. sender' \in {"complete", "pop"}
      BY <1>6 DEF Flush, Complete
    <2>2. QED
      BY <2>1 DEF HandsInv, Busy
  <1>7. QED
    BY <1>2, <1>3, <1>4, <1>5, <1>6 DEF SenderStep

\* Every step keeps HandsInv.
LEMMA HandsKept == Inv /\ HandsInv /\ [Next]_vars => HandsInv'
  <1> SUFFICES ASSUME Inv, HandsInv, [Next]_vars PROVE HandsInv'
    OBVIOUS
  <1>1. CASE SenderStep
    BY <1>1, SenderHands
  <1>2. ASSUME packed' = packed, dequeued' = dequeued,
               sender' = sender \/ sender' = SignalNotEmpty(sender) \/ sender' \in {"none", "pop"}
        PROVE  HandsInv'
    BY <1>2 DEF HandsInv, Busy, SignalNotEmpty
  <1>3. CASE AppStep
    BY <1>2, <1>3 DEF AppStep, Push, PushFull, WaitDrained, CloseFin, CloseStop, CloseShutdown,
                      ShutdownQueue, CloseJoin, senderVars
  <1>4. CASE ConnStep
    BY <1>2, <1>4 DEF ConnStep, ConnFailed, ConnStart, ConnStarted, ConnStop, ConnShutdown,
                      ShutdownQueue, ConnJoin, ConnExit, senderVars
  <1>5. CASE SendRefused \/ SendStep \/ CloseBegin \/ ConnAttempt \/ LinkChange \/ SpuriousWake
    BY <1>2, <1>5 DEF SendRefused, SendStep, SendBegin, CloseBegin, ConnAttempt, LinkChange,
                      SpuriousWake, senderVars
  <1>6. CASE Finished \/ UNCHANGED vars
    BY <1>2, <1>6 DEF Finished, vars, senderVars
  <1>7. QED
    BY <1>1, <1>3, <1>4, <1>5, <1>6 DEF Next

\* The queue as a sequence.
LEMMA RingSequence ==
    ASSUME Inv
    PROVE  Ring \in Seq(Elems) /\ Len(Ring) = count
  <1>1. TypeOK /\ count <= Depth
    BY DepthAssumption DEF Inv, Capacity, TypeOK
  <1>2. QED
    BY <1>1, RingType

\* What was accepted and is not yet sent is counted by the queue.
LEMMA Waiting ==
    ASSUME Inv, HandsInv
    PROVE  /\ pushed \in Seq(Elems) /\ flushed \in Seq(Elems)
           /\ Len(pushed) - Len(flushed) <= count + inflight
  <1>1. /\ pushed \in Seq(Elems) /\ flushed \in Seq(Elems) /\ packed \in Seq(Elems)
        /\ count \in Nat /\ inflight = dequeued /\ dequeued \in Nat /\ Len(packed) \in Nat
    BY DEF Inv, TypeOK, Capacity
  <1>2. Ring \in Seq(Elems) /\ Len(Ring) = count
    BY RingSequence
  <1>3. Holding \in Seq(Elems) /\ Len(Holding) = IF sender = "append" THEN 1 ELSE 0
    BY HoldingType DEF Inv, Holding
  <1>4. Len(pushed) = Len(flushed) + Len(packed) + Len(Holding) + Len(Ring)
    <2> HIDE DEF Ring, Holding
    <2>1. pushed = flushed \o packed \o Holding \o Ring
      BY DEF Inv, InOrder
    <2>2. flushed \o packed \in Seq(Elems) /\ Len(flushed \o packed) = Len(flushed) + Len(packed)
      BY <1>1, ConcatProperties
    <2>3. /\ (flushed \o packed) \o Holding \in Seq(Elems)
          /\ Len((flushed \o packed) \o Holding) = Len(flushed \o packed) + Len(Holding)
      BY <1>3, <2>2, ConcatProperties
    <2>4. Len(((flushed \o packed) \o Holding) \o Ring) = Len((flushed \o packed) \o Holding) + Len(Ring)
      BY <1>2, <2>3, ConcatProperties
    <2>5. QED
      BY <2>1, <2>2, <2>3, <2>4
  <1>5. Len(packed) + Len(Holding) <= dequeued
    <2>1. CASE sender \in Busy \ {"complete"}
      BY <1>1, <1>3, <2>1 DEF HandsInv
    <2>2. CASE sender \notin Busy \ {"complete"}
      <3>1. packed = << >> /\ sender # "append"
        BY <2>2 DEF Inv, PackInv, Busy
      <3>2. QED
        BY <1>1, <1>3, <3>1
    <2>3. QED
      BY <2>1, <2>2
  <1>6. QED
    BY <1>1, <1>2, <1>3, <1>4, <1>5

\* push_wait is an acceptance.
LEMMA PushAccepts ==
    ASSUME Inv, HandsInv, Push
    PROVE  Channel!Accept
  <1>1. Len(pushed) - Len(flushed) < Depth
    BY Waiting, DepthAssumption, SMTT(30) DEF Push, Full, Inv, TypeOK
  <1>2. NextElem(cur) \in Elems
    BY NextElemType DEF Inv, TypeOK
  <1>3. pushed' = Append(pushed, NextElem(cur)) /\ flushed' = flushed
    BY DEF Push
  <1>4. QED
    BY <1>1, <1>2, <1>3 DEF Channel!Accept

\* flush_packed sends what was accepted first, in its order.
LEMMA FlushSends ==
    ASSUME Inv, HandsInv, Flush
    PROVE  Channel!Send
  <1>1. flushed' = flushed \o packed /\ pushed' = pushed /\ sender = "flush"
    BY DEF Flush
  <1>2. /\ pushed \in Seq(Elems) /\ flushed \in Seq(Elems) /\ packed \in Seq(Elems)
        /\ Len(flushed) \in Nat /\ Len(packed) \in Nat \ {0}
    BY <1>1 DEF Inv, TypeOK, HandsInv, FlightInv, Busy
  <1> DEFINE sent == flushed \o packed
             n == Len(sent)
  <1>3. sent \in Seq(Elems) /\ n = Len(flushed) + Len(packed)
    BY <1>2, ConcatProperties
  <1>4. Ring \in Seq(Elems) /\ pushed = sent \o Ring
    <2>1. Holding = << >> /\ Ring \in Seq(Elems)
      BY <1>1, RingSequence DEF Holding
    <2>2. sent \o << >> = sent
      BY <1>3
    <2>3. QED
      BY <2>1, <2>2 DEF Inv, InOrder
  <1> HIDE DEF sent, Ring
  <1>5. n \in Len(flushed) + 1 .. Len(pushed)
    <2>1. Len(pushed) = n + Len(Ring) /\ Len(Ring) \in Nat
      BY <1>3, <1>4, ConcatProperties
    <2>2. QED
      BY <1>2, <1>3, <2>1
  <1>6. SubSeq(pushed, 1, n) = sent
    BY <1>2, <1>3, <1>4, <1>5
  <1>7. QED
    BY <1>1, <1>5, <1>6, SMTT(30) DEF Channel!Send, sent

\* Every step is a step of the channel, or changes nothing in it.
LEMMA StepSimulation ==
    Inv /\ HandsInv /\ [Next]_vars => [Channel!Next]_<<pushed, flushed>>
  <1> SUFFICES ASSUME Inv, HandsInv, [Next]_vars
               PROVE  Channel!Next \/ UNCHANGED <<pushed, flushed>>
    OBVIOUS
  <1>1. CASE AppStep
    <2>1. CASE Push
      BY <2>1, PushAccepts DEF Channel!Next
    <2>2. CASE ~Push
      BY <1>1, <2>2 DEF AppStep, PushFull, WaitDrained, CloseFin, CloseStop, CloseShutdown, CloseJoin
    <2>3. QED
      BY <2>1, <2>2
  <1>2. CASE SenderStep
    <2>1. CASE Flush
      BY <2>1, FlushSends DEF Channel!Next
    <2>2. CASE ~Flush
      BY <1>2, <2>2 DEF SenderStep, Pop, AppendElem, Peek, PackDeadline, TryPop, Complete
    <2>3. QED
      BY <2>1, <2>2
  <1>3. CASE ConnStep
    BY <1>3 DEF ConnStep, ConnFailed, ConnStart, ConnStarted, ConnStop, ConnShutdown, ConnJoin, ConnExit
  <1>4. CASE SendRefused \/ SendStep \/ CloseBegin \/ ConnAttempt \/ LinkChange \/ SpuriousWake
    BY <1>4 DEF SendRefused, SendStep, SendBegin, CloseBegin, ConnAttempt, LinkChange, SpuriousWake
  <1>5. CASE Finished \/ UNCHANGED vars
    BY <1>5 DEF Finished, vars
  <1>6. QED
    BY <1>1, <1>2, <1>3, <1>4, <1>5 DEF Next

-----------------------------------------------------------------------------
\* potr_service_send and the send thread, with their ring, their pool slots
\* and their packing, implement a bounded FIFO: an element is accepted only
\* while fewer than send_queue_depth wait, and elements reach the sockets in
\* the order of acceptance, each once, whoever starts and stops the thread.
THEOREM QueueImplementsChannel == Spec => Channel!Safe
  <1>1. Init => HandsInv /\ Channel!Init
    BY DEF Init, HandsInv, Busy, Channel!Init
  <1>2. Inv /\ HandsInv /\ [Next]_vars => HandsInv'
    BY HandsKept
  <1>3. Inv /\ HandsInv /\ [Next]_vars => [Channel!Next]_<<pushed, flushed>>
    BY StepSimulation
  <1>4. QED
    BY <1>1, <1>2, <1>3, Invariance, PTL DEF Spec, Channel!Safe
==============================================================================
