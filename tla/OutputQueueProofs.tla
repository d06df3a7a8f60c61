------------------------- MODULE OutputQueueProofs --------------------------
(***************************************************************************)
(* That the thread of COutputQueue never misses its work, that samples     *)
(* leave in order, and that a careful filter's flush leaves nothing behind *)
(* (NoMissedWork, InOrder and QueueHolds of OutputQueue), for every batch  *)
(* size and every bound of the model.                                      *)
(***************************************************************************)
EXTENDS OutputQueue, Integers, SequenceTheorems, TLAPS

-----------------------------------------------------------------------------
(* The inductive invariants.                                                *)

Places == {"top", "take", "sem", "send", "receiving", "after", "eos", "reset", "done"}
FlushSteps == {"begin", "flushing", "end", "ended"}

\* Where everything is: a batch in hand only while it is sent, a command in hand until it is acted on.
QueueTypes ==
  /\ m_List \in Seq(Element) /\ Len(m_List) <= MaxList
  /\ m_ppSamples \in Seq(Element) /\ Len(m_ppSamples) < m_lBatchSize
  /\ sending \in Seq(Element) /\ Len(sending) <= m_lBatchSize
  /\ worker \in Places /\ (worker \in {"send", "receiving"} <=> sending # <<>>)
  /\ command \in Commands \cup {NoCommand}
  /\ command # NoCommand => worker \in {"send", "receiving", "after"}
  /\ upstream \in {"idle", "segment"}
  /\ control \in {"idle", "reset", "destroy", "gone"} \cup FlushSteps
  /\ m_hr \in Results /\ nextId \in 1..(MaxSample + 1) /\ last \in 0..MaxSample
  /\ epoch \in 0..MaxFlush /\ (control \in FlushSteps => epoch < MaxFlush)

Flags ==
  /\ m_bBatchExact \in BOOLEAN /\ m_bFlushingOpt \in BOOLEAN /\ resets \in BOOLEAN
  /\ m_evFlushComplete \in BOOLEAN /\ m_bFlushing \in BOOLEAN /\ m_bFlushed \in BOOLEAN
  /\ m_bTerminate \in BOOLEAN /\ told \in BOOLEAN

\* The samples of q are in order, after number lo and before number hi.
Line(q, lo, hi) ==
  /\ \A i \in 1..Len(q) : IsSample(q[i]) => lo < q[i].id /\ q[i].id < hi
  /\ \A i, j \in 1..Len(q) : i < j /\ IsSample(q[i]) /\ IsSample(q[j]) => q[i].id < q[j].id

\* The samples of q come before those of r.
Before(q, r) ==
  \A i \in 1..Len(q), j \in 1..Len(r) : IsSample(q[i]) /\ IsSample(r[j]) => q[i].id < r[j].id

\* The batch being sent, the batch being made and the list follow each other, after what was delivered.
Order ==
  /\ last < nextId
  /\ Line(m_List, last, nextId) /\ Line(m_ppSamples, last, nextId)
  /\ Line(sending, IF worker = "receiving" THEN 0 ELSE last, nextId)
  /\ Before(sending, m_ppSamples) /\ Before(sending, m_List) /\ Before(m_ppSamples, m_List)
  /\ \A i \in 1..Len(sending) : IsSample(sending[i])
  /\ \A i \in 1..Len(m_ppSamples) : IsSample(m_ppSamples[i])
  /\ worker = "receiving" => last = sending[Len(sending)].id

Waits ==
  /\ m_lWaiting \in Nat /\ m_hSem \in Nat
  /\ m_lWaiting + m_hSem = IF worker = "sem" THEN 1 ELSE 0
  /\ m_lWaiting = 1 => /\ \A i \in 1..Len(m_List) : IsSample(m_List[i]) /\ m_bBatchExact
                       /\ Len(m_ppSamples) + Len(m_List) < m_lBatchSize
                       /\ ~m_bTerminate

OrderInv == QueueTypes /\ Order

NoSamples == /\ sending = <<>> /\ m_ppSamples = <<>>
             /\ \A i \in 1..Len(m_List) : ~IsSample(m_List[i])

\* A flush leaves no sample: not once the thread has said so, and not while the queue counts as flushed.
\* Until it ends, no sample comes in.
FlushInv ==
  /\ control \in FlushSteps => m_bFlushing /\ m_hr # "S_OK"
  /\ m_bFlushing => control \in FlushSteps
  /\ m_bFlushed \/ control = "ended" => NoSamples
  /\ control \in {"begin", "flushing", "end"} /\ m_evFlushComplete => NoSamples

\* Every sample was queued in this epoch.
Fresh ==
  /\ \A i \in 1..Len(m_List) : IsSample(m_List[i]) => m_List[i].epoch = epoch
  /\ \A i \in 1..Len(m_ppSamples) : m_ppSamples[i].epoch = epoch
  /\ \A i \in 1..Len(sending) : sending[i].epoch = epoch

\* A RESET_PACKET on its way; there is one at most, and the control thread waits for it.
ResetListed == \E i \in 1..Len(m_List) : m_List[i].kind = "RESET"
ResetOnTheWay == ResetListed \/ command = "RESET" \/ worker = "reset"
OneReset ==
  /\ ResetListed => command # "RESET" /\ worker # "reset"
  /\ \A i, j \in 1..Len(m_List) : m_List[i].kind = "RESET" /\ m_List[j].kind = "RESET" => i = j
  /\ ResetOnTheWay => resets /\ control = "reset" /\ ~m_evFlushComplete

\* Where Reset and flushes share the event: it is set for the one the control thread waits in.
ResetInv ==
  resets =>
    /\ ~m_bFlushingOpt
    /\ control \in FlushSteps => upstream = "idle"
    /\ m_evFlushComplete => \/ control \in {"begin", "flushing", "end"} /\ worker = "sem" /\ m_hSem = 0
                            \/ control = "reset"
    /\ control = "ended" => worker = "sem" /\ m_hSem = 0 /\ ~m_evFlushComplete

CarefulInv == OrderInv /\ Waits /\ FlushInv /\ Fresh /\ OneReset /\ ResetInv

-----------------------------------------------------------------------------
(* Sequences in order.                                                      *)

LEMMA LineEmpty == ASSUME NEW lo, NEW hi PROVE Line(<<>>, lo, hi)
BY DEF Line

LEMMA LineWider ==
  ASSUME NEW q \in Seq(Element), NEW lo \in Nat, NEW hi \in Nat, NEW lo2 \in Nat, NEW hi2 \in Nat,
         lo2 <= lo, hi <= hi2, Line(q, lo, hi)
  PROVE  Line(q, lo2, hi2)
<1>1. \A i \in 1..Len(q) : q[i] \in Element
  OBVIOUS
<1>2. \A i \in 1..Len(q) : q[i].id \in Nat
  BY <1>1, ConstantsAssumption DEF Element
<1>. QED  BY <1>2 DEF Line

LEMMA LineTail ==
  ASSUME NEW q \in Seq(Element), q # <<>>, NEW lo \in Nat, NEW hi \in Nat, Line(q, lo, hi)
  PROVE  /\ Line(Tail(q), lo, hi)
         /\ Head(q) \in Element /\ Tail(q) \in Seq(Element) /\ Len(Tail(q)) = Len(q) - 1
         /\ \A r : Before(r, q) => Before(r, Tail(q))
         /\ IsSample(Head(q)) => /\ lo < Head(q).id /\ Head(q).id < hi
                                 /\ \A i \in 1..Len(Tail(q)) : IsSample(Tail(q)[i]) => Head(q).id < Tail(q)[i].id
<1>1. /\ Len(q) \in Nat \ {0} /\ Tail(q) \in Seq(Element) /\ Len(Tail(q)) = Len(q) - 1
      /\ \A i \in 1..(Len(q) - 1) : Tail(q)[i] = q[i + 1] /\ i + 1 \in 1..Len(q)
      /\ Head(q) = q[1] /\ 1 \in 1..Len(q) /\ q[1] \in Element
  OBVIOUS
<1>. QED  BY <1>1 DEF Line, Before

LEMMA LineAppend ==
  ASSUME NEW q \in Seq(Element), NEW x \in Element, NEW lo \in Nat, NEW hi \in Nat, Line(q, lo, hi),
         IsSample(x) => lo < x.id /\ x.id < hi,
         \A i \in 1..Len(q) : IsSample(q[i]) /\ IsSample(x) => q[i].id < x.id
  PROVE  /\ Line(Append(q, x), lo, hi)
         /\ Append(q, x) \in Seq(Element) /\ Len(Append(q, x)) = Len(q) + 1
         /\ \A i \in 1..(Len(q) + 1) : Append(q, x)[i] = IF i = Len(q) + 1 THEN x ELSE q[i]
<1>1. /\ Append(q, x) \in Seq(Element) /\ Len(Append(q, x)) = Len(q) + 1 /\ Len(q) \in Nat
      /\ \A i \in 1..(Len(q) + 1) : Append(q, x)[i] = IF i = Len(q) + 1 THEN x ELSE q[i]
  OBVIOUS
<1>2. \A i \in 1..(Len(q) + 1) : i # Len(q) + 1 => i \in 1..Len(q)
  BY <1>1
<1>. QED  BY <1>1, <1>2 DEF Line

\* The next n samples, behind a list that has only earlier ones.
LEMMA LineSamples ==
  ASSUME QueueTypes, NEW n \in 1..MaxSample, nextId + n <= MaxSample + 1, last < nextId, Line(m_List, last, nextId)
  PROVE  /\ Samples(n) \in Seq(Element) /\ Len(Samples(n)) = n
         /\ m_List \o Samples(n) \in Seq(Element) /\ Len(m_List \o Samples(n)) = Len(m_List) + n
         /\ \A i \in 1..Len(m_List) : (m_List \o Samples(n))[i] = m_List[i]
         /\ \A i \in 1..(Len(m_List) + n) : i > Len(m_List) =>
               LET x == (m_List \o Samples(n))[i]
               IN IsSample(x) /\ x.id >= nextId /\ x.epoch = epoch
         /\ Line(m_List \o Samples(n), last, nextId + n)
<1> DEFINE new == Samples(n)  all == m_List \o Samples(n)
           sample(i) == [kind |-> "sample", id |-> nextId + i - 1, epoch |-> epoch]
<1>1. new = [i \in 1..n |-> sample(i)]
  BY DEF Samples
<1>2. /\ n \in Nat /\ nextId \in Nat \ {0} /\ last \in Nat /\ epoch \in 0..MaxFlush /\ m_List \in Seq(Element)
      /\ Len(m_List) \in Nat /\ MaxSample \in Nat
  BY ConstantsAssumption DEF QueueTypes
<1>3. \A i \in 1..n : sample(i) \in Element
  BY <1>2 DEF Element
<1>3a. \A i \in 1..n : IsSample(sample(i)) /\ sample(i).id = nextId + i - 1 /\ sample(i).epoch = epoch
  BY DEF IsSample
<1>. HIDE DEF new, sample
<1>4. new \in Seq(Element) /\ Len(new) = n
  BY <1>1, <1>2, <1>3
<1>5. \A i \in 1..n : IsSample(new[i]) /\ new[i].id = nextId + i - 1 /\ new[i].epoch = epoch
  BY <1>1, <1>3a
<1>6. /\ all \in Seq(Element) /\ Len(all) = Len(m_List) + n
      /\ \A i \in 1..Len(m_List) : all[i] = m_List[i]
      /\ \A i \in 1..(Len(m_List) + n) : i > Len(m_List) => i - Len(m_List) \in 1..n /\ all[i] = new[i - Len(m_List)]
  BY <1>2, <1>4 DEF new
<1>. HIDE DEF all
<1>7. \A i \in 1..(Len(m_List) + n) : i > Len(m_List) =>
        IsSample(all[i]) /\ all[i].id = nextId + (i - Len(m_List)) - 1 /\ all[i].epoch = epoch
  BY <1>5, <1>6
<1>8. \A i \in 1..(Len(m_List) + n) : i > Len(m_List) \/ i \in 1..Len(m_List)
  BY <1>2
<1>9. \A i \in 1..Len(m_List) : m_List[i].id \in Nat
  <2>1. \A i \in 1..Len(m_List) : m_List[i] \in Element
    BY <1>2
  <2>. QED  BY <2>1, <1>2 DEF Element
<1>10. \A i \in 1..Len(all) : IsSample(all[i]) => last < all[i].id /\ all[i].id < nextId + n
  <2>1. ASSUME NEW i \in 1..Len(all), IsSample(all[i]) PROVE last < all[i].id /\ all[i].id < nextId + n
    <3>1. CASE i \in 1..Len(m_List)
      BY <1>2, <1>6, <1>9, <2>1, <3>1 DEF Line
    <3>2. CASE i > Len(m_List)
      BY <1>2, <1>6, <1>7, <3>2
    <3>. QED  BY <1>6, <1>8, <3>1, <3>2
  <2>. QED  BY <2>1
<1>11. \A i, j \in 1..Len(all) : i < j /\ IsSample(all[i]) /\ IsSample(all[j]) => all[i].id < all[j].id
  <2>1. ASSUME NEW i \in 1..Len(all), NEW j \in 1..Len(all), i < j, IsSample(all[i]), IsSample(all[j])
        PROVE  all[i].id < all[j].id
    <3>1. CASE j \in 1..Len(m_List)
      <4>1. i \in 1..Len(m_List)
        BY <1>2, <1>6, <2>1, <3>1
      <4>. QED  BY <1>6, <2>1, <3>1, <4>1 DEF Line
    <3>2. CASE i \in 1..Len(m_List) /\ j > Len(m_List)
      <4>1. all[i].id \in Nat /\ all[i].id < nextId
        BY <1>6, <1>9, <2>1, <3>2 DEF Line
      <4>2. j - Len(m_List) \in 1..n /\ all[j].id = nextId + (j - Len(m_List)) - 1
        BY <1>6, <1>7, <3>2
      <4>. QED  BY <1>2, <4>1, <4>2
    <3>3. CASE i > Len(m_List) /\ j > Len(m_List)
      <4>1. /\ i - Len(m_List) \in 1..n /\ all[i].id = nextId + (i - Len(m_List)) - 1
            /\ j - Len(m_List) \in 1..n /\ all[j].id = nextId + (j - Len(m_List)) - 1
        BY <1>6, <1>7, <3>3
      <4>. QED  BY <1>2, <1>6, <2>1, <4>1
    <3>. QED  BY <1>6, <1>8, <3>1, <3>2, <3>3
  <2>. QED  BY <2>1
<1>12. \A i \in 1..(Len(m_List) + n) : i > Len(m_List) => all[i].id >= nextId
  <2>1. ASSUME NEW i \in 1..(Len(m_List) + n), i > Len(m_List) PROVE all[i].id >= nextId
    <3>1. i - Len(m_List) \in 1..n /\ all[i].id = nextId + (i - Len(m_List)) - 1
      BY <1>6, <1>7, <2>1
    <3>. QED  BY <1>2, <3>1
  <2>. QED  BY <2>1
<1>13. Line(all, last, nextId + n)
  BY <1>10, <1>11 DEF Line
<1>. QED  BY <1>4, <1>6, <1>7, <1>12, <1>13 DEF new, all

\* A command behind the list.
LEMMA CommandAppended ==
  ASSUME QueueTypes, Line(m_List, last, nextId), NEW c \in Commands
  PROVE  LET new == Append(m_List, Command(c))
         IN /\ new \in Seq(Element) /\ Len(new) = Len(m_List) + 1
            /\ \A i \in 1..Len(m_List) : new[i] = m_List[i]
            /\ new[Len(m_List) + 1] = Command(c) /\ ~IsSample(Command(c)) /\ Command(c).kind = c
            /\ Line(new, last, nextId)
            /\ \A q : Before(q, m_List) => Before(q, new)
<1>1. Command(c) \in Element /\ ~IsSample(Command(c)) /\ Command(c).kind = c
  BY ConstantsAssumption DEF Command, Element, IsSample, Commands
<1>2. m_List \in Seq(Element) /\ last \in Nat /\ nextId \in Nat /\ Len(m_List) \in Nat
  BY ConstantsAssumption DEF QueueTypes
<1>3. PICK x \in Element : x = Command(c) /\ ~IsSample(x)
  BY <1>1
<1>4. /\ Line(Append(m_List, x), last, nextId)
      /\ Append(m_List, x) \in Seq(Element) /\ Len(Append(m_List, x)) = Len(m_List) + 1
      /\ \A i \in 1..(Len(m_List) + 1) : Append(m_List, x)[i] = IF i = Len(m_List) + 1 THEN x ELSE m_List[i]
  BY <1>2, <1>3, LineAppend
<1>5. \A i \in 1..(Len(m_List) + 1) : i = Len(m_List) + 1 \/ i \in 1..Len(m_List)
  BY <1>2
<1>6. \A q : Before(q, m_List) => Before(q, Append(m_List, x))
  BY <1>3, <1>4, <1>5 DEF Before
<1>. QED  BY <1>1, <1>2, <1>3, <1>4, <1>6

-----------------------------------------------------------------------------
(* Order.                                                                   *)

Queueing == EOS \/ SendAnyway \/ QueueSegment \/ Reset

\* The steps of the upstream filter and of the control thread.
LEMMA OrderCallersStep ==
  ASSUME OrderInv, (\E n \in 1..MaxSample : ReceiveMultiple(n)) \/ NewSegment \/ Queueing \/ Control
  PROVE  OrderInv'
<1> USE DEF OrderInv, modeVars, flushVars, workVars, histVars, NotifyThread
<1>1. UNCHANGED <<m_ppSamples, sending, command, worker, last>>
  BY DEF ReceiveMultiple, NewSegment, Queueing, EOS, SendAnyway, QueueSegment, Control, BeginFlush,
         FlushDownstream, EndFlush, FlushCompleted, FlushEnded, Reset, ResetReturn, Destroy, Destroyed
<1>2. /\ m_List \in Seq(Element) /\ m_ppSamples \in Seq(Element) /\ sending \in Seq(Element)
      /\ last \in Nat /\ nextId \in Nat /\ Len(m_List) \in Nat
  BY ConstantsAssumption DEF QueueTypes
<1>3. ASSUME NEW n \in 1..MaxSample, ReceiveMultiple(n) PROVE OrderInv'
  <2>1. /\ nextId' = nextId + n /\ nextId + n <= MaxSample + 1 /\ Len(m_List) + n <= MaxList
        /\ m_List' = m_List \/ m_List' = m_List \o Samples(n)
        /\ UNCHANGED <<upstream, control, m_hr, epoch>>
    BY <1>3 DEF ReceiveMultiple
  <2>2. nextId' \in Nat /\ nextId <= nextId'
    BY <1>2, <2>1
  <2>3. /\ Line(m_List, last, nextId') /\ Line(m_ppSamples, last, nextId')
        /\ Line(sending, IF worker = "receiving" THEN 0 ELSE last, nextId')
    BY <1>2, <2>2, LineWider DEF Order
  <2>4. CASE m_List' = m_List
    BY <1>1, <1>2, <2>1, <2>2, <2>3, <2>4, ConstantsAssumption DEF QueueTypes, Order
  <2>5. CASE m_List' = m_List \o Samples(n)
    <3>1. last < nextId /\ Line(m_List, last, nextId)
      BY DEF Order
    <3>2. /\ m_List' \in Seq(Element) /\ Len(m_List') = Len(m_List) + n /\ Line(m_List', last, nextId')
          /\ \A i \in 1..Len(m_List) : m_List'[i] = m_List[i]
          /\ \A i \in 1..(Len(m_List) + n) : i > Len(m_List) => m_List'[i].id >= nextId
      BY <2>1, <2>5, <3>1, LineSamples
    <3>3. ASSUME NEW q \in Seq(Element), NEW lo, Line(q, lo, nextId), Before(q, m_List)
          PROVE  Before(q, m_List')
      <4>1. ASSUME NEW i \in 1..Len(q), NEW j \in 1..Len(m_List'), IsSample(q[i]), IsSample(m_List'[j])
            PROVE  q[i].id < m_List'[j].id
        <5>1. CASE j \in 1..Len(m_List)
          BY <3>2, <3>3, <4>1, <5>1 DEF Before
        <5>2. CASE j > Len(m_List)
          <6>1. m_List'[j].id >= nextId /\ m_List'[j] \in Element
            BY <3>2, <4>1, <5>2
          <6>2. q[i].id < nextId /\ q[i] \in Element
            BY <3>3, <4>1 DEF Line
          <6>3. q[i].id \in Nat /\ m_List'[j].id \in Nat
            BY <6>1, <6>2, ConstantsAssumption DEF Element
          <6>. QED  BY <1>2, <6>1, <6>2, <6>3
        <5>. QED  BY <1>2, <3>2, <4>1, <5>1, <5>2
      <4>. QED  BY <4>1 DEF Before
    <3>4. Before(sending, m_List') /\ Before(m_ppSamples, m_List')
      BY <1>2, <3>3 DEF Order
    <3>5. QueueTypes'
      BY <1>1, <1>2, <2>1, <2>2, <3>2, ConstantsAssumption DEF QueueTypes
    <3>. QED  BY <1>1, <1>2, <2>1, <2>2, <2>3, <3>2, <3>4, <3>5 DEF Order
  <2>. QED  BY <2>1, <2>4, <2>5
<1>4. ASSUME Queueing PROVE OrderInv'
  <2>1. /\ UNCHANGED <<nextId, m_hr, epoch>> /\ Len(m_List) < MaxList
        /\ control' = control \/ control' = "reset"
        /\ upstream' = upstream \/ upstream' = "idle"
    BY <1>4 DEF Queueing, EOS, SendAnyway, QueueSegment, Reset
  <2>2. PICK c \in Commands : m_List' = Append(m_List, Command(c))
    BY <1>4 DEF Queueing, EOS, SendAnyway, QueueSegment, Reset, Commands
  <2>3. Line(m_List, last, nextId)
    BY DEF Order
  <2>4. /\ m_List' \in Seq(Element) /\ Len(m_List') = Len(m_List) + 1 /\ Line(m_List', last, nextId)
        /\ \A q : Before(q, m_List) => Before(q, m_List')
    BY <2>2, <2>3, CommandAppended
  <2>5. QueueTypes'
    BY <1>1, <1>2, <2>1, <2>4, ConstantsAssumption DEF QueueTypes, FlushSteps
  <2>. QED  BY <1>1, <2>1, <2>4, <2>5 DEF Order
<1>5. ASSUME NewSegment \/ (Control /\ ~Reset) PROVE OrderInv'
  <2>1. UNCHANGED <<nextId, m_List>>
    BY <1>5 DEF NewSegment, Control, BeginFlush, FlushDownstream, EndFlush, FlushCompleted, FlushEnded,
                ResetReturn, Destroy, Destroyed
  <2>2. Order'
    BY <1>1, <2>1 DEF Order
  <2>3. m_hr' \in Results /\ upstream' \in {"idle", "segment"}
    BY <1>5 DEF NewSegment, Control, BeginFlush, FlushDownstream, EndFlush, FlushCompleted, FlushEnded,
                ResetReturn, Destroy, Destroyed, QueueTypes, Results
  <2>4. /\ control' \in {"idle", "reset", "destroy", "gone"} \cup FlushSteps
        /\ epoch' \in 0..MaxFlush /\ (control' \in FlushSteps => epoch' < MaxFlush)
    BY <1>5, ConstantsAssumption
       DEF NewSegment, Control, BeginFlush, FlushDownstream, EndFlush, FlushCompleted, FlushEnded,
                ResetReturn, Destroy, Destroyed, QueueTypes, FlushSteps
  <2>. QED  BY <1>1, <2>1, <2>2, <2>3, <2>4 DEF QueueTypes
<1>. QED  BY <1>3, <1>4, <1>5 DEF Queueing

\* The thread's steps.  Those that take from the list have no batch in hand.
LEMMA OrderWorkerStep ==
  ASSUME OrderInv, WorkerStep \/ Receives
  PROVE  OrderInv'
<1> USE DEF OrderInv, modeVars, flushVars, histVars, ctlVars
<1>1. UNCHANGED <<upstream, control, nextId, epoch>>
  BY DEF WorkerStep, Receives, Terminate, Discard, TakeSample, TakeCommand, ListEmpty, Woken, Send, After,
         EosDelivered, ResetDone, Received
<1>2. /\ m_List \in Seq(Element) /\ m_ppSamples \in Seq(Element) /\ sending \in Seq(Element)
      /\ last \in Nat /\ nextId \in Nat /\ Len(m_List) \in Nat /\ Len(m_ppSamples) \in Nat
      /\ m_lBatchSize \in Nat \ {0} /\ MaxList \in Nat
  BY ConstantsAssumption DEF QueueTypes
<1>3. /\ \A lo, hi : Line(<<>>, lo, hi)
      /\ \A q : Before(q, <<>>) /\ Before(<<>>, q)
      /\ <<>> \in Seq(Element) /\ Len(<<>>) = 0
  BY DEF Line, Before
<1>4. InLoop => sending = <<>> /\ command = NoCommand /\ worker # "receiving"
  BY DEF InLoop, QueueTypes, NoCommand
<1>5. CASE Terminate \/ Discard
  <2>1. /\ m_List' = <<>> /\ m_ppSamples' = <<>> /\ worker' \in {"done", "sem"} /\ UNCHANGED <<sending, command, m_hr, last>>
        /\ InLoop
    BY <1>5 DEF Terminate, Discard, FreeSamples
  <2>2. QueueTypes'
    BY <1>1, <1>2, <1>3, <1>4, <2>1 DEF QueueTypes, Places
  <2>. QED  BY <1>1, <1>3, <1>4, <2>1, <2>2 DEF Order
<1>6. CASE TakeSample
  <2>1. /\ InLoop /\ m_List # <<>> /\ IsSample(Head(m_List)) /\ m_List' = Tail(m_List)
        /\ UNCHANGED <<m_hr, last>>
    BY <1>6 DEF TakeSample, Taking
  <2>2. PICK x : x = Head(m_List)
    OBVIOUS
  <2>3. /\ x \in Element /\ Tail(m_List) \in Seq(Element) /\ Len(Tail(m_List)) = Len(m_List) - 1
        /\ Line(Tail(m_List), last, nextId) /\ last < x.id /\ x.id < nextId /\ IsSample(x)
        /\ \A i \in 1..Len(Tail(m_List)) : IsSample(Tail(m_List)[i]) => x.id < Tail(m_List)[i].id
        /\ Before(m_ppSamples, Tail(m_List))
    BY <1>2, <2>1, <2>2, LineTail DEF Order
  <2>4. \A i \in 1..Len(m_ppSamples) : IsSample(m_ppSamples[i]) => m_ppSamples[i].id < x.id
    <3>1. 1 \in 1..Len(m_List) /\ m_List[1] = x
      BY <1>2, <2>1, <2>2
    <3>. QED  BY <2>3, <3>1 DEF Order, Before
  <2>5. PICK batch : batch = Append(m_ppSamples, x)
    OBVIOUS
  <2>6. /\ Line(batch, last, nextId) /\ batch \in Seq(Element) /\ Len(batch) = Len(m_ppSamples) + 1
        /\ \A i \in 1..Len(batch) : batch[i] = IF i = Len(m_ppSamples) + 1 THEN x ELSE m_ppSamples[i]
    BY <1>2, <2>3, <2>4, <2>5, LineAppend DEF Order
  <2>7. \A i \in 1..Len(batch) : i = Len(m_ppSamples) + 1 \/ i \in 1..Len(m_ppSamples)
    BY <1>2, <2>6
  <2>8. \A i \in 1..Len(batch) : IsSample(batch[i])
    BY <2>3, <2>6, <2>7 DEF Order
  <2>9. Before(batch, Tail(m_List))
    BY <2>3, <2>6, <2>7 DEF Before
  <2>10. \/ /\ Len(batch) = m_lBatchSize /\ sending' = batch /\ m_ppSamples' = <<>> /\ command' = NoCommand
            /\ worker' = "send"
         \/ /\ Len(batch) # m_lBatchSize /\ m_ppSamples' = batch /\ worker' = "take"
            /\ UNCHANGED <<sending, command>>
    <3>1. batch # <<>>
      BY <1>2, <1>3, <2>6
    <3>. QED  BY <1>6, <2>2, <2>5, <3>1 DEF TakeSample, Leave
  <2>11. CASE worker' = "send"
    <3>1. sending' = batch /\ m_ppSamples' = <<>> /\ command' = NoCommand /\ batch # <<>> /\ Len(batch) = m_lBatchSize
      BY <1>2, <1>3, <2>6, <2>10, <2>11
    <3>2. QueueTypes'
      BY <1>1, <1>2, <1>3, <2>1, <2>3, <2>6, <2>11, <3>1 DEF QueueTypes, Places
    <3>. QED  BY <1>1, <1>3, <2>1, <2>3, <2>6, <2>8, <2>9, <2>11, <3>1, <3>2 DEF Order
  <2>12. CASE worker' = "take"
    <3>1. m_ppSamples' = batch /\ UNCHANGED <<sending, command>> /\ Len(batch) < m_lBatchSize
      BY <1>2, <2>6, <2>10, <2>12 DEF QueueTypes
    <3>2. QueueTypes'
      BY <1>1, <1>2, <1>4, <2>1, <2>3, <2>6, <2>12, <3>1 DEF QueueTypes, Places
    <3>. QED  BY <1>1, <1>3, <1>4, <2>1, <2>3, <2>6, <2>8, <2>9, <2>12, <3>1, <3>2 DEF Order
  <2>. QED  BY <2>10, <2>11, <2>12
<1>7. CASE TakeCommand
  <2>1. /\ InLoop /\ m_List # <<>> /\ ~IsSample(Head(m_List)) /\ m_List' = Tail(m_List)
        /\ UNCHANGED <<m_hr, last>>
    BY <1>7 DEF TakeCommand, Taking
  <2>2. /\ Head(m_List) \in Element /\ Tail(m_List) \in Seq(Element) /\ Len(Tail(m_List)) = Len(m_List) - 1
        /\ Line(Tail(m_List), last, nextId) /\ Before(m_ppSamples, Tail(m_List))
    BY <1>2, <2>1, LineTail DEF Order
  <2>3. Head(m_List).kind \in Commands
    BY <2>1, <2>2 DEF Element, IsSample
  <2>4. CASE worker' = "take" /\ UNCHANGED <<m_ppSamples, sending, command>>
    <3>1. QueueTypes'
      BY <1>1, <1>2, <1>4, <2>1, <2>2, <2>4 DEF QueueTypes, Places
    <3>. QED  BY <1>1, <1>3, <1>4, <2>1, <2>2, <2>4, <3>1 DEF Order
  <2>5. CASE Leave(m_ppSamples, Head(m_List).kind)
    <3>1. QueueTypes'
      BY <1>1, <1>2, <1>3, <2>1, <2>2, <2>3, <2>5 DEF QueueTypes, Places, Leave, NoCommand
    <3>. QED  BY <1>1, <1>3, <2>1, <2>2, <2>5, <3>1 DEF Order, Leave
  <2>. QED  BY <1>7, <2>4, <2>5 DEF TakeCommand
<1>8. CASE ListEmpty
  <2>1. InLoop /\ UNCHANGED <<m_List, m_hr, last>>
    BY <1>8 DEF ListEmpty, Taking
  <2>2. CASE worker' = "sem" /\ UNCHANGED <<m_ppSamples, sending, command>>
    BY <1>1, <1>4, <2>1, <2>2 DEF QueueTypes, Places, Order
  <2>3. CASE Leave(m_ppSamples, NoCommand)
    <3>1. QueueTypes'
      BY <1>1, <1>2, <1>3, <2>1, <2>3 DEF QueueTypes, Places, Leave, NoCommand
    <3>. QED  BY <1>1, <1>3, <2>1, <2>3, <3>1 DEF Order, Leave
  <2>. QED  BY <1>8, <2>2, <2>3 DEF ListEmpty
<1>9. CASE Woken \/ EosDelivered \/ ResetDone
  <2>1. /\ worker' = "top" /\ worker \in {"sem", "eos", "reset"}
        /\ UNCHANGED <<m_List, m_ppSamples, sending, command, m_hr, last>>
    BY <1>9 DEF Woken, EosDelivered, ResetDone
  <2>. QED  BY <1>1, <2>1 DEF QueueTypes, Places, Order
<1>10. CASE Send
  <2>1. worker = "send" /\ UNCHANGED <<m_List, m_ppSamples, m_hr, command>>
    BY <1>10 DEF Send
  <2>2. CASE worker' = "receiving" /\ last' = sending[Len(sending)].id /\ UNCHANGED sending
    <3>1. sending # <<>> /\ Len(sending) \in 1..Len(sending) /\ Len(sending) \in Nat \ {0}
      BY <1>2, <2>1 DEF QueueTypes
    <3>2. IsSample(sending[Len(sending)]) /\ sending[Len(sending)] \in Element
      BY <1>2, <3>1 DEF Order
    <3>3. last' \in 0..MaxSample /\ last < last' /\ last' < nextId
      BY <2>1, <2>2, <3>1, <3>2 DEF Order, Line, Element
    <3>4. QueueTypes'
      BY <1>1, <2>1, <2>2, <3>1, <3>3 DEF QueueTypes, Places
    <3>5. Line(sending, 0, nextId)
      <4>1. Line(sending, last, nextId) /\ 0 \in Nat /\ 0 <= last /\ nextId <= nextId
        BY <1>2, <2>1 DEF Order
      <4>. QED  BY <1>2, <4>1, LineWider
    <3>6. ASSUME NEW q, Line(q, last, nextId), Before(sending, q) PROVE Line(q, last', nextId)
      <4>1. \A i \in 1..Len(q) : IsSample(q[i]) => sending[Len(sending)].id < q[i].id
        BY <3>1, <3>2, <3>6 DEF Before
      <4>2. \A i \in 1..Len(q) : IsSample(q[i]) => last' < q[i].id
        BY <2>2, <4>1
      <4>. QED  BY <3>6, <4>2 DEF Line
    <3>7. Line(m_List, last', nextId) /\ Line(m_ppSamples, last', nextId)
      BY <3>6 DEF Order
    <3>. QED  BY <1>1, <2>1, <2>2, <3>3, <3>4, <3>5, <3>7 DEF Order
  <2>3. CASE worker' = "after" /\ sending' = <<>> /\ UNCHANGED last
    <3>1. QueueTypes'
      BY <1>1, <1>2, <1>3, <2>1, <2>3 DEF QueueTypes, Places
    <3>. QED  BY <1>1, <1>3, <2>1, <2>3, <3>1 DEF Order
  <2>. QED  BY <1>10, <2>2, <2>3 DEF Send
<1>11. CASE Receives
  <2>1. /\ worker' = "after" /\ sending' = <<>> /\ m_hr' \in Results
        /\ UNCHANGED <<m_List, m_ppSamples, command, last>>
    BY <1>11 DEF Receives, Received, QueueTypes
  <2>2. QueueTypes'
    BY <1>1, <1>2, <1>3, <1>11, <2>1 DEF QueueTypes, Places, Receives, Received
  <2>. QED  BY <1>1, <1>3, <2>1, <2>2 DEF Order
<1>12. CASE After
  <2>1. /\ worker = "after" /\ worker' \in {"eos", "top", "reset"} /\ command' = NoCommand /\ m_hr' \in Results
        /\ UNCHANGED <<m_List, m_ppSamples, sending, last>>
    BY <1>12 DEF After, QueueTypes, Results
  <2>. QED  BY <1>1, <2>1 DEF QueueTypes, Places, Order
<1>. QED  BY <1>5, <1>6, <1>7, <1>8, <1>9, <1>10, <1>11, <1>12 DEF WorkerStep

LEMMA OrderStep == OrderInv /\ [Next]_vars => OrderInv'
<1> SUFFICES ASSUME OrderInv, [Next]_vars PROVE OrderInv'
  OBVIOUS
<1>1. CASE Upstream \/ Control
  BY <1>1, OrderCallersStep DEF Upstream, Queueing
<1>2. CASE WorkerStep \/ Receives
  BY <1>2, OrderWorkerStep
<1>3. CASE UNCHANGED vars
  BY <1>3 DEF OrderInv, QueueTypes, Order, vars, workVars, histVars
<1>. QED  BY <1>1, <1>2, <1>3 DEF Next, Gone

-----------------------------------------------------------------------------
(* The thread's waits.                                                      *)

\* Whoever queues something the thread must see wakes it.
LEMMA WaitCallersStep ==
  ASSUME OrderInv, Waits, Upstream \/ Control
  PROVE  Waits'
<1> USE DEF modeVars, flushVars, workVars, histVars
<1>1. worker' = worker /\ UNCHANGED <<m_ppSamples, m_bBatchExact>>
  BY DEF Upstream, ReceiveMultiple, NewSegment, EOS, SendAnyway, QueueSegment, Control, BeginFlush,
         FlushDownstream, EndFlush, FlushCompleted, FlushEnded, Reset, ResetReturn, Destroy, Destroyed
<1>2. CASE NotifyThread
  BY <1>1, <1>2 DEF NotifyThread, Waits
<1>3. CASE UNCHANGED <<m_lWaiting, m_hSem, m_List, m_bTerminate>>
  BY <1>1, <1>3 DEF Waits
<1>4. ASSUME NEW n \in 1..MaxSample, ReceiveMultiple(n), m_List' = m_List \o Samples(n),
             ~Worth(Len(m_ppSamples) + Len(m_List) + n), UNCHANGED <<m_hSem, m_lWaiting, m_bTerminate>>
      PROVE  Waits'
  <2>1. m_bBatchExact /\ Len(m_ppSamples) + Len(m_List) + n < m_lBatchSize
    BY <1>4, ConstantsAssumption DEF Worth, OrderInv, QueueTypes
  <2>2. /\ Len(m_List') = Len(m_List) + n
        /\ \A i \in 1..Len(m_List) : m_List'[i] = m_List[i]
        /\ \A i \in 1..(Len(m_List) + n) : i > Len(m_List) => IsSample(m_List'[i])
    BY <1>4, LineSamples DEF OrderInv, Order, ReceiveMultiple
  <2>3. \A i \in 1..(Len(m_List) + n) : i > Len(m_List) \/ i \in 1..Len(m_List)
    BY DEF OrderInv, QueueTypes
  <2>4. m_lWaiting = 1 => \A i \in 1..Len(m_List') : IsSample(m_List'[i])
    BY <2>2, <2>3 DEF Waits
  <2>5. Len(m_ppSamples) + Len(m_List') < m_lBatchSize
    BY <2>1, <2>2 DEF OrderInv, QueueTypes
  <2>. QED  BY <1>1, <1>4, <2>1, <2>4, <2>5 DEF Waits
<1>5. CASE \E n \in 1..MaxSample : ReceiveMultiple(n)
  <2>1. PICK n \in 1..MaxSample : ReceiveMultiple(n)
    BY <1>5
  <2>. QED  BY <1>2, <1>3, <1>4, <2>1 DEF ReceiveMultiple
<1>6. CASE EOS \/ SendAnyway \/ QueueSegment \/ Reset \/ Destroy
  BY <1>2, <1>6 DEF EOS, SendAnyway, QueueSegment, Reset, Destroy
<1>7. CASE BeginFlush
  BY <1>2, <1>3, <1>7 DEF BeginFlush
<1>8. CASE NewSegment \/ FlushDownstream \/ EndFlush \/ FlushCompleted \/ FlushEnded \/ ResetReturn \/ Destroyed
  BY <1>3, <1>8 DEF NewSegment, FlushDownstream, EndFlush, FlushCompleted, FlushEnded, ResetReturn, Destroyed
<1>. QED  BY <1>5, <1>6, <1>7, <1>8 DEF Upstream, Control

\* The thread announces a wait only when the list is empty and what it has batched must wait for more.
LEMMA WaitWorkerStep ==
  ASSUME OrderInv, Waits, WorkerStep \/ Receives
  PROVE  Waits'
<1> USE DEF modeVars, flushVars, histVars, ctlVars
<1>1. Len(<<>>) = 0 /\ m_lBatchSize \in Nat \ {0} /\ Len(m_ppSamples) \in Nat /\ Len(m_ppSamples) < m_lBatchSize
  BY ConstantsAssumption DEF OrderInv, QueueTypes
<1>2. CASE worker # "sem" /\ worker' # "sem" /\ UNCHANGED <<m_lWaiting, m_hSem>>
  BY <1>2 DEF Waits
<1>3. CASE Discard
  <2>1. /\ worker # "sem" /\ worker' = "sem" /\ m_List' = <<>> /\ m_ppSamples' = <<>> /\ ~m_bTerminate'
        /\ m_lWaiting' = m_lWaiting + 1 /\ m_hSem' = m_hSem
    BY <1>3 DEF Discard, InLoop, FreeSamples
  <2>. QED  BY <1>1, <2>1 DEF Waits
<1>4. CASE ListEmpty
  <2>1. /\ worker # "sem" /\ ~m_bTerminate' /\ m_List' = <<>> /\ m_hSem' = m_hSem
    BY <1>4 DEF ListEmpty, Taking, InLoop
  <2>2. CASE m_lWaiting' = m_lWaiting + 1 /\ worker' = "sem" /\ UNCHANGED m_ppSamples
    BY <1>1, <2>1, <2>2 DEF Waits
  <2>3. CASE Leave(m_ppSamples, NoCommand) /\ UNCHANGED m_lWaiting
    BY <1>2, <2>1, <2>3 DEF Leave
  <2>. QED  BY <1>4, <2>2, <2>3 DEF ListEmpty
<1>5. CASE Woken
  <2>1. worker = "sem" /\ m_hSem > 0 /\ m_hSem' = m_hSem - 1 /\ worker' = "top" /\ m_lWaiting' = m_lWaiting
    BY <1>5 DEF Woken
  <2>. QED  BY <2>1 DEF Waits
<1>6. CASE Terminate \/ Send \/ After \/ EosDelivered \/ ResetDone \/ Receives
  BY <1>2, <1>6 DEF Terminate, Send, After, EosDelivered, ResetDone, Receives, Received, InLoop
<1>7. CASE TakeSample \/ TakeCommand
  BY <1>2, <1>7 DEF TakeSample, TakeCommand, Taking, InLoop, Leave
<1>. QED  BY <1>3, <1>4, <1>5, <1>6, <1>7 DEF WorkerStep

LEMMA WaitStep == OrderInv /\ Waits /\ [Next]_vars => Waits'
<1> SUFFICES ASSUME OrderInv, Waits, [Next]_vars PROVE Waits'
  OBVIOUS
<1>1. CASE UNCHANGED vars
  BY <1>1 DEF Waits, vars, workVars, modeVars
<1>. QED  BY <1>1, WaitCallersStep, WaitWorkerStep DEF Next, Gone

LEMMA InitBase == Init => OrderInv /\ Waits /\ Flags
<1> SUFFICES ASSUME Init PROVE OrderInv /\ Waits /\ Flags
  OBVIOUS
<1>1. <<>> \in Seq(Element) /\ Len(<<>>) = 0 /\ \A lo, hi : Line(<<>>, lo, hi)
  BY LineEmpty
<1>2. \A q : Before(q, <<>>) /\ Before(<<>>, q)
  BY DEF Before
<1>3. QueueTypes
  BY <1>1, ConstantsAssumption DEF Init, QueueTypes, Places, FlushSteps, Results, NoCommand
<1>4. Order
  BY <1>1, <1>2 DEF Init, Order
<1>5. Waits
  BY <1>1, ConstantsAssumption DEF Init, Waits
<1>6. (m_lBatchSize > 1) \in BOOLEAN
  BY ConstantsAssumption
<1>7. Flags
  BY <1>6, Zenon DEF Init, Flags
<1>. QED  BY <1>3, <1>4, <1>5, <1>7 DEF OrderInv

LEMMA OrderAlways == Spec => [](OrderInv /\ Waits)
<1>1. Init => OrderInv /\ Waits
  BY InitBase
<1>2. OrderInv /\ Waits /\ [Next]_vars => (OrderInv /\ Waits)'
  BY OrderStep, WaitStep
<1>. QED  BY <1>1, <1>2, PTL DEF Spec

\* The thread of COutputQueue has either announced its wait or been given the semaphore, and never waits
\* unannounced with work to do, whatever its callers do (NotifyThread, ThreadProc).
THEOREM WorkNeverMissed == Spec => []NoMissedWork
<1>1. OrderInv /\ Waits => NoMissedWork
  <2> SUFFICES ASSUME OrderInv, Waits PROVE NoMissedWork
    OBVIOUS
  <2>1. DOMAIN m_List = 1..Len(m_List) /\ Len(m_ppSamples) + Len(m_List) \in Nat /\ m_lBatchSize \in Nat
    BY ConstantsAssumption DEF OrderInv, QueueTypes
  <2>. QED  BY <2>1 DEF Waits, NoMissedWork, Work
<1>. QED  BY <1>1, OrderAlways, PTL

-----------------------------------------------------------------------------
(* Order, as a reader of the queue sees it.                                 *)

LEMMA LineConcat ==
  ASSUME NEW q \in Seq(Element), NEW r \in Seq(Element), NEW lo, NEW hi,
         Line(q, lo, hi), Line(r, lo, hi), Before(q, r)
  PROVE  /\ q \o r \in Seq(Element) /\ Line(q \o r, lo, hi)
         /\ \A t : Before(q, t) /\ Before(r, t) => Before(q \o r, t)
<1>1. PICK all : all = q \o r
  OBVIOUS
<1>2. /\ all \in Seq(Element) /\ Len(all) = Len(q) + Len(r) /\ Len(q) \in Nat /\ Len(r) \in Nat
      /\ \A i \in 1..Len(q) : all[i] = q[i]
      /\ \A i \in 1..Len(all) : i > Len(q) => i - Len(q) \in 1..Len(r) /\ all[i] = r[i - Len(q)]
  BY <1>1
<1>3. \A i \in 1..Len(all) : i \in 1..Len(q) \/ i > Len(q)
  BY <1>2
<1>4. \A i \in 1..Len(all) : IsSample(all[i]) => lo < all[i].id /\ all[i].id < hi
  BY <1>2, <1>3 DEF Line
<1>5. ASSUME NEW i \in 1..Len(all), NEW j \in 1..Len(all), i < j, IsSample(all[i]), IsSample(all[j])
      PROVE  all[i].id < all[j].id
  <2>1. CASE j \in 1..Len(q)
    <3>1. i \in 1..Len(q)
      BY <1>2, <1>5, <2>1
    <3>. QED  BY <1>2, <1>5, <2>1, <3>1 DEF Line
  <2>2. CASE i \in 1..Len(q) /\ j > Len(q)
    BY <1>2, <1>5, <2>2 DEF Before
  <2>3. CASE i > Len(q) /\ j > Len(q)
    <3>1. PICK k \in 1..Len(r), l \in 1..Len(r) : all[i] = r[k] /\ all[j] = r[l] /\ k < l
      <4>1. i - Len(q) \in 1..Len(r) /\ j - Len(q) \in 1..Len(r) /\ i - Len(q) < j - Len(q)
        BY <1>2, <1>5, <2>3
      <4>. QED  BY <1>2, <2>3, <4>1
    <3>. QED  BY <1>5, <3>1 DEF Line
  <2>. QED  BY <1>3, <2>1, <2>2, <2>3
<1>6. \A t : Before(q, t) /\ Before(r, t) => Before(all, t)
  BY <1>2, <1>3 DEF Before
<1>. QED  BY <1>1, <1>2, <1>4, <1>5, <1>6 DEF Line

LEMMA OrderShown == OrderInv => InOrder
<1> SUFFICES ASSUME OrderInv PROVE InOrder
  OBVIOUS
<1>1. /\ m_List \in Seq(Element) /\ m_ppSamples \in Seq(Element) /\ sending \in Seq(Element)
      /\ last \in Nat /\ nextId \in Nat
  BY ConstantsAssumption DEF OrderInv, QueueTypes
<1>2. PICK lo \in Nat : lo = IF worker = "receiving" THEN 0 ELSE last
  BY <1>1
<1>3. lo <= last /\ nextId <= nextId
  BY <1>1, <1>2
<1>4. Line(sending, lo, nextId) /\ Line(m_ppSamples, lo, nextId) /\ Line(m_List, lo, nextId)
  BY <1>1, <1>2, <1>3, LineWider DEF OrderInv, Order
<1>5. PICK taken : taken = sending \o m_ppSamples
  OBVIOUS
<1>6. taken \in Seq(Element) /\ Line(taken, lo, nextId) /\ Before(taken, m_List)
  BY <1>1, <1>4, <1>5, LineConcat DEF OrderInv, Order
<1>7. PICK all : all = taken \o m_List
  OBVIOUS
<1>8. all \in Seq(Element) /\ Line(all, lo, nextId)
  BY <1>1, <1>4, <1>6, <1>7, LineConcat
<1>9. Held = all /\ DOMAIN all = 1..Len(all)
  BY <1>5, <1>7, <1>8 DEF Held
<1>10. \A i, j \in DOMAIN Held : i < j /\ IsSample(Held[i]) /\ IsSample(Held[j]) => Held[i].id < Held[j].id
  BY <1>8, <1>9 DEF Line
<1>11. worker # "receiving" => \A i \in DOMAIN Held : IsSample(Held[i]) => Held[i].id > last
  <2>1. \A i \in 1..Len(all) : all[i].id \in Nat
    <3>1. \A i \in 1..Len(all) : all[i] \in Element
      BY <1>8
    <3>. QED  BY <3>1, ConstantsAssumption DEF Element
  <2>. QED  BY <1>1, <1>2, <1>8, <1>9, <2>1 DEF Line
<1>. QED  BY <1>10, <1>11 DEF InOrder

\* Whatever its callers do, COutputQueue delivers samples in the order they came in and none twice, across
\* batches, commands, flushes and resets (ThreadProc, ReceiveMultiple).
THEOREM OrderAlwaysKept == Spec => []InOrder
BY OrderAlways, OrderShown, PTL

-----------------------------------------------------------------------------
(* Flags.                                                                   *)

LEMMA FlagsStep == Flags /\ [Next]_vars => Flags'
<1> SUFFICES ASSUME Flags, [Next]_vars PROVE Flags'
  OBVIOUS
<1> USE DEF Flags, modeVars, flushVars, workVars, histVars, ctlVars
<1>1. CASE UNCHANGED vars
  BY <1>1, Zenon DEF vars
<1>2. CASE Upstream
  <2>1. ASSUME NEW n, ReceiveMultiple(n) PROVE Flags'
    BY <2>1, Zenon DEF ReceiveMultiple
  <2>2. CASE EOS \/ SendAnyway
    BY <2>2, Zenon DEF EOS, SendAnyway
  <2>3. CASE NewSegment \/ QueueSegment
    BY <2>3, Zenon DEF NewSegment, QueueSegment
  <2>. QED  BY <1>2, <2>1, <2>2, <2>3 DEF Upstream
<1>3. CASE Control
  <2>1. CASE BeginFlush
    BY <2>1, Zenon DEF BeginFlush
  <2>2. CASE FlushDownstream
    BY <2>2, Zenon DEF FlushDownstream
  <2>3. CASE EndFlush
    BY <2>3, Zenon DEF EndFlush
  <2>4. CASE FlushCompleted \/ FlushEnded
    BY <2>4, Zenon DEF FlushCompleted, FlushEnded
  <2>5. CASE Reset \/ ResetReturn
    BY <2>5, Zenon DEF Reset, ResetReturn
  <2>6. CASE Destroy \/ Destroyed
    BY <2>6, Zenon DEF Destroy, Destroyed
  <2>. QED  BY <1>3, <2>1, <2>2, <2>3, <2>4, <2>5, <2>6 DEF Control
<1>4. CASE WorkerStep
  <2>1. CASE Terminate \/ Discard
    BY <2>1, Zenon DEF Terminate, Discard
  <2>2. CASE TakeSample \/ TakeCommand
    BY <2>2, Zenon DEF TakeSample, TakeCommand
  <2>3. CASE ListEmpty \/ Woken
    BY <2>3, Zenon DEF ListEmpty, Woken
  <2>4. CASE Send
    BY <2>4, Zenon DEF Send
  <2>5. CASE After
    BY <2>5, Zenon DEF After
  <2>6. CASE EosDelivered \/ ResetDone
    BY <2>6, Zenon DEF EosDelivered, ResetDone
  <2>. QED  BY <1>4, <2>1, <2>2, <2>3, <2>4, <2>5, <2>6 DEF WorkerStep
<1>5. CASE Receives
  BY <1>5, Zenon DEF Receives, Received
<1>. QED  BY <1>1, <1>2, <1>3, <1>4, <1>5 DEF Next, Gone

-----------------------------------------------------------------------------
(* Flushes, for a careful filter.                                           *)

\* A step brings samples into a queue that has none only from a filter whose samples are accepted.
LEMMA NoSamplesStep ==
  ASSUME OrderInv, NoSamples, [Next]_vars
  PROVE  \/ NoSamples'
         \/ m_hr = "S_OK" /\ ~m_bFlushed' /\ UNCHANGED <<control, m_evFlushComplete>>
<1> USE DEF modeVars, flushVars, workVars, histVars, ctlVars
<1>1. m_List \in Seq(Element) /\ Len(<<>>) = 0
  BY DEF OrderInv, QueueTypes
<1>2. CASE UNCHANGED <<m_List, m_ppSamples, sending>>
  BY <1>2 DEF NoSamples
<1>3. CASE Queueing
  <2>1. UNCHANGED <<m_ppSamples, sending>>
    BY <1>3 DEF Queueing, EOS, SendAnyway, QueueSegment, Reset
  <2>2. PICK c \in Commands : m_List' = Append(m_List, Command(c))
    BY <1>3 DEF Queueing, EOS, SendAnyway, QueueSegment, Reset, Commands
  <2>3. /\ Len(m_List') = Len(m_List) + 1 /\ ~IsSample(m_List'[Len(m_List) + 1])
        /\ \A i \in 1..Len(m_List) : m_List'[i] = m_List[i]
    BY <2>2, CommandAppended DEF OrderInv, Order
  <2>4. \A i \in 1..Len(m_List') : i = Len(m_List) + 1 \/ i \in 1..Len(m_List)
    BY <1>1, <2>3
  <2>. QED  BY <2>1, <2>3, <2>4 DEF NoSamples
<1>4. ASSUME NEW n \in 1..MaxSample, ReceiveMultiple(n)
      PROVE  \/ UNCHANGED <<m_List, m_ppSamples, sending>>
             \/ m_hr = "S_OK" /\ ~m_bFlushed' /\ UNCHANGED <<control, m_evFlushComplete>>
  BY <1>4, Zenon DEF ReceiveMultiple
<1>5. CASE NewSegment \/ (Control /\ ~Reset) \/ UNCHANGED vars
  BY <1>2, <1>5 DEF NewSegment, Control, BeginFlush, FlushDownstream, EndFlush, FlushCompleted, FlushEnded, ResetReturn,
                    Destroy, Destroyed, vars
<1>6. CASE Terminate \/ Discard
  <2>1. m_List' = <<>> /\ m_ppSamples' = <<>> /\ sending' = sending
    BY <1>6 DEF Terminate, Discard, FreeSamples
  <2>. QED  BY <1>1, <2>1 DEF NoSamples
<1>7. CASE TakeSample
  <2>1. m_List # <<>> /\ IsSample(Head(m_List))
    BY <1>7 DEF TakeSample
  <2>2. 1 \in 1..Len(m_List) /\ Head(m_List) = m_List[1]
    BY <1>1, <2>1
  <2>. QED  BY <2>1, <2>2 DEF NoSamples
<1>8. CASE TakeCommand
  <2>1. m_List # <<>> /\ m_List' = Tail(m_List) /\ m_ppSamples' = <<>> /\ sending' = <<>>
    BY <1>8 DEF TakeCommand, Leave, NoSamples
  <2>2. /\ Len(m_List) \in Nat \ {0} /\ Len(m_List') = Len(m_List) - 1
        /\ \A i \in 1..(Len(m_List) - 1) : m_List'[i] = m_List[i + 1] /\ i + 1 \in 1..Len(m_List)
    BY <1>1, <2>1
  <2>. QED  BY <2>1, <2>2 DEF NoSamples
<1>9. CASE ListEmpty
  <2>1. m_List' = m_List /\ m_ppSamples' = <<>> /\ sending' = <<>>
    BY <1>9 DEF ListEmpty, Leave, NoSamples
  <2>. QED  BY <2>1 DEF NoSamples
<1>10. CASE Woken \/ Send \/ After \/ EosDelivered \/ ResetDone \/ Receives
  <2>1. m_List' = m_List /\ m_ppSamples' = m_ppSamples /\ (sending' = sending \/ sending' = <<>>)
    BY <1>10 DEF Woken, Send, After, EosDelivered, ResetDone, Receives, Received
  <2>. QED  BY <2>1 DEF NoSamples
<1>. QED  BY <1>2, <1>3, <1>4, <1>5, <1>6, <1>7, <1>8, <1>9, <1>10 DEF Next, Gone, Upstream, Queueing, WorkerStep

\* What a step does to the flags of a flush.
LEMMA FlushMoves ==
  ASSUME OrderInv, Flags, FlushInv, OneReset, Careful, [Next]_vars
  PROVE  /\ control' \in FlushSteps => m_bFlushing' /\ m_hr' # "S_OK"
         /\ m_bFlushing' => control' \in FlushSteps
         /\ m_bFlushed' => m_bFlushed \/ control = "ended"
         /\ control' = "ended" => control = "ended" \/ (control = "end" /\ m_evFlushComplete)
         /\ control' \in {"begin", "flushing", "end"} /\ m_evFlushComplete' =>
              \/ control \in {"begin", "flushing", "end"} /\ m_evFlushComplete
              \/ NoSamples'
              \/ m_bFlushed /\ UNCHANGED <<m_List, m_ppSamples, sending>>
PROOF
<1> DEFINE Goal ==
         /\ control' \in FlushSteps => m_bFlushing' /\ m_hr' # "S_OK"
         /\ m_bFlushing' => control' \in FlushSteps
         /\ m_bFlushed' => m_bFlushed \/ control = "ended"
         /\ control' = "ended" => control = "ended" \/ (control = "end" /\ m_evFlushComplete)
         /\ control' \in {"begin", "flushing", "end"} /\ m_evFlushComplete' =>
              \/ control \in {"begin", "flushing", "end"} /\ m_evFlushComplete
              \/ NoSamples'
              \/ m_bFlushed /\ UNCHANGED <<m_List, m_ppSamples, sending>>
<1> SUFFICES Goal
  OBVIOUS
<1> USE DEF modeVars, flushVars, workVars, histVars, ctlVars
<1>0. /\ control \in FlushSteps => m_bFlushing /\ m_hr # "S_OK"
      /\ m_bFlushing => control \in FlushSteps
  BY DEF FlushInv
<1>1. CASE UNCHANGED <<control, m_bFlushing, m_bFlushed, m_evFlushComplete>> /\ (m_hr' = m_hr \/ (m_hr # "S_OK" /\ m_hr' # "S_OK") \/ control \notin FlushSteps)
  BY <1>0, <1>1
<1>2. CASE UNCHANGED <<control, m_bFlushing, m_evFlushComplete, m_hr>> /\ ~m_bFlushed'
  BY <1>0, <1>2
<1>3. CASE Upstream
  <2>1. UNCHANGED <<control, m_bFlushing, m_evFlushComplete, m_hr>> /\ (m_bFlushed' = m_bFlushed \/ ~m_bFlushed')
    <3>1. ASSUME NEW n, ReceiveMultiple(n) 
          PROVE  UNCHANGED <<control, m_bFlushing, m_evFlushComplete, m_hr>> /\ (m_bFlushed' = m_bFlushed \/ ~m_bFlushed')
      BY <3>1, Zenon DEF ReceiveMultiple
    <3>. QED  BY <1>3, <3>1, Zenon DEF Upstream, EOS, SendAnyway, NewSegment, QueueSegment
  <2>. QED  BY <1>1, <1>2, <2>1
<1>4. CASE BeginFlush
  <2>1. /\ m_bFlushing' /\ m_hr' # "S_OK" /\ m_bFlushed' = m_bFlushed /\ UNCHANGED <<m_List, m_ppSamples, sending>>
        /\ control' \in {"begin", "flushing"} /\ (m_bFlushed \/ ~m_evFlushComplete')
    BY <1>4, Zenon DEF BeginFlush
  <2>. QED  BY <2>1 DEF FlushSteps
<1>5. CASE FlushDownstream
  BY <1>0, <1>5 DEF FlushDownstream, FlushSteps
<1>6. CASE EndFlush
  <2>1. /\ control = "flushing" /\ m_evFlushComplete' = m_evFlushComplete /\ m_bFlushed' = m_bFlushed
        /\ \/ control' = "idle" /\ ~m_bFlushing'
           \/ control' = "end" /\ UNCHANGED <<m_bFlushing, m_hr>>
    BY <1>6, Zenon DEF EndFlush
  <2>. QED  BY <1>0, <2>1 DEF FlushSteps
<1>7. CASE FlushCompleted
  <2>1. /\ control = "end" /\ m_evFlushComplete /\ control' = "ended" /\ ~m_evFlushComplete'
        /\ UNCHANGED <<m_bFlushing, m_bFlushed, m_hr>>
    BY <1>7, Zenon DEF FlushCompleted
  <2>. QED  BY <1>0, <2>1 DEF FlushSteps
<1>8. CASE FlushEnded
  <2>1. control = "ended" /\ control' = "idle" /\ ~m_bFlushing'
    BY <1>8, Zenon DEF FlushEnded
  <2>. QED  BY <2>1 DEF FlushSteps
<1>9. CASE Reset \/ Destroy \/ Destroyed \/ ResetReturn
  <2>1. /\ control \in {"idle", "destroy", "reset"} /\ control' \in {"idle", "reset", "destroy", "gone"}
        /\ UNCHANGED <<m_bFlushing, m_bFlushed>>
    BY <1>9, Zenon DEF Reset, Destroy, Destroyed, ResetReturn
  <2>. QED  BY <1>0, <2>1 DEF FlushSteps
<1>10. CASE Discard
  <2>1. UNCHANGED <<control, m_bFlushing, m_bFlushed, m_hr, sending>> /\ m_List' = <<>> /\ m_ppSamples' = <<>> /\ InLoop
    BY <1>10 DEF Discard, FreeSamples
  <2>2. NoSamples'
    BY <2>1 DEF NoSamples, OrderInv, QueueTypes, InLoop
  <2>. QED  BY <1>0, <2>1, <2>2
<1>11. CASE ResetDone
  <2>1. worker = "reset" /\ UNCHANGED <<control, m_bFlushing, m_bFlushed, m_hr>>
    BY <1>11 DEF ResetDone
  <2>2. control = "reset"
    BY <2>1 DEF OneReset, ResetOnTheWay
  <2>. QED  BY <1>0, <2>1, <2>2
<1>12. CASE After
  <2>1. UNCHANGED <<control, m_bFlushing, m_bFlushed, m_evFlushComplete>> /\ (m_hr' = m_hr \/ command = "RESET")
    BY <1>12 DEF After
  <2>2. command = "RESET" => control = "reset"
    BY DEF OneReset, ResetOnTheWay
  <2>. QED  BY <1>1, <2>1, <2>2 DEF FlushSteps
<1>13. CASE Terminate \/ TakeSample \/ TakeCommand \/ ListEmpty \/ Woken \/ Send \/ EosDelivered \/ Receives \/ UNCHANGED vars
  <2>1. UNCHANGED <<control, m_bFlushing, m_bFlushed, m_evFlushComplete>> /\ (m_hr # "S_OK" => m_hr' = m_hr)
    BY <1>13 DEF Terminate, TakeSample, TakeCommand, ListEmpty, Woken, Send, EosDelivered, Receives, Received, vars
  <2>. QED  BY <1>0, <2>1
<1>. QED  BY <1>3, <1>4, <1>5, <1>6, <1>7, <1>8, <1>9, <1>10, <1>11, <1>12, <1>13 DEF Next, Gone, Control, WorkerStep

LEMMA FlushStep ==
  ASSUME OrderInv, Flags, FlushInv, OneReset, Careful, [Next]_vars
  PROVE  FlushInv'
<1>1. CASE NoSamples
  <2>1. \/ NoSamples'
        \/ m_hr = "S_OK" /\ ~m_bFlushed' /\ UNCHANGED <<control, m_evFlushComplete>>
    BY <1>1, NoSamplesStep
  <2>2. m_hr = "S_OK" => control \notin FlushSteps
    BY DEF FlushInv
  <2>. QED  BY <2>1, <2>2, FlushMoves DEF FlushInv, FlushSteps
<1>2. CASE ~NoSamples
  <2>1. ~m_bFlushed /\ control # "ended" /\ ~(control \in {"begin", "flushing", "end"} /\ m_evFlushComplete)
    BY <1>2 DEF FlushInv
  <2>. QED  BY <2>1, FlushMoves DEF FlushInv
<1>. QED  BY <1>1, <1>2

\* The epoch passes only when a flush has left nothing.
LEMMA FreshStep ==
  ASSUME OrderInv, FlushInv, Fresh, [Next]_vars
  PROVE  Fresh'
<1> USE DEF modeVars, flushVars, workVars, histVars, ctlVars
<1>1. m_List \in Seq(Element) /\ m_ppSamples \in Seq(Element) /\ Len(<<>>) = 0 /\ Len(m_List) \in Nat /\ Len(m_ppSamples) \in Nat
  BY DEF OrderInv, QueueTypes
<1>2. CASE UNCHANGED <<m_List, m_ppSamples, sending, epoch>>
  BY <1>2 DEF Fresh
<1>3. CASE Queueing
  <2>1. UNCHANGED <<m_ppSamples, sending, epoch>>
    BY <1>3 DEF Queueing, EOS, SendAnyway, QueueSegment, Reset
  <2>2. PICK c \in Commands : m_List' = Append(m_List, Command(c))
    BY <1>3 DEF Queueing, EOS, SendAnyway, QueueSegment, Reset, Commands
  <2>3. /\ Len(m_List') = Len(m_List) + 1 /\ ~IsSample(m_List'[Len(m_List) + 1])
        /\ \A i \in 1..Len(m_List) : m_List'[i] = m_List[i]
    BY <2>2, CommandAppended DEF OrderInv, Order
  <2>4. \A i \in 1..Len(m_List') : i = Len(m_List) + 1 \/ i \in 1..Len(m_List)
    BY <1>1, <2>3
  <2>. QED  BY <2>1, <2>3, <2>4 DEF Fresh
<1>4. ASSUME NEW n \in 1..MaxSample, ReceiveMultiple(n), m_List' = m_List \o Samples(n) PROVE Fresh'
  <2>1. /\ Len(m_List') = Len(m_List) + n
        /\ \A i \in 1..Len(m_List) : m_List'[i] = m_List[i]
        /\ \A i \in 1..(Len(m_List) + n) : i > Len(m_List) => m_List'[i].epoch = epoch
    BY <1>4, LineSamples DEF OrderInv, Order, ReceiveMultiple
  <2>2. \A i \in 1..Len(m_List') : i > Len(m_List) \/ i \in 1..Len(m_List)
    BY <1>1, <2>1
  <2>3. UNCHANGED <<m_ppSamples, sending, epoch>>
    BY <1>4 DEF ReceiveMultiple
  <2>. QED  BY <2>1, <2>2, <2>3 DEF Fresh
<1>5. CASE \E n \in 1..MaxSample : ReceiveMultiple(n)
  BY <1>2, <1>4, <1>5 DEF ReceiveMultiple
<1>6. CASE NewSegment \/ (Control /\ ~Reset /\ ~FlushEnded) \/ UNCHANGED vars
  BY <1>2, <1>6 DEF NewSegment, Control, BeginFlush, FlushDownstream, EndFlush, FlushCompleted, ResetReturn,
                    Destroy, Destroyed, vars
<1>7. CASE FlushEnded
  <2>1. control = "ended" /\ UNCHANGED <<m_List, m_ppSamples, sending>>
    BY <1>7 DEF FlushEnded
  <2>2. NoSamples
    BY <2>1 DEF FlushInv
  <2>. QED  BY <1>1, <2>1, <2>2 DEF NoSamples, Fresh
<1>8. CASE Terminate \/ Discard
  <2>1. m_List' = <<>> /\ m_ppSamples' = <<>> /\ UNCHANGED <<sending, epoch>>
    BY <1>8 DEF Terminate, Discard, FreeSamples
  <2>. QED  BY <1>1, <2>1 DEF Fresh
<1>9. ASSUME m_List # <<>>, m_List' = Tail(m_List), epoch' = epoch
      PROVE  /\ \A i \in 1..Len(m_List') : IsSample(m_List'[i]) => m_List'[i].epoch = epoch'
             /\ IsSample(Head(m_List)) => Head(m_List).epoch = epoch /\ Head(m_List) \in Element
  <2>1. /\ Len(m_List) \in Nat \ {0} /\ Len(m_List') = Len(m_List) - 1 /\ 1 \in 1..Len(m_List) /\ Head(m_List) = m_List[1]
        /\ \A i \in 1..(Len(m_List) - 1) : m_List'[i] = m_List[i + 1] /\ i + 1 \in 1..Len(m_List)
        /\ m_List[1] \in Element
    BY <1>1, <1>9
  <2>. QED  BY <1>9, <2>1 DEF Fresh
<1>10. CASE TakeSample
  <2>1. m_List # <<>> /\ m_List' = Tail(m_List) /\ epoch' = epoch /\ IsSample(Head(m_List))
    BY <1>10 DEF TakeSample
  <2>2. PICK batch : batch = Append(m_ppSamples, Head(m_List))
    OBVIOUS
  <2>3. PICK x \in Element : x = Head(m_List) /\ x.epoch = epoch
    BY <1>9, <2>1
  <2>4. /\ Len(batch) = Len(m_ppSamples) + 1
        /\ \A i \in 1..(Len(m_ppSamples) + 1) : batch[i] = IF i = Len(m_ppSamples) + 1 THEN x ELSE m_ppSamples[i]
    BY <1>1, <2>2, <2>3
  <2>5. \A i \in 1..(Len(m_ppSamples) + 1) : i = Len(m_ppSamples) + 1 \/ i \in 1..Len(m_ppSamples)
    BY <1>1
  <2>6. \A i \in 1..Len(batch) : batch[i].epoch = epoch
    BY <2>3, <2>4, <2>5 DEF Fresh
  <2>7. (m_ppSamples' = <<>> /\ sending' = batch) \/ (m_ppSamples' = batch /\ sending' = sending)
    BY <1>10, <2>2 DEF TakeSample, Leave
  <2>. QED  BY <1>1, <1>9, <2>1, <2>6, <2>7 DEF Fresh
<1>11. CASE TakeCommand
  <2>1. m_List # <<>> /\ m_List' = Tail(m_List) /\ epoch' = epoch
    BY <1>11 DEF TakeCommand
  <2>2. (m_ppSamples' = <<>> /\ sending' = m_ppSamples) \/ UNCHANGED <<m_ppSamples, sending>>
    BY <1>11 DEF TakeCommand, Leave
  <2>. QED  BY <1>1, <1>9, <2>1, <2>2 DEF Fresh
<1>12. CASE ListEmpty
  <2>1. m_List' = m_List /\ epoch' = epoch
    BY <1>12 DEF ListEmpty
  <2>2. (m_ppSamples' = <<>> /\ sending' = m_ppSamples) \/ UNCHANGED <<m_ppSamples, sending>>
    BY <1>12 DEF ListEmpty, Leave
  <2>. QED  BY <1>1, <2>1, <2>2 DEF Fresh
<1>13. CASE Woken \/ Send \/ After \/ EosDelivered \/ ResetDone \/ Receives
  <2>1. UNCHANGED <<m_List, m_ppSamples, epoch>> /\ (sending' = sending \/ sending' = <<>>)
    BY <1>13 DEF Woken, Send, After, EosDelivered, ResetDone, Receives, Received
  <2>. QED  BY <1>1, <2>1 DEF Fresh
<1>. QED  BY <1>3, <1>5, <1>6, <1>7, <1>8, <1>10, <1>11, <1>12, <1>13 DEF Next, Gone, Upstream, Queueing, WorkerStep

-----------------------------------------------------------------------------
(* Reset and flushes share an event.                                        *)

\* Everything OneReset and ResetInv look at.
resetVars == <<m_List, command, worker, resets, control, m_evFlushComplete>>

LEMMA OneResetStep ==
  ASSUME OrderInv, Flags, FlushInv, OneReset, ResetInv, [Next]_vars
  PROVE  OneReset'
<1> USE DEF modeVars, flushVars, workVars, histVars, ctlVars
<1>1. m_List \in Seq(Element) /\ Len(<<>>) = 0 /\ Len(m_List) \in Nat
  BY DEF OrderInv, QueueTypes
<1>2. CASE UNCHANGED resetVars
  BY <1>2 DEF OneReset, ResetListed, ResetOnTheWay, resetVars
<1>3. ASSUME UNCHANGED m_List, command' \in {command, NoCommand}, worker' # "reset", resets' = resets,
             control' = control, m_evFlushComplete' => m_evFlushComplete
      PROVE  OneReset'
  <2>1. command' = "RESET" => command = "RESET"
    BY <1>3 DEF NoCommand
  <2>. QED  BY <1>3, <2>1 DEF OneReset, ResetListed, ResetOnTheWay
<1>4. ASSUME ~ResetOnTheWay' PROVE OneReset'
  BY <1>4 DEF OneReset, ResetListed, ResetOnTheWay
<1>5. CASE EOS \/ SendAnyway \/ QueueSegment
  <2>1. /\ UNCHANGED <<command, worker, resets, control, m_evFlushComplete>>
    BY <1>5 DEF EOS, SendAnyway, QueueSegment
  <2>2. PICK c \in Commands \ {"RESET"} : m_List' = Append(m_List, Command(c))
    BY <1>5 DEF EOS, SendAnyway, QueueSegment, Commands
  <2>3. /\ Len(m_List') = Len(m_List) + 1 /\ m_List'[Len(m_List) + 1].kind # "RESET"
        /\ \A i \in 1..Len(m_List) : m_List'[i] = m_List[i]
    BY <2>2, CommandAppended DEF OrderInv, Order
  <2>4. \A i \in 1..Len(m_List') : m_List'[i].kind = "RESET" => i \in 1..Len(m_List)
    BY <1>1, <2>3
  <2>. QED  BY <2>1, <2>3, <2>4 DEF OneReset, ResetListed, ResetOnTheWay
<1>6. ASSUME NEW n \in 1..MaxSample, ReceiveMultiple(n) PROVE OneReset'
  <2>1. UNCHANGED <<command, worker, resets, control, m_evFlushComplete>>
    BY <1>6 DEF ReceiveMultiple
  <2>2. CASE m_List' = m_List
    BY <1>2, <2>1, <2>2 DEF resetVars
  <2>3. CASE m_List' = m_List \o Samples(n)
    <3>1. /\ Len(m_List') = Len(m_List) + n
          /\ \A i \in 1..Len(m_List) : m_List'[i] = m_List[i]
          /\ \A i \in 1..(Len(m_List) + n) : i > Len(m_List) => IsSample(m_List'[i])
      BY <1>6, <2>3, LineSamples DEF OrderInv, Order, ReceiveMultiple
    <3>2. \A i \in 1..Len(m_List') : i > Len(m_List) \/ i \in 1..Len(m_List)
      BY <1>1, <3>1
    <3>3. \A i \in 1..Len(m_List') : m_List'[i].kind = "RESET" => i \in 1..Len(m_List)
      BY <3>1, <3>2 DEF IsSample
    <3>. QED  BY <2>1, <3>1, <3>3 DEF OneReset, ResetListed, ResetOnTheWay
  <2>. QED  BY <1>6, <2>2, <2>3 DEF ReceiveMultiple
<1>7. CASE Reset
  <2>1. /\ resets /\ control = "idle" /\ UNCHANGED <<command, worker, resets, m_evFlushComplete>> /\ control' = "reset"
        /\ m_List' = Append(m_List, Command("RESET"))
    BY <1>7 DEF Reset
  <2>2. ~ResetOnTheWay /\ ~m_evFlushComplete
    BY <2>1 DEF OneReset, ResetInv
  <2>3. /\ Len(m_List') = Len(m_List) + 1
        /\ \A i \in 1..Len(m_List) : m_List'[i] = m_List[i]
    <3>1. "RESET" \in Commands
      BY DEF Commands
    <3>. QED  BY <2>1, <3>1, CommandAppended DEF OrderInv, Order
  <2>4. \A i \in 1..Len(m_List') : m_List'[i].kind = "RESET" => i = Len(m_List) + 1
    BY <1>1, <2>2, <2>3 DEF ResetOnTheWay, ResetListed
  <2>5. ~m_evFlushComplete' /\ resets'
    BY <2>1, <2>2
  <2>. QED  BY <2>1, <2>2, <2>4, <2>5 DEF OneReset, ResetOnTheWay
<1>8. CASE Control /\ ~Reset
  <2>1. UNCHANGED <<m_List, command, worker, resets>>
    BY <1>8 DEF Control, BeginFlush, FlushDownstream, EndFlush, FlushCompleted, FlushEnded, ResetReturn, Destroy, Destroyed
  <2>2. control = "reset" => m_evFlushComplete
    BY <1>8 DEF Control, BeginFlush, FlushDownstream, EndFlush, FlushCompleted, FlushEnded, ResetReturn, Destroy, Destroyed
  <2>3. ~ResetOnTheWay
    BY <2>2 DEF OneReset
  <2>. QED  BY <1>4, <2>1, <2>3 DEF ResetOnTheWay, ResetListed
<1>9. CASE Terminate \/ Discard
  <2>1. m_List' = <<>> /\ command' = command /\ worker' # "reset" /\ InLoop
    BY <1>9 DEF Terminate, Discard, FreeSamples
  <2>2. command' # "RESET"
    BY <2>1 DEF OrderInv, QueueTypes, InLoop, NoCommand
  <2>. QED  BY <1>1, <1>4, <2>1, <2>2 DEF ResetOnTheWay, ResetListed
<1>10. CASE TakeSample \/ TakeCommand
  <2>1. /\ m_List # <<>> /\ m_List' = Tail(m_List) /\ InLoop /\ UNCHANGED <<resets, control, m_evFlushComplete>>
        /\ worker' # "reset"
    BY <1>10 DEF TakeSample, TakeCommand, Taking, Leave
  <2>2. command' \in {command, NoCommand} \/ command' = Head(m_List).kind
    BY <1>10 DEF TakeSample, TakeCommand, Leave
  <2>3. command # "RESET" /\ NoCommand # "RESET"
    BY <2>1 DEF OrderInv, QueueTypes, InLoop, NoCommand
  <2>4. /\ Len(m_List) \in Nat \ {0} /\ Len(m_List') = Len(m_List) - 1 /\ 1 \in 1..Len(m_List) /\ Head(m_List) = m_List[1]
        /\ \A i \in 1..(Len(m_List) - 1) : m_List'[i] = m_List[i + 1] /\ i + 1 \in 1..Len(m_List) /\ i + 1 # 1
        /\ \A i, j \in 1..(Len(m_List) - 1) : i + 1 = j + 1 => i = j
    BY <1>1, <2>1
  <2>5. ResetListed' => ResetListed
    BY <2>4 DEF ResetListed
  <2>6. command' = "RESET" => m_List[1].kind = "RESET"
    BY <2>2, <2>3, <2>4
  <2>7. command' = "RESET" => ~ResetListed'
    BY <2>4, <2>6 DEF ResetListed, OneReset
  <2>8. ResetOnTheWay' => ResetOnTheWay
    BY <2>1, <2>4, <2>5, <2>6 DEF ResetOnTheWay, ResetListed
  <2>9. \A i, j \in 1..Len(m_List') : m_List'[i].kind = "RESET" /\ m_List'[j].kind = "RESET" => i = j
    BY <2>4 DEF OneReset
  <2>10. ResetOnTheWay' => resets' /\ control' = "reset" /\ ~m_evFlushComplete'
    BY <2>1, <2>8 DEF OneReset
  <2>. QED  BY <2>1, <2>7, <2>9, <2>10 DEF OneReset
<1>11. CASE ListEmpty
  <2>1. /\ command' \in {command, NoCommand} /\ worker' # "reset"
        /\ UNCHANGED <<m_List, resets, control, m_evFlushComplete>>
    BY <1>11 DEF ListEmpty, Leave
  <2>. QED  BY <1>3, <2>1
<1>12. CASE Woken \/ Send \/ EosDelivered \/ Receives
  <2>1. worker' # "reset" /\ UNCHANGED <<m_List, command, resets, control, m_evFlushComplete>>
    BY <1>12 DEF Woken, Send, EosDelivered, Receives, Received
  <2>. QED  BY <1>3, <2>1
<1>13. CASE After
  <2>1. /\ command' = NoCommand /\ (worker' = "reset" => command = "RESET")
        /\ UNCHANGED <<m_List, resets, control, m_evFlushComplete>>
    BY <1>13 DEF After
  <2>. QED  BY <2>1 DEF OneReset, ResetListed, ResetOnTheWay, NoCommand
<1>14. CASE ResetDone
  <2>1. worker = "reset" /\ worker' = "top" /\ UNCHANGED <<m_List, command>>
    BY <1>14 DEF ResetDone
  <2>2. ~ResetListed /\ command # "RESET"
    BY <2>1 DEF OneReset, OrderInv, QueueTypes, NoCommand
  <2>. QED  BY <1>4, <2>1, <2>2 DEF ResetListed, ResetOnTheWay
<1>15. CASE NewSegment \/ UNCHANGED vars
  BY <1>2, <1>15 DEF NewSegment, vars, resetVars
<1>. QED  BY <1>5, <1>6, <1>7, <1>8, <1>9, <1>10, <1>11, <1>12, <1>13, <1>14, <1>15 DEF Next, Gone, Upstream, WorkerStep

\* A filter that calls Reset leaves the thread alone during a flush, and the thread waits from its end.
LEMMA ResetStep ==
  ASSUME OrderInv, Waits, Flags, FlushInv, OneReset, ResetInv, Careful, [Next]_vars
  PROVE  ResetInv'
<1> USE DEF modeVars, flushVars, workVars, histVars, ctlVars
<1>0. UNCHANGED <<resets, m_bFlushingOpt>>
  BY DEF Next, Upstream, ReceiveMultiple, NewSegment, EOS, SendAnyway, QueueSegment, Control, BeginFlush,
         FlushDownstream, EndFlush, FlushCompleted, FlushEnded, Reset, ResetReturn, Destroy, Destroyed,
         WorkerStep, Receives, Terminate, Discard, TakeSample, TakeCommand, ListEmpty, Woken, Send, After,
         EosDelivered, ResetDone, Received, Gone, vars
<1>1. SUFFICES ASSUME resets
               PROVE  /\ control' \in FlushSteps => upstream' = "idle"
                      /\ m_evFlushComplete' =>
                           \/ control' \in {"begin", "flushing", "end"} /\ worker' = "sem" /\ m_hSem' = 0
                           \/ control' = "reset"
                      /\ control' = "ended" => worker' = "sem" /\ m_hSem' = 0 /\ ~m_evFlushComplete'
  BY <1>0 DEF ResetInv
<1> DEFINE Goal ==
       /\ control' \in FlushSteps => upstream' = "idle"
       /\ m_evFlushComplete' =>
            \/ control' \in {"begin", "flushing", "end"} /\ worker' = "sem" /\ m_hSem' = 0
            \/ control' = "reset"
       /\ control' = "ended" => worker' = "sem" /\ m_hSem' = 0 /\ ~m_evFlushComplete'
<1>2. SUFFICES Goal
  OBVIOUS
<1>3. /\ Quiet /\ ~m_bFlushingOpt /\ (control \in FlushSteps => upstream = "idle")
      /\ m_evFlushComplete => \/ control \in {"begin", "flushing", "end"} /\ worker = "sem" /\ m_hSem = 0
                              \/ control = "reset"
      /\ control = "ended" => worker = "sem" /\ m_hSem = 0 /\ ~m_evFlushComplete
  BY <1>1 DEF ResetInv, Quiet
<1>4. CASE UNCHANGED <<control, upstream, m_evFlushComplete, worker, m_hSem>>
  BY <1>3, <1>4
<1>5. ASSUME control \in {"idle", "reset"}, UNCHANGED <<control, m_evFlushComplete>> PROVE Goal
  BY <1>3, <1>5 DEF FlushSteps
<1>6. CASE Upstream
  <2>1. MayCall \/ upstream = "segment"
    BY <1>6 DEF Upstream, ReceiveMultiple, NewSegment, EOS, SendAnyway, QueueSegment
  <2>2. control \notin FlushSteps
    BY <1>3, <2>1 DEF MayCall, FlushSteps
  <2>3. UNCHANGED <<control, m_evFlushComplete>>
    BY <1>6 DEF Upstream, ReceiveMultiple, NewSegment, EOS, SendAnyway, QueueSegment
  <2>. QED  BY <1>3, <2>2, <2>3 DEF FlushSteps
<1>7. CASE BeginFlush
  <2>1. /\ control' = "begin" /\ upstream' = upstream /\ upstream = "idle" /\ ~m_evFlushComplete'
    BY <1>3, <1>7, Zenon DEF BeginFlush
  <2>. QED  BY <2>1
<1>8. CASE FlushDownstream
  BY <1>3, <1>8 DEF FlushDownstream, FlushSteps
<1>9. CASE EndFlush
  <2>1. control = "flushing" /\ control' = "end" /\ UNCHANGED <<upstream, m_evFlushComplete, worker, m_hSem>>
    BY <1>3, <1>9, Zenon DEF EndFlush
  <2>. QED  BY <1>3, <2>1 DEF FlushSteps
<1>10. CASE FlushCompleted
  <2>1. control = "end" /\ m_evFlushComplete /\ control' = "ended" /\ ~m_evFlushComplete' /\ UNCHANGED <<upstream, worker, m_hSem>>
    BY <1>10, Zenon DEF FlushCompleted
  <2>. QED  BY <1>3, <2>1 DEF FlushSteps
<1>11. CASE FlushEnded
  <2>1. control = "ended" /\ control' = "idle" /\ UNCHANGED m_evFlushComplete
    BY <1>11 DEF FlushEnded
  <2>. QED  BY <1>3, <2>1 DEF FlushSteps
<1>12. CASE Reset \/ Destroy
  <2>1. control = "idle" /\ control' \in {"reset", "destroy"} /\ UNCHANGED m_evFlushComplete
    BY <1>12 DEF Reset, Destroy
  <2>. QED  BY <1>3, <2>1 DEF FlushSteps
<1>13. CASE ResetReturn
  <2>1. control' = "idle" /\ ~m_evFlushComplete'
    BY <1>13, Zenon DEF ResetReturn
  <2>. QED  BY <2>1 DEF FlushSteps
<1>14. CASE Destroyed
  <2>1. control = "destroy" /\ control' = "gone" /\ UNCHANGED m_evFlushComplete
    BY <1>14 DEF Destroyed
  <2>. QED  BY <1>3, <2>1 DEF FlushSteps
<1>15. CASE Discard
  <2>1. /\ InLoop /\ m_bFlushing /\ worker' = "sem" /\ UNCHANGED <<m_hSem, control, upstream>>
    BY <1>15 DEF Discard
  <2>2. m_hSem = 0 /\ worker # "sem"
    BY <2>1 DEF InLoop, Waits
  <2>3. control \in {"begin", "flushing", "end"}
    BY <1>3, <2>1, <2>2 DEF FlushInv, FlushSteps
  <2>. QED  BY <1>3, <2>1, <2>2, <2>3 DEF FlushSteps
<1>16. CASE ResetDone
  <2>1. worker = "reset" /\ UNCHANGED <<control, upstream>>
    BY <1>16 DEF ResetDone
  <2>2. control = "reset"
    BY <2>1 DEF OneReset, ResetOnTheWay
  <2>. QED  BY <2>1, <2>2 DEF FlushSteps
<1>17. CASE Woken
  <2>1. worker = "sem" /\ m_hSem > 0 /\ UNCHANGED <<control, upstream, m_evFlushComplete>>
    BY <1>17 DEF Woken
  <2>2. m_hSem # 0
    BY <2>1
  <2>. QED  BY <1>3, <2>1, <2>2
<1>18. CASE Terminate \/ TakeSample \/ TakeCommand \/ ListEmpty \/ Send \/ After \/ EosDelivered \/ Receives
  <2>1. worker # "sem" /\ UNCHANGED <<control, upstream, m_evFlushComplete>>
    BY <1>18 DEF Terminate, TakeSample, TakeCommand, ListEmpty, Send, After, EosDelivered, Receives, Received, Taking, InLoop
  <2>. QED  BY <1>3, <2>1
<1>19. CASE UNCHANGED vars
  BY <1>4, <1>19 DEF vars
<1>. QED  BY <1>6, <1>7, <1>8, <1>9, <1>10, <1>11, <1>12, <1>13, <1>14, <1>15, <1>16, <1>17, <1>18, <1>19
          DEF Next, Gone, Control, WorkerStep

LEMMA QueueInductive == Careful => (Spec => [](CarefulInv /\ Flags))
<1> SUFFICES ASSUME Careful PROVE Spec => [](CarefulInv /\ Flags)
  OBVIOUS
<1>1. Init => CarefulInv /\ Flags
  <2> SUFFICES ASSUME Init PROVE CarefulInv /\ Flags
    OBVIOUS
  <2>1. OrderInv /\ Waits /\ Flags
    BY InitBase
  <2>2. /\ m_List = <<>> /\ Len(<<>>) = 0 /\ m_ppSamples = <<>> /\ sending = <<>> /\ command = "none" /\ worker = "top"
        /\ control = "idle" /\ ~m_bFlushing /\ ~m_evFlushComplete /\ (resets => ~m_bFlushingOpt)
    BY Zenon DEF Init, Quiet, NoCommand
  <2>3. Fresh /\ FlushInv /\ NoSamples
    BY <2>2 DEF Fresh, FlushInv, NoSamples, FlushSteps
  <2>4. OneReset /\ ResetInv
    BY <2>2 DEF OneReset, ResetOnTheWay, ResetListed, ResetInv, FlushSteps
  <2>. QED  BY <2>1, <2>3, <2>4 DEF CarefulInv
<1>2. CarefulInv /\ Flags /\ [Next]_vars => (CarefulInv /\ Flags)'
  BY OrderStep, WaitStep, FlagsStep, FlushStep, FreshStep, OneResetStep, ResetStep DEF CarefulInv
<1>. QED  BY <1>1, <1>2, PTL DEF Spec

\* For a filter that, if it calls Reset, has no other call in progress during a flush and leaves the
\* optimisation off: COutputQueue keeps samples in order, delivers none that was queued before a flush after
\* it, and does not count as flushed while a batch is with the downstream pin (BeginFlush, EndFlush,
\* Reset, ThreadProc and its asserts).
THEOREM QueueAlwaysHolds == Careful => (Spec => []QueueHolds)
<1>1. CarefulInv /\ Flags => QueueHolds
  <2> SUFFICES ASSUME CarefulInv, Flags PROVE QueueHolds
    OBVIOUS
  <2>1. InOrder
    BY OrderShown DEF CarefulInv
  <2>2. m_lWaiting \in 0..1 /\ m_hSem \in 0..1
    BY DEF CarefulInv, Waits
  <2>3. TypeOK
    BY <2>2 DEF CarefulInv, OrderInv, QueueTypes, Flags, TypeOK, Places, FlushSteps
  <2>4. NothingStale
    BY DEF CarefulInv, Fresh, OrderInv, QueueTypes, NothingStale
  <2>5. NotFlushedWhileSending
    BY DEF CarefulInv, OrderInv, QueueTypes, FlushInv, NoSamples, NotFlushedWhileSending
  <2>. QED  BY <2>1, <2>3, <2>4, <2>5 DEF QueueHolds
<1>. QED  BY <1>1, QueueInductive, PTL
=============================================================================
