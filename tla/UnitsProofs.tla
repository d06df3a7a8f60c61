---------------------------- MODULE UnitsProofs ----------------------------
(***************************************************************************)
(* TLAPS proofs about MCUnits: the blocking queue, the connection of pins, *)
(* the enumerators, the conversion of samples, the choice of frames of the *)
(* video decoder and the video renderer, its statistics, and reference     *)
(* counts; for any number of threads, clients, pins and enumerators, every *)
(* capacity, amplitude, lateness and duration.                             *)
(***************************************************************************)
EXTENDS MCUnits, FiniteSetTheorems, SequenceTheorems, WellFoundedInduction, TLAPS

-----------------------------------------------------------------------------
(* BlockingQueue.                                                          *)

\* Every operation of the queue keeps its variables well typed.
LEMMA TypeStep == TypeOK /\ [Next]_vars => TypeOK'
<1> SUFFICES ASSUME TypeOK, [Next]_vars PROVE TypeOK'
  OBVIOUS
<1> USE ConstantsAssumption DEF TypeOK, Places, Return, Results
<1>1. ASSUME NEW t \in Thread, NEW e \in Item, PushBack(t, e),
             Len(m_items) # m_size, UNCHANGED <<m_flushing, arg>>
      PROVE  TypeOK'
  BY <1>1 DEF PushBack, NotifyOne, NotEmptyWaiters
<1>2. ASSUME NEW t \in Thread, PopFront(t), m_items # <<>>,
             UNCHANGED <<m_flushing, arg>>
      PROVE  TypeOK'
  <2>1. Head(m_items) \in Item /\ Tail(m_items) \in Seq(Item)
    BY <1>2
  <2>. QED  BY <1>2, <2>1 DEF PopFront, NotifyOne, NotFullWaiters
<1>3. ASSUME NEW t \in Thread, NEW r \in {NotAdded, NotRemoved},
             ReturnFalse(t, r), UNCHANGED <<m_flushing, arg>>
      PROVE  TypeOK'
  BY <1>3 DEF ReturnFalse
<1>4. ASSUME NEW t \in Thread, NEW w \in {"put_wait", "take_wait"},
             Sleep(t, w), UNCHANGED <<m_flushing, arg>>
      PROVE  TypeOK'
  BY <1>4 DEF Sleep
<1>5. ASSUME NEW t \in Thread, NEW e \in Item, CallPut(t, e) PROVE TypeOK'
  BY <1>5 DEF CallPut
<1>6. ASSUME NEW t \in Thread, NEW e \in Item, offer(t, e) PROVE TypeOK'
  BY <1>6, <1>1, <1>3 DEF offer
<1>7. ASSUME NEW t \in Thread, put(t) PROVE TypeOK'
  BY <1>7, <1>1, <1>3, <1>4 DEF put
<1>8. ASSUME NEW t \in Thread, CallTake(t) PROVE TypeOK'
  BY <1>8 DEF CallTake
<1>9. ASSUME NEW t \in Thread, take(t) PROVE TypeOK'
  BY <1>9, <1>2, <1>3, <1>4 DEF take
<1>10. ASSUME NEW t \in Thread, poll(t) PROVE TypeOK'
  BY <1>10, <1>2, <1>3 DEF poll
<1>11. ASSUME NEW t \in Thread, begin_flush(t) PROVE TypeOK'
  BY <1>11 DEF begin_flush, NotFullWaiters, NotEmptyWaiters
<1>12. ASSUME NEW t \in Thread, end_flush(t) PROVE TypeOK'
  BY <1>12 DEF end_flush
<1>13. ASSUME NEW t \in Thread, SpuriousWakeup(t) PROVE TypeOK'
  BY <1>13 DEF SpuriousWakeup
<1>14. CASE UNCHANGED vars
  BY <1>14 DEF vars
<1>. QED
  BY <1>5, <1>6, <1>7, <1>8, <1>9, <1>10, <1>11, <1>12, <1>13, <1>14 DEF Next

\* Type correctness of the queue.
THEOREM TypeCorrect == Spec => []TypeOK
<1>1. Init => TypeOK
  <2>1. [t \in Thread |-> NotRemoved] \in [Thread -> Results]
    BY DEF Results
  <2>2. Init => m_items \in Seq(Item) /\ Len(m_items) <= m_size
    BY ConstantsAssumption DEF Init
  <2>3. Init => m_flushing \in BOOLEAN /\ owed \subseteq Thread
    BY DEF Init
  <2>4. Init => pc \in [Thread -> Places] /\ arg \in [Thread -> Item]
    BY DEF Init, Places
  <2>. QED  BY <2>1, <2>2, <2>3, <2>4 DEF Init, TypeOK
<1>. QED  BY <1>1, TypeStep, PTL DEF Spec

-----------------------------------------------------------------------------
\* No operation adds an item or puts a thread to sleep in a queue that is
\* being flushed, and begin_flush() removes the items and wakes the sleepers.
LEMMA DrainedStep == TypeOK /\ Drained /\ [Next]_vars => Drained'
<1> SUFFICES ASSUME TypeOK, Drained, [Next]_vars PROVE Drained'
  OBVIOUS
<1> USE DEF TypeOK, Places, Drained, NotFullWaiters, NotEmptyWaiters
<1>1. ASSUME NEW t \in Thread, NEW r, ReturnFalse(t, r), UNCHANGED m_flushing
      PROVE  Drained'
  BY <1>1 DEF ReturnFalse
<1>2. ASSUME ~m_flushing, UNCHANGED m_flushing PROVE Drained'
  BY <1>2
<1>3. ASSUME NEW t \in Thread, NEW e \in Item, CallPut(t, e) PROVE Drained'
  BY <1>3 DEF CallPut
<1>4. ASSUME NEW t \in Thread, NEW e \in Item, offer(t, e) PROVE Drained'
  BY <1>4, <1>1, <1>2 DEF offer
<1>5. ASSUME NEW t \in Thread, put(t) PROVE Drained'
  BY <1>5, <1>1, <1>2 DEF put
<1>6. ASSUME NEW t \in Thread, CallTake(t) PROVE Drained'
  BY <1>6 DEF CallTake
<1>7. ASSUME NEW t \in Thread, take(t) PROVE Drained'
  BY <1>7, <1>1, <1>2 DEF take
<1>8. ASSUME NEW t \in Thread, poll(t) PROVE Drained'
  BY <1>8, <1>1, <1>2 DEF poll
<1>9. ASSUME NEW t \in Thread, begin_flush(t) PROVE Drained'
  BY <1>9 DEF begin_flush
<1>10. ASSUME NEW t \in Thread, end_flush(t) PROVE Drained'
  BY <1>10 DEF end_flush
<1>11. ASSUME NEW t \in Thread, SpuriousWakeup(t) PROVE Drained'
  BY <1>11 DEF SpuriousWakeup
<1>12. CASE UNCHANGED vars
  BY <1>12 DEF vars
<1>. QED
  BY <1>3, <1>4, <1>5, <1>6, <1>7, <1>8, <1>9, <1>10, <1>11, <1>12 DEF Next

\* From begin_flush() to end_flush() the queue is empty and nobody sleeps.
THEOREM AlwaysDrained == Spec => []Drained
<1>1. Init => Drained
  BY DEF Init, Drained
<1>. QED  BY <1>1, TypeCorrect, DrainedStep, PTL DEF Spec

-----------------------------------------------------------------------------
\* The threads on their way to the lock are finitely many.
LEMMA CountersFinite ==
  ASSUME NEW M \in SUBSET Thread
  PROVE  /\ IsFiniteSet(M) /\ Cardinality(M) \in Nat
         /\ \A t \in Thread \ M : Cardinality(M \union {t}) = Cardinality(M) + 1
         /\ \A t \in M : Cardinality(M \ {t}) = Cardinality(M) - 1
<1>1. IsFiniteSet(M)
  BY ConstantsAssumption, FS_Subset
<1>2. Cardinality(M) \in Nat
  BY <1>1, FS_CardinalityType
<1>. QED  BY <1>1, <1>2, FS_AddElement, FS_RemoveElement

\* Adding an item uses up one putter, or none (offer), and sends one sleeping
\* taker, if there is one, on its way to the new item.
LEMMA PushBackWakes ==
  ASSUME TypeOK, NoLostWakeup, NEW t \in Thread, NEW e \in Item,
         pc[t] \in {"idle", "put"}, PushBack(t, e)
  PROVE  NoLostWakeup'
<1> USE DEF TypeOK, Places
<1>1. m_items' = Append(m_items, e) /\ Len(m_items') = Len(m_items) + 1
  BY DEF PushBack
<1>2. NotFullWaiters # {} =>
        m_size - (Len(m_items) + 1) <= Cardinality(Putters \ {t})
  <2>1. Putters \in SUBSET Thread
    BY DEF Putters
  <2>2. /\ Cardinality(Putters) \in Nat
        /\ t \in Putters => Cardinality(Putters \ {t}) = Cardinality(Putters) - 1
        /\ t \notin Putters => Cardinality(Putters \ {t}) = Cardinality(Putters)
    <3>1. t \notin Putters => Putters \ {t} = Putters
      OBVIOUS
    <3>. QED  BY <2>1, <3>1, CountersFinite
  <2>3. Len(m_items) \in Nat /\ m_size \in Nat
    BY ConstantsAssumption
  <2>4. NotFullWaiters # {} => m_size - Len(m_items) <= Cardinality(Putters)
    BY DEF NoLostWakeup
  <2>5. Cardinality(Putters \ {t}) \in {Cardinality(Putters) - 1, Cardinality(Putters)}
    BY <2>2
  <2>. QED  BY <2>2, <2>3, <2>4, <2>5
<1>3. CASE NotEmptyWaiters = {}
  <2>1. pc' = [pc EXCEPT ![t] = "idle"]
    BY <1>3 DEF PushBack, NotifyOne
  <2>2. NotEmptyWaiters' = {}
    BY <2>1, <1>3 DEF NotEmptyWaiters
  <2>3. NotFullWaiters' = NotFullWaiters /\ Putters' = Putters \ {t}
    BY <2>1 DEF NotFullWaiters, Putters
  <2>. QED  BY <1>1, <1>2, <2>2, <2>3 DEF NoLostWakeup
<1>4. CASE NotEmptyWaiters # {}
  <2>1. PICK w \in NotEmptyWaiters :
               pc' = [pc EXCEPT ![t] = "idle", ![w] = "take"]
    BY <1>4 DEF PushBack, NotifyOne
  <2>2. w # t /\ w \in Thread \ Takers
    BY DEF NotEmptyWaiters, Takers
  <2>3. NotFullWaiters' = NotFullWaiters /\ Putters' = Putters \ {t}
    BY <2>1, <2>2 DEF NotFullWaiters, NotEmptyWaiters, Putters
  <2>4. Takers' = Takers \union {w} /\ Takers \in SUBSET Thread
    BY <2>1, <2>2 DEF Takers
  <2>5. Cardinality(Takers') = Cardinality(Takers) + 1 /\ Cardinality(Takers) \in Nat
    BY <2>4, <2>2, CountersFinite
  <2>6. Len(m_items) <= Cardinality(Takers) /\ Len(m_items) \in Nat
    BY <1>4 DEF NoLostWakeup
  <2>7. Len(m_items') <= Cardinality(Takers')
    BY <1>1, <2>5, <2>6
  <2>. QED  BY <1>1, <1>2, <2>3, <2>7 DEF NoLostWakeup
<1>. QED  BY <1>3, <1>4

\* Removing an item uses up one taker, or none (poll), and sends one sleeping
\* putter, if there is one, on its way to the free slot.
LEMMA PopFrontWakes ==
  ASSUME TypeOK, NoLostWakeup, NEW t \in Thread, m_items # <<>>,
         pc[t] \in {"idle", "take"}, PopFront(t)
  PROVE  NoLostWakeup'
<1> USE DEF TypeOK, Places
<1>1. Len(m_items) \in Nat \ {0} /\ Len(m_items') = Len(m_items) - 1
  BY DEF PopFront
<1>2. NotEmptyWaiters # {} => Len(m_items) - 1 <= Cardinality(Takers \ {t})
  <2>1. Takers \in SUBSET Thread
    BY DEF Takers
  <2>2. /\ Cardinality(Takers) \in Nat
        /\ t \in Takers => Cardinality(Takers \ {t}) = Cardinality(Takers) - 1
        /\ t \notin Takers => Cardinality(Takers \ {t}) = Cardinality(Takers)
    <3>1. t \notin Takers => Takers \ {t} = Takers
      OBVIOUS
    <3>. QED  BY <2>1, <3>1, CountersFinite
  <2>3. NotEmptyWaiters # {} => Len(m_items) <= Cardinality(Takers)
    BY DEF NoLostWakeup
  <2>5. Cardinality(Takers \ {t}) \in {Cardinality(Takers) - 1, Cardinality(Takers)}
    BY <2>2
  <2>. QED  BY <1>1, <2>2, <2>3, <2>5
<1>3. CASE NotFullWaiters = {}
  <2>1. pc' = [pc EXCEPT ![t] = "idle"]
    BY <1>3 DEF PopFront, NotifyOne
  <2>2. NotFullWaiters' = {}
    BY <2>1, <1>3 DEF NotFullWaiters
  <2>3. NotEmptyWaiters' = NotEmptyWaiters /\ Takers' = Takers \ {t}
    BY <2>1 DEF NotEmptyWaiters, Takers
  <2>. QED  BY <1>1, <1>2, <2>2, <2>3 DEF NoLostWakeup
<1>4. CASE NotFullWaiters # {}
  <2>1. PICK w \in NotFullWaiters :
               pc' = [pc EXCEPT ![t] = "idle", ![w] = "put"]
    BY <1>4 DEF PopFront, NotifyOne
  <2>2. w # t /\ w \in Thread \ Putters
    BY DEF NotFullWaiters, Putters
  <2>3. NotEmptyWaiters' = NotEmptyWaiters /\ Takers' = Takers \ {t}
    BY <2>1, <2>2 DEF NotFullWaiters, NotEmptyWaiters, Takers
  <2>4. Putters' = Putters \union {w} /\ Putters \in SUBSET Thread
    BY <2>1, <2>2 DEF Putters
  <2>5. Cardinality(Putters') = Cardinality(Putters) + 1 /\ Cardinality(Putters) \in Nat
    BY <2>4, <2>2, CountersFinite
  <2>6. m_size - Len(m_items) <= Cardinality(Putters) /\ m_size \in Nat
    BY <1>4, ConstantsAssumption DEF NoLostWakeup
  <2>7. m_size - Len(m_items') <= Cardinality(Putters')
    BY <1>1, <2>5, <2>6
  <2>. QED  BY <1>1, <1>2, <2>3, <2>7 DEF NoLostWakeup
<1>. QED  BY <1>3, <1>4

\* A step that moves no item and keeps or widens the sets of threads on their
\* way, without putting a thread to sleep, loses no wake-up.
LEMMA MoreOnTheirWay ==
  ASSUME TypeOK, TypeOK', NoLostWakeup, UNCHANGED m_items,
         NotEmptyWaiters' \subseteq NotEmptyWaiters,
         NotFullWaiters' \subseteq NotFullWaiters,
         Takers \subseteq Takers', Putters \subseteq Putters'
  PROVE  NoLostWakeup'
<1>1. /\ Takers \in SUBSET Thread /\ Takers' \in SUBSET Thread
      /\ Putters \in SUBSET Thread /\ Putters' \in SUBSET Thread
  BY DEF Takers, Putters
<1>2. IsFiniteSet(Takers') /\ IsFiniteSet(Putters')
  BY <1>1, CountersFinite
<1>3. /\ Cardinality(Takers) <= Cardinality(Takers')
      /\ Cardinality(Putters) <= Cardinality(Putters')
  BY <1>2, FS_Subset
<1>4. /\ Cardinality(Takers) \in Nat /\ Cardinality(Takers') \in Nat
      /\ Cardinality(Putters) \in Nat /\ Cardinality(Putters') \in Nat
      /\ Len(m_items) \in Nat /\ m_size \in Nat
  BY <1>1, CountersFinite, ConstantsAssumption DEF TypeOK
<1>. QED  BY <1>3, <1>4 DEF NoLostWakeup

\* No operation loses a wake-up.
LEMMA NoLostWakeupStep ==
  TypeOK /\ Drained /\ NoLostWakeup /\ [Next]_vars => NoLostWakeup'
<1> SUFFICES ASSUME TypeOK, Drained, NoLostWakeup, [Next]_vars
             PROVE  NoLostWakeup'
  OBVIOUS
<1>0. TypeOK'
  BY TypeStep
<1> USE DEF TypeOK, Places
<1>1. ASSUME NEW t \in Thread, NEW r, ReturnFalse(t, r), pc[t] = "idle"
      PROVE  NoLostWakeup'
  <2>1. pc' = pc /\ UNCHANGED m_items
    BY <1>1 DEF ReturnFalse
  <2>. QED
    BY <2>1 DEF NoLostWakeup, NotFullWaiters, NotEmptyWaiters, Putters, Takers
<1>2. ASSUME NEW t \in Thread, NEW r, ReturnFalse(t, r), m_flushing
      PROVE  NoLostWakeup'
  <2>1. NotFullWaiters' = {} /\ NotEmptyWaiters' = {}
    BY <1>2 DEF ReturnFalse, Drained, NotFullWaiters, NotEmptyWaiters
  <2>. QED  BY <2>1 DEF NoLostWakeup
<1>3. ASSUME NEW t \in Thread, pc[t] = "put", Len(m_items) = m_size,
             Sleep(t, "put_wait")
      PROVE  NoLostWakeup'
  <2>1. NotEmptyWaiters' = NotEmptyWaiters /\ Takers' = Takers /\ m_items' = m_items
    BY <1>3 DEF Sleep, NotEmptyWaiters, Takers
  <2>2. Putters' \in SUBSET Thread
    BY DEF Putters
  <2>3. Cardinality(Putters') \in Nat
    BY <2>2, CountersFinite
  <2>4. m_size - Len(m_items') = 0
    BY <1>3, <2>1, ConstantsAssumption
  <2>. QED  BY <2>1, <2>3, <2>4 DEF NoLostWakeup
<1>4. ASSUME NEW t \in Thread, pc[t] = "take", Len(m_items) = 0,
             Sleep(t, "take_wait")
      PROVE  NoLostWakeup'
  <2>1. NotFullWaiters' = NotFullWaiters /\ Putters' = Putters /\ m_items' = m_items
    BY <1>4 DEF Sleep, NotFullWaiters, Putters
  <2>2. Takers' \in SUBSET Thread
    BY DEF Takers
  <2>3. Cardinality(Takers') \in Nat
    BY <2>2, CountersFinite
  <2>. QED  BY <1>4, <2>1, <2>3 DEF NoLostWakeup
<1>5. ASSUME NEW t \in Thread, NEW e \in Item, CallPut(t, e)
      PROVE  NoLostWakeup'
  BY <1>0, <1>5, MoreOnTheirWay
  DEF CallPut, NotFullWaiters, NotEmptyWaiters, Putters, Takers
<1>6. ASSUME NEW t \in Thread, NEW e \in Item, offer(t, e)
      PROVE  NoLostWakeup'
  BY <1>6, <1>1, PushBackWakes DEF offer
<1>7. ASSUME NEW t \in Thread, put(t) PROVE NoLostWakeup'
  <2>1. pc[t] = "put" /\ arg[t] \in Item
    BY <1>7 DEF put
  <2>2. CASE m_flushing
    BY <1>7, <2>2, <1>2 DEF put
  <2>3. CASE ~m_flushing /\ Len(m_items) # m_size
    BY <1>7, <2>1, <2>3, PushBackWakes DEF put
  <2>4. CASE ~m_flushing /\ Len(m_items) = m_size
    BY <1>7, <2>1, <2>4, <1>3 DEF put
  <2>. QED  BY <2>2, <2>3, <2>4
<1>8. ASSUME NEW t \in Thread, CallTake(t) PROVE NoLostWakeup'
  BY <1>0, <1>8, MoreOnTheirWay
  DEF CallTake, NotFullWaiters, NotEmptyWaiters, Putters, Takers
<1>9. ASSUME NEW t \in Thread, take(t) PROVE NoLostWakeup'
  <2>1. pc[t] = "take"
    BY <1>9 DEF take
  <2>2. CASE m_flushing
    BY <1>9, <2>2, <1>2 DEF take
  <2>3. CASE ~m_flushing /\ Len(m_items) # 0
    BY <1>9, <2>1, <2>3, PopFrontWakes DEF take
  <2>4. CASE ~m_flushing /\ Len(m_items) = 0
    BY <1>9, <2>1, <2>4, <1>4 DEF take
  <2>. QED  BY <2>2, <2>3, <2>4
<1>10. ASSUME NEW t \in Thread, poll(t) PROVE NoLostWakeup'
  BY <1>10, <1>1, PopFrontWakes DEF poll
<1>11. ASSUME NEW t \in Thread, begin_flush(t) PROVE NoLostWakeup'
  <2>1. NotFullWaiters' = {} /\ NotEmptyWaiters' = {}
    BY <1>11 DEF begin_flush, NotFullWaiters, NotEmptyWaiters
  <2>. QED  BY <2>1 DEF NoLostWakeup
<1>12. ASSUME NEW t \in Thread, end_flush(t) PROVE NoLostWakeup'
  BY <1>12
  DEF end_flush, NoLostWakeup, NotFullWaiters, NotEmptyWaiters, Putters, Takers
<1>13. ASSUME NEW t \in Thread, SpuriousWakeup(t) PROVE NoLostWakeup'
  BY <1>0, <1>13, MoreOnTheirWay
  DEF SpuriousWakeup, NotFullWaiters, NotEmptyWaiters, Putters, Takers
<1>14. CASE UNCHANGED vars
  BY <1>14
  DEF vars, NoLostWakeup, NotFullWaiters, NotEmptyWaiters, Putters, Takers
<1>. QED
  BY <1>5, <1>6, <1>7, <1>8, <1>9, <1>10, <1>11, <1>12, <1>13, <1>14 DEF Next

\* No notification is lost, for any number of threads and any capacity.
THEOREM WakeupsNeverLost == Spec => []NoLostWakeup
<1>1. Init => NoLostWakeup
  BY DEF Init, NoLostWakeup, NotFullWaiters, NotEmptyWaiters
<1>. QED
  BY <1>1, TypeCorrect, AlwaysDrained, NoLostWakeupStep, PTL DEF Spec

-----------------------------------------------------------------------------
\* Every step of the queue is a step of the abstract FIFO or invisible to it.
\* poll() needs Drained: it does not look at m_flushing, so it may return an
\* item only because a flushing queue has none.
LEMMA RefinementStep ==
  TypeOK /\ Drained /\ [Next]_vars => [Fifo!Next]_(Fifo!vars)
<1> SUFFICES ASSUME TypeOK, Drained, [Next]_vars
             PROVE  [Fifo!Next]_(Fifo!vars)
  OBVIOUS
<1> USE DEF Return, Fifo!vars
<1>1. ASSUME NEW t \in Thread, NEW e \in Item, PushBack(t, e),
             Len(m_items) # m_size, ~m_flushing, UNCHANGED m_flushing
      PROVE  Fifo!Add(t, e)
  <2>1. Len(m_items) < m_size
    BY <1>1, ConstantsAssumption DEF TypeOK
  <2>. QED  BY <1>1, <2>1 DEF PushBack, Added, Fifo!Add, Fifo!Added
<1>2. ASSUME NEW t \in Thread, PopFront(t), m_items # <<>>,
             UNCHANGED m_flushing
      PROVE  Fifo!Remove(t)
  BY <1>2 DEF PopFront, Removed, Drained, Fifo!Remove, Fifo!Removed
<1>3. ASSUME NEW t \in Thread, ReturnFalse(t, NotAdded), UNCHANGED m_flushing,
             m_flushing \/ Len(m_items) = m_size
      PROVE  Fifo!FailAdd(t)
  BY <1>3 DEF ReturnFalse, NotAdded, Fifo!FailAdd, Fifo!NotAdded
<1>4. ASSUME NEW t \in Thread, ReturnFalse(t, NotRemoved), UNCHANGED m_flushing,
             m_flushing \/ m_items = <<>>
      PROVE  Fifo!FailRemove(t)
  BY <1>4 DEF ReturnFalse, NotRemoved, Fifo!FailRemove, Fifo!NotRemoved
<1>5. ASSUME NEW t \in Thread, NEW e \in Item, CallPut(t, e)
      PROVE  UNCHANGED Fifo!vars
  BY <1>5 DEF CallPut
<1>6. ASSUME NEW t \in Thread, NEW e \in Item, offer(t, e)
      PROVE  Fifo!Add(t, e) \/ Fifo!FailAdd(t)
  BY <1>6, <1>1, <1>3 DEF offer
<1>7. ASSUME NEW t \in Thread, put(t)
      PROVE  Fifo!Add(t, arg[t]) \/ Fifo!FailAdd(t) \/ UNCHANGED Fifo!vars
  <2>1. arg[t] \in Item
    BY DEF TypeOK
  <2>. QED  BY <1>7, <2>1, <1>1, <1>3 DEF put, Sleep
<1>8. ASSUME NEW t \in Thread, CallTake(t) PROVE UNCHANGED Fifo!vars
  BY <1>8 DEF CallTake
<1>9. ASSUME NEW t \in Thread, take(t)
      PROVE  Fifo!Remove(t) \/ Fifo!FailRemove(t) \/ UNCHANGED Fifo!vars
  <2>1. Len(m_items) # 0 => m_items # <<>>
    OBVIOUS
  <2>. QED  BY <1>9, <2>1, <1>2, <1>4 DEF take, Sleep
<1>10. ASSUME NEW t \in Thread, poll(t)
       PROVE  Fifo!Remove(t) \/ Fifo!FailRemove(t)
  BY <1>10, <1>2, <1>4 DEF poll
<1>11. ASSUME NEW t \in Thread, begin_flush(t) PROVE Fifo!Close
  BY <1>11 DEF begin_flush, Fifo!Close
<1>12. ASSUME NEW t \in Thread, end_flush(t) PROVE Fifo!Open
  BY <1>12 DEF end_flush, Fifo!Open
<1>13. ASSUME NEW t \in Thread, SpuriousWakeup(t) PROVE UNCHANGED Fifo!vars
  BY <1>13 DEF SpuriousWakeup
<1>14. CASE UNCHANGED vars
  BY <1>14 DEF vars
<1>15. ASSUME NEW t \in Thread, put(t) PROVE [Fifo!Next]_(Fifo!vars)
  <2>1. arg[t] \in Item
    BY DEF TypeOK
  <2>. QED  BY <1>15, <2>1, <1>7 DEF Fifo!Next
<1>. QED
  BY <1>5, <1>6, <1>8, <1>9, <1>10, <1>11, <1>12, <1>13, <1>14, <1>15
  DEF Next, Fifo!Next

\* The queue implements the abstract FIFO, whatever the number of its threads.
THEOREM Refinement == Spec => ImplementsFifo
<1>1. Init => Fifo!Init
  BY DEF Init, NotRemoved, Fifo!Init, Fifo!NotRemoved
<1>. QED
  BY <1>1, TypeCorrect, AlwaysDrained, RefinementStep, PTL
  DEF Spec, ImplementsFifo, Fifo!Spec

-----------------------------------------------------------------------------
(* The video decoder's choice of frames (VideoQuality).                    *)

\* As long as it is not forgotten, what is missing is skipped up to the next key frame.
SkipsOn ==
  /\ vpc \in {"idle", "decode", "failed"}
  /\ frame \in [sync : BOOLEAN, disc : BOOLEAN]
  /\ broken /\ ~forgotten /\ vpc = "idle" => m_bSkipping
  /\ broken /\ ~forgotten /\ vpc = "decode" => frame.sync

QualityInv == SkipsOn /\ Q!NoOrphanShown

LEMMA SkipsOnStep == SkipsOn /\ Q!VideoNext => SkipsOn'
<1> SUFFICES ASSUME SkipsOn, Q!VideoNext PROVE SkipsOn'
  OBVIOUS
<1> USE DEF SkipsOn
<1>1. CASE Q!StartStreaming
  BY <1>1 DEF Q!StartStreaming
<1>2. CASE Q!AlterQuality
  BY <1>2 DEF Q!AlterQuality
<1>3. CASE Q!ShouldSkipFrame
  <2>1. PICK sync \in BOOLEAN, disc \in BOOLEAN :
          /\ frame' = [sync |-> sync, disc |-> disc]
          /\ m_bSkipping' = Q!Skips(sync)
          /\ vpc' = IF Q!Skips(sync) THEN "idle" ELSE "decode"
          /\ broken' = (broken \/ Q!Skips(sync))
    BY <1>3 DEF Q!ShouldSkipFrame
  <2>2. vpc = "idle" /\ forgotten' = forgotten
    BY <1>3 DEF Q!ShouldSkipFrame
  <2>3. ~Q!Skips(sync) /\ m_bSkipping => sync
    BY DEF Q!Skips
  <2>4. CASE Q!Skips(sync) BY <2>1, <2>2, <2>4
  <2>5. CASE ~Q!Skips(sync) BY <2>1, <2>2, <2>3, <2>5
  <2>. QED BY <2>4, <2>5
<1>4. CASE Q!NewInputFormat
  <2>1. vpc = "idle" /\ broken' = broken
    BY <1>4 DEF Q!NewInputFormat
  <2>2. ASSUME NEW sync \in BOOLEAN, NEW disc \in BOOLEAN,
               vpc' = "decode", frame' = [sync |-> sync, disc |-> disc],
               forgotten' = (forgotten \/ (broken /\ ~sync))
        PROVE  SkipsOn'
    BY <2>1, <2>2
  <2>3. CASE vpc' = "failed" /\ UNCHANGED <<frame, forgotten>>
    BY <2>1, <2>3
  <2>. QED  BY <1>4, <2>2, <2>3 DEF Q!NewInputFormat
<1>5. CASE Q!NewOutputFormat
  BY <1>5 DEF Q!NewOutputFormat
<1>6. CASE Q!Decode
  BY <1>6 DEF Q!Decode
<1>. QED  BY <1>1, <1>2, <1>3, <1>4, <1>5, <1>6 DEF Q!VideoNext

LEMMA OrphanStep == SkipsOn /\ Q!NoOrphanShown /\ Q!VideoNext => Q!NoOrphanShown'
<1> SUFFICES ASSUME SkipsOn, Q!NoOrphanShown, Q!VideoNext PROVE FALSE \notin orphan'
  BY Zenon DEF Q!NoOrphanShown
<1>1. FALSE \notin orphan BY Zenon DEF Q!NoOrphanShown
<1>2. CASE Q!Decode
  <2>1. /\ vpc = "decode"
        /\ orphan' = orphan \cup (IF Q!StillToWait = 0 /\ broken /\ ~frame.sync THEN {forgotten} ELSE {})
    BY <1>2, Zenon DEF Q!Decode
  <2>2. broken /\ ~forgotten => frame.sync BY <2>1, Zenon DEF SkipsOn
  <2>3. CASE broken /\ ~frame.sync
    <3>1. forgotten # FALSE BY <2>2, <2>3, Zenon
    <3> QED BY <1>1, <2>1, <3>1, Zenon
  <2>4. CASE ~(broken /\ ~frame.sync) BY <1>1, <2>1, <2>4, Zenon
  <2> QED BY <2>3, <2>4, Zenon
<1>3. ASSUME ~Q!Decode PROVE orphan' = orphan
  BY <1>3, Zenon DEF Q!VideoNext, Q!StartStreaming, Q!AlterQuality, Q!ShouldSkipFrame, Q!NewInputFormat,
                     Q!NewOutputFormat
<1> QED BY <1>1, <1>2, <1>3, Zenon

LEMMA QualityStep == QualityInv /\ Q!VideoNext => QualityInv'
BY SkipsOnStep, OrphanStep, Zenon DEF QualityInv

LEMMA QualityInit == Q!VideoInit => QualityInv
<1>1. Q!VideoInit => SkipsOn BY DEF Q!VideoInit, SkipsOn
<1>2. Q!VideoInit => Q!NoOrphanShown BY Zenon DEF Q!VideoInit, Q!NoOrphanShown
<1> QED BY <1>1, <1>2, Zenon DEF QualityInv

LEMMA QualityKept == QualityInv /\ UNCHANGED videoVars => QualityInv'
<1>1. SkipsOn /\ UNCHANGED videoVars => SkipsOn' BY DEF SkipsOn, videoVars
<1>2. Q!NoOrphanShown /\ UNCHANGED videoVars => Q!NoOrphanShown' BY Zenon DEF Q!NoOrphanShown, videoVars
<1> QED BY <1>1, <1>2, Zenon DEF QualityInv

-----------------------------------------------------------------------------
(* The video renderer's choice of frames (VideoRenderer).                  *)

DrawTypes ==
  /\ now \in Nat /\ stamp \in Int /\ due \in Int /\ lastShown \in Nat
  /\ m_trLastDraw \in Int /\ m_trEarliness \in Int
  /\ wpc \in {"idle", "wait", "draw", "drawing"}

\* What the renderer takes for the last draw is not later than the last draw was, once it is over,
\* unless it was given up.
DrawnAsRecorded ==
  /\ streaming /\ wpc = "idle" /\ ~lost => m_trLastDraw <= lastShown
  /\ wpc = "drawing" => m_trLastDraw <= lastShown
  /\ wpc = "draw" => m_trLastDraw <= now
  /\ wpc = "wait" => m_trLastDraw = due

\* The averages are those of a new run until a frame is drawn or given up.
FirstOfRun ==
  /\ streaming /\ ~shown /\ ~lost /\ wpc = "idle" => m_trRenderAvg = 0 /\ m_trDuration = 0
  /\ wpc = "drawing" => shown

StoppedIdle == ~streaming => wpc = "idle"

InTime == DrawTypes /\ DrawnAsRecorded /\ FirstOfRun /\ StoppedIdle /\ ~unseen

DrawInv == InTime /\ D!NeverHung

LEMMA MinMaxOfTwo ==
  ASSUME NEW a \in Int, NEW b \in Int
  PROVE  D!Min({a, b}) \in Int /\ D!Max({a, b}) \in Int
<1>1. D!Min({a, b}) \in {a, b}
  <2>1. \E x \in {a, b} : \A y \in {a, b} : x <= y OBVIOUS
  <2> QED BY <2>1 DEF D!Min
<1>2. D!Max({a, b}) \in {a, b}
  <2>1. \E x \in {a, b} : \A y \in {a, b} : x >= y OBVIOUS
  <2> QED BY <2>1 DEF D!Max
<1> QED BY <1>1, <1>2

LEMMA DrawnStep ==
  ASSUME InTime, streaming, wpc = "idle", NEW d \in Durations, NEW start \in Int, NEW early \in Int,
         NEW late, late = now - start, UNCHANGED <<now, streaming, lastShown, shown>>, stamp' \in Int,
         \/ D!DrawNow(late, d, early)
         \/ D!DrawInTime(start, late, d, early)
  PROVE  DrawTypes' /\ DrawnAsRecorded' /\ FirstOfRun' /\ StoppedIdle'
<1> USE UnitsAssumption DEF InTime, DrawTypes
<1>1. d \in Int /\ late \in Int BY UnitsAssumption
<1>2. CASE D!DrawNow(late, d, early)
  <2>1. wpc' = "draw" /\ due' = due /\ lost' = lost /\ m_trLastDraw' = now /\ m_trEarliness' = D!Min({early, late})
    BY <1>2 DEF D!DrawNow
  <2>2. D!Min({early, late}) \in Int BY <1>1, MinMaxOfTwo
  <2> QED BY <2>1, <2>2 DEF DrawnAsRecorded, FirstOfRun, StoppedIdle
<1>3. CASE D!DrawInTime(start, late, d, early)
  <2>1. PICK m : m = D!Max({early, -d}) OBVIOUS
  <2>2. m \in Int
    <3>1. PICK n : n = -d OBVIOUS
    <3>2. n \in Int /\ early \in Int /\ m = D!Max({early, n}) BY <1>1, <2>1, <3>1
    <3> QED BY <3>2, MinMaxOfTwo
  <2>3. PICK time : time = start + m OBVIOUS
  <2>4. /\ m_trEarliness' = early /\ m_trLastDraw' = IF late >= 0 THEN now ELSE time
        /\ IF late >= 0 THEN wpc' = "draw" /\ due' = 0 /\ UNCHANGED lost ELSE D!Advise(time)
    BY <1>3, <2>1, <2>3 DEF D!DrawInTime
  <2>5. time \in Int BY <2>2, <2>3
  <2>6. CASE late >= 0 BY <2>4, <2>6 DEF DrawnAsRecorded, FirstOfRun, StoppedIdle
  <2>7. CASE ~(late >= 0)
    <3>1. D!Advise(time) /\ m_trLastDraw' = time BY <2>4, <2>7
    <3>2. CASE wpc' = "wait" /\ due' = time /\ UNCHANGED lost
      BY <2>4, <2>5, <3>1, <3>2 DEF DrawnAsRecorded, FirstOfRun, StoppedIdle
    <3>3. CASE wpc' = "idle" /\ due' = 0 /\ lost' = TRUE
      BY <2>4, <2>5, <3>1, <3>3 DEF DrawnAsRecorded, FirstOfRun, StoppedIdle
    <3> QED BY <3>1, <3>2, <3>3 DEF D!Advise
  <2> QED BY <2>6, <2>7
<1> QED BY <1>2, <1>3

\* The first frame of a run, and every frame a second after the last draw, is drawn, unless one was given up.
LEMMA DroppedInTime ==
  ASSUME InTime, streaming, wpc = "idle", NEW d \in Durations, NEW late, NEW supplier,
         ~D!Draws(late, d, supplier)
  PROVE  lost \/ (shown /\ ~(now - lastShown > Second))
<1> SUFFICES ASSUME ~lost PROVE shown /\ ~(now - lastShown > Second)
  OBVIOUS
<1> USE UnitsAssumption DEF InTime, DrawTypes
<1>1. ~(now - m_trLastDraw > Second) BY DEF D!Draws
<1>2. m_trLastDraw <= lastShown BY DEF DrawnAsRecorded
<1>3. ~(now - lastShown > Second) BY <1>1, <1>2
<1>4. ASSUME ~shown PROVE FALSE
  <2>1. m_trRenderAvg = 0 /\ m_trDuration = 0 BY <1>4 DEF FirstOfRun
  <2>2. D!NewDuration(d) BY <2>1 DEF D!NewDuration
  <2>3. 3 * m_trRenderAvg <= D!FrameAvg(d) BY <2>1, <2>2 DEF D!FrameAvg
  <2> QED BY <2>3 DEF D!Draws
<1> QED BY <1>3, <1>4

LEMMA ShouldDrawStep == DrawInv /\ D!ShouldDrawSampleNow => DrawInv'
<1> SUFFICES ASSUME InTime, D!NeverHung, D!ShouldDrawSampleNow PROVE DrawInv'
  BY Zenon DEF DrawInv
<1>1. streaming /\ wpc = "idle" /\ UNCHANGED <<now, streaming, m_trRenderAvg, lastShown, shown>>
  BY DEF D!ShouldDrawSampleNow
<1>2. PICK d, supplier, start, late, justDropped, early :
        /\ d \in Durations /\ supplier \in BOOLEAN
        /\ start = IF stamp >= Bias THEN stamp - Bias ELSE stamp
        /\ late = now - start /\ early = D!Earliness(late, justDropped)
        /\ stamp' = stamp + d
        /\ IF ~D!Draws(late, d, supplier) THEN D!Drop(late, d, early)
             ELSE IF D!PlayASAP(late, d, justDropped) THEN D!DrawNow(late, d, early)
             ELSE D!DrawInTime(start, late, d, early)
        /\ hung' = hung \cup (IF ~D!Draws(late, d, supplier) /\ now - lastShown > Second THEN {lost} ELSE {})
        /\ unseen' = (unseen \/ (~D!Draws(late, d, supplier) /\ ~shown /\ ~lost))
  <2>1. PICK d \in Durations, supplier \in BOOLEAN, discontinuity \in BOOLEAN :
       LET start == IF stamp >= Bias THEN stamp - Bias ELSE stamp
           late  == now - start
           justDropped == (supplier /\ discontinuity) \/ m_nNormal = -1
           early == D!Earliness(late, justDropped)
       IN /\ stamp + d <= MaxTime /\ stamp' = stamp + d
          /\ m_trDuration' = IF D!NewDuration(d) THEN d ELSE m_trDuration
          /\ IF ~D!Draws(late, d, supplier) THEN D!Drop(late, d, early)
             ELSE IF D!PlayASAP(late, d, justDropped) THEN D!DrawNow(late, d, early)
             ELSE D!DrawInTime(start, late, d, early)
          /\ hung' = hung \cup (IF ~D!Draws(late, d, supplier) /\ now - lastShown > Second THEN {lost} ELSE {})
          /\ unseen' = (unseen \/ (~D!Draws(late, d, supplier) /\ ~shown /\ ~lost))
    BY DEF D!ShouldDrawSampleNow
  <2> QED BY <2>1, Zenon
<1>3. start \in Int /\ late \in Int /\ stamp' \in Int
  BY <1>2, UnitsAssumption DEF InTime, DrawTypes
<1>4. early \in Int
  <2>1. m_trEarliness \in Int BY DEF InTime, DrawTypes
  <2> QED BY <1>2, <1>3, <2>1 DEF D!Earliness
<1>5. CASE ~D!Draws(late, d, supplier)
  <2>1. D!Drop(late, d, early) BY <1>2, <1>5
  <2>2. lost \/ (shown /\ ~(now - lastShown > Second)) BY <1>1, <1>2, <1>5, DroppedInTime
  <2>3. D!NeverHung'
    <3>1. FALSE \notin hung BY Zenon DEF D!NeverHung
    <3>2. CASE lost
      <4>1. lost # FALSE BY <3>2, Zenon
      <4> QED BY <1>2, <3>1, <4>1, Zenon DEF D!NeverHung
    <3>3. CASE ~lost BY <1>2, <2>2, <3>1, <3>3, Zenon DEF D!NeverHung
    <3> QED BY <3>2, <3>3
  <2>5. ~unseen' BY <1>2, <2>2, Zenon DEF InTime
  <2>4. UNCHANGED <<m_trLastDraw, due, wpc, lost>> /\ m_trEarliness' = early BY <2>1 DEF D!Drop
  <2>6. DrawTypes' /\ DrawnAsRecorded' /\ FirstOfRun' /\ StoppedIdle'
    BY <1>1, <1>3, <1>4, <2>2, <2>4 DEF InTime, DrawTypes, DrawnAsRecorded, FirstOfRun, StoppedIdle
  <2> QED BY <2>3, <2>5, <2>6, Zenon DEF DrawInv, InTime
<1>6. CASE D!Draws(late, d, supplier)
  <2>1. D!DrawNow(late, d, early) \/ D!DrawInTime(start, late, d, early) BY <1>2, <1>6
  <2>2. DrawTypes' /\ DrawnAsRecorded' /\ FirstOfRun' /\ StoppedIdle'
    BY <1>1, <1>2, <1>3, <1>4, <2>1, DrawnStep
  <2>3. ~unseen' BY <1>2, <1>6, Zenon DEF InTime
  <2>4. D!NeverHung' BY <1>2, <1>6, Zenon DEF D!NeverHung
  <2> QED BY <2>2, <2>3, <2>4, Zenon DEF DrawInv, InTime
<1> QED BY <1>5, <1>6

LEMMA DrawStep == DrawInv /\ D!DrawNext => DrawInv'
<1>0. CASE D!ShouldDrawSampleNow
  BY <1>0, ShouldDrawStep
<1> SUFFICES ASSUME InTime, D!NeverHung, D!DrawNext, ~D!ShouldDrawSampleNow PROVE InTime' /\ D!NeverHung'
  BY <1>0, Zenon DEF DrawInv
<1>10. D!NeverHung'
  <2>1. hung' = hung
    BY Zenon DEF D!DrawNext, D!Tick, D!OnStartStreaming, D!OnStopStreaming, D!BeginFlush, D!OnWaitEnd, D!OnRenderStart,
                 D!OnRenderEnd, D!OnDirectRender
  <2> QED BY <2>1, Zenon DEF D!NeverHung
<1>11. SUFFICES InTime'
  BY <1>10
<1> USE UnitsAssumption DEF InTime, DrawTypes, DrawnAsRecorded, FirstOfRun, StoppedIdle, D!averages
<1>1. CASE D!Tick
  <2>1. PICK d \in Delays : now' = now + d BY <1>1 DEF D!Tick
  <2>2. d \in Nat BY <2>1
  <2> QED BY <1>1, <2>1, <2>2 DEF D!Tick
<1>2. CASE D!OnStartStreaming
  <2>1. /\ streaming' = TRUE /\ D!Reset /\ shown' = FALSE /\ lost' = FALSE /\ ~streaming
        /\ UNCHANGED <<wpc, due, unseen>>
    BY <1>2 DEF D!OnStartStreaming
  <2>2. now' \in Nat /\ stamp' \in Int /\ lastShown' \in Nat
    <3>1. D!Resumes BY <1>2 DEF D!OnStartStreaming
    <3>2. CASE now' = 0 /\ stamp' = 0 /\ lastShown' = 0 BY <3>2
    <3>3. ASSUME NEW d \in Durations \cup {0}, stamp' = stamp - d, UNCHANGED <<now, lastShown>>
          PROVE  now' \in Nat /\ stamp' \in Int /\ lastShown' \in Nat
      BY <3>3
    <3> QED BY <3>1, <3>2, <3>3 DEF D!Resumes
  <2>3. wpc = "idle" BY <2>1
  <2> QED BY <2>1, <2>2, <2>3 DEF D!Reset
<1>3. CASE D!OnStopStreaming
  BY <1>3 DEF D!OnStopStreaming
<1>9. CASE D!BeginFlush
  <2>1. /\ streaming /\ wpc # "drawing" /\ wpc' = "idle" /\ due' = 0
        /\ stamp' \in {0, stamp} /\ UNCHANGED <<now, streaming, D!averages, lastShown, shown, unseen>>
    BY <1>9, Zenon DEF D!BeginFlush
  <2>2. ~lost' => ~lost /\ wpc = "idle" BY <1>9, Zenon DEF D!BeginFlush
  <2> QED BY <2>1, <2>2
<1>5. CASE D!OnWaitEnd
  BY <1>5 DEF D!OnWaitEnd
<1>6. CASE D!OnRenderStart
  BY <1>6 DEF D!OnRenderStart
<1>7. CASE D!OnRenderEnd
  BY <1>7 DEF D!OnRenderEnd
<1>8. CASE D!OnDirectRender
  BY <1>8 DEF D!OnDirectRender
<1> QED BY <1>1, <1>2, <1>3, <1>5, <1>6, <1>7, <1>8, <1>9, Zenon DEF D!DrawNext

LEMMA DrawInit == D!DrawInit => DrawInv
<1>1. D!DrawInit => InTime BY DEF D!DrawInit, InTime, DrawTypes, DrawnAsRecorded, FirstOfRun, StoppedIdle
<1>2. D!DrawInit => D!NeverHung BY Zenon DEF D!DrawInit, D!NeverHung
<1> QED BY <1>1, <1>2, Zenon DEF DrawInv

LEMMA DrawKept == DrawInv /\ UNCHANGED drawVars => DrawInv'
<1>1. InTime /\ UNCHANGED drawVars => InTime'
  BY DEF InTime, DrawTypes, DrawnAsRecorded, FirstOfRun, StoppedIdle, drawVars
<1>2. D!NeverHung /\ UNCHANGED drawVars => D!NeverHung' BY Zenon DEF D!NeverHung, drawVars
<1> QED BY <1>1, <1>2, Zenon DEF DrawInv

-----------------------------------------------------------------------------
(* The statistics of the video renderer (VideoStats).                      *)

\* What the sums of k figures of at most a second are: the mean square is not less than the
\* square of the mean, and not more than that of a second.
Sums(k, S2, T) == /\ k \in Nat /\ S2 \in Nat /\ T \in Int
                  /\ T * T <= k * S2 /\ S2 <= k * 10^6

LEMMA SquareNat == ASSUME NEW x \in Int PROVE x * x \in Nat
BY SMT

LEMMA NoSums == Sums(0, 0, 0)
BY SMT DEF Sums

LEMMA MoreSums ==
  ASSUME NEW k, NEW S2, NEW T, Sums(k, S2, T), NEW l \in Int, -(10^3) <= l, l <= 10^3
  PROVE  Sums(k + 1, S2 + l * l, T + l)
<1>1. k \in Nat /\ S2 \in Nat /\ T \in Int /\ T * T <= k * S2 /\ S2 <= k * 10^6 BY DEF Sums
<1>2. l * l \in Nat /\ l * l <= 10^6 BY SMT
<1>3. S2 + k * (l * l) - 2 * (T * l) >= 0
  <2>1. CASE k = 0
    <3>1. S2 = 0 BY <1>1, <2>1, SMT
    <3>2. T * T <= 0 BY <1>1, <2>1, <3>1, SMT
    <3>3. T = 0 BY <1>1, <3>2, SMT
    <3> QED BY <1>2, <2>1, <3>1, <3>3, SMT
  <2>2. CASE k > 0
    <3>1. (T - k * l) * (T - k * l) >= 0 BY <1>1, SMT
    <3>2. (T - k * l) * (T - k * l) = T * T - 2 * (k * (T * l)) + k * (k * (l * l)) BY <1>1, SMT
    <3>3. k * (S2 + k * (l * l) - 2 * (T * l)) = k * S2 + k * (k * (l * l)) - 2 * (k * (T * l)) BY <1>1, SMT
    <3>4. PICK z \in Int : z = S2 + k * (l * l) - 2 * (T * l) BY <1>1, SMT
    <3>5. k * z >= 0
      <4>1. PICK a \in Int, b \in Int, c \in Int, d \in Int :
              a = T * T /\ b = k * (T * l) /\ c = k * (k * (l * l)) /\ d = k * S2
        BY <1>1, SMT
      <4> QED BY <1>1, <3>1, <3>2, <3>3, <3>4, <4>1, SMT
    <3>6. z >= 0 BY <1>1, <2>2, <3>4, <3>5, SMT
    <3> QED BY <3>4, <3>6, Zenon
  <2> QED BY <1>1, <2>1, <2>2, SMT
<1>4. (T + l) * (T + l) <= (k + 1) * (S2 + l * l)
  <2>1. (T + l) * (T + l) = T * T + 2 * (T * l) + l * l BY <1>1, SMT
  <2>2. (k + 1) * (S2 + l * l) = k * S2 + S2 + k * (l * l) + l * l BY <1>1, SMT
  <2> QED BY <1>1, <1>3, <2>1, <2>2, SMT
<1>5. S2 + l * l <= (k + 1) * 10^6 BY <1>1, <1>2, SMT
<1>6. k + 1 \in Nat /\ S2 + l * l \in Nat /\ T + l \in Int BY <1>1, <1>2, SMT
<1> QED BY <1>4, <1>5, <1>6, Zenon DEF Sums

\* Division of C and of TLA+ agree on numbers that are not negative.
LEMMA DivDoes ==
  ASSUME NEW a \in Nat, NEW b \in Nat, b > 0, NEW q, q = a \div b
  PROVE  q \in Nat /\ b * q <= a /\ a < b * (q + 1)
BY SMT

\* A step of Newton from s ends at t, not below the root but for the fraction.
Steps(s, t, x) == /\ s \in Nat /\ s > 0 /\ t \in Nat /\ t > 0
                  /\ 2 * (s * t) <= s * s + x /\ (t + 1) * (t + 1) > x

LEMMA NewtonDoes ==
  ASSUME NEW x \in Nat, x > 0, NEW s \in Nat, s > 0, NEW t, t = S!Newton(s, x)
  PROVE  Steps(s, t, x)
<1>1. PICK a, b : a = s * s + x /\ b = 2 * s OBVIOUS
<1>2. a \in Nat /\ b \in Nat /\ b > 0 BY <1>1, SMT
<1>3. t = a \div b BY <1>1, Zenon DEF S!Newton
<1>4. t \in Nat /\ b * t <= a /\ a < b * (t + 1) BY <1>2, <1>3, DivDoes, Zenon
<1>5. 2 * (s * t) <= s * s + x BY <1>1, <1>4, SMT
<1>6. (t + 1) * (t + 1) > x
  <2>1. PICK u \in Int : u = t + 1 BY <1>4, SMT
  <2>2. s * s + x < 2 * (s * u) BY <1>1, <1>4, <2>1, SMT
  <2>3. (s - u) * (s - u) >= 0 BY <2>1, SMT
  <2>4. (s - u) * (s - u) = s * s - 2 * (s * u) + u * u BY <2>1, SMT
  <2>5. u * u > x
    <3>1. PICK c \in Int, d \in Int, e \in Int : c = s * s /\ d = s * u /\ e = u * u BY <2>1, SMT
    <3> QED BY <2>2, <2>3, <2>4, <3>1, SMT
  <2> QED BY <2>1, <2>5, Zenon
<1>7. t > 0 BY <1>4, <1>6, SMT
<1> QED BY <1>4, <1>5, <1>6, <1>7, Zenon DEF Steps

\* From less than one below the root, a step adds at most one.
LEMMA FromBelow ==
  ASSUME NEW x \in Nat, NEW s, NEW t, Steps(s, t, x), s * s < x, (s + 1) * (s + 1) > x
  PROVE  (t - 1) * (t - 1) < x /\ t <= s + 1
<1>1. s \in Nat /\ s > 0 /\ t \in Nat /\ t > 0 /\ 2 * (s * t) <= s * s + x BY DEF Steps
<1>2. x <= s * s + 2 * s BY <1>1, SMT
<1>3. 2 * (s * t) <= 2 * (s * s) + 2 * s BY <1>1, <1>2, SMT
<1>4. s * t <= s * (s + 1) BY <1>1, <1>3, SMT
<1>5. t <= s + 1 BY <1>1, <1>4, SMT
<1>6. (t - 1) * (t - 1) <= s * s BY <1>1, <1>5, SMT
<1> QED BY <1>1, <1>5, <1>6, SMT

\* From less than one above the root, a step does not go up.
LEMMA FromAbove ==
  ASSUME NEW x \in Nat, NEW s, NEW t, Steps(s, t, x), s * s >= x, (s - 1) * (s - 1) < x
  PROVE  (t - 1) * (t - 1) < x
<1>1. s \in Nat /\ s > 0 /\ t \in Nat /\ t > 0 /\ 2 * (s * t) <= s * s + x BY DEF Steps
<1>2. s * t <= s * s BY <1>1, SMT
<1>3. t <= s BY <1>1, <1>2, SMT
<1>4. (t - 1) * (t - 1) <= (s - 1) * (s - 1) BY <1>1, <1>3, SMT
<1>5. (t - 1) * (t - 1) \in Int /\ (s - 1) * (s - 1) \in Int BY <1>1, SMT
<1> QED BY <1>4, <1>5, SMT

\* 2st <= ss + x, squared.
LEMMA Squared ==
  ASSUME NEW x \in Nat, NEW s \in Nat, NEW t \in Nat, 2 * (s * t) <= s * s + x, NEW q, q = s * s, NEW r, r = t * t
  PROVE  4 * (q * r) <= (q + x) * (q + x)
<1>1. PICK a \in Nat : a = 2 * (s * t) BY SMT
<1>2. PICK b \in Nat : b = q + x BY SMT
<1>3. a * a <= b * b BY <1>1, <1>2, SMT
<1>4. a * a = 4 * (q * r) BY <1>1, SMT
<1> QED BY <1>2, <1>3, <1>4, Zenon

LEMMA Cancel == ASSUME NEW q \in Nat, q > 0, NEW a \in Int, NEW b \in Int, q * a <= q * b PROVE a <= b
BY SMT

\* From less than twice the root to less than a quarter above it.
LEMMA FirstStep ==
  ASSUME NEW x \in Nat, x > 0, NEW s, NEW t, Steps(s, t, x), s * s >= x, s * s <= 4 * x
  PROVE  16 * (t * t) <= 25 * x
<1>1. s \in Nat /\ s > 0 /\ t \in Nat /\ 2 * (s * t) <= s * s + x BY DEF Steps
<1>2. PICK q \in Nat, r \in Nat : q = s * s /\ r = t * t BY <1>1, SMT
<1>3. 4 * (q * r) <= (q + x) * (q + x) BY <1>1, <1>2, Squared, Zenon
<1>4. q > 0 /\ q >= x /\ q <= 4 * x BY <1>1, <1>2, SMT
<1>5. (4 * q - x) * (4 * x - q) >= 0 BY <1>4, SMT
<1>6. (4 * q - x) * (4 * x - q) = 25 * (q * x) - 4 * ((q + x) * (q + x)) BY SMT
<1>7. q * (16 * r) <= q * (25 * x)
  <2>1. PICK a \in Int, b \in Int, c \in Int : a = q * r /\ b = q * x /\ c = (q + x) * (q + x) BY SMT
  <2>2. 4 * a <= c /\ 25 * b - 4 * c >= 0 BY <1>3, <1>5, <1>6, <2>1, SMT
  <2>3. q * (16 * r) = 16 * a /\ q * (25 * x) = 25 * b BY <2>1, SMT
  <2> QED BY <2>2, <2>3, SMT
<1>8. 16 * r <= 25 * x BY <1>4, <1>7, Cancel, SMT
<1> QED BY <1>2, <1>8, Zenon

\* And from there to less than a fortieth above it.
LEMMA SecondStep ==
  ASSUME NEW x \in Nat, x > 0, NEW s, NEW t, Steps(s, t, x), s * s >= x, 16 * (s * s) <= 25 * x
  PROVE  40 * 40 * (t * t) <= 41 * 41 * x
<1>1. s \in Nat /\ s > 0 /\ t \in Nat /\ 2 * (s * t) <= s * s + x BY DEF Steps
<1>2. PICK q \in Nat, r \in Nat : q = s * s /\ r = t * t BY <1>1, SMT
<1>3. 4 * (q * r) <= (q + x) * (q + x) BY <1>1, <1>2, Squared, Zenon
<1>4. q > 0 /\ q >= x /\ 16 * q <= 25 * x BY <1>1, <1>2, SMT
<1>5. (25 * q - 16 * x) * (25 * x - 16 * q) >= 0 BY <1>4, SMT
<1>6. (25 * q - 16 * x) * (25 * x - 16 * q) = 41 * 41 * (q * x) - 400 * ((q + x) * (q + x)) BY SMT
<1>7. q * (40 * 40 * r) <= q * (41 * 41 * x)
  <2>1. PICK a \in Int, b \in Int, c \in Int : a = q * r /\ b = q * x /\ c = (q + x) * (q + x) BY SMT
  <2>2. 4 * a <= c /\ 41 * 41 * b - 400 * c >= 0 BY <1>3, <1>5, <1>6, <2>1, SMT
  <2>3. q * (40 * 40 * r) = 40 * 40 * a /\ q * (41 * 41 * x) = 41 * 41 * b BY <2>1, SMT
  <2> QED BY <2>2, <2>3, SMT
<1>8. 40 * 40 * r <= 41 * 41 * x BY <1>4, <1>7, Cancel, SMT
<1> QED BY <1>2, <1>8, Zenon

\* And from there to less than one above it, up to a second.
LEMMA LastStep ==
  ASSUME NEW x \in Nat, x > 0, x <= 10^6, NEW s, NEW t, Steps(s, t, x), s * s >= x, 40 * 40 * (s * s) <= 41 * 41 * x
  PROVE  (t - 1) * (t - 1) < x
<1> SUFFICES ASSUME (t - 1) * (t - 1) >= x PROVE FALSE
  <2>1. (t - 1) * (t - 1) \in Int BY SMT DEF Steps
  <2> QED BY <2>1, SMT
<1>1. s \in Nat /\ s > 0 /\ t \in Nat /\ t > 0 /\ 2 * (s * t) <= s * s + x BY DEF Steps
<1>2. PICK q \in Nat, z \in Nat : q = s * s /\ z = t - 1 BY <1>1, SMT
<1>3. PICK e \in Int : e = q + x - 2 * s BY <1>1, <1>2, SMT
<1>4. 2 * (s * z) <= e BY <1>1, <1>2, <1>3, SMT
<1>5. 4 * (q * (z * z)) <= e * e
  <2>1. PICK a \in Nat : a = 2 * (s * z) BY <1>1, <1>2, SMT
  <2>2. a * a <= e * e BY <1>4, <2>1, SMT
  <2>3. a * a = 4 * (q * (z * z)) BY <1>1, <1>2, <2>1, SMT
  <2> QED BY <2>2, <2>3, SMT
<1>6. 4 * (q * x) <= e * e
  <2>1. PICK y \in Nat : y = z * z /\ x <= y BY <1>2, SMT
  <2>2. q * x <= q * y BY <1>2, <2>1, SMT
  <2> QED BY <1>3, <1>5, <2>1, <2>2, SMT
<1>7. q >= s /\ q >= x BY <1>1, <1>2, SMT
<1>8. (q - x) * (q - x) >= 4 * (s * x)
  <2>1. e * e = (q + x) * (q + x) - 4 * (s * (q + x)) + 4 * q BY <1>1, <1>2, <1>3, SMT
  <2>2. (q + x) * (q + x) = (q - x) * (q - x) + 4 * (q * x) BY <1>2, SMT
  <2>3. s * (q + x) - q = s * (q - s) + s * x BY <1>1, <1>2, SMT
  <2>4. s * (q - s) >= 0 BY <1>1, <1>7, SMT
  <2>5. PICK a \in Int, b \in Int, c \in Int, d \in Int, g \in Int, i \in Int :
          /\ a = e * e /\ b = (q + x) * (q + x) /\ c = s * (q + x) /\ d = (q - x) * (q - x)
          /\ g = q * x /\ i = s * (q - s)
    BY <1>1, <1>2, <1>3, SMT
  <2>6. PICK k \in Int : k = s * x BY <1>1, SMT
  <2>7. d >= 4 * k BY <1>6, <2>1, <2>2, <2>3, <2>4, <2>5, <2>6, SMT
  <2> QED BY <2>5, <2>6, <2>7, Zenon
<1>9. PICK w \in Nat : w = q - x /\ 40 * 40 * w <= 81 * x BY <1>2, <1>7, SMT
<1>10. 1000 * s >= x
  <2> SUFFICES ASSUME 1000 * s < x PROVE FALSE BY <1>1, SMT
  <2>1. (1000 * s) * (1000 * s) < x * x BY <1>1, SMT
  <2>2. x * x <= 10^6 * x BY SMT
  <2>3. (1000 * s) * (1000 * s) = 10^6 * q BY <1>1, <1>2, SMT
  <2> QED BY <1>2, <1>7, <2>1, <2>2, <2>3, SMT
<1>11. (40 * 40 * w) * (40 * 40 * w) <= (81 * x) * (81 * x) BY <1>9, SMT
<1>12. (40 * 40 * 40 * 40) * (4 * (s * x)) <= 81 * 81 * (x * x)
  <2>1. PICK a \in Int, b \in Int, c \in Int : a = w * w /\ b = s * x /\ c = x * x BY <1>1, <1>9, SMT
  <2>2. a >= 4 * b BY <1>8, <1>9, <2>1, SMT
  <2>3. (40 * 40 * w) * (40 * 40 * w) = (40 * 40 * 40 * 40) * a BY <1>9, <2>1, SMT
  <2>4. (81 * x) * (81 * x) = 81 * 81 * c BY <2>1, SMT
  <2> QED BY <1>11, <2>1, <2>2, <2>3, <2>4, SMT
<1>13. x * ((40 * 40 * 40 * 40) * (4 * s)) <= x * (81 * 81 * x) BY <1>1, <1>12, SMT
<1>14. (40 * 40 * 40 * 40) * (4 * s) <= 81 * 81 * x BY <1>1, <1>13, Cancel, SMT
<1> QED BY <1>1, <1>10, <1>14, SMT

\* The power of two to start from.
GuessFits(s, x) == s * s >= x /\ (s = 1 \/ (s \div 2) * (s \div 2) < x)

Powers == {2 ^ n : n \in 0..15}

LEMMA GuessDoes ==
  ASSUME NEW x \in Nat, x > 0, x <= 10^6, NEW s, s = S!Guess(x)
  PROVE  s \in Nat /\ s > 0 /\ s * s >= x /\ s * s <= 4 * x
<1>1. \E p \in Powers : GuessFits(p, x)
  <2>0. \A n \in 0..15 : 2^n \in Powers BY Zenon DEF Powers
  <2>1. CASE 0 < x /\ x <= 4^0
    <3>1. GuessFits(2^0, x) BY <2>1, SMT DEF GuessFits
    <3>2. 0 \in 0..15 OBVIOUS
    <3> QED BY <2>0, <3>1, <3>2, Zenon
  <2>2. CASE 4^0 < x /\ x <= 4^1
    <3>1. GuessFits(2^1, x) BY <2>2, SMT DEF GuessFits
    <3>2. 1 \in 0..15 OBVIOUS
    <3> QED BY <2>0, <3>1, <3>2, Zenon
  <2>3. CASE 4^1 < x /\ x <= 4^2
    <3>1. GuessFits(2^2, x) BY <2>3, SMT DEF GuessFits
    <3>2. 2 \in 0..15 OBVIOUS
    <3> QED BY <2>0, <3>1, <3>2, Zenon
  <2>4. CASE 4^2 < x /\ x <= 4^3
    <3>1. GuessFits(2^3, x) BY <2>4, SMT DEF GuessFits
    <3>2. 3 \in 0..15 OBVIOUS
    <3> QED BY <2>0, <3>1, <3>2, Zenon
  <2>5. CASE 4^3 < x /\ x <= 4^4
    <3>1. GuessFits(2^4, x) BY <2>5, SMT DEF GuessFits
    <3>2. 4 \in 0..15 OBVIOUS
    <3> QED BY <2>0, <3>1, <3>2, Zenon
  <2>6. CASE 4^4 < x /\ x <= 4^5
    <3>1. GuessFits(2^5, x) BY <2>6, SMT DEF GuessFits
    <3>2. 5 \in 0..15 OBVIOUS
    <3> QED BY <2>0, <3>1, <3>2, Zenon
  <2>7. CASE 4^5 < x /\ x <= 4^6
    <3>1. GuessFits(2^6, x) BY <2>7, SMT DEF GuessFits
    <3>2. 6 \in 0..15 OBVIOUS
    <3> QED BY <2>0, <3>1, <3>2, Zenon
  <2>8. CASE 4^6 < x /\ x <= 4^7
    <3>1. GuessFits(2^7, x) BY <2>8, SMT DEF GuessFits
    <3>2. 7 \in 0..15 OBVIOUS
    <3> QED BY <2>0, <3>1, <3>2, Zenon
  <2>9. CASE 4^7 < x /\ x <= 4^8
    <3>1. GuessFits(2^8, x) BY <2>9, SMT DEF GuessFits
    <3>2. 8 \in 0..15 OBVIOUS
    <3> QED BY <2>0, <3>1, <3>2, Zenon
  <2>10. CASE 4^8 < x /\ x <= 4^9
    <3>1. GuessFits(2^9, x) BY <2>10, SMT DEF GuessFits
    <3>2. 9 \in 0..15 OBVIOUS
    <3> QED BY <2>0, <3>1, <3>2, Zenon
  <2>11. CASE 4^9 < x /\ x <= 4^10
    <3>1. GuessFits(2^10, x) BY <2>11, SMT DEF GuessFits
    <3>2. 10 \in 0..15 OBVIOUS
    <3> QED BY <2>0, <3>1, <3>2, Zenon
  <2> QED BY <2>1, <2>2, <2>3, <2>4, <2>5, <2>6, <2>7, <2>8, <2>9, <2>10, <2>11, SMT
<1>2. s = CHOOSE p \in Powers : GuessFits(p, x) BY Zenon DEF S!Guess, GuessFits, Powers
<1>3. s \in Powers /\ GuessFits(s, x) BY <1>1, <1>2, Zenon
<1>4. s = 1 \/ \E p \in Nat : p > 0 /\ s = 2 * p
  <2>1. PICK n \in 0..15 : s = 2^n BY <1>3, Zenon DEF Powers
  <2>2. CASE n = 0 BY <2>1, <2>2, SMT
  <2>3. CASE n = 1 
    <3>1. 2^1 = 2 * 2^0 /\ 2^0 \in Nat /\ 2^0 > 0 BY SMT
    <3> QED BY <2>1, <2>3, <3>1, Zenon
  <2>4. CASE n = 2 
    <3>1. 2^2 = 2 * 2^1 /\ 2^1 \in Nat /\ 2^1 > 0 BY SMT
    <3> QED BY <2>1, <2>4, <3>1, Zenon
  <2>5. CASE n = 3 
    <3>1. 2^3 = 2 * 2^2 /\ 2^2 \in Nat /\ 2^2 > 0 BY SMT
    <3> QED BY <2>1, <2>5, <3>1, Zenon
  <2>6. CASE n = 4 
    <3>1. 2^4 = 2 * 2^3 /\ 2^3 \in Nat /\ 2^3 > 0 BY SMT
    <3> QED BY <2>1, <2>6, <3>1, Zenon
  <2>7. CASE n = 5 
    <3>1. 2^5 = 2 * 2^4 /\ 2^4 \in Nat /\ 2^4 > 0 BY SMT
    <3> QED BY <2>1, <2>7, <3>1, Zenon
  <2>8. CASE n = 6 
    <3>1. 2^6 = 2 * 2^5 /\ 2^5 \in Nat /\ 2^5 > 0 BY SMT
    <3> QED BY <2>1, <2>8, <3>1, Zenon
  <2>9. CASE n = 7 
    <3>1. 2^7 = 2 * 2^6 /\ 2^6 \in Nat /\ 2^6 > 0 BY SMT
    <3> QED BY <2>1, <2>9, <3>1, Zenon
  <2>10. CASE n = 8 
    <3>1. 2^8 = 2 * 2^7 /\ 2^7 \in Nat /\ 2^7 > 0 BY SMT
    <3> QED BY <2>1, <2>10, <3>1, Zenon
  <2>11. CASE n = 9 
    <3>1. 2^9 = 2 * 2^8 /\ 2^8 \in Nat /\ 2^8 > 0 BY SMT
    <3> QED BY <2>1, <2>11, <3>1, Zenon
  <2>12. CASE n = 10 
    <3>1. 2^10 = 2 * 2^9 /\ 2^9 \in Nat /\ 2^9 > 0 BY SMT
    <3> QED BY <2>1, <2>12, <3>1, Zenon
  <2>13. CASE n = 11 
    <3>1. 2^11 = 2 * 2^10 /\ 2^10 \in Nat /\ 2^10 > 0 BY SMT
    <3> QED BY <2>1, <2>13, <3>1, Zenon
  <2>14. CASE n = 12 
    <3>1. 2^12 = 2 * 2^11 /\ 2^11 \in Nat /\ 2^11 > 0 BY SMT
    <3> QED BY <2>1, <2>14, <3>1, Zenon
  <2>15. CASE n = 13 
    <3>1. 2^13 = 2 * 2^12 /\ 2^12 \in Nat /\ 2^12 > 0 BY SMT
    <3> QED BY <2>1, <2>15, <3>1, Zenon
  <2>16. CASE n = 14 
    <3>1. 2^14 = 2 * 2^13 /\ 2^13 \in Nat /\ 2^13 > 0 BY SMT
    <3> QED BY <2>1, <2>16, <3>1, Zenon
  <2>17. CASE n = 15 
    <3>1. 2^15 = 2 * 2^14 /\ 2^14 \in Nat /\ 2^14 > 0 BY SMT
    <3> QED BY <2>1, <2>17, <3>1, Zenon
  <2> QED BY <2>1, <2>2, <2>3, <2>4, <2>5, <2>6, <2>7, <2>8, <2>9, <2>10, <2>11, <2>12, <2>13, <2>14, <2>15, <2>16, <2>17, SMT
<1>5. CASE s = 1 BY <1>3, <1>5, SMT DEF GuessFits
<1>6. CASE s # 1
  <2>1. PICK p \in Nat : p > 0 /\ s = 2 * p BY <1>4, <1>6, Zenon
  <2>2. s \div 2 = p BY <2>1, SMT
  <2>3. s * s >= x /\ p * p < x BY <1>3, <1>6, <2>2, Zenon DEF GuessFits
  <2> QED BY <2>1, <2>3, SMT
<1> QED BY <1>5, <1>6, Zenon

\* The root of what is at most a second squared is exact to a millisecond.
LEMMA isqrtDoes ==
  ASSUME NEW x \in Nat, x <= 10^6, NEW d, d = S!isqrt(x)
  PROVE  d \in Nat /\ (d + 1) * (d + 1) > x /\ (d = 0 \/ (d - 1) * (d - 1) < x)
<1>1. CASE x = 0
  <2>1. d = 0 BY <1>1, Zenon DEF S!isqrt
  <2> QED BY <1>1, <2>1, SMT
<1>2. CASE x > 0
  <2>1. PICK r : r = S!Guess(x) OBVIOUS
  <2>2. PICK s : s = S!Newton(r, x) OBVIOUS
  <2>3. PICK t : t = S!Newton(s, x) OBVIOUS
  <2>4. x # 0 BY <1>2, SMT
  <2>5. d = S!Newton(t, x) BY <2>1, <2>2, <2>3, <2>4, Zenon DEF S!isqrt
  <2>6. r \in Nat /\ r > 0 /\ r * r >= x /\ r * r <= 4 * x BY <1>2, <2>1, GuessDoes
  <2>7. Steps(r, s, x) BY <1>2, <2>2, <2>6, NewtonDoes, Zenon
  <2>8. Steps(s, t, x) BY <1>2, <2>3, <2>7, NewtonDoes, Zenon DEF Steps
  <2>9. Steps(t, d, x) BY <1>2, <2>5, <2>8, NewtonDoes, Zenon DEF Steps
  <2>10. s \in Nat /\ t \in Nat /\ d \in Nat /\ (s + 1) * (s + 1) > x /\ (t + 1) * (t + 1) > x /\ (d + 1) * (d + 1) > x
    BY <2>7, <2>8, <2>9, Zenon DEF Steps
  <2>11. s * s < x \/ s * s >= x BY <2>10, SMT
  <2>12. t * t < x \/ t * t >= x BY <2>10, SMT
  <2>13. CASE t * t < x BY <2>9, <2>10, <2>13, FromBelow, Zenon
  <2>14. CASE t * t >= x /\ s * s < x
    <3>1. (t - 1) * (t - 1) < x BY <2>8, <2>10, <2>14, FromBelow, Zenon
    <3> QED BY <2>9, <2>10, <2>14, <3>1, FromAbove, Zenon
  <2>15. CASE t * t >= x /\ s * s >= x
    <3>1. 16 * (s * s) <= 25 * x BY <1>2, <2>6, <2>7, FirstStep, Zenon
    <3>2. 40 * 40 * (t * t) <= 41 * 41 * x BY <1>2, <2>8, <2>15, <3>1, SecondStep, Zenon
    <3>3. (d - 1) * (d - 1) < x BY <1>2, <2>9, <2>15, <3>2, LastStep, Zenon
    <3> QED BY <2>10, <3>3, Zenon
  <2> QED BY <2>11, <2>12, <2>13, <2>14, <2>15, Zenon
<1> QED BY <1>1, <1>2, SMT

\* The variance of the figures, which the code divides as if they were one more.
LEMMA VarianceDoes ==
  ASSUME NEW n \in Nat, n > 1, NEW S2, NEW T, Sums(n - 1, S2, T), NEW v, v = S!Variance(n, S2, T)
  PROVE  v \in Nat /\ v <= 10^6
<1>1. S2 \in Nat /\ T \in Int /\ T * T <= (n - 1) * S2 /\ S2 <= (n - 1) * 10^6 BY DEF Sums
<1>2. PICK a \in Nat : a = T * T BY <1>1, SquareNat, Zenon
<1>3. PICK q : q = a \div n OBVIOUS
<1>4. q \in Nat /\ n * q <= a
  <2>1. n > 0 BY SMT
  <2> QED BY <1>2, <1>3, <2>1, DivDoes, Zenon
<1>5. q <= S2
  <2>1. n * q <= n * S2 BY <1>1, <1>2, <1>4, SMT
  <2> QED BY <1>1, <1>4, <2>1, Cancel, SMT
<1>6. PICK z \in Nat : z = S2 - q BY <1>1, <1>4, <1>5, SMT
<1>7. PICK m \in Nat : m = n - 1 /\ m > 0 BY SMT
<1>8. v = z \div m
  <2>1. v = S!Quotient(z, m) BY <1>2, <1>3, <1>6, <1>7, Zenon DEF S!Variance
  <2>2. ~(z < 0) BY <1>6, SMT
  <2> QED BY <2>1, <2>2, Zenon DEF S!Quotient
<1>9. v \in Nat /\ m * v <= z BY <1>7, <1>8, DivDoes, Zenon
<1>10. m * v <= m * 10^6 BY <1>1, <1>4, <1>6, <1>7, <1>9, SMT
<1>11. v <= 10^6 BY <1>7, <1>9, <1>10, Cancel, SMT
<1> QED BY <1>9, <1>11, Zenon

\* The frames whose lateness, and whose time, the sums are of.
LateFrames == IF m_cFramesDrawn > 2 THEN m_cFramesDrawn - 2 ELSE 0
TimedFrames == IF m_cFramesDrawn > 3 THEN m_cFramesDrawn - 3 ELSE 0

\* The inductive invariant of the statistics: the sums are of fewer figures than frames were drawn.
StatInv == /\ m_cFramesDrawn \in Nat
           /\ Sums(LateFrames, m_iSumSqAcc, m_iTotAcc)
           /\ Sums(TimedFrames, m_iSumSqFrameTime, m_iSumFrameTime)

LEMMA StatReset ==
  ASSUME m_cFramesDrawn = 0, m_iTotAcc = 0, m_iSumSqAcc = 0, m_iSumFrameTime = 0, m_iSumSqFrameTime = 0
  PROVE  StatInv
<1>1. LateFrames = 0 /\ TimedFrames = 0 BY SMT DEF LateFrames, TimedFrames
<1>2. 0 \in Nat OBVIOUS
<1> QED BY <1>1, <1>2, NoSums, Zenon DEF StatInv

LEMMA StatInit == S!StatInit => StatInv
BY StatReset, Zenon DEF S!StatInit

LEMMA Within == ASSUME NEW a \in Int, NEW b \in Int, NEW x, x \in a..b PROVE x \in Int /\ a <= x /\ x <= b
OBVIOUS

LEMMA StatStep == StatInv /\ S!StatNext => StatInv'
<1> SUFFICES ASSUME StatInv, S!StatNext PROVE StatInv' OBVIOUS
<1>1. CASE S!ResetStreamingTimes
  <2>1. m_cFramesDrawn' = 0 /\ LateFrames' = 0 /\ TimedFrames' = 0
    BY <1>1, SMT DEF S!ResetStreamingTimes, LateFrames, TimedFrames
  <2>2. 0 \in Nat OBVIOUS
  <2> QED BY <1>1, <2>1, <2>2, NoSums, Zenon DEF S!ResetStreamingTimes, StatInv
<1>2. CASE S!ScheduleSample
  <2>1. LateFrames' = LateFrames /\ TimedFrames' = TimedFrames
    BY <1>2, Zenon DEF S!ScheduleSample, LateFrames, TimedFrames
  <2> QED BY <1>2, <2>1, Zenon DEF S!ScheduleSample, StatInv
<1>3. CASE S!RecordFrameLateness
  <2>1. PICK late, time : \E l, f : /\ l = (IF S!CountsLate THEN S!Clipped(late) ELSE 0)
                              /\ f = (IF S!CountsFrame THEN S!ClippedFrame(time) ELSE 0)
                              /\ m_iTotAcc' = m_iTotAcc + l /\ m_iSumSqAcc' = m_iSumSqAcc + l * l
                              /\ m_iSumFrameTime' = m_iSumFrameTime + f
                              /\ m_iSumSqFrameTime' = m_iSumSqFrameTime + f * f
    BY <1>3, Zenon DEF S!RecordFrameLateness
  <2>2. PICK l, f : /\ l = (IF S!CountsLate THEN S!Clipped(late) ELSE 0)
                    /\ f = (IF S!CountsFrame THEN S!ClippedFrame(time) ELSE 0)
                    /\ m_iTotAcc' = m_iTotAcc + l /\ m_iSumSqAcc' = m_iSumSqAcc + l * l
                    /\ m_iSumFrameTime' = m_iSumFrameTime + f
                    /\ m_iSumSqFrameTime' = m_iSumSqFrameTime + f * f
    BY <2>1, Zenon
  <2>3. m_cFramesDrawn \in Nat /\ m_cFramesDrawn' = m_cFramesDrawn + 1
    BY <1>3, Zenon DEF S!RecordFrameLateness, StatInv
  <2>4. l \in Int /\ -(10^3) <= l /\ l <= 10^3
    <3>1. S!ClipAt \in Int /\ -S!ClipAt \in Int /\ -S!ClipAt = -(10^3) /\ S!ClipAt = 10^3 /\ -S!ClipAt <= 0
          /\ 0 <= S!ClipAt /\ -S!ClipAt <= S!ClipAt
      BY SMT DEF S!ClipAt
    <3>2. \/ S!Clipped(late) \in -S!ClipAt..S!ClipAt
          \/ S!Clipped(late) \in {0, S!ClipAt, -S!ClipAt}
      BY Zenon DEF S!Clipped
    <3>3. S!Clipped(late) \in Int /\ -S!ClipAt <= S!Clipped(late) /\ S!Clipped(late) <= S!ClipAt
      BY <3>1, <3>2, Within, SMT
    <3> QED BY <2>2, <3>1, <3>3, SMT
  <2>5. f \in Int /\ -(10^3) <= f /\ f <= 10^3
    <3>1. 0 \in Int /\ S!ClipAt \in Int /\ S!ClipAt = 10^3 /\ -(10^3) <= 0 /\ 0 <= S!ClipAt BY SMT DEF S!ClipAt
    <3>2. S!ClippedFrame(time) \in 0..S!ClipAt \/ S!ClippedFrame(time) = S!ClipAt BY Zenon DEF S!ClippedFrame
    <3>3. S!ClippedFrame(time) \in Int /\ 0 <= S!ClippedFrame(time) /\ S!ClippedFrame(time) <= S!ClipAt
      BY <3>1, <3>2, Within, SMT
    <3> QED BY <2>2, <3>1, <3>3, SMT
  <2>6. Sums(LateFrames + 1, m_iSumSqAcc', m_iTotAcc') BY <2>2, <2>4, MoreSums, Zenon DEF StatInv
  <2>7. Sums(TimedFrames + 1, m_iSumSqFrameTime', m_iSumFrameTime') BY <2>2, <2>5, MoreSums, Zenon DEF StatInv
  <2>8. Sums(LateFrames', m_iSumSqAcc', m_iTotAcc')
    <3>1. CASE S!CountsLate
      <4>1. LateFrames' = LateFrames + 1 BY <2>3, <3>1, SMT DEF S!CountsLate, LateFrames
      <4> QED BY <2>6, <4>1, Zenon
    <3>2. CASE ~S!CountsLate
      <4>1. LateFrames' = 0 /\ LateFrames = 0 BY <2>3, <3>2, SMT DEF S!CountsLate, LateFrames
      <4>2. l = 0 BY <2>2, <3>2, Zenon
      <4>3. m_iSumSqAcc' = m_iSumSqAcc /\ m_iTotAcc' = m_iTotAcc BY <2>2, <4>2, SMT DEF StatInv, Sums
      <4> QED BY <4>1, <4>3, Zenon DEF StatInv
    <3> QED BY <3>1, <3>2
  <2>9. Sums(TimedFrames', m_iSumSqFrameTime', m_iSumFrameTime')
    <3>1. CASE S!CountsFrame
      <4>1. TimedFrames' = TimedFrames + 1 BY <2>3, <3>1, SMT DEF S!CountsFrame, TimedFrames
      <4> QED BY <2>7, <4>1, Zenon
    <3>2. CASE ~S!CountsFrame
      <4>1. TimedFrames' = 0 /\ TimedFrames = 0 BY <2>3, <3>2, SMT DEF S!CountsFrame, TimedFrames
      <4>2. f = 0 BY <2>2, <3>2, Zenon
      <4>3. m_iSumSqFrameTime' = m_iSumSqFrameTime /\ m_iSumFrameTime' = m_iSumFrameTime
        BY <2>2, <4>2, SMT DEF StatInv, Sums
      <4> QED BY <4>1, <4>3, Zenon DEF StatInv
    <3> QED BY <3>1, <3>2
  <2>10. m_cFramesDrawn' \in Nat BY <2>3, SMT
  <2> QED BY <2>8, <2>9, <2>10, Zenon DEF StatInv
<1> QED BY <1>1, <1>2, <1>3, Zenon DEF S!StatNext

LEMMA StatKept == StatInv /\ UNCHANGED statVars => StatInv'
<1> SUFFICES ASSUME StatInv, UNCHANGED statVars PROVE StatInv' OBVIOUS
<1>1. LateFrames' = LateFrames /\ TimedFrames' = TimedFrames BY Zenon DEF statVars, LateFrames, TimedFrames
<1> QED BY <1>1, Zenon DEF statVars, StatInv

LEMMA StatHolds == StatInv => S!StatisticsExact
<1> SUFFICES ASSUME StatInv PROVE S!StatisticsExact OBVIOUS
<1>1. m_cFramesDrawn \in Nat BY Zenon DEF StatInv
<1>2. ASSUME m_cFramesDrawn > 2
      PROVE  /\ S!Variance(m_cFramesDrawn - 1, m_iSumSqAcc, m_iTotAcc) \in Nat
             /\ S!Variance(m_cFramesDrawn - 1, m_iSumSqAcc, m_iTotAcc) <= 10^6
  <2>1. PICK n \in Nat : n = m_cFramesDrawn - 1 /\ n > 1 /\ n - 1 = LateFrames
    BY <1>1, <1>2, SMT DEF LateFrames
  <2>2. Sums(n - 1, m_iSumSqAcc, m_iTotAcc) BY <2>1, Zenon DEF StatInv
  <2>3. PICK v : v = S!Variance(n, m_iSumSqAcc, m_iTotAcc) OBVIOUS
  <2>4. v \in Nat /\ v <= 10^6 BY <2>1, <2>2, <2>3, VarianceDoes, Zenon
  <2> QED BY <2>1, <2>3, <2>4, Zenon
<1>3. ASSUME m_cFramesDrawn > 3
      PROVE  S!Variance(m_cFramesDrawn - 2, m_iSumSqFrameTime, m_iSumFrameTime) \in Nat
  <2>1. PICK n \in Nat : n = m_cFramesDrawn - 2 /\ n > 1 /\ n - 1 = TimedFrames
    BY <1>1, <1>3, SMT DEF TimedFrames
  <2>2. Sums(n - 1, m_iSumSqFrameTime, m_iSumFrameTime) BY <2>1, Zenon DEF StatInv
  <2>3. PICK v : v = S!Variance(n, m_iSumSqFrameTime, m_iSumFrameTime) OBVIOUS
  <2>4. v \in Nat BY <2>1, <2>2, <2>3, VarianceDoes, Zenon
  <2> QED BY <2>1, <2>3, <2>4, Zenon
<1>4. \A v \in Nat : v >= 0 BY SMT
<1>5. S!VarianceNotNegative BY <1>2, <1>3, <1>4, Zenon DEF S!VarianceNotNegative
<1>6. S!DeviationExact
  <2> SUFFICES ASSUME m_cFramesDrawn > 2, NEW v, v = S!Variance(m_cFramesDrawn - 1, m_iSumSqAcc, m_iTotAcc),
                      NEW d, d = S!Deviation(m_cFramesDrawn - 1, m_iSumSqAcc, m_iTotAcc)
               PROVE  (d + 1) * (d + 1) > v /\ (d = 0 \/ (d - 1) * (d - 1) < v)
    BY Zenon DEF S!DeviationExact
  <2>1. v \in Nat /\ v <= 10^6 BY <1>2, Zenon
  <2>2. ~(m_cFramesDrawn - 1 <= 1) BY <1>1, SMT
  <2>3. d = S!isqrt(v) BY <2>2, Zenon DEF S!Deviation
  <2> QED BY <2>1, <2>3, isqrtDoes, Zenon
<1> QED BY <1>5, <1>6, Zenon DEF S!StatisticsExact

-----------------------------------------------------------------------------
(* Reference counts (ComObjects).                                          *)

\* The references that f counts for each client, one by one.
References(f) == {r \in Clients \X Nat : r[2] < f[r[1]]}

Calls == {"idle", "AddRef", "Lock", "Unlock", "CreateInstance", "destructor"}

ComTypes ==
  /\ m_cLocked \in Int /\ m_cObjects \in Int
  /\ fheld \in [Clients -> Nat] /\ oheld \in [Clients -> Nat]
  /\ locks \in [Clients -> {0, 1}] /\ seen \in [Clients -> Int]
  /\ cpc \in [Clients -> Calls]
  /\ factory \in [m_cRef : Int, alive : BOOLEAN] /\ object \in [m_cRef : Int, alive : BOOLEAN]
  /\ raced \subseteq {"m_cRef", "m_cLocked"}

ComFlags == loaded \in BOOLEAN /\ temp \in BOOLEAN

Alive(o) == IF o.alive THEN 1 ELSE 0

\* What is alive is counted, and only in a loaded DLL.
ObjectsCounted ==
  /\ m_cObjects >= Alive(factory) + Alive(object)
  /\ ~loaded => ~factory.alive /\ ~object.alive

\* The factory's count is that of the references, and of what a client is about to add to.
FactoryCounted ==
  "m_cRef" \notin raced =>
    /\ IsFiniteSet(References(fheld))
    /\ factory.alive => factory.m_cRef = Cardinality(References(fheld))
    /\ O!Held(fheld) => factory.alive
    /\ \A c \in Clients : cpc[c] \in {"AddRef", "Lock", "Unlock"} => fheld[c] > 0
    /\ \A c \in Clients : cpc[c] = "AddRef" => seen[c] = factory.m_cRef

LocksCounted ==
  /\ \A c \in Clients : cpc[c] = "Lock" => locks[c] = 0
  /\ \A c \in Clients : cpc[c] = "Unlock" => locks[c] = 1
  /\ raced = {} =>
       /\ m_cLocked = Cardinality({c \in Clients : locks[c] = 1})
       /\ \A c \in Clients : cpc[c] \in {"Lock", "Unlock"} => seen[c] = m_cLocked
       /\ ~loaded => ~O!Held(locks)

\* A client that makes the object or destroys it, alone.
Busy(c) == cpc[c] \in {"CreateInstance", "destructor"}

OneBusy == \A c, d \in Clients : Busy(c) /\ Busy(d) => c = d

ObjectCounted ==
  /\ IsFiniteSet(References(oheld))
  /\ O!Held(oheld) => object.alive
  /\ \A c \in Clients : Busy(c) => object.alive /\ ~O!Held(oheld)
                                   /\ object.m_cRef = IF temp THEN 2 ELSE 1
  /\ (\A c \in Clients : ~Busy(c)) => ~temp
  /\ object.alive /\ (\A c \in Clients : ~Busy(c)) =>
       object.m_cRef = Cardinality(References(oheld)) /\ dtors = 0
  /\ \A c \in Clients : cpc[c] = "CreateInstance" => dtors = 0
  /\ \A c \in Clients : cpc[c] = "destructor" => dtors = 1
  /\ dtors \in {0, 1}

ComInv == ComTypes /\ ComFlags /\ ObjectsCounted /\ FactoryCounted /\ LocksCounted /\ OneBusy /\ ObjectCounted

-----------------------------------------------------------------------------
LEMMA ReferenceAdded ==
  ASSUME NEW f \in [Clients -> Nat], NEW c \in Clients, NEW g \in [Clients -> Nat],
         g[c] = f[c] + 1, \A d \in Clients \ {c} : g[d] = f[d], IsFiniteSet(References(f))
  PROVE  /\ IsFiniteSet(References(g))
         /\ Cardinality(References(g)) = Cardinality(References(f)) + 1
<1>1. \A d \in Clients : d # c => g[d] = f[d] OBVIOUS
<1>2. PICK r : r = <<c, f[c]>> OBVIOUS
<1>3. r \notin References(f) BY <1>2 DEF References
<1>4. References(g) = References(f) \cup {r}
  <2>1. ASSUME NEW x \in Clients \X Nat PROVE x \in References(g) <=> x \in References(f) \cup {r}
    <3>1. PICK d \in Clients, i \in Nat : x = <<d, i>> OBVIOUS
    <3>2. x \in References(g) <=> i < g[d] BY <3>1 DEF References
    <3>3. x \in References(f) <=> i < f[d] BY <3>1 DEF References
    <3>4. x = r <=> d = c /\ i = f[c] BY <1>2, <3>1
    <3>5. f[d] \in Nat /\ g[d] \in Nat OBVIOUS
    <3>6. CASE d = c BY <1>1, <3>2, <3>3, <3>4, <3>5, <3>6
    <3>7. CASE d # c BY <1>1, <3>2, <3>3, <3>4, <3>7
    <3> QED BY <3>6, <3>7
  <2>2. r \in Clients \X Nat BY <1>2
  <2>3. References(g) \subseteq Clients \X Nat /\ References(f) \subseteq Clients \X Nat BY DEF References
  <2> QED BY <2>1, <2>2, <2>3
<1>5. PICK R : R = References(f) OBVIOUS
<1>6. IsFiniteSet(R \cup {r}) /\ Cardinality(R \cup {r}) = Cardinality(R) + 1
  BY <1>3, <1>5, FS_AddElement
<1> QED BY <1>1, <1>4, <1>5, <1>6

LEMMA ReferenceRemoved ==
  ASSUME NEW f \in [Clients -> Nat], NEW c \in Clients, f[c] > 0, NEW g \in [Clients -> Nat],
         g[c] = f[c] - 1, \A d \in Clients \ {c} : g[d] = f[d], IsFiniteSet(References(f))
  PROVE  /\ IsFiniteSet(References(g))
         /\ Cardinality(References(g)) = Cardinality(References(f)) - 1
<1>1. f[c] \in Nat /\ f[c] - 1 \in Nat OBVIOUS
<1>2. \A d \in Clients : d # c => g[d] = f[d] OBVIOUS
<1>3. PICK r : r = <<c, f[c] - 1>> OBVIOUS
<1>4. r \in References(f) BY <1>1, <1>3 DEF References
<1>5. References(g) = References(f) \ {r}
  <2>1. ASSUME NEW x \in Clients \X Nat PROVE x \in References(g) <=> x \in References(f) \ {r}
    <3>1. PICK d \in Clients, i \in Nat : x = <<d, i>> OBVIOUS
    <3>2. x \in References(g) <=> i < g[d] BY <3>1 DEF References
    <3>3. x \in References(f) <=> i < f[d] BY <3>1 DEF References
    <3>4. x = r <=> d = c /\ i = f[c] - 1 BY <1>3, <3>1
    <3>5. f[d] \in Nat /\ g[d] \in Nat OBVIOUS
    <3>6. CASE d = c BY <1>2, <3>2, <3>3, <3>4, <3>5, <3>6
    <3>7. CASE d # c BY <1>2, <3>2, <3>3, <3>4, <3>7
    <3> QED BY <3>6, <3>7
  <2>2. References(g) \subseteq Clients \X Nat /\ References(f) \subseteq Clients \X Nat BY DEF References
  <2> QED BY <2>1, <2>2
<1> QED BY <1>2, <1>4, <1>5, FS_RemoveElement

LEMMA NoReferences ==
  ASSUME NEW f \in [Clients -> Nat], IsFiniteSet(References(f))
  PROVE  /\ Cardinality(References(f)) \in Nat
         /\ O!Held(f) <=> Cardinality(References(f)) # 0
<1>1. Cardinality(References(f)) \in Nat BY FS_CardinalityType
<1>2. Cardinality(References(f)) = 0 <=> References(f) = {} BY FS_EmptySet
<1>3. ASSUME O!Held(f) PROVE References(f) # {}
  <2>1. PICK c \in Clients : f[c] > 0 BY <1>3 DEF O!Held
  <2>2. <<c, 0>> \in References(f) BY <2>1 DEF References
  <2> QED BY <2>2
<1>4. ASSUME References(f) # {} PROVE O!Held(f)
  <2>1. PICK r \in Clients \X Nat : r[2] < f[r[1]] BY <1>4 DEF References
  <2>2. r[1] \in Clients /\ f[r[1]] > 0 BY <2>1
  <2> QED BY <2>2 DEF O!Held
<1> QED BY <1>1, <1>2, <1>3, <1>4

LEMMA OneReference ==
  ASSUME NEW c \in Clients, NEW g, g = [d \in Clients |-> IF d = c THEN 1 ELSE 0]
  PROVE  g \in [Clients -> Nat] /\ IsFiniteSet(References(g)) /\ Cardinality(References(g)) = 1
<1>1. g \in [Clients -> Nat] OBVIOUS
<1>2. PICK r : r = <<c, 0>> OBVIOUS
<1>3. References(g) = {r}
  <2>1. ASSUME NEW x \in Clients \X Nat PROVE x \in References(g) <=> x = r
    <3>1. PICK d \in Clients, i \in Nat : x = <<d, i>> OBVIOUS
    <3>2. x \in References(g) <=> i < g[d] BY <3>1 DEF References
    <3>3. x = r <=> d = c /\ i = 0 BY <1>2, <3>1
    <3>4. i < g[d] <=> d = c /\ i = 0 OBVIOUS
    <3> QED BY <3>2, <3>3, <3>4
  <2>2. References(g) \subseteq Clients \X Nat /\ r \in Clients \X Nat BY <1>2 DEF References
  <2> QED BY <2>1, <2>2
<1> QED BY <1>1, <1>3, FS_Singleton

\* Nobody has references when nobody's are counted.
LEMMA NothingHeld ==
  ASSUME NEW f, f = [c \in Clients |-> 0]
  PROVE  f \in [Clients -> Nat] /\ IsFiniteSet(References(f)) /\ Cardinality(References(f)) = 0 /\ ~O!Held(f)
<1>1. f \in [Clients -> Nat] OBVIOUS
<1>2. References(f) = {} BY DEF References
<1>3. ~O!Held(f) BY DEF O!Held
<1> QED BY <1>1, <1>2, <1>3, FS_EmptySet

-----------------------------------------------------------------------------
\* What a step leaves alone of each part.
LEMMA FactoryLeft ==
  ASSUME ComTypes, FactoryCounted, UNCHANGED <<factory, fheld, raced>>,
         \A c \in Clients : cpc'[c] \in {"AddRef", "Lock", "Unlock"} => cpc'[c] = cpc[c] /\ seen'[c] = seen[c]
  PROVE  FactoryCounted'
<1>1. References(fheld)' = References(fheld) /\ O!Held(fheld)' = O!Held(fheld)
  BY DEF References, O!Held
<1> QED BY <1>1 DEF FactoryCounted

LEMMA ObjectLeft ==
  ASSUME ComTypes, OneBusy, ObjectCounted, UNCHANGED <<object, oheld, temp, dtors>>,
         \A c \in Clients : cpc'[c] = cpc[c] \/ {cpc[c], cpc'[c]} \cap {"CreateInstance", "destructor"} = {}
  PROVE  OneBusy' /\ ObjectCounted'
<1>1. References(oheld)' = References(oheld) /\ O!Held(oheld)' = O!Held(oheld)
  BY DEF References, O!Held
<1>2. \A c \in Clients : Busy(c)' <=> Busy(c) BY DEF Busy
<1>3. \A c \in Clients : cpc'[c] \in {"CreateInstance", "destructor"} => cpc'[c] = cpc[c] BY DEF Busy
<1>4. OneBusy' BY <1>2 DEF OneBusy
<1>5. ObjectCounted' BY <1>1, <1>2, <1>3 DEF ObjectCounted
<1> QED BY <1>4, <1>5

LEMMA LocksLeft ==
  ASSUME ComTypes, ComFlags, LocksCounted, UNCHANGED <<m_cLocked, locks>>, raced \subseteq raced',
         loaded => loaded',
         \A c \in Clients : cpc'[c] \in {"Lock", "Unlock"} => cpc'[c] = cpc[c] /\ seen'[c] = seen[c]
  PROVE  LocksCounted'
<1>1. {c \in Clients : locks[c] = 1}' = {c \in Clients : locks[c] = 1} OBVIOUS
<1>2. O!Held(locks)' = O!Held(locks) BY DEF O!Held
<1>3. raced' = {} => raced = {} OBVIOUS
<1> QED BY <1>1, <1>2, <1>3 DEF LocksCounted

\* What a count that was disturbed becomes.
LEMMA Disturbed ==
  ASSUME ComTypes, NEW c \in Clients, NEW calls, NEW count \in {"m_cRef", "m_cLocked"},
         O!Disturbs(c, calls, count)
  PROVE  /\ raced \subseteq raced' /\ raced' \subseteq {"m_cRef", "m_cLocked"}
         /\ raced' \subseteq raced \cup {count}
         /\ count \notin raced' => \A d \in Clients : d # c => cpc[d] \notin calls
BY DEF ComTypes, O!Disturbs

-----------------------------------------------------------------------------
LEMMA DllGetClassObjectStep ==
  ASSUME ComInv, NEW c \in Clients, O!DllGetClassObject(c) PROVE ComInv'
<1> USE DEF ComInv
<1>1. /\ loaded /\ cpc[c] = "idle" /\ (factory.alive => ~O!Held(fheld))
      /\ factory' = [m_cRef |-> 1, alive |-> TRUE] /\ m_cObjects' = m_cObjects + 1
      /\ fheld' = [d \in Clients |-> IF d = c THEN 1 ELSE 0]
      /\ UNCHANGED <<loaded, m_cLocked, object, oheld, locks, cpc, seen, dtors, raced, temp>>
  BY DEF O!DllGetClassObject, O!Idle
<1>2. fheld' \in [Clients -> Nat] /\ IsFiniteSet(References(fheld')) /\ Cardinality(References(fheld')) = 1
  BY <1>1, OneReference
<1>3. ComTypes' /\ ComFlags' BY <1>1, <1>2 DEF ComTypes, ComFlags
<1>4. ObjectsCounted' BY <1>1 DEF ObjectsCounted, ComTypes, Alive
<1>5. FactoryCounted'
  <2>1. SUFFICES ASSUME "m_cRef" \notin raced PROVE FactoryCounted' BY <1>1 DEF FactoryCounted
  <2>2. ~O!Held(fheld) BY <1>1, <2>1 DEF FactoryCounted
  <2>3. \A d \in Clients : cpc'[d] \notin {"AddRef", "Lock", "Unlock"}
    BY <1>1, <2>1, <2>2 DEF FactoryCounted, O!Held
  <2> QED BY <1>1, <1>2, <2>3 DEF FactoryCounted
<1>6. LocksCounted' BY <1>1, LocksLeft
<1>7. OneBusy' /\ ObjectCounted' BY <1>1, ObjectLeft
<1> QED BY <1>3, <1>4, <1>5, <1>6, <1>7

LEMMA AddRefStep ==
  ASSUME ComInv, NEW c \in Clients, O!AddRef(c) PROVE ComInv'
<1> USE DEF ComInv
<1>1. /\ loaded /\ cpc[c] = "idle" /\ factory.alive /\ fheld[c] > 0
      /\ seen' = [seen EXCEPT ![c] = factory.m_cRef] /\ cpc' = [cpc EXCEPT ![c] = "AddRef"]
      /\ UNCHANGED <<loaded, m_cLocked, m_cObjects, factory, object, fheld, oheld, locks, dtors, raced, temp>>
  BY DEF O!AddRef, O!Idle, O!dll
<1>2. ComTypes' /\ ComFlags' BY <1>1 DEF ComTypes, ComFlags, Calls
<1>3. ObjectsCounted' BY <1>1 DEF ObjectsCounted, Alive
<1>4. FactoryCounted'
  <2>1. References(fheld)' = References(fheld) /\ O!Held(fheld)' = O!Held(fheld)
    BY <1>1 DEF References, O!Held
  <2>2. \A d \in Clients : d # c => cpc'[d] = cpc[d] /\ seen'[d] = seen[d] BY <1>1 DEF ComTypes
  <2>3. cpc'[c] = "AddRef" /\ seen'[c] = factory.m_cRef BY <1>1 DEF ComTypes
  <2> QED BY <1>1, <2>1, <2>2, <2>3 DEF FactoryCounted
<1>5. LocksCounted' BY <1>1, LocksLeft DEF ComTypes
<1>6. OneBusy' /\ ObjectCounted' BY <1>1, ObjectLeft DEF ComTypes
<1> QED BY <1>2, <1>3, <1>4, <1>5, <1>6

LEMMA AddRefWriteStep ==
  ASSUME ComInv, NEW c \in Clients, O!AddRefWrite(c) PROVE ComInv'
<1> USE DEF ComInv
<1>1. PICK d \in Clients : fheld' = [fheld EXCEPT ![d] = @ + 1] BY DEF O!AddRefWrite
<1>2. /\ cpc[c] = "AddRef" /\ cpc' = [cpc EXCEPT ![c] = "idle"] /\ seen' = [seen EXCEPT ![c] = 0]
      /\ factory' = IF factory.alive THEN [factory EXCEPT !.m_cRef = seen[c] + 1] ELSE factory
      /\ O!Disturbs(c, {"AddRef"}, "m_cRef")
      /\ UNCHANGED <<loaded, m_cLocked, m_cObjects, object, oheld, locks, dtors, temp>>
  BY DEF O!AddRefWrite, O!dll
<1>3. /\ raced \subseteq raced' /\ raced' \subseteq {"m_cRef", "m_cLocked"}
      /\ "m_cRef" \notin raced' => \A e \in Clients : e # c => cpc[e] # "AddRef"
  BY <1>2, Disturbed
<1>4. ComTypes' /\ ComFlags' BY <1>1, <1>2, <1>3 DEF ComTypes, ComFlags, Calls
<1>5. factory'.alive = factory.alive BY <1>2 DEF ComTypes
<1>6. ObjectsCounted' BY <1>2, <1>5 DEF ObjectsCounted, Alive
<1>7. FactoryCounted'
  <2>1. SUFFICES ASSUME "m_cRef" \notin raced' PROVE FactoryCounted' BY DEF FactoryCounted
  <2>2. "m_cRef" \notin raced /\ \A e \in Clients : e # c => cpc[e] # "AddRef" BY <1>3, <2>1
  <2>3. /\ IsFiniteSet(References(fheld')) /\ Cardinality(References(fheld')) = Cardinality(References(fheld)) + 1
    <3>1. fheld \in [Clients -> Nat] /\ IsFiniteSet(References(fheld)) BY <2>2 DEF ComTypes, FactoryCounted
    <3>2. PICK g : g = fheld' OBVIOUS
    <3>3. /\ g \in [Clients -> Nat] /\ g[d] = fheld[d] + 1
          /\ \A e \in Clients \ {d} : g[e] = fheld[e]
      BY <1>1, <3>1, <3>2
    <3>4. /\ IsFiniteSet(References(g)) /\ Cardinality(References(g)) = Cardinality(References(fheld)) + 1
      BY <3>1, <3>3, ReferenceAdded
    <3> QED BY <3>2, <3>4
  <2>4. fheld[c] > 0 BY <1>2, <2>2 DEF FactoryCounted
  <2>5. factory.alive BY <2>2, <2>4 DEF FactoryCounted, O!Held
  <2>6. factory'.m_cRef = factory.m_cRef + 1 BY <1>2, <2>2, <2>5 DEF FactoryCounted, ComTypes
  <2>7. factory.m_cRef = Cardinality(References(fheld)) BY <2>2, <2>5 DEF FactoryCounted
  <2>8. \A e \in Clients : cpc'[e] \in {"Lock", "Unlock"} => fheld[e] > 0
    BY <1>2, <2>2 DEF FactoryCounted, ComTypes
  <2>9. \A e \in Clients : fheld'[e] >= fheld[e] BY <1>1 DEF ComTypes
  <2>10. \A e \in Clients : cpc'[e] \in {"Lock", "Unlock"} => fheld'[e] > 0
    BY <1>4, <2>8, <2>9 DEF ComTypes
  <2>11. \A e \in Clients : cpc'[e] # "AddRef" BY <1>2, <2>2 DEF ComTypes
  <2> QED BY <1>5, <2>3, <2>5, <2>6, <2>7, <2>10, <2>11 DEF FactoryCounted
<1>8. LocksCounted' BY <1>2, <1>3, LocksLeft DEF ComTypes
<1>9. OneBusy' /\ ObjectCounted' BY <1>2, ObjectLeft DEF ComTypes
<1> QED BY <1>4, <1>6, <1>7, <1>8, <1>9

LEMMA ReleaseStep ==
  ASSUME ComInv, NEW c \in Clients, O!Release(c) PROVE ComInv'
<1> USE DEF ComInv
<1>1. /\ loaded /\ cpc[c] = "idle" /\ factory.alive /\ fheld[c] > 0 /\ fheld' = [fheld EXCEPT ![c] = @ - 1]
      /\ factory' = IF factory.m_cRef = 1 THEN [m_cRef |-> 0, alive |-> FALSE] ELSE [factory EXCEPT !.m_cRef = @ - 1]
      /\ m_cObjects' = IF factory.m_cRef = 1 THEN m_cObjects - 1 ELSE m_cObjects
      /\ O!Disturbs(c, {"AddRef"}, "m_cRef")
      /\ UNCHANGED <<loaded, m_cLocked, object, oheld, locks, cpc, seen, dtors, temp>>
  BY DEF O!Release, O!Idle, O!Gone
<1>2. /\ raced \subseteq raced' /\ raced' \subseteq {"m_cRef", "m_cLocked"}
      /\ "m_cRef" \notin raced' => \A e \in Clients : e # c => cpc[e] # "AddRef"
  BY <1>1, Disturbed
<1>3. fheld' \in [Clients -> Nat] /\ \A e \in Clients : e # c => fheld'[e] = fheld[e]
  <2>1. fheld[c] - 1 \in Nat BY <1>1 DEF ComTypes
  <2> QED BY <1>1, <2>1 DEF ComTypes
<1>4. ComTypes' /\ ComFlags' BY <1>1, <1>2, <1>3 DEF ComTypes, ComFlags
<1>5. factory'.alive <=> factory.m_cRef # 1 BY <1>1 DEF ComTypes
<1>6. ObjectsCounted' BY <1>1, <1>5 DEF ObjectsCounted, Alive, ComTypes
<1>7. FactoryCounted'
  <2>1. SUFFICES ASSUME "m_cRef" \notin raced' PROVE FactoryCounted' BY DEF FactoryCounted
  <2>2. "m_cRef" \notin raced /\ \A e \in Clients : e # c => cpc[e] # "AddRef" BY <1>2, <2>1
  <2>3. /\ IsFiniteSet(References(fheld')) /\ Cardinality(References(fheld')) = Cardinality(References(fheld)) - 1
    <3>1. fheld \in [Clients -> Nat] /\ IsFiniteSet(References(fheld)) BY <2>2 DEF ComTypes, FactoryCounted
    <3>2. PICK g : g = fheld' OBVIOUS
    <3>3. /\ g \in [Clients -> Nat] /\ g[c] = fheld[c] - 1 /\ fheld[c] > 0
          /\ \A e \in Clients \ {c} : g[e] = fheld[e]
      BY <1>1, <1>3, <3>1, <3>2
    <3>4. /\ IsFiniteSet(References(g)) /\ Cardinality(References(g)) = Cardinality(References(fheld)) - 1
      BY <3>1, <3>3, ReferenceRemoved
    <3> QED BY <3>2, <3>4
  <2>4. factory.m_cRef = Cardinality(References(fheld)) BY <1>1, <2>2 DEF FactoryCounted
  <2>5. factory'.alive => factory'.m_cRef = factory.m_cRef - 1 BY <1>1 DEF ComTypes
  <2>6. O!Held(fheld') <=> Cardinality(References(fheld')) # 0 BY <1>3, <2>3, NoReferences
  <2>7. O!Held(fheld') => factory'.alive BY <1>5, <2>3, <2>4, <2>6
  <2>8. \A e \in Clients : cpc'[e] \in {"AddRef", "Lock", "Unlock"} => fheld'[e] > 0
    BY <1>1, <1>3, <2>2 DEF FactoryCounted
  <2>9. \A e \in Clients : cpc'[e] # "AddRef" BY <1>1, <2>2
  <2>10. factory'.alive => factory'.m_cRef = Cardinality(References(fheld')) BY <2>3, <2>4, <2>5
  <2> QED BY <2>3, <2>7, <2>8, <2>9, <2>10 DEF FactoryCounted
<1>8. LocksCounted' BY <1>1, <1>2, LocksLeft
<1>9. OneBusy' /\ ObjectCounted' BY <1>1, ObjectLeft
<1> QED BY <1>4, <1>6, <1>7, <1>8, <1>9

LEMMA LockServerStep ==
  ASSUME ComInv, NEW c \in Clients, O!LockServer(c) PROVE ComInv'
<1> USE DEF ComInv
<1>1. PICK call \in {"Lock", "Unlock"} :
        /\ cpc' = [cpc EXCEPT ![c] = call]
        /\ call = "Lock" => locks[c] = 0
        /\ call = "Unlock" => locks[c] > 0
  BY DEF O!LockServer
<1>2. /\ loaded /\ cpc[c] = "idle" /\ factory.alive /\ fheld[c] > 0
      /\ seen' = [seen EXCEPT ![c] = m_cLocked]
      /\ UNCHANGED <<loaded, m_cLocked, m_cObjects, factory, object, fheld, oheld, locks, dtors, raced, temp>>
  BY DEF O!LockServer, O!Idle, O!dll
<1>3. ComTypes' /\ ComFlags' BY <1>1, <1>2 DEF ComTypes, ComFlags, Calls
<1>4. ObjectsCounted' BY <1>2 DEF ObjectsCounted, Alive
<1>5. \A d \in Clients : d # c => cpc'[d] = cpc[d] /\ seen'[d] = seen[d] BY <1>1, <1>2 DEF ComTypes
<1>6. cpc'[c] = call /\ seen'[c] = m_cLocked BY <1>1, <1>2 DEF ComTypes
<1>7. FactoryCounted'
  <2>1. References(fheld)' = References(fheld) /\ O!Held(fheld)' = O!Held(fheld)
    BY <1>2 DEF References, O!Held
  <2> QED BY <1>1, <1>2, <1>5, <1>6, <2>1 DEF FactoryCounted
<1>8. LocksCounted'
  <2>1. {d \in Clients : locks[d] = 1}' = {d \in Clients : locks[d] = 1} BY <1>2
  <2>2. O!Held(locks)' = O!Held(locks) BY <1>2 DEF O!Held
  <2>3. locks[c] > 0 => locks[c] = 1 BY DEF ComTypes
  <2> QED BY <1>1, <1>2, <1>5, <1>6, <2>1, <2>2, <2>3 DEF LocksCounted
<1>9. OneBusy' /\ ObjectCounted' BY <1>1, <1>2, <1>5, <1>6, ObjectLeft
<1> QED BY <1>3, <1>4, <1>7, <1>8, <1>9

LEMMA LockServerWriteStep ==
  ASSUME ComInv, NEW c \in Clients, O!LockServerWrite(c) PROVE ComInv'
<1> USE DEF ComInv
<1>1. /\ cpc[c] \in {"Lock", "Unlock"} /\ cpc' = [cpc EXCEPT ![c] = "idle"] /\ seen' = [seen EXCEPT ![c] = 0]
      /\ m_cLocked' = IF cpc[c] = "Lock" THEN seen[c] + 1 ELSE seen[c] - 1
      /\ locks' = [locks EXCEPT ![c] = IF cpc[c] = "Lock" THEN 1 ELSE 0]
      /\ O!Disturbs(c, {"Lock", "Unlock"}, "m_cLocked")
      /\ UNCHANGED <<loaded, m_cObjects, factory, object, fheld, oheld, dtors, temp>>
  BY DEF O!LockServerWrite
<1>2. /\ raced \subseteq raced' /\ raced' \subseteq {"m_cRef", "m_cLocked"} /\ raced' \subseteq raced \cup {"m_cLocked"}
      /\ "m_cLocked" \notin raced' => \A d \in Clients : d # c => cpc[d] \notin {"Lock", "Unlock"}
  BY <1>1, Disturbed
<1>3. /\ cpc'[c] = "idle" /\ locks'[c] = (IF cpc[c] = "Lock" THEN 1 ELSE 0)
      /\ \A d \in Clients : d # c => cpc'[d] = cpc[d] /\ seen'[d] = seen[d] /\ locks'[d] = locks[d]
  BY <1>1 DEF ComTypes
<1>4. ComTypes' /\ ComFlags' BY <1>1, <1>2 DEF ComTypes, ComFlags, Calls
<1>5. ObjectsCounted' BY <1>1 DEF ObjectsCounted, Alive
<1>6. FactoryCounted'
  <2>1. SUFFICES ASSUME "m_cRef" \notin raced' PROVE FactoryCounted' BY DEF FactoryCounted
  <2>2. "m_cRef" \notin raced BY <1>2, <2>1
  <2>3. References(fheld)' = References(fheld) /\ O!Held(fheld)' = O!Held(fheld)
    BY <1>1 DEF References, O!Held
  <2> QED BY <1>1, <1>3, <2>2, <2>3 DEF FactoryCounted
<1>7. LocksCounted'
  <2>1. \A d \in Clients : cpc'[d] = "Lock" => locks'[d] = 0 BY <1>3 DEF LocksCounted
  <2>2. \A d \in Clients : cpc'[d] = "Unlock" => locks'[d] = 1 BY <1>3 DEF LocksCounted
  <2>3. SUFFICES ASSUME raced' = {}
                 PROVE  /\ m_cLocked' = Cardinality({d \in Clients : locks'[d] = 1})
                        /\ \A d \in Clients : cpc'[d] \in {"Lock", "Unlock"} => seen'[d] = m_cLocked'
                        /\ ~loaded' => ~O!Held(locks')
    BY <2>1, <2>2 DEF LocksCounted
  <2>4. raced = {} /\ \A d \in Clients : d # c => cpc[d] \notin {"Lock", "Unlock"} BY <1>2, <2>3
  <2>5. loaded'
    <3>1. fheld[c] > 0 BY <1>1, <2>4 DEF FactoryCounted
    <3>2. factory.alive BY <2>4, <3>1 DEF FactoryCounted, O!Held
    <3> QED BY <1>1, <3>2 DEF ObjectsCounted
  <2>6. \A d \in Clients : cpc'[d] \notin {"Lock", "Unlock"} BY <1>3, <2>4
  <2>7. m_cLocked' = Cardinality({d \in Clients : locks'[d] = 1})
    <3>1. PICK X : X = {d \in Clients : locks[d] = 1} OBVIOUS
    <3>2. IsFiniteSet(X) /\ m_cLocked = Cardinality(X) /\ seen[c] = m_cLocked
      <4>1. IsFiniteSet(X) BY <3>1, UnitsAssumption, FS_Subset
      <4> QED BY <1>1, <2>4, <3>1, <4>1 DEF LocksCounted
    <3>3. CASE cpc[c] = "Lock"
      <4>1. {d \in Clients : locks'[d] = 1} = X \cup {c} BY <1>3, <3>1, <3>3
      <4>2. c \notin X BY <3>1, <3>3 DEF LocksCounted
      <4>3. Cardinality(X \cup {c}) = Cardinality(X) + 1 BY <3>2, <4>2, FS_AddElement
      <4> QED BY <1>1, <3>2, <3>3, <4>1, <4>3
    <3>4. CASE cpc[c] = "Unlock"
      <4>1. {d \in Clients : locks'[d] = 1} = X \ {c} BY <1>3, <3>1, <3>4
      <4>2. c \in X BY <3>1, <3>4 DEF LocksCounted
      <4>3. Cardinality(X \ {c}) = Cardinality(X) - 1 BY <3>2, <4>2, FS_RemoveElement
      <4> QED BY <1>1, <3>2, <3>4, <4>1, <4>3
    <3> QED BY <1>1, <3>3, <3>4
  <2> QED BY <2>5, <2>6, <2>7
<1>8. OneBusy' /\ ObjectCounted' BY <1>1, <1>3, ObjectLeft
<1> QED BY <1>4, <1>5, <1>6, <1>7, <1>8

\* The client that becomes busy, or idle again, is the only one.
LEMMA CreateInstanceStep ==
  ASSUME ComInv, NEW c \in Clients, O!CreateInstance(c) PROVE ComInv'
<1> USE DEF ComInv
<1>1. /\ loaded /\ cpc[c] = "idle" /\ ~object.alive
      /\ object' = [m_cRef |-> 1, alive |-> TRUE] /\ m_cObjects' = m_cObjects + 1
      /\ cpc' = [cpc EXCEPT ![c] = "CreateInstance"] /\ dtors' = 0
      /\ UNCHANGED <<loaded, m_cLocked, factory, fheld, oheld, locks, seen, raced, temp>>
  BY DEF O!CreateInstance, O!Idle, O!NonDelegatingAddRef
<1>2. cpc'[c] = "CreateInstance" /\ \A d \in Clients : d # c => cpc'[d] = cpc[d] BY <1>1 DEF ComTypes
<1>3. ComTypes' /\ ComFlags' BY <1>1 DEF ComTypes, ComFlags, Calls
<1>4. ObjectsCounted' BY <1>1 DEF ObjectsCounted, Alive, ComTypes
<1>5. FactoryCounted' BY <1>1, <1>2, FactoryLeft
<1>6. LocksCounted' BY <1>1, <1>2, LocksLeft
<1>7. \A d \in Clients : ~Busy(d) BY <1>1 DEF ObjectCounted
<1>8. ~temp /\ ~O!Held(oheld) BY <1>1, <1>7 DEF ObjectCounted
<1>9. \A d \in Clients : Busy(d)' <=> d = c BY <1>2, <1>7 DEF Busy
<1>10. OneBusy' BY <1>9 DEF OneBusy
<1>11. ObjectCounted'
  <2>1. References(oheld)' = References(oheld) /\ ~O!Held(oheld)' BY <1>1, <1>8 DEF References, O!Held
  <2>2. ~temp' BY <1>1, <1>8
  <2>3. \A d \in Clients : cpc'[d] # "destructor" BY <1>2, <1>7 DEF Busy
  <2> QED BY <1>1, <1>9, <2>1, <2>2, <2>3 DEF ObjectCounted
<1> QED BY <1>3, <1>4, <1>5, <1>6, <1>10, <1>11

LEMMA TakeReferenceStep ==
  ASSUME ComInv, NEW c \in Clients, O!TakeReference(c) PROVE ComInv'
<1> USE DEF ComInv
<1>1. /\ Busy(c) /\ ~temp /\ temp' /\ temp' \in BOOLEAN
      /\ object' = [object EXCEPT !.m_cRef = @ + 1]
      /\ UNCHANGED <<loaded, m_cLocked, m_cObjects, factory, fheld, oheld, locks, cpc, seen, dtors, raced>>
  BY DEF O!TakeReference, O!dll, Busy
<1>2. object'.m_cRef = object.m_cRef + 1 /\ object'.alive = object.alive BY <1>1 DEF ComTypes
<1>3. ComTypes' /\ ComFlags' BY <1>1 DEF ComTypes, ComFlags
<1>4. ObjectsCounted' BY <1>1, <1>2 DEF ObjectsCounted, Alive
<1>5. FactoryCounted' BY <1>1, FactoryLeft
<1>6. LocksCounted' BY <1>1, LocksLeft
<1>7. \A d \in Clients : Busy(d)' <=> Busy(d) BY <1>1 DEF Busy
<1>8. OneBusy' BY <1>7 DEF OneBusy
<1>9. ObjectCounted'
  <2>1. References(oheld)' = References(oheld) /\ O!Held(oheld)' = O!Held(oheld) BY <1>1 DEF References, O!Held
  <2>2. object.alive /\ ~O!Held(oheld) /\ object.m_cRef = 1 BY <1>1 DEF ObjectCounted
  <2>3. object'.m_cRef = 2 BY <1>2, <2>2
  <2> QED BY <1>1, <1>2, <1>7, <2>1, <2>2, <2>3 DEF ObjectCounted
<1> QED BY <1>3, <1>4, <1>5, <1>6, <1>8, <1>9

LEMMA DropReferenceStep ==
  ASSUME ComInv, NEW c \in Clients, O!DropReference(c) PROVE ComInv'
<1> USE DEF ComInv
<1>1. Busy(c) /\ temp /\ temp' = FALSE /\ O!Decrement(c)
      /\ UNCHANGED <<loaded, m_cLocked, m_cObjects, factory, fheld, oheld, locks, seen, raced>>
  BY DEF O!DropReference, O!dll, Busy
<1>2. object.alive /\ ~O!Held(oheld) /\ object.m_cRef = 2 BY <1>1 DEF ObjectCounted
<1>3. /\ object' = [object EXCEPT !.m_cRef = 1] /\ UNCHANGED <<dtors, cpc>>
  BY <1>1, <1>2 DEF O!Decrement, O!Deleted, ComTypes
<1>4. object'.m_cRef = 1 /\ object'.alive = object.alive BY <1>3 DEF ComTypes
<1>5. ComTypes' /\ ComFlags'
  <2>1. ComTypes' BY <1>1, <1>3 DEF ComTypes
  <2>2. ComFlags' BY <1>1 DEF ComFlags
  <2> QED BY <2>1, <2>2
<1>6. ObjectsCounted' BY <1>1, <1>4 DEF ObjectsCounted, Alive
<1>7. FactoryCounted' BY <1>1, <1>3, FactoryLeft
<1>8. LocksCounted' BY <1>1, <1>3, LocksLeft
<1>9. \A d \in Clients : Busy(d)' <=> Busy(d) BY <1>3 DEF Busy
<1>10. OneBusy' BY <1>9 DEF OneBusy
<1>11. ObjectCounted'
  <2>1. References(oheld)' = References(oheld) /\ O!Held(oheld)' = O!Held(oheld) BY <1>1 DEF References, O!Held
  <2>2. ~temp' BY <1>1
  <2> QED BY <1>1, <1>2, <1>3, <1>4, <1>9, <2>1, <2>2 DEF ObjectCounted
<1> QED BY <1>5, <1>6, <1>7, <1>8, <1>10, <1>11

LEMMA QueryInterfaceStep ==
  ASSUME ComInv, NEW c \in Clients, O!QueryInterface(c) PROVE ComInv'
<1> USE DEF ComInv
<1>1. /\ cpc[c] = "CreateInstance" /\ ~temp
      /\ UNCHANGED <<loaded, m_cLocked, m_cObjects, factory, fheld, locks, seen, raced, temp>>
  BY DEF O!QueryInterface, O!dll
<1>2. object.alive /\ ~O!Held(oheld) /\ object.m_cRef = 1 /\ dtors = 0 BY <1>1 DEF ObjectCounted, Busy
<1>3. \A d \in Clients : d # c => ~Busy(d) BY <1>1 DEF OneBusy, Busy
<1>4. /\ ~temp'
      /\ References(fheld)' = References(fheld) /\ O!Held(fheld)' = O!Held(fheld)
  BY <1>1 DEF References, O!Held
<1>5. CASE /\ object' = [object EXCEPT !.m_cRef = @ + 1 - O!NonDelegatingAddRef]
           /\ oheld' = [oheld EXCEPT ![c] = 1] /\ cpc' = [cpc EXCEPT ![c] = "idle"] /\ UNCHANGED dtors
  <2>1. cpc'[c] = "idle" /\ \A d \in Clients : d # c => cpc'[d] = cpc[d] BY <1>5 DEF ComTypes
  <2>2. object'.m_cRef = 1 /\ object'.alive = object.alive
    <3>1. object \in [m_cRef : Int, alive : BOOLEAN] BY DEF ComTypes
    <3>2. PICK n : n = object.m_cRef + 1 - O!NonDelegatingAddRef OBVIOUS
    <3>3. n = 1 BY <1>2, <3>2 DEF O!NonDelegatingAddRef
    <3>4. object' = [object EXCEPT !.m_cRef = n] BY <1>5, <3>2
    <3> QED BY <3>1, <3>3, <3>4
  <2>3. object' \in [m_cRef : Int, alive : BOOLEAN] /\ oheld' \in [Clients -> Nat]
    BY <1>5 DEF ComTypes, O!NonDelegatingAddRef
  <2>4. ComTypes'
    BY <1>1, <1>5, <2>3 DEF ComTypes, Calls
  <2>5. ComFlags' BY <1>1 DEF ComFlags
  <2>6. ObjectsCounted' BY <1>1, <2>2 DEF ObjectsCounted, Alive
  <2>7. FactoryCounted' BY <1>1, <2>1, FactoryLeft
  <2>8. LocksCounted' BY <1>1, <2>1, LocksLeft
  <2>9. \A d \in Clients : ~Busy(d)' BY <1>3, <2>1 DEF Busy
  <2>10. OneBusy' BY <2>9 DEF OneBusy
  <2>11. \A d \in Clients : oheld[d] = 0 BY <1>2 DEF O!Held, ComTypes
  <2>12. IsFiniteSet(References(oheld')) /\ Cardinality(References(oheld')) = 1
    <3>1. PICK g : g = [d \in Clients |-> IF d = c THEN 1 ELSE 0] OBVIOUS
    <3>2. oheld' = g BY <1>5, <2>11, <3>1 DEF ComTypes
    <3> QED BY <3>1, <3>2, OneReference
  <2>13. \A d \in Clients : cpc'[d] \notin {"CreateInstance", "destructor"} BY <2>9 DEF Busy
  <2>14. ObjectCounted' BY <1>2, <1>4, <1>5, <2>2, <2>9, <2>12, <2>13 DEF ObjectCounted
  <2> QED BY <2>4, <2>5, <2>6, <2>7, <2>8, <2>10, <2>14
<1>6. CASE /\ object' = O!Deleted([object EXCEPT !.m_cRef = 0]) /\ dtors' = dtors + 1
           /\ cpc' = [cpc EXCEPT ![c] = "destructor"] /\ UNCHANGED oheld
  <2>1. cpc'[c] = "destructor" /\ \A d \in Clients : d # c => cpc'[d] = cpc[d] BY <1>6 DEF ComTypes
  <2>2. object' = [object EXCEPT !.m_cRef = 1] BY <1>6 DEF ComTypes, O!Deleted, O!Dying
  <2>3. object'.m_cRef = 1 /\ object'.alive = object.alive BY <2>2 DEF ComTypes
  <2>4. ComTypes' BY <1>1, <1>6, <2>2 DEF ComTypes, Calls
  <2>5. ComFlags' BY <1>1 DEF ComFlags
  <2>6. ObjectsCounted' BY <1>1, <2>3 DEF ObjectsCounted, Alive
  <2>7. FactoryCounted' BY <1>1, <2>1, FactoryLeft
  <2>8. LocksCounted' BY <1>1, <2>1, LocksLeft
  <2>9. \A d \in Clients : Busy(d)' <=> d = c BY <1>3, <2>1 DEF Busy
  <2>10. OneBusy' BY <2>9 DEF OneBusy
  <2>11. References(oheld)' = References(oheld) /\ ~O!Held(oheld)' BY <1>2, <1>6 DEF References, O!Held
  <2>12. \A d \in Clients : cpc'[d] # "CreateInstance" BY <1>3, <2>1 DEF Busy
  <2>13. dtors' = 1 BY <1>2, <1>6
  <2>14. ObjectCounted' BY <1>2, <1>4, <2>3, <2>9, <2>11, <2>12, <2>13 DEF ObjectCounted
  <2> QED BY <2>4, <2>5, <2>6, <2>7, <2>8, <2>10, <2>14
<1> QED BY <1>5, <1>6 DEF O!QueryInterface

LEMMA ObjectAddRefStep ==
  ASSUME ComInv, NEW c \in Clients, O!ObjectAddRef(c) PROVE ComInv'
<1> USE DEF ComInv
<1>1. PICK d \in Clients : oheld' = [oheld EXCEPT ![d] = @ + 1] BY DEF O!ObjectAddRef
<1>2. /\ oheld[c] > 0 /\ object' = [object EXCEPT !.m_cRef = @ + 1]
      /\ UNCHANGED <<loaded, m_cLocked, m_cObjects, factory, fheld, locks, cpc, seen, dtors, raced, temp>>
  BY DEF O!ObjectAddRef, O!dll
<1>3. /\ oheld' \in [Clients -> Nat] /\ oheld'[d] = oheld[d] + 1
      /\ \A e \in Clients \ {d} : oheld'[e] = oheld[e]
  BY <1>1 DEF ComTypes
<1>4. object'.m_cRef = object.m_cRef + 1 /\ object'.alive = object.alive BY <1>2 DEF ComTypes
<1>5. ComTypes' /\ ComFlags' BY <1>2, <1>3 DEF ComTypes, ComFlags
<1>6. ObjectsCounted' BY <1>2, <1>4 DEF ObjectsCounted, Alive
<1>7. FactoryCounted' BY <1>2, FactoryLeft
<1>8. LocksCounted' BY <1>2, LocksLeft
<1>9. O!Held(oheld) BY <1>2 DEF O!Held
<1>10. object.alive /\ \A e \in Clients : ~Busy(e) BY <1>9 DEF ObjectCounted
<1>11. \A e \in Clients : ~Busy(e)' BY <1>2, <1>10 DEF Busy
<1>12. OneBusy' BY <1>11 DEF OneBusy
<1>13. IsFiniteSet(References(oheld')) /\ Cardinality(References(oheld')) = Cardinality(References(oheld)) + 1
  <2>1. PICK g : g = oheld' OBVIOUS
  <2>2. oheld \in [Clients -> Nat] /\ IsFiniteSet(References(oheld)) BY DEF ComTypes, ObjectCounted
  <2>3. /\ g \in [Clients -> Nat] /\ g[d] = oheld[d] + 1
        /\ \A e \in Clients \ {d} : g[e] = oheld[e]
    BY <1>3, <2>1
  <2>4. IsFiniteSet(References(g)) /\ Cardinality(References(g)) = Cardinality(References(oheld)) + 1
    BY <2>2, <2>3, ReferenceAdded
  <2> QED BY <2>1, <2>4
<1>14. \A e \in Clients : cpc'[e] \notin {"CreateInstance", "destructor"} BY <1>11 DEF Busy
<1>15. ObjectCounted' BY <1>2, <1>4, <1>10, <1>11, <1>13, <1>14 DEF ObjectCounted
<1> QED BY <1>5, <1>6, <1>7, <1>8, <1>12, <1>15

LEMMA NonDelegatingReleaseStep ==
  ASSUME ComInv, NEW c \in Clients, O!NonDelegatingRelease(c) PROVE ComInv'
<1> USE DEF ComInv
<1>1. /\ cpc[c] = "idle" /\ oheld[c] > 0 /\ oheld' = [oheld EXCEPT ![c] = @ - 1] /\ O!Decrement(c)
      /\ UNCHANGED <<loaded, m_cLocked, m_cObjects, factory, fheld, locks, seen, raced, temp>>
  BY DEF O!NonDelegatingRelease, O!dll, O!Idle
<1>2. O!Held(oheld) BY <1>1 DEF O!Held
<1>3. object.alive /\ \A e \in Clients : ~Busy(e) BY <1>2 DEF ObjectCounted
<1>4. object.m_cRef = Cardinality(References(oheld)) /\ dtors = 0 /\ ~temp BY <1>3 DEF ObjectCounted
<1>5. /\ oheld' \in [Clients -> Nat] /\ oheld'[c] = oheld[c] - 1
      /\ \A e \in Clients \ {c} : oheld'[e] = oheld[e]
  <2>1. oheld[c] - 1 \in Nat BY <1>1 DEF ComTypes
  <2> QED BY <1>1, <2>1 DEF ComTypes
<1>6. IsFiniteSet(References(oheld')) /\ Cardinality(References(oheld')) = Cardinality(References(oheld)) - 1
  <2>1. PICK g : g = oheld' OBVIOUS
  <2>2. oheld \in [Clients -> Nat] /\ IsFiniteSet(References(oheld)) BY DEF ComTypes, ObjectCounted
  <2>3. /\ g \in [Clients -> Nat] /\ g[c] = oheld[c] - 1 /\ oheld[c] > 0
        /\ \A e \in Clients \ {c} : g[e] = oheld[e]
    BY <1>1, <1>5, <2>1
  <2>4. IsFiniteSet(References(g)) /\ Cardinality(References(g)) = Cardinality(References(oheld)) - 1
    BY <2>2, <2>3, ReferenceRemoved
  <2> QED BY <2>1, <2>4
<1>7. O!Held(oheld') <=> Cardinality(References(oheld')) # 0 BY <1>5, <1>6, NoReferences
<1>8. ComFlags' /\ ~temp' BY <1>1, <1>4 DEF ComFlags
<1>9. CASE object.m_cRef = 1
  <2>1. /\ object' = [object EXCEPT !.m_cRef = 1] /\ dtors' = dtors + 1
        /\ cpc' = [cpc EXCEPT ![c] = "destructor"]
    <3>1. dtors' = dtors + 1 /\ cpc' = [cpc EXCEPT ![c] = "destructor"]
      BY <1>1, <1>9 DEF O!Decrement
    <3>2. PICK o : o = [object EXCEPT !.m_cRef = @ - 1] OBVIOUS
    <3>3. object' = O!Deleted(o) BY <1>1, <3>2 DEF O!Decrement
    <3>4. object \in [m_cRef : Int, alive : BOOLEAN] BY DEF ComTypes
    <3>5. o.m_cRef = 0 BY <1>9, <3>2, <3>4
    <3>6. object' = [o EXCEPT !.m_cRef = 1] BY <3>3, <3>5 DEF O!Deleted, O!Dying
    <3>7. [o EXCEPT !.m_cRef = 1] = [object EXCEPT !.m_cRef = 1] BY <3>2, <3>4
    <3> QED BY <3>1, <3>6, <3>7, Zenon
  <2>2. object'.m_cRef = 1 /\ object'.alive = object.alive BY <2>1 DEF ComTypes
  <2>3. cpc'[c] = "destructor" /\ \A e \in Clients : e # c => cpc'[e] = cpc[e] BY <2>1 DEF ComTypes
  <2>4. ComTypes' BY <1>1, <1>5, <2>1 DEF ComTypes, Calls
  <2>5. ObjectsCounted' BY <1>1, <2>2 DEF ObjectsCounted, Alive
  <2>6. FactoryCounted' BY <1>1, <2>3, FactoryLeft
  <2>7. LocksCounted' BY <1>1, <2>3, LocksLeft
  <2>8. \A e \in Clients : Busy(e)' <=> e = c BY <1>3, <2>3 DEF Busy
  <2>9. OneBusy' BY <2>8 DEF OneBusy
  <2>10. ~O!Held(oheld') BY <1>4, <1>6, <1>7, <1>9
  <2>11. \A e \in Clients : cpc'[e] # "CreateInstance" BY <1>3, <2>3 DEF Busy
  <2>12. dtors' = 1 BY <1>4, <2>1
  <2>13. ObjectCounted' BY <1>3, <1>6, <1>8, <2>2, <2>8, <2>10, <2>11, <2>12 DEF ObjectCounted
  <2> QED BY <1>8, <2>4, <2>5, <2>6, <2>7, <2>9, <2>13
<1>10. CASE object.m_cRef # 1
  <2>1. object.m_cRef - 1 # 0 BY <1>10 DEF ComTypes
  <2>2. object' = [object EXCEPT !.m_cRef = @ - 1] /\ UNCHANGED <<dtors, cpc>>
    BY <1>1, <1>10, <2>1 DEF O!Decrement, O!Deleted, ComTypes
  <2>3. object'.m_cRef = object.m_cRef - 1 /\ object'.alive = object.alive BY <2>2 DEF ComTypes
  <2>4. ComTypes' BY <1>1, <1>5, <2>2 DEF ComTypes
  <2>5. ObjectsCounted' BY <1>1, <2>3 DEF ObjectsCounted, Alive
  <2>6. FactoryCounted' BY <1>1, <2>2, FactoryLeft
  <2>7. LocksCounted' BY <1>1, <2>2, LocksLeft
  <2>8. \A e \in Clients : ~Busy(e)' BY <1>3, <2>2 DEF Busy
  <2>9. OneBusy' BY <2>8 DEF OneBusy
  <2>10. \A e \in Clients : cpc'[e] \notin {"CreateInstance", "destructor"} BY <2>8 DEF Busy
  <2>11. ObjectCounted' BY <1>3, <1>4, <1>6, <1>8, <2>2, <2>3, <2>8, <2>10 DEF ObjectCounted
  <2> QED BY <1>8, <2>4, <2>5, <2>6, <2>7, <2>9, <2>11
<1> QED BY <1>9, <1>10

LEMMA DestroyedStep ==
  ASSUME ComInv, NEW c \in Clients, O!Destroyed(c) PROVE ComInv'
<1> USE DEF ComInv
<1>1. /\ cpc[c] = "destructor" /\ ~temp /\ cpc' = [cpc EXCEPT ![c] = "idle"]
      /\ object' = [m_cRef |-> 0, alive |-> FALSE] /\ m_cObjects' = m_cObjects - 1
      /\ UNCHANGED <<loaded, m_cLocked, factory, fheld, oheld, locks, seen, dtors, raced, temp>>
  BY DEF O!Destroyed, O!Gone
<1>2. object.alive /\ ~O!Held(oheld) BY <1>1 DEF ObjectCounted, Busy
<1>3. cpc'[c] = "idle" /\ \A d \in Clients : d # c => cpc'[d] = cpc[d] BY <1>1 DEF ComTypes
<1>4. ComTypes' /\ ComFlags' BY <1>1 DEF ComTypes, ComFlags, Calls
<1>5. ObjectsCounted' BY <1>1, <1>2 DEF ObjectsCounted, Alive, ComTypes
<1>6. FactoryCounted' BY <1>1, <1>3, FactoryLeft
<1>7. LocksCounted' BY <1>1, <1>3, LocksLeft
<1>8. \A d \in Clients : ~Busy(d)' BY <1>1, <1>3 DEF Busy, OneBusy
<1>9. OneBusy' BY <1>8 DEF OneBusy
<1>10. References(oheld)' = References(oheld) /\ ~O!Held(oheld)' /\ ~temp' BY <1>1, <1>2 DEF References, O!Held
<1>11. \A d \in Clients : cpc'[d] \notin {"CreateInstance", "destructor"} BY <1>8 DEF Busy
<1>12. ObjectCounted' BY <1>1, <1>8, <1>10, <1>11 DEF ObjectCounted
<1> QED BY <1>4, <1>5, <1>6, <1>7, <1>9, <1>12

LEMMA UnloadStep ==
  ASSUME ComInv, O!Unload PROVE ComInv'
<1> USE DEF ComInv
<1>1. /\ loaded /\ m_cLocked <= 0 /\ m_cObjects = 0 /\ loaded' = FALSE
      /\ UNCHANGED <<m_cLocked, m_cObjects, factory, object, fheld, oheld, locks, cpc, seen, dtors, raced, temp>>
  BY DEF O!Unload, O!DllCanUnloadNow
<1>2. ~factory.alive /\ ~object.alive BY <1>1 DEF ObjectsCounted, Alive
<1>3. ComTypes' /\ ComFlags' BY <1>1 DEF ComTypes, ComFlags
<1>4. ObjectsCounted' BY <1>1, <1>2 DEF ObjectsCounted, Alive
<1>5. FactoryCounted' BY <1>1, FactoryLeft
<1>6. OneBusy' /\ ObjectCounted' BY <1>1, ObjectLeft
<1>7. LocksCounted'
  <2>1. PICK X : X = {d \in Clients : locks[d] = 1} OBVIOUS
  <2>2. {d \in Clients : locks[d] = 1}' = X BY <1>1, <2>1
  <2>3. ASSUME raced = {} PROVE ~O!Held(locks')
    <3>1. IsFiniteSet(X) BY <2>1, UnitsAssumption, FS_Subset
    <3>2. m_cLocked = Cardinality(X) BY <2>1, <2>3 DEF LocksCounted
    <3>3. X = {} BY <1>1, <3>1, <3>2, FS_CardinalityType, FS_EmptySet
    <3> QED BY <1>1, <2>1, <3>3 DEF O!Held, ComTypes
  <2> QED BY <1>1, <2>1, <2>2, <2>3 DEF LocksCounted
<1> QED BY <1>3, <1>4, <1>5, <1>6, <1>7

LEMMA DllEntryPointStep ==
  ASSUME ComInv, O!DllEntryPoint PROVE ComInv'
<1> USE DEF ComInv
<1>1. /\ ~loaded /\ loaded' = TRUE /\ m_cLocked' = 0 /\ m_cObjects' = 0
      /\ UNCHANGED <<factory, object, fheld, oheld, locks, cpc, seen, dtors, raced, temp>>
  BY DEF O!DllEntryPoint
<1>2. ~factory.alive /\ ~object.alive BY <1>1 DEF ObjectsCounted
<1>3. ComTypes' /\ ComFlags' BY <1>1 DEF ComTypes, ComFlags
<1>4. ObjectsCounted' BY <1>1, <1>2 DEF ObjectsCounted, Alive
<1>5. FactoryCounted' BY <1>1, FactoryLeft
<1>6. OneBusy' /\ ObjectCounted' BY <1>1, ObjectLeft
<1>7. LocksCounted'
  <2>1. ASSUME raced = {} PROVE {d \in Clients : locks'[d] = 1} = {} /\ \A d \in Clients : cpc'[d] \notin {"Lock", "Unlock"}
    <3>1. ~O!Held(locks) BY <1>1, <2>1 DEF LocksCounted
    <3>2. ~O!Held(fheld) BY <1>2, <2>1 DEF FactoryCounted
    <3> QED BY <1>1, <2>1, <3>1, <3>2 DEF O!Held, FactoryCounted
  <2>2. Cardinality({}) = 0 BY FS_EmptySet
  <2> QED BY <1>1, <2>1, <2>2 DEF LocksCounted
<1> QED BY <1>3, <1>4, <1>5, <1>6, <1>7

-----------------------------------------------------------------------------
LEMMA ComStep == ComInv /\ O!ComNext => ComInv'
<1> SUFFICES ASSUME ComInv, O!ComNext PROVE ComInv'
  OBVIOUS
<1>1. CASE O!Unload BY <1>1, UnloadStep
<1>2. CASE O!DllEntryPoint BY <1>2, DllEntryPointStep
<1>3. ASSUME NEW c \in Clients,
             \/ O!DllGetClassObject(c) \/ O!AddRef(c) \/ O!AddRefWrite(c) \/ O!Release(c)
             \/ O!LockServer(c) \/ O!LockServerWrite(c)
             \/ O!CreateInstance(c) \/ O!TakeReference(c) \/ O!DropReference(c) \/ O!QueryInterface(c)
             \/ O!ObjectAddRef(c) \/ O!NonDelegatingRelease(c) \/ O!Destroyed(c)
      PROVE  ComInv'
  BY <1>3, DllGetClassObjectStep, AddRefStep, AddRefWriteStep, ReleaseStep, LockServerStep,
     LockServerWriteStep, CreateInstanceStep, TakeReferenceStep, DropReferenceStep, QueryInterfaceStep,
     ObjectAddRefStep, NonDelegatingReleaseStep, DestroyedStep
<1> QED BY <1>1, <1>2, <1>3 DEF O!ComNext

LEMMA ComInit == O!ComInit => ComInv
<1> SUFFICES ASSUME O!ComInit PROVE ComInv
  OBVIOUS
<1> USE DEF O!ComInit, O!Gone
<1>1. /\ IsFiniteSet(References(fheld)) /\ Cardinality(References(fheld)) = 0 /\ ~O!Held(fheld)
      /\ IsFiniteSet(References(oheld)) /\ Cardinality(References(oheld)) = 0 /\ ~O!Held(oheld) /\ ~O!Held(locks)
  BY NothingHeld
<1>2. ComTypes
  <2>1. m_cLocked \in Int /\ m_cObjects \in Int OBVIOUS
  <2>2. fheld \in [Clients -> Nat] /\ oheld \in [Clients -> Nat] OBVIOUS
  <2>3. locks \in [Clients -> {0, 1}] /\ seen \in [Clients -> Int] OBVIOUS
  <2>4. cpc \in [Clients -> Calls] BY DEF Calls
  <2>5. FALSE \in BOOLEAN /\ 0 \in Int OBVIOUS
  <2>6. factory \in [m_cRef : Int, alive : BOOLEAN] /\ object \in [m_cRef : Int, alive : BOOLEAN]
    BY <2>5, Zenon
  <2>7. raced \subseteq {"m_cRef", "m_cLocked"} OBVIOUS
  <2> QED BY <2>1, <2>2, <2>3, <2>4, <2>6, <2>7, Zenon DEF ComTypes
<1>21. ComFlags BY Zenon DEF ComFlags
<1>3. ObjectsCounted BY DEF ObjectsCounted, Alive
<1>4. FactoryCounted BY <1>1 DEF FactoryCounted
<1>5. LocksCounted
  <2>1. {c \in Clients : locks[c] = 1} = {} OBVIOUS
  <2>2. Cardinality({}) = 0 BY FS_EmptySet
  <2> QED BY <1>1, <2>1, <2>2 DEF LocksCounted
<1>6. \A c \in Clients : ~Busy(c) BY DEF Busy
<1>7. OneBusy BY <1>6 DEF OneBusy
<1>8. ObjectCounted BY <1>1, <1>6 DEF ObjectCounted
<1> QED BY <1>2, <1>21, <1>3, <1>4, <1>5, <1>7, <1>8 DEF ComInv

LEMMA ComKept == ComInv /\ UNCHANGED comVars => ComInv'
<1> SUFFICES ASSUME ComInv, UNCHANGED comVars PROVE ComInv'
  OBVIOUS
<1> USE DEF ComInv, comVars
<1>1. ComTypes' /\ ComFlags' BY DEF ComTypes, ComFlags
<1>2. ObjectsCounted' BY DEF ObjectsCounted, Alive
<1>3. FactoryCounted' BY FactoryLeft
<1>4. LocksCounted' BY LocksLeft
<1>5. OneBusy' /\ ObjectCounted' BY ObjectLeft
<1> QED BY <1>1, <1>2, <1>3, <1>4, <1>5

LEMMA ComHolds == ComInv => O!CountsHold
<1> SUFFICES ASSUME ComInv PROVE O!CountsHold
  OBVIOUS
<1> USE DEF ComInv
<1>1. O!FactoryKept BY DEF O!FactoryKept, FactoryCounted
<1>2. O!ObjectKept
  <2>1. ASSUME NEW c \in Clients, cpc[c] = "CreateInstance" PROVE object.alive /\ dtors = 0
    BY <2>1 DEF ObjectCounted, Busy
  <2>2. ASSUME O!Held(oheld) PROVE object.alive /\ dtors = 0
    <3>1. \A c \in Clients : ~Busy(c) BY <2>2 DEF ObjectCounted
    <3> QED BY <2>2, <3>1 DEF ObjectCounted
  <2>3. dtors <= 1 BY DEF ObjectCounted
  <2> QED BY <2>1, <2>2, <2>3 DEF O!ObjectKept
<1>3. O!UnloadSafe BY DEF O!UnloadSafe, ObjectsCounted, LocksCounted
<1> QED BY <1>1, <1>2, <1>3 DEF O!CountsHold

-----------------------------------------------------------------------------
(* The enumerators.                                                        *)

EnumRec == [live : {TRUE}, at : {"idle", "count", "walk"}, left : Nat, batch : SUBSET (Addr \X Nat),
            pos : Nat, count : Nat, ver : Nat, cache : SUBSET Addr, got : SUBSET (Addr \X Nat),
            twice : BOOLEAN, excused : SUBSET (Addr \X Nat), atEnd : BOOLEAN]

\* The enumerator and the filter's list are of one version, and the list is not ahead of it.
Current(r) == r.ver = m_PinVersion /\ ~changed

\* Every address in the cache is of a pin that was returned, is about to be, or was excused, and no other
\* pin was.
CacheOK(r) ==
  /\ ~r.twice /\ \A q \in r.got \cup r.batch : q[1] \in r.cache
  /\ \A a \in r.cache : \E i \in 1..made[a] : <<a, i>> \in r.got \cup r.batch \cup r.excused

\* Between two calls nothing is left over from the last; a walk begins at the head of the list.
CallOK(r) ==
  /\ r.at # "walk" => r.batch = {}
  /\ r.at = "count" => r.pos = 0 /\ (r.left = 0 => ~r.atEnd)

\* A walk of the list as it is has left nothing behind it.
WalkOK(r) ==
  Current(r) /\ r.at # "count" =>
    /\ r.count = Len(pins)
    /\ \A k \in 1..Len(pins) : k <= r.pos => pins[k] \in r.cache \/ E!Pin(pins[k]) \in r.excused

EndOK(r) == Current(r) /\ r.at = "idle" /\ r.atEnd => r.pos >= Len(pins)

EnumOK(r) == /\ r \in EnumRec /\ r.ver <= m_PinVersion
             /\ CacheOK(r) /\ CallOK(r) /\ WalkOK(r) /\ EndOK(r)

PinsMade ==
  /\ pins \in Seq(Addr) /\ made \in [Addr -> Nat] /\ m_PinVersion \in Nat
  /\ \A k \in 1..Len(pins) : made[pins[k]] >= 1

EnumInv ==
  /\ PinsMade /\ changed \in BOOLEAN
  /\ DOMAIN enum = Enums /\ \A e \in Enums : enum[e] = E!Dead \/ EnumOK(enum[e])

TypesRec == [live : {TRUE}, left : Nat, pos : Nat, ver : Nat, got : SUBSET (Nat \X Nat),
             excused : SUBSET (Nat \X Nat)]

\* The pin's types before position p.
Upto(p) == {<<listed, k>> : k \in {j \in 0..(p - 1) : j < types}}

\* An enumerator that was in step when the types last changed has seen no others.
TypesEnumOK(r) == /\ r \in TypesRec /\ r.ver <= m_TypeVersion
                  /\ r.ver = listed => r.got \cup r.excused = Upto(r.pos)

TypeEnumInv ==
  /\ types \in Nat /\ listed \in Nat /\ m_TypeVersion \in Nat /\ m_TypeVersion <= listed
  /\ DOMAIN tenum = Enums /\ \A e \in Enums : tenum[e] = E!Dead \/ TypesEnumOK(tenum[e])

-----------------------------------------------------------------------------
LEMMA EnumStays ==
  ASSUME NEW r, EnumOK(r), PinsMade, made' \in [Addr -> Nat], \A a \in Addr : made[a] <= made'[a],
         m_PinVersion' \in Nat, m_PinVersion <= m_PinVersion', r.ver # m_PinVersion' \/ changed'
  PROVE  EnumOK(r)'
<1>1. r \in EnumRec /\ r.ver <= m_PinVersion /\ CacheOK(r) /\ CallOK(r) BY DEF EnumOK
<1>2. r.ver \in Nat /\ r.cache \subseteq Addr BY <1>1 DEF EnumRec
<1>3. r.ver <= m_PinVersion' BY <1>1, <1>2 DEF PinsMade
<1>4. ASSUME NEW a \in r.cache PROVE \E i \in 1..made'[a] : <<a, i>> \in r.got \cup r.batch \cup r.excused
  <2>1. PICK i \in 1..made[a] : <<a, i>> \in r.got \cup r.batch \cup r.excused BY <1>1 DEF CacheOK
  <2>2. a \in Addr BY <1>2
  <2>3. made[a] \in Nat /\ made'[a] \in Nat /\ made[a] <= made'[a] BY <2>2 DEF PinsMade
  <2>4. i \in 1..made'[a] BY <2>3
  <2> QED BY <2>1, <2>4
<1>5. ~Current(r)' BY DEF Current
<1>6. CacheOK(r)' BY <1>1, <1>4 DEF CacheOK
<1>7. CallOK(r)' BY <1>1 DEF CallOK
<1> QED BY <1>1, <1>3, <1>5, <1>6, <1>7 DEF EnumOK, WalkOK, EndOK

LEMMA EnumsStay ==
  ASSUME EnumInv, PinsMade', changed' \in BOOLEAN, UNCHANGED enum, \A a \in Addr : made[a] <= made'[a],
         m_PinVersion <= m_PinVersion', \A e \in Enums : EnumOK(enum[e]) => enum[e].ver # m_PinVersion' \/ changed'
  PROVE  EnumInv'
<1>1. PinsMade /\ made' \in [Addr -> Nat] /\ m_PinVersion' \in Nat BY DEF EnumInv, PinsMade
<1>2. ASSUME NEW e \in Enums PROVE enum'[e] = E!Dead \/ EnumOK(enum[e])'
  <2>1. CASE enum[e] = E!Dead BY <2>1
  <2>2. CASE EnumOK(enum[e])
    <3>1. PICK r : r = enum[e] OBVIOUS
    <3>2. EnumOK(r)' BY <1>1, <2>2, <3>1, EnumStays
    <3> QED BY <3>1, <3>2
  <2> QED BY <2>1, <2>2 DEF EnumInv
<1> QED BY <1>1, <1>2 DEF EnumInv

LEMMA EnumAlike == UNCHANGED <<pins, made, m_PinVersion, changed>> => \A s : EnumOK(s)' <=> EnumOK(s)
BY DEF EnumOK, CacheOK, CallOK, WalkOK, EndOK, Current, E!Pin

LEMMA EnumSet ==
  ASSUME EnumInv, NEW e \in Enums, NEW r, r = E!Dead \/ EnumOK(r), E!Set(e, r)
  PROVE  EnumInv'
<1>0. enum' = [enum EXCEPT ![e] = r] /\ UNCHANGED <<pins, made, m_PinVersion, changed>>
  BY DEF E!Set, E!filterVars
<1>1. DOMAIN enum' = Enums /\ enum'[e] = r /\ \A f \in Enums : f # e => enum'[f] = enum[f] BY <1>0 DEF EnumInv
<1>2. \A s : EnumOK(s)' <=> EnumOK(s) BY <1>0, EnumAlike
<1>3. PinsMade' /\ changed' \in BOOLEAN BY <1>0 DEF EnumInv, PinsMade
<1>4. ASSUME NEW f \in Enums PROVE enum'[f] = E!Dead \/ EnumOK(enum'[f])
  BY <1>1 DEF EnumInv
<1> QED BY <1>1, <1>2, <1>3, <1>4 DEF EnumInv

LEMMA NewEnumOK == ASSUME PinsMade PROVE EnumOK(E!NewEnum)
<1>1. E!NewEnum \in EnumRec
  <2>1. m_PinVersion \in Nat BY DEF PinsMade
  <2>2. 0 \in Nat OBVIOUS
  <2> QED BY <2>1, <2>2, Zenon DEF E!NewEnum, EnumRec
<1>2. /\ E!NewEnum.at = "count" /\ E!NewEnum.batch = {} /\ E!NewEnum.pos = 0
      /\ E!NewEnum.ver = m_PinVersion /\ E!NewEnum.cache = {}
      /\ E!NewEnum.got = {} /\ ~E!NewEnum.twice /\ E!NewEnum.excused = {} /\ ~E!NewEnum.atEnd
  BY DEF E!NewEnum
<1>3. E!NewEnum.ver <= m_PinVersion BY <1>2 DEF PinsMade
<1> QED BY <1>1, <1>2, <1>3 DEF EnumOK, CacheOK, CallOK, WalkOK, EndOK

LEMMA AddPinStep == ASSUME EnumInv, NEW a \in Addr, E!AddPin(a) PROVE EnumInv'
<1>1. /\ pins' = Append(pins, a) /\ made' = [made EXCEPT ![a] = @ + 1] /\ changed' = TRUE
      /\ UNCHANGED <<m_PinVersion, enum>>
  BY DEF E!AddPin
<1>2. pins \in Seq(Addr) /\ made \in [Addr -> Nat] /\ m_PinVersion \in Nat BY DEF EnumInv, PinsMade
<1>3. /\ made' \in [Addr -> Nat] /\ \A b \in Addr : made[b] <= made'[b]
      /\ made'[a] >= 1
  BY <1>1, <1>2
<1>4. /\ pins' \in Seq(Addr) /\ Len(pins') = Len(pins) + 1
      /\ \A k \in 1..Len(pins') : IF k <= Len(pins) THEN k \in 1..Len(pins) /\ pins'[k] = pins[k] ELSE pins'[k] = a
  BY <1>1, <1>2
<1>5. ASSUME NEW k \in 1..Len(pins') PROVE made'[pins'[k]] >= 1
  <2>1. CASE k <= Len(pins)
    <3>1. pins'[k] = pins[k] /\ pins[k] \in Addr /\ made[pins[k]] >= 1 BY <1>2, <1>4, <2>1 DEF EnumInv, PinsMade
    <3>2. made[pins[k]] <= made'[pins[k]] BY <1>3, <3>1
    <3>3. made[pins[k]] \in Nat /\ made'[pins[k]] \in Nat BY <1>2, <1>3, <3>1
    <3> QED BY <3>1, <3>2, <3>3
  <2>2. CASE ~(k <= Len(pins)) BY <1>3, <1>4, <2>2
  <2> QED BY <2>1, <2>2
<1>6. PinsMade' BY <1>1, <1>2, <1>3, <1>4, <1>5 DEF PinsMade
<1> QED BY <1>1, <1>2, <1>3, <1>6, EnumsStay

LEMMA RemovePinStep == ASSUME EnumInv, NEW k, E!RemovePin(k) PROVE EnumInv'
<1>1. /\ k \in DOMAIN pins /\ pins' = SubSeq(pins, 1, k - 1) \o SubSeq(pins, k + 1, Len(pins))
      /\ changed' = TRUE /\ UNCHANGED <<made, m_PinVersion, enum>>
  BY DEF E!RemovePin
<1>2. pins \in Seq(Addr) /\ made \in [Addr -> Nat] /\ m_PinVersion \in Nat BY DEF EnumInv, PinsMade
<1>3. k \in 1..Len(pins) /\ Len(pins) \in Nat BY <1>1, <1>2
<1>4. PICK s, t : s = SubSeq(pins, 1, k - 1) /\ t = SubSeq(pins, k + 1, Len(pins)) OBVIOUS
<1>5. s \in Seq(Addr) /\ Len(s) = k - 1 /\ \A j \in 1..Len(s) : j \in 1..Len(pins) /\ s[j] = pins[j]
  BY <1>2, <1>3, <1>4
<1>6. /\ t \in Seq(Addr) /\ Len(t) = Len(pins) - k
      /\ \A j \in 1..Len(t) : j + k \in 1..Len(pins) /\ t[j] = pins[j + k]
  BY <1>2, <1>3, <1>4
<1>7. pins' = s \o t BY <1>1, <1>4
<1>8. s \in Seq(Addr) /\ t \in Seq(Addr) /\ Len(s) \in Nat /\ Len(t) \in Nat BY <1>5, <1>6
<1>81. Len(pins') = Len(s) + Len(t) BY <1>7, <1>8
<1>82. ASSUME NEW j \in 1..Len(pins') PROVE \E i \in 1..Len(pins) : pins'[j] = pins[i]
  <2>1. j \in Nat /\ 1 <= j /\ j <= Len(s) + Len(t) BY <1>8, <1>81
  <2>2. CASE j <= Len(s)
    <3>1. j \in 1..Len(s) /\ pins'[j] = s[j] BY <1>7, <1>8, <2>1, <2>2
    <3> QED BY <1>5, <3>1
  <2>3. CASE ~(j <= Len(s))
    <3>1. j - Len(s) \in 1..Len(t) /\ pins'[j] = t[j - Len(s)] BY <1>7, <1>8, <2>1, <2>3
    <3> QED BY <1>6, <3>1
  <2> QED BY <2>2, <2>3
<1>9. pins' \in Seq(Addr) BY <1>7, <1>8
<1>10. PinsMade' BY <1>1, <1>2, <1>82, <1>9 DEF PinsMade, EnumInv
<1>11. \A a \in Addr : made[a] <= made'[a] BY <1>1, <1>2
<1> QED BY <1>1, <1>2, <1>10, <1>11, EnumsStay

LEMMA IncrementPinVersionStep == ASSUME EnumInv, E!IncrementPinVersion PROVE EnumInv'
<1>1. m_PinVersion' = m_PinVersion + 1 /\ changed' = FALSE /\ UNCHANGED <<pins, made, enum>>
  BY DEF E!IncrementPinVersion
<1>2. made \in [Addr -> Nat] /\ m_PinVersion \in Nat BY DEF EnumInv, PinsMade
<1>3. PinsMade' BY <1>1, <1>2 DEF EnumInv, PinsMade
<1>4. ASSUME NEW e \in Enums, EnumOK(enum[e]) PROVE enum[e].ver # m_PinVersion'
  <2>1. enum[e].ver \in Nat /\ enum[e].ver <= m_PinVersion BY <1>4 DEF EnumOK, EnumRec
  <2> QED BY <1>1, <1>2, <2>1
<1>5. (\A a \in Addr : made[a] <= made'[a]) /\ m_PinVersion <= m_PinVersion' BY <1>1, <1>2
<1> QED BY <1>1, <1>3, <1>4, <1>5, EnumsStay

\* What every call finds.
LEMMA EnumLive ==
  ASSUME EnumInv, NEW e \in Enums, enum[e].live
  PROVE  /\ EnumOK(enum[e]) /\ enum[e] \in EnumRec /\ PinsMade
         /\ enum[e].left \in Nat /\ enum[e].pos \in Nat /\ enum[e].count \in Nat /\ enum[e].ver \in Nat
         /\ enum[e].batch \in SUBSET (Addr \X Nat) /\ enum[e].cache \in SUBSET Addr
         /\ enum[e].got \in SUBSET (Addr \X Nat) /\ enum[e].excused \in SUBSET (Addr \X Nat)
         /\ pins \in Seq(Addr) /\ made \in [Addr -> Nat] /\ Len(pins) \in Nat
<1>1. EnumOK(enum[e]) BY DEF EnumInv, E!Dead
<1>2. enum[e] \in EnumRec BY <1>1 DEF EnumOK
<1>3. PinsMade BY DEF EnumInv
<1>4. /\ enum[e].left \in Nat /\ enum[e].pos \in Nat /\ enum[e].count \in Nat /\ enum[e].ver \in Nat
      /\ enum[e].batch \in SUBSET (Addr \X Nat) /\ enum[e].cache \in SUBSET Addr
      /\ enum[e].got \in SUBSET (Addr \X Nat) /\ enum[e].excused \in SUBSET (Addr \X Nat)
  BY <1>2, Zenon DEF EnumRec
<1>5. pins \in Seq(Addr) /\ made \in [Addr -> Nat] BY <1>3, Zenon DEF PinsMade
<1>6. Len(pins) \in Nat BY <1>5
<1> QED BY <1>1, <1>2, <1>3, <1>4, <1>5, <1>6, Zenon

LEMMA CloneStep == ASSUME EnumInv, NEW e \in Enums, NEW f \in Enums, E!Clone(e, f) PROVE EnumInv'
<1>1. /\ e # f /\ enum[e].live /\ enum' = [enum EXCEPT ![f] = enum[e], ![e] = E!Dead]
      /\ UNCHANGED <<pins, made, m_PinVersion, changed>>
  BY DEF E!Clone, E!Free, E!filterVars
<1>2. /\ DOMAIN enum' = Enums /\ enum'[f] = enum[e] /\ enum'[e] = E!Dead
      /\ \A d \in Enums : d # e /\ d # f => enum'[d] = enum[d]
  BY <1>1 DEF EnumInv
<1>3. \A s : EnumOK(s)' <=> EnumOK(s) BY <1>1, EnumAlike
<1>4. PinsMade' /\ changed' \in BOOLEAN BY <1>1 DEF EnumInv, PinsMade
<1>5. ASSUME NEW d \in Enums PROVE enum'[d] = E!Dead \/ EnumOK(enum'[d])
  BY <1>2 DEF EnumInv
<1> QED BY <1>2, <1>3, <1>4, <1>5 DEF EnumInv

LEMMA GetPinCountStep == ASSUME EnumInv, NEW e \in Enums, E!GetPinCount(e) PROVE EnumInv'
<1>1. PICK r : r = enum[e] OBVIOUS
<1>2. PICK n, place : n = Len(pins) /\ place = IF r.left > 0 THEN "walk" ELSE "idle" OBVIOUS
<1>3. PICK x : x = [r EXCEPT !.count = n, !.at = place] OBVIOUS
<1>4. r.live /\ r.at = "count" /\ E!Set(e, x) BY <1>1, <1>2, <1>3 DEF E!GetPinCount
<1>5. EnumOK(r) /\ r \in EnumRec /\ r.left \in Nat /\ n \in Nat BY <1>1, <1>2, <1>4, EnumLive
<1>6. x \in EnumRec
  <2>1. place \in {"idle", "count", "walk"} BY <1>2
  <2> QED BY <1>3, <1>5, <2>1, Zenon DEF EnumRec
<1>7. /\ x.at = place /\ x.left = r.left /\ x.batch = r.batch /\ x.pos = r.pos /\ x.count = n /\ x.ver = r.ver
      /\ x.cache = r.cache /\ x.got = r.got /\ x.excused = r.excused
  BY <1>3, <1>5 DEF EnumRec
<1>8. x.twice = r.twice /\ x.atEnd = r.atEnd BY <1>3, <1>5, Zenon DEF EnumRec
<1>9. r.pos = 0 /\ r.batch = {} /\ (r.left = 0 => ~r.atEnd) BY <1>4, <1>5 DEF EnumOK, CallOK
<1>10. CacheOK(x) BY <1>5, <1>7, <1>8 DEF EnumOK, CacheOK
<1>11. CallOK(x) BY <1>2, <1>7, <1>9 DEF CallOK
<1>12. WalkOK(x)
  <2>1. \A k \in 1..Len(pins) : ~(k <= x.pos) BY <1>2, <1>5, <1>7, <1>9
  <2> QED BY <1>2, <1>7, <2>1 DEF WalkOK
<1>13. EndOK(x) BY <1>2, <1>5, <1>7, <1>8, <1>9 DEF EndOK
<1>14. x.ver <= m_PinVersion BY <1>5, <1>7 DEF EnumOK
<1> QED BY <1>4, <1>6, <1>10, <1>11, <1>12, <1>13, <1>14, EnumSet DEF EnumOK

LEMMA NextPinsStep == ASSUME EnumInv, NEW e \in Enums, NEW n \in 1..2, E!NextPins(e, n) PROVE EnumInv'
<1>1. PICK r : r = enum[e] OBVIOUS
<1>2. PICK s : s = [r EXCEPT !.left = n] OBVIOUS
<1>3. PICK x : x = IF E!InStep(e) THEN [s EXCEPT !.at = "walk"] ELSE E!Refresh(s) OBVIOUS
<1>4. r.live /\ r.at = "idle" /\ E!Set(e, x) BY <1>1, <1>2, <1>3 DEF E!NextPins, E!Free
<1>5. EnumOK(r) /\ r \in EnumRec /\ r.left \in Nat /\ n \in Nat /\ n # 0 /\ r.ver \in Nat
  BY <1>1, <1>4, EnumLive
<1>6. s \in EnumRec BY <1>2, <1>5, Zenon DEF EnumRec
<1>7. /\ s.at = r.at /\ s.left = n /\ s.batch = r.batch /\ s.pos = r.pos /\ s.count = r.count /\ s.ver = r.ver
      /\ s.cache = r.cache /\ s.got = r.got /\ s.excused = r.excused
  BY <1>2, <1>5 DEF EnumRec
<1>8. s.twice = r.twice BY <1>2, <1>5, Zenon DEF EnumRec
<1>9. m_PinVersion \in Nat /\ 0 \in Nat BY DEF EnumInv, PinsMade
<1>10. r.batch = {} BY <1>4, <1>5 DEF EnumOK, CallOK
<1>11. CASE E!InStep(e)
  <2>1. x = [s EXCEPT !.at = "walk"] BY <1>3, <1>11
  <2>2. x \in EnumRec BY <2>1, <1>6, Zenon DEF EnumRec
  <2>3. /\ x.at = "walk" /\ x.batch = r.batch /\ x.pos = r.pos /\ x.count = r.count /\ x.ver = r.ver
        /\ x.cache = r.cache /\ x.got = r.got /\ x.excused = r.excused
    BY <2>1, <1>6, <1>7 DEF EnumRec
  <2>4. x.twice = r.twice BY <2>1, <1>6, <1>8, Zenon DEF EnumRec
  <2>5. CacheOK(x) BY <1>5, <2>3, <2>4 DEF EnumOK, CacheOK
  <2>6. WalkOK(x) BY <1>4, <1>5, <2>3 DEF EnumOK, WalkOK, Current
  <2>7. x.ver <= m_PinVersion BY <1>5, <2>3 DEF EnumOK
  <2>8. CallOK(x) /\ EndOK(x) BY <2>3 DEF CallOK, EndOK
  <2> QED BY <1>4, <2>2, <2>5, <2>6, <2>7, <2>8, EnumSet DEF EnumOK
<1>12. CASE ~E!InStep(e)
  <2>1. x = [s EXCEPT !.pos = 0, !.ver = m_PinVersion, !.at = "count"] BY <1>3, <1>12 DEF E!Refresh
  <2>2. x \in EnumRec BY <2>1, <1>6, <1>9, Zenon DEF EnumRec
  <2>3. /\ x.at = "count" /\ x.left = n /\ x.batch = r.batch /\ x.pos = 0 /\ x.ver = m_PinVersion
        /\ x.cache = r.cache /\ x.got = r.got /\ x.excused = r.excused
    BY <2>1, <1>6, <1>7 DEF EnumRec
  <2>4. x.twice = r.twice BY <2>1, <1>6, <1>8, Zenon DEF EnumRec
  <2>5. CacheOK(x) BY <1>5, <2>3, <2>4 DEF EnumOK, CacheOK
  <2>6. WalkOK(x) /\ EndOK(x) BY <2>3 DEF WalkOK, EndOK
  <2>7. x.ver <= m_PinVersion BY <1>9, <2>3
  <2>8. CallOK(x) BY <1>5, <1>10, <2>3 DEF CallOK
  <2> QED BY <1>4, <2>2, <2>5, <2>6, <2>7, <2>8, EnumSet DEF EnumOK
<1> QED BY <1>11, <1>12

LEMMA NextReturnsStep == ASSUME EnumInv, NEW e \in Enums, E!NextReturns(e) PROVE EnumInv'
<1>1. PICK r : r = enum[e] OBVIOUS
<1>2. PICK all, ended : all = r.got \cup r.batch /\ ended = (r.left > 0) OBVIOUS
<1>3. PICK x : x = [r EXCEPT !.left = 0, !.at = "idle", !.batch = {}, !.got = all, !.atEnd = ended] OBVIOUS
<1>4. r.live /\ r.at = "walk" /\ (r.left = 0 \/ r.pos >= r.count) BY <1>1 DEF E!NextReturns
<1>5. /\ EnumOK(r) /\ r \in EnumRec /\ r.left \in Nat /\ r.pos \in Nat /\ r.count \in Nat
      /\ r.got \in SUBSET (Addr \X Nat) /\ r.batch \in SUBSET (Addr \X Nat) /\ Len(pins) \in Nat
  BY <1>1, <1>4, EnumLive
<1>6. E!Set(e, x)
  <2>1. x = [r EXCEPT !.left = 0, !.at = "idle", !.batch = {}, !.got = @ \cup r.batch, !.atEnd = r.left > 0]
    BY <1>2, <1>3, <1>5, Zenon DEF EnumRec
  <2> QED BY <1>1, <2>1, Zenon DEF E!NextReturns
<1>7. x \in EnumRec
  <2>1. all \in SUBSET (Addr \X Nat) /\ 0 \in Nat /\ {} \in SUBSET (Addr \X Nat) BY <1>2, <1>5
  <2>2. (r.left > 0) \in BOOLEAN BY <1>5, SMT
  <2>3. ended \in BOOLEAN BY <1>2, <2>2, Zenon
  <2> QED BY <1>3, <1>5, <2>1, <2>3, Zenon DEF EnumRec
<1>8. /\ x.at = "idle" /\ x.batch = {} /\ x.pos = r.pos /\ x.count = r.count /\ x.ver = r.ver
      /\ x.cache = r.cache /\ x.got = all /\ x.excused = r.excused
  BY <1>3, <1>5 DEF EnumRec
<1>9. x.twice = r.twice BY <1>3, <1>5, Zenon DEF EnumRec
<1>10. x.atEnd = ended BY <1>3, <1>5, Zenon DEF EnumRec
<1>11. CacheOK(x) BY <1>2, <1>5, <1>8, <1>9 DEF EnumOK, CacheOK
<1>12. WalkOK(x) BY <1>4, <1>5, <1>8 DEF EnumOK, WalkOK, Current
<1>13. EndOK(x)
  <2>1. ASSUME Current(x), x.atEnd PROVE x.pos >= Len(pins)
    <3>1. r.left > 0 BY <1>2, <1>10, <2>1, Zenon
    <3>3. r.pos >= r.count BY <1>4, <1>5, <3>1
    <3>2. r.count = Len(pins) BY <1>8, <1>12, <2>1 DEF WalkOK
    <3> QED BY <1>8, <3>2, <3>3
  <2> QED BY <2>1 DEF EndOK
<1>14. CallOK(x) /\ x.ver <= m_PinVersion BY <1>5, <1>8 DEF EnumOK, CallOK
<1> QED BY <1>6, <1>7, <1>11, <1>12, <1>13, <1>14, EnumSet DEF EnumOK

LEMMA GetPinStep == ASSUME EnumInv, NEW e \in Enums, E!GetPin(e) PROVE EnumInv'
<1>1. PICK r : r = enum[e] OBVIOUS
<1>2. PICK a, p, m : a = pins[r.pos + 1] /\ p = r.pos + 1 /\ m = r.left - 1 OBVIOUS
<1>3. r.live /\ r.at = "walk" /\ r.left > 0 /\ r.pos < r.count BY <1>1 DEF E!GetPin
<1>4. /\ EnumOK(r) /\ r \in EnumRec /\ r.left \in Nat /\ r.pos \in Nat /\ r.count \in Nat
      /\ r.got \in SUBSET (Addr \X Nat) /\ r.batch \in SUBSET (Addr \X Nat) /\ r.excused \in SUBSET (Addr \X Nat)
      /\ r.cache \in SUBSET Addr /\ pins \in Seq(Addr) /\ made \in [Addr -> Nat] /\ Len(pins) \in Nat /\ PinsMade
  BY <1>1, <1>3, EnumLive
<1>5. p \in Nat /\ m \in Nat BY <1>2, <1>3, <1>4
<1>6. CacheOK(r) /\ WalkOK(r) /\ r.ver <= m_PinVersion BY <1>4 DEF EnumOK
<1>7. ASSUME r.pos < Len(pins) PROVE a \in Addr /\ made[a] \in Nat /\ made[a] >= 1 /\ pins[p] = a
  <2>1. p \in 1..Len(pins) BY <1>2, <1>4, <1>7
  <2> QED BY <1>2, <1>4, <2>1 DEF PinsMade
<1>8. CASE r.pos < Len(pins) /\ a \in r.cache /\ E!Set(e, [r EXCEPT !.pos = @ + 1])
  <2>1. PICK x : x = [r EXCEPT !.pos = p] OBVIOUS
  <2>2. E!Set(e, x)
    <3>1. x = [r EXCEPT !.pos = @ + 1] BY <1>2, <2>1
    <3> QED BY <1>8, <3>1, Zenon
  <2>3. x \in EnumRec BY <1>4, <1>5, <2>1, Zenon DEF EnumRec
  <2>4. /\ x.at = "walk" /\ x.batch = r.batch /\ x.pos = p /\ x.count = r.count /\ x.ver = r.ver
        /\ x.cache = r.cache /\ x.got = r.got /\ x.excused = r.excused
    BY <1>3, <1>4, <2>1 DEF EnumRec
  <2>5. x.twice = r.twice BY <1>4, <2>1, Zenon DEF EnumRec
  <2>6. CacheOK(x) BY <1>6, <2>4, <2>5 DEF CacheOK
  <2>7. WalkOK(x)
    <3>1. SUFFICES ASSUME Current(x)
                   PROVE  /\ x.count = Len(pins)
                          /\ \A k \in 1..Len(pins) : k <= x.pos => pins[k] \in x.cache \/ E!Pin(pins[k]) \in x.excused
      BY DEF WalkOK
    <3>2. /\ r.count = Len(pins)
          /\ \A k \in 1..Len(pins) : k <= r.pos => pins[k] \in r.cache \/ E!Pin(pins[k]) \in r.excused
      BY <1>3, <1>6, <2>4, <3>1 DEF WalkOK, Current
    <3>3. ASSUME NEW k \in 1..Len(pins), k <= p PROVE pins[k] \in x.cache \/ E!Pin(pins[k]) \in x.excused
      <4>1. CASE k = p BY <1>7, <1>8, <2>4, <4>1
      <4>2. CASE k # p
        <5>1. k <= r.pos BY <1>2, <1>4, <3>3, <4>2
        <5> QED BY <2>4, <3>2, <5>1
      <4> QED BY <4>1, <4>2
    <3> QED BY <2>4, <3>2, <3>3
  <2>8. CallOK(x) /\ EndOK(x) /\ x.ver <= m_PinVersion BY <1>6, <2>4 DEF CallOK, EndOK
  <2> QED BY <2>2, <2>3, <2>6, <2>7, <2>8, EnumSet DEF EnumOK
<1>9. CASE /\ r.pos < Len(pins) /\ a \notin r.cache
           /\ E!Set(e, [r EXCEPT !.pos = @ + 1, !.left = @ - 1,
                                 !.cache = @ \cup {a}, !.batch = @ \cup {E!Pin(a)},
                                 !.twice = @ \/ E!Pin(a) \in r.got \cup r.batch])
  <2>0. PICK c, b, t : /\ c = r.cache \cup {a} /\ b = r.batch \cup {E!Pin(a)}
                       /\ t = (r.twice \/ E!Pin(a) \in r.got \cup r.batch)
    OBVIOUS
  <2>1. PICK x : x = [r EXCEPT !.pos = p, !.left = m, !.cache = c, !.batch = b, !.twice = t] OBVIOUS
  <2>2. E!Set(e, x)
    <3>1. x = [r EXCEPT !.pos = @ + 1, !.left = @ - 1, !.cache = @ \cup {a}, !.batch = @ \cup {E!Pin(a)},
                        !.twice = @ \/ E!Pin(a) \in r.got \cup r.batch]
      BY <1>2, <1>4, <2>0, <2>1, Zenon DEF EnumRec
    <3> QED BY <1>9, <3>1, Zenon
  <2>3. E!Pin(a) = <<a, made[a]>> /\ E!Pin(a) \in Addr \X Nat BY <1>4, <1>7, <1>9 DEF E!Pin
  <2>4. x \in EnumRec
    <3>1. c \in SUBSET Addr /\ b \in SUBSET (Addr \X Nat) BY <1>4, <1>7, <1>9, <2>0, <2>3
    <3>2. t \in BOOLEAN BY <1>4, <2>0, Zenon DEF EnumRec
    <3> QED BY <1>4, <1>5, <2>1, <3>1, <3>2, Zenon DEF EnumRec
  <2>5. /\ x.at = "walk" /\ x.batch = b /\ x.pos = p /\ x.count = r.count /\ x.ver = r.ver
        /\ x.cache = c /\ x.got = r.got /\ x.excused = r.excused
    BY <1>3, <1>4, <2>1 DEF EnumRec
  <2>6. x.twice = t BY <1>4, <2>1, Zenon DEF EnumRec
  <2>7. ~x.twice
    <3>1. E!Pin(a) \notin r.got \cup r.batch BY <1>6, <1>9, <2>3 DEF CacheOK
    <3>2. ~r.twice BY <1>6 DEF CacheOK
    <3> QED BY <2>0, <2>6, <3>1, <3>2, Zenon
  <2>8. \A q \in x.got \cup x.batch : q[1] \in x.cache BY <1>6, <2>0, <2>3, <2>5 DEF CacheOK
  <2>9. ASSUME NEW y \in x.cache PROVE \E i \in 1..made[y] : <<y, i>> \in x.got \cup x.batch \cup x.excused
    <3>1. CASE y \in r.cache
      <4>1. PICK i \in 1..made[y] : <<y, i>> \in r.got \cup r.batch \cup r.excused BY <1>6, <3>1 DEF CacheOK
      <4> QED BY <2>0, <2>5, <4>1
    <3>2. CASE y = a
      <4>1. <<y, made[y]>> \in x.batch BY <2>0, <2>3, <2>5, <3>2
      <4>2. made[y] \in 1..made[y] BY <1>7, <1>9, <3>2
      <4> QED BY <4>1, <4>2
    <3> QED BY <2>0, <2>5, <3>1, <3>2
  <2>10. CacheOK(x) BY <2>7, <2>8, <2>9 DEF CacheOK
  <2>11. WalkOK(x)
    <3>1. SUFFICES ASSUME Current(x)
                   PROVE  /\ x.count = Len(pins)
                          /\ \A k \in 1..Len(pins) : k <= x.pos => pins[k] \in x.cache \/ E!Pin(pins[k]) \in x.excused
      BY DEF WalkOK
    <3>2. /\ r.count = Len(pins)
          /\ \A k \in 1..Len(pins) : k <= r.pos => pins[k] \in r.cache \/ E!Pin(pins[k]) \in r.excused
      BY <1>3, <1>6, <2>5, <3>1 DEF WalkOK, Current
    <3>3. ASSUME NEW k \in 1..Len(pins), k <= p PROVE pins[k] \in x.cache \/ E!Pin(pins[k]) \in x.excused
      <4>1. CASE k = p BY <1>7, <1>9, <2>0, <2>5, <4>1
      <4>2. CASE k # p
        <5>1. k <= r.pos BY <1>2, <1>4, <3>3, <4>2
        <5> QED BY <2>0, <2>5, <3>2, <5>1
      <4> QED BY <4>1, <4>2
    <3> QED BY <2>5, <3>2, <3>3
  <2>12. CallOK(x) /\ EndOK(x) /\ x.ver <= m_PinVersion BY <1>6, <2>5 DEF CallOK, EndOK
  <2> QED BY <2>2, <2>4, <2>10, <2>11, <2>12, EnumSet DEF EnumOK
<1>10. CASE /\ r.pos >= Len(pins)
            /\ E!Set(e, [r EXCEPT !.pos = @ + 1, !.left = 0, !.at = "idle",
                                  !.batch = {}, !.excused = @ \cup r.batch, !.atEnd = FALSE])
  <2>0. PICK o : o = r.excused \cup r.batch OBVIOUS
  <2>1. PICK x : x = [r EXCEPT !.pos = p, !.left = 0, !.at = "idle", !.batch = {}, !.excused = o, !.atEnd = FALSE]
    OBVIOUS
  <2>2. E!Set(e, x)
    <3>1. x = [r EXCEPT !.pos = @ + 1, !.left = 0, !.at = "idle",
                        !.batch = {}, !.excused = @ \cup r.batch, !.atEnd = FALSE]
      BY <1>2, <1>4, <2>0, <2>1, Zenon DEF EnumRec
    <3> QED BY <1>10, <3>1, Zenon
  <2>3. x \in EnumRec
    <3>1. o \in SUBSET (Addr \X Nat) /\ 0 \in Nat /\ {} \in SUBSET (Addr \X Nat) BY <1>4, <2>0
    <3> QED BY <1>4, <1>5, <2>1, <3>1, Zenon DEF EnumRec
  <2>4. /\ x.at = "idle" /\ x.batch = {} /\ x.pos = p /\ x.count = r.count /\ x.ver = r.ver
        /\ x.cache = r.cache /\ x.got = r.got /\ x.excused = o
    BY <1>4, <2>1 DEF EnumRec
  <2>5. x.twice = r.twice /\ ~x.atEnd BY <1>4, <2>1, Zenon DEF EnumRec
  <2>6. CacheOK(x) BY <1>6, <2>0, <2>4, <2>5 DEF CacheOK
  <2>7. ~Current(x) BY <1>3, <1>4, <1>6, <1>10, <2>4 DEF WalkOK, Current
  <2>8. x.ver <= m_PinVersion BY <1>6, <2>4
  <2> QED BY <2>2, <2>3, <2>4, <2>6, <2>7, <2>8, EnumSet DEF EnumOK, WalkOK, EndOK, CallOK
<1>11. /\ r = enum[e] /\ a = pins[r.pos + 1] BY <1>1, <1>2
<1> QED BY <1>8, <1>9, <1>10, <1>11, Zenon DEF E!GetPin

LEMMA SkipStep == ASSUME EnumInv, NEW e \in Enums, NEW n \in 1..2, E!Skip(e, n) PROVE EnumInv'
<1>1. PICK r : r = enum[e] OBVIOUS
<1>2. PICK over : over = {E!Pin(pins[k + 1]) : k \in {j \in r.pos..(r.pos + n - 1) : j < Len(pins)}} OBVIOUS
<1>3. PICK p, o : p = r.pos + n /\ o = r.excused \cup over OBVIOUS
<1>4. PICK x : x = [r EXCEPT !.pos = p, !.excused = o, !.atEnd = FALSE] OBVIOUS
<1>5. r.live /\ r.at = "idle" BY <1>1 DEF E!Skip, E!Free
<1>6. /\ EnumOK(r) /\ r \in EnumRec /\ r.pos \in Nat /\ r.excused \in SUBSET (Addr \X Nat)
      /\ pins \in Seq(Addr) /\ made \in [Addr -> Nat] /\ Len(pins) \in Nat
  BY <1>1, <1>5, EnumLive
<1>7. E!Set(e, x)
  <2>1. x = [r EXCEPT !.pos = @ + n, !.excused = @ \cup over, !.atEnd = FALSE]
    BY <1>3, <1>4, <1>6, Zenon DEF EnumRec
  <2> QED BY <1>1, <1>2, <2>1, Zenon DEF E!Skip
<1>8. over \subseteq Addr \X Nat
  <2>1. ASSUME NEW k \in r.pos..(r.pos + n - 1), k < Len(pins) PROVE E!Pin(pins[k + 1]) \in Addr \X Nat
    <3>1. k + 1 \in 1..Len(pins) BY <1>6, <2>1
    <3>2. pins[k + 1] \in Addr BY <1>6, <3>1
    <3> QED BY <1>6, <3>2 DEF E!Pin
  <2> QED BY <1>2, <2>1
<1>9. x \in EnumRec
  <2>1. p \in Nat BY <1>3, <1>6
  <2>2. o \in SUBSET (Addr \X Nat) BY <1>3, <1>6, <1>8
  <2> QED BY <1>4, <1>6, <2>1, <2>2, Zenon DEF EnumRec
<1>10. /\ x.at = r.at /\ x.batch = r.batch /\ x.pos = p /\ x.count = r.count /\ x.ver = r.ver
       /\ x.cache = r.cache /\ x.got = r.got /\ x.excused = o
  BY <1>4, <1>6 DEF EnumRec
<1>11. x.twice = r.twice /\ ~x.atEnd BY <1>4, <1>6, Zenon DEF EnumRec
<1>12. CacheOK(x) BY <1>3, <1>6, <1>10, <1>11 DEF EnumOK, CacheOK
<1>13. WalkOK(x)
  <2>1. SUFFICES ASSUME Current(x)
                 PROVE  /\ x.count = Len(pins)
                        /\ \A k \in 1..Len(pins) : k <= x.pos => pins[k] \in x.cache \/ E!Pin(pins[k]) \in x.excused
    BY DEF WalkOK
  <2>2. /\ r.count = Len(pins)
        /\ \A k \in 1..Len(pins) : k <= r.pos => pins[k] \in r.cache \/ E!Pin(pins[k]) \in r.excused
    BY <1>5, <1>6, <1>10, <2>1 DEF EnumOK, WalkOK, Current
  <2>3. ASSUME NEW k \in 1..Len(pins), k <= p PROVE pins[k] \in x.cache \/ E!Pin(pins[k]) \in x.excused
    <3>1. CASE k <= r.pos BY <1>3, <1>10, <2>2, <3>1
    <3>2. CASE ~(k <= r.pos)
      <4>1. k - 1 \in r.pos..(r.pos + n - 1) /\ k - 1 < Len(pins) BY <1>3, <1>6, <2>3, <3>2
      <4>2. k - 1 + 1 = k OBVIOUS
      <4>3. E!Pin(pins[k]) \in over BY <1>2, <4>1, <4>2
      <4> QED BY <1>3, <1>10, <4>3
    <3> QED BY <3>1, <3>2
  <2> QED BY <1>10, <2>2, <2>3
<1>14. EndOK(x) BY <1>11 DEF EndOK
<1>15. CallOK(x) /\ x.ver <= m_PinVersion BY <1>5, <1>6, <1>10 DEF EnumOK, CallOK
<1> QED BY <1>7, <1>9, <1>12, <1>13, <1>14, <1>15, EnumSet DEF EnumOK

LEMMA PinEnumKept == EnumInv /\ UNCHANGED pinEnumVars => EnumInv'
<1> SUFFICES ASSUME EnumInv, UNCHANGED pinEnumVars PROVE EnumInv'
  OBVIOUS
<1>1. UNCHANGED <<pins, made, m_PinVersion, changed, enum>> BY DEF pinEnumVars
<1>2. PinsMade' /\ changed' \in BOOLEAN BY <1>1 DEF EnumInv, PinsMade
<1>3. \A s : EnumOK(s)' <=> EnumOK(s) BY <1>1, EnumAlike
<1> QED BY <1>1, <1>2, <1>3 DEF EnumInv

LEMMA PinEnumStep == EnumInv /\ E!PinEnumNext => EnumInv'
<1> SUFFICES ASSUME EnumInv, E!PinEnumNext PROVE EnumInv'
  OBVIOUS
<1>1. CASE E!IncrementPinVersion BY <1>1, IncrementPinVersionStep
<1>2. CASE \E a \in Addr : E!AddPin(a) BY <1>2, AddPinStep
<1>3. CASE \E k \in 1..E!Cardinality(Addr) : E!RemovePin(k) BY <1>3, RemovePinStep
<1>4. ASSUME NEW e \in Enums, E!EnumPins(e) \/ E!Reset(e) PROVE EnumInv'
  <2>1. PICK r : r = E!NewEnum OBVIOUS
  <2>2. E!Set(e, r) BY <1>4, <2>1 DEF E!EnumPins, E!Reset
  <2>3. EnumOK(r) BY <2>1, NewEnumOK DEF EnumInv
  <2> QED BY <2>2, <2>3, EnumSet
<1>5. ASSUME NEW e \in Enums, E!Release(e) PROVE EnumInv'
  BY <1>5, EnumSet DEF E!Release
<1>6. ASSUME NEW e \in Enums, NEW n \in 1..2, E!NextPins(e, n) \/ E!Skip(e, n) PROVE EnumInv'
  BY <1>6, NextPinsStep, SkipStep
<1>7. ASSUME NEW e \in Enums, NEW f \in Enums, E!Clone(e, f) PROVE EnumInv'
  BY <1>7, CloneStep
<1>8. ASSUME NEW e \in Enums, E!GetPinCount(e) \/ E!GetPin(e) \/ E!NextReturns(e) PROVE EnumInv'
  BY <1>8, GetPinCountStep, GetPinStep, NextReturnsStep
<1> QED BY <1>1, <1>2, <1>3, <1>4, <1>5, <1>6, <1>7, <1>8, Zenon DEF E!PinEnumNext

LEMMA PinEnumHolds == EnumInv => E!NoPinTwice /\ E!EndMeansAll
<1> SUFFICES ASSUME EnumInv PROVE E!NoPinTwice /\ E!EndMeansAll
  OBVIOUS
<1>1. ASSUME NEW e \in Enums, enum[e].live PROVE EnumOK(enum[e])
  BY <1>1 DEF EnumInv, E!Dead
<1>2. E!NoPinTwice BY <1>1 DEF E!NoPinTwice, EnumOK, CacheOK
<1>3. ASSUME NEW e \in Enums, enum[e].live, enum[e].atEnd, enum[e].at = "idle", E!InStep(e), ~changed,
             NEW q \in E!Present
      PROVE  \/ q \in enum[e].got \cup enum[e].excused
             \/ \E i \in 1..(q[2] - 1) : <<q[1], i>> \in enum[e].got \cup enum[e].excused
  <2>1. PICK r : r = enum[e] OBVIOUS
  <2>2. /\ r \in EnumRec /\ CacheOK(r) /\ CallOK(r) /\ WalkOK(r) /\ Current(r) /\ r.at = "idle"
        /\ r.pos >= Len(pins)
    BY <1>1, <1>3, <2>1 DEF EnumOK, EndOK, Current, E!InStep
  <2>3. pins \in Seq(Addr) /\ made \in [Addr -> Nat] /\ Len(pins) \in Nat BY DEF EnumInv, PinsMade
  <2>4. PICK k \in 1..Len(pins) : q = E!Pin(pins[k]) BY <2>3 DEF E!Present
  <2>5. q = <<pins[k], made[pins[k]]>> /\ pins[k] \in Addr BY <2>3, <2>4 DEF E!Pin
  <2>6. r.pos \in Nat /\ r.batch = {} BY <2>2 DEF EnumRec, CallOK
  <2>7. k <= r.pos BY <2>2, <2>3, <2>6
  <2>8. pins[k] \in r.cache \/ q \in r.excused BY <2>2, <2>4, <2>7 DEF WalkOK
  <2>9. CASE pins[k] \in r.cache
    <3>1. PICK i \in 1..made[pins[k]] : <<pins[k], i>> \in r.got \cup r.excused BY <2>2, <2>6, <2>9 DEF CacheOK
    <3>2. made[pins[k]] \in Nat BY <2>3, <2>5
    <3>3. CASE i = made[pins[k]] BY <2>1, <2>5, <3>1, <3>3
    <3>4. CASE i # made[pins[k]]
      <4>1. i \in 1..(q[2] - 1) BY <2>5, <3>2, <3>4
      <4> QED BY <2>1, <2>5, <3>1, <4>1
    <3> QED BY <3>3, <3>4
  <2> QED BY <2>1, <2>8, <2>9
<1> QED BY <1>2, <1>3 DEF E!EndMeansAll

-----------------------------------------------------------------------------
(* CEnumMediaTypes.                                                        *)

LEMMA TypeEnumKept == TypeEnumInv /\ UNCHANGED typeEnumVars => TypeEnumInv'
BY DEF TypeEnumInv, typeEnumVars, TypesEnumOK, Upto

\* The types before a position that has moved.
LEMMA UptoMoved ==
  ASSUME types \in Nat, NEW p \in Nat
  PROVE  /\ p < types => Upto(p + 1) = Upto(p) \cup {<<listed, p>>}
         /\ p >= types => Upto(p + 1) = Upto(p)
         /\ \A n \in 1..2 : Upto(p + n) = Upto(p) \cup {<<listed, k>> : k \in {j \in p..(p + n - 1) : j < types}}
<1>1. ASSUME p < types PROVE Upto(p + 1) = Upto(p) \cup {<<listed, p>>}
  <2>1. {j \in 0..(p + 1 - 1) : j < types} = {j \in 0..(p - 1) : j < types} \cup {p} BY <1>1
  <2> QED BY <2>1 DEF Upto
<1>2. ASSUME p >= types PROVE Upto(p + 1) = Upto(p)
  <2>2. PICK q : q = p + 1 OBVIOUS
  <2>3. PICK A : A = {j \in 0..(q - 1) : j < types} OBVIOUS
  <2>4. PICK B : B = {j \in 0..(p - 1) : j < types} OBVIOUS
  <2>5. A = B BY <1>2, <2>2, <2>3, <2>4
  <2>6. Upto(q) = {<<listed, k>> : k \in A} BY <2>3, Zenon DEF Upto
  <2>7. Upto(p) = {<<listed, k>> : k \in B} BY <2>4, Zenon DEF Upto
  <2> QED BY <2>2, <2>5, <2>6, <2>7, Zenon
<1>3. ASSUME NEW n \in 1..2
      PROVE  Upto(p + n) = Upto(p) \cup {<<listed, k>> : k \in {j \in p..(p + n - 1) : j < types}}
  <2>1. {j \in 0..(p + n - 1) : j < types} = {j \in 0..(p - 1) : j < types} \cup {j \in p..(p + n - 1) : j < types}
    OBVIOUS
  <2> QED BY <2>1 DEF Upto
<1> QED BY <1>1, <1>2, <1>3

LEMMA TypesSet ==
  ASSUME TypeEnumInv, NEW e \in Enums, NEW r, r = E!Dead \/ TypesEnumOK(r), E!SetTypes(e, r)
  PROVE  TypeEnumInv'
<1>1. tenum' = [tenum EXCEPT ![e] = r] /\ UNCHANGED <<types, listed, m_TypeVersion>> BY DEF E!SetTypes, E!pinVars
<1>2. DOMAIN tenum' = Enums /\ tenum'[e] = r /\ \A f \in Enums : f # e => tenum'[f] = tenum[f]
  BY <1>1 DEF TypeEnumInv
<1>3. \A s : TypesEnumOK(s)' <=> TypesEnumOK(s) BY <1>1 DEF TypesEnumOK, Upto
<1>4. ASSUME NEW f \in Enums PROVE tenum'[f] = E!Dead \/ TypesEnumOK(tenum'[f])
  BY <1>2 DEF TypeEnumInv
<1> QED BY <1>1, <1>2, <1>3, <1>4 DEF TypeEnumInv

\* What every call finds.
LEMMA TypesLive ==
  ASSUME TypeEnumInv, NEW e \in Enums, tenum[e].live
  PROVE  /\ TypesEnumOK(tenum[e]) /\ tenum[e] \in TypesRec
         /\ tenum[e].left \in Nat /\ tenum[e].pos \in Nat /\ tenum[e].ver \in Nat
         /\ tenum[e].got \in SUBSET (Nat \X Nat) /\ tenum[e].excused \in SUBSET (Nat \X Nat)
         /\ types \in Nat /\ listed \in Nat /\ m_TypeVersion \in Nat
<1>1. TypesEnumOK(tenum[e]) BY DEF TypeEnumInv, E!Dead
<1>2. tenum[e] \in TypesRec BY <1>1 DEF TypesEnumOK
<1> QED BY <1>1, <1>2 DEF TypesRec, TypeEnumInv

LEMMA NewTypesOK == ASSUME TypeEnumInv PROVE TypesEnumOK(E!NewTypes)
<1>1. m_TypeVersion \in Nat /\ 0 \in Nat BY DEF TypeEnumInv
<1>2. E!NewTypes \in TypesRec BY <1>1, Zenon DEF E!NewTypes, TypesRec
<1>3. E!NewTypes.ver = m_TypeVersion /\ E!NewTypes.got = {} /\ E!NewTypes.excused = {} /\ E!NewTypes.pos = 0
  BY DEF E!NewTypes
<1>4. Upto(0) = {}
  <2>1. {j \in 0..(0 - 1) : j < types} = {} OBVIOUS
  <2> QED BY <2>1 DEF Upto
<1> QED BY <1>1, <1>2, <1>3, <1>4 DEF TypesEnumOK

LEMMA GetMediaTypeStep == ASSUME TypeEnumInv, NEW e \in Enums, E!GetMediaType(e) PROVE TypeEnumInv'
<1>1. PICK r : r = tenum[e] OBVIOUS
<1>2. PICK t, p, m : t = <<listed, r.pos>> /\ p = r.pos + 1 /\ m = r.left - 1 OBVIOUS
<1>3. r.live /\ r.left > 0 BY <1>1 DEF E!GetMediaType
<1>4. /\ TypesEnumOK(r) /\ r \in TypesRec /\ r.left \in Nat /\ r.pos \in Nat /\ r.got \in SUBSET (Nat \X Nat)
      /\ r.excused \in SUBSET (Nat \X Nat) /\ types \in Nat /\ listed \in Nat
  BY <1>1, <1>3, TypesLive
<1>5. p \in Nat /\ m \in Nat /\ 0 \in Nat /\ t \in Nat \X Nat BY <1>2, <1>3, <1>4
<1>6. r.ver <= m_TypeVersion /\ (r.ver = listed => r.got \cup r.excused = Upto(r.pos)) BY <1>4 DEF TypesEnumOK
<1>7. CASE r.pos < types /\ E!SetTypes(e, [r EXCEPT !.pos = @ + 1, !.left = @ - 1, !.got = @ \cup {t}])
  <2>1. PICK g : g = r.got \cup {t} OBVIOUS
  <2>2. PICK x : x = [r EXCEPT !.pos = p, !.left = m, !.got = g] OBVIOUS
  <2>3. E!SetTypes(e, x)
    <3>1. x = [r EXCEPT !.pos = @ + 1, !.left = @ - 1, !.got = @ \cup {t}]
      BY <1>2, <1>4, <2>1, <2>2, Zenon DEF TypesRec
    <3> QED BY <1>7, <3>1, Zenon
  <2>4. x \in TypesRec
    <3>1. g \in SUBSET (Nat \X Nat) BY <1>4, <1>5, <2>1
    <3> QED BY <1>4, <1>5, <2>2, <3>1, Zenon DEF TypesRec
  <2>5. x.pos = p /\ x.ver = r.ver /\ x.got = g /\ x.excused = r.excused BY <1>4, <2>2 DEF TypesRec
  <2>6. Upto(p) = Upto(r.pos) \cup {t} BY <1>2, <1>4, <1>7, UptoMoved
  <2>7. x.ver = listed => x.got \cup x.excused = Upto(x.pos) BY <1>6, <2>1, <2>5, <2>6
  <2>8. x.ver <= m_TypeVersion BY <1>6, <2>5
  <2> QED BY <2>3, <2>4, <2>7, <2>8, TypesSet DEF TypesEnumOK
<1>8. CASE r.pos < types /\ E!SetTypes(e, [r EXCEPT !.pos = @ + 1, !.left = 0, !.excused = @ \cup {t}])
  <2>1. PICK o : o = r.excused \cup {t} OBVIOUS
  <2>2. PICK x : x = [r EXCEPT !.pos = p, !.left = 0, !.excused = o] OBVIOUS
  <2>3. E!SetTypes(e, x)
    <3>1. x = [r EXCEPT !.pos = @ + 1, !.left = 0, !.excused = @ \cup {t}]
      BY <1>2, <1>4, <2>1, <2>2, Zenon DEF TypesRec
    <3> QED BY <1>8, <3>1, Zenon
  <2>4. x \in TypesRec
    <3>1. o \in SUBSET (Nat \X Nat) BY <1>4, <1>5, <2>1
    <3> QED BY <1>4, <1>5, <2>2, <3>1, Zenon DEF TypesRec
  <2>5. x.pos = p /\ x.ver = r.ver /\ x.got = r.got /\ x.excused = o BY <1>4, <2>2 DEF TypesRec
  <2>6. Upto(p) = Upto(r.pos) \cup {t} BY <1>2, <1>4, <1>8, UptoMoved
  <2>7. x.ver = listed => x.got \cup x.excused = Upto(x.pos) BY <1>6, <2>1, <2>5, <2>6
  <2>8. x.ver <= m_TypeVersion BY <1>6, <2>5
  <2> QED BY <2>3, <2>4, <2>7, <2>8, TypesSet DEF TypesEnumOK
<1>9. CASE r.pos >= types /\ E!SetTypes(e, [r EXCEPT !.pos = @ + 1, !.left = 0])
  <2>2. PICK x : x = [r EXCEPT !.pos = p, !.left = 0] OBVIOUS
  <2>3. E!SetTypes(e, x)
    <3>1. x = [r EXCEPT !.pos = @ + 1, !.left = 0]
      BY <1>2, <1>4, <2>2, Zenon DEF TypesRec
    <3> QED BY <1>9, <3>1, Zenon
  <2>4. x \in TypesRec BY <1>4, <1>5, <2>2, Zenon DEF TypesRec
  <2>5. x.pos = p /\ x.ver = r.ver /\ x.got = r.got /\ x.excused = r.excused BY <1>4, <2>2 DEF TypesRec
  <2>6. Upto(p) = Upto(r.pos) BY <1>2, <1>4, <1>9, UptoMoved
  <2>7. x.ver = listed => x.got \cup x.excused = Upto(x.pos) BY <1>6, <2>5, <2>6
  <2>8. x.ver <= m_TypeVersion BY <1>6, <2>5
  <2> QED BY <2>3, <2>4, <2>7, <2>8, TypesSet DEF TypesEnumOK
<1>10. r = tenum[e] /\ t = <<listed, r.pos>> BY <1>1, <1>2
<1> QED BY <1>7, <1>8, <1>9, <1>10, Zenon DEF E!GetMediaType

LEMMA NextTypesStep == ASSUME TypeEnumInv, NEW e \in Enums, NEW n \in 1..2, E!NextTypes(e, n) PROVE TypeEnumInv'
<1>1. PICK r : r = tenum[e] OBVIOUS
<1>2. PICK x : x = [r EXCEPT !.left = n] OBVIOUS
<1>3. r.live /\ E!SetTypes(e, x) BY <1>1, <1>2 DEF E!NextTypes, E!TypesFree
<1>4. TypesEnumOK(r) /\ r \in TypesRec BY <1>1, <1>3, TypesLive
<1>5. x \in TypesRec
  <2>1. n \in Nat OBVIOUS
  <2> QED BY <1>2, <1>4, <2>1, Zenon DEF TypesRec
<1>6. x.pos = r.pos /\ x.ver = r.ver /\ x.got = r.got /\ x.excused = r.excused BY <1>2, <1>4 DEF TypesRec
<1> QED BY <1>3, <1>4, <1>5, <1>6, TypesSet DEF TypesEnumOK

LEMMA SkipTypesStep == ASSUME TypeEnumInv, NEW e \in Enums, NEW n \in 1..2, E!SkipTypes(e, n) PROVE TypeEnumInv'
<1>1. PICK r : r = tenum[e] OBVIOUS
<1>2. PICK over : over = {<<listed, k>> : k \in {j \in r.pos..(r.pos + n - 1) : j < types}} OBVIOUS
<1>3. PICK p, o : p = r.pos + n /\ o = r.excused \cup over OBVIOUS
<1>4. PICK x : x = [r EXCEPT !.pos = p, !.excused = o] OBVIOUS
<1>5. r.live BY <1>1 DEF E!SkipTypes, E!TypesFree
<1>6. /\ TypesEnumOK(r) /\ r \in TypesRec /\ r.pos \in Nat /\ r.excused \in SUBSET (Nat \X Nat)
      /\ types \in Nat /\ listed \in Nat
  BY <1>1, <1>5, TypesLive
<1>7. E!SetTypes(e, x)
  <2>1. x = [r EXCEPT !.pos = @ + n, !.excused = @ \cup over] BY <1>3, <1>4, <1>6, Zenon DEF TypesRec
  <2> QED BY <1>1, <1>2, <2>1, Zenon DEF E!SkipTypes
<1>8. x \in TypesRec
  <2>1. p \in Nat BY <1>3, <1>6
  <2>2. over \subseteq Nat \X Nat BY <1>2, <1>6
  <2>3. o \in SUBSET (Nat \X Nat) BY <1>3, <1>6, <2>2
  <2> QED BY <1>4, <1>6, <2>1, <2>3, Zenon DEF TypesRec
<1>9. x.pos = p /\ x.ver = r.ver /\ x.got = r.got /\ x.excused = o BY <1>4, <1>6 DEF TypesRec
<1>10. Upto(p) = Upto(r.pos) \cup over BY <1>2, <1>3, <1>6, UptoMoved
<1>11. x.ver = listed => x.got \cup x.excused = Upto(x.pos) BY <1>3, <1>6, <1>9, <1>10 DEF TypesEnumOK
<1>12. x.ver <= m_TypeVersion BY <1>6, <1>9 DEF TypesEnumOK
<1> QED BY <1>7, <1>8, <1>11, <1>12, TypesSet DEF TypesEnumOK

\* The types, or their version, move on under the enumerators.
LEMMA TypesStay ==
  ASSUME TypeEnumInv, UNCHANGED tenum, types' \in Nat, listed' \in Nat, m_TypeVersion' \in Nat,
         m_TypeVersion <= m_TypeVersion', m_TypeVersion' <= listed',
         UNCHANGED <<types, listed>> \/ listed < listed'
  PROVE  TypeEnumInv'
<1>1. ASSUME NEW e \in Enums, TypesEnumOK(tenum[e]) PROVE TypesEnumOK(tenum[e])'
  <2>1. PICK r : r = tenum[e] OBVIOUS
  <2>2. r \in TypesRec /\ r.ver <= m_TypeVersion /\ (r.ver = listed => r.got \cup r.excused = Upto(r.pos))
    BY <1>1, <2>1 DEF TypesEnumOK
  <2>3. r.ver \in Nat /\ m_TypeVersion \in Nat /\ listed \in Nat /\ m_TypeVersion <= listed
    BY <2>2 DEF TypesRec, TypeEnumInv
  <2>4. r.ver <= m_TypeVersion' BY <2>2, <2>3
  <2>5. CASE UNCHANGED <<types, listed>>
    <3>1. Upto(r.pos)' = Upto(r.pos) BY <2>1, <2>5 DEF Upto
    <3> QED BY <2>1, <2>2, <2>4, <2>5, <3>1 DEF TypesEnumOK
  <2>6. CASE listed < listed'
    <3>1. r.ver # listed' BY <2>2, <2>3, <2>6
    <3> QED BY <2>1, <2>2, <2>4, <3>1 DEF TypesEnumOK
  <2> QED BY <2>5, <2>6
<1>2. \A e \in Enums : tenum'[e] = E!Dead \/ TypesEnumOK(tenum[e])' BY <1>1 DEF TypeEnumInv
<1> QED BY <1>2 DEF TypeEnumInv

LEMMA TypeEnumStep == TypeEnumInv /\ E!TypeEnumNext => TypeEnumInv'
<1> SUFFICES ASSUME TypeEnumInv, E!TypeEnumNext PROVE TypeEnumInv'
  OBVIOUS
<1>0. types \in Nat /\ listed \in Nat /\ m_TypeVersion \in Nat /\ m_TypeVersion <= listed BY DEF TypeEnumInv
<1>1. ASSUME NEW n \in TypeCounts, E!ChangeTypes(n) PROVE TypeEnumInv'
  <2>1. types' = n /\ listed' = listed + 1 /\ UNCHANGED <<m_TypeVersion, tenum>> BY <1>1 DEF E!ChangeTypes
  <2>2. types' \in Nat /\ listed' \in Nat /\ listed < listed' /\ m_TypeVersion' <= listed'
    BY <1>0, <2>1, UnitsAssumption
  <2> QED BY <1>0, <2>1, <2>2, TypesStay
<1>2. CASE E!IncrementTypeVersion
  <2>1. m_TypeVersion < listed /\ m_TypeVersion' = m_TypeVersion + 1 /\ UNCHANGED <<types, listed, tenum>>
    BY <1>2 DEF E!IncrementTypeVersion
  <2> QED BY <1>0, <2>1, TypesStay
<1>3. ASSUME NEW e \in Enums, E!EnumMediaTypes(e) \/ E!ResetTypes(e) PROVE TypeEnumInv'
  <2>1. PICK r : r = E!NewTypes OBVIOUS
  <2>2. E!SetTypes(e, r) BY <1>3, <2>1 DEF E!EnumMediaTypes, E!ResetTypes
  <2>3. TypesEnumOK(r) BY <2>1, NewTypesOK
  <2> QED BY <2>2, <2>3, TypesSet
<1>4. ASSUME NEW e \in Enums, E!ReleaseTypes(e) PROVE TypeEnumInv'
  BY <1>4, TypesSet DEF E!ReleaseTypes
<1>5. ASSUME NEW e \in Enums, NEW f \in Enums, E!CloneTypes(e, f) PROVE TypeEnumInv'
  <2>1. PICK r : r = tenum[e] OBVIOUS
  <2>2. E!SetTypes(f, r) BY <1>5, <2>1 DEF E!CloneTypes
  <2>3. r = E!Dead \/ TypesEnumOK(r) BY <2>1 DEF TypeEnumInv
  <2> QED BY <2>2, <2>3, TypesSet
<1>6. ASSUME NEW e \in Enums, NEW n \in 1..2, E!NextTypes(e, n) \/ E!SkipTypes(e, n) PROVE TypeEnumInv'
  BY <1>6, NextTypesStep, SkipTypesStep
<1>7. ASSUME NEW e \in Enums, E!GetMediaType(e) PROVE TypeEnumInv'
  BY <1>7, GetMediaTypeStep
<1> QED BY <1>1, <1>2, <1>3, <1>4, <1>5, <1>6, <1>7 DEF E!TypeEnumNext

LEMMA EnumInit == E!EnumInit => EnumInv /\ TypeEnumInv
<1> SUFFICES ASSUME E!EnumInit PROVE EnumInv /\ TypeEnumInv
  OBVIOUS
<1> USE DEF E!EnumInit
<1>1. PinsMade
  <2>1. pins = <<>> /\ made = [a \in Addr |-> 0] /\ m_PinVersion = 1 OBVIOUS
  <2>2. 1..Len(pins) = {} BY <2>1
  <2> QED BY <2>1, <2>2 DEF PinsMade
<1>2. changed \in BOOLEAN BY Zenon
<1>3. TypeEnumInv BY UnitsAssumption DEF TypeEnumInv
<1> QED BY <1>1, <1>2, <1>3 DEF EnumInv

LEMMA TypeEnumHolds == TypeEnumInv => E!TypesOfOneVersion
<1> SUFFICES ASSUME TypeEnumInv, NEW e \in Enums, tenum[e].live, E!TypesInStep(e), listed = m_TypeVersion
             PROVE  tenum[e].got \cup tenum[e].excused = Upto(tenum[e].pos)
  BY DEF E!TypesOfOneVersion, Upto
<1>1. TypesEnumOK(tenum[e]) BY TypesLive
<1> QED BY <1>1 DEF TypesEnumOK, E!TypesInStep

-----------------------------------------------------------------------------
(* The connection of pins.                                                 *)

LEMMA LeastNumber ==
  ASSUME NEW T, T \subseteq Nat, T # {}
  PROVE  \E i \in T : \A j \in T : i <= j
<1> DEFINE R == OpToRel(<, Nat)
<1>1. IsWellFoundedOn(R, Nat) BY NatLessThanWellFounded
<1>2. \A i, j \in Nat : <<j, i>> \in R <=> j < i BY DEF OpToRel
<1> HIDE DEF R
<1>3. PICK i \in T : \A j \in T : ~(<<j, i>> \in R) BY <1>1, WFMin
<1>4. \A j \in T : i \in Nat /\ j \in Nat /\ ~(j < i) BY <1>2, <1>3
<1> QED BY <1>3, <1>4

\* Where pins lead to, and whose allocator they use.
PinsPaired ==
  \A o \in P!OutPins : LET i == Downstream[o] IN
    /\ m_Connected[o] \in {None, i} /\ m_Connected[i] \in {None, o}
    /\ m_pAllocator[o] \in {None, o, i}

\* The links the graph has half undone are of a stopped input pin.
HalfLinksStopped ==
  \A o \in P!OutPins : m_Connected[o] # None /\ m_Connected[Downstream[o]] = None => P!IsStopped(Downstream[o])

\* No allocator is committed that an output pin does not have.
CommittedHeld == \A a \in committed : \E o \in P!OutPins : m_pAllocator[o] = a

ErrorsConnected == \A i \in m_bRunTimeError : m_Connected[i] # None

PinsInv == P!PinsHold /\ PinsPaired /\ HalfLinksStopped /\ CommittedHeld /\ ErrorsConnected

PinRec == [peer : [P!Pin -> P!Pin \cup {None}], mt : [P!Pin -> MediaTypes \cup {None}],
           alloc : [P!Pin -> P!Pin \cup {None}], input : SUBSET P!OutPins, committed : SUBSET P!Pin]

\* What an attempt to connect o and i leaves alone.
OthersKept(s, t, o, i) ==
  /\ \A p \in P!Pin \ {o, i} : t.peer[p] = s.peer[p] /\ t.mt[p] = s.mt[p] /\ t.alloc[p] = s.alloc[p]
  /\ \A q \in P!OutPins \ {o} : q \in t.input <=> q \in s.input
  /\ t.committed \subseteq s.committed

\* o is not connected, i may be.
Free(s, o, i) ==
  /\ s \in PinRec /\ s.peer[o] = None /\ s.alloc[o] = None /\ o \notin s.input
  /\ s.peer[i] \in {None, o} /\ (s.peer[i] = None => s.alloc[i] = None)

Failed(s, t, o, i) ==
  /\ Free(t, o, i) /\ OthersKept(s, t, o, i)
  /\ t.peer[i] = s.peer[i] /\ t.alloc[i] = s.alloc[i]

Made(s, t, o, i) ==
  /\ t \in PinRec /\ OthersKept(s, t, o, i)
  /\ s.peer[i] = None /\ t.peer[o] = i /\ t.peer[i] = o /\ o \in t.input
  /\ t.mt[o] = t.mt[i] /\ t.mt[o] \in Accepts[o] \cap Accepts[i]
  /\ t.alloc[o] = t.alloc[i] /\ t.alloc[o] \in {o, i}

\* What ReceiveConnection answers, r, and what it makes of s.
Received(s, r, o, i, mt) ==
  \/ /\ r.ok = FALSE /\ r.s \in PinRec /\ r.s.peer = s.peer /\ r.s.alloc = s.alloc
     /\ r.s.input = s.input /\ r.s.committed \subseteq s.committed
     /\ \A p \in P!Pin \ {i} : r.s.mt[p] = s.mt[p]
  \/ /\ r.ok = TRUE /\ r.s \in PinRec /\ r.s.peer = [s.peer EXCEPT ![i] = o] /\ r.s.alloc = s.alloc
     /\ r.s.input = s.input /\ r.s.committed = s.committed /\ r.s.mt = [s.mt EXCEPT ![i] = mt]
     /\ s.peer[i] = None /\ P!IsStopped(i) /\ mt \in Accepts[i]

\* What DecideAllocator answers, c, and what it makes of s.
Decided(s, c, o, i) ==
  /\ c.s \in PinRec /\ c.s.peer = s.peer /\ c.s.mt = s.mt /\ c.s.input = s.input
  /\ c.s.committed = s.committed
  /\ \/ c.ok = FALSE /\ c.s.alloc = [s.alloc EXCEPT ![i] = i]
     \/ c.ok = TRUE /\ c.s.alloc = [s.alloc EXCEPT ![i] = o, ![o] = o]
     \/ c.ok = TRUE /\ c.s.alloc = [s.alloc EXCEPT ![i] = i, ![o] = i]

Attempted(s, c, o, i) == (c.ok = FALSE /\ Failed(s, c.s, o, i)) \/ (c.ok = TRUE /\ Made(s, c.s, o, i))

-----------------------------------------------------------------------------
LEMMA PinPair ==
  ASSUME NEW o \in P!OutPins
  PROVE  /\ o \in P!Pin /\ Downstream[o] \in P!Pin /\ o # Downstream[o] /\ o # None /\ Downstream[o] # None
         /\ Downstream[o] \in P!InPins /\ Downstream[o] \notin P!OutPins /\ Downstream[o] \notin Reconnects
         /\ \A q \in P!OutPins : q # o => q # Downstream[o] /\ Downstream[q] # Downstream[o] /\ Downstream[q] # o
<1>1. Downstream[o] \in P!InPins BY DEF P!InPins
<1>2. \A q \in P!OutPins : Downstream[q] \in P!InPins BY DEF P!InPins
<1> QED BY <1>1, <1>2, PinsAssumption DEF P!Pin

LEMMA BreakConnectDoes ==
  ASSUME NEW s \in PinRec, NEW p \in P!Pin
  PROVE  LET t == P!BreakConnect(s, p)
         IN  /\ t \in PinRec /\ t.peer = s.peer /\ t.mt = s.mt /\ t.alloc = [s.alloc EXCEPT ![p] = None]
             /\ t.input = s.input \ {p} /\ t.committed = s.committed \ {s.alloc[p]}
<1> DEFINE t == P!BreakConnect(s, p)
<1>1. t = [s EXCEPT !.committed = s.committed \ {s.alloc[p]}, !.alloc[p] = None, !.input = s.input \ {p}]
  BY DEF P!BreakConnect
<1>2. /\ s.alloc \in [P!Pin -> P!Pin \cup {None}] /\ s.input \subseteq P!OutPins /\ s.committed \subseteq P!Pin
  BY DEF PinRec
<1>3. [s.alloc EXCEPT ![p] = None] \in [P!Pin -> P!Pin \cup {None}] BY <1>2
<1> HIDE DEF t
<1>4. /\ t.peer = s.peer /\ t.mt = s.mt /\ t.alloc = [s.alloc EXCEPT ![p] = None]
      /\ t.input = s.input \ {p} /\ t.committed = s.committed \ {s.alloc[p]}
  BY <1>1 DEF PinRec
<1>5. t \in PinRec BY <1>1, <1>2, <1>3 DEF PinRec
<1> QED BY <1>4, <1>5 DEF t

LEMMA SetMediaTypeDoes ==
  ASSUME NEW s \in PinRec, NEW p \in P!Pin, NEW mt \in MediaTypes
  PROVE  LET t == P!SetMediaType(s, p, mt)
         IN  /\ t \in PinRec /\ t.peer = s.peer /\ t.mt = [s.mt EXCEPT ![p] = mt] /\ t.alloc = s.alloc
             /\ t.input = s.input /\ t.committed = s.committed
BY DEF P!SetMediaType, PinRec

\* A pin looks connected, or no more.
LEMMA PeerSet ==
  ASSUME NEW s \in PinRec, NEW p \in P!Pin, NEW q \in P!Pin \cup {None}
  PROVE  LET t == [s EXCEPT !.peer[p] = q]
         IN  /\ t \in PinRec /\ t.peer = [s.peer EXCEPT ![p] = q] /\ t.mt = s.mt /\ t.alloc = s.alloc
             /\ t.input = s.input /\ t.committed = s.committed
BY DEF PinRec

LEMMA AllocSet ==
  ASSUME NEW s \in PinRec, NEW p \in P!Pin, NEW a \in P!Pin \cup {None}
  PROVE  LET t == [s EXCEPT !.alloc[p] = a]
         IN  /\ t \in PinRec /\ t.peer = s.peer /\ t.mt = s.mt /\ t.alloc = [s.alloc EXCEPT ![p] = a]
             /\ t.input = s.input /\ t.committed = s.committed
BY DEF PinRec

LEMMA CheckConnectDoes ==
  ASSUME NEW s \in PinRec, NEW o \in P!OutPins
  PROVE  LET t == P!CheckConnect(s, o)
         IN  /\ t \in PinRec /\ t.peer = s.peer /\ t.mt = s.mt /\ t.alloc = s.alloc
             /\ t.input = s.input \cup {o} /\ t.committed = s.committed
BY DEF P!CheckConnect, PinRec

LEMMA ReceiveConnectionDoes ==
  ASSUME NEW o \in P!OutPins, NEW i, i = Downstream[o], NEW s \in PinRec, NEW mt \in MediaTypes, NEW hr,
         s.peer[i] \in {None, o}, s.peer[i] = None => s.alloc[i] = None
  PROVE  Received(s, P!ReceiveConnection(s, i, o, mt, hr), o, i, mt)
<1>0. PICK r : r = P!ReceiveConnection(s, i, o, mt, hr) OBVIOUS
<1> SUFFICES
        \/ /\ r.ok = FALSE /\ r.s \in PinRec /\ r.s.peer = s.peer /\ r.s.alloc = s.alloc
           /\ r.s.input = s.input /\ r.s.committed \subseteq s.committed
           /\ \A p \in P!Pin \ {i} : r.s.mt[p] = s.mt[p]
        \/ /\ r.ok = TRUE /\ r.s \in PinRec /\ r.s.peer = [s.peer EXCEPT ![i] = o] /\ r.s.alloc = s.alloc
           /\ r.s.input = s.input /\ r.s.committed = s.committed /\ r.s.mt = [s.mt EXCEPT ![i] = mt]
           /\ s.peer[i] = None /\ P!IsStopped(i) /\ mt \in Accepts[i]
  BY <1>0, Zenon DEF Received
<1> DEFINE refused == s.peer[i] # None \/ (~P!IsStopped(i) /\ i \notin Reconnects)
<1>1. /\ o \in P!Pin /\ i \in P!Pin /\ i \notin P!OutPins /\ i \notin Reconnects /\ o # i
      /\ o \in P!Pin \cup {None} /\ None \in P!Pin \cup {None}
  BY PinPair
<1>2. CASE refused
  <2>1. r = [ok |-> FALSE, s |-> s] BY <1>2, <1>0, Zenon DEF P!ReceiveConnection
  <2> QED BY <2>1 DEF PinRec
<1>3. ASSUME ~refused, NEW t \in PinRec, t.peer = s.peer, t.alloc = s.alloc, t.input = s.input,
             t.committed = s.committed, \A p \in P!Pin \ {i} : t.mt[p] = s.mt[p]
      PROVE  LET u == P!BreakConnect(t, i)
             IN  /\ u \in PinRec /\ u.peer = s.peer /\ u.alloc = s.alloc /\ u.input = s.input
                 /\ u.committed \subseteq s.committed /\ \A p \in P!Pin \ {i} : u.mt[p] = s.mt[p]
  <2>1. s.alloc[i] = None /\ s.input \subseteq P!OutPins /\ s.alloc \in [P!Pin -> P!Pin \cup {None}]
    BY <1>3 DEF PinRec
  <2>2. [s.alloc EXCEPT ![i] = None] = s.alloc BY <1>1, <2>1
  <2>3. s.input \ {i} = s.input BY <1>1, <2>1
  <2>4. PICK u : u = P!BreakConnect(t, i) OBVIOUS
  <2>5. /\ u \in PinRec /\ u.peer = t.peer /\ u.mt = t.mt /\ u.alloc = [t.alloc EXCEPT ![i] = None]
        /\ u.input = t.input \ {i} /\ u.committed = t.committed \ {t.alloc[i]}
    BY <1>1, <2>4, BreakConnectDoes
  <2>6. /\ u \in PinRec /\ u.peer = s.peer /\ u.alloc = s.alloc /\ u.input = s.input
        /\ u.committed \subseteq s.committed /\ \A p \in P!Pin \ {i} : u.mt[p] = s.mt[p]
    BY <1>3, <2>2, <2>3, <2>5
  <2> QED BY <2>4, <2>6
<1>4. CASE ~refused /\ (hr = "RCheckConnect" \/ mt \notin Accepts[i] \/ hr = "RSetMediaType")
  <2>1. r = [ok |-> FALSE, s |-> P!BreakConnect(s, i)]
    BY <1>4, <1>0, Zenon DEF P!ReceiveConnection
  <2> HIDE DEF refused
  <2> QED BY <1>3, <1>4, <2>1
<1>5. CASE ~refused /\ ~(hr = "RCheckConnect" \/ mt \notin Accepts[i] \/ hr = "RSetMediaType")
           /\ hr = "RCompleteConnect"
  <2>1. r = [ok |-> FALSE, s |-> P!BreakConnect(P!SetMediaType(s, i, mt), i)]
    BY <1>5, <1>0, Zenon DEF P!ReceiveConnection
  <2>2. PICK t : t = P!SetMediaType(s, i, mt) OBVIOUS
  <2>3. /\ t \in PinRec /\ t.peer = s.peer /\ t.alloc = s.alloc /\ t.input = s.input
        /\ t.committed = s.committed /\ t.mt = [s.mt EXCEPT ![i] = mt]
    BY <1>1, <2>2, SetMediaTypeDoes
  <2>4. \A p \in P!Pin \ {i} : t.mt[p] = s.mt[p] BY <2>3 DEF PinRec
  <2>5. PICK u : u = P!BreakConnect(t, i) OBVIOUS
  <2>6. r.ok = FALSE /\ r.s = u BY <2>1, <2>2, <2>5
  <2> HIDE DEF refused
  <2>7. /\ u \in PinRec /\ u.peer = s.peer /\ u.alloc = s.alloc /\ u.input = s.input
        /\ u.committed \subseteq s.committed /\ \A p \in P!Pin \ {i} : u.mt[p] = s.mt[p]
    BY <1>3, <1>5, <2>3, <2>4, <2>5
  <2> QED BY <2>6, <2>7
<1>6. CASE ~refused /\ ~(hr = "RCheckConnect" \/ mt \notin Accepts[i] \/ hr = "RSetMediaType")
           /\ hr # "RCompleteConnect"
  <2>1. PICK t : t = P!SetMediaType(s, i, mt) OBVIOUS
  <2>2. PICK u : u = [t EXCEPT !.peer[i] = o] OBVIOUS
  <2>3. r = [ok |-> TRUE, s |-> u]
    BY <1>6, <2>1, <2>2, <1>0, Zenon DEF P!ReceiveConnection
  <2>4. /\ t \in PinRec /\ t.peer = s.peer /\ t.alloc = s.alloc /\ t.input = s.input
        /\ t.committed = s.committed /\ t.mt = [s.mt EXCEPT ![i] = mt]
    BY <1>1, <2>1, SetMediaTypeDoes
  <2>5. /\ u \in PinRec /\ u.peer = [t.peer EXCEPT ![i] = o] /\ u.mt = t.mt /\ u.alloc = t.alloc
        /\ u.input = t.input /\ u.committed = t.committed
    BY <1>1, <2>2, <2>4, PeerSet
  <2>6. s.peer[i] = None /\ P!IsStopped(i) /\ mt \in Accepts[i] BY <1>1, <1>6
  <2>7. r.ok = TRUE /\ r.s = u BY <2>3
  <2> HIDE DEF refused
  <2> QED BY <2>4, <2>5, <2>6, <2>7
<1> QED BY <1>2, <1>4, <1>5, <1>6

\* The allocators of a new pair are one of its own.
LEMMA DecideAllocatorDoes ==
  ASSUME NEW o \in P!OutPins, NEW i, i = Downstream[o], NEW s \in PinRec, NEW hr, s.alloc[i] = None
  PROVE  Decided(s, P!DecideAllocator(s, o, i, hr), o, i)
<1>0. PICK c : c = P!DecideAllocator(s, o, i, hr) OBVIOUS
<1> SUFFICES
      /\ c.s \in PinRec /\ c.s.peer = s.peer /\ c.s.mt = s.mt /\ c.s.input = s.input
      /\ c.s.committed = s.committed
      /\ \/ c.ok = FALSE /\ c.s.alloc = [s.alloc EXCEPT ![i] = i]
         \/ c.ok = TRUE /\ c.s.alloc = [s.alloc EXCEPT ![i] = o, ![o] = o]
         \/ c.ok = TRUE /\ c.s.alloc = [s.alloc EXCEPT ![i] = i, ![o] = i]
  BY <1>0, Zenon DEF Decided
<1>1. o \in P!Pin /\ i \in P!Pin /\ o # i /\ o \in P!Pin \cup {None} /\ i \in P!Pin \cup {None} BY PinPair
<1>2. PICK s1 : s1 = P!GetAllocator(s, i) OBVIOUS
<1>3. s.alloc \in [P!Pin -> P!Pin \cup {None}] BY DEF PinRec
<1>4. s1 = [s EXCEPT !.alloc[i] = i]
  <2>1. s1 = [s EXCEPT !.alloc[i] = IF s.alloc[i] = None THEN i ELSE s.alloc[i]] BY <1>2 DEF P!GetAllocator
  <2> QED BY <2>1
<1>5. /\ s1 \in PinRec /\ s1.peer = s.peer /\ s1.mt = s.mt /\ s1.alloc = [s.alloc EXCEPT ![i] = i]
      /\ s1.input = s.input /\ s1.committed = s.committed
  BY <1>1, <1>4, AllocSet
<1>6. s1.alloc[i] = i BY <1>1, <1>3, <1>5
<1>7. ASSUME NEW a \in {o, i}, c = [ok |-> TRUE, s |-> P!NotifyAllocator([s1 EXCEPT !.alloc[o] = a], i, a)]
      PROVE  /\ c.ok = TRUE /\ c.s \in PinRec /\ c.s.peer = s.peer /\ c.s.mt = s.mt /\ c.s.input = s.input
         /\ c.s.committed = s.committed /\ c.s.alloc = [s.alloc EXCEPT ![i] = a, ![o] = a]
  <2>1. PICK t : t = [s1 EXCEPT !.alloc[o] = a] OBVIOUS
  <2>2. PICK u : u = [t EXCEPT !.alloc[i] = a] OBVIOUS
  <2>3. c.ok = TRUE /\ c.s = u BY <1>7, <2>1, <2>2 DEF P!NotifyAllocator
  <2>4. /\ t \in PinRec /\ t.peer = s1.peer /\ t.mt = s1.mt /\ t.alloc = [s1.alloc EXCEPT ![o] = a]
        /\ t.input = s1.input /\ t.committed = s1.committed
    BY <1>1, <1>5, <2>1, AllocSet
  <2>5. /\ u \in PinRec /\ u.peer = t.peer /\ u.mt = t.mt /\ u.alloc = [t.alloc EXCEPT ![i] = a]
        /\ u.input = t.input /\ u.committed = t.committed
    BY <1>1, <2>2, <2>4, AllocSet
  <2>6. u.alloc = [s.alloc EXCEPT ![i] = a, ![o] = a] BY <1>1, <1>3, <1>5, <2>4, <2>5
  <2> QED BY <1>5, <2>3, <2>4, <2>5, <2>6
<1>8. CASE hr = "Decide"
  <2>1. c = [ok |-> FALSE, s |-> s1] BY <1>0, <1>2, <1>8, Zenon DEF P!DecideAllocator
  <2> QED BY <1>5, <2>1
<1>9. CASE hr = "Refuse"
  <2>1. c = [ok |-> TRUE, s |-> P!NotifyAllocator([s1 EXCEPT !.alloc[o] = o], i, o)]
    BY <1>0, <1>2, <1>9 DEF P!DecideAllocator
  <2> QED BY <1>7, <2>1
<1>10. CASE hr # "Decide" /\ hr # "Refuse"
  <2>1. c = [ok |-> TRUE, s |-> P!NotifyAllocator([s1 EXCEPT !.alloc[o] = s1.alloc[i]], i, s1.alloc[i])]
    BY <1>0, <1>2, <1>10, Zenon DEF P!DecideAllocator
  <2>2. c = [ok |-> TRUE, s |-> P!NotifyAllocator([s1 EXCEPT !.alloc[o] = i], i, i)] BY <1>6, <2>1
  <2> QED BY <1>7, <2>2
<1> QED BY <1>8, <1>9, <1>10

LEMMA FailedIsFree ==
  ASSUME NEW o \in P!OutPins, NEW i, i = Downstream[o], NEW s, Free(s, o, i), NEW t \in PinRec,
         t.peer[i] = s.peer[i], t.alloc[i] = s.alloc[i], t.peer[o] = None, t.alloc[o] = None, o \notin t.input,
         OthersKept(s, t, o, i)
  PROVE  Failed(s, t, o, i)
BY DEF Failed, Free

\* What is left of an attempt after o is undone.
LEMMA UndoDoes ==
  ASSUME NEW o \in P!OutPins, NEW i, i = Downstream[o], NEW s, Free(s, o, i), NEW t \in PinRec,
         t.peer[i] = s.peer[i], t.alloc[i] = s.alloc[i], OthersKept(s, t, o, i)
  PROVE  Failed(s, [P!BreakConnect(t, o) EXCEPT !.peer[o] = None], o, i)
<1>1. o \in P!Pin /\ i \in P!Pin /\ o # i /\ None \in P!Pin \cup {None} BY PinPair
<1>2. PICK u : u = P!BreakConnect(t, o) OBVIOUS
<1>3. PICK v : v = [u EXCEPT !.peer[o] = None] OBVIOUS
<1>4. /\ u \in PinRec /\ u.peer = t.peer /\ u.mt = t.mt /\ u.alloc = [t.alloc EXCEPT ![o] = None]
      /\ u.input = t.input \ {o} /\ u.committed = t.committed \ {t.alloc[o]}
  BY <1>1, <1>2, BreakConnectDoes
<1>5. /\ v \in PinRec /\ v.peer = [u.peer EXCEPT ![o] = None] /\ v.mt = u.mt /\ v.alloc = u.alloc
      /\ v.input = u.input /\ v.committed = u.committed
  BY <1>1, <1>3, <1>4, PeerSet
<1>6. t.peer \in [P!Pin -> P!Pin \cup {None}] /\ t.alloc \in [P!Pin -> P!Pin \cup {None}] BY DEF PinRec
<1>7. /\ v.peer[o] = None /\ v.alloc[o] = None /\ o \notin v.input /\ v.committed \subseteq t.committed
      /\ v.peer[i] = t.peer[i] /\ v.alloc[i] = t.alloc[i]
      /\ \A p \in P!Pin \ {o, i} : v.peer[p] = t.peer[p] /\ v.mt[p] = t.mt[p] /\ v.alloc[p] = t.alloc[p]
      /\ \A q \in P!OutPins \ {o} : q \in v.input <=> q \in t.input
  BY <1>1, <1>4, <1>5, <1>6
<1>8. OthersKept(s, v, o, i) BY <1>7 DEF OthersKept
<1>9. Failed(s, v, o, i) BY <1>5, <1>7, <1>8, FailedIsFree
<1> QED BY <1>2, <1>3, <1>9

LEMMA AttemptConnectionDoes ==
  ASSUME NEW o \in P!OutPins, NEW i, i = Downstream[o], NEW s, Free(s, o, i), NEW mt \in MediaTypes, NEW hr
  PROVE  Attempted(s, P!AttemptConnection(s, o, i, mt, hr), o, i)
<1>1. /\ o \in P!Pin /\ i \in P!Pin /\ o # i /\ i # None /\ None \in P!Pin \cup {None} /\ i \in P!Pin \cup {None}
      /\ i \notin P!OutPins
  BY PinPair
<1>2. s \in PinRec /\ s.peer[o] = None /\ s.alloc[o] = None BY DEF Free
<1>3. PICK c : c = P!AttemptConnection(s, o, i, mt, hr) OBVIOUS
<1> SUFFICES (c.ok = FALSE /\ Failed(s, c.s, o, i)) \/ (c.ok = TRUE /\ Made(s, c.s, o, i))
  BY <1>3, Zenon DEF Attempted
<1>4. PICK s0 : s0 = P!CheckConnect(s, o) OBVIOUS
<1>5. /\ s0 \in PinRec /\ s0.peer = s.peer /\ s0.mt = s.mt /\ s0.alloc = s.alloc
      /\ s0.input = s.input \cup {o} /\ s0.committed = s.committed
  BY <1>2, <1>4, CheckConnectDoes
<1>6. PICK s01 : s01 = [s0 EXCEPT !.peer[o] = i] OBVIOUS
<1>7. /\ s01 \in PinRec /\ s01.peer = [s0.peer EXCEPT ![o] = i] /\ s01.mt = s0.mt /\ s01.alloc = s0.alloc
      /\ s01.input = s0.input /\ s01.committed = s0.committed
  BY <1>1, <1>5, <1>6, PeerSet
<1>8. PICK s1 : s1 = P!SetMediaType(s01, o, mt) OBVIOUS
<1>9. /\ s1 \in PinRec /\ s1.peer = s01.peer /\ s1.mt = [s01.mt EXCEPT ![o] = mt] /\ s1.alloc = s01.alloc
      /\ s1.input = s01.input /\ s1.committed = s01.committed
  BY <1>1, <1>7, <1>8, SetMediaTypeDoes
<1>10. s.peer \in [P!Pin -> P!Pin \cup {None}] /\ s.mt \in [P!Pin -> MediaTypes \cup {None}]
       /\ s.alloc \in [P!Pin -> P!Pin \cup {None}]
  BY <1>2 DEF PinRec
<1>11. /\ s1.peer[o] = i /\ s1.mt[o] = mt /\ s1.alloc = s.alloc /\ s1.peer[i] = s.peer[i]
       /\ s1.input = s.input \cup {o} /\ s1.committed = s.committed
       /\ \A p \in P!Pin \ {o, i} : s1.peer[p] = s.peer[p] /\ s1.mt[p] = s.mt[p]
  BY <1>1, <1>5, <1>7, <1>9, <1>10
<1>12. PICK r : r = P!ReceiveConnection(s1, i, o, mt, hr) OBVIOUS
<1>13. PICK d : d = P!DecideAllocator(r.s, o, i, hr) OBVIOUS
<1>14. c = IF hr = "CheckConnect" THEN [ok |-> FALSE, s |-> P!BreakConnect(s, o)]
           ELSE IF mt \notin Accepts[o] \/ hr = "SetMediaType"
             THEN [ok |-> FALSE, s |-> [P!BreakConnect(s0, o) EXCEPT !.peer[o] = None]]
           ELSE IF ~r.ok THEN [ok |-> FALSE, s |-> [P!BreakConnect(r.s, o) EXCEPT !.peer[o] = None]]
           ELSE IF ~d.ok
             THEN [ok |-> FALSE, s |-> [P!BreakConnect(P!Disconnected(d.s, i), o) EXCEPT !.peer[o] = None]]
           ELSE d
  BY <1>3, <1>4, <1>6, <1>8, <1>12, <1>13, Zenon DEF P!AttemptConnection
<1>15. CASE hr = "CheckConnect"
  <2>1. PICK u : u = P!BreakConnect(s, o) OBVIOUS
  <2>2. c.ok = FALSE /\ c.s = u BY <1>14, <1>15, <2>1
  <2>3. /\ u \in PinRec /\ u.peer = s.peer /\ u.mt = s.mt /\ u.alloc = [s.alloc EXCEPT ![o] = None]
        /\ u.input = s.input \ {o} /\ u.committed = s.committed \ {s.alloc[o]}
    BY <1>1, <1>2, <2>1, BreakConnectDoes
  <2>4. /\ u.peer[o] = None /\ u.alloc[o] = None /\ o \notin u.input /\ u.peer[i] = s.peer[i]
        /\ u.alloc[i] = s.alloc[i] /\ OthersKept(s, u, o, i)
    BY <1>1, <1>2, <1>10, <2>3 DEF OthersKept
  <2>5. Failed(s, u, o, i) BY <2>3, <2>4, FailedIsFree
  <2> QED BY <2>2, <2>5, Zenon
<1>16. CASE hr # "CheckConnect" /\ (mt \notin Accepts[o] \/ hr = "SetMediaType")
  <2>1. PICK u : u = [P!BreakConnect(s0, o) EXCEPT !.peer[o] = None] OBVIOUS
  <2>2. c.ok = FALSE /\ c.s = u BY <1>14, <1>16, <2>1
  <2>3. OthersKept(s, s0, o, i) BY <1>5 DEF OthersKept
  <2>4. Failed(s, u, o, i) BY <1>5, <2>1, <2>3, UndoDoes
  <2> QED BY <2>2, <2>4, Zenon
<1>17. ASSUME hr # "CheckConnect", ~(mt \notin Accepts[o] \/ hr = "SetMediaType")
       PROVE  (c.ok = FALSE /\ Failed(s, c.s, o, i)) \/ (c.ok = TRUE /\ Made(s, c.s, o, i))
  <2>1. \/ /\ r.ok = FALSE /\ r.s \in PinRec /\ r.s.peer = s1.peer /\ r.s.alloc = s1.alloc
           /\ r.s.input = s1.input /\ r.s.committed \subseteq s1.committed
           /\ \A p \in P!Pin \ {i} : r.s.mt[p] = s1.mt[p]
        \/ /\ r.ok = TRUE /\ r.s \in PinRec /\ r.s.peer = [s1.peer EXCEPT ![i] = o] /\ r.s.alloc = s1.alloc
           /\ r.s.input = s1.input /\ r.s.committed = s1.committed /\ r.s.mt = [s1.mt EXCEPT ![i] = mt]
           /\ s1.peer[i] = None /\ P!IsStopped(i) /\ mt \in Accepts[i]
    <3>1. s1.peer[i] \in {None, o} /\ (s1.peer[i] = None => s1.alloc[i] = None) BY <1>11 DEF Free
    <3>2. s1 \in PinRec BY <1>9
    <3>3. Received(s1, P!ReceiveConnection(s1, i, o, mt, hr), o, i, mt) BY <3>1, <3>2, ReceiveConnectionDoes
    <3>4. Received(s1, r, o, i, mt) BY <1>12, <3>3
    <3> QED BY <3>4, Zenon DEF Received
  <2>2. CASE r.ok = FALSE
    <3>1. PICK t : t = r.s OBVIOUS
    <3>2. PICK u : u = [P!BreakConnect(t, o) EXCEPT !.peer[o] = None] OBVIOUS
    <3>3. c.ok = FALSE /\ c.s = u BY <1>14, <1>17, <2>2, <3>1, <3>2
    <3>4. /\ t \in PinRec /\ t.peer = s1.peer /\ t.alloc = s1.alloc /\ t.input = s1.input
          /\ t.committed \subseteq s1.committed /\ \A p \in P!Pin \ {i} : t.mt[p] = s1.mt[p]
      BY <2>1, <2>2, <3>1
    <3>5. t.peer[i] = s.peer[i] /\ t.alloc[i] = s.alloc[i] /\ OthersKept(s, t, o, i)
      BY <1>11, <3>4 DEF OthersKept
    <3>6. Failed(s, u, o, i) BY <3>2, <3>4, <3>5, UndoDoes
    <3> QED BY <3>3, <3>6, Zenon
  <2>3. ASSUME r.ok = TRUE
        PROVE  (c.ok = FALSE /\ Failed(s, c.s, o, i)) \/ (c.ok = TRUE /\ Made(s, c.s, o, i))
    <3>1. PICK t : t = r.s OBVIOUS
    <3>2. /\ t \in PinRec /\ t.peer = [s1.peer EXCEPT ![i] = o] /\ t.alloc = s1.alloc
          /\ t.input = s1.input /\ t.committed = s1.committed /\ t.mt = [s1.mt EXCEPT ![i] = mt]
          /\ s.peer[i] = None /\ P!IsStopped(i) /\ mt \in Accepts[i]
      BY <1>11, <2>1, <2>3, <3>1
    <3>3. s.alloc[i] = None /\ t.alloc[i] = None BY <1>11, <3>2 DEF Free
    <3>4. PICK e : e = d.s OBVIOUS
    <3>5. /\ e \in PinRec /\ e.peer = t.peer /\ e.mt = t.mt /\ e.input = t.input /\ e.committed = t.committed
          /\ \/ d.ok = FALSE /\ e.alloc = [t.alloc EXCEPT ![i] = i]
             \/ d.ok = TRUE /\ e.alloc = [t.alloc EXCEPT ![i] = o, ![o] = o]
             \/ d.ok = TRUE /\ e.alloc = [t.alloc EXCEPT ![i] = i, ![o] = i]
      <4>1. t \in PinRec /\ t.alloc[i] = None BY <3>2, <3>3
      <4>2. d = P!DecideAllocator(t, o, i, hr) BY <1>13, <3>1
      <4>3. /\ d.s \in PinRec /\ d.s.peer = t.peer /\ d.s.mt = t.mt /\ d.s.input = t.input
            /\ d.s.committed = t.committed
            /\ \/ d.ok = FALSE /\ d.s.alloc = [t.alloc EXCEPT ![i] = i]
               \/ d.ok = TRUE /\ d.s.alloc = [t.alloc EXCEPT ![i] = o, ![o] = o]
               \/ d.ok = TRUE /\ d.s.alloc = [t.alloc EXCEPT ![i] = i, ![o] = i]
        <5>1. Decided(t, P!DecideAllocator(t, o, i, hr), o, i) BY <4>1, DecideAllocatorDoes
        <5>2. Decided(t, d, o, i) BY <4>2, <5>1
        <5> QED BY <5>2, Zenon DEF Decided
      <4> QED BY <3>4, <4>3, Zenon
    <3>6. s1.peer \in [P!Pin -> P!Pin \cup {None}] /\ s1.mt \in [P!Pin -> MediaTypes \cup {None}] BY <1>9 DEF PinRec
    <3>7. /\ e.peer[o] = i /\ e.peer[i] = o /\ e.mt[o] = mt /\ e.mt[i] = mt /\ o \in e.input
          /\ \A p \in P!Pin \ {o, i} : e.peer[p] = s.peer[p] /\ e.mt[p] = s.mt[p]
          /\ \A q \in P!OutPins \ {o} : q \in e.input <=> q \in s.input
      BY <1>1, <1>11, <3>2, <3>5, <3>6
    <3>8. \A p \in P!Pin \ {o, i} : e.alloc[p] = s.alloc[p] BY <1>1, <1>10, <1>11, <3>2, <3>5
    <3>9. e.committed = s.committed BY <1>11, <3>2, <3>5
    <3>10. OthersKept(s, e, o, i) BY <3>7, <3>8, <3>9 DEF OthersKept
    <3>11. CASE d.ok = TRUE
      <4>1. c.ok = TRUE /\ c.s = e BY <1>14, <1>17, <2>3, <3>4, <3>11
      <4>2. e.alloc[o] = e.alloc[i] /\ e.alloc[o] \in {o, i} BY <1>1, <1>10, <1>11, <3>2, <3>5, <3>11
      <4>3. mt \in Accepts[o] \cap Accepts[i] BY <1>17, <3>2
      <4>4. Made(s, e, o, i) BY <3>2, <3>5, <3>7, <3>10, <4>2, <4>3 DEF Made
      <4> QED BY <4>1, <4>4
    <3>12. CASE d.ok = FALSE
      <4>1. PICK f : f = P!Disconnected(e, i) OBVIOUS
      <4>2. PICK u : u = [P!BreakConnect(f, o) EXCEPT !.peer[o] = None] OBVIOUS
      <4>3. c.ok = FALSE /\ c.s = u BY <1>14, <1>17, <2>3, <3>4, <3>12, <4>1, <4>2
      <4>4. PICK b : b = P!BreakConnect(e, i) OBVIOUS
      <4>5. f = [b EXCEPT !.peer[i] = None]
        <5>1. P!IsStopped(i) /\ e.peer[i] # None BY <1>1, <3>2, <3>7, PinPair
        <5> QED BY <4>1, <4>4, <5>1 DEF P!Disconnected
      <4>6. /\ b \in PinRec /\ b.peer = e.peer /\ b.mt = e.mt /\ b.alloc = [e.alloc EXCEPT ![i] = None]
            /\ b.input = e.input \ {i} /\ b.committed = e.committed \ {e.alloc[i]}
        BY <1>1, <3>5, <4>4, BreakConnectDoes
      <4>7. /\ f \in PinRec /\ f.peer = [b.peer EXCEPT ![i] = None] /\ f.mt = b.mt /\ f.alloc = b.alloc
            /\ f.input = b.input /\ f.committed = b.committed
        BY <1>1, <4>5, <4>6, PeerSet
      <4>8. e.peer \in [P!Pin -> P!Pin \cup {None}] /\ e.alloc \in [P!Pin -> P!Pin \cup {None}] BY <3>5 DEF PinRec
      <4>9. f.peer[i] = s.peer[i] /\ f.alloc[i] = s.alloc[i] BY <1>1, <3>2, <3>3, <4>6, <4>7, <4>8
      <4>10. /\ \A p \in P!Pin \ {o, i} : f.peer[p] = e.peer[p] /\ f.mt[p] = e.mt[p] /\ f.alloc[p] = e.alloc[p]
             /\ \A q \in P!OutPins \ {o} : q \in f.input <=> q \in e.input
             /\ f.committed \subseteq e.committed
        BY <1>1, <4>6, <4>7, <4>8
      <4>11. OthersKept(s, f, o, i) BY <3>10, <4>10 DEF OthersKept
      <4>12. Failed(s, u, o, i) BY <4>2, <4>7, <4>9, <4>11, UndoDoes
      <4> QED BY <4>3, <4>12, Zenon
    <3> QED BY <3>5, <3>11, <3>12
  <2> QED BY <2>1, <2>2, <2>3
<1> QED BY <1>15, <1>16, <1>17

LEMMA FailedAgain ==
  ASSUME NEW o \in P!OutPins, NEW i, i = Downstream[o], NEW s, NEW t, NEW u, Failed(s, t, o, i)
  PROVE  /\ Free(t, o, i)
         /\ Failed(t, u, o, i) => Failed(s, u, o, i)
         /\ Made(t, u, o, i) => Made(s, u, o, i)
<1>1. OthersKept(t, u, o, i) => OthersKept(s, u, o, i) BY DEF Failed, OthersKept
<1> QED BY <1>1 DEF Failed, Made

LEMMA FailedAtOnce ==
  ASSUME NEW o \in P!OutPins, NEW i, NEW s, Free(s, o, i)
  PROVE  Failed(s, s, o, i)
BY DEF Failed, OthersKept

\* One more type is tried, unless an earlier one did it.
TryNext(r, o, i, mt, hr) == IF r.ok THEN r ELSE P!AttemptConnection(r.s, o, i, mt, hr)

Tried(f, n, s, o, i, ts, hr) ==
  f = [k \in 0..n |-> IF k = 0 THEN [ok |-> FALSE, s |-> s] ELSE TryNext(f[k - 1], o, i, ts[k], hr[k])]

LEMMA TriedLonger ==
  ASSUME NEW n \in Nat, NEW s, NEW o, NEW i, NEW ts, NEW hr, NEW f, Tried(f, n, s, o, i, ts, hr)
  PROVE  \E g : Tried(g, n + 1, s, o, i, ts, hr)
<1> DEFINE g == [k \in 0..(n + 1) |-> IF k = n + 1 THEN TryNext(f[n], o, i, ts[k], hr[k]) ELSE f[k]]
           G(k) == IF k = 0 THEN [ok |-> FALSE, s |-> s] ELSE TryNext(g[k - 1], o, i, ts[k], hr[k])
<1>1. \A k \in 0..n : g[k] = f[k] OBVIOUS
<1>2. \A k \in 0..n : f[k] = IF k = 0 THEN [ok |-> FALSE, s |-> s] ELSE TryNext(f[k - 1], o, i, ts[k], hr[k])
  BY Zenon DEF Tried
<1>3. g[n + 1] = TryNext(f[n], o, i, ts[n + 1], hr[n + 1]) OBVIOUS
<1>4. DOMAIN g = 0..(n + 1) /\ g = [k \in 0..(n + 1) |-> g[k]] OBVIOUS
<1> HIDE DEF g
<1>5. \A k \in 0..(n + 1) : g[k] = G(k)
  <2> TAKE k \in 0..(n + 1)
  <2>1. CASE k = n + 1
    <3>1. k # 0 /\ k - 1 = n /\ n \in 0..n BY <2>1
    <3>2. g[k - 1] = f[n] BY <1>1, <3>1
    <3> QED BY <1>3, <2>1, <3>1, <3>2
  <2>2. CASE k = 0
    <3>1. 0 \in 0..n OBVIOUS
    <3> QED BY <1>1, <1>2, <2>2, <3>1
  <2>3. CASE k # n + 1 /\ k # 0
    <3>1. k \in 0..n /\ k - 1 \in 0..n BY <2>3
    <3>2. g[k] = TryNext(f[k - 1], o, i, ts[k], hr[k]) BY <1>1, <1>2, <2>3, <3>1
    <3> QED BY <1>1, <2>3, <3>1, <3>2
  <2> QED BY <2>1, <2>2, <2>3
<1>6. g = [k \in 0..(n + 1) |-> G(k)]
  <2>1. [k \in 0..(n + 1) |-> g[k]] = [k \in 0..(n + 1) |-> G(k)] BY <1>5, Zenon
  <2> QED BY <1>4, <2>1
<1>7. Tried(g, n + 1, s, o, i, ts, hr) BY <1>6, Zenon DEF Tried
<1> QED BY <1>7

LEMMA TriedExists ==
  ASSUME NEW n \in Nat, NEW s, NEW o, NEW i, NEW ts, NEW hr
  PROVE  \E f : Tried(f, n, s, o, i, ts, hr)
<1> DEFINE B == {m \in Nat : ~ \E f : Tried(f, m, s, o, i, ts, hr)}
<1>1. SUFFICES B = {} OBVIOUS
<1>2. ASSUME B # {} PROVE FALSE
  <2>1. B \subseteq Nat OBVIOUS
  <2>2. PICK m \in B : \A j \in B : m <= j
    <3> HIDE DEF B
    <3> QED BY <1>2, <2>1, LeastNumber
  <2>3. m \in Nat /\ ~ \E f : Tried(f, m, s, o, i, ts, hr) BY <2>2
  <2>4. CASE m = 0
    <3> DEFINE f == [k \in 0..0 |-> [ok |-> FALSE, s |-> s]]
               g == [k \in 0..0 |-> IF k = 0 THEN [ok |-> FALSE, s |-> s]
                                    ELSE TryNext(f[k - 1], o, i, ts[k], hr[k])]
    <3>1. \A k \in 0..0 : k = 0 OBVIOUS
    <3>2. f = g BY <3>1
    <3>3. Tried(f, 0, s, o, i, ts, hr) BY <3>2, Zenon DEF Tried
    <3> QED BY <2>3, <2>4, <3>3
  <2>5. CASE m # 0
    <3>1. m - 1 \in Nat /\ m - 1 + 1 = m /\ ~(m <= m - 1) BY <2>3, <2>5
    <3>2. m - 1 \notin B BY <2>2, <3>1
    <3>3. PICK f : Tried(f, m - 1, s, o, i, ts, hr) BY <3>1, <3>2
    <3>4. \E g : Tried(g, m - 1 + 1, s, o, i, ts, hr) BY <3>1, <3>3, TriedLonger
    <3> QED BY <2>3, <3>1, <3>4
  <2> QED BY <2>4, <2>5
<1> QED BY <1>2

LEMMA TriedDoes ==
  ASSUME NEW o \in P!OutPins, NEW i, i = Downstream[o], NEW s, Free(s, o, i), NEW ts \in Seq(MediaTypes), NEW hr,
         NEW f, Tried(f, Len(ts), s, o, i, ts, hr)
  PROVE  Attempted(s, f[Len(ts)], o, i)
<1> DEFINE B == {m \in 0..Len(ts) : ~Attempted(s, f[m], o, i)}
<1>1. Len(ts) \in Nat /\ Len(ts) \in 0..Len(ts) OBVIOUS
<1>2. \A k \in 0..Len(ts) :
        f[k] = IF k = 0 THEN [ok |-> FALSE, s |-> s] ELSE TryNext(f[k - 1], o, i, ts[k], hr[k])
  BY Zenon DEF Tried
<1>3. ASSUME B # {} PROVE FALSE
  <2>1. B \subseteq Nat OBVIOUS
  <2>2. PICK m \in B : \A j \in B : m <= j
    <3> HIDE DEF B
    <3> QED BY <1>3, <2>1, LeastNumber
  <2>3. m \in 0..Len(ts) /\ ~Attempted(s, f[m], o, i) BY <2>2
  <2>4. CASE m = 0
    <3>1. f[m] = [ok |-> FALSE, s |-> s] BY <1>2, <2>3, <2>4
    <3>2. Failed(s, s, o, i) BY FailedAtOnce
    <3>3. f[m].ok = FALSE /\ f[m].s = s BY <3>1
    <3>4. Attempted(s, f[m], o, i) BY <3>2, <3>3, Zenon DEF Attempted
    <3> QED BY <2>3, <3>4
  <2>5. CASE m # 0
    <3>1. m - 1 \in 0..Len(ts) /\ ~(m <= m - 1) /\ m \in 1..Len(ts) BY <1>1, <2>3, <2>5
    <3>2. m - 1 \notin B BY <2>2, <3>1
    <3>3. Attempted(s, f[m - 1], o, i) BY <3>1, <3>2
    <3>4. f[m] = TryNext(f[m - 1], o, i, ts[m], hr[m]) BY <1>2, <2>3, <2>5
    <3>5. ts[m] \in MediaTypes BY <3>1
    <3>6. PICK r : r = f[m - 1] OBVIOUS
    <3>7. CASE r.ok = TRUE
      <4>1. f[m] = r BY <3>4, <3>6, <3>7, Zenon DEF TryNext
      <4> QED BY <2>3, <3>3, <3>6, <4>1
    <3>8. CASE r.ok = FALSE
      <4>1. f[m] = P!AttemptConnection(r.s, o, i, ts[m], hr[m]) BY <3>4, <3>6, <3>8, Zenon DEF TryNext
      <4>2. Failed(s, r.s, o, i) BY <3>3, <3>6, <3>8 DEF Attempted
      <4>3. Free(r.s, o, i) BY <4>2, FailedAgain
      <4>4. Attempted(r.s, f[m], o, i) BY <3>5, <4>1, <4>3, AttemptConnectionDoes
      <4>5. PICK t : t = r.s OBVIOUS
      <4>6. PICK u : u = f[m].s OBVIOUS
      <4>7. (Failed(t, u, o, i) => Failed(s, u, o, i)) /\ (Made(t, u, o, i) => Made(s, u, o, i))
        BY <4>2, <4>5, FailedAgain
      <4>8. Attempted(s, f[m], o, i) BY <4>4, <4>5, <4>6, <4>7, Zenon DEF Attempted
      <4> QED BY <2>3, <4>8
    <3> QED BY <3>3, <3>6, <3>7, <3>8, Zenon DEF Attempted
  <2> QED BY <2>4, <2>5
<1> QED BY <1>1, <1>3

LEMMA TryMediaTypesDoes ==
  ASSUME NEW o \in P!OutPins, NEW i, i = Downstream[o], NEW s, Free(s, o, i), NEW ts \in Seq(MediaTypes), NEW hr
  PROVE  Attempted(s, P!TryMediaTypes(s, o, i, ts, hr), o, i)
<1> DEFINE f == CHOOSE f : f = [k \in 0..Len(ts) |-> IF k = 0 THEN [ok |-> FALSE, s |-> s]
                                                    ELSE IF f[k - 1].ok THEN f[k - 1]
                                                    ELSE P!AttemptConnection(f[k - 1].s, o, i, ts[k], hr[k])]
<1>1. Len(ts) \in Nat OBVIOUS
<1>2. \E g : Tried(g, Len(ts), s, o, i, ts, hr) BY <1>1, TriedExists
<1>3. f = [k \in 0..Len(ts) |-> IF k = 0 THEN [ok |-> FALSE, s |-> s]
                               ELSE IF f[k - 1].ok THEN f[k - 1]
                               ELSE P!AttemptConnection(f[k - 1].s, o, i, ts[k], hr[k])]
  BY <1>2, Zenon DEF Tried, TryNext
<1>4. P!TryMediaTypes(s, o, i, ts, hr) = f[Len(ts)] BY Zenon DEF P!TryMediaTypes
<1> HIDE DEF f
<1>5. Tried(f, Len(ts), s, o, i, ts, hr) BY <1>3, Zenon DEF Tried, TryNext
<1>6. Attempted(s, f[Len(ts)], o, i) BY <1>5, TriedDoes
<1> QED BY <1>4, <1>6

LEMMA AgreeMediaTypeDoes ==
  ASSUME NEW o \in P!OutPins, NEW i, i = Downstream[o], NEW s, Free(s, o, i),
         NEW pmt \in MediaTypes \cup {None}, NEW hr
  PROVE  Attempted(s, P!AgreeMediaType(s, o, i, pmt, hr), o, i)
<1>1. CASE pmt # None
  <2>1. Attempted(s, P!AttemptConnection(s, o, i, pmt, hr[1]), o, i) BY <1>1, AttemptConnectionDoes
  <2> QED BY <1>1, <2>1 DEF P!AgreeMediaType
<1>2. CASE pmt = None
  <2>1. o \in P!Pin /\ i \in P!Pin BY PinPair
  <2>2. Proposes[o] \in Seq(MediaTypes) /\ Proposes[i] \in Seq(MediaTypes) BY <2>1, PinsAssumption
  <2>3. P!Candidates(o, i) \in Seq(MediaTypes) BY <2>2 DEF P!Candidates
  <2>4. Attempted(s, P!TryMediaTypes(s, o, i, P!Candidates(o, i), hr), o, i) BY <2>3, TryMediaTypesDoes
  <2> QED BY <1>2, <2>4 DEF P!AgreeMediaType
<1> QED BY <1>1, <1>2

LEMMA FilterOfPin ==
  /\ \A p \in P!Pin : /\ P!filterOf[p] \in Filters
                      /\ \E k \in DOMAIN PinsOf[P!filterOf[p]] : PinsOf[P!filterOf[p]][k] = p
  /\ \A f \in Filters : \A k \in DOMAIN PinsOf[f] : PinsOf[f][k] \in P!Pin /\ P!filterOf[PinsOf[f][k]] = f
<1>1. \A ps : P!Range(ps) = {ps[k] : k \in DOMAIN ps} /\ Range(ps) = {ps[k] : k \in DOMAIN ps}
  BY Zenon DEF P!Range, Range
<1>2. ASSUME NEW p \in P!Pin
      PROVE  /\ P!filterOf[p] \in Filters /\ p \in P!Range(PinsOf[P!filterOf[p]])
             /\ \A g \in Filters : p \in P!Range(PinsOf[g]) => g = P!filterOf[p]
  <2>1. PICK f \in Filters : \A g \in Filters : p \in Range(PinsOf[g]) <=> g = f BY PinsAssumption
  <2>2. \A g \in Filters : p \in P!Range(PinsOf[g]) <=> g = f BY <1>1, <2>1
  <2>3. P!filterOf[p] = CHOOSE g \in Filters : p \in P!Range(PinsOf[g]) BY DEF P!filterOf
  <2>4. PICK x : x = CHOOSE g \in Filters : p \in P!Range(PinsOf[g]) OBVIOUS
  <2>5. x \in Filters /\ p \in P!Range(PinsOf[x]) BY <2>2, <2>4
  <2> QED BY <2>2, <2>3, <2>4, <2>5
<1>3. ASSUME NEW p \in P!Pin
      PROVE  \E k \in DOMAIN PinsOf[P!filterOf[p]] : PinsOf[P!filterOf[p]][k] = p
  BY <1>1, <1>2
<1>4. ASSUME NEW f \in Filters, NEW k \in DOMAIN PinsOf[f]
      PROVE  PinsOf[f][k] \in P!Pin /\ P!filterOf[PinsOf[f][k]] = f
  <2>1. PinsOf[f] \in Seq(P!Pin) BY PinsAssumption
  <2>2. PinsOf[f][k] \in P!Pin BY <2>1
  <2>3. PinsOf[f][k] \in P!Range(PinsOf[f]) BY <1>1
  <2> QED BY <1>2, <2>2, <2>3
<1> QED BY <1>2, <1>3, <1>4

LEMMA PinsTyped ==
  ASSUME PinsInv
  PROVE  /\ P!Now \in PinRec /\ P!Now.peer = m_Connected /\ P!Now.mt = m_mt /\ P!Now.alloc = m_pAllocator
         /\ P!Now.input = m_pInputPin /\ P!Now.committed = committed
         /\ m_Connected \in [P!Pin -> P!Pin \cup {None}] /\ m_mt \in [P!Pin -> MediaTypes \cup {None}]
         /\ m_pAllocator \in [P!Pin -> P!Pin \cup {None}] /\ m_pInputPin \subseteq P!OutPins
         /\ committed \subseteq P!Pin
<1>1. P!TypeOK BY DEF PinsInv, P!PinsHold
<1> QED BY <1>1 DEF P!TypeOK, P!Now, PinRec

\* What an attempt on a pin that is not connected makes of the pins.
LEMMA ConnectKeepsPins ==
  ASSUME PinsInv, NEW o \in P!OutPins, NEW i, i = Downstream[o], NEW t, m_Connected[o] = None,
         \/ Failed(P!Now, t, o, i) /\ cut' = cut
         \/ Made(P!Now, t, o, i) /\ cut' = cut \ {o, i},
         m_Connected' = t.peer, m_mt' = t.mt, m_pAllocator' = t.alloc, m_pInputPin' = t.input,
         committed' = t.committed, UNCHANGED <<m_State, m_bFlushing, m_bRunTimeError, stuck>>
  PROVE  PinsInv'
<1>1. /\ o \in P!Pin /\ i \in P!Pin /\ o # i /\ o # None /\ i # None /\ i \in P!InPins /\ i \notin P!OutPins
      /\ \A q \in P!OutPins : /\ q # o => q \notin {o, i} /\ Downstream[q] \notin {o, i}
                              /\ q \in P!Pin /\ Downstream[q] \in P!Pin /\ q # None /\ Downstream[q] # None
  BY PinPair
<1>2. /\ P!TypeOK /\ P!JoinedAlike /\ P!NothingHalfMade /\ P!NoMemoryWhenStopped /\ P!ErrorsEndWithStop
      /\ PinsPaired /\ HalfLinksStopped /\ CommittedHeld /\ ErrorsConnected
  BY DEF PinsInv, P!PinsHold
<1>3. /\ m_Connected' \in [P!Pin -> P!Pin \cup {None}] /\ m_mt' \in [P!Pin -> MediaTypes \cup {None}]
      /\ m_pAllocator' \in [P!Pin -> P!Pin \cup {None}] /\ m_pInputPin' \subseteq P!OutPins
      /\ committed' \subseteq P!Pin /\ committed' \subseteq committed
      /\ \A p \in P!Pin \ {o, i} : /\ m_Connected'[p] = m_Connected[p] /\ m_mt'[p] = m_mt[p]
                                   /\ m_pAllocator'[p] = m_pAllocator[p]
      /\ \A q \in P!OutPins \ {o} : q \in m_pInputPin' <=> q \in m_pInputPin
  <2>1. t \in PinRec /\ OthersKept(P!Now, t, o, i) BY DEF Failed, Made, Free
  <2>2. /\ t.peer \in [P!Pin -> P!Pin \cup {None}] /\ t.mt \in [P!Pin -> MediaTypes \cup {None}]
        /\ t.alloc \in [P!Pin -> P!Pin \cup {None}] /\ t.input \subseteq P!OutPins /\ t.committed \subseteq P!Pin
    BY <2>1 DEF PinRec
  <2>3. /\ \A p \in P!Pin \ {o, i} : t.peer[p] = m_Connected[p] /\ t.mt[p] = m_mt[p] /\ t.alloc[p] = m_pAllocator[p]
        /\ \A q \in P!OutPins \ {o} : q \in t.input <=> q \in m_pInputPin
        /\ t.committed \subseteq committed
    BY <2>1, PinsTyped DEF OthersKept
  <2> QED BY <2>2, <2>3
<1>4. \/ /\ m_Connected'[o] = None /\ m_pAllocator'[o] = None /\ o \notin m_pInputPin' /\ cut' = cut
         /\ m_Connected'[i] = m_Connected[i] /\ m_pAllocator'[i] = m_pAllocator[i]
      \/ /\ m_Connected'[o] = i /\ m_Connected'[i] = o /\ o \in m_pInputPin' /\ cut' = cut \ {o, i}
         /\ m_mt'[o] = m_mt'[i] /\ m_mt'[o] \in Accepts[o] \cap Accepts[i]
         /\ m_pAllocator'[o] = m_pAllocator'[i] /\ m_pAllocator'[o] \in {o, i}
  BY PinsTyped DEF Failed, Made, Free
<1>5. P!TypeOK'
  <2>1. cut' \subseteq P!Pin BY <1>2 DEF P!TypeOK
  <2> QED BY <1>2, <1>3, <2>1 DEF P!TypeOK
<1>6. P!JoinedAlike'
  <2>1. ASSUME NEW q \in P!OutPins
        PROVE  P!Joined(q, Downstream[q])' =>
                 /\ m_mt'[q] = m_mt'[Downstream[q]] /\ m_mt'[q] \in Accepts[q] \cap Accepts[Downstream[q]]
                 /\ m_pAllocator'[q] = m_pAllocator'[Downstream[q]] /\ m_pAllocator'[q] # None
                 /\ q \in m_pInputPin'
    <3>1. CASE q = o BY <1>1, <1>4, <3>1 DEF P!Joined
    <3>2. CASE q # o BY <1>1, <1>2, <1>3, <3>2 DEF P!Joined, P!JoinedAlike
    <3> QED BY <3>1, <3>2
  <2> QED BY <2>1 DEF P!JoinedAlike
<1>7. P!NothingHalfMade'
  <2>1. ASSUME NEW q \in P!OutPins
        PROVE  /\ m_Connected'[q] = None /\ m_Connected'[Downstream[q]] # None => q \in cut'
               /\ m_Connected'[Downstream[q]] = None /\ m_Connected'[q] # None => Downstream[q] \in cut'
               /\ m_Connected'[q] = None => m_pAllocator'[q] = None /\ q \notin m_pInputPin'
               /\ m_Connected'[Downstream[q]] = None => m_pAllocator'[Downstream[q]] = None
    <3>1. CASE q = o BY <1>1, <1>2, <1>4, <3>1 DEF P!NothingHalfMade
    <3>2. CASE q # o
      <4>1. q \in cut' <=> q \in cut BY <1>1, <3>2
      <4>2. Downstream[q] \in cut' <=> Downstream[q] \in cut BY <1>1, <3>2
      <4> QED BY <1>1, <1>2, <1>3, <3>2, <4>1, <4>2 DEF P!NothingHalfMade
    <3> QED BY <3>1, <3>2
  <2> QED BY <2>1 DEF P!NothingHalfMade
<1>8. m_pAllocator'[o] \notin committed'
  <2>1. m_pAllocator[o] = None BY <1>2 DEF P!NothingHalfMade
  <2>2. None \notin committed' BY <1>3, PinsAssumption
  <2>3. ASSUME NEW a \in {o, i}, a \in committed PROVE FALSE
    <3>1. PICK q \in P!OutPins : m_pAllocator[q] = a BY <1>2, <2>3 DEF CommittedHeld
    <3>2. a \in {None, q, Downstream[q]} BY <1>2, <3>1 DEF PinsPaired
    <3>3. q = o BY <1>1, <3>2
    <3> QED BY <1>1, <2>1, <3>1, <3>3
  <2> QED BY <1>3, <1>4, <2>2, <2>3
<1>9. P!NoMemoryWhenStopped'
  <2>1. ASSUME NEW q \in P!OutPins, m_pAllocator'[q] \in committed'
        PROVE  ~P!IsStopped(q)' \/ P!filterOf[q] \in stuck'
    <3>1. q # o BY <1>8, <2>1
    <3>2. m_pAllocator[q] \in committed BY <1>1, <1>3, <2>1, <3>1
    <3> QED BY <1>2, <3>2 DEF P!NoMemoryWhenStopped, P!IsStopped
  <2> QED BY <2>1 DEF P!NoMemoryWhenStopped
<1>10. P!ErrorsEndWithStop' BY <1>2 DEF P!ErrorsEndWithStop, P!IsStopped
<1>11. PinsPaired'
  <2>1. ASSUME NEW q \in P!OutPins
        PROVE  /\ m_Connected'[q] \in {None, Downstream[q]} /\ m_Connected'[Downstream[q]] \in {None, q}
               /\ m_pAllocator'[q] \in {None, q, Downstream[q]}
    <3>1. CASE q = o BY <1>1, <1>2, <1>4, <3>1 DEF PinsPaired
    <3>2. CASE q # o BY <1>1, <1>2, <1>3, <3>2 DEF PinsPaired
    <3> QED BY <3>1, <3>2
  <2> QED BY <2>1 DEF PinsPaired
<1>12. HalfLinksStopped'
  <2>1. ASSUME NEW q \in P!OutPins, m_Connected'[q] # None, m_Connected'[Downstream[q]] = None
        PROVE  P!IsStopped(Downstream[q])'
    <3>1. q # o BY <1>1, <1>4, <2>1
    <3>2. P!IsStopped(Downstream[q]) BY <1>1, <1>2, <1>3, <2>1, <3>1 DEF HalfLinksStopped
    <3> QED BY <3>2 DEF P!IsStopped
  <2> QED BY <2>1 DEF HalfLinksStopped
<1>13. CommittedHeld'
  <2>1. ASSUME NEW a \in committed' PROVE \E q \in P!OutPins : m_pAllocator'[q] = a
    <3>1. PICK q \in P!OutPins : m_pAllocator[q] = a BY <1>2, <1>3 DEF CommittedHeld
    <3>2. m_pAllocator[o] = None BY <1>2 DEF P!NothingHalfMade
    <3>3. a # None BY <1>3, PinsAssumption
    <3> QED BY <1>1, <1>3, <3>1, <3>2, <3>3
  <2> QED BY <2>1 DEF CommittedHeld
<1>14. ErrorsConnected'
  <2>1. ASSUME NEW e \in m_bRunTimeError PROVE m_Connected'[e] # None
    <3>1. e \in P!InPins /\ m_Connected[e] # None BY <1>2 DEF ErrorsConnected, P!TypeOK
    <3>2. e \in P!Pin /\ e # o BY <3>1, PinsAssumption DEF P!Pin
    <3>3. CASE e = i BY <1>1, <1>4, <3>1, <3>3
    <3>4. CASE e # i BY <1>3, <3>1, <3>2, <3>4
    <3> QED BY <3>3, <3>4
  <2> QED BY <2>1 DEF ErrorsConnected
<1> QED BY <1>5, <1>6, <1>7, <1>9, <1>10, <1>11, <1>12, <1>13, <1>14 DEF PinsInv, P!PinsHold

LEMMA ConnectStep ==
  ASSUME PinsInv, NEW o \in P!OutPins, NEW pmt \in MediaTypes \cup {None}, NEW hr,
         P!Connect(o, Downstream[o], pmt, hr)
  PROVE  PinsInv'
<1>1. PICK i : i = Downstream[o] OBVIOUS
<1>2. PICK r : r = P!AgreeMediaType(P!Now, o, i, pmt, hr) OBVIOUS
<1>3. PICK t : t = IF r.ok THEN r.s ELSE P!BreakConnect(r.s, o) OBVIOUS
<1>4. /\ m_Connected[o] = None /\ m_Connected' = t.peer /\ m_mt' = t.mt /\ m_pAllocator' = t.alloc
      /\ m_pInputPin' = t.input /\ committed' = t.committed
      /\ cut' = IF r.ok THEN cut \ {o, i} ELSE cut
      /\ UNCHANGED <<m_State, m_bFlushing, m_bRunTimeError, stuck>>
  BY <1>1, <1>2, <1>3, Zenon DEF P!Connect, P!streamVars
<1>5. Free(P!Now, o, i)
  <2>1. P!NothingHalfMade /\ PinsPaired BY DEF PinsInv, P!PinsHold
  <2>2. /\ m_pAllocator[o] = None /\ o \notin m_pInputPin /\ m_Connected[i] \in {None, o}
        /\ (m_Connected[i] = None => m_pAllocator[i] = None)
    BY <1>1, <1>4, <2>1 DEF P!NothingHalfMade, PinsPaired
  <2> QED BY <1>4, <2>2, PinsTyped DEF Free
<1>6. Attempted(P!Now, r, o, i) BY <1>1, <1>2, <1>5, AgreeMediaTypeDoes
<1>7. CASE r.ok = TRUE /\ Made(P!Now, r.s, o, i)
  <2>1. t = r.s /\ cut' = cut \ {o, i} BY <1>3, <1>4, <1>7
  <2>2. Made(P!Now, t, o, i) BY <1>7, <2>1
  <2> QED BY <1>1, <1>4, <2>1, <2>2, ConnectKeepsPins
<1>8. CASE r.ok = FALSE /\ Failed(P!Now, r.s, o, i)
  <2>1. PICK u : u = r.s OBVIOUS
  <2>2. t = P!BreakConnect(u, o) /\ cut' = cut BY <1>3, <1>4, <1>8, <2>1
  <2>3. Failed(P!Now, u, o, i) BY <1>8, <2>1
  <2>4. o \in P!Pin /\ i \in P!Pin /\ o # i BY <1>1, PinPair
  <2>5. u \in PinRec /\ u.peer[o] = None /\ u.alloc[o] = None /\ o \notin u.input BY <2>3 DEF Failed, Free
  <2>6. /\ t \in PinRec /\ t.peer = u.peer /\ t.mt = u.mt /\ t.alloc = [u.alloc EXCEPT ![o] = None]
        /\ t.input = u.input \ {o} /\ t.committed = u.committed \ {u.alloc[o]}
    BY <2>2, <2>4, <2>5, BreakConnectDoes
  <2>7. u.alloc \in [P!Pin -> P!Pin \cup {None}] BY <2>5 DEF PinRec
  <2>8. t.alloc = u.alloc /\ t.input = u.input /\ t.committed \subseteq u.committed BY <2>5, <2>6, <2>7
  <2>9. OthersKept(u, t, o, i) BY <2>6, <2>8 DEF OthersKept
  <2>10. Failed(u, t, o, i)
    <3>1. Free(u, o, i) BY <2>3 DEF Failed
    <3> QED BY <1>1, <2>5, <2>6, <2>8, <2>9, <3>1, FailedIsFree
  <2>11. Failed(P!Now, t, o, i) BY <1>1, <2>3, <2>10, FailedAgain
  <2> QED BY <1>1, <1>4, <2>2, <2>11, ConnectKeepsPins
<1> QED BY <1>6, <1>7, <1>8, Zenon DEF Attempted

LEMMA DisconnectStep ==
  ASSUME PinsInv, NEW p \in P!Pin, P!Disconnect(p)
  PROVE  PinsInv'
<1>1. /\ P!TypeOK /\ P!JoinedAlike /\ P!NothingHalfMade /\ P!NoMemoryWhenStopped /\ P!ErrorsEndWithStop
      /\ PinsPaired /\ HalfLinksStopped /\ CommittedHeld /\ ErrorsConnected
  BY DEF PinsInv, P!PinsHold
<1>2. PICK u : u = P!BreakConnect(P!Now, p) OBVIOUS
<1>3. PICK t : t = P!Disconnected(P!Now, p) OBVIOUS
<1>4. /\ m_Connected[p] # None /\ P!IsStopped(p) /\ m_Connected' = t.peer /\ m_pAllocator' = t.alloc
      /\ m_pInputPin' = t.input /\ committed' = t.committed /\ cut' = cut \cup {p}
      /\ UNCHANGED <<m_State, m_mt, m_bFlushing, m_bRunTimeError, stuck>>
  BY <1>3, Zenon DEF P!Disconnect, P!streamVars
<1>5. t = [u EXCEPT !.peer[p] = None]
  <2>1. P!Now.peer[p] # None BY <1>4, PinsTyped
  <2> QED BY <1>2, <1>3, <1>4, <2>1 DEF P!Disconnected
<1>6. /\ u \in PinRec /\ u.peer = m_Connected /\ u.mt = m_mt /\ u.alloc = [m_pAllocator EXCEPT ![p] = None]
      /\ u.input = m_pInputPin \ {p} /\ u.committed = committed \ {m_pAllocator[p]}
  <2>1. PICK s : s = P!Now OBVIOUS
  <2>2. /\ s \in PinRec /\ s.peer = m_Connected /\ s.mt = m_mt /\ s.alloc = m_pAllocator
        /\ s.input = m_pInputPin /\ s.committed = committed
    BY <2>1, PinsTyped
  <2>3. /\ u \in PinRec /\ u.peer = s.peer /\ u.mt = s.mt /\ u.alloc = [s.alloc EXCEPT ![p] = None]
        /\ u.input = s.input \ {p} /\ u.committed = s.committed \ {s.alloc[p]}
    BY <1>2, <2>1, <2>2, BreakConnectDoes
  <2> QED BY <2>2, <2>3
<1>7. None \in P!Pin \cup {None} OBVIOUS
<1>8. /\ t.peer = [u.peer EXCEPT ![p] = None] /\ t.alloc = u.alloc /\ t.input = u.input
      /\ t.committed = u.committed
  BY <1>5, <1>6, <1>7, PeerSet
<1>9. /\ m_Connected' = [m_Connected EXCEPT ![p] = None] /\ m_pAllocator' = [m_pAllocator EXCEPT ![p] = None]
      /\ m_pInputPin' = m_pInputPin \ {p} /\ committed' = committed \ {m_pAllocator[p]}
  BY <1>4, <1>6, <1>8
<1>10. /\ m_Connected' \in [P!Pin -> P!Pin \cup {None}] /\ m_pAllocator' \in [P!Pin -> P!Pin \cup {None}]
       /\ m_Connected'[p] = None /\ m_pAllocator'[p] = None
       /\ \A q \in P!Pin \ {p} : m_Connected'[q] = m_Connected[q] /\ m_pAllocator'[q] = m_pAllocator[q]
  BY <1>9, PinsTyped
<1>11. \A o \in P!OutPins : o \in P!Pin /\ Downstream[o] \in P!Pin /\ o # Downstream[o] /\ o # None /\ Downstream[o] # None
  BY PinPair
<1>12. m_mt' = m_mt /\ m_State' = m_State /\ m_bRunTimeError' = m_bRunTimeError /\ stuck' = stuck BY <1>4
<1>13. P!TypeOK'
  <2>1. m_pInputPin' \subseteq P!OutPins /\ committed' \subseteq P!Pin /\ cut' \subseteq P!Pin
    BY <1>1, <1>4, <1>9 DEF P!TypeOK
  <2> QED BY <1>1, <1>4, <1>10, <2>1 DEF P!TypeOK
<1>14. P!JoinedAlike'
  <2>1. ASSUME NEW q \in P!OutPins, P!Joined(q, Downstream[q])'
        PROVE  /\ m_mt'[q] = m_mt'[Downstream[q]] /\ m_mt'[q] \in Accepts[q] \cap Accepts[Downstream[q]]
               /\ m_pAllocator'[q] = m_pAllocator'[Downstream[q]] /\ m_pAllocator'[q] # None
               /\ q \in m_pInputPin'
    <3>1. q # p /\ Downstream[q] # p BY <1>10, <1>11, <2>1 DEF P!Joined
    <3>2. P!Joined(q, Downstream[q]) BY <1>10, <1>11, <2>1, <3>1 DEF P!Joined
    <3> QED BY <1>1, <1>9, <1>10, <1>11, <1>12, <3>1, <3>2 DEF P!JoinedAlike
  <2> QED BY <2>1 DEF P!JoinedAlike
<1>15. P!NothingHalfMade'
  <2>1. ASSUME NEW q \in P!OutPins
        PROVE  /\ m_Connected'[q] = None /\ m_Connected'[Downstream[q]] # None => q \in cut'
               /\ m_Connected'[Downstream[q]] = None /\ m_Connected'[q] # None => Downstream[q] \in cut'
               /\ m_Connected'[q] = None => m_pAllocator'[q] = None /\ q \notin m_pInputPin'
               /\ m_Connected'[Downstream[q]] = None => m_pAllocator'[Downstream[q]] = None
    <3>1. \A x \in P!Pin : m_Connected'[x] = None => x = p \/ m_Connected[x] = None BY <1>10
    <3>2. \A x \in P!Pin : m_Connected'[x] # None => m_Connected[x] # None BY <1>10
    <3>3. p \in cut' /\ cut \subseteq cut' BY <1>4
    <3>4. q \in m_pInputPin' => q \in m_pInputPin /\ q # p BY <1>9
    <3>5. \A x \in P!Pin : m_pAllocator[x] = None => m_pAllocator'[x] = None BY <1>10
    <3> QED BY <1>1, <1>10, <1>11, <3>1, <3>2, <3>3, <3>4, <3>5 DEF P!NothingHalfMade
  <2> QED BY <2>1 DEF P!NothingHalfMade
<1>16. P!NoMemoryWhenStopped'
  <2>1. ASSUME NEW q \in P!OutPins, m_pAllocator'[q] \in committed'
        PROVE  ~P!IsStopped(q)' \/ P!filterOf[q] \in stuck'
    <3>1. m_pAllocator'[q] # None BY <1>1, <1>9, <2>1, PinsAssumption DEF P!TypeOK
    <3>2. m_pAllocator[q] \in committed BY <1>9, <1>10, <1>11, <2>1, <3>1
    <3> QED BY <1>1, <1>12, <3>2 DEF P!NoMemoryWhenStopped, P!IsStopped
  <2> QED BY <2>1 DEF P!NoMemoryWhenStopped
<1>17. P!ErrorsEndWithStop' BY <1>1, <1>12 DEF P!ErrorsEndWithStop, P!IsStopped
<1>18. PinsPaired' BY <1>1, <1>10, <1>11 DEF PinsPaired
<1>19. HalfLinksStopped'
  <2>1. ASSUME NEW q \in P!OutPins, m_Connected'[q] # None, m_Connected'[Downstream[q]] = None
        PROVE  P!IsStopped(Downstream[q])
    <3>1. CASE Downstream[q] = p BY <1>4, <3>1
    <3>2. CASE Downstream[q] # p BY <1>1, <1>10, <1>11, <2>1, <3>2 DEF HalfLinksStopped
    <3> QED BY <3>1, <3>2
  <2> QED BY <1>12, <2>1 DEF HalfLinksStopped, P!IsStopped
<1>20. CommittedHeld'
  <2>1. ASSUME NEW a \in committed' PROVE \E q \in P!OutPins : m_pAllocator'[q] = a
    <3>1. a \in committed /\ a # m_pAllocator[p] BY <1>9
    <3>2. PICK q \in P!OutPins : m_pAllocator[q] = a BY <1>1, <3>1 DEF CommittedHeld
    <3> QED BY <1>10, <1>11, <3>1, <3>2
  <2> QED BY <2>1 DEF CommittedHeld
<1>21. ErrorsConnected'
  <2>1. ASSUME NEW e \in m_bRunTimeError PROVE m_Connected'[e] # None
    <3>1. ~P!IsStopped(e) /\ m_Connected[e] # None /\ e \in P!Pin
      BY <1>1 DEF P!ErrorsEndWithStop, ErrorsConnected, P!TypeOK, P!Pin
    <3> QED BY <1>4, <1>10, <3>1
  <2> QED BY <1>12, <2>1 DEF ErrorsConnected
<1> QED BY <1>13, <1>14, <1>15, <1>16, <1>17, <1>18, <1>19, <1>20, <1>21 DEF PinsInv, P!PinsHold

\* What state changes and streaming leave alone, and what then remains to show.
LEMMA ConnectionsKept ==
  ASSUME PinsInv, UNCHANGED <<m_Connected, m_mt, m_pAllocator, m_pInputPin, cut>>,
         P!TypeOK', P!NoMemoryWhenStopped', P!ErrorsEndWithStop', HalfLinksStopped', CommittedHeld', ErrorsConnected'
  PROVE  PinsInv'
<1>1. P!JoinedAlike' BY DEF PinsInv, P!PinsHold, P!JoinedAlike, P!Joined
<1>2. P!NothingHalfMade' BY DEF PinsInv, P!PinsHold, P!NothingHalfMade
<1>3. PinsPaired' BY DEF PinsInv, PinsPaired
<1> QED BY <1>1, <1>2, <1>3 DEF PinsInv, P!PinsHold

LEMMA ActivateStep ==
  ASSUME PinsInv, NEW f \in Filters, NEW memory, NEW target \in {"Paused", "Running"},
         P!Activate(f, memory, target)
  PROVE  PinsInv'
<1>1. /\ P!TypeOK /\ P!NothingHalfMade /\ P!NoMemoryWhenStopped /\ P!ErrorsEndWithStop
      /\ PinsPaired /\ HalfLinksStopped /\ CommittedHeld /\ ErrorsConnected
  BY DEF PinsInv, P!PinsHold
<1> DEFINE ps   == PinsOf[f]
           bad  == {k \in P!ConnectedPins(f) : ~P!CanActivate(ps[k], memory[k])}
           upTo == {k \in P!ConnectedPins(f) : ps[k] \in P!OutPins /\ \A b \in bad : k < b}
<1>2. /\ m_State[f] = "Stopped" /\ P!NoHalfLink
      /\ committed' = committed \cup {m_pAllocator[ps[k]] : k \in upTo}
      /\ m_State' = (IF bad = {} THEN [m_State EXCEPT ![f] = target] ELSE m_State)
      /\ stuck' = (IF bad = {} THEN stuck \ {f} ELSE stuck \cup {f})
      /\ UNCHANGED <<m_Connected, m_mt, m_pAllocator, m_pInputPin, m_bFlushing, m_bRunTimeError, cut>>
  BY DEF P!Activate, P!streamVars
<1>3. \A k \in upTo : ps[k] \in P!OutPins /\ m_pAllocator[ps[k]] # None /\ P!filterOf[ps[k]] = f
  <2> TAKE k \in upTo
  <2>1. ps[k] \in P!OutPins /\ k \in P!ConnectedPins(f) /\ \A b \in bad : k < b OBVIOUS
  <2>2. k \in DOMAIN ps BY <2>1 DEF P!ConnectedPins
  <2>3. P!filterOf[ps[k]] = f BY <2>2, FilterOfPin
  <2>4. k \in Nat
    <3>1. ps \in Seq(P!Pin) BY PinsAssumption
    <3> QED BY <2>2, <3>1
  <2>5. ~(k < k) BY <2>4
  <2>6. k \notin bad BY <2>1, <2>5
  <2>7. P!CanActivate(ps[k], memory[k]) BY <2>1, <2>6
  <2> QED BY <2>1, <2>3, <2>7 DEF P!CanActivate
<1> HIDE DEF upTo, bad
<1>4. \A o \in P!OutPins : o \in P!Pin /\ Downstream[o] \in P!Pin /\ o # Downstream[o]
  BY PinPair
<1>5. \A o, q \in P!OutPins : m_pAllocator[o] # None /\ m_pAllocator[o] = m_pAllocator[q] => o = q
  BY <1>1, PinPair DEF PinsPaired
<1>6. /\ m_State' \in [Filters -> {"Stopped", "Paused", "Running"}] /\ stuck' \subseteq Filters
      /\ \A g \in Filters \ {f} : m_State'[g] = m_State[g] /\ (g \in stuck' <=> g \in stuck)
      /\ (m_State'[f] # "Stopped" \/ f \in stuck')
      /\ \A g \in Filters : m_State'[g] = "Stopped" => m_State[g] = "Stopped"
  BY <1>1, <1>2 DEF P!TypeOK
<1>7. P!TypeOK'
  <2>1. {m_pAllocator[ps[k]] : k \in upTo} \subseteq P!Pin BY <1>1, <1>3, <1>4 DEF P!TypeOK
  <2>2. committed' \subseteq P!Pin BY <1>1, <1>2, <2>1 DEF P!TypeOK
  <2> QED BY <1>1, <1>2, <1>6, <2>2 DEF P!TypeOK
<1>8. P!NoMemoryWhenStopped'
  <2>1. ASSUME NEW o \in P!OutPins, m_pAllocator[o] \in committed'
        PROVE  m_State'[P!filterOf[o]] # "Stopped" \/ P!filterOf[o] \in stuck'
    <3>1. P!filterOf[o] \in Filters BY <1>4, FilterOfPin
    <3>2. CASE P!filterOf[o] = f
      <4>1. m_State'[f] # "Stopped" \/ f \in stuck' BY <1>6, Zenon
      <4> QED BY <3>2, <4>1
    <3>3. CASE P!filterOf[o] # f
      <4>1. m_pAllocator[o] \in committed
        <5>1. ASSUME NEW k \in upTo, m_pAllocator[o] = m_pAllocator[ps[k]] PROVE FALSE
          BY <1>3, <1>5, <3>3, <5>1
        <5> QED BY <1>2, <2>1, <5>1
      <4>2. m_State[P!filterOf[o]] # "Stopped" \/ P!filterOf[o] \in stuck
        BY <1>1, <4>1 DEF P!NoMemoryWhenStopped, P!IsStopped
      <4> QED BY <1>6, <3>1, <3>3, <4>2
    <3> QED BY <3>2, <3>3
  <2> QED BY <1>2, <2>1 DEF P!NoMemoryWhenStopped, P!IsStopped
<1>9. P!ErrorsEndWithStop'
  <2>1. ASSUME NEW e \in m_bRunTimeError PROVE m_State'[P!filterOf[e]] # "Stopped"
    <3>1. e \in P!Pin BY <1>1 DEF P!TypeOK, P!Pin
    <3>2. P!filterOf[e] \in Filters BY <3>1, FilterOfPin
    <3>3. m_State[P!filterOf[e]] # "Stopped" BY <1>1 DEF P!ErrorsEndWithStop, P!IsStopped
    <3>4. PICK g : g = P!filterOf[e] OBVIOUS
    <3>5. \A x \in Filters : m_State'[x] = "Stopped" => m_State[x] = "Stopped" BY <1>6, Zenon
    <3> QED BY <3>2, <3>3, <3>4, <3>5
  <2> QED BY <1>2, <2>1 DEF P!ErrorsEndWithStop, P!IsStopped
<1>10. HalfLinksStopped' BY <1>2 DEF HalfLinksStopped, P!NoHalfLink
<1>11. CommittedHeld'
  <2>1. ASSUME NEW a \in committed' PROVE \E o \in P!OutPins : m_pAllocator[o] = a
    BY <1>1, <1>2, <1>3 DEF CommittedHeld
  <2> QED BY <1>2, <2>1 DEF CommittedHeld
<1>12. ErrorsConnected' BY <1>1, <1>2 DEF ErrorsConnected
<1> QED BY <1>2, <1>7, <1>8, <1>9, <1>10, <1>11, <1>12, ConnectionsKept

\* Pause of a running filter, Run of a paused one.
LEMMA StillActiveStep ==
  ASSUME PinsInv, NEW f \in Filters, NEW state \in {"Paused", "Running"}, m_State[f] # "Stopped",
         m_State' = [m_State EXCEPT ![f] = state],
         UNCHANGED <<m_Connected, m_mt, m_pAllocator, m_pInputPin, committed, m_bFlushing, m_bRunTimeError, stuck, cut>>
  PROVE  PinsInv'
<1>1. /\ P!TypeOK /\ P!NoMemoryWhenStopped /\ P!ErrorsEndWithStop /\ HalfLinksStopped /\ CommittedHeld /\ ErrorsConnected
  BY DEF PinsInv, P!PinsHold
<1>2. /\ m_State' \in [Filters -> {"Stopped", "Paused", "Running"}]
      /\ \A g \in Filters : m_State'[g] = "Stopped" <=> m_State[g] = "Stopped"
  BY <1>1 DEF P!TypeOK
<1>3. \A p \in P!Pin : P!IsStopped(p)' <=> P!IsStopped(p) BY <1>2, FilterOfPin DEF P!IsStopped
<1>4. P!TypeOK' BY <1>1, <1>2 DEF P!TypeOK
<1>5. P!NoMemoryWhenStopped' BY <1>1, <1>3, PinPair DEF P!NoMemoryWhenStopped
<1>6. P!ErrorsEndWithStop' BY <1>1, <1>3 DEF P!ErrorsEndWithStop, P!TypeOK, P!Pin
<1>7. HalfLinksStopped' BY <1>1, <1>3, PinPair DEF HalfLinksStopped
<1>8. CommittedHeld' /\ ErrorsConnected' BY <1>1 DEF CommittedHeld, ErrorsConnected
<1> QED BY <1>4, <1>5, <1>6, <1>7, <1>8, ConnectionsKept

LEMMA StopStep ==
  ASSUME PinsInv, NEW f \in Filters, P!Stop(f)
  PROVE  PinsInv'
<1>1. /\ P!TypeOK /\ P!NothingHalfMade /\ P!NoMemoryWhenStopped /\ P!ErrorsEndWithStop
      /\ PinsPaired /\ HalfLinksStopped /\ CommittedHeld /\ ErrorsConnected
  BY DEF PinsInv, P!PinsHold
<1> DEFINE ps == {PinsOf[f][k] : k \in P!ConnectedPins(f)}
<1>2. /\ m_State[f] # "Stopped" /\ m_State' = [m_State EXCEPT ![f] = "Stopped"]
      /\ m_bRunTimeError' = m_bRunTimeError \ ps /\ m_bFlushing' \subseteq m_bFlushing
      /\ committed' = committed \ {m_pAllocator[p] : p \in ps}
      /\ UNCHANGED <<m_Connected, m_mt, m_pAllocator, m_pInputPin, stuck, cut>>
  BY DEF P!Stop, P!InputInactive
<1>3. \A p \in P!Pin : P!filterOf[p] = f /\ m_Connected[p] # None => p \in ps
  <2> TAKE p \in P!Pin
  <2>1. PICK k \in DOMAIN PinsOf[P!filterOf[p]] : PinsOf[P!filterOf[p]][k] = p BY FilterOfPin
  <2> QED BY <2>1 DEF P!ConnectedPins
<1> HIDE DEF ps
<1>4. /\ m_State' \in [Filters -> {"Stopped", "Paused", "Running"}]
      /\ \A g \in Filters \ {f} : m_State'[g] = m_State[g]
      /\ m_State'[f] = "Stopped"
  BY <1>1, <1>2 DEF P!TypeOK
<1>5. P!TypeOK' BY <1>1, <1>2, <1>4 DEF P!TypeOK
<1>6. P!NoMemoryWhenStopped'
  <2>1. ASSUME NEW o \in P!OutPins, m_pAllocator[o] \in committed'
        PROVE  m_State'[P!filterOf[o]] # "Stopped" \/ P!filterOf[o] \in stuck
    <3>1. o \in P!Pin BY PinPair
    <3>2. P!filterOf[o] \in Filters BY <3>1, FilterOfPin
    <3>3. m_pAllocator[o] \in committed /\ o \notin ps BY <1>2, <2>1
    <3>4. m_pAllocator[o] # None BY <1>1, <3>3, PinsAssumption DEF P!TypeOK
    <3>5. m_Connected[o] # None BY <1>1, <3>4 DEF P!NothingHalfMade
    <3>6. P!filterOf[o] # f BY <1>3, <3>1, <3>3, <3>5
    <3>7. m_State[P!filterOf[o]] # "Stopped" \/ P!filterOf[o] \in stuck
      BY <1>1, <3>3 DEF P!NoMemoryWhenStopped, P!IsStopped
    <3> QED BY <1>4, <3>2, <3>6, <3>7
  <2> QED BY <1>2, <2>1 DEF P!NoMemoryWhenStopped, P!IsStopped
<1>7. P!ErrorsEndWithStop'
  <2>1. ASSUME NEW e \in m_bRunTimeError' PROVE m_State'[P!filterOf[e]] # "Stopped"
    <3>1. e \in m_bRunTimeError /\ e \notin ps BY <1>2
    <3>2. e \in P!Pin /\ m_Connected[e] # None BY <1>1, <3>1 DEF P!TypeOK, P!Pin, ErrorsConnected
    <3>3. P!filterOf[e] \in Filters /\ P!filterOf[e] # f BY <1>3, <3>1, <3>2, FilterOfPin
    <3>4. m_State[P!filterOf[e]] # "Stopped" BY <1>1, <3>1 DEF P!ErrorsEndWithStop, P!IsStopped
    <3> QED BY <1>4, <3>3, <3>4
  <2> QED BY <2>1 DEF P!ErrorsEndWithStop, P!IsStopped
<1>8. HalfLinksStopped'
  <2>1. \A p \in P!Pin : P!IsStopped(p) => P!IsStopped(p)' BY <1>1, <1>4, FilterOfPin DEF P!IsStopped
  <2> QED BY <1>1, <1>2, <2>1, PinPair DEF HalfLinksStopped
<1>9. CommittedHeld' BY <1>1, <1>2 DEF CommittedHeld
<1>10. ErrorsConnected' BY <1>1, <1>2 DEF ErrorsConnected
<1> QED BY <1>2, <1>5, <1>6, <1>7, <1>8, <1>9, <1>10, ConnectionsKept

\* Errors and flushes: of the input pin a connected output pin leads to.
LEMMA StreamStep ==
  ASSUME PinsInv, NEW o \in P!OutPins, NEW mt, P!Receive(o, mt) \/ P!BeginFlush(o) \/ P!EndFlush(o)
  PROVE  PinsInv'
<1>1. /\ P!TypeOK /\ P!NoMemoryWhenStopped /\ P!ErrorsEndWithStop
      /\ PinsPaired /\ HalfLinksStopped /\ CommittedHeld /\ ErrorsConnected
  BY DEF PinsInv, P!PinsHold
<1>2. PICK i : i = m_Connected[o] OBVIOUS
<1>3. /\ i # None /\ UNCHANGED <<m_State, m_Connected, m_mt, m_pAllocator, m_pInputPin, committed, stuck, cut>>
      /\ m_bFlushing' \subseteq m_bFlushing \cup {i}
      /\ \/ m_bRunTimeError' \subseteq m_bRunTimeError
         \/ m_bRunTimeError' = m_bRunTimeError \cup {i} /\ ~P!IsStopped(i)
  BY <1>2 DEF P!Receive, P!BeginFlush, P!EndFlush, P!CheckStreaming, P!pinVars
<1>4. i = Downstream[o] /\ i \in P!InPins BY <1>1, <1>2, <1>3, PinPair DEF PinsPaired
<1>5. P!TypeOK' BY <1>1, <1>3, <1>4 DEF P!TypeOK
<1>6. P!NoMemoryWhenStopped' BY <1>1, <1>3 DEF P!NoMemoryWhenStopped, P!IsStopped
<1>7. P!ErrorsEndWithStop' BY <1>1, <1>3 DEF P!ErrorsEndWithStop, P!IsStopped
<1>8. HalfLinksStopped' BY <1>1, <1>3 DEF HalfLinksStopped, P!IsStopped
<1>9. CommittedHeld' BY <1>1, <1>3 DEF CommittedHeld
<1>10. ErrorsConnected'
  <2>1. m_Connected[o] # None /\ m_Connected[Downstream[o]] = None => P!IsStopped(Downstream[o])
    BY <1>1 DEF HalfLinksStopped
  <2>2. m_Connected[i] = None => P!IsStopped(i) BY <1>2, <1>3, <1>4, <2>1
  <2> QED BY <1>1, <1>3, <2>2 DEF ErrorsConnected
<1> QED BY <1>3, <1>5, <1>6, <1>7, <1>8, <1>9, <1>10, ConnectionsKept

LEMMA PinsStep == ASSUME PinsInv, P!Next PROVE PinsInv'
<1>1. ASSUME NEW o \in P!OutPins, NEW pmt \in MediaTypes, NEW hr \in P!Outcome,
             P!Connect(o, Downstream[o], pmt, <<hr>>)
      PROVE  PinsInv'
  BY <1>1, ConnectStep
<1>2. ASSUME NEW o \in P!OutPins, NEW hr, P!Connect(o, Downstream[o], None, hr) PROVE PinsInv'
  BY <1>2, ConnectStep
<1>3. ASSUME NEW p \in P!Pin, P!Disconnect(p) PROVE PinsInv' BY <1>3, DisconnectStep
<1>4. ASSUME NEW f \in Filters, NEW memory, P!Pause(f, memory) \/ P!Run(f, memory) PROVE PinsInv'
  <2>1. CASE P!Activate(f, memory, "Paused") \/ P!Activate(f, memory, "Running") BY <2>1, ActivateStep
  <2>2. CASE ~(P!Activate(f, memory, "Paused") \/ P!Activate(f, memory, "Running"))
    <3>1. /\ m_State[f] # "Stopped"
          /\ \E state \in {"Paused", "Running"} : m_State' = [m_State EXCEPT ![f] = state]
          /\ UNCHANGED <<m_Connected, m_mt, m_pAllocator, m_pInputPin, committed, m_bFlushing, m_bRunTimeError,
                         stuck, cut>>
      BY <1>4, <2>2 DEF P!Pause, P!Run, P!pinVars, P!streamVars
    <3> QED BY <3>1, StillActiveStep
  <2> QED BY <2>1, <2>2
<1>5. ASSUME NEW f \in Filters, P!Stop(f) PROVE PinsInv' BY <1>5, StopStep
<1>6. ASSUME NEW o \in P!OutPins, NEW mt, P!Receive(o, mt) \/ P!BeginFlush(o) \/ P!EndFlush(o) PROVE PinsInv'
  BY <1>6, StreamStep
<1> QED BY <1>1, <1>2, <1>3, <1>4, <1>5, <1>6, Zenon DEF P!Next

LEMMA PinsInit == ASSUME P!Init PROVE PinsInv
<1>1. /\ m_State = [f \in Filters |-> "Stopped"] /\ m_Connected = [p \in P!Pin |-> None]
      /\ m_mt = [p \in P!Pin |-> None] /\ m_pAllocator = [p \in P!Pin |-> None]
      /\ m_pInputPin = {} /\ committed = {} /\ m_bFlushing = {} /\ m_bRunTimeError = {} /\ stuck = {} /\ cut = {}
  BY DEF P!Init, P!InitFilters, P!InitPins, P!InitOutputPins, P!InitInputPins
<1>2. P!TypeOK BY <1>1 DEF P!TypeOK
<1>3. \A p \in P!Pin : m_Connected[p] = None /\ m_pAllocator[p] = None BY <1>1
<1>4. \A o \in P!OutPins : o \in P!Pin /\ Downstream[o] \in P!Pin /\ o # None /\ Downstream[o] # None BY PinPair
<1>5. P!JoinedAlike /\ P!NothingHalfMade BY <1>1, <1>3, <1>4 DEF P!JoinedAlike, P!Joined, P!NothingHalfMade
<1>6. P!NoMemoryWhenStopped /\ P!ErrorsEndWithStop BY <1>1 DEF P!NoMemoryWhenStopped, P!ErrorsEndWithStop
<1>7. PinsPaired /\ HalfLinksStopped BY <1>3, <1>4 DEF PinsPaired, HalfLinksStopped
<1>8. CommittedHeld /\ ErrorsConnected BY <1>1 DEF CommittedHeld, ErrorsConnected
<1> QED BY <1>2, <1>5, <1>6, <1>7, <1>8 DEF PinsInv, P!PinsHold

LEMMA PinsKept == ASSUME PinsInv, UNCHANGED pinsVars PROVE PinsInv'
<1>1. UNCHANGED <<m_State, m_Connected, m_mt, m_pAllocator, m_pInputPin, committed, m_bFlushing,
                  m_bRunTimeError, stuck, cut>>
  BY DEF pinsVars
<1>2. /\ P!TypeOK /\ P!NoMemoryWhenStopped /\ P!ErrorsEndWithStop /\ HalfLinksStopped /\ CommittedHeld /\ ErrorsConnected
  BY DEF PinsInv, P!PinsHold
<1>3. P!TypeOK' BY <1>1, <1>2 DEF P!TypeOK
<1>4. P!NoMemoryWhenStopped' BY <1>1, <1>2 DEF P!NoMemoryWhenStopped, P!IsStopped
<1>5. P!ErrorsEndWithStop' BY <1>1, <1>2 DEF P!ErrorsEndWithStop, P!IsStopped
<1>6. HalfLinksStopped' BY <1>1, <1>2 DEF HalfLinksStopped, P!IsStopped
<1>7. CommittedHeld' /\ ErrorsConnected' BY <1>1, <1>2 DEF CommittedHeld, ErrorsConnected
<1> QED BY <1>1, <1>3, <1>4, <1>5, <1>6, <1>7, ConnectionsKept

-----------------------------------------------------------------------------
(* The conversion of samples (Pcm).                                        *)

\* Bounds, so that no range of numbers is spelled out.
Between(x, a, b) == x \in Int /\ a <= x /\ x <= b

\* An int32_t.
Word(x) == Between(x, -(2^31), 2^31 - 1)

LEMMA RangeBetween == ASSUME NEW a \in Int, NEW b \in Int, NEW x PROVE x \in a..b <=> Between(x, a, b)
BY SMT DEF Between

LEMMA WordIs == ASSUME NEW x PROVE x \in C!Range32 <=> Word(x)
<1>1. C!INT32_MIN = -(2^31) /\ C!INT32_MAX = 2^31 - 1 /\ C!INT32_MIN \in Int /\ C!INT32_MAX \in Int
  BY SMT DEF C!INT32_MIN, C!INT32_MAX
<1>2. x \in C!INT32_MIN..C!INT32_MAX <=> Between(x, C!INT32_MIN, C!INT32_MAX) BY <1>1, RangeBetween, SMT
<1> QED BY <1>1, <1>2, SMT DEF Word, C!Range32

LEMMA TypedAsU8 == ASSUME NEW s PROVE C!Typed("U8", s) <=> s \in 0..255
BY Zenon DEF C!Typed, C!Of32

LEMMA TypedAsS16 == ASSUME NEW s PROVE C!Typed("S16", s) <=> s \in -(2^15)..(2^15 - 1)
BY Zenon DEF C!Typed, C!Of32

LEMMA TypedAsS24 == ASSUME NEW s PROVE C!Typed("S24", s) <=> s \in Seq(0..255) /\ Len(s) = 3
BY Zenon DEF C!Typed, C!Of32

LEMMA TypedAsS32 == ASSUME NEW s PROVE C!Typed("S32", s) <=> s \in C!Range32
BY Zenon DEF C!Typed, C!Of32

LEMMA TypedAsOf32 ==
  ASSUME NEW s, NEW f \in C!Of32
  PROVE  C!Typed(f, s) <=> s \in C!Range32
<1>1. f # "U8" /\ f # "S16" /\ f # "S24" /\ f # "S32" /\ f # "Float" /\ f # "Double" BY DEF C!Of32
<1> QED BY <1>1, Zenon DEF C!Typed

LEMMA TypedAsFloat == ASSUME NEW s PROVE C!Typed("Float", s) <=> s[1] \in -(2^23)..(2^23 - 1) /\ s[2] \in 0..1
BY Zenon DEF C!Typed, C!Of32

LEMMA TypedAsDouble == ASSUME NEW s PROVE C!Typed("Double", s) <=> s[1] \in C!Range32 /\ s[2] \in 0..1
BY Zenon DEF C!Typed, C!Of32

LEMMA AmplitudeOfU8 == ASSUME NEW s PROVE C!Amplitude("U8", s) = (s - 128) * 2^24
BY Zenon DEF C!Amplitude, C!Of32

LEMMA AmplitudeOfS16 == ASSUME NEW s PROVE C!Amplitude("S16", s) = s * 2^16
BY Zenon DEF C!Amplitude, C!Of32

LEMMA AmplitudeOfS32 == ASSUME NEW s PROVE C!Amplitude("S32", s) = s
BY Zenon DEF C!Amplitude, C!Of32

LEMMA AmplitudeOfS24 == ASSUME NEW s PROVE C!Amplitude("S24", s) = (C!Signed(s[3], 8) * 256 + s[2]) * 2^16 + s[1] * 256
BY Zenon DEF C!Amplitude, C!Of32

LEMMA AmplitudeOfFloat == ASSUME NEW s PROVE C!Amplitude("Float", s) = C!Truncated(s) * 256
BY Zenon DEF C!Amplitude, C!Of32

LEMMA AmplitudeOfDouble == ASSUME NEW s PROVE C!Amplitude("Double", s) = C!Truncated(s)
BY Zenon DEF C!Amplitude, C!Of32

LEMMA AmplitudeOfOf32 ==
  ASSUME NEW s, NEW f \in C!Of32
  PROVE  C!Amplitude(f, s) = C!Signed(s, C!Bits[f]) * 2^(32 - C!Bits[f])
<1>1. f # "U8" /\ f # "S16" /\ f # "S24" /\ f # "S32" /\ f # "Float" /\ f # "Double" BY DEF C!Of32
<1> QED BY <1>1, Zenon DEF C!Amplitude

\* The widths of the formats, and what they make of the powers of two.
LEMMA BitsAre ==
  /\ C!Bits["U8"] = 8 /\ C!Bits["S16"] = 16 /\ C!Bits["S24"] = 24 /\ C!Bits["S32"] = 32
  /\ C!Bits["Float"] = 24 /\ C!Bits["Double"] = 32 /\ C!Bits["S16of32"] = 16 /\ C!Bits["S18of32"] = 18
  /\ C!Bits["S20of32"] = 20 /\ C!Bits["S24of32"] = 24
BY DEF C!Bits

LEMMA Of32Bits ==
  ASSUME NEW f \in C!Of32
  PROVE  \/ C!Bits[f] = 16 /\ 32 - C!Bits[f] = 16
         \/ C!Bits[f] = 18 /\ 32 - C!Bits[f] = 14
         \/ C!Bits[f] = 20 /\ 32 - C!Bits[f] = 12
         \/ C!Bits[f] = 24 /\ 32 - C!Bits[f] = 8
BY BitsAre DEF C!Of32

LEMMA CutIs ==
  ASSUME NEW x
  PROVE  /\ C!Cut(x, 8) = x - (x % 2^24) /\ C!Cut(x, 16) = x - (x % 2^16)
         /\ C!Cut(x, 18) = x - (x % 2^14) /\ C!Cut(x, 20) = x - (x % 2^12)
         /\ C!Cut(x, 24) = x - (x % 2^8) /\ C!Cut(x, 32) = x - (x % 2^0)
<1>1. 32 - 8 = 24 /\ 32 - 16 = 16 /\ 32 - 18 = 14 /\ 32 - 20 = 12 /\ 32 - 24 = 8 /\ 32 - 32 = 0 OBVIOUS
<1> QED BY <1>1, Zenon DEF C!Cut

\* A number that fits keeps its value.
LEMMA SignedKeeps ==
  ASSUME NEW x \in Int
  PROVE  /\ Between(x, -128, 127) => C!Signed(x, 8) = x
         /\ Between(x, -(2^15), 2^15 - 1) => C!Signed(x, 16) = x
         /\ Between(x, -(2^15), 2^15 - 1) => C!Signed(x, 28) = x /\ C!Signed(x, 30) = x
         /\ Between(x, -128, 127) => C!Signed(x, 20) = x /\ C!Signed(x, 22) = x /\ C!Signed(x, 16) = x
         /\ Between(x, -(2^23), 2^23 - 1) => C!Signed(x, 24) = x
<1>1. Between(x, -128, 127) => C!Signed(x, 8) = x BY SMT DEF Between, C!Signed
<1>2. Between(x, -(2^15), 2^15 - 1) => C!Signed(x, 16) = x BY SMT DEF Between, C!Signed
<1>3. Between(x, -(2^15), 2^15 - 1) => C!Signed(x, 28) = x BY SMT DEF Between, C!Signed
<1>4. Between(x, -(2^15), 2^15 - 1) => C!Signed(x, 30) = x BY SMT DEF Between, C!Signed
<1>5. Between(x, -128, 127) => C!Signed(x, 20) = x BY SMT DEF Between, C!Signed
<1>6. Between(x, -128, 127) => C!Signed(x, 22) = x BY SMT DEF Between, C!Signed
<1>7. Between(x, -128, 127) => C!Signed(x, 16) = x BY SMT DEF Between, C!Signed
<1>8. Between(x, -(2^23), 2^23 - 1) => C!Signed(x, 24) = x BY SMT DEF Between, C!Signed
<1> QED BY <1>1, <1>2, <1>3, <1>4, <1>5, <1>6, <1>7, <1>8, SMT

\* Three bytes and a number of 24 bits.
LEMMA Bytes == \A x : x \in 0..255 <=> Between(x, 0, 255)
BY SMT DEF Between

LEMMA ElementOf == ASSUME NEW B, NEW s \in Seq(B), NEW k \in 1..Len(s) PROVE s[k] \in B
OBVIOUS

LEMMA ThreeBytes ==
  ASSUME NEW s \in Seq(0..255), Len(s) = 3
  PROVE  /\ Between(s[1], 0, 255) /\ Between(s[2], 0, 255) /\ Between(s[3], 0, 255)
         /\ Between(C!int_value(s), -(2^23), 2^23 - 1)
         /\ (C!Signed(s[3], 8) * 256 + s[2]) * 2^16 + s[1] * 256 = C!int_value(s) * 256
<1>1. s[1] \in 0..255 /\ s[2] \in 0..255 /\ s[3] \in 0..255
  <2>1. 1 \in 1..Len(s) /\ 2 \in 1..Len(s) /\ 3 \in 1..Len(s) OBVIOUS
  <2>2. PICK B : B = 0..255 OBVIOUS
  <2>3. s \in Seq(B) BY <2>2, Zenon
  <2>4. s[1] \in B /\ s[2] \in B /\ s[3] \in B BY <2>1, <2>3, ElementOf
  <2> QED BY <2>2, <2>4, Zenon
<1>3. Between(s[1], 0, 255) /\ Between(s[2], 0, 255) /\ Between(s[3], 0, 255) BY <1>1, Bytes, Zenon
<1>4. PICK a, b, c, d, i : a = s[1] /\ b = s[2] /\ c = s[3] /\ d = C!Signed(s[3], 8) /\ i = C!int_value(s)
  BY Zenon
<1>5. Between(a, 0, 255) /\ Between(b, 0, 255) /\ Between(c, 0, 255) BY <1>3, <1>4, Zenon
<1>6. Between(d, -128, 127)
  <2>1. d = C!Signed(c, 8) BY <1>4, Zenon
  <2> QED BY <1>5, <2>1, SMT DEF Between, C!Signed
<1>7. i = d * 2^16 + b * 256 + a BY <1>4, Zenon DEF C!int_value
<1>8. Between(i, -(2^23), 2^23 - 1) BY <1>5, <1>6, <1>7, SMT DEF Between
<1>9. (d * 256 + b) * 2^16 + a * 256 = i * 256 BY <1>5, <1>6, <1>7, SMT DEF Between
<1> QED BY <1>3, <1>4, <1>8, <1>9, Zenon

LEMMA ValueOfDoes ==
  ASSUME NEW y, Between(y, -(2^23), 2^23 - 1)
  PROVE  /\ C!value_of(y) \in Seq(0..255) /\ Len(C!value_of(y)) = 3
         /\ C!int_value(C!value_of(y)) = y
<1>1. PICK a, b, c : a = y % 256 /\ b = (y \div 256) % 256 /\ c = (y \div 2^16) % 256 OBVIOUS
<1>2. C!value_of(y) = <<a, b, c>> BY <1>1, Zenon DEF C!value_of
<1>3. Between(a, 0, 255) /\ Between(b, 0, 255) /\ Between(c, 0, 255) BY <1>1, SMT DEF Between
<1>4. a \in 0..255 /\ b \in 0..255 /\ c \in 0..255 BY <1>3, RangeBetween
<1>5. C!Signed(c, 8) * 2^16 + b * 256 + a = y
  <2>1. c \in Int BY <1>3 DEF Between
  <2>2. C!Signed(c, 8) = IF c >= 128 THEN c - 256 ELSE c BY <1>3, <2>1, SMT DEF Between, C!Signed
  <2> QED BY <1>1, <2>2, SMT DEF Between
<1>6. C!int_value(<<a, b, c>>) = C!Signed(c, 8) * 2^16 + b * 256 + a BY DEF C!int_value
<1> QED BY <1>2, <1>4, <1>5, <1>6

Fits(f, s, x) == C!Typed(f, s) /\ C!Amplitude(f, s) = C!Cut(x, C!Bits[f])

LEMMA TopAsU8 == ASSUME NEW x PROVE C!S32_Any(x, "U8") = ((x \div 2^24) + 128) % 256
BY Zenon DEF C!S32_Any, C!Shr, C!Of32

LEMMA TopAsS16 == ASSUME NEW x PROVE C!S32_Any(x, "S16") = C!Signed(x \div 2^16, 16)
BY Zenon DEF C!S32_Any, C!Shr, C!Of32

LEMMA TopAsS24 == ASSUME NEW x PROVE C!S32_Any(x, "S24") = C!value_of(x \div 2^8)
BY Zenon DEF C!S32_Any, C!Shr, C!Of32

LEMMA TopAsS32 == ASSUME NEW x PROVE C!S32_Any(x, "S32") = x
BY Zenon DEF C!S32_Any, C!Of32

LEMMA TopAsFloat == ASSUME NEW x PROVE C!S32_Any(x, "Float") = <<C!int_value(C!value_of(x \div 2^8)), 0>>
BY Zenon DEF C!S32_Any, C!Shr, C!Of32, C!S24_Float, C!Exactly

LEMMA TopAsDouble == ASSUME NEW x PROVE C!S32_Any(x, "Double") = <<x, 0>>
BY Zenon DEF C!S32_Any, C!Of32, C!S32_Double, C!Exactly

LEMMA TopAsOf32 ==
  ASSUME NEW x, NEW f \in C!Of32
  PROVE  C!S32_Any(x, f) = x \div 2^(32 - C!Bits[f])
<1>1. f # "U8" /\ f # "S16" /\ f # "S24" /\ f # "S32" /\ f # "Float" /\ f # "Double" BY DEF C!Of32
<1> QED BY <1>1, Zenon DEF C!S32_Any, C!Shr

LEMMA TopOf32 ==
  ASSUME NEW x, Word(x), NEW f \in C!Of32
  PROVE  Fits(f, C!S32_Any(x, f), x)
<1>1. PICK s : s = C!S32_Any(x, f) OBVIOUS
<1>2. PICK b : b = C!Bits[f] OBVIOUS
<1>3. PICK k : k = 32 - b OBVIOUS
<1>4. s = x \div 2^k BY <1>1, <1>2, <1>3, TopAsOf32, Zenon
<1>5. C!Amplitude(f, s) = C!Signed(s, b) * 2^k BY <1>2, <1>3, AmplitudeOfOf32, Zenon
<1>6. C!Cut(x, b) = x - (x % 2^k) BY <1>3, Zenon DEF C!Cut
<1>7. (b = 16 /\ k = 16) \/ (b = 18 /\ k = 14) \/ (b = 20 /\ k = 12) \/ (b = 24 /\ k = 8)
  BY <1>2, <1>3, Of32Bits, Zenon
<1>8. Word(s) /\ C!Signed(s, b) * 2^k = x - (x % 2^k)
  <2>1. CASE b = 16 /\ k = 16
    <3>1. s = x \div 2^16 BY <1>4, <2>1, Zenon
    <3>2. Word(s) BY <3>1, SMT DEF Word, Between
    <3>3. C!Signed(s, 16) = s BY <3>1, SMT DEF Word, Between, C!Signed
    <3>4. s * 2^16 = x - (x % 2^16) BY <3>1, SMT DEF Word, Between
    <3> QED BY <2>1, <3>2, <3>3, <3>4, Zenon
  <2>2. CASE b = 18 /\ k = 14
    <3>1. s = x \div 2^14 BY <1>4, <2>2, Zenon
    <3>2. Word(s) BY <3>1, SMT DEF Word, Between
    <3>3. C!Signed(s, 18) = s BY <3>1, SMT DEF Word, Between, C!Signed
    <3>4. s * 2^14 = x - (x % 2^14) BY <3>1, SMT DEF Word, Between
    <3> QED BY <2>2, <3>2, <3>3, <3>4, Zenon
  <2>3. CASE b = 20 /\ k = 12
    <3>1. s = x \div 2^12 BY <1>4, <2>3, Zenon
    <3>2. Word(s) BY <3>1, SMT DEF Word, Between
    <3>3. C!Signed(s, 20) = s BY <3>1, SMT DEF Word, Between, C!Signed
    <3>4. s * 2^12 = x - (x % 2^12) BY <3>1, SMT DEF Word, Between
    <3> QED BY <2>3, <3>2, <3>3, <3>4, Zenon
  <2>4. CASE b = 24 /\ k = 8
    <3>1. s = x \div 2^8 BY <1>4, <2>4, Zenon
    <3>2. Word(s) BY <3>1, SMT DEF Word, Between
    <3>3. C!Signed(s, 24) = s BY <3>1, SMT DEF Word, Between, C!Signed
    <3>4. s * 2^8 = x - (x % 2^8) BY <3>1, SMT DEF Word, Between
    <3> QED BY <2>4, <3>2, <3>3, <3>4, Zenon
  <2> QED BY <1>7, <2>1, <2>2, <2>3, <2>4, Zenon
<1>9. C!Typed(f, s) BY <1>8, TypedAsOf32, WordIs, Zenon
<1> QED BY <1>1, <1>2, <1>5, <1>6, <1>8, <1>9, Zenon DEF Fits

\* A 32-bit amplitude taken to a format is cut to its width.
LEMMA TopDoes ==
  ASSUME NEW x, Word(x), NEW f \in C!Format
  PROVE  Fits(f, C!S32_Any(x, f), x)
<1>1. CASE f = "U8"
  <2>1. PICK s : s = ((x \div 2^24) + 128) % 256 OBVIOUS
  <2>2. Between(s, 0, 255) /\ (s - 128) * 2^24 = x - (x % 2^24) BY <2>1, SMT DEF Word, Between
  <2>3. C!Typed("U8", s) BY <2>2, TypedAsU8, Bytes, Zenon
  <2>4. C!S32_Any(x, "U8") = s BY <2>1, TopAsU8, Zenon
  <2>5. C!Amplitude("U8", s) = x - (x % 2^24) BY <2>2, AmplitudeOfU8, Zenon
  <2>6. C!Cut(x, C!Bits["U8"]) = x - (x % 2^24) BY CutIs, BitsAre, Zenon
  <2> QED BY <1>1, <2>3, <2>4, <2>5, <2>6, Zenon DEF Fits
<1>2. CASE f = "S16"
  <2>1. PICK y : y = x \div 2^16 OBVIOUS
  <2>2. Between(y, -(2^15), 2^15 - 1) /\ y * 2^16 = x - (x % 2^16) BY <2>1, SMT DEF Word, Between
  <2>3. C!Signed(y, 16) = y BY <2>2, SignedKeeps, Zenon DEF Between
  <2>4. -(2^15) \in Int /\ 2^15 - 1 \in Int BY SMT
  <2>5. C!Typed("S16", y) BY <2>2, <2>4, TypedAsS16, RangeBetween, Zenon
  <2>6. C!S32_Any(x, "S16") = y BY <2>1, <2>3, TopAsS16, Zenon
  <2>7. C!Amplitude("S16", y) = x - (x % 2^16) BY <2>2, AmplitudeOfS16, Zenon
  <2>8. C!Cut(x, C!Bits["S16"]) = x - (x % 2^16) BY CutIs, BitsAre, Zenon
  <2> QED BY <1>2, <2>5, <2>6, <2>7, <2>8, Zenon DEF Fits
<1>3. PICK y : y = x \div 2^8 OBVIOUS
<1>4. Between(y, -(2^23), 2^23 - 1) /\ y * 256 = x - (x % 2^8) BY <1>3, SMT DEF Word, Between
<1>5. CASE f = "S24"
  <2>1. PICK s : s = C!value_of(y) OBVIOUS
  <2>2. s \in Seq(0..255) /\ Len(s) = 3 /\ C!int_value(s) = y BY <1>4, <2>1, ValueOfDoes, Zenon
  <2>3. C!Amplitude("S24", s) = y * 256
    <3>1. (C!Signed(s[3], 8) * 256 + s[2]) * 2^16 + s[1] * 256 = C!int_value(s) * 256 BY <2>2, ThreeBytes
    <3> QED BY <2>2, <3>1, AmplitudeOfS24, Zenon
  <2>4. C!Typed("S24", s) BY <2>2, TypedAsS24, Zenon
  <2>5. C!S32_Any(x, "S24") = s BY <1>3, <2>1, TopAsS24, Zenon
  <2>6. C!Cut(x, C!Bits["S24"]) = x - (x % 2^8) BY CutIs, BitsAre, Zenon
  <2> QED BY <1>4, <1>5, <2>3, <2>4, <2>5, <2>6, Zenon DEF Fits
<1>6. CASE f = "S32"
  <2>1. x - (x % 2^0) = x BY SMT DEF Word, Between
  <2>2. C!Typed("S32", x) BY TypedAsS32, WordIs, Zenon
  <2>3. C!S32_Any(x, "S32") = x BY TopAsS32, Zenon
  <2>4. C!Amplitude("S32", x) = x BY AmplitudeOfS32, Zenon
  <2>5. C!Cut(x, C!Bits["S32"]) = x BY <2>1, CutIs, BitsAre, Zenon
  <2> QED BY <1>6, <2>2, <2>3, <2>4, <2>5, Zenon DEF Fits
<1>7. CASE f = "Float"
  <2>1. C!int_value(C!value_of(y)) = y BY <1>4, ValueOfDoes, Zenon
  <2>2. PICK s : s = <<y, 0>> OBVIOUS
  <2>3. s[1] = y /\ s[2] = 0 /\ 0 \in 0..1 BY <2>2
  <2>4. -(2^23) \in Int /\ 2^23 - 1 \in Int BY SMT
  <2>5. C!Typed("Float", s) BY <1>4, <2>3, <2>4, TypedAsFloat, RangeBetween, Zenon
  <2>6. C!Truncated(s) = y
    <3>1. y + 0 = y BY <1>4, SMT DEF Between
    <3> QED BY <2>3, <3>1, Zenon DEF C!Truncated
  <2>7. C!S32_Any(x, "Float") = s BY <1>3, <2>1, <2>2, TopAsFloat, Zenon
  <2>8. C!Amplitude("Float", s) = x - (x % 2^8) BY <1>4, <2>6, AmplitudeOfFloat, Zenon
  <2>9. C!Cut(x, C!Bits["Float"]) = x - (x % 2^8) BY CutIs, BitsAre, Zenon
  <2> QED BY <1>7, <2>5, <2>7, <2>8, <2>9, Zenon DEF Fits
<1>8. CASE f = "Double"
  <2>1. x - (x % 2^0) = x BY SMT DEF Word, Between
  <2>2. PICK s : s = <<x, 0>> OBVIOUS
  <2>3. s[1] = x /\ s[2] = 0 /\ 0 \in 0..1 BY <2>2
  <2>4. C!Typed("Double", s) BY <2>3, TypedAsDouble, WordIs, Zenon
  <2>5. C!Truncated(s) = x
    <3>1. x + 0 = x BY SMT DEF Word, Between
    <3> QED BY <2>3, <3>1, Zenon DEF C!Truncated
  <2>6. C!S32_Any(x, "Double") = s BY <2>2, TopAsDouble, Zenon
  <2>7. C!Amplitude("Double", s) = x BY <2>5, AmplitudeOfDouble, Zenon
  <2>8. C!Cut(x, C!Bits["Double"]) = x BY <2>1, CutIs, BitsAre, Zenon
  <2> QED BY <1>8, <2>4, <2>6, <2>7, <2>8, Zenon DEF Fits
<1>9. CASE f \in C!Of32 BY <1>9, TopOf32
<1> QED BY <1>1, <1>2, <1>5, <1>6, <1>7, <1>8, <1>9, Zenon DEF C!Format

\* What a sample of a format is worth: an int32_t that is zero below the format's width.
Worth(f, s, a) == C!Amplitude(f, s) = a /\ Word(a) /\ C!Cut(a, C!Bits[f]) = a

LEMMA U8AsS16 == ASSUME NEW s, NEW u, u = s - 128 PROVE C!U8_Any(s, "S16") = C!Signed(u * 256, 16)
BY Zenon DEF C!U8_Any, C!Of32

LEMMA U8AsS24 == ASSUME NEW s, NEW u, u = s - 128 PROVE C!U8_Any(s, "S24") = C!value_of(C!Shl(u, 16))
BY Zenon DEF C!U8_Any, C!Of32

LEMMA U8AsS32 == ASSUME NEW s, NEW u, u = s - 128 PROVE C!U8_Any(s, "S32") = C!Shl(u, 24)
BY Zenon DEF C!U8_Any, C!Of32

LEMMA U8AsFloat == ASSUME NEW s, NEW u, u = s - 128 PROVE C!U8_Any(s, "Float") = <<C!int_value(C!value_of(C!Shl(u, 16))), 0>>
BY Zenon DEF C!U8_Any, C!Of32, C!S24_Float, C!Exactly

LEMMA U8AsDouble == ASSUME NEW s, NEW u, u = s - 128 PROVE C!U8_Any(s, "Double") = <<C!Shl(u, 24), 0>>
BY Zenon DEF C!U8_Any, C!Of32, C!S32_Double, C!Exactly

LEMMA U8AsOf32 ==
  ASSUME NEW s, NEW u, u = s - 128, NEW f \in C!Of32
  PROVE  C!U8_Any(s, f) = C!Shl(u, C!Bits[f] - 8)
<1>1. f # "U8" /\ f # "S16" /\ f # "S24" /\ f # "S32" /\ f # "Float" /\ f # "Double" BY DEF C!Of32
<1> QED BY <1>1, Zenon DEF C!U8_Any

LEMMA S16AsU8 == ASSUME NEW s PROVE C!S16_Any(s, "U8") = ((s \div 2^8) + 128) % 256
BY Zenon DEF C!S16_Any, C!Of32, C!Shr

LEMMA S16AsS16 == ASSUME NEW s PROVE C!S16_Any(s, "S16") = s
BY Zenon DEF C!S16_Any, C!Of32

LEMMA S16AsS24 == ASSUME NEW s PROVE C!S16_Any(s, "S24") = C!value_of(C!Shl(s, 8))
BY Zenon DEF C!S16_Any, C!Of32

LEMMA S16AsS32 == ASSUME NEW s PROVE C!S16_Any(s, "S32") = C!Shl(s, 16)
BY Zenon DEF C!S16_Any, C!Of32

LEMMA S16AsFloat == ASSUME NEW s PROVE C!S16_Any(s, "Float") = <<C!int_value(C!value_of(C!Shl(s, 8))), 0>>
BY Zenon DEF C!S16_Any, C!Of32, C!S24_Float, C!Exactly

LEMMA S16AsDouble == ASSUME NEW s PROVE C!S16_Any(s, "Double") = <<C!Shl(s, 16), 0>>
BY Zenon DEF C!S16_Any, C!Of32, C!S32_Double, C!Exactly

LEMMA S16AsOf32 ==
  ASSUME NEW s, NEW f \in C!Of32 \ {"S16of32"}
  PROVE  C!S16_Any(s, f) = C!Shl(s, C!Bits[f] - 16)
<1>1. f # "U8" /\ f # "S16" /\ f # "S24" /\ f # "S32" /\ f # "Float" /\ f # "Double" BY DEF C!Of32
<1> QED BY <1>1, Zenon DEF C!S16_Any

LEMMA S24AsU8 == ASSUME NEW s, NEW y, y = C!int_value(s) PROVE C!S24_Any(s, "U8") = ((y \div 2^16) + 128) % 256
BY Zenon DEF C!S24_Any, C!Shr

LEMMA S24AsS16 == ASSUME NEW s, NEW y, y = C!int_value(s) PROVE C!S24_Any(s, "S16") = C!Signed(y \div 2^8, 16)
BY Zenon DEF C!S24_Any, C!S24_S16, C!Shr

LEMMA S24AsS16of32 == ASSUME NEW s, NEW y, y = C!int_value(s) PROVE C!S24_Any(s, "S16of32") = C!Signed(y \div 2^8, 16)
BY Zenon DEF C!S24_Any, C!S24_S16, C!Shr

LEMMA S24AsOf32 ==
  ASSUME NEW s, NEW y, y = C!int_value(s), NEW f \in {"S18of32", "S20of32"}
  PROVE  C!S24_Any(s, f) = y \div 2^(24 - C!Bits[f])
<1>1. f # "U8" /\ f # "S16" /\ f # "S16of32" /\ f # "S24of32" /\ f # "S32" /\ f # "Float" /\ f # "Double" OBVIOUS
<1> QED BY <1>1, Zenon DEF C!S24_Any, C!Shr

LEMMA S24AsS24of32 == ASSUME NEW s, NEW y, y = C!int_value(s) PROVE C!S24_Any(s, "S24of32") = y
BY Zenon DEF C!S24_Any

LEMMA S24AsS32 == ASSUME NEW s, NEW y, y = C!int_value(s) PROVE C!S24_Any(s, "S32") = C!Shl(y, 8)
BY Zenon DEF C!S24_Any

LEMMA S24AsFloat == ASSUME NEW s, NEW y, y = C!int_value(s) PROVE C!S24_Any(s, "Float") = <<y, 0>>
BY Zenon DEF C!S24_Any, C!S24_Float, C!Exactly

LEMMA S24AsDouble == ASSUME NEW s, NEW y, y = C!int_value(s) PROVE C!S24_Any(s, "Double") = <<C!Shl(y, 8), 0>>
BY Zenon DEF C!S24_Any, C!S32_Double, C!Exactly

LEMMA U8Converts ==
  ASSUME NEW s, C!Typed("U8", s), NEW f \in C!Format, f # "U8", NEW a, a = C!Amplitude("U8", s)
  PROVE  Worth("U8", s, a) /\ C!U8_Any(s, f) = C!S32_Any(a, f)
<1>1. PICK u : u = s - 128 OBVIOUS
<1>2. Between(s, 0, 255) BY TypedAsU8, Bytes, Zenon
<1>3. Between(u, -128, 127) BY <1>1, <1>2, SMT DEF Between
<1>4. a = u * 2^24 BY <1>1, AmplitudeOfU8, Zenon
<1>5. Word(a) /\ a - (a % 2^24) = a BY <1>3, <1>4, SMT DEF Between, Word
<1>6. Worth("U8", s, a) BY <1>5, BitsAre, CutIs, Zenon DEF Worth
<1>7. u \in Int BY <1>3, Zenon DEF Between
<1>8. C!Shl(u, 16) = u * 2^16 /\ C!Shl(u, 24) = u * 2^24
  <2>1. 32 - 16 = 16 /\ 32 - 24 = 8 OBVIOUS
  <2>2. C!Signed(u, 16) = u /\ C!Signed(u, 8) = u BY <1>3, <1>7, SignedKeeps, Zenon
  <2> QED BY <2>1, <2>2, Zenon DEF C!Shl
<1>9. CASE f = "S16"
  <2>1. a \div 2^16 = u * 256 BY <1>3, <1>4, SMT DEF Between
  <2>2. C!U8_Any(s, "S16") = C!Signed(u * 256, 16) BY <1>1, U8AsS16, Zenon
  <2>3. C!S32_Any(a, "S16") = C!Signed(a \div 2^16, 16) BY TopAsS16, Zenon
  <2> QED BY <1>6, <1>9, <2>1, <2>2, <2>3, Zenon
<1>10. a \div 2^8 = u * 2^16 BY <1>3, <1>4, SMT DEF Between
<1>11. CASE f = "S24"
  <2>1. C!U8_Any(s, "S24") = C!value_of(C!Shl(u, 16)) BY <1>1, U8AsS24, Zenon
  <2>2. C!S32_Any(a, "S24") = C!value_of(a \div 2^8) BY TopAsS24, Zenon
  <2> QED BY <1>6, <1>8, <1>10, <1>11, <2>1, <2>2, Zenon
<1>12. CASE f = "S32"
  <2>1. C!U8_Any(s, "S32") = C!Shl(u, 24) BY <1>1, U8AsS32, Zenon
  <2>2. C!S32_Any(a, "S32") = a BY TopAsS32, Zenon
  <2> QED BY <1>6, <1>4, <1>8, <1>12, <2>1, <2>2, Zenon
<1>13. CASE f = "Float"
  <2>1. C!U8_Any(s, "Float") = <<C!int_value(C!value_of(C!Shl(u, 16))), 0>> BY <1>1, U8AsFloat, Zenon
  <2>2. C!S32_Any(a, "Float") = <<C!int_value(C!value_of(a \div 2^8)), 0>> BY TopAsFloat, Zenon
  <2> QED BY <1>6, <1>8, <1>10, <1>13, <2>1, <2>2, Zenon
<1>14. CASE f = "Double"
  <2>1. C!U8_Any(s, "Double") = <<C!Shl(u, 24), 0>> BY <1>1, U8AsDouble, Zenon
  <2>2. C!S32_Any(a, "Double") = <<a, 0>> BY TopAsDouble, Zenon
  <2> QED BY <1>6, <1>4, <1>8, <1>14, <2>1, <2>2, Zenon
<1>15. CASE f \in C!Of32
  <2>1. PICK b : b = C!Bits[f] OBVIOUS
  <2>2. C!U8_Any(s, f) = C!Signed(u, 32 - (b - 8)) * 2^(b - 8) BY <1>1, <1>15, <2>1, U8AsOf32, Zenon DEF C!Shl
  <2>3. C!S32_Any(a, f) = a \div 2^(32 - b) BY <1>15, <2>1, TopAsOf32, Zenon
  <2>4. b = 16 \/ b = 18 \/ b = 20 \/ b = 24 BY <1>15, <2>1, Of32Bits, Zenon
  <2>5. C!Signed(u, 32 - (b - 8)) * 2^(b - 8) = a \div 2^(32 - b)
    <3>1. CASE b = 16
      <4>1. b - 8 = 8 /\ 32 - (b - 8) = 24 /\ 32 - b = 16 BY <3>1
      <4>2. C!Signed(u, 24) = u BY <1>3, SMT DEF Between, C!Signed
      <4>3. u * 2^8 = a \div 2^16 BY <1>3, <1>4, SMT DEF Between
      <4> QED BY <4>1, <4>2, <4>3, Zenon
    <3>2. CASE b = 18
      <4>1. b - 8 = 10 /\ 32 - (b - 8) = 22 /\ 32 - b = 14 BY <3>2
      <4>2. C!Signed(u, 22) = u BY <1>3, SMT DEF Between, C!Signed
      <4>3. u * 2^10 = a \div 2^14 BY <1>3, <1>4, SMT DEF Between
      <4> QED BY <4>1, <4>2, <4>3, Zenon
    <3>3. CASE b = 20
      <4>1. b - 8 = 12 /\ 32 - (b - 8) = 20 /\ 32 - b = 12 BY <3>3
      <4>2. C!Signed(u, 20) = u BY <1>3, SMT DEF Between, C!Signed
      <4>3. u * 2^12 = a \div 2^12 BY <1>3, <1>4, SMT DEF Between
      <4> QED BY <4>1, <4>2, <4>3, Zenon
    <3>4. CASE b = 24
      <4>1. b - 8 = 16 /\ 32 - (b - 8) = 16 /\ 32 - b = 8 BY <3>4
      <4>2. C!Signed(u, 16) = u BY <1>3, SMT DEF Between, C!Signed
      <4>3. u * 2^16 = a \div 2^8 BY <1>3, <1>4, SMT DEF Between
      <4> QED BY <4>1, <4>2, <4>3, Zenon
    <3> QED BY <2>4, <3>1, <3>2, <3>3, <3>4, Zenon
  <2> QED BY <1>6, <2>2, <2>3, <2>5, Zenon
<1> QED BY <1>9, <1>11, <1>12, <1>13, <1>14, <1>15, Zenon DEF C!Format

LEMMA S16Converts ==
  ASSUME NEW s, C!Typed("S16", s), NEW f \in C!Format, f # "S16of32", NEW a, a = C!Amplitude("S16", s)
  PROVE  Worth("S16", s, a) /\ C!S16_Any(s, f) = C!S32_Any(a, f)
<1>1. -(2^15) \in Int /\ 2^15 - 1 \in Int BY SMT
<1>2. Between(s, -(2^15), 2^15 - 1) BY <1>1, TypedAsS16, RangeBetween, Zenon
<1>3. s \in Int BY <1>2, Zenon DEF Between
<1>4. a = s * 2^16 BY AmplitudeOfS16, Zenon
<1>5. Word(a) /\ a - (a % 2^16) = a BY <1>2, <1>4, SMT DEF Between, Word
<1>6. Worth("S16", s, a) BY <1>5, BitsAre, CutIs, Zenon DEF Worth
<1>7. C!Signed(s, 16) = s BY <1>2, <1>3, SignedKeeps, Zenon
<1>8. C!Shl(s, 16) = s * 2^16 /\ C!Shl(s, 8) = s * 2^8
  <2>1. 32 - 16 = 16 /\ 32 - 8 = 24 OBVIOUS
  <2>2. C!Signed(s, 24) = s BY <1>2, SMT DEF Between, C!Signed
  <2> QED BY <1>7, <2>1, <2>2, Zenon DEF C!Shl
<1>9. CASE f = "U8"
  <2>1. a \div 2^24 = s \div 2^8 BY <1>2, <1>4, SMT DEF Between
  <2>2. C!S16_Any(s, "U8") = ((s \div 2^8) + 128) % 256 BY S16AsU8, Zenon
  <2>3. C!S32_Any(a, "U8") = ((a \div 2^24) + 128) % 256 BY TopAsU8, Zenon
  <2> QED BY <1>6, <1>9, <2>1, <2>2, <2>3, Zenon
<1>10. CASE f = "S16"
  <2>1. a \div 2^16 = s BY <1>2, <1>4, SMT DEF Between
  <2>2. C!S16_Any(s, "S16") = s BY S16AsS16, Zenon
  <2>3. C!S32_Any(a, "S16") = C!Signed(a \div 2^16, 16) BY TopAsS16, Zenon
  <2> QED BY <1>6, <1>7, <1>10, <2>1, <2>2, <2>3, Zenon
<1>11. a \div 2^8 = s * 2^8 BY <1>2, <1>4, SMT DEF Between
<1>12. CASE f = "S24"
  <2>1. C!S16_Any(s, "S24") = C!value_of(C!Shl(s, 8)) BY S16AsS24, Zenon
  <2>2. C!S32_Any(a, "S24") = C!value_of(a \div 2^8) BY TopAsS24, Zenon
  <2> QED BY <1>6, <1>8, <1>11, <1>12, <2>1, <2>2, Zenon
<1>13. CASE f = "S32"
  <2>1. C!S16_Any(s, "S32") = C!Shl(s, 16) BY S16AsS32, Zenon
  <2>2. C!S32_Any(a, "S32") = a BY TopAsS32, Zenon
  <2> QED BY <1>6, <1>4, <1>8, <1>13, <2>1, <2>2, Zenon
<1>14. CASE f = "Float"
  <2>1. C!S16_Any(s, "Float") = <<C!int_value(C!value_of(C!Shl(s, 8))), 0>> BY S16AsFloat, Zenon
  <2>2. C!S32_Any(a, "Float") = <<C!int_value(C!value_of(a \div 2^8)), 0>> BY TopAsFloat, Zenon
  <2> QED BY <1>6, <1>8, <1>11, <1>14, <2>1, <2>2, Zenon
<1>15. CASE f = "Double"
  <2>1. C!S16_Any(s, "Double") = <<C!Shl(s, 16), 0>> BY S16AsDouble, Zenon
  <2>2. C!S32_Any(a, "Double") = <<a, 0>> BY TopAsDouble, Zenon
  <2> QED BY <1>6, <1>4, <1>8, <1>15, <2>1, <2>2, Zenon
<1>16. CASE f \in C!Of32
  <2>1. PICK b : b = C!Bits[f] OBVIOUS
  <2>2. C!S16_Any(s, f) = C!Signed(s, 32 - (b - 16)) * 2^(b - 16) BY <1>16, <2>1, S16AsOf32, Zenon DEF C!Shl
  <2>3. C!S32_Any(a, f) = a \div 2^(32 - b) BY <1>16, <2>1, TopAsOf32, Zenon
  <2>4. b = 18 \/ b = 20 \/ b = 24 BY <1>16, <2>1, BitsAre DEF C!Of32
  <2>5. C!Signed(s, 32 - (b - 16)) * 2^(b - 16) = a \div 2^(32 - b)
    <3>1. CASE b = 18
      <4>1. b - 16 = 2 /\ 32 - (b - 16) = 30 /\ 32 - b = 14 BY <3>1
      <4>2. C!Signed(s, 30) = s BY <1>2, SMT DEF Between, C!Signed
      <4>3. s * 2^2 = a \div 2^14 BY <1>2, <1>4, SMT DEF Between
      <4> QED BY <4>1, <4>2, <4>3, Zenon
    <3>2. CASE b = 20
      <4>1. b - 16 = 4 /\ 32 - (b - 16) = 28 /\ 32 - b = 12 BY <3>2
      <4>2. C!Signed(s, 28) = s BY <1>2, SMT DEF Between, C!Signed
      <4>3. s * 2^4 = a \div 2^12 BY <1>2, <1>4, SMT DEF Between
      <4> QED BY <4>1, <4>2, <4>3, Zenon
    <3>3. CASE b = 24
      <4>1. b - 16 = 8 /\ 32 - (b - 16) = 24 /\ 32 - b = 8 BY <3>3
      <4>2. C!Signed(s, 24) = s BY <1>2, SMT DEF Between, C!Signed
      <4>3. s * 2^8 = a \div 2^8 BY <1>2, <1>4, SMT DEF Between
      <4> QED BY <4>1, <4>2, <4>3, Zenon
    <3> QED BY <2>4, <3>1, <3>2, <3>3, Zenon
  <2> QED BY <1>6, <2>2, <2>3, <2>5, Zenon
<1> QED BY <1>9, <1>10, <1>12, <1>13, <1>14, <1>15, <1>16, Zenon DEF C!Format

LEMMA S24Converts ==
  ASSUME NEW s, C!Typed("S24", s), NEW f \in C!Format, f # "S24", NEW a, a = C!Amplitude("S24", s)
  PROVE  Worth("S24", s, a) /\ C!S24_Any(s, f) = C!S32_Any(a, f)
<1>1. PICK y : y = C!int_value(s) OBVIOUS
<1>2. s \in Seq(0..255) /\ Len(s) = 3 BY TypedAsS24, Zenon
<1>3. /\ Between(y, -(2^23), 2^23 - 1)
      /\ (C!Signed(s[3], 8) * 256 + s[2]) * 2^16 + s[1] * 256 = y * 256
  BY <1>1, <1>2, ThreeBytes, Zenon
<1>4. a = y * 256 BY <1>3, AmplitudeOfS24, Zenon
<1>5. Word(a) /\ a - (a % 2^8) = a BY <1>3, <1>4, SMT DEF Between, Word
<1>6. Worth("S24", s, a) BY <1>5, BitsAre, CutIs, Zenon DEF Worth
<1>7. a \div 2^8 = y BY <1>3, <1>4, SMT DEF Between
<1>8. C!Shl(y, 8) = a
  <2>1. 32 - 8 = 24 OBVIOUS
  <2>2. C!Signed(y, 24) = y BY <1>3, SMT DEF Between, C!Signed
  <2>3. y * 2^8 = a BY <1>3, <1>4, SMT DEF Between
  <2> QED BY <2>1, <2>2, <2>3, Zenon DEF C!Shl
<1>9. CASE f = "U8"
  <2>1. a \div 2^24 = y \div 2^16 BY <1>3, <1>4, SMT DEF Between
  <2>2. C!S24_Any(s, "U8") = ((y \div 2^16) + 128) % 256 BY <1>1, S24AsU8, Zenon
  <2>3. C!S32_Any(a, "U8") = ((a \div 2^24) + 128) % 256 BY TopAsU8, Zenon
  <2> QED BY <1>6, <1>9, <2>1, <2>2, <2>3, Zenon
<1>10. a \div 2^16 = y \div 2^8 /\ C!Signed(y \div 2^8, 16) = y \div 2^8
  <2>1. a \div 2^16 = y \div 2^8 BY <1>3, <1>4, SMT DEF Between
  <2>2. C!Signed(y \div 2^8, 16) = y \div 2^8 BY <1>3, SMT DEF Between, C!Signed
  <2> QED BY <2>1, <2>2, Zenon
<1>11. CASE f = "S16"
  <2>1. C!S24_Any(s, "S16") = C!Signed(y \div 2^8, 16) BY <1>1, S24AsS16, Zenon
  <2>2. C!S32_Any(a, "S16") = C!Signed(a \div 2^16, 16) BY TopAsS16, Zenon
  <2> QED BY <1>6, <1>10, <1>11, <2>1, <2>2, Zenon
<1>12. CASE f = "S32"
  <2>1. C!S24_Any(s, "S32") = C!Shl(y, 8) BY <1>1, S24AsS32, Zenon
  <2>2. C!S32_Any(a, "S32") = a BY TopAsS32, Zenon
  <2> QED BY <1>6, <1>8, <1>12, <2>1, <2>2, Zenon
<1>13. CASE f = "Float"
  <2>1. C!int_value(C!value_of(y)) = y BY <1>3, ValueOfDoes
  <2>2. C!S24_Any(s, "Float") = <<y, 0>> BY <1>1, S24AsFloat, Zenon
  <2>3. C!S32_Any(a, "Float") = <<C!int_value(C!value_of(a \div 2^8)), 0>> BY TopAsFloat, Zenon
  <2> QED BY <1>6, <1>7, <1>13, <2>1, <2>2, <2>3, Zenon
<1>14. CASE f = "Double"
  <2>1. C!S24_Any(s, "Double") = <<C!Shl(y, 8), 0>> BY <1>1, S24AsDouble, Zenon
  <2>2. C!S32_Any(a, "Double") = <<a, 0>> BY TopAsDouble, Zenon
  <2> QED BY <1>6, <1>8, <1>14, <2>1, <2>2, Zenon
<1>15. CASE f = "S16of32"
  <2>1. f \in C!Of32 BY <1>15, Zenon DEF C!Of32
  <2>2. C!S32_Any(a, f) = a \div 2^(32 - C!Bits[f]) BY <2>1, TopAsOf32, Zenon
  <2>3. 32 - C!Bits[f] = 16 BY <1>15, BitsAre
  <2>4. C!S24_Any(s, f) = C!Signed(y \div 2^8, 16) BY <1>1, <1>15, S24AsS16of32, Zenon
  <2> QED BY <1>6, <1>10, <2>2, <2>3, <2>4, Zenon
<1>16. CASE f = "S18of32"
  <2>1. f \in C!Of32 BY <1>16, Zenon DEF C!Of32
  <2>2. C!S32_Any(a, f) = a \div 2^(32 - C!Bits[f]) BY <2>1, TopAsOf32, Zenon
  <2>3. 32 - C!Bits[f] = 14 /\ 24 - C!Bits[f] = 6 BY <1>16, BitsAre
  <2>4. a \div 2^14 = y \div 2^6 BY <1>3, <1>4, SMT DEF Between
  <2>5. C!S24_Any(s, f) = y \div 2^(24 - C!Bits[f]) BY <1>1, <1>16, S24AsOf32, Zenon
  <2> QED BY <1>6, <2>2, <2>3, <2>4, <2>5, Zenon
<1>17. CASE f = "S20of32"
  <2>1. f \in C!Of32 BY <1>17, Zenon DEF C!Of32
  <2>2. C!S32_Any(a, f) = a \div 2^(32 - C!Bits[f]) BY <2>1, TopAsOf32, Zenon
  <2>3. 32 - C!Bits[f] = 12 /\ 24 - C!Bits[f] = 4 BY <1>17, BitsAre
  <2>4. a \div 2^12 = y \div 2^4 BY <1>3, <1>4, SMT DEF Between
  <2>5. C!S24_Any(s, f) = y \div 2^(24 - C!Bits[f]) BY <1>1, <1>17, S24AsOf32, Zenon
  <2> QED BY <1>6, <2>2, <2>3, <2>4, <2>5, Zenon
<1>18. CASE f = "S24of32"
  <2>1. f \in C!Of32 BY <1>18, Zenon DEF C!Of32
  <2>2. C!S32_Any(a, f) = a \div 2^(32 - C!Bits[f]) BY <2>1, TopAsOf32, Zenon
  <2>3. 32 - C!Bits[f] = 8 BY <1>18, BitsAre
  <2> QED BY <1>1, <1>6, <1>7, <1>18, <2>2, <2>3, S24AsS24of32, Zenon
<1> QED BY <1>9, <1>11, <1>12, <1>13, <1>14, <1>15, <1>16, <1>17, <1>18, Zenon DEF C!Format, C!Of32

LEMMA Of32Converts ==
  ASSUME NEW g \in C!Of32, NEW s, C!Typed(g, s), NEW f, NEW a, a = C!Amplitude(g, s)
  PROVE  Worth(g, s, a) /\ C!Of32_Any(g, s, f) = C!S32_Any(a, f)
<1>1. PICK b : b = C!Bits[g] OBVIOUS
<1>2. PICK k : k = 32 - b OBVIOUS
<1>3. PICK t : t = C!Signed(s, b) OBVIOUS
<1>4. Word(s) BY TypedAsOf32, WordIs, Zenon
<1>5. a = t * 2^k BY <1>1, <1>2, <1>3, AmplitudeOfOf32, Zenon
<1>6. (b = 16 /\ k = 16) \/ (b = 18 /\ k = 14) \/ (b = 20 /\ k = 12) \/ (b = 24 /\ k = 8)
  BY <1>1, <1>2, Of32Bits, Zenon
<1>7. Word(a) /\ a - (a % 2^k) = a /\ 32 - k = b
  <2>1. CASE b = 16 /\ k = 16
    <3>0. t = C!Signed(s, 16) BY <1>3, <1>5, <2>1, Zenon
    <3>1. a = t * 2^16 BY <1>3, <1>5, <2>1, Zenon
    <3>2. Between(t, -(2^15), 2^15 - 1) BY <1>4, <3>0, SMT DEF Word, Between, C!Signed
    <3>3. Word(a) /\ a - (a % 2^16) = a BY <3>1, <3>2, SMT DEF Word, Between
    <3>4. 32 - 16 = 16 OBVIOUS
    <3> QED BY <2>1, <3>3, <3>4, Zenon
  <2>2. CASE b = 18 /\ k = 14
    <3>0. t = C!Signed(s, 18) BY <1>3, <1>5, <2>2, Zenon
    <3>1. a = t * 2^14 BY <1>3, <1>5, <2>2, Zenon
    <3>2. Between(t, -(2^17), 2^17 - 1) BY <1>4, <3>0, SMT DEF Word, Between, C!Signed
    <3>3. Word(a) /\ a - (a % 2^14) = a BY <3>1, <3>2, SMT DEF Word, Between
    <3>4. 32 - 14 = 18 OBVIOUS
    <3> QED BY <2>2, <3>3, <3>4, Zenon
  <2>3. CASE b = 20 /\ k = 12
    <3>0. t = C!Signed(s, 20) BY <1>3, <1>5, <2>3, Zenon
    <3>1. a = t * 2^12 BY <1>3, <1>5, <2>3, Zenon
    <3>2. Between(t, -(2^19), 2^19 - 1) BY <1>4, <3>0, SMT DEF Word, Between, C!Signed
    <3>3. Word(a) /\ a - (a % 2^12) = a BY <3>1, <3>2, SMT DEF Word, Between
    <3>4. 32 - 12 = 20 OBVIOUS
    <3> QED BY <2>3, <3>3, <3>4, Zenon
  <2>4. CASE b = 24 /\ k = 8
    <3>0. t = C!Signed(s, 24) BY <1>3, <1>5, <2>4, Zenon
    <3>1. a = t * 2^8 BY <1>3, <1>5, <2>4, Zenon
    <3>2. Between(t, -(2^23), 2^23 - 1) BY <1>4, <3>0, SMT DEF Word, Between, C!Signed
    <3>3. Word(a) /\ a - (a % 2^8) = a BY <3>1, <3>2, SMT DEF Word, Between
    <3>4. 32 - 8 = 24 OBVIOUS
    <3> QED BY <2>4, <3>3, <3>4, Zenon
  <2> QED BY <1>6, <2>1, <2>2, <2>3, <2>4, Zenon
<1>8. C!Cut(a, b) = a BY <1>2, <1>7, Zenon DEF C!Cut
<1>9. Worth(g, s, a) BY <1>1, <1>7, <1>8, Zenon DEF Worth
<1>10. C!Of32_Any(g, s, f) = C!S32_Any(C!Shl(s, 32 - C!Bits[g]), f) BY Zenon DEF C!Of32_Any, C!S32_Any
<1>11. C!Shl(s, 32 - C!Bits[g]) = a BY <1>1, <1>2, <1>3, <1>5, <1>7, Zenon DEF C!Shl
<1> QED BY <1>9, <1>10, <1>11, Zenon

LEMMA S32Converts ==
  ASSUME NEW s, Word(s)
  PROVE  C!Cut(s, 32) = s
<1>1. s - (s % 2^0) = s BY SMT DEF Word, Between
<1> QED BY <1>1, CutIs, Zenon

LEMMA FloatConverts ==
  ASSUME NEW s, C!Typed("Float", s), NEW f \in C!Format, f # "Float", NEW a, a = C!Amplitude("Float", s)
  PROVE  Worth("Float", s, a) /\ C!Float_Any(s, f) = C!S32_Any(a, f)
<1>1. PICK n, e, t : n = s[1] /\ e = s[2] /\ t = C!Truncated(s) OBVIOUS
<1>2. -(2^23) \in Int /\ 2^23 - 1 \in Int BY SMT
<1>3. Between(n, -(2^23), 2^23 - 1) /\ e \in 0..1 BY <1>1, <1>2, TypedAsFloat, RangeBetween, Zenon
<1>4. t = IF n < 0 THEN n + e ELSE n BY <1>1, Zenon DEF C!Truncated
<1>5. Between(t, -(2^23), 2^23 - 1) BY <1>3, <1>4, SMT DEF Between
<1>6. a = t * 256 BY <1>1, AmplitudeOfFloat, Zenon
<1>7. PICK v : v = C!value_of(t) OBVIOUS
<1>8. v \in Seq(0..255) /\ Len(v) = 3 /\ C!int_value(v) = t BY <1>5, <1>7, ValueOfDoes
<1>9. C!Typed("S24", v) BY <1>8, TypedAsS24, Zenon
<1>10. a = C!Amplitude("S24", v)
  <2>1. (C!Signed(v[3], 8) * 256 + v[2]) * 2^16 + v[1] * 256 = C!int_value(v) * 256 BY <1>8, ThreeBytes
  <2> QED BY <1>6, <1>8, <2>1, AmplitudeOfS24, Zenon
<1>11. "U8" \in C!Format /\ "U8" # "S24" BY Zenon DEF C!Format
<1>12. Worth("S24", v, a) BY <1>9, <1>10, <1>11, S24Converts, Zenon
<1>13. Worth("Float", s, a) BY <1>12, BitsAre, Zenon DEF Worth
<1>14. CASE f = "S24"
  <2>1. C!Float_Any(s, "S24") = v BY <1>1, <1>7, Zenon DEF C!Float_Any, C!Float_S24
  <2>2. C!S32_Any(a, "S24") = C!value_of(a \div 2^8) BY TopAsS24, Zenon
  <2>3. a \div 2^8 = t BY <1>5, <1>6, SMT DEF Between
  <2> QED BY <1>7, <1>13, <1>14, <2>1, <2>2, <2>3, Zenon
<1>15. CASE f # "S24"
  <2>1. C!Float_Any(s, f) = C!S24_Any(v, f) BY <1>1, <1>7, <1>15, Zenon DEF C!Float_Any, C!Float_S24
  <2>2. C!S24_Any(v, f) = C!S32_Any(a, f) BY <1>9, <1>10, <1>15, S24Converts, Zenon
  <2> QED BY <1>13, <2>1, <2>2, Zenon
<1> QED BY <1>14, <1>15

LEMMA DoubleConverts ==
  ASSUME NEW s, C!Typed("Double", s), NEW f, NEW a, a = C!Amplitude("Double", s)
  PROVE  Worth("Double", s, a) /\ C!Double_Any(s, f) = C!S32_Any(a, f)
<1>1. PICK n, e : n = s[1] /\ e = s[2] OBVIOUS
<1>2. Word(n) /\ e \in 0..1 BY <1>1, TypedAsDouble, WordIs, Zenon
<1>3. a = C!Truncated(s) BY AmplitudeOfDouble, Zenon
<1>4. a = IF n < 0 THEN n + e ELSE n BY <1>1, <1>3, Zenon DEF C!Truncated
<1>5. Word(a) BY <1>2, <1>4, SMT DEF Word, Between
<1>6. Worth("Double", s, a) BY <1>5, S32Converts, BitsAre, Zenon DEF Worth
<1>7. C!Double_Any(s, f) = C!S32_Any(a, f) BY <1>3, Zenon DEF C!Double_Any, C!Double_S32
<1> QED BY <1>6, <1>7

LEMMA ConvertIs ==
  ASSUME NEW s, NEW f
  PROVE  /\ C!convert_sample("U8", f, s) = C!U8_Any(s, f)
         /\ C!convert_sample("S16", f, s) = C!S16_Any(s, f)
         /\ C!convert_sample("S24", f, s) = C!S24_Any(s, f)
         /\ C!convert_sample("S32", f, s) = C!S32_Any(s, f)
         /\ C!convert_sample("Float", f, s) = C!Float_Any(s, f)
         /\ C!convert_sample("Double", f, s) = C!Double_Any(s, f)
         /\ \A g \in C!Of32 : C!convert_sample(g, f, s) = C!Of32_Any(g, s, f)
<1>1. C!convert_sample("U8", f, s) = C!U8_Any(s, f) BY Zenon DEF C!convert_sample, C!Of32
<1>2. C!convert_sample("S16", f, s) = C!S16_Any(s, f) BY Zenon DEF C!convert_sample, C!Of32
<1>3. C!convert_sample("S24", f, s) = C!S24_Any(s, f) BY Zenon DEF C!convert_sample, C!Of32
<1>4. C!convert_sample("S32", f, s) = C!S32_Any(s, f) BY Zenon DEF C!convert_sample, C!Of32
<1>5. C!convert_sample("Float", f, s) = C!Float_Any(s, f) BY Zenon DEF C!convert_sample, C!Of32
<1>6. C!convert_sample("Double", f, s) = C!Double_Any(s, f) BY Zenon DEF C!convert_sample, C!Of32
<1>7. ASSUME NEW g \in C!Of32 PROVE C!convert_sample(g, f, s) = C!Of32_Any(g, s, f)
  <2>1. g # "U8" /\ g # "S16" /\ g # "S24" /\ g # "S32" /\ g # "Float" /\ g # "Double" BY DEF C!Of32
  <2> QED BY <2>1, Zenon DEF C!convert_sample
<1> QED BY <1>1, <1>2, <1>3, <1>4, <1>5, <1>6, <1>7, Zenon

\* Every conversion is the one of the sample's amplitude, an int32_t, to the other format.
LEMMA ConvertDoes ==
  ASSUME NEW g \in C!Format, NEW s, C!Typed(g, s), NEW a, a = C!Amplitude(g, s)
  PROVE  /\ Worth(g, s, a)
         /\ \A f \in C!Format : C!Convertible(g, f) => C!convert_sample(g, f, s) = C!S32_Any(a, f)
<1>0. "S32" \in C!Format /\ "S16" \in C!Format BY Zenon DEF C!Format
<1>1. CASE g = "U8"
  <2>1. \A f \in C!Format : C!Convertible(g, f) => f # "U8" BY <1>1, Zenon DEF C!Convertible
  <2>2. \A f \in C!Format : f # "U8" => Worth("U8", s, a) /\ C!U8_Any(s, f) = C!S32_Any(a, f) BY <1>1, U8Converts, Zenon
  <2> QED BY <1>0, <1>1, <2>1, <2>2, ConvertIs, Zenon
<1>2. CASE g = "S16"
  <2>1. \A f \in C!Format : C!Convertible(g, f) => f # "S16of32" BY <1>2, Zenon DEF C!Convertible
  <2>2. \A f \in C!Format : f # "S16of32" => Worth("S16", s, a) /\ C!S16_Any(s, f) = C!S32_Any(a, f)
    BY <1>2, S16Converts, Zenon
  <2> QED BY <1>0, <1>2, <2>1, <2>2, ConvertIs, Zenon
<1>3. CASE g = "S24"
  <2>1. \A f \in C!Format : C!Convertible(g, f) => f # "S24" BY <1>3, Zenon DEF C!Convertible
  <2>2. \A f \in C!Format : f # "S24" => Worth("S24", s, a) /\ C!S24_Any(s, f) = C!S32_Any(a, f) BY <1>3, S24Converts, Zenon
  <2> QED BY <1>0, <1>3, <2>1, <2>2, ConvertIs, Zenon
<1>4. CASE g = "S32"
  <2>1. a = s BY <1>4, AmplitudeOfS32, Zenon
  <2>2. Word(s) BY <1>4, TypedAsS32, WordIs, Zenon
  <2>3. Worth("S32", s, a) BY <1>4, <2>1, <2>2, S32Converts, BitsAre, Zenon DEF Worth
  <2> QED BY <1>4, <2>1, <2>3, ConvertIs, Zenon
<1>5. CASE g = "Float"
  <2>1. \A f \in C!Format : C!Convertible(g, f) => f # "Float" BY <1>5, Zenon DEF C!Convertible
  <2>2. \A f \in C!Format : f # "Float" => Worth("Float", s, a) /\ C!Float_Any(s, f) = C!S32_Any(a, f)
    BY <1>5, FloatConverts, Zenon
  <2> QED BY <1>0, <1>5, <2>1, <2>2, ConvertIs, Zenon
<1>6. CASE g = "Double"
  <2>1. Worth("Double", s, a) /\ \A f : C!Double_Any(s, f) = C!S32_Any(a, f) BY <1>6, DoubleConverts, Zenon
  <2> QED BY <1>6, <2>1, ConvertIs, Zenon
<1>7. CASE g \in C!Of32
  <2>1. Worth(g, s, a) /\ \A f : C!Of32_Any(g, s, f) = C!S32_Any(a, f) BY <1>7, Of32Converts, Zenon
  <2> QED BY <1>7, <2>1, ConvertIs, Zenon
<1> QED BY <1>1, <1>2, <1>3, <1>4, <1>5, <1>6, <1>7, Zenon DEF C!Format

Widths == {8, 16, 18, 20, 24, 32}

LEMMA WidthOf == ASSUME NEW f \in C!Format PROVE C!Bits[f] \in Widths
BY BitsAre, Zenon DEF C!Format, C!Of32, Widths

\* Cut twice, an amplitude is cut to the narrower width: y is x cut before.
LEMMA CutTwice ==
  ASSUME NEW x, Word(x), NEW b \in Widths, NEW c \in Widths
  PROVE  C!Cut(C!Cut(x, b), c) = C!Cut(x, IF c < b THEN c ELSE b)
<1>1. PICK y : y = C!Cut(x, b) OBVIOUS
<1>2. PICK n : n = IF c < b THEN c ELSE b OBVIOUS
<1> SUFFICES C!Cut(y, c) = C!Cut(x, n) BY <1>1, <1>2, Zenon
<1>3. CASE b = 8
  <2>1. y = x - (x % 2^24) BY <1>1, <1>3, CutIs, Zenon
  <2>2. CASE c = 8
    <3>1. y - (y % 2^24) = x - (x % 2^24) BY <2>1, SMT DEF Word, Between
    <3>2. n = 8 BY <1>2, <1>3, <2>2
    <3> QED BY <2>2, <3>1, <3>2, CutIs, Zenon
  <2>3. CASE c = 16
    <3>1. y - (y % 2^16) = x - (x % 2^24) BY <2>1, SMT DEF Word, Between
    <3>2. n = 8 BY <1>2, <1>3, <2>3
    <3> QED BY <2>3, <3>1, <3>2, CutIs, Zenon
  <2>4. CASE c = 18
    <3>1. y - (y % 2^14) = x - (x % 2^24) BY <2>1, SMT DEF Word, Between
    <3>2. n = 8 BY <1>2, <1>3, <2>4
    <3> QED BY <2>4, <3>1, <3>2, CutIs, Zenon
  <2>5. CASE c = 20
    <3>1. y - (y % 2^12) = x - (x % 2^24) BY <2>1, SMT DEF Word, Between
    <3>2. n = 8 BY <1>2, <1>3, <2>5
    <3> QED BY <2>5, <3>1, <3>2, CutIs, Zenon
  <2>6. CASE c = 24
    <3>1. y - (y % 2^8) = x - (x % 2^24) BY <2>1, SMT DEF Word, Between
    <3>2. n = 8 BY <1>2, <1>3, <2>6
    <3> QED BY <2>6, <3>1, <3>2, CutIs, Zenon
  <2>7. CASE c = 32
    <3>1. y - (y % 2^0) = x - (x % 2^24) BY <2>1, SMT DEF Word, Between
    <3>2. n = 8 BY <1>2, <1>3, <2>7
    <3> QED BY <2>7, <3>1, <3>2, CutIs, Zenon
  <2> QED BY <2>2, <2>3, <2>4, <2>5, <2>6, <2>7, Zenon DEF Widths
<1>4. CASE b = 16
  <2>1. y = x - (x % 2^16) BY <1>1, <1>4, CutIs, Zenon
  <2>2. CASE c = 8
    <3>1. y - (y % 2^24) = x - (x % 2^24) BY <2>1, SMT DEF Word, Between
    <3>2. n = 8 BY <1>2, <1>4, <2>2
    <3> QED BY <2>2, <3>1, <3>2, CutIs, Zenon
  <2>3. CASE c = 16
    <3>1. y - (y % 2^16) = x - (x % 2^16) BY <2>1, SMT DEF Word, Between
    <3>2. n = 16 BY <1>2, <1>4, <2>3
    <3> QED BY <2>3, <3>1, <3>2, CutIs, Zenon
  <2>4. CASE c = 18
    <3>1. y - (y % 2^14) = x - (x % 2^16) BY <2>1, SMT DEF Word, Between
    <3>2. n = 16 BY <1>2, <1>4, <2>4
    <3> QED BY <2>4, <3>1, <3>2, CutIs, Zenon
  <2>5. CASE c = 20
    <3>1. y - (y % 2^12) = x - (x % 2^16) BY <2>1, SMT DEF Word, Between
    <3>2. n = 16 BY <1>2, <1>4, <2>5
    <3> QED BY <2>5, <3>1, <3>2, CutIs, Zenon
  <2>6. CASE c = 24
    <3>1. y - (y % 2^8) = x - (x % 2^16) BY <2>1, SMT DEF Word, Between
    <3>2. n = 16 BY <1>2, <1>4, <2>6
    <3> QED BY <2>6, <3>1, <3>2, CutIs, Zenon
  <2>7. CASE c = 32
    <3>1. y - (y % 2^0) = x - (x % 2^16) BY <2>1, SMT DEF Word, Between
    <3>2. n = 16 BY <1>2, <1>4, <2>7
    <3> QED BY <2>7, <3>1, <3>2, CutIs, Zenon
  <2> QED BY <2>2, <2>3, <2>4, <2>5, <2>6, <2>7, Zenon DEF Widths
<1>5. CASE b = 18
  <2>1. y = x - (x % 2^14) BY <1>1, <1>5, CutIs, Zenon
  <2>2. CASE c = 8
    <3>1. y - (y % 2^24) = x - (x % 2^24) BY <2>1, SMT DEF Word, Between
    <3>2. n = 8 BY <1>2, <1>5, <2>2
    <3> QED BY <2>2, <3>1, <3>2, CutIs, Zenon
  <2>3. CASE c = 16
    <3>1. y - (y % 2^16) = x - (x % 2^16) BY <2>1, SMT DEF Word, Between
    <3>2. n = 16 BY <1>2, <1>5, <2>3
    <3> QED BY <2>3, <3>1, <3>2, CutIs, Zenon
  <2>4. CASE c = 18
    <3>1. y - (y % 2^14) = x - (x % 2^14) BY <2>1, SMT DEF Word, Between
    <3>2. n = 18 BY <1>2, <1>5, <2>4
    <3> QED BY <2>4, <3>1, <3>2, CutIs, Zenon
  <2>5. CASE c = 20
    <3>1. y - (y % 2^12) = x - (x % 2^14) BY <2>1, SMT DEF Word, Between
    <3>2. n = 18 BY <1>2, <1>5, <2>5
    <3> QED BY <2>5, <3>1, <3>2, CutIs, Zenon
  <2>6. CASE c = 24
    <3>1. y - (y % 2^8) = x - (x % 2^14) BY <2>1, SMT DEF Word, Between
    <3>2. n = 18 BY <1>2, <1>5, <2>6
    <3> QED BY <2>6, <3>1, <3>2, CutIs, Zenon
  <2>7. CASE c = 32
    <3>1. y - (y % 2^0) = x - (x % 2^14) BY <2>1, SMT DEF Word, Between
    <3>2. n = 18 BY <1>2, <1>5, <2>7
    <3> QED BY <2>7, <3>1, <3>2, CutIs, Zenon
  <2> QED BY <2>2, <2>3, <2>4, <2>5, <2>6, <2>7, Zenon DEF Widths
<1>6. CASE b = 20
  <2>1. y = x - (x % 2^12) BY <1>1, <1>6, CutIs, Zenon
  <2>2. CASE c = 8
    <3>1. y - (y % 2^24) = x - (x % 2^24) BY <2>1, SMT DEF Word, Between
    <3>2. n = 8 BY <1>2, <1>6, <2>2
    <3> QED BY <2>2, <3>1, <3>2, CutIs, Zenon
  <2>3. CASE c = 16
    <3>1. y - (y % 2^16) = x - (x % 2^16) BY <2>1, SMT DEF Word, Between
    <3>2. n = 16 BY <1>2, <1>6, <2>3
    <3> QED BY <2>3, <3>1, <3>2, CutIs, Zenon
  <2>4. CASE c = 18
    <3>1. y - (y % 2^14) = x - (x % 2^14) BY <2>1, SMT DEF Word, Between
    <3>2. n = 18 BY <1>2, <1>6, <2>4
    <3> QED BY <2>4, <3>1, <3>2, CutIs, Zenon
  <2>5. CASE c = 20
    <3>1. y - (y % 2^12) = x - (x % 2^12) BY <2>1, SMT DEF Word, Between
    <3>2. n = 20 BY <1>2, <1>6, <2>5
    <3> QED BY <2>5, <3>1, <3>2, CutIs, Zenon
  <2>6. CASE c = 24
    <3>1. y - (y % 2^8) = x - (x % 2^12) BY <2>1, SMT DEF Word, Between
    <3>2. n = 20 BY <1>2, <1>6, <2>6
    <3> QED BY <2>6, <3>1, <3>2, CutIs, Zenon
  <2>7. CASE c = 32
    <3>1. y - (y % 2^0) = x - (x % 2^12) BY <2>1, SMT DEF Word, Between
    <3>2. n = 20 BY <1>2, <1>6, <2>7
    <3> QED BY <2>7, <3>1, <3>2, CutIs, Zenon
  <2> QED BY <2>2, <2>3, <2>4, <2>5, <2>6, <2>7, Zenon DEF Widths
<1>7. CASE b = 24
  <2>1. y = x - (x % 2^8) BY <1>1, <1>7, CutIs, Zenon
  <2>2. CASE c = 8
    <3>1. y - (y % 2^24) = x - (x % 2^24) BY <2>1, SMT DEF Word, Between
    <3>2. n = 8 BY <1>2, <1>7, <2>2
    <3> QED BY <2>2, <3>1, <3>2, CutIs, Zenon
  <2>3. CASE c = 16
    <3>1. y - (y % 2^16) = x - (x % 2^16) BY <2>1, SMT DEF Word, Between
    <3>2. n = 16 BY <1>2, <1>7, <2>3
    <3> QED BY <2>3, <3>1, <3>2, CutIs, Zenon
  <2>4. CASE c = 18
    <3>1. y - (y % 2^14) = x - (x % 2^14) BY <2>1, SMT DEF Word, Between
    <3>2. n = 18 BY <1>2, <1>7, <2>4
    <3> QED BY <2>4, <3>1, <3>2, CutIs, Zenon
  <2>5. CASE c = 20
    <3>1. y - (y % 2^12) = x - (x % 2^12) BY <2>1, SMT DEF Word, Between
    <3>2. n = 20 BY <1>2, <1>7, <2>5
    <3> QED BY <2>5, <3>1, <3>2, CutIs, Zenon
  <2>6. CASE c = 24
    <3>1. y - (y % 2^8) = x - (x % 2^8) BY <2>1, SMT DEF Word, Between
    <3>2. n = 24 BY <1>2, <1>7, <2>6
    <3> QED BY <2>6, <3>1, <3>2, CutIs, Zenon
  <2>7. CASE c = 32
    <3>1. y - (y % 2^0) = x - (x % 2^8) BY <2>1, SMT DEF Word, Between
    <3>2. n = 24 BY <1>2, <1>7, <2>7
    <3> QED BY <2>7, <3>1, <3>2, CutIs, Zenon
  <2> QED BY <2>2, <2>3, <2>4, <2>5, <2>6, <2>7, Zenon DEF Widths
<1>8. CASE b = 32
  <2>1. y = x - (x % 2^0) BY <1>1, <1>8, CutIs, Zenon
  <2>2. CASE c = 8
    <3>1. y - (y % 2^24) = x - (x % 2^24) BY <2>1, SMT DEF Word, Between
    <3>2. n = 8 BY <1>2, <1>8, <2>2
    <3> QED BY <2>2, <3>1, <3>2, CutIs, Zenon
  <2>3. CASE c = 16
    <3>1. y - (y % 2^16) = x - (x % 2^16) BY <2>1, SMT DEF Word, Between
    <3>2. n = 16 BY <1>2, <1>8, <2>3
    <3> QED BY <2>3, <3>1, <3>2, CutIs, Zenon
  <2>4. CASE c = 18
    <3>1. y - (y % 2^14) = x - (x % 2^14) BY <2>1, SMT DEF Word, Between
    <3>2. n = 18 BY <1>2, <1>8, <2>4
    <3> QED BY <2>4, <3>1, <3>2, CutIs, Zenon
  <2>5. CASE c = 20
    <3>1. y - (y % 2^12) = x - (x % 2^12) BY <2>1, SMT DEF Word, Between
    <3>2. n = 20 BY <1>2, <1>8, <2>5
    <3> QED BY <2>5, <3>1, <3>2, CutIs, Zenon
  <2>6. CASE c = 24
    <3>1. y - (y % 2^8) = x - (x % 2^8) BY <2>1, SMT DEF Word, Between
    <3>2. n = 24 BY <1>2, <1>8, <2>6
    <3> QED BY <2>6, <3>1, <3>2, CutIs, Zenon
  <2>7. CASE c = 32
    <3>1. y - (y % 2^0) = x - (x % 2^0) BY <2>1, SMT DEF Word, Between
    <3>2. n = 32 BY <1>2, <1>8, <2>7
    <3> QED BY <2>7, <3>1, <3>2, CutIs, Zenon
  <2> QED BY <2>2, <2>3, <2>4, <2>5, <2>6, <2>7, Zenon DEF Widths
<1> QED BY <1>3, <1>4, <1>5, <1>6, <1>7, <1>8, Zenon DEF Widths

\* The variable holds a sample of any format.
LEMMA ValueOfNumbers == ASSUME NEW f, NEW s PROVE C!Value(f, C!Numbers(f, s)) = s
<1>1. <<s>>[1] = s OBVIOUS
<1> QED BY <1>1, Zenon DEF C!Value, C!Numbers

LEMMA SameThree ==
  ASSUME NEW B, NEW s \in Seq(B), NEW r \in Seq(B), Len(s) = 3, Len(r) = 3, s[1] = r[1], s[2] = r[2], s[3] = r[3]
  PROVE  s = r
<1>1. s = <<s[1], s[2], s[3]>> OBVIOUS
<1>2. r = <<r[1], r[2], r[3]>> OBVIOUS
<1> QED BY <1>1, <1>2, Zenon

\* Two samples of an integer format without a container that are worth the same are the same.
LEMMA SameSample ==
  ASSUME NEW f \in {"U8", "S16", "S24", "S32"}, NEW s, NEW r, C!Typed(f, s), C!Typed(f, r),
         C!Amplitude(f, s) = C!Amplitude(f, r)
  PROVE  s = r
<1>0. PICK a : a = C!Amplitude(f, s) /\ a = C!Amplitude(f, r) OBVIOUS
<1>1. CASE f = "U8"
  <2>1. Between(s, 0, 255) /\ Between(r, 0, 255) BY <1>1, TypedAsU8, Bytes, Zenon
  <2>2. a = (s - 128) * 2^24 BY <1>0, <1>1, AmplitudeOfU8, Zenon
  <2>3. a = (r - 128) * 2^24 BY <1>0, <1>1, AmplitudeOfU8, Zenon
  <2> QED BY <2>1, <2>2, <2>3, SMT DEF Between
<1>2. CASE f = "S16"
  <2>1. -(2^15) \in Int /\ 2^15 - 1 \in Int BY SMT
  <2>2. Between(s, -(2^15), 2^15 - 1) BY <1>2, <2>1, TypedAsS16, RangeBetween, Zenon
  <2>3. Between(r, -(2^15), 2^15 - 1) BY <1>2, <2>1, TypedAsS16, RangeBetween, Zenon
  <2>4. a = s * 2^16 BY <1>0, <1>2, AmplitudeOfS16, Zenon
  <2>5. a = r * 2^16 BY <1>0, <1>2, AmplitudeOfS16, Zenon
  <2> QED BY <2>2, <2>3, <2>4, <2>5, SMT DEF Between
<1>3. CASE f = "S24"
  <2>1. s \in Seq(0..255) /\ Len(s) = 3 /\ r \in Seq(0..255) /\ Len(r) = 3 BY <1>3, TypedAsS24, Zenon
  <2>2. /\ Between(s[1], 0, 255) /\ Between(s[2], 0, 255) /\ Between(s[3], 0, 255)
        /\ Between(r[1], 0, 255) /\ Between(r[2], 0, 255) /\ Between(r[3], 0, 255)
    BY <2>1, ThreeBytes
  <2>3. PICK k, l : k = s[1] /\ l = r[1] OBVIOUS
  <2>4. PICK u, v : u = C!Signed(s[3], 8) /\ v = C!Signed(r[3], 8) OBVIOUS
  <2>5. u \in Int /\ v \in Int /\ (u = v => s[3] = r[3]) BY <2>2, <2>4, SMT DEF Between, C!Signed
  <2>6. PICK m, n : m = u * 256 + s[2] /\ n = v * 256 + r[2] OBVIOUS
  <2>7. a = m * 2^16 + k * 256 BY <1>0, <1>3, <2>3, <2>4, <2>6, AmplitudeOfS24, Zenon
  <2>8. a = n * 2^16 + l * 256 BY <1>0, <1>3, <2>3, <2>4, <2>6, AmplitudeOfS24, Zenon
  <2>9. m \in Int /\ n \in Int BY <2>2, <2>5, <2>6, SMT DEF Between
  <2>10. Between(k, 0, 255) /\ Between(l, 0, 255) BY <2>2, <2>3, Zenon
  <2>11. m = n /\ k = l BY <2>7, <2>8, <2>9, <2>10, SMT DEF Between
  <2>12. u = v /\ s[2] = r[2] BY <2>2, <2>5, <2>6, <2>11, SMT DEF Between
  <2>13. s[1] = r[1] /\ s[2] = r[2] /\ s[3] = r[3] BY <2>3, <2>5, <2>11, <2>12, Zenon
  <2>14. PICK B : B = 0..255 OBVIOUS
  <2>15. s \in Seq(B) /\ r \in Seq(B) /\ Len(s) = 3 /\ Len(r) = 3 BY <2>1, <2>14, Zenon
  <2> QED BY <2>13, <2>15, SameThree, Zenon
<1>4. CASE f = "S32"
  <2>1. a = s BY <1>0, <1>4, AmplitudeOfS32, Zenon
  <2>2. a = r BY <1>0, <1>4, AmplitudeOfS32, Zenon
  <2> QED BY <2>1, <2>2
<1> QED BY <1>1, <1>2, <1>3, <1>4, Zenon

\* The samples of the inputs have values of their sample_t.
LEMMA InputsTyped ==
  ASSUME NEW f \in C!Format, NEW x, Word(x), NEW s \in C!Inputs(f, x)
  PROVE  C!Typed(f, s)
<1>1. CASE f = "U8"
  <2>1. s = x \div 2^24 + 128 BY <1>1, Zenon DEF C!Inputs, C!Of32
  <2>2. Between(s, 0, 255) BY <2>1, SMT DEF Word, Between
  <2> QED BY <1>1, <2>2, Bytes, TypedAsU8, Zenon
<1>2. CASE f = "S16"
  <2>1. s = x \div 2^16 BY <1>2, Zenon DEF C!Inputs, C!Of32
  <2>2. Between(s, -(2^15), 2^15 - 1) BY <2>1, SMT DEF Word, Between
  <2>3. -(2^15) \in Int /\ 2^15 - 1 \in Int BY SMT
  <2> QED BY <1>2, <2>2, <2>3, RangeBetween, TypedAsS16, Zenon
<1>3. CASE f = "S32"
  <2>1. s = x BY <1>3, Zenon DEF C!Inputs, C!Of32
  <2> QED BY <1>3, <2>1, WordIs, TypedAsS32, Zenon
<1>4. CASE f = "S24"
  <2>1. PICK t : t = x \div 256 OBVIOUS
  <2>2. s = C!value_of(t) BY <1>4, <2>1, Zenon DEF C!Inputs, C!Of32
  <2>3. Between(t, -(2^23), 2^23 - 1) BY <2>1, SMT DEF Word, Between
  <2>4. s \in Seq(0..255) /\ Len(s) = 3 BY <2>2, <2>3, ValueOfDoes
  <2> QED BY <1>4, <2>4, TypedAsS24, Zenon
<1>5. CASE f = "Float"
  <2>1. PICK e \in 0..1 : s = <<x \div 256, e>> BY <1>5, Zenon DEF C!Inputs, C!Of32
  <2>2. Between(x \div 256, -(2^23), 2^23 - 1) BY SMT DEF Word, Between
  <2>3. -(2^23) \in Int /\ 2^23 - 1 \in Int BY SMT
  <2>4. s[1] = x \div 256 /\ s[2] \in 0..1 BY <2>1
  <2> QED BY <1>5, <2>2, <2>3, <2>4, RangeBetween, TypedAsFloat, Zenon
<1>6. CASE f = "Double"
  <2>1. PICK e \in 0..1 : s = <<x, e>> BY <1>6, Zenon DEF C!Inputs, C!Of32
  <2>2. s[1] = x /\ s[2] \in 0..1 BY <2>1
  <2> QED BY <1>6, <2>2, WordIs, TypedAsDouble, Zenon
<1>7. CASE f \in C!Of32
  <2>1. PICK b, k : b = C!Bits[f] /\ k = 32 - C!Bits[f] OBVIOUS
  <2>2. f # "U8" /\ f # "S16" /\ f # "S24" /\ f # "S32" /\ f # "Float" /\ f # "Double" BY <1>7 DEF C!Of32
  <2>3. s = x \div 2^k \/ s = (x \div 2^k) % 2^b BY <1>7, <2>1, <2>2, Zenon DEF C!Inputs
  <2>4. (b = 16 /\ k = 16) \/ (b = 18 /\ k = 14) \/ (b = 20 /\ k = 12) \/ (b = 24 /\ k = 8)
    BY <1>7, <2>1, Of32Bits, Zenon
  <2>5. Word(s)
    <3>1. CASE b = 16 /\ k = 16
      <4>1. s = x \div 2^16 \/ s = (x \div 2^16) % 2^16 BY <2>3, <3>1, Zenon
      <4> QED BY <4>1, SMT DEF Word, Between
    <3>2. CASE b = 18 /\ k = 14
      <4>1. s = x \div 2^14 \/ s = (x \div 2^14) % 2^18 BY <2>3, <3>2, Zenon
      <4> QED BY <4>1, SMT DEF Word, Between
    <3>3. CASE b = 20 /\ k = 12
      <4>1. s = x \div 2^12 \/ s = (x \div 2^12) % 2^20 BY <2>3, <3>3, Zenon
      <4> QED BY <4>1, SMT DEF Word, Between
    <3>4. CASE b = 24 /\ k = 8
      <4>1. s = x \div 2^8 \/ s = (x \div 2^8) % 2^24 BY <2>3, <3>4, Zenon
      <4> QED BY <4>1, SMT DEF Word, Between
    <3> QED BY <2>4, <3>1, <3>2, <3>3, <3>4, Zenon
  <2> QED BY <1>7, <2>5, WordIs, TypedAsOf32, Zenon
<1> QED BY <1>1, <1>2, <1>3, <1>4, <1>5, <1>6, <1>7, Zenon DEF C!Format

-----------------------------------------------------------------------------
\* The inductive invariant of the conversions: what the history says of the sample.
PcmInv ==
  /\ format \in C!Format
  /\ C!Typed(format, C!Value(format, sample))
  /\ Word(level) /\ precision \in Widths
  /\ C!AmplitudeKept

LEMMA PcmInit == C!Init => PcmInv
<1> SUFFICES ASSUME C!Init PROVE PcmInv OBVIOUS
<1>1. format \in C!Format /\ precision = C!Bits[format] BY Zenon DEF C!Init
<1>2. PICK x \in Levels : \E s \in C!Inputs(format, x) :
        sample = C!Numbers(format, s) /\ level = C!Amplitude(format, s)
  BY Zenon DEF C!Init
<1>3. PICK s \in C!Inputs(format, x) : sample = C!Numbers(format, s) /\ level = C!Amplitude(format, s)
  BY <1>2, Zenon
<1>4. x \in C!Range32 BY LevelsAssumption, Zenon
<1>5. Word(x) BY <1>4, WordIs, Zenon
<1>6. C!Typed(format, s) BY <1>1, <1>5, InputsTyped, Zenon
<1>7. C!Value(format, sample) = s BY <1>3, ValueOfNumbers, Zenon
<1>8. Worth(format, s, level) BY <1>1, <1>3, <1>6, ConvertDoes, Zenon
<1>9. precision \in Widths BY <1>1, WidthOf, Zenon
<1>10. C!AmplitudeKept BY <1>1, <1>7, <1>8, Zenon DEF C!AmplitudeKept, Worth
<1> QED BY <1>1, <1>6, <1>7, <1>8, <1>9, <1>10, Zenon DEF PcmInv, Worth

LEMMA PcmStep == PcmInv /\ C!Next => PcmInv'
<1> SUFFICES ASSUME PcmInv, NEW to \in C!Format, C!Convert(to) PROVE PcmInv'
  BY Zenon DEF C!Next
<1>1. PICK s : s = C!Value(format, sample) OBVIOUS
<1>2. PICK a : a = C!Amplitude(format, s) OBVIOUS
<1>3. PICK r : r = C!convert_sample(format, to, s) OBVIOUS
<1>4. format \in C!Format /\ C!Typed(format, s) /\ a = C!Cut(level, precision) /\ Word(level) /\ precision \in Widths
  BY <1>1, <1>2, Zenon DEF PcmInv, C!AmplitudeKept
<1>5. /\ C!Convertible(format, to) /\ format' = to /\ sample' = C!Numbers(to, r) /\ level' = level
      /\ precision' = IF C!Bits[to] < precision THEN C!Bits[to] ELSE precision
  BY <1>1, <1>3, Zenon DEF C!Convert
<1>6. Worth(format, s, a) /\ r = C!S32_Any(a, to) BY <1>2, <1>3, <1>4, <1>5, ConvertDoes, Zenon
<1>7. Fits(to, r, a) BY <1>6, TopDoes, Zenon DEF Worth
<1>8. C!Value(to, sample') = r BY <1>5, ValueOfNumbers, Zenon
<1>9. C!Typed(to, r) /\ C!Amplitude(to, r) = C!Cut(a, C!Bits[to]) BY <1>7, Zenon DEF Fits
<1>10. C!Bits[to] \in Widths BY WidthOf, Zenon
<1>11. C!Cut(a, C!Bits[to]) = C!Cut(level, precision') BY <1>4, <1>5, <1>10, CutTwice, Zenon
<1>12. precision' \in Widths BY <1>4, <1>5, <1>10, Zenon
<1>13. (C!Typed(format, C!Value(format, sample)))' BY <1>5, <1>8, <1>9, Zenon
<1>14. C!AmplitudeKept' BY <1>5, <1>8, <1>9, <1>11, Zenon DEF C!AmplitudeKept
<1>15. Word(level)' BY <1>4, <1>5, Zenon
<1>16. (format \in C!Format)' BY <1>5, Zenon
<1> QED BY <1>12, <1>13, <1>14, <1>15, <1>16, Zenon DEF PcmInv

LEMMA PcmKept == PcmInv /\ UNCHANGED sampleVars => PcmInv'
<1> SUFFICES ASSUME PcmInv, UNCHANGED sampleVars PROVE PcmInv' OBVIOUS
<1>1. format' = format /\ sample' = sample /\ level' = level /\ precision' = precision BY Zenon DEF sampleVars
<1> QED BY <1>1, Zenon DEF PcmInv, C!AmplitudeKept

LEMMA PcmHolds == PcmInv => C!ConversionExact
<1> SUFFICES ASSUME PcmInv PROVE C!ConversionExact OBVIOUS
<1>1. C!TypeOK
  <2>1. precision \in 8..32 BY SMT DEF PcmInv, Widths
  <2> QED BY <2>1, WordIs, Zenon DEF PcmInv, C!TypeOK
<1>2. C!RoundTrip
  <2> SUFFICES ASSUME NEW to \in C!Format, C!Bits[to] >= C!Bits[format],
                      C!Convertible(format, to), C!Convertible(to, format)
               PROVE  LET z    == C!Value(format, sample)
                          back == C!convert_sample(to, format, C!convert_sample(format, to, z))
                      IN /\ C!Amplitude(format, back) = C!Amplitude(format, z)
                         /\ format \in {"U8", "S16", "S24", "S32"} => back = z
    BY Zenon DEF C!RoundTrip
  <2>0. PICK s, r, back : /\ s = C!Value(format, sample) /\ r = C!convert_sample(format, to, s)
                          /\ back = C!convert_sample(to, format, r)
    OBVIOUS
  <2>1. PICK a : a = C!Amplitude(format, s) OBVIOUS
  <2>2. format \in C!Format /\ C!Typed(format, s) BY <2>0, Zenon DEF PcmInv
  <2>3. Worth(format, s, a) /\ r = C!S32_Any(a, to) BY <2>0, <2>1, <2>2, ConvertDoes, Zenon
  <2>4. Fits(to, r, a) BY <2>3, TopDoes, Zenon DEF Worth
  <2>5. C!Cut(a, C!Bits[to]) = a
    <3>1. PICK b : b = C!Bits[format] OBVIOUS
    <3>2. PICK c : c = C!Bits[to] OBVIOUS
    <3>3. b \in Widths /\ c \in Widths BY <2>2, <3>1, <3>2, WidthOf, Zenon
    <3>4. (IF c < b THEN c ELSE b) = b BY <3>1, <3>2, <3>3, SMT DEF Widths
    <3>5. C!Cut(a, b) = a /\ Word(a) BY <2>3, <3>1, Zenon DEF Worth
    <3>6. C!Cut(C!Cut(a, b), c) = C!Cut(a, IF c < b THEN c ELSE b) BY <3>3, <3>5, CutTwice, Zenon
    <3> QED BY <3>2, <3>4, <3>5, <3>6, Zenon
  <2>6. C!Typed(to, r) /\ C!Amplitude(to, r) = a BY <2>4, <2>5, Zenon DEF Fits
  <2>7. back = C!S32_Any(a, format) BY <2>0, <2>2, <2>6, ConvertDoes, Zenon
  <2>8. Fits(format, back, a) BY <2>2, <2>3, <2>7, TopDoes, Zenon DEF Worth
  <2>9. C!Typed(format, back) /\ C!Amplitude(format, back) = a BY <2>3, <2>8, Zenon DEF Fits, Worth
  <2>10. ASSUME format \in {"U8", "S16", "S24", "S32"} PROVE back = s
    BY <2>1, <2>2, <2>9, <2>10, SameSample, Zenon
  <2> QED BY <2>0, <2>1, <2>9, <2>10, Zenon
<1> QED BY <1>1, <1>2, Zenon DEF C!ConversionExact, PcmInv

-----------------------------------------------------------------------------
(* The parts together: each step is of one of them, the others stay as they are. *)

PartsInv == PinsInv /\ EnumInv /\ TypeEnumInv /\ PcmInv /\ QualityInv /\ DrawInv /\ StatInv /\ ComInv

LEMMA PartsInvInit == PartsInit => PartsInv
BY PinsInit, EnumInit, PcmInit, QualityInit, DrawInit, StatInit, ComInit, Zenon DEF PartsInit, PartsInv

\* The two enumerators share nothing.
LEMMA PinEnumOnly == E!PinEnumNext => UNCHANGED typeEnumVars
<1>1. ASSUME NEW e, NEW r, E!Set(e, r) PROVE UNCHANGED typeEnumVars
  BY <1>1, Zenon DEF E!Set, E!typeEnumVars, E!pinVars, typeEnumVars
<1>2. (\E a \in Addr : E!AddPin(a)) => UNCHANGED typeEnumVars
  BY Zenon DEF E!AddPin, E!typeEnumVars, E!pinVars, typeEnumVars
<1>5. (\E k : E!RemovePin(k)) => UNCHANGED typeEnumVars
  BY Zenon DEF E!RemovePin, E!typeEnumVars, E!pinVars, typeEnumVars
<1>6. E!IncrementPinVersion => UNCHANGED typeEnumVars
  BY Zenon DEF E!IncrementPinVersion, E!typeEnumVars, E!pinVars, typeEnumVars
<1>7. (\E e, f \in Enums : E!Clone(e, f)) => UNCHANGED typeEnumVars
  BY Zenon DEF E!Clone, E!typeEnumVars, E!pinVars, typeEnumVars
<1>3. (\E e \in Enums : E!EnumPins(e) \/ E!Release(e) \/ E!Reset(e) \/ E!GetPinCount(e)) => UNCHANGED typeEnumVars
  BY <1>1, Zenon DEF E!EnumPins, E!Release, E!Reset, E!GetPinCount
<1>8. (\E e \in Enums : E!GetPin(e) \/ E!NextReturns(e)) => UNCHANGED typeEnumVars
  BY <1>1, Zenon DEF E!GetPin, E!NextReturns
<1>4. (\E e \in Enums, n \in 1..2 : E!NextPins(e, n) \/ E!Skip(e, n)) => UNCHANGED typeEnumVars
  BY <1>1, Zenon DEF E!NextPins, E!Skip
<1> QED BY <1>2, <1>3, <1>4, <1>5, <1>6, <1>7, <1>8, Zenon DEF E!PinEnumNext

LEMMA TypeEnumOnly == E!TypeEnumNext => UNCHANGED pinEnumVars
<1>1. ASSUME NEW e, NEW r, E!SetTypes(e, r) PROVE UNCHANGED pinEnumVars
  BY <1>1, Zenon DEF E!SetTypes, E!pinEnumVars, E!filterVars, pinEnumVars
<1>2. (\E n \in TypeCounts : E!ChangeTypes(n)) => UNCHANGED pinEnumVars
  BY Zenon DEF E!ChangeTypes, E!pinEnumVars, E!filterVars, pinEnumVars
<1>6. E!IncrementTypeVersion => UNCHANGED pinEnumVars
  BY Zenon DEF E!IncrementTypeVersion, E!pinEnumVars, E!filterVars, pinEnumVars
<1>3. (\E e \in Enums : E!EnumMediaTypes(e) \/ E!ReleaseTypes(e) \/ E!ResetTypes(e) \/ E!GetMediaType(e))
       => UNCHANGED pinEnumVars
  BY <1>1, Zenon DEF E!EnumMediaTypes, E!ReleaseTypes, E!ResetTypes, E!GetMediaType
<1>4. (\E e, f \in Enums : E!CloneTypes(e, f)) => UNCHANGED pinEnumVars
  BY <1>1, Zenon DEF E!CloneTypes
<1>5. (\E e \in Enums, n \in 1..2 : E!NextTypes(e, n) \/ E!SkipTypes(e, n)) => UNCHANGED pinEnumVars
  BY <1>1, Zenon DEF E!NextTypes, E!SkipTypes
<1> QED BY <1>2, <1>3, <1>4, <1>5, <1>6, Zenon DEF E!TypeEnumNext

LEMMA GraphKept == PinsInv /\ EnumInv /\ TypeEnumInv /\ UNCHANGED graphVars => (PinsInv /\ EnumInv /\ TypeEnumInv)'
<1>1. UNCHANGED graphVars => UNCHANGED pinsVars /\ UNCHANGED pinEnumVars /\ UNCHANGED typeEnumVars
  BY Zenon DEF graphVars
<1> QED BY <1>1, PinsKept, PinEnumKept, TypeEnumKept, Zenon

LEMMA DrawnKept == QualityInv /\ DrawInv /\ StatInv /\ UNCHANGED drawnVars => (QualityInv /\ DrawInv /\ StatInv)'
<1>1. UNCHANGED drawnVars => UNCHANGED videoVars /\ UNCHANGED drawVars /\ UNCHANGED statVars
  BY Zenon DEF drawnVars
<1> QED BY <1>1, QualityKept, DrawKept, StatKept, Zenon

LEMMA PartsInvStep ==
  PartsInv /\ [PartsNext]_<<part, vars, graphVars, sampleVars, drawnVars, listVars, comVars>> => PartsInv'
<1> SUFFICES ASSUME PartsInv, [PartsNext]_<<part, vars, graphVars, sampleVars, drawnVars, listVars, comVars>>
             PROVE  PartsInv'
  OBVIOUS
<1>0. PinsInv /\ EnumInv /\ TypeEnumInv /\ PcmInv /\ QualityInv /\ DrawInv /\ StatInv /\ ComInv BY Zenon DEF PartsInv
<1>1. ASSUME UNCHANGED <<graphVars, sampleVars, drawnVars, comVars>> PROVE PartsInv'
  <2>1. UNCHANGED graphVars /\ UNCHANGED sampleVars /\ UNCHANGED drawnVars /\ UNCHANGED comVars BY <1>1, Zenon
  <2> QED BY <1>0, <2>1, GraphKept, PcmKept, DrawnKept, ComKept, Zenon DEF PartsInv
<1>2. CASE NextThreads BY <1>1, <1>2, Zenon DEF NextThreads
<1>3. CASE NextItems BY <1>1, <1>3, Zenon DEF NextItems
<1>4. CASE NextList BY <1>1, <1>4, Zenon DEF NextList
<1>5. CASE NextPins
  <2>1. /\ P!Next /\ UNCHANGED pinEnumVars /\ UNCHANGED typeEnumVars /\ UNCHANGED sampleVars
        /\ UNCHANGED drawnVars /\ UNCHANGED comVars
    BY <1>5, Zenon DEF NextPins
  <2> QED BY <1>0, <2>1, PinsStep, PinEnumKept, TypeEnumKept, PcmKept, DrawnKept, ComKept, Zenon DEF PartsInv
<1>6. CASE NextPinEnum
  <2>1. /\ E!PinEnumNext /\ UNCHANGED typeEnumVars /\ UNCHANGED pinsVars /\ UNCHANGED sampleVars
        /\ UNCHANGED drawnVars /\ UNCHANGED comVars
    BY <1>6, PinEnumOnly, Zenon DEF NextPinEnum
  <2> QED BY <1>0, <2>1, PinEnumStep, PinsKept, TypeEnumKept, PcmKept, DrawnKept, ComKept, Zenon DEF PartsInv
<1>7. CASE NextTypeEnum
  <2>1. /\ E!TypeEnumNext /\ UNCHANGED pinEnumVars /\ UNCHANGED pinsVars /\ UNCHANGED sampleVars
        /\ UNCHANGED drawnVars /\ UNCHANGED comVars
    BY <1>7, TypeEnumOnly, Zenon DEF NextTypeEnum
  <2> QED BY <1>0, <2>1, TypeEnumStep, PinsKept, PinEnumKept, PcmKept, DrawnKept, ComKept, Zenon DEF PartsInv
<1>8. CASE NextPcm
  <2>1. C!Next /\ UNCHANGED graphVars /\ UNCHANGED drawnVars /\ UNCHANGED comVars BY <1>8, Zenon DEF NextPcm
  <2> QED BY <1>0, <2>1, PcmStep, GraphKept, DrawnKept, ComKept, Zenon DEF PartsInv
<1>9. CASE NextQuality
  <2>1. /\ Q!VideoNext /\ UNCHANGED graphVars /\ UNCHANGED sampleVars /\ UNCHANGED drawVars
        /\ UNCHANGED statVars /\ UNCHANGED comVars
    BY <1>9, Zenon DEF NextQuality
  <2> QED BY <1>0, <2>1, QualityStep, GraphKept, PcmKept, DrawKept, StatKept, ComKept, Zenon DEF PartsInv
<1>10. CASE NextDraw
  <2>1. /\ D!DrawNext /\ UNCHANGED graphVars /\ UNCHANGED sampleVars /\ UNCHANGED videoVars
        /\ UNCHANGED statVars /\ UNCHANGED comVars
    BY <1>10, Zenon DEF NextDraw
  <2> QED BY <1>0, <2>1, DrawStep, GraphKept, PcmKept, QualityKept, StatKept, ComKept, Zenon DEF PartsInv
<1>11. CASE NextStats
  <2>1. /\ S!StatNext /\ UNCHANGED graphVars /\ UNCHANGED sampleVars /\ UNCHANGED videoVars
        /\ UNCHANGED drawVars /\ UNCHANGED comVars
    BY <1>11, Zenon DEF NextStats
  <2> QED BY <1>0, <2>1, StatStep, GraphKept, PcmKept, QualityKept, DrawKept, ComKept, Zenon DEF PartsInv
<1>12. CASE NextCom
  <2>1. O!ComNext /\ UNCHANGED graphVars /\ UNCHANGED sampleVars /\ UNCHANGED drawnVars BY <1>12, Zenon DEF NextCom
  <2> QED BY <1>0, <2>1, ComStep, GraphKept, PcmKept, DrawnKept, Zenon DEF PartsInv
<1>13. CASE UNCHANGED <<part, vars, graphVars, sampleVars, drawnVars, listVars, comVars>> BY <1>1, <1>13, Zenon
<1> QED BY <1>2, <1>3, <1>4, <1>5, <1>6, <1>7, <1>8, <1>9, <1>10, <1>11, <1>12, <1>13, Zenon DEF PartsNext

LEMMA PartsInvariant == PartsSpec => []PartsInv
<1>1. PartsInit /\ [][PartsNext]_<<part, vars, graphVars, sampleVars, drawnVars, listVars, comVars>> => []PartsInv
  BY PartsInvInit, PartsInvStep, PTL
<1> QED BY <1>1, PTL DEF PartsSpec

\* CBaseOutputPin::AttemptConnection, CompleteConnect, BreakConnect, CBaseInputPin::ReceiveConnection,
\* CDynamicOutputPin: after any calls that fail at any step, connected pins name each other, agree on a type both
\* take and share an allocator, and a stopped filter holds no memory; for any filters, pins and media types.
THEOREM PinsAlwaysHold == PartsSpec => []PinsHold
<1>1. PartsInv => PinsHold BY Zenon DEF PartsInv, PinsInv, PinsHold
<1> QED BY <1>1, PartsInvariant, PTL

\* CEnumPins::Next, Skip, Clone, Refresh and CEnumMediaTypes: an enumerator gives no pin twice and, if it comes to
\* its end, leaves none out, whatever pins come and go under its calls; and a media type enumerator in step with a
\* pin that has counted its version up has the types of that version only; for any pins, enumerators and versions.
THEOREM EnumerationAlwaysExact == PartsSpec => []EnumerationExact
<1>1. PartsInv => EnumerationExact
  BY PinEnumHolds, TypeEnumHolds, Zenon DEF PartsInv, EnumerationExact, E!EnumerationExact
<1> QED BY <1>1, PartsInvariant, PTL

\* convert_sample (pcm.h): any chain of conversions, from any sample of any of the ten formats, keeps the top bits
\* that fit the narrowest format passed and adds nothing, and a conversion to as many bits or more can be undone;
\* for any set of int32_t amplitudes.
THEOREM ConversionAlwaysExact == PartsSpec => []ConversionExact
<1>1. PartsInv => ConversionExact BY PcmHolds, Zenon DEF PartsInv, ConversionExact
<1> QED BY <1>1, PartsInvariant, PTL

\* CVideoTransformFilter::ShouldSkipFrame, Receive, AlterQuality: no frame is decoded and shown whose reference
\* frame was skipped, unless a new input format made it forget that it skips; for any latenesses, key frame periods and numbers of frames.
THEOREM OrphansNeverShown == PartsSpec => []NoOrphanShown
<1>1. PartsInv => NoOrphanShown BY Zenon DEF PartsInv, QualityInv, NoOrphanShown
<1> QED BY <1>1, PartsInvariant, PTL

\* CBaseVideoRenderer::ShouldDrawSampleNow, OnRenderStart, OnRenderEnd: the first frame of every run is drawn, and
\* no frame is dropped when none was drawn for a second, unless a flush or a failed advise gave up a frame that
\* was counted as drawn; for any durations, delays and time stamps.
THEOREM FramesAlwaysDrawn == PartsSpec => []FramesDrawn
<1>1. PartsInv => FramesDrawn BY Zenon DEF PartsInv, DrawInv, InTime, FramesDrawn, D!FramesDrawn, D!FirstFrameDrawn
<1> QED BY <1>1, PartsInvariant, PTL

\* CBaseVideoRenderer::RecordFrameLateness, GetStdDev and isqrt: the variances that the roots are taken of are
\* never negative, although they divide by more frames than were counted, and the deviation of the latenesses is
\* the root to a millisecond; for any number of frames and all latenesses.
THEOREM StatisticsAlwaysExact == PartsSpec => []StatisticsExact
<1>1. PartsInv => StatisticsExact BY StatHolds, Zenon DEF PartsInv, StatisticsExact
<1> QED BY <1>1, PartsInvariant, PTL

\* CClassFactory, CUnknown, DllCanUnloadNow: whatever calls the clients interleave, factory, object and DLL stay as
\* long as someone holds them and the object is destroyed once; for any number of clients.
THEOREM CountsAlwaysHold == PartsSpec => []CountsHold
<1>1. PartsInv => CountsHold BY ComHolds, Zenon DEF PartsInv, CountsHold
<1> QED BY <1>1, PartsInvariant, PTL
=============================================================================
