--------------------------- MODULE BlockingQueue ---------------------------
(***************************************************************************)
(* StupidAR::BlockingQueue (StupidAR/BlockingQueue.h), the queue between   *)
(* the filter's streaming thread and the output agent's callback.          *)
(*                                                                         *)
(* Every method body is one critical section of m_lock, so one action,     *)
(* except that condition_variable::wait gives the lock away: put() and     *)
(* take() are split there.  A thread inside put() or take() is either      *)
(* contending for m_lock ("put", "take": just called, or woken by a        *)
(* notification) or asleep on the condition variable ("put_wait" on        *)
(* m_not_full, "take_wait" on m_not_empty).                                *)
(***************************************************************************)
EXTENDS Naturals, Sequences, FiniteSets

CONSTANTS Thread,  \* the threads that call the queue
          Item,    \* the values put into it
          m_size   \* the capacity given to the constructor

ASSUME ConstantsAssumption ==
  /\ IsFiniteSet(Thread)
  /\ m_size \in Nat

VARIABLES m_flushing,
          m_items,
          pc,      \* pc[t]: where thread t is (see above); "idle" outside
          arg,     \* arg[t]: the argument of t's put()
          ret,     \* ret[t]: what t's last completed call returned
          owed     \* history: the threads asleep when begin_flush() ran that
                   \* have not returned since

vars == <<m_flushing, m_items, pc, arg, ret, owed>>

NotAdded   == [op |-> "add", ok |-> FALSE, out |-> <<>>]
Added      == [op |-> "add", ok |-> TRUE, out |-> <<>>]
NotRemoved == [op |-> "remove", ok |-> FALSE, out |-> <<>>]
Removed(v) == [op |-> "remove", ok |-> TRUE, out |-> <<v>>]

\* The threads asleep on m_not_full and on m_not_empty.
NotFullWaiters  == {t \in Thread : pc[t] = "put_wait"}
NotEmptyWaiters == {t \in Thread : pc[t] = "take_wait"}

\* The threads in put() and in take() that are on their way to m_lock.
Putters == {t \in Thread : pc[t] = "put"}
Takers  == {t \in Thread : pc[t] = "take"}

Init ==
  /\ m_flushing = FALSE
  /\ m_items = <<>>
  /\ pc = [t \in Thread |-> "idle"]
  /\ arg \in [Thread -> Item]
  /\ ret = [t \in Thread |-> NotRemoved]
  /\ owed = {}

-----------------------------------------------------------------------------
\* The effect on pc of thread t going to `to' after notify_one() on a
\* condition variable whose waiters are W and resume at `resume': one waiter
\* is woken if there is one.
NotifyOne(t, to, W, resume) ==
  IF W = {} THEN pc' = [pc EXCEPT ![t] = to]
            ELSE \E w \in W : pc' = [pc EXCEPT ![t] = to, ![w] = resume]

Return(t, result) ==
  /\ ret' = [ret EXCEPT ![t] = result]
  /\ owed' = owed \ {t}

\* m_items.push_back(e); m_not_empty.notify_one(); return true
PushBack(t, e) ==
  /\ m_items' = Append(m_items, e)
  /\ NotifyOne(t, "idle", NotEmptyWaiters, "take")
  /\ Return(t, Added)

\* Mutant: the newest item leaves first.
PopFront_Back(t) ==
  /\ m_items' = SubSeq(m_items, 1, Len(m_items) - 1)
  /\ NotifyOne(t, "idle", NotFullWaiters, "put")
  /\ Return(t, Removed(m_items[Len(m_items)]))

\* out = front; pop_front(); m_not_full.notify_one(); return true
PopFront(t) ==
  /\ m_items' = Tail(m_items)
  /\ NotifyOne(t, "idle", NotFullWaiters, "put")
  /\ Return(t, Removed(Head(m_items)))

\* return false, with the queue as it was
ReturnFalse(t, result) ==
  /\ pc' = [pc EXCEPT ![t] = "idle"]
  /\ Return(t, result)
  /\ UNCHANGED m_items

Sleep(t, where) ==
  /\ pc' = [pc EXCEPT ![t] = where]
  /\ UNCHANGED <<m_items, ret, owed>>

-----------------------------------------------------------------------------
CallPut(t, e) ==
  /\ pc[t] = "idle"
  /\ pc' = [pc EXCEPT ![t] = "put"]
  /\ arg' = [arg EXCEPT ![t] = e]
  /\ UNCHANGED <<m_flushing, m_items, ret, owed>>

\* Mutant: put() without the second look at m_flushing after the wait.
put_NoRecheck(t) ==
  /\ pc[t] = "put"
  /\ IF Len(m_items) # m_size \/ m_flushing THEN PushBack(t, arg[t])
                                            ELSE Sleep(t, "put_wait")
  /\ UNCHANGED <<m_flushing, arg>>

\* put() holding m_lock, on entry or after a wake-up.
put(t) ==
  /\ pc[t] = "put"
  /\ IF Len(m_items) # m_size \/ m_flushing
     THEN IF m_flushing THEN ReturnFalse(t, NotAdded) ELSE PushBack(t, arg[t])
     ELSE Sleep(t, "put_wait")
  /\ UNCHANGED <<m_flushing, arg>>

offer(t, e) ==
  /\ pc[t] = "idle"
  /\ IF Len(m_items) = m_size \/ m_flushing
     THEN ReturnFalse(t, NotAdded)
     ELSE PushBack(t, e)
  /\ UNCHANGED <<m_flushing, arg>>

CallTake(t) ==
  /\ pc[t] = "idle"
  /\ pc' = [pc EXCEPT ![t] = "take"]
  /\ UNCHANGED <<m_flushing, m_items, arg, ret, owed>>

\* Mutant: take() tries again until it has an item.
take_Insist(t) ==
  /\ pc[t] = "take"
  /\ IF m_flushing THEN UNCHANGED <<m_items, pc, ret, owed>>
     ELSE IF Len(m_items) # 0 THEN PopFront(t) ELSE Sleep(t, "take_wait")
  /\ UNCHANGED <<m_flushing, arg>>

\* take() holding m_lock, on entry or after a wake-up.
take(t) ==
  /\ pc[t] = "take"
  /\ IF Len(m_items) # 0 \/ m_flushing
     THEN IF m_flushing THEN ReturnFalse(t, NotRemoved) ELSE PopFront(t)
     ELSE Sleep(t, "take_wait")
  /\ UNCHANGED <<m_flushing, arg>>

\* Mutant: poll() without m_not_full.notify_one().
poll_NoNotify(t) ==
  /\ pc[t] = "idle"
  /\ IF m_items # <<>>
     THEN /\ m_items' = Tail(m_items)
          /\ Return(t, Removed(Head(m_items)))
          /\ UNCHANGED pc
     ELSE ReturnFalse(t, NotRemoved)
  /\ UNCHANGED <<m_flushing, arg>>

\* poll() does not look at m_flushing.
poll(t) ==
  /\ pc[t] = "idle"
  /\ IF m_items # <<>> THEN PopFront(t) ELSE ReturnFalse(t, NotRemoved)
  /\ UNCHANGED <<m_flushing, arg>>

begin_flush(t) ==
  /\ pc[t] = "idle"
  /\ ~m_flushing
  /\ m_flushing' = TRUE
  /\ m_items' = <<>>
  /\ pc' = [u \in Thread |-> CASE pc[u] = "put_wait"  -> "put"
                               [] pc[u] = "take_wait" -> "take"
                               [] OTHER               -> pc[u]]
  /\ owed' = owed \union NotFullWaiters \union NotEmptyWaiters
  /\ UNCHANGED <<arg, ret>>

end_flush(t) ==
  /\ pc[t] = "idle"
  /\ m_flushing' = FALSE
  /\ UNCHANGED <<m_items, pc, arg, ret, owed>>

\* std::condition_variable may wake a waiter that nobody notified.
SpuriousWakeup(t) ==
  /\ \/ pc[t] = "put_wait"  /\ pc' = [pc EXCEPT ![t] = "put"]
     \/ pc[t] = "take_wait" /\ pc' = [pc EXCEPT ![t] = "take"]
  /\ UNCHANGED <<m_flushing, m_items, arg, ret, owed>>

Next ==
  \E t \in Thread :
    \/ \E e \in Item : CallPut(t, e) \/ offer(t, e)
    \/ put(t)
    \/ CallTake(t)
    \/ take(t)
    \/ poll(t)
    \/ begin_flush(t)
    \/ end_flush(t)
    \/ SpuriousWakeup(t)

Spec == Init /\ [][Next]_vars

\* The operating system grants a contended mutex eventually: a thread that
\* stays at the lock runs.  Nothing obliges a thread to call the queue.
Fairness == \A t \in Thread : WF_vars(put(t)) /\ WF_vars(take(t))

-----------------------------------------------------------------------------
\* Type invariant.  The capacity is part of it: put() and take() compare the
\* size for equality only, so a queue that was ever overfilled would grow on.
Results == {NotAdded, Added, NotRemoved} \union {Removed(v) : v \in Item}
Places == {"idle", "put", "put_wait", "take", "take_wait"}
TypeOK ==
  /\ m_flushing \in BOOLEAN
  /\ m_items \in Seq(Item) /\ Len(m_items) <= m_size
  /\ pc \in [Thread -> Places]
  /\ arg \in [Thread -> Item]
  /\ ret \in [Thread -> Results]
  /\ owed \subseteq Thread

\* From begin_flush() to end_flush() the queue is empty and nobody sleeps in
\* it.  poll() relies on the first (it does not look at m_flushing, yet the
\* class comment says that retrieving fails), callers that join their threads
\* after begin_flush() on the second.
Drained ==
  m_flushing => m_items = <<>> /\ NotFullWaiters = {} /\ NotEmptyWaiters = {}

\* No notification is lost, although every operation wakes at most one thread
\* and the thread it wakes can find that another one was faster: while a
\* thread sleeps in take(), each enqueued item has a thread of its own on its
\* way to take it, and while one sleeps in put(), each free slot has a thread
\* of its own on its way to fill it.
NoLostWakeup ==
  /\ NotEmptyWaiters # {} => Len(m_items) <= Cardinality(Takers)
  /\ NotFullWaiters # {} => m_size - Len(m_items) <= Cardinality(Putters)

\* The queue implements the bounded, closable FIFO of its class comments:
\* waiting, waking and losing races change nothing a caller can see.
Fifo == INSTANCE FlushableFifo WITH Size <- m_size, items <- m_items,
                                    closed <- m_flushing
ImplementsFifo == Fifo!Spec

\* begin_flush() lets every thread that sleeps in put() or take() return,
\* as long as end_flush() does not come first.
FlushReleasesUnlessReopened ==
  \A t \in Thread :
    t \in owed /\ m_flushing ~> t \notin owed \/ ~m_flushing
=============================================================================
