--------------------------- MODULE FlushableFifo ---------------------------
(***************************************************************************)
(* What StupidAR::BlockingQueue promises its callers (the comments of      *)
(* StupidAR/BlockingQueue.h): a bounded first-in first-out queue that can  *)
(* be closed.  Closing empties it; while it is closed every operation      *)
(* fails; an operation that fails changes nothing.  Locks, condition       *)
(* variables and waiting do not appear.                                    *)
(***************************************************************************)
EXTENDS Naturals, Sequences

CONSTANTS Thread,   \* the threads that call the queue
          Item,     \* the values put into it
          Size      \* its capacity

VARIABLES items,    \* the enqueued values, oldest first
          closed,   \* TRUE from begin_flush() to end_flush()
          ret       \* ret[t]: what thread t's last completed call returned

vars == <<items, closed, ret>>

NotAdded   == [op |-> "add", ok |-> FALSE, out |-> <<>>]
Added      == [op |-> "add", ok |-> TRUE, out |-> <<>>]
NotRemoved == [op |-> "remove", ok |-> FALSE, out |-> <<>>]
Removed(v) == [op |-> "remove", ok |-> TRUE, out |-> <<v>>]

Init ==
  /\ items = <<>>
  /\ closed = FALSE
  /\ ret = [t \in Thread |-> NotRemoved]

Add(t, v) ==
  /\ ~closed /\ Len(items) < Size
  /\ items' = Append(items, v)
  /\ ret' = [ret EXCEPT ![t] = Added]
  /\ UNCHANGED closed

Remove(t) ==
  /\ ~closed /\ items # <<>>
  /\ items' = Tail(items)
  /\ ret' = [ret EXCEPT ![t] = Removed(Head(items))]
  /\ UNCHANGED closed

\* A call that reports failure: the queue is closed, or the call does not
\* block and found the queue full.
FailAdd(t) ==
  /\ closed \/ Len(items) = Size
  /\ ret' = [ret EXCEPT ![t] = NotAdded]
  /\ UNCHANGED <<items, closed>>

\* ... and likewise for a queue that is closed or empty.
FailRemove(t) ==
  /\ closed \/ items = <<>>
  /\ ret' = [ret EXCEPT ![t] = NotRemoved]
  /\ UNCHANGED <<items, closed>>

Close ==
  /\ closed' = TRUE
  /\ items' = <<>>
  /\ UNCHANGED ret

Open ==
  /\ closed' = FALSE
  /\ UNCHANGED <<items, ret>>

Next ==
  \/ \E t \in Thread : \/ \E v \in Item : Add(t, v)
                       \/ Remove(t)
                       \/ FailAdd(t)
                       \/ FailRemove(t)
  \/ Close
  \/ Open

Spec == Init /\ [][Next]_vars
=============================================================================
