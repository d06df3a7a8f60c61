----------------------------- MODULE MsgThread ------------------------------
(***************************************************************************)
(* CMsgThread (baseclasses/msgthrd.h, wxutil.cpp): a thread with a queue   *)
(* of messages, a count of waiters and a semaphore.                        *)
(***************************************************************************)
EXTENDS Integers, Sequences

CONSTANTS MaxMessages

VARIABLES m_ThreadQueue, m_lWaiting,
          m_hSem,        \* the semaphore's count
          mpc,           \* the thread: "take", "wait", "handle" or "ended"
          posted,        \* history: messages posted
          handled        \* history: messages the thread has taken, in order

msgVars == <<m_ThreadQueue, m_lWaiting, m_hSem, mpc, posted, handled>>

MsgInit == /\ m_ThreadQueue = <<>> /\ m_lWaiting = 0 /\ m_hSem = 0
           /\ mpc = "take" /\ posted = 0 /\ handled = <<>>

PutThreadMsg ==
  /\ posted < MaxMessages
  /\ posted' = posted + 1
  /\ m_ThreadQueue' = Append(m_ThreadQueue, posted')
  /\ m_hSem' = m_hSem + m_lWaiting /\ m_lWaiting' = 0
  /\ UNCHANGED <<mpc, handled>>

GetThreadMsg ==
  /\ mpc = "take"
  /\ IF m_ThreadQueue = <<>>
     THEN m_lWaiting' = m_lWaiting + 1 /\ mpc' = "wait" /\ UNCHANGED <<m_ThreadQueue, handled>>
     ELSE /\ m_ThreadQueue' = Tail(m_ThreadQueue) /\ mpc' = "handle"
          /\ handled' = Append(handled, Head(m_ThreadQueue))
          /\ UNCHANGED m_lWaiting
  /\ UNCHANGED <<m_hSem, posted>>

WaitForSemaphore ==
  /\ mpc = "wait" /\ m_hSem > 0
  /\ m_hSem' = m_hSem - 1 /\ mpc' = "take"
  /\ UNCHANGED <<m_ThreadQueue, m_lWaiting, posted, handled>>

\* DefaultThreadProc's loop: a message whose result is not 0 ends the thread.
ThreadMessageProc ==
  /\ mpc = "handle" /\ mpc' \in {"take", "ended"}
  /\ UNCHANGED <<m_ThreadQueue, m_lWaiting, m_hSem, posted, handled>>

\* The destructor, once the thread has ended, frees what is left in the queue.
DeleteThread ==
  /\ mpc = "ended" /\ m_ThreadQueue # <<>> /\ posted = MaxMessages
  /\ m_ThreadQueue' = <<>>
  /\ UNCHANGED <<m_lWaiting, m_hSem, mpc, posted, handled>>

MsgThreadStep == GetThreadMsg \/ WaitForSemaphore \/ ThreadMessageProc

MsgNext == PutThreadMsg \/ MsgThreadStep \/ DeleteThread

-----------------------------------------------------------------------------
\* The thread never sleeps on a message: if it waits and nothing can wake it,
\* it has announced that it waits and the queue is empty.
NoMissedMessage == mpc = "wait" /\ m_hSem = 0 => m_lWaiting = 1 /\ m_ThreadQueue = <<>>

\* Every message is handled, in the order of posting, while the thread lives.
MessagesHandled ==
  \A n \in 1..MaxMessages : (posted >= n) ~> (mpc = "ended" \/ (Len(handled) >= n /\ handled[n] = n))
=============================================================================
