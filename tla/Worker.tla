------------------------------- MODULE Worker -------------------------------
(***************************************************************************)
(* CAMThread (baseclasses/wxutil.h, wxutil.cpp): a worker thread that takes *)
(* one request at a time through two events.                               *)
(*                                                                         *)
(* The caller's half of CallWorker is Post, up to its wait, and Answered.  *)
(* Reply takes two steps of the thread, Reply and Complete, because the    *)
(* caller may go on between them.  m_AccessLock makes callers one.         *)
(***************************************************************************)
CONSTANTS NoCommand

VARIABLES m_hThread,        \* the handle is set
          m_EventSend,      \* manual reset
          m_EventComplete,  \* auto reset
          m_dwParam,
          m_dwReturnVal,    \* succeeded
          owed,             \* the event that Reply has yet to change
          tpc               \* where the thread is, "none" if it is not running

workerVars == <<m_hThread, m_EventSend, m_EventComplete, m_dwParam, m_dwReturnVal, owed, tpc>>

WorkerInit == /\ m_hThread = FALSE /\ m_EventSend = FALSE /\ m_EventComplete = FALSE
              /\ m_dwParam = NoCommand /\ m_dwReturnVal = TRUE
              /\ owed = {} /\ tpc = "none"

ThreadExists == m_hThread

\* With the thread's first step at `start'.
Create(start) == ~ThreadExists /\ m_hThread' = TRUE /\ tpc' = start

Post(command) == m_dwParam' = command /\ m_EventSend' = TRUE

Answered == m_EventComplete /\ m_EventComplete' = FALSE

\* The handle is given up; the caller then waits until the thread has returned.
Close == m_hThread' = FALSE

GetRequest(command) == m_EventSend /\ m_dwParam = command

CheckRequest == m_EventSend

\* Mutant: the caller is told first.
Reply_CompleteFirst(result, next) ==
  /\ owed = {}
  /\ m_dwReturnVal' = result /\ m_EventComplete' = TRUE /\ owed' = {"send"}
  /\ tpc' = next
  /\ UNCHANGED <<m_hThread, m_EventSend, m_dwParam>>

\* The request is taken back first: the caller may send another one as soon
\* as it is told of the answer.
Reply(result, next) ==
  /\ owed = {}
  /\ m_dwReturnVal' = result /\ m_EventSend' = FALSE /\ owed' = {"complete"}
  /\ tpc' = next
  /\ UNCHANGED <<m_hThread, m_EventComplete, m_dwParam>>

\* The other event.
Complete ==
  /\ owed # {}
  /\ m_EventSend' = (m_EventSend /\ "send" \notin owed)
  /\ m_EventComplete' = (m_EventComplete \/ "complete" \in owed)
  /\ owed' = {}
  /\ UNCHANGED <<m_hThread, m_dwParam, m_dwReturnVal, tpc>>

\* A step of the thread that is not about requests.
Goto(next) == /\ owed = {} /\ tpc' = next
              /\ UNCHANGED <<m_hThread, m_EventSend, m_EventComplete, m_dwParam, m_dwReturnVal, owed>>
=============================================================================
