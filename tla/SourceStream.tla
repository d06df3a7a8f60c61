---------------------------- MODULE SourceStream ----------------------------
(***************************************************************************)
(* CSourceStream (baseclasses/source.cpp): an output pin with a thread     *)
(* that fills buffers and delivers them.                                   *)
(*                                                                         *)
(* The filter (CBaseFilter::Pause and Stop, under the state lock) calls    *)
(* Active and Inactive, which tell the thread what to do: "init", "pause", *)
(* "stop", "exit".  A derived filter may also call Run and Pause.  cpc is  *)
(* what the filter's caller is doing: "idle", waiting for the answer to a  *)
(* command, or in "close".                                                 *)
(*                                                                         *)
(* The thread is in GetRequest before ("new") or after ("ready") its       *)
(* initialisation, or in DoBufferProcessingLoop: about to look for a       *)
(* request ("check"), waiting for a buffer ("get"), filling it ("fill") or *)
(* delivering it ("deliver").                                              *)
(***************************************************************************)
EXTENDS Worker

VARIABLES srcActive,   \* m_pFilter->IsActive()
          srcMemory,   \* the allocator is committed
          taken,       \* downstream holds the only buffer
          cpc,
          srcFailed    \* history: Active has failed after committing the memory

srcVars == <<srcActive, srcMemory, taken, cpc, srcFailed>>

Commands == {"init", "pause", "run", "stop", "exit"}

SrcInit == /\ WorkerInit
           /\ srcActive = FALSE /\ srcMemory = FALSE /\ taken = FALSE
           /\ cpc = "idle" /\ srcFailed = FALSE

-----------------------------------------------------------------------------
(* The filter's caller.                                                    *)

CallWorker(command) ==
  /\ Post(command) /\ cpc' = command
  /\ UNCHANGED <<m_dwReturnVal, owed>>

\* A pin left with a thread by a failed Active cannot be activated again.
Active ==
  /\ cpc = "idle" /\ ~srcActive
  /\ srcMemory' = TRUE
  /\ \/ Create("new") /\ CallWorker("init") /\ UNCHANGED <<m_EventComplete, srcFailed>>
     \/ srcFailed' = TRUE /\ UNCHANGED <<workerVars, cpc>>
  /\ UNCHANGED <<srcActive, taken>>

Initialised ==
  /\ cpc = "init" /\ Answered
  /\ IF m_dwReturnVal
     THEN CallWorker("pause") /\ UNCHANGED srcFailed
     ELSE /\ cpc' = "idle" /\ srcFailed' = TRUE
          /\ UNCHANGED <<m_EventSend, m_dwParam, m_dwReturnVal, owed>>
  /\ UNCHANGED <<m_hThread, tpc, srcActive, srcMemory, taken>>

\* The end of Active, or of a Run or Pause of an active pin.
Going ==
  /\ cpc \in {"pause", "run"} /\ Answered
  /\ cpc' = "idle" /\ srcActive' = TRUE
  /\ UNCHANGED <<m_hThread, m_EventSend, m_dwParam, m_dwReturnVal, owed, tpc, srcMemory, taken, srcFailed>>

PauseOrRun ==
  /\ cpc = "idle" /\ srcActive
  /\ \E command \in {"pause", "run"} : CallWorker(command)
  /\ UNCHANGED <<m_hThread, m_EventComplete, tpc, srcActive, srcMemory, taken, srcFailed>>

\* The memory is given up first: the thread may be waiting for a buffer.
Inactive ==
  /\ cpc = "idle" /\ srcActive
  /\ srcMemory' = FALSE
  /\ CallWorker("stop")
  /\ UNCHANGED <<m_hThread, m_EventComplete, tpc, srcActive, taken, srcFailed>>

Stopped ==
  /\ cpc = "stop" /\ Answered
  /\ CallWorker("exit")
  /\ UNCHANGED <<m_hThread, tpc, srcActive, srcMemory, taken, srcFailed>>

Exited ==
  /\ cpc = "exit" /\ Answered
  /\ Close /\ cpc' = "close"
  /\ UNCHANGED <<m_EventSend, m_dwParam, m_dwReturnVal, owed, tpc, srcActive, srcMemory, taken, srcFailed>>

Closed ==
  /\ cpc = "close" /\ tpc = "none" /\ owed = {}
  /\ cpc' = "idle" /\ srcActive' = FALSE
  /\ UNCHANGED <<workerVars, srcMemory, taken, srcFailed>>

-----------------------------------------------------------------------------
(* The thread.                                                             *)

\* A thread that cannot initialise answers and returns.
OnThreadCreate ==
  /\ tpc = "new" /\ GetRequest("init")
  /\ Reply(TRUE, "ready") \/ Reply(FALSE, "none")
  /\ UNCHANGED srcVars

\* A command that is not expected, which nobody sends, would be refused.
ThreadProc ==
  /\ tpc = "ready"
  /\ \/ GetRequest("exit") /\ Reply(TRUE, "leaving")
     \/ (GetRequest("run") \/ GetRequest("pause")) /\ Reply(TRUE, "check")
     \/ GetRequest("stop") /\ Reply(TRUE, "ready")
  /\ UNCHANGED srcVars

\* The last command has been answered; OnThreadDestroy.
ThreadEnds == tpc = "leaving" /\ Goto("none") /\ UNCHANGED srcVars

\* "stop" is left for ThreadProc to answer.
LoopRequest ==
  /\ tpc = "check" /\ CheckRequest
  /\ \/ m_dwParam = "stop" /\ Goto("ready")
     \/ m_dwParam # "stop" /\ Reply(m_dwParam \in {"run", "pause"}, "check")
  /\ UNCHANGED srcVars

NoRequest == tpc = "check" /\ ~CheckRequest /\ Goto("get") /\ UNCHANGED srcVars

\* It fails when the memory has been given up, and waits when none is free.
GetDeliveryBuffer ==
  /\ tpc = "get"
  /\ \/ srcMemory /\ ~taken /\ Goto("fill")
     \/ ~srcMemory /\ Goto("check")
  /\ UNCHANGED srcVars

\* The end of the data and an error both end the loop.
FillBuffer ==
  /\ tpc = "fill"
  /\ Goto("deliver") \/ Goto("ready")
  /\ UNCHANGED srcVars

\* Downstream may keep the buffer; it may also ask to stop.
Deliver ==
  /\ tpc = "deliver"
  /\ \/ Goto("check") /\ taken' \in BOOLEAN
     \/ Goto("ready") /\ UNCHANGED taken
  /\ UNCHANGED <<srcActive, srcMemory, cpc, srcFailed>>

\* Downstream lets go of the buffer.
ReleaseBuffer ==
  /\ taken /\ taken' = FALSE
  /\ UNCHANGED <<workerVars, srcActive, srcMemory, cpc, srcFailed>>

Finish == Complete /\ UNCHANGED srcVars

ThreadStep == OnThreadCreate \/ ThreadProc \/ ThreadEnds \/ LoopRequest \/ NoRequest
              \/ GetDeliveryBuffer \/ FillBuffer \/ Deliver \/ Finish

CallerStep == Initialised \/ Going \/ Stopped \/ Exited \/ Closed

SrcNext == Active \/ PauseOrRun \/ Inactive \/ CallerStep \/ ThreadStep \/ ReleaseBuffer

-----------------------------------------------------------------------------
\* A caller that waits for an answer has one coming: the request is still set
\* for a living thread, or its answer is on the way.
RequestNotLost ==
  cpc \in Commands /\ ~m_EventComplete => owed # {} \/ (m_EventSend /\ tpc # "none")

\* Inactive returns only when the thread has: an inactive pin has no thread that
\* could deliver, unless its activation failed.
NoThreadWhenInactive ==
  cpc = "idle" /\ ~srcActive /\ ~srcFailed => ~m_hThread /\ tpc = "none"

\* Active and Inactive return even if no buffer ever comes free.  (A Run or Pause of an
\* active pin waits for as long as downstream keeps the thread waiting.)
ActiveInactiveReturn == (cpc \in {"init", "stop", "exit", "close"}) ~> (cpc = "idle")
=============================================================================
