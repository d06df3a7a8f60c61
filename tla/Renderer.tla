------------------------------ MODULE Renderer ------------------------------
(***************************************************************************)
(* StupidAR::MyRenderer: CBaseRenderer and CRendererInputPin               *)
(* (baseclasses/renbase.cpp) with the parts of CBaseFilter and             *)
(* CBaseInputPin (baseclasses/amfilter.cpp) they call.                     *)
(*                                                                         *)
(* Four threads meet in it: the application (Stop, Pause, Run, flushing,   *)
(* connecting), the upstream filter's streaming thread (Receive), the      *)
(* reference clock, which sets m_RenderEvent, and the multimedia timer     *)
(* that delays EC_COMPLETE.  A method is one action as far as it runs      *)
(* under m_InterfaceLock and m_RendererLock; it is split where it polls,   *)
(* waits or works outside the lock another thread uses.                    *)
(*                                                                         *)
(* op, at    the control method that keeps m_InterfaceLock, and where it   *)
(*           is: in ResetEndOfStreamTimer ("timer", "kill"), about to take *)
(*           m_RendererLock again ("reset"), in WaitForReceiveToComplete   *)
(*           ("wait", in BeginFlush with m_RendererLock held)              *)
(* source    where the streaming thread is in Receive:                     *)
(*             "prepared"  PrepareReceive has accepted the sample          *)
(*             "window"    paused: has left, about to lock again           *)
(*             "first"     paused: unlocked again, about to call Ready     *)
(*             "waiting"   in WaitForRenderTime                            *)
(*             "fired"     woken by m_RenderEvent                          *)
(*             "render"    about to lock and render                        *)
(*             "rendering" in DoRenderSample, with both locks              *)
(*             "failed"    PrepareReceive failed, about to report it       *)
(* timerPc   where the timer callback is: "entered" (about to lock),       *)
(*           "sending" (has zeroed m_EndOfStreamTimer, holds the lock)     *)
(*                                                                         *)
(* Times are abstracted to what the code asks of them: whether a sample    *)
(* has a usable time stamp, and whether the moment to deliver EC_COMPLETE  *)
(* is here (due).  m_bAbort and m_bRepaintStatus serve video renderers     *)
(* only and are left out.                                                  *)
(***************************************************************************)
EXTENDS Naturals, FiniteSets

CONSTANTS Cookie,   \* the advise cookies the clock hands out
          Timer,    \* the identifiers timeSetEvent hands out
          NULL      \* no sample, no cookie, no timer

ASSUME ConstantsAssumption ==
  /\ NULL \notin Cookie \union Timer
  /\ NULL \notin {"timed", "untimed", "bad"}

VARIABLES m_State, m_Connected, m_pClock, m_bStreaming, m_bFlushing,
          m_bRunTimeError,
          m_pMediaSample, m_bInReceive,
          m_bEOS, m_bEOSDelivered, m_EndOfStreamTimer,
          m_dwAdvise, m_RenderEvent, m_ThreadSignal, m_evComplete,
          op, at,
          old,        \* Pause's OldState
          killing,    \* the timer ResetEndOfStreamTimer is killing
          source, timerPc, timerId,
          advises,    \* the clock's outstanding advise requests
          timers,     \* the multimedia timers that will still fire
          due,        \* the clock is within TIMEOUT_DELIVERYWAIT of m_SignalTime
          completes   \* history: EC_COMPLETEs sent since streaming (re)started

filterVars == <<m_State, m_Connected, m_pClock, m_bStreaming, m_bFlushing>>
sampleVars == <<m_pMediaSample>>
eosVars    == <<m_bEOS, m_bEOSDelivered, m_EndOfStreamTimer, timers, completes>>
clockVars  == <<m_dwAdvise, m_RenderEvent, advises>>
ctlVars    == <<op, at, old, killing>>
timerVars  == <<timerPc, timerId>>
vars == <<filterVars, sampleVars, eosVars, clockVars, ctlVars, timerVars,
          m_bRunTimeError, m_bInReceive, m_ThreadSignal, m_evComplete, source,
          due>>

SampleKind == {"timed", "untimed", "bad"}

\* The renderer is created stopped and unconnected, with its state complete.
Init ==
  /\ m_State = "Stopped" /\ m_Connected = FALSE /\ m_pClock \in BOOLEAN
  /\ m_bStreaming = FALSE /\ m_bFlushing = FALSE /\ m_bRunTimeError = FALSE
  /\ m_pMediaSample = NULL /\ m_bInReceive = FALSE
  /\ m_bEOS = FALSE /\ m_bEOSDelivered = FALSE /\ m_EndOfStreamTimer = NULL
  /\ m_dwAdvise = NULL /\ m_RenderEvent = FALSE /\ m_ThreadSignal = FALSE
  /\ m_evComplete = TRUE
  /\ op = "none" /\ at = "none" /\ old = "Stopped" /\ killing = NULL
  /\ source = "idle" /\ timerPc = "idle" /\ timerId = NULL
  /\ advises = {} /\ timers = {} /\ due = TRUE
  /\ completes = 0

\* m_InterfaceLock can be taken.
InterfaceLockFree == op = "none" /\ source # "rendering"

\* m_RendererLock can be taken by whoever holds m_InterfaceLock.
RendererLockFree == timerPc # "sending"

BothLocksFree == InterfaceLockFree /\ RendererLockFree

-----------------------------------------------------------------------------
(* Helpers: what a method leaves in the variables it assigns.              *)

SourceThreadCanWait(can) == m_ThreadSignal' = ~can

Ready    == m_evComplete' = TRUE
NotReady == m_evComplete' = FALSE

ClearPendingSample == m_pMediaSample' = NULL

\* Mutant: only the event is reset.
CancelNotification_EventOnly ==
  /\ UNCHANGED <<m_dwAdvise, advises>>
  /\ m_RenderEvent' = FALSE

CancelNotification ==
  /\ m_dwAdvise' = NULL
  /\ advises' = advises \ {m_dwAdvise}
  /\ m_RenderEvent' = FALSE

Rejectable(s) == s = "bad" \/ (s = "timed" /\ m_pClock)

\* ScheduleSample, GetSampleTimes and AdviseTime on sample s.  A sample whose
\* times are reversed is rejected, one without times (or without a clock to
\* tell them by) is due at once, and AdviseTime may refuse a time.
ScheduleSample(s, accepted) ==
  LET byClock == s = "timed" /\ m_pClock IN
  \/ /\ accepted /\ s # "bad" /\ ~byClock
     /\ m_RenderEvent' = TRUE
     /\ UNCHANGED <<m_dwAdvise, advises>>
  \/ /\ accepted /\ byClock
     /\ \E c \in Cookie \ advises : m_dwAdvise' = c /\ advises' = advises \union {c}
     /\ UNCHANGED m_RenderEvent
  \/ /\ ~accepted /\ Rejectable(s)
     /\ UNCHANGED clockVars

\* NotifyEndOfStream, with m_bStreaming as the caller has set it.
NotifyEndOfStream(streaming) ==
  IF streaming
  THEN /\ m_EndOfStreamTimer' = NULL
       /\ m_bEOSDelivered' = TRUE
       /\ completes' = completes + 1
       /\ UNCHANGED timers
  ELSE UNCHANGED <<m_EndOfStreamTimer, m_bEOSDelivered, completes, timers>>

\* Mutant: EC_COMPLETE is sent although it was delivered before.
SendEndOfStream_Again(eos, streaming) ==
  IF ~eos \/ m_EndOfStreamTimer # NULL
  THEN UNCHANGED <<m_EndOfStreamTimer, m_bEOSDelivered, completes, timers>>
  ELSE NotifyEndOfStream(streaming)

\* SendEndOfStream, with m_bEOS and m_bStreaming as the caller has set them:
\* at once, or by a timer when the clock is not there yet.  timeSetEvent may
\* fail.
SendEndOfStream(eos, streaming) ==
  IF ~eos \/ m_bEOSDelivered \/ m_EndOfStreamTimer # NULL
  THEN UNCHANGED <<m_EndOfStreamTimer, m_bEOSDelivered, completes, timers>>
  ELSE \/ NotifyEndOfStream(streaming)
       \/ /\ m_pClock /\ ~due
          /\ \E t \in Timer \ (timers \union {timerId}) :
               m_EndOfStreamTimer' = t /\ timers' = timers \union {t}
          /\ UNCHANGED <<m_bEOSDelivered, completes>>

StopStreaming ==
  /\ m_bStreaming' = FALSE
  /\ m_bEOSDelivered' = FALSE
  /\ completes' = 0

\* StartStreaming on the pending sample s.
StartStreaming(s) ==
  /\ m_bStreaming' = TRUE
  /\ IF s = NULL
     THEN SendEndOfStream(m_bEOS, TRUE) /\ UNCHANGED clockVars
     ELSE /\ \/ ScheduleSample(s, TRUE)
             \/ /\ Rejectable(s)
                /\ m_RenderEvent' = TRUE
                /\ UNCHANGED <<m_dwAdvise, advises>>
          /\ UNCHANGED <<m_bEOSDelivered, m_EndOfStreamTimer, timers, completes>>

\* CheckStreaming: the pin takes data.
CheckStreaming == m_State # "Stopped" /\ ~m_bFlushing /\ ~m_bRunTimeError

\* Mutant: the end of the stream is not looked at.
CompleteStateChange_NoEOS(oldState) ==
  m_evComplete' = \/ ~m_Connected
                  \/ (m_pMediaSample # NULL /\ oldState # "Stopped")

CompleteStateChange(oldState) ==
  m_evComplete' = \/ ~m_Connected
                  \/ m_bEOS
                  \/ (m_pMediaSample # NULL /\ oldState # "Stopped")

-----------------------------------------------------------------------------
(* The application thread.  Upstream filters honour three rules of the     *)
(* filter graph: a streaming thread has left Receive before the renderer   *)
(* is taken out of Stopped and before EndFlush (amfilter.cpp 3123), and    *)
(* the graph is not paused or run between BeginFlush and EndFlush (the     *)
(* ASSERTs of Pause and Run).                                              *)

\* Ways out of Stopped need the streaming thread to have left.
MayStart == ~m_bFlushing /\ (m_State = "Stopped" => source = "idle")

\* Stop up to SourceThreadCanWait: CBaseFilter::Stop makes the pin inactive,
\* which releases the pending sample.
Stop ==
  /\ BothLocksFree /\ m_State # "Stopped"
  /\ m_State' = "Stopped"
  /\ IF m_Connected
     THEN /\ m_bRunTimeError' = FALSE
          /\ ClearPendingSample
          /\ StopStreaming
          /\ SourceThreadCanWait(FALSE)
          /\ op' = "Stop" /\ at' = "timer"
     ELSE UNCHANGED <<m_bRunTimeError, m_pMediaSample, m_bStreaming,
                      m_bEOSDelivered, completes, m_ThreadSignal, op, at>>
  /\ UNCHANGED <<m_Connected, m_pClock, m_bFlushing, m_bEOS,
                 m_EndOfStreamTimer, timers, clockVars, old, killing,
                 timerVars, m_bInReceive, m_evComplete, source, due>>

\* ResetEndOfStreamTimer reads m_EndOfStreamTimer without m_RendererLock.
ResetEndOfStreamTimer ==
  /\ at = "timer"
  /\ IF m_EndOfStreamTimer = NULL
     THEN at' = "reset" /\ UNCHANGED <<killing, timers>>
     ELSE /\ at' = "kill"
          /\ killing' = m_EndOfStreamTimer
          /\ timers' = timers \ {m_EndOfStreamTimer}
  /\ UNCHANGED <<filterVars, sampleVars, m_bEOS, m_bEOSDelivered,
                 m_EndOfStreamTimer, completes, clockVars, op, old, timerVars,
                 m_bRunTimeError, m_bInReceive, m_ThreadSignal, m_evComplete,
                 source, due>>

\* timeKillEvent waits for a callback of this timer (TIME_KILL_SYNCHRONOUS).
TimerKilled ==
  /\ at = "kill" /\ timerId # killing
  /\ m_EndOfStreamTimer' = NULL
  /\ at' = "reset" /\ killing' = NULL
  /\ UNCHANGED <<filterVars, sampleVars, m_bEOS, m_bEOSDelivered, timers,
                 completes, clockVars, op, old, timerVars, m_bRunTimeError,
                 m_bInReceive, m_ThreadSignal, m_evComplete, source, due>>

\* The locked half of ResetEndOfStream; m_SignalTime = 0.
ResetEndOfStream ==
  /\ m_bEOS' = FALSE
  /\ m_bEOSDelivered' = FALSE
  /\ completes' = 0
  /\ due' = TRUE
  /\ UNCHANGED <<m_EndOfStreamTimer, timers>>

\* The rest of Stop, up to WaitForReceiveToComplete.
StopReset ==
  /\ op = "Stop" /\ at = "reset" /\ RendererLockFree
  /\ ResetEndOfStream
  /\ CancelNotification
  /\ Ready
  /\ at' = "wait"
  /\ UNCHANGED <<filterVars, sampleVars, op, old, killing, timerVars,
                 m_bRunTimeError, m_bInReceive, m_ThreadSignal, source>>

StopReturn ==
  /\ op = "Stop" /\ at = "wait" /\ ~m_bInReceive
  /\ op' = "none" /\ at' = "none"
  /\ UNCHANGED <<filterVars, sampleVars, eosVars, clockVars, old, killing,
                 timerVars, m_bRunTimeError, m_bInReceive, m_ThreadSignal,
                 m_evComplete, source, due>>

\* Pause of a renderer that is paused, or that has no connection: the state
\* is set and completed without touching the stream.
PauseAgain ==
  /\ BothLocksFree /\ MayStart
  /\ m_State = "Paused" \/ ~m_Connected
  /\ m_State' = "Paused"
  /\ CompleteStateChange("Paused")
  /\ UNCHANGED <<m_Connected, m_pClock, m_bStreaming, m_bFlushing, sampleVars,
                 eosVars, clockVars, ctlVars, timerVars, m_bRunTimeError,
                 m_bInReceive, m_ThreadSignal, source, due>>

\* Pause up to CancelNotification.
Pause ==
  /\ BothLocksFree /\ MayStart
  /\ m_State # "Paused" /\ m_Connected
  /\ m_State' = "Paused"
  /\ old' = m_State
  /\ StopStreaming
  /\ SourceThreadCanWait(TRUE)
  /\ CancelNotification
  /\ op' = "Pause" /\ at' = "timer"
  /\ UNCHANGED <<m_Connected, m_pClock, m_bFlushing, sampleVars, m_bEOS,
                 m_EndOfStreamTimer, timers, killing, timerVars,
                 m_bRunTimeError, m_bInReceive, m_evComplete, source, due>>

\* The rest of Pause.
PauseReturn ==
  /\ op = "Pause" /\ at = "reset" /\ RendererLockFree
  /\ IF old = "Stopped" THEN ClearPendingSample ELSE UNCHANGED m_pMediaSample
  /\ CompleteStateChange(old)
  /\ op' = "none" /\ at' = "none"
  /\ UNCHANGED <<filterVars, eosVars, clockVars, old, killing,
                 timerVars, m_bRunTimeError, m_bInReceive, m_ThreadSignal,
                 source, due>>

\* Run.  The new m_tStart moves the moment to deliver EC_COMPLETE.
Run ==
  /\ BothLocksFree /\ MayStart /\ m_State # "Running"
  /\ m_State' = "Running"
  /\ IF m_Connected
     THEN LET s == IF m_State = "Stopped" THEN NULL ELSE m_pMediaSample IN
          /\ m_pMediaSample' = s
          /\ Ready
          /\ SourceThreadCanWait(TRUE)
          /\ StartStreaming(s)
          /\ due' \in BOOLEAN
     ELSE UNCHANGED <<m_pMediaSample, m_evComplete, m_ThreadSignal,
                      m_bStreaming, m_bEOSDelivered, m_EndOfStreamTimer,
                      timers, completes, clockVars, due>>
  /\ UNCHANGED <<m_Connected, m_pClock, m_bFlushing, m_bEOS, ctlVars,
                 timerVars, m_bRunTimeError, m_bInReceive, source>>

\* CRendererInputPin::BeginFlush up to WaitForReceiveToComplete, which polls
\* with both locks held.
BeginFlush ==
  /\ BothLocksFree /\ m_Connected /\ ~m_bFlushing
  /\ m_bFlushing' = TRUE
  /\ IF m_State = "Paused" THEN NotReady ELSE UNCHANGED m_evComplete
  /\ SourceThreadCanWait(FALSE)
  /\ CancelNotification
  /\ ClearPendingSample
  /\ op' = "BeginFlush" /\ at' = "wait"
  /\ UNCHANGED <<m_State, m_Connected, m_pClock, m_bStreaming, eosVars, old,
                 killing, timerVars, m_bRunTimeError, m_bInReceive, source, due>>

\* m_RendererLock is released before ResetEndOfStream.
BeginFlushWaited ==
  /\ op = "BeginFlush" /\ at = "wait" /\ ~m_bInReceive
  /\ at' = "timer"
  /\ UNCHANGED <<filterVars, sampleVars, eosVars, clockVars, op, old, killing,
                 timerVars, m_bRunTimeError, m_bInReceive, m_ThreadSignal,
                 m_evComplete, source, due>>

BeginFlushReturn ==
  /\ op = "BeginFlush" /\ at = "reset" /\ RendererLockFree
  /\ ResetEndOfStream
  /\ op' = "none" /\ at' = "none"
  /\ UNCHANGED <<filterVars, sampleVars, clockVars, old, killing, timerVars,
                 m_bRunTimeError, m_bInReceive, m_ThreadSignal, m_evComplete,
                 source>>

EndFlush ==
  /\ BothLocksFree /\ m_bFlushing /\ source = "idle"
  /\ SourceThreadCanWait(TRUE)
  /\ m_bFlushing' = FALSE
  /\ m_bRunTimeError' = FALSE
  /\ UNCHANGED <<m_State, m_Connected, m_pClock, m_bStreaming, sampleVars,
                 eosVars, clockVars, ctlVars, timerVars, m_bInReceive,
                 m_evComplete, source, due>>

\* ReceiveConnection, CompleteConnect: this pin cannot reconnect when active.
Connect ==
  /\ BothLocksFree /\ ~m_Connected /\ m_State = "Stopped"
  /\ m_Connected' = TRUE
  /\ UNCHANGED <<m_State, m_pClock, m_bStreaming, m_bFlushing, sampleVars,
                 eosVars, clockVars, ctlVars, timerVars, m_bRunTimeError,
                 m_bInReceive, m_ThreadSignal, m_evComplete, source, due>>

\* CBasePin::Disconnect; CBaseRenderer::BreakConnect resets the stream.
Disconnect ==
  /\ BothLocksFree /\ m_Connected /\ m_State = "Stopped"
  /\ ~m_bFlushing /\ source = "idle"
  /\ op' = "Disconnect" /\ at' = "timer"
  /\ UNCHANGED <<filterVars, sampleVars, eosVars, clockVars, old, killing,
                 timerVars, m_bRunTimeError, m_bInReceive, m_ThreadSignal,
                 m_evComplete, source, due>>

DisconnectReturn ==
  /\ op = "Disconnect" /\ at = "reset" /\ RendererLockFree
  /\ ResetEndOfStream
  /\ ClearPendingSample
  /\ m_Connected' = FALSE
  /\ op' = "none" /\ at' = "none"
  /\ UNCHANGED <<m_State, m_pClock, m_bStreaming, m_bFlushing,
                 clockVars, old, killing, timerVars, m_bRunTimeError,
                 m_bInReceive, m_ThreadSignal, m_evComplete, source>>

\* The filter graph changes the clock of a stopped graph.
SetSyncSource ==
  /\ InterfaceLockFree /\ m_State = "Stopped"
  /\ m_pClock' = ~m_pClock
  /\ UNCHANGED <<m_State, m_Connected, m_bStreaming, m_bFlushing, sampleVars,
                 eosVars, clockVars, ctlVars, timerVars, m_bRunTimeError,
                 m_bInReceive, m_ThreadSignal, m_evComplete, source, due>>
-----------------------------------------------------------------------------
(* The streaming thread.                                                   *)

\* CRendererInputPin::Receive as far as PrepareReceive.  The four outcomes:
\* the pin takes no data, the renderer takes none (a sample is pending or the
\* stream has ended), the sample is rejected for its times (which Receive
\* reports as success), or it is accepted.
Receive(s) ==
  /\ source = "idle" /\ m_Connected /\ BothLocksFree
  /\ \/ /\ ~CheckStreaming
        /\ source' = "failed"
        /\ UNCHANGED <<clockVars, sampleVars, m_bInReceive, m_evComplete, due>>
     \/ /\ CheckStreaming
        /\ m_pMediaSample # NULL \/ m_bEOS
        /\ Ready
        /\ source' = "failed"
        /\ UNCHANGED <<clockVars, sampleVars, m_bInReceive, due>>
     \/ /\ CheckStreaming /\ m_pMediaSample = NULL /\ ~m_bEOS
        /\ m_bStreaming /\ ScheduleSample(s, FALSE)
        /\ UNCHANGED <<sampleVars, m_bInReceive, m_evComplete, source, due>>
     \/ /\ CheckStreaming /\ m_pMediaSample = NULL /\ ~m_bEOS
        /\ IF m_bStreaming THEN ScheduleSample(s, TRUE) ELSE UNCHANGED clockVars
        /\ m_pMediaSample' = s
        /\ due' \in BOOLEAN
        /\ m_bInReceive' = TRUE
        /\ source' = "prepared"
        /\ UNCHANGED m_evComplete
  /\ UNCHANGED <<filterVars, eosVars, ctlVars, timerVars, m_bRunTimeError,
                 m_ThreadSignal>>

\* Receive failed: EC_ERRORABORT, once, unless stopping or flushing.
ReportError ==
  /\ source = "failed" /\ BothLocksFree
  /\ IF CheckStreaming
     THEN /\ m_bRunTimeError' = TRUE
          /\ IF m_bStreaming /\ ~m_bEOSDelivered
             THEN NotifyEndOfStream(TRUE) /\ UNCHANGED m_bEOS
             ELSE UNCHANGED eosVars
     ELSE UNCHANGED <<m_bRunTimeError, eosVars>>
  /\ source' = "idle"
  /\ UNCHANGED <<filterVars, sampleVars, clockVars, ctlVars, timerVars,
                 m_bInReceive, m_ThreadSignal, m_evComplete, due>>

\* Receive looks at m_State without a lock.
LookAtState ==
  /\ source = "prepared"
  /\ IF m_State = "Paused"
     THEN source' = "window" /\ m_bInReceive' = FALSE
     ELSE source' = "waiting" /\ UNCHANGED m_bInReceive
  /\ UNCHANGED <<filterVars, sampleVars, eosVars, clockVars, ctlVars,
                 timerVars, m_bRunTimeError, m_ThreadSignal, m_evComplete, due>>

FirstSample ==
  /\ source = "window" /\ InterfaceLockFree
  /\ IF m_State = "Stopped"
     THEN source' = "idle" /\ UNCHANGED m_bInReceive
     ELSE source' = "first" /\ m_bInReceive' = TRUE
  /\ UNCHANGED <<filterVars, sampleVars, eosVars, clockVars, ctlVars,
                 timerVars, m_bRunTimeError, m_ThreadSignal, m_evComplete, due>>

\* Ready(), outside every lock.
ReportReady ==
  /\ source = "first"
  /\ Ready
  /\ source' = "waiting"
  /\ UNCHANGED <<filterVars, sampleVars, eosVars, clockVars, ctlVars,
                 timerVars, m_bRunTimeError, m_bInReceive, m_ThreadSignal, due>>

\* Mutant: a thread released by m_ThreadSignal waits again.
WaitForRenderTime_Retry ==
  /\ source = "waiting"
  /\ \/ m_ThreadSignal /\ source' = "prepared" /\ UNCHANGED m_RenderEvent
     \/ /\ ~m_ThreadSignal /\ m_RenderEvent
        /\ source' = "fired" /\ m_RenderEvent' = FALSE
  /\ UNCHANGED <<filterVars, sampleVars, eosVars, m_dwAdvise, advises, ctlVars,
                 timerVars, m_bRunTimeError, m_bInReceive, m_ThreadSignal,
                 m_evComplete, due>>

\* WaitForRenderTime returns; m_ThreadSignal is the first object it waits for.
WaitForRenderTime ==
  /\ source = "waiting"
  /\ \/ /\ m_ThreadSignal
        /\ source' = "idle" /\ m_bInReceive' = FALSE
        /\ UNCHANGED m_RenderEvent
     \/ /\ ~m_ThreadSignal /\ m_RenderEvent
        /\ source' = "fired" /\ m_RenderEvent' = FALSE
        /\ UNCHANGED m_bInReceive
  /\ UNCHANGED <<filterVars, sampleVars, eosVars, m_dwAdvise, advises, ctlVars,
                 timerVars, m_bRunTimeError, m_ThreadSignal, m_evComplete, due>>

\* SignalTimerFired, and m_bInReceive = FALSE.
SignalTimerFired ==
  /\ source = "fired"
  /\ m_dwAdvise' = NULL
  /\ m_bInReceive' = FALSE
  /\ source' = "render"
  /\ UNCHANGED <<filterVars, sampleVars, eosVars, m_RenderEvent, advises,
                 ctlVars, timerVars, m_bRunTimeError, m_ThreadSignal,
                 m_evComplete, due>>

\* Mutant: Receive ends without SendEndOfStream.
FinishReceive_NoSend ==
  /\ ClearPendingSample
  /\ UNCHANGED <<m_EndOfStreamTimer, m_bEOSDelivered, completes, timers>>
  /\ CancelNotification
  /\ source' = "idle"

\* ClearPendingSample, SendEndOfStream and CancelNotification: Receive ends.
FinishReceive ==
  /\ ClearPendingSample
  /\ SendEndOfStream(m_bEOS, m_bStreaming)
  /\ CancelNotification
  /\ source' = "idle"

\* Render goes on to DoRenderSample.
CanRender == m_pMediaSample # NULL /\ m_bStreaming

\* Receive with both locks again: Render skips DoRenderSample when there is
\* no sample any more or streaming has stopped.
Render ==
  /\ source = "render" /\ BothLocksFree
  /\ \/ /\ m_State = "Stopped"
        /\ source' = "idle"
        /\ UNCHANGED <<m_pMediaSample, eosVars, clockVars>>
     \/ /\ m_State # "Stopped" /\ ~CanRender
        /\ FinishReceive /\ UNCHANGED m_bEOS
     \/ /\ m_State # "Stopped" /\ CanRender
        /\ source' = "rendering"
        /\ UNCHANGED <<m_pMediaSample, eosVars, clockVars>>
  /\ UNCHANGED <<filterVars, ctlVars, timerVars, m_bRunTimeError,
                 m_bInReceive, m_ThreadSignal, m_evComplete, due>>

\* DoRenderSample returns.
Rendered ==
  /\ source = "rendering"
  /\ FinishReceive
  /\ UNCHANGED <<filterVars, m_bEOS, ctlVars, timerVars,
                 m_bRunTimeError, m_bInReceive, m_ThreadSignal, m_evComplete,
                 due>>

\* CRendererInputPin::EndOfStream, from the streaming thread or from another
\* thread of the upstream filter while Receive waits: the code provides for a
\* pending sample.
EndOfStream ==
  /\ BothLocksFree /\ m_Connected /\ CheckStreaming
  /\ m_bEOS' = TRUE
  /\ IF m_pMediaSample = NULL
     THEN /\ Ready
          /\ IF m_bStreaming
             THEN SendEndOfStream(TRUE, TRUE)
             ELSE UNCHANGED <<m_EndOfStreamTimer, m_bEOSDelivered, completes, timers>>
     ELSE UNCHANGED <<m_evComplete, m_EndOfStreamTimer, m_bEOSDelivered,
                      completes, timers>>
  /\ UNCHANGED <<filterVars, m_pMediaSample, clockVars, ctlVars, timerVars,
                 m_bRunTimeError, m_bInReceive, m_ThreadSignal, source, due>>

-----------------------------------------------------------------------------
(* The clock and the timer.                                                *)

\* The reference clock reaches an advised time.
ClockFires(c) ==
  /\ c \in advises
  /\ advises' = advises \ {c}
  /\ m_RenderEvent' = TRUE
  /\ UNCHANGED <<filterVars, sampleVars, eosVars, m_dwAdvise, ctlVars,
                 timerVars, m_bRunTimeError, m_bInReceive, m_ThreadSignal,
                 m_evComplete, source, due>>

\* The reference clock comes near m_SignalTime.
ClockAdvances ==
  /\ ~due
  /\ due' = TRUE
  /\ UNCHANGED <<filterVars, sampleVars, eosVars, clockVars, ctlVars,
                 timerVars, m_bRunTimeError, m_bInReceive, m_ThreadSignal,
                 m_evComplete, source>>

\* The operating system starts a timer callback (one at a time).
TimerFires(t) ==
  /\ timerPc = "idle" /\ t \in timers
  /\ timers' = timers \ {t}
  /\ timerPc' = "entered" /\ timerId' = t
  /\ UNCHANGED <<filterVars, sampleVars, m_bEOS, m_bEOSDelivered,
                 m_EndOfStreamTimer, completes, clockVars, ctlVars,
                 m_bRunTimeError, m_bInReceive, m_ThreadSignal, m_evComplete,
                 source, due>>

\* TimerCallback gets m_RendererLock.
TimerCallback ==
  /\ timerPc = "entered"
  /\ ~(op = "BeginFlush" /\ at = "wait") /\ source # "rendering"
  /\ IF m_EndOfStreamTimer = NULL
     THEN timerPc' = "idle" /\ timerId' = NULL /\ UNCHANGED m_EndOfStreamTimer
     ELSE timerPc' = "sending" /\ m_EndOfStreamTimer' = NULL /\ UNCHANGED timerId
  /\ UNCHANGED <<filterVars, sampleVars, m_bEOS, m_bEOSDelivered, timers,
                 completes, clockVars, ctlVars, m_bRunTimeError, m_bInReceive,
                 m_ThreadSignal, m_evComplete, source, due>>

\* TimerCallback calls SendEndOfStream and releases m_RendererLock.
TimerSends ==
  /\ timerPc = "sending"
  /\ SendEndOfStream(m_bEOS, m_bStreaming)
  /\ timerPc' = "idle" /\ timerId' = NULL
  /\ UNCHANGED <<filterVars, sampleVars, m_bEOS, clockVars, ctlVars,
                 m_bRunTimeError, m_bInReceive, m_ThreadSignal, m_evComplete,
                 source, due>>

-----------------------------------------------------------------------------
\* The steps of a control method after its first.
ControlStep ==
  \/ ResetEndOfStreamTimer \/ TimerKilled
  \/ StopReset \/ StopReturn \/ PauseReturn
  \/ BeginFlushWaited \/ BeginFlushReturn \/ DisconnectReturn

\* The steps of Receive after PrepareReceive.
SourceStep ==
  \/ ReportError \/ LookAtState \/ FirstSample \/ ReportReady
  \/ WaitForRenderTime \/ SignalTimerFired \/ Render \/ Rendered

TimerStep == (\E t \in Timer : TimerFires(t)) \/ TimerCallback \/ TimerSends

Next ==
  \/ Stop \/ PauseAgain \/ Pause \/ Run \/ BeginFlush \/ EndFlush
  \/ Connect \/ Disconnect \/ SetSyncSource
  \/ ControlStep
  \/ \E s \in SampleKind : Receive(s)
  \/ EndOfStream
  \/ SourceStep
  \/ \E c \in Cookie : ClockFires(c)
  \/ ClockAdvances
  \/ TimerStep

Spec == Init /\ [][Next]_vars

\* Threads keep running, time passes and an advised time comes.  Nobody is
\* obliged to call the renderer.
Fairness ==
  /\ WF_vars(ControlStep) /\ WF_vars(SourceStep) /\ WF_vars(TimerStep)
  /\ WF_vars(ClockAdvances) /\ \A c \in Cookie : WF_vars(ClockFires(c))

FairSpec == Spec /\ Fairness

-----------------------------------------------------------------------------
Flags ==
  /\ m_Connected \in BOOLEAN /\ m_pClock \in BOOLEAN
  /\ m_bStreaming \in BOOLEAN /\ m_bFlushing \in BOOLEAN
  /\ m_bRunTimeError \in BOOLEAN /\ m_bInReceive \in BOOLEAN
  /\ m_bEOS \in BOOLEAN /\ m_bEOSDelivered \in BOOLEAN
  /\ m_RenderEvent \in BOOLEAN /\ m_ThreadSignal \in BOOLEAN
  /\ m_evComplete \in BOOLEAN /\ due \in BOOLEAN

Values ==
  /\ m_State \in {"Stopped", "Paused", "Running"}
  /\ m_pMediaSample \in SampleKind \union {NULL}
  /\ m_EndOfStreamTimer \in Timer \union {NULL}
  /\ m_dwAdvise \in Cookie \union {NULL}
  /\ op \in {"none", "Stop", "Pause", "BeginFlush", "Disconnect"}
  /\ at \in {"none", "timer", "kill", "reset", "wait"}
  /\ old \in {"Stopped", "Paused", "Running"}
  /\ killing \in Timer \union {NULL}
  /\ source \in {"idle", "prepared", "window", "first", "waiting", "fired",
                 "render", "rendering", "failed"}
  /\ timerPc \in {"idle", "entered", "sending"}
  /\ timerId \in Timer \union {NULL}
  /\ advises \subseteq Cookie /\ timers \subseteq Timer
  /\ completes \in Nat

Types == Flags /\ Values

\* m_bInReceive, which Stop and BeginFlush poll, is set exactly while Receive
\* may use the sample without m_InterfaceLock.
PlacesMatch ==
  /\ op = "none" <=> at = "none"
  /\ timerId = NULL <=> timerPc = "idle"
  /\ m_bInReceive <=> source \in {"prepared", "first", "waiting", "fired"}

\* Type invariant, with what other threads can see of a thread's place.
TypeOK == Types /\ PlacesMatch

\* The filter graph gets EC_COMPLETE at most once each time streaming starts:
\* EndOfStream, the end of Receive, StartStreaming, the timer and a failed
\* Receive all try to send it.
CompleteOnce == completes <= 1

\* DoRenderSample is called only while the renderer runs and is not flushing,
\* although Receive slept without locks since it was given the sample.
RenderOnlyWhenRunning ==
  source = "rendering" => /\ m_State = "Running" /\ m_bStreaming
                          /\ ~m_bFlushing /\ m_pMediaSample # NULL

\* The renderer keeps a sample only as long as a Receive call is there to
\* render and release it: one nobody waits for would block every later
\* Receive (E_UNEXPECTED) and its buffer would never return to the allocator.
SampleHasReceiver ==
  m_pMediaSample # NULL =>
    source \in {"prepared", "window", "first", "waiting", "fired", "render",
                "rendering"}

\* The renderer's advise cookie always stands for the pending sample of a
\* stream that is running: Stop, Pause, BeginFlush and the end of Receive each
\* leave none behind.
AdviseHasSample ==
  op = "none" /\ m_dwAdvise # NULL =>
    m_bStreaming /\ m_pMediaSample # NULL /\ m_pClock

\* A pause that is reported intermediate will be completed: data can still
\* come, or the sample that came is on its way to Ready().
IntermediateIsPending ==
  InterfaceLockFree /\ m_State # "Stopped" /\ ~m_evComplete =>
    /\ m_State = "Paused" /\ m_Connected
    /\ \/ m_pMediaSample = NULL /\ ~m_bEOS
       \/ source \in {"prepared", "window", "first"}

\* The inductive invariant behind the five properties above.
\* What the control method in progress has done so far.
OpHolds ==
  /\ op \in {"Stop", "Disconnect"} => m_State = "Stopped"
  /\ op = "Pause" => m_State = "Paused"
  /\ op = "BeginFlush" => m_bFlushing
  /\ source = "rendering" => op = "none"

\* Where there can be no sample, and when the thread event is signalled.
SampleHolds ==
  /\ SampleHasReceiver
  /\ m_State = "Stopped" \/ m_bFlushing \/ ~m_Connected \/ m_ThreadSignal
       => m_pMediaSample = NULL
  /\ m_ThreadSignal => m_State = "Stopped" \/ m_bFlushing \/ ~m_Connected
  /\ m_bStreaming => m_State = "Running" /\ m_Connected
  /\ source = "rendering" => m_bStreaming /\ m_pMediaSample # NULL

\* One EC_COMPLETE for each time m_bEOSDelivered is set.
CompleteHolds == completes = IF m_bEOSDelivered THEN 1 ELSE 0

\* Stop is the only method that keeps a cookie after streaming has stopped.
AdviseHolds ==
  m_dwAdvise # NULL =>
    \/ m_bStreaming /\ m_pMediaSample # NULL /\ m_pClock
    \/ op = "Stop" /\ at \in {"timer", "kill", "reset"}

ReadyHolds ==
  ~m_evComplete =>
    /\ m_Connected
    /\ m_State = "Paused" \/ (op = "Stop" /\ at \in {"timer", "kill", "reset"})
    /\ op = "none" => \/ m_pMediaSample = NULL /\ ~m_bEOS
                      \/ source \in {"prepared", "window", "first"}

IInv == TypeOK /\ OpHolds /\ SampleHolds /\ CompleteHolds /\ AdviseHolds /\ ReadyHolds

\* What Receive, Stop and the clock keep between them about a sample: it is rendered only while
\* running, has a Receive that will release it, and every advise cookie is for it.
SampleHandled == RenderOnlyWhenRunning /\ SampleHasReceiver /\ AdviseHasSample

\* Stop and BeginFlush poll m_bInReceive with the locks held that Receive
\* needs, and timeKillEvent waits for a callback that needs m_RendererLock:
\* every control method returns all the same.
ControlReturns == op # "none" ~> op = "none"

\* A stream that has ended while running is reported: EC_COMPLETE is
\* delivered, unless the renderer is stopped, paused or flushed first.
EndIsReported ==
  m_bEOS /\ m_bStreaming ~> m_bEOSDelivered \/ ~m_bEOS \/ ~m_bStreaming

\* Stop: "There should be no outstanding clock advise" (renbase.cpp 433).
StoppedHasNoAdvise == op = "none" /\ m_State = "Stopped" => advises = {}
=============================================================================
