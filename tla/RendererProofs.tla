--------------------------- MODULE RendererProofs ---------------------------
(* TLAPS proofs about Renderer: the invariant IInv is inductive, and the     *)
(* safety properties of the renderer follow from it, whatever cookies the    *)
(* clock and timers the operating system hand out.                           *)
EXTENDS Renderer, TLAPS

\* Every step keeps the flags and events Boolean.
LEMMA FlagStep == Flags /\ [Next]_vars => Flags'
<1> SUFFICES ASSUME Flags, [Next]_vars PROVE Flags'
  OBVIOUS
<1> USE ConstantsAssumption DEF Flags,
       filterVars, sampleVars, eosVars, clockVars, ctlVars, timerVars
<1>1. CASE Stop
  BY <1>1 DEF Stop, StopStreaming, ClearPendingSample, SourceThreadCanWait,
      BothLocksFree, InterfaceLockFree, RendererLockFree
<1>2. CASE PauseAgain
  BY <1>2 DEF PauseAgain, CompleteStateChange, BothLocksFree,
      InterfaceLockFree, RendererLockFree, MayStart
<1>3. CASE Pause
  BY <1>3 DEF Pause, StopStreaming, SourceThreadCanWait, CancelNotification,
      BothLocksFree, InterfaceLockFree, RendererLockFree, MayStart
<1>4. CASE Run
  BY <1>4 DEF Run, Ready, SourceThreadCanWait, StartStreaming, ScheduleSample,
      Rejectable, SendEndOfStream, NotifyEndOfStream, BothLocksFree,
      InterfaceLockFree, RendererLockFree, MayStart
<1>5. CASE BeginFlush
  BY <1>5 DEF BeginFlush, NotReady, SourceThreadCanWait, CancelNotification,
      ClearPendingSample, BothLocksFree, InterfaceLockFree, RendererLockFree
<1>6. CASE EndFlush
  BY <1>6 DEF EndFlush, SourceThreadCanWait, BothLocksFree, InterfaceLockFree,
      RendererLockFree
<1>7. CASE Connect
  BY <1>7 DEF Connect, BothLocksFree, InterfaceLockFree, RendererLockFree
<1>8. CASE Disconnect
  BY <1>8 DEF Disconnect, BothLocksFree, InterfaceLockFree, RendererLockFree
<1>9. CASE SetSyncSource
  BY <1>9 DEF SetSyncSource, BothLocksFree, InterfaceLockFree,
      RendererLockFree
<1>10. CASE ResetEndOfStreamTimer
  BY <1>10 DEF ResetEndOfStreamTimer
<1>11. CASE TimerKilled
  BY <1>11 DEF TimerKilled
<1>12. CASE StopReset
  BY <1>12 DEF StopReset, ResetEndOfStream, CancelNotification, Ready
<1>13. CASE StopReturn
  BY <1>13 DEF StopReturn
<1>14. CASE PauseReturn
  BY <1>14 DEF PauseReturn, ClearPendingSample, CompleteStateChange
<1>15. CASE BeginFlushWaited
  BY <1>15 DEF BeginFlushWaited
<1>16. CASE BeginFlushReturn
  BY <1>16 DEF BeginFlushReturn, ResetEndOfStream
<1>17. CASE DisconnectReturn
  BY <1>17 DEF DisconnectReturn, ResetEndOfStream, ClearPendingSample
<1>18. ASSUME NEW s \in SampleKind, Receive(s) PROVE Flags'
  BY <1>18 DEF Receive, Ready, ScheduleSample, Rejectable, CheckStreaming,
      BothLocksFree, InterfaceLockFree, RendererLockFree
<1>19. CASE EndOfStream
  BY <1>19 DEF EndOfStream, Ready, SendEndOfStream, NotifyEndOfStream,
      CheckStreaming, BothLocksFree, InterfaceLockFree, RendererLockFree
<1>20. CASE ReportError
  <2>1. CASE CheckStreaming /\ m_bStreaming /\ ~m_bEOSDelivered
    <3>1. /\ m_bRunTimeError' = TRUE /\ m_bEOSDelivered' = TRUE
          /\ UNCHANGED m_bEOS
      BY <2>1, <1>20 DEF ReportError, NotifyEndOfStream
    <3>. QED  BY <3>1, <1>20 DEF ReportError
  <2>2. CASE CheckStreaming /\ ~(m_bStreaming /\ ~m_bEOSDelivered)
    <3>1. m_bRunTimeError' = TRUE /\ UNCHANGED <<m_bEOSDelivered, m_bEOS>>
      BY <2>2, <1>20 DEF ReportError
    <3>. QED  BY <3>1, <1>20 DEF ReportError
  <2>3. CASE ~CheckStreaming
    <3>1. UNCHANGED <<m_bRunTimeError, m_bEOSDelivered, m_bEOS>>
      BY <2>3, <1>20 DEF ReportError
    <3>. QED  BY <3>1, <1>20 DEF ReportError
  <2>. QED  BY <2>1, <2>2, <2>3
<1>21. CASE LookAtState
  <2>1. m_bInReceive' \in BOOLEAN
    <3>1. m_bInReceive' = FALSE \/ UNCHANGED m_bInReceive
      BY <1>21 DEF LookAtState
    <3>. QED  BY <3>1
  <2>2. UNCHANGED <<filterVars, sampleVars, eosVars, clockVars,
                   m_bRunTimeError, m_ThreadSignal, m_evComplete, due>>
    BY <1>21 DEF LookAtState
  <2>. QED  BY <2>1, <2>2
<1>22. CASE FirstSample
  BY <1>22 DEF FirstSample, BothLocksFree, InterfaceLockFree, RendererLockFree
<1>23. CASE ReportReady
  BY <1>23 DEF ReportReady, Ready
<1>24. CASE WaitForRenderTime
  BY <1>24 DEF WaitForRenderTime
<1>25. CASE SignalTimerFired
  BY <1>25 DEF SignalTimerFired
<1>26. CASE Render
  <2>1. m_bEOSDelivered' \in BOOLEAN
    <3>1. m_bEOSDelivered' = TRUE \/ UNCHANGED m_bEOSDelivered
      BY <1>26 DEF Render, FinishReceive, SendEndOfStream, NotifyEndOfStream
    <3>. QED  BY <3>1
  <2>2. m_RenderEvent' \in BOOLEAN
    <3>1. m_RenderEvent' = FALSE \/ UNCHANGED m_RenderEvent
      BY <1>26 DEF Render, FinishReceive, CancelNotification
    <3>. QED  BY <3>1
  <2>3. UNCHANGED <<filterVars, m_bEOS, m_bRunTimeError,
                   m_bInReceive, m_ThreadSignal, m_evComplete, due>>
    BY <1>26 DEF Render
  <2>. QED  BY <2>1, <2>2, <2>3
<1>27. CASE Rendered
  BY <1>27 DEF Rendered, FinishReceive, ClearPendingSample, SendEndOfStream,
      NotifyEndOfStream, CancelNotification
<1>28. ASSUME NEW c \in Cookie, ClockFires(c) PROVE Flags'
  BY <1>28 DEF ClockFires
<1>29. CASE ClockAdvances
  BY <1>29 DEF ClockAdvances
<1>30. ASSUME NEW t \in Timer, TimerFires(t) PROVE Flags'
  BY <1>30 DEF TimerFires
<1>31. CASE TimerCallback
  BY <1>31 DEF TimerCallback
<1>32. CASE TimerSends
  <2>1. m_bEOSDelivered' \in BOOLEAN
    <3>1. m_bEOSDelivered' = TRUE \/ UNCHANGED m_bEOSDelivered
      BY <1>32 DEF TimerSends, SendEndOfStream, NotifyEndOfStream
    <3>. QED  BY <3>1
  <2>2. UNCHANGED <<filterVars, sampleVars, m_bEOS, clockVars,
                   m_bRunTimeError, m_bInReceive, m_ThreadSignal,
                   m_evComplete, due>>
    BY <1>32 DEF TimerSends
  <2>. QED  BY <2>1, <2>2
<1>33. CASE UNCHANGED vars
  BY <1>33 DEF vars
<1>. QED
  BY <1>1, <1>2, <1>3, <1>4, <1>5, <1>6, <1>7, <1>8, <1>9, <1>10, <1>11,
     <1>12, <1>13, <1>14, <1>15, <1>16, <1>17, <1>18, <1>19, <1>20, <1>21,
     <1>22, <1>23, <1>24, <1>25, <1>26, <1>27, <1>28, <1>29, <1>30, <1>31,
     <1>32, <1>33 DEF Next, ControlStep, SourceStep, TimerStep

\* Every step keeps the other variables well typed.
LEMMA ValueStep == Values /\ [Next]_vars => Values'
<1> SUFFICES ASSUME Values, [Next]_vars PROVE Values'
  OBVIOUS
<1> USE ConstantsAssumption DEF Values, SampleKind,
       filterVars, sampleVars, eosVars, clockVars, ctlVars, timerVars
<1>1. CASE Stop
  BY <1>1 DEF Stop, StopStreaming, ClearPendingSample, SourceThreadCanWait,
      BothLocksFree, InterfaceLockFree, RendererLockFree
<1>2. CASE PauseAgain
  BY <1>2 DEF PauseAgain, CompleteStateChange, BothLocksFree,
      InterfaceLockFree, RendererLockFree, MayStart
<1>3. CASE Pause
  BY <1>3 DEF Pause, StopStreaming, SourceThreadCanWait, CancelNotification,
      BothLocksFree, InterfaceLockFree, RendererLockFree, MayStart
<1>4. CASE Run
  BY <1>4 DEF Run, Ready, SourceThreadCanWait, StartStreaming, ScheduleSample,
      Rejectable, SendEndOfStream, NotifyEndOfStream, BothLocksFree,
      InterfaceLockFree, RendererLockFree, MayStart
<1>5. CASE BeginFlush
  BY <1>5 DEF BeginFlush, NotReady, SourceThreadCanWait, CancelNotification,
      ClearPendingSample, BothLocksFree, InterfaceLockFree, RendererLockFree
<1>6. CASE EndFlush
  BY <1>6 DEF EndFlush, SourceThreadCanWait, BothLocksFree, InterfaceLockFree,
      RendererLockFree
<1>7. CASE Connect
  BY <1>7 DEF Connect, BothLocksFree, InterfaceLockFree, RendererLockFree
<1>8. CASE Disconnect
  BY <1>8 DEF Disconnect, BothLocksFree, InterfaceLockFree, RendererLockFree
<1>9. CASE SetSyncSource
  BY <1>9 DEF SetSyncSource, BothLocksFree, InterfaceLockFree,
      RendererLockFree
<1>10. CASE ResetEndOfStreamTimer
  BY <1>10 DEF ResetEndOfStreamTimer
<1>11. CASE TimerKilled
  BY <1>11 DEF TimerKilled
<1>12. CASE StopReset
  BY <1>12 DEF StopReset, ResetEndOfStream, CancelNotification, Ready
<1>13. CASE StopReturn
  BY <1>13 DEF StopReturn
<1>14. CASE PauseReturn
  BY <1>14 DEF PauseReturn, ClearPendingSample, CompleteStateChange
<1>15. CASE BeginFlushWaited
  BY <1>15 DEF BeginFlushWaited
<1>16. CASE BeginFlushReturn
  BY <1>16 DEF BeginFlushReturn, ResetEndOfStream
<1>17. CASE DisconnectReturn
  BY <1>17 DEF DisconnectReturn, ResetEndOfStream, ClearPendingSample
<1>18. ASSUME NEW s \in SampleKind, Receive(s) PROVE Values'
  BY <1>18 DEF Receive, Ready, ScheduleSample, Rejectable, CheckStreaming,
      BothLocksFree, InterfaceLockFree, RendererLockFree
<1>19. CASE EndOfStream
  BY <1>19 DEF EndOfStream, Ready, SendEndOfStream, NotifyEndOfStream,
      CheckStreaming, BothLocksFree, InterfaceLockFree, RendererLockFree
<1>20. CASE ReportError
  BY <1>20 DEF ReportError, NotifyEndOfStream, CheckStreaming, BothLocksFree,
      InterfaceLockFree, RendererLockFree
<1>21. CASE LookAtState
  BY <1>21 DEF LookAtState
<1>22. CASE FirstSample
  BY <1>22 DEF FirstSample, BothLocksFree, InterfaceLockFree, RendererLockFree
<1>23. CASE ReportReady
  BY <1>23 DEF ReportReady, Ready
<1>24. CASE WaitForRenderTime
  BY <1>24 DEF WaitForRenderTime
<1>25. CASE SignalTimerFired
  BY <1>25 DEF SignalTimerFired
<1>26. CASE Render
  BY <1>26 DEF Render, CanRender, FinishReceive, ClearPendingSample,
      SendEndOfStream, NotifyEndOfStream, CancelNotification, BothLocksFree,
      InterfaceLockFree, RendererLockFree
<1>27. CASE Rendered
  BY <1>27 DEF Rendered, FinishReceive, ClearPendingSample, SendEndOfStream,
      NotifyEndOfStream, CancelNotification
<1>28. ASSUME NEW c \in Cookie, ClockFires(c) PROVE Values'
  BY <1>28 DEF ClockFires
<1>29. CASE ClockAdvances
  BY <1>29 DEF ClockAdvances
<1>30. ASSUME NEW t \in Timer, TimerFires(t) PROVE Values'
  BY <1>30 DEF TimerFires
<1>31. CASE TimerCallback
  BY <1>31 DEF TimerCallback
<1>32. CASE TimerSends
  BY <1>32 DEF TimerSends, SendEndOfStream, NotifyEndOfStream
<1>33. CASE UNCHANGED vars
  BY <1>33 DEF vars
<1>. QED
  BY <1>1, <1>2, <1>3, <1>4, <1>5, <1>6, <1>7, <1>8, <1>9, <1>10, <1>11,
     <1>12, <1>13, <1>14, <1>15, <1>16, <1>17, <1>18, <1>19, <1>20, <1>21,
     <1>22, <1>23, <1>24, <1>25, <1>26, <1>27, <1>28, <1>29, <1>30, <1>31,
     <1>32, <1>33 DEF Next, ControlStep, SourceStep, TimerStep

\* Every step keeps m_bInReceive accurate.
LEMMA PlaceStep == TypeOK /\ [Next]_vars => PlacesMatch'
<1> SUFFICES ASSUME TypeOK, [Next]_vars PROVE PlacesMatch'
  OBVIOUS
<1> USE ConstantsAssumption DEF TypeOK, Types, Flags, Values, PlacesMatch, SampleKind,
       filterVars, sampleVars, eosVars, clockVars, ctlVars, timerVars
<1>1. CASE Stop
  BY <1>1 DEF Stop, StopStreaming, ClearPendingSample, SourceThreadCanWait,
      BothLocksFree, InterfaceLockFree, RendererLockFree
<1>2. CASE PauseAgain
  BY <1>2 DEF PauseAgain, CompleteStateChange, BothLocksFree,
      InterfaceLockFree, RendererLockFree, MayStart
<1>3. CASE Pause
  BY <1>3 DEF Pause, StopStreaming, SourceThreadCanWait, CancelNotification,
      BothLocksFree, InterfaceLockFree, RendererLockFree, MayStart
<1>4. CASE Run
  BY <1>4 DEF Run, Ready, SourceThreadCanWait, StartStreaming, ScheduleSample,
      Rejectable, SendEndOfStream, NotifyEndOfStream, BothLocksFree,
      InterfaceLockFree, RendererLockFree, MayStart
<1>5. CASE BeginFlush
  BY <1>5 DEF BeginFlush, NotReady, SourceThreadCanWait, CancelNotification,
      ClearPendingSample, BothLocksFree, InterfaceLockFree, RendererLockFree
<1>6. CASE EndFlush
  BY <1>6 DEF EndFlush, SourceThreadCanWait, BothLocksFree, InterfaceLockFree,
      RendererLockFree
<1>7. CASE Connect
  BY <1>7 DEF Connect, BothLocksFree, InterfaceLockFree, RendererLockFree
<1>8. CASE Disconnect
  BY <1>8 DEF Disconnect, BothLocksFree, InterfaceLockFree, RendererLockFree
<1>9. CASE SetSyncSource
  BY <1>9 DEF SetSyncSource, BothLocksFree, InterfaceLockFree,
      RendererLockFree
<1>10. CASE ResetEndOfStreamTimer
  BY <1>10 DEF ResetEndOfStreamTimer
<1>11. CASE TimerKilled
  BY <1>11 DEF TimerKilled
<1>12. CASE StopReset
  BY <1>12 DEF StopReset, ResetEndOfStream, CancelNotification, Ready
<1>13. CASE StopReturn
  BY <1>13 DEF StopReturn
<1>14. CASE PauseReturn
  BY <1>14 DEF PauseReturn, ClearPendingSample, CompleteStateChange
<1>15. CASE BeginFlushWaited
  BY <1>15 DEF BeginFlushWaited
<1>16. CASE BeginFlushReturn
  BY <1>16 DEF BeginFlushReturn, ResetEndOfStream
<1>17. CASE DisconnectReturn
  BY <1>17 DEF DisconnectReturn, ResetEndOfStream, ClearPendingSample
<1>18. ASSUME NEW s \in SampleKind, Receive(s) PROVE PlacesMatch'
  BY <1>18 DEF Receive, Ready, ScheduleSample, Rejectable, CheckStreaming,
      BothLocksFree, InterfaceLockFree, RendererLockFree
<1>19. CASE EndOfStream
  BY <1>19 DEF EndOfStream, Ready, SendEndOfStream, NotifyEndOfStream,
      CheckStreaming, BothLocksFree, InterfaceLockFree, RendererLockFree
<1>20. CASE ReportError
  BY <1>20 DEF ReportError, NotifyEndOfStream, CheckStreaming, BothLocksFree,
      InterfaceLockFree, RendererLockFree
<1>21. CASE LookAtState
  BY <1>21 DEF LookAtState
<1>22. CASE FirstSample
  BY <1>22 DEF FirstSample, BothLocksFree, InterfaceLockFree, RendererLockFree
<1>23. CASE ReportReady
  BY <1>23 DEF ReportReady, Ready
<1>24. CASE WaitForRenderTime
  BY <1>24 DEF WaitForRenderTime
<1>25. CASE SignalTimerFired
  BY <1>25 DEF SignalTimerFired
<1>26. CASE Render
  BY <1>26 DEF Render, CanRender, FinishReceive, ClearPendingSample,
      SendEndOfStream, NotifyEndOfStream, CancelNotification, BothLocksFree,
      InterfaceLockFree, RendererLockFree
<1>27. CASE Rendered
  BY <1>27 DEF Rendered, FinishReceive, ClearPendingSample, SendEndOfStream,
      NotifyEndOfStream, CancelNotification
<1>28. ASSUME NEW c \in Cookie, ClockFires(c) PROVE PlacesMatch'
  BY <1>28 DEF ClockFires
<1>29. CASE ClockAdvances
  BY <1>29 DEF ClockAdvances
<1>30. ASSUME NEW t \in Timer, TimerFires(t) PROVE PlacesMatch'
  BY <1>30 DEF TimerFires
<1>31. CASE TimerCallback
  BY <1>31 DEF TimerCallback
<1>32. CASE TimerSends
  BY <1>32 DEF TimerSends, SendEndOfStream, NotifyEndOfStream
<1>33. CASE UNCHANGED vars
  BY <1>33 DEF vars
<1>. QED
  BY <1>1, <1>2, <1>3, <1>4, <1>5, <1>6, <1>7, <1>8, <1>9, <1>10, <1>11,
     <1>12, <1>13, <1>14, <1>15, <1>16, <1>17, <1>18, <1>19, <1>20, <1>21,
     <1>22, <1>23, <1>24, <1>25, <1>26, <1>27, <1>28, <1>29, <1>30, <1>31,
     <1>32, <1>33 DEF Next, ControlStep, SourceStep, TimerStep

\* Every step of a control method finds the filter state its first step left.
LEMMA OpStep == TypeOK /\ OpHolds /\ [Next]_vars => OpHolds'
<1> SUFFICES ASSUME TypeOK, OpHolds, [Next]_vars PROVE OpHolds'
  OBVIOUS
<1> USE ConstantsAssumption DEF TypeOK, Types, Flags, Values, PlacesMatch, SampleKind, OpHolds,
       filterVars, sampleVars, eosVars, clockVars, ctlVars, timerVars
<1>1. CASE Stop
  BY <1>1 DEF Stop, StopStreaming, ClearPendingSample, SourceThreadCanWait,
      BothLocksFree, InterfaceLockFree, RendererLockFree
<1>2. CASE PauseAgain
  BY <1>2 DEF PauseAgain, CompleteStateChange, BothLocksFree,
      InterfaceLockFree, RendererLockFree, MayStart
<1>3. CASE Pause
  BY <1>3 DEF Pause, StopStreaming, SourceThreadCanWait, CancelNotification,
      BothLocksFree, InterfaceLockFree, RendererLockFree, MayStart
<1>4. CASE Run
  BY <1>4 DEF Run, Ready, SourceThreadCanWait, StartStreaming, ScheduleSample,
      Rejectable, SendEndOfStream, NotifyEndOfStream, BothLocksFree,
      InterfaceLockFree, RendererLockFree, MayStart
<1>5. CASE BeginFlush
  BY <1>5 DEF BeginFlush, NotReady, SourceThreadCanWait, CancelNotification,
      ClearPendingSample, BothLocksFree, InterfaceLockFree, RendererLockFree
<1>6. CASE EndFlush
  BY <1>6 DEF EndFlush, SourceThreadCanWait, BothLocksFree, InterfaceLockFree,
      RendererLockFree
<1>7. CASE Connect
  BY <1>7 DEF Connect, BothLocksFree, InterfaceLockFree, RendererLockFree
<1>8. CASE Disconnect
  BY <1>8 DEF Disconnect, BothLocksFree, InterfaceLockFree, RendererLockFree
<1>9. CASE SetSyncSource
  BY <1>9 DEF SetSyncSource, BothLocksFree, InterfaceLockFree,
      RendererLockFree
<1>10. CASE ResetEndOfStreamTimer
  BY <1>10 DEF ResetEndOfStreamTimer
<1>11. CASE TimerKilled
  BY <1>11 DEF TimerKilled
<1>12. CASE StopReset
  BY <1>12 DEF StopReset, ResetEndOfStream, CancelNotification, Ready
<1>13. CASE StopReturn
  BY <1>13 DEF StopReturn
<1>14. CASE PauseReturn
  BY <1>14 DEF PauseReturn, ClearPendingSample, CompleteStateChange
<1>15. CASE BeginFlushWaited
  BY <1>15 DEF BeginFlushWaited
<1>16. CASE BeginFlushReturn
  BY <1>16 DEF BeginFlushReturn, ResetEndOfStream
<1>17. CASE DisconnectReturn
  BY <1>17 DEF DisconnectReturn, ResetEndOfStream, ClearPendingSample
<1>18. ASSUME NEW s \in SampleKind, Receive(s) PROVE OpHolds'
  BY <1>18 DEF Receive, Ready, ScheduleSample, Rejectable, CheckStreaming,
      BothLocksFree, InterfaceLockFree, RendererLockFree
<1>19. CASE EndOfStream
  BY <1>19 DEF EndOfStream, Ready, SendEndOfStream, NotifyEndOfStream,
      CheckStreaming, BothLocksFree, InterfaceLockFree, RendererLockFree
<1>20. CASE ReportError
  BY <1>20 DEF ReportError, NotifyEndOfStream, CheckStreaming, BothLocksFree,
      InterfaceLockFree, RendererLockFree
<1>21. CASE LookAtState
  BY <1>21 DEF LookAtState
<1>22. CASE FirstSample
  BY <1>22 DEF FirstSample, BothLocksFree, InterfaceLockFree, RendererLockFree
<1>23. CASE ReportReady
  BY <1>23 DEF ReportReady, Ready
<1>24. CASE WaitForRenderTime
  BY <1>24 DEF WaitForRenderTime
<1>25. CASE SignalTimerFired
  BY <1>25 DEF SignalTimerFired
<1>26. CASE Render
  BY <1>26 DEF Render, CanRender, FinishReceive, ClearPendingSample,
      SendEndOfStream, NotifyEndOfStream, CancelNotification, BothLocksFree,
      InterfaceLockFree, RendererLockFree
<1>27. CASE Rendered
  BY <1>27 DEF Rendered, FinishReceive, ClearPendingSample, SendEndOfStream,
      NotifyEndOfStream, CancelNotification
<1>28. ASSUME NEW c \in Cookie, ClockFires(c) PROVE OpHolds'
  BY <1>28 DEF ClockFires
<1>29. CASE ClockAdvances
  BY <1>29 DEF ClockAdvances
<1>30. ASSUME NEW t \in Timer, TimerFires(t) PROVE OpHolds'
  BY <1>30 DEF TimerFires
<1>31. CASE TimerCallback
  BY <1>31 DEF TimerCallback
<1>32. CASE TimerSends
  BY <1>32 DEF TimerSends, SendEndOfStream, NotifyEndOfStream
<1>33. CASE UNCHANGED vars
  BY <1>33 DEF vars
<1>. QED
  BY <1>1, <1>2, <1>3, <1>4, <1>5, <1>6, <1>7, <1>8, <1>9, <1>10, <1>11,
     <1>12, <1>13, <1>14, <1>15, <1>16, <1>17, <1>18, <1>19, <1>20, <1>21,
     <1>22, <1>23, <1>24, <1>25, <1>26, <1>27, <1>28, <1>29, <1>30, <1>31,
     <1>32, <1>33 DEF Next, ControlStep, SourceStep, TimerStep

\* Every step that lets Receive return, stops, flushes or disconnects leaves no
\* sample behind.
LEMMA SampleStep == TypeOK /\ OpHolds /\ SampleHolds /\ [Next]_vars => SampleHolds'
<1> SUFFICES ASSUME TypeOK, OpHolds, SampleHolds, [Next]_vars PROVE SampleHolds'
  OBVIOUS
<1> USE ConstantsAssumption DEF TypeOK, Types, Flags, Values, PlacesMatch, SampleKind, OpHolds, SampleHolds, SampleHasReceiver,
       filterVars, sampleVars, eosVars, clockVars, ctlVars, timerVars
<1>1. CASE Stop
  BY <1>1 DEF Stop, StopStreaming, ClearPendingSample, SourceThreadCanWait,
      BothLocksFree, InterfaceLockFree, RendererLockFree
<1>2. CASE PauseAgain
  BY <1>2 DEF PauseAgain, CompleteStateChange, BothLocksFree,
      InterfaceLockFree, RendererLockFree, MayStart
<1>3. CASE Pause
  BY <1>3 DEF Pause, StopStreaming, SourceThreadCanWait, CancelNotification,
      BothLocksFree, InterfaceLockFree, RendererLockFree, MayStart
<1>4. CASE Run
  BY <1>4 DEF Run, Ready, SourceThreadCanWait, StartStreaming, ScheduleSample,
      Rejectable, SendEndOfStream, NotifyEndOfStream, BothLocksFree,
      InterfaceLockFree, RendererLockFree, MayStart
<1>5. CASE BeginFlush
  BY <1>5 DEF BeginFlush, NotReady, SourceThreadCanWait, CancelNotification,
      ClearPendingSample, BothLocksFree, InterfaceLockFree, RendererLockFree
<1>6. CASE EndFlush
  BY <1>6 DEF EndFlush, SourceThreadCanWait, BothLocksFree, InterfaceLockFree,
      RendererLockFree
<1>7. CASE Connect
  BY <1>7 DEF Connect, BothLocksFree, InterfaceLockFree, RendererLockFree
<1>8. CASE Disconnect
  BY <1>8 DEF Disconnect, BothLocksFree, InterfaceLockFree, RendererLockFree
<1>9. CASE SetSyncSource
  BY <1>9 DEF SetSyncSource, BothLocksFree, InterfaceLockFree,
      RendererLockFree
<1>10. CASE ResetEndOfStreamTimer
  BY <1>10 DEF ResetEndOfStreamTimer
<1>11. CASE TimerKilled
  BY <1>11 DEF TimerKilled
<1>12. CASE StopReset
  BY <1>12 DEF StopReset, ResetEndOfStream, CancelNotification, Ready
<1>13. CASE StopReturn
  BY <1>13 DEF StopReturn
<1>14. CASE PauseReturn
  BY <1>14 DEF PauseReturn, ClearPendingSample, CompleteStateChange
<1>15. CASE BeginFlushWaited
  BY <1>15 DEF BeginFlushWaited
<1>16. CASE BeginFlushReturn
  BY <1>16 DEF BeginFlushReturn, ResetEndOfStream
<1>17. CASE DisconnectReturn
  BY <1>17 DEF DisconnectReturn, ResetEndOfStream, ClearPendingSample
<1>18. ASSUME NEW s \in SampleKind, Receive(s) PROVE SampleHolds'
  BY <1>18 DEF Receive, Ready, ScheduleSample, Rejectable, CheckStreaming,
      BothLocksFree, InterfaceLockFree, RendererLockFree
<1>19. CASE EndOfStream
  BY <1>19 DEF EndOfStream, Ready, SendEndOfStream, NotifyEndOfStream,
      CheckStreaming, BothLocksFree, InterfaceLockFree, RendererLockFree
<1>20. CASE ReportError
  BY <1>20 DEF ReportError, NotifyEndOfStream, CheckStreaming, BothLocksFree,
      InterfaceLockFree, RendererLockFree
<1>21. CASE LookAtState
  BY <1>21 DEF LookAtState
<1>22. CASE FirstSample
  BY <1>22 DEF FirstSample, BothLocksFree, InterfaceLockFree, RendererLockFree
<1>23. CASE ReportReady
  BY <1>23 DEF ReportReady, Ready
<1>24. CASE WaitForRenderTime
  BY <1>24 DEF WaitForRenderTime
<1>25. CASE SignalTimerFired
  BY <1>25 DEF SignalTimerFired
<1>26. CASE Render
  BY <1>26 DEF Render, CanRender, FinishReceive, ClearPendingSample,
      SendEndOfStream, NotifyEndOfStream, CancelNotification, BothLocksFree,
      InterfaceLockFree, RendererLockFree
<1>27. CASE Rendered
  BY <1>27 DEF Rendered, FinishReceive, ClearPendingSample, SendEndOfStream,
      NotifyEndOfStream, CancelNotification
<1>28. ASSUME NEW c \in Cookie, ClockFires(c) PROVE SampleHolds'
  BY <1>28 DEF ClockFires
<1>29. CASE ClockAdvances
  BY <1>29 DEF ClockAdvances
<1>30. ASSUME NEW t \in Timer, TimerFires(t) PROVE SampleHolds'
  BY <1>30 DEF TimerFires
<1>31. CASE TimerCallback
  BY <1>31 DEF TimerCallback
<1>32. CASE TimerSends
  BY <1>32 DEF TimerSends, SendEndOfStream, NotifyEndOfStream
<1>33. CASE UNCHANGED vars
  BY <1>33 DEF vars
<1>. QED
  BY <1>1, <1>2, <1>3, <1>4, <1>5, <1>6, <1>7, <1>8, <1>9, <1>10, <1>11,
     <1>12, <1>13, <1>14, <1>15, <1>16, <1>17, <1>18, <1>19, <1>20, <1>21,
     <1>22, <1>23, <1>24, <1>25, <1>26, <1>27, <1>28, <1>29, <1>30, <1>31,
     <1>32, <1>33 DEF Next, ControlStep, SourceStep, TimerStep

\* EC_COMPLETE is sent only when it has not been, and forgotten only when
\* streaming stops or is flushed.
LEMMA CompleteStep == TypeOK /\ CompleteHolds /\ [Next]_vars => CompleteHolds'
<1> SUFFICES ASSUME TypeOK, CompleteHolds, [Next]_vars PROVE CompleteHolds'
  OBVIOUS
<1> USE ConstantsAssumption DEF TypeOK, Types, Flags, Values, PlacesMatch, SampleKind, CompleteHolds,
       filterVars, sampleVars, eosVars, clockVars, ctlVars, timerVars
<1>1. CASE Stop
  BY <1>1 DEF Stop, StopStreaming, ClearPendingSample, SourceThreadCanWait,
      BothLocksFree, InterfaceLockFree, RendererLockFree
<1>2. CASE PauseAgain
  BY <1>2 DEF PauseAgain, CompleteStateChange, BothLocksFree,
      InterfaceLockFree, RendererLockFree, MayStart
<1>3. CASE Pause
  BY <1>3 DEF Pause, StopStreaming, SourceThreadCanWait, CancelNotification,
      BothLocksFree, InterfaceLockFree, RendererLockFree, MayStart
<1>4. CASE Run
  BY <1>4 DEF Run, Ready, SourceThreadCanWait, StartStreaming, ScheduleSample,
      Rejectable, SendEndOfStream, NotifyEndOfStream, BothLocksFree,
      InterfaceLockFree, RendererLockFree, MayStart
<1>5. CASE BeginFlush
  BY <1>5 DEF BeginFlush, NotReady, SourceThreadCanWait, CancelNotification,
      ClearPendingSample, BothLocksFree, InterfaceLockFree, RendererLockFree
<1>6. CASE EndFlush
  BY <1>6 DEF EndFlush, SourceThreadCanWait, BothLocksFree, InterfaceLockFree,
      RendererLockFree
<1>7. CASE Connect
  BY <1>7 DEF Connect, BothLocksFree, InterfaceLockFree, RendererLockFree
<1>8. CASE Disconnect
  BY <1>8 DEF Disconnect, BothLocksFree, InterfaceLockFree, RendererLockFree
<1>9. CASE SetSyncSource
  BY <1>9 DEF SetSyncSource, BothLocksFree, InterfaceLockFree,
      RendererLockFree
<1>10. CASE ResetEndOfStreamTimer
  BY <1>10 DEF ResetEndOfStreamTimer
<1>11. CASE TimerKilled
  BY <1>11 DEF TimerKilled
<1>12. CASE StopReset
  BY <1>12 DEF StopReset, ResetEndOfStream, CancelNotification, Ready
<1>13. CASE StopReturn
  BY <1>13 DEF StopReturn
<1>14. CASE PauseReturn
  BY <1>14 DEF PauseReturn, ClearPendingSample, CompleteStateChange
<1>15. CASE BeginFlushWaited
  BY <1>15 DEF BeginFlushWaited
<1>16. CASE BeginFlushReturn
  BY <1>16 DEF BeginFlushReturn, ResetEndOfStream
<1>17. CASE DisconnectReturn
  BY <1>17 DEF DisconnectReturn, ResetEndOfStream, ClearPendingSample
<1>18. ASSUME NEW s \in SampleKind, Receive(s) PROVE CompleteHolds'
  BY <1>18 DEF Receive, Ready, ScheduleSample, Rejectable, CheckStreaming,
      BothLocksFree, InterfaceLockFree, RendererLockFree
<1>19. CASE EndOfStream
  BY <1>19 DEF EndOfStream, Ready, SendEndOfStream, NotifyEndOfStream,
      CheckStreaming, BothLocksFree, InterfaceLockFree, RendererLockFree
<1>20. CASE ReportError
  BY <1>20 DEF ReportError, NotifyEndOfStream, CheckStreaming, BothLocksFree,
      InterfaceLockFree, RendererLockFree
<1>21. CASE LookAtState
  BY <1>21 DEF LookAtState
<1>22. CASE FirstSample
  BY <1>22 DEF FirstSample, BothLocksFree, InterfaceLockFree, RendererLockFree
<1>23. CASE ReportReady
  BY <1>23 DEF ReportReady, Ready
<1>24. CASE WaitForRenderTime
  BY <1>24 DEF WaitForRenderTime
<1>25. CASE SignalTimerFired
  BY <1>25 DEF SignalTimerFired
<1>26. CASE Render
  BY <1>26 DEF Render, CanRender, FinishReceive, ClearPendingSample,
      SendEndOfStream, NotifyEndOfStream, CancelNotification, BothLocksFree,
      InterfaceLockFree, RendererLockFree
<1>27. CASE Rendered
  BY <1>27 DEF Rendered, FinishReceive, ClearPendingSample, SendEndOfStream,
      NotifyEndOfStream, CancelNotification
<1>28. ASSUME NEW c \in Cookie, ClockFires(c) PROVE CompleteHolds'
  BY <1>28 DEF ClockFires
<1>29. CASE ClockAdvances
  BY <1>29 DEF ClockAdvances
<1>30. ASSUME NEW t \in Timer, TimerFires(t) PROVE CompleteHolds'
  BY <1>30 DEF TimerFires
<1>31. CASE TimerCallback
  BY <1>31 DEF TimerCallback
<1>32. CASE TimerSends
  BY <1>32 DEF TimerSends, SendEndOfStream, NotifyEndOfStream
<1>33. CASE UNCHANGED vars
  BY <1>33 DEF vars
<1>. QED
  BY <1>1, <1>2, <1>3, <1>4, <1>5, <1>6, <1>7, <1>8, <1>9, <1>10, <1>11,
     <1>12, <1>13, <1>14, <1>15, <1>16, <1>17, <1>18, <1>19, <1>20, <1>21,
     <1>22, <1>23, <1>24, <1>25, <1>26, <1>27, <1>28, <1>29, <1>30, <1>31,
     <1>32, <1>33 DEF Next, ControlStep, SourceStep, TimerStep

\* A cookie is stored only with a sample and cancelled wherever the sample goes.
LEMMA AdviseStep == TypeOK /\ OpHolds /\ SampleHolds /\ AdviseHolds /\ [Next]_vars => AdviseHolds'
<1> SUFFICES ASSUME TypeOK, OpHolds, SampleHolds, AdviseHolds, [Next]_vars PROVE AdviseHolds'
  OBVIOUS
<1> USE ConstantsAssumption DEF TypeOK, Types, Flags, Values, PlacesMatch, SampleKind, OpHolds, SampleHolds, SampleHasReceiver, AdviseHolds,
       filterVars, sampleVars, eosVars, clockVars, ctlVars, timerVars
<1>1. CASE Stop
  BY <1>1 DEF Stop, StopStreaming, ClearPendingSample, SourceThreadCanWait,
      BothLocksFree, InterfaceLockFree, RendererLockFree
<1>2. CASE PauseAgain
  BY <1>2 DEF PauseAgain, CompleteStateChange, BothLocksFree,
      InterfaceLockFree, RendererLockFree, MayStart
<1>3. CASE Pause
  BY <1>3 DEF Pause, StopStreaming, SourceThreadCanWait, CancelNotification,
      BothLocksFree, InterfaceLockFree, RendererLockFree, MayStart
<1>4. CASE Run
  BY <1>4 DEF Run, Ready, SourceThreadCanWait, StartStreaming, ScheduleSample,
      Rejectable, SendEndOfStream, NotifyEndOfStream, BothLocksFree,
      InterfaceLockFree, RendererLockFree, MayStart
<1>5. CASE BeginFlush
  BY <1>5 DEF BeginFlush, NotReady, SourceThreadCanWait, CancelNotification,
      ClearPendingSample, BothLocksFree, InterfaceLockFree, RendererLockFree
<1>6. CASE EndFlush
  BY <1>6 DEF EndFlush, SourceThreadCanWait, BothLocksFree, InterfaceLockFree,
      RendererLockFree
<1>7. CASE Connect
  BY <1>7 DEF Connect, BothLocksFree, InterfaceLockFree, RendererLockFree
<1>8. CASE Disconnect
  BY <1>8 DEF Disconnect, BothLocksFree, InterfaceLockFree, RendererLockFree
<1>9. CASE SetSyncSource
  BY <1>9 DEF SetSyncSource, BothLocksFree, InterfaceLockFree,
      RendererLockFree
<1>10. CASE ResetEndOfStreamTimer
  BY <1>10 DEF ResetEndOfStreamTimer
<1>11. CASE TimerKilled
  BY <1>11 DEF TimerKilled
<1>12. CASE StopReset
  BY <1>12 DEF StopReset, ResetEndOfStream, CancelNotification, Ready
<1>13. CASE StopReturn
  BY <1>13 DEF StopReturn
<1>14. CASE PauseReturn
  BY <1>14 DEF PauseReturn, ClearPendingSample, CompleteStateChange
<1>15. CASE BeginFlushWaited
  BY <1>15 DEF BeginFlushWaited
<1>16. CASE BeginFlushReturn
  BY <1>16 DEF BeginFlushReturn, ResetEndOfStream
<1>17. CASE DisconnectReturn
  BY <1>17 DEF DisconnectReturn, ResetEndOfStream, ClearPendingSample
<1>18. ASSUME NEW s \in SampleKind, Receive(s) PROVE AdviseHolds'
  BY <1>18 DEF Receive, Ready, ScheduleSample, Rejectable, CheckStreaming,
      BothLocksFree, InterfaceLockFree, RendererLockFree
<1>19. CASE EndOfStream
  BY <1>19 DEF EndOfStream, Ready, SendEndOfStream, NotifyEndOfStream,
      CheckStreaming, BothLocksFree, InterfaceLockFree, RendererLockFree
<1>20. CASE ReportError
  BY <1>20 DEF ReportError, NotifyEndOfStream, CheckStreaming, BothLocksFree,
      InterfaceLockFree, RendererLockFree
<1>21. CASE LookAtState
  BY <1>21 DEF LookAtState
<1>22. CASE FirstSample
  BY <1>22 DEF FirstSample, BothLocksFree, InterfaceLockFree, RendererLockFree
<1>23. CASE ReportReady
  BY <1>23 DEF ReportReady, Ready
<1>24. CASE WaitForRenderTime
  BY <1>24 DEF WaitForRenderTime
<1>25. CASE SignalTimerFired
  BY <1>25 DEF SignalTimerFired
<1>26. CASE Render
  BY <1>26 DEF Render, CanRender, FinishReceive, ClearPendingSample,
      SendEndOfStream, NotifyEndOfStream, CancelNotification, BothLocksFree,
      InterfaceLockFree, RendererLockFree
<1>27. CASE Rendered
  BY <1>27 DEF Rendered, FinishReceive, ClearPendingSample, SendEndOfStream,
      NotifyEndOfStream, CancelNotification
<1>28. ASSUME NEW c \in Cookie, ClockFires(c) PROVE AdviseHolds'
  BY <1>28 DEF ClockFires
<1>29. CASE ClockAdvances
  BY <1>29 DEF ClockAdvances
<1>30. ASSUME NEW t \in Timer, TimerFires(t) PROVE AdviseHolds'
  BY <1>30 DEF TimerFires
<1>31. CASE TimerCallback
  BY <1>31 DEF TimerCallback
<1>32. CASE TimerSends
  BY <1>32 DEF TimerSends, SendEndOfStream, NotifyEndOfStream
<1>33. CASE UNCHANGED vars
  BY <1>33 DEF vars
<1>. QED
  BY <1>1, <1>2, <1>3, <1>4, <1>5, <1>6, <1>7, <1>8, <1>9, <1>10, <1>11,
     <1>12, <1>13, <1>14, <1>15, <1>16, <1>17, <1>18, <1>19, <1>20, <1>21,
     <1>22, <1>23, <1>24, <1>25, <1>26, <1>27, <1>28, <1>29, <1>30, <1>31,
     <1>32, <1>33 DEF Next, ControlStep, SourceStep, TimerStep

\* A paused renderer that has a sample or the end of the stream is ready, or a
\* Receive call is about to say so.
LEMMA ReadyStep == TypeOK /\ OpHolds /\ SampleHolds /\ ReadyHolds /\ [Next]_vars => ReadyHolds'
<1> SUFFICES ASSUME TypeOK, OpHolds, SampleHolds, ReadyHolds, [Next]_vars PROVE ReadyHolds'
  OBVIOUS
<1> USE ConstantsAssumption DEF TypeOK, Types, Flags, Values, PlacesMatch, SampleKind, OpHolds, SampleHolds, SampleHasReceiver, ReadyHolds,
       filterVars, sampleVars, eosVars, clockVars, ctlVars, timerVars
<1>1. CASE Stop
  BY <1>1 DEF Stop, StopStreaming, ClearPendingSample, SourceThreadCanWait,
      BothLocksFree, InterfaceLockFree, RendererLockFree
<1>2. CASE PauseAgain
  BY <1>2 DEF PauseAgain, CompleteStateChange, BothLocksFree,
      InterfaceLockFree, RendererLockFree, MayStart
<1>3. CASE Pause
  BY <1>3 DEF Pause, StopStreaming, SourceThreadCanWait, CancelNotification,
      BothLocksFree, InterfaceLockFree, RendererLockFree, MayStart
<1>4. CASE Run
  BY <1>4 DEF Run, Ready, SourceThreadCanWait, StartStreaming, ScheduleSample,
      Rejectable, SendEndOfStream, NotifyEndOfStream, BothLocksFree,
      InterfaceLockFree, RendererLockFree, MayStart
<1>5. CASE BeginFlush
  BY <1>5 DEF BeginFlush, NotReady, SourceThreadCanWait, CancelNotification,
      ClearPendingSample, BothLocksFree, InterfaceLockFree, RendererLockFree
<1>6. CASE EndFlush
  BY <1>6 DEF EndFlush, SourceThreadCanWait, BothLocksFree, InterfaceLockFree,
      RendererLockFree
<1>7. CASE Connect
  BY <1>7 DEF Connect, BothLocksFree, InterfaceLockFree, RendererLockFree
<1>8. CASE Disconnect
  BY <1>8 DEF Disconnect, BothLocksFree, InterfaceLockFree, RendererLockFree
<1>9. CASE SetSyncSource
  BY <1>9 DEF SetSyncSource, BothLocksFree, InterfaceLockFree,
      RendererLockFree
<1>10. CASE ResetEndOfStreamTimer
  BY <1>10 DEF ResetEndOfStreamTimer
<1>11. CASE TimerKilled
  BY <1>11 DEF TimerKilled
<1>12. CASE StopReset
  BY <1>12 DEF StopReset, ResetEndOfStream, CancelNotification, Ready
<1>13. CASE StopReturn
  BY <1>13 DEF StopReturn
<1>14. CASE PauseReturn
  BY <1>14 DEF PauseReturn, ClearPendingSample, CompleteStateChange
<1>15. CASE BeginFlushWaited
  BY <1>15 DEF BeginFlushWaited
<1>16. CASE BeginFlushReturn
  BY <1>16 DEF BeginFlushReturn, ResetEndOfStream
<1>17. CASE DisconnectReturn
  BY <1>17 DEF DisconnectReturn, ResetEndOfStream, ClearPendingSample
<1>18. ASSUME NEW s \in SampleKind, Receive(s) PROVE ReadyHolds'
  BY <1>18 DEF Receive, Ready, ScheduleSample, Rejectable, CheckStreaming,
      BothLocksFree, InterfaceLockFree, RendererLockFree
<1>19. CASE EndOfStream
  BY <1>19 DEF EndOfStream, Ready, SendEndOfStream, NotifyEndOfStream,
      CheckStreaming, BothLocksFree, InterfaceLockFree, RendererLockFree
<1>20. CASE ReportError
  BY <1>20 DEF ReportError, NotifyEndOfStream, CheckStreaming, BothLocksFree,
      InterfaceLockFree, RendererLockFree
<1>21. CASE LookAtState
  BY <1>21 DEF LookAtState
<1>22. CASE FirstSample
  BY <1>22 DEF FirstSample, BothLocksFree, InterfaceLockFree, RendererLockFree
<1>23. CASE ReportReady
  BY <1>23 DEF ReportReady, Ready
<1>24. CASE WaitForRenderTime
  BY <1>24 DEF WaitForRenderTime
<1>25. CASE SignalTimerFired
  BY <1>25 DEF SignalTimerFired
<1>26. CASE Render
  BY <1>26 DEF Render, CanRender, FinishReceive, ClearPendingSample,
      SendEndOfStream, NotifyEndOfStream, CancelNotification, BothLocksFree,
      InterfaceLockFree, RendererLockFree
<1>27. CASE Rendered
  BY <1>27 DEF Rendered, FinishReceive, ClearPendingSample, SendEndOfStream,
      NotifyEndOfStream, CancelNotification
<1>28. ASSUME NEW c \in Cookie, ClockFires(c) PROVE ReadyHolds'
  BY <1>28 DEF ClockFires
<1>29. CASE ClockAdvances
  BY <1>29 DEF ClockAdvances
<1>30. ASSUME NEW t \in Timer, TimerFires(t) PROVE ReadyHolds'
  BY <1>30 DEF TimerFires
<1>31. CASE TimerCallback
  BY <1>31 DEF TimerCallback
<1>32. CASE TimerSends
  BY <1>32 DEF TimerSends, SendEndOfStream, NotifyEndOfStream
<1>33. CASE UNCHANGED vars
  BY <1>33 DEF vars
<1>. QED
  BY <1>1, <1>2, <1>3, <1>4, <1>5, <1>6, <1>7, <1>8, <1>9, <1>10, <1>11,
     <1>12, <1>13, <1>14, <1>15, <1>16, <1>17, <1>18, <1>19, <1>20, <1>21,
     <1>22, <1>23, <1>24, <1>25, <1>26, <1>27, <1>28, <1>29, <1>30, <1>31,
     <1>32, <1>33 DEF Next, ControlStep, SourceStep, TimerStep

-----------------------------------------------------------------------------
\* The renderer's invariant.
THEOREM Inductive == Spec => []IInv
<1>1. Init => IInv
  <2> SUFFICES ASSUME Init PROVE IInv
    OBVIOUS
  <2>1. Flags
    BY DEF Init, Flags
  <2>2. Values /\ PlacesMatch
    BY DEF Init, Values, PlacesMatch
  <2>3. OpHolds /\ SampleHolds /\ CompleteHolds /\ AdviseHolds /\ ReadyHolds
    BY DEF Init, OpHolds, SampleHolds, SampleHasReceiver, CompleteHolds,
           AdviseHolds, ReadyHolds
  <2>. QED  BY <2>1, <2>2, <2>3 DEF IInv, TypeOK, Types
<1>2. IInv /\ [Next]_vars => IInv'
  BY FlagStep, ValueStep, PlaceStep, OpStep, SampleStep, CompleteStep, AdviseStep, ReadyStep
  DEF IInv, TypeOK, Types
<1>. QED  BY <1>1, <1>2, PTL DEF Spec

\* Type correctness, and m_bInReceive set exactly while Receive may use the
\* sample without m_InterfaceLock.
THEOREM TypeCorrect == Spec => []TypeOK
<1>1. IInv => TypeOK
  BY DEF IInv
<1>. QED  BY <1>1, Inductive, PTL

\* EC_COMPLETE is sent at most once each time streaming starts.
THEOREM CompletedOnce == Spec => []CompleteOnce
<1>1. IInv => CompleteOnce
  BY DEF IInv, CompleteHolds, CompleteOnce, TypeOK, Types, Values
<1>. QED  BY <1>1, Inductive, PTL

\* DoRenderSample is called only while the renderer runs and is not flushing.
THEOREM RendersWhenRunning == Spec => []RenderOnlyWhenRunning
<1>1. IInv => RenderOnlyWhenRunning
  BY DEF IInv, TypeOK, Types, Flags, Values, SampleHolds, RenderOnlyWhenRunning
<1>. QED  BY <1>1, Inductive, PTL

\* A pending sample always has a Receive call that will release it.
THEOREM SampleReceived == Spec => []SampleHasReceiver
<1>1. IInv => SampleHasReceiver
  BY DEF IInv, SampleHolds
<1>. QED  BY <1>1, Inductive, PTL

\* An advise cookie stands for the pending sample of a running stream.
THEOREM AdvisedForSample == Spec => []AdviseHasSample
<1>1. IInv => AdviseHasSample
  BY DEF IInv, TypeOK, Types, Flags, Values, AdviseHolds, AdviseHasSample
<1>. QED  BY <1>1, Inductive, PTL

\* A pause reported intermediate can always complete.
THEOREM IntermediateCompletes == Spec => []IntermediateIsPending
<1>1. IInv => IntermediateIsPending
  BY DEF IInv, TypeOK, Types, Flags, Values, OpHolds, ReadyHolds, IntermediateIsPending,
         InterfaceLockFree
<1>. QED  BY <1>1, Inductive, PTL

\* The three together: rendered only while running, released by a Receive, advised for.
THEOREM SampleAlwaysHandled == Spec => []SampleHandled
<1>1. RenderOnlyWhenRunning /\ SampleHasReceiver /\ AdviseHasSample => SampleHandled
  BY DEF SampleHandled
<1>. QED  BY <1>1, RendersWhenRunning, SampleReceived, AdvisedForSample, PTL
=============================================================================
