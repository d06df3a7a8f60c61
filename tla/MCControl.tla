----------------------------- MODULE MCControl ------------------------------
(***************************************************************************)
(* Stream control, deferred commands and seeking for TLC.  `part' says     *)
(* which of them this behaviour is about, the others stay in their initial *)
(* state.                                                                  *)
(***************************************************************************)
EXTENDS Integers, Sequences

CONSTANTS MAX_TIME, Samples, Apps, Hops, MaxRuns, Nobody,
          Cmds, CmdTimes, m_StreamTimeOffset, MaxTime, NoCmd, Parts

ASSUME ControlAssumption ==
  /\ MAX_TIME \in Nat /\ Samples \subseteq Nat \X Nat
  /\ MaxRuns \in Nat /\ Nobody # "eos"
  /\ CmdTimes \subseteq Nat \ {0} /\ m_StreamTimeOffset \in Nat /\ MaxTime \in Nat

SampleTimes == {<<0, 1>>, <<1, 2>>}

VARIABLES part,
  m_StreamState, m_StreamStateOnStop, m_tStartTime, m_tStopTime, m_dwStartCookie, m_dwStopCookie,
  m_bStopSendExtra, m_bStopExtraSent, m_bIsFlushing, m_FilterState, m_StreamEvent, wpc, sample,
  extras, silent,
  q, m_pQueue, created, now, xpc, xcmd, apc, acmd, atime, ran, settled,
  linked, m_pLock, unseen, m_bReset, m_StartMedia,
  m_PositionLock, m_RendererLock, callpc, todo, epc, llStop, mediaRun

S == INSTANCE StreamControl
C == INSTANCE CmdQueue
K == INSTANCE Seeking

ctlVars  == <<m_StreamState, m_StreamStateOnStop, m_tStartTime, m_tStopTime, m_dwStartCookie,
              m_dwStopCookie, m_bStopSendExtra, m_bStopExtraSent, m_bIsFlushing, m_FilterState,
              m_StreamEvent, wpc, sample, extras, silent>>
cmdVars  == <<q, m_pQueue, created, now, xpc, xcmd, apc, acmd, atime, ran, settled>>
seekVars == <<linked, m_pLock, unseen, m_bReset, m_StartMedia,
              m_PositionLock, m_RendererLock, callpc, todo, epc, llStop, mediaRun>>
vars == <<part, ctlVars, cmdVars, seekVars>>

Init == part \in Parts /\ S!CtlInit /\ C!CmdInit /\ K!SeekInit

NextStream == part = "stream" /\ S!CtlNext /\ UNCHANGED <<part, cmdVars, seekVars>>
NextCmd    == part = "cmd" /\ C!CmdNext /\ UNCHANGED <<part, ctlVars, seekVars>>
NextSeek   == part = "seek" /\ K!SeekNext /\ UNCHANGED <<part, ctlVars, cmdVars>>

Next == NextStream \/ NextCmd \/ NextSeek

Spec == /\ Init /\ [][Next]_vars
        /\ part = "stream" => S!CtlFairness
        /\ part = "seek" => K!SeekFairness

\* For the deferred commands alone: the executing thread goes on, time passes, the clock keeps
\* its promise and Postpone puts back what it took off.
SpecCmd == /\ Init /\ [][Next]_vars
           /\ WF_cmdVars(C!ExecutorStep) /\ WF_cmdVars(C!Fire) /\ WF_cmdVars(C!Tick) /\ WF_cmdVars(C!Requeue)

(* Stated, and each of their conjuncts explained, in the modules.          *)

\* Samples are sent by the rules, cookies answered, waits justified (CBaseStreamControl).
ControlHolds    == S!ControlHolds

\* Deferred commands are kept in order and executed at most once (CCmdQueue).
CommandsHold    == C!CommandsHold

\* Positions set and reported are the latest (CSourceSeeking, CRendererPosPassThru).
PositionHolds   == K!PositionHolds

\* A flush frees the streaming thread, and an end of stream is not stuck behind a seek.
ControlProgress == S!FlushFrees /\ K!EosEnds

\* What ctlutil.h says of the event for due commands.
DueIsSignalled  == C!DueIsSignalled
=============================================================================
