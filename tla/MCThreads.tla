----------------------------- MODULE MCThreads ------------------------------
(***************************************************************************)
(* For TLC: the worker threads of SourceStream and PullPin, which share    *)
(* the variables of Worker, MsgThread, and the threads that meet at a      *)
(* DynamicPin.  `part' says which of them this behaviour is about, the     *)
(* others stay in an initial state.                                        *)
(***************************************************************************)
EXTENDS Integers, Sequences, FiniteSets

CONSTANTS NoCommand, Total, BufferSize, cbAlign, cBuffers, Positions, Restarts, NoReader,
          MaxMessages, Streamers, Blockers, Formats, Nobody

ASSUME ThreadsAssumption ==
  /\ Total \in Nat /\ BufferSize \in Nat \ {0} /\ cbAlign \in Nat \ {0} /\ cBuffers \in Nat \ {0}
  /\ Positions \subseteq Int \X Int
  /\ Restarts \in Nat /\ MaxMessages \in Nat /\ NoReader \notin [sync : BOOLEAN]
  /\ IsFiniteSet(Streamers) /\ Nobody \notin Blockers

SeekPositions == {<<1, 3>>, <<3, 5>>, <<2, 2>>}

VARIABLES part,
  m_hThread, m_EventSend, m_EventComplete, m_dwParam, m_dwReturnVal, owed, tpc,
  srcActive, srcMemory, taken, cpc, srcFailed,
  m_pReader, pullState, m_tStart, m_tStop, m_tDuration, pullMemory, reader, readerFlushing,
  ppc, parg, job, kept, run, reached, sentEos, refused,
  m_ThreadQueue, m_lWaiting, m_hSem, mpc, posted, handled,
  m_BlockState, m_hUnblockOutputPinEvent, m_hNotifyCallerPinBlockedEvent,
  m_dwBlockCallerThreadID, m_dwNumOutstandingOutputPinUsers, m_hStopEvent, spc, bpc,
  active, flushing, linked, memory, mine, theirs, halfChanged, unheard

S == INSTANCE SourceStream
P == INSTANCE PullPin
M == INSTANCE MsgThread
D == INSTANCE DynamicPin

workerVars == <<m_hThread, m_EventSend, m_EventComplete, m_dwParam, m_dwReturnVal, owed, tpc>>
srcVars    == <<srcActive, srcMemory, taken, cpc, srcFailed>>
pullVars   == <<m_pReader, pullState, m_tStart, m_tStop, m_tDuration, pullMemory, reader,
                readerFlushing, ppc, parg, job, kept, run, reached, sentEos, refused>>
msgVars    == <<m_ThreadQueue, m_lWaiting, m_hSem, mpc, posted, handled>>
dynamicVars ==
  <<m_BlockState, m_hUnblockOutputPinEvent, m_hNotifyCallerPinBlockedEvent,
    m_dwBlockCallerThreadID, m_dwNumOutstandingOutputPinUsers, m_hStopEvent, spc, bpc,
    active, flushing, linked, memory, mine, theirs, halfChanged, unheard>>
vars == <<part, workerVars, srcVars, pullVars, msgVars, dynamicVars>>

Init == /\ part \in {"source", "pull", "msg", "dynamic"}
        /\ S!SrcInit /\ P!PullInit /\ M!MsgInit /\ D!DynInit
        /\ part # "dynamic" => mine = 1

NextSource == part = "source" /\ S!SrcNext /\ UNCHANGED <<part, pullVars, msgVars, dynamicVars>>
NextPull   == part = "pull" /\ P!PullNext /\ UNCHANGED <<part, srcVars, msgVars, dynamicVars>>
NextMsg    == part = "msg" /\ M!MsgNext /\ UNCHANGED <<part, workerVars, srcVars, pullVars, dynamicVars>>
NextDynamic == part = "dynamic" /\ D!DynNext /\ UNCHANGED <<part, workerVars, srcVars, pullVars, msgVars>>

Next == NextSource \/ NextPull \/ NextMsg \/ NextDynamic

\* Threads run; downstream may keep its buffers for ever and the reader need never have its data.
\* What a part asks for is asked only of the behaviours about it; nothing of DynFairness is
\* enabled in the initial state of a pin.
Spec == /\ Init /\ [][Next]_vars
        /\ WF_<<workerVars, srcVars>>(part = "source" /\ S!ThreadStep)
        /\ WF_<<workerVars, srcVars>>(part = "source" /\ S!CallerStep)
        /\ WF_<<workerVars, pullVars>>(part = "pull" /\ P!PullThreadStep)
        /\ WF_<<workerVars, pullVars>>(part = "pull" /\ P!PullCallerStep)
        /\ WF_msgVars(part = "msg" /\ M!MsgThreadStep)
        /\ D!DynFairness

\* No request or message is lost between its sender and the thread that sleeps, and no thread
\* is left behind (CAMThread, CSourceStream::Inactive, CMsgThread).
RequestsArrive == /\ S!RequestNotLost /\ M!NoMissedMessage
                  /\ part = "source" => S!NoThreadWhenInactive

\* CPullPin: samples of this start only, the end means all of it, the reader not left flushing.
PullHolds      == part = "pull" => P!PullHolds

\* CDynamicOutputPin: no change under a streaming thread, memory and events as the state says.
BlockHolds     == D!BlockHolds

\* Active and Inactive, the calls of a pull pin and every message come to an end.
CallsReturn    == S!ActiveInactiveReturn /\ P!PullCallsReturn /\ M!MessagesHandled

\* No streaming thread waits for ever at a dynamic pin.
WaitersLeave   == D!WaitersLeave
=============================================================================
