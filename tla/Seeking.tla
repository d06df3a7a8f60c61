------------------------------- MODULE Seeking -------------------------------
(***************************************************************************)
(* Seeking (baseclasses/ctlutil.cpp): a call at the renderer is passed by  *)
(* CPosPassThru over the connected pins, filter by filter, to the source's *)
(* CSourceSeeking; CRendererPosPassThru answers the current position from  *)
(* the times of the samples the renderer has seen.                         *)
(*                                                                         *)
(* What matters is who waits for whom.  An application's SetPositions      *)
(* makes the source flush the renderer; the renderer's end of stream, from *)
(* the streaming or the timer's thread, asks the source for its stop       *)
(* position under m_RendererLock; a query of the position asks the source  *)
(* under m_PositionLock.                                                   *)
(***************************************************************************)
EXTENDS Integers

CONSTANTS Apps,     \* threads that make seeking calls
          Hops,     \* pass-through filters between renderer and source
          MaxRuns,  \* bound on the times the renderer's position is reset
          Nobody    \* owner of a free lock

VARIABLES linked,                          \* the input pins that are connected
          m_pLock,
          unseen,                          \* of m_rtStart ("start"), m_rtStop, m_dRateSeeking: those
                                           \* with a value the source has not taken over
          m_bReset, m_StartMedia,          \* the time stands for the run it was taken in
          m_PositionLock, m_RendererLock,
          callpc, todo,                    \* a caller and the changes it has still to make
          epc, llStop,                     \* the end of stream's thread and local
          mediaRun                         \* history: number of resets

media      == <<m_bReset, m_StartMedia, mediaRun>>
rendering  == <<media, epc, llStop, m_RendererLock>>
seekVars   == <<linked, m_pLock, unseen, media, m_PositionLock, m_RendererLock, callpc, todo,
                epc, llStop>>

SeekInit == /\ linked = 1..Hops
            /\ m_pLock = Nobody /\ unseen = {}
            /\ m_bReset = TRUE /\ m_StartMedia = 0 /\ mediaRun = 0
            /\ m_PositionLock = Nobody /\ m_RendererLock = Nobody
            /\ callpc = [a \in Apps |-> "idle"] /\ todo = [a \in Apps |-> {}]
            /\ epc = "idle" /\ llStop = 0

\* Every pass-through on the way finds its peer: ConnectedTo, then QueryInterface.
GetPeerSeeking == linked = 1..Hops

\* The graph (external) connects and disconnects pins.
Relink == /\ \E i \in 1..Hops : linked' = IF i \in linked THEN linked \ {i} ELSE linked \cup {i}
          /\ UNCHANGED <<m_pLock, unseen, media, m_PositionLock, m_RendererLock, callpc, todo,
                         epc, llStop>>

Goes(a, pc) == callpc' = [callpc EXCEPT ![a] = pc]

-----------------------------------------------------------------------------
(* Calls that change the source.                                           *)

\* What the source is told of.
Changes(sb, eb) == (IF eb # "none" THEN {"stop"} ELSE {}) \cup (IF sb # "none" THEN {"start"} ELSE {})

\* Assigns under the source's lock.  An incremental start is refused.
SetPositions(a) ==
  /\ callpc[a] = "idle" /\ GetPeerSeeking
  /\ \E sb \in {"none", "absolute", "relative"}, eb \in {"none", "absolute", "incremental", "relative"} :
       /\ sb # "none" \/ eb # "none"
       /\ m_pLock = Nobody /\ m_pLock' = a
       /\ unseen' = unseen \cup (IF sb # "none" THEN {"start"} ELSE {}) \cup (IF eb # "none" THEN {"stop"} ELSE {})
       /\ todo' = [todo EXCEPT ![a] = Changes(sb, eb)]
  /\ Goes(a, "locked")
  /\ UNCHANGED <<linked, m_PositionLock, rendering>>

\* A rate of zero is refused on the way.
SetRate(a) ==
  /\ callpc[a] = "idle" /\ GetPeerSeeking
  /\ m_pLock = Nobody /\ m_pLock' = a
  /\ unseen' = unseen \cup {"rate"} /\ todo' = [todo EXCEPT ![a] = {"rate"}]
  /\ Goes(a, "locked")
  /\ UNCHANGED <<linked, m_PositionLock, rendering>>

\* Mutant: the lock is kept until the source has made the change.
Unlock_AfterTheChange(a) ==
  /\ callpc[a] = "locked" /\ Goes(a, "change")
  /\ UNCHANGED <<linked, m_pLock, unseen, m_PositionLock, rendering, todo>>

\* The end of the autolock's scope, before the source is told.
Unlock(a) ==
  /\ callpc[a] = "locked" /\ m_pLock' = Nobody /\ Goes(a, "change")
  /\ UNCHANGED <<linked, unseen, m_PositionLock, rendering, todo>>

\* The stop first: its result is lost if the start changes too.
NextChange(a) == IF "stop" \in todo[a] THEN "stop" ELSE IF "start" \in todo[a] THEN "start" ELSE "rate"

\* ChangeStop, ChangeStart and ChangeRate (external): the source takes the
\* new value over and flushes the filters downstream.
Change(a) ==
  /\ callpc[a] = "change" /\ todo[a] # {}
  /\ unseen' = unseen \ {NextChange(a)}
  /\ todo' = [todo EXCEPT ![a] = @ \ {NextChange(a)}]
  /\ Goes(a, IF GetPeerSeeking THEN "begin" ELSE "change")
  /\ UNCHANGED <<linked, m_pLock, m_PositionLock, rendering>>

\* CRendererInputPin::BeginFlush.
BeginFlush(a) == /\ callpc[a] = "begin" /\ m_RendererLock = Nobody /\ Goes(a, "end")
                 /\ UNCHANGED <<linked, m_pLock, unseen, m_PositionLock, rendering, todo>>

ResetMediaTime == m_bReset' = TRUE /\ m_StartMedia' = 0 /\ mediaRun' = mediaRun + 1

\* CRendererInputPin::EndFlush.
EndFlush(a) == /\ callpc[a] = "end" /\ m_RendererLock = Nobody /\ m_PositionLock = Nobody
               /\ mediaRun < MaxRuns /\ ResetMediaTime /\ Goes(a, "change")
               /\ UNCHANGED <<linked, m_pLock, unseen, m_PositionLock, m_RendererLock, todo,
                              epc, llStop>>

Return(a) == /\ callpc[a] = "change" /\ todo[a] = {} /\ Goes(a, "idle")
             /\ UNCHANGED <<linked, m_pLock, unseen, m_PositionLock, rendering, todo>>

-----------------------------------------------------------------------------
(* Calls that ask.                                                         *)

Ask(a, what) == /\ callpc[a] = "idle" /\ GetPeerSeeking /\ Goes(a, what)
                /\ UNCHANGED <<linked, m_pLock, unseen, m_PositionLock, rendering, todo>>

\* Formats and capabilities, which the source answers without its lock.
AskFormat(a) == Ask(a, "ask")

\* Stop position, duration, available range and rate, under the source's lock.
AskValue(a) == Ask(a, "askLocked")

\* The calls of IMediaPosition.
AskPosition(a) == Ask(a, "ask")

Answer(a) == /\ callpc[a] \in {"ask", "askLocked"}
             /\ callpc[a] = "askLocked" => m_pLock = Nobody
             /\ Goes(a, "idle")
             /\ UNCHANGED <<linked, m_pLock, unseen, m_PositionLock, rendering, todo>>

\* The renderer's own time, converted by the source under m_PositionLock; if
\* there is none the source is asked, which has no answer.
GetMediaTime(a) == /\ callpc[a] = "idle" /\ m_PositionLock = Nobody
                   /\ IF m_bReset THEN UNCHANGED m_PositionLock /\ GetPeerSeeking /\ Goes(a, "ask")
                                  ELSE m_PositionLock' = a /\ Goes(a, "convert")
                   /\ UNCHANGED <<linked, m_pLock, unseen, rendering, todo>>

Converted(a) == /\ callpc[a] = "convert" /\ m_PositionLock' = Nobody /\ Goes(a, "idle")
                /\ UNCHANGED <<linked, m_pLock, unseen, rendering, todo>>

-----------------------------------------------------------------------------
(* The renderer.                                                           *)

\* Receive registers the time of a sample that has one, under m_RendererLock.
RegisterMediaTime == /\ m_RendererLock = Nobody /\ m_PositionLock = Nobody
                     /\ m_StartMedia' = mediaRun /\ m_bReset' = FALSE
                     /\ UNCHANGED <<linked, m_pLock, unseen, m_PositionLock, m_RendererLock,
                                    callpc, todo, epc, llStop, mediaRun>>

\* Stop resets the position without m_RendererLock.
Inactive == /\ m_PositionLock = Nobody /\ mediaRun < MaxRuns /\ ResetMediaTime
            /\ UNCHANGED <<linked, m_pLock, unseen, m_PositionLock, m_RendererLock, callpc, todo,
                           epc, llStop>>

\* NotifyEndOfStream, which holds m_RendererLock, looks at m_bReset ...
EOS == /\ epc = "idle" /\ m_RendererLock = Nobody /\ ~m_bReset /\ GetPeerSeeking
       /\ m_RendererLock' = "eos" /\ epc' = "ask"
       /\ UNCHANGED <<linked, m_pLock, unseen, media, m_PositionLock, callpc, todo, llStop>>

\* ... asks for the stop position ...
GetStopPosition == /\ epc = "ask" /\ m_pLock = Nobody
                   /\ llStop' = mediaRun /\ epc' = "set"
                   /\ UNCHANGED <<linked, m_pLock, unseen, media, m_PositionLock,
                                  m_RendererLock, callpc, todo>>

\* Mutant: the position is taken to be valid, whatever has reset it.
SetToStop_AndValid == /\ epc = "set" /\ m_PositionLock = Nobody
                      /\ m_StartMedia' = llStop /\ m_bReset' = FALSE /\ epc' = "idle"
                      /\ m_RendererLock' = Nobody
                      /\ UNCHANGED <<linked, m_pLock, unseen, m_PositionLock, callpc, todo, llStop,
                                     mediaRun>>

\* ... and takes it as the position.
SetToStop == /\ epc = "set" /\ m_PositionLock = Nobody
             /\ m_StartMedia' = llStop /\ epc' = "idle" /\ m_RendererLock' = Nobody
             /\ UNCHANGED <<linked, m_pLock, unseen, m_PositionLock, callpc, todo, llStop,
                            m_bReset, mediaRun>>

SeekNext == \/ Relink \/ RegisterMediaTime \/ Inactive \/ EOS \/ GetStopPosition \/ SetToStop
            \/ \E a \in Apps : \/ SetPositions(a) \/ SetRate(a) \/ Unlock(a) \/ Change(a)
                               \/ BeginFlush(a) \/ EndFlush(a) \/ Return(a)
                               \/ AskFormat(a) \/ AskValue(a) \/ AskPosition(a) \/ Answer(a)
                               \/ GetMediaTime(a) \/ Converted(a)

\* A thread that can go on does; a critical section is granted to one of the
\* threads that wait again and again.
SeekFairness == /\ SF_seekVars(GetStopPosition) /\ SF_seekVars(SetToStop)
                /\ \A a \in Apps : WF_seekVars(Unlock(a) \/ Converted(a))

-----------------------------------------------------------------------------
(* Properties.                                                             *)

\* However the calls of several threads mix, once they have returned the source
\* works with the positions last set: each call tells the source after it has
\* assigned, and the source reads the members, not the caller's arguments.
AppliedLatest == (\A a \in Apps : callpc[a] = "idle") => unseen = {}

\* The position the renderer reports comes from a sample or an end of stream
\* seen after the last reset, although the end of stream is found out in three
\* steps and Stop may reset the position between them.
PositionOfThisRun == ~m_bReset => m_StartMedia = mediaRun

\* No circle of waiting: SetPositions gives its lock back before the source
\* flushes the renderer, whose end of stream waits for that lock.
EosEnds == epc = "ask" ~> epc = "idle"

\* Positions set by several threads, and reported by the renderer, are the latest.
PositionHolds == AppliedLatest /\ PositionOfThisRun
=============================================================================
