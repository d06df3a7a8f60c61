----------------------------- MODULE Transform ------------------------------
(***************************************************************************)
(* CTransformFilter (baseclasses/transfrm.cpp) between an upstream filter  *)
(* that pushes samples and flushes and a renderer downstream; video says   *)
(* that it is a CVideoTransformFilter (vtrans.cpp), whose EndFlush waits   *)
(* for Receive.                                                            *)
(*                                                                         *)
(* Three threads: the streaming thread (spc) calls Receive and EndOfStream *)
(* and holds m_csReceive in them, the upstream's thread that seeks (fpc)   *)
(* calls BeginFlush and EndFlush under m_csFilter, and the application     *)
(* (apc) changes the state under m_csFilter and then m_csReceive.  The     *)
(* graph (external) stops and pauses the renderer before this filter, and  *)
(* does not stop either in the middle of a seek.                           *)
(***************************************************************************)
EXTENDS Integers

CONSTANTS cBuffers,    \* of the output pin's allocator
          MaxFlushes,  \* bound on the flushes
          Nobody       \* owner of a free lock

VARIABLES video, m_State, inConn, outConn,
          m_csFilter, m_csReceive,
          m_bFlushing, m_bEOSDelivered,
          outCommitted, held,     \* the output's buffers, and those the renderer holds
          dState, dFlushing,      \* the renderer
          spc, sgen,              \* the streaming thread, and the flush before its sample
          apc, fpc,
          gen,                    \* history: flushes that have ended
          eosSent                 \* history: ends of stream sent since Stop for want of an input

locks    == <<m_csFilter, m_csReceive>>
graph    == <<video, inConn, outConn>>
down     == <<dState, dFlushing>>
buffers  == <<outCommitted, held>>
eos      == <<m_bEOSDelivered, eosSent>>
trVars   == <<graph, m_State, locks, m_bFlushing, eos, buffers, down, spc, sgen,
              apc, fpc, gen>>

TrInit == /\ video \in BOOLEAN /\ m_State = "Stopped" /\ inConn = FALSE /\ outConn = FALSE
          /\ m_csFilter = Nobody /\ m_csReceive = Nobody
          /\ m_bFlushing = FALSE /\ m_bEOSDelivered = FALSE /\ eosSent = 0
          /\ outCommitted = FALSE /\ held = 0 /\ dState = "Stopped" /\ dFlushing = FALSE
          /\ spc = "idle" /\ sgen = 0 /\ apc = "idle" /\ fpc = "idle" /\ gen = 0

-----------------------------------------------------------------------------
(* The pins.                                                               *)

\* The input may be connected at any time, the output after it.
Connected(in, out) == (out /\ ~outConn) => in

Connect == /\ fpc = "idle" /\ m_State = "Stopped" /\ dState = "Stopped" /\ m_csFilter = Nobody
           /\ \E in, out \in BOOLEAN : /\ <<in, out>> # <<inConn, outConn>> /\ Connected(in, out)
                                       /\ inConn' = in /\ outConn' = out
           /\ UNCHANGED <<video, m_State, locks, m_bFlushing, eos, buffers, down, spc,
                          sgen, apc, fpc, gen>>

\* What the input pin says to a sample or an end of stream.
CheckStreaming == outConn /\ ~m_bFlushing /\ m_State # "Stopped"

-----------------------------------------------------------------------------
(* The streaming thread.                                                   *)

Stream(next) == spc' = next /\ UNCHANGED <<graph, m_State, m_csFilter, m_bFlushing, eos, down, apc, fpc, gen>>

\* Receive and its refusal; a sample comes from after the last flush.
Receive == /\ spc = "idle" /\ inConn /\ m_csReceive = Nobody
           /\ IF CheckStreaming THEN m_csReceive' = "stream" /\ sgen' = gen /\ Stream("init")
                                ELSE UNCHANGED <<m_csReceive, sgen>> /\ Stream("idle")
           /\ UNCHANGED buffers

\* A video filter may skip the frame before it has a buffer.
ShouldSkip == /\ spc = "init" /\ video /\ m_csReceive' = Nobody
              /\ Stream("idle") /\ UNCHANGED <<sgen, buffers>>

\* GetBuffer waits for a buffer; it fails once the allocator is decommitted.
InitializeOutputSample ==
  /\ spc = "init"
  /\ \/ ~outCommitted /\ m_csReceive' = Nobody /\ Stream("idle")
     \/ outCommitted /\ held < cBuffers /\ UNCHANGED m_csReceive /\ Stream("transform")
  /\ UNCHANGED <<sgen, buffers>>

\* Transform (the derived class): done, S_FALSE to drop the sample, or failed.
Transformed ==
  /\ spc = "transform"
  /\ \/ Stream("deliver") /\ UNCHANGED m_csReceive
     \/ Stream("idle") /\ m_csReceive' = Nobody
  /\ UNCHANGED <<sgen, buffers>>

\* The renderer keeps the sample unless it flushes or is stopped.
Deliver == /\ spc = "deliver" /\ Stream("idle") /\ m_csReceive' = Nobody
           /\ held' = IF dState # "Stopped" /\ ~dFlushing THEN held + 1 ELSE held
           /\ UNCHANGED <<sgen, outCommitted>>

\* The input's end of stream, passed on under the same lock.
EndOfStream == /\ spc = "idle" /\ inConn /\ m_csReceive = Nobody /\ CheckStreaming
               /\ m_csReceive' = "stream" /\ sgen' = gen /\ Stream("eos") /\ UNCHANGED buffers

DeliverEndOfStream == /\ spc = "eos" /\ Stream("idle") /\ m_csReceive' = Nobody /\ UNCHANGED <<sgen, buffers>>

StreamStep == DeliverEndOfStream \/ InitializeOutputSample \/ Transformed \/ Deliver

-----------------------------------------------------------------------------
(* Flushing by the upstream filter.                                        *)

Flusher(next) == /\ fpc' = next
                 /\ UNCHANGED <<graph, m_State, eos, spc, sgen, apc, dState, outCommitted>>

BothConnected == inConn /\ outConn

\* The upstream filter (external) is told to seek.
Seek == /\ fpc = "idle" /\ apc = "idle" /\ gen < MaxFlushes /\ BothConnected /\ Flusher("begin")
        /\ UNCHANGED <<m_bFlushing, dFlushing, held, locks, gen>>

\* Mutant: waits for the streaming thread.
BeginFlush_WithReceiveLock ==
  /\ fpc = "begin" /\ m_csFilter = Nobody /\ m_csReceive = Nobody
  /\ m_bFlushing' = TRUE /\ dFlushing' = TRUE /\ held' = 0 /\ Flusher("begun")
  /\ UNCHANGED <<locks, gen>>

\* The renderer lets go of its samples; nothing waits for the streaming thread.
BeginFlush == /\ fpc = "begin" /\ m_csFilter = Nobody
              /\ m_bFlushing' = TRUE /\ dFlushing' = TRUE /\ held' = 0 /\ Flusher("begun")
              /\ UNCHANGED <<locks, gen>>

\* The upstream of a filter that is no video filter lets its thread come back first.
EndFlush == /\ fpc = "begun" /\ m_csFilter = Nobody /\ (~video => spc = "idle")
            /\ m_csFilter' = "flush" /\ Flusher("synchronize")
            /\ UNCHANGED <<m_bFlushing, dFlushing, held, m_csReceive, gen>>

\* Mutant: does not wait for Receive.
Synchronize_NoLock == /\ fpc = "synchronize" /\ Flusher("reset")
                      /\ UNCHANGED <<m_bFlushing, dFlushing, held, m_csFilter, m_csReceive, gen>>

\* A video filter resets its statistics under m_csReceive.
Synchronize == /\ fpc = "synchronize" /\ (video => m_csReceive = Nobody) /\ Flusher("reset")
               /\ UNCHANGED <<m_bFlushing, dFlushing, held, m_csFilter, m_csReceive, gen>>

DeliverEndFlush == /\ fpc = "reset" /\ dFlushing' = FALSE /\ m_bFlushing' = FALSE
                   /\ gen' = gen + 1 /\ m_csFilter' = Nobody /\ Flusher("idle")
                   /\ UNCHANGED <<held, m_csReceive>>

-----------------------------------------------------------------------------
(* The application, and the graph that takes the renderer along.           *)

App(next) == apc' = next /\ UNCHANGED <<graph, spc, sgen, fpc, gen, held, down>>

\* The input pin becomes inactive before m_csReceive is asked for.
Stop ==
  /\ apc = "idle" /\ fpc = "idle" /\ m_csFilter = Nobody /\ m_State # "Stopped" /\ dState = "Stopped"
  /\ IF BothConnected
     THEN /\ m_bFlushing' = FALSE /\ m_csFilter' = "app" /\ App("stopping")
          /\ UNCHANGED <<m_State, eos, m_csReceive, outCommitted>>
     ELSE /\ m_State' = "Stopped" /\ m_bEOSDelivered' = FALSE /\ eosSent' = 0 /\ App("idle")
          /\ UNCHANGED <<m_bFlushing, locks, outCommitted>>

StopStreaming ==
  /\ apc = "stopping" /\ m_csReceive = Nobody
  /\ outCommitted' = FALSE /\ m_State' = "Stopped" /\ m_bEOSDelivered' = FALSE /\ eosSent' = 0
  /\ m_csFilter' = Nobody /\ App("idle")
  /\ UNCHANGED <<m_bFlushing, m_csReceive>>

\* Without an input the renderer is told at once that nothing will come.
Pause ==
  /\ apc = "idle" /\ m_csFilter = Nobody /\ m_State # "Paused" /\ dState # "Stopped"
  /\ IF m_State = "Stopped" /\ BothConnected
     THEN /\ m_csFilter' = "app" /\ App("starting")
          /\ UNCHANGED <<m_State, eos, m_csReceive, m_bFlushing, outCommitted>>
     ELSE /\ m_State' = "Paused" /\ App("idle")
          /\ m_bEOSDelivered' = (m_bEOSDelivered \/ ~inConn)
          /\ eosSent' = IF ~inConn /\ ~m_bEOSDelivered /\ outConn THEN eosSent + 1 ELSE eosSent
          /\ UNCHANGED <<locks, m_bFlushing, outCommitted>>

StartStreaming ==
  /\ apc = "starting" /\ m_csReceive = Nobody
  /\ outCommitted' = TRUE /\ m_State' = "Paused"
  /\ m_csFilter' = Nobody /\ App("idle")
  /\ UNCHANGED <<m_bFlushing, m_csReceive, eos>>

\* CBaseFilter::Run, which pauses a stopped filter first.
Run == /\ apc = "idle" /\ m_csFilter = Nobody /\ m_State = "Paused" /\ m_State' = "Running" /\ App("idle")
       /\ UNCHANGED <<locks, m_bFlushing, eos, outCommitted>>

Renderer == UNCHANGED <<graph, m_State, locks, m_bFlushing, eos, spc, sgen, apc, fpc,
                        gen, dFlushing>>

\* Its stop decommits the allocator.
DownChanges == /\ \/ /\ dState # "Stopped" /\ fpc = "idle" /\ dState' = "Stopped"
                     /\ held' = 0 /\ outCommitted' = FALSE
                  \/ /\ dState = "Stopped" /\ m_State = "Stopped" /\ dState' = "Paused"
                     /\ UNCHANGED buffers
                  \/ dState = "Paused" /\ dState' = "Running" /\ UNCHANGED buffers
               /\ Renderer

Consume == held > 0 /\ dState = "Running" /\ held' = held - 1 /\ UNCHANGED <<outCommitted, dState>> /\ Renderer

TrNext == \/ Connect \/ Receive \/ EndOfStream \/ ShouldSkip \/ StreamStep
          \/ Seek \/ BeginFlush \/ EndFlush \/ Synchronize \/ DeliverEndFlush
          \/ Stop \/ StopStreaming \/ Pause \/ StartStreaming \/ Run
          \/ DownChanges \/ Consume

\* Threads that can go on do, and a lock that is free again and again is had.
TrFairness == /\ WF_trVars(StreamStep) /\ SF_trVars(StopStreaming) /\ SF_trVars(StartStreaming)
              /\ SF_trVars(BeginFlush) /\ SF_trVars(EndFlush) /\ SF_trVars(Synchronize) /\ WF_trVars(DeliverEndFlush)

-----------------------------------------------------------------------------
(* Properties.                                                             *)

\* No sample and no end of stream that came in before a flush reaches the renderer after it: a sample being
\* transformed is refused by the renderer, or EndFlush has waited for it.
NothingBeforeFlush == spc \in {"deliver", "eos"} /\ ~dFlushing /\ m_State # "Stopped" => sgen = gen

\* Nobody waits for ever: neither the seeking thread, whose flush frees a Receive that
\* waits for a buffer, nor Stop and Pause, which wait for Receive under m_csFilter.
FlushAndStopReturn == /\ (fpc # "idle") ~> (fpc = "idle")
                      /\ (apc # "idle") ~> (apc = "idle")

\* A renderer whose transform filter has no input is told so, once per run.
EosWithoutInput == m_State # "Stopped" /\ ~inConn /\ outConn => eosSent = 1

\* What the renderer gets: nothing from before a flush, and an end of stream where there is no input.
StreamHolds == NothingBeforeFlush /\ EosWithoutInput
=============================================================================
