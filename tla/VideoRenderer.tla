---------------------------- MODULE VideoRenderer ----------------------------
(***************************************************************************)
(* CBaseVideoRenderer (baseclasses/renbase.cpp): when a frame is drawn, or *)
(* that it is dropped, decided from sliding averages of what drawing and   *)
(* waiting took.  Stream time is counted in ticks of about 10 ms, scaled   *)
(* so that a second is a few frames.                                       *)
(***************************************************************************)
EXTENDS Integers, FiniteSetsExt

CONSTANTS Durations,    \* of the frames
          Second,       \* UNITS
          AlmostSecond, \* 9000000
          Bias,         \* 80000: 8 milliseconds
          Delays,       \* how much time passes at once
          MaxTime       \* bound on stream time

VARIABLES now, streaming,
          m_trLastDraw, m_trRenderAvg, m_trRenderLast, m_trFrameAvg, m_trDuration,
          m_trWaitAvg, m_trEarliness,
          m_nNormal,    \* -1: just dropped a frame; otherwise 0
          wpc, stamp,   \* the streaming thread and the frame it has
          due,          \* when it is to be drawn, while it waits
          lastShown,    \* when a frame was drawn (m_tRenderStart) or streaming began
          shown,        \* history: a frame was drawn in this run
          lost,         \* history: one was given up after m_trLastDraw had been set for it
          hung, unseen  \* history: of the frames dropped on a hung display, whether one was
                        \* lost since the last drawing; one was dropped as the first

averages   == <<m_trLastDraw, m_trRenderAvg, m_trRenderLast, m_trFrameAvg, m_trDuration,
                m_trWaitAvg, m_trEarliness, m_nNormal>>
drawVars   == <<now, streaming, averages, wpc, stamp, due, lastShown, shown, lost, hung, unseen>>

AVGPERIOD == 4
Avg(obs, avg) == IF obs + (AVGPERIOD - 1) * avg < 0 THEN -((-(obs + (AVGPERIOD - 1) * avg)) \div AVGPERIOD)
                 ELSE (obs + (AVGPERIOD - 1) * avg) \div AVGPERIOD

\* ResetStreamingTimes, -1000 being a fraction of a tick.
Reset == /\ m_trLastDraw' = 0 /\ m_trRenderAvg' = 0 /\ m_trRenderLast' = 0 /\ m_trFrameAvg' = -1
         /\ m_trDuration' = 0 /\ m_trWaitAvg' = 0 /\ m_trEarliness' = 0 /\ m_nNormal' = 0

DrawInit == /\ m_trLastDraw = 0 /\ m_trRenderAvg = 0 /\ m_trRenderLast = 0 /\ m_trFrameAvg = -1
            /\ m_trDuration = 0 /\ m_trWaitAvg = 0 /\ m_trEarliness = 0 /\ m_nNormal = 0
            /\ now = 0 /\ streaming = FALSE /\ wpc = "idle" /\ stamp = 0 /\ due = 0
            /\ lastShown = 0 /\ shown = FALSE /\ lost = FALSE /\ hung = {} /\ unseen = FALSE

Tick == /\ streaming /\ \E d \in Delays : now + d <= MaxTime /\ now' = now + d
        /\ UNCHANGED <<streaming, averages, wpc, stamp, due, lastShown, shown, lost, hung, unseen>>

\* A run begins anew or goes on after a pause, with the frame that waited then.
Resumes == \/ now' = 0 /\ stamp' = 0 /\ lastShown' = 0
           \/ /\ \E d \in Durations \cup {0} : d <= stamp /\ stamp' = stamp - d
              /\ UNCHANGED <<now, lastShown>>

\* Mutant: the times of the last run are kept.
OnStartStreaming_KeepTimes ==
  /\ ~streaming /\ streaming' = TRUE /\ Resumes /\ shown' = FALSE /\ lost' = FALSE
  /\ UNCHANGED <<averages, wpc, due, hung, unseen>>

\* Run.
OnStartStreaming == /\ ~streaming /\ streaming' = TRUE /\ Reset
                    /\ Resumes /\ shown' = FALSE /\ lost' = FALSE
                    /\ UNCHANGED <<wpc, due, hung, unseen>>

\* No frame is drawn until Run, and a frame that waits has to be scheduled again.
OnStopStreaming == /\ streaming /\ wpc # "drawing" /\ streaming' = FALSE /\ wpc' = "idle" /\ due' = 0
                   /\ UNCHANGED <<now, averages, stamp, lastShown, shown, lost, hung, unseen>>

\* A frame that waits, or that nobody has begun to draw, is given up.  The stamps go on or begin
\* anew, before Run or without it.
BeginFlush == /\ streaming /\ wpc # "drawing" /\ wpc' = "idle" /\ due' = 0
              /\ lost' = (lost \/ wpc # "idle")
              /\ stamp' \in {0, stamp}
              /\ UNCHANGED <<now, streaming, averages, lastShown, shown, hung, unseen>>

-----------------------------------------------------------------------------
NewDuration(d) == \/ d > m_trDuration + (m_trDuration \div 32)
                  \/ d < m_trDuration - (m_trDuration \div 32)

\* The average frame time starts again from a new duration.
FrameAvg(d) == IF NewDuration(d) THEN d ELSE m_trFrameAvg

\* Earliness slides back from slow to fast machine mode.
Earliness(late, justDropped) ==
  CASE late > 0 -> 0
    [] late <= 0 /\ (late >= m_trEarliness \/ justDropped) -> late
    [] OTHER -> m_trEarliness + ((-m_trEarliness) \div 8)

\* Dropping the frame would not help, it is not too late, there was time to wait until now,
\* or nothing has been drawn for a second.
Draws(late, d, supplier) == \/ 3 * m_trRenderAvg <= FrameAvg(d)
                            \/ IF supplier THEN late <= 4 * d ELSE 2 * late < d
                            \/ m_trWaitAvg > Bias
                            \/ now - m_trLastDraw > Second

\* Slow machine mode: to catch up, or since frames take longer than they last.
PlayASAP(late, d, justDropped) == /\ late >= -AlmostSecond
                                  /\ \/ justDropped
                                     \/ FrameAvg(d) > d + (d \div 16) /\ late > -10 * d

DrawNow(late, d, early) == /\ m_nNormal' = 0 /\ m_trWaitAvg' = Avg(0, m_trWaitAvg)
                           /\ m_trFrameAvg' = Avg(Min({now - m_trLastDraw, Second}), FrameAvg(d))
                           /\ m_trLastDraw' = now /\ m_trEarliness' = Min({early, late})
                           /\ wpc' = "draw" /\ UNCHANGED <<due, lost>>

\* The clock is to signal when the frame is due.  If AdviseTime fails, it is not drawn.
Advise(time) == \/ wpc' = "wait" /\ due' = time /\ UNCHANGED lost
                \/ wpc' = "idle" /\ due' = 0 /\ lost' = TRUE

\* At its time, or a little earlier while earliness slides back.
DrawInTime(start, late, d, early) ==
  LET time == start + Max({early, -d})
  IN  /\ m_nNormal' = 0 /\ m_trFrameAvg' = d /\ m_trEarliness' = early
      /\ m_trWaitAvg' = Avg(Max({-late, 0}), m_trWaitAvg)
      /\ m_trLastDraw' = IF late >= 0 THEN now ELSE time
      /\ IF late >= 0 THEN wpc' = "draw" /\ due' = 0 /\ UNCHANGED lost ELSE Advise(time)

Drop(late, d, early) == /\ m_nNormal' = -1 /\ m_trWaitAvg' = Avg(Max({-late, 0}), m_trWaitAvg)
                        /\ m_trFrameAvg' = FrameAvg(d) /\ m_trEarliness' = early
                        /\ UNCHANGED <<m_trLastDraw, due, wpc, lost>>

\* ScheduleSample of the next frame, of which upstream may have skipped some.  The supplier's
\* answer to the quality message says who deals with lateness.
ShouldDrawSampleNow ==
  /\ streaming /\ wpc = "idle"
  /\ \E d \in Durations, supplier, discontinuity \in BOOLEAN :
       LET start == IF stamp >= Bias THEN stamp - Bias ELSE stamp
           late  == now - start
           justDropped == (supplier /\ discontinuity) \/ m_nNormal = -1
           early == Earliness(late, justDropped)
       IN /\ stamp + d <= MaxTime /\ stamp' = stamp + d
          /\ m_trDuration' = IF NewDuration(d) THEN d ELSE m_trDuration
          /\ IF ~Draws(late, d, supplier) THEN Drop(late, d, early)
             ELSE IF PlayASAP(late, d, justDropped) THEN DrawNow(late, d, early)
             ELSE DrawInTime(start, late, d, early)
          /\ hung' = hung \cup (IF ~Draws(late, d, supplier) /\ now - lastShown > Second THEN {lost} ELSE {})
          /\ unseen' = (unseen \/ (~Draws(late, d, supplier) /\ ~shown /\ ~lost))
  /\ UNCHANGED <<now, streaming, m_trRenderAvg, m_trRenderLast, lastShown, shown>>

\* The wait is over when the clock signals.
OnWaitEnd == /\ wpc = "wait" /\ now >= due /\ wpc' = "draw" /\ due' = 0
             /\ UNCHANGED <<now, streaming, averages, stamp, lastShown, shown, lost, hung, unseen>>

OnRenderStart == /\ wpc = "draw" /\ wpc' = "drawing"
                 /\ lastShown' = now /\ shown' = TRUE /\ lost' = FALSE
                 /\ UNCHANGED <<now, streaming, averages, stamp, due, hung, unseen>>

\* A drawing that took unusually long is not counted.
OnRenderEnd == /\ wpc = "drawing" /\ wpc' = "idle"
               /\ LET tr == now - lastShown
                  IN /\ m_trRenderLast' = tr
                     /\ m_trRenderAvg' = IF tr < 2 * m_trRenderAvg \/ tr < 2 * m_trRenderLast
                                         THEN Avg(tr, m_trRenderAvg) ELSE m_trRenderAvg
               /\ UNCHANGED <<now, streaming, m_trLastDraw, m_trFrameAvg, m_trDuration, m_trWaitAvg,
                              m_trEarliness, m_nNormal, stamp, due, lastShown, shown, lost, hung, unseen>>

\* A mode switch: the decoder drew straight to the surface.
OnDirectRender == /\ wpc = "draw" /\ wpc' = "idle"
                  /\ lastShown' = now /\ shown' = TRUE /\ lost' = FALSE
                  /\ m_trRenderAvg' = 0 /\ m_trRenderLast' = Second \div 2
                  /\ UNCHANGED <<now, streaming, m_trLastDraw, m_trFrameAvg, m_trDuration, m_trWaitAvg,
                                 m_trEarliness, m_nNormal, stamp, due, hung, unseen>>

DrawNext == \/ Tick \/ OnStartStreaming \/ OnStopStreaming \/ BeginFlush \/ ShouldDrawSampleNow
            \/ OnWaitEnd \/ OnRenderStart \/ OnRenderEnd \/ OnDirectRender

-----------------------------------------------------------------------------
\* CBaseVideoRenderer::ShouldDrawSampleNow: after a second without an image "we will update the
\* display, which stops the video looking hung", "regardless of how late this media sample is":
\* no frame is dropped more than a second after the last was really drawn, unless a flush or the
\* clock took a frame away that was counted as drawn.
NeverHung == FALSE \notin hung

\* ResetStreamingTimes: "The first frame will definitely be drawn": no frame is dropped before
\* one was drawn, or given up, in this run, however late it comes (of a frame that has a duration;
\* the last draw is put only 0.1 ms before the start, which is no reason to draw one without).
FirstFrameDrawn == ~unseen

\* The averages that decide about a frame, whatever they have become, let the first frame of a
\* run through and never all frames fall.
FramesDrawn == FirstFrameDrawn /\ NeverHung
=============================================================================
