--------------------------- MODULE StreamControl ----------------------------
(***************************************************************************)
(* CBaseStreamControl (baseclasses/strmctl.cpp): an application tells a    *)
(* pin from when to when its stream flows.                                 *)
(*                                                                         *)
(* The application's calls, the filter's notices and CheckSampleTimes run  *)
(* under m_CritSec.  The streaming thread's CheckStreamState reads the     *)
(* flags without it: its steps are "look" (is there anything to wait for), *)
(* "check" (CheckSampleTimes), "after" (what to do about a discarded       *)
(* sample), and the wait with ("timed") or without ("forever") a timeout.  *)
(* Times are 0..MAX_TIME - 1; MAX_TIME stands for none.                    *)
(***************************************************************************)
EXTENDS Integers

CONSTANTS MAX_TIME, Samples  \* pairs of times, the stop after the start

VARIABLES m_StreamState, m_StreamStateOnStop, m_tStartTime, m_tStopTime,
          m_dwStartCookie, m_dwStopCookie, m_bStopSendExtra, m_bStopExtraSent,
          m_bIsFlushing, m_FilterState,
          m_StreamEvent,   \* auto reset
          wpc, sample,     \* the streaming thread and its sample
          extras,          \* history: extra samples sent for the last StopAt
          silent           \* history: a cookie was dropped without a notice or a new request

streamCtl  == <<m_StreamState, m_StreamStateOnStop, m_tStartTime, m_tStopTime, m_dwStartCookie,
                m_dwStopCookie>>
extraVars  == <<m_bStopSendExtra, m_bStopExtraSent, extras>>
ctlVars    == <<streamCtl, extraVars, m_bIsFlushing, m_FilterState, m_StreamEvent, wpc, sample, silent>>

\* What is known under m_CritSec, as one value; `sent' holds the notices of one call.
Ctl == [state |-> m_StreamState, onStop |-> m_StreamStateOnStop, start |-> m_tStartTime,
        stop |-> m_tStopTime, startCookie |-> m_dwStartCookie, stopCookie |-> m_dwStopCookie, sent |-> {}]

CtlInit == /\ m_StreamState = "FLOWING" /\ m_StreamStateOnStop = "FLOWING"
           /\ m_tStartTime = MAX_TIME /\ m_tStopTime = MAX_TIME
           /\ m_dwStartCookie = FALSE /\ m_dwStopCookie = FALSE
           /\ m_bStopSendExtra = FALSE /\ m_bStopExtraSent = FALSE /\ extras = 0
           /\ m_bIsFlushing = FALSE /\ m_FilterState = "Stopped" /\ m_StreamEvent = FALSE
           /\ wpc = "idle" /\ sample = <<0, 1>> /\ silent = FALSE

Became(c) == /\ m_StreamState' = c.state /\ m_StreamStateOnStop' = c.onStop
             /\ m_tStartTime' = c.start /\ m_tStopTime' = c.stop
             /\ m_dwStartCookie' = c.startCookie /\ m_dwStopCookie' = c.stopCookie
             /\ silent' = \/ silent
                          \/ m_dwStartCookie /\ ~c.startCookie /\ "started" \notin c.sent
                          \/ m_dwStopCookie /\ ~c.stopCookie /\ "stopped" \notin c.sent

CancelStop(c) == [c EXCEPT !.stop = MAX_TIME, !.stopCookie = FALSE, !.onStop = "FLOWING"]

CancelStart(c) == [c EXCEPT !.start = MAX_TIME, !.startCookie = FALSE]

\* With the notice EC_STREAM_CONTROL_STOPPED if there is a cookie.
ExecuteStop(c) ==
  CancelStop([c EXCEPT !.state = c.onStop, !.sent = @ \cup (IF c.stopCookie THEN {"stopped"} ELSE {})])

ExecuteStart(c) ==
  CancelStart([c EXCEPT !.state = "FLOWING", !.sent = @ \cup (IF c.startCookie THEN {"started"} ELSE {})])

-----------------------------------------------------------------------------
(* The application.                                                        *)

StopAt(t, extra, cookie) ==
  /\ m_bStopExtraSent' = FALSE /\ extras' = 0
  /\ m_bStopSendExtra' = (extra /\ t # MAX_TIME)
  /\ LET stopped == m_FilterState = "Stopped"
     IN IF t = MAX_TIME
        THEN /\ Became([CancelStop(Ctl) EXCEPT
                          !.state = IF stopped /\ m_tStartTime < MAX_TIME THEN "DISCARDING" ELSE @,
                          !.sent = {"stopped"}])
             /\ UNCHANGED m_StreamEvent
        ELSE /\ Became([Ctl EXCEPT !.state = IF stopped /\ m_tStartTime > t THEN "FLOWING" ELSE @,
                                   !.stop = t, !.stopCookie = cookie, !.onStop = "DISCARDING",
                                   !.sent = {"stopped"}])
             /\ m_StreamEvent' = TRUE
  /\ UNCHANGED <<m_bIsFlushing, m_FilterState, wpc, sample>>

StopNow ==
  /\ m_bStopExtraSent' = FALSE /\ extras' = 0 /\ m_bStopSendExtra' = FALSE
  /\ Became([CancelStop(Ctl) EXCEPT !.state = "DISCARDING", !.sent = {"stopped"}])
  /\ m_StreamEvent' = TRUE
  /\ UNCHANGED <<m_bIsFlushing, m_FilterState, wpc, sample>>

StartAt(t, cookie) ==
  /\ LET stopped == m_FilterState = "Stopped"
     IN IF t = MAX_TIME
        THEN /\ Became([CancelStart(Ctl) EXCEPT
                          !.state = IF stopped /\ m_tStopTime < MAX_TIME THEN "FLOWING" ELSE @,
                          !.sent = {"started"}])
             /\ UNCHANGED m_StreamEvent
        ELSE /\ Became([Ctl EXCEPT !.state = IF stopped /\ m_tStopTime >= t THEN "DISCARDING" ELSE @,
                                   !.start = t, !.startCookie = cookie, !.sent = {"started"}])
             /\ m_StreamEvent' = TRUE
  /\ UNCHANGED <<extraVars, m_bIsFlushing, m_FilterState, wpc, sample>>

StartNow ==
  /\ Became([CancelStart(Ctl) EXCEPT !.state = "FLOWING", !.sent = {"started"}])
  /\ m_StreamEvent' = TRUE
  /\ UNCHANGED <<extraVars, m_bIsFlushing, m_FilterState, wpc, sample>>

-----------------------------------------------------------------------------
(* The filter.                                                             *)

\* Whatever is pending is carried out in its order when the filter stops.
Settled(c) ==
  CASE c.start # MAX_TIME /\ c.stop = MAX_TIME -> ExecuteStart(c)
    [] c.start = MAX_TIME /\ c.stop # MAX_TIME -> ExecuteStop(c)
    [] c.start # MAX_TIME /\ c.stop # MAX_TIME ->
         IF c.start <= c.stop THEN ExecuteStop(ExecuteStart(c)) ELSE ExecuteStart(ExecuteStop(c))
    [] OTHER -> c

\* Mutant: the streaming thread is told of a stop only.
NotifyFilterState_Quiet(new) ==
  /\ m_FilterState # new
  /\ m_FilterState' = new
  /\ IF new = "Stopped" THEN Became([Settled(Ctl) EXCEPT !.state = "FLOWING"])
                        ELSE UNCHANGED <<streamCtl, silent>>
  /\ m_StreamEvent' = (m_StreamEvent \/ new = "Stopped")
  /\ UNCHANGED <<extraVars, m_bIsFlushing, wpc, sample>>

NotifyFilterState(new) ==
  /\ m_FilterState # new
  /\ m_FilterState' = new
  /\ IF new = "Stopped" THEN Became([Settled(Ctl) EXCEPT !.state = "FLOWING"])
                        ELSE UNCHANGED <<streamCtl, silent>>
  /\ m_StreamEvent' = TRUE
  /\ UNCHANGED <<extraVars, m_bIsFlushing, wpc, sample>>

Flushing(inProgress) ==
  /\ m_bIsFlushing' = inProgress /\ m_StreamEvent' = TRUE
  /\ UNCHANGED <<streamCtl, extraVars, m_FilterState, wpc, sample, silent>>

-----------------------------------------------------------------------------
(* The streaming thread.                                                   *)

\* For a sample from a to b.
CheckSampleTimes(c, a, b) ==
  CASE c.stop >= a /\ c.start >= b -> c
    [] c.stop >= a /\ c.start < b  -> IF c.stop < c.start THEN ExecuteStart(ExecuteStop(c)) ELSE ExecuteStart(c)
    [] c.stop < a /\ c.start >= b  -> ExecuteStop(c)
    [] c.stop < a /\ c.start < b   -> IF c.start <= c.stop THEN ExecuteStop(ExecuteStart(c))
                                                         ELSE ExecuteStart(ExecuteStop(c))

Unlocked == <<streamCtl, extraVars, m_bIsFlushing, m_FilterState, silent>>

\* CheckStreamState is called.
Receive ==
  /\ wpc = "idle" /\ m_FilterState # "Stopped"
  /\ sample' \in Samples /\ wpc' = "look"
  /\ UNCHANGED <<Unlocked, m_StreamEvent>>

\* Nothing is waited for in a flush or when stopped, nor for a sample without times.
Look ==
  /\ wpc = "look"
  /\ wpc' \in IF m_bIsFlushing \/ m_FilterState = "Stopped" THEN {"idle"} ELSE {"check", "idle"}
  /\ UNCHANGED <<Unlocked, m_StreamEvent, sample>>

Check ==
  /\ wpc = "check"
  /\ LET c == CheckSampleTimes(Ctl, sample[1], sample[2])
     IN Became(c) /\ wpc' = IF c.state = "FLOWING" THEN "idle" ELSE "after"
  /\ UNCHANGED <<extraVars, m_bIsFlushing, m_FilterState, m_StreamEvent, sample>>

SendExtra == m_bStopSendExtra /\ ~m_bStopExtraSent /\ m_tStopTime = MAX_TIME /\ m_FilterState # "Stopped"

\* A sample to be discarded: it may be the extra one to send; without a clock, or late,
\* it is discarded at once, else when its time comes, or if the filter is paused not
\* before something happens.
After ==
  /\ wpc = "after"
  /\ IF SendExtra
     THEN wpc' = "idle" /\ m_bStopExtraSent' = TRUE /\ extras' = extras + 1
     ELSE /\ wpc' \in {"idle", IF m_FilterState = "Paused" THEN "forever" ELSE "timed"}
          /\ UNCHANGED <<m_bStopExtraSent, extras>>
  /\ UNCHANGED <<streamCtl, m_bStopSendExtra, m_bIsFlushing, m_FilterState, m_StreamEvent, sample, silent>>

Woken ==
  /\ wpc \in {"timed", "forever"} /\ m_StreamEvent
  /\ m_StreamEvent' = FALSE /\ wpc' = "look"
  /\ UNCHANGED <<Unlocked, sample>>

TimedOut ==
  /\ wpc = "timed" /\ wpc' = "idle"
  /\ UNCHANGED <<Unlocked, m_StreamEvent, sample>>

StreamStep == Look \/ Check \/ After \/ Woken

CtlNext == \/ \E t \in 0..MAX_TIME, cookie \in BOOLEAN :
                StartAt(t, cookie) \/ \E extra \in BOOLEAN : StopAt(t, extra, cookie)
           \/ StopNow \/ StartNow
           \/ \E new \in {"Stopped", "Paused", "Running"} : NotifyFilterState(new)
           \/ \E inProgress \in BOOLEAN : Flushing(inProgress)
           \/ Receive \/ StreamStep \/ TimedOut

CtlFairness == WF_ctlVars(StreamStep)

-----------------------------------------------------------------------------
\* The rules of strmctl.cpp:204, independently of the nineteen cases: what lies before the
\* sample counts in its order, the start first if both are at the same time; a sample is
\* sent if the stream flows when it begins or starts within it.
ToBeSent(a, b) ==
  LET startBefore == m_tStartTime < a
      stopBefore  == m_tStopTime < a
      flowing     == CASE startBefore /\ stopBefore -> m_tStartTime > m_tStopTime
                       [] startBefore /\ ~stopBefore -> TRUE
                       [] ~startBefore /\ stopBefore -> FALSE
                       [] OTHER -> m_StreamState = "FLOWING"
  IN flowing \/ m_tStartTime \in a..(b - 1)

\* CheckSampleTimes sends exactly the samples that the rules say, whatever is pending.
SentByTheRules ==
  \A a \in 0..MAX_TIME, b \in 1..MAX_TIME : a < b =>
    (CheckSampleTimes(Ctl, a, b).state = "FLOWING") = ToBeSent(a, b)

\* A request with a cookie ends with a notice, or with a new request: none is forgotten.
CookiesAnswered == ~silent

\* At most one extra sample is sent for a StopAt.
OneExtra == extras <= 1

\* The streaming thread waits without a timeout only for a paused filter that does not flush;
\* otherwise it is already woken.
WaitJustified == wpc = "forever" /\ ~m_StreamEvent => m_FilterState = "Paused" /\ ~m_bIsFlushing

\* A flush or a stop gets the streaming thread out of CheckStreamState.
FlushFrees == (wpc # "idle") ~> (wpc = "idle" \/ (~m_bIsFlushing /\ m_FilterState # "Stopped"))

\* What requests, state changes, flushes and samples in any order keep between them.
ControlHolds == SentByTheRules /\ CookiesAnswered /\ OneExtra /\ WaitJustified
=============================================================================
