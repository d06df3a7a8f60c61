----------------------------- MODULE RefClock -----------------------------
(***************************************************************************)
(* CBaseReferenceClock (baseclasses/refclock.cpp) and the CAMSchedule it   *)
(* keeps its advise requests in (baseclasses/schedule.cpp).                *)
(*                                                                         *)
(* Clients schedule and cancel notifications and adjust the clock; one     *)
(* thread, AdviseThread, sleeps until the first notification is due or the *)
(* schedule's event is set, and fires what is due.  A method is one action *)
(* under its lock (the clock's own, or m_Serialize); AdviseThread is split *)
(* at its wait, between reading the time and calling Advise, and inside    *)
(* Advise, which holds m_Serialize but not the clock's lock:               *)
(*   "wait"    in WaitForSingleObject until wakeAt or m_ev                 *)
(*   "woken"   about to look at m_bAbort and read the time                 *)
(*   "timed"   has rtNow, about to enter Advise                            *)
(*   "advise"  in the loop of Advise                                       *)
(*   "done"    left                                                        *)
(*                                                                         *)
(* The unit of time is half a millisecond, the delta below which           *)
(* SetTimeDelta does not trigger the thread; timeGetTime counts            *)
(* milliseconds modulo Cycle (2^32 in the system).                         *)
(***************************************************************************)
EXTENDS Integers, Sequences

CONSTANTS Times,      \* the times clients ask to be notified at
          Periods,    \* the periods they ask for
          Deltas,     \* the corrections they make
          Cycle,      \* the timer wraps after this many milliseconds
          Start,      \* what it shows when the clock is created
          dwCacheMax, \* the most advise packets kept for reuse
          MaxAdvises, MaxDeltas, MaxNow    \* bounds on calls and time

ASSUME ConstantsAssumption ==
  /\ Times \subseteq Int /\ Periods \subseteq Int /\ Deltas \subseteq Int
  /\ Cycle \in Nat \ {0} /\ Start \in 0..(Cycle - 1) /\ dwCacheMax \in Nat
  /\ MaxAdvises \in Nat /\ MaxDeltas \in Nat /\ MaxNow \in Nat

VARIABLES now,                 \* milliseconds since the machine started
          m_dwPrevSystemTime, m_rtPrivateTime, m_rtLastGotTime,
          list,                \* the packets between head and z
          m_dwAdviseCount, m_dwNextCookie, m_dwCacheCount,
          m_ev,                \* the schedule's event, auto-reset
          m_bAbort,
          pc, rtNow, wakeAt,   \* the advise thread
          owner,               \* "alive", "deleting" (in ~CBaseReferenceClock), "deleted"
          deltas,              \* history: calls of SetTimeDelta
          slack                \* history: what can make the thread oversleep,
                               \* since it read the time: corrections too small
                               \* to trigger it, and time spent before it waits

clockVars    == <<m_dwPrevSystemTime, m_rtPrivateTime>>
scheduleVars == <<list, m_dwAdviseCount, m_dwNextCookie, m_dwCacheCount>>
threadVars   == <<pc, rtNow, wakeAt>>
vars == <<now, clockVars, m_rtLastGotTime, scheduleVars, m_ev, m_bAbort,
          threadVars, owner, deltas, slack>>

Forever == -1      \* INFINITE

Init ==
  /\ now = Start
  /\ m_dwPrevSystemTime = Start /\ m_rtPrivateTime = 2 * Start
  /\ m_rtLastGotTime = 0
  /\ list = <<>> /\ m_dwAdviseCount = 0 /\ m_dwNextCookie = 0 /\ m_dwCacheCount = 0
  /\ m_ev = FALSE /\ m_bAbort = FALSE
  /\ pc = "wait" /\ rtNow = 0 /\ wakeAt = Forever
  /\ owner = "alive" /\ deltas = 0 /\ slack = 0

\* m_Serialize is not held by Advise.
SerializeFree == pc # "advise"

-----------------------------------------------------------------------------
(* CAMSchedule.                                                            *)

\* The list with packet p before the first packet not earlier than it.
Inserted(s, p) ==
  LET k == CHOOSE i \in 0..Len(s) :
             /\ i = Len(s) \/ s[i + 1].time >= p.time
             /\ \A j \in 1..i : s[j].time < p.time
  IN  SubSeq(s, 1, k) \o <<p>> \o SubSeq(s, k + 1, Len(s))

\* Mutant: a periodic packet keeps its time.
ShuntHead_Keep(s, time) == s

\* The list with its head, due at `time' now, after the last packet not later.
ShuntHead(s, time) ==
  LET p == [Head(s) EXCEPT !.time = time]
      r == Tail(s)
      k == CHOOSE i \in 0..Len(r) :
             /\ i = Len(r) \/ r[i + 1].time > time
             /\ \A j \in 1..i : r[j].time <= time
  IN  SubSeq(r, 1, k) \o <<p>> \o SubSeq(r, k + 1, Len(r))

\* Adds a packet, from the cache if there is one, and sets m_ev if it is first.
AddAdvisePacket(time, period) ==
  /\ SerializeFree
  /\ m_dwCacheCount' = IF m_dwCacheCount > 0 THEN m_dwCacheCount - 1 ELSE 0
  /\ m_dwNextCookie' = m_dwNextCookie + 1
  /\ list' = Inserted(list, [cookie |-> m_dwNextCookie', time |-> time, period |-> period])
  /\ m_dwAdviseCount' = m_dwAdviseCount + 1
  /\ m_ev' = (m_ev \/ Head(list').cookie = m_dwNextCookie')

\* A packet taken off the list goes to the cache, or is freed.
Delete ==
  /\ m_dwAdviseCount' = m_dwAdviseCount - 1
  /\ m_dwCacheCount' = IF m_dwCacheCount >= dwCacheMax THEN m_dwCacheCount
                       ELSE m_dwCacheCount + 1

-----------------------------------------------------------------------------
(* The clock.                                                              *)

timeGetTime == now % Cycle

\* Int32x32To64 takes the DWORD difference for a signed number.
Elapsed == LET d == (timeGetTime - m_dwPrevSystemTime) % Cycle
           IN  IF 2 * d >= Cycle THEN d - Cycle ELSE d

\* What GetPrivateTime would return.
PrivateTime == m_rtPrivateTime + 2 * Elapsed

GetPrivateTime ==
  /\ m_rtPrivateTime' = PrivateTime
  /\ m_dwPrevSystemTime' = timeGetTime

GetTime ==
  /\ owner = "alive"
  /\ GetPrivateTime
  /\ m_rtLastGotTime' = IF PrivateTime > m_rtLastGotTime THEN PrivateTime
                        ELSE m_rtLastGotTime
  /\ UNCHANGED <<now, scheduleVars, m_ev, m_bAbort, threadVars, owner, deltas, slack>>

AdviseTime(t) ==
  /\ owner = "alive" /\ m_dwNextCookie < MaxAdvises
  /\ t > 0
  /\ AddAdvisePacket(t, 0)
  /\ UNCHANGED <<now, clockVars, m_rtLastGotTime, m_bAbort, threadVars, owner,
                 deltas, slack>>

AdvisePeriodic(t, period) ==
  /\ owner = "alive" /\ m_dwNextCookie < MaxAdvises
  /\ t > 0 /\ period > 0
  /\ AddAdvisePacket(t, period)
  /\ UNCHANGED <<now, clockVars, m_rtLastGotTime, m_bAbort, threadVars, owner,
                 deltas, slack>>

Unadvise(i) ==
  /\ owner = "alive" /\ SerializeFree
  /\ list' = SubSeq(list, 1, i - 1) \o SubSeq(list, i + 1, Len(list))
  /\ Delete
  /\ UNCHANGED <<now, clockVars, m_rtLastGotTime, m_dwNextCookie, m_ev,
                 m_bAbort, threadVars, owner, deltas, slack>>

\* Mutant: the thread is triggered only for corrections of a millisecond.
SetTimeDelta_Trigger_Late(d) == d > 2 /\ m_dwAdviseCount > 0

SetTimeDelta_Trigger(d) == d > 1 /\ m_dwAdviseCount > 0

\* m_dwAdviseCount is read without m_Serialize.
SetTimeDelta(d) ==
  /\ owner = "alive" /\ deltas < MaxDeltas
  /\ m_rtPrivateTime' = m_rtPrivateTime + d
  /\ m_ev' = (m_ev \/ SetTimeDelta_Trigger(d))
  /\ slack' = IF d > 0 /\ d <= 1 THEN slack + d ELSE slack
  /\ deltas' = deltas + 1
  /\ UNCHANGED <<now, m_dwPrevSystemTime, m_rtLastGotTime, scheduleVars,
                 m_bAbort, threadVars, owner>>

\* Mutant: the thread is not woken to see m_bAbort.
Destroy_Quiet ==
  /\ owner = "alive" /\ owner' = "deleting"
  /\ m_bAbort' = TRUE
  /\ UNCHANGED <<now, clockVars, m_rtLastGotTime, scheduleVars, m_ev, threadVars,
                 deltas, slack>>

\* ~CBaseReferenceClock up to its wait for the thread.
Destroy ==
  /\ owner = "alive" /\ owner' = "deleting"
  /\ m_bAbort' = TRUE
  /\ m_ev' = TRUE
  /\ UNCHANGED <<now, clockVars, m_rtLastGotTime, scheduleVars, threadVars,
                 deltas, slack>>

\* The rest: the schedule is deleted with whatever is on it.
Destroyed ==
  /\ owner = "deleting" /\ pc = "done"
  /\ owner' = "deleted"
  /\ list' = <<>> /\ m_dwAdviseCount' = 0 /\ m_dwCacheCount' = 0
  /\ UNCHANGED <<now, clockVars, m_rtLastGotTime, m_dwNextCookie, m_ev,
                 m_bAbort, threadVars, deltas, slack>>

-----------------------------------------------------------------------------
(* AdviseThread.                                                           *)

\* WaitForSingleObject returns: the event is set, or the time has come.
\* (wakeAt and rtNow are cleared where the code does not use them again.)
Wake ==
  /\ pc = "wait"
  /\ \/ m_ev /\ m_ev' = FALSE
     \/ wakeAt # Forever /\ now >= wakeAt /\ UNCHANGED m_ev
  /\ pc' = "woken" /\ wakeAt' = Forever
  /\ UNCHANGED <<now, clockVars, m_rtLastGotTime, scheduleVars, m_bAbort, rtNow,
                 owner, deltas, slack>>

\* rtNow = GetPrivateTime(), unless aborted.
ReadTime ==
  /\ pc = "woken"
  /\ IF m_bAbort
     THEN pc' = "done" /\ UNCHANGED <<clockVars, rtNow, slack>>
     ELSE /\ pc' = "timed"
          /\ GetPrivateTime
          /\ rtNow' = PrivateTime
          /\ slack' = 0
  /\ UNCHANGED <<now, m_rtLastGotTime, scheduleVars, m_ev, m_bAbort, wakeAt,
                 owner, deltas>>

EnterAdvise ==
  /\ pc = "timed" /\ pc' = "advise"
  /\ UNCHANGED <<now, clockVars, m_rtLastGotTime, scheduleVars, m_ev, m_bAbort,
                 rtNow, wakeAt, owner, deltas, slack>>

\* Advise is called with rtNow and a millisecond.
Expired == list # <<>> /\ rtNow + 2 >= Head(list).time

\* Advise fires the head of the list.
Fire ==
  /\ pc = "advise" /\ Expired
  /\ IF Head(list).period > 0
     THEN /\ list' = ShuntHead(list, Head(list).time + Head(list).period)
          /\ UNCHANGED <<m_dwAdviseCount, m_dwCacheCount>>
     ELSE list' = Tail(list) /\ Delete
  /\ UNCHANGED <<now, clockVars, m_rtLastGotTime, m_dwNextCookie, m_ev,
                 m_bAbort, threadVars, owner, deltas, slack>>

\* Advise returns the next time, and the thread waits for it in whole
\* milliseconds from now on, or leaves.
Sleep ==
  /\ pc = "advise" /\ ~Expired
  /\ pc' = IF m_bAbort THEN "done" ELSE "wait"
  /\ wakeAt' = IF list = <<>> THEN Forever
               ELSE now + ((Head(list).time - rtNow) \div 2)
  /\ rtNow' = 0
  /\ UNCHANGED <<now, clockVars, m_rtLastGotTime, scheduleVars, m_ev, m_bAbort,
                 owner, deltas, slack>>

ThreadStep == Wake \/ ReadTime \/ EnterAdvise \/ Fire \/ Sleep

\* A millisecond passes; past MaxNow only for a thread that waits although
\* something is due.
Tick ==
  /\ \/ now < MaxNow
     \/ /\ pc = "wait" /\ now < wakeAt
        /\ owner = "alive" /\ list # <<>> /\ Head(list).time <= PrivateTime
  /\ now' = now + 1
  /\ slack' = IF pc \in {"timed", "advise"} THEN slack + 2 ELSE slack
  /\ UNCHANGED <<clockVars, m_rtLastGotTime, scheduleVars, m_ev, m_bAbort,
                 threadVars, owner, deltas>>

ClientStep ==
  \/ GetTime \/ Destroy
  \/ \E t \in Times : AdviseTime(t) \/ \E p \in Periods : AdvisePeriodic(t, p)
  \/ \E i \in 1..Len(list) : Unadvise(i)
  \/ \E d \in Deltas : SetTimeDelta(d)

Next == ClientStep \/ Destroyed \/ ThreadStep \/ Tick

Spec == Init /\ [][Next]_vars

\* The thread runs, time passes, and the destructor goes on when it can.
FairSpec == Spec /\ WF_vars(ThreadStep) /\ WF_vars(Tick) /\ WF_vars(Destroyed)
-----------------------------------------------------------------------------
Packet == [cookie : 1..MaxAdvises, time : Int, period : Int]

\* Type invariant; the advise count, read without m_Serialize, is the length of
\* the list and the cache stays within its limit.
TypeOK ==
  /\ now \in Nat
  /\ m_dwPrevSystemTime \in 0..(Cycle - 1)
  /\ m_rtPrivateTime \in Int /\ m_rtLastGotTime \in Int
  /\ list \in Seq(Packet)
  /\ m_dwAdviseCount = Len(list)
  /\ m_dwNextCookie \in 0..MaxAdvises /\ m_dwCacheCount \in 0..dwCacheMax
  /\ m_ev \in BOOLEAN /\ m_bAbort \in BOOLEAN
  /\ pc \in {"wait", "woken", "timed", "advise", "done"}
  /\ rtNow \in Int /\ wakeAt \in Nat \union {Forever}
  /\ owner \in {"alive", "deleting", "deleted"}
  /\ deltas \in 0..MaxDeltas /\ slack \in Nat

\* The list stays ordered by time, which Advise relies on when it stops at
\* the first packet that is not due, and no two requests have one cookie,
\* through insertions, removals and periodic packets that move back.
ListOrdered ==
  \A i, j \in 1..Len(list) : i < j =>
    list[i].time <= list[j].time /\ list[i].cookie # list[j].cookie

\* The advise thread never waits past the first request: no request added, no
\* forward correction and no removal between its reading the time and its wait
\* is missed, and it oversleeps only by corrections SetTimeDelta leaves out on
\* purpose and by the time it needed itself.
NeverOversleeps ==
  pc = "wait" /\ ~m_ev /\ list # <<>> =>
    /\ wakeAt # Forever
    /\ PrivateTime + 2 * (wakeAt - now) <= Head(list).time + slack

\* A request whose time has come is fired, or cancelled, or set back.
DueIsFired ==
  \A c \in 1..MaxAdvises :
    LET Due == owner = "alive" /\ \E i \in 1..Len(list) :
                 list[i].cookie = c /\ list[i].time <= PrivateTime
    IN  Due ~> ~Due

\* The destructor's wait for the advise thread ends.
DestructorReturns == owner = "deleting" ~> owner = "deleted"

\* What the advise thread relies on whenever it sleeps or looks at the list.
ScheduleHolds == TypeOK /\ ListOrdered /\ NeverOversleeps
=============================================================================
