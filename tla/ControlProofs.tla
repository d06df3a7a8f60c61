--------------------------- MODULE ControlProofs ---------------------------
(* TLAPS proofs about MCControl: the calls that set and ask positions, the *)
(* stream control of a pin and the deferred commands; for any set of       *)
(* threads, samples and commands, and any times.                           *)
EXTENDS MCControl, FiniteSetTheorems, SequenceTheorems, WellFoundedInduction, TLAPS

(* Seeking.                                                                 *)

Asking == {"idle", "ask", "askLocked", "convert"}

SeekTypes ==
  /\ callpc \in [Apps -> Asking \cup {"locked", "change", "begin", "end"}]
  /\ todo \in [Apps -> SUBSET {"start", "stop", "rate"}]
  /\ mediaRun \in Nat
  /\ epc \in {"idle", "ask", "set"}

\* What the source has not seen is still to be told by somebody, and a thread that is not
\* in a call that changes the source owes it nothing.
ToldBySomebody ==
  /\ \A x \in unseen : \E a \in Apps : x \in todo[a]
  /\ \A a \in Apps : callpc[a] \in Asking => todo[a] = {}

\* The end of stream has the renderer's lock until it has set the position, which belongs
\* to this run if nothing has been reset since it was asked for.
PositionInv ==
  /\ ~m_bReset => m_StartMedia = mediaRun
  /\ epc # "idle" => m_RendererLock = "eos"
  /\ epc = "set" /\ ~m_bReset => llStop = mediaRun

SeekInv == SeekTypes /\ ToldBySomebody /\ PositionInv

-----------------------------------------------------------------------------
(* Stream control.                                                          *)

States == {"FLOWING", "DISCARDING"}

Ctls == [state : States, onStop : States, start : 0..MAX_TIME, stop : 0..MAX_TIME,
         startCookie : BOOLEAN, stopCookie : BOOLEAN, sent : SUBSET {"started", "stopped"}]

CtlTypes ==
  /\ m_StreamState \in States /\ m_StreamStateOnStop \in States
  /\ m_tStartTime \in 0..MAX_TIME /\ m_tStopTime \in 0..MAX_TIME
  /\ m_FilterState \in {"Stopped", "Paused", "Running"}
  /\ wpc \in {"idle", "look", "check", "after", "timed", "forever"}
  /\ sample \in Nat \X Nat

CtlFlags ==
  /\ m_dwStartCookie \in BOOLEAN /\ m_dwStopCookie \in BOOLEAN
  /\ m_bStopSendExtra \in BOOLEAN /\ m_bStopExtraSent \in BOOLEAN
  /\ m_bIsFlushing \in BOOLEAN /\ m_StreamEvent \in BOOLEAN /\ silent \in BOOLEAN

\* A stop that is pending will discard.
StopDiscards == m_tStopTime < MAX_TIME => m_StreamStateOnStop = "DISCARDING"

\* The extra sample that was sent is recorded.
ExtraRecorded == extras \in 0..1 /\ (extras = 1 => m_bStopExtraSent)

\* Behind the look at the flags, what would have kept the thread from its wait wakes it.
WaitAwake ==
  /\ wpc \in {"check", "after", "timed", "forever"} /\ ~m_StreamEvent =>
       ~m_bIsFlushing /\ m_FilterState # "Stopped"
  /\ wpc = "forever" /\ ~m_StreamEvent => m_FilterState = "Paused"

CtlInv == CtlTypes /\ CtlFlags /\ StopDiscards /\ ~silent /\ ExtraRecorded /\ WaitAwake

-----------------------------------------------------------------------------
(* Deferred commands.                                                       *)

Commands == [id : Cmds, time : Nat, stream : BOOLEAN]

Ids(list) == {list[i].id : i \in DOMAIN list}

\* A list is in the order of time, and a command is there at most once.
ListHolds(list) ==
  /\ list \in Seq(Commands)
  /\ \A i, j \in 1..Len(list) : i < j => list[i].time <= list[j].time /\ list[i].id # list[j].id

Queues == [presentation : Seq(Commands), stream : Seq(Commands), running : BOOLEAN, clock : BOOLEAN,
           dwAdvise : BOOLEAN, tCurrentAdvise : Nat, pending : Nat, evDue : BOOLEAN]

QueueHolds(x) ==
  /\ x \in Queues /\ ListHolds(x.presentation) /\ ListHolds(x.stream)
  /\ Ids(x.presentation) \cap Ids(x.stream) = {}

OnQueue(x) == Ids(x.presentation) \cup Ids(x.stream)

CmdTypes ==
  /\ m_pQueue \in [Cmds -> BOOLEAN]
  /\ created \subseteq Cmds
  /\ ran \in [Cmds -> 0..1] /\ settled \in [Cmds -> 0..1]
  /\ xpc \in {"look", "wait", "got", "remove", "forget", "done"}
  /\ apc \in {"idle", "cancelled", "requeue", "requeueStream"}
  /\ xpc \in {"got", "remove", "forget", "done"} => xcmd \in created
  /\ apc # "idle" => acmd \in created
  /\ atime \in Nat

Requeueing(id) == apc \in {"requeue", "requeueStream"} /\ acmd = id

\* A command that was taken off for good is not on the queue, nor on its way back to it; one
\* on its way back is not on it.
OffForGood ==
  /\ \A id \in Cmds : settled[id] = 1 => id \notin OnQueue(q) /\ ~Requeueing(id)
  /\ \A id \in Cmds : Requeueing(id) => id \notin OnQueue(q)

\* A command that was executed will not be executed again: it knows, or is about to be told.
KnowsThatItRan ==
  \A id \in Cmds :
    ran[id] = 1 => ~m_pQueue[id] \/ (xpc \in {"remove", "forget"} /\ xcmd = id)

\* Nothing happens to a command that is not made yet.
NothingBefore ==
  /\ OnQueue(q) \subseteq created
  /\ \A id \in Cmds : id \notin created => ran[id] = 0 /\ settled[id] = 0

CmdInv == QueueHolds(q) /\ CmdTypes /\ OffForGood /\ KnowsThatItRan /\ NothingBefore

IInv == SeekInv /\ CtlInv /\ CmdInv
-----------------------------------------------------------------------------
(* The seeking calls keep SeekInv.                                          *)

\* A step of the callers that changes neither the positions nor the renderer's part: a
\* thread goes on, and owes nothing where it goes if it is out of the changing calls.
LEMMA CallerMoves ==
  ASSUME SeekInv, NEW a \in Apps, NEW pc \in Asking \cup {"locked", "change", "begin", "end"},
         callpc' = [callpc EXCEPT ![a] = pc], pc \in Asking => todo[a] = {},
         UNCHANGED <<unseen, todo, m_bReset, m_StartMedia, mediaRun, epc, llStop, m_RendererLock>>
  PROVE  SeekInv'
<1>1. SeekTypes' BY DEF SeekInv, SeekTypes
<1>2. ToldBySomebody' BY DEF SeekInv, SeekTypes, ToldBySomebody
<1>3. PositionInv' BY DEF SeekInv, PositionInv
<1> QED BY <1>1, <1>2, <1>3 DEF SeekInv

\* A call assigns what it will tell the source: it owed nothing before.
LEMMA CallerAssigns ==
  ASSUME SeekInv, NEW a \in Apps, callpc[a] = "idle",
         NEW new \in SUBSET {"start", "stop", "rate"},
         callpc' = [callpc EXCEPT ![a] = "locked"],
         unseen' = unseen \cup new, todo' = [todo EXCEPT ![a] = new],
         UNCHANGED <<m_bReset, m_StartMedia, mediaRun, epc, llStop, m_RendererLock>>
  PROVE  SeekInv'
<1>1. SeekTypes' BY DEF SeekInv, SeekTypes
<1>2. ToldBySomebody'
  <2>1. \A b \in Apps : callpc'[b] \in Asking => todo'[b] = {}
    BY DEF SeekInv, SeekTypes, ToldBySomebody, Asking
  <2>2. ASSUME NEW x \in unseen' PROVE \E b \in Apps : x \in todo'[b]
    <3>1. CASE x \in new BY <3>1 DEF SeekInv, SeekTypes
    <3>2. CASE x \notin new
      <4>1. PICK b \in Apps : x \in todo[b] BY <2>2, <3>2 DEF SeekInv, ToldBySomebody
      <4>2. b # a BY <4>1 DEF SeekInv, ToldBySomebody, Asking
      <4> QED BY <4>1, <4>2 DEF SeekInv, SeekTypes
    <3> QED BY <3>1, <3>2
  <2> QED BY <2>1, <2>2 DEF ToldBySomebody
<1>3. PositionInv' BY DEF SeekInv, PositionInv
<1> QED BY <1>1, <1>2, <1>3 DEF SeekInv

\* Everything but the position's own state is as before.
LEMMA CallersStay ==
  ASSUME SeekInv, UNCHANGED <<unseen, todo, callpc>>
  PROVE  ToldBySomebody'
BY DEF SeekInv, ToldBySomebody

LEMMA ResetKeeps ==
  ASSUME PositionInv, K!ResetMediaTime, UNCHANGED <<epc, llStop, m_RendererLock>>
  PROVE  PositionInv'
BY DEF PositionInv, K!ResetMediaTime

LEMMA SeekStep == SeekInv /\ K!SeekNext => SeekInv'
<1> SUFFICES ASSUME SeekInv, K!SeekNext PROVE SeekInv'
  OBVIOUS
<1> USE ControlAssumption
<1>1. CASE K!Relink
  <2>1. SeekTypes' BY <1>1 DEF SeekInv, SeekTypes, K!Relink, K!media
  <2>2. ToldBySomebody' BY <1>1, CallersStay DEF K!Relink
  <2>3. PositionInv' BY <1>1 DEF SeekInv, PositionInv, K!Relink, K!media
  <2> QED BY <2>1, <2>2, <2>3 DEF SeekInv
<1>2. CASE K!RegisterMediaTime
  <2>1. SeekTypes' BY <1>2 DEF SeekInv, SeekTypes, K!RegisterMediaTime
  <2>2. ToldBySomebody' BY <1>2, CallersStay DEF K!RegisterMediaTime
  <2>3. PositionInv' BY <1>2 DEF SeekInv, SeekTypes, PositionInv, K!RegisterMediaTime
  <2> QED BY <2>1, <2>2, <2>3 DEF SeekInv
<1>3. CASE K!Inactive
  <2>1. SeekTypes' BY <1>3 DEF SeekInv, SeekTypes, K!Inactive, K!ResetMediaTime
  <2>2. ToldBySomebody' BY <1>3, CallersStay DEF K!Inactive
  <2>3. PositionInv' BY <1>3, ResetKeeps DEF SeekInv, K!Inactive
  <2> QED BY <2>1, <2>2, <2>3 DEF SeekInv
<1>4. CASE K!EOS
  <2>1. SeekTypes' BY <1>4 DEF SeekInv, SeekTypes, K!EOS, K!media
  <2>2. ToldBySomebody' BY <1>4, CallersStay DEF K!EOS
  <2>3. PositionInv' BY <1>4 DEF SeekInv, PositionInv, K!EOS, K!media
  <2> QED BY <2>1, <2>2, <2>3 DEF SeekInv
<1>5. CASE K!GetStopPosition
  <2>1. SeekTypes' BY <1>5 DEF SeekInv, SeekTypes, K!GetStopPosition, K!media
  <2>2. ToldBySomebody' BY <1>5, CallersStay DEF K!GetStopPosition
  <2>3. PositionInv' BY <1>5 DEF SeekInv, PositionInv, K!GetStopPosition, K!media
  <2> QED BY <2>1, <2>2, <2>3 DEF SeekInv
<1>6. CASE K!SetToStop
  <2>1. SeekTypes' BY <1>6 DEF SeekInv, SeekTypes, K!SetToStop
  <2>2. ToldBySomebody' BY <1>6, CallersStay DEF K!SetToStop
  <2>3. PositionInv' BY <1>6 DEF SeekInv, PositionInv, K!SetToStop
  <2> QED BY <2>1, <2>2, <2>3 DEF SeekInv
<1>7. ASSUME NEW a \in Apps,
             \/ K!SetPositions(a) \/ K!SetRate(a) \/ K!Unlock(a) \/ K!Change(a)
             \/ K!BeginFlush(a) \/ K!EndFlush(a) \/ K!Return(a)
             \/ K!AskFormat(a) \/ K!AskValue(a) \/ K!AskPosition(a) \/ K!Answer(a)
             \/ K!GetMediaTime(a) \/ K!Converted(a)
      PROVE  SeekInv'
  <2> USE DEF Asking
  <2>0. /\ callpc[a] \in Asking => todo[a] = {}
        /\ callpc[a] \in Asking \cup {"locked", "change", "begin", "end"}
    BY DEF SeekInv, SeekTypes, ToldBySomebody
  <2>1. CASE K!SetPositions(a)
    <3>1. PICK sb \in {"none", "absolute", "relative"},
               eb \in {"none", "absolute", "incremental", "relative"} :
            /\ unseen' = unseen \cup (IF sb # "none" THEN {"start"} ELSE {})
                                \cup (IF eb # "none" THEN {"stop"} ELSE {})
            /\ todo' = [todo EXCEPT ![a] = K!Changes(sb, eb)]
      BY <2>1, Zenon DEF K!SetPositions
    <3>2. unseen' = unseen \cup K!Changes(sb, eb) BY <3>1 DEF K!Changes
    <3>3. K!Changes(sb, eb) \in SUBSET {"start", "stop", "rate"} BY DEF K!Changes
    <3>4. /\ callpc[a] = "idle" /\ callpc' = [callpc EXCEPT ![a] = "locked"]
          /\ UNCHANGED <<m_bReset, m_StartMedia, mediaRun, epc, llStop, m_RendererLock>>
      BY <2>1 DEF K!SetPositions, K!Goes, K!rendering, K!media
    <3> HIDE DEF Asking
    <3> QED BY <3>1, <3>2, <3>3, <3>4, CallerAssigns
  <2>2. CASE K!SetRate(a)
    <3>1. /\ callpc[a] = "idle" /\ callpc' = [callpc EXCEPT ![a] = "locked"]
          /\ UNCHANGED <<m_bReset, m_StartMedia, mediaRun, epc, llStop, m_RendererLock>>
          /\ unseen' = unseen \cup {"rate"} /\ todo' = [todo EXCEPT ![a] = {"rate"}]
      BY <2>2 DEF K!SetRate, K!Goes, K!rendering, K!media
    <3>2. {"rate"} \in SUBSET {"start", "stop", "rate"} OBVIOUS
    <3> QED BY <3>1, <3>2, CallerAssigns
  <2>3. CASE K!Unlock(a)
    BY <2>3, CallerMoves, "change" \notin Asking DEF K!Unlock, K!Goes, K!rendering, K!media
  <2>4. CASE K!Change(a)
    <3>1. PICK x : x = K!NextChange(a) OBVIOUS
    <3>2. PICK pc \in {"begin", "change"} : callpc' = [callpc EXCEPT ![a] = pc]
      BY <2>4 DEF K!Change, K!Goes
    <3>3. /\ unseen' = unseen \ {x} /\ todo' = [todo EXCEPT ![a] = todo[a] \ {x}]
          /\ UNCHANGED <<m_bReset, m_StartMedia, mediaRun, epc, llStop, m_RendererLock>>
      BY <2>4, <3>1 DEF K!Change, K!rendering, K!media
    <3>4. SeekTypes' BY <3>2, <3>3 DEF SeekInv, SeekTypes
    <3>5. ToldBySomebody'
      <4>1. \A b \in Apps : callpc'[b] \in Asking => todo'[b] = {}
        BY <3>2, <3>3 DEF SeekInv, SeekTypes, ToldBySomebody
      <4>2. ASSUME NEW y \in unseen' PROVE \E b \in Apps : y \in todo'[b]
        <5>1. PICK b \in Apps : y \in todo[b] BY <3>3, <4>2 DEF SeekInv, ToldBySomebody
        <5>2. y \in todo'[b] BY <3>3, <4>2, <5>1 DEF SeekInv, SeekTypes
        <5> QED BY <5>2
      <4> QED BY <4>1, <4>2 DEF ToldBySomebody
    <3>6. PositionInv' BY <3>3 DEF SeekInv, PositionInv
    <3> QED BY <3>4, <3>5, <3>6 DEF SeekInv
  <2>5. CASE K!BeginFlush(a)
    BY <2>5, CallerMoves, "end" \notin Asking DEF K!BeginFlush, K!Goes, K!rendering, K!media
  <2>6. CASE K!EndFlush(a)
    <3>1. SeekTypes' BY <2>6 DEF SeekInv, SeekTypes, K!EndFlush, K!Goes, K!ResetMediaTime
    <3>2. ToldBySomebody' BY <2>6 DEF SeekInv, SeekTypes, ToldBySomebody, K!EndFlush, K!Goes
    <3>3. PositionInv' BY <2>6, ResetKeeps DEF SeekInv, K!EndFlush
    <3> QED BY <3>1, <3>2, <3>3 DEF SeekInv
  <2>7. CASE K!Return(a)
    BY <2>7, CallerMoves DEF K!Return, K!Goes, K!rendering, K!media
  <2>8. CASE K!AskFormat(a)
    BY <2>0, <2>8, CallerMoves DEF K!AskFormat, K!Ask, K!Goes, K!rendering, K!media
  <2>9. CASE K!AskValue(a)
    BY <2>0, <2>9, CallerMoves DEF K!AskValue, K!Ask, K!Goes, K!rendering, K!media
  <2>10. CASE K!AskPosition(a)
    BY <2>0, <2>10, CallerMoves DEF K!AskPosition, K!Ask, K!Goes, K!rendering, K!media
  <2>11. CASE K!Answer(a)
    BY <2>0, <2>11, CallerMoves DEF K!Answer, K!Goes, K!rendering, K!media
  <2>12. CASE K!GetMediaTime(a)
    <3>1. PICK pc \in {"ask", "convert"} : callpc' = [callpc EXCEPT ![a] = pc]
      BY <2>12 DEF K!GetMediaTime, K!Goes
    <3> QED BY <2>0, <2>12, <3>1, CallerMoves DEF K!GetMediaTime, K!rendering, K!media
  <2>13. CASE K!Converted(a)
    BY <2>0, <2>13, CallerMoves DEF K!Converted, K!Goes, K!rendering, K!media
  <2> QED BY <1>7, <2>1, <2>2, <2>3, <2>4, <2>5, <2>6, <2>7, <2>8, <2>9, <2>10, <2>11, <2>12, <2>13
<1> QED BY <1>1, <1>2, <1>3, <1>4, <1>5, <1>6, <1>7 DEF K!SeekNext

-----------------------------------------------------------------------------
(* Stream control: what is known under m_CritSec, as a value.               *)

\* A pending stop will discard.
Discards(c) == c.stop < MAX_TIME => c.onStop = "DISCARDING"

\* Coming from c, a cookie that is gone was answered.
Answers(c, d) ==
  /\ c.startCookie /\ ~d.startCookie => "started" \in d.sent
  /\ c.stopCookie /\ ~d.stopCookie => "stopped" \in d.sent

LEMMA StopExecuted ==
  ASSUME NEW c \in Ctls
  PROVE  /\ S!ExecuteStop(c) \in Ctls
         /\ Discards(S!ExecuteStop(c))
         /\ S!ExecuteStop(c).state = c.onStop
         /\ S!ExecuteStop(c).start = c.start
         /\ S!ExecuteStop(c).stop = MAX_TIME
         /\ S!ExecuteStop(c).startCookie = c.startCookie
         /\ S!ExecuteStop(c).stopCookie = FALSE
         /\ c.stopCookie => "stopped" \in S!ExecuteStop(c).sent
         /\ c.sent \subseteq S!ExecuteStop(c).sent
<1> USE ControlAssumption
<1>1. PICK sent \in SUBSET {"started", "stopped"} :
        sent = c.sent \cup (IF c.stopCookie THEN {"stopped"} ELSE {})
  BY DEF Ctls
<1>2. PICK d : d = [c EXCEPT !.state = c.onStop, !.sent = sent] OBVIOUS
<1>3. /\ d \in Ctls /\ d.state = c.onStop /\ d.sent = sent /\ d.start = c.start
      /\ d.startCookie = c.startCookie
  BY <1>2 DEF Ctls
<1>4. S!ExecuteStop(c) = [d EXCEPT !.stop = MAX_TIME, !.stopCookie = FALSE, !.onStop = "FLOWING"]
  BY <1>1, <1>2, Zenon DEF S!ExecuteStop, S!CancelStop
<1>5. MAX_TIME \in 0..MAX_TIME OBVIOUS
<1>6. "stopped" \in {"stopped"} OBVIOUS
<1>7. /\ S!ExecuteStop(c) \in Ctls
      /\ S!ExecuteStop(c).state = d.state /\ S!ExecuteStop(c).start = d.start
      /\ S!ExecuteStop(c).stop = MAX_TIME /\ S!ExecuteStop(c).startCookie = d.startCookie
      /\ S!ExecuteStop(c).stopCookie = FALSE /\ S!ExecuteStop(c).sent = d.sent
  BY <1>3, <1>4, <1>5 DEF Ctls, States
<1>8. ~(MAX_TIME < MAX_TIME) OBVIOUS
<1>9. c.sent \subseteq sent /\ (c.stopCookie => "stopped" \in sent) BY <1>1, <1>6
<1> QED BY <1>3, <1>7, <1>8, <1>9 DEF Discards

LEMMA StartExecuted ==
  ASSUME NEW c \in Ctls
  PROVE  /\ S!ExecuteStart(c) \in Ctls
         /\ S!ExecuteStart(c).state = "FLOWING"
         /\ S!ExecuteStart(c).onStop = c.onStop
         /\ S!ExecuteStart(c).start = MAX_TIME
         /\ S!ExecuteStart(c).stop = c.stop
         /\ S!ExecuteStart(c).startCookie = FALSE
         /\ S!ExecuteStart(c).stopCookie = c.stopCookie
         /\ c.startCookie => "started" \in S!ExecuteStart(c).sent
         /\ c.sent \subseteq S!ExecuteStart(c).sent
<1> USE ControlAssumption
<1>1. PICK sent \in SUBSET {"started", "stopped"} :
        sent = c.sent \cup (IF c.startCookie THEN {"started"} ELSE {})
  BY DEF Ctls
<1>2. PICK d : d = [c EXCEPT !.state = "FLOWING", !.sent = sent] OBVIOUS
<1>3. /\ d \in Ctls /\ d.state = "FLOWING" /\ d.sent = sent /\ d.onStop = c.onStop /\ d.stop = c.stop
      /\ d.stopCookie = c.stopCookie
  BY <1>2 DEF Ctls, States
<1>4. S!ExecuteStart(c) = [d EXCEPT !.start = MAX_TIME, !.startCookie = FALSE]
  BY <1>1, <1>2, Zenon DEF S!ExecuteStart, S!CancelStart
<1>5. MAX_TIME \in 0..MAX_TIME OBVIOUS
<1>6. "started" \in {"started"} OBVIOUS
<1> QED BY <1>1, <1>3, <1>4, <1>5, <1>6 DEF Ctls, States

\* Each way to carry out what is pending keeps a pending stop discarding, answers the cookies,
\* and leaves the state of the request that is carried out last.
LEMMA ExecutionsHold ==
  ASSUME NEW c \in Ctls, Discards(c)
  PROVE  /\ \A d \in {c, S!ExecuteStart(c), S!ExecuteStop(c), S!ExecuteStop(S!ExecuteStart(c)),
                      S!ExecuteStart(S!ExecuteStop(c))} : d \in Ctls /\ Discards(d) /\ Answers(c, d)
         /\ S!ExecuteStart(c).state = "FLOWING"
         /\ S!ExecuteStop(c).state = c.onStop
         /\ S!ExecuteStop(S!ExecuteStart(c)).state = c.onStop
         /\ S!ExecuteStart(S!ExecuteStop(c)).state = "FLOWING"
<1>1. c \in Ctls /\ Discards(c) /\ Answers(c, c) BY DEF Answers
<1>2. PICK d : d = S!ExecuteStart(c) OBVIOUS
<1>3. PICK e : e = S!ExecuteStop(c) OBVIOUS
<1>4. d \in Ctls /\ Discards(d) /\ Answers(c, d)
  BY <1>2, StartExecuted DEF Discards, Answers
<1>5. e \in Ctls /\ Discards(e) /\ Answers(c, e)
  BY <1>3, StopExecuted DEF Answers
<1>6. LET x == S!ExecuteStop(d) IN x \in Ctls /\ Discards(x) /\ Answers(c, x) /\ x.state = c.onStop
  <2>1. PICK x : x = S!ExecuteStop(d) OBVIOUS
  <2>2. x \in Ctls /\ Discards(x) /\ Answers(c, x) /\ x.state = c.onStop
    <3>1. x \in Ctls /\ Discards(x) BY <1>4, <2>1, StopExecuted
    <3>2. x.state = d.onStop /\ x.startCookie = d.startCookie /\ ~x.stopCookie /\ d.sent \subseteq x.sent
      BY <1>4, <2>1, StopExecuted
    <3>3. d.stopCookie => "stopped" \in x.sent BY <1>4, <2>1, StopExecuted
    <3>4. /\ d.onStop = c.onStop /\ d.stopCookie = c.stopCookie
          /\ c.startCookie => "started" \in d.sent
      BY <1>2, StartExecuted
    <3> QED BY <3>1, <3>2, <3>3, <3>4 DEF Answers
  <2> QED BY <2>1, <2>2
<1>7. LET x == S!ExecuteStart(e) IN x \in Ctls /\ Discards(x) /\ Answers(c, x) /\ x.state = "FLOWING"
  <2>1. PICK x : x = S!ExecuteStart(e) OBVIOUS
  <2>2. x \in Ctls /\ Discards(x) /\ Answers(c, x) /\ x.state = "FLOWING"
    <3>1. x \in Ctls /\ x.state = "FLOWING" /\ x.onStop = e.onStop /\ x.stop = e.stop
      BY <1>5, <2>1, StartExecuted
    <3>2. x.stopCookie = e.stopCookie /\ e.sent \subseteq x.sent /\ (e.startCookie => "started" \in x.sent)
      BY <1>5, <2>1, StartExecuted
    <3>3. e.startCookie = c.startCookie /\ (c.stopCookie => "stopped" \in e.sent)
      BY <1>3, StopExecuted
    <3> QED BY <1>5, <3>1, <3>2, <3>3 DEF Answers, Discards
  <2> QED BY <2>1, <2>2
<1> QED BY <1>1, <1>2, <1>3, <1>4, <1>5, <1>6, <1>7, StartExecuted, StopExecuted

LEMMA SettledHolds ==
  ASSUME NEW c \in Ctls, Discards(c)
  PROVE  S!Settled(c) \in Ctls /\ Discards(S!Settled(c)) /\ Answers(c, S!Settled(c))
<1>1. S!Settled(c) \in {c, S!ExecuteStart(c), S!ExecuteStop(c), S!ExecuteStop(S!ExecuteStart(c)),
                        S!ExecuteStart(S!ExecuteStop(c))}
  BY DEF S!Settled
<1> QED BY <1>1, ExecutionsHold

LEMMA CheckedHolds ==
  ASSUME NEW c \in Ctls, Discards(c), NEW a \in Nat, NEW b \in Nat
  PROVE  /\ S!CheckSampleTimes(c, a, b) \in Ctls
         /\ Discards(S!CheckSampleTimes(c, a, b))
         /\ Answers(c, S!CheckSampleTimes(c, a, b))
<1>1. c.start \in 0..MAX_TIME /\ c.stop \in 0..MAX_TIME BY DEF Ctls
<1>2. S!CheckSampleTimes(c, a, b) \in
        {c, S!ExecuteStart(c), S!ExecuteStop(c), S!ExecuteStop(S!ExecuteStart(c)),
         S!ExecuteStart(S!ExecuteStop(c))}
  BY <1>1, ControlAssumption DEF S!CheckSampleTimes
<1> QED BY <1>2, ExecutionsHold

LEMMA CtlIsOne ==
  ASSUME CtlInv
  PROVE  /\ S!Ctl \in Ctls /\ Discards(S!Ctl)
         /\ S!Ctl.state = m_StreamState /\ S!Ctl.onStop = m_StreamStateOnStop
         /\ S!Ctl.start = m_tStartTime /\ S!Ctl.stop = m_tStopTime
         /\ S!Ctl.startCookie = m_dwStartCookie /\ S!Ctl.stopCookie = m_dwStopCookie
<1>1. m_dwStartCookie \in BOOLEAN /\ m_dwStopCookie \in BOOLEAN BY DEF CtlInv, CtlFlags
<1> QED BY <1>1 DEF CtlInv, CtlTypes, StopDiscards, S!Ctl, Ctls, Discards

-----------------------------------------------------------------------------
(* The steps of stream control keep CtlInv.                                 *)

\* What m_CritSec protects.
Guarded ==
  /\ m_StreamState \in States /\ m_StreamStateOnStop \in States
  /\ m_tStartTime \in 0..MAX_TIME /\ m_tStopTime \in 0..MAX_TIME
  /\ m_dwStartCookie \in BOOLEAN /\ m_dwStopCookie \in BOOLEAN
  /\ silent = FALSE
  /\ StopDiscards

LEMMA GuardedNow == CtlInv => Guarded
<1> SUFFICES ASSUME CtlInv PROVE Guarded
  OBVIOUS
<1>1. m_dwStartCookie \in BOOLEAN /\ m_dwStopCookie \in BOOLEAN BY DEF CtlInv, CtlFlags
<1>2. silent = FALSE BY Zenon DEF CtlInv, CtlFlags
<1> QED BY <1>1, <1>2 DEF CtlInv, CtlTypes, Guarded

LEMMA GuardedKept == CtlInv /\ UNCHANGED <<S!streamCtl, silent>> => Guarded'
<1> SUFFICES ASSUME CtlInv, UNCHANGED <<S!streamCtl, silent>> PROVE Guarded'
  OBVIOUS
<1>1. Guarded BY GuardedNow
<1> QED BY <1>1 DEF Guarded, StopDiscards, S!streamCtl

LEMMA BecameHolds ==
  ASSUME CtlInv, NEW d \in Ctls, Discards(d), Answers(S!Ctl, d), S!Became(d)
  PROVE  Guarded'
<1>1. /\ m_StreamState' = d.state /\ m_StreamStateOnStop' = d.onStop
      /\ m_tStartTime' = d.start /\ m_tStopTime' = d.stop
      /\ m_dwStartCookie' = d.startCookie /\ m_dwStopCookie' = d.stopCookie
  BY DEF S!Became
<1>2. silent' = FALSE
  <2>1. silent = FALSE BY GuardedNow DEF Guarded
  <2>2. ~(m_dwStartCookie /\ ~d.startCookie /\ "started" \notin d.sent)
    BY CtlIsOne DEF Answers
  <2>3. ~(m_dwStopCookie /\ ~d.stopCookie /\ "stopped" \notin d.sent)
    BY CtlIsOne DEF Answers
  <2> QED BY <2>1, <2>2, <2>3, Zenon DEF S!Became
<1> QED BY <1>1, <1>2 DEF Ctls, Discards, Guarded, StopDiscards

\* The rest.
Others ==
  /\ m_FilterState \in {"Stopped", "Paused", "Running"}
  /\ wpc \in {"idle", "look", "check", "after", "timed", "forever"}
  /\ sample \in Nat \X Nat
  /\ m_bStopSendExtra \in BOOLEAN /\ m_bIsFlushing \in BOOLEAN

Extra == m_bStopExtraSent \in BOOLEAN /\ ExtraRecorded

Waits == m_StreamEvent \in BOOLEAN /\ WaitAwake

LEMMA CtlParts == CtlInv => Guarded /\ Others /\ Extra /\ Waits
<1> SUFFICES ASSUME CtlInv PROVE Guarded /\ Others /\ Extra /\ Waits
  OBVIOUS
<1>1. Others BY Zenon DEF CtlInv, CtlTypes, CtlFlags, Others
<1>2. Extra BY Zenon DEF CtlInv, CtlFlags, Extra
<1>3. Waits BY Zenon DEF CtlInv, CtlFlags, Waits
<1> QED BY <1>1, <1>2, <1>3, GuardedNow

LEMMA CtlWhole ==
  ASSUME Guarded', Others', Extra', Waits'
  PROVE  CtlInv'
<1>1. CtlTypes' BY Zenon DEF CtlTypes, Guarded, Others
<1>2. (silent \in BOOLEAN /\ ~silent)' BY DEF Guarded
<1>3. CtlFlags' BY <1>2, Zenon DEF CtlFlags, Guarded, Others, Extra, Waits
<1> QED BY <1>1, <1>2, <1>3, Zenon DEF CtlInv, Guarded, Extra, Waits

LEMMA StopCancelled ==
  ASSUME NEW c \in Ctls
  PROVE  /\ S!CancelStop(c) \in Ctls /\ S!CancelStop(c).state = c.state
         /\ S!CancelStop(c).stop = MAX_TIME /\ S!CancelStop(c).startCookie = c.startCookie
<1>1. MAX_TIME \in 0..MAX_TIME BY ControlAssumption
<1> QED BY <1>1 DEF S!CancelStop, Ctls, States

LEMMA StartCancelled ==
  ASSUME NEW c \in Ctls
  PROVE  /\ S!CancelStart(c) \in Ctls /\ S!CancelStart(c).state = c.state
         /\ S!CancelStart(c).stop = c.stop /\ S!CancelStart(c).onStop = c.onStop
         /\ S!CancelStart(c).stopCookie = c.stopCookie
<1>1. MAX_TIME \in 0..MAX_TIME BY ControlAssumption
<1> QED BY <1>1 DEF S!CancelStart, Ctls

\* With the event set nobody waits for nothing.
LEMMA EventAwakes == ASSUME m_StreamEvent' = TRUE PROVE Waits'
BY DEF Waits, WaitAwake

LEMMA NoExtra == ASSUME extras' = 0, m_bStopExtraSent' = FALSE PROVE Extra'
<1>1. m_bStopExtraSent' \in BOOLEAN OBVIOUS
<1>2. extras' \in 0..1 /\ extras' # 1 OBVIOUS
<1> QED BY <1>1, <1>2, Zenon DEF Extra, ExtraRecorded

LEMMA StopAtHolds ==
  ASSUME CtlInv, NEW t \in 0..MAX_TIME, NEW extra \in BOOLEAN, NEW cookie \in BOOLEAN,
         S!StopAt(t, extra, cookie)
  PROVE  CtlInv'
<1> USE ControlAssumption
<1>0. PICK c \in Ctls : c = S!Ctl BY CtlIsOne
<1>1. Guarded'
  <2>1. CASE t = MAX_TIME
    <3>1. PICK s \in States :
            s = IF m_FilterState = "Stopped" /\ m_tStartTime < MAX_TIME THEN "DISCARDING" ELSE S!CancelStop(c).state
      BY StopCancelled DEF Ctls, States
    <3>2. PICK d : d = [S!CancelStop(c) EXCEPT !.state = s, !.sent = {"stopped"}] OBVIOUS
    <3>3. S!Became(d) BY <1>0, <2>1, <3>1, <3>2, Zenon DEF S!StopAt
    <3>4. PICK e : e = S!CancelStop(c) OBVIOUS
    <3>5. e \in Ctls /\ e.stop = MAX_TIME /\ e.startCookie = c.startCookie
      BY <3>4, StopCancelled
    <3>6. d \in Ctls /\ d.stop = MAX_TIME /\ d.startCookie = c.startCookie /\ d.sent = {"stopped"}
      BY <3>2, <3>4, <3>5 DEF Ctls
    <3>7. Discards(d) BY <3>6 DEF Discards
    <3>8. Answers(S!Ctl, d) BY <1>0, <3>6 DEF Answers
    <3> QED BY <3>3, <3>6, <3>7, <3>8, BecameHolds
  <2>2. CASE t # MAX_TIME
    <3>1. PICK s \in States :
            s = IF m_FilterState = "Stopped" /\ m_tStartTime > t THEN "FLOWING" ELSE c.state
      BY <1>0 DEF Ctls, States
    <3>2. PICK d : d = [c EXCEPT !.state = s, !.stop = t, !.stopCookie = cookie,
                                 !.onStop = "DISCARDING", !.sent = {"stopped"}]
      OBVIOUS
    <3>3. S!Became(d) BY <1>0, <2>2, <3>1, <3>2, Zenon DEF S!StopAt
    <3>4. d \in Ctls /\ d.onStop = "DISCARDING" /\ d.startCookie = c.startCookie /\ d.sent = {"stopped"}
      BY <3>2 DEF Ctls, States
    <3>5. Discards(d) BY <3>4 DEF Discards
    <3>6. Answers(S!Ctl, d) BY <1>0, <3>4 DEF Answers
    <3> QED BY <3>3, <3>4, <3>5, <3>6, BecameHolds
  <2> QED BY <2>1, <2>2
<1>2. Others /\ Extra /\ Waits BY CtlParts
<1>3. m_bStopSendExtra' \in BOOLEAN BY Zenon DEF S!StopAt
<1>4. Others' BY <1>2, <1>3, Zenon DEF Others, S!StopAt
<1>5. extras' = 0 /\ m_bStopExtraSent' = FALSE BY DEF S!StopAt
<1>6. Extra' BY <1>5, NoExtra
<1>7. Waits'
  <2>1. CASE t = MAX_TIME
    <3>1. UNCHANGED <<m_StreamEvent, m_bIsFlushing, m_FilterState, wpc>>
      BY <2>1, Zenon DEF S!StopAt
    <3> QED BY <1>2, <3>1 DEF Waits, WaitAwake
  <2>2. CASE t # MAX_TIME BY <2>2, EventAwakes, Zenon DEF S!StopAt
  <2> QED BY <2>1, <2>2
<1> QED BY <1>1, <1>4, <1>6, <1>7, CtlWhole

LEMMA StopNowHolds ==
  ASSUME CtlInv, S!StopNow
  PROVE  CtlInv'
<1> USE ControlAssumption
<1>0. PICK c \in Ctls : c = S!Ctl BY CtlIsOne
<1>1. PICK e : e = S!CancelStop(c) OBVIOUS
<1>2. e \in Ctls /\ e.stop = MAX_TIME /\ e.startCookie = c.startCookie
  BY <1>1, StopCancelled
<1>3. PICK d : d = [e EXCEPT !.state = "DISCARDING", !.sent = {"stopped"}] OBVIOUS
<1>4. S!Became(d) BY <1>0, <1>1, <1>3, Zenon DEF S!StopNow
<1>5. d \in Ctls /\ d.stop = MAX_TIME /\ d.startCookie = c.startCookie /\ d.sent = {"stopped"}
  BY <1>2, <1>3 DEF Ctls, States
<1>6. Discards(d) BY <1>5 DEF Discards
<1>7. Answers(S!Ctl, d) BY <1>0, <1>5 DEF Answers
<1>8. Guarded' BY <1>4, <1>5, <1>6, <1>7, BecameHolds
<1>9. Others BY CtlParts
<1>10. m_bStopSendExtra' \in BOOLEAN BY DEF S!StopNow
<1>11. Others' BY <1>9, <1>10, Zenon DEF Others, S!StopNow
<1>12. extras' = 0 /\ m_bStopExtraSent' = FALSE BY DEF S!StopNow
<1>13. Extra' BY <1>12, NoExtra
<1>14. Waits' BY EventAwakes DEF S!StopNow
<1> QED BY <1>8, <1>11, <1>13, <1>14, CtlWhole

LEMMA StartAtHolds ==
  ASSUME CtlInv, NEW t \in 0..MAX_TIME, NEW cookie \in BOOLEAN, S!StartAt(t, cookie)
  PROVE  CtlInv'
<1> USE ControlAssumption
<1>0. PICK c \in Ctls : c = S!Ctl BY CtlIsOne
<1>c. Discards(c) BY <1>0, CtlIsOne
<1>1. Guarded'
  <2>1. CASE t = MAX_TIME
    <3>1. PICK e : e = S!CancelStart(c) OBVIOUS
    <3>2. /\ e \in Ctls /\ e.stop = c.stop /\ e.onStop = c.onStop
          /\ e.stopCookie = c.stopCookie
      BY <3>1, StartCancelled
    <3>3. PICK s \in States :
            s = IF m_FilterState = "Stopped" /\ m_tStopTime < MAX_TIME THEN "FLOWING" ELSE e.state
      BY <3>2 DEF Ctls, States
    <3>4. PICK d : d = [e EXCEPT !.state = s, !.sent = {"started"}] OBVIOUS
    <3>5. S!Became(d) BY <1>0, <2>1, <3>1, <3>3, <3>4, Zenon DEF S!StartAt
    <3>6. /\ d \in Ctls /\ d.stop = c.stop /\ d.onStop = c.onStop /\ d.stopCookie = c.stopCookie
          /\ d.sent = {"started"}
      BY <3>2, <3>4 DEF Ctls
    <3>7. Discards(d) BY <1>c, <3>6 DEF Discards
    <3>8. Answers(S!Ctl, d) BY <1>0, <3>6 DEF Answers
    <3> QED BY <3>5, <3>6, <3>7, <3>8, BecameHolds
  <2>2. CASE t # MAX_TIME
    <3>1. PICK s \in States :
            s = IF m_FilterState = "Stopped" /\ m_tStopTime >= t THEN "DISCARDING" ELSE c.state
      BY <1>0 DEF Ctls, States
    <3>2. PICK d : d = [c EXCEPT !.state = s, !.start = t, !.startCookie = cookie, !.sent = {"started"}]
      OBVIOUS
    <3>3. S!Became(d) BY <1>0, <2>2, <3>1, <3>2, Zenon DEF S!StartAt
    <3>4. /\ d \in Ctls /\ d.stop = c.stop /\ d.onStop = c.onStop /\ d.stopCookie = c.stopCookie
          /\ d.sent = {"started"}
      BY <3>2 DEF Ctls, States
    <3>5. Discards(d) BY <1>c, <3>4 DEF Discards
    <3>6. Answers(S!Ctl, d) BY <1>0, <3>4 DEF Answers
    <3> QED BY <3>3, <3>4, <3>5, <3>6, BecameHolds
  <2> QED BY <2>1, <2>2
<1>2. Others /\ Extra /\ Waits BY CtlParts
<1>3. Others' BY <1>2 DEF Others, S!StartAt, S!extraVars
<1>4. Extra' BY <1>2 DEF Extra, ExtraRecorded, S!StartAt, S!extraVars
<1>5. Waits'
  <2>1. CASE t = MAX_TIME
    <3>1. UNCHANGED <<m_StreamEvent, m_bIsFlushing, m_FilterState, wpc>>
      BY <2>1, Zenon DEF S!StartAt
    <3> QED BY <1>2, <3>1 DEF Waits, WaitAwake
  <2>2. CASE t # MAX_TIME BY <2>2, EventAwakes, Zenon DEF S!StartAt
  <2> QED BY <2>1, <2>2
<1> QED BY <1>1, <1>3, <1>4, <1>5, CtlWhole

LEMMA StartNowHolds ==
  ASSUME CtlInv, S!StartNow
  PROVE  CtlInv'
<1> USE ControlAssumption
<1>0. PICK c \in Ctls : c = S!Ctl BY CtlIsOne
<1>c. Discards(c) BY <1>0, CtlIsOne
<1>1. PICK e : e = S!CancelStart(c) OBVIOUS
<1>2. /\ e \in Ctls /\ e.stop = c.stop /\ e.onStop = c.onStop
      /\ e.stopCookie = c.stopCookie
  BY <1>1, StartCancelled
<1>3. PICK d : d = [e EXCEPT !.state = "FLOWING", !.sent = {"started"}] OBVIOUS
<1>4. S!Became(d) BY <1>0, <1>1, <1>3, Zenon DEF S!StartNow
<1>5. /\ d \in Ctls /\ d.stop = c.stop /\ d.onStop = c.onStop /\ d.stopCookie = c.stopCookie
      /\ d.sent = {"started"}
  BY <1>2, <1>3 DEF Ctls, States
<1>6. Discards(d) BY <1>c, <1>5 DEF Discards
<1>7. Answers(S!Ctl, d) BY <1>0, <1>5 DEF Answers
<1>8. Guarded' BY <1>4, <1>5, <1>6, <1>7, BecameHolds
<1>9. Others /\ Extra BY CtlParts
<1>10. Others' BY <1>9 DEF Others, S!StartNow, S!extraVars
<1>11. Extra' BY <1>9 DEF Extra, ExtraRecorded, S!StartNow, S!extraVars
<1>12. Waits' BY EventAwakes DEF S!StartNow
<1> QED BY <1>8, <1>10, <1>11, <1>12, CtlWhole

LEMMA FilterStateHolds ==
  ASSUME CtlInv, NEW new \in {"Stopped", "Paused", "Running"}, S!NotifyFilterState(new)
  PROVE  CtlInv'
<1> USE ControlAssumption
<1>1. Guarded'
  <2>1. CASE new = "Stopped"
    <3>0. PICK c \in Ctls : c = S!Ctl BY CtlIsOne
    <3>1. Discards(c) BY <3>0, CtlIsOne
    <3>2. PICK e : e = S!Settled(c) OBVIOUS
    <3>3. e \in Ctls /\ Discards(e) /\ Answers(c, e) BY <3>1, <3>2, SettledHolds
    <3>4. PICK d : d = [e EXCEPT !.state = "FLOWING"] OBVIOUS
    <3>5. S!Became(d) BY <2>1, <3>0, <3>2, <3>4, Zenon DEF S!NotifyFilterState
    <3>6. /\ d \in Ctls /\ d.stop = e.stop /\ d.onStop = e.onStop /\ d.sent = e.sent
          /\ d.startCookie = e.startCookie /\ d.stopCookie = e.stopCookie
      BY <3>3, <3>4 DEF Ctls, States
    <3>7. Discards(d) BY <3>3, <3>6 DEF Discards
    <3>8. Answers(S!Ctl, d) BY <3>0, <3>3, <3>6 DEF Answers
    <3> QED BY <3>5, <3>6, <3>7, <3>8, BecameHolds
  <2>2. CASE new # "Stopped"
    <3>1. UNCHANGED <<S!streamCtl, silent>> BY <2>2, Zenon DEF S!NotifyFilterState
    <3> QED BY <3>1, GuardedKept
  <2> QED BY <2>1, <2>2
<1>2. Others /\ Extra BY CtlParts
<1>3. Others' BY <1>2 DEF Others, S!NotifyFilterState, S!extraVars
<1>4. Extra' BY <1>2 DEF Extra, ExtraRecorded, S!NotifyFilterState, S!extraVars
<1>5. Waits' BY EventAwakes DEF S!NotifyFilterState
<1> QED BY <1>1, <1>3, <1>4, <1>5, CtlWhole

LEMMA FlushingHolds ==
  ASSUME CtlInv, NEW inProgress \in BOOLEAN, S!Flushing(inProgress)
  PROVE  CtlInv'
<1>1. Guarded' BY GuardedKept DEF S!Flushing
<1>2. Others /\ Extra BY CtlParts
<1>3. m_bIsFlushing' \in BOOLEAN BY DEF S!Flushing
<1>4. Others' BY <1>2, <1>3, Zenon DEF Others, S!Flushing, S!extraVars
<1>5. Extra' BY <1>2 DEF Extra, ExtraRecorded, S!Flushing, S!extraVars
<1>6. Waits' BY EventAwakes DEF S!Flushing
<1> QED BY <1>1, <1>4, <1>5, <1>6, CtlWhole

\* The streaming thread goes on without a change to what the others see.
LEMMA StreamingMoves ==
  ASSUME CtlInv, UNCHANGED S!Unlocked, sample' \in Nat \X Nat,
         wpc' \in {"idle", "look", "check", "after", "timed", "forever"}, Waits'
  PROVE  CtlInv'
<1>1. Guarded' BY GuardedKept DEF S!Unlocked
<1>2. Others /\ Extra BY CtlParts
<1>3. Others' BY <1>2 DEF Others, S!Unlocked, S!extraVars
<1>4. Extra' BY <1>2 DEF Extra, ExtraRecorded, S!Unlocked, S!extraVars
<1> QED BY <1>1, <1>3, <1>4, CtlWhole

LEMMA StreamingHolds ==
  ASSUME CtlInv, S!Receive \/ S!StreamStep \/ S!TimedOut
  PROVE  CtlInv'
<1> USE ControlAssumption
<1>0. Guarded /\ Others /\ Extra /\ Waits BY CtlParts
<1>w. m_StreamEvent \in BOOLEAN /\ m_bIsFlushing \in BOOLEAN BY <1>0 DEF Waits, Others
<1>1. CASE S!Receive
  <2>1. wpc' = "look" /\ UNCHANGED <<S!Unlocked, m_StreamEvent>> /\ sample' \in Nat \X Nat
    BY <1>1 DEF S!Receive
  <2>2. Waits' BY <1>w, <2>1 DEF Waits, WaitAwake
  <2> QED BY <2>1, <2>2, StreamingMoves
<1>2. CASE S!Look
  <2>1. /\ UNCHANGED <<S!Unlocked, m_StreamEvent, sample>>
        /\ wpc' \in {"idle", "check"}
        /\ wpc' = "check" => ~m_bIsFlushing /\ m_FilterState # "Stopped"
    BY <1>2, <1>w DEF S!Look
  <2>2. sample' \in Nat \X Nat BY <1>0, <2>1 DEF Others
  <2>3. Waits' BY <1>w, <2>1 DEF Waits, WaitAwake, S!Unlocked
  <2> QED BY <2>1, <2>2, <2>3, StreamingMoves
<1>3. CASE S!Check
  <2>0. PICK c \in Ctls : c = S!Ctl BY CtlIsOne
  <2>1. Discards(c) BY <2>0, CtlIsOne
  <2>2. PICK a \in Nat, b \in Nat : a = sample[1] /\ b = sample[2] BY <1>0 DEF Others
  <2>3. PICK d : d = S!CheckSampleTimes(c, a, b) OBVIOUS
  <2>4. d \in Ctls /\ Discards(d) /\ Answers(c, d) BY <2>1, <2>3, CheckedHolds
  <2>5. S!Became(d) /\ wpc' = IF d.state = "FLOWING" THEN "idle" ELSE "after"
    BY <1>3, <2>0, <2>2, <2>3, Zenon DEF S!Check
  <2>6. Guarded' BY <2>0, <2>4, <2>5, BecameHolds
  <2>7. wpc = "check" /\ wpc' \in {"idle", "after"} BY <1>3, <2>5 DEF S!Check
  <2>8. UNCHANGED <<S!extraVars, m_bIsFlushing, m_FilterState, m_StreamEvent, sample>>
    BY <1>3 DEF S!Check
  <2>9. Others' BY <1>0, <2>7, <2>8 DEF Others, S!extraVars
  <2>10. Extra' BY <1>0, <2>8 DEF Extra, ExtraRecorded, S!extraVars
  <2>11. Waits' BY <1>0, <2>7, <2>8 DEF Waits, WaitAwake
  <2> QED BY <2>6, <2>9, <2>10, <2>11, CtlWhole
<1>4. CASE S!After
  <2>1. /\ UNCHANGED <<S!streamCtl, silent, m_bStopSendExtra, m_bIsFlushing, m_FilterState,
                       m_StreamEvent, sample>>
        /\ wpc = "after"
    BY <1>4 DEF S!After
  <2>2. Guarded' BY <2>1, GuardedKept
  <2>3. CASE S!SendExtra
    <3>1. wpc' = "idle" /\ m_bStopExtraSent' = TRUE /\ extras' = extras + 1 /\ ~m_bStopExtraSent
      BY <1>4, <2>3 DEF S!After, S!SendExtra
    <3>2. extras = 0 BY <1>0, <3>1 DEF Extra, ExtraRecorded
    <3>3. extras' \in 0..1 BY <3>1, <3>2
    <3>4. m_bStopExtraSent' \in BOOLEAN /\ m_bStopExtraSent' BY <3>1
    <3>5. Extra' BY <3>3, <3>4, Zenon DEF Extra, ExtraRecorded
    <3>6. Others' BY <1>0, <2>1, <3>1 DEF Others
    <3>7. Waits' BY <1>w, <2>1, <3>1 DEF Waits, WaitAwake
    <3> QED BY <2>2, <3>5, <3>6, <3>7, CtlWhole
  <2>4. CASE ~S!SendExtra
    <3>1. UNCHANGED <<m_bStopExtraSent, extras>> BY <1>4, <2>4, Zenon DEF S!After
    <3>2. wpc' \in {"idle", IF m_FilterState = "Paused" THEN "forever" ELSE "timed"}
      BY <1>4, <2>4, Zenon DEF S!After
    <3>3. Extra' BY <1>0, <3>1 DEF Extra, ExtraRecorded
    <3>4. Others' BY <1>0, <2>1, <3>2 DEF Others
    <3>5. Waits' BY <1>0, <2>1, <3>2 DEF Waits, WaitAwake
    <3> QED BY <2>2, <3>3, <3>4, <3>5, CtlWhole
  <2> QED BY <2>3, <2>4
<1>5. CASE S!Woken
  <2>1. m_StreamEvent' = FALSE /\ wpc' = "look" /\ UNCHANGED <<S!Unlocked, sample>>
    BY <1>5 DEF S!Woken
  <2>2. sample' \in Nat \X Nat BY <1>0, <2>1 DEF Others
  <2>3. Waits' BY <2>1 DEF Waits, WaitAwake
  <2> QED BY <2>1, <2>2, <2>3, StreamingMoves
<1>6. CASE S!TimedOut
  <2>1. wpc' = "idle" /\ UNCHANGED <<S!Unlocked, m_StreamEvent, sample>>
    BY <1>6 DEF S!TimedOut
  <2>2. sample' \in Nat \X Nat BY <1>0, <2>1 DEF Others
  <2>3. Waits' BY <1>w, <2>1 DEF Waits, WaitAwake
  <2> QED BY <2>1, <2>2, <2>3, StreamingMoves
<1> QED BY <1>1, <1>2, <1>3, <1>4, <1>5, <1>6 DEF S!StreamStep

LEMMA CtlStep == CtlInv /\ S!CtlNext => CtlInv'
BY StopAtHolds, StopNowHolds, StartAtHolds, StartNowHolds, FilterStateHolds, FlushingHolds,
   StreamingHolds, Zenon DEF S!CtlNext

\* What the invariant says about the properties of the module.
LEMMA ControlFollows == CtlInv => ControlHolds
<1> SUFFICES ASSUME CtlInv PROVE ControlHolds
  OBVIOUS
<1> USE ControlAssumption
<1>1. S!SentByTheRules
  <2>1. SUFFICES ASSUME NEW a \in 0..MAX_TIME, NEW b \in 1..MAX_TIME, a < b
                 PROVE  (S!CheckSampleTimes(S!Ctl, a, b).state = "FLOWING") = S!ToBeSent(a, b)
    BY DEF S!SentByTheRules
  <2>2. PICK c \in Ctls : c = S!Ctl BY CtlIsOne
  <2>3. /\ Discards(c) /\ c.state = m_StreamState /\ c.onStop = m_StreamStateOnStop
        /\ c.start = m_tStartTime /\ c.stop = m_tStopTime
    BY <2>2, CtlIsOne
  <2>4. /\ c.start \in 0..MAX_TIME /\ c.stop \in 0..MAX_TIME
        /\ c.onStop \in States /\ c.state \in States
    BY DEF Ctls
  <2>5. c.stop < a => c.onStop = "DISCARDING" BY <2>3, <2>4 DEF Discards
  <2>6. S!ToBeSent(a, b) <=>
          \/ IF c.start < a THEN c.stop < a => c.start > c.stop
                            ELSE ~(c.stop < a) /\ c.state = "FLOWING"
          \/ c.start \in a..(b - 1)
    BY <2>3, <2>4 DEF S!ToBeSent
  <2>7. ASSUME c.stop >= a /\ c.start >= b
        PROVE  (S!CheckSampleTimes(c, a, b).state = "FLOWING") <=> S!ToBeSent(a, b)
    <3>1. S!CheckSampleTimes(c, a, b) = c BY <2>4, <2>7 DEF S!CheckSampleTimes
    <3>2. (c.state = "FLOWING") <=> S!ToBeSent(a, b) BY <2>1, <2>4, <2>6, <2>7
    <3> QED BY <3>1, <3>2
  <2>8. ASSUME c.stop >= a /\ c.start < b
        PROVE  (S!CheckSampleTimes(c, a, b).state = "FLOWING") <=> S!ToBeSent(a, b)
    <3>1. S!CheckSampleTimes(c, a, b) \in {S!ExecuteStart(S!ExecuteStop(c)), S!ExecuteStart(c)}
      BY <2>4, <2>8 DEF S!CheckSampleTimes
    <3>2. S!CheckSampleTimes(c, a, b).state = "FLOWING" BY <2>3, <3>1, ExecutionsHold
    <3>3. S!ToBeSent(a, b) BY <2>4, <2>6, <2>8
    <3> QED BY <3>2, <3>3
  <2>9. ASSUME c.stop < a /\ c.start >= b
        PROVE  (S!CheckSampleTimes(c, a, b).state = "FLOWING") <=> S!ToBeSent(a, b)
    <3>1. S!CheckSampleTimes(c, a, b) = S!ExecuteStop(c) BY <2>4, <2>9 DEF S!CheckSampleTimes
    <3>2. S!CheckSampleTimes(c, a, b).state = "DISCARDING" BY <2>3, <2>5, <2>9, <3>1, ExecutionsHold
    <3>3. ~S!ToBeSent(a, b) BY <2>1, <2>4, <2>6, <2>9
    <3> QED BY <3>2, <3>3
  <2>10. ASSUME c.stop < a /\ c.start < b /\ c.start <= c.stop
        PROVE  (S!CheckSampleTimes(c, a, b).state = "FLOWING") <=> S!ToBeSent(a, b)
    <3>1. S!CheckSampleTimes(c, a, b) = S!ExecuteStop(S!ExecuteStart(c))
      BY <2>4, <2>10 DEF S!CheckSampleTimes
    <3>2. S!CheckSampleTimes(c, a, b).state = "DISCARDING" BY <2>3, <2>5, <2>10, <3>1, ExecutionsHold
    <3>3. ~S!ToBeSent(a, b) BY <2>4, <2>6, <2>10
    <3> QED BY <3>2, <3>3
  <2>11. ASSUME c.stop < a /\ c.start < b /\ c.start > c.stop
        PROVE  (S!CheckSampleTimes(c, a, b).state = "FLOWING") <=> S!ToBeSent(a, b)
    <3>1. S!CheckSampleTimes(c, a, b) = S!ExecuteStart(S!ExecuteStop(c))
      BY <2>4, <2>11 DEF S!CheckSampleTimes
    <3>2. S!CheckSampleTimes(c, a, b).state = "FLOWING" BY <2>3, <3>1, ExecutionsHold
    <3>3. S!ToBeSent(a, b) BY <2>4, <2>6, <2>11
    <3> QED BY <3>2, <3>3
  <2>12. (S!CheckSampleTimes(c, a, b).state = "FLOWING") <=> S!ToBeSent(a, b)
    BY <2>4, <2>7, <2>8, <2>9, <2>10, <2>11
  <2>13. S!ToBeSent(a, b) \in BOOLEAN BY DEF S!ToBeSent
  <2> QED BY <2>2, <2>12, <2>13
<1>2. S!CookiesAnswered BY DEF CtlInv, S!CookiesAnswered
<1>3. S!OneExtra BY DEF CtlInv, ExtraRecorded, S!OneExtra
<1>4. S!WaitJustified BY DEF CtlInv, WaitAwake, S!WaitJustified
<1> QED BY <1>1, <1>2, <1>3, <1>4 DEF ControlHolds, S!ControlHolds

-----------------------------------------------------------------------------
(* The lists of the deferred commands.                                      *)

LEMMA LeastNumber ==
  ASSUME NEW T \in SUBSET Nat, T # {} PROVE \E i \in T : \A j \in T : i <= j
<1> DEFINE R == OpToRel(<, Nat)
<1>1. IsWellFoundedOn(R, Nat) BY NatLessThanWellFounded
<1>2. \A i, j \in Nat : <<j, i>> \in R <=> j < i BY DEF OpToRel
<1> HIDE DEF R
<1>3. PICK i \in T : \A j \in T : ~(<<j, i>> \in R) BY <1>1, WFMin
<1>4. \A j \in T : ~(j < i) BY <1>2, <1>3
<1> QED BY <1>4

LEMMA CommandOf ==
  ASSUME NEW list \in Seq(Commands)
  PROVE  /\ Len(list) \in Nat /\ DOMAIN list = 1..Len(list)
         /\ \A i \in 1..Len(list) : /\ list[i] \in Commands /\ list[i].time \in Nat
                                    /\ list[i].id \in Cmds /\ list[i].stream \in BOOLEAN
<1>1. Len(list) \in Nat /\ DOMAIN list = 1..Len(list) /\ \A i \in 1..Len(list) : list[i] \in Commands
  OBVIOUS
<1> QED BY <1>1 DEF Commands

\* The commands that are not later are the first ones.
LEMMA NotLaterFirst ==
  ASSUME NEW list, ListHolds(list), NEW time \in Nat
  PROVE  \E m \in 0..Len(list) :
           /\ {i \in DOMAIN list : list[i].time <= time} = 1..m
           /\ \A j \in 1..m : list[j].time <= time
           /\ \A j \in (m + 1)..Len(list) : time <= list[j].time
<1>1. /\ Len(list) \in Nat /\ DOMAIN list = 1..Len(list)
      /\ \A i \in 1..Len(list) : list[i].time \in Nat
  BY CommandOf DEF ListHolds
<1>2. PICK T : T = {i \in 0..Len(list) : i = Len(list) \/ list[i + 1].time > time} OBVIOUS
<1>3. T \in SUBSET Nat /\ T # {} BY <1>1, <1>2
<1>4. PICK m \in T : \A j \in T : m <= j BY <1>3, LeastNumber
<1>0. Len(list) \in Nat BY <1>1
<1>5. m \in Nat /\ m \in 0..Len(list) /\ (m = Len(list) \/ list[m + 1].time > time) BY <1>2, <1>4
<1>6. ASSUME NEW j \in 1..m PROVE j \in 1..Len(list) /\ list[j].time <= time
  <2>1. j - 1 \in 0..Len(list) /\ j - 1 # Len(list) /\ ~(m <= j - 1) /\ j \in 1..Len(list) /\ (j - 1) + 1 = j
    <3>1. m \in Nat /\ m <= Len(list) /\ j \in 1..m BY <1>0, <1>5, <1>6
    <3> QED BY <1>0, <3>1
  <2>2. ~(list[j].time > time) BY <1>2, <1>4, <2>1
  <2> QED BY <1>1, <2>1, <2>2
<1>7. ASSUME NEW j \in (m + 1)..Len(list) PROVE j \in 1..Len(list) /\ list[j].time > time
  <2>1. /\ m # Len(list) /\ m + 1 \in 1..Len(list) /\ j \in 1..Len(list)
        /\ (j = m + 1 \/ m + 1 < j)
    <3>1. m \in Nat /\ j \in (m + 1)..Len(list) BY <1>5, <1>7
    <3> QED BY <1>0, <3>1
  <2>2. list[m + 1].time > time BY <1>5, <2>1
  <2>3. list[m + 1].time <= list[j].time BY <1>1, <2>1 DEF ListHolds
  <2> QED BY <1>1, <2>1, <2>2, <2>3
<1>8. {i \in DOMAIN list : list[i].time <= time} = 1..m
  <2>1. \A i \in 1..Len(list) : list[i].time <= time <=> i \in 1..m
    <3>1. ASSUME NEW i \in 1..Len(list), i \notin 1..m PROVE ~(list[i].time <= time)
      <4>1. i \in (m + 1)..Len(list) BY <1>0, <1>5, <3>1
      <4> QED BY <1>1, <1>7, <4>1
    <3> QED BY <1>6, <3>1
  <2> QED BY <1>1, <1>6, <2>1
<1>9. \A j \in (m + 1)..Len(list) : time <= list[j].time BY <1>1, <1>7
<1> QED BY <1>5, <1>6, <1>8, <1>9

LEMMA NotLaterCounted ==
  ASSUME NEW list, ListHolds(list), NEW time \in Nat
  PROVE  LET k == Cardinality({i \in DOMAIN list : list[i].time <= time})
         IN  /\ k \in 0..Len(list)
             /\ \A j \in 1..k : list[j].time <= time
             /\ \A j \in (k + 1)..Len(list) : time <= list[j].time
<1>1. PICK m \in 0..Len(list) :
        /\ {i \in DOMAIN list : list[i].time <= time} = 1..m
        /\ \A j \in 1..m : list[j].time <= time
        /\ \A j \in (m + 1)..Len(list) : time <= list[j].time
  BY NotLaterFirst
<1>2. Cardinality(1..m) = m
  <2>1. m \in Nat /\ m \in Int /\ 1 \in Int BY <1>1
  <2>2. Cardinality(1..m) = IF 1 > m THEN 0 ELSE m - 1 + 1 BY <2>1, FS_Interval
  <2> QED BY <2>1, <2>2
<1> QED BY <1>1, <1>2

\* The parts of t: those of s with p after the first k.
Placed(t, s, p, k) ==
  /\ Len(t) = Len(s) + 1
  /\ \A i \in 1..k : t[i] = s[i]
  /\ t[k + 1] = p
  /\ \A i \in (k + 1)..Len(s) : t[i + 1] = s[i]

LEMMA Joined ==
  ASSUME NEW a \in Seq(Commands), NEW b \in Seq(Commands)
  PROVE  /\ a \o b \in Seq(Commands) /\ Len(a \o b) = Len(a) + Len(b) /\ Len(a) \in Nat /\ Len(b) \in Nat
         /\ \A i \in 1..Len(a) : (a \o b)[i] = a[i]
         /\ \A i \in 1..Len(b) : (a \o b)[Len(a) + i] = b[i]
OBVIOUS

\* The first k commands of a list, and those behind the first k.
LEMMA FrontIs ==
  ASSUME NEW s \in Seq(Commands), NEW k \in 0..Len(s), NEW a, a = SubSeq(s, 1, k)
  PROVE  a \in Seq(Commands) /\ Len(a) = k /\ \A i \in 1..k : a[i] = s[i]
<1>1. Len(s) \in Nat /\ k \in Int /\ 1 \in Int /\ \A i \in 1..k : s[i] \in Commands OBVIOUS
<1>2. /\ a \in Seq(Commands) /\ Len(a) = IF 1 <= k THEN k - 1 + 1 ELSE 0
      /\ \A i \in 1..(k - 1 + 1) : a[i] = s[1 + i - 1]
  BY <1>1, SubSeqProperties
<1>3. k \in Nat /\ k - 1 + 1 = k /\ \A i \in 1..k : 1 + i - 1 = i BY <1>1
<1> QED BY <1>2, <1>3

LEMMA RestIs ==
  ASSUME NEW s \in Seq(Commands), NEW k \in 0..Len(s), NEW b, b = SubSeq(s, k + 1, Len(s))
  PROVE  b \in Seq(Commands) /\ Len(b) = Len(s) - k /\ \A i \in 1..(Len(s) - k) : b[i] = s[k + i]
<1>1. /\ Len(s) \in Nat /\ k \in Nat /\ k <= Len(s) /\ k + 1 \in Int /\ Len(s) \in Int
      /\ \A i \in (k + 1)..Len(s) : s[i] \in Commands
  OBVIOUS
<1>2. /\ b \in Seq(Commands) /\ Len(b) = IF k + 1 <= Len(s) THEN Len(s) - (k + 1) + 1 ELSE 0
      /\ \A i \in 1..(Len(s) - (k + 1) + 1) : b[i] = s[(k + 1) + i - 1]
  BY <1>1, SubSeqProperties
<1>3. /\ Len(s) - (k + 1) + 1 = Len(s) - k /\ (~(k + 1 <= Len(s)) => Len(s) - k = 0)
      /\ \A i \in 1..(Len(s) - k) : (k + 1) + i - 1 = k + i
  BY <1>1
<1> QED BY <1>2, <1>3

LEMMA PlacedIs ==
  ASSUME NEW s \in Seq(Commands), NEW p \in Commands, NEW k \in 0..Len(s)
  PROVE  LET t == SubSeq(s, 1, k) \o <<p>> \o SubSeq(s, k + 1, Len(s))
         IN  t \in Seq(Commands) /\ Placed(t, s, p, k)
<1>1. Len(s) \in Nat /\ \A i \in 1..Len(s) : s[i] \in Commands OBVIOUS
<1>2. PICK a, b : a = SubSeq(s, 1, k) /\ b = SubSeq(s, k + 1, Len(s)) OBVIOUS
<1>3. /\ a \in Seq(Commands) /\ Len(a) = k /\ \A i \in 1..k : a[i] = s[i]
      /\ b \in Seq(Commands) /\ Len(b) = Len(s) - k /\ \A i \in 1..(Len(s) - k) : b[i] = s[k + i]
  BY <1>2, FrontIs, RestIs
<1>4. PICK c : c = a \o <<p>> OBVIOUS
<1>5. c \in Seq(Commands) /\ Len(c) = k + 1 /\ (\A i \in 1..k : c[i] = s[i]) /\ c[k + 1] = p
  <2>1. PICK one : one = <<p>> OBVIOUS
  <2>2. one \in Seq(Commands) /\ Len(one) = 1 /\ one[1] = p BY <2>1
  <2>3. c = a \o one BY <1>4, <2>1
  <2>4. a \in Seq(Commands) /\ Len(a) = k BY <1>3
  <2>5. /\ c \in Seq(Commands) /\ Len(c) = Len(a) + Len(one) /\ \A i \in 1..Len(a) : c[i] = a[i]
        /\ \A i \in 1..Len(one) : c[Len(a) + i] = one[i]
    BY <2>2, <2>3, <2>4, Joined
  <2>6. 1 \in 1..Len(one) BY <2>2
  <2>7. Len(c) = k + 1 /\ (\A i \in 1..k : c[i] = a[i]) /\ c[k + 1] = p BY <2>2, <2>4, <2>5, <2>6
  <2> QED BY <1>3, <2>5, <2>7
<1>6. PICK t : t = c \o b OBVIOUS
<1>7. /\ t \in Seq(Commands) /\ Len(t) = Len(s) + 1
      /\ \A i \in 1..(k + 1) : t[i] = c[i]
      /\ \A i \in 1..(Len(s) - k) : t[(k + 1) + i] = b[i]
  BY <1>1, <1>3, <1>5, <1>6
<1>8. ASSUME NEW i \in (k + 1)..Len(s) PROVE t[i + 1] = s[i]
  <2>1. PICK m : m = i - k OBVIOUS
  <2>2. m \in 1..(Len(s) - k) /\ (k + 1) + m = i + 1 /\ k + m = i BY <1>1, <2>1
  <2> QED BY <1>3, <1>7, <2>2
<1>9. (\A i \in 1..k : t[i] = s[i]) /\ t[k + 1] = p
  <2>1. k + 1 \in 1..(k + 1) /\ \A i \in 1..k : i \in 1..(k + 1) BY <1>1
  <2> QED BY <1>5, <1>7, <2>1
<1> QED BY <1>2, <1>4, <1>6, <1>7, <1>8, <1>9 DEF Placed

\* A new command behind everything that is not later.
LEMMA PlacedHolds ==
  ASSUME NEW s, ListHolds(s), NEW p \in Commands, p.id \notin Ids(s), NEW k \in 0..Len(s),
         \A j \in 1..k : s[j].time <= p.time, \A j \in (k + 1)..Len(s) : p.time <= s[j].time,
         NEW t \in Seq(Commands), Placed(t, s, p, k)
  PROVE  ListHolds(t) /\ Ids(t) = Ids(s) \cup {p.id}
<1>1. /\ Len(s) \in Nat /\ DOMAIN s = 1..Len(s) /\ Len(t) = Len(s) + 1 /\ DOMAIN t = 1..Len(t)
      /\ k \in Nat /\ k <= Len(s)
  BY CommandOf DEF ListHolds, Placed
<1>2. \A i \in 1..Len(s) : s[i].id # p.id BY <1>1 DEF Ids
<1>3. ASSUME NEW i \in 1..Len(t)
      PROVE  \/ i \in 1..k /\ i \in 1..Len(s) /\ t[i] = s[i]
             \/ i = k + 1 /\ t[i] = p
             \/ i - 1 \in (k + 1)..Len(s) /\ i - 1 \in 1..Len(s) /\ t[i] = s[i - 1]
  <2>1. CASE i \in 1..k BY <1>1, <2>1 DEF Placed
  <2>2. CASE i = k + 1 BY <2>2 DEF Placed
  <2>3. CASE i > k + 1
    <3>1. i - 1 \in (k + 1)..Len(s) /\ i - 1 \in 1..Len(s) /\ (i - 1) + 1 = i BY <1>1, <2>3
    <3> QED BY <3>1 DEF Placed
  <2> QED BY <1>1, <2>1, <2>2, <2>3
<1>4. ASSUME NEW i \in 1..Len(t), NEW j \in 1..Len(t), i < j
      PROVE  t[i].time <= t[j].time /\ t[i].id # t[j].id
  <2>1. CASE i \in 1..k
    <3>1. i \in 1..Len(s) /\ t[i] = s[i] BY <1>1, <1>3, <2>1
    <3>2. CASE j \in 1..k
      <4>1. j \in 1..Len(s) /\ t[j] = s[j] BY <1>1, <1>3, <3>2
      <4> QED BY <1>4, <3>1, <4>1 DEF ListHolds
    <3>3. CASE j = k + 1
      <4>1. t[j] = p BY <3>3 DEF Placed
      <4> QED BY <1>2, <2>1, <3>1, <4>1
    <3>4. CASE j > k + 1
      <4>1. j - 1 \in 1..Len(s) /\ t[j] = s[j - 1] /\ i < j - 1 BY <1>1, <1>3, <2>1, <3>4
      <4> QED BY <3>1, <4>1 DEF ListHolds
    <3> QED BY <1>1, <3>2, <3>3, <3>4
  <2>2. CASE i = k + 1
    <3>1. t[i] = p BY <2>2 DEF Placed
    <3>2. j - 1 \in (k + 1)..Len(s) /\ j - 1 \in 1..Len(s) /\ t[j] = s[j - 1] BY <1>1, <1>3, <1>4, <2>2
    <3> QED BY <1>2, <3>1, <3>2
  <2>3. CASE i > k + 1
    <3>1. i - 1 \in 1..Len(s) /\ t[i] = s[i - 1] BY <1>1, <1>3, <2>3
    <3>2. j - 1 \in 1..Len(s) /\ t[j] = s[j - 1] /\ i - 1 < j - 1 BY <1>1, <1>3, <1>4, <2>3
    <3> QED BY <3>1, <3>2 DEF ListHolds
  <2> QED BY <1>1, <2>1, <2>2, <2>3
<1>5. Ids(t) = Ids(s) \cup {p.id}
  <2>1. ASSUME NEW i \in 1..Len(t) PROVE t[i].id \in Ids(s) \cup {p.id}
    BY <1>1, <1>3 DEF Ids
  <2>2. p.id \in Ids(t)
    <3>1. k + 1 \in DOMAIN t /\ t[k + 1] = p BY <1>1 DEF Placed
    <3> QED BY <3>1 DEF Ids
  <2>3. ASSUME NEW i \in 1..Len(s) PROVE s[i].id \in Ids(t)
    <3>1. CASE i \in 1..k
      <4>1. i \in DOMAIN t /\ t[i] = s[i] BY <1>1, <3>1 DEF Placed
      <4> QED BY <4>1 DEF Ids
    <3>2. CASE i \notin 1..k
      <4>1. i + 1 \in DOMAIN t /\ t[i + 1] = s[i] BY <1>1, <3>2 DEF Placed
      <4> QED BY <4>1 DEF Ids
    <3> QED BY <3>1, <3>2
  <2>4. Ids(t) \subseteq Ids(s) \cup {p.id} BY <1>1, <2>1 DEF Ids
  <2>5. Ids(s) \subseteq Ids(t) BY <1>1, <2>3 DEF Ids
  <2> QED BY <2>2, <2>4, <2>5
<1> QED BY <1>4, <1>5 DEF ListHolds

\* A list without a command.
LEMMA WithoutHolds ==
  ASSUME NEW s, ListHolds(s), NEW id
  PROVE  ListHolds(C!Without(s, id)) /\ Ids(C!Without(s, id)) = Ids(s) \ {id}
<1>1. Len(s) \in Nat /\ DOMAIN s = 1..Len(s) /\ s \in Seq(Commands) BY CommandOf DEF ListHolds
<1>2. CASE \A i \in DOMAIN s : s[i].id # id
  <2>1. C!Without(s, id) = s BY <1>2 DEF C!Without
  <2>2. id \notin Ids(s) BY <1>2 DEF Ids
  <2> QED BY <2>1, <2>2
<1>3. CASE ~(\A i \in DOMAIN s : s[i].id # id)
  <2>1. PICK k : k = CHOOSE i \in DOMAIN s : s[i].id = id OBVIOUS
  <2>2. k \in 1..Len(s) /\ s[k].id = id BY <1>1, <1>3, <2>1
  <2>3. C!Without(s, id) = SubSeq(s, 1, k - 1) \o SubSeq(s, k + 1, Len(s))
    BY <1>3, <2>1, Zenon DEF C!Without
  <2>4. PICK a, b : a = SubSeq(s, 1, k - 1) /\ b = SubSeq(s, k + 1, Len(s)) OBVIOUS
  <2>5. /\ a \in Seq(Commands) /\ Len(a) = k - 1 /\ \A i \in 1..(k - 1) : a[i] = s[i]
        /\ b \in Seq(Commands) /\ Len(b) = Len(s) - k /\ \A i \in 1..(Len(s) - k) : b[i] = s[k + i]
    <3>1. PICK j : j = k - 1 OBVIOUS
    <3>2. j \in 0..Len(s) /\ k \in 0..Len(s) BY <1>1, <2>2, <3>1
    <3>3. a = SubSeq(s, 1, j) BY <2>4, <3>1
    <3>4. a \in Seq(Commands) /\ Len(a) = j /\ \A i \in 1..j : a[i] = s[i]
      BY <1>1, <3>2, <3>3, FrontIs
    <3>5. b \in Seq(Commands) /\ Len(b) = Len(s) - k /\ \A i \in 1..(Len(s) - k) : b[i] = s[k + i]
      BY <1>1, <2>4, <3>2, RestIs
    <3> QED BY <3>1, <3>4, <3>5
  <2>6. PICK t : t = a \o b OBVIOUS
  <2>7. /\ t \in Seq(Commands) /\ Len(t) = Len(s) - 1
        /\ \A i \in 1..(k - 1) : t[i] = a[i]
        /\ \A i \in 1..(Len(s) - k) : t[(k - 1) + i] = b[i]
    <3>1. Len(a) + Len(b) = Len(s) - 1 BY <1>1, <2>2, <2>5
    <3>2. /\ t \in Seq(Commands) /\ Len(t) = Len(a) + Len(b)
          /\ \A i \in 1..Len(a) : t[i] = a[i]
          /\ \A i \in 1..Len(b) : t[Len(a) + i] = b[i]
      BY <2>5, <2>6, Joined
    <3> QED BY <2>5, <3>1, <3>2
  <2>d. DOMAIN t = 1..Len(t) BY <2>7
  <2>8. ASSUME NEW i \in 1..Len(t)
        PROVE  \E m \in 1..Len(s) : t[i] = s[m] /\ m = IF i < k THEN i ELSE i + 1
    <3>1. CASE i < k BY <1>1, <2>2, <2>5, <2>7, <3>1
    <3>2. CASE i >= k
      <4>1. PICK m : m = i - k + 1 OBVIOUS
      <4>2. m \in 1..(Len(s) - k) /\ (k - 1) + m = i /\ k + m = i + 1 /\ i + 1 \in 1..Len(s) /\ ~(i < k)
        BY <1>1, <2>2, <2>7, <3>2, <4>1
      <4> QED BY <2>5, <2>7, <4>2
    <3> QED BY <2>2, <3>1, <3>2
  <2>9. ASSUME NEW i \in 1..Len(t), NEW j \in 1..Len(t), i < j
        PROVE  t[i].time <= t[j].time /\ t[i].id # t[j].id
    <3>1. PICK m \in 1..Len(s) : t[i] = s[m] /\ m = IF i < k THEN i ELSE i + 1 BY <2>8
    <3>2. PICK n \in 1..Len(s) : t[j] = s[n] /\ n = IF j < k THEN j ELSE j + 1 BY <2>8
    <3>3. m < n BY <2>2, <2>9, <3>1, <3>2
    <3> QED BY <3>1, <3>2, <3>3 DEF ListHolds
  <2>10. Ids(t) \subseteq Ids(s) \ {id}
    <3>1. ASSUME NEW i \in 1..Len(t) PROVE t[i].id \in Ids(s) /\ t[i].id # id
      <4>1. PICK m \in 1..Len(s) : t[i] = s[m] /\ m = IF i < k THEN i ELSE i + 1 BY <2>8
      <4>2. m < k \/ k < m BY <2>2, <4>1
      <4> QED BY <1>1, <2>2, <4>1, <4>2 DEF ListHolds, Ids
    <3> QED BY <2>d, <3>1 DEF Ids
  <2>11. Ids(s) \ {id} \subseteq Ids(t)
    <3>1. ASSUME NEW i \in 1..Len(s), s[i].id # id PROVE s[i].id \in Ids(t)
      <4>1. CASE i < k
        <5>1. i \in 1..(k - 1) /\ i \in 1..Len(t) BY <1>1, <2>2, <2>7, <4>1
        <5>2. i \in DOMAIN t /\ t[i] = s[i] BY <2>d, <2>5, <2>7, <5>1
        <5> QED BY <5>2 DEF Ids
      <4>2. CASE i > k
        <5>1. PICK m : m = i - k OBVIOUS
        <5>2. m \in 1..(Len(s) - k) /\ (k - 1) + m = i - 1 /\ k + m = i /\ i - 1 \in 1..Len(t)
          BY <1>1, <2>2, <2>7, <4>2, <5>1
        <5>3. t[i - 1] = s[i] BY <2>5, <2>7, <5>2
        <5> QED BY <2>d, <5>2, <5>3 DEF Ids
      <4> QED BY <2>2, <3>1, <4>1, <4>2
    <3> QED BY <1>1, <3>1 DEF Ids
  <2>12. ListHolds(t) BY <2>7, <2>9 DEF ListHolds
  <2> QED BY <2>3, <2>4, <2>6, <2>10, <2>11, <2>12
<1> QED BY <1>2, <1>3

-----------------------------------------------------------------------------
(* The queue's operations.                                                  *)

LEMMA FoundIs ==
  ASSUME NEW x, QueueHolds(x), NEW id
  PROVE  C!Found(x, id) <=> id \in OnQueue(x)
BY DEF C!Found, C!Queued, OnQueue, Ids

LEMMA FirstTimeIs ==
  ASSUME NEW list \in Seq(Commands)
  PROVE  /\ C!FirstTime(list) \in Nat
         /\ list # <<>> => Head(list).id \in Ids(list)
<1>1. ASSUME list # <<>>
      PROVE  /\ 1 \in 1..Len(list) /\ Head(list) = list[1] /\ DOMAIN list = 1..Len(list)
             /\ list[1].time \in Nat
  <2>1. Len(list) \in Nat /\ 1 \in 1..Len(list) /\ Head(list) = list[1] BY <1>1
  <2> QED BY <2>1, CommandOf
<1>2. C!FirstTime(list) \in Nat
  <2>1. CASE list = <<>> BY <2>1 DEF C!FirstTime
  <2>2. CASE list # <<>> BY <1>1, <2>2 DEF C!FirstTime
  <2> QED BY <2>1, <2>2
<1>3. list # <<>> => Head(list).id \in Ids(list) BY <1>1 DEF Ids
<1> QED BY <1>2, <1>3

\* The time that is asked for is a time; the lists stay.
LEMMA AdviseHolds ==
  ASSUME NEW x, QueueHolds(x)
  PROVE  QueueHolds(C!SetTimeAdvise(x)) /\ OnQueue(C!SetTimeAdvise(x)) = OnQueue(x)
<1>1. x \in Queues /\ x.presentation \in Seq(Commands) /\ x.stream \in Seq(Commands)
  BY DEF QueueHolds, Queues
<1>2. C!Earliest(x) \in Nat
  <2>1. C!FirstTime(x.presentation) \in Nat /\ C!FirstTime(x.stream) \in Nat BY <1>1, FirstTimeIs
  <2>2. C!StreamFirst(x) \in Nat BY <2>1, ControlAssumption DEF C!StreamFirst
  <2> QED BY <2>1, <2>2 DEF C!Earliest
<1>3. PICK t \in Nat : t = C!Earliest(x) BY <1>2
<1>4. PICK y : y = C!SetTimeAdvise(x) OBVIOUS
<1>5. y \in Queues /\ y.presentation = x.presentation /\ y.stream = x.stream
  <2>1. CASE y = x BY <1>1, <2>1
  <2>2. CASE y = [x EXCEPT !.evDue = FALSE, !.dwAdvise = TRUE, !.tCurrentAdvise = t, !.pending = t]
    BY <1>1, <2>2 DEF Queues
  <2>3. CASE y = [x EXCEPT !.evDue = FALSE] BY <1>1, <2>3 DEF Queues
  <2> QED BY <1>3, <1>4, <2>1, <2>2, <2>3, Zenon DEF C!SetTimeAdvise
<1>6. QueueHolds(y) /\ OnQueue(y) = OnQueue(x) BY <1>5 DEF QueueHolds, OnQueue
<1> QED BY <1>4, <1>6

LEMMA SameCount ==
  ASSUME NEW X PROVE C!Cardinality(X) = Cardinality(X)
BY Zenon DEF Cardinality, C!Cardinality

LEMMA InsertHolds ==
  ASSUME NEW x, QueueHolds(x), NEW c \in Commands, c.id \notin OnQueue(x)
  PROVE  QueueHolds(C!Insert(x, c)) /\ OnQueue(C!Insert(x, c)) = OnQueue(x) \cup {c.id}
<1>1. /\ x \in Queues /\ ListHolds(x.presentation) /\ ListHolds(x.stream)
      /\ Ids(x.presentation) \cap Ids(x.stream) = {}
      /\ c.id \notin Ids(x.presentation) /\ c.id \notin Ids(x.stream)
  BY DEF QueueHolds, OnQueue
<1>2. c.time \in Nat /\ c.stream \in BOOLEAN BY DEF Commands
<1>3. PICK which \in {"stream", "presentation"} : which = C!ListOf(c) BY DEF C!ListOf
<1>4. PICK list : list = x[which] OBVIOUS
<1>5. ListHolds(list) /\ c.id \notin Ids(list) /\ list \in Seq(Commands)
  <2>1. ListHolds(list) /\ c.id \notin Ids(list) BY <1>1, <1>3, <1>4
  <2> QED BY <2>1 DEF ListHolds
<1>6. PICK k : k = Cardinality({i \in DOMAIN list : list[i].time <= c.time}) OBVIOUS
<1>c. k = C!Cardinality({i \in DOMAIN list : list[i].time <= c.time}) BY <1>6, SameCount, Zenon
<1>7. /\ k \in 0..Len(list)
      /\ \A j \in 1..k : list[j].time <= c.time
      /\ \A j \in (k + 1)..Len(list) : c.time <= list[j].time
  BY <1>2, <1>5, <1>6, NotLaterCounted
<1>8. PICK t : t = SubSeq(list, 1, k) \o <<c>> \o SubSeq(list, k + 1, Len(list)) OBVIOUS
<1>9. t \in Seq(Commands) /\ Placed(t, list, c, k) BY <1>5, <1>7, <1>8, PlacedIs
<1>10. ListHolds(t) /\ Ids(t) = Ids(list) \cup {c.id} BY <1>5, <1>7, <1>9, PlacedHolds
<1>11. PICK y : y = [x EXCEPT ![which] = t] OBVIOUS
<1>12. C!Insert(x, c) = C!SetTimeAdvise(y) BY <1>3, <1>4, <1>c, <1>8, <1>11, Zenon DEF C!Insert
<1>13. QueueHolds(y) /\ OnQueue(y) = OnQueue(x) \cup {c.id}
  <2>1. CASE which = "stream"
    <3>1. y \in Queues /\ y.presentation = x.presentation /\ y.stream = t
      BY <1>1, <1>9, <1>11, <2>1 DEF Queues
    <3>2. list = x.stream BY <1>4, <2>1
    <3> QED BY <1>1, <1>10, <3>1, <3>2 DEF QueueHolds, OnQueue
  <2>2. CASE which = "presentation"
    <3>1. y \in Queues /\ y.presentation = t /\ y.stream = x.stream
      BY <1>1, <1>9, <1>11, <2>2 DEF Queues
    <3>2. list = x.presentation BY <1>4, <2>2
    <3> QED BY <1>1, <1>10, <3>1, <3>2 DEF QueueHolds, OnQueue
  <2> QED BY <2>1, <2>2
<1> QED BY <1>12, <1>13, AdviseHolds

LEMMA RemoveHolds ==
  ASSUME NEW x, QueueHolds(x), NEW id
  PROVE  QueueHolds(C!Remove(x, id)) /\ OnQueue(C!Remove(x, id)) = OnQueue(x) \ {id}
<1>1. /\ x \in Queues /\ ListHolds(x.presentation) /\ ListHolds(x.stream)
      /\ Ids(x.presentation) \cap Ids(x.stream) = {}
  BY DEF QueueHolds
<1>2. PICK p, s : p = C!Without(x.presentation, id) /\ s = C!Without(x.stream, id) OBVIOUS
<1>3. /\ ListHolds(p) /\ Ids(p) = Ids(x.presentation) \ {id}
      /\ ListHolds(s) /\ Ids(s) = Ids(x.stream) \ {id}
  BY <1>1, <1>2, WithoutHolds
<1>4. p \in Seq(Commands) /\ s \in Seq(Commands) BY <1>3 DEF ListHolds
<1>5. PICK y : y = [x EXCEPT !.presentation = p, !.stream = s] OBVIOUS
<1>6. C!Remove(x, id) = C!SetTimeAdvise(y) BY <1>2, <1>5 DEF C!Remove
<1>7. y \in Queues /\ y.presentation = p /\ y.stream = s BY <1>1, <1>4, <1>5 DEF Queues
<1>8. QueueHolds(y) /\ OnQueue(y) = OnQueue(x) \ {id} BY <1>1, <1>3, <1>7 DEF QueueHolds, OnQueue
<1> QED BY <1>6, <1>8, AdviseHolds

-----------------------------------------------------------------------------
(* The steps of the deferred commands keep CmdInv.                          *)

\* The queue changes, the commands on it stay.
LEMMA SameCommands ==
  ASSUME CmdInv, QueueHolds(q'), OnQueue(q') = OnQueue(q),
         UNCHANGED <<m_pQueue, created, C!execVars, C!appVars, settled>>
  PROVE  CmdInv'
<1> USE DEF C!execVars, C!appVars
<1>1. CmdTypes' BY DEF CmdInv, CmdTypes
<1>2. OffForGood' BY DEF CmdInv, OffForGood, Requeueing
<1>3. KnowsThatItRan' BY DEF CmdInv, KnowsThatItRan
<1>4. NothingBefore' BY DEF CmdInv, NothingBefore
<1> QED BY <1>1, <1>2, <1>3, <1>4 DEF CmdInv

\* The executing thread goes on to a command that is made.
LEMMA ExecutorMoves ==
  ASSUME CmdInv, xpc' \in {"look", "wait", "got", "remove", "forget", "done"},
         xpc' \in {"got", "remove", "forget", "done"} => xcmd' \in created,
         xpc \in {"remove", "forget"} => xpc' \in {"remove", "forget"} /\ xcmd' = xcmd,
         UNCHANGED <<q, m_pQueue, created, C!appVars, ran, settled>>
  PROVE  CmdInv'
<1> USE DEF C!appVars
<1>1. CmdTypes' BY DEF CmdInv, CmdTypes
<1>2. OffForGood' BY DEF CmdInv, OffForGood, Requeueing
<1>3. KnowsThatItRan' BY DEF CmdInv, KnowsThatItRan
<1>4. NothingBefore' BY DEF CmdInv, NothingBefore
<1>5. QueueHolds(q') BY DEF CmdInv
<1> QED BY <1>1, <1>2, <1>3, <1>4, <1>5 DEF CmdInv

LEMMA NextIsQueued ==
  ASSUME CmdInv, C!NextCommand # <<>>
  PROVE  C!NextCommand[1].id \in created
<1>1. q.presentation \in Seq(Commands) /\ q.stream \in Seq(Commands)
  BY DEF CmdInv, QueueHolds, Queues
<1>2. /\ q.presentation # <<>> => Head(q.presentation).id \in created
      /\ q.stream # <<>> => Head(q.stream).id \in created
  BY <1>1, FirstTimeIs DEF CmdInv, NothingBefore, OnQueue
<1>3. C!StreamFirst(q) # 0 => q.stream # <<>> BY DEF C!StreamFirst
<1> QED BY <1>2, <1>3 DEF C!NextCommand

LEMMA DueForIsQueued ==
  ASSUME CmdInv, NEW t, C!DueFor(t) # <<>>
  PROVE  C!DueFor(t)[1].id \in created
<1>1. q.presentation \in Seq(Commands) /\ q.stream \in Seq(Commands)
  BY DEF CmdInv, QueueHolds, Queues
<1>2. /\ q.presentation # <<>> => Head(q.presentation).id \in created
      /\ q.stream # <<>> => Head(q.stream).id \in created
  BY <1>1, FirstTimeIs DEF CmdInv, NothingBefore, OnQueue
<1> QED BY <1>2 DEF C!DueFor

LEMMA NewHolds ==
  ASSUME CmdInv, NEW id \in Cmds, NEW t \in CmdTimes, NEW s \in BOOLEAN, C!New(id, t, s)
  PROVE  CmdInv'
<1>1. PICK c : c = [id |-> id, time |-> t, stream |-> s] OBVIOUS
<1>2. c \in Commands /\ c.id = id BY <1>1, ControlAssumption DEF Commands
<1>3. /\ id \notin created /\ created' = created \cup {id} /\ apc = "idle"
      /\ m_pQueue' = [m_pQueue EXCEPT ![id] = TRUE]
      /\ UNCHANGED <<xpc, xcmd, ran, apc, acmd, atime, settled>>
  BY DEF C!New, C!execVars, C!appVars
<1>4. q' = C!Insert(q, c) BY <1>1 DEF C!New, C!CDeferredCommand
<1>5. id \notin OnQueue(q) BY <1>3 DEF CmdInv, NothingBefore
<1>6. QueueHolds(q') /\ OnQueue(q') = OnQueue(q) \cup {id}
  BY <1>2, <1>4, <1>5, InsertHolds DEF CmdInv
<1>7. ran[id] = 0 /\ settled[id] = 0 BY <1>3 DEF CmdInv, NothingBefore
<1>8. CmdTypes' BY <1>3 DEF CmdInv, CmdTypes
<1>9. OffForGood' BY <1>3, <1>6, <1>7 DEF CmdInv, OffForGood, Requeueing
<1>10. KnowsThatItRan' BY <1>3, <1>7 DEF CmdInv, CmdTypes, KnowsThatItRan
<1>11. NothingBefore' BY <1>3, <1>6 DEF CmdInv, NothingBefore
<1> QED BY <1>6, <1>8, <1>9, <1>10, <1>11 DEF CmdInv

LEMMA CancelHolds ==
  ASSUME CmdInv, NEW id \in Cmds, C!Cancel(id)
  PROVE  CmdInv'
<1>1. /\ apc = "idle" /\ apc' = "cancelled" /\ acmd' = id
      /\ settled' = [settled EXCEPT ![id] = @ + 1]
      /\ UNCHANGED <<m_pQueue, created, xpc, xcmd, ran, atime>>
  BY DEF C!Cancel, C!execVars
<1>2. id \in OnQueue(q) BY FoundIs DEF C!Cancel, CmdInv
<1>3. QueueHolds(q') /\ OnQueue(q') = OnQueue(q) \ {id} BY RemoveHolds DEF C!Cancel, CmdInv
<1>4. settled[id] = 0 BY <1>2 DEF CmdInv, CmdTypes, OffForGood
<1>5. id \in created BY <1>2 DEF CmdInv, NothingBefore
<1>6. settled' \in [Cmds -> 0..1] /\ \A c \in Cmds : c # id => settled'[c] = settled[c]
  BY <1>1, <1>4 DEF CmdInv, CmdTypes
<1>7. CmdTypes' BY <1>1, <1>5, <1>6 DEF CmdInv, CmdTypes
<1>8. OffForGood' BY <1>1, <1>3, <1>6 DEF CmdInv, OffForGood, Requeueing
<1>9. KnowsThatItRan' BY <1>1 DEF CmdInv, KnowsThatItRan
<1>10. NothingBefore' BY <1>1, <1>3, <1>5, <1>6 DEF CmdInv, NothingBefore
<1> QED BY <1>3, <1>7, <1>8, <1>9, <1>10 DEF CmdInv

LEMMA CancelledHolds ==
  ASSUME CmdInv, C!Cancelled
  PROVE  CmdInv'
<1>1. /\ apc = "cancelled" /\ apc' = "idle"
      /\ m_pQueue' = [m_pQueue EXCEPT ![acmd] = FALSE]
      /\ UNCHANGED <<q, created, xpc, xcmd, ran, atime, settled>>
  BY DEF C!Cancelled, C!execVars
<1>2. m_pQueue' \in [Cmds -> BOOLEAN] /\ \A c \in Cmds : m_pQueue'[c] => m_pQueue[c]
  BY <1>1 DEF CmdInv, CmdTypes
<1>3. CmdTypes' BY <1>1, <1>2 DEF CmdInv, CmdTypes
<1>4. OffForGood' BY <1>1 DEF CmdInv, OffForGood, Requeueing
<1>5. KnowsThatItRan' BY <1>1, <1>2 DEF CmdInv, KnowsThatItRan
<1>6. NothingBefore' BY <1>1 DEF CmdInv, NothingBefore
<1>7. QueueHolds(q') BY <1>1 DEF CmdInv
<1> QED BY <1>3, <1>4, <1>5, <1>6, <1>7 DEF CmdInv

LEMMA PostponeHolds ==
  ASSUME CmdInv, NEW id \in Cmds, NEW t \in CmdTimes, C!Postpone(id, t)
  PROVE  CmdInv'
<1>1. /\ apc = "idle" /\ apc' \in {"requeue", "requeueStream"} /\ acmd' = id /\ atime' = t
      /\ UNCHANGED <<m_pQueue, created, xpc, xcmd, ran, settled>>
  BY DEF C!Postpone, C!execVars
<1>2. id \in OnQueue(q) BY FoundIs DEF C!Postpone, CmdInv
<1>3. QueueHolds(q') /\ OnQueue(q') = OnQueue(q) \ {id} BY RemoveHolds DEF C!Postpone, CmdInv
<1>4. settled[id] # 1 BY <1>2 DEF CmdInv, OffForGood
<1>5. id \in created /\ t \in Nat BY <1>2, ControlAssumption DEF CmdInv, NothingBefore
<1>6. CmdTypes' BY <1>1, <1>5 DEF CmdInv, CmdTypes
<1>7. OffForGood' BY <1>1, <1>3, <1>4 DEF CmdInv, OffForGood, Requeueing
<1>8. KnowsThatItRan' BY <1>1 DEF CmdInv, KnowsThatItRan
<1>9. NothingBefore' BY <1>1, <1>3 DEF CmdInv, NothingBefore
<1> QED BY <1>3, <1>6, <1>7, <1>8, <1>9 DEF CmdInv

LEMMA RequeueHolds ==
  ASSUME CmdInv, C!Requeue
  PROVE  CmdInv'
<1>1. /\ apc \in {"requeue", "requeueStream"} /\ apc' = "idle" /\ atime' = 0
      /\ UNCHANGED <<m_pQueue, created, xpc, xcmd, ran, settled>>
  BY DEF C!Requeue, C!execVars
<1>2. acmd \in created /\ acmd \in Cmds /\ atime \in Nat BY <1>1 DEF CmdInv, CmdTypes
<1>3. PICK c : c = [id |-> acmd, time |-> atime, stream |-> apc = "requeueStream"] OBVIOUS
<1>4. c \in Commands /\ c.id = acmd BY <1>2, <1>3 DEF Commands
<1>5. q' = C!Insert(q, c) BY <1>3 DEF C!Requeue
<1>6. acmd \notin OnQueue(q) /\ settled[acmd] # 1 BY <1>1, <1>2 DEF CmdInv, OffForGood, Requeueing
<1>7. QueueHolds(q') /\ OnQueue(q') = OnQueue(q) \cup {acmd}
  BY <1>4, <1>5, <1>6, InsertHolds DEF CmdInv
<1>8. CmdTypes' BY <1>1 DEF CmdInv, CmdTypes
<1>9. OffForGood' BY <1>1, <1>6, <1>7 DEF CmdInv, OffForGood, Requeueing
<1>10. KnowsThatItRan' BY <1>1 DEF CmdInv, KnowsThatItRan
<1>11. NothingBefore' BY <1>1, <1>2, <1>7 DEF CmdInv, NothingBefore
<1> QED BY <1>7, <1>8, <1>9, <1>10, <1>11 DEF CmdInv

LEMMA InvokeHolds ==
  ASSUME CmdInv, C!Invoke
  PROVE  CmdInv'
<1>1. xpc = "got" /\ xcmd \in created /\ xcmd \in Cmds BY DEF C!Invoke, CmdInv, CmdTypes
<1>2. UNCHANGED <<q, m_pQueue, created, xcmd, C!appVars, settled>> BY DEF C!Invoke
<1>3. CASE m_pQueue[xcmd]
  <2>1. xpc' = "remove" /\ ran' = [ran EXCEPT ![xcmd] = @ + 1] BY <1>3, Zenon DEF C!Invoke
  <2>2. ran[xcmd] = 0 BY <1>1, <1>3 DEF CmdInv, CmdTypes, KnowsThatItRan
  <2>3. ran' \in [Cmds -> 0..1] /\ \A c \in Cmds : c # xcmd => ran'[c] = ran[c]
    BY <1>1, <2>1, <2>2 DEF CmdInv, CmdTypes
  <2>4. CmdTypes' BY <1>1, <1>2, <2>1, <2>3 DEF CmdInv, CmdTypes, C!appVars
  <2>5. OffForGood' BY <1>2 DEF CmdInv, OffForGood, Requeueing, C!appVars
  <2>6. KnowsThatItRan' BY <1>1, <1>2, <2>1, <2>3 DEF CmdInv, KnowsThatItRan
  <2>7. NothingBefore' BY <1>1, <1>2, <2>3 DEF CmdInv, NothingBefore
  <2>8. QueueHolds(q') BY <1>2 DEF CmdInv
  <2> QED BY <2>4, <2>5, <2>6, <2>7, <2>8 DEF CmdInv
<1>4. CASE ~m_pQueue[xcmd]
  <2>1. xpc' = "done" /\ UNCHANGED ran BY <1>4, Zenon DEF C!Invoke
  <2> QED BY <1>1, <1>2, <2>1, ExecutorMoves
<1> QED BY <1>3, <1>4

LEMMA InvokeRemoveHolds ==
  ASSUME CmdInv, C!InvokeRemove
  PROVE  CmdInv'
<1>1. /\ xpc = "remove" /\ xpc' = "forget"
      /\ UNCHANGED <<m_pQueue, created, xcmd, ran, apc, acmd, atime>>
      /\ xcmd \in created /\ xcmd \in Cmds
  BY DEF C!InvokeRemove, C!appVars, CmdInv, CmdTypes
<1>2. CASE C!Found(q, xcmd)
  <2>1. q' = C!Remove(q, xcmd) /\ settled' = [settled EXCEPT ![xcmd] = @ + 1]
    BY <1>2, Zenon DEF C!InvokeRemove
  <2>2. xcmd \in OnQueue(q) BY <1>2, FoundIs DEF CmdInv
  <2>3. QueueHolds(q') /\ OnQueue(q') = OnQueue(q) \ {xcmd} BY <2>1, RemoveHolds DEF CmdInv
  <2>4. settled[xcmd] = 0 /\ ~Requeueing(xcmd) BY <1>1, <2>2 DEF CmdInv, CmdTypes, OffForGood
  <2>5. settled' \in [Cmds -> 0..1] /\ \A c \in Cmds : c # xcmd => settled'[c] = settled[c]
    BY <1>1, <2>1, <2>4 DEF CmdInv, CmdTypes
  <2>6. CmdTypes' BY <1>1, <2>5 DEF CmdInv, CmdTypes
  <2>7. OffForGood' BY <1>1, <2>3, <2>4, <2>5 DEF CmdInv, OffForGood, Requeueing
  <2>8. KnowsThatItRan' BY <1>1 DEF CmdInv, KnowsThatItRan
  <2>9. NothingBefore' BY <1>1, <2>3, <2>5 DEF CmdInv, NothingBefore
  <2> QED BY <2>3, <2>6, <2>7, <2>8, <2>9 DEF CmdInv
<1>3. CASE ~C!Found(q, xcmd)
  <2>1. UNCHANGED <<q, settled>> BY <1>3, Zenon DEF C!InvokeRemove
  <2> QED BY <1>1, <2>1, ExecutorMoves DEF C!appVars
<1> QED BY <1>2, <1>3

LEMMA InvokeForgetHolds ==
  ASSUME CmdInv, C!InvokeForget
  PROVE  CmdInv'
<1>1. /\ xpc = "forget" /\ xpc' = "done"
      /\ m_pQueue' = [m_pQueue EXCEPT ![xcmd] = FALSE]
      /\ UNCHANGED <<q, created, xcmd, ran, apc, acmd, atime, settled>>
  BY DEF C!InvokeForget, C!appVars
<1>2. /\ m_pQueue' \in [Cmds -> BOOLEAN] /\ \A c \in Cmds : m_pQueue'[c] => m_pQueue[c] /\ c # xcmd
      /\ xcmd \in created
  BY <1>1 DEF CmdInv, CmdTypes
<1>3. CmdTypes' BY <1>1, <1>2 DEF CmdInv, CmdTypes
<1>4. OffForGood' BY <1>1 DEF CmdInv, OffForGood, Requeueing
<1>5. KnowsThatItRan' BY <1>1, <1>2 DEF CmdInv, KnowsThatItRan
<1>6. NothingBefore' BY <1>1 DEF CmdInv, NothingBefore
<1>7. QueueHolds(q') BY <1>1 DEF CmdInv
<1> QED BY <1>3, <1>4, <1>5, <1>6, <1>7 DEF CmdInv

LEMMA ClockHolds ==
  ASSUME CmdInv, (\E clock \in BOOLEAN : C!SetSyncSource(clock)) \/ C!Run \/ C!EndRun \/ C!Fire
  PROVE  CmdInv'
<1>1. QueueHolds(q) /\ q \in Queues BY DEF CmdInv, QueueHolds
<1>2. CASE \E clock \in BOOLEAN : C!SetSyncSource(clock)
  <2>1. PICK clock \in BOOLEAN : C!SetSyncSource(clock) BY <1>2
  <2>2. PICK adv \in BOOLEAN, p \in Nat :
          adv = (q.dwAdvise /\ ~q.clock) /\ p = IF q.clock /\ q.dwAdvise THEN 0 ELSE q.pending
    BY <1>1 DEF Queues
  <2>3. PICK y : y = [q EXCEPT !.clock = clock, !.dwAdvise = adv, !.pending = p] OBVIOUS
  <2>4. y \in Queues /\ y.presentation = q.presentation /\ y.stream = q.stream
    BY <1>1, <2>3 DEF Queues
  <2>5. QueueHolds(y) /\ OnQueue(y) = OnQueue(q) BY <1>1, <2>4 DEF QueueHolds, OnQueue
  <2>6. q' = C!SetTimeAdvise(y) BY <2>1, <2>2, <2>3, Zenon DEF C!SetSyncSource
  <2>7. QueueHolds(q') /\ OnQueue(q') = OnQueue(q) BY <2>5, <2>6, AdviseHolds
  <2> QED BY <2>1, <2>7, SameCommands DEF C!SetSyncSource
<1>3. ASSUME NEW r \in BOOLEAN, q' = C!SetTimeAdvise([q EXCEPT !.running = r])
      PROVE  QueueHolds(q') /\ OnQueue(q') = OnQueue(q)
  <2>1. PICK y : y = [q EXCEPT !.running = r] OBVIOUS
  <2>2. y \in Queues /\ y.presentation = q.presentation /\ y.stream = q.stream
    BY <1>1, <2>1 DEF Queues
  <2>3. QueueHolds(y) /\ OnQueue(y) = OnQueue(q) BY <1>1, <2>2 DEF QueueHolds, OnQueue
  <2> QED BY <1>3, <2>1, <2>3, AdviseHolds
<1>4. CASE C!Run BY <1>3, <1>4, SameCommands DEF C!Run
<1>5. CASE C!EndRun BY <1>3, <1>5, SameCommands DEF C!EndRun
<1>6. CASE C!Fire
  <2>1. q' = [q EXCEPT !.pending = 0, !.evDue = TRUE] BY <1>6 DEF C!Fire
  <2>2. q' \in Queues /\ q'.presentation = q.presentation /\ q'.stream = q.stream
    BY <1>1, <2>1 DEF Queues
  <2>3. QueueHolds(q') /\ OnQueue(q') = OnQueue(q) BY <1>1, <2>2 DEF QueueHolds, OnQueue
  <2> QED BY <1>6, <2>3, SameCommands DEF C!Fire
<1> QED BY <1>2, <1>4, <1>5, <1>6

LEMMA CmdStep == CmdInv /\ C!CmdNext => CmdInv'
<1> SUFFICES ASSUME CmdInv, C!CmdNext PROVE CmdInv'
  OBVIOUS
<1>1. CASE C!GetDueCommand
  <2>1. xpc = "look" /\ UNCHANGED <<q, m_pQueue, created, C!appVars, ran, settled>>
    BY <1>1 DEF C!GetDueCommand
  <2>2. xpc' \in {"got", "wait"} /\ (xpc' = "got" => xcmd' \in created)
    BY <1>1, NextIsQueued DEF C!GetDueCommand, C!Due
  <2> QED BY <2>1, <2>2, ExecutorMoves
<1>2. ASSUME NEW t \in CmdTimes, C!GetCommandDueFor(t) PROVE CmdInv'
  <2>1. xpc = "look" /\ xpc' = "got" /\ UNCHANGED <<q, m_pQueue, created, C!appVars, ran, settled>>
    BY <1>2 DEF C!GetCommandDueFor
  <2>2. xcmd' \in created BY <1>2, DueForIsQueued DEF C!GetCommandDueFor
  <2> QED BY <2>1, <2>2, ExecutorMoves
<1>3. CASE C!WaitForDue BY <1>3, ExecutorMoves DEF C!WaitForDue
<1>4. CASE C!Release BY <1>4, ExecutorMoves DEF C!Release
<1>5. CASE C!Tick BY <1>5, SameCommands DEF C!Tick, CmdInv
<1>6. CASE C!Cancelled BY <1>6, CancelledHolds
<1>7. CASE C!Requeue BY <1>7, RequeueHolds
<1>8. CASE C!Invoke BY <1>8, InvokeHolds
<1>9. CASE C!InvokeRemove BY <1>9, InvokeRemoveHolds
<1>10. CASE C!InvokeForget BY <1>10, InvokeForgetHolds
<1>11. CASE (\E clock \in BOOLEAN : C!SetSyncSource(clock)) \/ C!Run \/ C!EndRun \/ C!Fire
  BY <1>11, ClockHolds
<1>12. CASE \E id \in Cmds, t \in CmdTimes : C!Postpone(id, t) \/ \E s \in BOOLEAN : C!New(id, t, s)
  BY <1>12, PostponeHolds, NewHolds
<1>13. CASE \E id \in Cmds : C!Cancel(id) BY <1>13, CancelHolds
<1> QED BY <1>1, <1>2, <1>3, <1>4, <1>5, <1>6, <1>7, <1>8, <1>9, <1>10, <1>11, <1>12, <1>13, Zenon
        DEF C!CmdNext, C!ExecutorStep

LEMMA CommandsFollow == CmdInv => CommandsHold
<1> SUFFICES ASSUME CmdInv PROVE CommandsHold
  OBVIOUS
<1>1. C!ListsInOrder
  <2>1. ASSUME NEW list, ListHolds(list)
        PROVE  \A i \in 1..(Len(list) - 1) : list[i].time <= list[i + 1].time
    <3>1. Len(list) \in Nat BY <2>1, CommandOf DEF ListHolds
    <3>2. \A i \in 1..(Len(list) - 1) : i \in 1..Len(list) /\ i + 1 \in 1..Len(list) /\ i < i + 1 BY <3>1
    <3> QED BY <2>1, <3>2 DEF ListHolds
  <2> QED BY <2>1 DEF C!ListsInOrder, CmdInv, QueueHolds
<1>2. C!AtMostOnce BY DEF C!AtMostOnce, CmdInv, CmdTypes
<1> QED BY <1>1, <1>2 DEF CommandsHold, C!CommandsHold

-----------------------------------------------------------------------------
(* The three together.                                                      *)

LEMMA SeekKept == SeekInv /\ UNCHANGED seekVars => SeekInv'
BY DEF SeekInv, SeekTypes, ToldBySomebody, PositionInv, seekVars

LEMMA CtlKept == CtlInv /\ UNCHANGED ctlVars => CtlInv'
<1> SUFFICES ASSUME CtlInv, UNCHANGED ctlVars PROVE CtlInv'
  OBVIOUS
<1> USE DEF ctlVars
<1>1. Guarded /\ Others /\ Extra /\ Waits BY CtlParts
<1>2. Guarded' BY <1>1 DEF Guarded, StopDiscards
<1>3. Others' BY <1>1 DEF Others
<1>4. Extra' BY <1>1 DEF Extra, ExtraRecorded
<1>5. Waits' BY <1>1 DEF Waits, WaitAwake
<1> QED BY <1>2, <1>3, <1>4, <1>5, CtlWhole

LEMMA CmdKept == CmdInv /\ UNCHANGED cmdVars => CmdInv'
<1> SUFFICES ASSUME CmdInv, UNCHANGED cmdVars PROVE CmdInv'
  OBVIOUS
<1>1. QueueHolds(q') /\ OnQueue(q') = OnQueue(q) BY DEF CmdInv, cmdVars
<1> QED BY <1>1, SameCommands DEF cmdVars, C!execVars, C!appVars

LEMMA InitHolds == Init => IInv
<1> SUFFICES ASSUME Init PROVE IInv
  OBVIOUS
<1> USE ControlAssumption
<1>1. SeekInv
  BY DEF Init, K!SeekInit, SeekInv, SeekTypes, ToldBySomebody, PositionInv, Asking
<1>2. CtlInv
  <2> USE DEF Init, S!CtlInit
  <2>1. CtlTypes
    <3>1. MAX_TIME \in 0..MAX_TIME /\ <<0, 1>> \in Nat \X Nat OBVIOUS
    <3> QED BY <3>1 DEF CtlTypes, States
  <2>2. CtlFlags BY DEF CtlFlags
  <2>3. StopDiscards BY DEF StopDiscards
  <2>4. ExtraRecorded
    <3>1. extras \in 0..1 /\ extras # 1 OBVIOUS
    <3> QED BY <3>1 DEF ExtraRecorded
  <2>5. WaitAwake BY DEF WaitAwake
  <2> QED BY <2>1, <2>2, <2>3, <2>4, <2>5 DEF CtlInv
<1>3. CmdInv
  <2> USE DEF Init, C!CmdInit
  <2>1. q = C!QueueInit OBVIOUS
  <2>2. /\ q \in Queues /\ q.presentation = <<>> /\ q.stream = <<>> BY <2>1 DEF C!QueueInit, Queues
  <2>3. ListHolds(<<>>) /\ Ids(<<>>) = {} BY DEF ListHolds, Ids
  <2>4. QueueHolds(q) /\ OnQueue(q) = {} BY <2>2, <2>3 DEF QueueHolds, OnQueue
  <2>5. CmdTypes BY DEF CmdTypes
  <2>6. OffForGood BY <2>4 DEF OffForGood, Requeueing
  <2>7. KnowsThatItRan BY DEF KnowsThatItRan
  <2>8. NothingBefore BY <2>4 DEF NothingBefore
  <2> QED BY <2>4, <2>5, <2>6, <2>7, <2>8 DEF CmdInv
<1> QED BY <1>1, <1>2, <1>3 DEF IInv

LEMMA StepHolds == IInv /\ [Next]_vars => IInv'
<1> SUFFICES ASSUME IInv, [Next]_vars PROVE IInv'
  OBVIOUS
<1> USE DEF IInv
<1>1. CASE NextStream BY <1>1, CtlStep, CmdKept, SeekKept DEF NextStream
<1>2. CASE NextCmd BY <1>2, CmdStep, CtlKept, SeekKept DEF NextCmd
<1>3. CASE NextSeek BY <1>3, SeekStep, CtlKept, CmdKept DEF NextSeek
<1>4. CASE UNCHANGED vars BY <1>4, SeekKept, CtlKept, CmdKept DEF vars
<1> QED BY <1>1, <1>2, <1>3, <1>4 DEF Next

LEMMA PositionFollows == SeekInv => PositionHolds
<1> SUFFICES ASSUME SeekInv PROVE PositionHolds
  OBVIOUS
<1>1. K!AppliedLatest
  BY DEF K!AppliedLatest, SeekInv, ToldBySomebody, Asking
<1>2. K!PositionOfThisRun BY DEF K!PositionOfThisRun, SeekInv, PositionInv
<1> QED BY <1>1, <1>2 DEF PositionHolds, K!PositionHolds

\* Whatever is pending, CheckSampleTimes sends exactly the samples that the rules of
\* CBaseStreamControl say, every cookie is answered, at most one extra sample is sent for a
\* StopAt, and the streaming thread never waits without a timeout while the filter flushes or
\* is not paused, unless it is already woken; for any times.
THEOREM ControlAlwaysHolds == Spec => []ControlHolds
<1>1. IInv => ControlHolds BY ControlFollows DEF IInv
<1> QED BY InitHolds, StepHolds, <1>1, PTL DEF Spec

\* The lists of CCmdQueue stay in the order of time, and a deferred command is executed at most
\* once and taken off for good at most once, however Cancel, Postpone and Invoke interleave; for
\* any number of commands.
THEOREM CommandsAlwaysHold == Spec => []CommandsHold
<1>1. IInv => CommandsHold BY CommandsFollow DEF IInv
<1> QED BY InitHolds, StepHolds, <1>1, PTL DEF Spec

\* Once all calls have returned CSourceSeeking works with the values last set, and the position
\* CRendererPosPassThru reports comes from this run; for any number of calling threads.
THEOREM PositionAlwaysHolds == Spec => []PositionHolds
<1>1. IInv => PositionHolds BY PositionFollows DEF IInv
<1> QED BY InitHolds, StepHolds, <1>1, PTL DEF Spec
============================================================================
