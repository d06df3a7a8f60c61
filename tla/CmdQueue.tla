------------------------------ MODULE CmdQueue ------------------------------
(***************************************************************************)
(* CCmdQueue and CDeferredCommand (baseclasses/ctlutil.cpp): commands that *)
(* an application queues for a time, and a thread that waits for the next  *)
(* one to be due and executes it.                                          *)
(*                                                                         *)
(* The queue's methods run under m_Lock; Cancel, Postpone and Invoke are   *)
(* methods of the command and take it only inside Remove and Insert.  The  *)
(* executing thread (xpc) is about to "look" for a due command, in its     *)
(* "wait", about to Invoke what it has "got", to "remove" it, to "forget"  *)
(* its queue, and to release it ("done").  The application (apc) may be in *)
(* the middle of Cancel or Postpone.                                       *)
(***************************************************************************)
EXTENDS Integers, Sequences, FiniteSets

CONSTANTS Cmds,      \* every command is made once
          CmdTimes,  \* positive
          m_StreamTimeOffset, MaxTime, NoCmd

VARIABLES q,         \* the queue, see QueueInit
          m_pQueue,  \* by command: it has not been cancelled or invoked
          created, now,
          xpc, xcmd, apc, acmd, atime,
          ran,       \* history: how often a command was executed
          settled    \* history: how often Cancel or Invoke took it off the queue

execVars == <<xpc, xcmd, ran>>
appVars  == <<apc, acmd, atime>>
cmdVars  == <<q, m_pQueue, created, now, execVars, appVars, settled>>

\* dwAdvise says that an advise was asked for at tCurrentAdvise; the clock has yet to
\* fire the one at `pending'.
QueueInit == [presentation |-> <<>>, stream |-> <<>>, running |-> FALSE, clock |-> FALSE,
              dwAdvise |-> FALSE, tCurrentAdvise |-> 0, pending |-> 0, evDue |-> FALSE]

CmdInit == /\ q = QueueInit /\ m_pQueue = [c \in Cmds |-> FALSE] /\ created = {} /\ now = 0
           /\ xpc = "look" /\ xcmd = NoCmd /\ apc = "idle" /\ acmd = NoCmd /\ atime = 0
           /\ ran = [c \in Cmds |-> 0] /\ settled = [c \in Cmds |-> 0]

-----------------------------------------------------------------------------
(* The queue.                                                              *)

FirstTime(list) == IF list = <<>> THEN 0 ELSE Head(list).time

\* The presentation time of the first stream-time command, once it is known.
StreamFirst(x) == IF x.running /\ x.stream # <<>> THEN FirstTime(x.stream) + m_StreamTimeOffset ELSE 0

Earliest(x) ==
  LET p == FirstTime(x.presentation)
  IN IF StreamFirst(x) # 0 /\ (p = 0 \/ StreamFirst(x) < p) THEN StreamFirst(x) ELSE p

\* The event is reset, and the clock asked for a new time if that has changed.
SetTimeAdvise(x) ==
  IF ~x.clock THEN x
  ELSE IF Earliest(x) > 0 /\ Earliest(x) # x.tCurrentAdvise
  THEN [x EXCEPT !.evDue = FALSE, !.dwAdvise = TRUE, !.tCurrentAdvise = Earliest(x), !.pending = Earliest(x)]
  ELSE [x EXCEPT !.evDue = FALSE]

ListOf(c) == IF c.stream THEN "stream" ELSE "presentation"

\* Behind everything that is not later.
Insert(x, c) ==
  LET list == x[ListOf(c)]
      k == Cardinality({i \in DOMAIN list : list[i].time <= c.time})
  IN SetTimeAdvise([x EXCEPT ![ListOf(c)] = SubSeq(list, 1, k) \o <<c>> \o SubSeq(list, k + 1, Len(list))])

Queued(x) == {x.presentation[i] : i \in DOMAIN x.presentation} \cup {x.stream[i] : i \in DOMAIN x.stream}

Found(x, id) == \E c \in Queued(x) : c.id = id

\* The list after the walk to the command; the pointer is on one list at most, and there once.
Without(list, id) ==
  IF \A i \in DOMAIN list : list[i].id # id THEN list
  ELSE LET pos == CHOOSE i \in DOMAIN list : list[i].id = id
       IN SubSeq(list, 1, pos - 1) \o SubSeq(list, pos + 1, Len(list))

Remove(x, id) ==
  SetTimeAdvise([x EXCEPT !.presentation = Without(@, id), !.stream = Without(@, id)])

\* A clock takes the place of another one, of none, or is taken away.
SetSyncSource(clock) ==
  /\ q' = SetTimeAdvise([q EXCEPT !.clock = clock,
                                  !.dwAdvise = @ /\ ~q.clock,
                                  !.pending = IF q.clock /\ q.dwAdvise THEN 0 ELSE @])
  /\ UNCHANGED <<m_pQueue, created, now, execVars, appVars, settled>>

Run == /\ q' = SetTimeAdvise([q EXCEPT !.running = TRUE])
       /\ UNCHANGED <<m_pQueue, created, now, execVars, appVars, settled>>

EndRun == /\ q' = SetTimeAdvise([q EXCEPT !.running = FALSE])
          /\ UNCHANGED <<m_pQueue, created, now, execVars, appVars, settled>>

CheckTime(time, stream) ==
  q.clock /\ (stream => q.running) /\ now >= time + (IF stream THEN m_StreamTimeOffset ELSE 0)

-----------------------------------------------------------------------------
(* The application.                                                        *)

\* The constructor queues the command, if its executor has the interface asked for.
CDeferredCommand(x, id, time, stream) == Insert(x, [id |-> id, time |-> time, stream |-> stream])

New(id, time, stream) ==
  /\ apc = "idle" /\ id \notin created
  /\ created' = created \cup {id}
  /\ q' = CDeferredCommand(q, id, time, stream)
  /\ m_pQueue' = [m_pQueue EXCEPT ![id] = TRUE]
  /\ UNCHANGED <<now, execVars, appVars, settled>>

\* Remove, on behalf of the application; fails if the command is not queued any more.
Cancel(id) ==
  /\ apc = "idle" /\ m_pQueue[id] /\ Found(q, id)
  /\ q' = Remove(q, id) /\ apc' = "cancelled" /\ acmd' = id
  /\ settled' = [settled EXCEPT ![id] = @ + 1]
  /\ UNCHANGED <<m_pQueue, created, now, execVars, atime>>

Cancelled ==
  /\ apc = "cancelled" /\ apc' = "idle" /\ acmd' = NoCmd
  /\ m_pQueue' = [m_pQueue EXCEPT ![acmd] = FALSE]
  /\ UNCHANGED <<q, created, now, execVars, atime, settled>>

StreamTime(id) == \E c \in Queued(q) : c.id = id /\ c.stream

Postpone(id, time) ==
  /\ apc = "idle" /\ m_pQueue[id] /\ Found(q, id) /\ ~CheckTime(time, StreamTime(id))
  /\ q' = Remove(q, id)
  /\ apc' = (IF StreamTime(id) THEN "requeueStream" ELSE "requeue") /\ acmd' = id /\ atime' = time
  /\ UNCHANGED <<m_pQueue, created, now, execVars, settled>>

\* Only while m_pQueue is set: the code would use a null pointer after an Invoke.
Requeue ==
  /\ apc \in {"requeue", "requeueStream"} /\ m_pQueue[acmd]
  /\ q' = Insert(q, [id |-> acmd, time |-> atime, stream |-> apc = "requeueStream"])
  /\ apc' = "idle" /\ acmd' = NoCmd /\ atime' = 0
  /\ UNCHANGED <<m_pQueue, created, now, execVars, settled>>

-----------------------------------------------------------------------------
(* The executing thread, and the clock.                                    *)

\* The command that GetDueCommand looks at: the first one, by its presentation time.
NextCommand ==
  LET p == q.presentation
  IN IF StreamFirst(q) # 0 /\ (p = <<>> \/ StreamFirst(q) < Head(p).time) THEN <<Head(q.stream)>>
     ELSE IF p # <<>> THEN <<Head(p)>> ELSE <<>>

Due == NextCommand # <<>> /\ CheckTime(NextCommand[1].time, NextCommand[1].stream)

GetDueCommand ==
  /\ xpc = "look"
  /\ IF Due THEN xpc' = "got" /\ xcmd' = NextCommand[1].id
            ELSE xpc' = "wait" /\ UNCHANGED xcmd
  /\ UNCHANGED <<q, m_pQueue, created, now, appVars, ran, settled>>

\* Without a timeout.
WaitForDue ==
  /\ xpc = "wait" /\ q.evDue /\ xpc' = "look"
  /\ UNCHANGED <<q, m_pQueue, created, now, xcmd, ran, appVars, settled>>

\* What a sample at this stream time makes due, for a filter that is about to render it.
DueFor(t) ==
  LET p == q.presentation
      s == q.stream
  IN IF p # <<>> /\ CheckTime(Head(p).time, FALSE) THEN <<Head(p)>>
     ELSE IF s # <<>> /\ Head(s).time <= t THEN <<Head(s)>>
     ELSE IF p # <<>> /\ q.running /\ Head(p).time <= t + m_StreamTimeOffset THEN <<Head(p)>>
     ELSE <<>>

GetCommandDueFor(t) ==
  /\ xpc = "look" /\ DueFor(t) # <<>>
  /\ xpc' = "got" /\ xcmd' = DueFor(t)[1].id
  /\ UNCHANGED <<q, m_pQueue, created, now, appVars, ran, settled>>

Invoke ==
  /\ xpc = "got"
  /\ IF m_pQueue[xcmd] THEN xpc' = "remove" /\ ran' = [ran EXCEPT ![xcmd] = @ + 1]
                       ELSE xpc' = "done" /\ UNCHANGED ran
  /\ UNCHANGED <<q, m_pQueue, created, now, xcmd, appVars, settled>>

\* Whether or not it is still there.
InvokeRemove ==
  /\ xpc = "remove" /\ xpc' = "forget"
  /\ IF Found(q, xcmd) THEN q' = Remove(q, xcmd) /\ settled' = [settled EXCEPT ![xcmd] = @ + 1]
                       ELSE UNCHANGED <<q, settled>>
  /\ UNCHANGED <<m_pQueue, created, now, xcmd, ran, appVars>>

\* Mutant: the command does not know that it was invoked.
InvokeForget_Keep ==
  /\ xpc = "forget" /\ xpc' = "done"
  /\ UNCHANGED <<q, m_pQueue, created, now, xcmd, ran, appVars, settled>>

InvokeForget ==
  /\ xpc = "forget" /\ xpc' = "done"
  /\ m_pQueue' = [m_pQueue EXCEPT ![xcmd] = FALSE]
  /\ UNCHANGED <<q, created, now, xcmd, ran, appVars, settled>>

Release ==
  /\ xpc = "done" /\ xpc' = "look" /\ xcmd' = NoCmd
  /\ UNCHANGED <<q, m_pQueue, created, now, ran, appVars, settled>>

Tick == /\ now < MaxTime /\ now' = now + 1
        /\ UNCHANGED <<q, m_pQueue, created, execVars, appVars, settled>>

\* The clock sets the event when the time asked for has come.
Fire == /\ q.clock /\ q.pending # 0 /\ now >= q.pending
        /\ q' = [q EXCEPT !.pending = 0, !.evDue = TRUE]
        /\ UNCHANGED <<m_pQueue, created, now, execVars, appVars, settled>>

ExecutorStep == GetDueCommand \/ WaitForDue \/ Invoke \/ InvokeRemove \/ InvokeForget \/ Release

CmdNext == \/ \E id \in Cmds, t \in CmdTimes : Postpone(id, t) \/ \E s \in BOOLEAN : New(id, t, s)
           \/ \E id \in Cmds : Cancel(id)
           \/ \E clock \in BOOLEAN : SetSyncSource(clock)
           \/ \E t \in CmdTimes : GetCommandDueFor(t)
           \/ Cancelled \/ Requeue \/ Run \/ EndRun \/ ExecutorStep \/ Tick \/ Fire

-----------------------------------------------------------------------------
\* Both lists are in the order of time through inserts, cancels and postponements, so
\* that looking at their heads is enough.
ListsInOrder ==
  \A list \in {q.presentation, q.stream} : \A i \in 1..(Len(list) - 1) : list[i].time <= list[i + 1].time

\* The command is executed at most once although it may be cancelled, postponed and looked up
\* while it executes.
AtMostOnce == \A c \in Cmds : ran[c] <= 1 /\ settled[c] <= 1

\* ctlutil.h: GetDueHandle returns "the event handle that will be signalled whenever there are
\* deferred commands due for execution".
DueIsSignalled == (xpc = "wait" /\ Due) ~> (q.evDue \/ ~Due)

\* What the executing thread and the application's calls keep between them.
CommandsHold == ListsInOrder /\ AtMostOnce
=============================================================================
