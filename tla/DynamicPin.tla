----------------------------- MODULE DynamicPin -----------------------------
(***************************************************************************)
(* CDynamicOutputPin (baseclasses/amfilter.cpp): an output pin that can be *)
(* blocked, reconnected and given another format while the filter runs.    *)
(*                                                                         *)
(* Streaming threads bracket what they do with StartUsingOutputPin and     *)
(* StopUsingOutputPin.  Blockers (applications, the filter graph) block    *)
(* the pin, waiting for it (SynchronousBlockOutputPin) or being told by an *)
(* event, change its connection while it is blocked and unblock it, or     *)
(* cancel a block that is still pending.  A method is one action under     *)
(* m_BlockStateLock; StartUsingOutputPin lets go of it for its wait:       *)
(*   "out"      not using the pin                                          *)
(*   "waiting"  in WaitForMultipleObjects                                  *)
(*   "unblock"  the wait has ended by m_hUnblockOutputPinEvent             *)
(*   "using"    between StartUsingOutputPin and StopUsingOutputPin         *)
(***************************************************************************)
EXTENDS Integers, FiniteSets

CONSTANTS Streamers, Blockers, Formats, Nobody

VARIABLES m_BlockState,
          m_hUnblockOutputPinEvent,        \* manual reset
          m_hNotifyCallerPinBlockedEvent,  \* the blocker to tell, or Nobody
          m_dwBlockCallerThreadID, m_dwNumOutstandingOutputPinUsers,
          m_hStopEvent,                    \* manual reset
          spc,                             \* by streaming thread
          bpc,                             \* by blocker: "idle", "sync" and "async"
                                           \* while it waits, "holds" once told
          active, flushing,                \* of the filter
          linked, memory,                  \* m_Connected; the allocator is committed
          mine, theirs,                    \* the format of the two pins
          halfChanged,                     \* history: a format change failed half way
          unheard                          \* history: the filter stopped while the pin
                                           \* was not connected

blockVars == <<m_BlockState, m_hUnblockOutputPinEvent, m_hNotifyCallerPinBlockedEvent,
               m_dwBlockCallerThreadID>>
linkVars  == <<linked, memory, mine, theirs, halfChanged>>
others    == <<m_dwNumOutstandingOutputPinUsers, m_hStopEvent, spc, bpc, active, flushing, unheard>>
dynVars   == <<blockVars, linkVars, others>>

StreamingThreadUsingOutputPin == m_dwNumOutstandingOutputPinUsers > 0

DynInit ==
  /\ m_BlockState = "NOT_BLOCKED" /\ m_hUnblockOutputPinEvent = TRUE
  /\ m_hNotifyCallerPinBlockedEvent = Nobody /\ m_dwBlockCallerThreadID = Nobody
  /\ m_dwNumOutstandingOutputPinUsers = 0 /\ m_hStopEvent = FALSE
  /\ spc = [s \in Streamers |-> "out"] /\ bpc = [b \in Blockers |-> "idle"]
  /\ active = FALSE /\ flushing = FALSE
  /\ linked = TRUE /\ memory = FALSE
  /\ mine \in Formats /\ theirs = mine /\ halfChanged = FALSE /\ unheard = FALSE

-----------------------------------------------------------------------------
(* Blocking.                                                               *)

\* The pin becomes blocked and b, who asked for it, is told.
BlockOutputPin(b) ==
  /\ m_BlockState' = "BLOCKED"
  /\ m_hUnblockOutputPinEvent' = FALSE
  /\ m_hNotifyCallerPinBlockedEvent' = Nobody
  /\ bpc' = [bpc EXCEPT ![b] = "holds"]

\* Mutant: the pin is blocked under its users.
AsynchronousBlockOutputPin_AtOnce(b, how) ==
  /\ bpc[b] = "idle" /\ m_BlockState = "NOT_BLOCKED"
  /\ m_dwBlockCallerThreadID' = b
  /\ BlockOutputPin(b)
  /\ UNCHANGED <<m_dwNumOutstandingOutputPinUsers, m_hStopEvent, spc, active, flushing, unheard, linkVars>>

\* Blocks at once if nobody uses the pin; fails if it is blocked or about to be.
AsynchronousBlockOutputPin(b, how) ==
  /\ bpc[b] = "idle" /\ m_BlockState = "NOT_BLOCKED"
  /\ m_dwBlockCallerThreadID' = b
  /\ IF StreamingThreadUsingOutputPin
     THEN /\ m_BlockState' = "PENDING"
          /\ m_hNotifyCallerPinBlockedEvent' = b
          /\ bpc' = [bpc EXCEPT ![b] = how]
          /\ UNCHANGED m_hUnblockOutputPinEvent
     ELSE BlockOutputPin(b)
  /\ UNCHANGED <<m_dwNumOutstandingOutputPinUsers, m_hStopEvent, spc, active, flushing, unheard, linkVars>>

\* Waits in StartUsingOutputPin that a signalled event ends.
Freed(from) == [s \in Streamers |-> IF spc[s] = "waiting" THEN from ELSE spc[s]]

\* Mutant: the threads that wait are not let go.
UnblockOutputPin_Silent(b) ==
  /\ bpc[b] \in {"async", "holds"} /\ m_BlockState # "NOT_BLOCKED" /\ linked
  /\ m_BlockState' = "NOT_BLOCKED"
  /\ m_dwBlockCallerThreadID' = Nobody /\ m_hNotifyCallerPinBlockedEvent' = Nobody
  /\ bpc' = [bpc EXCEPT ![b] = "idle"]
  /\ UNCHANGED <<m_hUnblockOutputPinEvent, spc, m_dwNumOutstandingOutputPinUsers,
                 m_hStopEvent, active, flushing, unheard, linkVars>>

\* By the blocker, when it has put the connection back, or before the pin is
\* blocked at all: a pending block is cancelled.
UnblockOutputPin(b) ==
  /\ bpc[b] \in {"async", "holds"} /\ m_BlockState # "NOT_BLOCKED" /\ linked
  /\ m_BlockState' = "NOT_BLOCKED" /\ m_hUnblockOutputPinEvent' = TRUE
  /\ m_dwBlockCallerThreadID' = Nobody /\ m_hNotifyCallerPinBlockedEvent' = Nobody
  /\ spc' = Freed("unblock")
  /\ bpc' = [bpc EXCEPT ![b] = "idle"]
  /\ UNCHANGED <<m_dwNumOutstandingOutputPinUsers, m_hStopEvent, active, flushing, unheard, linkVars>>

SynchronousBlockOutputPin(b) == AsynchronousBlockOutputPin(b, "sync")

Block(b) ==
  \/ SynchronousBlockOutputPin(b)
  \/ AsynchronousBlockOutputPin(b, "async")
  \/ UnblockOutputPin(b)

-----------------------------------------------------------------------------
(* The streaming threads.                                                  *)

Use(s) ==
  /\ spc' = [spc EXCEPT ![s] = "using"]
  /\ m_dwNumOutstandingOutputPinUsers' = m_dwNumOutstandingOutputPinUsers + 1

\* Enters, or waits while the pin is blocked and looks again; m_hStopEvent ends
\* the wait, and the call, when the other event is not signalled.
StartUsingOutputPin(s) ==
  /\ spc[s] = "unblock" \/ (spc[s] = "out" /\ active)
  /\ IF m_BlockState # "BLOCKED" THEN Use(s)
     ELSE /\ spc' = [spc EXCEPT ![s] = IF m_hStopEvent THEN "out" ELSE "waiting"]
          /\ UNCHANGED m_dwNumOutstandingOutputPinUsers
  /\ UNCHANGED <<blockVars, m_hStopEvent, bpc, active, flushing, unheard, linkVars>>

\* The last user grants a pending block.
StopUsingOutputPin(s) ==
  /\ spc[s] = "using"
  /\ spc' = [spc EXCEPT ![s] = "out"]
  /\ m_dwNumOutstandingOutputPinUsers' = m_dwNumOutstandingOutputPinUsers - 1
  /\ IF m_dwNumOutstandingOutputPinUsers = 1 /\ m_BlockState # "NOT_BLOCKED"
     THEN BlockOutputPin(m_dwBlockCallerThreadID) /\ UNCHANGED m_dwBlockCallerThreadID
     ELSE UNCHANGED <<blockVars, bpc>>
  /\ UNCHANGED <<m_hStopEvent, active, flushing, unheard, linkVars>>

\* A new format: ReceiveConnection on the other pin, then SetMediaType and the
\* allocator here; any of the later steps may fail.
ChangeMediaTypeHelper(s, fmt, failsAt) ==
  /\ theirs' = IF failsAt = "receive" THEN theirs ELSE fmt
  /\ mine' = IF failsAt \in {"receive", "set"} THEN mine ELSE fmt
  /\ memory' = IF failsAt = "buffers" THEN FALSE
               ELSE IF failsAt = "none" THEN TRUE ELSE memory
  /\ halfChanged' = (halfChanged \/ failsAt \in {"set", "buffers"})
  /\ UNCHANGED <<blockVars, others, linked>>

\* By a thread that uses the pin, if the other pin takes the format as it runs.
\* Otherwise the graph is asked to reconnect, as a blocker.
ChangeMediaType(s, fmt, failsAt) ==
  /\ spc[s] = "using" /\ active /\ linked
  /\ ChangeMediaTypeHelper(s, fmt, failsAt)

-----------------------------------------------------------------------------
(* The connection, while the pin is blocked, and the filter's state.       *)

\* Disconnect of a dynamic pin does not ask whether the filter is stopped.
DynDisconnect(b) ==
  /\ bpc[b] = "holds" /\ linked
  /\ linked' = FALSE /\ memory' = FALSE
  /\ UNCHANGED <<blockVars, others, mine, theirs, halfChanged>>

\* An active filter commits the new allocator at once.
CompleteConnect(b, fmt) ==
  /\ bpc[b] = "holds" /\ ~linked
  /\ linked' = TRUE /\ memory' = active
  /\ mine' = fmt /\ theirs' = fmt /\ halfChanged' = FALSE
  /\ UNCHANGED <<blockVars, others>>

\* Pause of the filter; a pin that is not connected is left out.
Active ==
  /\ ~active /\ ~flushing
  /\ active' = TRUE /\ unheard' = FALSE
  /\ m_hStopEvent' = IF linked THEN FALSE ELSE m_hStopEvent
  /\ memory' = linked
  /\ UNCHANGED <<blockVars, m_dwNumOutstandingOutputPinUsers, spc, bpc, flushing,
                 linked, mine, theirs, halfChanged>>

\* Stop of the filter: a connected pin sets m_hStopEvent, another one is not
\* told (CBaseFilter::Stop).
Inactive ==
  /\ active /\ ~flushing
  /\ active' = FALSE /\ memory' = FALSE /\ unheard' = ~linked
  /\ m_hStopEvent' = (m_hStopEvent \/ linked)
  /\ spc' = IF linked THEN Freed("out") ELSE spc
  /\ UNCHANGED <<blockVars, m_dwNumOutstandingOutputPinUsers, bpc, flushing,
                 linked, mine, theirs, halfChanged>>

DeliverBeginFlush ==
  /\ active /\ ~flushing
  /\ flushing' = TRUE
  /\ m_hStopEvent' = TRUE /\ spc' = Freed("out")
  /\ UNCHANGED <<blockVars, m_dwNumOutstandingOutputPinUsers, bpc, active, unheard, linkVars>>

DeliverEndFlush ==
  /\ flushing
  /\ flushing' = FALSE /\ m_hStopEvent' = FALSE
  /\ UNCHANGED <<blockVars, m_dwNumOutstandingOutputPinUsers, spc, bpc, active, unheard, linkVars>>

DynNext ==
  \/ \E b \in Blockers : Block(b) \/ DynDisconnect(b)
  \/ \E b \in Blockers, fmt \in Formats : CompleteConnect(b, fmt)
  \/ \E s \in Streamers : StartUsingOutputPin(s)
  \/ \E s \in Streamers : StopUsingOutputPin(s)
  \/ \E s \in Streamers, fmt \in Formats, f \in {"none", "receive", "set", "buffers"} :
       ChangeMediaType(s, fmt, f)
  \/ Active \/ Inactive \/ DeliverBeginFlush \/ DeliverEndFlush

\* Threads that use the pin stop using it, woken ones go on, and who is told
\* that the pin is blocked unblocks it in the end.
DynFairness ==
  /\ \A s \in Streamers : /\ WF_dynVars(StopUsingOutputPin(s))
                          /\ WF_dynVars(spc[s] = "unblock" /\ StartUsingOutputPin(s))
  /\ \A b \in Blockers : /\ SF_dynVars(UnblockOutputPin(b))
                         /\ WF_dynVars(\E fmt \in Formats : CompleteConnect(b, fmt))

-----------------------------------------------------------------------------
(* Properties.                                                             *)

\* What AssertValid asserts (debug builds only), at every moment the lock is
\* free: the event to notify exists exactly while a block is pending, only a
\* pin that is blocked or about to be has a caller, and a blocked pin has no
\* users.
AssertValid ==
  /\ (m_hNotifyCallerPinBlockedEvent # Nobody) <=> (m_BlockState = "PENDING")
  /\ m_dwBlockCallerThreadID # Nobody => m_BlockState # "NOT_BLOCKED"
  /\ StreamingThreadUsingOutputPin => m_BlockState # "BLOCKED"
  /\ m_dwNumOutstandingOutputPinUsers = Cardinality({s \in Streamers : spc[s] = "using"})

\* Who was told that the pin is blocked has it for itself: no streaming thread
\* uses the pin while its connection may change, and there is one such blocker.
SteadyInUse ==
  \A b \in Blockers : bpc[b] = "holds" =>
    /\ \A s \in Streamers : spc[s] # "using"
    /\ \A c \in Blockers \ {b} : bpc[c] # "holds"

\* While the filter is active, the pin of every connection made or remade has
\* its memory, unless a format change failed half way (CompleteConnect commits
\* for an active filter; ChangeMediaTypeHelper decommits before it knows).
MemoryWhileActive == active /\ linked /\ ~halfChanged => memory

\* A blocked pin is let go, and a thread that waits for it gets on: none waits
\* for ever (m_hUnblockOutputPinEvent is reset only when the pin is blocked
\* again, and then a woken thread waits again).
WaitersLeave == \A s \in Streamers : spc[s] = "waiting" ~> spc[s] # "waiting"

\* A thread does not wait for a blocked pin of a filter that is not active or
\* that flushes (Inactive and DeliverBeginFlush set m_hStopEvent), unless the
\* filter was stopped in the middle of a reconnection.
NoWaitWhenStopped ==
  \A s \in Streamers : spc[s] = "waiting" => (active \/ unheard) /\ ~flushing

\* What blockers, streaming threads and the graph keep between them.
BlockHolds == SteadyInUse /\ AssertValid /\ MemoryWhileActive /\ NoWaitWhenStopped
=============================================================================
