--------------------------- MODULE ThreadsProofs ---------------------------
(* TLAPS proofs about the threads of MCThreads: CAMThread as CSourceStream  *)
(* and CPullPin use it, CMsgThread, and the threads at a CDynamicOutputPin; *)
(* for any number of streaming threads and blockers, any buffer size and    *)
(* alignment and any number of restarts.                                    *)
EXTENDS MCThreads, FiniteSetTheorems, SequenceTheorems, WellFoundedInduction, TLAPS

(* The dynamic output pin.                                                  *)

DynTypes ==
  /\ m_BlockState \in {"NOT_BLOCKED", "PENDING", "BLOCKED"}
  /\ m_hNotifyCallerPinBlockedEvent \in Blockers \cup {Nobody}
  /\ m_dwBlockCallerThreadID \in Blockers \cup {Nobody}
  /\ m_dwNumOutstandingOutputPinUsers \in Nat
  /\ spc \in [Streamers -> {"out", "waiting", "unblock", "using"}]
  /\ bpc \in [Blockers -> {"idle", "sync", "async", "holds"}]

\* The block belongs to the caller that is recorded, who waits for it or has it.
BlockOwned ==
  /\ m_BlockState = "NOT_BLOCKED" <=> m_dwBlockCallerThreadID = Nobody
  /\ m_hNotifyCallerPinBlockedEvent =
       IF m_BlockState = "PENDING" THEN m_dwBlockCallerThreadID ELSE Nobody
  /\ \A b \in Blockers :
       /\ b # m_dwBlockCallerThreadID => bpc[b] = "idle"
       /\ b = m_dwBlockCallerThreadID =>
            IF m_BlockState = "BLOCKED" THEN bpc[b] = "holds" ELSE bpc[b] \in {"sync", "async"}

Using == {s \in Streamers : spc[s] = "using"}

UsersCounted ==
  /\ m_dwNumOutstandingOutputPinUsers = Cardinality(Using)
  /\ m_BlockState = "BLOCKED" => m_dwNumOutstandingOutputPinUsers = 0

\* A thread on its way into its wait will see that the filter has stopped or flushes.
StopSeen ==
  /\ flushing => active /\ m_hStopEvent
  /\ \A s \in Streamers :
       /\ spc[s] \in {"waiting", "unblock"} => active \/ unheard \/ m_hStopEvent
       /\ spc[s] = "waiting" => ~m_hStopEvent

DynMemory == active /\ linked /\ ~halfChanged => memory

DynInv == DynTypes /\ BlockOwned /\ UsersCounted /\ StopSeen /\ DynMemory

-----------------------------------------------------------------------------
(* The message thread.                                                      *)

MsgInv ==
  /\ m_ThreadQueue \in Seq(Nat)
  /\ m_lWaiting \in Nat /\ m_hSem \in Nat
  /\ mpc \in {"take", "wait", "handle", "ended"}
  /\ posted \in Nat
  /\ m_lWaiting + m_hSem = IF mpc = "wait" THEN 1 ELSE 0
  /\ m_lWaiting = 1 => m_ThreadQueue = <<>>

-----------------------------------------------------------------------------
(* The source stream.                                                       *)

Alive == {"ready", "check", "get", "fill", "deliver"}

SrcTypes ==
  /\ owed \in {{}, {"complete"}}
  /\ tpc \in Alive \cup {"none", "new", "leaving"}
  /\ cpc \in {"idle", "init", "pause", "run", "stop", "exit", "close"}

\* A request is with the thread, or its answer is being given, or it has been given; and
\* none of these while nobody waits.
OneRequest ==
  LET with    == m_EventSend /\ m_dwParam = cpc /\ owed = {} /\ ~m_EventComplete
      giving  == ~m_EventSend /\ owed = {"complete"} /\ ~m_EventComplete
      given   == ~m_EventSend /\ owed = {} /\ m_EventComplete
  IN IF cpc \in {"idle", "close"} THEN ~m_EventSend /\ owed = {} /\ ~m_EventComplete
                                  ELSE with \/ giving \/ given

\* Where the thread is, for each command its caller waits for.
ThreadPlaces ==
  /\ cpc = "idle" => IF srcActive THEN tpc \in Alive /\ m_hThread
                     ELSE tpc = "none" /\ (m_hThread => srcFailed)
  /\ cpc = "init" => /\ m_hThread /\ ~srcActive
                     /\ IF m_EventSend THEN tpc = "new"
                        ELSE tpc = IF m_dwReturnVal THEN "ready" ELSE "none"
  /\ cpc \in {"pause", "run"} => m_hThread /\ tpc \in Alive
  /\ cpc = "stop" => m_hThread /\ srcActive /\ IF m_EventSend THEN tpc \in Alive ELSE tpc = "ready"
  /\ cpc = "exit" => m_hThread /\ srcActive
                     /\ IF m_EventSend THEN tpc = "ready" ELSE tpc \in {"leaving", "none"}
  /\ cpc = "close" => ~m_hThread /\ srcActive /\ tpc \in {"leaving", "none"}

SrcInv == IF part = "source" THEN SrcTypes /\ OneRequest /\ ThreadPlaces ELSE cpc = "idle"

-----------------------------------------------------------------------------
(* The pull pin.                                                            *)

Sample == [from : Int, to : Int, is : {"reading", "done", "cancelled"}, run : Nat]
Job    == [tStart : Int, tStop : Int, tAlignStop : Int, tCurrent : Int]

PullTypes ==
  /\ tpc \in {"none", "ready", "flush", "clean", "unflush", "process",
              "outer", "ahead", "queue", "collect", "last", "sync"}
  /\ ppc \in {"idle", "started", "pause", "paused", "restart", "exit", "close"}
  /\ m_tStart \in Int /\ m_tStop \in Int /\ m_tDuration \in Int /\ parg.to \in Int \X Int
  /\ reader \in Seq(Sample) /\ job \in Job /\ run \in Nat /\ reached \in Int

\* Who has the reader flushing, and that the thread is there until its handle is given up.
FlushOwned  == readerFlushing => ppc \in {"paused", "exit"} \/ tpc \in {"clean", "unflush"}
ThreadOwned == m_hThread \/ ppc = "close" \/ tpc = "none"

\* How many samples the reader has, by where the thread is; all are of this start.
Depth == IF cBuffers > 1 THEN 2 ELSE 1
ReaderDepth ==
  /\ tpc \in {"none", "ready", "unflush", "process", "outer", "ahead", "sync"} => Len(reader) = 0
  /\ tpc = "ahead" => Depth = 2
  /\ tpc = "queue" => Len(reader) = Depth - 1
  /\ tpc = "collect" => Len(reader) = Depth
  /\ tpc = "last" => Len(reader) = 1
  /\ tpc = "clean" => \A i \in DOMAIN reader : reader[i].is = "cancelled"
  /\ P!Processing => \A i \in DOMAIN reader : reader[i].run = run

\* What has been delivered and what the reader has follow each other, up to tCurrent.
Covered ==
  P!Processing =>
    /\ job.tStop <= job.tAlignStop /\ ~sentEos
    /\ reader = <<>> => reached >= P!Min2(job.tCurrent, job.tStop)
    /\ reader # <<>> => /\ reached >= P!Min2(reader[1].from, job.tStop)
                        /\ reader[Len(reader)].to = job.tCurrent
    /\ \A i \in DOMAIN reader : i > 1 => reader[i].from = reader[i - 1].to

\* Nothing is missing once the end of the stream was sent, until the next start.
EosAll == sentEos => reached >= job.tStop

PullCore == /\ PullTypes /\ FlushOwned /\ ThreadOwned /\ ReaderDepth /\ Covered
            /\ EosAll /\ P!ReaderWhileRunning

PullInv == part = "pull" => PullCore

PartTypes == part \in {"source", "pull", "msg", "dynamic"}

IInv == PartTypes /\ DynInv /\ MsgInv /\ SrcInv /\ PullInv

-----------------------------------------------------------------------------
(* Proofs: the dynamic output pin.                                          *)

\* The streaming threads that use the pin are finitely many, and counted one by one.
LEMMA UsersFinite ==
  ASSUME NEW U \in SUBSET Streamers
  PROVE  /\ IsFiniteSet(U) /\ Cardinality(U) \in Nat
         /\ Cardinality(U) = 0 <=> U = {}
         /\ \A s \in Streamers \ U : Cardinality(U \cup {s}) = Cardinality(U) + 1
         /\ \A s \in U : Cardinality(U \ {s}) = Cardinality(U) - 1
<1>1. IsFiniteSet(U)
  BY ThreadsAssumption, FS_Subset
<1>2. Cardinality(U) \in Nat
  BY <1>1, FS_CardinalityType
<1>. QED  BY <1>1, <1>2, FS_AddElement, FS_RemoveElement, FS_EmptySet

\* A blocker's steps that change who has the pin.
LEMMA BlockStep ==
  ASSUME DynInv, NEW b \in Blockers, D!Block(b) PROVE DynInv'
<1> USE ThreadsAssumption DEF DynInv, DynTypes, BlockOwned, UsersCounted, StopSeen, DynMemory, Using,
      D!linkVars, D!BlockOutputPin
<1>1. ASSUME NEW how \in {"sync", "async"}, D!AsynchronousBlockOutputPin(b, how) PROVE DynInv'
  <2>1. Using' = Using
    BY <1>1 DEF D!AsynchronousBlockOutputPin
  <2>2. CASE D!StreamingThreadUsingOutputPin
    BY <1>1, <2>1, <2>2 DEF D!AsynchronousBlockOutputPin
  <2>3. CASE ~D!StreamingThreadUsingOutputPin
    <3>1. m_dwNumOutstandingOutputPinUsers = 0
      BY <2>3 DEF D!StreamingThreadUsingOutputPin
    <3>. QED  BY <1>1, <2>1, <2>3, <3>1 DEF D!AsynchronousBlockOutputPin
  <2>. QED  BY <2>2, <2>3
<1>2. CASE D!UnblockOutputPin(b)
  <2>1. Using' = Using
    BY <1>2 DEF D!UnblockOutputPin, D!Freed
  <2>. QED  BY <1>2, <2>1 DEF D!UnblockOutputPin, D!Freed
<1>. QED  BY <1>1, <1>2 DEF D!Block, D!SynchronousBlockOutputPin

\* StartUsingOutputPin and StopUsingOutputPin count the users, and the last one grants the block.
LEMMA UserStep ==
  ASSUME DynInv, NEW s \in Streamers, D!StartUsingOutputPin(s) \/ D!StopUsingOutputPin(s)
  PROVE  DynInv'
<1> USE ThreadsAssumption DEF DynInv, DynTypes, BlockOwned, UsersCounted, StopSeen, DynMemory,
      D!linkVars, D!blockVars
<1>1. Using \in SUBSET Streamers
  BY DEF Using
<1>2. CASE D!StartUsingOutputPin(s)
  <2>1. CASE m_BlockState # "BLOCKED"
    <3>1. Using' = Using \cup {s} /\ s \notin Using
      BY <1>2, <2>1 DEF D!StartUsingOutputPin, D!Use, Using
    <3>2. Cardinality(Using') = Cardinality(Using) + 1
      BY <1>1, <3>1, UsersFinite
    <3>. QED  BY <1>2, <2>1, <3>2 DEF D!StartUsingOutputPin, D!Use
  <2>2. CASE m_BlockState = "BLOCKED"
    <3>1. Using' = Using
      BY <1>2, <2>2 DEF D!StartUsingOutputPin, Using
    <3>. QED  BY <1>2, <2>2, <3>1 DEF D!StartUsingOutputPin
  <2>. QED  BY <2>1, <2>2
<1>3. CASE D!StopUsingOutputPin(s)
  <2>1. Using' = Using \ {s} /\ s \in Using
    BY <1>3 DEF D!StopUsingOutputPin, Using
  <2>2. Cardinality(Using') = Cardinality(Using) - 1 /\ Cardinality(Using) \in Nat /\ Cardinality(Using) # 0
    BY <1>1, <2>1, UsersFinite
  <2>3. CASE m_dwNumOutstandingOutputPinUsers = 1 /\ m_BlockState # "NOT_BLOCKED"
    <3> DEFINE c == m_dwBlockCallerThreadID
    <3>1. /\ c \in Blockers /\ m_BlockState' = "BLOCKED" /\ bpc' = [bpc EXCEPT ![c] = "holds"]
          /\ m_hUnblockOutputPinEvent' = FALSE /\ m_hNotifyCallerPinBlockedEvent' = Nobody
          /\ UNCHANGED m_dwBlockCallerThreadID
      BY <1>3, <2>3 DEF D!StopUsingOutputPin, D!BlockOutputPin
    <3>2. BlockOwned'
      BY <3>1
    <3>3. UsersCounted' /\ m_dwNumOutstandingOutputPinUsers' = 0
      BY <1>3, <2>2, <2>3 DEF D!StopUsingOutputPin
    <3>4. StopSeen' /\ DynMemory'
      BY <1>3 DEF D!StopUsingOutputPin
    <3>5. DynTypes'
      BY <1>3, <3>1, <3>3 DEF D!StopUsingOutputPin
    <3>. QED  BY <3>2, <3>3, <3>4, <3>5
  <2>4. CASE ~(m_dwNumOutstandingOutputPinUsers = 1 /\ m_BlockState # "NOT_BLOCKED")
    BY <1>3, <2>2, <2>4 DEF D!StopUsingOutputPin
  <2>. QED  BY <2>3, <2>4
<1>. QED  BY <1>2, <1>3

\* A change of format, of the connection or of the filter's state leaves the block and its users.
LEMMA LinkStep ==
  ASSUME DynInv,
         \/ \E s \in Streamers, fmt \in Formats, f \in {"none", "receive", "set", "buffers"} :
              D!ChangeMediaType(s, fmt, f)
         \/ \E b \in Blockers : D!DynDisconnect(b) \/ \E fmt \in Formats : D!CompleteConnect(b, fmt)
         \/ D!Active \/ D!Inactive \/ D!DeliverBeginFlush \/ D!DeliverEndFlush
  PROVE  DynInv'
<1> USE DEF DynInv, DynTypes, BlockOwned, UsersCounted, StopSeen, DynMemory,
      D!linkVars, D!blockVars, D!others
<1>1. ASSUME NEW s \in Streamers, NEW fmt \in Formats, NEW f \in {"none", "receive", "set", "buffers"},
             D!ChangeMediaType(s, fmt, f)
      PROVE  DynInv'
  BY <1>1 DEF D!ChangeMediaType, D!ChangeMediaTypeHelper, Using
<1>2. ASSUME NEW b \in Blockers, D!DynDisconnect(b) PROVE DynInv'
  BY <1>2 DEF D!DynDisconnect, Using
<1>3. ASSUME NEW b \in Blockers, NEW fmt \in Formats, D!CompleteConnect(b, fmt) PROVE DynInv'
  BY <1>3 DEF D!CompleteConnect, Using
<1>4. CASE D!Active
  BY <1>4 DEF D!Active, Using
<1>5. CASE D!Inactive
  <2>1. Using' = Using
    BY <1>5 DEF D!Inactive, D!Freed, Using
  <2>. QED  BY <1>5, <2>1 DEF D!Inactive, D!Freed
<1>6. CASE D!DeliverBeginFlush
  <2>1. Using' = Using
    BY <1>6 DEF D!DeliverBeginFlush, D!Freed, Using
  <2>. QED  BY <1>6, <2>1 DEF D!DeliverBeginFlush, D!Freed
<1>7. CASE D!DeliverEndFlush
  BY <1>7 DEF D!DeliverEndFlush, Using
<1>. QED  BY <1>1, <1>2, <1>3, <1>4, <1>5, <1>6, <1>7

LEMMA DynStep == DynInv /\ [Next]_vars => DynInv'
<1> SUFFICES ASSUME DynInv, [Next]_vars PROVE DynInv'
  OBVIOUS
<1>1. CASE UNCHANGED dynamicVars
  BY <1>1 DEF dynamicVars, DynInv, DynTypes, BlockOwned, UsersCounted, StopSeen, DynMemory, Using
<1>2. CASE NextDynamic
  BY <1>2, BlockStep, UserStep, LinkStep DEF NextDynamic, D!DynNext
<1>. QED  BY <1>1, <1>2 DEF Next, NextSource, NextPull, NextMsg, vars

LEMMA DynStart == Init => DynInv
<1>1. Init => Using = {}
  BY DEF Init, D!DynInit, Using
<1>2. Cardinality({}) = 0
  BY FS_EmptySet
<1>3. Init => UsersCounted
  BY <1>1, <1>2 DEF Init, D!DynInit, UsersCounted
<1>4. Init => DynTypes
  BY DEF Init, D!DynInit, DynTypes
<1>5. Init => BlockOwned /\ StopSeen /\ DynMemory
  BY ThreadsAssumption DEF Init, D!DynInit, BlockOwned, StopSeen, DynMemory
<1>. QED  BY <1>3, <1>4, <1>5 DEF DynInv

\* CDynamicOutputPin keeps what BlockHolds says in every mix of blockers, streaming threads,
\* flushes and changes of state: a pin is never changed under a thread that uses it, what
\* AssertValid asserts holds whenever the lock is free, the connection of an active filter has
\* its memory, and no thread waits at a pin whose filter has stopped or flushes.
THEOREM BlockAlwaysHolds == Spec => []BlockHolds
<1>1. DynInv => BlockHolds
  <2> SUFFICES ASSUME DynInv PROVE BlockHolds
    OBVIOUS
  <2> USE ThreadsAssumption DEF DynInv, DynTypes, BlockOwned, UsersCounted, StopSeen, DynMemory
  <2>1. Using \in SUBSET Streamers /\ Using = {s \in Streamers : spc[s] = "using"}
    BY DEF Using
  <2>2. D!AssertValid
    <3>1. m_dwNumOutstandingOutputPinUsers = Cardinality({s \in Streamers : spc[s] = "using"})
      BY <2>1
    <3>2. (m_hNotifyCallerPinBlockedEvent # Nobody) <=> (m_BlockState = "PENDING")
      OBVIOUS
    <3>3. D!Cardinality(Using) = Cardinality(Using)
      BY DEF D!Cardinality, Cardinality
    <3>. QED  BY <2>1, <3>1, <3>2, <3>3 DEF D!AssertValid, D!StreamingThreadUsingOutputPin
  <2>3. D!SteadyInUse
    <3>1. m_BlockState = "BLOCKED" => Using = {}
      BY <2>1, UsersFinite
    <3>. QED  BY <2>1, <3>1 DEF D!SteadyInUse
  <2>4. D!MemoryWhileActive /\ D!NoWaitWhenStopped
    BY DEF D!MemoryWhileActive, D!NoWaitWhenStopped
  <2>. QED  BY <2>2, <2>3, <2>4 DEF BlockHolds, D!BlockHolds
<1>. QED  BY <1>1, DynStart, DynStep, PTL DEF Spec

-----------------------------------------------------------------------------
(* Proofs: the message thread.                                              *)

LEMMA MsgStep == MsgInv /\ [Next]_vars => MsgInv'
<1> SUFFICES ASSUME MsgInv, [Next]_vars PROVE MsgInv'
  OBVIOUS
<1> USE DEF MsgInv
<1>1. CASE UNCHANGED msgVars
  BY <1>1 DEF msgVars
<1>2. CASE M!PutThreadMsg
  <2>1. posted + 1 \in Nat /\ Append(m_ThreadQueue, posted + 1) \in Seq(Nat)
    OBVIOUS
  <2>. QED  BY <1>2, <2>1 DEF M!PutThreadMsg
<1>3. CASE M!GetThreadMsg
  <2>1. m_ThreadQueue # <<>> => Tail(m_ThreadQueue) \in Seq(Nat)
    OBVIOUS
  <2>2. CASE m_ThreadQueue = <<>>
    BY <1>3, <2>2 DEF M!GetThreadMsg
  <2>3. CASE m_ThreadQueue # <<>>
    BY <1>3, <2>1, <2>3 DEF M!GetThreadMsg
  <2>. QED  BY <2>2, <2>3
<1>4. CASE M!WaitForSemaphore
  BY <1>4 DEF M!WaitForSemaphore
<1>5. CASE M!ThreadMessageProc
  BY <1>5 DEF M!ThreadMessageProc
<1>6. CASE M!DeleteThread
  BY <1>6 DEF M!DeleteThread
<1>. QED  BY <1>1, <1>2, <1>3, <1>4, <1>5, <1>6
       DEF Next, NextMsg, M!MsgNext, M!MsgThreadStep, NextSource, NextPull, NextDynamic, vars

-----------------------------------------------------------------------------
(* Proofs: the source stream.                                               *)

\* The caller's side of CSourceStream: each command is posted when nothing of the last one is left.
LEMMA SrcCallerStep ==
  ASSUME SrcTypes /\ OneRequest /\ ThreadPlaces,
         S!Active \/ S!PauseOrRun \/ S!Inactive \/ S!CallerStep
  PROVE  (SrcTypes /\ OneRequest /\ ThreadPlaces)'
<1> USE DEF SrcTypes, OneRequest, ThreadPlaces, Alive, S!CallWorker, S!Post, S!Answered, S!ThreadExists,
            S!workerVars
<1>1. CASE S!Active
  BY <1>1 DEF S!Active, S!Create
<1>2. CASE S!PauseOrRun
  BY <1>2 DEF S!PauseOrRun
<1>3. CASE S!Inactive
  BY <1>3 DEF S!Inactive
<1>4. CASE S!Initialised
  BY <1>4 DEF S!Initialised
<1>5. CASE S!Going
  BY <1>5 DEF S!Going
<1>6. CASE S!Stopped
  BY <1>6 DEF S!Stopped
<1>7. CASE S!Exited
  BY <1>7 DEF S!Exited, S!Close
<1>8. CASE S!Closed
  BY <1>8 DEF S!Closed
<1>. QED  BY <1>1, <1>2, <1>3, <1>4, <1>5, <1>6, <1>7, <1>8 DEF S!CallerStep

\* The thread's side: it answers what it was asked, and only "exit" or a failure ends it.
LEMMA SrcThreadStep ==
  ASSUME SrcTypes /\ OneRequest /\ ThreadPlaces, S!ThreadStep \/ S!ReleaseBuffer
  PROVE  (SrcTypes /\ OneRequest /\ ThreadPlaces)'
<1> USE DEF SrcTypes, OneRequest, ThreadPlaces, Alive, S!Goto, S!Reply, S!GetRequest, S!CheckRequest,
            S!srcVars, S!workerVars
<1>1. CASE S!OnThreadCreate
  BY <1>1 DEF S!OnThreadCreate
<1>2. CASE S!ThreadProc
  <2>1. CASE S!GetRequest("exit") /\ S!Reply(TRUE, "leaving")
    BY <1>2, <2>1 DEF S!ThreadProc
  <2>2. CASE (S!GetRequest("run") \/ S!GetRequest("pause")) /\ S!Reply(TRUE, "check")
    BY <1>2, <2>2 DEF S!ThreadProc
  <2>3. CASE S!GetRequest("stop") /\ S!Reply(TRUE, "ready")
    BY <1>2, <2>3 DEF S!ThreadProc
  <2>. QED  BY <1>2, <2>1, <2>2, <2>3 DEF S!ThreadProc
<1>3. CASE S!ThreadEnds
  BY <1>3 DEF S!ThreadEnds
<1>4. CASE S!LoopRequest
  <2>1. cpc \in {"pause", "run", "stop"} /\ m_dwParam = cpc
    BY <1>4 DEF S!LoopRequest
  <2>2. CASE m_dwParam = "stop" /\ S!Goto("ready")
    BY <1>4, <2>2 DEF S!LoopRequest
  <2>3. CASE m_dwParam # "stop" /\ S!Reply(m_dwParam \in {"run", "pause"}, "check")
    BY <1>4, <2>1, <2>3 DEF S!LoopRequest
  <2>. QED  BY <1>4, <2>2, <2>3 DEF S!LoopRequest
<1>5. CASE S!NoRequest
  BY <1>5 DEF S!NoRequest
<1>6. CASE S!GetDeliveryBuffer
  BY <1>6 DEF S!GetDeliveryBuffer
<1>7. CASE S!FillBuffer
  BY <1>7 DEF S!FillBuffer
<1>8. CASE S!Deliver
  BY <1>8 DEF S!Deliver
<1>9. CASE S!Finish
  BY <1>9 DEF S!Finish, S!Complete
<1>10. CASE S!ReleaseBuffer
  BY <1>10 DEF S!ReleaseBuffer
<1>. QED  BY <1>1, <1>2, <1>3, <1>4, <1>5, <1>6, <1>7, <1>8, <1>9, <1>10 DEF S!ThreadStep

LEMMA SrcStep == SrcInv /\ [Next]_vars => SrcInv'
<1> SUFFICES ASSUME SrcInv, [Next]_vars PROVE SrcInv'
  OBVIOUS
<1>1. UNCHANGED part
  BY DEF Next, NextSource, NextPull, NextMsg, NextDynamic, vars
<1>2. CASE UNCHANGED <<workerVars, srcVars>>
  BY <1>1, <1>2 DEF SrcInv, SrcTypes, OneRequest, ThreadPlaces, workerVars, srcVars
<1>3. CASE NextSource
  BY <1>1, <1>3, SrcCallerStep, SrcThreadStep DEF SrcInv, NextSource, S!SrcNext
<1>4. CASE NextPull
  BY <1>1, <1>4 DEF SrcInv, NextPull, srcVars
<1>. QED  BY <1>2, <1>3, <1>4 DEF Next, NextMsg, NextDynamic, vars

\* Whatever the callers and the threads do, a request of CallWorker reaches a living thread or its
\* answer is on the way, an inactive source has no thread left, and CMsgThread never sleeps on a
\* message.
THEOREM RequestsAlwaysArrive == Spec => []RequestsArrive
<1>1. Init => MsgInv
  <2>1. <<>> \in Seq(Nat)
    OBVIOUS
  <2>. QED  BY <2>1 DEF Init, M!MsgInit, MsgInv
<1>2. Init => SrcInv
  BY DEF Init, S!SrcInit, S!WorkerInit, SrcInv, SrcTypes, OneRequest, ThreadPlaces
<1>3. MsgInv /\ SrcInv => RequestsArrive
  <2>1. MsgInv => M!NoMissedMessage
    BY DEF MsgInv, M!NoMissedMessage
  <2>2. SrcInv => S!RequestNotLost
    BY DEF SrcInv, S!RequestNotLost, SrcTypes, OneRequest, ThreadPlaces, S!Commands, Alive
  <2>3. SrcInv => (part = "source" => S!NoThreadWhenInactive)
    BY DEF SrcInv, S!NoThreadWhenInactive, SrcTypes, OneRequest, ThreadPlaces, Alive
  <2>. QED  BY <2>1, <2>2, <2>3 DEF RequestsArrive
<1>. QED  BY <1>1, <1>2, <1>3, MsgStep, SrcStep, PTL DEF Spec

-----------------------------------------------------------------------------
(* Proofs: the pull pin.                                                    *)

\* AlignDown and AlignUp go to a multiple of the alignment below and above.
LEMMA Alignment ==
  ASSUME NEW t \in Int
  PROVE  /\ P!AlignDown(t) \in Int /\ P!AlignDown(t) <= t
         /\ P!AlignUp(t) \in Int /\ P!AlignUp(t) >= t
<1>1. \A u \in Int : u % cbAlign \in Int /\ 0 <= u % cbAlign /\ u % cbAlign <= cbAlign - 1
  BY ThreadsAssumption
<1>2. /\ P!AlignDown(t) = t - (t % cbAlign)
      /\ P!AlignUp(t) = (t + cbAlign - 1) - ((t + cbAlign - 1) % cbAlign)
  BY DEF P!AlignDown, P!AlignUp
<1>3. cbAlign \in Int /\ t + cbAlign - 1 \in Int
  BY ThreadsAssumption
<1>. QED  BY <1>1, <1>2, <1>3

\* A flush of the reader changes nothing of its samples but that they are cancelled.
LEMMA CancelKeeps ==
  ASSUME NEW q \in Seq(Sample)
  PROVE  /\ P!Cancel(q) \in Seq(Sample) /\ Len(P!Cancel(q)) = Len(q)
         /\ \A i \in 1..Len(q) : /\ P!Cancel(q)[i].is = "cancelled"
                                 /\ P!Cancel(q)[i].from = q[i].from /\ P!Cancel(q)[i].to = q[i].to
                                 /\ P!Cancel(q)[i].run = q[i].run
<1>1. P!Cancel(q) = [i \in 1..Len(q) |-> [q[i] EXCEPT !.is = "cancelled"]]
  BY DEF P!Cancel
<1>2. \A i \in 1..Len(q) : q[i] \in Sample
  OBVIOUS
<1>3. \A i \in 1..Len(q) : [q[i] EXCEPT !.is = "cancelled"] \in Sample
  BY <1>2 DEF Sample
<1>4. P!Cancel(q) \in Seq(Sample) /\ Len(P!Cancel(q)) = Len(q)
  BY <1>1, <1>3
<1>5. \A i \in 1..Len(q) : P!Cancel(q)[i] = [q[i] EXCEPT !.is = "cancelled"]
  BY <1>1
<1>. QED  BY <1>2, <1>4, <1>5 DEF Sample

\* A nonempty set of numbers has a least element.
LEMMA LeastNumber ==
  ASSUME NEW T \in SUBSET Nat, T # {} PROVE \E i \in T : \A j \in T : i <= j
<1> DEFINE R == OpToRel(<, Nat)
<1>1. IsWellFoundedOn(R, Nat)
  BY NatLessThanWellFounded
<1>2. \A i, j \in Nat : <<j, i>> \in R <=> j < i
  BY DEF OpToRel
<1>. HIDE DEF R
<1>3. \E i \in T : \A j \in T : ~(<<j, i>> \in R)
  BY <1>1, WFMin
<1>4. PICK i \in T : \A j \in T : ~(<<j, i>> \in R)
  BY <1>3
<1>5. \A j \in T : ~(j < i)
  BY <1>2, <1>4
<1>. QED  BY <1>5

\* What the reader gives back after a flush is a suffix of what it has, nothing if all is cancelled.
LEMMA CleanupKeeps ==
  ASSUME NEW q \in Seq(Sample)
  PROVE  /\ P!CleanupCancelled(q) \in Seq(Sample)
         /\ (\A i \in 1..Len(q) : q[i].is = "cancelled") => P!CleanupCancelled(q) = <<>>
<1> DEFINE reading == {i \in DOMAIN q : q[i].is = "reading"}
<1>1. CASE reading = {}
  BY <1>1 DEF P!CleanupCancelled
<1>2. CASE reading # {}
  <2>1. \E i \in reading : \A j \in reading : i <= j
    <3>1. reading \in SUBSET Nat /\ reading # {}
      BY <1>2
    <3>. QED  BY <3>1, LeastNumber
  <2> DEFINE k == CHOOSE i \in reading : \A j \in reading : i <= j
  <2>2. k \in 1..Len(q) /\ q[k].is = "reading"
    BY <2>1
  <2>3. P!CleanupCancelled(q) = SubSeq(q, k, Len(q))
    BY <1>2 DEF P!CleanupCancelled
  <2>. HIDE DEF k, reading
  <2>4. SubSeq(q, k, Len(q)) \in Seq(Sample)
    BY <2>2, SubSeqProperties
  <2>. QED  BY <2>2, <2>3, <2>4
<1>. QED  BY <1>1, <1>2

\* A step that leaves the thread and what it has done, and the samples but for what became of them.
LEMMA SamplesKept ==
  ASSUME PullTypes, ReaderDepth, Covered, EosAll,
         UNCHANGED <<tpc, job, run, reached, sentEos>>,
         reader' \in Seq(Sample), Len(reader') = Len(reader),
         \A i \in 1..Len(reader) : /\ reader'[i].from = reader[i].from /\ reader'[i].to = reader[i].to
                                   /\ reader'[i].run = reader[i].run,
         tpc = "clean" => \A i \in 1..Len(reader) : reader'[i].is = "cancelled"
  PROVE  ReaderDepth' /\ Covered' /\ EosAll'
<1> USE DEF PullTypes
<1>1. EosAll' /\ P!Processing' = P!Processing
  BY DEF EosAll, P!Processing
<1>2. DOMAIN reader = 1..Len(reader) /\ DOMAIN reader' = 1..Len(reader) /\ Len(reader) \in Nat
  OBVIOUS
<1>3. (reader = <<>> <=> Len(reader) = 0) /\ (reader' = <<>> <=> Len(reader) = 0)
  OBVIOUS
<1>4. ReaderDepth'
  BY <1>1, <1>2 DEF ReaderDepth
<1>5. Covered'
  <2> SUFFICES ASSUME P!Processing
               PROVE  /\ job.tStop <= job.tAlignStop /\ ~sentEos
                      /\ Len(reader) = 0 => reached >= P!Min2(job.tCurrent, job.tStop)
                      /\ Len(reader) # 0 => /\ reached >= P!Min2(reader'[1].from, job.tStop)
                                            /\ reader'[Len(reader)].to = job.tCurrent
                      /\ \A i \in 1..Len(reader) : i > 1 => reader'[i].from = reader'[i - 1].to
    BY <1>1, <1>2, <1>3 DEF Covered, P!Min2
  <2>1. Len(reader) # 0 => 1 \in 1..Len(reader) /\ Len(reader) \in 1..Len(reader)
    BY <1>2
  <2>2. \A i \in 1..Len(reader) : i > 1 => i - 1 \in 1..Len(reader)
    BY <1>2
  <2>3. /\ job.tStop <= job.tAlignStop /\ ~sentEos
        /\ Len(reader) = 0 => reached >= P!Min2(job.tCurrent, job.tStop)
        /\ Len(reader) # 0 => /\ reached >= P!Min2(reader[1].from, job.tStop)
                              /\ reader[Len(reader)].to = job.tCurrent
        /\ \A i \in 1..Len(reader) : i > 1 => reader[i].from = reader[i - 1].to
    BY <1>2, <1>3 DEF Covered
  <2>4. \A i \in 1..Len(reader) : i > 1 => reader'[i].from = reader'[i - 1].to
    BY <2>2, <2>3
  <2>5. CASE Len(reader) # 0
    <3>1. reader'[1].from = reader[1].from /\ reader'[Len(reader)].to = reader[Len(reader)].to
      BY <2>1, <2>5
    <3>. QED  BY <2>3, <2>4, <2>5, <3>1
  <2>. QED  BY <2>3, <2>4, <2>5
<1>. QED  BY <1>1, <1>4, <1>5

\* The same for a step that at most has the reader begin a flush.
LEMMA ReaderKept ==
  ASSUME PullTypes, ReaderDepth, Covered, EosAll,
         reader' = reader \/ reader' = P!Cancel(reader),
         UNCHANGED <<tpc, job, run, reached, sentEos>>
  PROVE  reader' \in Seq(Sample) /\ ReaderDepth' /\ Covered' /\ EosAll'
<1>1. CASE reader' = reader
  <2>1. DOMAIN reader = 1..Len(reader) /\ reader \in Seq(Sample)
    BY DEF PullTypes
  <2>2. tpc = "clean" => \A i \in 1..Len(reader) : reader'[i].is = "cancelled"
    BY <1>1, <2>1 DEF ReaderDepth
  <2>. QED  BY <1>1, <2>1, <2>2, SamplesKept
<1>2. CASE reader' = P!Cancel(reader)
  <2>1. /\ reader' \in Seq(Sample) /\ Len(reader') = Len(reader)
        /\ \A i \in 1..Len(reader) : /\ reader'[i].is = "cancelled" /\ reader'[i].from = reader[i].from
                                     /\ reader'[i].to = reader[i].to /\ reader'[i].run = reader[i].run
    BY <1>2, CancelKeeps DEF PullTypes
  <2>. QED  BY <2>1, SamplesKept
<1>. QED  BY <1>1, <1>2

\* A thread is created by StartThread only if there is none.
LEMMA StartThreadStep ==
  ASSUME PullCore, NEW then \in {"started"}, P!StartThread(then), ppc \in {"idle", "restart"},
         UNCHANGED <<m_pReader, m_tDuration, reader, readerFlushing, job, run, reached, sentEos, refused>>
  PROVE  /\ FlushOwned' /\ ThreadOwned' /\ ReaderDepth' /\ Covered' /\ EosAll'
         /\ P!ReaderWhileRunning' /\ reader' \in Seq(Sample)
         /\ tpc' \in {tpc, "ready"} /\ ppc' = then
<1> USE ThreadsAssumption DEF PullCore
<1>1. /\ ppc' = then /\ m_pReader # NoReader
      /\ IF m_hThread THEN UNCHANGED <<m_hThread, tpc, pullMemory>>
         ELSE m_hThread' = TRUE /\ tpc' = "ready" /\ pullMemory' = TRUE
  BY DEF P!StartThread, P!ThreadExists, P!Create
<1>2. CASE m_hThread
  <2>1. reader' \in Seq(Sample) /\ ReaderDepth' /\ Covered' /\ EosAll'
    BY <1>1, <1>2, ReaderKept
  <2>. QED  BY <1>1, <1>2, <2>1 DEF FlushOwned, ThreadOwned, P!ReaderWhileRunning, PullTypes
<1>3. CASE ~m_hThread
  <2>1. tpc = "none" /\ Len(reader) = 0 /\ reader \in Seq(Sample)
    BY <1>3 DEF ThreadOwned, ReaderDepth, PullTypes
  <2>. QED  BY <1>1, <1>3, <2>1
         DEF FlushOwned, ThreadOwned, ReaderDepth, Covered, EosAll, P!ReaderWhileRunning, P!Processing
<1>. QED  BY <1>2, <1>3

\* The caller's side of CPullPin.
LEMMA PullCallerStep ==
  ASSUME PullCore,
         \/ P!Connect \/ P!Active \/ P!Seek \/ P!Inactive \/ P!Disconnect \/ P!DisconnectIdle
         \/ P!PullCallerStep
  PROVE  PullCore'
<1> USE ThreadsAssumption DEF PullCore, P!workerVars, P!readerVars, P!pinState, P!downstream
<1>1. CASE P!Connect
  <2>1. reader' \in Seq(Sample) /\ ReaderDepth' /\ Covered' /\ EosAll'
    BY <1>1, ReaderKept DEF P!Connect
  <2>. QED  BY <1>1, <2>1 DEF P!Connect, PullTypes, FlushOwned, ThreadOwned, P!ReaderWhileRunning
<1>2. CASE P!Active
  <2>1. P!StartThread("started") /\ ppc = "idle"
    BY <1>2 DEF P!Active
  <2>. QED  BY <1>2, <2>1, StartThreadStep DEF P!Active, PullTypes
<1>3. CASE P!Seek
  <2>1. reader' \in Seq(Sample) /\ ReaderDepth' /\ Covered' /\ EosAll'
    BY <1>3, ReaderKept DEF P!Seek
  <2>2. PICK p \in Positions :
          IF pullState = "start"
          THEN ppc' = "pause" /\ parg' = [P!NoArg EXCEPT !.to = p] /\ UNCHANGED <<m_tStart, m_tStop>>
          ELSE m_tStart' = p[1] /\ m_tStop' = p[2] /\ UNCHANGED <<ppc, parg>>
    BY <1>3 DEF P!Seek
  <2>3. p \in Int \X Int /\ p[1] \in Int /\ p[2] \in Int
    OBVIOUS
  <2>4. PullTypes'
    BY <1>3, <2>1, <2>2, <2>3 DEF P!Seek, PullTypes, P!NoArg
  <2>. QED  BY <1>3, <2>1, <2>2, <2>4 DEF P!Seek, PullTypes, FlushOwned, ThreadOwned, P!ReaderWhileRunning
<1>4. ASSUME NEW then \in {"stop", "disconnect"}, P!StopThread(then) PROVE PullCore'
  <2>1. reader' \in Seq(Sample) /\ ReaderDepth' /\ Covered' /\ EosAll'
    BY <1>4, ReaderKept DEF P!StopThread, P!BeginFlush
  <2>2. PullTypes'
    <3>1. [P!NoArg EXCEPT !.disconnect = (then = "disconnect")].to = <<0, 0>>
      BY DEF P!NoArg
    <3>2. parg'.to \in Int \X Int
      <4>1. parg' = parg \/ parg' = [P!NoArg EXCEPT !.disconnect = (then = "disconnect")]
        BY <1>4 DEF P!StopThread
      <4>2. CASE parg' = parg
        BY <4>2 DEF PullTypes
      <4>3. CASE parg' = [P!NoArg EXCEPT !.disconnect = (then = "disconnect")]
        <5>1. parg'.to = <<0, 0>>
          BY <3>1, <4>3
        <5>. QED  BY <5>1
      <4>. QED  BY <4>1, <4>2, <4>3
    <3>. QED  BY <1>4, <2>1, <3>2 DEF P!StopThread, PullTypes
  <2>. QED  BY <1>4, <2>1, <2>2 DEF P!StopThread, P!BeginFlush, FlushOwned, ThreadOwned, P!ReaderWhileRunning
<1>5. CASE P!DisconnectIdle
  <2>1. reader' \in Seq(Sample) /\ ReaderDepth' /\ Covered' /\ EosAll'
    BY <1>5, ReaderKept DEF P!DisconnectIdle
  <2>2. tpc = "none"
    BY <1>5 DEF P!DisconnectIdle, ThreadOwned, P!ThreadExists
  <2>. QED  BY <1>5, <2>1, <2>2 DEF P!DisconnectIdle, PullTypes, FlushOwned, ThreadOwned, P!ReaderWhileRunning
<1>6. CASE P!Started
  <2>1. reader' \in Seq(Sample) /\ ReaderDepth' /\ Covered' /\ EosAll'
    BY <1>6, ReaderKept DEF P!Started
  <2>. QED  BY <1>6, <2>1 DEF P!Started, PullTypes, FlushOwned, ThreadOwned, P!ReaderWhileRunning
<1>7. CASE P!PauseThread
  <2>1. reader' \in Seq(Sample) /\ ReaderDepth' /\ Covered' /\ EosAll'
    BY <1>7, ReaderKept DEF P!PauseThread, P!BeginFlush
  <2>. QED  BY <1>7, <2>1
         DEF P!PauseThread, P!BeginFlush, PullTypes, FlushOwned, ThreadOwned, P!ReaderWhileRunning
<1>8. CASE P!Paused
  <2>1. reader' \in Seq(Sample) /\ ReaderDepth' /\ Covered' /\ EosAll'
    BY <1>8, ReaderKept DEF P!Paused, P!EndFlush
  <2>. QED  BY <1>8, <2>1
         DEF P!Paused, P!EndFlush, PullTypes, FlushOwned, ThreadOwned, P!ReaderWhileRunning
<1>9. CASE P!Restart
  <2>1. P!StartThread("started") /\ ppc = "restart"
    BY <1>9 DEF P!Restart
  <2>2. parg.to[1] \in Int /\ parg.to[2] \in Int /\ P!NoArg.to \in Int \X Int
    BY DEF PullTypes, P!NoArg
  <2>. QED  BY <1>9, <2>1, <2>2, StartThreadStep DEF P!Restart, PullTypes
<1>10. CASE P!Exited
  <2>1. reader' \in Seq(Sample) /\ ReaderDepth' /\ Covered' /\ EosAll'
    BY <1>10, ReaderKept DEF P!Exited, P!EndFlush
  <2>. QED  BY <1>10, <2>1
         DEF P!Exited, P!EndFlush, PullTypes, FlushOwned, ThreadOwned, P!ReaderWhileRunning
<1>11. CASE P!Closed
  <2>1. reader' \in Seq(Sample) /\ ReaderDepth' /\ Covered' /\ EosAll'
    BY <1>11, ReaderKept DEF P!Closed
  <2>. QED  BY <1>11, <2>1
         DEF P!Closed, PullTypes, P!NoArg, FlushOwned, ThreadOwned, P!ReaderWhileRunning
<1>. QED  BY <1>1, <1>2, <1>3, <1>4, <1>5, <1>6, <1>7, <1>8, <1>9, <1>10, <1>11
       DEF P!PullCallerStep, P!Inactive, P!Disconnect

\* The thread of CPullPin outside Process: a command, then the flush that leaves the reader empty.
LEMMA PullCommandStep ==
  ASSUME PullCore, P!ThreadProc \/ P!Flush \/ P!Clean \/ P!Unflush \/ P!Process \/ P!Finish \/ P!ReadDone
  PROVE  PullCore'
<1> USE DEF PullCore, P!workerVars, P!readerVars, P!pinState, P!downstream
<1>1. CASE P!ThreadProc
  <2>1. /\ tpc = "ready" /\ tpc' \in {"none", "flush", "process"} /\ run' \in {run, run + 1}
        /\ UNCHANGED <<m_hThread, reader, readerFlushing, m_pReader, m_tStart, m_tStop, m_tDuration,
                       pullMemory, ppc, parg, job, reached, sentEos, refused>>
    BY <1>1 DEF P!ThreadProc, P!Reply
  <2>2. Len(reader) = 0 /\ run' \in Nat
    BY <2>1 DEF ReaderDepth, PullTypes
  <2>3. EosAll'
    BY <2>1 DEF EosAll
  <2>. QED  BY <2>1, <2>2, <2>3
         DEF PullTypes, FlushOwned, ThreadOwned, ReaderDepth, Covered, P!Processing, P!ReaderWhileRunning
<1>2. CASE P!Flush
  <2>1. /\ tpc = "flush" /\ tpc' = "clean" /\ reader' = P!Cancel(reader)
        /\ UNCHANGED <<m_hThread, m_pReader, m_tStart, m_tStop, m_tDuration,
                       pullMemory, ppc, parg, job, run, reached, sentEos, refused>>
    BY <1>2 DEF P!Flush, P!BeginFlush, P!Goto
  <2>2. reader' \in Seq(Sample) /\ \A i \in DOMAIN reader' : reader'[i].is = "cancelled"
    BY <2>1, CancelKeeps DEF PullTypes
  <2>. QED  BY <2>1, <2>2
         DEF PullTypes, FlushOwned, ThreadOwned, ReaderDepth, Covered, P!Processing, EosAll,
             P!ReaderWhileRunning
<1>3. CASE P!Clean
  <2>1. /\ tpc = "clean" /\ tpc' = "unflush" /\ reader' = P!CleanupCancelled(reader)
        /\ UNCHANGED <<m_hThread, m_pReader, m_tStart, m_tStop, m_tDuration, readerFlushing,
                       pullMemory, ppc, parg, job, run, reached, sentEos, refused>>
    BY <1>3 DEF P!Clean, P!Goto
  <2>2. reader' = <<>>
    BY <2>1, CleanupKeeps DEF PullTypes, ReaderDepth
  <2>. QED  BY <2>1, <2>2
         DEF PullTypes, FlushOwned, ThreadOwned, ReaderDepth, Covered, P!Processing, EosAll,
             P!ReaderWhileRunning
<1>4. CASE P!Unflush
  BY <1>4 DEF P!Unflush, P!EndFlush, P!Goto,
         PullTypes, FlushOwned, ThreadOwned, ReaderDepth, Covered, P!Processing, EosAll,
             P!ReaderWhileRunning
<1>5. CASE P!Process
  <2> DEFINE stop == P!Min2(m_tStop, m_tDuration)
  <2>1. /\ tpc = "process" /\ tpc' = (IF m_tStop <= m_tStart THEN "flush" ELSE "outer")
        /\ job' = [tStart |-> P!AlignDown(m_tStart), tStop |-> stop, tAlignStop |-> P!AlignUp(stop),
                   tCurrent |-> P!AlignDown(m_tStart)]
        /\ reached' = m_tStart /\ sentEos' = (m_tStop <= m_tStart)
        /\ UNCHANGED <<m_hThread, m_pReader, m_tStart, m_tStop, m_tDuration, reader, readerFlushing,
                       pullMemory, ppc, parg, run, refused>>
    BY <1>5 DEF P!Process, P!Goto
  <2>2. stop \in Int /\ stop <= m_tStop
    BY DEF P!Min2, PullTypes
  <2>. HIDE DEF stop
  <2>3. Len(reader) = 0 /\ reader = <<>>
    BY <2>1 DEF ReaderDepth, PullTypes
  <2>4. /\ P!AlignDown(m_tStart) \in Int /\ P!AlignDown(m_tStart) <= m_tStart
        /\ P!AlignUp(stop) \in Int /\ stop <= P!AlignUp(stop)
    BY <2>2, Alignment DEF PullTypes
  <2>5. job' \in Job /\ job'.tStop = stop /\ job'.tAlignStop = P!AlignUp(stop)
        /\ job'.tCurrent = P!AlignDown(m_tStart)
    BY <2>1, <2>2, <2>4 DEF Job
  <2>6. PullTypes'
    BY <2>1, <2>5 DEF PullTypes
  <2>7. Covered'
    <3>1. CASE m_tStop <= m_tStart
      BY <2>1, <3>1 DEF Covered, P!Processing
    <3>2. CASE ~(m_tStop <= m_tStart)
      <4>1. tpc' = "outer" /\ ~sentEos' /\ reached' = m_tStart /\ m_tStart \in Int
        BY <2>1, <3>2 DEF PullTypes
      <4>2. job'.tStop <= job'.tAlignStop
        BY <2>4, <2>5
      <4>3. reached' >= P!Min2(job'.tCurrent, job'.tStop)
        BY <2>2, <2>4, <2>5, <4>1 DEF P!Min2
      <4>4. reader' = <<>> /\ DOMAIN reader' = {}
        BY <2>1, <2>3
      <4>. QED  BY <4>1, <4>2, <4>3, <4>4 DEF Covered, P!Min2
    <3>. QED  BY <3>1, <3>2
  <2>8. EosAll'
    <3>1. m_tStop <= m_tStart => m_tStart >= stop
      BY <2>2 DEF PullTypes
    <3>2. reached' = m_tStart /\ job'.tStop = stop /\ (sentEos' => m_tStop <= m_tStart)
      BY <2>1, <2>5
    <3>. QED  BY <3>1, <3>2 DEF EosAll
  <2>. QED  BY <2>1, <2>3, <2>6, <2>7, <2>8
         DEF FlushOwned, ThreadOwned, ReaderDepth, P!ReaderWhileRunning
<1>6. CASE P!Finish
  <2>1. UNCHANGED <<m_hThread, tpc, m_pReader, m_tStart, m_tStop, m_tDuration, reader, readerFlushing,
                    pullMemory, ppc, parg, job, run, reached, sentEos, refused>>
    BY <1>6 DEF P!Finish, P!Complete, P!pullVars
  <2>2. reader' \in Seq(Sample) /\ ReaderDepth' /\ Covered' /\ EosAll'
    BY <2>1, ReaderKept
  <2>. QED  BY <2>1, <2>2 DEF PullTypes, FlushOwned, ThreadOwned, P!ReaderWhileRunning
<1>7. CASE P!ReadDone
  <2>1. PICK i \in DOMAIN reader : reader[i].is = "reading" /\ reader' = [reader EXCEPT ![i].is = "done"]
    BY <1>7 DEF P!ReadDone
  <2>2. UNCHANGED <<m_hThread, tpc, m_pReader, m_tStart, m_tStop, m_tDuration, readerFlushing,
                    pullMemory, ppc, parg, job, run, reached, sentEos, refused>>
    BY <1>7 DEF P!ReadDone
  <2>3. reader \in Seq(Sample) /\ i \in 1..Len(reader) /\ reader[i] \in Sample
    BY <2>1 DEF PullTypes
  <2>4. reader' = [reader EXCEPT ![i] = [reader[i] EXCEPT !.is = "done"]]
    BY <2>1
  <2>5. [reader[i] EXCEPT !.is = "done"] \in Sample
    BY <2>3 DEF Sample
  <2>6. reader' \in Seq(Sample) /\ Len(reader') = Len(reader)
    BY <2>3, <2>4, <2>5, ExceptSeq
  <2>7. \A j \in 1..Len(reader) : reader'[j] = IF j = i THEN [reader[i] EXCEPT !.is = "done"] ELSE reader[j]
    BY <2>3, <2>4
  <2>8. \A j \in 1..Len(reader) : /\ reader'[j].from = reader[j].from /\ reader'[j].to = reader[j].to
                                  /\ reader'[j].run = reader[j].run
    BY <2>3, <2>7 DEF Sample
  <2>9. tpc # "clean"
    BY <2>1 DEF ReaderDepth
  <2>10. ReaderDepth' /\ Covered' /\ EosAll'
    BY <2>2, <2>6, <2>8, <2>9, SamplesKept
  <2>. QED  BY <2>2, <2>6, <2>10 DEF PullTypes, FlushOwned, ThreadOwned, P!ReaderWhileRunning
<1>. QED  BY <1>1, <1>2, <1>3, <1>4, <1>5, <1>6, <1>7

\* A step of Process that leaves the loops for the flush, with whatever it left in the reader.
LEMMA ProcessLeft ==
  ASSUME PullCore, P!Processing, tpc' = "flush", reader' \in Seq(Sample), job' \in Job, reached' \in Int,
         sentEos' => reached' >= job'.tStop,
         UNCHANGED <<m_hThread, m_pReader, m_tStart, m_tStop, m_tDuration, readerFlushing,
                     pullMemory, ppc, parg, run, refused>>
  PROVE  PullCore'
<1>1. tpc # "none"
  BY DEF P!Processing
<1>2. PullTypes'
  BY DEF PullCore, PullTypes
<1>3. FlushOwned' /\ ThreadOwned' /\ P!ReaderWhileRunning'
  BY <1>1 DEF PullCore, FlushOwned, ThreadOwned, P!ReaderWhileRunning, P!Processing
<1>4. ReaderDepth' /\ Covered' /\ EosAll'
  BY DEF ReaderDepth, Covered, P!Processing, EosAll
<1>. QED  BY <1>2, <1>3, <1>4 DEF PullCore

\* A step of Process that stays in its loops leaves what is not the reader's or its own.
LEMMA ProcessGoes ==
  ASSUME PullCore, P!Processing, P!Processing', reader' \in Seq(Sample), job' \in Job, reached' \in Int,
         ReaderDepth', Covered',
         UNCHANGED <<m_hThread, m_pReader, m_tStart, m_tStop, m_tDuration, readerFlushing,
                     pullMemory, ppc, parg, run, refused>>
  PROVE  PullCore'
<1>1. tpc # "none" /\ tpc \notin {"clean", "unflush"}
  BY DEF P!Processing
<1>2. PullTypes'
  BY DEF PullCore, PullTypes, P!Processing
<1>3. FlushOwned' /\ ThreadOwned' /\ P!ReaderWhileRunning'
  BY <1>1 DEF PullCore, FlushOwned, ThreadOwned, P!ReaderWhileRunning, P!Processing
<1>4. EosAll'
  BY DEF Covered, EosAll
<1>. QED  BY <1>2, <1>3, <1>4 DEF PullCore

\* The next request goes from tCurrent to a later place, at most to tAlignStop.
LEMMA NextStopType == ASSUME job \in Job PROVE P!NextStop \in Int /\ job.tCurrent \in Int
BY ThreadsAssumption DEF Job, P!NextStop, P!Min2

\* The loops of Process: requests and deliveries follow each other up to the stop position.
LEMMA PullLoopStep ==
  ASSUME PullCore, P!Outer \/ P!QueueSample \/ P!CollectAndDeliver \/ P!SyncRead
  PROVE  PullCore'
<1> USE DEF P!workerVars, P!readerVars, P!pinState, P!downstream, P!Goto
<1>0. /\ P!Processing /\ reader \in Seq(Sample) /\ job \in Job /\ reached \in Int /\ run \in Nat
      /\ job.tStop \in Int /\ job.tAlignStop \in Int /\ job.tCurrent \in Int /\ ~sentEos
      /\ UNCHANGED <<m_hThread, m_pReader, m_tStart, m_tStop, m_tDuration, readerFlushing,
                     pullMemory, ppc, parg, run, refused>>
      /\ tpc \in {"outer", "ahead", "queue", "collect", "last", "sync"}
  <2>1. P!Processing
    BY DEF P!Outer, P!QueueSample, P!CollectAndDeliver, P!SyncRead, P!Processing
  <2>2. /\ reader \in Seq(Sample) /\ job \in Job /\ reached \in Int /\ run \in Nat
        /\ job.tStop \in Int /\ job.tAlignStop \in Int /\ job.tCurrent \in Int
    BY DEF PullCore, PullTypes, Job
  <2>3. UNCHANGED <<m_hThread, m_pReader, m_tStart, m_tStop, m_tDuration, readerFlushing,
                     pullMemory, ppc, parg, run, refused>>
    BY DEF P!Outer, P!QueueSample, P!CollectAndDeliver, P!SyncRead, P!EndOfStream
  <2>4. ~sentEos
    BY <2>1 DEF PullCore, Covered
  <2>. QED  BY <2>1, <2>2, <2>3, <2>4 DEF P!Processing
<1>1. CASE P!Outer
  <2>1. UNCHANGED <<reader, job>> /\ tpc = "outer" /\ reader = <<>> /\ Len(reader) = 0
    BY <1>0, <1>1 DEF P!Outer, PullCore, ReaderDepth
  <2>2. CASE ~P!More /\ P!EndOfStream
    <3>1. reached >= job.tStop
      BY <1>0, <2>1, <2>2 DEF P!More, PullCore, Covered, P!Min2
    <3>. QED  BY <1>0, <2>1, <2>2, <3>1, ProcessLeft DEF P!EndOfStream
  <2>3. CASE tpc' = "flush" /\ UNCHANGED <<reached, sentEos>>
    BY <1>0, <2>1, <2>3, ProcessLeft
  <2>4. CASE /\ tpc' = (IF m_pReader.sync THEN "sync" ELSE IF cBuffers > 1 THEN "ahead" ELSE "queue")
             /\ UNCHANGED <<reached, sentEos>>
    <3>1. ReaderDepth'
      BY <1>0, <2>1, <2>4 DEF ReaderDepth, P!Processing, Depth
    <3>2. Covered' /\ P!Processing'
      BY <1>0, <2>1, <2>4 DEF PullCore, Covered, P!Processing, P!Min2
    <3>. QED  BY <1>0, <2>1, <2>4, <3>1, <3>2, ProcessGoes
  <2>. QED  BY <1>1, <2>2, <2>3, <2>4 DEF P!Outer
<1>2. CASE P!QueueSample
  <2> DEFINE new == [from |-> job.tCurrent, to |-> P!NextStop, is |-> "reading", run |-> run]
  <2>1. /\ tpc \in {"ahead", "queue"} /\ job' = [job EXCEPT !.tCurrent = P!NextStop]
        /\ UNCHANGED <<reached, sentEos>>
    BY <1>2 DEF P!QueueSample
  <2>2. P!NextStop \in Int
    BY <1>0, NextStopType
  <2>3. /\ job' \in Job /\ job'.tStop = job.tStop /\ job'.tAlignStop = job.tAlignStop
        /\ job'.tCurrent = P!NextStop
    BY <1>0, <2>1, <2>2 DEF Job
  <2>4. CASE reader' = P!CleanupCancelled(reader) /\ tpc' = "flush"
    BY <1>0, <2>1, <2>3, <2>4, CleanupKeeps, ProcessLeft
  <2>5. CASE /\ reader' = Append(reader, new)
             /\ tpc' = IF tpc = "queue" THEN "collect" ELSE IF P!NextStop < job.tAlignStop THEN "queue" ELSE "last"
    <3>1. new \in Sample
      BY <1>0, <2>2 DEF Sample
    <3>2. /\ reader' \in Seq(Sample) /\ Len(reader') = Len(reader) + 1 /\ Len(reader) \in Nat
          /\ reader'[Len(reader) + 1] = new /\ reader' # <<>>
          /\ \A i \in 1..Len(reader) : reader'[i] = reader[i]
          /\ DOMAIN reader = 1..Len(reader) /\ DOMAIN reader' = 1..(Len(reader) + 1)
      BY <1>0, <2>5, <3>1
    <3>3. new.from = job.tCurrent /\ new.to = P!NextStop /\ new.run = run
      OBVIOUS
    <3>. HIDE DEF new
    <3>4. \A i \in 1..(Len(reader) + 1) : reader'[i].run = run'
      BY <1>0, <3>2, <3>3 DEF PullCore, ReaderDepth
    <3>5. P!Processing'
      BY <2>1, <2>5 DEF P!Processing
    <3>6. ReaderDepth'
      <4>1. Depth \in {1, 2}
        BY DEF Depth
      <4>. QED  BY <1>0, <2>1, <2>5, <3>2, <3>4, <4>1 DEF PullCore, ReaderDepth
    <3>7. Covered'
      <4>1. CASE Len(reader) = 0
        BY <1>0, <2>1, <2>2, <2>3, <3>2, <3>3, <4>1 DEF PullCore, Covered, P!Min2
      <4>2. CASE Len(reader) # 0
        <5>1. reader # <<>> /\ reader[1] = reader'[1] /\ reader[Len(reader)].to = job.tCurrent
          BY <1>0, <3>2, <4>2 DEF PullCore, Covered
        <5>2. \A i \in 1..(Len(reader) + 1) : i > 1 => reader'[i].from = reader'[i - 1].to
          <6>1. SUFFICES ASSUME NEW i \in 1..(Len(reader) + 1), i > 1 PROVE reader'[i].from = reader'[i - 1].to
            OBVIOUS
          <6>2. CASE i = Len(reader) + 1
            BY <3>2, <3>3, <4>2, <5>1, <6>2
          <6>3. CASE i # Len(reader) + 1
            <7>1. i \in 1..Len(reader) /\ i - 1 \in 1..Len(reader)
              BY <3>2, <6>1, <6>3
            <7>2. reader[i].from = reader[i - 1].to
              BY <1>0, <3>2, <6>1, <7>1 DEF PullCore, Covered
            <7>. QED  BY <3>2, <7>1, <7>2
          <6>. QED  BY <6>2, <6>3
        <5>3. reached' >= P!Min2(reader'[1].from, job'.tStop)
          BY <1>0, <2>1, <2>3, <5>1 DEF PullCore, Covered
        <5>4. reader'[Len(reader')].to = job'.tCurrent
          BY <2>3, <3>2, <3>3
        <5>5. job'.tStop <= job'.tAlignStop /\ ~sentEos'
          BY <1>0, <2>1, <2>3 DEF PullCore, Covered
        <5>6. DOMAIN reader' = 1..(Len(reader) + 1) /\ reader' # <<>>
          BY <3>2
        <5>. QED  BY <5>2, <5>3, <5>4, <5>5, <5>6 DEF Covered
      <4>. QED  BY <4>1, <4>2
    <3>. QED  BY <1>0, <2>1, <2>3, <3>2, <3>5, <3>6, <3>7, ProcessGoes
  <2>. QED  BY <1>2, <2>4, <2>5 DEF P!QueueSample
<1>3. CASE P!CollectAndDeliver
  <2>1. /\ tpc \in {"collect", "last"} /\ UNCHANGED job /\ reader # <<>>
    BY <1>3 DEF P!CollectAndDeliver
  <2>2. /\ Tail(reader) \in Seq(Sample) /\ Len(reader) \in Nat \ {0} /\ Len(Tail(reader)) = Len(reader) - 1
        /\ \A i \in 1..(Len(reader) - 1) : Tail(reader)[i] = reader[i + 1]
        /\ DOMAIN reader = 1..Len(reader) /\ Head(reader) = reader[1] /\ reader[1] \in Sample
    BY <1>0, <2>1
  <2>3. CASE reader' \in {Tail(reader), P!CleanupCancelled(Tail(reader))} /\ tpc' = "flush"
              /\ UNCHANGED <<reached, sentEos>>
    <3>1. reader' \in Seq(Sample)
      BY <2>2, <2>3, CleanupKeeps
    <3>. QED  BY <1>0, <2>1, <2>3, <3>1, ProcessLeft
  <2>4. CASE /\ reader' = Tail(reader) /\ P!DeliverSample(Head(reader))
             /\ tpc' = IF tpc = "collect" /\ P!More THEN "queue"
                       ELSE IF tpc = "collect" /\ cBuffers > 1 THEN "last" ELSE "outer"
    <3>1. /\ job.tStop <= job.tAlignStop /\ reached >= P!Min2(reader[1].from, job.tStop)
          /\ reader[Len(reader)].to = job.tCurrent
          /\ \A i \in 1..Len(reader) : i > 1 => reader[i].from = reader[i - 1].to
      BY <1>0, <2>1, <2>2 DEF PullCore, Covered
    <3>2. reader[1].from \in Int /\ reader[1].to \in Int
      BY <2>2 DEF Sample
    <3>3. reached' = (IF reader[1].from <= reached /\ reached < reader[1].to
                      THEN P!Min2(reader[1].to, job.tStop) ELSE reached) /\ UNCHANGED sentEos
      BY <2>2, <2>4 DEF P!DeliverSample
    <3>4. reached' \in Int /\ reached' >= P!Min2(reader[1].to, job.tStop)
      BY <1>0, <3>1, <3>2, <3>3 DEF P!Min2
    <3>5. P!Processing'
      BY <2>4 DEF P!Processing
    <3>6. \A i \in 1..(Len(reader) - 1) : Tail(reader)[i].run = run
      BY <1>0, <2>2 DEF PullCore, ReaderDepth
    <3>7. DOMAIN reader' = 1..(Len(reader) - 1) /\ Len(reader') = Len(reader) - 1 /\ reader' \in Seq(Sample)
      BY <2>2, <2>4
    <3>8. ReaderDepth'
      <4>1. /\ tpc = "collect" => Len(reader) = IF cBuffers > 1 THEN 2 ELSE 1
            /\ tpc = "last" => Len(reader) = 1
        BY DEF PullCore, ReaderDepth, Depth
      <4>. QED  BY <1>0, <2>1, <2>4, <3>6, <3>7, <4>1 DEF ReaderDepth, Depth
    <3>9. Covered'
      <4>1. CASE Len(reader) = 1
        <5>1. reader' = <<>> /\ DOMAIN reader' = {}
          BY <3>7, <4>1
        <5>. QED  BY <1>0, <2>1, <3>1, <3>3, <3>4, <4>1, <5>1 DEF Covered
      <4>2. CASE Len(reader) > 1
        <5>1. /\ reader' # <<>> /\ reader'[1].from = reader[1].to
              /\ reader'[Len(reader')].to = job'.tCurrent
          <6>1. reader' # <<>> /\ 1 \in 1..(Len(reader) - 1) /\ Len(reader') \in 1..(Len(reader) - 1)
            BY <2>2, <3>7, <4>2
          <6>2. reader'[1] = reader[2] /\ reader'[Len(reader')] = reader[Len(reader)]
            BY <2>2, <2>4, <3>7, <6>1
          <6>3. reader[2].from = reader[1].to
            BY <3>1, <4>2, <2>2
          <6>. QED  BY <2>1, <3>1, <6>1, <6>2, <6>3
        <5>2. \A i \in 1..(Len(reader) - 1) : i > 1 => reader'[i].from = reader'[i - 1].to
          BY <2>2, <2>4, <3>1
        <5>3. reached' >= P!Min2(reader'[1].from, job'.tStop)
          BY <2>1, <3>4, <5>1
        <5>4. job'.tStop <= job'.tAlignStop /\ ~sentEos'
          BY <1>0, <2>1, <3>1, <3>3
        <5>. QED  BY <3>7, <5>1, <5>2, <5>3, <5>4 DEF Covered
      <4>. QED  BY <2>2, <4>1, <4>2
    <3>. QED  BY <1>0, <2>1, <3>4, <3>5, <3>7, <3>8, <3>9, ProcessGoes
  <2>. QED  BY <1>3, <2>3, <2>4 DEF P!CollectAndDeliver
<1>4. CASE P!SyncRead
  <2>1. /\ tpc = "sync" /\ job' = [job EXCEPT !.tCurrent = P!NextStop] /\ UNCHANGED <<reader, readerFlushing>>
    BY <1>4 DEF P!SyncRead
  <2>2. P!NextStop \in Int
    BY <1>0, NextStopType
  <2>3. /\ job' \in Job /\ job'.tStop = job.tStop /\ job'.tAlignStop = job.tAlignStop
        /\ job'.tCurrent = P!NextStop
    BY <1>0, <2>1, <2>2 DEF Job
  <2>4. CASE tpc' = "flush" /\ UNCHANGED <<reached, sentEos>>
    BY <1>0, <2>1, <2>3, <2>4, ProcessLeft
  <2>5. CASE /\ tpc' = "outer" /\ UNCHANGED sentEos
             /\ reached' = IF job.tCurrent <= reached /\ reached < P!NextStop
                           THEN P!Min2(P!NextStop, job.tStop) ELSE reached
    <3>1. reader = <<>> /\ Len(reader) = 0
      BY <1>0, <2>1 DEF PullCore, ReaderDepth
    <3>2. job.tStop <= job.tAlignStop /\ reached >= P!Min2(job.tCurrent, job.tStop)
      BY <1>0, <3>1 DEF PullCore, Covered
    <3>3. reached' \in Int /\ reached' >= P!Min2(P!NextStop, job.tStop)
      BY <1>0, <2>2, <2>5, <3>2 DEF P!Min2
    <3>4. ReaderDepth' /\ P!Processing'
      BY <1>0, <2>1, <2>5, <3>1 DEF ReaderDepth, P!Processing
    <3>5. Covered'
      BY <1>0, <2>1, <2>3, <2>5, <3>1, <3>2, <3>3 DEF Covered, P!Min2
    <3>. QED  BY <1>0, <2>1, <2>3, <3>3, <3>4, <3>5, ProcessGoes
  <2>. QED
    <3>1. \/ P!DeliverSample([from |-> job.tCurrent, to |-> P!NextStop]) /\ tpc' = "outer"
          \/ tpc' = "flush" /\ UNCHANGED <<reached, sentEos>>
      BY <1>4 DEF P!SyncRead
    <3>. QED  BY <2>4, <2>5, <3>1 DEF P!DeliverSample
<1>. QED  BY <1>1, <1>2, <1>3, <1>4

LEMMA PullStep == PullInv /\ [Next]_vars => PullInv'
<1>0. [Next]_vars => UNCHANGED part
  BY DEF Next, NextSource, NextPull, NextMsg, NextDynamic, vars
<1> SUFFICES ASSUME PullInv, [Next]_vars, part = "pull" PROVE PullCore'
  BY <1>0 DEF PullInv
<1>1. PullCore
  BY DEF PullInv
<1>2. CASE NextPull
  <2>1. P!PullNext
    BY <1>2 DEF NextPull
  <2>2. CASE P!DownstreamReleases
    <3>1. UNCHANGED <<m_hThread, tpc, m_pReader, m_tStart, m_tStop, m_tDuration, reader, readerFlushing,
                      pullMemory, ppc, parg, job, run, reached, sentEos, refused>>
      BY <2>2 DEF P!DownstreamReleases, P!workerVars, P!pinState, P!readerVars
    <3>2. reader' \in Seq(Sample) /\ ReaderDepth' /\ Covered' /\ EosAll'
      BY <1>1, <3>1, ReaderKept DEF PullCore
    <3>. QED  BY <1>1, <3>1, <3>2 DEF PullCore, PullTypes, FlushOwned, ThreadOwned, P!ReaderWhileRunning
  <2>. QED  BY <1>1, <2>1, <2>2, PullCallerStep, PullCommandStep, PullLoopStep DEF P!PullNext, P!PullThreadStep
<1>3. CASE UNCHANGED <<workerVars, pullVars>>
  <2>1. UNCHANGED <<m_hThread, tpc, m_pReader, m_tStart, m_tStop, m_tDuration, reader, readerFlushing,
                    pullMemory, ppc, parg, job, run, reached, sentEos, refused>>
    BY <1>3 DEF workerVars, pullVars
  <2>2. reader' \in Seq(Sample) /\ ReaderDepth' /\ Covered' /\ EosAll'
    BY <1>1, <2>1, ReaderKept DEF PullCore
  <2>. QED  BY <1>1, <2>1, <2>2 DEF PullCore, PullTypes, FlushOwned, ThreadOwned, P!ReaderWhileRunning
<1>4. UNCHANGED vars => UNCHANGED <<workerVars, pullVars>>
  BY DEF vars
<1>5. ~NextSource /\ (NextMsg \/ NextDynamic => UNCHANGED <<workerVars, pullVars>>)
  BY DEF NextSource, NextMsg, NextDynamic
<1>. QED  BY <1>2, <1>3, <1>4, <1>5 DEF Next

\* Whatever starts, seeks, stops and refusals of the reader come, the thread delivers nothing of an
\* earlier start, is not left with a flushing reader, sends the end of the stream only after all of
\* it, and has a reader and memory for as long as it runs.
THEOREM PullAlwaysHolds == Spec => []PullHolds
<1>1. Init => PullInv
  <2> SUFFICES ASSUME P!PullInit PROVE PullCore
    BY DEF PullInv, Init
  <2>1. /\ reader = <<>> /\ tpc = "none" /\ run = 0 /\ reached = 0 /\ ~sentEos /\ ~readerFlushing
        /\ ppc = "idle" /\ parg = P!NoArg /\ job = P!NoJob /\ m_tStart = 0 /\ m_tStop = 0 /\ m_tDuration = 0
    BY DEF P!PullInit, P!WorkerInit
  <2>2. reader \in Seq(Sample) /\ Len(reader) = 0 /\ job \in Job /\ parg.to \in Int \X Int
    BY <2>1 DEF Job, P!NoJob, P!NoArg
  <2>. QED  BY <2>1, <2>2
         DEF PullCore, PullTypes, FlushOwned, ThreadOwned, ReaderDepth, Covered, P!Processing, EosAll,
             P!ReaderWhileRunning
<1>2. PullInv => PullHolds
  <2> SUFFICES ASSUME PullCore PROVE P!PullHolds
    BY DEF PullInv, PullHolds
  <2>1. P!NothingOfEarlierStart
    BY DEF PullCore, ReaderDepth, P!NothingOfEarlierStart
  <2>2. P!NotLeftFlushing
    BY DEF PullCore, FlushOwned, P!NotLeftFlushing, P!Processing
  <2>. QED  BY <2>1, <2>2 DEF PullCore, P!PullHolds, EosAll, P!EosMeansAll
<1>. QED  BY <1>1, <1>2, PullStep, PTL DEF Spec
=============================================================================
