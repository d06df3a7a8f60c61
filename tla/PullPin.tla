------------------------------ MODULE PullPin -------------------------------
(***************************************************************************)
(* CPullPin (baseclasses/pullpin.cpp): an input pin whose thread reads     *)
(* from an IAsyncReader upstream.                                          *)
(*                                                                         *)
(* One caller at a time (m_AccessLock) connects, starts, seeks, stops and  *)
(* disconnects; ppc is what it is doing, with a step for every call of the *)
(* reader and the thread: both sides flush the reader.                     *)
(*                                                                         *)
(* Times are in units of the reader's bytes (UNITS = 1).  The reader holds *)
(* the requested samples in order; each one comes back when its data is    *)
(* there ("done"), or "cancelled" by a flush.  Where the code would use a  *)
(* reader that is gone, the thread takes no further step.                  *)
(***************************************************************************)
EXTENDS Worker, Integers, Sequences

CONSTANTS Total,      \* what the reader's Length says
          BufferSize, cbAlign, cBuffers,
          Positions,  \* pairs of times to seek to
          Restarts,   \* bound: how often the pin may be started
          NoReader

VARIABLES m_pReader,            \* NoReader, or [sync |-> m_bSync]
          pullState,            \* m_State
          m_tStart, m_tStop, m_tDuration,
          pullMemory,           \* m_pAlloc is committed
          reader,               \* the samples in the reader
          readerFlushing,
          ppc, parg,            \* and what it was called with
          job,                  \* Process: its tStart, tStop, tAlignStop and tCurrent
          kept,                 \* how many buffers downstream still holds
          run,                  \* history: number of the current start
          reached,              \* history: end of what this start has delivered
          sentEos,              \* history: EndOfStream was called
          refused               \* history: the reader has refused to flush

pinState == <<m_pReader, pullState, m_tStart, m_tStop, m_tDuration, pullMemory>>
readerVars == <<reader, readerFlushing>>
downstream == <<kept, reached, sentEos>>
pullVars == <<pinState, readerVars, ppc, parg, job, run, downstream, refused>>

NoArg == [to |-> <<0, 0>>, disconnect |-> FALSE]

NoJob == [tStart |-> 0, tStop |-> 0, tAlignStop |-> 0, tCurrent |-> 0]

PullInit == /\ WorkerInit
            /\ m_pReader = NoReader /\ pullState = "exit" /\ m_tStart = 0 /\ m_tStop = 0
            /\ m_tDuration = 0 /\ pullMemory = FALSE
            /\ reader = <<>> /\ readerFlushing = FALSE
            /\ ppc = "idle" /\ parg = NoArg /\ job = NoJob /\ kept = 0 /\ run = 0
            /\ reached = 0 /\ sentEos = FALSE /\ refused = FALSE

AlignDown(t) == t - (t % cbAlign)

AlignUp(t) == AlignDown(t + cbAlign - 1)

Min2(a, b) == IF a <= b THEN a ELSE b

-----------------------------------------------------------------------------
(* The caller.                                                             *)

\* Connect fails, and leaves nothing behind, if the reader has no allocator or
\* no length.
Connect ==
  /\ ppc = "idle" /\ m_pReader = NoReader
  /\ m_pReader' \in [sync : BOOLEAN]
  /\ m_tDuration' = Total /\ m_tStop' = Total /\ m_tStart' = 0
  /\ UNCHANGED <<workerVars, pullState, pullMemory, readerVars, ppc, parg, job, run, downstream, refused>>

\* StartThread up to its wait; `then' is where its caller goes.
StartThread(then) ==
  /\ m_pReader # NoReader /\ run < Restarts
  /\ IF ThreadExists THEN UNCHANGED <<m_hThread, tpc, pullMemory>>
                     ELSE Create("ready") /\ pullMemory' = TRUE
  /\ pullState' = "start" /\ Post("start") /\ ppc' = then
  /\ UNCHANGED <<m_EventComplete, m_dwReturnVal, owed>>

Active ==
  /\ ppc = "idle" /\ ~ThreadExists
  /\ StartThread("started")
  /\ UNCHANGED <<parg, m_pReader, m_tStart, m_tStop, m_tDuration, readerVars, job, run, downstream, refused>>

\* A pin that is pulling is flushed downstream and paused around the change.
Seek ==
  /\ ppc = "idle" /\ m_pReader # NoReader /\ run < Restarts
  /\ \E p \in Positions :
       IF pullState = "start"
       THEN ppc' = "pause" /\ parg' = [NoArg EXCEPT !.to = p] /\ UNCHANGED <<m_tStart, m_tStop>>
       ELSE m_tStart' = p[1] /\ m_tStop' = p[2] /\ UNCHANGED <<ppc, parg>>
  /\ UNCHANGED <<workerVars, m_pReader, pullState, m_tDuration, pullMemory, readerVars, job, run, downstream, refused>>

Cancel(samples) == [i \in DOMAIN samples |-> [samples[i] EXCEPT !.is = "cancelled"]]

BeginFlush == readerFlushing' = TRUE /\ reader' = Cancel(reader)

EndFlush == readerFlushing' = FALSE /\ UNCHANGED reader

\* PauseThread, up to its wait.
\* If the reader refuses to flush, the thread is not paused and Seek goes on.
PauseThread ==
  /\ ppc = "pause"
  /\ \/ /\ BeginFlush
        /\ pullState' = "pause" /\ Post("pause") /\ ppc' = "paused"
        /\ UNCHANGED refused
     \/ /\ refused' = TRUE /\ ppc' = "restart"
        /\ UNCHANGED <<readerVars, pullState, m_EventSend, m_dwParam>>
  /\ UNCHANGED <<parg, m_hThread, m_EventComplete, m_dwReturnVal, owed, tpc, m_pReader, m_tStart, m_tStop, m_tDuration, pullMemory, job, run, downstream>>

Paused ==
  /\ ppc = "paused" /\ Answered
  /\ EndFlush
  /\ ppc' = "restart"
  /\ UNCHANGED <<parg, m_hThread, m_EventSend, m_dwParam, m_dwReturnVal, owed, tpc, pinState, job, run, downstream, refused>>

\* The end of Seek.
Restart ==
  /\ ppc = "restart"
  /\ m_tStart' = parg.to[1] /\ m_tStop' = parg.to[2] /\ parg' = NoArg
  /\ StartThread("started")
  /\ UNCHANGED <<m_pReader, m_tDuration, readerVars, job, run, downstream, refused>>

Started ==
  /\ ppc = "started" /\ Answered /\ ppc' = "idle"
  /\ UNCHANGED <<parg, m_hThread, m_EventSend, m_dwParam, m_dwReturnVal, owed, tpc, pinState, readerVars, job, run, downstream, refused>>

\* Mutant: the thread is told to leave while it may wait for the reader.
StopThread_NoFlush(then) ==
  /\ ppc = "idle" /\ ThreadExists /\ m_pReader # NoReader
  /\ pullState' = "exit" /\ Post("exit") /\ ppc' = "exit"
  /\ parg' = [NoArg EXCEPT !.disconnect = (then = "disconnect")]
  /\ UNCHANGED <<readerVars, refused, m_pReader, m_hThread, m_EventComplete, m_dwReturnVal, owed, tpc, m_tStart, m_tStop, m_tDuration, pullMemory, job, run, downstream>>

\* StopThread for Inactive and Disconnect, up to its wait.  If the reader refuses to
\* flush, the thread goes on; Disconnect lets go of the reader all the same.
StopThread(then) ==
  /\ ppc = "idle" /\ ThreadExists /\ m_pReader # NoReader
  /\ \/ /\ BeginFlush
        /\ pullState' = "exit" /\ Post("exit") /\ ppc' = "exit" /\ parg' = [NoArg EXCEPT !.disconnect = (then = "disconnect")]
        /\ UNCHANGED <<refused, m_pReader>>
     \/ /\ refused' = TRUE
        /\ m_pReader' = IF then = "disconnect" THEN NoReader ELSE m_pReader
        /\ UNCHANGED <<readerVars, pullState, m_EventSend, m_dwParam, ppc, parg>>
  /\ UNCHANGED <<m_hThread, m_EventComplete, m_dwReturnVal, owed, tpc, m_tStart, m_tStop, m_tDuration, pullMemory, job, run, downstream>>

Inactive == StopThread("stop")

Disconnect == StopThread("disconnect")

\* Mutant: the reader stays in its flush.
Exited_KeepFlush ==
  /\ ppc = "exit" /\ Answered
  /\ Close /\ ppc' = "close"
  /\ UNCHANGED <<parg, readerVars, m_EventSend, m_dwParam, m_dwReturnVal, owed, tpc, pinState, job, run, downstream, refused>>

Exited ==
  /\ ppc = "exit" /\ Answered
  /\ EndFlush /\ Close /\ ppc' = "close"
  /\ UNCHANGED <<parg, m_EventSend, m_dwParam, m_dwReturnVal, owed, tpc, pinState, job, run, downstream, refused>>

Closed ==
  /\ ppc = "close" /\ tpc = "none" /\ owed = {}
  /\ pullMemory' = FALSE /\ ppc' = "idle" /\ parg' = NoArg
  /\ m_pReader' = IF parg.disconnect THEN NoReader ELSE m_pReader
  /\ UNCHANGED <<workerVars, pullState, m_tStart, m_tStop, m_tDuration, readerVars, job, run, downstream, refused>>

DisconnectIdle ==
  /\ ppc = "idle" /\ ~ThreadExists /\ m_pReader # NoReader
  /\ m_pReader' = NoReader
  /\ UNCHANGED <<workerVars, pullState, m_tStart, m_tStop, m_tDuration, pullMemory, readerVars, ppc, parg, job, run, downstream, refused>>
-----------------------------------------------------------------------------
(* The thread.  After every command but "exit" it flushes the reader and   *)
(* takes back what is still there ("flush", "clean", "unflush").           *)

ThreadProc ==
  /\ tpc = "ready"
  /\ \/ GetRequest("exit") /\ Reply(TRUE, "none") /\ UNCHANGED run
     \/ GetRequest("pause") /\ Reply(TRUE, "flush") /\ UNCHANGED run
     \/ GetRequest("start") /\ Reply(TRUE, "process") /\ run' = run + 1
  /\ UNCHANGED <<pinState, readerVars, ppc, parg, job, downstream, refused>>

Flush ==
  /\ tpc = "flush" /\ m_pReader # NoReader /\ Goto("clean")
  /\ BeginFlush
  /\ UNCHANGED <<pinState, ppc, parg, job, run, downstream, refused>>

\* The reader gives back what is done or cancelled, and nothing after what it is
\* still reading.
CleanupCancelled(samples) ==
  LET reading == {i \in DOMAIN samples : samples[i].is = "reading"}
  IN IF reading = {} THEN <<>>
     ELSE SubSeq(samples, CHOOSE i \in reading : \A j \in reading : i <= j, Len(samples))

Clean ==
  /\ tpc = "clean" /\ Goto("unflush")
  /\ reader' = CleanupCancelled(reader)
  /\ UNCHANGED <<readerFlushing, pinState, ppc, parg, job, run, downstream, refused>>

Unflush ==
  /\ tpc = "unflush" /\ m_pReader # NoReader /\ Goto("ready")
  /\ EndFlush
  /\ UNCHANGED <<pinState, ppc, parg, job, run, downstream, refused>>

EndOfStream == sentEos' = TRUE /\ Goto("flush") /\ UNCHANGED <<kept, reached>>

\* Process, up to its loops.
Process ==
  /\ tpc = "process" /\ m_pReader # NoReader
  /\ LET tStop == Min2(m_tStop, m_tDuration)
     IN job' = [tStart |-> AlignDown(m_tStart), tStop |-> tStop, tAlignStop |-> AlignUp(tStop),
                tCurrent |-> AlignDown(m_tStart)]
  /\ reached' = m_tStart /\ sentEos' = (m_tStop <= m_tStart)
  /\ Goto(IF m_tStop <= m_tStart THEN "flush" ELSE "outer")
  /\ UNCHANGED <<pinState, readerVars, ppc, parg, kept, run, refused>>

More == job.tCurrent < job.tAlignStop

\* A new command ends Process.  Only here is one looked for.
Outer ==
  /\ tpc = "outer" /\ m_pReader # NoReader
  /\ CASE ~More                   -> EndOfStream
       [] More /\ CheckRequest    -> Goto("flush") /\ UNCHANGED downstream
       [] More /\ ~CheckRequest   -> /\ Goto(IF m_pReader.sync THEN "sync" ELSE IF cBuffers > 1 THEN "ahead" ELSE "queue")
                                     /\ UNCHANGED downstream
  /\ UNCHANGED <<pinState, readerVars, ppc, parg, job, run, refused>>

NextStop == Min2(job.tCurrent + BufferSize, job.tAlignStop)

\* GetBuffer waits while the reader and downstream hold all buffers: nothing but a buffer that
\* comes back ends that wait, for the memory is committed as long as the thread runs.
HasBuffer == Len(reader) + kept < cBuffers

\* QueueSample, ahead of the inner loop and in it.  A reader that flushes, or that fails,
\* takes no request.
QueueSample ==
  /\ tpc \in {"ahead", "queue"} /\ m_pReader # NoReader /\ HasBuffer
  /\ job' = [job EXCEPT !.tCurrent = NextStop]
  /\ \/ /\ ~readerFlushing
        /\ reader' = Append(reader, [from |-> job.tCurrent, to |-> NextStop, is |-> "reading", run |-> run])
        /\ Goto(IF tpc = "queue" THEN "collect" ELSE IF NextStop < job.tAlignStop THEN "queue" ELSE "last")
     \/ reader' = CleanupCancelled(reader) /\ Goto("flush")
  /\ UNCHANGED <<readerFlushing, pinState, ppc, parg, run, downstream, refused>>

\* A sample is passed on up to tStop, and downstream may keep it; `reached' grows only
\* without a gap.
DeliverSample(s) == /\ reached' = IF s.from <= reached /\ reached < s.to THEN Min2(s.to, job.tStop) ELSE reached
                    /\ kept' = kept + 1 /\ UNCHANGED sentEos

\* CollectAndDeliver: wait for the next sample to come back; downstream may refuse it.
CollectAndDeliver ==
  /\ tpc \in {"collect", "last"} /\ m_pReader # NoReader
  /\ \/ /\ reader # <<>> /\ Head(reader).is = "done" /\ reader' = Tail(reader)
        /\ DeliverSample(Head(reader))
        /\ Goto(IF tpc = "collect" /\ More THEN "queue"
                ELSE IF tpc = "collect" /\ cBuffers > 1 THEN "last" ELSE "outer")
     \/ /\ reader # <<>> /\ Head(reader).is # "reading"
        /\ reader' \in {Tail(reader), CleanupCancelled(Tail(reader))}
        /\ Goto("flush") /\ UNCHANGED downstream
  /\ UNCHANGED <<readerFlushing, pinState, ppc, parg, job, run, refused>>

\* One turn of the loop of synchronous reads.
SyncRead ==
  /\ tpc = "sync" /\ m_pReader # NoReader /\ HasBuffer
  /\ job' = [job EXCEPT !.tCurrent = NextStop]
  /\ \/ ~readerFlushing /\ DeliverSample([from |-> job.tCurrent, to |-> NextStop]) /\ Goto("outer")
     \/ Goto("flush") /\ UNCHANGED downstream
  /\ UNCHANGED <<readerVars, pinState, ppc, parg, run, refused>>

Finish == Complete /\ UNCHANGED pullVars

\* The reader has the data of its oldest request.
ReadDone ==
  /\ \E i \in DOMAIN reader :
       /\ reader[i].is = "reading" /\ \A j \in 1..(i - 1) : reader[j].is # "reading"
       /\ reader' = [reader EXCEPT ![i].is = "done"]
  /\ UNCHANGED <<workerVars, pinState, readerFlushing, ppc, parg, job, run, downstream, refused>>

\* Downstream lets go of a buffer.
DownstreamReleases ==
  /\ kept > 0 /\ kept' = kept - 1
  /\ UNCHANGED <<workerVars, pinState, readerVars, ppc, parg, job, run, reached, sentEos, refused>>

PullThreadStep == ThreadProc \/ Flush \/ Clean \/ Unflush \/ Process \/ Outer \/ QueueSample
                  \/ CollectAndDeliver \/ SyncRead \/ Finish

PullCallerStep == Started \/ PauseThread \/ Paused \/ Restart \/ Exited \/ Closed

PullNext == Connect \/ Active \/ Seek \/ Inactive \/ Disconnect \/ DisconnectIdle \/ PullCallerStep
            \/ PullThreadStep \/ ReadDone \/ DownstreamReleases

-----------------------------------------------------------------------------
Processing == tpc \in {"outer", "ahead", "queue", "collect", "last", "sync"}

\* Nothing read for an earlier start is left when the thread pulls again: it would
\* be delivered at the wrong time.
NothingOfEarlierStart == Processing => \A i \in DOMAIN reader : reader[i].run = run

\* Two parties flush the reader.  It is not left flushing while the pin pulls and
\* nobody is about to stop it, so reads are not refused.
NotLeftFlushing == Processing /\ ppc \in {"idle", "started"} => ~readerFlushing

\* The end of the stream follows everything up to the stop position, without a gap.
EosMeansAll == sentEos /\ tpc = "flush" => reached >= job.tStop

\* The thread has a reader and memory for as long as it runs, unless the reader has refused
\* to flush.
ReaderWhileRunning == tpc # "none" /\ ~refused => m_pReader # NoReader /\ pullMemory

\* Neither a flush of the reader nor the end of the thread takes a buffer from downstream, and
\* Decommit comes only after the thread has gone.
DownstreamGivesBack == []<>(kept = 0)

\* Every call returns even if the data never comes, unless the reader refuses to flush: a
\* downstream that gives its buffers back is all that the calls rely on.
PullCallsReturn == DownstreamGivesBack => ((ppc # "idle") ~> (ppc = "idle" \/ refused))

\* What the thread and the calls that start, stop and move it keep between them.
PullHolds == NothingOfEarlierStart /\ NotLeftFlushing /\ EosMeansAll /\ ReaderWhileRunning
=============================================================================
