---------------------------- MODULE OutputQueue ----------------------------
(***************************************************************************)
(* COutputQueue with its own thread (baseclasses/outputq.cpp): samples and *)
(* in-band commands are queued by the upstream filter and delivered        *)
(* downstream, in batches, by the queue's thread; a control thread         *)
(* flushes, resets and destroys the queue.                                 *)
(*                                                                         *)
(* Methods are atomic under the object's critical section.  The worker is  *)
(*   "top"        about to take the critical section                       *)
(*   "take"       in the inner loop, with it                               *)
(*   "sem"        waiting for m_hSem                                       *)
(*   "send"       has a batch, about to look at m_hr                       *)
(*   "receiving"  in ReceiveMultiple of the downstream pin                 *)
(*   "after"      about to act on the command that ended the batch         *)
(*   "eos"        in EndOfStream of the downstream pin                     *)
(*   "reset"      has set m_hr for RESET_PACKET, about to set the event    *)
(*   "done"       left                                                     *)
(* The control thread is "idle", in BeginFlush after the critical section  *)
(* ("begin"), between BeginFlush and EndFlush ("flushing"), in EndFlush    *)
(* waiting ("end") and past the wait ("ended"), in Reset waiting           *)
(* ("reset"), in the destructor waiting ("destroy"), or "gone".            *)
(*                                                                         *)
(* The upstream filter calls one method at a time and none while EndFlush  *)
(* or the destructor runs ("the caller has guaranteed no samples will      *)
(* arrive before EndFlush() returns").  A queue without a thread, which    *)
(* calls the downstream pin directly, is not modelled.                     *)
(***************************************************************************)
EXTENDS Naturals, Sequences, FiniteSets

CONSTANTS m_lBatchSize,
          Careful,     \* see below
          MaxSample,   \* samples sent through the queue
          MaxList,     \* the longest list
          MaxFlush     \* flushes passed downstream

ASSUME ConstantsAssumption ==
  /\ m_lBatchSize \in Nat \ {0}
  /\ Careful \in BOOLEAN
  /\ MaxSample \in Nat /\ MaxList \in Nat /\ MaxFlush \in Nat

VARIABLES m_bBatchExact,   \* the constructor's argument: only full batches
          m_bFlushingOpt,  \* the constructor's argument: skip flushes of nothing
          resets,       \* whether the filter calls Reset
          m_List,       \* samples [id, epoch] and commands, oldest first
          m_ppSamples,  \* the batch: the first m_nBatched elements
          m_lWaiting,
          m_hSem,       \* the semaphore's count
          m_evFlushComplete, m_bFlushing, m_bFlushed, m_bTerminate, m_hr,
          worker,
          sending,      \* the worker's lNumberToSend samples
          command,      \* the worker's pSample, when it is a command
          upstream,     \* "segment": in NewSegment, has seen m_hr = S_OK
          control,
          told,         \* the downstream pin has had BeginFlush but no EndFlush
          nextId,       \* the next sample
          epoch,        \* history: EndFlushes passed downstream
          last          \* history: the last sample delivered

modeVars  == <<m_bBatchExact, m_bFlushingOpt, resets>>
flushVars == <<m_evFlushComplete, m_bFlushing, m_bFlushed>>
workVars  == <<worker, sending, command>>
histVars  == <<told, epoch>>
vars == <<modeVars, m_List, m_ppSamples, m_lWaiting, m_hSem, flushVars, m_bTerminate, m_hr,
          workVars, upstream, control, histVars, nextId, last>>

Commands == {"SEND", "EOS", "RESET", "SEGMENT"}
NoCommand == "none"

IsSample(x) == x.kind = "sample"
Command(c) == [kind |-> c, id |-> 0, epoch |-> 0]

\* Between Reset and a flush the two share m_evFlushComplete.  A careful
\* filter that calls Reset has no other call in progress during a flush and
\* leaves the optimisation off.
Quiet == Careful /\ resets

Init ==
  /\ m_bBatchExact \in {FALSE, m_lBatchSize > 1} /\ m_bFlushingOpt \in BOOLEAN
  /\ resets \in BOOLEAN /\ (Quiet => ~m_bFlushingOpt)
  /\ m_List = <<>> /\ m_ppSamples = <<>>
  /\ m_lWaiting = 0 /\ m_hSem = 0
  /\ m_evFlushComplete = FALSE /\ m_bFlushing = FALSE /\ m_bFlushed = TRUE
  /\ m_bTerminate = FALSE /\ m_hr = "S_OK"
  /\ worker = "top" /\ sending = <<>> /\ command = NoCommand
  /\ upstream = "idle" /\ control = "idle"
  /\ told = FALSE /\ nextId = 1 /\ epoch = 0 /\ last = 0

\* The critical section; only the worker keeps it from one step to the next.
LockFree == worker # "take"

NotifyThread == m_hSem' = m_hSem + m_lWaiting /\ m_lWaiting' = 0

-----------------------------------------------------------------------------
(* The upstream filter.                                                    *)

MayCall ==
  /\ upstream = "idle"
  /\ control \in {"idle", "reset"} \cup (IF Quiet THEN {} ELSE {"begin", "flushing"})


\* Mutant: the thread is told only of full batches.
Worth_Full(n) == n >= m_lBatchSize

\* ReceiveMultiple tells the thread when n samples are queued and batched.
Worth(n) == ~m_bBatchExact \/ n >= m_lBatchSize

\* The next n samples of the stream.
Samples(n) == [i \in 1..n |-> [kind |-> "sample", id |-> nextId + i - 1, epoch |-> epoch]]

\* ReceiveMultiple, and Receive with n = 1; samples are refused when m_hr is sticky.
ReceiveMultiple(n) ==
  /\ MayCall /\ LockFree /\ nextId + n <= MaxSample + 1 /\ Len(m_List) + n <= MaxList
  /\ nextId' = nextId + n
  /\ IF m_hr = "S_OK"
     THEN /\ m_bFlushed' = FALSE
          /\ m_List' = m_List \o Samples(n)
          /\ IF Worth(Len(m_ppSamples) + Len(m_List) + n) THEN NotifyThread
             ELSE UNCHANGED <<m_hSem, m_lWaiting>>
     ELSE UNCHANGED <<m_bFlushed, m_List, m_hSem, m_lWaiting>>
  /\ UNCHANGED <<modeVars, m_ppSamples, m_evFlushComplete, m_bFlushing, m_bTerminate,
                 m_hr, workVars, upstream, control, histVars, last>>

EOS ==
  /\ MayCall /\ LockFree /\ Len(m_List) < MaxList
  /\ m_hr = "S_OK"
  /\ m_bFlushed' = FALSE
  /\ m_List' = Append(m_List, Command("EOS"))
  /\ NotifyThread
  /\ UNCHANGED <<modeVars, m_ppSamples, m_evFlushComplete, m_bFlushing, m_bTerminate, m_hr,
                 workVars, upstream, control, histVars, nextId, last>>

SendAnyway ==
  /\ MayCall /\ LockFree /\ Len(m_List) < MaxList
  /\ m_List' = Append(m_List, Command("SEND"))
  /\ NotifyThread
  /\ UNCHANGED <<modeVars, m_ppSamples, flushVars, m_bTerminate, m_hr, workVars, upstream,
                 control, histVars, nextId, last>>

\* NewSegment looks at m_hr before it takes the critical section.
NewSegment ==
  /\ MayCall /\ m_hr = "S_OK"
  /\ upstream' = "segment"
  /\ UNCHANGED <<modeVars, m_List, m_ppSamples, m_lWaiting, m_hSem, flushVars, m_bTerminate,
                 m_hr, workVars, control, histVars, nextId, last>>

\* The command and its parameters are queued together: one element.
QueueSegment ==
  /\ upstream = "segment" /\ LockFree /\ Len(m_List) < MaxList
  /\ upstream' = "idle"
  /\ m_List' = Append(m_List, Command("SEGMENT"))
  /\ NotifyThread
  /\ UNCHANGED <<modeVars, m_ppSamples, flushVars, m_bTerminate, m_hr, workVars, control,
                 histVars, nextId, last>>

-----------------------------------------------------------------------------
(* The control thread.                                                     *)

\* BeginFlush in the critical section; nothing more when nothing was sent
\* since the last flush and the optimisation is on.
BeginFlush ==
  /\ control = "idle" /\ LockFree /\ epoch < MaxFlush
  /\ Quiet => upstream = "idle"
  /\ m_bFlushing' = TRUE
  /\ m_hr' = IF m_hr = "S_OK" THEN "S_FALSE" ELSE m_hr
  /\ IF m_bFlushed /\ m_bFlushingOpt
     THEN control' = "flushing" /\ UNCHANGED <<m_evFlushComplete, m_hSem, m_lWaiting>>
     ELSE control' = "begin" /\ m_evFlushComplete' = FALSE /\ NotifyThread
  /\ UNCHANGED <<modeVars, m_List, m_ppSamples, m_bFlushed, m_bTerminate, workVars, upstream,
                 histVars, nextId, last>>

\* m_pPin->BeginFlush().
FlushDownstream ==
  /\ control = "begin" /\ control' = "flushing"
  /\ told' = TRUE
  /\ UNCHANGED <<modeVars, m_List, m_ppSamples, m_lWaiting, m_hSem, flushVars, m_bTerminate,
                 m_hr, workVars, upstream, epoch, nextId, last>>

\* EndFlush up to its wait.
EndFlush ==
  /\ control = "flushing" /\ LockFree /\ upstream = "idle"
  /\ IF m_bFlushingOpt /\ m_bFlushed
     THEN control' = "idle" /\ m_bFlushing' = FALSE /\ m_hr' = "S_OK"
     ELSE control' = "end" /\ UNCHANGED <<m_bFlushing, m_hr>>
  /\ UNCHANGED <<modeVars, m_List, m_ppSamples, m_lWaiting, m_hSem, m_evFlushComplete,
                 m_bFlushed, m_bTerminate, workVars, upstream, histVars, nextId, last>>

\* Mutant: EndFlush does not wait for the thread.
FlushCompleted_NoWait ==
  /\ control = "end" /\ control' = "ended"
  /\ UNCHANGED <<modeVars, m_List, m_ppSamples, m_lWaiting, m_hSem, flushVars, m_bTerminate,
                 m_hr, workVars, upstream, histVars, nextId, last>>

\* m_evFlushComplete.Wait(), which resets the event.
FlushCompleted ==
  /\ control = "end" /\ m_evFlushComplete
  /\ control' = "ended" /\ m_evFlushComplete' = FALSE
  /\ UNCHANGED <<modeVars, m_List, m_ppSamples, m_lWaiting, m_hSem, m_bFlushing, m_bFlushed,
                 m_bTerminate, m_hr, workVars, upstream, histVars, nextId, last>>

\* The rest of EndFlush, without the critical section.
FlushEnded ==
  /\ control = "ended" /\ control' = "idle"
  /\ m_bFlushing' = FALSE /\ m_bFlushed' = TRUE
  /\ told' = FALSE /\ epoch' = epoch + 1
  /\ m_hr' = "S_OK"
  /\ UNCHANGED <<modeVars, m_List, m_ppSamples, m_lWaiting, m_hSem, m_evFlushComplete,
                 m_bTerminate, workVars, upstream, nextId, last>>

Reset ==
  /\ control = "idle" /\ resets /\ LockFree /\ Len(m_List) < MaxList
  /\ m_List' = Append(m_List, Command("RESET"))
  /\ NotifyThread
  /\ control' = "reset"
  /\ UNCHANGED <<modeVars, m_ppSamples, flushVars, m_bTerminate, m_hr, workVars, upstream,
                 histVars, nextId, last>>

ResetReturn ==
  /\ control = "reset" /\ m_evFlushComplete
  /\ control' = "idle" /\ m_evFlushComplete' = FALSE
  /\ UNCHANGED <<modeVars, m_List, m_ppSamples, m_lWaiting, m_hSem, m_bFlushing, m_bFlushed,
                 m_bTerminate, m_hr, workVars, upstream, histVars, nextId, last>>

\* ~COutputQueue up to its wait for the thread.
Destroy ==
  /\ control = "idle" /\ upstream = "idle" /\ LockFree
  /\ control' = "destroy"
  /\ m_bTerminate' = TRUE /\ m_hr' = "S_FALSE"
  /\ NotifyThread
  /\ UNCHANGED <<modeVars, m_List, m_ppSamples, flushVars, workVars, upstream, histVars,
                 nextId, last>>

Destroyed ==
  /\ control = "destroy" /\ worker = "done"
  /\ control' = "gone"
  /\ UNCHANGED <<modeVars, m_List, m_ppSamples, m_lWaiting, m_hSem, flushVars, m_bTerminate,
                 m_hr, workVars, upstream, histVars, nextId, last>>

-----------------------------------------------------------------------------
(* The worker, ThreadProc.                                                 *)

InLoop == worker \in {"top", "take"}

\* FreeSamples.
FreeSamples == m_List' = <<>> /\ m_ppSamples' = <<>>

ctlVars == <<upstream, control, histVars, nextId>>

Terminate ==
  /\ InLoop /\ m_bTerminate
  /\ FreeSamples
  /\ worker' = "done"
  /\ UNCHANGED <<modeVars, m_lWaiting, m_hSem, flushVars, m_bTerminate, m_hr, sending,
                 command, ctlVars, last>>

\* A flush: the list and the batch are then empty, so the thread waits.
Discard ==
  /\ InLoop /\ ~m_bTerminate /\ m_bFlushing
  /\ FreeSamples
  /\ m_evFlushComplete' = TRUE
  /\ m_lWaiting' = m_lWaiting + 1 /\ worker' = "sem"
  /\ UNCHANGED <<modeVars, m_hSem, m_bFlushing, m_bFlushed, m_bTerminate, m_hr, sending,
                 command, ctlVars, last>>

Taking == InLoop /\ ~m_bTerminate /\ ~m_bFlushing

\* Leave the critical section with the batch and command c, or NoCommand.
Leave(batch, c) ==
  /\ sending' = batch /\ m_ppSamples' = <<>>
  /\ command' = c
  /\ worker' = IF batch = <<>> THEN "after" ELSE "send"

TakeSample ==
  /\ Taking /\ m_List # <<>> /\ IsSample(Head(m_List))
  /\ m_List' = Tail(m_List)
  /\ LET batch == Append(m_ppSamples, Head(m_List)) IN
       IF Len(batch) = m_lBatchSize THEN Leave(batch, NoCommand)
       ELSE m_ppSamples' = batch /\ worker' = "take" /\ UNCHANGED <<sending, command>>
  /\ UNCHANGED <<modeVars, m_lWaiting, m_hSem, flushVars, m_bTerminate, m_hr, ctlVars,
                 last>>

\* Mutant: SEND_PACKET with nothing to send is not taken off the list.
TakeCommand_Peek ==
  /\ Taking /\ m_List # <<>> /\ ~IsSample(Head(m_List))
  /\ IF Head(m_List).kind = "SEND" /\ m_ppSamples = <<>>
     THEN worker' = "take" /\ UNCHANGED <<m_List, m_ppSamples, sending, command>>
     ELSE m_List' = Tail(m_List) /\ Leave(m_ppSamples, Head(m_List).kind)
  /\ UNCHANGED <<modeVars, m_lWaiting, m_hSem, flushVars, m_bTerminate, m_hr, ctlVars,
                 last>>

\* SEND_PACKET with nothing to send stays in the loop; any other command leaves.
TakeCommand ==
  /\ Taking /\ m_List # <<>> /\ ~IsSample(Head(m_List))
  /\ m_List' = Tail(m_List)
  /\ IF Head(m_List).kind = "SEND" /\ m_ppSamples = <<>>
     THEN worker' = "take" /\ UNCHANGED <<m_ppSamples, sending, command>>
     ELSE Leave(m_ppSamples, Head(m_List).kind)
  /\ UNCHANGED <<modeVars, m_lWaiting, m_hSem, flushVars, m_bTerminate, m_hr, ctlVars,
                 last>>

\* An empty list: an inexact queue sends what it has, otherwise the thread waits.
ListEmpty ==
  /\ Taking /\ m_List = <<>>
  /\ IF m_bBatchExact \/ m_ppSamples = <<>>
     THEN /\ m_lWaiting' = m_lWaiting + 1 /\ worker' = "sem"
          /\ UNCHANGED <<m_ppSamples, sending, command>>
     ELSE Leave(m_ppSamples, NoCommand) /\ UNCHANGED m_lWaiting
  /\ UNCHANGED <<modeVars, m_List, m_hSem, flushVars, m_bTerminate, m_hr, ctlVars, last>>

Woken ==
  /\ worker = "sem" /\ m_hSem > 0
  /\ m_hSem' = m_hSem - 1 /\ worker' = "top"
  /\ UNCHANGED <<modeVars, m_List, m_ppSamples, m_lWaiting, flushVars, m_bTerminate, m_hr,
                 sending, command, ctlVars, last>>

\* Call ReceiveMultiple of the downstream pin, or release the batch.
Send ==
  /\ worker = "send"
  /\ IF m_hr = "S_OK"
     THEN worker' = "receiving" /\ last' = sending[Len(sending)].id /\ UNCHANGED sending
     ELSE worker' = "after" /\ sending' = <<>> /\ UNCHANGED last
  /\ UNCHANGED <<modeVars, m_List, m_ppSamples, m_lWaiting, m_hSem, flushVars,
                 m_bTerminate, m_hr, command, ctlVars>>

\* ReceiveMultiple has returned r; a sticky m_hr is kept.
Received(r) ==
  /\ worker = "receiving"
  /\ worker' = "after" /\ sending' = <<>>
  /\ m_hr' = IF m_hr = "S_OK" THEN r ELSE m_hr
  /\ UNCHANGED <<modeVars, m_List, m_ppSamples, m_lWaiting, m_hSem, flushVars,
                 m_bTerminate, command, ctlVars, last>>

\* The command that ended the batch.  The downstream pin's NewSegment returns
\* at once; RESET_PACKET sets m_hr without the critical section.
After ==
  /\ worker = "after"
  /\ command' = NoCommand
  /\ CASE command = "EOS" -> worker' = (IF m_hr = "S_OK" THEN "eos" ELSE "top")
                             /\ UNCHANGED m_hr
       [] command = "RESET" -> worker' = "reset" /\ m_hr' = "S_OK"
       [] OTHER -> worker' = "top" /\ UNCHANGED m_hr
  /\ UNCHANGED <<modeVars, m_List, m_ppSamples, m_lWaiting, m_hSem, flushVars,
                 m_bTerminate, sending, ctlVars, last>>

EosDelivered ==
  /\ worker = "eos" /\ worker' = "top"
  /\ UNCHANGED <<modeVars, m_List, m_ppSamples, m_lWaiting, m_hSem, flushVars,
                 m_bTerminate, m_hr, sending, command, ctlVars, last>>

ResetDone ==
  /\ worker = "reset" /\ worker' = "top"
  /\ m_evFlushComplete' = TRUE
  /\ UNCHANGED <<modeVars, m_List, m_ppSamples, m_lWaiting, m_hSem, m_bFlushing,
                 m_bFlushed, m_bTerminate, m_hr, sending, command, ctlVars, last>>

\* The queue no longer exists.
Gone == control = "gone" /\ UNCHANGED vars

-----------------------------------------------------------------------------
Results == {"S_OK", "S_FALSE", "E_FAIL"}

Upstream == \/ \E n \in 1..MaxSample : ReceiveMultiple(n)
            \/ EOS \/ SendAnyway \/ NewSegment \/ QueueSegment

Control == \/ BeginFlush \/ FlushDownstream \/ EndFlush \/ FlushCompleted
           \/ FlushEnded \/ Reset \/ ResetReturn \/ Destroy \/ Destroyed

WorkerStep == \/ Terminate \/ Discard \/ TakeSample \/ TakeCommand \/ ListEmpty
              \/ Woken \/ Send \/ After \/ EosDelivered \/ ResetDone

Receives == \E r \in Results : Received(r)

Next == Upstream \/ Control \/ WorkerStep \/ Receives \/ Gone

Spec == Init /\ [][Next]_vars

\* The threads run, and a downstream pin told to flush returns its Receives.
Fairness ==
  /\ WF_vars(WorkerStep)
  /\ WF_vars(told /\ Receives)
  /\ WF_vars(FlushDownstream) /\ WF_vars(FlushCompleted) /\ WF_vars(FlushEnded)
  /\ WF_vars(ResetReturn) /\ WF_vars(Destroyed)

FairSpec == Spec /\ Fairness

-----------------------------------------------------------------------------
(* Properties.                                                             *)

Element == [kind : Commands \cup {"sample"}, id : 0..MaxSample, epoch : 0..MaxFlush]

\* The types of the state; m_ppSamples never outgrows the array the
\* constructor allocates, and a batch in hand is sent before the next.
TypeOK ==
  /\ m_bBatchExact \in BOOLEAN /\ m_bFlushingOpt \in BOOLEAN /\ resets \in BOOLEAN
  /\ m_List \in Seq(Element) /\ Len(m_List) <= MaxList
  /\ m_ppSamples \in Seq(Element) /\ Len(m_ppSamples) < m_lBatchSize
  /\ m_lWaiting \in 0..1 /\ m_hSem \in 0..1
  /\ m_evFlushComplete \in BOOLEAN /\ m_bFlushing \in BOOLEAN /\ m_bFlushed \in BOOLEAN
  /\ m_bTerminate \in BOOLEAN /\ m_hr \in Results
  /\ worker \in {"top", "take", "sem", "send", "receiving", "after", "eos", "reset", "done"}
  /\ sending \in Seq(Element) /\ Len(sending) <= m_lBatchSize
  /\ worker \in {"send", "receiving"} <=> sending # <<>>
  /\ command \in Commands \cup {NoCommand}
  /\ upstream \in {"idle", "segment"}
  /\ control \in {"idle", "begin", "flushing", "end", "ended", "reset", "destroy", "gone"}
  /\ told \in BOOLEAN /\ nextId \in 1..(MaxSample + 1) /\ epoch \in 0..MaxFlush
  /\ last \in 0..MaxSample

\* Everything the queue holds, oldest first.
Held == sending \o m_ppSamples \o m_List

\* Samples leave in the order they came in, across batches, commands and
\* flushes, and none is delivered twice (ThreadProc, ReceiveMultiple).
InOrder ==
  /\ \A i, j \in DOMAIN Held : i < j /\ IsSample(Held[i]) /\ IsSample(Held[j]) => Held[i].id < Held[j].id
  /\ worker # "receiving" => \A i \in DOMAIN Held : IsSample(Held[i]) => Held[i].id > last

\* Once EndFlush has passed the flush downstream, no sample queued before it
\* is delivered, and none is still being delivered (BeginFlush, EndFlush,
\* ThreadProc).
NothingStale ==
  worker = "receiving" => \A i \in DOMAIN sending : sending[i].epoch = epoch

\* The queue never counts as flushed while a batch is with the downstream
\* pin: the two ASSERT(!m_bFlushed) around ReceiveMultiple in ThreadProc.
NotFlushedWhileSending == worker = "receiving" => ~m_bFlushed

\* There is work for the thread: a command, a full batch, or, in a queue
\* that is not exact, any sample.
Work ==
  \/ \E i \in DOMAIN m_List : ~IsSample(m_List[i]) \/ ~m_bBatchExact
  \/ Len(m_ppSamples) + Len(m_List) >= m_lBatchSize
  \/ m_bTerminate

\* The thread has either announced that it waits or been given the
\* semaphore, never both, and never waits unannounced with work to do
\* (NotifyThread, ThreadProc and its ASSERT(m_lWaiting == 0)).
NoMissedWork ==
  /\ m_lWaiting + m_hSem = IF worker = "sem" THEN 1 ELSE 0
  /\ m_lWaiting = 1 => ~Work

\* EndFlush returns, whatever the thread was doing when the flush began, if
\* a downstream pin that is told to flush returns from its Receives.
EndFlushReturns == (control = "end") ~> (control = "idle")

\* The downstream pin never keeps a Receive for good.
PinAnswers == []<>(worker # "receiving")

\* The waits of Reset and of the destructor end if the downstream pin answers.
WaitersReturn ==
  PinAnswers => ((control \in {"reset", "destroy"}) ~> (control \in {"idle", "gone"}))

HeldHere(i) == \E k \in DOMAIN Held : Held[k].id = i

\* Sample i need not wait for a full batch.
Forced(i) ==
  \/ ~m_bBatchExact
  \/ \E k \in DOMAIN m_List :
        /\ ~IsSample(m_List[k])
        /\ \A j \in DOMAIN m_List : m_List[j].id = i => j < k

\* A sample that need not wait for more, because the queue is not exact or a
\* command stands behind it, is delivered or released if the downstream pin
\* answers (ThreadProc).
SampleLeaves ==
  PinAnswers => \A i \in 1..MaxSample : ((HeldHere(i) /\ Forced(i)) ~> ~HeldHere(i))

\* Order, flushes and the asserts about them, in any mix of the upstream's, the
\* control's and the thread's steps.
QueueHolds == TypeOK /\ InOrder /\ NothingStale /\ NotFlushedWhileSending

\* Every wait of a caller ends, and so does every sample's.
QueueProgress == EndFlushReturns /\ WaitersReturn /\ SampleLeaves
=============================================================================
