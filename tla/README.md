# Verification of StupidAR

TLA+ models, TLC runs and TLAPS proofs for StupidAR, a DirectShow audio renderer
filter (`StupidAR/`) built on a private copy of the DirectShow base classes
(`baseclasses/`). The filter itself is young: it accepts every media type and
renders a sample by returning `S_OK`. What makes it correct or not is therefore
mostly the base class machinery it runs in, together with the parts written for
it: a blocking queue, the PCM conversions and the registration code.

`PROJECT.json` is the index: components, runs, mutants, the map from definitions
to source lines, findings, hazards and theorems.

## 1. Inventory

| Component | State it keeps | Operations | What makes it correct |
|---|---|---|---|
| `BlockingQueue.h` | `m_queue`, `m_flushing`, one mutex, two condition variables | `put`, `offer`, `take`, `poll`, `begin_flush`, `end_flush` | bounded FIFO; closed means empty; no lost wake-up; flushing frees waiters |
| `MyRenderer`, `CBaseRenderer`, `CRendererInputPin` | filter state, pending sample, advise cookie, end-of-stream flags and timer, two events, two locks | `Stop`, `Pause`, `Run`, `Receive`, `EndOfStream`, flush, connect, timer callback | one `EC_COMPLETE`; render only while running; no sample or advise request left behind; pauses complete; nothing deadlocks |
| `pcm.h` | none (pure) | `pcm24_t`, `convert_sample` for 10 formats | conversions keep the amplitude down to the narrowest format; widening can be undone |
| `CBaseReferenceClock`, `CAMSchedule` | private time, last timer reading, ordered list of requests, event, thread | advise, cancel, correct, destroy | list ordered; thread never oversleeps; what is due is fired; destructor returns |
| `COutputQueue` | list of samples and in-band commands, batch, sticky `m_hr`, semaphore, event, thread | receive, `EOS`, `SendAnyway`, `NewSegment`, flush, `Reset`, destroy | order; a flush discards; the thread never sleeps beside work; waits end |
| `CMemAllocator` | pool, free list, commit state, waiters, references to itself | `Commit`, `Decommit`, `GetBuffer`, `ReleaseBuffer` | a sample is in one place; decommit completes; nobody waits beside a free sample |
| `CMediaSample` | flags, times, type, length | setters, `SetProperties`, `Release` | a use shows nothing of the one before; the type is owned and flagged |
| `CMediaType` | GUIDs, format block, object | copy, set, reallocate, compare, match | formats and references owned once, whichever allocation fails |
| Pins and filters (`CBasePin`, `CBaseInputPin`, `CBaseOutputPin`, `CBaseFilter`) | peer, type, allocator, filter state, flush and error flags | connect, disconnect, `Stop`, `Pause`, `Run`, `Receive`, flush | both ends agree; failed attempts are undone; a stopped filter has no memory |
| `CEnumPins`, `CEnumMediaTypes` | position, version, cache of pins | `Next`, `Skip`, `Reset`, `Refresh`, `Clone` | no pin twice, none left out, types of one version |
| `CDynamicOutputPin` | block state, users, three events | block, unblock, start and stop using, change format | nobody uses a blocked pin; nobody waits for ever |
| `CAMThread`, `CMsgThread` | two events, parameter; queue, waiters, semaphore | `CallWorker`, `Reply`; post, get | no request or message lost |
| `CSourceStream`, `CPullPin` | a worker thread, the state of its loop, reader and positions | `Active`, `Inactive`, seek, stop | calls return; nothing of an earlier start; the end means everything |
| `CBaseStreamControl` | stream state, start and stop times and cookies, event | `StartAt`, `StopAt`, state changes, flush, `CheckStreamState` | samples sent by the rules; cookies answered; waits justified |
| `CCmdQueue`, `CDeferredCommand` | two ordered lists, due event, advise | insert, cancel, postpone, invoke | executed once; in order |
| `CPosPassThru`, `CRendererPosPassThru`, `CSourceSeeking` | positions, three locks | set and get positions, end of stream | latest positions; no circle of locks |
| `CTransformFilter`, `CTransInPlaceFilter`, `CVideoTransformFilter` | two locks, flags; type and allocator of both pins; key frame counts | `Receive`, flush, `Stop`, `Pause`, connect, quality | no sample crosses a flush; read-only buffers kept; no frame without its reference |
| `CBaseVideoRenderer` | half a dozen running averages, sums | draw or drop, statistics | first frame drawn, never all dropped; figures exact |
| `CBaseList` | linked nodes, node cache | add, remove, move, split | the lists the names promise |
| `CClassFactory`, `CUnknown`, DLL | reference, lock and object counts | `AddRef`, `Release`, `LockServer`, unload | nothing goes while it is in use |
| Registration (`dllmain.cpp`, `dllsetup.cpp`) | registry keys, filter mapper listings | register, unregister | success is exact; partial failure is repairable |

How they interact: the filter graph's thread connects pins, calls
`Stop`/`Pause`/`Run` and, through an upstream filter, the flushing calls of a pin.
A source or pull pin's worker thread (often through a `COutputQueue` and
transform filters) gets samples from an allocator and calls `Receive`; the
renderer asks the reference clock to set `m_RenderEvent` when a sample is due and
the multimedia timer to call back when `EC_COMPLETE` is; releasing the sample
returns it to the allocator, whose waiting producer wakes up. Seeking goes from the renderer
up to the source, which flushes all the way down. The hard behaviours are
the windows in which these threads work without the locks the others use, and
the waits under locks that others need: `Receive` between its wake-up and its
second lock, `SignalTimerFired`, the advise thread between reading the time and
sleeping, the output queue's and message thread's announced waits, the tail of
`ReleaseBuffer`, the unlocked looks of stream control, deferred commands being
cancelled while they execute, `Stop` waiting for a streaming thread.

## 2. Modules

| Module | Models | Run |
|---|---|---|
| `BlockingQueue` | `BlockingQueue.h`; refines `FlushableFifo`, a FIFO that can be closed and reopened | `units` |
| `Renderer` | `MyRenderer` on `CBaseRenderer` and `CRendererInputPin` | `renderer` |
| `RefClock` | `refclock.cpp` with `schedule.cpp` | `refclock` |
| `OutputQueue` | `outputq.cpp`, with a thread | `oq` |
| `Allocator` | `CBaseAllocator`, `CMemAllocator`, reference counts of `CMediaSample` | `alloc` |
| `Worker` | `CAMThread`; `SourceStream` and `PullPin` are built on it | `threads` |
| `SourceStream`, `PullPin`, `MsgThread`, `DynamicPin` | `source.cpp`, `pullpin.cpp`, `CMsgThread`, `CDynamicOutputPin` | `threads` |
| `StreamControl`, `CmdQueue`, `Seeking` | `strmctl.cpp`, parts of `ctlutil.cpp` | `control` |
| `Transform`, `InPlace` | `transfrm.cpp` with the flush of `vtrans.cpp`, `transip.cpp` | `filters` |
| `MediaSample`, `MediaType` | `CMediaSample`'s properties, `mtype.cpp` | `filters` |
| `Registration` | `dllmain.cpp` with `dllsetup.cpp` | `filters` |
| `Pins`, `Enumerators` | pins, filters and enumerators of `amfilter.cpp` | `units` |
| `Pcm` | `pcm.h` | `units` |
| `VideoQuality`, `VideoRenderer`, `VideoStats` | `vtrans.cpp`, the video part of `renbase.cpp` | `units` |
| `PointerList`, `ComObjects` | `wxlist.cpp`, `dllentry.cpp` with `combase.cpp` | `units` |
| `RendererProofs`, `RefClockProofs`, `OutputQueueProofs`, `AllocatorProofs` | theorems; extend the modules they are about | |
| `UnitsProofs`, `ThreadsProofs`, `ControlProofs`, `FiltersProofs` | theorems about the components of `MCUnits`, `MCThreads`, `MCControl`, `MCFilters`, which they extend | |
| `MC*` | constants, model values, symmetry; components that share a run | |

Names are the source's (`m_bFlushing`, `put`, `SendEndOfStream`). A method is one
action as far as it runs inside one critical section, and is split where it
unlocks, waits, polls or calls out; the place of a thread between two actions is
a variable whose values each module's heading explains.

`MCUnits`, `MCThreads`, `MCControl` and `MCFilters` put components that share no
state into one run: a variable `part`, chosen in the initial state, says which of
them the behaviour is about, and the others do not move. The run explores
the union of their state spaces, not the product. (`SourceStream` and `PullPin`
do share the variables of `Worker`, of which each has its own behaviours.)
They also name the assumptions on the constants their components share
(`ThreadsAssumption`, `ControlAssumption`, `FiltersAssumption`, and in `MCUnits`
`UnitsAssumption`, `PinsAssumption`, `LevelsAssumption`). What a component is given
is a constant too, whose value in the run is a definition of the `MC` module that the
configuration names: the positions to pull (`SeekPositions`), the sample times
(`SampleTimes`), the graph of pins and types (`SplitterPins`, `SplitterOut`,
`TypesTaken`, `TypesOffered`), the amplitudes (`CornerLevels`) and the latenesses
(`EarlyToLate`).

Most runs check, per component, one invariant that is the conjunction of named
parts (`PinsHold`, `PullHolds`, `QueueHolds`, ...); each part is stated and
explained in the component's module. Operators called `X_Something` with the
comment "Mutant:" are deliberately wrong variants of `X`. They are not used by any
specification; replacing `X` by one must break the property `PROJECT.json` names,
which shows that the property depends on that code.

### Environment assumptions

* `BlockingQueue`: any number of threads; spurious wake-ups happen. `notify_one`
  wakes any one waiter.
* `Renderer`: one control call at a time (the filter graph serialises them under
  `m_InterfaceLock`), one streaming thread. The clock may fire an advise request
  any time after it was made and before it is cancelled; the timer callback may
  come late, early with respect to the reference clock, or after `timeKillEvent`
  has been called. Sample times are abstracted to "has a usable time stamp", the
  delivery time of `EC_COMPLETE` to "is due".
* `Pcm`: floating-point inputs lie in [-1, 1) and are multiples of half a unit of
  the integer format they are converted to.
* `RefClock`: time moves in half milliseconds; `timeGetTime` wraps after `Cycle`.
  The run is short enough that no two readings are half a cycle apart.
* `OutputQueue`: one upstream caller, which makes no call while `EndFlush` or the
  destructor runs (the source relies on it: "the caller has guaranteed no samples
  will arrive before EndFlush() returns"); one control thread. `Careful` excludes
  the use of `Reset` together with the flush optimisation or with calls during a
  flush; the run without it shows why (section 6).
* `Allocator`: threads release only references they own, and a caller of the
  allocator holds a reference to it.
* `Pins`: the graph calls one method at a time; any callee may refuse.
* `DynamicPin`: the caller of a synchronous block does not use the pin itself.
* `SourceStream`, `PullPin`: one caller at a time, as `m_AccessLock` and the
  filter's state lock enforce; every external call may fail. `GetBuffer` waits while
  the reader and downstream have all buffers. That calls return is stated for a
  downstream that gives its buffers back (`DownstreamGivesBack`): `StopThread`
  decommits the allocator only after it has waited for the thread (section 6).
* `Transform`: the graph stops and pauses the renderer before the filter and
  stops neither in the middle of a seek; upstream of a filter that is not a video
  filter lets its streaming thread return from `Receive` before it calls
  `EndFlush` (only `CVideoTransformFilter::EndFlush` waits for it).
* `InPlace`: the graph carries out the reconnections it is asked for.
* `Enumerators`: one call at a time on an enumerator. The pins, or types, and their
  version change at any time and in separate steps, also under a walk. A client does
  not use the address `GetPin` gave after the pin is gone.
* `VideoQuality`: every frame has time stamps; after a start or a flush upstream goes
  on with a key frame. A new input format may come with any frame.
* `VideoRenderer`: after a flush the time stamps go on or begin anew; an advise request
  may fail.
* `Seeking`: positions are abstracted to whether the source has seen them.
* `ComObjects`: `FactoryKept` and `UnloadSafe` are stated for behaviours in which
  no two threads were inside the unlocked increments of `dllentry.cpp` at once
  (section 6).
* `MediaSample`: a time or type is represented by the use in which it was set.
* `MediaType`: memory may run out at any allocation; a behaviour ends where a
  failed copy has left a pointer without a reference (section 6).
* `Registration`: calls are not concurrent. Each system call may fail and the
  process may be killed between two; `denied` is what the registry refuses to open
  or delete. Each of the two creations of `FilterMapper2` in a registration succeeds or
  fails for itself. What a registration has listed through the older `IFilterMapper`,
  when the first creation failed, is not removed by the second (section 6);
  `SuccessIsExact` and `ListedHasServer` leave that listing out (`Shown`).

## 3. Runs that pass

| Run | Instance | Shows |
|---|---|---|
| `renderer` | 2 cookies, 2 timers | one `EC_COMPLETE`, samples handled, pauses complete; every control method returns; an ended stream is reported |
| `refclock` | 2 requests, 1 correction, a timer wrap | ordered list, no oversleeping; what is due is fired; the destructor returns |
| `oq` | 3 samples, batches of 2, lists of 2, 2 flushes | order, flush discards, no missed work; callers return, samples leave |
| `alloc` | 3 threads, 2 samples | one whereabout, pending decommit, self-reference, no missed buffer; waiters leave on decommit |
| `threads` | source stream; pull pin over 5 bytes in buffers of 2, 3 starts; 3 messages; dynamic pin with 2 streamers and 2 blockers | requests arrive, nothing of an earlier start, block state consistent; calls return (of a pull pin, if downstream gives its buffers back), waiters leave |
| `control` | 3 times, 2 samples; 2 commands; 2 seeking threads | samples by the rules, commands once, latest positions; a flush frees, the end of stream is not stuck |
| `filters` | 1 buffer, 2 flushes; 3 connections, 2 types, 2 sizes; the whole registration; 2 uses of a sample; 2 media types, 2 blocks | no sample across a flush, read-only kept, exact registration, nothing inherited, formats owned; everything returns or settles |
| `units` | 3 threads, 2 items, 2 slots; 2 filters with 2 pins each; 2 enumerators under changes of list and version; every corner of every precision; frames in groups of 3; frames over 14 ticks of stream time, flushed at any; 6 frames; 4 nodes in 2 lists; 2 clients | the blocking queue and its refinement, pins, enumerators, conversions, choice of frames, statistics, lists, counts |

Why the bounds are enough. The blocking queue needs two sleepers and a third
thread that takes the lock before the notified one. The renderer needs two cookies
so that a stale one can be confused with a new one, and two timers so that one can
be armed while another fires late; the theorems cover any number. The clock needs a
one-shot and a periodic request to interleave in the list and a cycle short enough
for its timer to wrap inside the run. The output queue needs one sample more than a
batch, and two flushes so that a signal left by the first can meet the second. The
allocator needs two holders of one sample and a third thread that waits. The pull
pin needs an odd length over its alignment, and a third start so that what the first
left can meet one that follows a seek. The dynamic pin needs a second user while the
last one grants a block, and a second blocker to be refused. Stream control needs a
start and a stop before, in and after a sample, in either order. Two commands make
an order; two seeking threads one that overtakes. Pins need two connections of one
filter, so that activation can fail after the first. Lists need four nodes, so that
a removal has neighbours on both sides and one node is left for the cache. A
statistic needs frames enough for the integer divisions to lose something.
`Registration` has no data to bound: its part is exhaustive.

Deadlock is checked in `renderer`, `oq` and `units`. In the others the system may
really stop: at the clock's time bound, when threads that hold all samples wait for
another one (a client's deadlock that the class cannot prevent), when calls
or uses are used up, when a pin has been disconnected for good. In `OutputQueue` a
destroyed object stutters.

## 4. Fairness

Only steps inside the code are fair, never the decision to call it. `BlockingQueue`
has weak fairness of a thread that stays at the mutex (the operating system grants
a contended lock). `Renderer` has weak fairness of the steps of the threads that
are inside a call, of the passing of time and of the clock's answer to a request
it holds. `RefClock` has weak fairness of the advise thread and of time.
In `OutputQueue` the downstream pin need only return from `ReceiveMultiple` after it
was told to flush, as a paused renderer does; `WaitersReturn` and `SampleLeaves` add
as a premise (`PinAnswers`) that it never keeps a call for good. `Allocator`,
`Worker`, `SourceStream`, `PullPin`, `MsgThread`, `StreamControl` and `DynamicPin`
have weak fairness of threads inside their methods; a blocker that has blocked a
dynamic pin unblocks it in the end (strong fairness: meanwhile it may disconnect and
reconnect), and the reader of a pull pin need never have its data, it only gives back
what a flush cancels. Downstream of a pull pin returns from `Receive`; that it gives back
the buffers it keeps is no fairness but the premise of `PullCallsReturn`.
Where a run puts several parts side by side, a part's fairness binds only the behaviours that are about it. `Transform` and `Seeking` have strong fairness of the steps that take a critical
section others take again and again: Windows grants it to a waiter in the end. In
`InPlace` the graph carries out pending reconnections. `CmdQueue` (run `due_doc`) has weak
fairness of the executing thread, of the clock and of time. `Registration`: the
system answers every call.

## 5. Proofs

TLAPS proves, for every value of the constants:

* `UnitsProofs`, for the components of the run `units`:
  * Blocking queue: `TypeCorrect`, `AlwaysDrained`, `WakeupsNeverLost`, and
    `Refinement` (the queue implements `FlushableFifo`), for any finite set of
    threads, any items and any positive capacity. The wake-up theorem is the hard
    one: it counts the threads on their way to the lock against the items or slots
    available, so the proof rests on lemmas about the cardinality of the set of
    threads at a place when one thread moves.
  * `PinsAlwaysHold`, for any filters, pins, types, acceptances, proposals and
    refusals. A pin is linked to its partner or to nobody (`PinsPaired`); a link the
    graph has half undone is of a stopped input pin (`HalfLinksStopped`), so that no
    activation finds one; committed memory is some output pin's (`CommittedHeld`).
    Lemmas follow an attempt to connect over the pins' records (`PinRec`), step by
    step: what it leaves alone (`OthersKept`), and that a failure gives back what
    the attempt had (`Free`).
  * `EnumerationAlwaysExact`, for any addresses, enumerators and versions. A walk is
    a step per place, and the list changes between them. `CacheOK` relates the cache of
    an enumerator to the pins it returned and those the call in progress has found.
    `WalkOK` says, while its version is the filter's and the list is not ahead of it,
    that nothing before its position is missing from the cache, so that an end that
    is reached has left nothing out (`EndOK`). For media types (`TypesEnumOK`), an
    enumerator with the version that the list belongs to has taken exactly the types
    before its position. Neither holds while the list is ahead of its version, and
    then types of two versions may be returned together.
  * `ConversionAlwaysExact`, for any set of `int32_t` amplitudes. Every sample is
    worth its amplitude cut to its format (`PcmInv`), and every conversion gives
    what a conversion of the 32-bit amplitude would have given (`U8Converts` to
    `DoubleConverts`, one lemma per source format); a number cut twice is cut to the
    narrower width (`CutTwice`), hence chains. Shifts are written with powers of
    two of the ten formats' widths, so the arithmetic is linear with known constants.
  * `OrphansNeverShown` and `FramesAlwaysDrawn`, for any latenesses, key frame
    periods, durations, delays and weights. While a group is broken the decoder is
    skipping or decodes a key frame, unless a new input format has made it forget
    (`SkipsOn`); what the renderer records as the last draw is not later than the
    last draw was, unless a frame was given up since (`DrawnAsRecorded`), and the
    averages that decide are those of a new run until a frame is drawn or given up
    (`FirstOfRun`). What happens in the two excepted cases is in section 6.
  * `StatisticsAlwaysExact`, for any number of frames and all latenesses and times.
    The sums are of one figure fewer than they are divided by, and for those counted
    k times the sum of squares is at least the square of the sum (`Sums`, kept by
    `MoreSums`), so no variance is negative; three steps of Newton's method from the
    least power of two above the root err by less than one (`FirstStep`,
    `SecondStep`, `LastStep`, each a bound on the quotient of the estimate and the
    root).
  * `CountsAlwaysHold`, for any finite set of clients and any number of references.
    References are counted one by one, as pairs of a client and a number
    (`References`), so that the factory's and the object's counts are cardinalities;
    a client that creates or destroys the object is alone (`OneBusy`).

  `PartsInv` is the conjunction of these invariants; each step of `PartsNext` is one
  component's and leaves the invariants of the others as they are.
* `RendererProofs`: `TypeCorrect`, `CompletedOnce`, `RendersWhenRunning`,
  `SampleReceived`, `AdvisedForSample`, their conjunction `SampleAlwaysHandled`, and
  `IntermediateCompletes`, for any sets
  of cookies and timers. The properties are not inductive on their own: whether
  `Render` finds the renderer running, for instance, depends on which control
  method is in progress and on where `Receive` was when it began. The inductive
  invariant `IInv` (in `Renderer`) is the conjunction of `TypeOK` with one part
  per concern: `OpHolds` (what a control method in progress has already
  established), `SampleHolds` (who has the pending sample), `CompleteHolds` (how
  often `EC_COMPLETE` was and can still be sent), `AdviseHolds` (the cookie) and
  `ReadyHolds` (when a pause is complete). One lemma per part shows that every
  action keeps it, using the parts before it; `Inductive` puts them together and
  each theorem is a corollary.

* `RefClockProofs`: `ScheduleAlwaysHolds`, for all times, periods, corrections and
  cycles of the timer. `NeverOversleeps` speaks of a thread that waits; `ReadingHolds`
  carries it there: the time the thread has read, and will compute its wait from, is
  behind the clock by no more than the slack, unless the event is set and the wait
  will end at once. The list is ordered because an insertion goes behind the last
  packet that is not later (sequence lemmas), and cookies differ because none in
  it is beyond the last given out.
* `OutputQueueProofs`: `WorkNeverMissed` and `OrderAlwaysKept` for any callers, and
  `QueueAlwaysHolds` under `Careful`, the use of `Reset` without which `NothingStale`
  is false (section 6, run `oq_flush_doc`); for any batch size. `Waits` accounts for
  the semaphore: a thread that waits has announced it or been given it, and one that
  has announced it has no work. `Order` relates the batch being sent, the batch
  being made, the list and the sample last delivered. Under `Careful`, `FlushInv`
  says that no sample is left once the thread has answered the flush, `Fresh` that
  every sample is of this epoch, and `ResetInv` who the event that `Reset` and the
  flush share is set for.
* `AllocatorProofs`: `PoolAlwaysHolds`, for any finite sets of threads and samples.
  `IInv` counts: `m_cRef` against the holders of a sample, the allocator's own
  references against the threads about to drop one, `m_lWaiting` and `m_hSem` against
  the threads that wait; the rest says who has a sample that is not free, including
  the threads between two critical sections.
* `ThreadsProofs`: `RequestsAlwaysArrive`, `PullAlwaysHolds`, `BlockAlwaysHolds`, for
  any finite set of streaming threads, any blockers, positions, buffers and number
  of restarts. A request is with the thread, being answered or answered, and none of
  these while nobody waits (`OneRequest`, `ThreadPlaces`). For the pull pin, what
  was delivered and what the reader has follow each other up to the current position
  (`Covered`), and who has the reader flushing is known (`FlushOwned`). For the dynamic
  pin, the users are counted and the block belongs to the caller that is recorded.
* `ControlProofs`: `ControlAlwaysHolds`, `CommandsAlwaysHold`, `PositionAlwaysHolds`,
  for any threads, commands, samples and times. That `CheckSampleTimes` follows the
  rules is proved for every start and stop time by cases on their order with the
  sample's, from the invariant that a pending stop will discard (`StopDiscards`). For
  commands, one taken off for good is neither on the queue nor on its way back
  (`OffForGood`), and one that was executed knows it or is about to be told
  (`KnowsThatItRan`); an insertion at the first later command keeps a list in order.
  For positions, what the source has not seen is still to be told by some thread.
* `FiltersProofs`: `StreamAlwaysHolds`, `AllocatorAlwaysHolds`,
  `RegistrationAlwaysHolds`, `SampleAlwaysHolds` and `TypesAlwaysHold`, for any
  number of buffers, flushes, connections and uses, any types, sizes, lengths,
  flags, blocks and formats and any finite set of media types. Flushes: when
  `EndFlush` is passed on nothing is in the filter, by the lock for a video filter
  and by the assumption on upstream for another (`FlushInv`). In-place filters:
  whenever both pins are connected, either the allocators are as `Receive` needs
  them or the graph has still to reconnect the input pin (`AgreedOrPending`).
  Registration: at each step which writes are done, and which categories are no
  longer listed, whatever the two creations of the mapper gave (`WrittenInv`, `ListedInv`).
  Media types: a step changes one type,
  which gives its block back, takes a free one or writes into its own; a lemma for
  each of the three keeps `OwnedOnce`.

The inductive invariants are stated at the head of the proof modules (in `UnitsProofs`
of each component's section), as
conjunctions of named parts (`IInv`, in `OutputQueueProofs` `CarefulInv`); each was
checked with TLC on the constants of the component's run before it was proved.

Assumptions used: the named `ASSUME`s of the modules (finite sets of threads,
samples and media types where they are counted, positive capacity, batch and buffer
sizes, times that are natural numbers or integers, `NULL` and `Nobody` outside the
sets they are no members of). TLC evaluates them in the runs. The bounds of the runs
(`MaxFlush`, `MaxConnects`, `MaxUses`, ...) are constants of the theorems like the
others: any natural number, and of some not even that is assumed.

Only model-checked: liveness and everything about fairness (outside the prover's
reach), and of the invariants the passing runs check `ListsExact` alone. The chains of
`PointerList` are recursive functions and its operations on whole lists are folds:
that they keep a chain of any length is induction over data, which the provers cannot
instantiate. The run explores every state of four nodes in two lists.

## 6. Findings

Four runs expect a violation; their property says what a comment of the source says.

* `renderer_advise_doc`: `SignalTimerFired` erases a cookie that belongs to a later
  request.
* `oq_flush_doc`: `m_evFlushComplete` serves two purposes; a signal left by a flush
  lets `Reset` return early, and the late `RESET_PACKET` then lets a later `EndFlush`
  return with samples still queued. `Careful` keeps the passing run to behaviours
  without such a `Reset`.
* `alloc_delete_doc`: `ReleaseBuffer` reads `m_pNotify` when the allocator may be
  gone.
* `due_doc`: after a change of the clock, the event for due commands is not signalled.

Smaller disagreements met while modelling; the models contain them unless said
otherwise, and no property of a passing run claims the opposite.

StupidAR and the renderer:

* `end_flush()` soon after `begin_flush()` sends woken threads back to sleep inside the
  same call (`BlockingQueue.h:104`), against the comment at line 93.
* `Ready()` in `Receive` after the locks are released (`renbase.cpp:1157`) can make a
  flushed, empty pause look complete, against the comment at line 700.
* A sample whose render time coincides with `Pause` is released by the
  `ClearPendingSample` that ends `Receive`, against the comment at line 989.
* A timer callback can re-arm the end-of-stream timer after `ResetEndOfStreamTimer`
  found it zero (`renbase.cpp:1353`); the next `Run` then fails the assertion at 564.
* `EliminateSubKey` drops the result of `RegDeleteKey` (`dllsetup.cpp:92`):
  unregistration reports success with the key still there, and loops for ever if it
  is the server's subkey that cannot be deleted.
* If `FilterMapper2` cannot be created for `AMovieDllRegisterServer2` (`dllsetup.cpp:434`) but
  can afterwards in `DllRegisterServer` (`dllmain.cpp:39`), success is reported with the
  filter in the legacy category as well as in the audio renderers', and unregistering
  through the newer mapper leaves it there.

Video:

* "Once we start skipping, we cannot stop until we hit a key frame" (`vtrans.cpp:390`), but
  any frame with a new input format restarts streaming and clears `m_bSkipping` (lines 161-167):
  one that is no key frame is decoded and shown after frames it depends on were skipped
  (`forgotten`).
* A sample for which an advise link is started "will always become the last one drawn" unless
  streaming stops (`renbase.cpp:2608`). A flush while running (705) or a failing advise (965)
  drops it as well (`lost`), and `m_trLastDraw` (2560) is that of a draw which never was: the
  next frame may be dropped on a display that has not changed for a second.
* The clamp at `vtrans.cpp:445` tests the lateness of the message before instead of the new
  one, so a silly value gets through once, against the comment at line 446. "No QM until we
  see at least 2 key frames" (line 18) fails for a stream that does not begin with a key
  frame. Frames without time stamps are shown inside a skipped group (`vtrans.cpp:324`).
* The average of `get_AvgSyncOffset` divides by another count than it summed over
  (`renbase.cpp:2698`, 2703); "the first frame will definitely be drawn" (line 1835) fails
  for one of no duration, and for one that follows a frame given up before it was drawn: the
  predicted draw is ahead of the clock and makes `m_trFrameAvg` negative. `FirstFrameDrawn`
  is stated for frames before any was given up.

Clock, queue, allocator, sources:

* `StopThread` and `PauseThread` of a pull pin (`pullpin.cpp:286`) wait for a thread that may
  be in `GetBuffer`, and decommit only afterwards or not at all: they block if downstream
  keeps the buffers until it is stopped itself.
* Two readings of the clock half a cycle of `timeGetTime` (24.8 days) apart set it
  back (`refclock.cpp:246`), against the comment at line 237.
* `IsIdle` fails its assertion (`outputq.cpp:792`) when a queue of exact batches
  holds fewer samples than a batch; nothing calls it.
* The comments on the allocator's references (`amfilter.cpp:4834`) describe one
  reference per buffer; `Commit` takes one for all.
* `SetProperties` says "Check a flag isn't being set for a property not being provided"
  (`amfilter.cpp:3763`), but a stop flag may come without `tStop`, and a length without
  `cbBuffer` is not checked against the buffer.
* A failed `CopyMediaType` leaves its target with `pUnk` but no reference
  (`mtype.cpp:402`); `SetFormat` into a longer block, when memory is short, keeps the old
  `FormatLength` (`mtype.cpp:237`); `IsPartiallySpecified` ignores the subtype, which the
  comment at line 304 includes.

Connection, control, COM:

* "We return VFW_E_ENUM_OUT_OF_SYNC", says `amfilter.cpp:1366`, when a media type cannot be
  had because the pin has changed; `Next` looks at the version before its loop only, and
  returns `S_FALSE` (line 1413), as at the end of the list.
* After a failed `CompleteConnect` the other pin is disconnected, says `amfilter.cpp:1975`;
  the `Disconnect` of line 1806 does nothing if that pin's filter is not stopped, which pins
  that may be reconnected while running allow. The run has no such pins (`Reconnects`).
* `GetCommandDueFor` returns a command without `AddRef` in its third branch
  (`ctlutil.cpp:2533`), against line 2488. `Postpone` racing `Invoke` may queue a command
  that has been executed.
* `CheckSampleTimes` asserts that there is no flush (`strmctl.cpp:239`); one may begin
  after the unlocked look.
* `CClassFactory::AddRef` increments `m_cRef` without interlocking (`dllentry.cpp:97`),
  and `LockServer` its count: two threads at once may lose a reference. The model has the
  two steps; `FactoryKept` and `UnloadSafe` exclude behaviours in which they overlapped.
* `wxlist.cpp:14` claims thread safety that the class leaves to its callers.

## 7. Not modelled

* Windows, palettes and DirectDraw (`winutil.cpp`, `winctrl.cpp`, `videoctl.cpp`,
  `ddmm.cpp`): input and output, which the audio filter does not use.
* `IDispatch` plumbing in `ctlutil.cpp`, property pages, persistence: adapters without a
  state of their own. The race of `combase.cpp:57` to load OLEAut32 only loads twice.
* Debugging and performance logging: without effect on the program.
* 128-bit arithmetic (`arithutil.cpp`): beyond the checker's integers.
* `StupidAudioRenderer.cpp` (an old copy outside the build), `IOutputAgent.h` (an
  interface nothing implements yet), the tests, which were read as statements about
  `pcm.h`, and their framework.
* Inside modelled components: the older registration entry points, `CSource`'s array of
  pins, `Restart` of the clock, the output queue without a thread, `NewSegment` of
  transform filters, queries without effect.

Composing `Renderer` with `Allocator` and `RefClock` in one specification, instead of
through the environment actions that stand for them, has a state space beyond TLC at
sizes where anything happens.
