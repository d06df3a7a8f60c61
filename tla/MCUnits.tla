------------------------------ MODULE MCUnits -------------------------------
(***************************************************************************)
(* For TLC: BlockingQueue, sample conversion (Pcm), pins and enumerators   *)
(* (Pins, Enumerators), the video decoder's and the video renderer's       *)
(* choice of frames and its statistics (VideoQuality, VideoRenderer,       *)
(* VideoStats), CBaseList (PointerList) and reference counts (ComObjects). *)
(* They do not share state; `part' says which of them this behaviour is    *)
(* about, the others stay in an initial state.                             *)
(*                                                                         *)
(* The queue is used by all threads with one item value, or by all threads *)
(* but one with all of them.  Pins: a splitter with two output pins, a     *)
(* sink with two input pins; the first output pin proposes a type that its *)
(* partner does not take.                                                  *)
(***************************************************************************)
EXTENDS BlockingQueue, Integers, SequencesExt

CONSTANTS Levels, Corner, Latenesses,
          Filters, PinsOf, Downstream, MediaTypes, Accepts, Proposes, TryMine, Reconnects, None,
          Addr, Enums, MaxPins, MaxVersion, TypeCounts, MaxSkip,
          WaitFrames, MaxGroup, Silly, IntMax, Lates,
          Durations, Second, AlmostSecond, Bias, Delays, MaxTime,
          FrameTimes, MaxFrames,
          Nodes, NULL, Lists, Objects, iCacheSize,
          Clients, MaxRefs

ASSUME UnitsAssumption ==
  /\ Durations \subseteq Nat \ {0} /\ Delays \subseteq Nat /\ Second \in Nat /\ Bias \in Nat
  /\ TypeCounts \subseteq Nat /\ IsFiniteSet(Clients)

\* Amplitudes around every boundary of every format: each power of two that a
\* format's precision or a byte ends at (Corner: the exponents), one less and
\* one more, of either sign, and the two ends of int32_t.
CornerUp     == {0, 1, 2147483647} \union UNION {{2^k - 1, 2^k, 2^k + 1, 2^k + 2^(k \div 2)} : k \in Corner}
CornerLevels == CornerUp \union {-x : x \in CornerUp} \union {-2147483647 - 1}

EarlyToLate == {-700, 0, 3, 40, 1500}

SplitterPins == [splitter |-> <<"u", "o">>, sink |-> <<"i", "d">>]
SplitterOut  == [u |-> "i", o |-> "d"]
TypesTaken   == [u |-> {"A", "B"}, i |-> {"A"}, o |-> {"A"}, d |-> {"A"}]
TypesOffered == [u |-> <<"B">>, i |-> <<"A">>, o |-> <<"A">>, d |-> <<>>]

VARIABLES part,
  m_State, m_Connected, m_mt, m_pAllocator, m_pInputPin, committed, m_bFlushing,
  m_bRunTimeError, stuck, cut,
  pins, made, m_PinVersion, changed, enum, types, listed, m_TypeVersion, tenum,
  format, sample, level, precision,
  m_itrLate, m_nKeyFramePeriod, m_nFramesSinceKeyFrame, m_bSkipping, slow, m_nWaitForKey,
  vpc, frame, broken, forgotten, orphan,
  now, streaming, m_trLastDraw, m_trRenderAvg, m_trRenderLast, m_trFrameAvg, m_trDuration,
  m_trWaitAvg, m_trEarliness, m_nNormal, wpc, stamp, due, lastShown, shown, lost, hung, unseen,
  m_cFramesDrawn, m_cFramesDropped, m_iTotAcc, m_iSumSqAcc, m_iSumFrameTime,
  m_iSumSqFrameTime,
  h, contents,
  loaded, m_cLocked, m_cObjects, factory, object, fheld, oheld, locks, cpc, temp, seen, dtors, raced

P == INSTANCE Pins
E == INSTANCE Enumerators
C == INSTANCE Pcm
Q == INSTANCE VideoQuality
D == INSTANCE VideoRenderer
S == INSTANCE VideoStats
L == INSTANCE PointerList
O == INSTANCE ComObjects

\* Output pins are not input pins, each leads to an input pin of its own, and every pin is one filter's;
\* only CDynamicOutputPin, an output pin, calls SetReconnectWhenActive.
ASSUME PinsAssumption ==
  /\ Downstream \in [P!OutPins -> P!InPins] /\ P!OutPins \cap P!InPins = {}
  /\ \A o, q \in P!OutPins : Downstream[o] = Downstream[q] => o = q
  /\ PinsOf \in [Filters -> Seq(P!Pin)]
  /\ \A p \in P!Pin : \E f \in Filters : \A g \in Filters : p \in Range(PinsOf[g]) <=> g = f
  /\ Accepts \in [P!Pin -> SUBSET MediaTypes] /\ Proposes \in [P!Pin -> Seq(MediaTypes)]
  /\ Reconnects \subseteq P!OutPins
  /\ None \notin P!Pin \cup MediaTypes

\* The amplitudes the samples are made from are int32_t values.
ASSUME LevelsAssumption == Levels \subseteq C!Range32

sampleVars == <<format, sample, level, precision>>
videoVars  == <<m_itrLate, m_nKeyFramePeriod, m_nFramesSinceKeyFrame, m_bSkipping, slow, m_nWaitForKey,
                vpc, frame, broken, forgotten, orphan>>
drawVars   == <<now, streaming, m_trLastDraw, m_trRenderAvg, m_trRenderLast, m_trFrameAvg, m_trDuration,
                m_trWaitAvg, m_trEarliness, m_nNormal, wpc, stamp, due, lastShown, shown, lost, hung, unseen>>
statVars   == <<m_cFramesDrawn, m_cFramesDropped, m_iTotAcc, m_iSumSqAcc, m_iSumFrameTime,
                m_iSumSqFrameTime>>
listVars   == <<h, contents>>
comVars    == <<loaded, m_cLocked, m_cObjects, factory, object, fheld, oheld, locks, cpc, temp, seen,
                dtors, raced>>
pinsVars   == <<m_State, m_Connected, m_mt, m_pAllocator, m_pInputPin, committed, m_bFlushing,
                m_bRunTimeError, stuck, cut>>
pinEnumVars  == <<pins, made, m_PinVersion, changed, enum>>
typeEnumVars == <<types, listed, m_TypeVersion, tenum>>

OneItem   == CHOOSE i \in Item : TRUE
Bystander == CHOOSE t \in Thread : TRUE

PartsInit ==
  /\ part \in {"threads", "items", "pins", "pinEnum", "typeEnum", "pcm", "quality", "draw", "stats", "list", "com"}
  /\ Init /\ P!Init /\ E!EnumInit
  /\ C!Init /\ Q!VideoInit /\ D!DrawInit /\ S!StatInit /\ L!ListInit /\ O!ComInit
  /\ \A t \in Thread : part # "items" \/ t = Bystander => arg[t] = OneItem
  /\ part # "typeEnum" => types = 1
  /\ part # "pcm" => format = "U8" /\ sample = <<128>>
  /\ part # "quality" => m_nWaitForKey = 0

graphVars == <<pinsVars, pinEnumVars, typeEnumVars>>
drawnVars == <<videoVars, drawVars, statVars>>

NextThreads  == /\ part = "threads" /\ Next
                /\ arg' = arg /\ ToSet(m_items') \subseteq {OneItem}
                /\ UNCHANGED <<part, graphVars, sampleVars, drawnVars, listVars, comVars>>
NextItems    == /\ part = "items" /\ Next
                /\ pc'[Bystander] = "idle" /\ ret'[Bystander] = ret[Bystander]
                /\ UNCHANGED <<part, graphVars, sampleVars, drawnVars, listVars, comVars>>
NextPins     == /\ part = "pins" /\ P!Next
                /\ UNCHANGED <<part, vars, pinEnumVars, typeEnumVars, sampleVars, drawnVars, listVars, comVars>>
NextPinEnum  == /\ part = "pinEnum" /\ E!PinEnumNext
                /\ UNCHANGED <<part, vars, pinsVars, sampleVars, drawnVars, listVars, comVars>>
NextTypeEnum == /\ part = "typeEnum" /\ E!TypeEnumNext
                /\ UNCHANGED <<part, vars, pinsVars, sampleVars, drawnVars, listVars, comVars>>
NextPcm      == /\ part = "pcm" /\ C!Next
                /\ UNCHANGED <<part, vars, graphVars, drawnVars, listVars, comVars>>
NextQuality  == /\ part = "quality" /\ Q!VideoNext
                /\ UNCHANGED <<part, vars, graphVars, sampleVars, drawVars, statVars, listVars, comVars>>
NextDraw     == /\ part = "draw" /\ D!DrawNext
                /\ UNCHANGED <<part, vars, graphVars, sampleVars, videoVars, statVars, listVars, comVars>>
NextStats    == /\ part = "stats" /\ S!StatNext
                /\ UNCHANGED <<part, vars, graphVars, sampleVars, videoVars, drawVars, listVars, comVars>>
NextList     == /\ part = "list" /\ L!ListNext
                /\ UNCHANGED <<part, vars, graphVars, sampleVars, drawnVars, comVars>>
NextCom      == /\ part = "com" /\ O!ComNext
                /\ UNCHANGED <<part, vars, graphVars, sampleVars, drawnVars, listVars>>

PartsNext == \/ NextThreads \/ NextItems \/ NextPins \/ NextPinEnum \/ NextTypeEnum \/ NextPcm
             \/ NextQuality \/ NextDraw \/ NextStats \/ NextList \/ NextCom

PartsSpec == /\ PartsInit /\ [][PartsNext]_<<part, vars, graphVars, sampleVars, drawnVars, listVars, comVars>>
             /\ Fairness

(* Stated, and each of their conjuncts explained, in the modules.          *)

\* Connected pins agree, failed attempts are undone, stopped filters hold no memory.
PinsHold         == part = "pins" => P!PinsHold

\* No pin twice and none left out; types of one version.
EnumerationExact == E!EnumerationExact

\* Any chain of conversions keeps the amplitude; widening can be undone.
ConversionExact  == part = "pcm" => C!ConversionExact

\* No frame is shown whose reference frame was skipped by a filter that still skips.
NoOrphanShown    == Q!NoOrphanShown

\* The first frame of a run is drawn, and never are all dropped.
FramesDrawn      == D!FramesDrawn

\* No variance is negative, every deviation is the root of one.
StatisticsExact  == S!StatisticsExact

\* Every operation of CBaseList on linked nodes is the one on sequences; no node is lost.
ListsExact       == part = "list" => L!ListsExact

\* Neither factory nor object nor DLL goes while it is in use.
CountsHold       == O!CountsHold
=============================================================================
