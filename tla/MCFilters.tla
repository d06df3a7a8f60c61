----------------------------- MODULE MCFilters ------------------------------
(***************************************************************************)
(* The transform filters, the samples and media types they pass on, and    *)
(* the registration of a filter, for TLC.  `part' says which of them this  *)
(* behaviour is about, the others stay in an initial state.  Media types   *)
(* are looked at without objects (types), and without GUIDs (objects).     *)
(***************************************************************************)
EXTENDS Integers, Sequences, FiniteSets

CONSTANTS cBuffers, MaxFlushes, Nobody,
          Types, Sizes, None, MaxConnects,
          MaxUses, Plain, cbBuffer, Lengths,
          Objects, Blocks, FormatLengths, Byte, GUID, GUID_NULL

ASSUME FiltersAssumption ==
  /\ Nobody \notin {"stream", "app", "flush"} /\ None \notin Types \cup Blocks
  /\ cbBuffer \in Nat /\ Lengths \subseteq Nat
  /\ Plain \cap {"TimeValid", "StopValid", "MediaTimeValid", "TypeChanged"} = {}
  /\ IsFiniteSet(Objects) /\ FormatLengths \subseteq Nat \ {0}

VARIABLES part,
  video, m_State, inConn, outConn, m_csFilter, m_csReceive, m_bFlushing, m_bEOSDelivered,
  outCommitted, held, dState, dFlushing, spc, sgen, apc, fpc, gen, eosSent,
  m_bModifiesData, m_bReadOnly, type, m_pAllocator, size, npc, told, pending, running,
  m_bSampleSkipped, m_bQualityChanged, spoiled, strange, connects,
  com, listed, mapper2, denied, reg, step, written, result, torn, fellBack,
  m_dwFlags, m_Start, m_End, m_Media, m_pMediaType, m_lActual, lent, use, copies, given, partial,
  mt, heap, refs, unpaid

T == INSTANCE Transform
P == INSTANCE InPlace
R == INSTANCE Registration
S == INSTANCE MediaSample
M == INSTANCE MediaType WITH NULL <- None

trVars == <<video, m_State, inConn, outConn, m_csFilter, m_csReceive, m_bFlushing, m_bEOSDelivered,
            outCommitted, held, dState, dFlushing, spc, sgen, apc, fpc, gen, eosSent>>
inPlaceVars == <<m_bModifiesData, m_bReadOnly, type, m_pAllocator, size, npc, told, pending, running,
                 m_bSampleSkipped, m_bQualityChanged, spoiled, strange, connects>>
regVars == <<com, listed, mapper2, denied, reg, step, written, result, torn, fellBack>>
sampleVars == <<m_dwFlags, m_Start, m_End, m_Media, m_pMediaType, m_lActual, lent, use, copies, given, partial>>
typeVars == <<mt, heap, refs, unpaid>>
dataVars == <<sampleVars, typeVars>>
vars == <<part, trVars, inPlaceVars, regVars, dataVars>>

Init == /\ part \in {"transform", "inplace", "registration", "sample", "types", "objects"}
        /\ T!TrInit /\ P!InPlaceInit /\ R!Init /\ S!SampleInit /\ M!TypeInit
        /\ part # "transform" => video
        /\ part # "inplace" => m_bModifiesData
        /\ part # "registration" => denied = {}

NextTransform    == part = "transform" /\ T!TrNext /\ UNCHANGED <<part, inPlaceVars, regVars, dataVars>>
NextInPlace      == part = "inplace" /\ P!InPlaceNext /\ UNCHANGED <<part, trVars, regVars, dataVars>>
NextRegistration == part = "registration" /\ R!Next /\ UNCHANGED <<part, trVars, inPlaceVars, dataVars>>
NextSample       == part = "sample" /\ S!SampleNext /\ UNCHANGED <<part, trVars, inPlaceVars, regVars, typeVars>>
NextType         == /\ part \in {"types", "objects"} /\ M!TypeNext
                    /\ part = "types" => refs' = 0
                    /\ part = "objects" => \A t \in Objects : GUID_NULL = mt'[t].majortype
                                                              /\ GUID_NULL = mt'[t].subtype
                                                              /\ GUID_NULL = mt'[t].formattype
                    /\ UNCHANGED <<part, trVars, inPlaceVars, regVars, sampleVars>>

Next == NextTransform \/ NextInPlace \/ NextRegistration \/ NextSample \/ NextType

\* Nothing of these is enabled in the initial state of a part.
Spec == Init /\ [][Next]_vars /\ T!TrFairness /\ P!InPlaceFairness /\ R!Fairness

(* Stated, and each of their conjuncts explained, in the modules.          *)

\* No sample crosses a flush of a transform filter; a renderer without input gets its end of stream.
StreamHolds       == T!StreamHolds

\* Pins of an in-place filter agree: read-only buffers are kept, copies fit.
AllocatorHolds    == P!AllocatorHolds

\* Registration's success is exact, and no filter is listed without its server.
RegistrationHolds == R!RegistrationHolds

\* A sample shows nothing of its earlier uses, its type is owned and flagged.
SampleHolds       == S!SampleHolds

\* Formats and objects of media types are owned once; types match as they compare.
TypesHold         == part \in {"types", "objects"} => M!TypesHold

\* Flush, Stop and Pause return, reconnections and calls to register come to an end.
FiltersProgress   == T!FlushAndStopReturn /\ P!Settles /\ R!CallReturns
=============================================================================
