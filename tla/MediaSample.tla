----------------------------- MODULE MediaSample -----------------------------
(***************************************************************************)
(* CMediaSample (baseclasses/amfilter.cpp): the properties of a sample     *)
(* that the allocator hands out, and gets back, again and again.           *)
(*                                                                         *)
(* A time or a media type is represented by the use of the sample in which *)
(* it was set, so that what an earlier use has left can be told from what  *)
(* this one has set; 0 is none.  The sync point, preroll and discontinuity *)
(* flags are treated alike (Plain); stream id and type specific flags,     *)
(* which nothing depends on, are left out.                                 *)
(***************************************************************************)
EXTENDS Naturals

CONSTANTS MaxUses, Plain,
          cbBuffer, Lengths   \* of the buffer, and lengths of data to set

VARIABLES m_dwFlags, m_Start, m_End, m_Media, m_pMediaType, m_lActual,
          lent, use,
          copies,   \* copies of media types that were made and not deleted
          given,    \* history: the plain flags set in this use
          partial   \* history: SetProperties got a length or a stop flag without the field it goes with

times      == <<m_Start, m_End, m_Media>>
sampleVars == <<m_dwFlags, times, m_pMediaType, m_lActual, lent, use, copies, given, partial>>

SampleInit == /\ m_dwFlags = {} /\ m_Start = 0 /\ m_End = 0 /\ m_Media = 0 /\ m_pMediaType = 0
              /\ m_lActual = cbBuffer /\ lent = FALSE /\ use = 0
              /\ copies = 0 /\ given = {} /\ partial = FALSE

\* The allocator (external to this module: see Allocator) hands it out.
GetBuffer == /\ ~lent /\ use < MaxUses /\ lent' = TRUE /\ use' = use + 1 /\ given' = {}
             /\ UNCHANGED <<m_dwFlags, times, m_pMediaType, m_lActual, copies, partial>>

SetTime ==
  /\ lent
  /\ \/ m_dwFlags' = m_dwFlags \ {"TimeValid", "StopValid"} /\ UNCHANGED <<m_Start, m_End>>
     \/ /\ m_dwFlags' = (m_dwFlags \cup {"TimeValid"}) \ {"StopValid"}
        /\ m_Start' = use /\ UNCHANGED m_End
     \/ m_dwFlags' = m_dwFlags \cup {"TimeValid", "StopValid"} /\ m_Start' = use /\ m_End' = use
  /\ UNCHANGED <<m_Media, m_pMediaType, m_lActual, lent, use, copies, given, partial>>

\* Both times or none; the end is kept as a 32-bit distance, which the length of a sample fits.
SetMediaTime ==
  /\ lent
  /\ \/ m_dwFlags' = m_dwFlags \ {"MediaTimeValid"} /\ UNCHANGED m_Media
     \/ m_dwFlags' = m_dwFlags \cup {"MediaTimeValid"} /\ m_Media' = use
  /\ UNCHANGED <<m_Start, m_End, m_pMediaType, m_lActual, lent, use, copies, given, partial>>

\* SetSyncPoint, SetPreroll and SetDiscontinuity.
SetFlag ==
  /\ lent
  /\ \E f \in Plain : \/ m_dwFlags' = m_dwFlags \cup {f} /\ given' = given \cup {f}
                      \/ m_dwFlags' = m_dwFlags \ {f} /\ UNCHANGED given
  /\ UNCHANGED <<times, m_pMediaType, m_lActual, lent, use, copies, partial>>

SetActualDataLength == /\ lent /\ \E l \in Lengths : l <= cbBuffer /\ m_lActual' = l
                       /\ UNCHANGED <<m_dwFlags, times, m_pMediaType, lent, use, copies, given, partial>>

Held(mt) == IF mt = 0 THEN 0 ELSE 1

\* No type, or no memory for a copy of it; or a copy.
SetMediaType ==
  /\ lent
  /\ \/ m_dwFlags' = m_dwFlags \ {"TypeChanged"} /\ m_pMediaType' = 0
     \/ m_dwFlags' = m_dwFlags \cup {"TypeChanged"} /\ m_pMediaType' = use
  /\ copies' = copies - Held(m_pMediaType) + Held(m_pMediaType')
  /\ UNCHANGED <<times, m_lActual, lent, use, given, partial>>

-----------------------------------------------------------------------------
(* SetProperties takes the first bytes of an AM_SAMPLE2_PROPERTIES; n is   *)
(* how many of its fields are there.                                       *)

Field == [cbData |-> 1, dwTypeSpecificFlags |-> 2, dwSampleFlags |-> 3, lActual |-> 4, tStart |-> 5,
          tStop |-> 6, dwStreamId |-> 7, pMediaType |-> 8, pbBuffer |-> 9, cbBuffer |-> 10]

CONTAINS_FIELD(field, n) == Field[field] <= n

\* Mutant: a flag is believed whatever else is there.
Acceptable_Time(n, flags, actual, size) ==
  /\ CONTAINS_FIELD("cbBuffer", n) => size \in {0, cbBuffer} /\ actual <= size

\* The checks, which come before any assignment.  (The buffer's address cannot be changed either.)
Acceptable(n, flags, actual, size) ==
  /\ "TimeValid" \in flags /\ "TimeValid" \notin m_dwFlags => CONTAINS_FIELD("tStop", n)
  /\ CONTAINS_FIELD("cbBuffer", n) => size \in {0, cbBuffer} /\ actual <= size

\* The type changed flag is set if there is a type now, from this call or before.
FixUp(flags, mt) == IF mt # 0 THEN flags \cup {"TypeChanged"} ELSE flags \ {"TypeChanged"}

SetProperties ==
  /\ lent
  /\ \E n \in Field["dwSampleFlags"]..Field["cbBuffer"] :
     \E flags \in SUBSET (Plain \cup {"TimeValid", "StopValid", "TypeChanged"}),
        actual \in IF CONTAINS_FIELD("lActual", n) THEN Lengths ELSE {m_lActual},
        size \in IF CONTAINS_FIELD("cbBuffer", n) THEN {0, cbBuffer} ELSE {0} :
          /\ Acceptable(n, flags, actual, size)
          /\ m_lActual' = actual
          /\ m_Start' = IF CONTAINS_FIELD("tStart", n) THEN use ELSE m_Start
          /\ m_End' = IF CONTAINS_FIELD("tStop", n) THEN use ELSE m_End
          /\ m_pMediaType' = IF CONTAINS_FIELD("pMediaType", n) /\ "TypeChanged" \in flags
                             THEN use ELSE m_pMediaType
          /\ copies' = copies - Held(m_pMediaType) + Held(m_pMediaType')
          /\ m_dwFlags' = FixUp(flags \cup (m_dwFlags \cap {"MediaTimeValid"}), m_pMediaType')
          /\ given' = flags \cap Plain
          /\ partial' = (\/ partial
                         \/ CONTAINS_FIELD("lActual", n) /\ ~CONTAINS_FIELD("cbBuffer", n)
                         \/ "StopValid" \in flags /\ ~CONTAINS_FIELD("tStop", n))
  /\ UNCHANGED <<m_Media, lent, use>>

\* The last reference: the type goes, and every flag, but neither times nor length.
Release == /\ lent /\ lent' = FALSE
           /\ IF "TypeChanged" \in m_dwFlags THEN m_pMediaType' = 0 /\ copies' = copies - Held(m_pMediaType)
              ELSE UNCHANGED <<m_pMediaType, copies>>
           /\ m_dwFlags' = {}
           /\ UNCHANGED <<times, m_lActual, use, given, partial>>

SampleNext == \/ GetBuffer \/ SetTime \/ SetMediaTime \/ SetFlag \/ SetActualDataLength \/ SetMediaType
              \/ SetProperties \/ Release

-----------------------------------------------------------------------------
\* Release, GetMediaType: ASSERT(m_pMediaType == NULL), ASSERT(m_pMediaType): the flag says whether there
\* is a type, whichever of the two interfaces set it, and however much of the properties was there.
TypeFlagged == ("TypeChanged" \in m_dwFlags) <=> m_pMediaType # 0

\* Every copy of a media type belongs to the sample; a sample nobody holds has none.
CopiesOwned == copies = Held(m_pMediaType) /\ (~lent => copies = 0)

\* Nobody gets from a sample what an earlier user of it has set: a flag, a type, a start or a media time;
\* nor an end, unless it was SetProperties with too few fields that made it valid.
NothingInherited == lent => /\ m_dwFlags \cap Plain \subseteq given /\ m_pMediaType \in {0, use}
                            /\ "TimeValid" \in m_dwFlags => m_Start = use
                            /\ "MediaTimeValid" \in m_dwFlags => m_Media = use
                            /\ "StopValid" \in m_dwFlags /\ ~partial => m_End = use

\* SetActualDataLength: no more data than the buffer has room for, unless SetProperties got a length
\* without the size, when nothing is checked.
ActualFits == m_lActual <= cbBuffer \/ partial

\* What the next user of a sample can count on.
SampleHolds == TypeFlagged /\ CopiesOwned /\ NothingInherited /\ ActualFits
=============================================================================
