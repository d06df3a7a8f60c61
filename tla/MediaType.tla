------------------------------ MODULE MediaType ------------------------------
(***************************************************************************)
(* CMediaType and the functions on AM_MEDIA_TYPE (baseclasses/mtype.cpp):  *)
(* a type owns a block of memory with its format, and a reference to an    *)
(* object.  Memory may run out at any allocation.  A GUID is GUID_NULL or  *)
(* one other.                                                              *)
(***************************************************************************)
EXTENDS Naturals, Sequences, FiniteSets

CONSTANTS Objects,   \* of class CMediaType
          Blocks, FormatLengths, Byte, NULL, GUID, GUID_NULL

VARIABLES mt,     \* the types
          heap,   \* what each block holds, <<>> if it is free
          refs,   \* to the object, from types
          unpaid  \* history: CopyMediaType failed and left a pointer to the object

typeVars == <<mt, heap, refs, unpaid>>

InitMediaType == [majortype |-> GUID_NULL, subtype |-> GUID_NULL, formattype |-> GUID_NULL,
                  pbFormat |-> NULL, cbFormat |-> 0, pUnk |-> FALSE]

TypeInit == /\ mt = [t \in Objects |-> InitMediaType] /\ heap = [b \in Blocks |-> <<>>]
            /\ refs = 0 /\ unpaid = FALSE

\* CoTaskMemAlloc in heap h: a free block, or none though there may be one.
Allocated(h) == {NULL} \cup IF \E b \in Blocks : h[b] = <<>> THEN {CHOOSE b \in Blocks : h[b] = <<>>} ELSE {}

Format(t) == IF mt[t].cbFormat = 0 THEN <<>> ELSE SubSeq(heap[mt[t].pbFormat], 1, mt[t].cbFormat)

\* The heap without the format of type t, and a block filled.
Freed(t) == [b \in Blocks |-> IF mt[t].cbFormat # 0 /\ b = mt[t].pbFormat THEN <<>> ELSE heap[b]]
Filled(h, b, bytes) == [c \in Blocks |-> IF c = b THEN bytes ELSE h[c]]
Unk(t) == IF mt[t].pUnk THEN 1 ELSE 0

-----------------------------------------------------------------------------
\* FreeMediaType, when a type is destroyed, and its place taken by a new one.
FreeMediaType(t) == /\ mt' = [mt EXCEPT ![t] = InitMediaType] /\ heap' = Freed(t) /\ refs' = refs - Unk(t)
                    /\ UNCHANGED unpaid

\* The copy of type u, with its format in block b: without memory for it, no format.
CopyMediaType(u, b) == IF mt[u].cbFormat # 0 /\ b = NULL THEN [mt[u] EXCEPT !.cbFormat = 0, !.pbFormat = NULL]
                          ELSE [mt[u] EXCEPT !.pbFormat = IF mt[u].cbFormat = 0 THEN @ ELSE b]

Failed(u, b) == mt[u].cbFormat # 0 /\ b = NULL

\* A copy that fails has the pointer to the object as well, but took no reference.
CopyRefs(u, b) == IF Failed(u, b) THEN 0 ELSE Unk(u)

\* Set, and assignment: what the type had is freed first.
Set(t, u) ==
  /\ t # u
  /\ \E b \in Allocated(Freed(t)) :
       /\ mt' = [mt EXCEPT ![t] = CopyMediaType(u, b)]
       /\ heap' = IF mt[u].cbFormat = 0 \/ b = NULL THEN Freed(t) ELSE Filled(Freed(t), b, Format(u))
       /\ refs' = refs - Unk(t) + CopyRefs(u, b)
       /\ unpaid' = (unpaid \/ (Failed(u, b) /\ mt[u].pUnk))

\* CreateMediaType: a copy that fails is not returned at all.
CreateMediaType(t, u) == /\ t # u /\ mt[t] = InitMediaType /\ Set(t, u)
                         /\ mt'[t].cbFormat = mt[u].cbFormat

\* SetType, SetSubtype and SetFormatType.
SetGuids(t) == /\ \E g \in GUID : \/ mt' = [mt EXCEPT ![t].majortype = g]
                                  \/ mt' = [mt EXCEPT ![t].subtype = g]
                                  \/ mt' = [mt EXCEPT ![t].formattype = g]
               /\ UNCHANGED <<heap, refs, unpaid>>

\* Somebody puts an object into the type, with its reference.
SetUnk(t) == /\ ~mt[t].pUnk /\ mt' = [mt EXCEPT ![t].pUnk = TRUE] /\ refs' = refs + 1 /\ UNCHANGED <<heap, unpaid>>

-----------------------------------------------------------------------------
\* A block of the length there is already is used again; so is a longer one if there is no
\* memory, and keeps its length.
Reused(t, length, b) == mt[t].cbFormat = length \/ (b = NULL /\ length <= mt[t].cbFormat)

\* The bytes that follow the new ones, in a block that is longer.
After(t, length) == SubSeq(Format(t), length + 1, mt[t].cbFormat)

\* SetFormat: AllocFormatBuffer, and the bytes.
SetFormat(t) ==
  \E length \in FormatLengths, b \in Allocated(heap) : \E bytes \in [1..length -> Byte] :
    /\ \/ /\ Reused(t, length, b) /\ heap' = Filled(heap, mt[t].pbFormat, bytes \o After(t, length))
          /\ UNCHANGED mt
       \/ /\ ~Reused(t, length, b) /\ b # NULL /\ heap' = Filled(Freed(t), b, bytes)
          /\ mt' = [mt EXCEPT ![t].cbFormat = length, ![t].pbFormat = b]
    /\ UNCHANGED <<refs, unpaid>>

\* Mutant: the old block is kept when a shorter one is made.
Replaced_Longer(t, length) == IF length < mt[t].cbFormat THEN heap ELSE Freed(t)

Replaced(t, length) == Freed(t)

\* The format is kept as far as it fits; what follows is whatever was in the memory.
ReallocFormatBuffer(t) ==
  \E length \in FormatLengths, b \in Allocated(heap) \ {NULL} : \E bytes \in [1..length -> Byte] :
    /\ ~Reused(t, length, b)
    /\ \A i \in 1..length : i <= mt[t].cbFormat => bytes[i] = Format(t)[i]
    /\ heap' = Filled(Replaced(t, length), b, bytes)
    /\ mt' = [mt EXCEPT ![t].cbFormat = length, ![t].pbFormat = b]
    /\ UNCHANGED <<refs, unpaid>>

ResetFormatBuffer(t) == /\ heap' = Freed(t) /\ mt' = [mt EXCEPT ![t].cbFormat = 0, ![t].pbFormat = NULL]
                        /\ UNCHANGED <<refs, unpaid>>

\* A behaviour ends where a copy has failed and left a pointer: the next release would be one too many.
TypeNext == ~unpaid /\ \E t \in Objects : \/ FreeMediaType(t) \/ SetGuids(t) \/ SetUnk(t)
                                             \/ SetFormat(t) \/ ReallocFormatBuffer(t) \/ ResetFormatBuffer(t)
                                             \/ \E u \in Objects : Set(t, u) \/ CreateMediaType(t, u)

-----------------------------------------------------------------------------
\* operator ==
Equal(t, u) == /\ mt[t].majortype = mt[u].majortype /\ mt[t].subtype = mt[u].subtype
               /\ mt[t].formattype = mt[u].formattype /\ Format(t) = Format(u)

IsPartiallySpecified(u) == mt[u].majortype = GUID_NULL \/ mt[u].formattype = GUID_NULL

MatchesPartial(t, u) ==
  /\ mt[u].majortype # GUID_NULL => mt[t].majortype = mt[u].majortype
  /\ mt[u].subtype # GUID_NULL => mt[t].subtype = mt[u].subtype
  /\ mt[u].formattype # GUID_NULL => mt[t].formattype = mt[u].formattype /\ Format(t) = Format(u)

\* A format belongs to one type, which knows its length; no format is lost, whichever
\* allocation fails.
FormatsOwned == /\ \A b \in Blocks : heap[b] # <<>> =>
                     Cardinality({t \in Objects : mt[t].cbFormat # 0 /\ mt[t].pbFormat = b}) = 1
                /\ \A t \in Objects : mt[t].cbFormat # 0 => Len(heap[mt[t].pbFormat]) = mt[t].cbFormat

\* As many references as pointers to the object, unless a copy has failed: its target has a pointer
\* that CopyMediaType took no reference for, and FreeMediaType will release one.
UnkCounted == ~unpaid => refs = Cardinality({t \in Objects : mt[t].pUnk})

\* As a constraint on a connection a type that has no GUID_NULL in it admits only its equals, and any
\* type admits those.  (One whose subtype alone is GUID_NULL does not count as partially specified.)
MatchesEquals == \A t, u \in Objects :
                   /\ Equal(t, u) => MatchesPartial(t, u)
                   /\ MatchesPartial(t, u) /\ ~IsPartiallySpecified(u) =>
                        Equal(t, u) \/ mt[u].subtype = GUID_NULL

\* What the functions on media types keep between them, whichever allocation fails.
TypesHold == FormatsOwned /\ UnkCounted /\ MatchesEquals
=============================================================================
