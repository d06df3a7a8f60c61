---------------------------- MODULE Enumerators ----------------------------
(***************************************************************************)
(* CEnumPins and CEnumMediaTypes (baseclasses/amfilter.cpp): clients walk  *)
(* the pins of a filter, or the media types of a pin, while both change.   *)
(* The enumerators take no lock, so the filter's list may be ahead of its  *)
(* version number: GetPinVersion moves in a step of its own.               *)
(*                                                                         *)
(* A pin is known to an enumerator by its address, which a later pin may   *)
(* get again; made[a] counts the pins that have lived at address a.        *)
(***************************************************************************)
EXTENDS Integers, Sequences, FiniteSets

CONSTANTS Addr, Enums, MaxPins, MaxVersion, TypeCounts, MaxSkip

VARIABLES pins,             \* what GetPin returns: addresses, in order
          made, m_PinVersion,
          changed,          \* the list is ahead of m_PinVersion
          enum,             \* CEnumPins, by enumerator
          types,            \* how many media types GetMediaType has
          listed,           \* history: of which version they are
          m_TypeVersion,
          tenum             \* CEnumMediaTypes, by enumerator

filterVars   == <<pins, made, m_PinVersion, changed>>
pinVars      == <<types, listed, m_TypeVersion>>
pinEnumVars  == <<filterVars, enum>>
typeEnumVars == <<pinVars, tenum>>

\* at, left and batch are where a call is: between its reads of the version and of
\* the count, or walking, with so many pins to find and those found so far.
\* got, twice, excused and atEnd are history: the pins returned since Reset,
\* whether one was returned twice, the pins passed over on purpose or lost by a
\* failed Next, and whether the last Next came to the end of the list.
NewEnum ==
  [live |-> TRUE, at |-> "count", left |-> 0, batch |-> {},
   pos |-> 0, count |-> 0, ver |-> m_PinVersion, cache |-> {},
   got |-> {}, twice |-> FALSE, excused |-> {}, atEnd |-> FALSE]
Dead  == [live |-> FALSE]

\* left is what the call still has to find.  got and excused are history: the types
\* returned since Reset, and those skipped or lost for want of memory.
NewTypes == [live |-> TRUE, left |-> 0, pos |-> 0, ver |-> m_TypeVersion,
             got |-> {}, excused |-> {}]

EnumInit ==
  /\ pins = <<>> /\ made = [a \in Addr |-> 0] /\ m_PinVersion = 1 /\ changed = FALSE
  /\ enum = [e \in Enums |-> Dead]
  /\ types \in TypeCounts /\ listed = 1 /\ m_TypeVersion = 1
  /\ tenum = [e \in Enums |-> Dead]

Pin(a) == <<a, made[a]>>
Present == {Pin(pins[k]) : k \in DOMAIN pins}

-----------------------------------------------------------------------------
(* The filter and the pin.                                                 *)

AddPin(a) ==
  /\ \A k \in DOMAIN pins : pins[k] # a
  /\ made[a] < MaxPins
  /\ pins' = Append(pins, a)
  /\ made' = [made EXCEPT ![a] = @ + 1]
  /\ changed' = TRUE
  /\ UNCHANGED <<m_PinVersion, enum, typeEnumVars>>

RemovePin(k) ==
  /\ k \in DOMAIN pins
  /\ pins' = SubSeq(pins, 1, k - 1) \o SubSeq(pins, k + 1, Len(pins))
  /\ changed' = TRUE
  /\ UNCHANGED <<made, m_PinVersion, enum, typeEnumVars>>

IncrementPinVersion ==
  /\ changed /\ m_PinVersion < MaxVersion
  /\ m_PinVersion' = m_PinVersion + 1
  /\ changed' = FALSE
  /\ UNCHANGED <<pins, made, enum, typeEnumVars>>

\* The pin has other types, and is to count its version up then.
ChangeTypes(n) ==
  /\ listed < MaxVersion
  /\ types' = n /\ listed' = listed + 1
  /\ UNCHANGED <<pinEnumVars, m_TypeVersion, tenum>>

IncrementTypeVersion ==
  /\ m_TypeVersion < listed
  /\ m_TypeVersion' = m_TypeVersion + 1
  /\ UNCHANGED <<pinEnumVars, types, listed, tenum>>

-----------------------------------------------------------------------------
(* CEnumPins.                                                              *)

Set(e, r) == enum' = [enum EXCEPT ![e] = r] /\ UNCHANGED <<filterVars, typeEnumVars>>

InStep(e) == enum[e].ver = m_PinVersion

\* A client makes one call at a time on its enumerator.
Free(e) == enum[e].live /\ enum[e].at = "idle"

\* Enumerators share nothing, so one at a time is watched.
EnumPins(e) == (\A f \in Enums : ~enum[f].live) /\ Set(e, NewEnum)

\* A copy in the same place; the client goes on with it and lets the original go.
Clone(e, f) ==
  /\ e # f /\ Free(e) /\ InStep(e)
  /\ enum' = [enum EXCEPT ![f] = enum[e], ![e] = Dead]
  /\ UNCHANGED <<filterVars, typeEnumVars>>

Release(e) == Free(e) /\ Set(e, Dead)

Reset(e) == Free(e) /\ Set(e, NewEnum)

\* The second read of the constructor, Reset and Refresh.
GetPinCount(e) ==
  LET r == enum[e]
  IN  /\ r.live /\ r.at = "count"
      /\ Set(e, [r EXCEPT !.count = Len(pins), !.at = IF r.left > 0 THEN "walk" ELSE "idle"])

\* Mutant: the count of pins is not taken again.
Refresh_KeepCount(r) == [r EXCEPT !.pos = 0, !.ver = m_PinVersion, !.at = "walk"]

\* Back to the head of the list, the pins already returned stay in the cache.
Refresh(r) == [r EXCEPT !.pos = 0, !.ver = m_PinVersion, !.at = "count"]

\* Next of n pins.
NextPins(e, n) ==
  LET r == [enum[e] EXCEPT !.left = n]
  IN  Free(e) /\ Set(e, IF InStep(e) THEN [r EXCEPT !.at = "walk"] ELSE Refresh(r))

\* A place of the list.  A pin in the cache is passed over; a place without pin ends
\* the call with an error, and the pins found so far are lost with it.
GetPin(e) ==
  LET r == enum[e]
      a == pins[r.pos + 1]
  IN  /\ r.live /\ r.at = "walk" /\ r.left > 0 /\ r.pos < r.count
      /\ \/ /\ r.pos < Len(pins) /\ a \in r.cache
            /\ Set(e, [r EXCEPT !.pos = @ + 1])
         \/ /\ r.pos < Len(pins) /\ a \notin r.cache
            /\ Set(e, [r EXCEPT !.pos = @ + 1, !.left = @ - 1,
                                !.cache = @ \cup {a}, !.batch = @ \cup {Pin(a)},
                                !.twice = @ \/ Pin(a) \in r.got \cup r.batch])
         \/ /\ r.pos >= Len(pins)
            /\ Set(e, [r EXCEPT !.pos = @ + 1, !.left = 0, !.at = "idle",
                                !.batch = {}, !.excused = @ \cup r.batch, !.atEnd = FALSE])

\* Next returns what it has found.
NextReturns(e) ==
  LET r == enum[e]
  IN  /\ r.live /\ r.at = "walk" /\ (r.left = 0 \/ r.pos >= r.count)
      /\ Set(e, [r EXCEPT !.left = 0, !.at = "idle", !.batch = {}, !.got = @ \cup r.batch,
                          !.atEnd = r.left > 0])

\* Skipping does not go through the cache.
Skip(e, n) ==
  LET r == enum[e]
      over == {Pin(pins[k + 1]) : k \in {j \in r.pos..(r.pos + n - 1) : j < Len(pins)}}
  IN  /\ Free(e) /\ InStep(e)
      /\ n <= r.count - r.pos
      /\ Set(e, [r EXCEPT !.pos = @ + n, !.excused = @ \cup over, !.atEnd = FALSE])

-----------------------------------------------------------------------------
(* CEnumMediaTypes.  A type is its index and the version it belongs to.    *)

SetTypes(e, r) == tenum' = [tenum EXCEPT ![e] = r] /\ UNCHANGED <<pinEnumVars, pinVars>>

TypesInStep(e) == tenum[e].ver = m_TypeVersion
TypesFree(e)   == tenum[e].live /\ tenum[e].left = 0

EnumMediaTypes(e) == ~tenum[e].live /\ SetTypes(e, NewTypes)
CloneTypes(e, f)  == TypesFree(e) /\ TypesInStep(e) /\ ~tenum[f].live /\ SetTypes(f, tenum[e])
ReleaseTypes(e)   == TypesFree(e) /\ SetTypes(e, Dead)

ResetTypes(e) == TypesFree(e) /\ SetTypes(e, NewTypes)

\* Next of n types, once it has found itself in step.
NextTypes(e, n) ==
  /\ TypesFree(e) /\ TypesInStep(e) /\ tenum[e].pos + n <= MaxSkip
  /\ SetTypes(e, [tenum[e] EXCEPT !.left = n])

\* The position also passes a type that is not there, or for which there is no memory.
GetMediaType(e) ==
  LET r == tenum[e]
      t == <<listed, r.pos>>
  IN  /\ r.live /\ r.left > 0
      /\ \/ /\ r.pos < types
            /\ \/ SetTypes(e, [r EXCEPT !.pos = @ + 1, !.left = @ - 1, !.got = @ \cup {t}])
               \/ SetTypes(e, [r EXCEPT !.pos = @ + 1, !.left = 0, !.excused = @ \cup {t}])
         \/ /\ r.pos >= types
            /\ SetTypes(e, [r EXCEPT !.pos = @ + 1, !.left = 0])

\* Skip may go past the end, and then returns S_FALSE.
SkipTypes(e, n) ==
  LET r == tenum[e]
  IN  /\ TypesFree(e) /\ TypesInStep(e) /\ r.pos + n <= MaxSkip
      /\ SetTypes(e, [r EXCEPT !.pos = @ + n,
                               !.excused = @ \cup {<<listed, k>> : k \in {j \in r.pos..(r.pos + n - 1) : j < types}}])

PinEnumNext ==
  \/ \E a \in Addr : AddPin(a)
  \/ \E k \in 1..Cardinality(Addr) : RemovePin(k)
  \/ IncrementPinVersion
  \/ \E e \in Enums : EnumPins(e) \/ Release(e) \/ Reset(e) \/ GetPinCount(e) \/ GetPin(e) \/ NextReturns(e)
  \/ \E e, f \in Enums : Clone(e, f)
  \/ \E e \in Enums, n \in 1..2 : NextPins(e, n) \/ Skip(e, n)

TypeEnumNext ==
  \/ \E n \in TypeCounts : ChangeTypes(n)
  \/ IncrementTypeVersion
  \/ \E e \in Enums : EnumMediaTypes(e) \/ ReleaseTypes(e) \/ ResetTypes(e) \/ GetMediaType(e)
  \/ \E e, f \in Enums : CloneTypes(e, f)
  \/ \E e \in Enums, n \in 1..2 : NextTypes(e, n) \/ SkipTypes(e, n)

-----------------------------------------------------------------------------
(* Properties.                                                             *)

\* No enumerator and no clone of one returns the same pin twice between two
\* Resets, however often the filter's pins change, also under its walk, and it
\* starts again from the head of the list (Refresh, m_PinCache).
NoPinTwice == \A e \in Enums : enum[e].live => ~enum[e].twice

\* When Next has come to the end and the filter has not changed since, every
\* pin of the filter was returned, apart from those skipped, those lost by a
\* Next that failed, and those that live where a returned pin lived before:
\* the cache holds addresses, and no references (m_PinCache.Find).
EndMeansAll ==
  \A e \in Enums :
    enum[e].live /\ enum[e].atEnd /\ enum[e].at = "idle" /\ InStep(e) /\ ~changed =>
      \A q \in Present : \/ q \in enum[e].got \cup enum[e].excused
                         \/ \E i \in 1..(q[2] - 1) : <<q[1], i>> \in enum[e].got \cup enum[e].excused

\* An enumerator that is in step with a pin that has counted its version up has not
\* mixed the types of two versions, though list and version change under the loop of
\* Next, which takes no lock: what it has returned since Reset, and what was skipped
\* or lost, are the types of the pin up to its position (AreWeOutOfSync).
TypesOfOneVersion ==
  \A e \in Enums : tenum[e].live /\ TypesInStep(e) /\ listed = m_TypeVersion =>
    tenum[e].got \cup tenum[e].excused = {<<listed, k>> : k \in {j \in 0..(tenum[e].pos - 1) : j < types}}

\* What a client of the two enumerators can count on while the filter changes.
EnumerationExact == NoPinTwice /\ EndMeansAll /\ TypesOfOneVersion
=============================================================================
