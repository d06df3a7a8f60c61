--------------------------- MODULE FiltersProofs ---------------------------
(* TLAPS proofs about MCFilters: transform filters, in-place filters, the  *)
(* registration, media samples and media types; for any number of buffers, *)
(* flushes, connections, uses and media types.                             *)
EXTENDS MCFilters, FiniteSetTheorems, SequenceTheorems, TLAPS

(* The transform filter.                                                    *)

TrTypes ==
  /\ m_State \in {"Stopped", "Paused", "Running"}
  /\ m_csFilter \in {Nobody, "app", "flush"} /\ m_csReceive \in {Nobody, "stream"}
  /\ spc \in {"idle", "init", "transform", "deliver", "eos"}
  /\ apc \in {"idle", "stopping", "starting"}
  /\ fpc \in {"idle", "begin", "begun", "synchronize", "reset"}
  /\ gen \in Nat /\ sgen \in Nat /\ eosSent \in Nat

TrFlags ==
  /\ video \in BOOLEAN /\ inConn \in BOOLEAN /\ outConn \in BOOLEAN
  /\ m_bFlushing \in BOOLEAN /\ m_bEOSDelivered \in BOOLEAN

\* Who has which lock, and what the application's steps rely on.
TrLocks ==
  /\ spc # "idle" <=> m_csReceive = "stream"
  /\ fpc \in {"synchronize", "reset"} => m_csFilter = "flush"
  /\ apc # "idle" => m_csFilter = "app" /\ inConn /\ outConn
  /\ apc = "starting" => m_State = "Stopped"

\* When a flush ends nothing is in the filter, and nothing came in since it began.
FlushInv ==
  /\ fpc \in {"begun", "synchronize", "reset"} => m_bFlushing
  /\ fpc = "reset" \/ (fpc = "synchronize" /\ ~video) => spc = "idle"
  /\ spc # "idle" => sgen = gen

EosInv ==
  /\ m_State = "Stopped" => ~m_bEOSDelivered /\ eosSent = 0
  /\ m_State # "Stopped" => (m_bEOSDelivered <=> ~inConn)
  /\ m_State # "Stopped" /\ ~inConn /\ outConn => eosSent = 1

TrInv == TrTypes /\ TrFlags /\ TrLocks /\ FlushInv /\ EosInv

-----------------------------------------------------------------------------
(* The in-place filter.                                                     *)

BothIn == type["in"] # None /\ type["out"] # None

InPlaceTypes ==
  /\ type \in [{"in", "out"} -> Types \cup {None}]
  /\ m_pAllocator \in [{"in", "out"} -> P!Allocators \cup {None}]
  /\ pending \in Seq({"in", "out"} \X Types)
  /\ npc \in {"idle", "typed", "asked"}

InPlaceFlags == m_bModifiesData \in BOOLEAN /\ m_bReadOnly \in BOOLEAN /\ running \in BOOLEAN

\* The pins' allocators are as Receive needs them.
AllocatorsAgreed ==
  /\ told = m_pAllocator["out"]
  /\ m_bReadOnly /\ m_bModifiesData => m_pAllocator["in"] # m_pAllocator["out"]
  /\ m_pAllocator["in"] # m_pAllocator["out"] => size[m_pAllocator["out"]] >= size[m_pAllocator["in"]]

\* Whatever is not agreed will be: the graph has still to reconnect the input pin, or some pin.
AgreedOrPending ==
  /\ npc = "idle" /\ BothIn => AllocatorsAgreed \/ \E i \in 1..Len(pending) : pending[i][1] = "in"
  /\ BothIn => type["in"] = type["out"] \/ pending # <<>>

RunningInv == running => npc = "idle" /\ pending = <<>> /\ BothIn

Unspoiled == spoiled = FALSE /\ strange = FALSE

InPlaceInv == InPlaceTypes /\ InPlaceFlags /\ AgreedOrPending /\ RunningInv /\ Unspoiled

-----------------------------------------------------------------------------
(* The registration.                                                        *)

\* What a registration has written, and what an unregistration has deleted.
WrittenInv ==
  /\ com # {} => "key" \in com
  /\ step = "module" => written = 0
  /\ step = "write" => reg /\ written < 5
  /\ step = "write" => \A i \in 1..written : R!Writes[i] \in com
  /\ reg /\ step \in {"mapper", "unlist", "list", "mapperAgain", "unlistDefault", "unlistAudio",
                      "listAudio"} => com = R!Server
  /\ step \in {"list", "listAudio"} => reg
  /\ step \in {"open", "subkey", "delete"} => ~reg
  /\ ~reg /\ step \in {"mapperAgain", "unlistDefault", "unlistAudio"} /\ denied = {} => com = {}

ListedInv ==
  /\ "legacy" \in listed => fellBack
  /\ reg /\ ~mapper2 /\ step \in {"unlist", "list"} => fellBack
  /\ step \in {"unlistAudio", "listAudio"} => "default" \notin listed
  /\ step = "listAudio" => "audio" \notin listed
  /\ ~reg /\ step # "idle" => torn
  /\ result = "ok" => step = "idle"

RegInv == RegistrationHolds /\ WrittenInv /\ ListedInv

-----------------------------------------------------------------------------
(* The media sample.                                                        *)

SampleTypes == use \in Nat /\ m_pMediaType \in Nat /\ m_lActual \in Nat /\ (lent => use # 0)

SampleInv ==
  /\ SampleTypes /\ SampleHolds
  /\ lent \in BOOLEAN /\ partial \in BOOLEAN
  /\ ~lent => m_dwFlags = {}

-----------------------------------------------------------------------------
(* The media types.                                                         *)

MediaTypes == [majortype : GUID \cup {GUID_NULL}, subtype : GUID \cup {GUID_NULL},
               formattype : GUID \cup {GUID_NULL}, pbFormat : Blocks \cup {None}, cbFormat : Nat,
               pUnk : BOOLEAN]

Owns(t, b) == mt[t].cbFormat # 0 /\ mt[t].pbFormat = b

\* A block that is in use has one owner, who knows its length.
OwnedOnce ==
  /\ \A t \in Objects : mt[t].cbFormat # 0 =>
       mt[t].pbFormat \in Blocks /\ Len(heap[mt[t].pbFormat]) = mt[t].cbFormat
  /\ \A t, u \in Objects : mt[t].cbFormat # 0 /\ mt[u].cbFormat # 0 /\ mt[t].pbFormat = mt[u].pbFormat => t = u
  /\ \A b \in Blocks : heap[b] # <<>> => \E t \in Objects : Owns(t, b)

\* The types that point to the object.
Pointers == {t \in Objects : mt[t].pUnk}

TypeShape == mt \in [Objects -> MediaTypes] /\ heap \in [Blocks -> Seq(Byte)] /\ OwnedOnce

TypeInv ==
  /\ TypeShape /\ unpaid \in BOOLEAN
  /\ ~unpaid => refs = Cardinality(Pointers)

IInv == TrInv /\ InPlaceInv /\ RegInv /\ SampleInv /\ TypeInv

-----------------------------------------------------------------------------
(* The transform filter's steps.                                            *)

LEMMA TrStart == T!TrInit => TrInv
<1> SUFFICES ASSUME T!TrInit PROVE TrInv
  OBVIOUS
<1>1. TrTypes /\ TrLocks /\ FlushInv
  BY FiltersAssumption DEF T!TrInit, TrTypes, TrLocks, FlushInv
<1>2. TrFlags
  BY Zenon DEF T!TrInit, TrFlags
<1>3. EosInv
  BY DEF T!TrInit, EosInv
<1> QED
  BY <1>1, <1>2, <1>3 DEF TrInv

LEMMA TrStep == TrInv /\ T!TrNext => TrInv'
<1> SUFFICES ASSUME TrInv, T!TrNext PROVE TrInv'
  OBVIOUS
<1> USE FiltersAssumption
<1> USE DEF TrInv, TrTypes, TrFlags, TrLocks, FlushInv, EosInv
<1>1. CASE T!Connect
  BY <1>1 DEF T!Connect, T!locks, T!eos, T!buffers, T!down
<1>2. CASE T!Receive
  BY <1>2 DEF T!Receive, T!CheckStreaming, T!Stream, T!graph, T!eos, T!down
<1>3. CASE T!EndOfStream
  BY <1>3 DEF T!EndOfStream, T!CheckStreaming, T!Stream, T!graph, T!eos, T!down
<1>4. CASE T!ShouldSkip
  BY <1>4 DEF T!ShouldSkip, T!Stream, T!graph, T!eos, T!down
<1>5. CASE T!DeliverEndOfStream
  BY <1>5 DEF T!DeliverEndOfStream, T!Stream, T!graph, T!eos, T!down
<1>6. CASE T!InitializeOutputSample
  BY <1>6 DEF T!InitializeOutputSample, T!Stream, T!graph, T!eos, T!down
<1>7. CASE T!Transformed
  BY <1>7 DEF T!Transformed, T!Stream, T!graph, T!eos, T!down
<1>8. CASE T!Deliver
  BY <1>8 DEF T!Deliver, T!Stream, T!graph, T!eos, T!down
<1>9. CASE T!Seek
  BY <1>9 DEF T!Seek, T!Flusher, T!graph, T!eos, T!locks
<1>10. CASE T!BeginFlush
  BY <1>10 DEF T!BeginFlush, T!Flusher, T!graph, T!eos, T!locks
<1>11. CASE T!EndFlush
  BY <1>11 DEF T!EndFlush, T!Flusher, T!graph, T!eos
<1>12. CASE T!Synchronize
  BY <1>12 DEF T!Synchronize, T!Flusher, T!graph, T!eos
<1>13. CASE T!DeliverEndFlush
  <2>1. TrFlags'
    BY <1>13, Zenon DEF T!DeliverEndFlush, T!Flusher, T!graph, T!eos
  <2>2. TrTypes' /\ TrLocks' /\ FlushInv'
    BY <1>13 DEF T!DeliverEndFlush, T!Flusher, T!graph, T!eos
  <2>3. EosInv'
    BY <1>13 DEF T!DeliverEndFlush, T!Flusher, T!graph, T!eos
  <2> QED
    BY <2>1, <2>2, <2>3
<1>14. CASE T!Stop
  <2>1. TrFlags'
    BY <1>14, Zenon DEF T!Stop, T!App, T!BothConnected, T!graph, T!eos, T!locks, T!down
  <2>2. TrTypes' /\ TrLocks' /\ FlushInv'
    BY <1>14 DEF T!Stop, T!App, T!BothConnected, T!graph, T!eos, T!locks, T!down
  <2>3. EosInv'
    BY <1>14 DEF T!Stop, T!App, T!BothConnected, T!graph, T!eos, T!locks, T!down
  <2> QED
    BY <2>1, <2>2, <2>3
<1>15. CASE T!StopStreaming
  <2>1. TrFlags'
    BY <1>15, Zenon DEF T!StopStreaming, T!App, T!graph, T!down
  <2>2. TrTypes' /\ TrLocks' /\ FlushInv'
    BY <1>15 DEF T!StopStreaming, T!App, T!graph, T!down
  <2>3. EosInv'
    BY <1>15 DEF T!StopStreaming, T!App, T!graph, T!down
  <2> QED
    BY <2>1, <2>2, <2>3
<1>16. CASE T!Pause
  <2>1. TrFlags'
    BY <1>16, Zenon DEF T!Pause, T!App, T!BothConnected, T!graph, T!eos, T!locks, T!down
  <2>2. TrTypes' /\ TrLocks' /\ FlushInv'
    BY <1>16 DEF T!Pause, T!App, T!BothConnected, T!graph, T!eos, T!locks, T!down
  <2>3. EosInv'
    <3>1. CASE m_State = "Stopped" /\ T!BothConnected
      BY <1>16, <3>1 DEF T!Pause, T!App, T!BothConnected, T!graph, T!eos, T!locks, T!down
    <3>2. CASE ~(m_State = "Stopped" /\ T!BothConnected)
      <4>1. inConn' = inConn /\ outConn' = outConn /\ m_State' = "Paused"
        BY <1>16, <3>2 DEF T!Pause, T!App, T!graph
      <4>2. m_bEOSDelivered' <=> ~inConn
        BY <1>16, <3>2, Zenon DEF T!Pause
      <4>3. ~inConn /\ outConn => eosSent' = 1
        BY <1>16, <3>2 DEF T!Pause
      <4> QED
        BY <4>1, <4>2, <4>3
    <3> QED
      BY <3>1, <3>2
  <2> QED
    BY <2>1, <2>2, <2>3
<1>17. CASE T!StartStreaming
  BY <1>17 DEF T!StartStreaming, T!App, T!graph, T!eos, T!down
<1>18. CASE T!Run
  BY <1>18 DEF T!Run, T!App, T!graph, T!eos, T!locks, T!down
<1>19. CASE T!DownChanges
  BY <1>19 DEF T!DownChanges, T!Renderer, T!graph, T!eos, T!locks
<1>20. CASE T!Consume
  BY <1>20 DEF T!Consume, T!Renderer, T!graph, T!eos, T!locks
<1> QED
  BY <1>1, <1>2, <1>3, <1>4, <1>5, <1>6, <1>7, <1>8, <1>9, <1>10, <1>11, <1>12, <1>13, <1>14, <1>15, <1>16, <1>17, <1>18, <1>19, <1>20 DEF T!TrNext, T!StreamStep

LEMMA TrKept == TrInv /\ UNCHANGED trVars => TrInv'
BY DEF trVars, TrInv, TrTypes, TrFlags, TrLocks, FlushInv, EosInv

LEMMA TrHolds == TrInv => StreamHolds
BY DEF TrInv, FlushInv, EosInv, StreamHolds, T!StreamHolds, T!NothingBeforeFlush, T!EosWithoutInput

-----------------------------------------------------------------------------
(* The registration's steps.                                                *)

LEMMA ServerWrites ==
  /\ R!Server = {"key", "description", "InprocServer32", "path", "ThreadingModel"}
  /\ R!Writes[1] = "key" /\ Len(R!Writes) = 5
  /\ \A i \in 1..5 : R!Writes[i] \in R!Server
  /\ \A x \in R!Server : \E i \in 1..5 : R!Writes[i] = x
BY DEF R!Server, R!Writes

\* The types and flags of the registration; what is left says how they go together.
RegTypes == com \subseteq R!Server /\ listed \subseteq R!Categories /\ denied \subseteq R!Refusals
            /\ step \in R!Steps /\ written \in 0..5 /\ result \in {"none", "ok", "failed", "killed"}
RegFlags == mapper2 \in BOOLEAN /\ reg \in BOOLEAN /\ torn \in BOOLEAN /\ fellBack \in BOOLEAN
RegRest  == R!SuccessIsExact /\ R!ListedHasServer /\ WrittenInv /\ ListedInv

LEMMA RegParts == RegInv <=> RegTypes /\ RegFlags /\ RegRest
BY ServerWrites DEF RegInv, RegistrationHolds, R!RegistrationHolds, R!TypeOK, RegTypes, RegFlags, RegRest

LEMMA RegPartsNext == RegInv' <=> RegTypes' /\ RegFlags' /\ RegRest'
BY ServerWrites, RegParts, PTL

LEMMA RegStart == R!Init => RegInv
<1> SUFFICES ASSUME R!Init PROVE RegInv
  OBVIOUS
<1>1. RegTypes
  BY DEF R!Init, RegTypes, R!Steps
<1>2. RegFlags
  BY Zenon DEF R!Init, RegFlags
<1>3. RegRest
  BY DEF R!Init, RegRest, R!SuccessIsExact, R!Shown, R!ListedHasServer, WrittenInv, ListedInv
<1> QED
  BY <1>1, <1>2, <1>3, RegParts

LEMMA RegFlagsStep == RegFlags /\ R!Next => RegFlags'
<1> SUFFICES ASSUME RegFlags, R!Next PROVE RegFlags'
  OBVIOUS
<1> USE DEF RegFlags
<1>1. ASSUME NEW r \in BOOLEAN, R!Call(r) PROVE RegFlags'
  BY <1>1, Zenon DEF R!Call, R!system, R!mapper
<1>2. CASE R!GetModuleFileName
  BY <1>2, Zenon DEF R!GetModuleFileName, R!Return, R!Fail, R!Goto, R!system, R!mapper
<1>3. CASE R!AMovieSetupRegisterServer
  BY <1>3, Zenon DEF R!AMovieSetupRegisterServer, R!Return, R!Fail, R!Goto, R!system, R!mapper
<1>4. CASE R!CreateMapper
  BY <1>4, Zenon DEF R!CreateMapper, R!Return, R!Fail, R!Goto, R!system, R!mapper
<1>5. CASE R!SetupUnlist
  BY <1>5, Zenon DEF R!SetupUnlist, R!Return, R!Fail, R!Goto, R!system, R!mapper
<1>6. CASE R!SetupList
  BY <1>6, Zenon DEF R!SetupList, R!Return, R!Fail, R!Goto, R!system, R!mapper
<1>7. CASE R!OpenKey
  BY <1>7, Zenon DEF R!OpenKey, R!Return, R!Fail, R!Goto, R!system, R!mapper
<1>8. CASE R!EliminateSubKey
  BY <1>8, Zenon DEF R!EliminateSubKey, R!Return, R!Fail, R!Goto, R!system, R!mapper
<1>9. CASE R!DeleteKey
  BY <1>9, Zenon DEF R!DeleteKey, R!Return, R!Fail, R!Goto, R!system, R!mapper
<1>10. CASE R!CreateMapperAgain
  BY <1>10, Zenon DEF R!CreateMapperAgain, R!Return, R!Fail, R!Goto, R!system, R!mapper
<1>11. CASE R!UnlistDefault
  BY <1>11, Zenon DEF R!UnlistDefault, R!Return, R!Fail, R!Goto, R!system, R!mapper
<1>12. CASE R!UnlistAudio
  BY <1>12, Zenon DEF R!UnlistAudio, R!Return, R!Fail, R!Goto, R!system, R!mapper
<1>13. CASE R!ListAudio
  BY <1>13, Zenon DEF R!ListAudio, R!Return, R!Fail, R!Goto, R!system, R!mapper
<1>14. CASE R!Killed
  BY <1>14, Zenon DEF R!Killed, R!system, R!mapper
<1> QED
  BY <1>1, <1>2, <1>3, <1>4, <1>5, <1>6, <1>7, <1>8, <1>9, <1>10, <1>11, <1>12, <1>13, <1>14 DEF R!Next, R!SystemCall

LEMMA RegStep == RegInv /\ R!Next => RegInv'
<1> SUFFICES ASSUME RegInv, R!Next PROVE RegTypes' /\ RegRest'
  BY RegParts, RegPartsNext, RegFlagsStep
<1>0. RegTypes /\ RegFlags /\ RegRest
  BY RegParts
<1>a. com \subseteq R!Server /\ listed \subseteq R!Categories /\ denied \subseteq R!Refusals
  BY <1>0 DEF RegTypes
<1>b. step \in R!Steps /\ written \in 0..5 /\ result \in {"none", "ok", "failed", "killed"}
  BY <1>0 DEF RegTypes
<1>c. R!SuccessIsExact /\ R!ListedHasServer /\ WrittenInv /\ ListedInv
  BY <1>0 DEF RegRest
<1>d. mapper2 \in BOOLEAN /\ reg \in BOOLEAN /\ torn \in BOOLEAN /\ fellBack \in BOOLEAN
  BY <1>0 DEF RegFlags
<1>1. ASSUME NEW r \in BOOLEAN, R!Call(r) PROVE RegTypes' /\ RegRest'
  <2>1. (com \subseteq R!Server /\ listed \subseteq R!Categories /\ denied \subseteq R!Refusals)'
    BY <1>1, <1>a, ServerWrites DEF R!Categories, R!Call, R!system, R!mapper
  <2>2. step' \in R!Steps /\ (written \in 0..5)'
    BY <1>1, <1>b DEF R!Steps, R!Call, R!system, R!mapper
  <2>3. (result \in {"none", "ok", "failed", "killed"})'
    BY <1>1, <1>b DEF R!Call, R!system, R!mapper
  <2>4. R!SuccessIsExact'
    BY <1>1, <1>a, <1>c, <1>d DEF R!SuccessIsExact, R!Shown, WrittenInv, ListedInv, R!Categories, R!Call, R!system, R!mapper
  <2>5. R!ListedHasServer'
    BY <1>1, <1>a, <1>c, <1>d DEF R!ListedHasServer, R!Shown, WrittenInv, ListedInv, R!Call, R!system, R!mapper
  <2>6. WrittenInv'
    BY <1>1, <1>a, <1>b, <1>c, <1>d, ServerWrites DEF WrittenInv, R!Call, R!system, R!mapper
  <2>7. ListedInv'
    BY <1>1, <1>c, <1>d DEF ListedInv, R!Call, R!system, R!mapper
  <2> QED
    BY <2>1, <2>2, <2>3, <2>4, <2>5, <2>6, <2>7 DEF RegTypes, RegRest
<1>2. CASE R!GetModuleFileName
  <2>1. (com \subseteq R!Server /\ listed \subseteq R!Categories /\ denied \subseteq R!Refusals)'
    BY <1>2, <1>a, ServerWrites DEF R!Categories, R!GetModuleFileName, R!Return, R!Fail, R!Goto, R!system, R!mapper
  <2>2. step' \in R!Steps /\ (written \in 0..5)'
    BY <1>2, <1>b DEF R!Steps, R!GetModuleFileName, R!Return, R!Fail, R!Goto, R!system, R!mapper
  <2>3. (result \in {"none", "ok", "failed", "killed"})'
    BY <1>2, <1>b DEF R!GetModuleFileName, R!Return, R!Fail, R!Goto, R!system, R!mapper
  <2>4. R!SuccessIsExact'
    BY <1>2, <1>a, <1>c, <1>d DEF R!SuccessIsExact, R!Shown, WrittenInv, ListedInv, R!Categories, R!GetModuleFileName, R!Return, R!Fail, R!Goto, R!system, R!mapper
  <2>5. R!ListedHasServer'
    BY <1>2, <1>a, <1>c, <1>d DEF R!ListedHasServer, R!Shown, WrittenInv, ListedInv, R!GetModuleFileName, R!Return, R!Fail, R!Goto, R!system, R!mapper
  <2>6. WrittenInv'
    BY <1>2, <1>a, <1>b, <1>c, <1>d, ServerWrites DEF WrittenInv, R!GetModuleFileName, R!Return, R!Fail, R!Goto, R!system, R!mapper
  <2>7. ListedInv'
    BY <1>2, <1>c, <1>d DEF ListedInv, R!GetModuleFileName, R!Return, R!Fail, R!Goto, R!system, R!mapper
  <2> QED
    BY <2>1, <2>2, <2>3, <2>4, <2>5, <2>6, <2>7 DEF RegTypes, RegRest
<1>3. CASE R!AMovieSetupRegisterServer
  <2>1. CASE R!Fail
    <3>1. RegTypes'
      BY <2>1, <1>a, <1>b DEF R!Fail, R!Return, R!system, R!mapper, RegTypes, R!Steps
    <3>2. RegRest'
      BY <2>1, <1>c DEF R!Fail, R!Return, R!system, R!mapper, RegRest, R!SuccessIsExact, R!Shown, R!ListedHasServer, WrittenInv, ListedInv
    <3> QED
      BY <3>1, <3>2
  <2>2. CASE ~R!Fail
    <3>1. PICK w : w = written + 1
      OBVIOUS
    <3>2. /\ step = "write" /\ com' = com \cup {R!Writes[w]} /\ written' = w
          /\ step' = IF w = 5 THEN "mapper" ELSE "write"
          /\ UNCHANGED <<listed, mapper2, fellBack, denied, reg, result>>
      BY <1>3, <2>2, <3>1, ServerWrites DEF R!AMovieSetupRegisterServer, R!system, R!mapper
    <3>3. torn' <=> (torn /\ step' = "write")
      BY <1>3, <2>2, Zenon DEF R!AMovieSetupRegisterServer
    <3>4. w \in 1..5 /\ reg /\ result # "ok"
      BY <3>1, <3>2, <1>b, <1>c DEF WrittenInv, ListedInv
    <3>5. com' \subseteq R!Server /\ "key" \in com'
      <4>1. \A i \in 1..5 : R!Writes[i] \in R!Server
        BY ServerWrites
      <4>2. R!Writes[w] \in R!Server
        BY <4>1, <3>4
      <4>3. com # {} => "key" \in com
        BY <1>c DEF WrittenInv
      <4>4. com = {} => w = 1
        BY <3>1, <3>2, <1>b, <1>c DEF WrittenInv
      <4> QED
        BY <4>2, <4>3, <4>4, <3>2, <1>a, ServerWrites
    <3>6. \A i \in 1..w : R!Writes[i] \in com'
      BY <3>1, <3>2, <1>b, <1>c DEF WrittenInv
    <3>7. w = 5 => com' = R!Server
      <4>1. \A x \in R!Server : \E i \in 1..5 : R!Writes[i] = x
        BY ServerWrites
      <4>2. ASSUME w = 5, NEW x \in R!Server PROVE x \in com'
        BY <4>1, <4>2, <3>6
      <4> QED
        BY <4>2, <3>5
    <3>8. RegTypes'
      BY <3>2, <3>4, <3>5, <1>a, <1>b DEF RegTypes, R!Steps
    <3>9. R!SuccessIsExact' /\ WrittenInv'
      BY <3>2, <3>4, <3>5, <3>6, <3>7 DEF R!SuccessIsExact, R!Shown, WrittenInv
    <3>10. R!ListedHasServer'
      <4>1. CASE w = 5
        BY <4>1, <3>7 DEF R!ListedHasServer, R!Shown
      <4>2. CASE w # 5
        <5>1. torn => torn'
          BY <4>2, <3>2, <3>3
        <5>2. com = R!Server => com' = R!Server
          BY <3>2, <3>5
        <5> QED
          BY <5>1, <5>2, <1>c, <3>2 DEF R!ListedHasServer, R!Shown
      <4> QED
        BY <4>1, <4>2
    <3>11. ListedInv'
      BY <3>2, <3>4, <1>c DEF ListedInv
    <3> QED
      BY <3>8, <3>9, <3>10, <3>11 DEF RegRest
  <2> QED
    BY <2>1, <2>2
<1>4. CASE R!CreateMapper
  <2>1. (com \subseteq R!Server /\ listed \subseteq R!Categories /\ denied \subseteq R!Refusals)'
    BY <1>4, <1>a, ServerWrites DEF R!Categories, R!CreateMapper, R!Return, R!Fail, R!Goto, R!system, R!mapper
  <2>2. step' \in R!Steps /\ (written \in 0..5)'
    BY <1>4, <1>b DEF R!Steps, R!CreateMapper, R!Return, R!Fail, R!Goto, R!system, R!mapper
  <2>3. (result \in {"none", "ok", "failed", "killed"})'
    BY <1>4, <1>b DEF R!CreateMapper, R!Return, R!Fail, R!Goto, R!system, R!mapper
  <2>4. R!SuccessIsExact'
    BY <1>4, <1>a, <1>c, <1>d DEF R!SuccessIsExact, R!Shown, WrittenInv, ListedInv, R!Categories, R!CreateMapper, R!Return, R!Fail, R!Goto, R!system, R!mapper
  <2>5. R!ListedHasServer'
    BY <1>4, <1>a, <1>c, <1>d DEF R!ListedHasServer, R!Shown, WrittenInv, ListedInv, R!CreateMapper, R!Return, R!Fail, R!Goto, R!system, R!mapper
  <2>6. WrittenInv'
    BY <1>4, <1>a, <1>b, <1>c, <1>d, ServerWrites DEF WrittenInv, R!CreateMapper, R!Return, R!Fail, R!Goto, R!system, R!mapper
  <2>7. ListedInv'
    BY <1>4, <1>c, <1>d DEF ListedInv, R!CreateMapper, R!Return, R!Fail, R!Goto, R!system, R!mapper
  <2> QED
    BY <2>1, <2>2, <2>3, <2>4, <2>5, <2>6, <2>7 DEF RegTypes, RegRest
<1>5. CASE R!SetupUnlist
  <2>1. (com \subseteq R!Server /\ listed \subseteq R!Categories /\ denied \subseteq R!Refusals)'
    BY <1>5, <1>a, ServerWrites DEF R!Categories, R!SetupUnlist, R!Return, R!Fail, R!Goto, R!system, R!mapper, R!SetupCategory
  <2>2. step' \in R!Steps /\ (written \in 0..5)'
    BY <1>5, <1>b DEF R!Steps, R!SetupUnlist, R!Return, R!Fail, R!Goto, R!system, R!mapper, R!SetupCategory
  <2>3. (result \in {"none", "ok", "failed", "killed"})'
    BY <1>5, <1>b DEF R!SetupUnlist, R!Return, R!Fail, R!Goto, R!system, R!mapper, R!SetupCategory
  <2>4. R!SuccessIsExact'
    BY <1>5, <1>a, <1>c, <1>d DEF R!SuccessIsExact, R!Shown, WrittenInv, ListedInv, R!Categories, R!SetupUnlist, R!Return, R!Fail, R!Goto, R!system, R!mapper, R!SetupCategory
  <2>5. R!ListedHasServer'
    BY <1>5, <1>a, <1>c, <1>d DEF R!ListedHasServer, R!Shown, WrittenInv, ListedInv, R!SetupUnlist, R!Return, R!Fail, R!Goto, R!system, R!mapper, R!SetupCategory
  <2>6. WrittenInv'
    BY <1>5, <1>a, <1>b, <1>c, <1>d, ServerWrites DEF WrittenInv, R!SetupUnlist, R!Return, R!Fail, R!Goto, R!system, R!mapper, R!SetupCategory
  <2>7. ListedInv'
    BY <1>5, <1>c, <1>d DEF ListedInv, R!SetupUnlist, R!Return, R!Fail, R!Goto, R!system, R!mapper, R!SetupCategory
  <2> QED
    BY <2>1, <2>2, <2>3, <2>4, <2>5, <2>6, <2>7 DEF RegTypes, RegRest
<1>6. CASE R!SetupList
  <2>1. (com \subseteq R!Server /\ listed \subseteq R!Categories /\ denied \subseteq R!Refusals)'
    BY <1>6, <1>a, ServerWrites DEF R!Categories, R!SetupList, R!Return, R!Fail, R!Goto, R!system, R!mapper, R!SetupCategory
  <2>2. step' \in R!Steps /\ (written \in 0..5)'
    BY <1>6, <1>b DEF R!Steps, R!SetupList, R!Return, R!Fail, R!Goto, R!system, R!mapper, R!SetupCategory
  <2>3. (result \in {"none", "ok", "failed", "killed"})'
    BY <1>6, <1>b DEF R!SetupList, R!Return, R!Fail, R!Goto, R!system, R!mapper, R!SetupCategory
  <2>4. R!SuccessIsExact'
    BY <1>6, <1>a, <1>c, <1>d DEF R!SuccessIsExact, R!Shown, WrittenInv, ListedInv, R!Categories, R!SetupList, R!Return, R!Fail, R!Goto, R!system, R!mapper, R!SetupCategory
  <2>5. R!ListedHasServer'
    BY <1>6, <1>a, <1>c, <1>d DEF R!ListedHasServer, R!Shown, WrittenInv, ListedInv, R!SetupList, R!Return, R!Fail, R!Goto, R!system, R!mapper, R!SetupCategory
  <2>6. WrittenInv'
    BY <1>6, <1>a, <1>b, <1>c, <1>d, ServerWrites DEF WrittenInv, R!SetupList, R!Return, R!Fail, R!Goto, R!system, R!mapper, R!SetupCategory
  <2>7. ListedInv'
    BY <1>6, <1>c, <1>d DEF ListedInv, WrittenInv, R!SetupList, R!Return, R!Fail, R!Goto, R!system, R!mapper, R!SetupCategory
  <2> QED
    BY <2>1, <2>2, <2>3, <2>4, <2>5, <2>6, <2>7 DEF RegTypes, RegRest
<1>7. CASE R!OpenKey
  <2>1. (com \subseteq R!Server /\ listed \subseteq R!Categories /\ denied \subseteq R!Refusals)'
    BY <1>7, <1>a, ServerWrites DEF R!Categories, R!OpenKey, R!Return, R!Fail, R!Goto, R!system, R!mapper
  <2>2. step' \in R!Steps /\ (written \in 0..5)'
    BY <1>7, <1>b DEF R!Steps, R!OpenKey, R!Return, R!Fail, R!Goto, R!system, R!mapper
  <2>3. (result \in {"none", "ok", "failed", "killed"})'
    BY <1>7, <1>b DEF R!OpenKey, R!Return, R!Fail, R!Goto, R!system, R!mapper
  <2>4. R!SuccessIsExact'
    BY <1>7, <1>a, <1>c, <1>d DEF R!SuccessIsExact, R!Shown, WrittenInv, ListedInv, R!Categories, R!OpenKey, R!Return, R!Fail, R!Goto, R!system, R!mapper
  <2>5. R!ListedHasServer'
    BY <1>7, <1>a, <1>c, <1>d DEF R!ListedHasServer, R!Shown, WrittenInv, ListedInv, R!OpenKey, R!Return, R!Fail, R!Goto, R!system, R!mapper
  <2>6. WrittenInv'
    BY <1>7, <1>a, <1>b, <1>c, <1>d, ServerWrites DEF WrittenInv, R!OpenKey, R!Return, R!Fail, R!Goto, R!system, R!mapper
  <2>7. ListedInv'
    BY <1>7, <1>c, <1>d DEF ListedInv, R!OpenKey, R!Return, R!Fail, R!Goto, R!system, R!mapper
  <2> QED
    BY <2>1, <2>2, <2>3, <2>4, <2>5, <2>6, <2>7 DEF RegTypes, RegRest
<1>8. CASE R!EliminateSubKey
  <2>1. (com \subseteq R!Server /\ listed \subseteq R!Categories /\ denied \subseteq R!Refusals)'
    BY <1>8, <1>a, ServerWrites DEF R!Categories, R!EliminateSubKey, R!Return, R!Fail, R!Goto, R!system, R!mapper, R!SubKey
  <2>2. step' \in R!Steps /\ (written \in 0..5)'
    BY <1>8, <1>b DEF R!Steps, R!EliminateSubKey, R!Return, R!Fail, R!Goto, R!system, R!mapper, R!SubKey
  <2>3. (result \in {"none", "ok", "failed", "killed"})'
    BY <1>8, <1>b DEF R!EliminateSubKey, R!Return, R!Fail, R!Goto, R!system, R!mapper, R!SubKey
  <2>4. R!SuccessIsExact'
    BY <1>8, <1>a, <1>c, <1>d DEF R!SuccessIsExact, R!Shown, WrittenInv, ListedInv, R!Categories, R!EliminateSubKey, R!Return, R!Fail, R!Goto, R!system, R!mapper, R!SubKey
  <2>5. R!ListedHasServer'
    BY <1>8, <1>a, <1>c, <1>d DEF R!ListedHasServer, R!Shown, WrittenInv, ListedInv, R!EliminateSubKey, R!Return, R!Fail, R!Goto, R!system, R!mapper, R!SubKey
  <2>6. WrittenInv'
    BY <1>8, <1>a, <1>b, <1>c, <1>d, ServerWrites DEF WrittenInv, R!EliminateSubKey, R!Return, R!Fail, R!Goto, R!system, R!mapper, R!SubKey
  <2>7. ListedInv'
    BY <1>8, <1>c, <1>d DEF ListedInv, R!EliminateSubKey, R!Return, R!Fail, R!Goto, R!system, R!mapper, R!SubKey
  <2> QED
    BY <2>1, <2>2, <2>3, <2>4, <2>5, <2>6, <2>7 DEF RegTypes, RegRest
<1>9. CASE R!DeleteKey
  <2>1. (com \subseteq R!Server /\ listed \subseteq R!Categories /\ denied \subseteq R!Refusals)'
    BY <1>9, <1>a, ServerWrites DEF R!Categories, R!DeleteKey, R!Return, R!Fail, R!Goto, R!system, R!mapper
  <2>2. step' \in R!Steps /\ (written \in 0..5)'
    BY <1>9, <1>b DEF R!Steps, R!DeleteKey, R!Return, R!Fail, R!Goto, R!system, R!mapper
  <2>3. (result \in {"none", "ok", "failed", "killed"})'
    BY <1>9, <1>b DEF R!DeleteKey, R!Return, R!Fail, R!Goto, R!system, R!mapper
  <2>4. R!SuccessIsExact'
    BY <1>9, <1>a, <1>c, <1>d DEF R!SuccessIsExact, R!Shown, WrittenInv, ListedInv, R!Categories, R!DeleteKey, R!Return, R!Fail, R!Goto, R!system, R!mapper
  <2>5. R!ListedHasServer'
    BY <1>9, <1>a, <1>c, <1>d DEF R!ListedHasServer, R!Shown, WrittenInv, ListedInv, R!DeleteKey, R!Return, R!Fail, R!Goto, R!system, R!mapper
  <2>6. WrittenInv'
    BY <1>9, <1>a, <1>b, <1>c, <1>d, ServerWrites DEF WrittenInv, R!DeleteKey, R!Return, R!Fail, R!Goto, R!system, R!mapper
  <2>7. ListedInv'
    BY <1>9, <1>c, <1>d DEF ListedInv, R!DeleteKey, R!Return, R!Fail, R!Goto, R!system, R!mapper
  <2> QED
    BY <2>1, <2>2, <2>3, <2>4, <2>5, <2>6, <2>7 DEF RegTypes, RegRest
<1>10. CASE R!CreateMapperAgain
  <2>1. (com \subseteq R!Server /\ listed \subseteq R!Categories /\ denied \subseteq R!Refusals)'
    BY <1>10, <1>a, ServerWrites DEF R!Categories, R!CreateMapperAgain, R!Return, R!Fail, R!Goto, R!system, R!mapper
  <2>2. step' \in R!Steps /\ (written \in 0..5)'
    BY <1>10, <1>b DEF R!Steps, R!CreateMapperAgain, R!Return, R!Fail, R!Goto, R!system, R!mapper
  <2>3. (result \in {"none", "ok", "failed", "killed"})'
    BY <1>10, <1>b DEF R!CreateMapperAgain, R!Return, R!Fail, R!Goto, R!system, R!mapper
  <2>4. R!SuccessIsExact'
    BY <1>10, <1>a, <1>c, <1>d DEF R!SuccessIsExact, R!Shown, WrittenInv, ListedInv, R!Categories, R!CreateMapperAgain, R!Return, R!Fail, R!Goto, R!system, R!mapper
  <2>5. R!ListedHasServer'
    BY <1>10, <1>a, <1>c, <1>d DEF R!ListedHasServer, R!Shown, WrittenInv, ListedInv, R!CreateMapperAgain, R!Return, R!Fail, R!Goto, R!system, R!mapper
  <2>6. WrittenInv'
    BY <1>10, <1>a, <1>b, <1>c, <1>d, ServerWrites DEF WrittenInv, R!CreateMapperAgain, R!Return, R!Fail, R!Goto, R!system, R!mapper
  <2>7. ListedInv'
    BY <1>10, <1>c, <1>d DEF ListedInv, R!CreateMapperAgain, R!Return, R!Fail, R!Goto, R!system, R!mapper
  <2> QED
    BY <2>1, <2>2, <2>3, <2>4, <2>5, <2>6, <2>7 DEF RegTypes, RegRest
<1>11. CASE R!UnlistDefault
  <2>1. (com \subseteq R!Server /\ listed \subseteq R!Categories /\ denied \subseteq R!Refusals)'
    BY <1>11, <1>a, ServerWrites DEF R!Categories, R!UnlistDefault, R!Return, R!Fail, R!Goto, R!system, R!mapper
  <2>2. step' \in R!Steps /\ (written \in 0..5)'
    BY <1>11, <1>b DEF R!Steps, R!UnlistDefault, R!Return, R!Fail, R!Goto, R!system, R!mapper
  <2>3. (result \in {"none", "ok", "failed", "killed"})'
    BY <1>11, <1>b DEF R!UnlistDefault, R!Return, R!Fail, R!Goto, R!system, R!mapper
  <2>4. R!SuccessIsExact'
    BY <1>11, <1>a, <1>c, <1>d DEF R!SuccessIsExact, R!Shown, WrittenInv, ListedInv, R!Categories, R!UnlistDefault, R!Return, R!Fail, R!Goto, R!system, R!mapper
  <2>5. R!ListedHasServer'
    BY <1>11, <1>a, <1>c, <1>d DEF R!ListedHasServer, R!Shown, WrittenInv, ListedInv, R!UnlistDefault, R!Return, R!Fail, R!Goto, R!system, R!mapper
  <2>6. WrittenInv'
    BY <1>11, <1>a, <1>b, <1>c, <1>d, ServerWrites DEF WrittenInv, R!UnlistDefault, R!Return, R!Fail, R!Goto, R!system, R!mapper
  <2>7. ListedInv'
    BY <1>11, <1>c, <1>d DEF ListedInv, R!UnlistDefault, R!Return, R!Fail, R!Goto, R!system, R!mapper
  <2> QED
    BY <2>1, <2>2, <2>3, <2>4, <2>5, <2>6, <2>7 DEF RegTypes, RegRest
<1>12. CASE R!UnlistAudio
  <2>1. (com \subseteq R!Server /\ listed \subseteq R!Categories /\ denied \subseteq R!Refusals)'
    BY <1>12, <1>a, ServerWrites DEF R!Categories, R!UnlistAudio, R!Return, R!Fail, R!Goto, R!system, R!mapper
  <2>2. step' \in R!Steps /\ (written \in 0..5)'
    BY <1>12, <1>b DEF R!Steps, R!UnlistAudio, R!Return, R!Fail, R!Goto, R!system, R!mapper
  <2>3. (result \in {"none", "ok", "failed", "killed"})'
    BY <1>12, <1>b DEF R!UnlistAudio, R!Return, R!Fail, R!Goto, R!system, R!mapper
  <2>4. R!SuccessIsExact'
    <3>0. UNCHANGED fellBack /\ (R!Fail => UNCHANGED listed) /\ step = "unlistAudio"
      BY <1>12 DEF R!UnlistAudio, R!Fail, R!system, R!mapper
    <3>1. ~reg /\ listed' = listed \ {"audio"} => R!Shown' = {}
      <4>1. "default" \notin listed /\ ("legacy" \in listed => fellBack)
        BY <3>0, <1>c DEF ListedInv
      <4>. QED  BY <3>0, <4>1, <1>a DEF R!Shown, R!Categories
    <3> QED
      BY <1>12, <1>a, <1>c, <1>d, <3>1
      DEF R!SuccessIsExact, R!Shown, WrittenInv, ListedInv, R!UnlistAudio, R!Return, R!Fail, R!Goto, R!system, R!mapper
  <2>5. R!ListedHasServer'
    <3>0. UNCHANGED fellBack /\ (R!Fail => UNCHANGED listed) /\ step = "unlistAudio"
      BY <1>12 DEF R!UnlistAudio, R!Fail, R!system, R!mapper
    <3>1. ~reg /\ listed' = listed \ {"audio"} => R!Shown' = {}
      <4>1. "default" \notin listed /\ ("legacy" \in listed => fellBack)
        BY <3>0, <1>c DEF ListedInv
      <4>. QED  BY <3>0, <4>1, <1>a DEF R!Shown, R!Categories
    <3>2. reg \/ R!Fail => torn' = torn
      BY <1>12 DEF R!UnlistAudio, R!Fail
    <3>3. listed' = listed \ {"audio"} \/ (R!Fail /\ listed' = listed)
      BY <1>12 DEF R!UnlistAudio, R!Fail
    <3>4. com' = com
      BY <1>12 DEF R!UnlistAudio, R!Fail
    <3> QED
      BY <1>c, <1>d, <3>0, <3>1, <3>2, <3>3, <3>4 DEF R!ListedHasServer, R!Shown
  <2>6. WrittenInv'
    BY <1>12, <1>a, <1>b, <1>c, <1>d, ServerWrites DEF WrittenInv, R!UnlistAudio, R!Return, R!Fail, R!Goto, R!system, R!mapper
  <2>7. ListedInv'
    BY <1>12, <1>c, <1>d DEF ListedInv, R!UnlistAudio, R!Return, R!Fail, R!Goto, R!system, R!mapper
  <2> QED
    BY <2>1, <2>2, <2>3, <2>4, <2>5, <2>6, <2>7 DEF RegTypes, RegRest
<1>13. CASE R!ListAudio
  <2>1. (com \subseteq R!Server /\ listed \subseteq R!Categories /\ denied \subseteq R!Refusals)'
    BY <1>13, <1>a, ServerWrites DEF R!Categories, R!ListAudio, R!Return, R!Fail, R!Goto, R!system, R!mapper
  <2>2. step' \in R!Steps /\ (written \in 0..5)'
    BY <1>13, <1>b DEF R!Steps, R!ListAudio, R!Return, R!Fail, R!Goto, R!system, R!mapper
  <2>3. (result \in {"none", "ok", "failed", "killed"})'
    BY <1>13, <1>b DEF R!ListAudio, R!Return, R!Fail, R!Goto, R!system, R!mapper
  <2>4. R!SuccessIsExact'
    BY <1>13, <1>a, <1>c, <1>d DEF R!SuccessIsExact, R!Shown, WrittenInv, ListedInv, R!Categories, R!ListAudio, R!Return, R!Fail, R!Goto, R!system, R!mapper
  <2>5. R!ListedHasServer'
    BY <1>13, <1>a, <1>c, <1>d DEF R!ListedHasServer, R!Shown, WrittenInv, ListedInv, R!ListAudio, R!Return, R!Fail, R!Goto, R!system, R!mapper
  <2>6. WrittenInv'
    BY <1>13, <1>a, <1>b, <1>c, <1>d, ServerWrites DEF WrittenInv, R!ListAudio, R!Return, R!Fail, R!Goto, R!system, R!mapper
  <2>7. ListedInv'
    BY <1>13, <1>c, <1>d DEF ListedInv, R!ListAudio, R!Return, R!Fail, R!Goto, R!system, R!mapper
  <2> QED
    BY <2>1, <2>2, <2>3, <2>4, <2>5, <2>6, <2>7 DEF RegTypes, RegRest
<1>14. CASE R!Killed
  <2>1. (com \subseteq R!Server /\ listed \subseteq R!Categories /\ denied \subseteq R!Refusals)'
    BY <1>14, <1>a, ServerWrites DEF R!Categories, R!Killed, R!Return, R!system, R!mapper
  <2>2. step' \in R!Steps /\ (written \in 0..5)'
    BY <1>14, <1>b DEF R!Steps, R!Killed, R!Return, R!system, R!mapper
  <2>3. (result \in {"none", "ok", "failed", "killed"})'
    BY <1>14, <1>b DEF R!Killed, R!Return, R!system, R!mapper
  <2>4. R!SuccessIsExact'
    BY <1>14, <1>a, <1>c, <1>d DEF R!SuccessIsExact, R!Shown, WrittenInv, ListedInv, R!Categories, R!Killed, R!Return, R!system, R!mapper
  <2>5. R!ListedHasServer'
    BY <1>14, <1>a, <1>c, <1>d DEF R!ListedHasServer, R!Shown, WrittenInv, ListedInv, R!Killed, R!Return, R!system, R!mapper
  <2>6. WrittenInv'
    BY <1>14, <1>a, <1>b, <1>c, <1>d, ServerWrites DEF WrittenInv, R!Killed, R!Return, R!system, R!mapper
  <2>7. ListedInv'
    BY <1>14, <1>c, <1>d DEF ListedInv, R!Killed, R!Return, R!system, R!mapper
  <2> QED
    BY <2>1, <2>2, <2>3, <2>4, <2>5, <2>6, <2>7 DEF RegTypes, RegRest
<1> QED
  BY <1>1, <1>2, <1>3, <1>4, <1>5, <1>6, <1>7, <1>8, <1>9, <1>10, <1>11, <1>12, <1>13, <1>14 DEF R!Next, R!SystemCall

LEMMA RegKept == RegInv /\ UNCHANGED regVars => RegInv'
BY DEF regVars, RegInv, RegistrationHolds, R!RegistrationHolds, R!TypeOK, R!SuccessIsExact, R!Shown, R!ListedHasServer,
       WrittenInv, ListedInv

-----------------------------------------------------------------------------
(* The media sample's steps.                                                *)

SampleFlags == lent \in BOOLEAN /\ partial \in BOOLEAN
SampleRest  == /\ S!TypeFlagged /\ S!CopiesOwned /\ S!NothingInherited /\ S!ActualFits
               /\ ~lent => m_dwFlags = {}

LEMMA SampleParts == SampleInv <=> SampleTypes /\ SampleFlags /\ SampleRest
BY DEF SampleInv, SampleHolds, S!SampleHolds, SampleFlags, SampleRest

LEMMA SamplePartsNext == SampleInv' <=> SampleTypes' /\ SampleFlags' /\ SampleRest'
BY SampleParts, PTL

LEMMA SampleStart == S!SampleInit => SampleInv
<1> SUFFICES ASSUME S!SampleInit PROVE SampleInv
  OBVIOUS
<1>1. SampleFlags
  BY Zenon DEF S!SampleInit, SampleFlags
<1>2. SampleTypes /\ SampleRest
  BY FiltersAssumption DEF S!SampleInit, SampleTypes, SampleRest, S!TypeFlagged, S!CopiesOwned, S!Held,
     S!NothingInherited, S!ActualFits
<1> QED
  BY <1>1, <1>2, SampleParts

LEMMA SampleStep == SampleInv /\ S!SampleNext => SampleInv'
<1> SUFFICES ASSUME SampleInv, S!SampleNext PROVE SampleTypes' /\ SampleFlags' /\ SampleRest'
  BY SamplePartsNext
<1>0. SampleTypes /\ SampleFlags /\ SampleRest
  BY SampleParts
<1> USE <1>0, FiltersAssumption
<1>1. CASE S!GetBuffer
  <2>1. SampleFlags'
    BY <1>1, Zenon DEF SampleFlags, S!GetBuffer
  <2>2. SampleTypes'
    BY <1>1 DEF SampleTypes, S!GetBuffer, S!times
  <2>3. SampleRest'
    BY <1>1 DEF SampleTypes, SampleFlags, SampleRest, S!TypeFlagged, S!CopiesOwned, S!Held, S!NothingInherited, S!ActualFits, S!GetBuffer, S!times
  <2> QED
    BY <2>1, <2>2, <2>3
<1>2. CASE S!SetTime
  <2>1. SampleFlags'
    BY <1>2, Zenon DEF SampleFlags, S!SetTime
  <2>2. SampleTypes'
    BY <1>2 DEF SampleTypes, S!SetTime, S!times
  <2>3. SampleRest'
    BY <1>2 DEF SampleTypes, SampleFlags, SampleRest, S!TypeFlagged, S!CopiesOwned, S!Held, S!NothingInherited, S!ActualFits, S!SetTime, S!times
  <2> QED
    BY <2>1, <2>2, <2>3
<1>3. CASE S!SetMediaTime
  <2>1. SampleFlags'
    BY <1>3, Zenon DEF SampleFlags, S!SetMediaTime
  <2>2. SampleTypes'
    BY <1>3 DEF SampleTypes, S!SetMediaTime, S!times
  <2>3. SampleRest'
    BY <1>3 DEF SampleTypes, SampleFlags, SampleRest, S!TypeFlagged, S!CopiesOwned, S!Held, S!NothingInherited, S!ActualFits, S!SetMediaTime, S!times
  <2> QED
    BY <2>1, <2>2, <2>3
<1>4. CASE S!SetFlag
  <2>1. SampleFlags'
    BY <1>4, Zenon DEF SampleFlags, S!SetFlag
  <2>2. SampleTypes'
    BY <1>4 DEF SampleTypes, S!SetFlag, S!times
  <2>3. SampleRest'
    BY <1>4 DEF SampleTypes, SampleFlags, SampleRest, S!TypeFlagged, S!CopiesOwned, S!Held, S!NothingInherited, S!ActualFits, S!SetFlag, S!times
  <2> QED
    BY <2>1, <2>2, <2>3
<1>5. CASE S!SetActualDataLength
  <2>1. SampleFlags'
    BY <1>5, Zenon DEF SampleFlags, S!SetActualDataLength
  <2>2. SampleTypes'
    BY <1>5 DEF SampleTypes, S!SetActualDataLength, S!times
  <2>3. SampleRest'
    BY <1>5 DEF SampleTypes, SampleFlags, SampleRest, S!TypeFlagged, S!CopiesOwned, S!Held, S!NothingInherited, S!ActualFits, S!SetActualDataLength, S!times
  <2> QED
    BY <2>1, <2>2, <2>3
<1>6. CASE S!SetMediaType
  <2>1. SampleFlags'
    BY <1>6, Zenon DEF SampleFlags, S!SetMediaType
  <2>2. SampleTypes'
    BY <1>6 DEF SampleTypes, S!SetMediaType, S!times
  <2>3. SampleRest'
    BY <1>6 DEF SampleTypes, SampleFlags, SampleRest, S!TypeFlagged, S!CopiesOwned, S!Held, S!NothingInherited, S!ActualFits, S!SetMediaType, S!times
  <2> QED
    BY <2>1, <2>2, <2>3
<1>7. CASE S!SetProperties
  <2> DEFINE Has(field, n) == S!CONTAINS_FIELD(field, n)
  <2>1. PICK n \in S!Field["dwSampleFlags"]..S!Field["cbBuffer"],
             flags \in SUBSET (Plain \cup {"TimeValid", "StopValid", "TypeChanged"}) :
          \E actual \in IF Has("lActual", n) THEN Lengths ELSE {m_lActual},
             cb \in IF Has("cbBuffer", n) THEN {0, cbBuffer} ELSE {0} :
               /\ S!Acceptable(n, flags, actual, cb)
               /\ m_lActual' = actual
               /\ m_Start' = IF Has("tStart", n) THEN use ELSE m_Start
               /\ m_End' = IF Has("tStop", n) THEN use ELSE m_End
               /\ m_pMediaType' = IF Has("pMediaType", n) /\ "TypeChanged" \in flags THEN use ELSE m_pMediaType
               /\ copies' = copies - S!Held(m_pMediaType) + S!Held(m_pMediaType')
               /\ m_dwFlags' = S!FixUp(flags \cup (m_dwFlags \cap {"MediaTimeValid"}), m_pMediaType')
               /\ given' = flags \cap Plain
               /\ partial' = (\/ partial
                              \/ Has("lActual", n) /\ ~Has("cbBuffer", n)
                              \/ "StopValid" \in flags /\ ~Has("tStop", n))
    BY <1>7 DEF S!SetProperties
  <2>2. PICK actual \in IF Has("lActual", n) THEN Lengths ELSE {m_lActual},
             cb \in IF Has("cbBuffer", n) THEN {0, cbBuffer} ELSE {0} :
               /\ S!Acceptable(n, flags, actual, cb)
               /\ m_lActual' = actual
    BY <2>1
  <2>3. n \in 3..10 /\ (Has("tStop", n) => Has("tStart", n))
    BY <2>1 DEF S!Field, S!CONTAINS_FIELD
  <2> HIDE DEF Has
  <2>4. /\ lent /\ lent' = lent /\ use' = use /\ m_Media' = m_Media
        /\ m_Start' = IF Has("tStart", n) THEN use ELSE m_Start
        /\ m_End' = IF Has("tStop", n) THEN use ELSE m_End
        /\ m_pMediaType' = IF Has("pMediaType", n) /\ "TypeChanged" \in flags THEN use ELSE m_pMediaType
        /\ copies' = copies - S!Held(m_pMediaType) + S!Held(m_pMediaType')
        /\ m_dwFlags' = S!FixUp(flags \cup (m_dwFlags \cap {"MediaTimeValid"}), m_pMediaType')
        /\ given' = flags \cap Plain
    BY <1>7, <2>1 DEF S!SetProperties
  <2>5. /\ partial' \in BOOLEAN /\ (partial => partial')
        /\ Has("lActual", n) /\ ~Has("cbBuffer", n) => partial'
        /\ "StopValid" \in flags /\ ~Has("tStop", n) => partial'
    BY <2>1, Zenon
  <2>6. SampleFlags'
    BY <2>4, <2>5, Zenon DEF SampleFlags
  <2>7. SampleTypes'
    BY <2>2, <2>4 DEF SampleTypes
  <2>8. S!TypeFlagged' /\ S!CopiesOwned'
    BY <2>4 DEF SampleTypes, SampleRest, S!TypeFlagged, S!CopiesOwned, S!FixUp, S!Held
  <2>9. S!ActualFits'
    <3>1. CASE Has("cbBuffer", n)
      BY <2>2, <3>1 DEF S!Acceptable, S!ActualFits, Has
    <3>2. CASE ~Has("cbBuffer", n) /\ Has("lActual", n)
      BY <2>5, <3>2 DEF S!ActualFits
    <3>3. CASE ~Has("cbBuffer", n) /\ ~Has("lActual", n)
      BY <2>2, <2>5, <3>3 DEF S!ActualFits, SampleRest
    <3> QED
      BY <3>1, <3>2, <3>3
  <2>10. \A f \in m_dwFlags' : f = "TypeChanged" \/ f \in flags \/ (f = "MediaTimeValid" /\ f \in m_dwFlags)
    BY <2>4 DEF S!FixUp
  <2>11. S!NothingInherited'
    <3>1. (m_dwFlags \cap Plain)' \subseteq given'
      BY <2>4, <2>10
    <3>2. m_pMediaType' \in {0, use'}
      BY <2>4 DEF SampleRest, S!NothingInherited
    <3>3. "TimeValid" \in m_dwFlags' => m_Start' = use'
      <4>1. ASSUME "TimeValid" \in flags PROVE m_Start' = use
        <5>1. CASE "TimeValid" \in m_dwFlags
          BY <5>1, <2>4 DEF SampleRest, S!NothingInherited
        <5>2. CASE "TimeValid" \notin m_dwFlags
          BY <5>2, <4>1, <2>2, <2>3, <2>4 DEF S!Acceptable, Has
        <5> QED
          BY <5>1, <5>2
      <4> QED
        BY <4>1, <2>4, <2>10
    <3>4. "MediaTimeValid" \in m_dwFlags' => m_Media' = use'
      BY <2>4, <2>10 DEF SampleRest, S!NothingInherited
    <3>5. "StopValid" \in m_dwFlags' /\ ~partial' => m_End' = use'
      BY <2>4, <2>5, <2>10
    <3> QED
      BY <3>1, <3>2, <3>3, <3>4, <3>5 DEF S!NothingInherited
  <2> QED
    BY <2>4, <2>6, <2>7, <2>8, <2>9, <2>11 DEF SampleRest
<1>8. CASE S!Release
  <2>1. SampleFlags'
    BY <1>8, Zenon DEF SampleFlags, S!Release
  <2>2. SampleTypes'
    BY <1>8 DEF SampleTypes, S!Release, S!times
  <2>3. SampleRest'
    BY <1>8 DEF SampleTypes, SampleFlags, SampleRest, S!TypeFlagged, S!CopiesOwned, S!Held, S!NothingInherited, S!ActualFits, S!Release, S!times
  <2> QED
    BY <2>1, <2>2, <2>3
<1> QED
  BY <1>1, <1>2, <1>3, <1>4, <1>5, <1>6, <1>7, <1>8 DEF S!SampleNext

LEMMA SampleKept == SampleInv /\ UNCHANGED sampleVars => SampleInv'
BY DEF sampleVars, SampleInv, SampleTypes, SampleHolds, S!SampleHolds, S!TypeFlagged, S!CopiesOwned, S!Held,
       S!NothingInherited, S!ActualFits

-----------------------------------------------------------------------------
(* The in-place filter's steps.                                             *)

LEMMA InPlaceStart == P!InPlaceInit => InPlaceInv
<1> SUFFICES ASSUME P!InPlaceInit PROVE InPlaceInv
  OBVIOUS
<1>1. InPlaceTypes
  BY DEF P!InPlaceInit, InPlaceTypes
<1>2. InPlaceFlags
  BY Zenon DEF P!InPlaceInit, InPlaceFlags
<1>3. AgreedOrPending /\ RunningInv /\ Unspoiled
  BY DEF P!InPlaceInit, AgreedOrPending, BothIn, RunningInv, Unspoiled
<1> QED
  BY <1>1, <1>2, <1>3 DEF InPlaceInv

\* What a connection asks of the graph is at the end of its queue.
LEMMA AskedAtEnd ==
  ASSUME NEW rest \in Seq({"in", "out"} \X Types), NEW t \in Types
  PROVE  /\ \A dir \in {"in", "out"} : rest \o P!CompleteConnect(dir, t) \in Seq({"in", "out"} \X Types)
         /\ type["in"] # None => LET q == rest \o P!CompleteConnect("out", t)
                                IN  q # <<>> /\ \E i \in 1..Len(q) : q[i][1] = "in"
         /\ type["out"] \notin {None, t} => rest \o P!CompleteConnect("in", t) # <<>>
<1>1. ASSUME NEW dir \in {"in", "out"} PROVE P!CompleteConnect(dir, t) \in Seq({"in", "out"} \X Types)
  <2>1. << <<"in", t>> >> \in Seq({"in", "out"} \X Types) /\ << <<"out", t>> >> \in Seq({"in", "out"} \X Types)
    BY <<"in", t>> \in {"in", "out"} \X Types, <<"out", t>> \in {"in", "out"} \X Types
  <2>2. P!CompleteConnect(dir, t) \in { << <<"in", t>> >>, << <<"out", t>> >>, << >> }
    <3>1. CASE dir = "in"
      <4>1. CASE P!IsConnected("out") /\ type["out"] # t
        BY <3>1, <4>1, Zenon DEF P!CompleteConnect
      <4>2. CASE ~(P!IsConnected("out") /\ type["out"] # t)
        BY <3>1, <4>2 DEF P!CompleteConnect
      <4> QED
        BY <4>1, <4>2
    <3>2. CASE dir = "out"
      <4>1. CASE P!IsConnected("in")
        BY <3>2, <4>1 DEF P!CompleteConnect
      <4>2. CASE ~P!IsConnected("in")
        BY <3>2, <4>2 DEF P!CompleteConnect
      <4> QED
        BY <4>1, <4>2
    <3> QED
      BY <3>1, <3>2
  <2>3. << >> \in Seq({"in", "out"} \X Types)
    OBVIOUS
  <2> QED
    BY <2>1, <2>2, <2>3, Zenon
<1>2. ASSUME type["in"] # None
      PROVE  LET q == rest \o P!CompleteConnect("out", t)
             IN  q # <<>> /\ \E i \in 1..Len(q) : q[i][1] = "in"
  <2>1. P!CompleteConnect("out", t) = << <<"in", t>> >>
    BY <1>2 DEF P!CompleteConnect, P!IsConnected
  <2>2. PICK q : q = rest \o << <<"in", t>> >>
    OBVIOUS
  <2>3. q \in Seq({"in", "out"} \X Types) /\ Len(q) = Len(rest) + 1 /\ q[Len(rest) + 1] = <<"in", t>>
    BY <2>2
  <2>4. q # <<>> /\ Len(rest) + 1 \in 1..Len(q) /\ q[Len(rest) + 1][1] = "in"
    BY <2>3
  <2> QED
    BY <2>1, <2>2, <2>4
<1>3. ASSUME type["out"] \notin {None, t} PROVE rest \o P!CompleteConnect("in", t) # <<>>
  <2>1. P!CompleteConnect("in", t) = << <<"out", t>> >>
    BY <1>3 DEF P!CompleteConnect, P!IsConnected
  <2>2. <<"out", t>> \in {"in", "out"} \X Types
    OBVIOUS
  <2>3. Len(rest \o << <<"out", t>> >>) = Len(rest) + 1
    BY <2>2
  <2>4. PICK q : q = rest \o << <<"out", t>> >>
    OBVIOUS
  <2>5. Len(q) # 0 /\ Len(rest) \in Nat
    BY <2>3, <2>4
  <2>6. q # <<>>
    BY <2>5
  <2> QED
    BY <2>1, <2>4, <2>6
<1> QED
  BY <1>1, <1>2, <1>3

LEMMA ReceiveConnectionStep ==
  ASSUME InPlaceInv, ~running, NEW t \in Types, NEW rest \in Seq({"in", "out"} \X Types),
         P!ReceiveConnection(t, rest)
  PROVE  InPlaceInv'
<1> USE DEF InPlaceInv
<1>1. InPlaceFlags'
  BY Zenon DEF P!ReceiveConnection, P!stream, InPlaceFlags
<1>2. InPlaceTypes'
  BY AskedAtEnd DEF P!ReceiveConnection, InPlaceTypes
<1>3. npc' # "idle" /\ ~running' /\ Unspoiled'
  BY DEF P!ReceiveConnection, P!stream, Unspoiled
<1>4. type'["in"] = t /\ type'["out"] = type["out"]
  BY DEF P!ReceiveConnection, InPlaceTypes
<1>5. BothIn' => type'["in"] = type'["out"] \/ pending' # <<>>
  BY <1>4, AskedAtEnd DEF P!ReceiveConnection, BothIn
<1> QED
  BY <1>1, <1>2, <1>3, <1>5 DEF AgreedOrPending, RunningInv

LEMMA ConnectStep ==
  ASSUME InPlaceInv, ~running, NEW t \in Types, NEW rest \in Seq({"in", "out"} \X Types),
         P!Connect(t, rest)
  PROVE  InPlaceInv'
<1> USE DEF InPlaceInv
<1>1. InPlaceFlags'
  BY Zenon DEF P!Connect, P!stream, InPlaceFlags
<1>2. InPlaceTypes'
  <2>1. pending' \in Seq({"in", "out"} \X Types) /\ npc' = npc
    BY AskedAtEnd DEF P!Connect
  <2>2. type' \in [{"in", "out"} -> Types \cup {None}]
    BY DEF P!Connect, InPlaceTypes
  <2>3. m_pAllocator' \in [{"in", "out"} -> P!Allocators \cup {None}]
    BY DEF P!Connect, InPlaceTypes, P!Allocators
  <2> QED
    BY <2>1, <2>2, <2>3 DEF InPlaceTypes
<1>3. ~running' /\ Unspoiled'
  BY DEF P!Connect, P!stream, Unspoiled
<1>4. type'["in"] = type["in"]
  BY DEF P!Connect, InPlaceTypes
<1>5. BothIn' => pending' # <<>> /\ \E i \in 1..Len(pending') : pending'[i][1] = "in"
  <2>1. CASE type'["out"] = None
    BY <2>1 DEF BothIn
  <2>2. CASE type'["out"] # None
    <3>1. pending' = rest \o P!CompleteConnect("out", t)
      BY <2>2 DEF P!Connect, InPlaceTypes
    <3> QED
      BY <3>1, <1>4, AskedAtEnd DEF BothIn
  <2> QED
    BY <2>1, <2>2
<1> QED
  BY <1>1, <1>2, <1>3, <1>5 DEF AgreedOrPending, RunningInv

LEMMA NotifyStep == ASSUME InPlaceInv, P!NotifyAllocator PROVE InPlaceInv'
<1> USE DEF InPlaceInv
<1>1. PICK a \in {"up"} \cup {o \in {P!Offer} : npc = "asked"}, bReadOnly \in BOOLEAN :
        /\ m_bReadOnly' = bReadOnly
        /\ \/ P!Agree(a, bReadOnly) /\ npc' = "idle"
           \/ UNCHANGED <<m_pAllocator, told, npc>>
  BY DEF P!NotifyAllocator
<1>2. /\ npc \in {"typed", "asked"} /\ ~running /\ ~running'
      /\ UNCHANGED <<m_bModifiesData, type, pending>> /\ Unspoiled'
  BY DEF P!NotifyAllocator, P!stream, RunningInv, Unspoiled
<1>3. InPlaceFlags'
  BY <1>1, Zenon DEF P!NotifyAllocator, P!stream, InPlaceFlags
<1>4. a \in P!Allocators
  BY <1>1 DEF P!Offer, P!Allocators
<1>5. CASE P!Agree(a, bReadOnly) /\ npc' = "idle"
  <2>1. PICK out : out = IF P!IsConnected("out") /\ ~P!MustCopy(bReadOnly) THEN a ELSE m_pAllocator["out"]
    OBVIOUS
  <2>2. m_pAllocator' = [in |-> a, out |-> out] /\ told' = IF P!IsConnected("out") THEN out ELSE told
    BY <1>5, <2>1 DEF P!Agree
  <2>3. out \in P!Allocators \cup {None}
    BY <1>4, <2>1 DEF InPlaceTypes
  <2>4. m_pAllocator'["in"] = a /\ m_pAllocator'["out"] = out
    BY <2>2
  <2>5. m_pAllocator' \in [{"in", "out"} -> P!Allocators \cup {None}]
    BY <1>4, <2>2, <2>3
  <2>6. InPlaceTypes'
    BY <1>2, <1>5, <2>5 DEF InPlaceTypes
  <2>7. ASSUME BothIn' PROVE AllocatorsAgreed'
    <3>1. P!IsConnected("out") /\ told' = out
      BY <2>7, <1>2, <2>2 DEF BothIn, P!IsConnected
    <3>2. CASE P!MustCopy(bReadOnly)
      <4>1. out = m_pAllocator["out"]
        BY <2>1, <3>2
      <4>2. a # out /\ size'[out] >= size'[a]
        BY <1>5, <3>2, <4>1 DEF P!Agree, P!CopiesFit
      <4> QED
        BY <3>1, <2>4, <4>2 DEF AllocatorsAgreed
    <3>3. CASE ~P!MustCopy(bReadOnly)
      <4>1. out = a /\ ~(bReadOnly /\ m_bModifiesData)
        BY <2>1, <3>1, <3>3 DEF P!MustCopy
      <4> QED
        BY <1>1, <1>2, <2>4, <3>1, <4>1 DEF AllocatorsAgreed
    <3> QED
      BY <3>2, <3>3
  <2>8. BothIn' => type'["in"] = type'["out"] \/ pending' # <<>>
    BY <1>2 DEF AgreedOrPending, BothIn
  <2> QED
    BY <1>2, <1>3, <2>6, <2>7, <2>8 DEF AgreedOrPending, RunningInv
<1>6. CASE UNCHANGED <<m_pAllocator, told, npc>>
  <2>1. InPlaceTypes'
    BY <1>2, <1>6 DEF InPlaceTypes
  <2> QED
    BY <1>2, <1>3, <1>6, <2>1 DEF AgreedOrPending, RunningInv, BothIn
<1> QED
  BY <1>1, <1>5, <1>6

LEMMA InPlaceStep == InPlaceInv /\ P!InPlaceNext => InPlaceInv'
<1> SUFFICES ASSUME InPlaceInv, P!InPlaceNext PROVE InPlaceInv'
  OBVIOUS
<1>0. pending \in Seq({"in", "out"} \X Types)
  BY DEF InPlaceInv, InPlaceTypes
<1>1. CASE P!AppConnects
  BY <1>0, <1>1, ReceiveConnectionStep, ConnectStep DEF P!AppConnects, P!Idle
<1>2. CASE P!Reconnect
  <2>1. pending # <<>> /\ ~running /\ npc = "idle"
    BY <1>2 DEF P!Reconnect, P!Idle
  <2>2. Head(pending) \in {"in", "out"} \X Types /\ Tail(pending) \in Seq({"in", "out"} \X Types)
    BY <1>0, <2>1
  <2>3. Head(pending)[1] \in {"in", "out"} /\ Head(pending)[2] \in Types
    BY <2>2
  <2>4. CASE /\ ~P!IsConnected(Head(pending)[1]) /\ pending' = Tail(pending)
             /\ UNCHANGED <<m_bModifiesData, m_bReadOnly, type, m_pAllocator, npc, told, running, spoiled, strange>>
    <3>1. ~BothIn'
      BY <2>3, <2>4 DEF P!IsConnected, BothIn
    <3>2. InPlaceFlags'
      BY <2>4, Zenon DEF InPlaceInv, InPlaceFlags
    <3>3. InPlaceTypes'
      BY <2>2, <2>4 DEF InPlaceInv, InPlaceTypes
    <3> QED
      BY <2>1, <2>4, <3>1, <3>2, <3>3 DEF InPlaceInv, AgreedOrPending, RunningInv, Unspoiled
  <2> QED
    BY <1>2, <2>1, <2>2, <2>3, <2>4, ReceiveConnectionStep, ConnectStep DEF P!Reconnect, P!stream
<1> USE DEF InPlaceInv
<1>3. CASE P!BreakConnect
  <2>1. ~running' /\ ~running /\ Unspoiled'
    BY <1>3 DEF P!BreakConnect, P!stream, Unspoiled
  <2>2. InPlaceFlags'
    BY <1>3, Zenon DEF P!BreakConnect, P!stream, InPlaceFlags
  <2>3. InPlaceTypes' /\ ~BothIn'
    BY <1>3 DEF P!BreakConnect, InPlaceTypes, BothIn
  <2> QED
    BY <2>1, <2>2, <2>3 DEF AgreedOrPending, RunningInv
<1>4. CASE P!GetAllocator
  <2>1. npc' = "asked" /\ ~running /\ ~running' /\ Unspoiled' /\ UNCHANGED <<type, pending>>
    BY <1>4 DEF P!GetAllocator, P!stream, RunningInv, Unspoiled
  <2>2. InPlaceFlags'
    BY <1>4, Zenon DEF P!GetAllocator, P!stream, InPlaceFlags
  <2>3. InPlaceTypes'
    BY <1>4 DEF P!GetAllocator, P!Offer, P!Allocators, InPlaceTypes
  <2> QED
    BY <2>1, <2>2, <2>3 DEF AgreedOrPending, RunningInv, BothIn
<1>5. CASE P!NotifyAllocator
  BY <1>5, NotifyStep
<1>6. CASE P!StartStreaming
  <2>1. InPlaceFlags'
    BY <1>6, Zenon DEF P!StartStreaming, InPlaceFlags
  <2> QED
    BY <1>6, <2>1 DEF P!StartStreaming, P!Idle, P!IsConnected, InPlaceTypes, AgreedOrPending, AllocatorsAgreed,
       RunningInv, BothIn, Unspoiled
<1>7. CASE P!StopStreaming
  <2>1. InPlaceFlags'
    BY <1>7, Zenon DEF P!StopStreaming, InPlaceFlags
  <2> QED
    BY <1>7, <2>1 DEF P!StopStreaming, InPlaceTypes, AgreedOrPending, AllocatorsAgreed, RunningInv, BothIn, Unspoiled
<1>8. CASE P!Receive
  <2>1. UNCHANGED <<m_bModifiesData, m_bReadOnly, type, m_pAllocator, size, npc, told, pending, running>> /\ running
    BY <1>8 DEF P!Receive
  <2>2. AllocatorsAgreed /\ type["in"] = type["out"]
    BY <2>1 DEF RunningInv, AgreedOrPending
  <2>3. spoiled' = FALSE
    BY <1>8, <2>2, Zenon DEF P!Receive, P!UsingDifferentAllocators, AllocatorsAgreed, Unspoiled
  <2>4. strange' = FALSE
    BY <1>8, <2>2, Zenon DEF P!Receive, AllocatorsAgreed, Unspoiled
  <2>5. InPlaceFlags'
    BY <2>1, Zenon DEF InPlaceFlags
  <2> QED
    BY <2>1, <2>3, <2>4, <2>5 DEF InPlaceTypes, AgreedOrPending, AllocatorsAgreed, RunningInv, BothIn, Unspoiled
<1> QED
  BY <1>1, <1>2, <1>3, <1>4, <1>5, <1>6, <1>7, <1>8 DEF P!InPlaceNext

LEMMA InPlaceKept == InPlaceInv /\ UNCHANGED inPlaceVars => InPlaceInv'
BY DEF inPlaceVars, InPlaceInv, InPlaceTypes, InPlaceFlags, AgreedOrPending, AllocatorsAgreed, RunningInv, BothIn,
       Unspoiled

LEMMA InPlaceHolds == InPlaceInv => AllocatorHolds
<1> SUFFICES ASSUME InPlaceInv PROVE AllocatorHolds
  OBVIOUS
<1>1. ~spoiled /\ ~strange
  BY DEF InPlaceInv, Unspoiled
<1>2. P!CopyFits
  BY DEF InPlaceInv, RunningInv, AgreedOrPending, AllocatorsAgreed, P!CopyFits, P!UsingDifferentAllocators
<1> QED
  BY <1>1, <1>2 DEF AllocatorHolds, P!AllocatorHolds, P!ReadOnlyKept, P!DownstreamAgreed

-----------------------------------------------------------------------------
(* The media types' steps: each changes one type and what it owns.          *)

LEMMA SameCount == ASSUME NEW X PROVE M!Cardinality(X) = Cardinality(X)
BY Zenon DEF Cardinality, M!Cardinality

LEMMA FreedShape ==
  ASSUME TypeShape, NEW t \in Objects
  PROVE  /\ M!Freed(t) \in [Blocks -> Seq(Byte)]
         /\ \A u \in Objects : u # t /\ mt[u].cbFormat # 0 =>
              /\ mt[u].pbFormat \in Blocks /\ M!Freed(t)[mt[u].pbFormat] = heap[mt[u].pbFormat]
              /\ M!Freed(t)[mt[u].pbFormat] # <<>>
         /\ \A b \in Blocks : M!Freed(t)[b] # <<>> => \E u \in Objects : u # t /\ Owns(u, b)
         /\ \A b \in Blocks : heap[b] = <<>> => M!Freed(t)[b] = <<>>
<1>1. M!Freed(t) \in [Blocks -> Seq(Byte)]
  BY DEF TypeShape, M!Freed
<1>2. ASSUME NEW u \in Objects, u # t, mt[u].cbFormat # 0
      PROVE  /\ mt[u].pbFormat \in Blocks /\ M!Freed(t)[mt[u].pbFormat] = heap[mt[u].pbFormat]
             /\ M!Freed(t)[mt[u].pbFormat] # <<>>
  <2>1. mt[u].pbFormat \in Blocks /\ Len(heap[mt[u].pbFormat]) = mt[u].cbFormat
    BY <1>2 DEF TypeShape, OwnedOnce
  <2>2. ~(mt[t].cbFormat # 0 /\ mt[u].pbFormat = mt[t].pbFormat)
    BY <1>2 DEF TypeShape, OwnedOnce
  <2>3. M!Freed(t)[mt[u].pbFormat] = heap[mt[u].pbFormat]
    BY <2>1, <2>2 DEF M!Freed
  <2>4. heap[mt[u].pbFormat] # <<>>
    BY <1>2, <2>1
  <2> QED
    BY <2>1, <2>3, <2>4
<1>3. ASSUME NEW b \in Blocks, M!Freed(t)[b] # <<>> PROVE \E u \in Objects : u # t /\ Owns(u, b)
  BY <1>3 DEF TypeShape, OwnedOnce, M!Freed, Owns
<1>4. ASSUME NEW b \in Blocks, heap[b] = <<>> PROVE M!Freed(t)[b] = <<>>
  BY <1>4 DEF M!Freed
<1> QED
  BY <1>1, <1>2, <1>3, <1>4

\* A type that gives its format back leaves the others' alone.
LEMMA GivesBack ==
  ASSUME TypeShape, NEW t \in Objects, NEW d \in MediaTypes, d.cbFormat = 0,
         mt' = [mt EXCEPT ![t] = d], heap' = M!Freed(t)
  PROVE  TypeShape'
<1>1. mt' \in [Objects -> MediaTypes] /\ mt'[t] = d /\ \A u \in Objects : u # t => mt'[u] = mt[u]
  BY DEF TypeShape
<1>2. heap' \in [Blocks -> Seq(Byte)]
  BY FreedShape
<1>3. \A u \in Objects : mt'[u].cbFormat # 0 => u # t /\ mt'[u] = mt[u]
  BY <1>1
<1>4. \A u \in Objects : mt'[u].cbFormat # 0 =>
         mt'[u].pbFormat \in Blocks /\ Len(heap'[mt'[u].pbFormat]) = mt'[u].cbFormat
  BY <1>3, FreedShape DEF TypeShape, OwnedOnce
<1>5. \A u, w \in Objects :
         mt'[u].cbFormat # 0 /\ mt'[w].cbFormat # 0 /\ mt'[u].pbFormat = mt'[w].pbFormat => u = w
  BY <1>3 DEF TypeShape, OwnedOnce
<1>6. \A b \in Blocks : heap'[b] # <<>> => \E u \in Objects : Owns(u, b)'
  BY <1>1, FreedShape DEF Owns
<1> QED
  BY <1>1, <1>2, <1>4, <1>5, <1>6 DEF TypeShape, OwnedOnce

\* Nor does one that gives its format back for a block that is then free.
LEMMA TakesBlock ==
  ASSUME TypeShape, NEW t \in Objects, NEW d \in MediaTypes, NEW b \in Blocks, NEW bytes \in Seq(Byte),
         d.cbFormat # 0, d.pbFormat = b, Len(bytes) = d.cbFormat, M!Freed(t)[b] = <<>>,
         mt' = [mt EXCEPT ![t] = d], heap' = M!Filled(M!Freed(t), b, bytes)
  PROVE  TypeShape'
<1>1. mt' \in [Objects -> MediaTypes] /\ mt'[t] = d /\ \A u \in Objects : u # t => mt'[u] = mt[u]
  BY DEF TypeShape
<1>2. heap' \in [Blocks -> Seq(Byte)] /\ heap'[b] = bytes /\ \A c \in Blocks : c # b => heap'[c] = M!Freed(t)[c]
  BY FreedShape DEF M!Filled
<1>3. \A u \in Objects : u # t /\ mt[u].cbFormat # 0 =>
         /\ mt[u].pbFormat \in Blocks /\ mt[u].pbFormat # b
         /\ heap'[mt[u].pbFormat] = heap[mt[u].pbFormat]
  BY <1>2, FreedShape
<1>4. ASSUME NEW u \in Objects, mt'[u].cbFormat # 0
      PROVE  mt'[u].pbFormat \in Blocks /\ Len(heap'[mt'[u].pbFormat]) = mt'[u].cbFormat
  <2>1. CASE u = t
    BY <2>1, <1>1, <1>2
  <2>2. CASE u # t
    BY <2>2, <1>1, <1>3, <1>4 DEF TypeShape, OwnedOnce
  <2> QED
    BY <2>1, <2>2
<1>5. ASSUME NEW u \in Objects, NEW w \in Objects,
             mt'[u].cbFormat # 0, mt'[w].cbFormat # 0, mt'[u].pbFormat = mt'[w].pbFormat
      PROVE  u = w
  <2>1. CASE u # t /\ w # t
    BY <2>1, <1>1, <1>5 DEF TypeShape, OwnedOnce
  <2>2. CASE (u = t) # (w = t)
    BY <2>2, <1>1, <1>3, <1>5
  <2> QED
    BY <2>1, <2>2
<1>6. ASSUME NEW c \in Blocks, heap'[c] # <<>> PROVE \E u \in Objects : Owns(u, c)'
  <2>1. CASE c = b
    BY <2>1, <1>1 DEF Owns
  <2>2. CASE c # b
    BY <2>2, <1>1, <1>2, <1>6, FreedShape DEF Owns
  <2> QED
    BY <2>1, <2>2
<1> QED
  BY <1>1, <1>2, <1>4, <1>5, <1>6 DEF TypeShape, OwnedOnce

\* Nor does one that only writes into the block it has, as many bytes as there were.
LEMMA KeepsBlock ==
  ASSUME TypeShape, NEW t \in Objects, NEW d \in MediaTypes,
         d.cbFormat = mt[t].cbFormat, d.pbFormat = mt[t].pbFormat, mt' = [mt EXCEPT ![t] = d],
         \/ heap' = heap
         \/ \E bytes \in Seq(Byte) : /\ d.cbFormat # 0 /\ Len(bytes) = d.cbFormat
                                    /\ heap' = M!Filled(heap, mt[t].pbFormat, bytes)
  PROVE  TypeShape'
<1>1. /\ mt' \in [Objects -> MediaTypes]
      /\ \A u \in Objects : mt'[u].cbFormat = mt[u].cbFormat /\ mt'[u].pbFormat = mt[u].pbFormat
  BY DEF TypeShape
<1>2. CASE heap' = heap
  BY <1>1, <1>2 DEF TypeShape, OwnedOnce, Owns
<1>3. CASE \E bytes \in Seq(Byte) : /\ d.cbFormat # 0 /\ Len(bytes) = d.cbFormat
                                    /\ heap' = M!Filled(heap, mt[t].pbFormat, bytes)
  <2>1. PICK bytes \in Seq(Byte) : /\ d.cbFormat # 0 /\ Len(bytes) = d.cbFormat
                                   /\ heap' = M!Filled(heap, mt[t].pbFormat, bytes)
    BY <1>3
  <2>2. PICK b : b = mt[t].pbFormat
    OBVIOUS
  <2>3. b \in Blocks
    BY <2>1, <2>2 DEF TypeShape, OwnedOnce
  <2>4. heap' \in [Blocks -> Seq(Byte)] /\ heap'[b] = bytes /\ \A c \in Blocks : c # b => heap'[c] = heap[c]
    BY <2>1, <2>2, <2>3 DEF TypeShape, M!Filled
  <2>5. \A u \in Objects : mt[u].cbFormat # 0 =>
          mt[u].pbFormat \in Blocks /\ Len(heap'[mt[u].pbFormat]) = mt[u].cbFormat
    <3> SUFFICES ASSUME NEW u \in Objects, mt[u].cbFormat # 0
                 PROVE  mt[u].pbFormat \in Blocks /\ Len(heap'[mt[u].pbFormat]) = mt[u].cbFormat
      OBVIOUS
    <3>1. mt[u].pbFormat \in Blocks /\ Len(heap[mt[u].pbFormat]) = mt[u].cbFormat
      BY DEF TypeShape, OwnedOnce
    <3>2. CASE mt[u].pbFormat = b
      <4>1. u = t
        BY <2>1, <2>2, <3>2 DEF TypeShape, OwnedOnce
      <4> QED
        BY <4>1, <3>1, <2>1, <2>2, <2>4
    <3>3. CASE mt[u].pbFormat # b
      BY <3>1, <3>3, <2>4
    <3> QED
      BY <3>2, <3>3
  <2>6. \A u, w \in Objects :
          mt[u].cbFormat # 0 /\ mt[w].cbFormat # 0 /\ mt[u].pbFormat = mt[w].pbFormat => u = w
    BY DEF TypeShape, OwnedOnce
  <2>7. ASSUME NEW c \in Blocks, heap'[c] # <<>> PROVE \E u \in Objects : Owns(u, c)
    <3>1. CASE c = b
      BY <3>1, <2>1, <2>2 DEF Owns
    <3>2. CASE c # b
      BY <3>2, <2>4, <2>7 DEF TypeShape, OwnedOnce
    <3> QED
      BY <3>1, <3>2
  <2> QED
    BY <1>1, <2>4, <2>5, <2>6, <2>7 DEF TypeShape, OwnedOnce, Owns
<1> QED
  BY <1>2, <1>3

\* References go with the pointer of the type that is changed.
LEMMA CountsReference ==
  ASSUME TypeShape, NEW t \in Objects, NEW d \in MediaTypes, mt' = [mt EXCEPT ![t] = d],
         refs = Cardinality(Pointers), refs' = refs - M!Unk(t) + IF d.pUnk THEN 1 ELSE 0
  PROVE  refs' = Cardinality(Pointers')
<1>1. mt'[t] = d /\ \A u \in Objects : u # t => mt'[u] = mt[u]
  BY DEF TypeShape
<1>2. IsFiniteSet(Pointers) /\ IsFiniteSet(Pointers')
  BY FiltersAssumption, FS_Subset DEF Pointers
<1>3. Cardinality(Pointers) \in Nat
  BY <1>2, FS_CardinalityType
<1>4. t \in Pointers <=> mt[t].pUnk
  BY DEF Pointers
<1>5. CASE d.pUnk /\ ~mt[t].pUnk
  <2>1. Pointers' = Pointers \cup {t} /\ t \notin Pointers
    BY <1>1, <1>5 DEF Pointers
  <2>2. Cardinality(Pointers') = Cardinality(Pointers) + 1
    BY <1>2, <2>1, FS_AddElement
  <2> QED
    BY <1>3, <1>5, <2>2 DEF M!Unk
<1>6. CASE ~d.pUnk /\ mt[t].pUnk
  <2>1. Pointers' = Pointers \ {t} /\ t \in Pointers
    BY <1>1, <1>6 DEF Pointers
  <2>2. Cardinality(Pointers') = Cardinality(Pointers) - 1
    BY <1>2, <2>1, FS_RemoveElement
  <2> QED
    BY <1>3, <1>6, <2>2 DEF M!Unk
<1>7. CASE (d.pUnk /\ mt[t].pUnk) \/ (~d.pUnk /\ ~mt[t].pUnk)
  <2>1. Pointers' = Pointers
    BY <1>1, <1>7 DEF Pointers
  <2> QED
    BY <1>3, <1>7, <2>1 DEF M!Unk
<1> QED
  BY <1>5, <1>6, <1>7

\* CoTaskMemAlloc returns a free block, or none.
LEMMA AllocatedFree ==
  ASSUME NEW h, NEW b \in M!Allocated(h)
  PROVE  b = None \/ (b \in Blocks /\ h[b] = <<>>)
<1>1. CASE \E c \in Blocks : h[c] = <<>>
  <2>1. PICK c : c = CHOOSE e \in Blocks : h[e] = <<>>
    OBVIOUS
  <2>2. c \in Blocks /\ h[c] = <<>>
    BY <1>1, <2>1, Zenon
  <2> QED
    BY <1>1, <2>1, <2>2 DEF M!Allocated
<1>2. CASE ~\E c \in Blocks : h[c] = <<>>
  BY <1>2 DEF M!Allocated
<1> QED
  BY <1>1, <1>2

\* The bytes of a type's format, and those after a shorter one.
LEMMA FormatLength ==
  ASSUME TypeShape, NEW t \in Objects
  PROVE  /\ M!Format(t) \in Seq(Byte) /\ Len(M!Format(t)) = mt[t].cbFormat
         /\ \A n \in Nat : n <= mt[t].cbFormat =>
              M!After(t, n) \in Seq(Byte) /\ Len(M!After(t, n)) = mt[t].cbFormat - n
<1>0. mt[t].cbFormat \in Nat
  BY DEF TypeShape, MediaTypes
<1>1. M!Format(t) \in Seq(Byte) /\ Len(M!Format(t)) = mt[t].cbFormat
  <2>1. CASE mt[t].cbFormat = 0
    BY <2>1 DEF M!Format
  <2>2. CASE mt[t].cbFormat # 0
    <3>1. PICK f : f = heap[mt[t].pbFormat]
      OBVIOUS
    <3>2. f \in Seq(Byte) /\ Len(f) = mt[t].cbFormat
      BY <2>2, <3>1 DEF TypeShape, OwnedOnce
    <3>3. SubSeq(f, 1, Len(f)) \in Seq(Byte) /\ Len(SubSeq(f, 1, Len(f))) = Len(f)
      BY <3>2
    <3> QED
      BY <2>2, <3>1, <3>2, <3>3 DEF M!Format
  <2> QED
    BY <2>1, <2>2
<1>2. ASSUME NEW n \in Nat, n <= mt[t].cbFormat
      PROVE  M!After(t, n) \in Seq(Byte) /\ Len(M!After(t, n)) = mt[t].cbFormat - n
  <2>1. PICK f : f = M!Format(t)
    OBVIOUS
  <2>2. PICK c : c = mt[t].cbFormat
    OBVIOUS
  <2>3. f \in Seq(Byte) /\ Len(f) = c /\ c \in Nat /\ n <= c
    BY <1>0, <1>1, <1>2, <2>1, <2>2
  <2>4. SubSeq(f, n + 1, c) \in Seq(Byte)
    BY <2>3
  <2>5. Len(SubSeq(f, n + 1, c)) = c - n
    BY <2>3
  <2> QED
    BY <2>1, <2>2, <2>4, <2>5 DEF M!After
<1> QED
  BY <1>1, <1>2

\* A step that leaves the pointer of the type it changes keeps the count.
LEMMA SamePointer ==
  ASSUME TypeInv, TypeShape', NEW t \in Objects, NEW d \in MediaTypes, mt' = [mt EXCEPT ![t] = d],
         d.pUnk = mt[t].pUnk, UNCHANGED <<refs, unpaid>>
  PROVE  TypeInv'
<1>1. Pointers' = Pointers
  BY DEF TypeInv, TypeShape, Pointers
<1>2. unpaid' \in BOOLEAN
  BY Zenon DEF TypeInv
<1> QED
  BY <1>1, <1>2 DEF TypeInv

LEMMA CountIsNat == TypeInv /\ ~unpaid => refs \in Int
BY FiltersAssumption, FS_Subset, FS_CardinalityType DEF TypeInv, Pointers

LEMMA InitIsType == M!InitMediaType \in MediaTypes /\ M!InitMediaType.cbFormat = 0 /\ M!InitMediaType.pUnk = FALSE
BY DEF M!InitMediaType, MediaTypes

LEMMA FreeStep ==
  ASSUME TypeInv, ~unpaid, NEW t \in Objects, M!FreeMediaType(t) PROVE TypeInv'
<1>1. TypeShape'
  BY InitIsType, GivesBack DEF TypeInv, M!FreeMediaType
<1>2. refs' = refs - M!Unk(t) + IF M!InitMediaType.pUnk THEN 1 ELSE 0
  BY InitIsType, CountIsNat DEF M!FreeMediaType, M!Unk
<1>3. refs' = Cardinality(Pointers')
  BY <1>2, InitIsType, CountsReference DEF TypeInv, M!FreeMediaType
<1>4. unpaid' \in BOOLEAN
  BY Zenon DEF TypeInv, M!FreeMediaType
<1> QED
  BY <1>1, <1>3, <1>4 DEF TypeInv

LEMMA GuidsStep == ASSUME TypeInv, NEW t \in Objects, M!SetGuids(t) PROVE TypeInv'
<1>1. PICK g \in GUID : \/ mt' = [mt EXCEPT ![t].majortype = g]
                        \/ mt' = [mt EXCEPT ![t].subtype = g]
                        \/ mt' = [mt EXCEPT ![t].formattype = g]
  BY DEF M!SetGuids
<1>2. PICK d : \/ d = [mt[t] EXCEPT !.majortype = g] /\ mt' = [mt EXCEPT ![t] = d]
               \/ d = [mt[t] EXCEPT !.subtype = g] /\ mt' = [mt EXCEPT ![t] = d]
               \/ d = [mt[t] EXCEPT !.formattype = g] /\ mt' = [mt EXCEPT ![t] = d]
  BY <1>1
<1>3. mt[t] \in MediaTypes
  BY DEF TypeInv, TypeShape
<1>4. /\ d \in MediaTypes /\ d.cbFormat = mt[t].cbFormat /\ d.pbFormat = mt[t].pbFormat
      /\ d.pUnk = mt[t].pUnk
  BY <1>2, <1>3 DEF MediaTypes
<1>5. mt' = [mt EXCEPT ![t] = d]
  BY <1>2
<1>6. heap' = heap /\ UNCHANGED <<refs, unpaid>>
  BY DEF M!SetGuids
<1>7. TypeShape'
  BY <1>4, <1>5, <1>6, KeepsBlock DEF TypeInv
<1> QED
  BY <1>4, <1>5, <1>6, <1>7, SamePointer

LEMMA UnkStep == ASSUME TypeInv, ~unpaid, NEW t \in Objects, M!SetUnk(t) PROVE TypeInv'
<1>1. PICK d : d = [mt[t] EXCEPT !.pUnk = TRUE]
  OBVIOUS
<1>2. mt[t] \in MediaTypes
  BY DEF TypeInv, TypeShape
<1>3. d \in MediaTypes /\ d.cbFormat = mt[t].cbFormat /\ d.pbFormat = mt[t].pbFormat /\ d.pUnk = TRUE
  BY <1>1, <1>2 DEF MediaTypes
<1>4. mt' = [mt EXCEPT ![t] = d] /\ heap' = heap /\ unpaid' = unpaid /\ ~mt[t].pUnk /\ refs' = refs + 1
  BY <1>1 DEF M!SetUnk
<1>5. TypeShape'
  BY <1>3, <1>4, KeepsBlock DEF TypeInv
<1>6. refs' = refs - M!Unk(t) + IF d.pUnk THEN 1 ELSE 0
  BY <1>3, <1>4, CountIsNat DEF M!Unk
<1>7. refs' = Cardinality(Pointers')
  BY <1>3, <1>4, <1>6, CountsReference DEF TypeInv
<1>8. unpaid' \in BOOLEAN
  BY <1>4, Zenon DEF TypeInv
<1> QED
  BY <1>5, <1>7, <1>8 DEF TypeInv

\* SetFormat and ReallocFormatBuffer get a block.
LEMMA NewBlock ==
  ASSUME TypeInv, NEW t \in Objects, NEW length \in FormatLengths, NEW b \in M!Allocated(heap), b # None,
         NEW bytes \in [1..length -> Byte], heap' = M!Filled(M!Freed(t), b, bytes),
         mt' = [mt EXCEPT ![t].cbFormat = length, ![t].pbFormat = b], UNCHANGED <<refs, unpaid>>
  PROVE  TypeInv'
<1>1. PICK d : d = [mt[t] EXCEPT !.cbFormat = length, !.pbFormat = b]
  OBVIOUS
<1>2. mt[t] \in MediaTypes /\ mt \in [Objects -> MediaTypes]
  BY DEF TypeInv, TypeShape
<1>3. length \in Nat /\ length # 0 /\ b \in Blocks /\ heap[b] = <<>>
  BY FiltersAssumption, AllocatedFree
<1>4. d \in MediaTypes /\ d.cbFormat = length /\ d.pbFormat = b /\ d.pUnk = mt[t].pUnk
  BY <1>1, <1>2, <1>3 DEF MediaTypes
<1>5. mt' = [mt EXCEPT ![t] = d]
  BY <1>1, <1>2 DEF MediaTypes
<1>6. bytes \in Seq(Byte) /\ Len(bytes) = length
  BY <1>3
<1>7. M!Freed(t)[b] = <<>>
  BY <1>3, FreedShape DEF TypeInv
<1>8. d.cbFormat # 0 /\ Len(bytes) = d.cbFormat /\ TypeShape
  BY <1>3, <1>4, <1>6 DEF TypeInv
<1>9. TypeShape'
  BY <1>3, <1>4, <1>5, <1>6, <1>7, <1>8, TakesBlock, Zenon
<1> QED
  BY <1>4, <1>5, <1>9, SamePointer

LEMMA FormatStep == ASSUME TypeInv, NEW t \in Objects, M!SetFormat(t) PROVE TypeInv'
<1>1. PICK length \in FormatLengths, b \in M!Allocated(heap) : \E bytes \in [1..length -> Byte] :
        /\ \/ /\ M!Reused(t, length, b)
              /\ heap' = M!Filled(heap, mt[t].pbFormat, bytes \o M!After(t, length)) /\ UNCHANGED mt
           \/ /\ ~M!Reused(t, length, b) /\ b # None /\ heap' = M!Filled(M!Freed(t), b, bytes)
              /\ mt' = [mt EXCEPT ![t].cbFormat = length, ![t].pbFormat = b]
        /\ UNCHANGED <<refs, unpaid>>
  BY DEF M!SetFormat
<1>2. PICK bytes \in [1..length -> Byte] :
        \/ /\ M!Reused(t, length, b)
           /\ heap' = M!Filled(heap, mt[t].pbFormat, bytes \o M!After(t, length)) /\ UNCHANGED mt
        \/ /\ b # None /\ heap' = M!Filled(M!Freed(t), b, bytes)
           /\ mt' = [mt EXCEPT ![t].cbFormat = length, ![t].pbFormat = b]
  BY <1>1
<1>3. UNCHANGED <<refs, unpaid>>
  BY <1>1
<1>4. CASE b # None /\ heap' = M!Filled(M!Freed(t), b, bytes)
           /\ mt' = [mt EXCEPT ![t].cbFormat = length, ![t].pbFormat = b]
  BY <1>3, <1>4, NewBlock
<1>5. CASE /\ M!Reused(t, length, b)
           /\ heap' = M!Filled(heap, mt[t].pbFormat, bytes \o M!After(t, length)) /\ UNCHANGED mt
  <2>1. PICK d : d = mt[t]
    OBVIOUS
  <2>2. d \in MediaTypes /\ mt' = [mt EXCEPT ![t] = d] /\ d.cbFormat \in Nat
    BY <1>5, <2>1 DEF TypeInv, TypeShape, MediaTypes
  <2>3. length \in Nat /\ length # 0 /\ length <= d.cbFormat /\ d.cbFormat # 0
    BY <1>5, <2>1, <2>2, FiltersAssumption DEF M!Reused
  <2>4. M!After(t, length) \in Seq(Byte) /\ Len(M!After(t, length)) = d.cbFormat - length
    BY <2>1, <2>3, FormatLength DEF TypeInv
  <2>5. bytes \in Seq(Byte) /\ Len(bytes) = length
    BY <2>3
  <2>6. PICK new : new = bytes \o M!After(t, length)
    OBVIOUS
  <2>7. new \in Seq(Byte) /\ Len(new) = d.cbFormat
    BY <2>2, <2>3, <2>4, <2>5, <2>6
  <2>8. TypeShape'
    BY <1>5, <2>1, <2>2, <2>3, <2>6, <2>7, KeepsBlock DEF TypeInv
  <2> QED
    BY <1>3, <2>1, <2>2, <2>8, SamePointer
<1> QED
  BY <1>2, <1>4, <1>5

LEMMA ReallocStep == ASSUME TypeInv, NEW t \in Objects, M!ReallocFormatBuffer(t) PROVE TypeInv'
BY NewBlock DEF M!ReallocFormatBuffer, M!Replaced

LEMMA ResetStep == ASSUME TypeInv, NEW t \in Objects, M!ResetFormatBuffer(t) PROVE TypeInv'
<1>1. PICK d : d = [mt[t] EXCEPT !.cbFormat = 0, !.pbFormat = None]
  OBVIOUS
<1>2. mt[t] \in MediaTypes /\ mt \in [Objects -> MediaTypes]
  BY DEF TypeInv, TypeShape
<1>3. d \in MediaTypes /\ d.cbFormat = 0 /\ d.pUnk = mt[t].pUnk
  BY <1>1, <1>2 DEF MediaTypes
<1>4. mt' = [mt EXCEPT ![t] = d] /\ heap' = M!Freed(t) /\ UNCHANGED <<refs, unpaid>>
  BY <1>1, <1>2 DEF M!ResetFormatBuffer, MediaTypes
<1>5. TypeShape'
  BY <1>3, <1>4, GivesBack DEF TypeInv
<1> QED
  BY <1>3, <1>4, <1>5, SamePointer

\* Set: what the type had is given back before there is a block for the copy.
LEMMA SetStep ==
  ASSUME TypeInv, ~unpaid, NEW t \in Objects, NEW u \in Objects, M!Set(t, u) PROVE TypeInv'
<1>1. PICK b \in M!Allocated(M!Freed(t)) :
        /\ mt' = [mt EXCEPT ![t] = M!CopyMediaType(u, b)]
        /\ heap' = IF mt[u].cbFormat = 0 \/ b = None THEN M!Freed(t) ELSE M!Filled(M!Freed(t), b, M!Format(u))
        /\ refs' = refs - M!Unk(t) + M!CopyRefs(u, b)
        /\ unpaid' = (unpaid \/ (M!Failed(u, b) /\ mt[u].pUnk))
  BY DEF M!Set
<1>2. mt[u] \in MediaTypes /\ mt[u].cbFormat \in Nat
  BY DEF TypeInv, TypeShape, MediaTypes
<1>3. PICK d : d = M!CopyMediaType(u, b)
  OBVIOUS
<1>4. mt' = [mt EXCEPT ![t] = d]
  BY <1>1, <1>3
<1>5. b = None \/ (b \in Blocks /\ M!Freed(t)[b] = <<>>)
  BY AllocatedFree
<1>6. b \in Blocks \cup {None} /\ (b \in Blocks => b # None)
  BY <1>5, FiltersAssumption
<1>7. CASE M!Failed(u, b)
  <2>1. d = [mt[u] EXCEPT !.cbFormat = 0, !.pbFormat = None]
    BY <1>3, <1>7 DEF M!CopyMediaType, M!Failed
  <2>2. d \in MediaTypes /\ d.cbFormat = 0 /\ d.pUnk = mt[u].pUnk
    BY <1>2, <2>1 DEF MediaTypes
  <2>3. heap' = M!Freed(t) /\ refs' = refs - M!Unk(t) + 0
    BY <1>1, <1>7 DEF M!Failed, M!CopyRefs
  <2>4. TypeShape'
    BY <1>4, <2>2, <2>3, GivesBack DEF TypeInv
  <2>5. unpaid' \in BOOLEAN /\ (unpaid' <=> mt[u].pUnk)
    BY <1>1, <1>7, Zenon DEF TypeInv
  <2>6. ~mt[u].pUnk => refs' = Cardinality(Pointers')
    BY <1>4, <2>2, <2>3, CountsReference DEF TypeInv
  <2> QED
    BY <2>4, <2>5, <2>6 DEF TypeInv
<1>8. CASE ~M!Failed(u, b)
  <2>1. d = [mt[u] EXCEPT !.pbFormat = IF mt[u].cbFormat = 0 THEN @ ELSE b]
    BY <1>3, <1>8 DEF M!CopyMediaType, M!Failed
  <2>2. d \in MediaTypes /\ d.cbFormat = mt[u].cbFormat /\ d.pUnk = mt[u].pUnk
        /\ (mt[u].cbFormat # 0 => d.pbFormat = b)
    BY <1>2, <1>6, <2>1 DEF MediaTypes
  <2>3. refs' = refs - M!Unk(t) + IF d.pUnk THEN 1 ELSE 0
    BY <1>1, <1>8, <2>2 DEF M!CopyRefs, M!Unk
  <2>4. refs' = Cardinality(Pointers')
    BY <1>4, <2>2, <2>3, CountsReference DEF TypeInv
  <2>5. unpaid' = FALSE
    BY <1>1, <1>8, Zenon DEF TypeInv
  <2>6. CASE mt[u].cbFormat = 0
    BY <1>1, <1>4, <2>2, <2>4, <2>5, <2>6, GivesBack DEF TypeInv
  <2>7. CASE mt[u].cbFormat # 0
    <3>1. b # None /\ b \in Blocks /\ M!Freed(t)[b] = <<>>
      BY <1>5, <1>8, <2>7 DEF M!Failed
    <3>2. heap' = M!Filled(M!Freed(t), b, M!Format(u))
      BY <1>1, <2>7, <3>1
    <3>3. M!Format(u) \in Seq(Byte) /\ Len(M!Format(u)) = d.cbFormat
      BY <2>2, FormatLength DEF TypeInv
    <3>4. TypeShape'
      BY <1>4, <2>2, <2>7, <3>1, <3>2, <3>3, TakesBlock DEF TypeInv
    <3> QED
      BY <2>4, <2>5, <3>4 DEF TypeInv
  <2> QED
    BY <2>6, <2>7
<1> QED
  BY <1>7, <1>8

LEMMA TypeStart == M!TypeInit => TypeInv
<1> SUFFICES ASSUME M!TypeInit PROVE TypeInv
  OBVIOUS
<1>1. TypeShape
  BY InitIsType DEF M!TypeInit, TypeShape, OwnedOnce
<1>2. Pointers = {}
  BY InitIsType DEF M!TypeInit, Pointers
<1>3. Cardinality({}) = 0
  BY FS_EmptySet
<1>4. unpaid = FALSE /\ refs = 0
  BY DEF M!TypeInit
<1> QED
  BY <1>1, <1>2, <1>3, <1>4 DEF TypeInv

LEMMA TypeStep == TypeInv /\ M!TypeNext => TypeInv'
BY FreeStep, GuidsStep, UnkStep, FormatStep, ReallocStep, ResetStep, SetStep DEF M!TypeNext, M!CreateMediaType

LEMMA TypeKept == TypeInv /\ UNCHANGED typeVars => TypeInv'
BY DEF typeVars, TypeInv, TypeShape, OwnedOnce, Owns, Pointers

LEMMA TypesAreHeld == TypeInv => M!TypesHold
<1> SUFFICES ASSUME TypeInv PROVE M!TypesHold
  OBVIOUS
<1>1. ASSUME NEW b \in Blocks, heap[b] # <<>>
      PROVE  M!Cardinality({t \in Objects : mt[t].cbFormat # 0 /\ mt[t].pbFormat = b}) = 1
  <2>1. PICK t \in Objects : Owns(t, b)
    BY <1>1 DEF TypeInv, TypeShape, OwnedOnce
  <2>2. {u \in Objects : mt[u].cbFormat # 0 /\ mt[u].pbFormat = b} = {t}
    BY <2>1 DEF TypeInv, TypeShape, OwnedOnce, Owns
  <2>3. Cardinality({t}) = 1
    BY FS_Singleton
  <2> QED
    BY <2>2, <2>3, SameCount
<1>2. \A t \in Objects : mt[t].cbFormat # 0 => Len(heap[mt[t].pbFormat]) = mt[t].cbFormat
  BY DEF TypeInv, TypeShape, OwnedOnce
<1>3. M!UnkCounted
  BY SameCount DEF M!UnkCounted, TypeInv, Pointers
<1>4. M!MatchesEquals
  BY DEF M!MatchesEquals, M!Equal, M!MatchesPartial, M!IsPartiallySpecified
<1> QED
  BY <1>1, <1>2, <1>3, <1>4 DEF M!TypesHold, M!FormatsOwned

-----------------------------------------------------------------------------
(* All of them.                                                             *)

LEMMA IInvInit == Init => IInv
BY TrStart, InPlaceStart, RegStart, SampleStart, TypeStart DEF Init, IInv

LEMMA IInvStep == IInv /\ [Next]_vars => IInv'
<1> SUFFICES ASSUME IInv, [Next]_vars PROVE IInv'
  OBVIOUS
<1> USE DEF IInv
<1>1. CASE NextTransform
  BY <1>1, TrStep, InPlaceKept, RegKept, SampleKept, TypeKept DEF NextTransform, dataVars
<1>2. CASE NextInPlace
  BY <1>2, InPlaceStep, TrKept, RegKept, SampleKept, TypeKept DEF NextInPlace, dataVars
<1>3. CASE NextRegistration
  BY <1>3, RegStep, TrKept, InPlaceKept, SampleKept, TypeKept DEF NextRegistration, dataVars
<1>4. CASE NextSample
  BY <1>4, SampleStep, TrKept, InPlaceKept, RegKept, TypeKept DEF NextSample
<1>5. CASE NextType
  BY <1>5, TypeStep, TrKept, InPlaceKept, RegKept, SampleKept DEF NextType
<1>6. CASE UNCHANGED vars
  BY <1>6, TrKept, InPlaceKept, RegKept, SampleKept, TypeKept DEF vars, dataVars
<1> QED
  BY <1>1, <1>2, <1>3, <1>4, <1>5, <1>6 DEF Next

LEMMA FiltersInvariant == Spec => []IInv
<1>1. Init /\ [][Next]_vars => []IInv
  BY IInvInit, IInvStep, PTL
<1> QED
  BY <1>1, PTL DEF Spec

\* CTransformFilter::Receive, EndOfStream, EndFlush and CVideoTransformFilter::EndFlush: nothing that came in
\* before a flush reaches the renderer after it, and a renderer without input is told so once per run, however
\* the threads interleave, with any number of buffers and flushes.
THEOREM StreamAlwaysHolds == Spec => []StreamHolds
<1>1. IInv => StreamHolds
  BY TrHolds DEF IInv
<1> QED
  BY <1>1, FiltersInvariant, PTL

\* CTransInPlaceInputPin::NotifyAllocator, CTransInPlaceFilter::Copy, CompleteConnect: in whatever order pins are
\* connected, reconnected and disconnected, Transform never writes into read-only buffers, downstream gets
\* samples of the allocator and the type it agreed to, and copies fit; for all types and sizes.
THEOREM AllocatorAlwaysHolds == Spec => []AllocatorHolds
<1>1. IInv => AllocatorHolds
  BY InPlaceHolds DEF IInv
<1> QED
  BY <1>1, FiltersInvariant, PTL

\* DllRegUnregServer, AMovieDllRegisterServer2, EliminateSubKey: whatever calls failed or were killed before, one
\* that reports success leaves exactly what it should, and no filter is listed without its server unless an
\* unregistration was cut short.
THEOREM RegistrationAlwaysHolds == Spec => []RegistrationHolds
<1>1. IInv => RegistrationHolds
  BY DEF IInv, RegInv
<1> QED
  BY <1>1, FiltersInvariant, PTL

\* CMediaSample::Release, SetProperties and the setters: the type of a sample is owned and flagged, and no user
\* of it gets what an earlier one has set; for any number of uses, flags and lengths.
THEOREM SampleAlwaysHolds == Spec => []SampleHolds
<1>1. IInv => SampleHolds
  BY DEF IInv, SampleInv
<1> QED
  BY <1>1, FiltersInvariant, PTL

\* CopyMediaType, FreeMediaType, CMediaType::AllocFormatBuffer and the others: a format belongs to one type,
\* which knows its length, references are counted, and types match as they compare, whichever allocation fails;
\* for any number of types and blocks and all formats.
THEOREM TypesAlwaysHold == Spec => []TypesHold
<1>1. IInv => TypesHold
  BY TypesAreHeld DEF IInv, TypesHold
<1> QED
  BY <1>1, FiltersInvariant, PTL
============================================================================
