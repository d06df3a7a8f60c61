---------------------------- MODULE Registration ----------------------------
(***************************************************************************)
(* Registration of the filter (StupidAR/dllmain.cpp on top of              *)
(* baseclasses/dllsetup.cpp).  DllRegisterServer and DllUnregisterServer   *)
(* run DllRegUnregServer, which first lets AMovieDllRegisterServer2        *)
(* register the COM server and list the filter in the default category,    *)
(* and then moves the listing to the category of audio renderers.  Every   *)
(* call to the system may fail, and the process may be killed between two  *)
(* of them; what it has written stays.                                     *)
(*                                                                         *)
(* g_Templates has one element, so the loops over it run once.  The steps  *)
(* are named for the call about to be made.                                *)
(***************************************************************************)
EXTENDS Naturals, Sequences

VARIABLES com,      \* what is written under CLSID\{kMyFilterGuid}
          listed,   \* where the filter mapper lists the filter
          mapper2,  \* whether AMovieDllRegisterServer2 got IFilterMapper2, or only IFilterMapper
          denied,   \* what the registry refuses: opening or deleting a key
          reg,      \* the call's argument: register
          step,     \* the next call to the system
          written,  \* AMovieSetupRegisterServer: writes done
          result,   \* how the last call ended
          torn,     \* history: an unregistration has begun and none has finished
          fellBack  \* history: a registration has used IFilterMapper

mapper == <<mapper2, fellBack>>
system == <<mapper, denied>>
vars == <<com, listed, mapper2, denied, reg, step, written, result, torn, fellBack>>

\* The writes of AMovieSetupRegisterServer in their order.
Writes == <<"key", "description", "InprocServer32", "path", "ThreadingModel">>
Server == {Writes[i] : i \in DOMAIN Writes}
SubKey == {"InprocServer32", "path", "ThreadingModel"}

Categories == {"legacy", "default", "audio"}

\* The category AMovieDllRegisterServer2 lists the filter in.
SetupCategory == IF mapper2 THEN "default" ELSE "legacy"

Steps == {"idle", "module", "write", "mapper", "unlist", "list", "open", "subkey", "delete",
          "mapperAgain", "unlistDefault", "unlistAudio", "listAudio"}

Refusals == {"open", "subkey", "delete"}

Init ==
  /\ com = {} /\ listed = {} /\ mapper2 = TRUE
  /\ denied \in SUBSET Refusals
  /\ reg = FALSE /\ step = "idle" /\ written = 0
  /\ result = "none" /\ torn = FALSE /\ fellBack = FALSE

Return(r) == step' = "idle" /\ result' = r /\ written' = 0

\* The call fails and changes nothing; its HRESULT is returned.
Fail == Return("failed") /\ UNCHANGED <<com, listed, system, reg, torn>>

Goto(s) == step' = s /\ UNCHANGED <<result, written>>

\* DllRegisterServer, DllUnregisterServer.
Call(r) ==
  /\ step = "idle"
  /\ reg' = r /\ step' = "module" /\ written' = 0 /\ result' = "none"
  /\ torn' = (torn \/ ~r)
  /\ UNCHANGED <<com, listed, system>>

\* GetModuleFileNameA; servers are registered before filters and
\* unregistered after them.
GetModuleFileName ==
  /\ step = "module"
  /\ \/ Goto(IF reg THEN "write" ELSE "mapper") /\ UNCHANGED <<com, listed, system, reg, torn>>
     \/ Fail

-----------------------------------------------------------------------------
\* Mutant: the result of a write is not looked at.
AMovieSetupRegisterServer_Unchecked ==
  /\ step = "write"
  /\ \/ com' = com \cup {Writes[written + 1]}
     \/ UNCHANGED com
  /\ written' = written + 1
  /\ step' = IF written' = Len(Writes) THEN "mapper" ELSE "write"
  /\ torn' = (torn /\ step' = "write")
  /\ UNCHANGED <<listed, system, reg, result>>

AMovieSetupRegisterServer ==
  /\ step = "write"
  /\ \/ /\ com' = com \cup {Writes[written + 1]}
        /\ written' = written + 1
        /\ step' = IF written' = Len(Writes) THEN "mapper" ELSE "write"
        /\ torn' = (torn /\ step' = "write")
        /\ UNCHANGED <<listed, system, reg, result>>
     \/ Fail

\* CoCreateInstance of IFilterMapper2, or else of IFilterMapper.
CreateMapper ==
  /\ step = "mapper"
  /\ \/ /\ mapper2' \in BOOLEAN /\ fellBack' = (fellBack \/ (reg /\ ~mapper2'))
        /\ Goto("unlist") /\ UNCHANGED <<com, listed, denied, reg, torn>>
     \/ Fail

\* UnregisterFilter.  A registration does not look at its result; for an
\* unregistration "not registered" is no error.
SetupUnlist ==
  /\ step = "unlist"
  /\ \/ /\ listed' = listed \ {SetupCategory}
        /\ Goto(IF reg THEN "list" ELSE "open") /\ UNCHANGED <<com, system, reg, torn>>
     \/ reg /\ Goto("list") /\ UNCHANGED <<com, listed, system, reg, torn>>
     \/ ~reg /\ Fail

\* RegisterFilter.  0x80070002 counts as success here too; IFilterMapper may
\* fail in RegisterPin when the filter is already listed.
SetupList ==
  /\ step = "list"
  /\ \/ /\ listed' \in {listed, listed \cup {SetupCategory}}
        /\ Goto("mapperAgain") /\ UNCHANGED <<com, system, reg, torn>>
     \/ /\ ~mapper2 /\ listed' = listed \cup {SetupCategory}
        /\ Return("failed") /\ UNCHANGED <<com, system, reg, torn>>
     \/ Fail

-----------------------------------------------------------------------------
(* AMovieSetupUnregisterServer: EliminateSubKey of the class key.          *)

OpenKey ==
  /\ step = "open"
  /\ Goto(IF "key" \in com /\ "open" \notin denied THEN "subkey" ELSE "mapperAgain")
  /\ UNCHANGED <<com, listed, system, reg, torn>>

\* Delete the first subkey, until there is none.  The subkey's own
\* EliminateSubKey does not say whether it deleted it.
EliminateSubKey ==
  /\ step = "subkey"
  /\ IF "InprocServer32" \in com
     THEN com' = (IF "subkey" \in denied THEN com ELSE com \ SubKey) /\ UNCHANGED step
     ELSE step' = "delete" /\ UNCHANGED com
  /\ UNCHANGED <<listed, system, reg, result, written, torn>>

\* RegDeleteKey, whose result is not looked at.
DeleteKey ==
  /\ step = "delete"
  /\ com' = IF "delete" \in denied THEN com ELSE {}
  /\ Goto("mapperAgain") /\ UNCHANGED <<listed, system, reg, torn>>

-----------------------------------------------------------------------------
(* The rest of DllRegUnregServer.                                          *)

\* A second CoCreateInstance of IFilterMapper2, which may fail or succeed whatever the first did.
CreateMapperAgain ==
  /\ step = "mapperAgain"
  /\ \/ Goto("unlistDefault") /\ UNCHANGED <<com, listed, system, reg, torn>>
     \/ Fail

UnlistDefault ==
  /\ step = "unlistDefault"
  /\ \/ listed' = listed \ {"default"} /\ Goto("unlistAudio") /\ UNCHANGED <<com, system, reg, torn>>
     \/ Fail

UnlistAudio ==
  /\ step = "unlistAudio"
  /\ \/ /\ listed' = listed \ {"audio"}
        /\ IF reg THEN Goto("listAudio") /\ UNCHANGED torn ELSE Return("ok") /\ torn' = FALSE
        /\ UNCHANGED <<com, system, reg>>
     \/ Fail

ListAudio ==
  /\ step = "listAudio"
  /\ \/ listed' = listed \cup {"audio"} /\ Return("ok") /\ UNCHANGED <<com, system, reg, torn>>
     \/ Fail

\* The process ends between two calls.
Killed ==
  /\ step # "idle" /\ Return("killed")
  /\ UNCHANGED <<com, listed, system, reg, torn>>

SystemCall ==
  \/ GetModuleFileName \/ AMovieSetupRegisterServer \/ CreateMapper \/ SetupUnlist
  \/ SetupList \/ OpenKey \/ EliminateSubKey \/ DeleteKey \/ CreateMapperAgain
  \/ UnlistDefault \/ UnlistAudio \/ ListAudio

Next == (\E r \in BOOLEAN : Call(r)) \/ SystemCall \/ Killed

\* The system answers every call.
Fairness == WF_vars(SystemCall)

-----------------------------------------------------------------------------
TypeOK ==
  /\ com \subseteq Server /\ listed \subseteq Categories
  /\ mapper2 \in BOOLEAN /\ denied \subseteq Refusals /\ reg \in BOOLEAN /\ torn \in BOOLEAN
  /\ fellBack \in BOOLEAN
  /\ step \in Steps /\ written \in 0..Len(Writes)
  /\ result \in {"none", "ok", "failed", "killed"}

\* What a registration by IFilterMapper has listed, DllRegUnregServer neither
\* moves nor removes: it asks IFilterMapper2 for two categories.  Without such
\* a registration there is no such listing.
Shown == IF fellBack THEN listed \ {"legacy"} ELSE listed

\* Whatever failed, was killed or was left behind before, a call that
\* reports success leaves exactly what it should: the whole server and one
\* listing, under the audio renderers, or nothing, except for keys the
\* registry refuses to open or delete, which an unregistration does not
\* notice (DllRegUnregServer, EliminateSubKey), and for the listing of a
\* registration that fell back to IFilterMapper.
SuccessIsExact ==
  result = "ok" =>
    IF reg THEN com = Server /\ Shown = {"audio"}
           ELSE Shown = {} /\ (denied = {} => com = {})

\* No registration, complete, failed or killed, leaves a filter listed whose
\* server is not fully registered; only an unregistration that has not been
\* carried through may (AMovieDllRegisterServer2, DllRegUnregServer), and the
\* listing of a registration that fell back to IFilterMapper.
ListedHasServer == Shown # {} => com = Server \/ torn

\* A call returns: EliminateSubKey's loop over the first subkey ends, from
\* whatever was left behind, unless the registry refuses to delete it.
CallReturns == (step # "idle" /\ "subkey" \notin denied) ~> (step = "idle")

\* What a call leaves behind, whatever the ones before it left.
RegistrationHolds == TypeOK /\ SuccessIsExact /\ ListedHasServer
=============================================================================
