----------------------------- MODULE ComObjects -----------------------------
(***************************************************************************)
(* CClassFactory (baseclasses/dllentry.cpp), CBaseObject and CUnknown      *)
(* (baseclasses/combase.cpp): reference counts of a class factory and of   *)
(* the object it makes, and when the DLL may be unloaded.  Clients are     *)
(* threads; they hand interfaces to one another.                           *)
(***************************************************************************)
EXTENDS Integers, FiniteSetsExt, Functions

CONSTANTS Clients,
          MaxRefs      \* bound: no reference is added at this count

VARIABLES loaded, m_cLocked, m_cObjects,
          factory, object,     \* [m_cRef, alive]
          fheld, oheld, locks, \* references and locks each client has
          cpc,                 \* what each client is in
          temp,                \* an inner object of what it makes or destroys has a reference to it
          seen,                \* a count it has read and is about to write back, one more or less
          dtors,               \* history: how often the object's destructor was entered
          raced                \* history: counts that were changed between

dll      == <<loaded, m_cLocked, m_cObjects>>
comVars  == <<dll, factory, object, fheld, oheld, locks, cpc, temp, seen, dtors, raced>>

Gone == [m_cRef |-> 0, alive |-> FALSE]

ComInit == /\ loaded = TRUE /\ m_cLocked = 0 /\ m_cObjects = 0
           /\ factory = Gone /\ object = Gone
           /\ fheld = [c \in Clients |-> 0] /\ oheld = [c \in Clients |-> 0] /\ locks = [c \in Clients |-> 0]
           /\ cpc = [c \in Clients |-> "idle"] /\ seen = [c \in Clients |-> 0]
           /\ temp = FALSE /\ dtors = 0 /\ raced = {}

Idle(c) == loaded /\ cpc[c] = "idle"
Held(f) == \E c \in Clients : f[c] > 0

\* Another client is between reading a count and writing it back.
Disturbs(c, calls, count) ==
  raced' = IF \E d \in Clients \ {c} : cpc[d] \in calls THEN raced \cup {count} ELSE raced

\* A new factory, with one reference that nobody else knows of; the model follows the newest,
\* once the one before is deleted, or is lost with a count too high.
DllGetClassObject(c) ==
  /\ Idle(c) /\ (factory.alive => ~Held(fheld))
  /\ factory' = [m_cRef |-> 1, alive |-> TRUE] /\ m_cObjects' = m_cObjects + 1
  /\ fheld' = [d \in Clients |-> IF d = c THEN 1 ELSE 0]
  /\ UNCHANGED <<loaded, m_cLocked, object, oheld, locks, cpc, seen, dtors, raced, temp>>

\* ++m_cRef, on two processors, is a read and a write (bounded: not after a race).
AddRef(c) ==
  /\ Idle(c) /\ factory.alive /\ fheld[c] > 0 /\ factory.m_cRef < MaxRefs /\ "m_cRef" \notin raced
  /\ seen' = [seen EXCEPT ![c] = factory.m_cRef] /\ cpc' = [cpc EXCEPT ![c] = "AddRef"]
  /\ UNCHANGED <<dll, factory, object, fheld, oheld, locks, dtors, raced, temp>>

\* The reference is the caller's own or given to another client.
AddRefWrite(c) ==
  /\ cpc[c] = "AddRef" /\ cpc' = [cpc EXCEPT ![c] = "idle"] /\ seen' = [seen EXCEPT ![c] = 0]
  /\ factory' = IF factory.alive THEN [factory EXCEPT !.m_cRef = seen[c] + 1] ELSE factory
  /\ \E d \in Clients : fheld' = [fheld EXCEPT ![d] = @ + 1]
  /\ Disturbs(c, {"AddRef"}, "m_cRef")
  /\ UNCHANGED <<dll, object, oheld, locks, dtors, temp>>

Release(c) ==
  /\ Idle(c) /\ factory.alive /\ fheld[c] > 0 /\ fheld' = [fheld EXCEPT ![c] = @ - 1]
  /\ factory' = IF factory.m_cRef = 1 THEN Gone ELSE [factory EXCEPT !.m_cRef = @ - 1]
  /\ m_cObjects' = IF factory.m_cRef = 1 THEN m_cObjects - 1 ELSE m_cObjects
  /\ Disturbs(c, {"AddRef"}, "m_cRef")
  /\ UNCHANGED <<loaded, m_cLocked, object, oheld, locks, cpc, seen, dtors, temp>>

\* m_cLocked++ or --; what it is after a race is not followed further.
LockServer(c) ==
  /\ Idle(c) /\ factory.alive /\ fheld[c] > 0 /\ "m_cLocked" \notin raced
  /\ \/ locks[c] = 0 /\ cpc' = [cpc EXCEPT ![c] = "Lock"]
     \/ locks[c] > 0 /\ cpc' = [cpc EXCEPT ![c] = "Unlock"]
  /\ seen' = [seen EXCEPT ![c] = m_cLocked]
  /\ UNCHANGED <<dll, factory, object, fheld, oheld, locks, dtors, raced, temp>>

LockServerWrite(c) ==
  /\ cpc[c] \in {"Lock", "Unlock"} /\ cpc' = [cpc EXCEPT ![c] = "idle"] /\ seen' = [seen EXCEPT ![c] = 0]
  /\ m_cLocked' = IF cpc[c] = "Lock" THEN seen[c] + 1 ELSE seen[c] - 1
  /\ locks' = [locks EXCEPT ![c] = IF cpc[c] = "Lock" THEN 1 ELSE 0]
  /\ Disturbs(c, {"Lock", "Unlock"}, "m_cLocked")
  /\ UNCHANGED <<loaded, m_cObjects, factory, object, fheld, oheld, dtors, temp>>

-----------------------------------------------------------------------------
\* The references of the object during its first QueryInterface.
NonDelegatingAddRef == 1

\* CreateInstance: the object is made, or not, or made and deleted at once.
CreateInstance(c) ==
  /\ Idle(c) /\ factory.alive /\ fheld[c] > 0 /\ ~object.alive
  /\ object' = [m_cRef |-> NonDelegatingAddRef, alive |-> TRUE] /\ m_cObjects' = m_cObjects + 1
  /\ cpc' = [cpc EXCEPT ![c] = "CreateInstance"] /\ dtors' = 0
  /\ UNCHANGED <<loaded, m_cLocked, factory, fheld, oheld, locks, seen, raced, temp>>

\* Mutant: the count stays at zero in the destructor.
Dying_AtZero == 0

\* The count in the destructor, so that a temporary reference does not end at zero again.
Dying == 1

\* The last reference is gone: "delete this".
Deleted(o) == IF o.m_cRef = 0 THEN [o EXCEPT !.m_cRef = Dying] ELSE o

\* InterlockedDecrement, and what the last one leads to.
Decrement(c) ==
  /\ object' = Deleted([object EXCEPT !.m_cRef = @ - 1])
  /\ IF object.m_cRef = 1 THEN dtors' = dtors + 1 /\ cpc' = [cpc EXCEPT ![c] = "destructor"]
     ELSE UNCHANGED <<dtors, cpc>>

\* While it is asked for an interface, or destroyed, an inner object may take a reference to it.
TakeReference(c) ==
  /\ cpc[c] \in {"CreateInstance", "destructor"} /\ ~temp /\ dtors < 2
  /\ temp' = TRUE /\ object' = [object EXCEPT !.m_cRef = @ + 1]
  /\ UNCHANGED <<dll, factory, fheld, oheld, locks, cpc, seen, dtors, raced>>

\* It drops it, before the call or the destructor goes on.
DropReference(c) ==
  /\ cpc[c] \in {"CreateInstance", "destructor"} /\ temp
  /\ temp' = FALSE /\ Decrement(c)
  /\ UNCHANGED <<dll, factory, fheld, oheld, locks, seen, raced>>

\* NonDelegatingQueryInterface and the release after it.
QueryInterface(c) ==
  /\ cpc[c] = "CreateInstance" /\ ~temp
  /\ \/ /\ object' = [object EXCEPT !.m_cRef = @ + 1 - NonDelegatingAddRef]
        /\ oheld' = [oheld EXCEPT ![c] = 1] /\ cpc' = [cpc EXCEPT ![c] = "idle"] /\ UNCHANGED dtors
     \/ /\ object' = Deleted([object EXCEPT !.m_cRef = 0]) /\ dtors' = dtors + 1
        /\ cpc' = [cpc EXCEPT ![c] = "destructor"] /\ UNCHANGED oheld
  /\ UNCHANGED <<dll, factory, fheld, locks, seen, raced, temp>>

\* InterlockedIncrement, for itself or for another client.
ObjectAddRef(c) ==
  /\ Idle(c) /\ oheld[c] > 0 /\ object.m_cRef < MaxRefs
  /\ object' = [object EXCEPT !.m_cRef = @ + 1]
  /\ \E d \in Clients : oheld' = [oheld EXCEPT ![d] = @ + 1]
  /\ UNCHANGED <<dll, factory, fheld, locks, cpc, seen, dtors, raced, temp>>

NonDelegatingRelease(c) ==
  /\ Idle(c) /\ oheld[c] > 0 /\ oheld' = [oheld EXCEPT ![c] = @ - 1]
  /\ Decrement(c)
  /\ UNCHANGED <<dll, factory, fheld, locks, seen, raced, temp>>

Destroyed(c) ==
  /\ cpc[c] = "destructor" /\ ~temp /\ cpc' = [cpc EXCEPT ![c] = "idle"]
  /\ object' = Gone /\ m_cObjects' = m_cObjects - 1
  /\ UNCHANGED <<loaded, m_cLocked, factory, fheld, oheld, locks, seen, dtors, raced, temp>>

-----------------------------------------------------------------------------
DllCanUnloadNow == m_cLocked <= 0 /\ m_cObjects = 0

\* COM unloads the DLL, with its statics, and loads it again when a class is asked for.
Unload == loaded /\ DllCanUnloadNow /\ loaded' = FALSE
          /\ UNCHANGED <<m_cLocked, m_cObjects, factory, object, fheld, oheld, locks, cpc, seen, dtors, raced, temp>>

DllEntryPoint == /\ ~loaded /\ loaded' = TRUE /\ m_cLocked' = 0 /\ m_cObjects' = 0
                 /\ UNCHANGED <<factory, object, fheld, oheld, locks, cpc, seen, dtors, raced, temp>>

ComNext == \/ \E c \in Clients : \/ DllGetClassObject(c) \/ AddRef(c) \/ AddRefWrite(c) \/ Release(c)
                                 \/ LockServer(c) \/ LockServerWrite(c)
                                 \/ CreateInstance(c) \/ TakeReference(c) \/ DropReference(c) \/ QueryInterface(c)
                                 \/ ObjectAddRef(c) \/ NonDelegatingRelease(c) \/ Destroyed(c)
           \/ Unload \/ DllEntryPoint

-----------------------------------------------------------------------------
\* CClassFactory: a factory somebody holds is not deleted, unless two threads changed its count
\* at once, which AddRef, unlike Release, is not proof against.
FactoryKept == "m_cRef" \notin raced => (Held(fheld) => factory.alive)

\* CUnknown: an object somebody holds, or is about to get, is not being destroyed, and however
\* its interfaces are asked for and dropped its destructor runs once.
ObjectKept == /\ Held(oheld) \/ (\E c \in Clients : cpc[c] = "CreateInstance") => object.alive /\ dtors = 0
              /\ dtors <= 1

\* DllCanUnloadNow: no factory or object outlives the DLL, and no lock does, unless two
\* threads changed a count at once.
UnloadSafe == ~loaded => /\ ~object.alive /\ ~factory.alive
                         /\ raced = {} => ~Held(locks)

\* Nothing is destroyed or unloaded that a client still counts on.
CountsHold == FactoryKept /\ ObjectKept /\ UnloadSafe
=============================================================================
