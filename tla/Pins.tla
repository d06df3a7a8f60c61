------------------------------- MODULE Pins -------------------------------
(***************************************************************************)
(* CBaseFilter, CBasePin, CBaseOutputPin and CBaseInputPin                 *)
(* (baseclasses/amfilter.cpp): how an output pin and an input pin agree a  *)
(* media type and an allocator, how a filter activates and inactivates its *)
(* pins one by one, and how samples, flushes and run-time errors reach an  *)
(* input pin.                                                              *)
(*                                                                         *)
(* The filter graph calls one method at a time, to its end, so a method is *)
(* one action; what a derived class or the other pin may refuse on the way *)
(* is the action's parameter.  The pins' own part of the state is carried  *)
(* through a method in a record s (peer, mt, alloc, input, committed).     *)
(***************************************************************************)
EXTENDS Integers, Sequences, SequencesExt

CONSTANTS Filters,
          PinsOf,      \* the pins GetPin returns for a filter, in order
          Downstream,  \* the input pin the graph connects an output pin to
          MediaTypes,
          Accepts,     \* the types CheckMediaType takes, by pin
          Proposes,    \* the types GetMediaType enumerates, by pin
          TryMine,     \* the pins with m_bTryMyTypesFirst
          Reconnects,  \* the pins with m_bCanReconnectWhenActive
          None

OutPins == DOMAIN Downstream
InPins  == {Downstream[o] : o \in OutPins}
Pin     == OutPins \cup InPins

filterOf == [p \in Pin |-> CHOOSE f \in Filters : p \in Range(PinsOf[f])]

VARIABLES m_State,                \* by filter
          m_Connected, m_mt,      \* by pin
          m_pAllocator,           \* by pin: the pin that created the allocator
          m_pInputPin,            \* the output pins that hold IMemInputPin
          committed,              \* the allocators between Commit and Decommit
          m_bFlushing, m_bRunTimeError, \* sets of input pins
          stuck,                  \* history: filters whose Pause failed half way, since
          cut                     \* history: pins the graph disconnected, since

pinVars    == <<m_Connected, m_mt, m_pAllocator, m_pInputPin, committed>>
streamVars == <<m_bFlushing, m_bRunTimeError>>
vars == <<m_State, pinVars, streamVars, stuck, cut>>

IsStopped(p) == m_State[filterOf[p]] = "Stopped"

InitFilters == m_State = [f \in Filters |-> "Stopped"] /\ stuck = {}

InitPins ==
  /\ m_Connected = [p \in Pin |-> None] /\ m_mt = [p \in Pin |-> None]
  /\ m_bRunTimeError = {} /\ cut = {}

InitOutputPins == m_pInputPin = {} /\ committed = {}

InitInputPins == m_pAllocator = [p \in Pin |-> None] /\ m_bFlushing = {}

Init == InitFilters /\ InitPins /\ InitOutputPins /\ InitInputPins

-----------------------------------------------------------------------------
(* Making a connection.                                                    *)

\* What can go wrong: the method that fails, or "Decide" and "Refuse" when
\* DecideBufferSize turns down both allocators, or only the input pin's.
Outcome == {"None", "CheckConnect", "SetMediaType", "RCheckConnect", "RSetMediaType",
            "RCompleteConnect", "Decide", "Refuse"}

Now == [peer |-> m_Connected, mt |-> m_mt, alloc |-> m_pAllocator,
        input |-> m_pInputPin, committed |-> committed]

\* CheckConnect of an output pin asks the other pin for its transport.
CheckConnect(s, o) == [s EXCEPT !.input = @ \cup {o}]

SetMediaType(s, p, mt) == [s EXCEPT !.mt[p] = mt]

\* An input pin makes an allocator when it has none, and keeps it.
GetAllocator(s, i) == [s EXCEPT !.alloc[i] = IF @ = None THEN i ELSE @]

NotifyAllocator(s, i, a) == [s EXCEPT !.alloc[i] = a]

\* BreakConnect of an output or an input pin: Decommit and let go.
BreakConnect(s, p) ==
  [s EXCEPT !.committed = @ \ {s.alloc[p]}, !.alloc[p] = None, !.input = @ \ {p}]

\* The other side of an attempt.
ReceiveConnection(s, i, o, mt, hr) ==
  LET failed   == [ok |-> FALSE, s |-> BreakConnect(s, i)]
  IN  IF s.peer[i] # None \/ (~IsStopped(i) /\ i \notin Reconnects) THEN [ok |-> FALSE, s |-> s]
      ELSE IF hr = "RCheckConnect" \/ mt \notin Accepts[i] \/ hr = "RSetMediaType" THEN failed
      ELSE IF hr = "RCompleteConnect" THEN [ok |-> FALSE, s |-> BreakConnect(SetMediaType(s, i, mt), i)]
      ELSE [ok |-> TRUE, s |-> [SetMediaType(s, i, mt) EXCEPT !.peer[i] = o]]

\* The input pin's allocator (GetAllocator makes one), else one's own; the
\* input pin is notified of the choice.
DecideAllocator(s, o, i, hr) ==
  LET s1 == GetAllocator(s, i)
  IN  CASE hr = "Decide" -> [ok |-> FALSE, s |-> s1]
        [] hr = "Refuse" -> [ok |-> TRUE, s |-> NotifyAllocator([s1 EXCEPT !.alloc[o] = o], i, o)]
        [] OTHER -> [ok |-> TRUE, s |-> NotifyAllocator([s1 EXCEPT !.alloc[o] = s1.alloc[i]], i, s1.alloc[i])]

\* Disconnect as a pin is called: nothing unless its filter is stopped.
Disconnected(s, p) ==
  IF ~IsStopped(p) \/ s.peer[p] = None THEN s
  ELSE [BreakConnect(s, p) EXCEPT !.peer[p] = None]

\* Mutant: the other pin is not disconnected when CompleteConnect fails.
AttemptConnection_Half(s, o, i, mt, hr) ==
  LET s0  == CheckConnect(s, o)
      s1  == SetMediaType([s0 EXCEPT !.peer[o] = i], o, mt)
      r   == ReceiveConnection(s1, i, o, mt, hr)
      c   == DecideAllocator(r.s, o, i, hr)
      undo(t) == [BreakConnect(t, o) EXCEPT !.peer[o] = None]
  IN  IF hr = "CheckConnect" THEN [ok |-> FALSE, s |-> BreakConnect(s, o)]
      ELSE IF mt \notin Accepts[o] \/ hr = "SetMediaType" THEN [ok |-> FALSE, s |-> undo(s0)]
      ELSE IF ~r.ok THEN [ok |-> FALSE, s |-> undo(r.s)]
      ELSE IF ~c.ok THEN [ok |-> FALSE, s |-> undo(c.s)]
      ELSE c

\* One type.  The pin looks connected before it asks the other one, and
\* undoes all it did when a later step fails.
AttemptConnection(s, o, i, mt, hr) ==
  LET s0  == CheckConnect(s, o)
      s1  == SetMediaType([s0 EXCEPT !.peer[o] = i], o, mt)
      r   == ReceiveConnection(s1, i, o, mt, hr)
      c   == DecideAllocator(r.s, o, i, hr)
      undo(t) == [BreakConnect(t, o) EXCEPT !.peer[o] = None]
  IN  IF hr = "CheckConnect" THEN [ok |-> FALSE, s |-> BreakConnect(s, o)]
      ELSE IF mt \notin Accepts[o] \/ hr = "SetMediaType" THEN [ok |-> FALSE, s |-> undo(s0)]
      ELSE IF ~r.ok THEN [ok |-> FALSE, s |-> undo(r.s)]
      ELSE IF ~c.ok THEN [ok |-> FALSE, s |-> undo(Disconnected(c.s, i))]
      ELSE c

\* The types to try, in order, when the caller leaves the choice to the pins.
Candidates(o, i) == IF o \in TryMine THEN Proposes[o] \o Proposes[i]
                    ELSE Proposes[i] \o Proposes[o]

\* The first type in turn that both pins agree to; hr[k] says how attempt k goes.
TryMediaTypes(s, o, i, types, hr) ==
  LET tried[k \in 0..Len(types)] ==
        IF k = 0 THEN [ok |-> FALSE, s |-> s]
        ELSE IF tried[k - 1].ok THEN tried[k - 1]
        ELSE AttemptConnection(tried[k - 1].s, o, i, types[k], hr[k])
  IN  tried[Len(types)]

\* A fully specified type is tried alone.
AgreeMediaType(s, o, i, pmt, hr) ==
  IF pmt # None THEN AttemptConnection(s, o, i, pmt, hr[1])
  ELSE TryMediaTypes(s, o, i, Candidates(o, i), hr)

Connect(o, i, pmt, hr) ==
  LET r == AgreeMediaType(Now, o, i, pmt, hr)
      t == IF r.ok THEN r.s ELSE BreakConnect(r.s, o)
  IN  /\ m_Connected[o] = None
      /\ IsStopped(o) \/ o \in Reconnects
      /\ m_Connected' = t.peer /\ m_mt' = t.mt /\ m_pAllocator' = t.alloc
      /\ m_pInputPin' = t.input /\ committed' = t.committed
      /\ cut' = IF r.ok THEN cut \ {o, i} ELSE cut
      /\ UNCHANGED <<m_State, streamVars, stuck>>

\* The graph disconnects one end, then the other; other calls may come between.
Disconnect(p) ==
  LET t == Disconnected(Now, p)
  IN  /\ m_Connected[p] # None /\ IsStopped(p)
      /\ m_Connected' = t.peer /\ m_pAllocator' = t.alloc
      /\ m_pInputPin' = t.input /\ committed' = t.committed
      /\ cut' = cut \cup {p}
      /\ UNCHANGED <<m_State, m_mt, streamVars, stuck>>

-----------------------------------------------------------------------------
(* State changes.                                                          *)

\* The places of the connected pins in their filter.
ConnectedPins(f) == {k \in DOMAIN PinsOf[f] : m_Connected[PinsOf[f][k]] # None}

\* Active fails for an output pin without allocator, or when the memory cannot
\* be committed; input pins have nothing to do.
CanActivate(p, memory) == p \in OutPins => m_pAllocator[p] # None /\ memory

\* The graph starts no filter between the two halves of a disconnection; an
\* input pin asserts that it is connected when a sample comes (CheckStreaming).
NoHalfLink == \A o \in OutPins : m_Connected[o] = None <=> m_Connected[Downstream[o]] = None

\* Pause of a stopped filter: pins are activated in order up to the first that
\* fails; memory[k] says whether Commit succeeds for the k-th pin.  If one fails the
\* filter stays stopped, with the earlier ones active.
Activate(f, memory, target) ==
  LET ps   == PinsOf[f]
      bad  == {k \in ConnectedPins(f) : ~CanActivate(ps[k], memory[k])}
      upTo == {k \in ConnectedPins(f) : ps[k] \in OutPins /\ \A b \in bad : k < b}
  IN  /\ m_State[f] = "Stopped" /\ NoHalfLink
      /\ committed' = committed \cup {m_pAllocator[ps[k]] : k \in upTo}
      /\ m_State' = IF bad = {} THEN [m_State EXCEPT ![f] = target] ELSE m_State
      /\ stuck' = IF bad = {} THEN stuck \ {f} ELSE stuck \cup {f}
      /\ UNCHANGED <<m_Connected, m_mt, m_pAllocator, m_pInputPin, streamVars, cut>>

Pause(f, memory) ==
  \/ Activate(f, memory, "Paused")
  \/ /\ m_State[f] = "Running"
     /\ m_State' = [m_State EXCEPT ![f] = "Paused"]
     /\ UNCHANGED <<pinVars, streamVars, stuck, cut>>

\* Pauses a stopped filter first; the pins' own Run does nothing.
Run(f, memory) ==
  \/ Activate(f, memory, "Running")
  \/ /\ m_State[f] = "Paused"
     /\ m_State' = [m_State EXCEPT ![f] = "Running"]
     /\ UNCHANGED <<pinVars, streamVars, stuck, cut>>

\* Inactive of the pins ps: an input pin forgets its error and, if it has an
\* allocator, a flush.
InputInactive(ps) ==
  /\ m_bRunTimeError' = m_bRunTimeError \ ps
  /\ m_bFlushing' = m_bFlushing \ {p \in ps : m_pAllocator[p] # None}

\* Inactive of every connected pin, which decommits the allocators.  A stopped
\* filter does nothing.
Stop(f) ==
  LET ps == {PinsOf[f][k] : k \in ConnectedPins(f)}
  IN  /\ m_State[f] # "Stopped"
      /\ m_State' = [m_State EXCEPT ![f] = "Stopped"]
      /\ InputInactive(ps)
      /\ committed' = committed \ {m_pAllocator[p] : p \in ps}
      /\ UNCHANGED <<m_Connected, m_mt, m_pAllocator, m_pInputPin, stuck, cut>>

-----------------------------------------------------------------------------
(* Streaming.                                                              *)

\* S_OK of CheckStreaming.
CheckStreaming(i) == ~IsStopped(i) /\ i \notin m_bFlushing /\ i \notin m_bRunTimeError

\* A sample of a new type mt delivered to the other pin.  If CheckMediaType
\* turns it down the pin raises the run-time error and ends its own stream;
\* in every other case a sample leaves the pin as it was.
Receive(o, mt) ==
  LET i == m_Connected[o]
  IN  /\ o \in m_pInputPin /\ i # None /\ m_pAllocator[o] \in committed
      /\ CheckStreaming(i)
      /\ mt \notin Accepts[i]
      /\ m_bRunTimeError' = m_bRunTimeError \cup {i}
      /\ UNCHANGED <<m_State, pinVars, m_bFlushing, stuck, cut>>

\* Flushes come through the output pin's m_Connected.
BeginFlush(o) ==
  LET i == m_Connected[o]
  IN  /\ i # None /\ i \notin m_bFlushing
      /\ m_bFlushing' = m_bFlushing \cup {i}
      /\ UNCHANGED <<m_State, pinVars, m_bRunTimeError, stuck, cut>>

EndFlush(o) ==
  LET i == m_Connected[o]
  IN  /\ i # None /\ i \in m_bFlushing
      /\ m_bFlushing' = m_bFlushing \ {i}
      /\ m_bRunTimeError' = m_bRunTimeError \ {i}
      /\ UNCHANGED <<m_State, pinVars, stuck, cut>>

Next ==
  \/ \E o \in OutPins, pmt \in MediaTypes, hr \in Outcome :
       Connect(o, Downstream[o], pmt, <<hr>>)
  \/ \E o \in OutPins : \E hr \in [1..Len(Candidates(o, Downstream[o])) -> Outcome] :
       Connect(o, Downstream[o], None, hr)
  \/ \E p \in Pin : Disconnect(p)
  \/ \E f \in Filters : \E memory \in [1..Len(PinsOf[f]) -> BOOLEAN] :
       Pause(f, memory) \/ Run(f, memory)
  \/ \E f \in Filters : Stop(f)
  \/ \E o \in OutPins, mt \in MediaTypes : Receive(o, mt)
  \/ \E o \in OutPins : BeginFlush(o) \/ EndFlush(o)

Spec == Init /\ [][Next]_vars

-----------------------------------------------------------------------------
(* Properties.                                                             *)

\* Every variable has its type.
TypeOK ==
  /\ m_State \in [Filters -> {"Stopped", "Paused", "Running"}]
  /\ m_Connected \in [Pin -> Pin \cup {None}]
  /\ m_mt \in [Pin -> MediaTypes \cup {None}]
  /\ m_pAllocator \in [Pin -> Pin \cup {None}]
  /\ m_pInputPin \subseteq OutPins /\ committed \subseteq Pin
  /\ m_bFlushing \subseteq InPins /\ m_bRunTimeError \subseteq InPins
  /\ stuck \subseteq Filters /\ cut \subseteq Pin

Joined(o, i) == m_Connected[o] = i /\ m_Connected[i] = o

\* Two pins connected to each other agree on everything the attempt settled: a
\* type both accept, one allocator, and the transport (AttemptConnection,
\* DecideAllocator, NotifyAllocator).
JoinedAlike ==
  \A o \in OutPins : LET i == Downstream[o] IN
    Joined(o, i) =>
      /\ m_mt[o] = m_mt[i] /\ m_mt[o] \in Accepts[o] \cap Accepts[i]
      /\ m_pAllocator[o] = m_pAllocator[i] /\ m_pAllocator[o] # None
      /\ o \in m_pInputPin

\* A connection attempt that fails at whatever step, after whatever earlier
\* attempts, leaves neither pin behind: one end alone is connected only because
\* the graph has disconnected the other, and a pin that is not connected holds
\* neither allocator nor transport (the undoing in AttemptConnection and
\* ReceiveConnection).
NothingHalfMade ==
  \A o \in OutPins : LET i == Downstream[o] IN
    /\ m_Connected[o] = None /\ m_Connected[i] # None => o \in cut
    /\ m_Connected[i] = None /\ m_Connected[o] # None => i \in cut
    /\ m_Connected[o] = None => m_pAllocator[o] = None /\ o \notin m_pInputPin
    /\ m_Connected[i] = None => m_pAllocator[i] = None

\* Memory is committed only for a filter that is not stopped, whatever the order
\* of state changes and disconnections of the two filters; the exception is a
\* filter whose Pause failed after it had activated some pins (Pause returns
\* early and Stop of a stopped filter does nothing).
NoMemoryWhenStopped ==
  \A o \in OutPins :
    m_pAllocator[o] \in committed => ~IsStopped(o) \/ filterOf[o] \in stuck

\* A run-time error does not outlive the run it happened in: a pin that refuses
\* samples for one belongs to an active filter, so that stopping and starting
\* again always helps (Inactive), even after disconnections.
ErrorsEndWithStop == \A i \in m_bRunTimeError : ~IsStopped(i)

\* What connecting, disconnecting and state changes keep between them, whichever step fails.
PinsHold == TypeOK /\ JoinedAlike /\ NothingHalfMade /\ NoMemoryWhenStopped /\ ErrorsEndWithStop
=============================================================================
