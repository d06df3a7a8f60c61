------------------------------- MODULE InPlace -------------------------------
(***************************************************************************)
(* CTransInPlaceFilter (baseclasses/transip.cpp): a filter that changes    *)
(* the samples in the buffers they came in, unless it must not.  Its two   *)
(* pins are connected in any order and agree on one type and, if possible, *)
(* one allocator; a connection of one pin makes the graph reconnect the    *)
(* other later.  The pins around it, and the graph, are external.          *)
(***************************************************************************)
EXTENDS Integers, Sequences

CONSTANTS Types, Sizes,   \* media types and buffer sizes
          None,           \* NULL
          MaxConnects     \* bound on what the application connects

VARIABLES m_bModifiesData, m_bReadOnly,
          type,        \* of each pin: the type it is connected with, or None
          m_pAllocator,\* of each pin
          size,        \* of each allocator
          npc,         \* how far the connection of the input pin is
          told,        \* the allocator downstream was notified of
          pending,     \* the graph's queue of reconnections to make
          running, m_bSampleSkipped, m_bQualityChanged,
          spoiled,     \* history: Transform wrote into a read-only buffer
          strange,     \* history: delivered a sample downstream did not agree to
          connects

inPlaceVars == <<m_bModifiesData, m_bReadOnly, type, m_pAllocator, size, npc, told, pending,
                 running, m_bSampleSkipped, m_bQualityChanged, spoiled, strange, connects>>
stream == <<running, m_bSampleSkipped, m_bQualityChanged, spoiled, strange>>

\* The allocators of upstream's pin, of this input pin, of this output pin and of downstream's.
Allocators == {"up", "in", "out", "down"}

InPlaceInit ==
  /\ m_bModifiesData \in BOOLEAN /\ m_bReadOnly = FALSE
  /\ type = [p \in {"in", "out"} |-> None] /\ m_pAllocator = [p \in {"in", "out"} |-> None]
  /\ size = [a \in Allocators |-> 1] /\ npc = "idle" /\ told = None /\ pending = <<>>
  /\ running = FALSE /\ m_bSampleSkipped = FALSE /\ m_bQualityChanged = FALSE
  /\ spoiled = FALSE /\ strange = FALSE /\ connects = 0

IsConnected(p) == type[p] # None
UsingDifferentAllocators == m_pAllocator["in"] # m_pAllocator["out"]
Idle == npc = "idle" /\ ~running

-----------------------------------------------------------------------------
\* What the graph is asked: a new output connection always makes it reconnect the input pin,
\* with the same type; a new input connection the output pin, if the types differ.
CompleteConnect(dir, t) ==
  CASE dir = "out" /\ IsConnected("in") -> << <<"in", t>> >>
    [] dir = "in"  /\ IsConnected("out") /\ type["out"] # t -> << <<"out", t>> >>
    [] OTHER -> <<>>

\* The properties the output allocator is asked for, and gets or fails to get.
DecideBufferSize(s) == s >= IF IsConnected("in") THEN size[m_pAllocator["in"]] ELSE 1

\* Upstream's pin connects with a type that CheckMediaType accepts; it has an allocator of its
\* own, or asks for one, and says which one it takes.
ReceiveConnection(t, rest) ==
  /\ type' = [type EXCEPT !["in"] = t] /\ m_pAllocator' = [m_pAllocator EXCEPT !["in"] = None]
  /\ pending' = rest \o CompleteConnect("in", t) /\ npc' = "typed"
  /\ \E s \in Sizes : size' = [size EXCEPT !["up"] = s]
  /\ UNCHANGED <<m_bModifiesData, m_bReadOnly, told, stream>>

\* The output pin's connection: downstream's allocator, or one of its own.
Connect(t, rest) ==
  \/ \E a \in {"down", "out"}, s \in Sizes :
       /\ DecideBufferSize(s)
       /\ size' = [size EXCEPT ![a] = s]
       /\ type' = [type EXCEPT !["out"] = t] /\ m_pAllocator' = [m_pAllocator EXCEPT !["out"] = a]
       /\ told' = a /\ pending' = rest \o CompleteConnect("out", t)
       /\ UNCHANGED <<m_bModifiesData, m_bReadOnly, npc, stream>>
  \/ /\ type' = [type EXCEPT !["out"] = None] /\ m_pAllocator' = [m_pAllocator EXCEPT !["out"] = None]
     /\ pending' = rest
     /\ UNCHANGED <<m_bModifiesData, m_bReadOnly, size, npc, told, stream>>

AppConnects == /\ Idle /\ connects < MaxConnects /\ connects' = connects + 1
               /\ \E t \in Types : \/ ~IsConnected("in") /\ ReceiveConnection(t, pending)
                                   \/ ~IsConnected("out") /\ Connect(t, pending)

\* IFilterGraph2::ReconnectEx, some time later; in vain if the pin was disconnected meanwhile.
Reconnect ==
  /\ Idle /\ pending # <<>> /\ UNCHANGED connects
  /\ LET p == Head(pending)[1]
         t == Head(pending)[2]
     IN \/ IsConnected(p) /\ p = "in"  /\ ReceiveConnection(t, Tail(pending))
        \/ IsConnected(p) /\ p = "out" /\ Connect(t, Tail(pending))
        \/ /\ ~IsConnected(p) /\ pending' = Tail(pending)
           /\ UNCHANGED <<m_bModifiesData, m_bReadOnly, type, m_pAllocator, size, npc, told, stream>>

\* Either pin is disconnected, or the connection of the input pin fails.
BreakConnect == /\ ~running
                /\ \E p \in {"in", "out"} :
                     /\ IsConnected(p) /\ (npc = "idle" \/ p = "in")
                     /\ type' = [type EXCEPT ![p] = None] /\ m_pAllocator' = [m_pAllocator EXCEPT ![p] = None]
                /\ npc' = "idle"
                /\ UNCHANGED <<m_bModifiesData, m_bReadOnly, size, told, pending, stream, connects>>

\* While the output pin is connected it is downstream's allocator that is offered.
Offer == IF IsConnected("out") THEN "down" ELSE "in"

\* Upstream then sets the size it needs.
GetAllocator == /\ npc = "typed" /\ npc' = "asked"
                /\ m_pAllocator' = [m_pAllocator EXCEPT ![IF IsConnected("out") THEN "out" ELSE "in"] = Offer]
                /\ \E s \in Sizes : size' = [size EXCEPT ![Offer] = s]
                /\ UNCHANGED <<m_bModifiesData, m_bReadOnly, type, told, pending, stream, connects>>

MustCopy(bReadOnly) == IsConnected("out") /\ bReadOnly /\ m_bModifiesData

\* The sizes after the output allocator was asked to be like allocator a: it may get less.
SetProperties(a) == { [size EXCEPT ![m_pAllocator["out"]] = s] : s \in Sizes }

\* Read-only buffers are copied into those of another allocator, which are as large.
CopiesFit(a, sizes) == a # m_pAllocator["out"] /\ sizes[m_pAllocator["out"]] >= sizes[a]

\* Mutant: the filter is not told apart from one that only looks at the data.
Agree_InPlace(a, bReadOnly) ==
  /\ m_pAllocator' = [in |-> a, out |-> IF IsConnected("out") THEN a ELSE m_pAllocator["out"]]
  /\ told' = IF IsConnected("out") THEN a ELSE told
  /\ UNCHANGED size

\* Whichever allocator the output pin then uses, downstream is notified of it.
Agree(a, bReadOnly) ==
  LET out == IF IsConnected("out") /\ ~MustCopy(bReadOnly) THEN a ELSE m_pAllocator["out"]
  IN /\ m_pAllocator' = [in |-> a, out |-> out]
     /\ told' = IF IsConnected("out") THEN out ELSE told
     /\ IF MustCopy(bReadOnly) THEN size' \in SetProperties(a) /\ CopiesFit(a, size') ELSE UNCHANGED size

\* Upstream takes its own allocator or the offered one.  Refused, by the filter or by
\* downstream, it may try again or give up.
NotifyAllocator ==
  /\ npc \in {"typed", "asked"}
  /\ \E a \in {"up"} \cup {o \in {Offer} : npc = "asked"}, bReadOnly \in BOOLEAN :
       /\ m_bReadOnly' = bReadOnly
       /\ \/ Agree(a, bReadOnly) /\ npc' = "idle"
          \/ /\ IsConnected("out")
             /\ IF MustCopy(bReadOnly) /\ a # m_pAllocator["out"] THEN size' \in SetProperties(a) ELSE UNCHANGED size
             /\ UNCHANGED <<m_pAllocator, told, npc>>
  /\ UNCHANGED <<m_bModifiesData, type, pending, stream, connects>>

-----------------------------------------------------------------------------
\* The graph runs once its reconnections are made.
StartStreaming == /\ Idle /\ pending = <<>> /\ IsConnected("in") /\ IsConnected("out")
                  /\ running' = TRUE /\ m_bSampleSkipped' = FALSE /\ m_bQualityChanged' = FALSE
                  /\ UNCHANGED <<m_bModifiesData, m_bReadOnly, type, m_pAllocator, size, npc, told, pending,
                                 spoiled, strange, connects>>

StopStreaming == /\ running /\ running' = FALSE
                 /\ UNCHANGED <<m_bModifiesData, m_bReadOnly, type, m_pAllocator, size, npc, told, pending,
                                m_bSampleSkipped, m_bQualityChanged, spoiled, strange, connects>>

\* The sample is copied if the pins' allocators differ; a copy ends a gap.  Transform may drop
\* the sample (S_FALSE), of which only the first time is reported.
Receive ==
  /\ running
  /\ spoiled' = (spoiled \/ (m_bReadOnly /\ m_bModifiesData /\ ~UsingDifferentAllocators))
  /\ \/ /\ m_bSampleSkipped' = (m_bSampleSkipped /\ ~UsingDifferentAllocators)
        /\ strange' = (strange \/ told # m_pAllocator["out"] \/ type["in"] # type["out"])
        /\ UNCHANGED m_bQualityChanged
     \/ m_bSampleSkipped' = TRUE /\ m_bQualityChanged' = TRUE /\ UNCHANGED strange
  /\ UNCHANGED <<m_bModifiesData, m_bReadOnly, type, m_pAllocator, size, npc, told, pending, running, connects>>

InPlaceNext == \/ AppConnects \/ Reconnect \/ BreakConnect \/ GetAllocator \/ NotifyAllocator
               \/ StartStreaming \/ StopStreaming \/ Receive

\* The graph makes the reconnections it was asked for, and upstream comes to an agreement.
InPlaceFairness == WF_inPlaceVars(Reconnect) /\ WF_inPlaceVars(GetAllocator)
                   /\ WF_inPlaceVars(npc # "idle" /\ (NotifyAllocator \/ BreakConnect) /\ npc' = "idle")
                   /\ WF_inPlaceVars(StopStreaming)

-----------------------------------------------------------------------------
\* CTransInPlaceInputPin::NotifyAllocator: "If the allocator is read-only and we're modifying data
\* and the allocator is the same as the output pin's then reject": in whatever order the pins were connected and reconnected,
\* Transform never writes into a buffer that upstream passed as read-only.
ReadOnlyKept == ~spoiled

\* Every sample delivered is of the allocator downstream was last notified of and of the type
\* the input pin was connected with, which Transform has not changed.
DownstreamAgreed == ~strange

\* CTransInPlaceFilter::Copy asserts "lDestSize >= lSourceSize": the buffers a sample is copied
\* to are as large as those it came in.
CopyFits == running /\ UsingDifferentAllocators => size[m_pAllocator["out"]] >= size[m_pAllocator["in"]]

\* CTransInPlaceFilter::CompleteConnect: the pins' reconnections, each of which may ask for
\* another of the other pin, come to an end.
Settles == pending # <<>> ~> (pending = <<>> /\ npc = "idle")

\* What the agreements on an allocator, in any order, leave for Receive.
AllocatorHolds == ReadOnlyKept /\ DownstreamAgreed /\ CopyFits
=============================================================================
