-------------------------- MODULE AllocatorProofs ---------------------------
(***************************************************************************)
(* That the sample pool holds (PoolHolds of Allocator), for any finite     *)
(* sets of threads and samples.                                            *)
(***************************************************************************)
EXTENDS Allocator, FiniteSetTheorems, TLAPS

-----------------------------------------------------------------------------
(* The inductive invariant.                                                 *)

PoolTypes ==
  /\ m_lCount \in 0..Cardinality(Samples)
  /\ pool \subseteq Samples /\ m_lFree \subseteq pool
  /\ m_cRef \in [Samples -> Nat] /\ owns \subseteq Threads \X Samples
  /\ thread \in [Threads -> {"idle", "waiting", "looking", "got", "releasing", "zero",
                             "tail", "drop"}]
  /\ local \in [Threads -> Samples \cup {NoSample}] /\ first \in [Threads -> BOOLEAN]

Flags ==
  /\ m_bCommitted \in BOOLEAN /\ m_bDecommitInProgress \in BOOLEAN /\ m_bChanged \in BOOLEAN
  /\ client \in BOOLEAN /\ deleted \in BOOLEAN

Carries(t) == thread[t] \in {"got", "zero"}

\* m_cRef counts the references.
RefsCounted == \A s \in Samples : m_cRef[s] = Cardinality(Holders(s))

\* Who has the samples that are out: those with a reference, and a thread that carries one
\* from or to the free list.
OwnedOut == \A t \in Threads, s \in Samples : <<t, s>> \in owns => s \in pool /\ s \notin m_lFree
CarriedOut ==
  \A t \in Threads : Carries(t) =>
    /\ local[t] \in pool /\ local[t] \notin m_lFree
    /\ \A u \in Threads : <<u, local[t]>> \notin owns
    /\ \A u \in Threads : Carries(u) /\ local[u] = local[t] => u = t
NoneLost ==
  \A s \in pool : s \notin m_lFree =>
    \E t \in Threads : <<t, s>> \in owns \/ (Carries(t) /\ local[t] = s)

\* A thread in Release still has its reference, and nobody else can add one if it found its
\* own to be the last.
ReleasesOwn ==
  \A t \in Threads : thread[t] = "releasing" =>
    /\ local[t] \in Samples /\ <<t, local[t]>> \in owns
    /\ first[t] => \A u \in Threads : <<u, local[t]>> \in owns => u = t

SamplesOut == OwnedOut /\ CarriedOut /\ NoneLost /\ ReleasesOwn

Pending ==
  /\ m_bCommitted => ~m_bDecommitInProgress
  /\ ~m_bCommitted => (m_bDecommitInProgress <=> m_lFree # pool)

Dropping == {t \in Threads : thread[t] = "drop"}

SelfCounted ==
  /\ self = Cardinality(Dropping) + (IF m_bCommitted \/ m_bDecommitInProgress THEN 1 ELSE 0)
  /\ deleted => ~client /\ self = 0
  /\ ~client => ~m_bCommitted

WaitersCounted ==
  /\ m_lWaiting \in Nat /\ m_hSem \in Nat /\ m_lWaiting + m_hSem <= MaxWaiting
  /\ Cardinality(Waiters) <= m_lWaiting + m_hSem
  /\ m_lFree # {} \/ ~m_bCommitted => Cardinality(Waiters) <= m_hSem

IInv == PoolTypes /\ Flags /\ RefsCounted /\ SamplesOut /\ Pending /\ SelfCounted /\ WaitersCounted

-----------------------------------------------------------------------------
(* Counting.                                                                *)

\* Threads are finitely many, and counted one by one.
LEMMA ThreadsCounted ==
  ASSUME NEW T \in SUBSET Threads
  PROVE  /\ IsFiniteSet(T) /\ Cardinality(T) \in Nat /\ Cardinality(T) <= Cardinality(Threads)
         /\ Cardinality(T) = 0 <=> T = {}
         /\ \A t \in Threads \ T : Cardinality(T \cup {t}) = Cardinality(T) + 1
         /\ \A t \in T : Cardinality(T \ {t}) = Cardinality(T) - 1
<1>1. IsFiniteSet(T) /\ Cardinality(T) <= Cardinality(Threads)
  BY ConstantsAssumption, FS_Subset
<1>2. Cardinality(T) \in Nat
  BY <1>1, FS_CardinalityType
<1>. QED  BY <1>1, <1>2, FS_AddElement, FS_RemoveElement, FS_EmptySet

\* A thread that goes on without waiting or dropping a reference changes no count.
LEMMA CountsKept ==
  ASSUME PoolTypes, NEW t \in Threads, NEW state, thread' = [thread EXCEPT ![t] = state]
  PROVE  /\ thread[t] # "drop" /\ state # "drop" => Dropping' = Dropping
         /\ thread[t] # "waiting" /\ state # "waiting" => Waiters' = Waiters
         /\ thread[t] # "drop" /\ state = "drop" => t \notin Dropping /\ Dropping' = Dropping \cup {t}
         /\ thread[t] = "drop" /\ state # "drop" => t \in Dropping /\ Dropping' = Dropping \ {t}
         /\ thread[t] # "waiting" /\ state = "waiting" => t \notin Waiters /\ Waiters' = Waiters \cup {t}
         /\ thread[t] = "waiting" /\ state # "waiting" => t \in Waiters /\ Waiters' = Waiters \ {t}
BY DEF PoolTypes, Dropping, Waiters

\* When every sample is free nobody has one.
LEMMA NobodyHas ==
  ASSUME PoolTypes, SamplesOut, m_lFree = pool
  PROVE  /\ \A t \in Threads, s \in Samples : <<t, s>> \notin owns
         /\ \A t \in Threads : ~Carries(t) /\ thread[t] # "releasing"
BY DEF SamplesOut, OwnedOut, CarriedOut, NoneLost, ReleasesOwn

LEMMA RefsKept == ASSUME RefsCounted, UNCHANGED <<m_cRef, owns>> PROVE RefsCounted'
BY DEF RefsCounted, Holders

LEMMA SamplesKept ==
  ASSUME SamplesOut, UNCHANGED <<pool, m_lFree, m_cRef, owns, thread, local, first>>
  PROVE  SamplesOut'
BY DEF SamplesOut, OwnedOut, CarriedOut, NoneLost, ReleasesOwn, Carries

\* A thread that has no sample before or after its step.
LEMMA NoSampleStep ==
  ASSUME PoolTypes, SamplesOut, NEW t \in Threads, NEW state \in {"idle", "waiting", "looking", "tail", "drop"},
         thread[t] \notin {"got", "zero"}, thread' = [thread EXCEPT ![t] = state],
         local' = [local EXCEPT ![t] = NoSample], UNCHANGED <<pool, m_lFree, m_cRef, owns, first>>
  PROVE  SamplesOut'
<1>2. \A u \in Threads : u # t => thread'[u] = thread[u] /\ local'[u] = local[u]
  BY DEF PoolTypes
<1>3. thread'[t] = state
  BY DEF PoolTypes
<1>4. \A u \in Threads : Carries(u)' <=> u # t /\ Carries(u)
  BY <1>2, <1>3 DEF Carries
<1>5. ~Carries(t)
  BY DEF Carries
<1>6. OwnedOut'
  BY DEF SamplesOut, OwnedOut
<1>7. CarriedOut'
  BY <1>2, <1>4 DEF SamplesOut, CarriedOut
<1>8. NoneLost'
  BY <1>2, <1>4, <1>5 DEF SamplesOut, NoneLost
<1>9. ReleasesOwn'
  BY <1>2, <1>3 DEF SamplesOut, ReleasesOwn
<1>. QED  BY <1>6, <1>7, <1>8, <1>9 DEF SamplesOut

-----------------------------------------------------------------------------
(* Commit, Decommit and SetProperties.                                      *)

LEMMA SetUpStep ==
  ASSUME IInv, NEW t \in Threads, NEW n \in 0..Cardinality(Samples),
         SetProperties(t, n) \/ CommitCancels(t) \/ Commit(t) \/ CommitFails(t, n)
  PROVE  IInv'
<1> USE DEF IInv, stateVars, countVars, waitVars, lifeVars, threadVars, Enter
<1>1. UNCHANGED <<m_lWaiting, m_hSem, m_cRef, owns, thread, local, first, client, deleted>>
  BY DEF SetProperties, CommitCancels, Commit, CommitFails
<1>2. Dropping' = Dropping /\ Waiters' = Waiters /\ RefsCounted'
  BY <1>1, RefsKept DEF Dropping, Waiters
<1>3. CASE SetProperties(t, n) \/ CommitCancels(t)
  <2>1. UNCHANGED <<pool, m_lFree, self>>
    BY <1>3 DEF SetProperties, CommitCancels
  <2>2. PoolTypes'
    BY <1>1, <1>3, <2>1 DEF PoolTypes, SetProperties, CommitCancels
  <2>3. SamplesOut'
    BY <1>1, <2>1, SamplesKept
  <2>4. Cardinality(Dropping) \in Nat /\ Cardinality(Waiters) \in Nat
    BY ThreadsCounted DEF Dropping, Waiters
  <2>5. CASE SetProperties(t, n)
    BY <1>1, <1>2, <2>1, <2>2, <2>3, <2>5 DEF SetProperties, Flags, Pending, SelfCounted, WaitersCounted
  <2>6. CASE CommitCancels(t)
    <3>1. /\ ~m_bCommitted /\ m_bDecommitInProgress /\ m_bCommitted' = TRUE /\ m_bDecommitInProgress' = FALSE
          /\ m_bChanged' = m_bChanged /\ client
      BY <2>6 DEF CommitCancels
    <3>2. Flags' /\ Pending'
      BY <1>1, <3>1 DEF Flags, Pending
    <3>3. SelfCounted'
      BY <1>1, <1>2, <2>1, <2>4, <3>1 DEF SelfCounted
    <3>4. WaitersCounted'
      BY <1>1, <1>2, <2>1, <3>1 DEF WaitersCounted
    <3>. QED  BY <1>2, <2>2, <2>3, <3>2, <3>3, <3>4
  <2>. QED  BY <1>2, <1>3, <2>5, <2>6
<1>4. CASE Commit(t) \/ CommitFails(t, n)
  <2>1. m_lFree = pool /\ ~m_bCommitted /\ ~m_bDecommitInProgress /\ client
    BY <1>4 DEF Commit, CommitFails, Pending
  <2>2. pool' \subseteq Samples /\ m_lFree' = pool' /\ UNCHANGED <<m_lCount, m_bDecommitInProgress>>
    BY <1>4, <2>1 DEF Commit, CommitFails, Alloc, PoolTypes
  <2>3. PoolTypes'
    BY <1>1, <2>2 DEF PoolTypes
  <2>4. SamplesOut'
    BY <1>1, <2>1, <2>2, NobodyHas DEF SamplesOut, OwnedOut, CarriedOut, NoneLost, ReleasesOwn, Carries
  <2>5. Flags' /\ Pending'
    BY <1>1, <1>4, <2>1, <2>2 DEF Commit, CommitFails, Flags, Pending
  <2>6. SelfCounted'
    <3>1. Cardinality(Dropping) \in Nat
      BY ThreadsCounted DEF Dropping
    <3>. QED  BY <1>1, <1>2, <1>4, <2>1, <2>2, <3>1 DEF Commit, CommitFails, SelfCounted
  <2>7. WaitersCounted'
    BY <1>1, <1>2, <2>1 DEF WaitersCounted
  <2>. QED  BY <1>2, <2>3, <2>4, <2>5, <2>6, <2>7
<1>. QED  BY <1>3, <1>4

LEMMA DecommitStep ==
  ASSUME IInv, NEW t \in Threads, Decommit(t)
  PROVE  IInv'
<1> USE DEF IInv, stateVars, countVars, waitVars, lifeVars, threadVars, Enter, Become
<1>1. /\ UNCHANGED <<m_cRef, owns, first, client, deleted, m_lFree, pool, m_lCount, m_bChanged, self>>
      /\ m_hSem' = m_hSem + m_lWaiting /\ m_lWaiting' = 0 /\ m_bCommitted' = FALSE
      /\ m_bDecommitInProgress' = (m_lFree # pool) /\ (m_bCommitted \/ m_bDecommitInProgress)
      /\ thread[t] = "idle" /\ client
  BY DEF Decommit, NotifySample, AllFree
<1>2. RefsCounted'
  BY <1>1, RefsKept
<1>3. Flags' /\ Pending'
  BY <1>1 DEF Flags, Pending
<1>4. Cardinality(Waiters) \in Nat /\ Cardinality(Dropping) \in Nat
  BY ThreadsCounted DEF Waiters, Dropping
<1>5. CASE m_lFree = pool
  <2>1. thread' = [thread EXCEPT ![t] = "drop"] /\ local' = [local EXCEPT ![t] = NoSample]
    BY <1>5 DEF Decommit, AllFree
  <2>2. t \notin Dropping /\ Dropping' = Dropping \cup {t} /\ Waiters' = Waiters
    BY <1>1, <2>1, CountsKept
  <2>3. Cardinality(Dropping') = Cardinality(Dropping) + 1
    BY <2>2, ThreadsCounted DEF Dropping
  <2>4. PoolTypes'
    BY <1>1, <2>1 DEF PoolTypes
  <2>5. SamplesOut'
    <3>1. \A u \in Threads : ~Carries(u)' /\ thread'[u] # "releasing"
      BY <1>5, <2>1, NobodyHas DEF Carries, PoolTypes
    <3>. QED  BY <1>1, <1>5, <3>1, NobodyHas DEF SamplesOut, OwnedOut, CarriedOut, NoneLost, ReleasesOwn, PoolTypes
  <2>6. SelfCounted'
    <3>1. ~m_bCommitted' /\ ~m_bDecommitInProgress'
      BY <1>1, <1>5
    <3>. QED  BY <1>1, <1>4, <2>3, <3>1 DEF SelfCounted
  <2>7. WaitersCounted'
    BY <1>1, <1>4, <2>2 DEF WaitersCounted
  <2>. QED  BY <1>2, <1>3, <2>4, <2>5, <2>6, <2>7
<1>6. CASE m_lFree # pool
  <2>1. UNCHANGED <<thread, local>>
    BY <1>6 DEF Decommit, AllFree
  <2>2. Dropping' = Dropping /\ Waiters' = Waiters
    BY <2>1 DEF Dropping, Waiters
  <2>3. PoolTypes' /\ SamplesOut'
    BY <1>1, <2>1, SamplesKept DEF PoolTypes
  <2>4. SelfCounted'
    BY <1>1, <1>4, <1>6, <2>2 DEF SelfCounted
  <2>5. WaitersCounted'
    BY <1>1, <1>4, <2>2 DEF WaitersCounted
  <2>. QED  BY <1>2, <1>3, <2>3, <2>4, <2>5
<1>. QED  BY <1>5, <1>6

-----------------------------------------------------------------------------
(* GetBuffer.                                                               *)

LEMMA GetBufferStep ==
  ASSUME IInv, NEW t \in Threads, GetBuffer(t)
  PROVE  IInv'
<1> USE DEF IInv, stateVars, countVars, waitVars, lifeVars, threadVars, Enter, Become
<1>1. /\ thread[t] \in {"idle", "looking"}
      /\ UNCHANGED <<m_bCommitted, m_bDecommitInProgress, m_lCount, m_bChanged, pool, m_cRef, owns,
                     first, client, self, deleted>>
  BY DEF GetBuffer
<1>2. Cardinality(Waiters) \in Nat /\ Cardinality(Dropping) \in Nat /\ RefsCounted'
  BY <1>1, ThreadsCounted, RefsKept DEF Waiters, Dropping
<1>3. CASE /\ thread' = [thread EXCEPT ![t] = "idle"] /\ local' = [local EXCEPT ![t] = NoSample]
           /\ UNCHANGED <<m_lFree, m_lWaiting, m_hSem>>
  <2>1. PoolTypes' /\ SamplesOut'
    BY <1>1, <1>3, NoSampleStep DEF PoolTypes
  <2>2. Dropping' = Dropping /\ Waiters' = Waiters
    BY <1>1, <1>3, CountsKept
  <2>. QED  BY <1>1, <1>2, <1>3, <2>1, <2>2 DEF Flags, Pending, SelfCounted, WaitersCounted
<1>4. ASSUME NEW s \in m_lFree, m_bCommitted, m_lFree' = m_lFree \ {s}, UNCHANGED <<m_lWaiting, m_hSem>>,
             thread' = [thread EXCEPT ![t] = "got"], local' = [local EXCEPT ![t] = s]
      PROVE  IInv'
  <2>1. PoolTypes' /\ s \in Samples /\ s \in pool
    BY <1>1, <1>4 DEF PoolTypes
  <2>2. Dropping' = Dropping /\ Waiters' = Waiters
    BY <1>1, <1>4, CountsKept
  <2>3. SamplesOut'
    <3>2. \A u \in Threads : u # t => thread'[u] = thread[u] /\ local'[u] = local[u]
      BY <1>4 DEF PoolTypes
    <3>3. thread'[t] = "got" /\ local'[t] = s /\ ~Carries(t)
      BY <1>1, <1>4 DEF PoolTypes, Carries
    <3>4. \A u \in Threads : Carries(u)' <=> u = t \/ Carries(u)
      BY <3>2, <3>3 DEF Carries
    <3>5. \A u \in Threads : <<u, s>> \notin owns /\ (Carries(u) => local[u] # s)
      BY <1>4, <2>1 DEF SamplesOut, OwnedOut, CarriedOut, NoneLost, ReleasesOwn
    <3>6. \A r \in pool : r \notin m_lFree' <=> r = s \/ r \notin m_lFree
      BY <1>4
    <3>. QED  BY <1>1, <1>4, <2>1, <3>2, <3>3, <3>4, <3>5, <3>6 DEF SamplesOut, OwnedOut, CarriedOut, NoneLost, ReleasesOwn
  <2>4. WaitersCounted'
    BY <1>1, <1>4, <2>2 DEF WaitersCounted
  <2>. QED  BY <1>1, <1>2, <1>4, <2>1, <2>2, <2>3, <2>4 DEF Flags, Pending, SelfCounted
<1>5. ASSUME NEW state \in {"waiting", "idle"}, m_bCommitted, m_lFree = {}, SetWaiting, UNCHANGED m_lFree,
             thread' = [thread EXCEPT ![t] = state], local' = [local EXCEPT ![t] = NoSample]
      PROVE  IInv'
  <2>1. PoolTypes' /\ SamplesOut'
    BY <1>1, <1>5, NoSampleStep DEF PoolTypes
  <2>2. Dropping' = Dropping
    BY <1>1, <1>5, CountsKept
  <2>3. Cardinality(Waiters') \in {Cardinality(Waiters), Cardinality(Waiters) + 1}
    <3>1. CASE state = "idle"
      BY <1>1, <1>5, <3>1, CountsKept
    <3>2. CASE state = "waiting"
      <4>1. t \notin Waiters /\ Waiters' = Waiters \cup {t}
        BY <1>1, <1>5, <3>2, CountsKept
      <4>2. Waiters \in SUBSET Threads /\ t \in Threads \ Waiters
        BY <4>1 DEF Waiters
      <4>3. Cardinality(Waiters \cup {t}) = Cardinality(Waiters) + 1
        BY <4>2, ThreadsCounted
      <4>. QED  BY <4>1, <4>3
    <3>. QED  BY <1>5, <3>1, <3>2
  <2>4. WaitersCounted'
    BY <1>1, <1>2, <1>5, <2>3, ConstantsAssumption DEF WaitersCounted, SetWaiting
  <2>. QED  BY <1>1, <1>2, <1>5, <2>1, <2>2, <2>4 DEF Flags, Pending, SelfCounted
<1>. QED
  <2>1. CASE m_bCommitted
    BY <1>4, <1>5, <2>1 DEF GetBuffer
  <2>2. CASE ~m_bCommitted
    BY <1>3, <2>2 DEF GetBuffer
  <2>. QED  BY <2>1, <2>2

LEMMA WakeStep ==
  ASSUME IInv, NEW t \in Threads, Wake(t)
  PROVE  IInv'
<1> USE DEF IInv, stateVars, countVars, waitVars, lifeVars, threadVars, Become
<1>1. /\ thread[t] = "waiting" /\ m_hSem > 0 /\ m_hSem' = m_hSem - 1
      /\ thread' = [thread EXCEPT ![t] = "looking"] /\ local' = [local EXCEPT ![t] = NoSample]
      /\ UNCHANGED <<m_bCommitted, m_bDecommitInProgress, m_lCount, m_bChanged, pool, m_cRef, owns,
                     first, client, self, deleted, m_lFree, m_lWaiting>>
  BY DEF Wake
<1>2. PoolTypes' /\ SamplesOut' /\ RefsCounted'
  BY <1>1, NoSampleStep, RefsKept DEF PoolTypes
<1>3. Dropping' = Dropping /\ t \in Waiters /\ Waiters' = Waiters \ {t}
  BY <1>1, CountsKept
<1>4. Cardinality(Waiters) \in Nat /\ Cardinality(Waiters') = Cardinality(Waiters) - 1
  BY <1>3, ThreadsCounted DEF Waiters
<1>5. WaitersCounted'
  BY <1>1, <1>4, ConstantsAssumption DEF WaitersCounted
<1>. QED  BY <1>1, <1>2, <1>3, <1>5 DEF Flags, Pending, SelfCounted

LEMMA GotBufferStep ==
  ASSUME IInv, NEW t \in Threads, GotBuffer(t)
  PROVE  IInv'
<1> USE DEF IInv, stateVars, countVars, waitVars, lifeVars, threadVars, Become
<1> DEFINE s == local[t]
<1>1. /\ thread[t] = "got" /\ m_cRef' = [m_cRef EXCEPT ![s] = 1] /\ owns' = owns \cup {<<t, s>>}
      /\ thread' = [thread EXCEPT ![t] = "idle"] /\ local' = [local EXCEPT ![t] = NoSample]
      /\ UNCHANGED <<m_bCommitted, m_bDecommitInProgress, m_lCount, m_bChanged, pool,
                     first, client, self, deleted, m_lFree, m_lWaiting, m_hSem>>
  BY DEF GotBuffer
<1>. HIDE DEF s
<1>2. /\ s = local[t] /\ s \in pool /\ s \in Samples /\ s \notin m_lFree /\ Carries(t)
      /\ \A u \in Threads : <<u, s>> \notin owns
      /\ \A u \in Threads : u # t /\ Carries(u) => local[u] # s
  BY <1>1 DEF SamplesOut, OwnedOut, CarriedOut, NoneLost, ReleasesOwn, PoolTypes, Carries, s
<1>3. PoolTypes'
  BY <1>1, <1>2 DEF PoolTypes
<1>4. Dropping' = Dropping /\ Waiters' = Waiters
  BY <1>1, CountsKept
<1>5. RefsCounted'
  <2>1. SUFFICES ASSUME NEW r \in Samples PROVE m_cRef'[r] = Cardinality(Holders(r)')
    BY DEF RefsCounted
  <2>2. CASE r = s
    <3>1. Holders(r)' = {t}
      BY <1>1, <1>2, <2>2 DEF Holders
    <3>2. Cardinality({t}) = 1
      BY FS_Singleton
    <3>. QED  BY <1>1, <1>2, <2>2, <3>1, <3>2 DEF PoolTypes
  <2>3. CASE r # s
    <3>1. Holders(r)' = Holders(r)
      BY <1>1, <2>3 DEF Holders
    <3>. QED  BY <1>1, <2>3, <3>1 DEF RefsCounted, PoolTypes
  <2>. QED  BY <2>2, <2>3
<1>6. SamplesOut'
  <2>3. \A u \in Threads : u # t => thread'[u] = thread[u] /\ local'[u] = local[u]
    BY <1>1 DEF PoolTypes
  <2>4. thread'[t] = "idle"
    BY <1>1 DEF PoolTypes
  <2>5. \A u \in Threads : Carries(u)' <=> u # t /\ Carries(u)
    BY <2>3, <2>4 DEF Carries
  <2>6. \A u \in Threads : \A r : <<u, r>> \in owns' <=> <<u, r>> \in owns \/ (u = t /\ r = s)
    BY <1>1
  <2>7. \A u \in Threads : thread[u] = "releasing" => local[u] # s
    BY <1>2 DEF SamplesOut, OwnedOut, CarriedOut, NoneLost, ReleasesOwn
  <2>8. OwnedOut'
    BY <1>1, <1>2, <2>6 DEF SamplesOut, OwnedOut
  <2>9. CarriedOut'
    BY <1>1, <1>2, <2>3, <2>5, <2>6 DEF SamplesOut, CarriedOut
  <2>10. NoneLost'
    BY <1>1, <1>2, <2>3, <2>5, <2>6 DEF SamplesOut, NoneLost
  <2>11. ReleasesOwn'
    BY <1>1, <2>3, <2>4, <2>6, <2>7 DEF SamplesOut, ReleasesOwn
  <2>. QED  BY <2>8, <2>9, <2>10, <2>11 DEF SamplesOut
<1>. QED  BY <1>1, <1>3, <1>4, <1>5, <1>6 DEF Flags, Pending, SelfCounted, WaitersCounted

-----------------------------------------------------------------------------
(* CMediaSample.                                                            *)

LEMMA AddRefStep ==
  ASSUME IInv, NEW t \in Threads, NEW u \in Threads, NEW s \in Samples, AddRef(t, u, s)
  PROVE  IInv'
<1> USE DEF IInv, stateVars, countVars, waitVars, lifeVars, threadVars
<1>1. /\ thread[t] = "idle" /\ <<t, s>> \in owns /\ <<u, s>> \notin owns
      /\ m_cRef' = [m_cRef EXCEPT ![s] = @ + 1] /\ owns' = owns \cup {<<u, s>>}
      /\ UNCHANGED <<m_bCommitted, m_bDecommitInProgress, m_lCount, m_bChanged, pool, m_lFree,
                     m_lWaiting, m_hSem, thread, local, first, client, self, deleted>>
  BY DEF AddRef
<1>2. Dropping' = Dropping /\ Waiters' = Waiters
  BY <1>1 DEF Dropping, Waiters
<1>3. PoolTypes'
  BY <1>1 DEF PoolTypes
<1>4. RefsCounted'
  <2>1. SUFFICES ASSUME NEW r \in Samples PROVE m_cRef'[r] = Cardinality(Holders(r)')
    BY DEF RefsCounted
  <2>2. CASE r = s
    <3>1. Holders(s)' = Holders(s) \cup {u} /\ u \in Threads \ Holders(s) /\ Holders(s) \in SUBSET Threads
      BY <1>1 DEF Holders
    <3>2. Cardinality(Holders(s) \cup {u}) = Cardinality(Holders(s)) + 1
      BY <3>1, ThreadsCounted
    <3>. QED  BY <1>1, <2>2, <3>1, <3>2 DEF PoolTypes, RefsCounted
  <2>3. CASE r # s
    <3>1. Holders(r)' = Holders(r)
      BY <1>1, <2>3 DEF Holders
    <3>. QED  BY <1>1, <2>3, <3>1 DEF RefsCounted, PoolTypes
  <2>. QED  BY <2>2, <2>3
<1>5. SamplesOut'
  <2>1. \A v \in Threads : \A r : <<v, r>> \in owns' <=> <<v, r>> \in owns \/ (v = u /\ r = s)
    BY <1>1
  <2>2. OwnedOut'
    BY <1>1, <2>1 DEF SamplesOut, OwnedOut
  <2>3. CarriedOut'
    BY <1>1, <2>1 DEF SamplesOut, CarriedOut, Carries
  <2>4. NoneLost'
    BY <1>1, <2>1 DEF SamplesOut, NoneLost, Carries
  <2>5. ReleasesOwn'
    BY <1>1, <2>1 DEF SamplesOut, ReleasesOwn
  <2>. QED  BY <2>2, <2>3, <2>4, <2>5 DEF SamplesOut
<1>. QED  BY <1>1, <1>2, <1>3, <1>4, <1>5 DEF Flags, Pending, SelfCounted, WaitersCounted

LEMMA ReleaseStep ==
  ASSUME IInv, NEW t \in Threads, NEW s \in Samples, Release(t, s)
  PROVE  IInv'
<1> USE DEF IInv, stateVars, countVars, waitVars, lifeVars, Become
<1>1. /\ thread[t] = "idle" /\ <<t, s>> \in owns
      /\ thread' = [thread EXCEPT ![t] = "releasing"] /\ local' = [local EXCEPT ![t] = s]
      /\ first' = [first EXCEPT ![t] = (m_cRef[s] = 1)]
      /\ UNCHANGED <<m_bCommitted, m_bDecommitInProgress, m_lCount, m_bChanged, pool, m_lFree,
                     m_lWaiting, m_hSem, m_cRef, owns, client, self, deleted>>
  BY DEF Release
<1>2. Dropping' = Dropping /\ Waiters' = Waiters
  BY <1>1, CountsKept
<1>3. PoolTypes' /\ RefsCounted'
  BY <1>1, RefsKept DEF PoolTypes
<1>4. SamplesOut'
  <2>1. /\ \A u \in Threads : u # t => thread'[u] = thread[u] /\ local'[u] = local[u] /\ first'[u] = first[u]
        /\ thread'[t] = "releasing" /\ local'[t] = s /\ first'[t] = (m_cRef[s] = 1)
    BY <1>1 DEF PoolTypes
  <2>2. \A u \in Threads : (Carries(u)' <=> Carries(u)) /\ (Carries(u) => local'[u] = local[u])
    BY <1>1, <2>1 DEF Carries
  <2>3. first'[t] => \A u \in Threads : <<u, s>> \in owns => u = t
    <3>1. SUFFICES ASSUME m_cRef[s] = 1, NEW u \in Threads, <<u, s>> \in owns PROVE u = t
      BY <2>1
    <3>2. Holders(s) \in SUBSET Threads /\ t \in Holders(s) /\ u \in Holders(s)
      BY <1>1, <3>1 DEF Holders
    <3>3. Holders(s) \ {t} \in SUBSET Threads /\ Cardinality(Holders(s) \ {t}) = 0
      BY <3>1, <3>2, ThreadsCounted DEF RefsCounted
    <3>4. Holders(s) \ {t} = {}
      BY <3>3, ThreadsCounted
    <3>. QED  BY <3>2, <3>4
  <2>4. OwnedOut'
    BY <1>1 DEF SamplesOut, OwnedOut
  <2>5. CarriedOut'
    BY <1>1, <2>2 DEF SamplesOut, CarriedOut
  <2>6. NoneLost'
    BY <1>1, <2>2 DEF SamplesOut, NoneLost
  <2>7. ReleasesOwn'
    BY <1>1, <2>1, <2>3 DEF SamplesOut, ReleasesOwn
  <2>. QED  BY <2>4, <2>5, <2>6, <2>7 DEF SamplesOut
<1>. QED  BY <1>1, <1>2, <1>3, <1>4 DEF Flags, Pending, SelfCounted, WaitersCounted

LEMMA ReleasedStep ==
  ASSUME IInv, NEW t \in Threads, Released(t)
  PROVE  IInv'
<1> USE DEF IInv, stateVars, countVars, waitVars, lifeVars, Become
<1>0. PICK s : s = local[t]
  OBVIOUS
<1>1. /\ thread[t] = "releasing" /\ owns' = owns \ {<<t, s>>} /\ first' = [first EXCEPT ![t] = FALSE]
      /\ m_cRef' = [m_cRef EXCEPT ![s] = IF first[t] THEN 0 ELSE @ - 1]
      /\ IF m_cRef'[s] = 0 THEN thread' = [thread EXCEPT ![t] = "zero"] /\ local' = [local EXCEPT ![t] = s]
         ELSE thread' = [thread EXCEPT ![t] = "idle"] /\ local' = [local EXCEPT ![t] = NoSample]
      /\ UNCHANGED <<m_bCommitted, m_bDecommitInProgress, m_lCount, m_bChanged, pool, m_lFree,
                     m_lWaiting, m_hSem, client, self, deleted>>
  BY <1>0 DEF Released
<1>2. /\ s = local[t] /\ s \in Samples /\ <<t, s>> \in owns /\ s \in pool /\ s \notin m_lFree
      /\ first[t] => \A u \in Threads : <<u, s>> \in owns => u = t
      /\ \A u \in Threads : Carries(u) => local[u] # s
  BY <1>0, <1>1 DEF SamplesOut, OwnedOut, CarriedOut, ReleasesOwn
<1>3. Dropping' = Dropping /\ Waiters' = Waiters
  BY <1>1, CountsKept
<1>4. /\ Holders(s) \in SUBSET Threads /\ t \in Holders(s) /\ Holders(s)' = Holders(s) \ {t}
      /\ \A r \in Samples : r # s => Holders(r)' = Holders(r)
  BY <1>1, <1>2 DEF Holders
<1>5. /\ Cardinality(Holders(s) \ {t}) = Cardinality(Holders(s)) - 1
      /\ Cardinality(Holders(s)) \in Nat /\ Cardinality(Holders(s) \ {t}) \in Nat
      /\ Cardinality(Holders(s) \ {t}) = 0 <=> Holders(s) \ {t} = {}
  <2>1. Holders(s) \ {t} \in SUBSET Threads
    BY <1>4
  <2>2. Cardinality(Holders(s) \ {t}) = Cardinality(Holders(s)) - 1 /\ Cardinality(Holders(s)) \in Nat
    BY <1>4, ThreadsCounted
  <2>. QED  BY <2>1, <2>2, ThreadsCounted
<1>6. m_cRef[s] = Cardinality(Holders(s)) /\ (first[t] => m_cRef[s] = 1)
  <2>1. first[t] => Holders(s) \ {t} = {}
    BY <1>2 DEF Holders
  <2>. QED  BY <1>2, <1>5, <2>1 DEF RefsCounted
<1>7. m_cRef'[s] = m_cRef[s] - 1 /\ m_cRef'[s] \in Nat /\ m_cRef' \in [Samples -> Nat]
      /\ \A r \in Samples : r # s => m_cRef'[r] = m_cRef[r]
  BY <1>1, <1>2, <1>5, <1>6 DEF PoolTypes
<1>8. PoolTypes'
  <2>1. owns' \subseteq Threads \X Samples /\ first' \in [Threads -> BOOLEAN]
    BY <1>1 DEF PoolTypes
  <2>. QED  BY <1>1, <1>2, <1>7, <2>1 DEF PoolTypes
<1>9. RefsCounted'
  BY <1>4, <1>5, <1>6, <1>7 DEF RefsCounted
<1>10. SamplesOut'
  <2>1. /\ \A u \in Threads : u # t => thread'[u] = thread[u] /\ local'[u] = local[u] /\ first'[u] = first[u]
        /\ IF m_cRef'[s] = 0 THEN thread'[t] = "zero" /\ local'[t] = s ELSE thread'[t] = "idle"
    BY <1>1 DEF PoolTypes
  <2>2. m_cRef'[s] = 0 <=> \A u \in Threads : <<u, s>> \in owns => u = t
    <3>1. m_cRef'[s] = 0 <=> Holders(s) \ {t} = {}
      BY <1>5, <1>6, <1>7
    <3>. QED  BY <3>1 DEF Holders
  <2>3. \A u \in Threads : Carries(u)' <=> Carries(u) \/ (u = t /\ m_cRef'[s] = 0)
    BY <1>1, <2>1 DEF Carries
  <2>4. \A u \in Threads : \A r : <<u, r>> \in owns' <=> <<u, r>> \in owns /\ ~(u = t /\ r = s)
    BY <1>1
  <2>5. OwnedOut'
    BY <1>1, <2>4 DEF SamplesOut, OwnedOut
  <2>6. CarriedOut'
    <3>1. ~Carries(t)
      BY <1>1 DEF Carries
    <3>. QED  BY <1>1, <1>2, <2>1, <2>2, <2>3, <2>4, <3>1 DEF SamplesOut, CarriedOut
  <2>7. NoneLost'
    <3>1. SUFFICES ASSUME NEW r \in pool, r \notin m_lFree
                   PROVE  \E u \in Threads : <<u, r>> \in owns' \/ (Carries(u)' /\ local'[u] = r)
      BY <1>1 DEF NoneLost
    <3>2. CASE r = s
      BY <2>1, <2>2, <2>3, <2>4, <3>2
    <3>3. CASE r # s
      <4>1. PICK u \in Threads : <<u, r>> \in owns \/ (Carries(u) /\ local[u] = r)
        BY <3>1 DEF SamplesOut, NoneLost
      <4>2. ~Carries(t)
        BY <1>1 DEF Carries
      <4>. QED  BY <2>1, <2>3, <2>4, <3>3, <4>1, <4>2
    <3>. QED  BY <3>2, <3>3
  <2>8. ReleasesOwn'
    BY <1>1, <2>1, <2>4 DEF SamplesOut, ReleasesOwn
  <2>. QED  BY <2>5, <2>6, <2>7, <2>8 DEF SamplesOut
<1>. QED  BY <1>1, <1>3, <1>8, <1>9, <1>10 DEF Flags, Pending, SelfCounted, WaitersCounted

LEMMA ReleaseBufferStep ==
  ASSUME IInv, NEW t \in Threads, ReleaseBuffer(t)
  PROVE  IInv'
<1> USE DEF IInv, stateVars, countVars, waitVars, lifeVars, Become
<1>0. PICK s : s = local[t]
  OBVIOUS
<1>1. /\ thread[t] = "zero" /\ m_lFree' = m_lFree \cup {s}
      /\ m_hSem' = m_hSem + m_lWaiting /\ m_lWaiting' = 0
      /\ local' = [local EXCEPT ![t] = NoSample]
      /\ IF m_bDecommitInProgress /\ m_lFree' = pool
         THEN m_bDecommitInProgress' = FALSE /\ thread' = [thread EXCEPT ![t] = "drop"]
         ELSE UNCHANGED m_bDecommitInProgress /\ thread' = [thread EXCEPT ![t] = "tail"]
      /\ UNCHANGED <<m_bCommitted, m_lCount, m_bChanged, pool, m_cRef, owns, first, client, self, deleted>>
  BY <1>0 DEF ReleaseBuffer, NotifySample
<1>2. /\ s \in pool /\ s \in Samples /\ s \notin m_lFree /\ Carries(t)
      /\ \A u \in Threads : <<u, s>> \notin owns
      /\ \A u \in Threads : u # t /\ Carries(u) => local[u] # s
  BY <1>0, <1>1 DEF SamplesOut, CarriedOut, PoolTypes, Carries
<1>3. PoolTypes' /\ RefsCounted'
  <2>1. RefsCounted'
    BY <1>1, RefsKept
  <2>2. thread' \in [Threads -> {"idle", "waiting", "looking", "got", "releasing", "zero", "tail", "drop"}]
    BY <1>1 DEF PoolTypes
  <2>. QED  BY <1>1, <1>2, <2>1, <2>2 DEF PoolTypes
<1>4. SamplesOut'
  <2>1. /\ \A u \in Threads : u # t => thread'[u] = thread[u] /\ local'[u] = local[u]
        /\ thread'[t] \in {"drop", "tail"}
    BY <1>1 DEF PoolTypes
  <2>2. \A u \in Threads : Carries(u)' <=> u # t /\ Carries(u)
    BY <2>1 DEF Carries
  <2>3. OwnedOut'
    BY <1>1, <1>2 DEF SamplesOut, OwnedOut
  <2>4. CarriedOut'
    BY <1>1, <1>2, <2>1, <2>2 DEF SamplesOut, CarriedOut
  <2>5. NoneLost'
    BY <1>0, <1>1, <1>2, <2>1, <2>2 DEF SamplesOut, NoneLost
  <2>6. ReleasesOwn'
    BY <1>1, <2>1 DEF SamplesOut, ReleasesOwn
  <2>. QED  BY <2>3, <2>4, <2>5, <2>6 DEF SamplesOut
<1>5. Waiters' = Waiters /\ Cardinality(Waiters) \in Nat
  BY <1>1, CountsKept, ThreadsCounted DEF Waiters
<1>6. WaitersCounted'
  BY <1>1, <1>5 DEF WaitersCounted
<1>7. m_lFree # pool /\ (~m_bCommitted => m_bDecommitInProgress)
  BY <1>2 DEF Pending
<1>8. CASE m_bDecommitInProgress /\ m_lFree' = pool
  <2>1. ~m_bCommitted /\ ~m_bDecommitInProgress' /\ ~m_bCommitted'
    BY <1>1, <1>8 DEF Pending
  <2>2. t \notin Dropping /\ Dropping' = Dropping \cup {t}
    BY <1>1, <1>8, CountsKept
  <2>3. Dropping \in SUBSET Threads /\ t \in Threads \ Dropping
    BY <2>2 DEF Dropping
  <2>4. Cardinality(Dropping') = Cardinality(Dropping) + 1 /\ Cardinality(Dropping) \in Nat
    BY <2>2, <2>3, ThreadsCounted
  <2>5. SelfCounted'
    BY <1>1, <1>8, <2>1, <2>4 DEF SelfCounted
  <2>6. Flags' /\ Pending'
    BY <1>1, <1>8, <2>1 DEF Flags, Pending
  <2>. QED  BY <1>3, <1>4, <1>6, <2>5, <2>6
<1>9. CASE ~(m_bDecommitInProgress /\ m_lFree' = pool)
  <2>1. Dropping' = Dropping
    BY <1>1, <1>9, CountsKept
  <2>2. UNCHANGED m_bDecommitInProgress
    BY <1>1, <1>9
  <2>3. SelfCounted'
    BY <1>1, <2>1, <2>2 DEF SelfCounted
  <2>4. Flags' /\ Pending'
    BY <1>1, <1>7, <1>9, <2>2 DEF Flags, Pending
  <2>. QED  BY <1>3, <1>4, <1>6, <2>3, <2>4
<1>. QED  BY <1>8, <1>9

-----------------------------------------------------------------------------
(* The allocator's own references.                                          *)

LEMMA LifeStep ==
  ASSUME IInv, (\E t \in Threads : Notify(t) \/ Drop(t)) \/ ClientRelease \/ UNCHANGED vars
  PROVE  IInv'
<1> USE DEF IInv, stateVars, countVars, waitVars, lifeVars, threadVars, Become
<1>1. ASSUME NEW t \in Threads, Notify(t) PROVE IInv'
  <2>1. /\ thread[t] = "tail" /\ thread' = [thread EXCEPT ![t] = "idle"]
        /\ local' = [local EXCEPT ![t] = NoSample]
        /\ UNCHANGED <<m_bCommitted, m_bDecommitInProgress, m_lCount, m_bChanged, pool, m_lFree, m_lWaiting,
                       m_hSem, m_cRef, owns, first, client, self, deleted>>
    BY <1>1 DEF Notify
  <2>2. PoolTypes' /\ SamplesOut' /\ RefsCounted'
    BY <2>1, NoSampleStep, RefsKept DEF PoolTypes
  <2>3. Dropping' = Dropping /\ Waiters' = Waiters
    BY <2>1, CountsKept
  <2>. QED  BY <2>1, <2>2, <2>3 DEF Flags, Pending, SelfCounted, WaitersCounted
<1>2. ASSUME NEW t \in Threads, Drop(t) PROVE IInv'
  <2>1. /\ thread[t] = "drop" /\ thread' = [thread EXCEPT ![t] = "idle"]
        /\ local' = [local EXCEPT ![t] = NoSample]
        /\ self' = self - 1 /\ deleted' = (~client /\ self' = 0)
        /\ UNCHANGED <<m_bCommitted, m_bDecommitInProgress, m_lCount, m_bChanged, pool, m_lFree, m_lWaiting,
                       m_hSem, m_cRef, owns, first, client>>
    BY <1>2 DEF Drop
  <2>2. PoolTypes' /\ SamplesOut' /\ RefsCounted'
    BY <2>1, NoSampleStep, RefsKept DEF PoolTypes
  <2>3. t \in Dropping /\ Dropping' = Dropping \ {t} /\ Waiters' = Waiters /\ Dropping \in SUBSET Threads
    BY <2>1, CountsKept DEF Dropping
  <2>4. Cardinality(Dropping') = Cardinality(Dropping) - 1 /\ Cardinality(Dropping) \in Nat
    BY <2>3, ThreadsCounted
  <2>5. SelfCounted'
    <3>1. (deleted' => ~client /\ self' = 0) /\ self' = self - 1
      BY <2>1, Zenon
    <3>2. (~client => ~m_bCommitted) /\ UNCHANGED <<client, m_bCommitted, m_bDecommitInProgress>>
      BY <2>1 DEF SelfCounted
    <3>3. self = Cardinality(Dropping) + (IF m_bCommitted \/ m_bDecommitInProgress THEN 1 ELSE 0)
      BY DEF SelfCounted
    <3>4. self' = Cardinality(Dropping') + (IF m_bCommitted \/ m_bDecommitInProgress THEN 1 ELSE 0)
      BY <2>4, <3>1, <3>3
    <3>. QED  BY <3>1, <3>2, <3>4 DEF SelfCounted
  <2>6. Flags' /\ Pending'
    <3>1. deleted' \in BOOLEAN
      BY <2>1, Zenon
    <3>. QED  BY <2>1, <3>1 DEF Flags, Pending
  <2>7. WaitersCounted'
    BY <2>1, <2>3 DEF WaitersCounted
  <2>. QED  BY <2>2, <2>5, <2>6, <2>7
<1>3. ASSUME ClientRelease \/ UNCHANGED vars PROVE IInv'
  <2>1. UNCHANGED <<m_bCommitted, m_bDecommitInProgress, m_lCount, m_bChanged, pool, m_lFree, m_lWaiting,
                    m_hSem, m_cRef, owns, thread, local, first, self>>
    BY <1>3 DEF ClientRelease, vars
  <2>2. PoolTypes' /\ SamplesOut' /\ RefsCounted' /\ Pending'
    BY <2>1, SamplesKept, RefsKept DEF PoolTypes, Pending
  <2>3. Dropping' = Dropping /\ Waiters' = Waiters
    BY <2>1 DEF Dropping, Waiters
  <2>4. WaitersCounted'
    BY <2>1, <2>3 DEF WaitersCounted
  <2>5. SelfCounted'
    <3>1. CASE ClientRelease
      <4>1. (deleted' => self = 0) /\ ~client' /\ ~m_bCommitted
        BY <3>1, Zenon DEF ClientRelease
      <4>2. self = Cardinality(Dropping) + (IF m_bCommitted \/ m_bDecommitInProgress THEN 1 ELSE 0)
        BY DEF SelfCounted
      <4>. QED  BY <2>1, <2>3, <4>1, <4>2 DEF SelfCounted
    <3>2. CASE UNCHANGED vars
      BY <2>1, <2>3, <3>2 DEF vars, SelfCounted
    <3>. QED  BY <1>3, <3>1, <3>2
  <2>6. Flags'
    <3>1. CASE ClientRelease
      <4>1. client' \in BOOLEAN /\ deleted' \in BOOLEAN
        BY <3>1, Zenon DEF ClientRelease
      <4>. QED  BY <2>1, <4>1 DEF Flags
    <3>2. CASE UNCHANGED vars
      BY <3>2 DEF vars, Flags
    <3>. QED  BY <1>3, <3>1, <3>2
  <2>. QED  BY <2>2, <2>4, <2>5, <2>6
<1>. QED  BY <1>1, <1>2, <1>3

-----------------------------------------------------------------------------
(* Results.                                                                 *)

LEMMA IInvStart == Init => IInv
<1> SUFFICES ASSUME Init PROVE IInv
  OBVIOUS
<1> USE DEF Init
<1>1. Cardinality({}) = 0 /\ Cardinality(Samples) \in Nat
  BY FS_EmptySet, FS_CardinalityType, ConstantsAssumption
<1>2. Dropping = {} /\ Waiters = {} /\ \A s \in Samples : Holders(s) = {}
  BY DEF Dropping, Waiters, Holders
<1>3. PoolTypes
  BY <1>1 DEF PoolTypes
<1>4. Flags
  BY DEF Flags
<1>5. RefsCounted
  BY <1>1, <1>2 DEF RefsCounted
<1>6. SamplesOut
  BY DEF SamplesOut, OwnedOut, CarriedOut, NoneLost, ReleasesOwn, Carries
<1>7. Pending /\ SelfCounted /\ WaitersCounted
  BY <1>1, <1>2, ConstantsAssumption DEF Pending, SelfCounted, WaitersCounted
<1>. QED  BY <1>3, <1>4, <1>5, <1>6, <1>7 DEF IInv

LEMMA IInvStep == IInv /\ [Next]_vars => IInv'
<1> SUFFICES ASSUME IInv, [Next]_vars PROVE IInv'
  OBVIOUS
<1>1. CASE UNCHANGED vars
  BY <1>1, LifeStep
<1>2. ASSUME NEW t \in Threads, NEW n \in 0..Cardinality(Samples),
             SetProperties(t, n) \/ CommitCancels(t) \/ Commit(t) \/ CommitFails(t, n)
      PROVE  IInv'
  BY <1>2, SetUpStep
<1>3. Counts \subseteq 0..Cardinality(Samples) /\ 0 \in 0..Cardinality(Samples)
  BY ConstantsAssumption, FS_CardinalityType DEF Counts
<1>4. ASSUME NEW t \in Threads, Decommit(t) \/ Getting(t) \/ Releasing(t) PROVE IInv'
  <2>1. CASE Notify(t) \/ Drop(t)
    BY <2>1, LifeStep
  <2>. QED  BY <1>4, <2>1, DecommitStep, GetBufferStep, WakeStep, GotBufferStep, ReleasedStep,
               ReleaseBufferStep DEF Getting, Releasing
<1>5. ASSUME NEW t \in Threads, NEW s \in Samples, Release(t, s) \/ \E u \in Threads : AddRef(t, u, s)
      PROVE  IInv'
  BY <1>5, ReleaseStep, AddRefStep
<1>6. CASE ClientRelease \/ Gone
  BY <1>6, <1>1, LifeStep DEF Gone
<1>. QED  BY <1>1, <1>2, <1>3, <1>4, <1>5, <1>6 DEF Next

\* The invariant gives what the run checks.
LEMMA IInvImplies == IInv => PoolHolds
<1> SUFFICES ASSUME IInv PROVE PoolHolds
  OBVIOUS
<1> USE DEF IInv
<1>1. /\ \A s \in Samples : Cardinality(Holders(s)) \in 0..Cardinality(Threads)
      /\ Cardinality(Dropping) \in 0..Cardinality(Threads) /\ Cardinality(Threads) \in Nat
  <2>1. \A T \in SUBSET Threads : Cardinality(T) \in 0..Cardinality(Threads) /\ Cardinality(Threads) \in Nat
    BY ThreadsCounted, FS_CardinalityType, ConstantsAssumption
  <2>. QED  BY <2>1 DEF Holders, Dropping
<1>2. TypeOK
  <2>1. m_cRef \in [Samples -> 0..Cardinality(Threads)]
    BY <1>1 DEF PoolTypes, RefsCounted
  <2>2. self \in 0..(Cardinality(Threads) + 1)
    BY <1>1 DEF SelfCounted
  <2>3. m_lWaiting \in 0..MaxWaiting /\ m_hSem \in 0..MaxWaiting
    BY ConstantsAssumption DEF WaitersCounted
  <2>. QED  BY <2>1, <2>2, <2>3 DEF TypeOK, PoolTypes, Flags
<1>3. OneWhereabout
  <2>1. SUFFICES ASSUME NEW s \in pool
                 PROVE  /\ m_cRef[s] = Cardinality(Holders(s))
                        /\ Cardinality(InTransit(s)) + (IF s \in m_lFree THEN 1 ELSE 0)
                             + (IF Holders(s) # {} THEN 1 ELSE 0) = 1
    BY DEF OneWhereabout
  <2>2. s \in Samples /\ m_cRef[s] = Cardinality(Holders(s))
    BY DEF PoolTypes, RefsCounted
  <2>3. Cardinality({}) = 0 /\ \A t : Cardinality({t}) = 1
    BY FS_EmptySet, FS_Singleton
  <2>4. CASE InTransit(s) = {}
    <3>1. s \in m_lFree <=> Holders(s) = {}
      BY <2>2, <2>4 DEF SamplesOut, OwnedOut, NoneLost, InTransit, Holders, Carries
    <3>. QED  BY <2>2, <2>3, <2>4, <3>1
  <2>5. CASE InTransit(s) # {}
    <3>1. PICK t \in Threads : Carries(t) /\ local[t] = s
      BY <2>5 DEF InTransit, Carries
    <3>2. InTransit(s) = {t} /\ s \notin m_lFree /\ Holders(s) = {}
      BY <3>1 DEF SamplesOut, CarriedOut, InTransit, Holders, Carries
    <3>3. Cardinality(InTransit(s)) = 1
      BY <2>3, <3>2
    <3>. QED  BY <2>2, <3>2, <3>3
  <2>. QED  BY <2>4, <2>5
<1>4. DecommitPending
  BY DEF Pending, DecommitPending, AllFree
<1>5. SelfReference
  <2>1. self = Cardinality({t \in Threads : thread[t] = "drop"})
               + (IF m_bCommitted \/ m_bDecommitInProgress THEN 1 ELSE 0)
    BY DEF SelfCounted, Dropping
  <2>2. deleted => ~m_bCommitted /\ ~m_bDecommitInProgress
    BY <1>1 DEF SelfCounted
  <2>. QED  BY <2>1, <2>2 DEF SelfReference, Pending, AllFree
<1>6. NoMissedBuffer
  BY DEF WaitersCounted, NoMissedBuffer
<1>. QED  BY <1>2, <1>3, <1>4, <1>5, <1>6 DEF PoolHolds

\* For any finite sets of threads and samples: no sample is handed out while someone has it, none is
\* lost, a decommit is pending exactly while samples are out, the allocator stays until they are back
\* and no thread misses the sample or the decommit that it waits for.
THEOREM PoolAlwaysHolds == Spec => []PoolHolds
BY IInvStart, IInvStep, IInvImplies, PTL DEF Spec
=============================================================================
