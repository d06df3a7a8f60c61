----------------------------- MODULE Allocator -----------------------------
(***************************************************************************)
(* CMemAllocator on CBaseAllocator, and the reference counts of its        *)
(* CMediaSamples (baseclasses/amfilter.cpp).                               *)
(*                                                                         *)
(* Threads get samples, share them (AddRef), release them and commit or    *)
(* decommit the allocator.  A critical section is one action.  Thread t is *)
(*   "idle"                                                                *)
(*   "waiting"    in GetBuffer, has called SetWaiting, before or in its    *)
(*                wait for m_hSem                                          *)
(*   "looking"    in GetBuffer, about to take the critical section         *)
(*   "got"        in GetBuffer, has taken local[t] off the free list       *)
(*   "releasing"  in Release of local[t], has compared m_cRef with 1       *)
(*   "zero"       in Release, m_cRef is 0, about to enter ReleaseBuffer    *)
(*   "tail"       in ReleaseBuffer after its critical section              *)
(*   "drop"       has bRelease, about to Release the allocator             *)
(*                                                                         *)
(* The sizes and the alignment of the buffers are left out: they decide    *)
(* only whether Alloc fails.  The free list is a set; which sample         *)
(* RemoveHead returns makes no difference.                                 *)
(***************************************************************************)
EXTENDS Naturals, FiniteSets

CONSTANTS Threads,
          Samples,      \* the CMediaSample objects there can be
          MaxWaiting    \* bound on m_lWaiting + m_hSem

ASSUME ConstantsAssumption ==
  IsFiniteSet(Threads) /\ IsFiniteSet(Samples) /\ MaxWaiting \in Nat

VARIABLES m_bCommitted, m_bDecommitInProgress, m_bChanged, m_lCount,
          pool,        \* the allocated samples: m_lAllocated is their number
          m_lFree, m_lWaiting, m_hSem,
          m_cRef,      \* of each sample
          owns,        \* <<t, s>>: thread t holds a reference to sample s
          thread, local,
          first,       \* what Release found: m_cRef = 1
          client,      \* the allocator's users hold references to it
          self,        \* the references it holds to itself
          deleted

countVars == <<m_lCount, m_bChanged, pool>>
waitVars  == <<m_lWaiting, m_hSem>>
lifeVars  == <<client, self, deleted>>
stateVars == <<m_bCommitted, m_bDecommitInProgress>>
threadVars == <<thread, local, first>>
vars == <<stateVars, countVars, m_lFree, waitVars, m_cRef, owns, threadVars, lifeVars>>

NoSample == "none"
AllFree == m_lFree = pool

Init ==
  /\ m_bCommitted = FALSE /\ m_bDecommitInProgress = FALSE
  /\ m_bChanged = FALSE /\ m_lCount = 0 /\ pool = {} /\ m_lFree = {}
  /\ m_lWaiting = 0 /\ m_hSem = 0
  /\ m_cRef = [s \in Samples |-> 0] /\ owns = {}
  /\ thread = [t \in Threads |-> "idle"]
  /\ local = [t \in Threads |-> NoSample]
  /\ first = [t \in Threads |-> FALSE]
  /\ client = TRUE /\ self = 0 /\ deleted = FALSE

Become(t, state, s) == thread' = [thread EXCEPT ![t] = state] /\ local' = [local EXCEPT ![t] = s]

NotifySample == m_hSem' = m_hSem + m_lWaiting /\ m_lWaiting' = 0

\* A call by an idle thread, which the caller's reference keeps safe.
Enter(t) == thread[t] = "idle" /\ client

-----------------------------------------------------------------------------
(* Commit, Decommit and SetProperties.                                     *)

SetProperties(t, n) ==
  /\ Enter(t) /\ ~m_bCommitted /\ AllFree
  /\ m_lCount' = n /\ m_bChanged' = TRUE /\ UNCHANGED pool
  /\ UNCHANGED <<stateVars, m_lFree, waitVars, m_cRef, owns, threadVars, lifeVars>>

\* CMemAllocator::Alloc with m_bChanged: ReallyFree the old samples and make
\* n new ones, all on the free list.
Alloc(n) ==
  /\ pool' \in {P \in SUBSET Samples : Cardinality(P) = n}
  /\ m_lFree' = pool'
  /\ UNCHANGED m_lCount

\* Commit with a pending decommit, which it cancels.
CommitCancels(t) ==
  /\ Enter(t) /\ ~m_bCommitted /\ m_bDecommitInProgress
  /\ m_bCommitted' = TRUE /\ m_bDecommitInProgress' = FALSE
  /\ UNCHANGED <<countVars, m_lFree, waitVars, m_cRef, owns, threadVars, lifeVars>>

\* Commit that allocates, or keeps what it has if nothing has changed.
Commit(t) ==
  /\ Enter(t) /\ ~m_bCommitted /\ ~m_bDecommitInProgress /\ m_lCount > 0
  /\ IF m_bChanged THEN Alloc(m_lCount) ELSE UNCHANGED <<pool, m_lFree, m_lCount>>
  /\ m_bChanged' = FALSE
  /\ m_bCommitted' = TRUE
  /\ self' = self + 1
  /\ UNCHANGED <<m_bDecommitInProgress, waitVars, m_cRef, owns, threadVars, client, deleted>>

\* Commit whose Alloc fails after making n samples.
CommitFails(t, n) ==
  /\ Enter(t) /\ ~m_bCommitted /\ ~m_bDecommitInProgress /\ m_lCount > 0 /\ m_bChanged
  /\ n < m_lCount /\ Alloc(n)
  /\ UNCHANGED <<m_bChanged, stateVars, waitVars, m_cRef, owns, threadVars, lifeVars>>

Decommit(t) ==
  /\ Enter(t) /\ (m_bCommitted \/ m_bDecommitInProgress)
  /\ m_bCommitted' = FALSE
  /\ m_bDecommitInProgress' = ~AllFree
  /\ IF AllFree THEN Become(t, "drop", NoSample) ELSE UNCHANGED <<thread, local>>
  /\ NotifySample
  /\ UNCHANGED <<countVars, m_lFree, m_cRef, owns, first, lifeVars>>

-----------------------------------------------------------------------------
(* GetBuffer.                                                              *)

SetWaiting ==
  /\ m_lWaiting + m_hSem < MaxWaiting
  /\ m_lWaiting' = m_lWaiting + 1 /\ UNCHANGED m_hSem

\* The critical section, from the call or again after a wait.  With
\* AM_GBF_NOWAIT the thread has been counted as waiting when it returns.
GetBuffer(t) ==
  /\ Enter(t) \/ thread[t] = "looking"
  /\ IF ~m_bCommitted
     THEN Become(t, "idle", NoSample) /\ UNCHANGED <<m_lFree, waitVars>>
     ELSE \/ \E s \in m_lFree : /\ m_lFree' = m_lFree \ {s}
                                /\ Become(t, "got", s)
                                /\ UNCHANGED waitVars
          \/ /\ m_lFree = {} /\ SetWaiting
             /\ \E state \in {"waiting", "idle"} : Become(t, state, NoSample)
             /\ UNCHANGED m_lFree
  /\ UNCHANGED <<stateVars, countVars, m_cRef, owns, first, lifeVars>>

\* Mutant: only a free sample ends the wait.
Wake_ForSample(t) ==
  /\ thread[t] = "waiting" /\ m_hSem > 0 /\ m_lFree # {}
  /\ m_hSem' = m_hSem - 1 /\ Become(t, "looking", NoSample)
  /\ UNCHANGED <<stateVars, countVars, m_lFree, m_lWaiting, m_cRef, owns, first, lifeVars>>

\* The thread gets the semaphore.
Wake(t) ==
  /\ thread[t] = "waiting" /\ m_hSem > 0
  /\ m_hSem' = m_hSem - 1 /\ Become(t, "looking", NoSample)
  /\ UNCHANGED <<stateVars, countVars, m_lFree, m_lWaiting, m_cRef, owns, first, lifeVars>>

\* m_cRef = 1, without the critical section.
GotBuffer(t) ==
  /\ thread[t] = "got"
  /\ m_cRef' = [m_cRef EXCEPT ![local[t]] = 1]
  /\ owns' = owns \cup {<<t, local[t]>>}
  /\ Become(t, "idle", NoSample)
  /\ UNCHANGED <<stateVars, countVars, m_lFree, waitVars, first, lifeVars>>

-----------------------------------------------------------------------------
(* CMediaSample.                                                           *)

\* Thread t takes a reference for thread u.
AddRef(t, u, s) ==
  /\ thread[t] = "idle" /\ <<t, s>> \in owns /\ <<u, s>> \notin owns
  /\ m_cRef' = [m_cRef EXCEPT ![s] = @ + 1]
  /\ owns' = owns \cup {<<u, s>>}
  /\ UNCHANGED <<stateVars, countVars, m_lFree, waitVars, threadVars, lifeVars>>

\* Release compares m_cRef with 1 ...
Release(t, s) ==
  /\ thread[t] = "idle" /\ <<t, s>> \in owns
  /\ Become(t, "releasing", s)
  /\ first' = [first EXCEPT ![t] = (m_cRef[s] = 1)]
  /\ UNCHANGED <<stateVars, countVars, m_lFree, waitVars, m_cRef, owns, lifeVars>>

\* Mutant: the count is compared again instead of taking the decrement's result.
Released_Stale(t) ==
  /\ thread[t] = "releasing"
  /\ m_cRef' = [m_cRef EXCEPT ![local[t]] = IF first[t] THEN 0 ELSE @ - 1]
  /\ owns' = owns \ {<<t, local[t]>>}
  /\ IF first[t] THEN Become(t, "zero", local[t]) ELSE Become(t, "idle", NoSample)
  /\ UNCHANGED <<stateVars, countVars, m_lFree, waitVars, first, lifeVars>>

\* ... and sets it to 0 or decrements it.
Released(t) ==
  /\ thread[t] = "releasing"
  /\ m_cRef' = [m_cRef EXCEPT ![local[t]] = IF first[t] THEN 0 ELSE @ - 1]
  /\ owns' = owns \ {<<t, local[t]>>}
  /\ IF m_cRef'[local[t]] = 0 THEN Become(t, "zero", local[t]) ELSE Become(t, "idle", NoSample)
  /\ first' = [first EXCEPT ![t] = FALSE]
  /\ UNCHANGED <<stateVars, countVars, m_lFree, waitVars, lifeVars>>

ReleaseBuffer(t) ==
  /\ thread[t] = "zero"
  /\ m_lFree' = m_lFree \cup {local[t]}
  /\ NotifySample
  /\ IF m_bDecommitInProgress /\ m_lFree' = pool
     THEN m_bDecommitInProgress' = FALSE /\ Become(t, "drop", NoSample)
     ELSE UNCHANGED m_bDecommitInProgress /\ Become(t, "tail", NoSample)
  /\ UNCHANGED <<m_bCommitted, countVars, m_cRef, owns, first, lifeVars>>

\* ReleaseBuffer reads m_pNotify and returns.
Notify(t) ==
  /\ thread[t] = "tail" /\ Become(t, "idle", NoSample)
  /\ UNCHANGED <<stateVars, countVars, m_lFree, waitVars, m_cRef, owns, first, lifeVars>>

-----------------------------------------------------------------------------
(* The allocator's own references.                                         *)

\* Release of the reference Commit took; the last one deletes the allocator.
Drop(t) ==
  /\ thread[t] = "drop" /\ Become(t, "idle", NoSample)
  /\ self' = self - 1
  /\ deleted' = (~client /\ self' = 0)
  /\ UNCHANGED <<stateVars, countVars, m_lFree, waitVars, m_cRef, owns, first, client>>

\* The users release theirs; nobody is in a call that needs it.
ClientRelease ==
  /\ client /\ \A t \in Threads : thread[t] \notin {"waiting", "looking", "got"}
  /\ ~m_bCommitted
  /\ client' = FALSE /\ deleted' = (self = 0)
  /\ UNCHANGED <<stateVars, countVars, m_lFree, waitVars, m_cRef, owns, threadVars, self>>

Gone == deleted /\ UNCHANGED vars

Counts == 1..Cardinality(Samples)

Getting(t) == GetBuffer(t) \/ Wake(t) \/ GotBuffer(t)

Releasing(t) == Released(t) \/ ReleaseBuffer(t) \/ Notify(t) \/ Drop(t)

Next ==
  \/ \E t \in Threads :
       \/ \E n \in Counts : SetProperties(t, n)
       \/ CommitCancels(t) \/ Commit(t) \/ Decommit(t)
       \/ \E n \in 0..Cardinality(Samples) : CommitFails(t, n)
       \/ Getting(t) \/ Releasing(t)
       \/ \E s \in Samples : Release(t, s) \/ \E u \in Threads : AddRef(t, u, s)
  \/ ClientRelease
  \/ Gone

Spec == Init /\ [][Next]_vars

\* A thread that is in the allocator's code goes on.
FairSpec ==
  /\ Spec
  /\ \A t \in Threads : WF_vars(thread[t] # "idle" /\ (Getting(t) \/ Releasing(t)))

-----------------------------------------------------------------------------
(* Properties.                                                             *)

TypeOK ==
  /\ m_bCommitted \in BOOLEAN /\ m_bDecommitInProgress \in BOOLEAN /\ m_bChanged \in BOOLEAN
  /\ m_lCount \in 0..Cardinality(Samples)
  /\ pool \subseteq Samples /\ m_lFree \subseteq pool
  /\ m_lWaiting \in 0..MaxWaiting /\ m_hSem \in 0..MaxWaiting
  /\ m_cRef \in [Samples -> 0..Cardinality(Threads)] /\ owns \subseteq Threads \X Samples
  /\ thread \in [Threads -> {"idle", "waiting", "looking", "got", "releasing", "zero",
                             "tail", "drop"}]
  /\ local \in [Threads -> Samples \cup {NoSample}] /\ first \in [Threads -> BOOLEAN]
  /\ client \in BOOLEAN /\ self \in 0..(Cardinality(Threads) + 1) /\ deleted \in BOOLEAN

Holders(s) == {t \in Threads : <<t, s>> \in owns}
InTransit(s) == {t \in Threads : thread[t] \in {"got", "zero"} /\ local[t] = s}

\* A sample is on the free list, on its way from or to it in the hands of one
\* thread, or referenced, with m_cRef the number of its references: it is
\* never handed out while someone still has it, and never lost (GetBuffer,
\* CMediaSample::Release, ReleaseBuffer).
OneWhereabout ==
  \A s \in pool :
    /\ m_cRef[s] = Cardinality(Holders(s))
    /\ Cardinality(InTransit(s)) + (IF s \in m_lFree THEN 1 ELSE 0)
         + (IF Holders(s) # {} THEN 1 ELSE 0) = 1

\* A decommit is pending exactly while a decommitted allocator has samples
\* out, so that Alloc and ReallyFree never free one that is in use (their
\* ASSERTs of m_lFree.GetCount() == m_lAllocated).
DecommitPending == ~m_bCommitted => (m_bDecommitInProgress <=> ~AllFree)

\* The allocator holds one reference to itself while it is committed or a
\* decommit is pending, besides those that are about to be dropped: it is
\* deleted only when no sample is out and no thread waits in GetBuffer.
SelfReference ==
  /\ self = Cardinality({t \in Threads : thread[t] = "drop"})
            + (IF m_bCommitted \/ m_bDecommitInProgress THEN 1 ELSE 0)
  /\ deleted => AllFree /\ ~m_bCommitted

\* Every thread that waits is counted or has the semaphore coming, and has it
\* coming when there is a free sample or nothing to wait for (SetWaiting,
\* NotifySample, Decommit).
Waiters == {t \in Threads : thread[t] = "waiting"}
NoMissedBuffer ==
  /\ Cardinality(Waiters) <= m_lWaiting + m_hSem
  /\ m_lFree # {} \/ ~m_bCommitted => Cardinality(Waiters) <= m_hSem

\* A thread that waits in GetBuffer when the allocator is decommitted
\* returns, unless the allocator is committed again first.
InGetBuffer(t) == thread[t] \in {"waiting", "looking"}
DecommitReleases ==
  \A t \in Threads :
    (InGetBuffer(t) /\ ~m_bCommitted) ~> (~InGetBuffer(t) \/ m_bCommitted)

\* What Commit, Decommit, GetBuffer and Release keep between them, unlocked steps included.
PoolHolds == TypeOK /\ OneWhereabout /\ DecommitPending /\ SelfReference /\ NoMissedBuffer

-----------------------------------------------------------------------------
(* What comments say, and the code does not do.                            *)

\* Nobody is in the allocator's code when it is deleted ("hold a refcount on
\* the allocator to stop that going away until we have finished with this").
NoneInsideWhenDeleted == deleted => \A t \in Threads : thread[t] # "tail"
=============================================================================
