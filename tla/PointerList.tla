----------------------------- MODULE PointerList -----------------------------
(***************************************************************************)
(* CBaseList (baseclasses/wxlist.cpp): doubly linked lists whose removed   *)
(* nodes go to a cache of the list, and which hand chains of nodes to one  *)
(* another.  The operations are functions of the heap, as the code's are   *)
(* made of each other; `contents' is what each list should hold.           *)
(***************************************************************************)
EXTENDS Integers, SequencesExt

CONSTANTS Nodes, NULL, Lists, Objects,
          iCacheSize   \* nodes that a list's cache keeps

VARIABLES h,         \* the heap: nodes, the lists' anchors and caches
          contents   \* of each list: the sequence of objects

listVars == <<h, contents>>

ListInit == /\ h = [next |-> [n \in Nodes |-> NULL], prev |-> [n \in Nodes |-> NULL],
                    object |-> [n \in Nodes |-> NULL], live |-> {},
                    first |-> [l \in Lists |-> NULL], last |-> [l \in Lists |-> NULL],
                    count |-> [l \in Lists |-> 0],
                    head |-> [l \in Lists |-> NULL], used |-> [l \in Lists |-> 0]]
            /\ contents = [l \in Lists |-> <<>>]

\* The nodes from n on, along one of the links.
Chain(link, n) == LET at[i \in 0..Cardinality(Nodes)] ==
                        IF i = 0 THEN n ELSE IF at[i - 1] = NULL THEN NULL ELSE link[at[i - 1]]
                  IN SelectSeq([i \in 1..(Cardinality(Nodes) + 1) |-> at[i - 1]], LAMBDA m : m # NULL)

-----------------------------------------------------------------------------
\* SetNext and SetPrev, which are left out where there is no node.
SetNext(g, n, m) == IF n = NULL THEN g ELSE [g EXCEPT !.next[n] = m]
SetPrev(g, n, m) == IF n = NULL THEN g ELSE [g EXCEPT !.prev[n] = m]

\* Nodes outside the lists keep only the link of the cache: the rest is never read again.
Wiped(g, ns) == [g EXCEPT !.next = [n \in Nodes |-> IF n \in ns THEN NULL ELSE @[n]],
                          !.prev = [n \in Nodes |-> IF n \in ns THEN NULL ELSE @[n]],
                          !.object = [n \in Nodes |-> IF n \in ns THEN NULL ELSE @[n]]]

\* A full cache deletes the node.
AddToCache(g, l, n) ==
  IF g.used[l] < iCacheSize
  THEN [Wiped(g, {n}) EXCEPT !.next[n] = g.head[l], !.head[l] = n, !.used[l] = @ + 1]
  ELSE [Wiped(g, {n}) EXCEPT !.live = @ \ {n}]

\* The node the next addition to list l takes: a cached one, a new one, or none.
NewNode(g, l) == IF g.head[l] # NULL THEN g.head[l]
                 ELSE IF g.live = Nodes THEN NULL ELSE CHOOSE n \in Nodes : n \notin g.live

RemoveFromCache(g, l, pObj) ==
  LET n == NewNode(g, l)
      t == IF g.head[l] = NULL THEN [g EXCEPT !.live = @ \cup {n}]
           ELSE [g EXCEPT !.head[l] = g.next[n], !.used[l] = @ - 1]
  IN [t EXCEPT !.object[n] = pObj, !.count[l] = @ + 1]

AddTailI(g, l, pObj) ==
  LET n == NewNode(g, l)
      t == SetNext(RemoveFromCache(g, l, pObj), g.last[l], n)
  IN IF n = NULL THEN g
     ELSE [t EXCEPT !.next[n] = NULL, !.prev[n] = g.last[l], !.last[l] = n,
                    !.first[l] = IF g.last[l] = NULL THEN n ELSE @]

AddHeadI(g, l, pObj) ==
  LET n == NewNode(g, l)
      t == SetPrev(RemoveFromCache(g, l, pObj), g.first[l], n)
  IN IF n = NULL THEN g
     ELSE [t EXCEPT !.prev[n] = NULL, !.next[n] = g.first[l], !.first[l] = n,
                    !.last[l] = IF g.first[l] = NULL THEN n ELSE @]

\* Between two nodes that are neighbours.
ChainIn(g, l, pAfter, pBefore, pObj) ==
  LET n == NewNode(g, l)
  IN IF n = NULL THEN g
     ELSE [RemoveFromCache(g, l, pObj) EXCEPT !.prev[n] = pAfter, !.next[n] = pBefore,
                                              !.prev[pBefore] = n, !.next[pAfter] = n]

\* NULL stands for the place before the first, or after the last.
AddAfterI(g, l, pos, pObj) == IF pos = NULL THEN AddHeadI(g, l, pObj)
                              ELSE IF pos = g.last[l] THEN AddTailI(g, l, pObj)
                              ELSE ChainIn(g, l, pos, g.next[pos], pObj)

AddBeforeI(g, l, pos, pObj) == IF pos = NULL THEN AddTailI(g, l, pObj)
                               ELSE IF pos = g.first[l] THEN AddHeadI(g, l, pObj)
                               ELSE ChainIn(g, l, g.prev[pos], pos, pObj)

\* Mutant: the last pointer is left alone.
RemoveI_KeepLast(g, l, pos) ==
  LET p == g.prev[pos]
      n == g.next[pos]
      t == SetPrev(SetNext(g, p, n), n, p)
  IN AddToCache([t EXCEPT !.first[l] = IF p = NULL THEN n ELSE @, !.count[l] = @ - 1], l, pos)

RemoveI(g, l, pos) ==
  LET p == g.prev[pos]
      n == g.next[pos]
      t == SetPrev(SetNext(g, p, n), n, p)
  IN AddToCache([t EXCEPT !.first[l] = IF p = NULL THEN n ELSE @,
                          !.last[l] = IF n = NULL THEN p ELSE @, !.count[l] = @ - 1], l, pos)

\* The nodes are deleted, not cached.
RemoveAll(g, l) == LET mine == ToSet(Chain(g.next, g.first[l]))
                   IN [Wiped(g, mine) EXCEPT !.live = @ \ mine,
                                             !.first[l] = NULL, !.last[l] = NULL, !.count[l] = 0]

\* The nodes of l up to pos join the tail of k: the chains are joined and broken elsewhere.
MoveToTail(g, l, pos, k) ==
  LET cMove == Len(Chain(g.prev, pos))
      joined == SetPrev(SetNext(g, g.last[k], g.first[l]), g.first[l], g.last[k])
      rest  == joined.next[pos]
  IN SetNext(SetPrev([joined EXCEPT
       !.first = [@ EXCEPT ![l] = rest, ![k] = IF @ = NULL THEN g.first[l] ELSE @],
       !.last = [@ EXCEPT ![l] = IF rest = NULL THEN NULL ELSE @, ![k] = pos],
       !.count = [@ EXCEPT ![l] = @ - cMove, ![k] = @ + cMove]], rest, NULL), pos, NULL)

\* The nodes of l from pos on join the head of k.
MoveToHead(g, l, pos, k) ==
  LET cMove == Len(Chain(g.next, pos))
      joined == SetNext(SetPrev(g, g.first[k], g.last[l]), g.last[l], g.first[k])
      rest  == joined.prev[pos]
  IN SetPrev(SetNext([joined EXCEPT
       !.last = [@ EXCEPT ![l] = rest, ![k] = IF @ = NULL THEN g.last[l] ELSE @],
       !.first = [@ EXCEPT ![l] = IF rest = NULL THEN NULL ELSE @, ![k] = pos],
       !.count = [@ EXCEPT ![l] = @ - cMove, ![k] = @ + cMove]], rest, NULL), pos, NULL)

\* Every node's links are exchanged, and the list's.
ReverseList(g, l) ==
  LET mine == ToSet(Chain(g.next, g.first[l]))
  IN [g EXCEPT !.next = [n \in Nodes |-> IF n \in mine THEN g.prev[n] ELSE g.next[n]],
               !.prev = [n \in Nodes |-> IF n \in mine THEN g.next[n] ELSE g.prev[n]],
               !.first[l] = g.last[l], !.last[l] = g.first[l]]

-----------------------------------------------------------------------------
\* The objects of another list, in order, as they are added one after the other.
Objs(l) == [i \in 1..Len(Chain(h.next, h.first[l])) |-> h.object[Chain(h.next, h.first[l])[i]]]

AddTail(l, k) == FoldLeft(LAMBDA g, o : AddTailI(g, l, o), h, Objs(k))

AddHead(l, k) == FoldLeft(LAMBDA g, o : AddHeadI(g, l, o), h, Reverse(Objs(k)))

\* The position follows the node that was added; adding ends when one cannot be.
AddAfter(l, pos, k) ==
  FoldLeft(LAMBDA r, o : IF r.ok /\ NewNode(r.g, l) # NULL
                         THEN [g |-> AddAfterI(r.g, l, r.p, o), p |-> NewNode(r.g, l), ok |-> TRUE]
                         ELSE [r EXCEPT !.ok = FALSE],
           [g |-> h, p |-> pos, ok |-> TRUE], Objs(k)).g

AddBefore(l, pos, k) ==
  FoldLeft(LAMBDA r, o : IF r.ok /\ NewNode(r.g, l) # NULL
                         THEN [g |-> AddBeforeI(r.g, l, r.p, o), p |-> NewNode(r.g, l), ok |-> TRUE]
                         ELSE [r EXCEPT !.ok = FALSE],
           [g |-> h, p |-> pos, ok |-> TRUE], Reverse(Objs(k))).g

-----------------------------------------------------------------------------
\* What the operations promise, on sequences: s with t put in after i elements.
Insert(s, i, t) == SubSeq(s, 1, i) \o t \o SubSeq(s, i + 1, Len(s))

\* The place of a position in its list; how many objects there is memory for.
Index(l, pos) == Len(Chain(h.prev, pos))
Room(l) == h.used[l] + Cardinality(Nodes \ h.live)

FirstOf(s, n) == SubSeq(s, 1, IF n < Len(s) THEN n ELSE Len(s))
LastOf(s, n)  == Reverse(FirstOf(Reverse(s), n))

Holds(l, s) == contents' = [contents EXCEPT ![l] = s]

Positions(l) == ToSet(Chain(h.next, h.first[l]))

OneList == \E l \in Lists :
  \/ \E o \in Objects : \/ h' = AddTailI(h, l, o) /\ Holds(l, contents[l] \o FirstOf(<<o>>, Room(l)))
                        \/ h' = AddHeadI(h, l, o) /\ Holds(l, FirstOf(<<o>>, Room(l)) \o contents[l])
  \/ \E pos \in Positions(l), o \in Objects :
       \/ /\ h' = AddAfterI(h, l, pos, o)
          /\ Holds(l, Insert(contents[l], Index(l, pos), FirstOf(<<o>>, Room(l))))
       \/ /\ h' = AddBeforeI(h, l, pos, o)
          /\ Holds(l, Insert(contents[l], Index(l, pos) - 1, FirstOf(<<o>>, Room(l))))
  \/ \E pos \in Positions(l) : h' = RemoveI(h, l, pos) /\ Holds(l, RemoveAt(contents[l], Index(l, pos)))
  \/ h' = RemoveAll(h, l) /\ Holds(l, <<>>)
  \/ h' = ReverseList(h, l) /\ Holds(l, Reverse(contents[l]))

TwoLists == \E l \in Lists : \E k \in Lists \ {l} :
  \/ h' = AddTail(l, k) /\ Holds(l, contents[l] \o FirstOf(contents[k], Room(l)))
  \/ h' = AddHead(l, k) /\ Holds(l, LastOf(contents[k], Room(l)) \o contents[l])
  \/ \E pos \in Positions(l) \cup {NULL} :
       \/ /\ h' = AddAfter(l, pos, k)
          /\ Holds(l, Insert(contents[l], Index(l, pos), FirstOf(contents[k], Room(l))))
       \/ /\ h' = AddBefore(l, pos, k)
          /\ Holds(l, Insert(contents[l], IF pos = NULL THEN Len(contents[l]) ELSE Index(l, pos) - 1,
                             LastOf(contents[k], Room(l))))
  \/ \E pos \in Positions(l) :
       LET i == Index(l, pos)
       IN \/ /\ h' = MoveToTail(h, l, pos, k)
             /\ contents' = [contents EXCEPT ![l] = SubSeq(@, i + 1, Len(@)),
                                             ![k] = @ \o SubSeq(contents[l], 1, i)]
          \/ /\ h' = MoveToHead(h, l, pos, k)
             /\ contents' = [contents EXCEPT ![l] = SubSeq(@, 1, i - 1),
                                             ![k] = SubSeq(contents[l], i, Len(contents[l])) \o @]

ListNext == OneList \/ TwoLists

-----------------------------------------------------------------------------
\* CBaseList: both chains of every list hold the objects in the order that the calls, moves,
\* reversals and failed additions leave them in, and the count is their number.
ListsHold == \A l \in Lists :
  LET forward == Chain(h.next, h.first[l])
      back    == Chain(h.prev, h.last[l])
  IN /\ Objs(l) = contents[l] /\ back = Reverse(forward) /\ h.count[l] = Len(contents[l])

\* CNodeCache: every node there is is in one list or in one cache, once: none is lost, freed while
\* linked or used twice, and no cache holds more than its size.
NodesAccounted ==
  LET places == [l \in Lists |-> Chain(h.next, h.first[l]) \o Chain(h.next, h.head[l])]
      all == FoldLeft(LAMBDA s, l : s \o places[l], <<>>, SetToSeq(Lists))
  IN /\ IsInjective(all) /\ ToSet(all) = h.live
     /\ \A l \in Lists : Len(Chain(h.next, h.head[l])) = h.used[l] /\ h.used[l] <= iCacheSize

\* The linked nodes and the cache are the sequences that the operations' names promise.
ListsExact == ListsHold /\ NodesAccounted
=============================================================================
