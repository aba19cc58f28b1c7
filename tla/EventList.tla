----------------------------- MODULE EventList -----------------------------
(***************************************************************************)
(* List<T> (outstation/event/List.h): the doubly linked list over a fixed  *)
(* array of nodes from which the event buffer is made.  Nodes that are not *)
(* in use form a second chain, the free list.                              *)
(*                                                                         *)
(* The value of a node is the number of its arrival.  A client keeps the   *)
(* pointers that Add returns (EventRecord and TypedEventRecord point into  *)
(* each other's list) and removes by them, or removes in a loop.           *)
(***************************************************************************)
EXTENDS Integers, Sequences, FiniteSets

CONSTANTS
  MaxSize,         \* Capacity(): the length of the array
  MaxArrivals      \* bound on the values added in one behaviour (model only)

ASSUME MaxSizeNat == MaxSize \in Nat
ASSUME MaxArrivalsNat == MaxArrivals \in Nat

VARIABLES
  list,            \* [value, next, prev, head, tail, free, length]
  at,              \* the pointers of the client, by value
  walk,            \* the loop of RemoveAll: current, iter.current, and the
                   \* values it still has to come to
  pool,            \* the free nodes, the first one last (auxiliary)
  arrivals         \* values added so far

listVars == <<list, at, walk, pool, arrivals>>

Null == 0
Nodes == 1 .. MaxSize

Idle == [on |-> FALSE, current |-> Null, iter |-> Null, todo |-> {}]

----------------------------------------------------------------------------
Link(l, first, second) ==
  [l EXCEPT !.next = IF first # Null THEN [@ EXCEPT ![first] = second] ELSE @,
            !.prev = IF second # Null THEN [@ EXCEPT ![second] = first] ELSE @]

\* Every node but the last is linked to the one behind it.
Initialize ==
  [value |-> [n \in Nodes |-> 0],
   next |-> [n \in Nodes |-> IF n < MaxSize THEN n + 1 ELSE Null],
   prev |-> [n \in Nodes |-> n - 1],
   head |-> Null, tail |-> Null,
   free |-> IF MaxSize > 0 THEN 1 ELSE Null,
   length |-> 0]

\* The first node of the free list, which the caller has found not empty.
Insert(l, value, left, right) ==
  LET node == l.free
      taken == [l EXCEPT !.free = l.next[node], !.value[node] = value, !.length = @ + 1]
  IN
  [Link(Link(taken, left, node), node, right) EXCEPT
     !.head = IF left = Null THEN node ELSE @,
     !.tail = IF right = Null THEN node ELSE @]

Add(l, value) == IF l.free = Null THEN l ELSE Insert(l, value, l.tail, Null)

\* Wrong: removing the last node leaves the tail where it is.
RemoveKeepsTail(l, node) ==
  LET joined == Link([l EXCEPT !.head = IF node = @ THEN l.next[node] ELSE @],
                     l.prev[node], l.next[node])
  IN [Link([joined EXCEPT !.prev[node] = Null], node, l.free)
        EXCEPT !.free = node, !.length = @ - 1]

Remove(l, node) ==
  LET joined == Link([l EXCEPT !.head = IF node = @ THEN l.next[node] ELSE @,
                               !.tail = IF node = @ THEN l.prev[node] ELSE @],
                     l.prev[node], l.next[node])
  IN [Link([joined EXCEPT !.prev[node] = Null], node, l.free)
        EXCEPT !.free = node, !.length = @ - 1]

IsFullAndCapacityNotZero(l) == l.free = Null /\ MaxSize > 0

\* Iterator::Next leaves the iterator at the node behind.
Behind(l, node) == IF node = Null THEN Null ELSE l.next[node]

----------------------------------------------------------------------------
ListInit ==
  /\ list = Initialize
  /\ at = [i \in {} |-> Null]
  /\ walk = Idle
  /\ pool = [k \in 1 .. MaxSize |-> MaxSize + 1 - k]
  /\ arrivals = 0

\* Add; a full list returns no node.
AddValue ==
  LET value == arrivals + 1 IN
  /\ ~walk.on /\ arrivals < MaxArrivals
  /\ arrivals' = value
  /\ list' = Add(list, value)
  /\ IF list.free = Null THEN UNCHANGED <<at, pool>>
     ELSE /\ at' = [i \in DOMAIN at \cup {value} |-> IF i = value THEN list.free ELSE at[i]]
          /\ pool' = SubSeq(pool, 1, Len(pool) - 1)
  /\ UNCHANGED walk

\* Remove of the node of a value, and of the client's pointer.
Drop(value) ==
  /\ list' = Remove(list, at[value])
  /\ at' = [i \in DOMAIN at \ {value} |-> at[i]]
  /\ pool' = Append(pool, at[value])

RemoveValue ==
  /\ ~walk.on
  /\ \E value \in DOMAIN at : Drop(value)
  /\ UNCHANGED <<walk, arrivals>>

\* RemoveAll, and Foreach, which removes nothing.
StartWalk ==
  /\ ~walk.on
  /\ walk' = [on |-> TRUE, current |-> list.head, iter |-> Behind(list, list.head),
              todo |-> DOMAIN at]
  /\ UNCHANGED <<list, at, pool, arrivals>>

\* One turn of the loop: the iterator moves on before the node is removed.
Visit ==
  /\ walk.on /\ walk.current # Null
  /\ walk' = [walk EXCEPT !.current = walk.iter, !.iter = Behind(list, walk.iter),
                          !.todo = @ \ {list.value[walk.current]}]
  /\ \/ Drop(list.value[walk.current])
     \/ UNCHANGED <<list, at, pool>>
  /\ UNCHANGED arrivals

EndWalk ==
  /\ walk.on /\ walk.current = Null
  /\ walk' = Idle
  /\ UNCHANGED <<list, at, pool, arrivals>>

ListNext == AddValue \/ RemoveValue \/ StartWalk \/ Visit \/ EndWalk

ListSpec == ListInit /\ [][ListNext]_listVars

----------------------------------------------------------------------------
(* Properties.                                                             *)

First(i) == \A k \in DOMAIN at : i <= k
Last(i) == \A k \in DOMAIN at : k <= i

\* j is the next value behind i.
Follows(i, j) == i < j /\ \A k \in DOMAIN at : k <= i \/ j <= k

\* The nodes in use: from head to tail in order of arrival, and back.
UsedChain ==
  /\ \A i \in DOMAIN at : list.value[at[i]] = i
  /\ \/ DOMAIN at = {} /\ list.head = Null /\ list.tail = Null
     \/ \E i, j \in DOMAIN at : First(i) /\ list.head = at[i] /\ Last(j) /\ list.tail = at[j]
  /\ \A i \in DOMAIN at :
       /\ \/ Last(i) /\ list.next[at[i]] = Null
          \/ \E j \in DOMAIN at : Follows(i, j) /\ list.next[at[i]] = at[j]
       /\ \/ First(i) /\ list.prev[at[i]] = Null
          \/ \E j \in DOMAIN at : Follows(j, i) /\ list.prev[at[i]] = at[j]

\* The free list: every other node, once.
FreeChain ==
  /\ {pool[k] : k \in 1 .. Len(pool)} = Nodes \ {at[i] : i \in DOMAIN at}
  /\ \A k, m \in 1 .. Len(pool) : pool[k] = pool[m] => k = m
  /\ list.free = IF Len(pool) = 0 THEN Null ELSE pool[Len(pool)]
  /\ \A k \in 1 .. Len(pool) : list.next[pool[k]] = IF k = 1 THEN Null ELSE pool[k - 1]

\* m_length is the number of values.
LengthExact == list.length = Cardinality(DOMAIN at) /\ list.length + Len(pool) = MaxSize

\* The list is full when it holds as many values as it has nodes.
FullExact ==
  IsFullAndCapacityNotZero(list) <=> MaxSize > 0 /\ Cardinality(DOMAIN at) >= MaxSize

\* A loop is at the oldest value it has not come to yet, and at the end when
\* there is none.
WalkExact ==
  walk.on =>
    IF walk.current = Null THEN walk.todo = {}
    ELSE \E i \in walk.todo \cap DOMAIN at :
           at[i] = walk.current /\ \A j \in walk.todo : i <= j

\* List.h keeps its promise to EventLists through any adding and removing, at
\* the head, in the middle, at the tail and in a loop: the chain from head holds
\* exactly the values that were added and not removed, oldest first, at the
\* nodes that Add returned, and is linked back the same way; the free list holds
\* all other nodes, so no node is lost or shared, and the list is full only when
\* it holds as many values as it has nodes; and a loop that removes as it goes
\* comes to every value once, and never to a node that was freed.
ListIntact == UsedChain /\ FreeChain /\ LengthExact /\ FullExact /\ WalkExact
=============================================================================
