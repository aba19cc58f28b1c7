-------------------------- MODULE EventListProofs --------------------------
(***************************************************************************)
(* ListIntact for every capacity.  The strengthening IInv adds the types,  *)
(* and where the iterator of a loop stands.                                *)
(***************************************************************************)
EXTENDS EventList, FiniteSetTheorems, SequenceTheorems, TLAPS

Pointers == Nodes \cup {Null}

ListType ==
  [value : [Nodes -> Nat], next : [Nodes -> Pointers], prev : [Nodes -> Pointers],
   head : Pointers, tail : Pointers, free : Pointers, length : Int]

StructureType ==
  /\ list \in ListType
  /\ at \in [DOMAIN at -> Nodes]
  /\ DOMAIN at \subseteq 1 .. arrivals
  /\ IsFiniteSet(DOMAIN at)
  /\ pool \in Seq(Nodes)
  /\ arrivals \in Nat

WalkType ==
  walk \in [on : BOOLEAN, current : Pointers, iter : Pointers, todo : SUBSET Nat]

Structure == StructureType /\ UsedChain /\ FreeChain /\ LengthExact

\* The iterator is one node ahead, and behind the values the loop has passed.
IteratorAhead ==
  walk.on =>
    /\ walk.iter = Behind(list, walk.current)
    /\ walk.todo \subseteq DOMAIN at
    /\ \A j \in DOMAIN at \ walk.todo, k \in walk.todo : j < k

IInv == Structure /\ WalkType /\ WalkExact /\ IteratorAhead

----------------------------------------------------------------------------
(* What Link, Insert and Remove do to each pointer.                        *)

\* r is l with a and b linked.
Linked(l, a, b, r) ==
  /\ r \in ListType
  /\ r.value = l.value
  /\ r.head = l.head
  /\ r.tail = l.tail
  /\ r.free = l.free
  /\ r.length = l.length
  /\ \A m \in Nodes : r.next[m] = IF m = a THEN b ELSE l.next[m]
  /\ \A m \in Nodes : r.prev[m] = IF m = b THEN a ELSE l.prev[m]

\* Link of List.h changes one pointer of each of the two nodes that exist.
LEMMA LinkEffect ==
  ASSUME NEW l \in ListType, NEW a \in Pointers, NEW b \in Pointers
  PROVE  Linked(l, a, b, Link(l, a, b))
<1> DEFINE nx == IF a # Null THEN [l.next EXCEPT ![a] = b] ELSE l.next
           pv == IF b # Null THEN [l.prev EXCEPT ![b] = a] ELSE l.prev
<1>1. l.next \in [Nodes -> Pointers] /\ l.prev \in [Nodes -> Pointers]
  BY DEF ListType
<1>2. \A m \in Nodes : m # Null
  BY DEF Nodes, Null
<1>3. nx \in [Nodes -> Pointers] /\ \A m \in Nodes : nx[m] = IF m = a THEN b ELSE l.next[m]
  BY <1>1, <1>2 DEF Pointers
<1>4. pv \in [Nodes -> Pointers] /\ \A m \in Nodes : pv[m] = IF m = b THEN a ELSE l.prev[m]
  BY <1>1, <1>2 DEF Pointers
<1>5. Link(l, a, b) = [l EXCEPT !.next = nx, !.prev = pv]
  BY DEF Link
<1> HIDE DEF nx, pv
<1>6. /\ Link(l, a, b) \in ListType
      /\ Link(l, a, b).next = nx /\ Link(l, a, b).prev = pv
      /\ Link(l, a, b).value = l.value
      /\ Link(l, a, b).head = l.head
      /\ Link(l, a, b).tail = l.tail
      /\ Link(l, a, b).free = l.free
      /\ Link(l, a, b).length = l.length
  BY <1>3, <1>4, <1>5, ZenonT(30) DEF ListType
<1> QED BY <1>3, <1>4, <1>6 DEF Linked

\* r is l with a new node for v at the tail.
Added(l, v, r) ==
  /\ r \in ListType
  /\ r.free = l.next[l.free]
  /\ r.length = l.length + 1
  /\ r.tail = l.free
  /\ r.head = IF l.tail = Null THEN l.free ELSE l.head
  /\ \A m \in Nodes : r.value[m] = IF m = l.free THEN v ELSE l.value[m]
  /\ \A m \in Nodes : r.next[m] = IF m = l.free THEN Null
                                  ELSE IF m = l.tail THEN l.free ELSE l.next[m]
  /\ \A m \in Nodes : r.prev[m] = IF m = l.free THEN l.tail ELSE l.prev[m]

\* Add of List.h takes the first free node.
LEMMA AddEffect ==
  ASSUME NEW l \in ListType, NEW v \in Nat, l.free # Null
  PROVE  Added(l, v, Add(l, v))
<1> DEFINE vals == [l.value EXCEPT ![l.free] = v]
           taken == [l EXCEPT !.free = l.next[l.free], !.value = vals, !.length = @ + 1]
           one == Link(taken, l.tail, l.free)
           two == Link(one, l.free, Null)
<1>1. l.free \in Nodes /\ l.free \in Pointers /\ l.tail \in Pointers /\ Null \in Pointers
  BY DEF ListType, Pointers
<1>2. vals \in [Nodes -> Nat] /\ \A m \in Nodes : vals[m] = IF m = l.free THEN v ELSE l.value[m]
  BY <1>1 DEF ListType
<1>3. Add(l, v) = [two EXCEPT !.head = IF l.tail = Null THEN l.free ELSE @, !.tail = l.free]
  BY DEF Add, Insert
<1> HIDE DEF vals
<1>4. /\ taken \in ListType
      /\ taken.next = l.next /\ taken.prev = l.prev /\ taken.value = vals
      /\ taken.head = l.head /\ taken.tail = l.tail
      /\ taken.free = l.next[l.free] /\ taken.length = l.length + 1
  <2>1. l.length + 1 \in Int
    BY DEF ListType
  <2> DEFINE size == l.length + 1
  <2> HIDE DEF size
  <2>2. taken = [l EXCEPT !.free = l.next[l.free], !.value = vals, !.length = size]
    BY DEF size
  <2>3. size \in Int /\ l.next[l.free] \in Pointers
    BY <1>1, <2>1 DEF size, ListType
  <2> HIDE DEF taken
  <2>4. /\ taken \in ListType
        /\ taken.next = l.next /\ taken.prev = l.prev /\ taken.value = vals
        /\ taken.head = l.head /\ taken.tail = l.tail
        /\ taken.free = l.next[l.free] /\ taken.length = size
    BY <1>2, <2>2, <2>3, ZenonT(30) DEF ListType
  <2> QED BY <2>4 DEF size
<1> HIDE DEF taken
<1>5. Linked(taken, l.tail, l.free, one)
  BY <1>1, <1>4, LinkEffect
<1> HIDE DEF one
<1>6. Linked(one, l.free, Null, two)
  <2>1. one \in ListType
    BY <1>5 DEF Linked
  <2> QED BY <1>1, <2>1, LinkEffect
<1> HIDE DEF two
<1>7. \A m \in Nodes : m # Null
  BY DEF Nodes, Null
<1>8. /\ two \in ListType
      /\ two.value = vals /\ two.head = l.head /\ two.tail = l.tail
      /\ two.free = l.next[l.free] /\ two.length = l.length + 1
      /\ \A m \in Nodes : two.next[m] = IF m = l.free THEN Null
                                        ELSE IF m = l.tail THEN l.free ELSE l.next[m]
      /\ \A m \in Nodes : two.prev[m] = IF m = l.free THEN l.tail ELSE l.prev[m]
  BY <1>4, <1>5, <1>6, <1>7 DEF Linked
<1>9. /\ Add(l, v) \in ListType
      /\ Add(l, v).head = IF l.tail = Null THEN l.free ELSE l.head
      /\ Add(l, v).tail = l.free /\ Add(l, v).free = two.free
      /\ Add(l, v).value = two.value /\ Add(l, v).length = two.length
      /\ Add(l, v).next = two.next /\ Add(l, v).prev = two.prev
  BY <1>1, <1>3, <1>8, ZenonT(30) DEF ListType
<1> QED BY <1>2, <1>8, <1>9 DEF Added

\* r is l without a node, which has become the first free one.  Of the pointers
\* back, those of the free list do not matter.
Removed(l, node, r) ==
  /\ r \in ListType
  /\ r.value = l.value
  /\ r.free = node
  /\ r.length = l.length - 1
  /\ r.head = IF l.head = node THEN l.next[node] ELSE l.head
  /\ r.tail = IF l.tail = node THEN l.prev[node] ELSE l.tail
  /\ \A m \in Nodes : r.next[m] = IF m = node THEN l.free
                                  ELSE IF m = l.prev[node] THEN l.next[node] ELSE l.next[m]
  /\ \A m \in Nodes \ {node, l.free} :
       r.prev[m] = IF m = l.next[node] THEN l.prev[node] ELSE l.prev[m]

\* Remove of List.h joins the neighbours of a node and frees it.
LEMMA RemoveEffect ==
  ASSUME NEW l \in ListType, NEW node \in Nodes
  PROVE  Removed(l, node, Remove(l, node))
<1> DEFINE ends == [l EXCEPT !.head = IF node = @ THEN l.next[node] ELSE @,
                             !.tail = IF node = @ THEN l.prev[node] ELSE @]
           joined == Link(ends, l.prev[node], l.next[node])
           back == [joined.prev EXCEPT ![node] = Null]
           loose == [joined EXCEPT !.prev = back]
           freed == Link(loose, node, l.free)
<1>1. /\ node \in Pointers /\ l.free \in Pointers /\ Null \in Pointers
      /\ l.prev[node] \in Pointers /\ l.next[node] \in Pointers
  BY DEF ListType, Pointers
<1>2. Remove(l, node) = [freed EXCEPT !.free = node, !.length = @ - 1]
  BY DEF Remove
<1>3. /\ ends \in ListType
      /\ ends.next = l.next /\ ends.prev = l.prev /\ ends.value = l.value
      /\ ends.free = l.free /\ ends.length = l.length
      /\ ends.head = IF l.head = node THEN l.next[node] ELSE l.head
      /\ ends.tail = IF l.tail = node THEN l.prev[node] ELSE l.tail
  BY <1>1, ZenonT(30) DEF ListType
<1> HIDE DEF ends
<1>4. Linked(ends, l.prev[node], l.next[node], joined)
  BY <1>1, <1>3, LinkEffect
<1> HIDE DEF joined
<1>5. /\ joined \in ListType
      /\ back \in [Nodes -> Pointers]
      /\ \A m \in Nodes \ {node} : back[m] = joined.prev[m]
  <2>1. joined \in ListType
    BY <1>4 DEF Linked
  <2> QED BY <1>1, <2>1 DEF ListType
<1> HIDE DEF back
<1>6. /\ loose \in ListType
      /\ loose.value = joined.value /\ loose.head = joined.head /\ loose.tail = joined.tail
      /\ loose.free = joined.free /\ loose.length = joined.length
      /\ loose.next = joined.next /\ loose.prev = back
  BY <1>5 DEF ListType
<1> HIDE DEF loose
<1>7. Linked(loose, node, l.free, freed)
  BY <1>1, <1>6, LinkEffect
<1> HIDE DEF freed
<1>8. /\ freed \in ListType
      /\ freed.value = l.value /\ freed.head = ends.head /\ freed.tail = ends.tail
      /\ freed.length = l.length
      /\ \A m \in Nodes : freed.next[m] = IF m = node THEN l.free
                                          ELSE IF m = l.prev[node] THEN l.next[node]
                                          ELSE l.next[m]
      /\ \A m \in Nodes \ {node, l.free} :
           freed.prev[m] = IF m = l.next[node] THEN l.prev[node] ELSE l.prev[m]
  BY <1>3, <1>4, <1>5, <1>6, <1>7 DEF Linked
<1>9. /\ Remove(l, node) \in ListType
      /\ Remove(l, node).free = node /\ Remove(l, node).length = freed.length - 1
      /\ Remove(l, node).value = freed.value
      /\ Remove(l, node).head = freed.head /\ Remove(l, node).tail = freed.tail
      /\ Remove(l, node).next = freed.next /\ Remove(l, node).prev = freed.prev
  <2> DEFINE size == freed.length - 1
  <2>1. size \in Int
    BY <1>8 DEF ListType
  <2> HIDE DEF size
  <2>2. Remove(l, node) = [freed EXCEPT !.free = node, !.length = size]
    BY <1>2 DEF size
  <2>3. /\ Remove(l, node) \in ListType
        /\ Remove(l, node).free = node /\ Remove(l, node).length = size
        /\ Remove(l, node).value = freed.value
        /\ Remove(l, node).head = freed.head /\ Remove(l, node).tail = freed.tail
        /\ Remove(l, node).next = freed.next /\ Remove(l, node).prev = freed.prev
    BY <1>1, <1>8, <2>1, <2>2, ZenonT(30) DEF ListType
  <2> QED BY <2>3 DEF size
<1> QED BY <1>3, <1>8, <1>9 DEF Removed
----------------------------------------------------------------------------
(* The chains.                                                             *)

\* Two values are never at one node, and no value is at a free one.
LEMMA Apart ==
  ASSUME Structure
  PROVE  /\ \A i, j \in DOMAIN at : at[i] = at[j] => i = j
         /\ \A i \in DOMAIN at : at[i] \in Nodes /\ at[i] # Null /\ at[i] # list.free
         /\ \A i \in DOMAIN at, k \in 1 .. Len(pool) : at[i] # pool[k]
         /\ \A k \in 1 .. Len(pool) : pool[k] \in Nodes /\ pool[k] # Null
         /\ DOMAIN at \subseteq Nat
<1>1. \A i, j \in DOMAIN at : at[i] = at[j] => i = j
  BY DEF Structure, UsedChain
<1>2. \A i \in DOMAIN at : at[i] \in Nodes
  BY DEF Structure, StructureType
<1>3. \A k \in 1 .. Len(pool) : pool[k] \in Nodes
  BY DEF Structure, StructureType
<1>4. \A n \in Nodes : n # Null
  BY DEF Nodes, Null
<1>5. ASSUME NEW i \in DOMAIN at, NEW k \in 1 .. Len(pool)
      PROVE  at[i] # pool[k]
  <2>1. at[i] \in {at[j] : j \in DOMAIN at} /\ pool[k] \in {pool[m] : m \in 1 .. Len(pool)}
    OBVIOUS
  <2>2. {pool[m] : m \in 1 .. Len(pool)} = Nodes \ {at[j] : j \in DOMAIN at}
    BY DEF Structure, FreeChain
  <2> QED BY <2>1, <2>2, ZenonT(30)
<1>6. \A i \in DOMAIN at : at[i] # list.free
  <2>1. Len(pool) \in Nat
    BY DEF Structure, StructureType
  <2>2. CASE Len(pool) = 0
    BY <1>2, <1>4, <2>2 DEF Structure, FreeChain
  <2>3. CASE Len(pool) # 0
    <3>1. Len(pool) \in 1 .. Len(pool) /\ list.free = pool[Len(pool)]
      BY <2>1, <2>3 DEF Structure, FreeChain
    <3> QED BY <1>5, <3>1
  <2> QED BY <2>2, <2>3
<1>7. DOMAIN at \subseteq Nat
  BY DEF Structure, StructureType
<1> QED BY <1>1, <1>2, <1>3, <1>4, <1>5, <1>6, <1>7

\* Removing a value keeps the chain of the nodes in use.
LEMMA DropKeepsUsed ==
  ASSUME Structure, NEW v \in DOMAIN at, Drop(v)
  PROVE  UsedChain'
<1> DEFINE node == at[v]
<1>1. node \in Nodes /\ list \in ListType
  BY Apart DEF Structure, StructureType
<1>2. Removed(list, node, list')
  BY <1>1, RemoveEffect DEF Drop
<1>3. DOMAIN at' = DOMAIN at \ {v} /\ \A i \in DOMAIN at' : at'[i] = at[i]
  BY DEF Drop
<1>4. /\ \A i, j \in DOMAIN at : at[i] = at[j] => i = j
      /\ \A i \in DOMAIN at : at[i] \in Nodes /\ at[i] # Null /\ at[i] # list.free
      /\ DOMAIN at \subseteq Nat
  BY Apart
<1>5. \/ Last(v) /\ list.next[node] = Null
      \/ \E s \in DOMAIN at : Follows(v, s) /\ list.next[node] = at[s]
  BY DEF Structure, UsedChain
<1>6. \/ First(v) /\ list.prev[node] = Null
      \/ \E p \in DOMAIN at : Follows(p, v) /\ list.prev[node] = at[p]
  BY DEF Structure, UsedChain
<1> HIDE DEF node
<1>7. \A i \in DOMAIN at' : /\ list'.value[at'[i]] = i
                            /\ list'.next[at[i]] = IF at[i] = list.prev[node] THEN list.next[node]
                                                   ELSE list.next[at[i]]
                            /\ list'.prev[at[i]] = IF at[i] = list.next[node] THEN list.prev[node]
                                                   ELSE list.prev[at[i]]
  BY <1>2, <1>3, <1>4 DEF Removed, Structure, UsedChain, node
<1>8. ASSUME NEW i \in DOMAIN at'
      PROVE  \/ Last(i)' /\ list'.next[at'[i]] = Null
             \/ \E j \in DOMAIN at' : Follows(i, j)' /\ list'.next[at'[i]] = at'[j]
  <2>1. i \in DOMAIN at /\ i # v /\ at'[i] = at[i]
    BY <1>3
  <2>2. CASE at[i] = list.prev[node]
    <3>1. Follows(i, v)
      BY <1>4, <1>6, <2>1, <2>2
    <3>2. CASE Last(v) /\ list.next[node] = Null
      BY <1>3, <1>4, <1>7, <2>1, <2>2, <3>1, <3>2 DEF Last, Follows
    <3>3. ASSUME NEW s \in DOMAIN at, Follows(v, s), list.next[node] = at[s]
          PROVE  Follows(i, s)' /\ s \in DOMAIN at' /\ list'.next[at'[i]] = at'[s]
      BY <1>3, <1>4, <1>7, <2>1, <2>2, <3>1, <3>3 DEF Follows
    <3> QED BY <1>5, <3>2, <3>3
  <2>3. CASE at[i] # list.prev[node]
    <3>1. ~Follows(i, v)
      BY <1>4, <1>6, <2>1, <2>3 DEF Follows, First
    <3>2. CASE Last(i) /\ list.next[at[i]] = Null
      BY <1>3, <1>7, <2>1, <2>3, <3>2 DEF Last
    <3>3. ASSUME NEW j \in DOMAIN at, Follows(i, j), list.next[at[i]] = at[j]
          PROVE  Follows(i, j)' /\ j \in DOMAIN at' /\ list'.next[at'[i]] = at'[j]
      BY <1>3, <1>7, <2>1, <2>3, <3>1, <3>3 DEF Follows
    <3>4. \/ Last(i) /\ list.next[at[i]] = Null
          \/ \E j \in DOMAIN at : Follows(i, j) /\ list.next[at[i]] = at[j]
      BY <2>1 DEF Structure, UsedChain
    <3> QED BY <1>7, <2>1, <2>3, <3>2, <3>3, <3>4
  <2> QED BY <2>2, <2>3
<1>9. ASSUME NEW i \in DOMAIN at'
      PROVE  \/ First(i)' /\ list'.prev[at'[i]] = Null
             \/ \E j \in DOMAIN at' : Follows(j, i)' /\ list'.prev[at'[i]] = at'[j]
  <2>1. i \in DOMAIN at /\ i # v /\ at'[i] = at[i]
    BY <1>3
  <2>2. CASE at[i] = list.next[node]
    <3>1. Follows(v, i)
      BY <1>4, <1>5, <2>1, <2>2
    <3>2. CASE First(v) /\ list.prev[node] = Null
      BY <1>3, <1>4, <1>7, <2>1, <2>2, <3>1, <3>2 DEF First, Follows
    <3>3. ASSUME NEW p \in DOMAIN at, Follows(p, v), list.prev[node] = at[p]
          PROVE  Follows(p, i)' /\ p \in DOMAIN at' /\ list'.prev[at'[i]] = at'[p]
      BY <1>3, <1>4, <1>7, <2>1, <2>2, <3>1, <3>3 DEF Follows
    <3> QED BY <1>6, <3>2, <3>3
  <2>3. CASE at[i] # list.next[node]
    <3>1. ~Follows(v, i)
      BY <1>4, <1>5, <2>1, <2>3 DEF Follows, Last
    <3>2. CASE First(i) /\ list.prev[at[i]] = Null
      BY <1>3, <1>7, <2>1, <2>3, <3>2 DEF First
    <3>3. ASSUME NEW j \in DOMAIN at, Follows(j, i), list.prev[at[i]] = at[j]
          PROVE  Follows(j, i)' /\ j \in DOMAIN at' /\ list'.prev[at'[i]] = at'[j]
      BY <1>3, <1>7, <2>1, <2>3, <3>1, <3>3 DEF Follows
    <3>4. \/ First(i) /\ list.prev[at[i]] = Null
          \/ \E j \in DOMAIN at : Follows(j, i) /\ list.prev[at[i]] = at[j]
      BY <2>1 DEF Structure, UsedChain
    <3> QED BY <1>7, <2>1, <2>3, <3>2, <3>3, <3>4
  <2> QED BY <2>2, <2>3
<1>10. \/ DOMAIN at' = {} /\ list'.head = Null /\ list'.tail = Null
       \/ \E i, j \in DOMAIN at' : /\ First(i)' /\ list'.head = at'[i]
                                   /\ Last(j)' /\ list'.tail = at'[j]
  <2>1. PICK f, g \in DOMAIN at : First(f) /\ list.head = at[f] /\ Last(g) /\ list.tail = at[g]
    BY DEF Structure, UsedChain
  <2>2. /\ list'.head = IF list.head = node THEN list.next[node] ELSE list.head
        /\ list'.tail = IF list.tail = node THEN list.prev[node] ELSE list.tail
    BY <1>2 DEF Removed
  <2>3. CASE f = v /\ g = v
    <3>1. DOMAIN at' = {}
      BY <1>3, <1>4, <2>1, <2>3 DEF First, Last
    <3>2. list.next[node] = Null /\ list.prev[node] = Null
      BY <1>4, <1>5, <1>6, <2>1, <2>3 DEF First, Last, Follows
    <3> QED BY <2>1, <2>2, <2>3, <3>1, <3>2 DEF node
  <2>4. CASE ~(f = v /\ g = v)
    <3>1. \E i \in DOMAIN at' : First(i)' /\ list'.head = at'[i]
      <4>1. CASE f # v
        BY <1>3, <1>4, <2>1, <2>2, <4>1 DEF First, node
      <4>2. CASE f = v
        <5>1. PICK s \in DOMAIN at : Follows(v, s) /\ list.next[node] = at[s]
          BY <1>4, <1>5, <2>1, <2>4, <4>2 DEF First, Last
        <5>2. s \in DOMAIN at' /\ First(s)' /\ list'.head = at'[s]
          BY <1>3, <1>4, <2>1, <2>2, <4>2, <5>1 DEF First, Follows, node
        <5> QED BY <5>2
      <4> QED BY <4>1, <4>2
    <3>2. \E j \in DOMAIN at' : Last(j)' /\ list'.tail = at'[j]
      <4>1. CASE g # v
        BY <1>3, <1>4, <2>1, <2>2, <4>1 DEF Last, node
      <4>2. CASE g = v
        <5>1. PICK p \in DOMAIN at : Follows(p, v) /\ list.prev[node] = at[p]
          BY <1>4, <1>6, <2>1, <2>4, <4>2 DEF First, Last
        <5>2. p \in DOMAIN at' /\ Last(p)' /\ list'.tail = at'[p]
          BY <1>3, <1>4, <2>1, <2>2, <4>2, <5>1 DEF Last, Follows, node
        <5> QED BY <5>2
      <4> QED BY <4>1, <4>2
    <3> QED BY <3>1, <3>2
  <2> QED BY <2>3, <2>4
<1> QED BY <1>7, <1>8, <1>9, <1>10 DEF UsedChain

\* Removing a value puts its node in front of the free list.
LEMMA DropKeepsFree ==
  ASSUME Structure, NEW v \in DOMAIN at, Drop(v)
  PROVE  pool' \in Seq(Nodes) /\ FreeChain' /\ Len(pool') = Len(pool) + 1
<1> DEFINE node == at[v]
           n == Len(pool)
<1>1. /\ node \in Nodes /\ list \in ListType
      /\ pool \in Seq(Nodes) /\ n \in Nat
  BY Apart DEF Structure, StructureType
<1>2. Removed(list, node, list')
  BY <1>1, RemoveEffect DEF Drop
<1>3. DOMAIN at' = DOMAIN at \ {v} /\ \A i \in DOMAIN at' : at'[i] = at[i]
  BY DEF Drop
<1>4. /\ pool' \in Seq(Nodes) /\ Len(pool') = n + 1 /\ pool'[n + 1] = node
      /\ \A k \in 1 .. n : pool'[k] = pool[k]
  BY <1>1 DEF Drop
<1>5. /\ \A i \in DOMAIN at : at[i] = node => i = v
      /\ \A i \in DOMAIN at, k \in 1 .. n : at[i] # pool[k]
      /\ \A k \in 1 .. n : pool[k] \in Nodes /\ pool[k] # node /\ pool[k] # Null
  BY Apart
<1>6. list.prev[node] = Null \/ \E p \in DOMAIN at : list.prev[node] = at[p]
  BY DEF Structure, UsedChain
<1>7. 1 .. Len(pool') = (1 .. n) \cup {n + 1}
  BY <1>1, <1>4
<1>8. \A k \in 1 .. n : list'.next[pool[k]] = list.next[pool[k]]
  BY <1>2, <1>5, <1>6 DEF Removed
<1>9. list'.next[node] = list.free /\ list'.free = node
  BY <1>1, <1>2 DEF Removed
<1>10. {pool'[k] : k \in 1 .. Len(pool')} = Nodes \ {at'[i] : i \in DOMAIN at'}
  <2>1. {pool[k] : k \in 1 .. n} = Nodes \ {at[i] : i \in DOMAIN at}
    BY DEF Structure, FreeChain
  <2>2. {pool'[k] : k \in 1 .. Len(pool')} = {pool[k] : k \in 1 .. n} \cup {node}
    BY <1>4, <1>7
  <2>3. {at'[i] : i \in DOMAIN at'} = {at[i] : i \in DOMAIN at} \ {node}
    BY <1>3, <1>5
  <2> QED BY <1>1, <2>1, <2>2, <2>3, ZenonT(30)
<1>11. \A k, m \in 1 .. Len(pool') : pool'[k] = pool'[m] => k = m
  <2>1. \A k, m \in 1 .. n : pool[k] = pool[m] => k = m
    BY DEF Structure, FreeChain
  <2> QED BY <1>4, <1>5, <1>7, <2>1
<1>12. list'.free = IF Len(pool') = 0 THEN Null ELSE pool'[Len(pool')]
  BY <1>1, <1>4, <1>9
<1>13. \A k \in 1 .. Len(pool') : list'.next[pool'[k]] = IF k = 1 THEN Null ELSE pool'[k - 1]
  <2>1. list.free = IF n = 0 THEN Null ELSE pool[n]
    BY DEF Structure, FreeChain
  <2>2. \A k \in 1 .. n : list.next[pool[k]] = IF k = 1 THEN Null ELSE pool[k - 1]
    BY DEF Structure, FreeChain
  <2>3. ASSUME NEW k \in 1 .. n
        PROVE  list'.next[pool'[k]] = IF k = 1 THEN Null ELSE pool'[k - 1]
    <3>1. k # 1 => k - 1 \in 1 .. n
      BY <1>1
    <3> QED BY <1>4, <1>8, <2>2, <3>1
  <2>4. list'.next[pool'[n + 1]] = IF n + 1 = 1 THEN Null ELSE pool'[n + 1 - 1]
    <3>1. n # 0 => n \in 1 .. n /\ n + 1 - 1 = n
      BY <1>1
    <3> QED BY <1>1, <1>4, <1>9, <2>1, <3>1
  <2> QED BY <1>7, <2>3, <2>4
<1> QED BY <1>4, <1>10, <1>11, <1>12, <1>13 DEF FreeChain

\* Removing a value by its pointer keeps all of the structure.
LEMMA DropKeeps ==
  ASSUME Structure, NEW v \in DOMAIN at, Drop(v), arrivals' = arrivals
  PROVE  Structure'
<1>1. at[v] \in Nodes /\ list \in ListType
  BY Apart DEF Structure, StructureType
<1>2. Removed(list, at[v], list')
  BY <1>1, RemoveEffect DEF Drop
<1>3. DOMAIN at' = DOMAIN at \ {v} /\ at' = [i \in DOMAIN at \ {v} |-> at[i]]
  BY DEF Drop
<1>4. /\ IsFiniteSet(DOMAIN at')
      /\ Cardinality(DOMAIN at') = Cardinality(DOMAIN at) - 1
  BY <1>3, FS_RemoveElement DEF Structure, StructureType
<1>5. StructureType'
  <2>1. list' \in ListType
    BY <1>2 DEF Removed
  <2>2. at' \in [DOMAIN at' -> Nodes] /\ DOMAIN at' \subseteq 1 .. arrivals'
    BY <1>3 DEF Structure, StructureType
  <2> QED BY <1>4, <2>1, <2>2, DropKeepsFree DEF Structure, StructureType
<1>6. LengthExact'
  <2>1. list'.length = list.length - 1
    BY <1>2 DEF Removed
  <2>2. Len(pool') = Len(pool) + 1
    BY DropKeepsFree
  <2>3. list.length = Cardinality(DOMAIN at) /\ list.length + Len(pool) = MaxSize
    BY DEF Structure, LengthExact
  <2>4. list.length \in Int /\ Len(pool) \in Nat
    BY <1>1 DEF ListType, Structure, StructureType
  <2> QED BY <1>4, <2>1, <2>2, <2>3, <2>4 DEF LengthExact
<1> QED BY <1>5, <1>6, DropKeepsUsed, DropKeepsFree DEF Structure

\* The pieces of AddValue for a list that is not full.
LEMMA AddFacts ==
  ASSUME Structure, AddValue, list.free # Null
  PROVE  /\ Added(list, arrivals + 1, list')
         /\ DOMAIN at' = DOMAIN at \cup {arrivals + 1}
         /\ at'[arrivals + 1] = list.free
         /\ \A i \in DOMAIN at : at'[i] = at[i] /\ i < arrivals + 1
         /\ Len(pool) \in Nat \ {0} /\ list.free = pool[Len(pool)] /\ list.free \in Nodes
<1>1. list \in ListType /\ arrivals + 1 \in Nat /\ arrivals \in Nat
  BY DEF Structure, StructureType
<1>2. Added(list, arrivals + 1, list')
  BY <1>1, AddEffect DEF AddValue
<1>3. \A i \in DOMAIN at : i < arrivals + 1 /\ i # arrivals + 1
  BY <1>1 DEF Structure, StructureType
<1>4. at' = [i \in DOMAIN at \cup {arrivals + 1} |-> IF i = arrivals + 1 THEN list.free ELSE at[i]]
  BY DEF AddValue
<1>5. Len(pool) \in Nat \ {0} /\ list.free = pool[Len(pool)]
  BY DEF Structure, StructureType, FreeChain
<1>6. list.free \in Nodes
  BY <1>1 DEF ListType, Pointers
<1> QED BY <1>2, <1>3, <1>4, <1>5, <1>6

\* Adding a value keeps the chain of the nodes in use.
LEMMA AddKeepsUsed ==
  ASSUME Structure, AddValue, list.free # Null
  PROVE  UsedChain'
<1>0. PICK v \in Nat : v = arrivals + 1
  BY DEF Structure, StructureType
<1> DEFINE node == list.free
<1>1. /\ Added(list, v, list')
      /\ DOMAIN at' = DOMAIN at \cup {v} /\ at'[v] = node /\ node \in Nodes
      /\ \A i \in DOMAIN at : at'[i] = at[i] /\ i < v
  BY <1>0, AddFacts
<1>2. /\ \A i, j \in DOMAIN at : at[i] = at[j] => i = j
      /\ \A i \in DOMAIN at : at[i] \in Nodes /\ at[i] # Null /\ at[i] # node
      /\ DOMAIN at \subseteq Nat
  BY Apart
<1> HIDE DEF node
<1>3. /\ \A i \in DOMAIN at : /\ list'.value[at[i]] = i
                              /\ list'.next[at[i]] = IF at[i] = list.tail THEN node ELSE list.next[at[i]]
                              /\ list'.prev[at[i]] = list.prev[at[i]]
      /\ list'.value[node] = v /\ list'.next[node] = Null /\ list'.prev[node] = list.tail
      /\ list'.tail = node /\ list'.head = IF list.tail = Null THEN node ELSE list.head
  BY <1>1, <1>2 DEF Added, Structure, UsedChain, node
<1>4. \/ DOMAIN at = {} /\ list.head = Null /\ list.tail = Null
      \/ \E i, j \in DOMAIN at : First(i) /\ list.head = at[i] /\ Last(j) /\ list.tail = at[j]
  BY DEF Structure, UsedChain
<1>5. \A i \in DOMAIN at' : list'.value[at'[i]] = i
  BY <1>1, <1>3
<1>6. Last(v)'
  BY <1>1, <1>2 DEF Last
<1>7. \/ First(v)' /\ list.tail = Null /\ list'.head = at'[v]
      \/ \E f, g \in DOMAIN at : /\ First(f)' /\ list'.head = at'[f]
                                 /\ Last(g) /\ Follows(g, v)' /\ list.tail = at[g]
  <2>1. CASE DOMAIN at = {} /\ list.tail = Null
    BY <1>1, <1>2, <1>3, <2>1 DEF First
  <2>2. ASSUME NEW f \in DOMAIN at, NEW g \in DOMAIN at,
               First(f), list.head = at[f], Last(g), list.tail = at[g]
        PROVE  First(f)' /\ list'.head = at'[f] /\ Follows(g, v)'
    BY <1>1, <1>2, <1>3, <2>2 DEF First, Last, Follows
  <2> QED BY <1>4, <2>1, <2>2
<1>8. \E i, j \in DOMAIN at' : /\ First(i)' /\ list'.head = at'[i]
                               /\ Last(j)' /\ list'.tail = at'[j]
  BY <1>1, <1>3, <1>6, <1>7
<1>9. ASSUME NEW i \in DOMAIN at'
      PROVE  \/ Last(i)' /\ list'.next[at'[i]] = Null
             \/ \E j \in DOMAIN at' : Follows(i, j)' /\ list'.next[at'[i]] = at'[j]
  <2>1. CASE i = v
    BY <1>1, <1>3, <1>6, <2>1
  <2>2. CASE i \in DOMAIN at /\ at[i] = list.tail
    <3>1. Follows(i, v)'
      BY <1>2, <1>7, <2>2
    <3> QED BY <1>1, <1>3, <2>2, <3>1
  <2>3. CASE i \in DOMAIN at /\ at[i] # list.tail
    <3>1. ~Last(i)
      BY <1>2, <1>4, <2>3 DEF Last
    <3>2. PICK j \in DOMAIN at : Follows(i, j) /\ list.next[at[i]] = at[j]
      BY <2>3, <3>1 DEF Structure, UsedChain
    <3>3. Follows(i, j)'
      BY <1>1, <1>2, <3>2 DEF Follows
    <3> QED BY <1>1, <1>3, <2>3, <3>2, <3>3
  <2> QED BY <1>1, <2>1, <2>2, <2>3
<1>10. ASSUME NEW i \in DOMAIN at'
       PROVE  \/ First(i)' /\ list'.prev[at'[i]] = Null
              \/ \E j \in DOMAIN at' : Follows(j, i)' /\ list'.prev[at'[i]] = at'[j]
  <2>1. CASE i = v
    BY <1>1, <1>3, <1>7, <2>1
  <2>2. CASE i \in DOMAIN at /\ First(i) /\ list.prev[at[i]] = Null
    BY <1>1, <1>2, <1>3, <2>2 DEF First
  <2>3. ASSUME i \in DOMAIN at, NEW j \in DOMAIN at, Follows(j, i), list.prev[at[i]] = at[j]
        PROVE  Follows(j, i)' /\ list'.prev[at'[i]] = at'[j] /\ j \in DOMAIN at'
    BY <1>1, <1>2, <1>3, <2>3 DEF Follows
  <2>4. i \in DOMAIN at => \/ First(i) /\ list.prev[at[i]] = Null
                           \/ \E j \in DOMAIN at : Follows(j, i) /\ list.prev[at[i]] = at[j]
    BY DEF Structure, UsedChain
  <2> QED BY <1>1, <2>1, <2>2, <2>3, <2>4
<1> QED BY <1>5, <1>8, <1>9, <1>10 DEF UsedChain

\* Adding a value takes the first node off the free list.
LEMMA AddKeepsFree ==
  ASSUME Structure, AddValue, list.free # Null
  PROVE  pool' \in Seq(Nodes) /\ FreeChain' /\ Len(pool') = Len(pool) - 1
<1> DEFINE n == Len(pool)
           node == list.free
           v == arrivals + 1
<1>1. /\ Added(list, v, list')
      /\ DOMAIN at' = DOMAIN at \cup {v} /\ at'[v] = node /\ node \in Nodes
      /\ \A i \in DOMAIN at : at'[i] = at[i]
      /\ n \in Nat \ {0} /\ node = pool[n]
  BY AddFacts
<1>2. /\ pool \in Seq(Nodes)
      /\ pool' = SubSeq(pool, 1, n - 1)
  BY DEF AddValue, Structure, StructureType
<1>3. pool' \in Seq(Nodes) /\ Len(pool') = n - 1 /\ \A k \in 1 .. n - 1 : pool'[k] = pool[k]
  <2>1. n \in Nat \ {0}
    BY <1>1
  <2>2. \A k \in 1 .. n : pool[k] \in Nodes
    BY <1>2
  <2> HIDE DEF n
  <2>3. /\ n - 1 \in Int /\ 1 \in Int /\ n - 1 - 1 + 1 = n - 1
        /\ \A k \in 1 .. n - 1 : k \in 1 .. n /\ 1 + k - 1 = k
        /\ (IF 1 <= n - 1 THEN n - 1 - 1 + 1 ELSE 0) = n - 1
    BY <2>1
  <2>4. \A k \in 1 .. n - 1 : pool[k] \in Nodes
    BY <2>2, <2>3
  <2>5. /\ SubSeq(pool, 1, n - 1) \in Seq(Nodes)
        /\ Len(SubSeq(pool, 1, n - 1)) = IF 1 <= n - 1 THEN n - 1 - 1 + 1 ELSE 0
        /\ \A k \in 1 .. n - 1 - 1 + 1 : SubSeq(pool, 1, n - 1)[k] = pool[1 + k - 1]
    BY <2>3, <2>4, SubSeqProperties
  <2> QED BY <1>2, <2>3, <2>5
<1>4. /\ \A k, m \in 1 .. n : pool[k] = pool[m] => k = m
      /\ \A k \in 1 .. n : list.next[pool[k]] = IF k = 1 THEN Null ELSE pool[k - 1]
      /\ {pool[k] : k \in 1 .. n} = Nodes \ {at[i] : i \in DOMAIN at}
  BY DEF Structure, FreeChain
<1>5. /\ \A i \in DOMAIN at, k \in 1 .. n : at[i] # pool[k]
      /\ \A k \in 1 .. n : pool[k] \in Nodes /\ pool[k] # Null
  BY Apart
<1>6. list.tail = Null \/ \E g \in DOMAIN at : list.tail = at[g]
  BY DEF Structure, UsedChain
<1>7. \A k \in 1 .. n - 1 : k \in 1 .. n /\ k # n /\ (k # 1 => k - 1 \in 1 .. n - 1)
  BY <1>1
<1>8. \A k \in 1 .. n - 1 : pool[k] # node
  BY <1>1, <1>4, <1>7
<1>9. \A k \in 1 .. n - 1 : list'.next[pool[k]] = list.next[pool[k]]
  BY SMTT(20), <1>1, <1>5, <1>6, <1>7, <1>8 DEF Added
<1>10. {pool'[k] : k \in 1 .. Len(pool')} = Nodes \ {at'[i] : i \in DOMAIN at'}
  <2>1. {pool'[k] : k \in 1 .. Len(pool')} = {pool[k] : k \in 1 .. n} \ {node}
    <3>1. 1 .. n = (1 .. n - 1) \cup {n}
      BY <1>1
    <3> QED BY <1>1, <1>3, <1>8, <3>1
  <2>2. {at'[i] : i \in DOMAIN at'} = {at[i] : i \in DOMAIN at} \cup {node}
    BY <1>1
  <2> QED BY <1>4, <2>1, <2>2, ZenonT(30)
<1>11. \A k, m \in 1 .. Len(pool') : pool'[k] = pool'[m] => k = m
  BY <1>3, <1>4, <1>7
<1>12. list'.free = IF Len(pool') = 0 THEN Null ELSE pool'[Len(pool')]
  <2>1. list'.free = list.next[pool[n]]
    BY <1>1 DEF Added
  <2>2. n \in 1 .. n /\ (n # 1 => n - 1 \in 1 .. n - 1) /\ (n = 1 <=> n - 1 = 0)
    <3>1. n \in Nat \ {0}
      BY <1>1
    <3> HIDE DEF n
    <3> QED BY <3>1
  <2> QED BY <1>3, <1>4, <2>1, <2>2
<1>13. \A k \in 1 .. Len(pool') : list'.next[pool'[k]] = IF k = 1 THEN Null ELSE pool'[k - 1]
  <2> SUFFICES ASSUME NEW k \in 1 .. n - 1
               PROVE  list'.next[pool'[k]] = IF k = 1 THEN Null ELSE pool'[k - 1]
    BY <1>3, ZenonT(30)
  <2>1. pool'[k] = pool[k] /\ list'.next[pool[k]] = list.next[pool[k]]
    BY <1>3, <1>9
  <2>2. list.next[pool[k]] = IF k = 1 THEN Null ELSE pool[k - 1]
    BY <1>4, <1>7
  <2>3. k # 1 => pool'[k - 1] = pool[k - 1]
    BY <1>3, <1>7
  <2> QED BY <2>1, <2>2, <2>3
<1> QED BY <1>3, <1>10, <1>11, <1>12, <1>13, ZenonT(30) DEF FreeChain

\* Adding a value keeps all of the structure, also if the list is full.
LEMMA AddKeeps ==
  ASSUME Structure, AddValue
  PROVE  Structure'
<1>1. arrivals \in Nat /\ arrivals' = arrivals + 1 /\ DOMAIN at \subseteq 1 .. arrivals
  BY DEF AddValue, Structure, StructureType
<1>2. CASE list.free = Null
  <2>1. UNCHANGED <<list, at, pool>>
    BY <1>2 DEF AddValue, Add
  <2>2. DOMAIN at \subseteq 1 .. arrivals'
    BY <1>1
  <2>3. StructureType'
    BY <1>1, <2>1, <2>2 DEF Structure, StructureType
  <2>4. UsedChain' /\ FreeChain' /\ LengthExact'
    BY <2>1 DEF Structure, UsedChain, FreeChain, LengthExact, First, Last, Follows
  <2> QED BY <2>1, <2>3, <2>4 DEF Structure
<1>3. CASE list.free # Null
  <2>1. /\ Added(list, arrivals + 1, list')
        /\ DOMAIN at' = DOMAIN at \cup {arrivals + 1}
        /\ arrivals + 1 \notin DOMAIN at
        /\ list.free \in Nodes
    BY <1>1, <1>3, AddFacts
  <2>2. /\ IsFiniteSet(DOMAIN at')
        /\ Cardinality(DOMAIN at') = Cardinality(DOMAIN at) + 1
    BY <2>1, FS_AddElement DEF Structure, StructureType
  <2>3. at' \in [DOMAIN at' -> Nodes] /\ DOMAIN at' \subseteq 1 .. arrivals'
    BY <1>1, <1>3, <2>1 DEF AddValue, Structure, StructureType
  <2>4. StructureType'
    BY <1>1, <1>3, <2>1, <2>2, <2>3, AddKeepsFree DEF StructureType, Added
  <2>5. LengthExact'
    <3>1. list'.length = list.length + 1 /\ Len(pool') = Len(pool) - 1
      BY <1>3, <2>1, AddKeepsFree DEF Added
    <3>2. /\ list.length = Cardinality(DOMAIN at) /\ list.length + Len(pool) = MaxSize
          /\ list.length \in Int /\ Len(pool) \in Nat
      BY DEF Structure, StructureType, LengthExact, ListType
    <3> QED BY <2>2, <3>1, <3>2 DEF LengthExact
  <2> QED BY <1>3, <2>1, <2>4, <2>5, AddKeepsUsed, AddKeepsFree DEF Structure
<1> QED BY <1>2, <1>3
----------------------------------------------------------------------------
(* The loop, and the theorem.                                              *)

\* The constructor: all nodes are free.
LEMMA InitStructure ==
  ASSUME ListInit
  PROVE  Structure
<1>1. /\ at = [i \in {} |-> Null] /\ DOMAIN at = {} /\ arrivals = 0
      /\ pool = [k \in 1 .. MaxSize |-> MaxSize + 1 - k]
  BY DEF ListInit
<1>2. /\ pool \in Seq(Nodes) /\ Len(pool) = MaxSize
      /\ \A k \in 1 .. MaxSize : pool[k] = MaxSize + 1 - k
  BY <1>1, MaxSizeNat DEF Nodes
<1>3. list \in ListType
  <2>1. list = Initialize
    BY DEF ListInit
  <2>2. [n \in Nodes |-> IF n < MaxSize THEN n + 1 ELSE Null] \in [Nodes -> Pointers]
    BY MaxSizeNat DEF Nodes, Null, Pointers
  <2>3. [n \in Nodes |-> n - 1] \in [Nodes -> Pointers]
    BY MaxSizeNat DEF Nodes, Null, Pointers
  <2>4. (IF MaxSize > 0 THEN 1 ELSE Null) \in Pointers /\ Null \in Pointers
    BY MaxSizeNat DEF Nodes, Null, Pointers
  <2> QED BY <2>1, <2>2, <2>3, <2>4 DEF Initialize, ListType
<1>4. IsFiniteSet(DOMAIN at) /\ Cardinality(DOMAIN at) = 0
  BY <1>1, FS_EmptySet
<1>5. StructureType
  BY <1>1, <1>2, <1>3, <1>4 DEF StructureType
<1>6. UsedChain
  BY <1>1 DEF UsedChain, ListInit, Initialize
<1>7. FreeChain
  <2>1. {pool[k] : k \in 1 .. Len(pool)} = Nodes
    <3>1. ASSUME NEW n \in Nodes
          PROVE  \E k \in 1 .. Len(pool) : pool[k] = n
      <4>1. MaxSize + 1 - n \in 1 .. MaxSize /\ MaxSize + 1 - (MaxSize + 1 - n) = n
        BY MaxSizeNat DEF Nodes
      <4> QED BY <1>2, <4>1
    <3>2. \A k \in 1 .. Len(pool) : pool[k] \in Nodes
      BY <1>2
    <3> QED BY <3>1, <3>2
  <2>2. {at[i] : i \in DOMAIN at} = {}
    BY <1>1
  <2>3. \A k, m \in 1 .. Len(pool) : pool[k] = pool[m] => k = m
    BY <1>2, MaxSizeNat
  <2>4. list.free = IF Len(pool) = 0 THEN Null ELSE pool[Len(pool)]
    BY <1>2, MaxSizeNat DEF ListInit, Initialize
  <2>5. \A k \in 1 .. Len(pool) : list.next[pool[k]] = IF k = 1 THEN Null ELSE pool[k - 1]
    <3>1. \A n \in Nodes : list.next[n] = IF n < MaxSize THEN n + 1 ELSE Null
      BY DEF ListInit, Initialize
    <3>2. ASSUME NEW k \in 1 .. MaxSize
          PROVE  /\ pool[k] \in Nodes
                 /\ k = 1 => ~(pool[k] < MaxSize)
                 /\ k # 1 => pool[k] < MaxSize /\ k - 1 \in 1 .. MaxSize /\ pool[k - 1] = pool[k] + 1
      <4>1. pool[k] = MaxSize + 1 - k /\ MaxSize + 1 - k \in 1 .. MaxSize
        BY <1>2, MaxSizeNat
      <4>2. k # 1 => k - 1 \in 1 .. MaxSize /\ pool[k - 1] = MaxSize + 1 - (k - 1)
        <5>1. k # 1 => k - 1 \in 1 .. MaxSize
          BY MaxSizeNat
        <5> QED BY <1>2, <5>1
      <4>3. k # 1 => MaxSize + 1 - k < MaxSize /\ MaxSize + 1 - (k - 1) = MaxSize + 1 - k + 1
        BY MaxSizeNat
      <4>4. k = 1 => ~(MaxSize + 1 - k < MaxSize)
        BY MaxSizeNat
      <4> QED BY <4>1, <4>2, <4>3, <4>4 DEF Nodes
    <3> QED BY <1>2, <3>1, <3>2
  <2> QED BY <2>1, <2>2, <2>3, <2>4, <2>5 DEF FreeChain
<1>8. LengthExact
  BY <1>2, <1>4, MaxSizeNat DEF LengthExact, ListInit, Initialize
<1> QED BY <1>5, <1>6, <1>7, <1>8 DEF Structure

\* A step that leaves the list alone keeps its structure.
LEMMA StructureUnchanged ==
  ASSUME Structure, UNCHANGED <<list, at, pool, arrivals>>
  PROVE  Structure'
<1>1. StructureType'
  BY DEF Structure, StructureType
<1>2. UsedChain'
  BY DEF Structure, UsedChain, First, Last, Follows
<1>3. FreeChain' /\ LengthExact'
  BY DEF Structure, FreeChain, LengthExact
<1> QED BY <1>1, <1>2, <1>3 DEF Structure

\* RemoveAll starts at the head, which is the oldest value.
LEMMA StartKeeps ==
  ASSUME IInv, StartWalk
  PROVE  IInv'
<1>1. UNCHANGED <<list, at, pool, arrivals>> /\ Structure
  BY DEF StartWalk, IInv
<1>2. Structure'
  BY <1>1, StructureUnchanged
<1>3. walk' = [on |-> TRUE, current |-> list.head, iter |-> Behind(list, list.head),
               todo |-> DOMAIN at]
  BY DEF StartWalk
<1>4. list.head \in Pointers /\ Behind(list, list.head) \in Pointers
  BY <1>1 DEF Structure, StructureType, ListType, Behind, Pointers
<1>5. WalkType'
  <2>1. DOMAIN at \subseteq Nat
    BY <1>1, Apart
  <2> QED BY <1>3, <1>4, <2>1 DEF WalkType
<1>6. WalkExact'
  <2>1. \/ DOMAIN at = {} /\ list.head = Null
        \/ \E i \in DOMAIN at : First(i) /\ list.head = at[i]
    BY <1>1 DEF Structure, UsedChain
  <2>2. \A i \in DOMAIN at : at[i] # Null
    BY <1>1, Apart
  <2> QED BY <1>1, <1>3, <2>1, <2>2 DEF WalkExact, First
<1>7. IteratorAhead'
  BY <1>1, <1>3 DEF IteratorAhead, Behind
<1> QED BY <1>2, <1>5, <1>6, <1>7 DEF IInv

\* A turn of the loop takes it to the value behind, whether or not it removes
\* the one it is at.
LEMMA VisitKeeps ==
  ASSUME IInv, Visit
  PROVE  IInv'
<1>1. /\ Structure /\ walk.on /\ walk.current # Null /\ arrivals' = arrivals
      /\ walk.todo \subseteq DOMAIN at
      /\ walk.iter = Behind(list, walk.current)
      /\ \A j \in DOMAIN at \ walk.todo, k \in walk.todo : j < k
  BY DEF Visit, IInv, WalkType, IteratorAhead
<1>2. PICK i \in walk.todo : at[i] = walk.current /\ \A j \in walk.todo : i <= j
  BY <1>1 DEF IInv, WalkExact
<1>3. /\ i \in DOMAIN at /\ list.value[walk.current] = i
      /\ \A k, m \in DOMAIN at : at[k] = at[m] => k = m
      /\ \A k \in DOMAIN at : at[k] \in Nodes /\ at[k] # Null
      /\ DOMAIN at \subseteq Nat
  BY <1>1, <1>2, Apart DEF Structure, UsedChain
<1>4. /\ walk'.on /\ walk'.current = walk.iter /\ walk'.iter = Behind(list, walk.iter)
      /\ walk'.todo = walk.todo \ {i}
      /\ walk' = [on |-> TRUE, current |-> walk.iter, iter |-> Behind(list, walk.iter),
                  todo |-> walk.todo \ {i}]
  BY <1>3, ZenonT(30) DEF Visit, IInv, WalkType
<1>5. \/ walk.iter = Null /\ walk.todo \ {i} = {}
      \/ \E j \in walk.todo \ {i} : /\ walk.iter = at[j] /\ Follows(i, j)
                                    /\ \A k \in walk.todo \ {i} : j <= k
  <2>1. walk.iter = list.next[at[i]]
    BY <1>1, <1>2 DEF Behind
  <2>2. CASE Last(i) /\ list.next[at[i]] = Null
    BY <1>1, <1>2, <1>3, <2>1, <2>2 DEF Last
  <2>3. ASSUME NEW j \in DOMAIN at, Follows(i, j), list.next[at[i]] = at[j]
        PROVE  /\ j \in walk.todo \ {i} /\ walk.iter = at[j]
               /\ \A k \in walk.todo \ {i} : j <= k
    BY <1>1, <1>2, <1>3, <2>1, <2>3 DEF Follows
  <2>4. \/ Last(i) /\ list.next[at[i]] = Null
        \/ \E j \in DOMAIN at : Follows(i, j) /\ list.next[at[i]] = at[j]
    BY <1>1, <1>3 DEF Structure, UsedChain
  <2> QED BY <2>2, <2>3, <2>4
<1>6. walk.iter \in Pointers /\ Behind(list, walk.iter) \in Pointers
  BY <1>1 DEF IInv, WalkType, Structure, StructureType, ListType, Behind, Pointers
<1>7. CASE UNCHANGED <<list, at, pool>>
  <2>1. Structure'
    BY <1>1, <1>7, StructureUnchanged
  <2>2. WalkType'
    BY <1>1, <1>3, <1>4, <1>6 DEF WalkType
  <2>3. WalkExact'
    BY <1>1, <1>3, <1>4, <1>5, <1>7 DEF WalkExact
  <2>4. IteratorAhead'
    BY <1>1, <1>2, <1>3, <1>4, <1>7 DEF IteratorAhead, Behind
  <2> QED BY <2>1, <2>2, <2>3, <2>4 DEF IInv
<1>8. CASE Drop(i)
  <2>1. Structure'
    BY <1>1, <1>3, <1>8, DropKeeps
  <2>2. DOMAIN at' = DOMAIN at \ {i} /\ \A k \in DOMAIN at' : at'[k] = at[k]
    BY <1>8 DEF Drop
  <2>3. WalkType'
    BY <1>1, <1>3, <1>4, <1>6 DEF WalkType
  <2>4. WalkExact'
    BY <1>1, <1>3, <1>4, <1>5, <2>2 DEF WalkExact
  <2>5. Behind(list, walk.iter) = Behind(list', walk.iter)
    <3>1. CASE walk.iter = Null
      BY <3>1 DEF Behind
    <3>2. ASSUME NEW j \in walk.todo \ {i}, walk.iter = at[j], Follows(i, j)
          PROVE  list'.next[at[j]] = list.next[at[j]]
      <4>1. Removed(list, at[i], list')
        BY <1>1, <1>3, <1>8, RemoveEffect DEF Drop, Structure, StructureType
      <4>2. j \in DOMAIN at /\ i < j /\ at[j] # at[i]
        BY <1>1, <1>3, <3>2 DEF Follows
      <4>3. at[j] # list.prev[at[i]]
        <5>1. \/ list.prev[at[i]] = Null
              \/ \E p \in DOMAIN at : Follows(p, i) /\ list.prev[at[i]] = at[p]
          BY <1>1, <1>3 DEF Structure, UsedChain
        <5> QED BY <1>3, <4>2, <5>1 DEF Follows
      <4> QED BY <1>3, <4>1, <4>2, <4>3 DEF Removed
    <3> QED BY <1>5, <3>1, <3>2 DEF Behind
  <2>6. IteratorAhead'
    BY <1>1, <1>2, <1>3, <1>4, <2>2, <2>5 DEF IteratorAhead
  <2> QED BY <2>1, <2>3, <2>4, <2>6 DEF IInv
<1> QED BY <1>3, <1>7, <1>8 DEF Visit

\* List.h keeps its chains, its length and its loops intact, for every capacity
\* and every order of Add, Remove and RemoveAll.
THEOREM ListCorrect == ListSpec => []ListIntact
<1>1. ListInit => IInv
  <2> SUFFICES ASSUME ListInit PROVE IInv
    OBVIOUS
  <2>1. walk = Idle
    BY DEF ListInit
  <2>2. WalkType
    BY <2>1 DEF WalkType, Idle, Pointers
  <2>3. WalkExact /\ IteratorAhead
    BY <2>1 DEF WalkExact, IteratorAhead, Idle
  <2> QED BY <2>2, <2>3, InitStructure DEF IInv
<1>2. IInv /\ [ListNext]_listVars => IInv'
  <2> SUFFICES ASSUME IInv, [ListNext]_listVars PROVE IInv'
    OBVIOUS
  <2>1. CASE AddValue
    <3>1. Structure'
      BY <2>1, AddKeeps DEF IInv
    <3>2. walk' = walk /\ ~walk.on
      BY <2>1 DEF AddValue
    <3>3. WalkType' /\ WalkExact' /\ IteratorAhead'
      BY <3>1, <3>2 DEF IInv, WalkType, WalkExact, IteratorAhead
    <3> QED BY <3>1, <3>3 DEF IInv
  <2>2. CASE RemoveValue
    <3>1. PICK v \in DOMAIN at : Drop(v)
      BY <2>2 DEF RemoveValue
    <3>2. Structure'
      BY <2>2, <3>1, DropKeeps DEF IInv, RemoveValue
    <3>3. walk' = walk /\ ~walk.on
      BY <2>2 DEF RemoveValue
    <3>4. WalkType' /\ WalkExact' /\ IteratorAhead'
      BY <3>1, <3>3 DEF IInv, WalkType, WalkExact, IteratorAhead
    <3> QED BY <3>2, <3>4 DEF IInv
  <2>3. CASE StartWalk
    BY <2>3, StartKeeps
  <2>4. CASE Visit
    BY <2>4, VisitKeeps
  <2>5. CASE EndWalk
    <3>1. UNCHANGED <<list, at, pool, arrivals>> /\ walk' = Idle
      BY <2>5 DEF EndWalk
    <3>2. Structure'
      BY <3>1, StructureUnchanged DEF IInv
    <3>3. WalkType' /\ WalkExact' /\ IteratorAhead'
      BY <3>1 DEF WalkType, WalkExact, IteratorAhead, Idle, Pointers
    <3> QED BY <3>2, <3>3 DEF IInv
  <2>6. CASE UNCHANGED listVars
    <3>1. UNCHANGED <<list, at, pool, arrivals>> /\ walk' = walk
      BY <2>6 DEF listVars
    <3>2. Structure'
      BY <3>1, StructureUnchanged DEF IInv
    <3>3. WalkType' /\ WalkExact' /\ IteratorAhead'
      BY <3>1 DEF IInv, WalkType, WalkExact, IteratorAhead, Behind
    <3> QED BY <3>2, <3>3 DEF IInv
  <2> QED BY <2>1, <2>2, <2>3, <2>4, <2>5, <2>6 DEF ListNext
<1>3. IInv => ListIntact
  <2> SUFFICES ASSUME IInv PROVE FullExact
    BY DEF IInv, Structure, ListIntact
  <2>1. /\ Structure /\ Len(pool) \in Nat
        /\ list.length = Cardinality(DOMAIN at) /\ list.length + Len(pool) = MaxSize
        /\ list.length \in Int
    BY DEF IInv, Structure, StructureType, LengthExact, ListType
  <2>2. list.free = Null <=> Len(pool) = 0
    <3>1. Len(pool) # 0 => Len(pool) \in 1 .. Len(pool)
      BY <2>1
    <3>2. \A k \in 1 .. Len(pool) : pool[k] # Null
      BY <2>1, Apart
    <3> QED BY <2>1, <3>1, <3>2 DEF Structure, FreeChain
  <2> QED BY <2>1, <2>2, MaxSizeNat DEF FullExact, IsFullAndCapacityNotZero
<1> QED BY <1>1, <1>2, <1>3, PTL DEF ListSpec
=============================================================================
