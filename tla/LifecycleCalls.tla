-------------------------- MODULE LifecycleCalls ---------------------------
(***************************************************************************)
(* The inductive invariants of Lifecycle, and the steps of the threads and *)
(* of the connections that keep them; the lambdas on the strands follow in *)
(* LifecycleProofs.  A step is described by what it adds to and takes from *)
(* the queues (Moved), by the threads it moves (Only), and by what it does *)
(* to the members of the manager (NetMoves) and to the stacks.  The few    *)
(* facts about sequences and finite sets are proved here: the theorem      *)
(* modules of the library would slow down every other proof.               *)
(***************************************************************************)
EXTENDS Lifecycle, TLAPS

\* Lambdas that a thread waits for, and lambdas that nobody waits for.
CallOps == {"add", "remove", "close", "shutConn", "flushed"}
PostOps == {"release", "detachStack", "detachChannel", "detachListener", "detachConn"}

\* The lambdas, and the members of the manager's resources.
Jobs == [op : CallOps \cup PostOps, arg : Stacks \cup Conns \cup {None}, who : Threads \cup {None}]
Members == {"channel", "listener"} \cup Conns

\* The type of the state.
StateType ==
  [mgr : [shutting : BOOLEAN, members : SUBSET Members, owner : Threads \cup {None}],
   chn : [shutting : BOOLEAN, members : SUBSET Stacks, owner : Threads \cup {None}],
   open : BOOLEAN, bound : SUBSET Stacks, jobs : [Strands -> Seq(Jobs)],
   thread : [Threads -> [pc : {"idle", "wait", "bind", "inUse", "shutting"},
                         arg : Stacks \cup {None, "manager"}, todo : SUBSET Members]],
   listening : BOOLEAN, accepting : Conns \cup {None},
   conn : [Conns -> [st : {"new", "refused", "open", "shut"}, socket : BOOLEAN,
                     stack : BOOLEAN, timer : BOOLEAN, closes : Nat]],
   handed : SUBSET Stacks, resources : BOOLEAN, returned : BOOLEAN]

\* Every lambda has what it needs, and whoever posted it waits.
JobOk(x, k, j) ==
  /\ j.op \in {"add", "remove", "close", "detachStack", "detachChannel"} => k = "channel"
  /\ j.op \in {"shutConn", "release", "detachConn"} => k \in Conns /\ j.arg = k
  /\ j.op = "close" => j.arg = None
  /\ j.op = "detachListener" => k = "listener" /\ ~x.listening
  /\ j.op \in {"add", "remove", "detachStack"} => j.arg \in Stacks
  /\ j.op \in CallOps => j.who \in Threads /\ x.thread[j.who].pc = "wait"
  /\ j.op \in PostOps => j.who = None
  /\ j.op = "add" => x.chn.owner = j.who /\ x.thread[j.who].arg = j.arg
  /\ j.op \in CallOps \ {"add"} => x.thread[j.who].arg \notin Stacks
  /\ j.op = "shutConn" => x.thread[j.who].arg = "manager"
  /\ j.op \in {"shutConn", "release"} => x.conn[k].st \in {"open", "shut"}
  /\ j.op = "detachConn" => x.conn[k].st = "shut"
  /\ j.op = "detachChannel" => ~x.open

\* A thread has at most one lambda that it waits for.
Distinct(q) == \A i, j \in DOMAIN q : q[i].who \in Threads /\ q[i].who = q[j].who => i = j
Apart(p, q) == \A a \in Range(p), b \in Range(q) : a.who \in Threads => a.who # b.who

\* No thread waits for two lambdas, on one strand or on two.
JobsOk(x) ==
  /\ \A k \in Strands : \A j \in Range(x.jobs[k]) : JobOk(x, k, j)
  /\ \A k \in Strands : Distinct(x.jobs[k])
  /\ \A k, m \in Strands : k # m => Apart(x.jobs[k], x.jobs[m])

\* A thread that adds a stack holds the lock; one that has members left is
\* shutting down the manager.
ThreadOk(x) ==
  \A u \in Threads : LET t == x.thread[u] IN
    /\ t.arg \in Stacks <=> x.chn.owner = u
    /\ t.arg = None => t.pc \in {"idle", "wait"}
    /\ t.arg = "manager" => t.pc \in {"wait", "shutting"}
    /\ t.arg \in Stacks => t.pc \in {"wait", "bind", "inUse"}
    /\ t.todo # {} => t.arg = "manager"

\* The shutdown of the manager will come to the channel, or to a connection.
Closer(r) == IF r = "channel" THEN "close" ELSE "shutConn"
InHands(x, r) == r \in x.mgr.members \/ \E u \in Threads : r \in x.thread[u].todo
Reached(x, r) ==
  \/ r \in x.mgr.members
  \/ \E u \in Threads : r \in x.thread[u].todo
  \/ \E j \in Range(x.jobs[r]) : j.op = Closer(r) /\ x.thread[j.who].arg = "manager"

\* One thread at most shuts down the manager; when it has returned nothing is
\* open, and until then it will come to whatever is open.
ManagerOk(x) ==
  /\ x.mgr.shutting => x.mgr.members = {}
  /\ \A u \in Threads : x.thread[u].arg = "manager" =>
       x.mgr.shutting /\ ~x.returned /\ \A v \in Threads : x.thread[v].arg = "manager" => u = v
  /\ x.returned => x.mgr.shutting /\ ~x.open /\ \A l \in Conns : x.conn[l].st # "open"
  /\ x.open => Reached(x, "channel")
  /\ x.listening => InHands(x, "listener")
  /\ ~x.resources => x.mgr.shutting

\* What is known of a connection by itself.
ConnSound(c) ==
  /\ c.socket \/ c.timer => c.st = "open"
  /\ c.stack => c.st \in {"open", "shut"}
  /\ c.closes = IF c.st = "shut" THEN 1 ELSE 0

\* Only a connection that was started is a member, and an open one will be
\* shut down.
ConnOk(x) ==
  \A l \in Conns : LET c == x.conn[l] IN
    /\ ConnSound(c)
    /\ x.accepting = l => c.st = "new"
    /\ l \in x.mgr.members => c.st \in {"open", "shut"}
    /\ \A u \in Threads : l \in x.thread[u].todo => c.st \in {"open", "shut"}
    /\ c.st = "open" => Reached(x, l)

\* The inductive invariant, whatever threads call AddStack.
Inv(x) ==
  /\ x \in StateType /\ JobsOk(x) /\ ThreadOk(x) /\ ManagerOk(x) /\ ConnOk(x)
  /\ IsFiniteSet(x.chn.members)

\* A lambda will take stack s from the channel's resources.
Detaching(x, s) == \E j \in Range(x.jobs["channel"]) : j.op = "detachStack" /\ j.arg = s

\* Nothing holds or takes away stack s.
Clean(x, s) ==
  /\ s \notin x.handed \cup x.chn.members
  /\ \A j \in Range(x.jobs["channel"]) : j.op \in {"remove", "detachStack"} => j.arg # s

\* Members and bound stacks differ only by a stack that is being detached, or
\* one that is being added; the user holds only stacks that are bound, and none
\* that is being removed.
StackOk(x) ==
  /\ x.chn.shutting <=> ~x.open
  /\ ~x.open => x.bound = {} /\ x.chn.members = {} /\ x.chn.owner = None
  /\ x.open => x.handed \subseteq x.bound
  /\ \A s \in x.chn.members \ x.bound : Detaching(x, s)
  /\ \A s \in x.bound \ x.chn.members : \E u \in Threads :
       x.thread[u].pc = "bind" /\ x.thread[u].arg = s
  /\ \A s \in x.bound : ~Detaching(x, s)
  /\ \A u \in Threads : x.thread[u].pc = "bind" =>
       x.thread[u].arg \in x.bound /\ Clean(x, x.thread[u].arg)
  /\ \A j \in Range(x.jobs["channel"]) :
       /\ j.op = "add" => j.arg \in x.bound \/ Clean(x, j.arg)
       /\ j.op = "remove" => j.arg \notin x.handed

\* A lambda that adds a stack is the first of its strand.
HeadOk(x) ==
  LET q == x.jobs["channel"] IN q # <<>> => \A j \in Range(Tail(q)) : j.op # "add"

\* While the channel is open somebody waits for the last lambda of its
\* strand.
LastOk(x) ==
  LET q == x.jobs["channel"] IN x.open /\ q # <<>> => q[Len(q)].who \in Threads

\* The inductive invariant if no two threads add a stack to the channel at
\* once.
Inv2(x) == StackOk(x) /\ HeadOk(x) /\ LastOk(x)

\* Both, for the state of the specification.
IInv == Inv(g)
IInv2 == Inv2(g)

----------------------------------------------------------------------------
(* Queues.                                                                 *)

\* What the operators on sequences give.
LEMMA Lens ==
  ASSUME NEW S, NEW p \in Seq(S)
  PROVE  /\ Len(p) \in Nat /\ DOMAIN p = 1 .. Len(p) /\ (Len(p) = 0 <=> p = <<>>)
         /\ p \o <<>> = p
OBVIOUS

\* The elements of a concatenation.
LEMMA Concats ==
  ASSUME NEW S, NEW p \in Seq(S), NEW q \in Seq(S)
  PROVE  /\ p \o q \in Seq(S) /\ Len(p \o q) = Len(p) + Len(q)
         /\ \A i \in 1 .. Len(p) + Len(q) : (p \o q)[i] = IF i <= Len(p) THEN p[i] ELSE q[i - Len(p)]
OBVIOUS

\* Concatenation is associative.
LEMMA ConcatTwice ==
  ASSUME NEW S, NEW p \in Seq(S), NEW q \in Seq(S), NEW r \in Seq(S)
  PROVE  (p \o q) \o r = p \o (q \o r)
OBVIOUS

\* The head and the tail of a sequence.
LEMMA Tails ==
  ASSUME NEW S, NEW p \in Seq(S), p # <<>>
  PROVE  /\ Head(p) \in S /\ Head(p) = p[1] /\ Tail(p) \in Seq(S) /\ Len(Tail(p)) = Len(p) - 1
         /\ \A i \in 1 .. Len(Tail(p)) : Tail(p)[i] = p[i + 1]
OBVIOUS

\* What keeps a set finite.
LEMMA FiniteEmpty == IsFiniteSet({})
<1>1. <<>> \in Seq({}) /\ \A e \in {} : \E n \in 1 .. Len(<<>>) : <<>>[n] = e
  OBVIOUS
<1> QED BY <1>1, ZenonT(30) DEF IsFiniteSet

\* One more element.
LEMMA FiniteAdd ==
  ASSUME NEW S, IsFiniteSet(S), NEW e PROVE IsFiniteSet(S \cup {e})
<1>1. PICK q \in Seq(S) : \A s \in S : \E n \in 1 .. Len(q) : q[n] = s
  BY Zenon DEF IsFiniteSet
<1> DEFINE r == Append(q, e)
<1>2. r \in Seq(S \cup {e}) /\ Len(r) = Len(q) + 1 /\ Len(q) \in Nat
  OBVIOUS
<1>3. r[Len(q) + 1] = e /\ \A n \in 1 .. Len(q) : r[n] = q[n]
  OBVIOUS
<1> HIDE DEF r
<1>4. \A s \in S \cup {e} : \E n \in 1 .. Len(r) : r[n] = s
  BY <1>1, <1>2, <1>3, SMTT(20)
<1> QED BY <1>2, <1>4, ZenonT(30) DEF IsFiniteSet

\* One element less.
LEMMA FiniteRemove ==
  ASSUME NEW S, IsFiniteSet(S), NEW e PROVE IsFiniteSet(S \ {e})
<1>1. PICK q \in Seq(S) : \A s \in S : \E n \in 1 .. Len(q) : q[n] = s
  BY Zenon DEF IsFiniteSet
<1>2. CASE S \ {e} = {}
  BY <1>2, FiniteEmpty, Zenon
<1>3. ASSUME NEW d \in S \ {e} PROVE IsFiniteSet(S \ {e})
  <2> DEFINE r == [n \in 1 .. Len(q) |-> IF q[n] = e THEN d ELSE q[n]]
  <2>1. Len(q) \in Nat /\ \A n \in 1 .. Len(q) : q[n] \in S
    OBVIOUS
  <2>2. \A n \in 1 .. Len(q) : r[n] = (IF q[n] = e THEN d ELSE q[n]) /\ r[n] \in S \ {e}
    BY <2>1, Zenon
  <2>3. r \in Seq(S \ {e}) /\ Len(r) = Len(q)
    BY <2>1, <2>2
  <2> HIDE DEF r
  <2>4. \A s \in S \ {e} : \E n \in 1 .. Len(r) : r[n] = s
    BY <1>1, <2>2, <2>3, ZenonT(30)
  <2> QED BY <2>3, <2>4, Zenon DEF IsFiniteSet
<1> QED BY <1>2, <1>3, ZenonT(30)

Unique(f) ==
  /\ \A k \in Strands : Distinct(f[k])
  /\ \A k, m \in Strands : k # m => Apart(f[k], f[m])

\* What is in a queue after js was put behind it.
LEMMA ConcatRange ==
  ASSUME NEW S, NEW p \in Seq(S), NEW q \in Seq(S)
  PROVE  p \o q \in Seq(S) /\ Range(p \o q) = Range(p) \cup Range(q)
<1> DEFINE r == p \o q
<1>1. /\ r \in Seq(S) /\ Len(r) = Len(p) + Len(q) /\ Len(p) \in Nat /\ Len(q) \in Nat
      /\ \A i \in 1 .. Len(p) + Len(q) : r[i] = IF i <= Len(p) THEN p[i] ELSE q[i - Len(p)]
      /\ DOMAIN r = 1 .. Len(r) /\ DOMAIN p = 1 .. Len(p) /\ DOMAIN q = 1 .. Len(q)
  BY Concats, Lens, Zenon
<1> HIDE DEF r
<1>2. ASSUME NEW i \in DOMAIN r PROVE r[i] \in Range(p) \cup Range(q)
  <2>1. CASE i <= Len(p)
    BY <1>1, <2>1 DEF Range
  <2>2. CASE ~(i <= Len(p))
    <3>1. i - Len(p) \in DOMAIN q /\ r[i] = q[i - Len(p)]
      BY <1>1, <2>2
    <3> QED BY <3>1, Zenon DEF Range
  <2> QED BY <2>1, <2>2, Zenon
<1>3. ASSUME NEW i \in DOMAIN p PROVE p[i] \in Range(r)
  <2>1. i \in DOMAIN r /\ r[i] = p[i]
    BY <1>1
  <2> QED BY <2>1, Zenon DEF Range
<1>4. ASSUME NEW i \in DOMAIN q PROVE q[i] \in Range(r)
  <2>1. i + Len(p) \in DOMAIN r /\ r[i + Len(p)] = q[(i + Len(p)) - Len(p)] /\ (i + Len(p)) - Len(p) = i
    BY <1>1
  <2> QED BY <2>1, Zenon DEF Range
<1>5. Range(r) = Range(p) \cup Range(q)
  BY <1>2, <1>3, <1>4, Zenon DEF Range
<1> QED BY <1>1, <1>5, Zenon DEF r

\* The lambda at the head is taken away.
LEMMA TailRange ==
  ASSUME NEW S, NEW q \in Seq(S), q # <<>>
  PROVE  /\ Tail(q) \in Seq(S) /\ Head(q) \in S
         /\ Range(q) = Range(Tail(q)) \cup {Head(q)}
<1> DEFINE t == Tail(q)
<1>1. /\ t \in Seq(S) /\ Head(q) \in S /\ Head(q) = q[1] /\ Len(q) \in Nat \ {0} /\ Len(t) = Len(q) - 1
      /\ \A i \in 1 .. Len(t) : t[i] = q[i + 1]
      /\ DOMAIN q = 1 .. Len(q)
  BY Tails, Lens
<1>2. DOMAIN t = 1 .. Len(t)
  BY <1>1, Lens, Zenon
<1> HIDE DEF t
<1>3. ASSUME NEW i \in DOMAIN q, i # 1 PROVE q[i] \in Range(t)
  <2>1. i - 1 \in DOMAIN t /\ t[i - 1] = q[(i - 1) + 1] /\ (i - 1) + 1 = i
    BY <1>1, <1>2, <1>3
  <2> QED BY <2>1, Zenon DEF Range
<1>4. ASSUME NEW i \in DOMAIN t PROVE t[i] \in Range(q)
  <2>1. i + 1 \in DOMAIN q /\ t[i] = q[i + 1]
    BY <1>1, <1>2
  <2> QED BY <2>1, Zenon DEF Range
<1>5. Head(q) \in Range(q)
  <2>1. 1 \in DOMAIN q
    BY <1>1
  <2> QED BY <1>1, <2>1, Zenon DEF Range
<1>6. \A a \in Range(q) : a \in Range(t) \cup {Head(q)}
  BY <1>1, <1>3, Zenon DEF Range
<1>7. \A a \in Range(t) : a \in Range(q)
  BY <1>4, Zenon DEF Range
<1> QED BY <1>1, <1>5, <1>6, <1>7, Zenon DEF t

\* Running the first lambda leaves the others apart.
LEMMA TailDistinct ==
  ASSUME NEW q \in Seq(Jobs), q # <<>>, Distinct(q)
  PROVE  /\ Distinct(Tail(q))
         /\ \A j \in Range(Tail(q)) : j.who \in Threads => j.who # Head(q).who
<1> DEFINE t == Tail(q)
<1>1. /\ Head(q) = q[1] /\ Len(q) \in Nat \ {0} /\ Len(t) = Len(q) - 1
      /\ \A i \in 1 .. Len(t) : t[i] = q[i + 1]
      /\ DOMAIN q = 1 .. Len(q) /\ t \in Seq(Jobs)
  BY Tails, Lens
<1>2. DOMAIN t = 1 .. Len(t)
  BY <1>1, Lens, Zenon
<1> HIDE DEF t
<1>3. ASSUME NEW i \in DOMAIN t PROVE i + 1 \in DOMAIN q /\ i + 1 # 1 /\ t[i] = q[i + 1] /\ 1 \in DOMAIN q
  BY <1>1, <1>2
<1>4. Distinct(t)
  <2> SUFFICES ASSUME NEW i \in DOMAIN t, NEW j \in DOMAIN t, t[i].who \in Threads, t[i].who = t[j].who
               PROVE  i = j
    BY Zenon DEF Distinct
  <2>1. i + 1 = j + 1
    BY <1>3, Zenon DEF Distinct
  <2> QED BY <1>2, <2>1
<1>5. ASSUME NEW j \in Range(t), j.who \in Threads PROVE j.who # Head(q).who
  <2>1. PICK i \in DOMAIN t : j = t[i]
    BY Zenon DEF Range
  <2> QED BY <1>1, <1>3, <1>5, <2>1, Zenon DEF Distinct
<1> QED BY <1>4, <1>5, Zenon DEF t

\* Two queues that are apart make one queue.
LEMMA ConcatDistinct ==
  ASSUME NEW p \in Seq(Jobs), NEW q \in Seq(Jobs), Distinct(p), Distinct(q), Apart(p, q)
  PROVE  Distinct(p \o q)
<1> DEFINE r == p \o q
<1>1. /\ r \in Seq(Jobs) /\ Len(r) = Len(p) + Len(q) /\ Len(p) \in Nat /\ Len(q) \in Nat
      /\ \A i \in 1 .. Len(p) + Len(q) : r[i] = IF i <= Len(p) THEN p[i] ELSE q[i - Len(p)]
      /\ DOMAIN r = 1 .. Len(r) /\ DOMAIN p = 1 .. Len(p) /\ DOMAIN q = 1 .. Len(q)
  BY Concats, Lens, Zenon
<1> HIDE DEF r
<1>2. ASSUME NEW i \in DOMAIN r, i <= Len(p) PROVE i \in DOMAIN p /\ r[i] = p[i] /\ r[i] \in Range(p)
  BY <1>1, <1>2 DEF Range
<1>3. ASSUME NEW i \in DOMAIN r, ~(i <= Len(p))
      PROVE  i - Len(p) \in DOMAIN q /\ r[i] = q[i - Len(p)] /\ r[i] \in Range(q)
  <2>1. i - Len(p) \in DOMAIN q /\ r[i] = q[i - Len(p)]
    BY <1>1, <1>3
  <2> QED BY <2>1, Zenon DEF Range
<1>4. ASSUME NEW i \in DOMAIN r, NEW j \in DOMAIN r, r[i].who \in Threads, r[i].who = r[j].who
      PROVE  i = j
  <2>1. CASE i <= Len(p) /\ j <= Len(p)
    BY <1>2, <1>4, <2>1, Zenon DEF Distinct
  <2>2. CASE ~(i <= Len(p)) /\ ~(j <= Len(p))
    <3>1. i - Len(p) = j - Len(p)
      BY <1>3, <1>4, <2>2, Zenon DEF Distinct
    <3> QED BY <1>1, <3>1
  <2>3. CASE i <= Len(p) /\ ~(j <= Len(p))
    BY <1>2, <1>3, <1>4, <2>3, Zenon DEF Apart
  <2>4. CASE ~(i <= Len(p)) /\ j <= Len(p)
    BY <1>2, <1>3, <1>4, <2>4, Zenon DEF Apart
  <2> QED BY <2>1, <2>2, <2>3, <2>4, Zenon
<1>5. Distinct(r)
  BY <1>4, Zenon DEF Distinct
<1> QED BY <1>5, Zenon DEF r

\* From f to h, new was posted to strand k, and gone was taken from its head.
Moved(f, h, k, gone, new) ==
  /\ h \in [Strands -> Seq(Jobs)] /\ Unique(h)
  /\ \A m \in Strands \ {k} : h[m] = f[m]
  /\ \A j \in Range(h[k]) : j \in Range(f[k]) \/ j \in new
  /\ \A j \in Range(f[k]) : j \in gone \/ j \in Range(h[k])
  /\ new \subseteq Range(h[k])
  /\ \A m \in Strands : \A j \in Range(h[m]), a \in gone :
       j.who \in Threads /\ j.who = a.who => m = k /\ j \in new

\* A lambda is posted behind the others.
LEMMA Posting ==
  ASSUME NEW f \in [Strands -> Seq(Jobs)], Unique(f), NEW k \in Strands, NEW js \in Seq(Jobs),
         Distinct(js), \A m \in Strands : Apart(f[m], js)
  PROVE  Moved(f, [f EXCEPT ![k] = f[k] \o js], k, {}, Range(js))
<1> DEFINE h == [f EXCEPT ![k] = f[k] \o js]
<1>1. f[k] \in Seq(Jobs) /\ f[k] \o js \in Seq(Jobs) /\ Range(f[k] \o js) = Range(f[k]) \cup Range(js)
  BY ConcatRange
<1>2. Distinct(f[k] \o js)
  BY <1>1, ConcatDistinct, Zenon DEF Unique
<1>3. h \in [Strands -> Seq(Jobs)] /\ h[k] = f[k] \o js /\ \A m \in Strands \ {k} : h[m] = f[m]
  BY <1>1, Zenon
<1> HIDE DEF h
<1>4. Range(h[k]) = Range(f[k]) \cup Range(js)
  BY <1>1, <1>3, Zenon
<1>5. Unique(h)
  <2>1. \A m \in Strands : Distinct(h[m])
    BY <1>2, <1>3, ZenonT(30) DEF Unique
  <2>2. ASSUME NEW m \in Strands, NEW n \in Strands, m # n PROVE Apart(h[m], h[n])
    BY <1>3, <1>4, <2>2, ZenonT(30) DEF Unique, Apart
  <2> QED BY <2>1, <2>2, Zenon DEF Unique
<1>6. Moved(f, h, k, {}, Range(js))
  BY <1>3, <1>4, <1>5, Zenon DEF Moved
<1> QED BY <1>6, Zenon DEF h

\* The first lambda runs and posts others.
LEMMA Running ==
  ASSUME NEW f \in [Strands -> Seq(Jobs)], Unique(f), NEW k \in Strands, NEW js \in Seq(Jobs),
         f[k] # <<>>, Distinct(js),
         \A j \in Range(js) : j.who \in Threads => j.who = Head(f[k]).who
  PROVE  Moved(f, [f EXCEPT ![k] = Tail(f[k]) \o js], k, {Head(f[k])}, Range(js))
<1> DEFINE h == [f EXCEPT ![k] = Tail(f[k]) \o js]
           t == Tail(f[k])
<1>1. /\ f[k] \in Seq(Jobs) /\ t \in Seq(Jobs) /\ Range(f[k]) = Range(t) \cup {Head(f[k])}
      /\ Distinct(t) /\ \A j \in Range(t) : j.who \in Threads => j.who # Head(f[k]).who
  BY TailRange, TailDistinct, Zenon DEF Unique
<1> HIDE DEF t
<1>2. t \o js \in Seq(Jobs) /\ Range(t \o js) = Range(t) \cup Range(js)
  BY <1>1, ConcatRange
<1>3. Distinct(t \o js)
  BY <1>1, ConcatDistinct, Zenon DEF Apart
<1>4. h \in [Strands -> Seq(Jobs)] /\ h[k] = t \o js /\ \A m \in Strands \ {k} : h[m] = f[m]
  BY <1>2, Zenon DEF t
<1> HIDE DEF h
<1>5. Range(h[k]) = Range(t) \cup Range(js)
  BY <1>2, <1>4, Zenon
<1>6. ASSUME NEW m \in Strands, m # k, NEW j \in Range(h[m]), j.who \in Threads PROVE j.who # Head(f[k]).who
  <2>1. Apart(f[m], f[k]) /\ Head(f[k]) \in Range(f[k]) /\ j \in Range(f[m])
    BY <1>1, <1>4, <1>6, Zenon DEF Unique
  <2> QED BY <1>6, <2>1, Zenon DEF Apart
<1>7. Unique(h)
  <2>1. \A m \in Strands : Distinct(h[m])
    BY <1>3, <1>4, ZenonT(30) DEF Unique
  <2>2. ASSUME NEW m \in Strands, NEW n \in Strands, m # n PROVE Apart(h[m], h[n])
    <3>1. CASE m # k /\ n # k
      BY <1>4, <2>2, <3>1, Zenon DEF Unique
    <3>2. CASE m = k
      BY <1>1, <1>4, <1>5, <1>6, <2>2, <3>2, ZenonT(30) DEF Unique, Apart
    <3>3. CASE n = k
      BY <1>1, <1>4, <1>5, <1>6, <2>2, <3>3, ZenonT(30) DEF Unique, Apart
    <3> QED BY <3>1, <3>2, <3>3, Zenon
  <2> QED BY <2>1, <2>2, Zenon DEF Unique
<1>8. Moved(f, h, k, {Head(f[k])}, Range(js))
  BY <1>1, <1>4, <1>5, <1>6, <1>7, ZenonT(30) DEF Moved
<1> QED BY <1>8, Zenon DEF h, t

\* Queues of one and of two lambdas.
LEMMA Singles ==
  ASSUME NEW a \in Jobs, NEW b \in Jobs
  PROVE  /\ <<>> \in Seq(Jobs) /\ Range(<<>>) = {} /\ Distinct(<<>>)
         /\ <<a>> \in Seq(Jobs) /\ Range(<<a>>) = {a} /\ Distinct(<<a>>)
         /\ <<a, b>> \in Seq(Jobs) /\ Range(<<a, b>>) = {a, b}
         /\ (a.who \in Threads => a.who # b.who) => Distinct(<<a, b>>)
<1>1. <<>> \in Seq(Jobs) /\ Range(<<>>) = {} /\ Distinct(<<>>)
  BY DEF Range, Distinct
<1>2. <<a>> \in Seq(Jobs) /\ DOMAIN <<a>> = {1} /\ <<a>>[1] = a
  OBVIOUS
<1>3. <<a, b>> \in Seq(Jobs) /\ DOMAIN <<a, b>> = {1, 2} /\ <<a, b>>[1] = a /\ <<a, b>>[2] = b
  OBVIOUS
<1>4. Range(<<a>>) = {a} /\ Distinct(<<a>>)
  BY <1>2, Zenon DEF Range, Distinct
<1>5. Range(<<a, b>>) = {a, b}
  BY <1>3, Zenon DEF Range
<1>6. (a.who \in Threads => a.who # b.who) => Distinct(<<a, b>>)
  BY <1>3, Zenon DEF Distinct
<1> QED BY <1>1, <1>2, <1>3, <1>4, <1>5, <1>6, Zenon

\* Nothing is posted.
LEMMA PostsNothing ==
  ASSUME NEW x \in StateType, NEW l \in Conns
  PROVE  <<>> \in Seq(Jobs) /\ Range(<<>>) = {} /\ [x.jobs EXCEPT ![l] = x.jobs[l] \o <<>>] = x.jobs
<1>1. x.jobs \in [Strands -> Seq(Jobs)] /\ l \in Strands
  BY Zenon DEF StateType, Strands
<1>2. <<>> \in Seq(Jobs) /\ Range(<<>>) = {}
  BY DEF Range
<1>3. x.jobs[l] \o <<>> = x.jobs[l]
  BY <1>1
<1> QED BY <1>1, <1>2, <1>3, Zenon

----------------------------------------------------------------------------
(* Lambdas stay what they are.                                             *)

\* Nothing is opened again.
Later(x, y) ==
  /\ ~x.open => ~y.open
  /\ ~x.listening => ~y.listening
  /\ \A l \in Conns : /\ x.conn[l].st \in {"open", "shut"} => y.conn[l].st \in {"open", "shut"}
                      /\ x.conn[l].st = "shut" => y.conn[l].st = "shut"

\* Only the threads of U did something.
Only(x, y, U) ==
  \A v \in Threads \ U : y.thread[v] = x.thread[v] /\ (x.chn.owner = v <=> y.chn.owner = v)

\* The lambdas keep what they need if the threads that wait for them stay
\* where they are.
LEMMA JobsKept ==
  ASSUME NEW x, NEW y, JobsOk(x), Later(x, y), NEW k \in Strands, NEW gone, NEW new, NEW U,
         Moved(x.jobs, y.jobs, k, gone, new), Only(x, y, U),
         \A m \in Strands : \A j \in Range(y.jobs[m]) : j.who \in U => m = k /\ j \in new,
         \A j \in new : JobOk(y, k, j)
  PROVE  JobsOk(y)
<1>1. ASSUME NEW m \in Strands, NEW j \in Range(y.jobs[m]) PROVE JobOk(y, m, j)
  <2>1. CASE m = k /\ j \in new
    BY <2>1, Zenon
  <2>2. CASE ~(m = k /\ j \in new)
    <3>1. j \in Range(x.jobs[m]) /\ j.who \notin U
      BY <1>1, <2>2, Zenon DEF Moved
    <3>2. JobOk(x, m, j)
      BY <3>1, Zenon DEF JobsOk
    <3>3. j.who \in Threads => y.thread[j.who] = x.thread[j.who] /\ (x.chn.owner = j.who <=> y.chn.owner = j.who)
      BY <3>1, Zenon DEF Only
    <3> QED BY <3>2, <3>3, Zenon DEF JobOk, Later, CallOps, PostOps
  <2> QED BY <2>1, <2>2, Zenon
<1> QED BY <1>1, Zenon DEF JobsOk, Moved, Unique

----------------------------------------------------------------------------
(* Calls.                                                                  *)

\* What concerns neither the channel's resources nor the threads is left
\* alone.
SameRest(x, y) ==
  /\ y.mgr = x.mgr /\ y.open = x.open /\ y.bound = x.bound /\ y.returned = x.returned
  /\ y.resources = x.resources /\ y.listening = x.listening /\ y.accepting = x.accepting /\ y.conn = x.conn

\* Post changes one queue.
LEMMA PostFields ==
  ASSUME NEW x \in StateType, NEW k \in Strands, NEW js \in Seq(Jobs)
  PROVE  LET y == Post(x, k, js) IN
         /\ y \in StateType /\ y.jobs = [x.jobs EXCEPT ![k] = x.jobs[k] \o js]
         /\ SameRest(x, y) /\ y.chn = x.chn /\ y.thread = x.thread /\ y.handed = x.handed
<1> DEFINE h == [x.jobs EXCEPT ![k] = x.jobs[k] \o js]
           y == [x EXCEPT !.jobs = h]
<1>1. Post(x, k, js) = y
  BY Zenon DEF Post
<1>2. x.jobs \in [Strands -> Seq(Jobs)]
  BY Zenon DEF StateType
<1>3. h \in [Strands -> Seq(Jobs)]
  BY <1>2, Concats, Zenon
<1> HIDE DEF h
<1>4. /\ y \in StateType /\ y.jobs = h
      /\ SameRest(x, y) /\ y.chn = x.chn /\ y.thread = x.thread /\ y.handed = x.handed
  BY <1>3, ZenonT(30) DEF StateType, SameRest
<1> QED BY <1>1, <1>4, Zenon DEF h

\* A thread.
Thread(pc, arg, todo) == [pc |-> pc, arg |-> arg, todo |-> todo]

\* At moves one thread.
LEMMA AtFields ==
  ASSUME NEW x \in StateType, NEW u \in Threads, NEW pc \in {"idle", "wait", "bind", "inUse", "shutting"}
  PROVE  LET y == At(x, u, pc) IN
         /\ y \in StateType
         /\ y.thread = [x.thread EXCEPT ![u] = Thread(pc, x.thread[u].arg, x.thread[u].todo)]
         /\ SameRest(x, y) /\ y.chn = x.chn /\ y.jobs = x.jobs /\ y.handed = x.handed
<1> DEFINE t == [x.thread[u] EXCEPT !.pc = pc]
           h == [x.thread EXCEPT ![u] = t]
           y == [x EXCEPT !.thread = h]
           T == [pc : {"idle", "wait", "bind", "inUse", "shutting"},
                 arg : Stacks \cup {None, "manager"}, todo : SUBSET Members]
<1>1. At(x, u, pc) = y
  BY Zenon DEF At
<1>2. x.thread \in [Threads -> T]
  BY Zenon DEF StateType
<1>3. x.thread[u] \in T
  BY <1>2, Zenon
<1>4. t = Thread(pc, x.thread[u].arg, x.thread[u].todo) /\ t \in T
  BY <1>3 DEF Thread
<1> HIDE DEF t
<1>5. h \in [Threads -> T]
  BY <1>2, <1>4, Zenon
<1> HIDE DEF h
<1>6. /\ y \in StateType /\ y.thread = h
      /\ SameRest(x, y) /\ y.chn = x.chn /\ y.jobs = x.jobs /\ y.handed = x.handed
  BY <1>5, ZenonT(30) DEF StateType, SameRest
<1> QED BY <1>1, <1>4, <1>6, Zenon DEF h

\* u has posted a lambda and waits.
Called(x, y, u, k, op, arg, T) ==
  /\ y \in StateType
  /\ y.jobs = [x.jobs EXCEPT ![k] = x.jobs[k] \o <<Job(op, arg, u)>>]
  /\ y.thread = [x.thread EXCEPT ![u] = Thread("wait", x.thread[u].arg, T)]
  /\ SameRest(x, y) /\ y.chn = x.chn /\ y.handed \subseteq x.handed

\* BlockUntilAndFlush posts the lambda and makes its thread wait.
LEMMA BlockFields ==
  ASSUME NEW x \in StateType, NEW u \in Threads, NEW k \in Strands, NEW op, NEW arg,
         Job(op, arg, u) \in Jobs
  PROVE  Called(x, BlockUntilAndFlush(x, u, k, op, arg), u, k, op, arg, x.thread[u].todo)
<1> DEFINE z == Post(x, k, <<Job(op, arg, u)>>)
<1>1. BlockUntilAndFlush(x, u, k, op, arg) = At(z, u, "wait")
  BY Zenon DEF BlockUntilAndFlush
<1>2. <<Job(op, arg, u)>> \in Seq(Jobs)
  BY Singles, Zenon
<1>3. /\ z \in StateType /\ z.jobs = [x.jobs EXCEPT ![k] = x.jobs[k] \o <<Job(op, arg, u)>>]
      /\ SameRest(x, z) /\ z.chn = x.chn /\ z.thread = x.thread /\ z.handed = x.handed
  BY <1>2, PostFields, ZenonT(30)
<1> HIDE DEF z
<1>4. LET y == At(z, u, "wait") IN
      /\ y \in StateType
      /\ y.thread = [z.thread EXCEPT ![u] = Thread("wait", z.thread[u].arg, z.thread[u].todo)]
      /\ SameRest(z, y) /\ y.chn = z.chn /\ y.jobs = z.jobs /\ y.handed = z.handed
  BY <1>3, AtFields, ZenonT(30)
<1>5. SameRest(x, At(z, u, "wait"))
  BY <1>3, <1>4, Zenon DEF SameRest
<1> QED BY <1>1, <1>3, <1>4, <1>5, Zenon DEF Called

\* Who does not wait has no lambda.
LEMMA NoJob ==
  ASSUME NEW x \in StateType, JobsOk(x), NEW u \in Threads, x.thread[u].pc # "wait"
  PROVE  \A m \in Strands : \A j \in Range(x.jobs[m]) : j.who # u
<1> SUFFICES ASSUME NEW m \in Strands, NEW j \in Range(x.jobs[m]), j.who = u PROVE FALSE
  BY Zenon
<1>1. JobOk(x, m, j)
  BY Zenon DEF JobsOk
<1>2. j \in Jobs
  BY DEF StateType, Range
<1>3. j.op \in CallOps \cup PostOps
  BY <1>2, Zenon DEF Jobs
<1> QED BY <1>1, <1>3, NamesDiffer, Zenon DEF JobOk

\* A thread that was idle, or shuts down the manager, makes a call.
LEMMA Calling ==
  ASSUME NEW x, Inv(x), NEW y \in StateType, NEW u \in Threads, NEW k \in Strands, NEW op, NEW arg,
         NEW T \in SUBSET x.thread[u].todo,
         x.thread[u].pc \in {"idle", "shutting"},
         \/ op = "remove" /\ k = "channel" /\ arg \in Stacks
         \/ op = "close" /\ k = "channel" /\ arg = None
         \/ op = "shutConn" /\ k \in Conns /\ arg = k /\ k \in x.thread[u].todo,
         "channel" \in x.thread[u].todo \ T => op = "close",
         \A l \in Conns : l \in x.thread[u].todo \ T => op = "shutConn" /\ k = l,
         "listener" \notin x.thread[u].todo \ T,
         y.jobs = [x.jobs EXCEPT ![k] = x.jobs[k] \o <<Job(op, arg, u)>>],
         y.thread = [x.thread EXCEPT ![u] = Thread("wait", x.thread[u].arg, T)],
         SameRest(x, y), y.chn = x.chn
  PROVE  Inv(y) /\ Moved(x.jobs, y.jobs, k, {}, {Job(op, arg, u)})
<1> DEFINE j == Job(op, arg, u)
           t == x.thread[u]
<1>1. /\ x \in StateType /\ x.jobs \in [Strands -> Seq(Jobs)] /\ Unique(x.jobs)
      /\ JobsOk(x) /\ ThreadOk(x) /\ ManagerOk(x) /\ ConnOk(x)
  BY Zenon DEF Inv, StateType, JobsOk, Unique
<1>2. j \in Jobs /\ j.op = op /\ j.arg = arg /\ j.who = u
  BY Zenon DEF Job, Jobs, CallOps
<1>3. /\ y.thread[u].pc = "wait" /\ y.thread[u].arg = t.arg /\ y.thread[u].todo = T
      /\ \A v \in Threads \ {u} : y.thread[v] = x.thread[v]
  BY <1>1 DEF StateType, Thread
<1>4. t.arg \notin Stacks /\ (t.todo # {} => t.arg = "manager")
  BY <1>1, NamesDiffer, Zenon DEF ThreadOk
<1>5. \A m \in Strands : \A i \in Range(x.jobs[m]) : i.who # u
  BY <1>1, NoJob, Zenon
<1> HIDE DEF j
<1>6. Moved(x.jobs, y.jobs, k, {}, {j})
  <2>1. <<j>> \in Seq(Jobs) /\ Range(<<j>>) = {j} /\ Distinct(<<j>>)
    BY <1>2, Singles, ZenonT(30)
  <2>2. \A m \in Strands : Apart(x.jobs[m], <<j>>)
    BY <1>2, <1>5, <2>1, Zenon DEF Apart
  <2>3. Moved(x.jobs, [x.jobs EXCEPT ![k] = x.jobs[k] \o <<j>>], k, {}, Range(<<j>>))
    BY <1>1, <2>1, <2>2, Posting, ZenonT(30)
  <2> QED BY <2>1, <2>3, ZenonT(30) DEF j
<1>7. JobsOk(y)
  <2> DEFINE N == {j}
             U == {u}
  <2>1. Later(x, y)
    BY Zenon DEF Later, SameRest
  <2>2. Only(x, y, U)
    BY <1>3, Zenon DEF Only
  <2>3. JobOk(y, k, j)
    <3>1. op = "shutConn" => x.conn[k].st \in {"open", "shut"} /\ t.arg = "manager"
      BY <1>1, <1>4, NamesDiffer, Zenon DEF ConnOk, Strands
    <3>2. op \in CallOps \ {"add"} /\ op \notin PostOps /\ op # "add"
      BY Zenon DEF CallOps, PostOps
    <3>3. y.conn = x.conn
      BY Zenon DEF SameRest
    <3> QED BY <1>2, <1>3, <1>4, <3>1, <3>2, <3>3, Zenon DEF JobOk
  <2>4. \A m \in Strands : \A i \in Range(y.jobs[m]) : i.who \in U => m = k /\ i \in N
    BY <1>5, <1>6, Zenon DEF Moved
  <2>5. \A i \in N : JobOk(y, k, i)
    BY <2>3, Zenon
  <2>6. Moved(x.jobs, y.jobs, k, {}, N)
    BY <1>6, Zenon
  <2> HIDE DEF N, U
  <2> QED BY <1>1, <2>1, <2>2, <2>4, <2>5, <2>6, JobsKept, ZenonT(30)
<1>8. ThreadOk(y)
  BY <1>1, <1>3, <1>4 DEF ThreadOk
<1>9. /\ \A v \in Threads : y.thread[v].arg = x.thread[v].arg /\ y.thread[v].todo \subseteq x.thread[v].todo
      /\ \A m \in Strands : Range(x.jobs[m]) \subseteq Range(y.jobs[m])
      /\ j \in Range(y.jobs[k])
  BY <1>3, <1>6, Zenon DEF Moved
<1>10. ASSUME NEW r \in {"channel"} \cup Conns, Reached(x, r) PROVE Reached(y, r)
  <2>1. CASE r \in x.mgr.members
    BY <2>1, Zenon DEF Reached, SameRest
  <2>2. ASSUME NEW v \in Threads, r \in x.thread[v].todo PROVE Reached(y, r)
    <3>1. CASE r \in y.thread[v].todo
      BY <3>1, Zenon DEF Reached
    <3>2. CASE r \notin y.thread[v].todo
      <4>1. v = u /\ r \in t.todo \ T /\ t.arg = "manager"
        BY <1>3, <1>4, <2>2, <3>2, Zenon
      <4>2. op = Closer(r) /\ k = r
        BY <4>1, NamesDiffer, Zenon DEF Closer
      <4>3. j \in Range(y.jobs[r]) /\ j.op = Closer(r) /\ y.thread[j.who].arg = "manager"
        BY <1>2, <1>3, <1>9, <4>1, <4>2, Zenon
      <4> QED BY <4>3, Zenon DEF Reached
    <3> QED BY <3>1, <3>2, Zenon
  <2>3. ASSUME NEW i \in Range(x.jobs[r]), i.op = Closer(r), x.thread[i.who].arg = "manager" PROVE Reached(y, r)
    <3>1. r \in Strands
      BY Zenon DEF Strands
    <3>2. i.who \in Threads
      BY <1>1, <2>3, <3>1, Zenon DEF JobsOk, JobOk, CallOps, Closer
    <3>3. i \in Range(y.jobs[r]) /\ y.thread[i.who].arg = "manager"
      BY <1>9, <2>3, <3>1, <3>2, ZenonT(30)
    <3> QED BY <2>3, <3>3, Zenon DEF Reached
  <2> QED BY <1>10, <2>1, <2>2, <2>3, Zenon DEF Reached
<1>11. ManagerOk(y) /\ ConnOk(y)
  <2>0. y.open => Reached(y, "channel")
    BY <1>1, <1>10, Zenon DEF ManagerOk, SameRest
  <2>1. ManagerOk(y)
    <3>1. y.mgr.shutting => y.mgr.members = {}
      BY <1>1, Zenon DEF ManagerOk, SameRest
    <3>2. ASSUME NEW v \in Threads, y.thread[v].arg = "manager"
          PROVE  y.mgr.shutting /\ ~y.returned /\ \A w \in Threads : y.thread[w].arg = "manager" => v = w
      BY <1>1, <1>9, <3>2 DEF ManagerOk, SameRest
    <3>3. y.returned => y.mgr.shutting /\ ~y.open /\ \A l \in Conns : y.conn[l].st # "open"
      BY <1>1, ZenonT(30) DEF ManagerOk, SameRest
    <3>4. y.listening => InHands(y, "listener")
      <4>1. \A v \in Threads : "listener" \in x.thread[v].todo => "listener" \in y.thread[v].todo
        BY <1>3, Zenon
      <4> QED BY <1>1, <4>1, ZenonT(30) DEF ManagerOk, SameRest, InHands
    <3>5. ~y.resources => y.mgr.shutting
      BY <1>1, Zenon DEF ManagerOk, SameRest
    <3> QED BY <2>0, <3>1, <3>2, <3>3, <3>4, <3>5, Zenon DEF ManagerOk
  <2>2. ConnOk(y)
    <3> SUFFICES ASSUME NEW l \in Conns
                 PROVE  /\ ConnSound(y.conn[l])
                        /\ y.accepting = l => y.conn[l].st = "new"
                        /\ l \in y.mgr.members => y.conn[l].st \in {"open", "shut"}
                        /\ \A v \in Threads : l \in y.thread[v].todo => y.conn[l].st \in {"open", "shut"}
                        /\ y.conn[l].st = "open" => Reached(y, l)
      BY Zenon DEF ConnOk
    <3>1. y.conn[l] = x.conn[l] /\ y.mgr = x.mgr /\ y.accepting = x.accepting
      BY Zenon DEF SameRest
    <3> QED BY <1>1, <1>9, <1>10, <3>1, ZenonT(30) DEF ConnOk
  <2> QED BY <2>1, <2>2, Zenon
<1>12. IsFiniteSet(y.chn.members)
  BY Zenon DEF Inv
<1> QED BY <1>6, <1>7, <1>8, <1>11, <1>12, Zenon DEF Inv, j

\* What will shut down r stays where it is, but for the list of the manager.
KeepsReach(x, y, r) ==
  /\ \A v \in Threads : /\ r \in x.thread[v].todo => r \in y.thread[v].todo
                        /\ x.thread[v].arg = "manager" => y.thread[v].arg = "manager"
  /\ \A j \in Range(x.jobs[r]) : j.op = Closer(r) => j \in Range(y.jobs[r])

\* What the shutdown of the manager will come to, it still will come to.
LEMMA StillReached ==
  ASSUME NEW x, NEW y, JobsOk(x), NEW r \in {"channel"} \cup Conns, Reached(x, r), KeepsReach(x, y, r),
         r \in x.mgr.members => r \in y.mgr.members \/ \E v \in Threads : r \in y.thread[v].todo
  PROVE  Reached(y, r)
<1>1. CASE r \in x.mgr.members
  BY <1>1, Zenon DEF Reached
<1>2. ASSUME NEW v \in Threads, r \in x.thread[v].todo PROVE Reached(y, r)
  BY <1>2, Zenon DEF Reached, KeepsReach
<1>3. ASSUME NEW i \in Range(x.jobs[r]), i.op = Closer(r), x.thread[i.who].arg = "manager" PROVE Reached(y, r)
  <2>1. r \in Strands
    BY Zenon DEF Strands
  <2>2. i.who \in Threads
    BY <1>3, <2>1, Zenon DEF JobsOk, JobOk, CallOps, Closer
  <2>3. i \in Range(y.jobs[r]) /\ y.thread[i.who].arg = "manager"
    BY <1>3, <2>1, <2>2, Zenon DEF KeepsReach
  <2> QED BY <1>3, <2>3, Zenon DEF Reached
<1> QED BY <1>1, <1>2, <1>3, Zenon DEF Reached

\* What a step may do to connection l: one that is open stays where the shutdown
\* finds it, or it was bound to a manager that is not shutting down.
ConnMoves(x, y, l) ==
  /\ ConnSound(y.conn[l])
  /\ y.accepting = l => y.conn[l].st = "new"
  /\ l \in y.mgr.members => y.conn[l].st \in {"open", "shut"}
  /\ x.conn[l].st \in {"open", "shut"} => y.conn[l].st \in {"open", "shut"}
  /\ y.conn[l].st = "open" =>
       \/ /\ x.conn[l].st = "open" /\ KeepsReach(x, y, l)
          /\ l \in x.mgr.members => l \in y.mgr.members
       \/ l \in y.mgr.members /\ ~x.mgr.shutting

\* ... and to the manager, the channel and all connections.
NetMoves(x, y) ==
  /\ y.returned = x.returned /\ y.mgr.shutting = x.mgr.shutting
  /\ ~y.resources => ~x.resources \/ x.mgr.shutting
  /\ y.listening => x.listening /\ (InHands(x, "listener") => InHands(y, "listener"))
  /\ x.mgr.shutting => y.mgr.members \subseteq x.mgr.members
  /\ y.open => /\ x.open /\ KeepsReach(x, y, "channel")
               /\ "channel" \in x.mgr.members => "channel" \in y.mgr.members
  /\ \A v \in Threads : /\ y.thread[v].todo \subseteq x.thread[v].todo
                        /\ y.thread[v].arg = "manager" <=> x.thread[v].arg = "manager"
  /\ \A l \in Conns : ConnMoves(x, y, l)

\* The manager and the connections keep their parts of the invariant.
LEMMA NetKept ==
  ASSUME NEW x, NEW y, JobsOk(x), ManagerOk(x), ConnOk(x), NetMoves(x, y)
  PROVE  ManagerOk(y) /\ ConnOk(y)
<1>1. y.open => Reached(y, "channel")
  BY StillReached, Zenon DEF ManagerOk, NetMoves
<1>2. ASSUME NEW l \in Conns, y.conn[l].st = "open" PROVE Reached(y, l)
  <2>1. CASE l \in y.mgr.members
    BY <2>1, Zenon DEF Reached
  <2>2. CASE l \notin y.mgr.members
    <3>1. x.conn[l].st = "open" /\ KeepsReach(x, y, l) /\ (l \in x.mgr.members => l \in y.mgr.members)
      BY <1>2, <2>2, Zenon DEF NetMoves, ConnMoves
    <3>2. Reached(x, l)
      BY <3>1, Zenon DEF ConnOk
    <3> QED BY <3>1, <3>2, StillReached, ZenonT(30)
  <2> QED BY <2>1, <2>2, Zenon
<1>3. ManagerOk(y)
  <2>1. y.mgr.shutting => y.mgr.members = {}
    BY Zenon DEF ManagerOk, NetMoves
  <2>2. ASSUME NEW v \in Threads, y.thread[v].arg = "manager"
        PROVE  y.mgr.shutting /\ ~y.returned /\ \A w \in Threads : y.thread[w].arg = "manager" => v = w
    BY <2>2, Zenon DEF ManagerOk, NetMoves
  <2>3. ASSUME y.returned PROVE y.mgr.shutting /\ ~y.open /\ \A l \in Conns : y.conn[l].st # "open"
    BY <2>3, Zenon DEF ManagerOk, NetMoves, ConnMoves
  <2>4. (y.listening => InHands(y, "listener")) /\ (~y.resources => y.mgr.shutting)
    BY Zenon DEF ManagerOk, NetMoves
  <2> QED BY <1>1, <2>1, <2>2, <2>3, <2>4, Zenon DEF ManagerOk
<1>4. ConnOk(y)
  <2> SUFFICES ASSUME NEW l \in Conns
               PROVE  /\ ConnSound(y.conn[l])
                      /\ y.accepting = l => y.conn[l].st = "new"
                      /\ l \in y.mgr.members => y.conn[l].st \in {"open", "shut"}
                      /\ \A v \in Threads : l \in y.thread[v].todo => y.conn[l].st \in {"open", "shut"}
                      /\ y.conn[l].st = "open" => Reached(y, l)
    BY Zenon DEF ConnOk
  <2>1. ConnMoves(x, y, l)
    BY Zenon DEF NetMoves
  <2>2. \A v \in Threads : l \in y.thread[v].todo => x.conn[l].st \in {"open", "shut"}
    BY Zenon DEF ConnOk, NetMoves
  <2> QED BY <1>2, <2>1, <2>2, Zenon DEF ConnMoves
<1> QED BY <1>3, <1>4, Zenon

\* The manager and the connections are left alone.
SameNet(x, y) ==
  /\ y.mgr = x.mgr /\ y.open = x.open /\ y.returned = x.returned
  /\ ~y.resources => ~x.resources \/ x.mgr.shutting
  /\ y.listening => x.listening /\ \A v \in Threads : "listener" \in x.thread[v].todo => "listener" \in y.thread[v].todo
  /\ y.accepting = x.accepting /\ y.conn = x.conn
  /\ \A v \in Threads : /\ y.thread[v].todo \subseteq x.thread[v].todo
                        /\ y.thread[v].arg = "manager" <=> x.thread[v].arg = "manager"
  /\ \A r \in {"channel"} \cup Conns : KeepsReach(x, y, r)

\* A step that leaves the manager and the connections alone.
LEMMA NetAlone ==
  ASSUME NEW x, NEW y, ConnOk(x), ManagerOk(x), SameNet(x, y)
  PROVE  NetMoves(x, y)
<1>1. ASSUME NEW l \in Conns PROVE ConnMoves(x, y, l)
  BY ZenonT(30) DEF SameNet, ConnMoves, ConnOk
<1>2. y.listening => x.listening /\ (InHands(x, "listener") => InHands(y, "listener"))
  BY Zenon DEF SameNet, InHands
<1> QED BY <1>1, <1>2, Zenon DEF SameNet, NetMoves

\* A step that keeps the invariant.
Goes(x, y, k, gone, new, U) ==
  /\ y \in StateType /\ Later(x, y) /\ Moved(x.jobs, y.jobs, k, gone, new) /\ Only(x, y, U)
  /\ \A m \in Strands : \A j \in Range(y.jobs[m]) : j.who \in U => m = k /\ j \in new
  /\ \A j \in new : JobOk(y, k, j)
  /\ ThreadOk(y) /\ NetMoves(x, y) /\ IsFiniteSet(y.chn.members)

\* Such a step keeps the invariant.
LEMMA GoesKeeps ==
  ASSUME NEW x, Inv(x), NEW y, NEW k \in Strands, NEW gone, NEW new, NEW U, Goes(x, y, k, gone, new, U)
  PROVE  Inv(y)
<1>1. JobsOk(x) /\ ManagerOk(x) /\ ConnOk(x)
  BY Zenon DEF Inv
<1>2. JobsOk(y)
  BY <1>1, JobsKept, ZenonT(30) DEF Goes
<1>3. ManagerOk(y) /\ ConnOk(y)
  BY <1>1, NetKept, Zenon DEF Goes
<1> QED BY <1>2, <1>3, Zenon DEF Goes, Inv

\* Nothing is posted.
LEMMA Unmoved ==
  ASSUME NEW x, Inv(x), NEW k \in Strands
  PROVE  Moved(x.jobs, x.jobs, k, {}, {})
BY Zenon DEF Moved, Inv, JobsOk, Unique, StateType

----------------------------------------------------------------------------
(* The stacks are left alone.                                              *)

\* Nothing that concerns the stacks is touched.
SameStacks(x, y) ==
  /\ y.chn = x.chn /\ y.open = x.open /\ y.bound = x.bound /\ y.handed \subseteq x.handed
  /\ \A v \in Threads : /\ y.thread[v].arg \in Stacks <=> x.thread[v].arg \in Stacks
                        /\ y.thread[v].arg \in Stacks =>
                             /\ y.thread[v].arg = x.thread[v].arg
                             /\ y.thread[v].pc = "bind" <=> x.thread[v].pc = "bind"

\* No stack is added, detached or removed but those that were, or a stack that
\* the user gives up.
SameWork(x, y) ==
  /\ \A j \in Range(y.jobs["channel"]) : j.op \in {"add", "remove", "detachStack"} =>
       j \in Range(x.jobs["channel"]) \/ (j.op = "remove" /\ j.arg \in x.handed \ y.handed)
  /\ \A j \in Range(x.jobs["channel"]) : j.op = "detachStack" => j \in Range(y.jobs["channel"])

\* What was clean stays so.
LEMMA CleanKept ==
  ASSUME NEW x, NEW y, SameStacks(x, y), SameWork(x, y), NEW s, Clean(x, s)
  PROVE  Clean(y, s)
<1>1. s \notin x.handed /\ s \notin x.chn.members /\ y.handed \subseteq x.handed /\ y.chn = x.chn
  BY Zenon DEF Clean, SameStacks
<1>2. ASSUME NEW j \in Range(y.jobs["channel"]), j.op \in {"remove", "detachStack"} PROVE j.arg # s
  <2>1. CASE j \in Range(x.jobs["channel"])
    BY <1>2, <2>1, Zenon DEF Clean
  <2>2. CASE j.arg \in x.handed
    BY <1>1, <2>2, Zenon
  <2> QED BY <1>2, <2>1, <2>2, Zenon DEF SameWork
<1> QED BY <1>1, <1>2, Zenon DEF Clean

\* A step that leaves the stacks alone keeps their part of the invariant.
LEMMA StacksKept ==
  ASSUME NEW x \in StateType, NEW y \in StateType, ThreadOk(x), ThreadOk(y),
         StackOk(x), SameStacks(x, y), SameWork(x, y)
  PROVE  StackOk(y)
<1>1. \A s : Detaching(x, s) <=> Detaching(y, s)
  BY Zenon DEF Detaching, SameWork
<1>2. \A v \in Threads : x.thread[v].pc = "bind" => y.thread[v].pc = "bind" /\ y.thread[v].arg = x.thread[v].arg
  <2> SUFFICES ASSUME NEW v \in Threads, x.thread[v].pc = "bind"
               PROVE  y.thread[v].pc = "bind" /\ y.thread[v].arg = x.thread[v].arg
    BY Zenon
  <2>1. x.thread[v].arg \in Stacks \cup {None, "manager"}
    BY Zenon DEF StateType
  <2>2. x.thread[v].arg \in Stacks
    BY <2>1, Zenon DEF ThreadOk
  <2> QED BY <2>2, Zenon DEF SameStacks
<1>3. y.chn = x.chn /\ y.bound = x.bound /\ (y.open <=> x.open) /\ y.handed \subseteq x.handed
  BY Zenon DEF SameStacks
<1>4. ASSUME NEW v \in Threads, y.thread[v].pc = "bind"
      PROVE  y.thread[v].arg \in y.bound /\ Clean(y, y.thread[v].arg)
  <2>1. y.thread[v].arg \in Stacks \cup {None, "manager"}
    BY Zenon DEF StateType
  <2>2. y.thread[v].arg \in Stacks
    BY <1>4, <2>1, Zenon DEF ThreadOk
  <2>3. y.thread[v].arg = x.thread[v].arg /\ x.thread[v].pc = "bind"
    BY <1>4, <2>2, Zenon DEF SameStacks
  <2>4. x.thread[v].arg \in x.bound /\ Clean(x, x.thread[v].arg)
    BY <2>3, Zenon DEF StackOk
  <2>5. Clean(y, x.thread[v].arg)
    BY <2>4, CleanKept, Zenon
  <2> QED BY <1>3, <2>3, <2>4, <2>5, Zenon
<1>5. ASSUME NEW j \in Range(y.jobs["channel"])
      PROVE  /\ j.op = "add" => j.arg \in y.bound \/ Clean(y, j.arg)
             /\ j.op = "remove" => j.arg \notin y.handed
  <2>1. CASE j \in Range(x.jobs["channel"])
    <3>1. /\ j.op = "add" => j.arg \in x.bound \/ Clean(x, j.arg)
          /\ j.op = "remove" => j.arg \notin x.handed
      BY <2>1, Zenon DEF StackOk
    <3> QED BY <1>3, <3>1, CleanKept, Zenon
  <2>2. CASE j \notin Range(x.jobs["channel"])
    BY <1>5, <2>2, Zenon DEF SameWork
  <2> QED BY <2>1, <2>2, Zenon
<1>6. \A s \in y.chn.members \ y.bound : Detaching(y, s)
  BY <1>1, <1>3, Zenon DEF StackOk
<1>7. \A s \in y.bound : ~Detaching(y, s)
  BY <1>1, <1>3, Zenon DEF StackOk
<1>8. \A s \in y.bound \ y.chn.members : \E u \in Threads : y.thread[u].pc = "bind" /\ y.thread[u].arg = s
  BY <1>2, <1>3, SMTT(20) DEF StackOk
<1>9. /\ y.chn.shutting <=> ~y.open
      /\ ~y.open => y.bound = {} /\ y.chn.members = {} /\ y.chn.owner = None
      /\ y.open => y.handed \subseteq y.bound
  BY <1>3, Zenon DEF StackOk
<1> QED BY <1>4, <1>5, <1>6, <1>7, <1>8, <1>9, Zenon DEF StackOk

\* Lambdas that add no stack are posted behind the others.
LEMMA NoAddLater ==
  ASSUME NEW p \in Seq(Jobs), NEW q \in Seq(Jobs), p # <<>> => \A j \in Range(Tail(p)) : j.op # "add",
         \A j \in Range(q) : j.op # "add"
  PROVE  LET r == p \o q IN r # <<>> => \A j \in Range(Tail(r)) : j.op # "add"
<1> DEFINE r == p \o q
<1>1. /\ r \in Seq(Jobs) /\ Len(r) = Len(p) + Len(q) /\ Len(p) \in Nat /\ Len(q) \in Nat
      /\ \A i \in 1 .. Len(p) + Len(q) : r[i] = IF i <= Len(p) THEN p[i] ELSE q[i - Len(p)]
      /\ DOMAIN p = 1 .. Len(p) /\ DOMAIN q = 1 .. Len(q)
  BY Concats, Lens, Zenon
<1> HIDE DEF r
<1>2. ASSUME r # <<>>, NEW j \in Range(Tail(r)) PROVE j.op # "add"
  <2>1. /\ Tail(r) \in Seq(Jobs) /\ Len(Tail(r)) = Len(r) - 1
        /\ \A i \in 1 .. Len(Tail(r)) : Tail(r)[i] = r[i + 1]
    BY <1>1, <1>2, Tails, Zenon
  <2>2. DOMAIN Tail(r) = 1 .. Len(Tail(r))
    BY <2>1, Lens, Zenon
  <2>3. PICK i \in DOMAIN Tail(r) : j = Tail(r)[i]
    BY Zenon DEF Range
  <2>4. i \in Nat \ {0} /\ i + 1 \in 1 .. Len(p) + Len(q) /\ j = r[i + 1]
    BY <1>1, <2>1, <2>2, <2>3
  <2>5. CASE i + 1 <= Len(p)
    <3>1. j = p[i + 1] /\ p # <<>>
      BY <1>1, <2>4, <2>5, Lens
    <3>2. /\ Tail(p) \in Seq(Jobs) /\ Len(Tail(p)) = Len(p) - 1
          /\ \A n \in 1 .. Len(Tail(p)) : Tail(p)[n] = p[n + 1]
      BY <3>1, Tails, Zenon
    <3>3. DOMAIN Tail(p) = 1 .. Len(Tail(p))
      BY <3>2, Lens, Zenon
    <3>4. i \in DOMAIN Tail(p) /\ Tail(p)[i] = j
      BY <1>1, <2>4, <2>5, <3>1, <3>2, <3>3
    <3>5. j \in Range(Tail(p))
      BY <3>4, Zenon DEF Range
    <3> QED BY <3>1, <3>5, Zenon
  <2>6. CASE ~(i + 1 <= Len(p))
    <3>1. (i + 1) - Len(p) \in DOMAIN q /\ j = q[(i + 1) - Len(p)]
      BY <1>1, <2>4, <2>6
    <3>2. j \in Range(q)
      BY <3>1, Zenon DEF Range
    <3> QED BY <3>2, Zenon
  <2> QED BY <2>5, <2>6, Zenon
<1> QED BY <1>2, Zenon DEF r

\* The lambda that adds a stack stays the first.
LEMMA HeadKept ==
  ASSUME NEW x \in StateType, NEW y \in StateType, HeadOk(x), NEW js \in Seq(Jobs),
         \A j \in Range(js) : j.op # "add",
         \/ y.jobs["channel"] = x.jobs["channel"]
         \/ y.jobs["channel"] = x.jobs["channel"] \o js
         \/ x.jobs["channel"] # <<>> /\ y.jobs["channel"] = Tail(x.jobs["channel"]) \o js
  PROVE  HeadOk(y)
<1> DEFINE q == x.jobs["channel"]
<1>1. q \in Seq(Jobs)
  BY Zenon DEF StateType, Strands
<1>2. CASE y.jobs["channel"] = q
  BY <1>2, Zenon DEF HeadOk
<1>3. CASE y.jobs["channel"] = q \o js
  <2>1. q # <<>> => \A j \in Range(Tail(q)) : j.op # "add"
    BY Zenon DEF HeadOk
  <2> HIDE DEF q
  <2> QED BY <1>1, <1>3, <2>1, NoAddLater, ZenonT(30) DEF HeadOk
<1>4. CASE q # <<>> /\ y.jobs["channel"] = Tail(q) \o js
  <2> DEFINE p == Tail(q)
  <2>1. p \in Seq(Jobs) /\ \A j \in Range(p) : j.op # "add"
    BY <1>1, <1>4, TailRange, Zenon DEF HeadOk
  <2> HIDE DEF p
  <2>2. p # <<>> => \A j \in Range(Tail(p)) : j.op # "add"
    BY <2>1, TailRange, Zenon
  <2> QED BY <1>4, <2>1, <2>2, NoAddLater, ZenonT(30) DEF HeadOk, p
<1> QED BY <1>2, <1>3, <1>4, Zenon

\* The lambda posted last is the last one.
LEMMA LastPosted ==
  ASSUME NEW q \in Seq(Jobs), NEW j \in Jobs
  PROVE  LET r == q \o <<j>> IN r # <<>> /\ r[Len(r)] = j
<1> DEFINE r == q \o <<j>>
<1>1. <<j>> \in Seq(Jobs) /\ Len(<<j>>) = 1 /\ <<j>>[1] = j
  OBVIOUS
<1>2. /\ r \in Seq(Jobs) /\ Len(r) = Len(q) + 1 /\ Len(q) \in Nat
      /\ \A i \in 1 .. Len(q) + 1 : r[i] = IF i <= Len(q) THEN q[i] ELSE <<j>>[i - Len(q)]
  BY <1>1, Concats, Lens, Zenon
<1>3. Len(q) + 1 \in 1 .. Len(q) + 1 /\ ~(Len(q) + 1 <= Len(q)) /\ (Len(q) + 1) - Len(q) = 1
  BY <1>2
<1>4. r[Len(r)] = j
  BY <1>1, <1>2, <1>3, Zenon
<1>5. r # <<>>
  BY <1>2, Lens
<1> QED BY <1>4, <1>5, Zenon

\* Running the first lambda leaves the last one.
LEMMA LastTail ==
  ASSUME NEW q \in Seq(Jobs), q # <<>>
  PROVE  LET t == Tail(q) IN t # <<>> => t[Len(t)] = q[Len(q)]
<1> DEFINE t == Tail(q)
<1>1. /\ t \in Seq(Jobs) /\ Len(q) \in Nat \ {0} /\ Len(t) = Len(q) - 1
      /\ \A i \in 1 .. Len(t) : t[i] = q[i + 1]
  BY Tails, Lens
<1>2. t # <<>> => Len(t) \in 1 .. Len(t) /\ Len(t) + 1 = Len(q)
  BY <1>1, Lens
<1> QED BY <1>1, <1>2, Zenon

\* While the channel is open, somebody waits for the last lambda.
LEMMA LastKept ==
  ASSUME NEW x \in StateType, NEW y \in StateType, y.open => x.open, LastOk(x),
         \/ y.jobs["channel"] = x.jobs["channel"]
         \/ \E q \in Seq(Jobs), j \in Jobs : j.who \in Threads /\ y.jobs["channel"] = q \o <<j>>
         \/ x.jobs["channel"] # <<>> /\ y.jobs["channel"] = Tail(x.jobs["channel"])
  PROVE  LastOk(y)
<1>1. x.jobs["channel"] \in Seq(Jobs)
  BY Zenon DEF StateType, Strands
<1>2. CASE y.jobs["channel"] = x.jobs["channel"]
  BY <1>2, Zenon DEF LastOk
<1>3. ASSUME NEW q \in Seq(Jobs), NEW j \in Jobs, j.who \in Threads, y.jobs["channel"] = q \o <<j>>
      PROVE  LastOk(y)
  BY <1>3, LastPosted, Zenon DEF LastOk
<1>4. CASE x.jobs["channel"] # <<>> /\ y.jobs["channel"] = Tail(x.jobs["channel"])
  BY <1>1, <1>4, LastTail, Zenon DEF LastOk
<1> QED BY <1>2, <1>3, <1>4, ZenonT(30)

----------------------------------------------------------------------------
(* The calls of the user.                                                  *)

\* A blocking call concerns no stack until its lambda runs.
LEMMA CallingStacks ==
  ASSUME NEW x, Inv(x), NEW y, Inv(y), Inv2(x), NEW u \in Threads, NEW k \in Strands, NEW op, NEW arg, NEW T,
         op \in {"remove", "close", "shutConn"}, op = "remove" => arg \in x.handed \ y.handed, Job(op, arg, u) \in Jobs,
         x.thread[u].pc \in {"idle", "shutting"}, Called(x, y, u, k, op, arg, T)
  PROVE  Inv2(y)
<1> USE DEF Called
<1> DEFINE j == Job(op, arg, u)
<1>1. /\ x \in StateType /\ y \in StateType /\ ThreadOk(x) /\ ThreadOk(y) /\ StackOk(x) /\ HeadOk(x) /\ LastOk(x)
      /\ x.jobs \in [Strands -> Seq(Jobs)] /\ "channel" \in Strands
  BY Zenon DEF Inv, Inv2, StateType, Strands
<1>2. j.op = op /\ j.arg = arg /\ j.who = u /\ j \in Jobs
  BY Zenon DEF Job
<1>3. /\ y.thread[u].arg = x.thread[u].arg
      /\ \A v \in Threads \ {u} : y.thread[v] = x.thread[v]
  BY <1>1, SMTT(20) DEF StateType, Thread
<1>4. x.thread[u].arg \notin Stacks
  BY <1>1, NamesDiffer, Zenon DEF ThreadOk
<1>5. SameStacks(x, y)
  BY <1>3, <1>4, Zenon DEF SameStacks, SameRest
<1> HIDE DEF j
<1>6. SameWork(x, y)
  <2> DEFINE p == x.jobs["channel"]
             js == <<j>>
             h == y.jobs["channel"]
  <2>1. js \in Seq(Jobs) /\ Range(js) = {j} /\ p \in Seq(Jobs) /\ h = IF k = "channel" THEN p \o js ELSE p
    BY <1>1, <1>2, Singles, ZenonT(30) DEF j
  <2> HIDE DEF p, js, h
  <2>2. Range(p \o js) = Range(p) \cup Range(js)
    BY <2>1, ConcatRange
  <2>3. (\A i \in Range(h) : i \in Range(p) \/ i = j) /\ \A i \in Range(p) : i \in Range(h)
    BY <2>1, <2>2, Zenon
  <2> QED BY <1>2, <2>3, Zenon DEF SameWork, p, h
<1>7. StackOk(y)
  BY <1>1, <1>5, <1>6, StacksKept, Zenon
<1>8. LastOk(y)
  <2>1. y.open => x.open
    BY Zenon DEF SameRest
  <2>2. CASE k = "channel"
    <3>1. x.jobs["channel"] \in Seq(Jobs) /\ y.jobs["channel"] = x.jobs["channel"] \o <<j>>
      BY <1>1, <2>2, Zenon DEF j
    <3>2. \E q \in Seq(Jobs), i \in Jobs : i.who \in Threads /\ y.jobs["channel"] = q \o <<i>>
      BY <1>2, <3>1, ZenonT(30)
    <3> QED BY <1>1, <2>1, <3>2, LastKept, ZenonT(30)
  <2>3. CASE k # "channel"
    <3>1. y.jobs["channel"] = x.jobs["channel"]
      BY <1>1, <2>3, Zenon
    <3> QED BY <1>1, <2>1, <3>1, LastKept, ZenonT(30)
  <2> QED BY <2>2, <2>3, Zenon
<1>9. HeadOk(y)
  <2> DEFINE js == <<j>>
  <2>1. js \in Seq(Jobs) /\ \A i \in Range(js) : i.op # "add"
    BY <1>2, Singles, ZenonT(30)
  <2>2. y.jobs["channel"] = x.jobs["channel"] \/ y.jobs["channel"] = x.jobs["channel"] \o js
    BY <1>1, Zenon DEF j
  <2> HIDE DEF js
  <2> QED BY <1>1, <2>1, <2>2, HeadKept, ZenonT(30)
<1> QED BY <1>7, <1>8, <1>9, Zenon DEF Inv2

\* A call that u may make, and what it does.
Calls(x, u, k, op, arg, T) ==
  /\ T \in SUBSET x.thread[u].todo
  /\ x.thread[u].pc \in {"idle", "shutting"}
  /\ \/ op = "remove" /\ k = "channel" /\ arg \in Stacks /\ arg \in x.handed
     \/ op = "close" /\ k = "channel" /\ arg = None
     \/ op = "shutConn" /\ k \in Conns /\ arg = k /\ k \in x.thread[u].todo
  /\ "channel" \in x.thread[u].todo \ T => op = "close"
  /\ \A l \in Conns : l \in x.thread[u].todo \ T => op = "shutConn" /\ k = l
  /\ "listener" \notin x.thread[u].todo \ T

\* A blocking call keeps both invariants.
LEMMA CallStep ==
  ASSUME NEW x, Inv(x), NEW y, NEW u \in Threads, NEW k \in Strands, NEW op, NEW arg, NEW T,
         Calls(x, u, k, op, arg, T), Called(x, y, u, k, op, arg, T), op = "remove" => arg \notin y.handed
  PROVE  Inv(y) /\ (Inv2(x) => Inv2(y))
<1>0. /\ y \in StateType /\ T \in SUBSET x.thread[u].todo
      /\ x.thread[u].pc \in {"idle", "shutting"}
      /\ \/ op = "remove" /\ k = "channel" /\ arg \in Stacks
         \/ op = "close" /\ k = "channel" /\ arg = None
         \/ op = "shutConn" /\ k \in Conns /\ arg = k /\ k \in x.thread[u].todo
      /\ "channel" \in x.thread[u].todo \ T => op = "close"
      /\ \A l \in Conns : l \in x.thread[u].todo \ T => op = "shutConn" /\ k = l
      /\ "listener" \notin x.thread[u].todo \ T
      /\ y.jobs = [x.jobs EXCEPT ![k] = x.jobs[k] \o <<Job(op, arg, u)>>]
      /\ y.thread = [x.thread EXCEPT ![u] = Thread("wait", x.thread[u].arg, T)]
      /\ SameRest(x, y) /\ y.chn = x.chn /\ y.handed \subseteq x.handed
  BY Zenon DEF Calls, Called
<1>1. Inv(y) /\ Moved(x.jobs, y.jobs, k, {}, {Job(op, arg, u)})
  BY <1>0, Calling, ZenonT(30)
<1>2. Job(op, arg, u) \in Jobs
  BY Zenon DEF Calls, Job, Jobs, CallOps
<1>3. op \in {"remove", "close", "shutConn"} /\ (op = "remove" => arg \in x.handed \ y.handed)
  BY Zenon DEF Calls
<1>4. ASSUME Inv2(x) PROVE Inv2(y)
  BY <1>0, <1>1, <1>2, <1>3, <1>4, CallingStacks, SMTT(20)
<1> QED BY <1>1, <1>4, Zenon

\* The call itself, made in a state z that is x but for what u has to do.
LEMMA Blocks ==
  ASSUME NEW x \in StateType, NEW z \in StateType, NEW u \in Threads, NEW k \in Strands, NEW op, NEW arg, NEW T,
         Job(op, arg, u) \in Jobs,
         SameRest(x, z), z.chn = x.chn, z.jobs = x.jobs, z.handed \subseteq x.handed,
         z.thread[u].arg = x.thread[u].arg, z.thread[u].todo = T,
         \A v \in Threads \ {u} : z.thread[v] = x.thread[v]
  PROVE  Called(x, BlockUntilAndFlush(z, u, k, op, arg), u, k, op, arg, T)
<1> DEFINE y == BlockUntilAndFlush(z, u, k, op, arg)
<1>1. /\ y \in StateType
      /\ y.jobs = [z.jobs EXCEPT ![k] = z.jobs[k] \o <<Job(op, arg, u)>>]
      /\ y.thread = [z.thread EXCEPT ![u] = Thread("wait", z.thread[u].arg, z.thread[u].todo)]
      /\ SameRest(z, y) /\ y.chn = z.chn /\ y.handed \subseteq z.handed
  BY BlockFields, ZenonT(30) DEF Called
<1> HIDE DEF y
<1>2. y.thread = [x.thread EXCEPT ![u] = Thread("wait", x.thread[u].arg, T)]
  <2>1. DOMAIN x.thread = Threads /\ DOMAIN z.thread = Threads
    BY Zenon DEF StateType
  <2>2. x.thread = [v \in Threads |-> x.thread[v]] /\ z.thread = [v \in Threads |-> z.thread[v]]
    BY Zenon DEF StateType
  <2> DEFINE t == Thread("wait", x.thread[u].arg, T)
  <2>3. y.thread = [z.thread EXCEPT ![u] = t]
    BY <1>1, Zenon
  <2> HIDE DEF t
  <2>4. [z.thread EXCEPT ![u] = t] = [x.thread EXCEPT ![u] = t]
    BY <2>1, <2>2, ZenonT(30)
  <2> QED BY <2>3, <2>4, Zenon DEF t
<1>3. SameRest(x, y)
  BY <1>1, Zenon DEF SameRest
<1> QED BY <1>1, <1>2, <1>3, Zenon DEF Called, y

\* A thread shuts down a stack it was handed.
LEMMA ShutdownStackStep ==
  ASSUME Inv(g), NEW u \in Threads, NEW s \in Stacks, ShutdownStack(u, s)
  PROVE  Inv(g') /\ (Inv2(g) => Inv2(g'))
<1> DEFINE z == [g EXCEPT !.handed = g.handed \ {s}]
           T == g.thread[u].todo
<1>1. g.thread[u].pc = "idle" /\ s \in g.handed /\ g' = BlockUntilAndFlush(z, u, "channel", "remove", s)
  BY Zenon DEF ShutdownStack, Idle
<1>2. g \in StateType /\ "channel" \in Strands /\ Job("remove", s, u) \in Jobs
  BY Zenon DEF Inv, Strands, Job, Jobs, CallOps
<1>3. /\ z \in StateType /\ z.handed = g.handed \ {s} /\ SameRest(g, z)
      /\ z.chn = g.chn /\ z.jobs = g.jobs /\ z.thread = g.thread
  BY <1>2, ZenonT(30) DEF StateType, SameRest
<1> HIDE DEF z
<1>4. Called(g, BlockUntilAndFlush(z, u, "channel", "remove", s), u, "channel", "remove", s, T)
  BY <1>2, <1>3, Blocks, Zenon
<1>5. Calls(g, u, "channel", "remove", s, T)
  BY <1>1, NamesDiffer, Zenon DEF Calls
<1>6. s \notin g'.handed
  <2>1. Called(z, BlockUntilAndFlush(z, u, "channel", "remove", s), u, "channel", "remove", s, z.thread[u].todo)
    BY <1>2, <1>3, BlockFields, Zenon
  <2> QED BY <1>1, <1>3, <2>1, Zenon DEF Called
<1> HIDE DEF T
<1> QED BY <1>1, <1>2, <1>4, <1>5, <1>6, CallStep, Zenon

\* A thread shuts down the channel.
LEMMA ShutdownChannelStep ==
  ASSUME Inv(g), NEW u \in Threads, ShutdownChannel(u)
  PROVE  Inv(g') /\ (Inv2(g) => Inv2(g'))
<1> DEFINE T == g.thread[u].todo
<1>1. g.thread[u].pc = "idle" /\ g' = BlockUntilAndFlush(g, u, "channel", "close", None)
  BY Zenon DEF ShutdownChannel, Idle
<1>2. g \in StateType /\ "channel" \in Strands /\ Job("close", None, u) \in Jobs
  BY Zenon DEF Inv, Strands, Job, Jobs, CallOps
<1>3. SameRest(g, g)
  BY Zenon DEF SameRest
<1>4. Called(g, BlockUntilAndFlush(g, u, "channel", "close", None), u, "channel", "close", None, T)
  BY <1>2, <1>3, Blocks, Zenon
<1>5. Calls(g, u, "channel", "close", None, T)
  BY <1>1, NamesDiffer, Zenon DEF Calls
<1> HIDE DEF T
<1> QED BY <1>1, <1>2, <1>4, <1>5, CallStep, Zenon

----------------------------------------------------------------------------
(* The shutdown of the manager.                                            *)

\* Who is idle does nothing; who is in the middle of Bind owns the mutex.
LEMMA ThreadFacts ==
  ASSUME NEW x \in StateType, ThreadOk(x), NEW u \in Threads
  PROVE  /\ x.thread[u].pc = "idle" => x.thread[u].arg = None /\ x.thread[u].todo = {} /\ x.chn.owner # u
         /\ x.thread[u].pc = "shutting" => x.thread[u].arg = "manager" /\ x.chn.owner # u
         /\ x.thread[u].pc \in {"bind", "inUse"} => x.thread[u].arg \in Stacks /\ x.chn.owner = u
<1>1. x.thread[u].arg \in Stacks \cup {None, "manager"}
  BY Zenon DEF StateType
<1>2. None \notin Stacks /\ "manager" \notin Stacks /\ None # "manager"
  BY NamesDiffer, Zenon
<1> QED BY <1>1, <1>2, Zenon DEF ThreadOk

\* Nothing changes for the stacks.
LEMMA StacksAlone ==
  ASSUME NEW x, Inv(x), NEW y, Inv(y), Inv2(x), SameStacks(x, y), y.jobs["channel"] = x.jobs["channel"]
  PROVE  Inv2(y)
<1>1. x \in StateType /\ y \in StateType /\ ThreadOk(x) /\ ThreadOk(y) /\ StackOk(x) /\ HeadOk(x) /\ LastOk(x)
  BY Zenon DEF Inv, Inv2
<1>2. SameWork(x, y) /\ (y.open => x.open)
  BY Zenon DEF SameWork, SameStacks
<1>3. StackOk(y)
  BY <1>1, <1>2, StacksKept, Zenon
<1>4. LastOk(y)
  BY <1>1, <1>2, LastKept, Zenon
<1>5. HeadOk(y)
  BY <1>1, Zenon DEF HeadOk
<1> QED BY <1>3, <1>4, <1>5, Zenon DEF Inv2

\* The thread u of x is t.
WithThread(x, u, t) == [x EXCEPT !.thread = [x.thread EXCEPT ![u] = t]]

\* One field of it after the other.
Fields(x, u, pc, arg, todo, v) ==
  LET z == WithThread(x, u, Thread(pc, arg, todo)) IN
  /\ [z EXCEPT !.thread[u].pc = v] = WithThread(x, u, Thread(v, arg, todo))
  /\ [z EXCEPT !.thread[u].arg = v] = WithThread(x, u, Thread(pc, v, todo))
  /\ [z EXCEPT !.thread[u].todo = v] = WithThread(x, u, Thread(pc, arg, v))

\* The fields of a thread that was moved.
LEMMA ThreadFields ==
  ASSUME NEW x \in StateType, NEW u \in Threads, NEW pc, NEW arg, NEW todo, NEW v
  PROVE  /\ Fields(x, u, pc, arg, todo, v)
         /\ At(x, u, pc) = WithThread(x, u, Thread(pc, x.thread[u].arg, x.thread[u].todo))
<1> DEFINE t == Thread(pc, arg, todo)
           z == WithThread(x, u, t)
<1>1. DOMAIN x.thread = Threads /\ x.thread = [w \in Threads |-> x.thread[w]]
  BY Zenon DEF StateType
<1>2. /\ [t EXCEPT !.pc = v] = Thread(v, arg, todo)
      /\ [t EXCEPT !.arg = v] = Thread(pc, v, todo)
      /\ [t EXCEPT !.todo = v] = Thread(pc, arg, v)
  BY DEF Thread
<1>3. x.thread[u] \in [pc : {"idle", "wait", "bind", "inUse", "shutting"},
                       arg : Stacks \cup {None, "manager"}, todo : SUBSET Members]
  BY Zenon DEF StateType
<1>5. z.thread = [x.thread EXCEPT ![u] = t] /\ z.thread[u] = t
  BY <1>1, Zenon DEF WithThread, StateType
<1>6. ASSUME NEW a PROVE [z EXCEPT !.thread = [z.thread EXCEPT ![u] = a]] = WithThread(x, u, a)
  <2>1. [[x.thread EXCEPT ![u] = t] EXCEPT ![u] = a] = [x.thread EXCEPT ![u] = a]
    BY <1>1, ZenonT(30)
  <2> QED BY <1>5, <2>1, ZenonT(30) DEF WithThread, StateType
<1>7. [x.thread[u] EXCEPT !.pc = pc] = Thread(pc, x.thread[u].arg, x.thread[u].todo)
  BY <1>3 DEF Thread
<1>8. At(x, u, pc) = WithThread(x, u, [x.thread[u] EXCEPT !.pc = pc])
  BY Zenon DEF At, WithThread
<1>9. Fields(x, u, pc, arg, todo, v)
  BY <1>2, <1>5, <1>6, Zenon DEF Fields
<1> QED BY <1>7, <1>8, <1>9, Zenon

\* A thread asks for the shutdown while another is at work: it only forgets the
\* resources.
LEMMA ForgetStep ==
  ASSUME Inv(g), g.mgr.shutting, g' = [g EXCEPT !.resources = FALSE]
  PROVE  Inv(g') /\ (Inv2(g) => Inv2(g'))
<1> DEFINE z == [g EXCEPT !.resources = FALSE]
           N == {}
<1>1. /\ g \in StateType /\ JobsOk(g) /\ ThreadOk(g) /\ ManagerOk(g) /\ ConnOk(g) /\ IsFiniteSet(g.chn.members)
      /\ "channel" \in Strands
  BY Zenon DEF Inv, Strands
<1>2. /\ z \in StateType /\ z.thread = g.thread /\ z.mgr = g.mgr /\ z.chn = g.chn /\ z.jobs = g.jobs
      /\ z.open = g.open /\ z.bound = g.bound /\ z.returned = g.returned /\ z.handed = g.handed
      /\ z.listening = g.listening /\ z.accepting = g.accepting /\ z.conn = g.conn
  BY <1>1, ZenonT(30) DEF StateType
<1> HIDE DEF z
<1>3. NetMoves(g, z)
  <2>1. SameNet(g, z)
    BY <1>2, Zenon DEF SameNet, KeepsReach
  <2> QED BY <1>1, <2>1, NetAlone, Zenon
<1>4. ThreadOk(z) /\ Later(g, z) /\ Only(g, z, N)
  <2>1. ThreadOk(z)
    <3>1. ThreadOk(g) /\ z.thread = g.thread /\ z.chn = g.chn
      BY <1>1, <1>2, Zenon
    <3> QED BY <3>1, SMTT(20) DEF ThreadOk
  <2> QED BY <1>2, <2>1, Zenon DEF Later, Only
<1>5. Moved(g.jobs, z.jobs, "channel", N, N)
  BY <1>1, <1>2, Unmoved, Zenon
<1>6. Goes(g, z, "channel", N, N, N)
  BY <1>1, <1>2, <1>3, <1>4, <1>5, Zenon DEF Goes
<1> HIDE DEF N
<1>7. Inv(z)
  BY <1>1, <1>6, GoesKeeps, Zenon
<1>8. Inv2(g) => Inv2(z)
  <2>1. SameStacks(g, z)
    BY <1>2, Zenon DEF SameStacks
  <2> QED BY <1>2, <1>7, <2>1, StacksAlone, Zenon
<1> QED BY <1>7, <1>8, Zenon DEF z

\* A thread shuts down the manager: it takes the members away from it.
LEMMA TakeStep ==
  ASSUME Inv(g), NEW u \in Threads, ShutdownManager(u), ~g.mgr.shutting
  PROVE  Inv(g') /\ (Inv2(g) => Inv2(g'))
<1> DEFINE T == g.mgr.members
           t == Thread("shutting", "manager", T)
           h == [g.thread EXCEPT ![u] = t]
           m == [g.mgr EXCEPT !.shutting = TRUE, !.members = {}]
           z == [g EXCEPT !.thread = h, !.mgr = m]
<1>1. /\ g \in StateType /\ JobsOk(g) /\ ThreadOk(g) /\ ManagerOk(g) /\ ConnOk(g) /\ IsFiniteSet(g.chn.members)
      /\ g.thread[u].pc = "idle" /\ ~g.mgr.shutting
  BY Zenon DEF Inv, ShutdownManager, Idle
<1>2. g' = z
  <2> DEFINE a == WithThread(g, u, Thread("shutting", g.thread[u].arg, g.thread[u].todo))
             b == WithThread(g, u, Thread("shutting", g.thread[u].arg, T))
             c == WithThread(g, u, t)
  <2>1. At(g, u, "shutting") = a
    BY <1>1, ThreadFields, Zenon
  <2>2. [a EXCEPT !.thread[u].todo = T] = b
    <3>1. Fields(g, u, "shutting", g.thread[u].arg, g.thread[u].todo, T)
      BY <1>1, ThreadFields, Zenon
    <3> QED BY <3>1, ZenonT(30) DEF Fields
  <2>3. [b EXCEPT !.thread[u].arg = "manager"] = c
    <3>1. Fields(g, u, "shutting", g.thread[u].arg, T, "manager")
      BY <1>1, ThreadFields, Zenon
    <3> QED BY <3>1, ZenonT(30) DEF Fields
  <2>4. g' = [At(g, u, "shutting") EXCEPT !.thread[u].todo = T, !.thread[u].arg = "manager", !.mgr = Clear(@)]
    BY Zenon DEF ShutdownManager
  <2>5. c.mgr = g.mgr
    BY <1>1, Zenon DEF WithThread, StateType
  <2>6. z = [c EXCEPT !.mgr = Clear(c.mgr)]
    BY <1>1, <2>5, Zenon DEF WithThread, Clear, StateType
  <2> HIDE DEF a, b, c
  <2> QED BY <2>1, <2>2, <2>3, <2>4, <2>6, ZenonT(30)
<1>3. h \in [Threads -> [pc : {"idle", "wait", "bind", "inUse", "shutting"},
                         arg : Stacks \cup {None, "manager"}, todo : SUBSET Members]]
  BY <1>1, Zenon DEF StateType, Thread
<1>4. /\ m \in [shutting : BOOLEAN, members : SUBSET Members, owner : Threads \cup {None}]
      /\ m.shutting /\ m.members = {}
  BY <1>1, ZenonT(30) DEF StateType
<1>5. /\ h[u].pc = "shutting" /\ h[u].arg = "manager" /\ h[u].todo = T
      /\ \A v \in Threads \ {u} : h[v] = g.thread[v]
  BY <1>1, Zenon DEF StateType, Thread
<1> HIDE DEF h, m, T
<1>6. /\ z \in StateType /\ z.thread = h /\ z.mgr = m /\ z.chn = g.chn /\ z.jobs = g.jobs
      /\ z.open = g.open /\ z.bound = g.bound /\ z.returned = g.returned /\ z.handed = g.handed
      /\ z.listening = g.listening /\ z.resources = g.resources
      /\ z.accepting = g.accepting /\ z.conn = g.conn
  BY <1>1, <1>3, <1>4, ZenonT(30) DEF StateType
<1> HIDE DEF z
<1>7. g.thread[u].arg = None /\ g.thread[u].todo = {} /\ g.chn.owner # u
  BY <1>1, ThreadFacts, Zenon
<1>8. JobsOk(z)
  <2> DEFINE U == {u}
             N == {}
  <2>1. "channel" \in Strands /\ Later(g, z) /\ Only(g, z, U)
    BY <1>5, <1>6, Zenon DEF Later, Only, Strands
  <2>2. \A k \in Strands : \A j \in Range(z.jobs[k]) : j.who \in U => k = "channel" /\ j \in N
    BY <1>1, <1>6, NoJob, Zenon
  <2>3. Moved(g.jobs, z.jobs, "channel", N, N) /\ \A j \in N : JobOk(z, "channel", j)
    BY <1>6, <2>1, Unmoved, Zenon
  <2> HIDE DEF U, N
  <2> QED BY <1>1, <2>1, <2>2, <2>3, JobsKept, ZenonT(30)
<1>9. ThreadOk(z)
  BY <1>1, <1>5, <1>6, <1>7, NamesDiffer DEF ThreadOk
<1>10. ASSUME NEW r \in {"channel"} \cup Conns, Reached(g, r) PROVE Reached(z, r)
  <2>1. KeepsReach(g, z, r)
    BY <1>5, <1>6, <1>7, NamesDiffer, Zenon DEF KeepsReach
  <2>2. r \in g.mgr.members => \E v \in Threads : r \in z.thread[v].todo
    BY <1>5, <1>6, Zenon DEF T
  <2> QED BY <1>1, <1>10, <2>1, <2>2, StillReached, ZenonT(30)
<1>11. ManagerOk(z)
  <2>1. ASSUME NEW v \in Threads, z.thread[v].arg = "manager"
        PROVE  z.mgr.shutting /\ ~z.returned /\ \A w \in Threads : z.thread[w].arg = "manager" => v = w
    BY <1>1, <1>4, <1>5, <1>6, <2>1 DEF ManagerOk
  <2>2. z.returned => z.mgr.shutting /\ ~z.open /\ \A l \in Conns : z.conn[l].st # "open"
    BY <1>1, <1>4, <1>6, Zenon DEF ManagerOk
  <2>3. z.open => Reached(z, "channel")
    BY <1>1, <1>6, <1>10, Zenon DEF ManagerOk
  <2>4. z.listening => InHands(z, "listener")
    <3>1. InHands(g, "listener") => "listener" \in T
      BY <1>1, <1>7, Zenon DEF InHands, ThreadOk, ManagerOk, T
    <3> QED BY <1>1, <1>5, <1>6, <3>1, Zenon DEF InHands, ManagerOk
  <2> QED BY <1>4, <1>6, <2>1, <2>2, <2>3, <2>4, Zenon DEF ManagerOk
<1>12. ConnOk(z)
  <2>1. \A l \in Conns, v \in Threads : l \in z.thread[v].todo => g.conn[l].st \in {"open", "shut"}
    BY <1>1, <1>5, <1>6, Zenon DEF ConnOk, T
  <2> QED BY <1>1, <1>4, <1>6, <1>10, <2>1, ZenonT(30) DEF ConnOk
<1>13. Inv(z)
  BY <1>1, <1>6, <1>8, <1>9, <1>11, <1>12, Zenon DEF Inv
<1>14. SameStacks(g, z)
  BY <1>5, <1>6, <1>7, NamesDiffer, Zenon DEF SameStacks
<1>15. Inv2(g) => Inv2(z)
  BY <1>6, <1>13, <1>14, StacksAlone, Zenon
<1> QED BY <1>2, <1>13, <1>15, Zenon

\* Either way a call of the manager's Shutdown keeps the invariants.
LEMMA ShutdownManagerStep ==
  ASSUME Inv(g), NEW u \in Threads, ShutdownManager(u)
  PROVE  Inv(g') /\ (Inv2(g) => Inv2(g'))
<1>1. CASE g.mgr.shutting
  BY <1>1, ForgetStep, Zenon DEF ShutdownManager
<1>2. CASE ~g.mgr.shutting
  BY <1>2, TakeStep, Zenon
<1> QED BY <1>1, <1>2, Zenon

\* When the list is empty nothing is left that the shutdown would have to reach.
LEMMA NothingReached ==
  ASSUME NEW x, Inv(x), NEW u \in Threads, x.thread[u].pc = "shutting", x.thread[u].todo = {}
  PROVE  x.mgr.shutting /\ ~x.open /\ ~x.listening /\ \A l \in Conns : x.conn[l].st # "open"
<1>1. /\ x \in StateType /\ JobsOk(x) /\ ThreadOk(x) /\ ManagerOk(x) /\ ConnOk(x)
  BY Zenon DEF Inv
<1>2. x.thread[u].arg = "manager"
  BY <1>1, ThreadFacts
<1>3. x.mgr.shutting /\ x.mgr.members = {} /\ \A v \in Threads : x.thread[v].arg = "manager" => u = v
  BY <1>1, <1>2, Zenon DEF ManagerOk
<1>4. \A v \in Threads : x.thread[v].todo = {}
  BY <1>1, <1>3, Zenon DEF ThreadOk
<1>5. \A m \in Strands : \A j \in Range(x.jobs[m]) : j.who # u
  BY <1>1, NoJob, Zenon
<1>6. ASSUME NEW r \in {"channel"} \cup Conns PROVE ~Reached(x, r)
  <2> SUFFICES ASSUME NEW i \in Range(x.jobs[r]), i.op = Closer(r), x.thread[i.who].arg = "manager" PROVE FALSE
    BY <1>3, <1>4, Zenon DEF Reached
  <2>1. r \in Strands
    BY Zenon DEF Strands
  <2>2. i.who \in Threads
    BY <1>1, <2>1, Zenon DEF JobsOk, JobOk, CallOps, Closer
  <2> QED BY <1>3, <1>5, <2>1, <2>2, Zenon
<1>7. ~InHands(x, "listener")
  BY <1>3, <1>4, Zenon DEF InHands
<1> QED BY <1>1, <1>3, <1>6, <1>7, ZenonT(30) DEF ManagerOk, ConnOk

\* The shutdown of the manager returns when no member is left.
LEMMA ShutdownReturnsStep ==
  ASSUME Inv(g), NEW u \in Threads, ShutdownReturns(u)
  PROVE  Inv(g') /\ (Inv2(g) => Inv2(g'))
<1> DEFINE t == Thread("idle", None, {})
           h == [g.thread EXCEPT ![u] = t]
           m == [g.mgr EXCEPT !.owner = IF g.mgr.owner = u THEN None ELSE g.mgr.owner]
           z == [g EXCEPT !.thread = h, !.mgr = m, !.resources = FALSE, !.returned = TRUE]
<1>1. /\ g \in StateType /\ JobsOk(g) /\ ThreadOk(g) /\ ManagerOk(g) /\ ConnOk(g) /\ IsFiniteSet(g.chn.members)
      /\ g.thread[u].pc = "shutting" /\ g.thread[u].todo = {}
  BY Zenon DEF Inv, ShutdownReturns
<1>2. g' = z
  <2> DEFINE a == WithThread(g, u, Thread("idle", g.thread[u].arg, g.thread[u].todo))
             c == WithThread(g, u, t)
  <2>1. At(g, u, "idle") = a
    BY <1>1, ThreadFields, ZenonT(30)
  <2>2. [a EXCEPT !.thread[u].arg = None] = c
    <3>1. Fields(g, u, "idle", g.thread[u].arg, g.thread[u].todo, None)
      BY <1>1, ThreadFields, Zenon
    <3> QED BY <1>1, <3>1, ZenonT(30) DEF Fields
  <2>3. g' = [At(g, u, "idle") EXCEPT !.thread[u].arg = None, !.resources = FALSE, !.returned = TRUE,
                                      !.mgr.owner = IF @ = u THEN None ELSE @]
    BY Zenon DEF ShutdownReturns
  <2>4. z = [c EXCEPT !.resources = FALSE, !.returned = TRUE, !.mgr.owner = IF @ = u THEN None ELSE @]
    BY <1>1, ZenonT(30) DEF WithThread, StateType
  <2> HIDE DEF a, c
  <2> QED BY <2>1, <2>2, <2>3, <2>4, ZenonT(30)
<1>3. h \in [Threads -> [pc : {"idle", "wait", "bind", "inUse", "shutting"},
                         arg : Stacks \cup {None, "manager"}, todo : SUBSET Members]]
  BY <1>1, Zenon DEF StateType, Thread
<1>4. /\ m \in [shutting : BOOLEAN, members : SUBSET Members, owner : Threads \cup {None}]
      /\ m.shutting = g.mgr.shutting /\ m.members = g.mgr.members
  BY <1>1, ZenonT(30) DEF StateType
<1>5. /\ h[u].pc = "idle" /\ h[u].arg = None /\ h[u].todo = {}
      /\ \A v \in Threads \ {u} : h[v] = g.thread[v]
  BY <1>1, Zenon DEF StateType, Thread
<1> HIDE DEF h, m
<1>6. /\ z \in StateType /\ z.thread = h /\ z.mgr = m /\ z.chn = g.chn /\ z.jobs = g.jobs
      /\ z.open = g.open /\ z.bound = g.bound /\ z.returned /\ z.handed = g.handed
      /\ z.listening = g.listening /\ z.accepting = g.accepting /\ z.conn = g.conn
  BY <1>1, <1>3, <1>4, ZenonT(30) DEF StateType
<1> HIDE DEF z
<1>7. g.thread[u].arg = "manager" /\ g.chn.owner # u
  BY <1>1, ThreadFacts, ZenonT(30)
<1>8. JobsOk(z)
  <2> DEFINE U == {u}
             N == {}
  <2>1. "channel" \in Strands /\ Later(g, z) /\ Only(g, z, U)
    BY <1>5, <1>6, Zenon DEF Later, Only, Strands
  <2>2. \A k \in Strands : \A j \in Range(z.jobs[k]) : j.who \in U => k = "channel" /\ j \in N
    BY <1>1, <1>6, NoJob, Zenon
  <2>3. Moved(g.jobs, z.jobs, "channel", N, N) /\ \A j \in N : JobOk(z, "channel", j)
    BY <1>6, <2>1, Unmoved, Zenon
  <2> HIDE DEF U, N
  <2> QED BY <1>1, <2>1, <2>2, <2>3, JobsKept, ZenonT(30)
<1>9. ThreadOk(z)
  BY <1>1, <1>5, <1>6, <1>7, NamesDiffer, SMTT(20) DEF ThreadOk
<1>10. g.mgr.shutting /\ ~g.open /\ ~g.listening /\ \A l \in Conns : g.conn[l].st # "open"
  BY <1>1, NothingReached, Zenon
<1>11. ManagerOk(z)
  <2>1. \A v \in Threads : z.thread[v].arg # "manager"
    BY <1>1, <1>5, <1>6, <1>7, NamesDiffer, SMTT(20) DEF ManagerOk
  <2> QED BY <1>1, <1>4, <1>6, <1>10, <2>1, ZenonT(30) DEF ManagerOk
<1>12. ConnOk(z)
  <2>1. \A l \in Conns, v \in Threads : l \in z.thread[v].todo => g.conn[l].st \in {"open", "shut"}
    BY <1>1, <1>5, <1>6, Zenon DEF ConnOk
  <2> QED BY <1>1, <1>4, <1>6, <1>10, <2>1, SMTT(20) DEF ConnOk
<1>13. Inv(z)
  BY <1>1, <1>6, <1>8, <1>9, <1>11, <1>12, Zenon DEF Inv
<1>14. SameStacks(g, z)
  BY <1>5, <1>6, <1>7, NamesDiffer, Zenon DEF SameStacks
<1>15. Inv2(g) => Inv2(z)
  BY <1>6, <1>13, <1>14, StacksAlone, Zenon
<1> QED BY <1>2, <1>13, <1>15, Zenon

\* z is x with a new record for thread u.
Threaded(x, z, u, pc, arg, T) ==
  /\ z \in StateType /\ SameRest(x, z) /\ z.chn = x.chn /\ z.jobs = x.jobs /\ z.handed = x.handed
  /\ z.thread[u].pc = pc /\ z.thread[u].arg = arg /\ z.thread[u].todo = T
  /\ \A v \in Threads \ {u} : z.thread[v] = x.thread[v]

\* Replacing one thread.
LEMMA WithThreadFields ==
  ASSUME NEW x \in StateType, NEW u \in Threads, NEW pc \in {"idle", "wait", "bind", "inUse", "shutting"},
         NEW arg \in Stacks \cup {None, "manager"}, NEW T \in SUBSET Members
  PROVE  Threaded(x, WithThread(x, u, Thread(pc, arg, T)), u, pc, arg, T)
<1> DEFINE t == Thread(pc, arg, T)
           h == [x.thread EXCEPT ![u] = t]
           z == [x EXCEPT !.thread = h]
<1>1. t.pc = pc /\ t.arg = arg /\ t.todo = T
      /\ t \in [pc : {"idle", "wait", "bind", "inUse", "shutting"}, arg : Stacks \cup {None, "manager"}, todo : SUBSET Members]
  BY Zenon DEF Thread
<1> HIDE DEF t
<1>2. /\ h \in [Threads -> [pc : {"idle", "wait", "bind", "inUse", "shutting"},
                            arg : Stacks \cup {None, "manager"}, todo : SUBSET Members]]
      /\ h[u] = t /\ \A v \in Threads \ {u} : h[v] = x.thread[v]
  BY <1>1, Zenon DEF StateType
<1> HIDE DEF h
<1>3. /\ z \in StateType /\ SameRest(x, z) /\ z.chn = x.chn /\ z.jobs = x.jobs /\ z.handed = x.handed
      /\ z.thread = h
  BY <1>2, ZenonT(30) DEF StateType, SameRest
<1> HIDE DEF z
<1>4. WithThread(x, u, t) = z
  BY Zenon DEF WithThread, z, h
<1>5. Threaded(x, z, u, pc, arg, T)
  BY <1>1, <1>2, <1>3, Zenon DEF Threaded
<1> QED BY <1>4, <1>5, Zenon DEF t

\* Assigning todo is replacing the thread.
LEMMA TodoIs ==
  ASSUME NEW x \in StateType, NEW u \in Threads, NEW T
  PROVE  [x EXCEPT !.thread[u].todo = T] = WithThread(x, u, Thread(x.thread[u].pc, x.thread[u].arg, T))
<1>1. x.thread[u] \in [pc : {"idle", "wait", "bind", "inUse", "shutting"},
                       arg : Stacks \cup {None, "manager"}, todo : SUBSET Members]
  BY Zenon DEF StateType
<1>2. [x.thread[u] EXCEPT !.todo = T] = Thread(x.thread[u].pc, x.thread[u].arg, T)
  BY <1>1 DEF Thread
<1>3. [x EXCEPT !.thread[u].todo = T] = WithThread(x, u, [x.thread[u] EXCEPT !.todo = T])
  BY Zenon DEF WithThread
<1> QED BY <1>2, <1>3, Zenon

\* The next resource is taken from the list.
Takes(x, z, u, r) ==
  /\ z \in StateType /\ SameRest(x, z) /\ z.chn = x.chn /\ z.jobs = x.jobs /\ z.handed = x.handed
  /\ z.thread[u].pc = x.thread[u].pc /\ z.thread[u].arg = x.thread[u].arg
  /\ z.thread[u].todo = x.thread[u].todo \ {r}
  /\ \A v \in Threads \ {u} : z.thread[v] = x.thread[v]

\* A member is taken from the list.
LEMMA TakesFields ==
  ASSUME NEW x \in StateType, NEW u \in Threads, NEW r
  PROVE  Takes(x, [x EXCEPT !.thread[u].todo = @ \ {r}], u, r)
<1> DEFINE T == x.thread[u].todo \ {r}
           pc == x.thread[u].pc
           arg == x.thread[u].arg
<1>1. [x EXCEPT !.thread[u].todo = @ \ {r}] = [x EXCEPT !.thread[u].todo = T]
  BY Zenon
<1>2. pc \in {"idle", "wait", "bind", "inUse", "shutting"} /\ arg \in Stacks \cup {None, "manager"} /\ T \in SUBSET Members
  BY Zenon DEF StateType
<1> HIDE DEF T
<1>3. [x EXCEPT !.thread[u].todo = T] = WithThread(x, u, Thread(pc, arg, T))
  BY TodoIs
<1> DEFINE z == WithThread(x, u, Thread(pc, arg, T))
<1> HIDE DEF pc, arg
<1>4. /\ z \in StateType /\ SameRest(x, z) /\ z.chn = x.chn /\ z.jobs = x.jobs /\ z.handed = x.handed
      /\ z.thread[u].pc = pc /\ z.thread[u].arg = arg /\ z.thread[u].todo = T
      /\ \A v \in Threads \ {u} : z.thread[v] = x.thread[v]
  <2>1. Threaded(x, z, u, pc, arg, T)
    BY <1>2, WithThreadFields, Zenon
  <2> QED BY <2>1, Zenon DEF Threaded
<1> HIDE DEF z
<1> QED BY <1>1, <1>3, <1>4, ZenonT(30) DEF Takes, z, T, pc, arg

\* z is x but for the listener, which the threads of U took from their lists.
Closes(x, z, U) ==
  /\ z \in StateType /\ SameRest(x, z) /\ z.chn = x.chn /\ z.jobs = x.jobs /\ z.handed = x.handed
  /\ \A v \in U : x.thread[v].pc # "wait"
  /\ \A v \in Threads \ U : z.thread[v] = x.thread[v]
  /\ \A v \in Threads : /\ z.thread[v].pc = x.thread[v].pc /\ z.thread[v].arg = x.thread[v].arg
                        /\ z.thread[v].todo \subseteq x.thread[v].todo
                        /\ x.thread[v].todo \ {"listener"} \subseteq z.thread[v].todo

\* The listener is closed.
LEMMA ListenerStep ==
  ASSUME NEW x, Inv(x), NEW U \in SUBSET Threads, NEW z, Closes(x, z, U), NEW c
  PROVE  LET y == CloseListener(z, c) IN Inv(y) /\ (Inv2(x) => Inv2(y))
<1> DEFINE j == Job("detachListener", None, None)
           js == IF z.listening /\ c THEN <<j>> ELSE <<>>
           w == [z EXCEPT !.listening = FALSE]
           y == Post(w, "listener", js)
           N == Range(js)
<1>1. /\ x \in StateType /\ JobsOk(x) /\ ThreadOk(x) /\ ManagerOk(x) /\ ConnOk(x) /\ IsFiniteSet(x.chn.members)
      /\ x.jobs \in [Strands -> Seq(Jobs)] /\ Unique(x.jobs)
      /\ "listener" \in Strands /\ "channel" \in Strands /\ "listener" \notin {"channel"} \cup Conns
  BY NamesDiffer, ZenonT(30) DEF Inv, Strands, StateType, JobsOk, Unique
<1>2. j \in Jobs /\ j.op = "detachListener" /\ j.who = None /\ j.who \notin Threads
  BY NamesDiffer, Zenon DEF Job, Jobs, PostOps
<1>3. /\ w \in StateType /\ w.mgr = x.mgr /\ w.open = x.open /\ w.bound = x.bound /\ w.returned = x.returned
      /\ ~w.listening /\ w.resources = x.resources
      /\ w.accepting = x.accepting /\ w.conn = x.conn /\ w.chn = x.chn /\ w.jobs = x.jobs /\ w.handed = x.handed
      /\ w.thread = z.thread
  BY ZenonT(30) DEF Closes, SameRest, StateType
<1> HIDE DEF j, w
<1>4. js \in Seq(Jobs) /\ Range(js) \subseteq {j} /\ Distinct(js)
  <2>1. <<j>> \in Seq(Jobs) /\ Range(<<j>>) = {j} /\ Distinct(<<j>>)
    BY <1>2, Singles, ZenonT(30)
  <2>2. <<>> \in Seq(Jobs) /\ Range(<<>>) = {} /\ Distinct(<<>>)
    BY DEF Range, Distinct
  <2>3. CASE z.listening /\ c
    BY <2>1, <2>3, Zenon
  <2>4. CASE ~(z.listening /\ c)
    BY <2>2, <2>4, Zenon
  <2> QED BY <2>3, <2>4, Zenon
<1> HIDE DEF js
<1>5. /\ y \in StateType /\ y.jobs = [w.jobs EXCEPT !["listener"] = w.jobs["listener"] \o js]
      /\ SameRest(w, y) /\ y.chn = w.chn /\ y.thread = w.thread /\ y.handed = w.handed
  BY <1>1, <1>3, <1>4, PostFields, ZenonT(30)
<1> HIDE DEF y
<1>6. /\ y.mgr = x.mgr /\ y.open = x.open /\ y.bound = x.bound /\ y.returned = x.returned
      /\ ~y.listening /\ y.resources = x.resources
      /\ y.accepting = x.accepting /\ y.conn = x.conn /\ y.chn = x.chn /\ y.handed = x.handed
      /\ y.jobs = [x.jobs EXCEPT !["listener"] = x.jobs["listener"] \o js]
  BY <1>3, <1>5, Zenon DEF SameRest
<1>7. /\ \A v \in Threads \ U : y.thread[v] = x.thread[v]
      /\ \A v \in Threads : /\ y.thread[v].pc = x.thread[v].pc /\ y.thread[v].arg = x.thread[v].arg
                            /\ y.thread[v].todo \subseteq x.thread[v].todo
                            /\ x.thread[v].todo \ {"listener"} \subseteq y.thread[v].todo
  BY <1>3, <1>5, Zenon DEF Closes
<1>8. \A m \in Strands : Apart(x.jobs[m], js)
  BY <1>2, <1>4, NamesDiffer, Zenon DEF Apart
<1>9. Moved(x.jobs, y.jobs, "listener", {}, N)
  <2>1. Moved(x.jobs, [x.jobs EXCEPT !["listener"] = x.jobs["listener"] \o js], "listener", {}, Range(js))
    BY <1>1, <1>4, <1>8, Posting, ZenonT(30)
  <2> QED BY <1>6, <2>1, ZenonT(30)
<1>10. \A m \in Strands : \A i \in Range(y.jobs[m]) : i.who \in U => m = "listener" /\ i \in N
  <2>1. \A v \in U : \A m \in Strands : \A i \in Range(x.jobs[m]) : i.who # v
    BY <1>1, NoJob, Zenon DEF Closes
  <2> QED BY <1>9, <2>1, Zenon DEF Moved
<1>11. \A i \in N : JobOk(y, "listener", i)
  BY <1>2, <1>4, <1>6, Zenon DEF JobOk, CallOps, PostOps
<1>12. Later(x, y) /\ Only(x, y, U) /\ ThreadOk(y) /\ IsFiniteSet(y.chn.members)
  <2>1. Later(x, y) /\ Only(x, y, U)
    BY <1>6, <1>7, Zenon DEF Later, Only
  <2>2. ThreadOk(y)
    <3>1. /\ ThreadOk(x) /\ y.chn = x.chn
          /\ \A v \in Threads : /\ y.thread[v].pc = x.thread[v].pc /\ y.thread[v].arg = x.thread[v].arg
                                /\ y.thread[v].todo # {} => x.thread[v].todo # {}
      BY <1>1, <1>6, <1>7, ZenonT(30)
    <3> QED BY <3>1 DEF ThreadOk
  <2> QED BY <1>1, <1>6, <2>1, <2>2, Zenon
<1>13. SameNet(x, y)
  <2>1. ASSUME NEW r \in {"channel"} \cup Conns PROVE KeepsReach(x, y, r)
    <3>1. r # "listener" /\ r \in Strands
      BY <1>1, Zenon DEF Strands
    <3>2. y.jobs[r] = x.jobs[r]
      BY <1>9, <3>1, Zenon DEF Moved
    <3> QED BY <1>7, <3>1, <3>2, Zenon DEF KeepsReach
  <2> QED BY <1>6, <1>7, <2>1, Zenon DEF SameNet
<1>14. NetMoves(x, y)
  BY <1>1, <1>13, NetAlone, Zenon
<1> HIDE DEF N
<1>15. Inv(y)
  <2> DEFINE E == {}
  <2>1. Goes(x, y, "listener", E, N, U)
    BY <1>5, <1>9, <1>10, <1>11, <1>12, <1>14, ZenonT(30) DEF Goes
  <2> HIDE DEF E
  <2> QED BY <1>1, <2>1, GoesKeeps, Zenon
<1>16. SameStacks(x, y)
  BY <1>6, <1>7, Zenon DEF SameStacks
<1>17. y.jobs["channel"] = x.jobs["channel"]
  BY <1>1, <1>9, Zenon DEF Moved
<1>18. Inv2(x) => Inv2(y)
  BY <1>15, <1>16, <1>17, StacksAlone, Zenon
<1> QED BY <1>15, <1>18, Zenon DEF CloseListener, y, w, js, j

\* The user shuts down the listener, or the accept fails.
LEMMA ListenerEndsStep ==
  ASSUME Inv(g), NEW c, g' = CloseListener(g, c)
  PROVE  Inv(g') /\ (Inv2(g) => Inv2(g'))
<1> DEFINE U == {}
<1>1. Closes(g, g, U) /\ U \in SUBSET Threads
  BY Zenon DEF Closes, SameRest, Inv
<1> HIDE DEF U
<1> QED BY <1>1, ListenerStep, Zenon

\* The shutdown of the manager goes on with the next member.
LEMMA ShutdownNextStep ==
  ASSUME Inv(g), NEW u \in Threads, ShutdownNext(u)
  PROVE  Inv(g') /\ (Inv2(g) => Inv2(g'))
<1>1. PICK r \in g.thread[u].todo, c \in BOOLEAN :
        LET y == [g EXCEPT !.thread[u].todo = @ \ {r}]
        IN  g' = CASE r = "channel"  -> BlockUntilAndFlush(y, u, "channel", "close", None)
                   [] r = "listener" -> CloseListener(y, c \/ g.accepting # None)
                   [] r \in Conns    -> BlockUntilAndFlush(y, u, r, "shutConn", r)
  BY ZenonT(30) DEF ShutdownNext
<1> DEFINE z == [g EXCEPT !.thread[u].todo = @ \ {r}]
           T == g.thread[u].todo \ {r}
<1>2. g \in StateType /\ r \in Members /\ g.thread[u].pc = "shutting"
  BY Zenon DEF Inv, StateType, ShutdownNext
<1>3. Takes(g, z, u, r)
  BY <1>2, TakesFields, Zenon
<1>4. g' = CASE r = "channel"  -> BlockUntilAndFlush(z, u, "channel", "close", None)
             [] r = "listener" -> CloseListener(z, c \/ g.accepting # None)
             [] r \in Conns    -> BlockUntilAndFlush(z, u, r, "shutConn", r)
  BY <1>1, Zenon
<1> HIDE DEF z
<1>5. /\ z \in StateType /\ SameRest(g, z) /\ z.chn = g.chn /\ z.jobs = g.jobs /\ z.handed \subseteq g.handed
      /\ z.thread[u].arg = g.thread[u].arg /\ z.thread[u].todo = T
      /\ \A v \in Threads \ {u} : z.thread[v] = g.thread[v]
  BY <1>3, Zenon DEF Takes
<1>6. T \in SUBSET g.thread[u].todo /\ g.thread[u].todo \ T \subseteq {r}
  <2>1. T \in SUBSET g.thread[u].todo
    BY Zenon
  <2>2. g.thread[u].todo \ T \subseteq {r}
    BY Zenon
  <2> QED BY <2>1, <2>2, Zenon
<1> HIDE DEF T
<1>7. CASE r = "channel"
  <2>1. "channel" \in Strands /\ Job("close", None, u) \in Jobs
    BY Zenon DEF Strands, Job, Jobs, CallOps
  <2>2. Called(g, BlockUntilAndFlush(z, u, "channel", "close", None), u, "channel", "close", None, T)
    BY <1>2, <1>5, <2>1, Blocks, Zenon
  <2>3. Calls(g, u, "channel", "close", None, T)
    BY <1>2, <1>6, <1>7, NamesDiffer, Zenon DEF Calls
  <2>4. g' = BlockUntilAndFlush(z, u, "channel", "close", None)
    BY <1>4, <1>7, NamesDiffer, Zenon
  <2> QED BY <2>1, <2>2, <2>3, <2>4, CallStep, Zenon
<1>8. CASE r \in Conns
  <2>1. r \in Strands /\ Job("shutConn", r, u) \in Jobs
    BY <1>8, Zenon DEF Strands, Job, Jobs, CallOps
  <2>2. Called(g, BlockUntilAndFlush(z, u, r, "shutConn", r), u, r, "shutConn", r, T)
    BY <1>2, <1>5, <2>1, Blocks, Zenon
  <2>3. Calls(g, u, r, "shutConn", r, T)
    BY <1>2, <1>6, <1>8, NamesDiffer, Zenon DEF Calls
  <2>4. g' = BlockUntilAndFlush(z, u, r, "shutConn", r)
    BY <1>4, <1>8, NamesDiffer, Zenon
  <2> QED BY <2>1, <2>2, <2>3, <2>4, CallStep, Zenon
<1>9. CASE r = "listener"
  <2> DEFINE d == c \/ g.accepting # None
             U == {u}
  <2>1. g' = CloseListener(z, d)
    BY <1>4, <1>9, NamesDiffer, Zenon
  <2>2. Closes(g, z, U) /\ U \in SUBSET Threads
    BY <1>2, <1>3, <1>9, Zenon DEF Closes, Takes
  <2> HIDE DEF d, U
  <2> QED BY <2>1, <2>2, ListenerStep, Zenon
<1> QED BY <1>2, <1>7, <1>8, <1>9, Zenon DEF Members

\* The user shuts down the listener.
LEMMA ShutdownListenerStep ==
  ASSUME Inv(g), NEW u \in Threads, ShutdownListener(u)
  PROVE  Inv(g') /\ (Inv2(g) => Inv2(g'))
<1>1. PICK c \in BOOLEAN : g' = CloseListener(g, c \/ g.accepting # None)
  BY Zenon DEF ShutdownListener
<1> QED BY <1>1, ListenerEndsStep, Zenon

\* The accept fails.
LEMMA AcceptFailsStep ==
  ASSUME Inv(g), AcceptFails
  PROVE  Inv(g') /\ (Inv2(g) => Inv2(g'))
BY ListenerEndsStep, Zenon DEF AcceptFails

----------------------------------------------------------------------------
(* A stack is added.                                                       *)

\* What AddStack leaves: the lambda is posted, u waits for it and owns the mutex.
Adding(x, y, u, s) ==
  /\ y \in StateType
  /\ y.jobs = [x.jobs EXCEPT !["channel"] = x.jobs["channel"] \o <<Job("add", s, u)>>]
  /\ y.thread[u].pc = "wait" /\ y.thread[u].arg = s /\ y.thread[u].todo = x.thread[u].todo
  /\ \A v \in Threads \ {u} : y.thread[v] = x.thread[v]
  /\ y.chn.owner = u /\ y.chn.members = x.chn.members /\ y.chn.shutting = x.chn.shutting
  /\ SameRest(x, y) /\ y.handed = x.handed

\* AddStack takes the lock of the channel's resources, posts and waits.
LEMMA AddingFields ==
  ASSUME NEW x \in StateType, NEW u \in Threads, NEW s \in Stacks
  PROVE  Adding(x, [At(Post(x, "channel", <<Job("add", s, u)>>), u, "wait")
                      EXCEPT !.chn.owner = u, !.thread[u].arg = s], u, s)
<1> DEFINE p == Post(x, "channel", <<Job("add", s, u)>>)
           a == WithThread(p, u, Thread("wait", p.thread[u].arg, p.thread[u].todo))
           b == WithThread(p, u, Thread("wait", s, p.thread[u].todo))
           c == [b.chn EXCEPT !.owner = u]
           z == [b EXCEPT !.chn = c]
<1>1. Job("add", s, u) \in Jobs /\ "channel" \in Strands
  BY Zenon DEF Job, Jobs, CallOps, Strands
<1>2. <<Job("add", s, u)>> \in Seq(Jobs)
  BY <1>1, Singles, Zenon
<1>3. /\ p \in StateType /\ p.jobs = [x.jobs EXCEPT !["channel"] = x.jobs["channel"] \o <<Job("add", s, u)>>]
      /\ SameRest(x, p) /\ p.chn = x.chn /\ p.thread = x.thread /\ p.handed = x.handed
  BY <1>1, <1>2, PostFields, ZenonT(30)
<1> HIDE DEF p
<1>4. p.thread[u].arg \in Stacks \cup {None, "manager"} /\ p.thread[u].todo \in SUBSET Members
  BY <1>3, Zenon DEF StateType
<1>5. At(p, u, "wait") = a
  BY <1>3, ThreadFields, Zenon
<1>6. [a EXCEPT !.thread[u].arg = s] = b
  <2>1. Fields(p, u, "wait", p.thread[u].arg, p.thread[u].todo, s)
    BY <1>3, ThreadFields, Zenon
  <2> QED BY <2>1, ZenonT(30) DEF Fields
<1>7. a \in StateType
  <2> DEFINE A == p.thread[u].arg
             T == p.thread[u].todo
  <2>1. A \in Stacks \cup {None, "manager"} /\ T \in SUBSET Members
    BY <1>4, Zenon
  <2> HIDE DEF A, T
  <2>2. Threaded(p, WithThread(p, u, Thread("wait", A, T)), u, "wait", A, T)
    BY <1>3, <2>1, WithThreadFields, Zenon
  <2> QED BY <2>2, ZenonT(30) DEF Threaded, A, T
<1>8. /\ b \in StateType /\ SameRest(p, b) /\ b.chn = p.chn /\ b.jobs = p.jobs /\ b.handed = p.handed
      /\ b.thread[u].pc = "wait" /\ b.thread[u].arg = s /\ b.thread[u].todo = p.thread[u].todo
      /\ \A v \in Threads \ {u} : b.thread[v] = p.thread[v]
  <2> DEFINE T == p.thread[u].todo
  <2>1. T \in SUBSET Members /\ s \in Stacks \cup {None, "manager"}
    BY <1>4, Zenon
  <2> HIDE DEF T
  <2>2. Threaded(p, WithThread(p, u, Thread("wait", s, T)), u, "wait", s, T)
    BY <1>3, <2>1, WithThreadFields, ZenonT(30)
  <2> QED BY <2>2, ZenonT(30) DEF Threaded, T
<1> HIDE DEF a, b
<1>9. [a EXCEPT !.chn.owner = u, !.thread[u].arg = s] = z
  <2>1. [a EXCEPT !.chn.owner = u, !.thread[u].arg = s] = [[a EXCEPT !.thread[u].arg = s] EXCEPT !.chn.owner = u]
    BY <1>7, ZenonT(30) DEF StateType
  <2> QED BY <1>6, <2>1, ZenonT(30)
<1>10. /\ c \in [shutting : BOOLEAN, members : SUBSET Stacks, owner : Threads \cup {None}]
       /\ c.owner = u /\ c.members = b.chn.members /\ c.shutting = b.chn.shutting
  BY <1>8, ZenonT(30) DEF StateType
<1> HIDE DEF c
<1>11. /\ z \in StateType /\ SameRest(b, z) /\ z.chn = c /\ z.jobs = b.jobs /\ z.handed = b.handed
       /\ z.thread = b.thread
  BY <1>8, <1>10, ZenonT(30) DEF StateType, SameRest
<1> HIDE DEF z
<1>12. SameRest(x, z)
  BY <1>3, <1>8, <1>11, Zenon DEF SameRest
<1>13. Adding(x, z, u, s)
  BY <1>3, <1>8, <1>10, <1>11, <1>12 DEF Adding
<1> QED BY <1>5, <1>9, <1>13, ZenonT(30) DEF p

\* When every thread is idle and the channel is open, its strand has nothing to do.
LEMMA NothingPosted ==
  ASSUME NEW x, Inv(x), Inv2(x), x.open, \A v \in Threads : x.thread[v].pc = "idle"
  PROVE  x.jobs["channel"] = <<>>
<1> DEFINE q == x.jobs["channel"]
<1>1. x \in StateType /\ JobsOk(x) /\ "channel" \in Strands /\ q \in Seq(Jobs)
  BY Zenon DEF Inv, Strands, StateType
<1>2. \A u \in Threads : \A j \in Range(q) : j.who # u
  BY <1>1, NoJob, Zenon
<1>3. ASSUME q # <<>> PROVE FALSE
  <2>1. Len(q) \in DOMAIN q
    BY <1>1, <1>3, Lens
  <2>2. q[Len(q)] \in Range(q)
    BY <2>1, Zenon DEF Range
  <2>3. q[Len(q)].who \in Threads
    BY <1>3, Zenon DEF Inv2, LastOk
  <2> QED BY <1>2, <2>2, <2>3, Zenon
<1> QED BY <1>3, Zenon

\* A thread adds a stack; the second invariant needs that no other thread is
\* in a call.
LEMMA AddStackStep ==
  ASSUME Inv(g), NEW u \in Threads, NEW s \in Stacks, AddStack(u, s)
  PROVE  Inv(g') /\ (~ConcurrentAdd /\ Inv2(g) => Inv2(g'))
<1> DEFINE y == [At(Post(g, "channel", <<Job("add", s, u)>>), u, "wait")
                   EXCEPT !.chn.owner = u, !.thread[u].arg = s]
           j == Job("add", s, u)
<1>1. /\ g \in StateType /\ JobsOk(g) /\ ThreadOk(g) /\ ManagerOk(g) /\ ConnOk(g) /\ IsFiniteSet(g.chn.members)
      /\ g.jobs \in [Strands -> Seq(Jobs)] /\ Unique(g.jobs) /\ "channel" \in Strands
  BY ZenonT(30) DEF Inv, Strands, StateType, JobsOk, Unique
<1>2. /\ g.thread[u].pc = "idle" /\ g.open /\ g.chn.owner = None
      /\ ~ConcurrentAdd => \A v \in Threads : g.thread[v].pc = "idle"
      /\ g' = IF g.chn.shutting THEN g ELSE y
  BY Zenon DEF AddStack, Idle
<1>3. CASE g.chn.shutting
  BY <1>2, <1>3, Zenon
<1>4. CASE ~g.chn.shutting
  <2>1. g' = y
    BY <1>2, <1>4, Zenon
  <2>2. Adding(g, y, u, s)
    BY <1>1, AddingFields, ZenonT(30)
  <2> HIDE DEF y
  <2>3. g.thread[u].arg = None /\ g.thread[u].todo = {}
    BY <1>1, <1>2, ThreadFacts, ZenonT(30)
  <2>4. j \in Jobs /\ j.op = "add" /\ j.arg = s /\ j.who = u
    BY Zenon DEF Job, Jobs, CallOps
  <2>5. \A m \in Strands : \A i \in Range(g.jobs[m]) : i.who # u
    BY <1>1, <1>2, NoJob, Zenon
  <2>6. y.jobs = [g.jobs EXCEPT !["channel"] = g.jobs["channel"] \o <<j>>]
    BY <2>2, Zenon DEF Adding
  <2> HIDE DEF j
  <2>7. <<j>> \in Seq(Jobs) /\ Range(<<j>>) = {j} /\ Distinct(<<j>>)
    BY <2>4, Singles, ZenonT(30)
  <2>8. Moved(g.jobs, y.jobs, "channel", {}, {j})
    <3>1. \A m \in Strands : Apart(g.jobs[m], <<j>>)
      BY <2>4, <2>5, <2>7, Zenon DEF Apart
    <3>2. Moved(g.jobs, [g.jobs EXCEPT !["channel"] = g.jobs["channel"] \o <<j>>], "channel", {}, Range(<<j>>))
      BY <1>1, <2>7, <3>1, Posting, ZenonT(30)
    <3> QED BY <2>6, <2>7, <3>2, ZenonT(30)
  <2>9. ThreadOk(y)
    <3>1. /\ y.thread[u].pc = "wait" /\ y.thread[u].arg = s /\ y.thread[u].todo = {} /\ y.chn.owner = u
          /\ \A v \in Threads \ {u} : y.thread[v] = g.thread[v] /\ g.chn.owner # v
          /\ s # "manager" /\ s # None
      BY <1>2, <2>2, <2>3, NamesDiffer, SMTT(20) DEF Adding
    <3>2. ThreadOk(g)
      BY <1>1, Zenon
    <3> QED BY <3>1, <3>2, SMTT(20) DEF ThreadOk
  <2>10. SameNet(g, y)
    <3>1. ASSUME NEW r \in {"channel"} \cup Conns PROVE KeepsReach(g, y, r)
      <4>1. r \in Strands
        BY Zenon DEF Strands
      <4>2. \A i \in Range(g.jobs[r]) : i \in Range(y.jobs[r])
        BY <2>8, <4>1 DEF Moved
      <4> QED BY <2>2, <2>3, <4>2, NamesDiffer, Zenon DEF KeepsReach, Adding
    <3>2. \A v \in Threads : /\ y.thread[v].todo \subseteq g.thread[v].todo
                             /\ g.thread[v].todo \subseteq y.thread[v].todo
                             /\ y.thread[v].arg = "manager" <=> g.thread[v].arg = "manager"
      BY <2>2, <2>3, NamesDiffer, Zenon DEF Adding
    <3>3. /\ y.mgr = g.mgr /\ y.open = g.open /\ y.returned = g.returned
          /\ y.listening = g.listening /\ y.resources = g.resources
          /\ y.accepting = g.accepting /\ y.conn = g.conn
      BY <2>2, Zenon DEF Adding, SameRest
    <3> QED BY <3>1, <3>2, <3>3, Zenon DEF SameNet
  <2>11. Inv(y)
    <3> DEFINE E == {}
               N == {j}
               U == {u}
    <3>0. y \in StateType /\ Later(g, y) /\ IsFiniteSet(y.chn.members)
      BY <1>1, <2>2, Zenon DEF Adding, Later, SameRest
    <3>1. Only(g, y, U)
      BY <1>2, <2>2, NamesDiffer, Zenon DEF Adding, Only
    <3>2. \A m \in Strands : \A i \in Range(y.jobs[m]) : i.who \in U => m = "channel" /\ i \in N
      BY <2>5, <2>8, Zenon DEF Moved
    <3>3. \A i \in N : JobOk(y, "channel", i)
      BY <2>2, <2>4, Zenon DEF JobOk, CallOps, PostOps, Adding
    <3>4. NetMoves(g, y)
      BY <1>1, <2>10, NetAlone, Zenon
    <3>5. Moved(g.jobs, y.jobs, "channel", E, N)
      BY <2>8, Zenon
    <3> HIDE DEF E, N, U
    <3>6. Goes(g, y, "channel", E, N, U)
      BY <2>9, <3>0, <3>1, <3>2, <3>3, <3>4, <3>5, ZenonT(30) DEF Goes
    <3> QED BY <1>1, <3>6, GoesKeeps, Zenon
  <2>12. ASSUME ~ConcurrentAdd, Inv2(g) PROVE Inv2(y)
    <3>1. StackOk(g) /\ \A v \in Threads : g.thread[v].pc = "idle"
      BY <1>2, <2>12, Zenon DEF Inv2
    <3>2. g.jobs["channel"] = <<>>
      BY <1>2, <2>12, <3>1, NothingPosted, Zenon
    <3>3. Range(g.jobs["channel"]) = {}
      BY <3>2 DEF Range
    <3>4. \A i \in Range(y.jobs["channel"]) : i.op = "add"
      BY <1>1, <2>4, <2>8, <3>3, Zenon DEF Moved
    <3>5. (\A t : ~Detaching(g, t)) /\ \A t : ~Detaching(y, t)
      BY <3>3, <3>4, Zenon DEF Detaching
    <3>6. g.chn.members = g.bound
      BY <1>1, <3>1, <3>5, ZenonT(30) DEF StackOk, StateType
    <3>7. /\ y.chn.members = g.bound /\ y.bound = g.bound /\ y.handed = g.handed /\ y.open
          /\ y.chn.shutting = g.chn.shutting
      BY <1>2, <2>2, <3>6, Zenon DEF Adding, SameRest
    <3>8. \A v \in Threads \ {u} : y.thread[v].arg \notin Stacks
      BY <1>1, <1>2, <2>2, NamesDiffer, ZenonT(30) DEF Adding, ThreadOk
    <3>9. StackOk(y)
      <4>1. s \in y.bound \/ Clean(y, s)
        <5>1. g.handed \subseteq g.bound
          BY <1>2, <3>1, Zenon DEF StackOk
        <5> QED BY <3>4, <3>7, <5>1, Zenon DEF Clean
      <4>2. \A i \in Range(y.jobs["channel"]) : i.op = "add" /\ i.arg = s
        BY <1>1, <2>4, <2>8, <3>3, Zenon DEF Moved
      <4>3. \A v \in Threads : y.thread[v].pc # "bind"
        BY <2>2, <3>1, Zenon DEF Adding
      <4>4. y.handed \subseteq y.bound
        BY <1>2, <3>1, <3>7, Zenon DEF StackOk
      <4> QED BY <1>4, <3>5, <3>7, <4>1, <4>2, <4>3, <4>4, ZenonT(30) DEF StackOk
    <3>10. LastOk(y)
      <4>1. LET r == g.jobs["channel"] \o <<j>> IN r[Len(r)] = j
        BY <1>1, <2>4, LastPosted, Zenon
      <4>2. y.jobs["channel"] = g.jobs["channel"] \o <<j>>
        BY <1>1, <2>6, Zenon
      <4> QED BY <2>4, <4>1, <4>2, Zenon DEF LastOk
    <3>11. HeadOk(y)
      <4>1. y.jobs["channel"] = <<j>>
        BY <1>1, <2>6, <2>7, <3>2
      <4>2. Range(Tail(<<j>>)) = {}
        BY <2>4 DEF Range
      <4> QED BY <4>1, <4>2, Zenon DEF HeadOk
    <3> QED BY <3>9, <3>10, <3>11, Zenon DEF Inv2
  <2> QED BY <2>1, <2>11, <2>12, Zenon
<1> QED BY <1>3, <1>4, Zenon

\* What the rest of Bind leaves when the route is in use.
Unlocked(x, y, u) ==
  /\ y \in StateType /\ y.jobs = x.jobs
  /\ y.thread[u].pc = "idle" /\ y.thread[u].arg = None /\ y.thread[u].todo = x.thread[u].todo
  /\ \A v \in Threads \ {u} : y.thread[v] = x.thread[v]
  /\ y.chn.owner = None /\ y.chn.shutting = x.chn.shutting /\ y.chn.members = x.chn.members
  /\ SameRest(x, y) /\ y.handed = x.handed

\* ... and in either case.
Added(x, y, u, s) ==
  /\ y \in StateType /\ y.jobs = x.jobs
  /\ y.thread[u].pc = "idle" /\ y.thread[u].arg = None /\ y.thread[u].todo = x.thread[u].todo
  /\ \A v \in Threads \ {u} : y.thread[v] = x.thread[v]
  /\ y.chn.owner = None /\ y.chn.shutting = x.chn.shutting
  /\ SameRest(x, y)
  /\ \/ /\ x.thread[u].pc = "inUse"
        /\ y.chn.members = x.chn.members /\ y.handed = x.handed
     \/ /\ x.thread[u].pc = "bind"
        /\ y.chn.members = IF x.chn.shutting THEN x.chn.members ELSE x.chn.members \cup {s}
        /\ y.handed = x.handed \cup {s}

\* The mutex is released.
LEMMA UnlockedFields ==
  ASSUME NEW x \in StateType, NEW u \in Threads
  PROVE  Unlocked(x, [At(x, u, "idle") EXCEPT !.chn.owner = None, !.thread[u].arg = None], u)
<1> DEFINE A == x.thread[u].arg
           T == x.thread[u].todo
           a == WithThread(x, u, Thread("idle", A, T))
           b == WithThread(x, u, Thread("idle", None, T))
           c == [b.chn EXCEPT !.owner = None]
           z == [b EXCEPT !.chn = c]
<1>1. A \in Stacks \cup {None, "manager"} /\ T \in SUBSET Members
  BY Zenon DEF StateType
<1>2. At(x, u, "idle") = a
  BY ThreadFields, Zenon
<1>3. [a EXCEPT !.thread[u].arg = None] = b
  <2>1. Fields(x, u, "idle", A, T, None)
    BY ThreadFields, Zenon
  <2> QED BY <2>1, ZenonT(30) DEF Fields
<1> HIDE DEF A, T
<1>4. a \in StateType
  <2>1. Threaded(x, a, u, "idle", A, T)
    BY <1>1, WithThreadFields, Zenon
  <2> QED BY <2>1, Zenon DEF Threaded
<1>5. /\ b \in StateType /\ SameRest(x, b) /\ b.chn = x.chn /\ b.jobs = x.jobs /\ b.handed = x.handed
      /\ b.thread[u].pc = "idle" /\ b.thread[u].arg = None /\ b.thread[u].todo = T
      /\ \A v \in Threads \ {u} : b.thread[v] = x.thread[v]
  <2> DEFINE N == None
  <2>1. N \in Stacks \cup {None, "manager"}
    BY Zenon
  <2> HIDE DEF N
  <2>2. Threaded(x, WithThread(x, u, Thread("idle", N, T)), u, "idle", N, T)
    BY <1>1, <2>1, WithThreadFields, ZenonT(30)
  <2> QED BY <2>2, Zenon DEF Threaded, N
<1> HIDE DEF a, b
<1>6. [a EXCEPT !.chn.owner = None, !.thread[u].arg = None] = z
  <2>1. [a EXCEPT !.chn.owner = None, !.thread[u].arg = None]
          = [[a EXCEPT !.thread[u].arg = None] EXCEPT !.chn.owner = None]
    BY <1>4, ZenonT(30) DEF StateType
  <2> QED BY <1>3, <2>1, ZenonT(30)
<1>7. /\ c \in [shutting : BOOLEAN, members : SUBSET Stacks, owner : Threads \cup {None}]
      /\ c.owner = None /\ c.shutting = b.chn.shutting /\ c.members = b.chn.members
  <2>1. b.chn \in [shutting : BOOLEAN, members : SUBSET Stacks, owner : Threads \cup {None}]
    BY <1>5, Zenon DEF StateType
  <2> QED BY <2>1, Zenon
<1> HIDE DEF c
<1>8. /\ z \in StateType /\ SameRest(b, z) /\ z.chn = c /\ z.jobs = b.jobs /\ z.handed = b.handed
      /\ z.thread = b.thread
  BY <1>5, <1>7, ZenonT(30) DEF StateType, SameRest
<1> HIDE DEF z
<1>9. SameRest(x, z)
  BY <1>5, <1>8, Zenon DEF SameRest
<1>10. Unlocked(x, z, u)
  BY <1>5, <1>7, <1>8, <1>9, Zenon DEF Unlocked, T
<1> QED BY <1>2, <1>6, <1>10, ZenonT(30)

\* The stack is bound to the resources and handed out, unless its route is in
\* use.
LEMMA AddedFields ==
  ASSUME g \in StateType, NEW u \in Threads, NEW s \in Stacks, s = g.thread[u].arg, AddStackEnds(u)
  PROVE  Added(g, g', u, s)
<1> DEFINE y == [At(g, u, "idle") EXCEPT !.chn.owner = None, !.thread[u].arg = None]
           c == Bind(y.chn, s)
           z == [y EXCEPT !.chn = c, !.handed = y.handed \cup {s}]
<1>1. Unlocked(g, y, u)
  BY UnlockedFields, Zenon
<1>2. \/ g.thread[u].pc = "bind" /\ g' = z
      \/ g.thread[u].pc = "inUse" /\ g' = y
  BY Zenon DEF AddStackEnds
<1> HIDE DEF y
<1>3. CASE g.thread[u].pc = "inUse" /\ g' = y
  BY <1>1, <1>3, Zenon DEF Unlocked, Added
<1>4. CASE g.thread[u].pc = "bind" /\ g' = z
  <2>1. /\ c \in [shutting : BOOLEAN, members : SUBSET Stacks, owner : Threads \cup {None}]
        /\ c.owner = y.chn.owner /\ c.shutting = y.chn.shutting
        /\ c.members = IF y.chn.shutting THEN y.chn.members ELSE y.chn.members \cup {s}
    <3>1. y.chn \in [shutting : BOOLEAN, members : SUBSET Stacks, owner : Threads \cup {None}]
      BY <1>1, Zenon DEF StateType, Unlocked
    <3> QED BY <3>1, Zenon DEF Bind
  <2> HIDE DEF c
  <2>2. /\ z \in StateType /\ SameRest(y, z) /\ z.chn = c /\ z.jobs = y.jobs /\ z.handed = y.handed \cup {s}
        /\ z.thread = y.thread
    <3>1. y \in StateType
      BY <1>1, Zenon DEF Unlocked
    <3> QED BY <2>1, <3>1, ZenonT(30) DEF StateType, SameRest
  <2> HIDE DEF z
  <2>3. SameRest(g, z)
    BY <1>1, <2>2, Zenon DEF SameRest, Unlocked
  <2> QED BY <1>1, <1>4, <2>1, <2>2, <2>3, Zenon DEF Unlocked, Added
<1> QED BY <1>2, <1>3, <1>4, Zenon

\* AddStack ends.
LEMMA AddStackEndsStep ==
  ASSUME Inv(g), NEW u \in Threads, AddStackEnds(u)
  PROVE  Inv(g') /\ (Inv2(g) => Inv2(g'))
<1> DEFINE s == g.thread[u].arg
           y == g'
<1>1. /\ g \in StateType /\ JobsOk(g) /\ ThreadOk(g) /\ ManagerOk(g) /\ ConnOk(g) /\ IsFiniteSet(g.chn.members)
      /\ "channel" \in Strands /\ g.thread[u].pc \in {"bind", "inUse"}
  BY Zenon DEF Inv, Strands, AddStackEnds
<1>3. s \in Stacks /\ g.chn.owner = u
  BY <1>1, ThreadFacts, SMTT(20)
<1>4. g.thread[u].todo = {} /\ s # "manager" /\ s # None
  BY <1>1, <1>3, NamesDiffer, Zenon DEF ThreadOk
<1>5. \A m \in Strands : \A i \in Range(g.jobs[m]) : i.who # u
  BY <1>1, NoJob, Zenon
<1>6. g.thread[u].arg = s
  BY Zenon
<1> HIDE DEF s
<1>7. Added(g, y, u, s)
  BY <1>1, <1>3, <1>6, AddedFields, ZenonT(30)
<1> HIDE DEF y
<1>8. \A v \in Threads \ {u} : g.thread[v].arg \notin Stacks /\ y.thread[v] = g.thread[v] /\ g.chn.owner # v
  BY <1>1, <1>3, <1>7, ZenonT(30) DEF ThreadOk, Added
<1>9. ThreadOk(y)
  <2>1. y.thread[u].pc = "idle" /\ y.thread[u].arg = None /\ y.thread[u].todo = {} /\ y.chn.owner = None
    BY <1>4, <1>7, Zenon DEF Added
  <2> QED BY <1>1, <1>8, <2>1, NamesDiffer, SMTT(20) DEF ThreadOk
<1>10. SameNet(g, y)
  <2>1. \A r \in {"channel"} \cup Conns : KeepsReach(g, y, r)
    BY <1>4, <1>6, <1>7, Zenon DEF KeepsReach, Added
  <2>2. \A v \in Threads : /\ y.thread[v].todo \subseteq g.thread[v].todo
                           /\ g.thread[v].todo \subseteq y.thread[v].todo
                           /\ y.thread[v].arg = "manager" <=> g.thread[v].arg = "manager"
    BY <1>4, <1>6, <1>7, NamesDiffer, Zenon DEF Added
  <2>3. /\ y.mgr = g.mgr /\ y.open = g.open /\ y.returned = g.returned
        /\ y.listening = g.listening /\ y.resources = g.resources
        /\ y.accepting = g.accepting /\ y.conn = g.conn
    BY <1>7, Zenon DEF Added, SameRest
  <2> QED BY <2>1, <2>2, <2>3, Zenon DEF SameNet
<1>11. Inv(y)
  <2> DEFINE E == {}
             U == {u}
  <2>1. y \in StateType /\ Later(g, y)
    BY <1>7, Zenon DEF Added, Later, SameRest
  <2>2. Only(g, y, U)
    BY <1>7, <1>8, NamesDiffer, Zenon DEF Added, Only
  <2>3. \A m \in Strands : \A i \in Range(y.jobs[m]) : i.who \in U => m = "channel" /\ i \in E
    BY <1>5, <1>7, Zenon DEF Added
  <2>4. Moved(g.jobs, y.jobs, "channel", E, E) /\ \A i \in E : JobOk(y, "channel", i)
    BY <1>1, <1>7, Unmoved, Zenon DEF Added
  <2>5. NetMoves(g, y)
    BY <1>1, <1>10, NetAlone, Zenon
  <2>6. IsFiniteSet(y.chn.members)
    <3>1. IsFiniteSet(g.chn.members \cup {s})
      BY <1>1, FiniteAdd, ZenonT(30)
    <3> QED BY <1>1, <1>7, <3>1, Zenon DEF Added
  <2> HIDE DEF E, U
  <2>7. Goes(g, y, "channel", E, E, U)
    BY <1>9, <2>1, <2>2, <2>3, <2>4, <2>5, <2>6, ZenonT(30) DEF Goes
  <2> QED BY <1>1, <2>7, GoesKeeps, Zenon
<1>12. ASSUME Inv2(g) PROVE Inv2(y)
  <2>1. StackOk(g) /\ HeadOk(g) /\ LastOk(g)
    BY <1>12, Zenon DEF Inv2
  <2>2. g.open /\ ~g.chn.shutting
    BY <1>1, <1>3, <2>1, NamesDiffer, ZenonT(30) DEF StackOk
  <2>3. /\ y.bound = g.bound /\ y.open = g.open /\ y.chn.shutting = g.chn.shutting /\ y.jobs = g.jobs
        /\ \/ y.chn.members = g.chn.members /\ y.handed = g.handed /\ g.thread[u].pc = "inUse"
           \/ y.chn.members = g.chn.members \cup {s} /\ y.handed = g.handed \cup {s} /\ g.thread[u].pc = "bind"
    BY <1>7, <2>2, Zenon DEF Added, SameRest
  <2>4. \A t : Detaching(g, t) <=> Detaching(y, t)
    BY <2>3, Zenon DEF Detaching
  <2>5. \A v \in Threads : y.thread[v].pc # "bind"
    <3>1. y.thread[u].pc = "idle" /\ \A v \in Threads \ {u} : g.thread[v].pc # "bind"
      BY <1>1, <1>3, <1>7, ThreadFacts, Zenon DEF Added
    <3> QED BY <1>8, <3>1, Zenon
  <2>6. y.bound \subseteq y.chn.members
    <3> SUFFICES ASSUME NEW t \in y.bound, t \notin y.chn.members PROVE FALSE
      BY Zenon
    <3>1. t \in g.bound \ g.chn.members
      BY <2>3, Zenon
    <3>2. PICK v \in Threads : g.thread[v].pc = "bind" /\ g.thread[v].arg = t
      BY <2>1, <3>1, Zenon DEF StackOk
    <3>3. v = u
      BY <1>1, <1>3, <3>2, ThreadFacts, Zenon
    <3> QED BY <1>6, <2>3, <3>2, <3>3, Zenon
  <2>7. g.thread[u].pc = "bind" => s \in g.bound /\ Clean(g, s)
    BY <1>6, <2>1, Zenon DEF StackOk
  <2>8. y.handed \subseteq y.bound
    BY <2>1, <2>2, <2>3, <2>7, Zenon DEF StackOk
  <2>9. ASSUME NEW j \in Range(y.jobs["channel"])
        PROVE  j.op # "add" /\ (j.op = "remove" => j.arg \notin y.handed)
    <3>1. JobOk(g, "channel", j) /\ j.who # u
      BY <1>1, <1>5, <2>3, Zenon DEF JobsOk
    <3>2. j.op # "add"
      BY <1>3, <3>1, Zenon DEF JobOk
    <3>3. j.op = "remove" => j.arg \notin g.handed
      BY <2>1, <2>3, Zenon DEF StackOk
    <3>4. g.thread[u].pc = "bind" /\ j.op = "remove" => j.arg # s
      BY <2>3, <2>7, Zenon DEF Clean
    <3> QED BY <2>3, <3>2, <3>3, <3>4, Zenon
  <2>10. \A t \in y.chn.members \ y.bound : Detaching(y, t)
    BY <2>1, <2>3, <2>4, <2>7, Zenon DEF StackOk
  <2>11. StackOk(y)
    BY <2>1, <2>2, <2>3, <2>4, <2>5, <2>6, <2>8, <2>9, <2>10, ZenonT(30) DEF StackOk
  <2>12. HeadOk(y) /\ LastOk(y)
    BY <2>1, <2>3, Zenon DEF HeadOk, LastOk
  <2> QED BY <2>11, <2>12, Zenon DEF Inv2
<1> QED BY <1>11, <1>12, Zenon DEF y

----------------------------------------------------------------------------
(* The connections.                                                        *)

\* The type of a connection.
ConnType ==
  [st : {"new", "refused", "open", "shut"}, socket : BOOLEAN, stack : BOOLEAN, timer : BOOLEAN, closes : Nat]

\* Connection l of x is c.
WithConn(x, l, c) == [x EXCEPT !.conn = [x.conn EXCEPT ![l] = c]]

\* Replacing one connection.
LEMMA WithConnFields ==
  ASSUME NEW x \in StateType, NEW l \in Conns, NEW c \in ConnType
  PROVE  LET z == WithConn(x, l, c) IN
         /\ z \in StateType /\ z.conn[l] = c /\ \A m \in Conns \ {l} : z.conn[m] = x.conn[m]
         /\ z.mgr = x.mgr /\ z.chn = x.chn /\ z.open = x.open /\ z.bound = x.bound /\ z.jobs = x.jobs
         /\ z.thread = x.thread /\ z.accepting = x.accepting /\ z.handed = x.handed /\ z.returned = x.returned
         /\ z.listening = x.listening /\ z.resources = x.resources
<1> DEFINE h == [x.conn EXCEPT ![l] = c]
           z == [x EXCEPT !.conn = h]
<1>1. h \in [Conns -> ConnType] /\ h[l] = c /\ \A m \in Conns \ {l} : h[m] = x.conn[m]
  BY Zenon DEF StateType, ConnType
<1> HIDE DEF h
<1>2. /\ z \in StateType /\ z.conn = h
      /\ z.mgr = x.mgr /\ z.chn = x.chn /\ z.open = x.open /\ z.bound = x.bound /\ z.jobs = x.jobs
      /\ z.thread = x.thread /\ z.accepting = x.accepting /\ z.handed = x.handed /\ z.returned = x.returned
      /\ z.listening = x.listening /\ z.resources = x.resources
  BY <1>1, ZenonT(30) DEF StateType, ConnType
<1>3. WithConn(x, l, c) = z
  BY Zenon DEF WithConn, h
<1> HIDE DEF z
<1> QED BY <1>1, <1>2, <1>3, Zenon

\* A step of connection l alone, which opens nothing and may post js to its own
\* strand.
OneConn(x, y, l, js) ==
  /\ y \in StateType /\ js \in Seq(Jobs) /\ y.jobs = [x.jobs EXCEPT ![l] = x.jobs[l] \o js]
  /\ y.mgr = x.mgr /\ y.chn = x.chn /\ y.open = x.open /\ y.bound = x.bound
  /\ y.thread = x.thread /\ y.handed = x.handed /\ y.returned = x.returned
  /\ y.listening = x.listening /\ y.resources = x.resources
  /\ \A m \in Conns \ {l} : y.conn[m] = x.conn[m] /\ (y.accepting = m => x.accepting = m)
  /\ ConnSound(y.conn[l]) /\ (y.accepting = l => y.conn[l].st = "new")
  /\ x.conn[l].st \in {"open", "shut"} => y.conn[l].st \in {"open", "shut"}
  /\ x.conn[l].st = "shut" => y.conn[l].st = "shut"
  /\ y.conn[l].st = "open" => x.conn[l].st = "open"
  /\ \A i \in Range(js) : i.who = None /\ JobOk(y, l, i)

\* A step of one connection that posts its own lambdas.
LEMMA OneConnStep ==
  ASSUME NEW x, Inv(x), NEW y, NEW l \in Conns, NEW js, OneConn(x, y, l, js)
  PROVE  Inv(y) /\ (Inv2(x) => Inv2(y))
<1> DEFINE N == Range(js)
           E == {}
<1>1. /\ x \in StateType /\ JobsOk(x) /\ ThreadOk(x) /\ ManagerOk(x) /\ ConnOk(x) /\ IsFiniteSet(x.chn.members)
      /\ x.jobs \in [Strands -> Seq(Jobs)] /\ Unique(x.jobs)
      /\ l \in Strands /\ "channel" \in Strands /\ "channel" # l
  BY NamesDiffer, ZenonT(30) DEF Inv, Strands, StateType, JobsOk, Unique
<1>2. /\ y \in StateType /\ js \in Seq(Jobs) /\ y.jobs = [x.jobs EXCEPT ![l] = x.jobs[l] \o js]
      /\ y.mgr = x.mgr /\ y.chn = x.chn /\ y.open = x.open /\ y.bound = x.bound
      /\ y.thread = x.thread /\ y.handed = x.handed /\ y.returned = x.returned
      /\ y.listening = x.listening /\ y.resources = x.resources
      /\ \A i \in Range(js) : i.who \notin Threads /\ JobOk(y, l, i)
  BY NamesDiffer, ZenonT(30) DEF OneConn
<1>3. \A i \in DOMAIN js : js[i] \in Range(js)
  BY Zenon DEF Range
<1>4. Distinct(js) /\ \A m \in Strands : Apart(x.jobs[m], js)
  BY <1>2, <1>3, ZenonT(30) DEF Distinct, Apart
<1>5. Moved(x.jobs, y.jobs, l, E, N)
  <2>1. Moved(x.jobs, [x.jobs EXCEPT ![l] = x.jobs[l] \o js], l, {}, Range(js))
    BY <1>1, <1>2, <1>4, Posting, ZenonT(30)
  <2> QED BY <1>2, <2>1, ZenonT(30)
<1>6. ThreadOk(y)
  <2>1. ThreadOk(x) /\ y.thread = x.thread /\ y.chn = x.chn
    BY <1>1, <1>2, Zenon
  <2> QED BY <2>1, ZenonT(30) DEF ThreadOk
<1>7. Later(x, y) /\ Only(x, y, E)
  <2>1. ASSUME NEW m \in Conns
        PROVE  /\ x.conn[m].st \in {"open", "shut"} => y.conn[m].st \in {"open", "shut"}
               /\ x.conn[m].st = "shut" => y.conn[m].st = "shut"
    BY Zenon DEF OneConn
  <2> QED BY <1>2, <2>1, Zenon DEF Later, Only
<1>8. \A r \in {"channel"} \cup Conns : KeepsReach(x, y, r)
  <2> SUFFICES ASSUME NEW r \in {"channel"} \cup Conns PROVE KeepsReach(x, y, r)
    BY Zenon
  <2>1. r \in Strands
    BY Zenon DEF Strands
  <2>2. \A i \in Range(x.jobs[r]) : i \in Range(y.jobs[r])
    BY <1>5, <2>1 DEF Moved
  <2>3. y.thread = x.thread
    BY <1>2, Zenon
  <2> QED BY <2>2, <2>3, Zenon DEF KeepsReach
<1>9. NetMoves(x, y)
  <2>1. ASSUME NEW m \in Conns PROVE ConnMoves(x, y, m)
    <3>1. y.mgr = x.mgr /\ KeepsReach(x, y, m)
      BY <1>2, <1>8, Zenon
    <3>2. CASE m = l
      BY <1>1, <3>1, <3>2, ZenonT(30) DEF ConnMoves, OneConn, ConnOk
    <3>3. CASE m # l
      <4>1. y.conn[m] = x.conn[m] /\ (y.accepting = m => x.accepting = m)
        BY <3>3, Zenon DEF OneConn
      <4> QED BY <1>1, <3>1, <4>1, ZenonT(30) DEF ConnMoves, ConnOk
    <3> QED BY <3>2, <3>3, Zenon
  <2>2. y.mgr = x.mgr /\ y.open = x.open /\ y.thread = x.thread /\ y.returned = x.returned
                      /\ y.listening = x.listening /\ y.resources = x.resources
    BY <1>2, Zenon
  <2>3. InHands(x, "listener") => InHands(y, "listener")
    BY <2>2, Zenon DEF InHands
  <2> QED BY <1>8, <2>1, <2>2, <2>3, Zenon DEF NetMoves
<1>10. Inv(y)
  <2>1. Goes(x, y, l, E, N, E)
    BY <1>1, <1>2, <1>5, <1>6, <1>7, <1>9, ZenonT(30) DEF Goes
  <2> HIDE DEF E, N
  <2> QED BY <1>1, <2>1, GoesKeeps, Zenon
<1>11. SameStacks(x, y) /\ y.jobs["channel"] = x.jobs["channel"]
  BY <1>1, <1>2, Zenon DEF SameStacks
<1> QED BY <1>10, <1>11, StacksAlone, Zenon

\* Connection l becomes c, and nothing is posted.
Changes(x, y, l, c) ==
  /\ c \in ConnType /\ ConnSound(c)
  /\ x.conn[l].st \in {"open", "shut"} => c.st \in {"open", "shut"}
  /\ x.conn[l].st = "shut" => c.st = "shut"
  /\ c.st = "open" => x.conn[l].st = "open"
  /\ y = WithConn(x, l, c)

\* A step of one connection that posts nothing.
LEMMA ChangesStep ==
  ASSUME NEW x, Inv(x), NEW y, NEW l \in Conns, NEW c, Changes(x, y, l, c), x.accepting = l => c.st = "new"
  PROVE  Inv(y) /\ (Inv2(x) => Inv2(y)) /\ y.conn[l] = c
<1>1. x \in StateType /\ x.jobs \in [Strands -> Seq(Jobs)] /\ l \in Strands /\ c \in ConnType
  BY Zenon DEF Inv, StateType, Strands, Changes
<1>2. LET z == WithConn(x, l, c) IN
      /\ z \in StateType /\ z.conn[l] = c /\ \A m \in Conns \ {l} : z.conn[m] = x.conn[m]
      /\ z.mgr = x.mgr /\ z.chn = x.chn /\ z.open = x.open /\ z.bound = x.bound /\ z.jobs = x.jobs
      /\ z.thread = x.thread /\ z.accepting = x.accepting /\ z.handed = x.handed /\ z.returned = x.returned
      /\ z.listening = x.listening /\ z.resources = x.resources
  BY <1>1, WithConnFields, Zenon
<1>3. /\ y \in StateType /\ y.conn[l] = c /\ \A m \in Conns \ {l} : y.conn[m] = x.conn[m]
      /\ y.mgr = x.mgr /\ y.chn = x.chn /\ y.open = x.open /\ y.bound = x.bound /\ y.jobs = x.jobs
      /\ y.thread = x.thread /\ y.accepting = x.accepting /\ y.handed = x.handed /\ y.returned = x.returned
      /\ y.listening = x.listening /\ y.resources = x.resources
  BY <1>2, Zenon DEF Changes
<1> DEFINE js == <<>>
<1>4. js \in Seq(Jobs) /\ Range(js) = {}
  BY DEF Range
<1>5. x.jobs[l] \o js = x.jobs[l]
  BY <1>1
<1>6. [x.jobs EXCEPT ![l] = x.jobs[l] \o js] = x.jobs
  BY <1>1, <1>5, Zenon
<1> HIDE DEF js
<1>7. OneConn(x, y, l, js)
  BY <1>3, <1>4, <1>6, Zenon DEF OneConn, Changes
<1> QED BY <1>3, <1>7, OneConnStep, Zenon

\* What the invariant says of one connection.
LEMMA ConnFacts ==
  ASSUME NEW x, Inv(x), NEW l \in Conns
  PROVE  /\ x \in StateType /\ x.conn[l] \in ConnType /\ ConnSound(x.conn[l])
         /\ x.accepting = l => x.conn[l].st = "new"
BY Zenon DEF Inv, StateType, ConnType, ConnOk

\* The listener accepts a connection.
LEMMA AcceptStep ==
  ASSUME Inv(g), NEW l \in Conns, Accept(l)
  PROVE  Inv(g') /\ (Inv2(g) => Inv2(g'))
<1>1. g.accepting = None /\ g.conn[l].st = "new" /\ None \notin Conns
  BY NamesDiffer, Zenon DEF Accept
<1>2. /\ g \in StateType /\ g.conn[l] \in ConnType /\ ConnSound(g.conn[l])
  BY ConnFacts, Zenon
<1>3. PICK accept \in BOOLEAN :
        g' = IF accept THEN [g EXCEPT !.accepting = l] ELSE [g EXCEPT !.conn[l].st = "refused"]
  BY Zenon DEF Accept
<1>4. CASE accept
  <2> DEFINE y == [g EXCEPT !.accepting = l]
             js == <<>>
  <2>1. /\ y \in StateType /\ y.accepting = l /\ y.conn = g.conn
        /\ y.mgr = g.mgr /\ y.chn = g.chn /\ y.open = g.open /\ y.bound = g.bound /\ y.jobs = g.jobs
        /\ y.thread = g.thread /\ y.handed = g.handed /\ y.returned = g.returned
        /\ y.listening = g.listening /\ y.resources = g.resources
    BY <1>2, ZenonT(30) DEF StateType
  <2>2. js \in Seq(Jobs) /\ Range(js) = {} /\ [g.jobs EXCEPT ![l] = g.jobs[l] \o js] = g.jobs
    BY <1>2, PostsNothing, Zenon
  <2> HIDE DEF y, js
  <2>3. OneConn(g, y, l, js)
    BY <1>1, <1>2, <2>1, <2>2, ZenonT(30) DEF OneConn
  <2>4. g' = y
    BY <1>3, <1>4, Zenon DEF y
  <2> QED BY <2>3, <2>4, OneConnStep, Zenon
<1>5. CASE ~accept
  <2> DEFINE c == [g.conn[l] EXCEPT !.st = "refused"]
  <2>1. c \in ConnType /\ c.st = "refused" /\ ConnSound(c)
    BY <1>1, <1>2, Zenon DEF ConnType, ConnSound
  <2>2. g' = WithConn(g, l, c)
    BY <1>3, <1>5, Zenon DEF WithConn
  <2> HIDE DEF c
  <2>3. Changes(g, g', l, c)
    BY <1>1, <2>1, <2>2, Zenon DEF Changes
  <2> QED BY <1>1, <2>3, ChangesStep, ZenonT(30)
<1> QED BY <1>4, <1>5, Zenon

\* No frame came in time: the socket is closed.
LEMMA FirstFrameTimeoutStep ==
  ASSUME Inv(g), NEW l \in Conns, FirstFrameTimeout(l)
  PROVE  Inv(g') /\ (Inv2(g) => Inv2(g'))
<1> DEFINE d == g.conn[l]
           c == [d EXCEPT !.timer = FALSE, !.socket = FALSE]
<1>1. /\ g \in StateType /\ d \in ConnType /\ ConnSound(d) /\ (g.accepting = l => d.st = "new")
  BY ConnFacts, Zenon
<1>2. d.st = "open"
  BY <1>1, Zenon DEF FirstFrameTimeout, ConnSound
<1>3. c \in ConnType /\ c.st = "open" /\ ConnSound(c)
  BY <1>1, <1>2, ZenonT(30) DEF ConnType, ConnSound
<1>4. g' = WithConn(g, l, c)
  <2>1. l \in DOMAIN g.conn /\ [g.conn EXCEPT ![l] = c] = [[g.conn EXCEPT ![l].timer = FALSE] EXCEPT ![l].socket = FALSE]
    BY <1>1, ZenonT(30) DEF StateType, ConnType
  <2> QED BY <1>1, <2>1, ZenonT(30) DEF FirstFrameTimeout, WithConn, StateType
<1>5. Changes(g, g', l, c)
  BY <1>2, <1>3, <1>4, Zenon DEF Changes
<1> HIDE DEF c
<1> QED BY <1>1, <1>2, <1>5, ChangesStep, ZenonT(30)

\* What ShutdownImpl posts.
Releases(x, l) ==
  (IF x.conn[l].stack THEN <<Job("release", l, None)>> ELSE <<>>) \o <<Job("detachConn", l, None)>>

\* What the shutdown of a connection posts.
LEMMA ReleasesFields ==
  ASSUME NEW x, NEW l \in Conns
  PROVE  /\ Releases(x, l) \in Seq(Jobs)
         /\ Range(Releases(x, l)) \subseteq {Job("release", l, None), Job("detachConn", l, None)}
<1> DEFINE a == Job("release", l, None)
           b == Job("detachConn", l, None)
           p == IF x.conn[l].stack THEN <<a>> ELSE <<>>
           q == <<b>>
<1>1. a \in Jobs /\ b \in Jobs
  BY Zenon DEF Job, Jobs, PostOps
<1> HIDE DEF a, b
<1>2. p \in Seq(Jobs) /\ Range(p) \subseteq {a} /\ q \in Seq(Jobs) /\ Range(q) = {b}
  BY <1>1, Singles, ZenonT(30)
<1> HIDE DEF p, q
<1>3. p \o q \in Seq(Jobs) /\ Range(p \o q) = Range(p) \cup Range(q)
  BY <1>2, ConcatRange
<1>4. Releases(x, l) = p \o q
  BY Zenon DEF Releases, p, q, a, b
<1> QED BY <1>2, <1>3, <1>4, Zenon DEF a, b

\* ShutdownImpl of a connection that is not shut.
Shut(x, y, l) ==
  /\ y \in StateType /\ y.jobs = [x.jobs EXCEPT ![l] = x.jobs[l] \o Releases(x, l)]
  /\ y.mgr = x.mgr /\ y.chn = x.chn /\ y.open = x.open /\ y.bound = x.bound
  /\ y.thread = x.thread /\ y.handed = x.handed /\ y.returned = x.returned /\ y.accepting = x.accepting
  /\ y.listening = x.listening /\ y.resources = x.resources
  /\ \A m \in Conns \ {l} : y.conn[m] = x.conn[m]
  /\ y.conn[l].st = "shut" /\ y.conn[l].closes = x.conn[l].closes + 1
  /\ ~y.conn[l].timer /\ ~y.conn[l].socket

\* ShutdownImpl shuts down a connection that is not shut down yet, and counts
\* it.
LEMMA ShutFields ==
  ASSUME NEW x \in StateType, NEW l \in Conns, x.conn[l].st # "shut"
  PROVE  Shut(x, ShutdownImpl(x, l), l)
<1> DEFINE d == x.conn[l]
           c == [d EXCEPT !.st = "shut", !.closes = d.closes + 1, !.timer = FALSE, !.socket = FALSE]
           z == WithConn(x, l, c)
           js == Releases(x, l)
           y == Post(z, l, js)
<1>1. d \in ConnType
  BY Zenon DEF StateType, ConnType
<1>2. c \in ConnType /\ c.st = "shut" /\ c.closes = d.closes + 1 /\ ~c.timer /\ ~c.socket
  <2> HIDE DEF d
  <2>1. d.closes + 1 \in Nat
    BY <1>1 DEF ConnType
  <2> QED BY <1>1, <2>1, ZenonT(30) DEF ConnType
<1>3. ShutdownImpl(x, l) = y
  <2>1. ShutdownImpl(x, l)
          = Post([x EXCEPT !.conn[l] = [@ EXCEPT !.st = "shut", !.closes = x.conn[l].closes + 1,
                                                 !.timer = FALSE, !.socket = FALSE]], l, Releases(x, l))
    BY Zenon DEF ShutdownImpl, Releases
  <2>2. [x EXCEPT !.conn[l] = [@ EXCEPT !.st = "shut", !.closes = x.conn[l].closes + 1,
                                        !.timer = FALSE, !.socket = FALSE]] = z
    BY Zenon DEF WithConn
  <2> QED BY <2>1, <2>2, Zenon
<1> HIDE DEF c
<1>4. /\ z \in StateType /\ z.conn[l] = c /\ \A m \in Conns \ {l} : z.conn[m] = x.conn[m]
      /\ z.mgr = x.mgr /\ z.chn = x.chn /\ z.open = x.open /\ z.bound = x.bound /\ z.jobs = x.jobs
      /\ z.thread = x.thread /\ z.accepting = x.accepting /\ z.handed = x.handed /\ z.returned = x.returned
      /\ z.listening = x.listening /\ z.resources = x.resources
  BY <1>2, WithConnFields, Zenon
<1>5. js \in Seq(Jobs) /\ l \in Strands
  BY ReleasesFields, Zenon DEF Strands
<1> HIDE DEF z, js
<1>6. /\ y \in StateType /\ y.jobs = [z.jobs EXCEPT ![l] = z.jobs[l] \o js]
      /\ SameRest(z, y) /\ y.chn = z.chn /\ y.thread = z.thread /\ y.handed = z.handed
  BY <1>4, <1>5, PostFields, ZenonT(30)
<1> HIDE DEF y
<1>7. Shut(x, y, l)
  BY <1>2, <1>4, <1>6, Zenon DEF Shut, SameRest, js
<1> QED BY <1>3, <1>7, Zenon

\* ShutdownImpl does nothing the second time.
LEMMA ShutdownImplStep ==
  ASSUME NEW x, Inv(x), NEW l \in Conns, x.conn[l].st \in {"open", "shut"}
  PROVE  LET y == ShutdownImpl(x, l) IN
         Inv(y) /\ (Inv2(x) => Inv2(y)) /\ y.conn[l].st = "shut"
<1> DEFINE y == ShutdownImpl(x, l)
           js == Releases(x, l)
<1>1. CASE x.conn[l].st = "shut"
  <2>1. y = x
    BY <1>1, Zenon DEF ShutdownImpl
  <2> QED BY <1>1, <2>1, Zenon
<1>2. CASE x.conn[l].st = "open"
  <2>1. /\ x \in StateType /\ x.conn[l] \in ConnType /\ ConnSound(x.conn[l]) /\ x.accepting # l
    BY <1>2, ConnFacts, Zenon
  <2>2. Shut(x, y, l)
    BY <1>2, <2>1, ShutFields, Zenon
  <2>3. js \in Seq(Jobs) /\ Range(js) \subseteq {Job("release", l, None), Job("detachConn", l, None)}
    BY ReleasesFields, Zenon
  <2> HIDE DEF y
  <2>4. \A i \in Range(js) : i.who = None /\ i.arg = l /\ i.op \in {"release", "detachConn"}
    BY <2>3 DEF Job
  <2>5. ConnSound(y.conn[l]) /\ y.accepting # l /\ y.conn[l].st = "shut"
    BY <1>2, <2>1, <2>2, SMTT(20) DEF ConnSound, Shut, ConnType
  <2>6. \A i \in Range(js) : JobOk(y, l, i)
    BY <2>4, <2>5, Zenon DEF JobOk, CallOps, PostOps
  <2>7. y.jobs = [x.jobs EXCEPT ![l] = x.jobs[l] \o js]
    BY <2>2, Zenon DEF Shut
  <2> HIDE DEF js
  <2>8. OneConn(x, y, l, js)
    <3>1. /\ y \in StateType /\ y.mgr = x.mgr /\ y.chn = x.chn /\ y.open = x.open /\ y.bound = x.bound
          /\ y.thread = x.thread /\ y.handed = x.handed /\ y.returned = x.returned
          /\ y.listening = x.listening /\ y.resources = x.resources
      BY <2>2, Zenon DEF Shut
    <3>2. \A m \in Conns \ {l} : y.conn[m] = x.conn[m] /\ (y.accepting = m => x.accepting = m)
      BY <2>2, Zenon DEF Shut
    <3>3. /\ x.conn[l].st \in {"open", "shut"} => y.conn[l].st \in {"open", "shut"}
          /\ x.conn[l].st = "shut" => y.conn[l].st = "shut"
          /\ y.conn[l].st = "open" => x.conn[l].st = "open"
      BY <1>2, <2>5, Zenon
    <3> QED BY <2>3, <2>4, <2>5, <2>6, <2>7, <3>1, <3>2, <3>3, ZenonT(30) DEF OneConn
  <2>9. Inv(y) /\ (Inv2(x) => Inv2(y))
    BY <2>8, OneConnStep, Zenon
  <2> QED BY <2>5, <2>9, Zenon DEF y
<1> QED BY <1>1, <1>2, Zenon

\* The first frame: the application accepts the session or refuses it.
LEMMA OnFrameStep ==
  ASSUME NEW x, Inv(x), NEW l \in Conns, x.conn[l].st \in {"open", "shut"}, NEW accept \in BOOLEAN
  PROVE  LET y == OnFrame(x, l, accept) IN
         Inv(y) /\ (Inv2(x) => Inv2(y)) /\ y.conn[l].st \in {"open", "shut"}
<1> DEFINE d == x.conn[l]
           c == [d EXCEPT !.timer = FALSE]
           y == [x EXCEPT !.conn[l].timer = FALSE]
           e == [y.conn[l] EXCEPT !.stack = TRUE]
           z == [y EXCEPT !.conn[l].stack = TRUE]
<1>1. /\ x \in StateType /\ d \in ConnType /\ ConnSound(d) /\ x.accepting # l
  BY ConnFacts, Zenon
<1>2. c \in ConnType /\ c.st = d.st /\ ConnSound(c)
  BY <1>1, ZenonT(30) DEF ConnType, ConnSound
<1>3. y = WithConn(x, l, c)
  BY Zenon DEF WithConn
<1> HIDE DEF y, c
<1>4. Changes(x, y, l, c)
  BY <1>2, <1>3, Zenon DEF Changes
<1>5. Inv(y) /\ (Inv2(x) => Inv2(y)) /\ y.conn[l] = c
  BY <1>1, <1>4, ChangesStep, Zenon
<1>6. y.conn[l] \in ConnType /\ ConnSound(y.conn[l]) /\ y.conn[l].st \in {"open", "shut"} /\ y.accepting # l
  BY <1>2, <1>5, ConnFacts, Zenon
<1>7. e \in ConnType /\ e.st = y.conn[l].st /\ ConnSound(e)
  BY <1>6, ZenonT(30) DEF ConnType, ConnSound
<1>8. z = WithConn(y, l, e)
  BY Zenon DEF WithConn
<1> HIDE DEF z, e
<1>9. Changes(y, z, l, e)
  BY <1>7, <1>8, Zenon DEF Changes
<1>10. Inv(z) /\ (Inv2(y) => Inv2(z)) /\ z.conn[l] = e
  BY <1>5, <1>6, <1>9, ChangesStep, Zenon
<1>11. LET w == ShutdownImpl(y, l) IN Inv(w) /\ (Inv2(y) => Inv2(w)) /\ w.conn[l].st = "shut"
  BY <1>5, <1>6, ShutdownImplStep, Zenon
<1>12. OnFrame(x, l, accept) = IF d.stack THEN x ELSE IF accept THEN z ELSE ShutdownImpl(y, l)
  BY Zenon DEF OnFrame, y, z
<1> QED BY <1>5, <1>6, <1>7, <1>10, <1>11, <1>12, Zenon

\* Something is read, or the connection breaks.
LEMMA ReadStep ==
  ASSUME Inv(g), NEW l \in Conns, Read(l) \/ Breaks(l)
  PROVE  Inv(g') /\ (Inv2(g) => Inv2(g'))
<1>1. g.conn[l].st = "open"
  BY ConnFacts, Zenon DEF Read, Breaks, ConnSound
<1>2. CASE Breaks(l)
  BY <1>1, <1>2, ShutdownImplStep, Zenon DEF Breaks
<1>3. CASE Read(l)
  <2>1. PICK a \in BOOLEAN, b \in BOOLEAN : g' = OnFrame(g, l, a) \/ g' = OnFrame(OnFrame(g, l, a), l, b)
    BY <1>3, Zenon DEF Read
  <2> DEFINE y == OnFrame(g, l, a)
  <2>2. Inv(y) /\ (Inv2(g) => Inv2(y)) /\ y.conn[l].st \in {"open", "shut"}
    BY <1>1, OnFrameStep, Zenon
  <2> HIDE DEF y
  <2>3. LET z == OnFrame(y, l, b) IN Inv(z) /\ (Inv2(y) => Inv2(z))
    BY <2>2, OnFrameStep, Zenon
  <2> QED BY <2>1, <2>2, <2>3, Zenon DEF y
<1> QED BY <1>2, <1>3, Zenon

\* The user shuts down the stack of a connection.
LEMMA BeginShutdownStep ==
  ASSUME Inv(g), NEW l \in Conns, BeginShutdown(l)
  PROVE  Inv(g') /\ (Inv2(g) => Inv2(g'))
<1> DEFINE j == Job("release", l, None)
           js == <<j>>
           y == Post(g, l, js)
<1>1. g \in StateType /\ l \in Strands /\ ConnSound(g.conn[l]) /\ (g.accepting = l => g.conn[l].st = "new")
  BY ConnFacts, Zenon DEF Strands
<1>2. g.conn[l].st \in {"open", "shut"} /\ g' = y
  BY <1>1, Zenon DEF BeginShutdown, ConnSound
<1>3. j \in Jobs /\ j.op = "release" /\ j.arg = l /\ j.who = None
  BY Zenon DEF Job, Jobs, PostOps
<1> HIDE DEF j
<1>4. js \in Seq(Jobs) /\ Range(js) = {j}
  BY <1>3, Singles, ZenonT(30)
<1> HIDE DEF js
<1>5. /\ y \in StateType /\ y.jobs = [g.jobs EXCEPT ![l] = g.jobs[l] \o js]
      /\ SameRest(g, y) /\ y.chn = g.chn /\ y.thread = g.thread /\ y.handed = g.handed
  BY <1>1, <1>4, PostFields, ZenonT(30)
<1> HIDE DEF y
<1>6. /\ y.mgr = g.mgr /\ y.open = g.open /\ y.bound = g.bound /\ y.returned = g.returned
      /\ y.listening = g.listening /\ y.resources = g.resources /\ y.accepting = g.accepting /\ y.conn = g.conn
  BY <1>5, Zenon DEF SameRest
<1>7. \A i \in Range(js) : i.who = None /\ JobOk(y, l, i)
  BY <1>2, <1>3, <1>4, <1>6, Zenon DEF JobOk, CallOps, PostOps
<1>8. OneConn(g, y, l, js)
  BY <1>1, <1>4, <1>5, <1>6, <1>7, ZenonT(30) DEF OneConn
<1> QED BY <1>2, <1>8, OneConnStep, Zenon

\* The new connection is refused when the manager shuts down, and is in its list
\* otherwise.
LEMMA BindConnStep ==
  ASSUME Inv(g), BindConn
  PROVE  Inv(g') /\ (Inv2(g) => Inv2(g'))
<1> DEFINE l == g.accepting
           m == Bind(g.mgr, l)
           y == [g EXCEPT !.mgr = m, !.accepting = None]
           o == [y.conn[l] EXCEPT !.st = "open", !.socket = TRUE, !.timer = TRUE]
           f == [y.conn[l] EXCEPT !.st = "refused"]
<1>1. /\ g \in StateType /\ JobsOk(g) /\ ThreadOk(g) /\ ManagerOk(g) /\ ConnOk(g) /\ IsFiniteSet(g.chn.members)
      /\ g.mgr \in [shutting : BOOLEAN, members : SUBSET Members, owner : Threads \cup {None}]
      /\ "channel" \in Strands /\ None \notin Conns
  BY NamesDiffer, Zenon DEF Inv, Strands, StateType
<1>2. l \in Conns
  BY <1>1, Zenon DEF BindConn, StateType
<1>3. g.conn[l] \in ConnType /\ ConnSound(g.conn[l]) /\ g.conn[l].st = "new"
  BY <1>2, ConnFacts, Zenon
<1>4. l \in Members
  BY <1>2, Zenon DEF Members
<1>5. /\ m \in [shutting : BOOLEAN, members : SUBSET Members, owner : Threads \cup {None}]
      /\ m.shutting = g.mgr.shutting
      /\ m.members = IF g.mgr.shutting THEN g.mgr.members ELSE g.mgr.members \cup {l}
      /\ g.mgr.shutting => m = g.mgr
  BY <1>1, <1>4, Zenon DEF Bind
<1>6. g' = IF l \in y.mgr.members THEN [y EXCEPT !.conn[l] = o] ELSE [y EXCEPT !.conn[l] = f]
  BY Zenon DEF BindConn
<1> HIDE DEF m
<1>7. /\ y \in StateType /\ y.mgr = m /\ y.accepting = None /\ y.conn = g.conn
      /\ y.chn = g.chn /\ y.open = g.open /\ y.bound = g.bound /\ y.jobs = g.jobs
      /\ y.thread = g.thread /\ y.handed = g.handed /\ y.returned = g.returned
      /\ y.listening = g.listening /\ y.resources = g.resources
  BY <1>1, <1>5, ZenonT(30) DEF StateType
<1> HIDE DEF y
<1>8. /\ o \in ConnType /\ ConnSound(o) /\ o.st = "open" /\ f \in ConnType /\ ConnSound(f) /\ f.st = "refused"
  BY <1>3, <1>7, ZenonT(30) DEF ConnType, ConnSound
<1>9. [y EXCEPT !.conn[l] = o] = WithConn(y, l, o) /\ [y EXCEPT !.conn[l] = f] = WithConn(y, l, f)
  BY Zenon DEF WithConn
<1> HIDE DEF o, f, l
<1>10. ASSUME NEW c \in ConnType PROVE
       LET z == WithConn(y, l, c) IN
       /\ z \in StateType /\ z.conn[l] = c /\ \A n \in Conns \ {l} : z.conn[n] = g.conn[n]
       /\ z.mgr = m /\ z.chn = g.chn /\ z.open = g.open /\ z.bound = g.bound /\ z.jobs = g.jobs
       /\ z.thread = g.thread /\ z.accepting = None /\ z.handed = g.handed /\ z.returned = g.returned
       /\ z.listening = g.listening /\ z.resources = g.resources
  <2>1. LET z == WithConn(y, l, c) IN
        /\ z \in StateType /\ z.conn[l] = c /\ \A n \in Conns \ {l} : z.conn[n] = y.conn[n]
        /\ z.mgr = y.mgr /\ z.chn = y.chn /\ z.open = y.open /\ z.bound = y.bound /\ z.jobs = y.jobs
        /\ z.thread = y.thread /\ z.accepting = y.accepting /\ z.handed = y.handed /\ z.returned = y.returned
        /\ z.listening = y.listening /\ z.resources = y.resources
    BY <1>2, <1>7, <1>10, WithConnFields, ZenonT(30)
  <2> QED BY <1>7, <2>1, Zenon
<1>11. CASE g.mgr.shutting
  <2> DEFINE z == WithConn(y, l, f)
             js == <<>>
  <2>1. g' = z
    BY <1>1, <1>5, <1>6, <1>7, <1>9, <1>11, Zenon DEF ManagerOk
  <2>2. /\ z \in StateType /\ z.conn[l] = f /\ \A n \in Conns \ {l} : z.conn[n] = g.conn[n]
        /\ z.mgr = g.mgr /\ z.chn = g.chn /\ z.open = g.open /\ z.bound = g.bound /\ z.jobs = g.jobs
        /\ z.thread = g.thread /\ z.accepting = None /\ z.handed = g.handed /\ z.returned = g.returned
        /\ z.listening = g.listening /\ z.resources = g.resources
    BY <1>5, <1>8, <1>10, <1>11, Zenon
  <2>3. js \in Seq(Jobs) /\ Range(js) = {} /\ [g.jobs EXCEPT ![l] = g.jobs[l] \o js] = g.jobs
    BY <1>1, <1>2, PostsNothing, ZenonT(30)
  <2> HIDE DEF z, js
  <2>4. OneConn(g, z, l, js)
    BY <1>1, <1>2, <1>3, <1>8, <2>2, <2>3, ZenonT(30) DEF OneConn
  <2> QED BY <1>2, <2>1, <2>4, OneConnStep, Zenon
<1>12. CASE ~g.mgr.shutting
  <2> DEFINE z == WithConn(y, l, o)
             E == {}
  <2>1. g' = z
    BY <1>5, <1>6, <1>7, <1>9, <1>12, Zenon
  <2>2. /\ z \in StateType /\ z.conn[l] = o /\ \A n \in Conns \ {l} : z.conn[n] = g.conn[n]
        /\ z.mgr = m /\ z.chn = g.chn /\ z.open = g.open /\ z.bound = g.bound /\ z.jobs = g.jobs
        /\ z.thread = g.thread /\ z.accepting = None /\ z.handed = g.handed /\ z.returned = g.returned
        /\ z.listening = g.listening /\ z.resources = g.resources
    BY <1>8, <1>10, ZenonT(30)
  <2> HIDE DEF z
  <2>3. m.members = g.mgr.members \cup {l} /\ ~m.shutting
    BY <1>5, <1>12, Zenon
  <2>4. \A r : KeepsReach(g, z, r)
    BY <2>2, Zenon DEF KeepsReach
  <2>5. NetMoves(g, z)
    <3>1. ASSUME NEW n \in Conns PROVE ConnMoves(g, z, n)
      <4>1. CASE n = l
        BY <1>1, <1>2, <1>8, <1>12, <2>2, <2>3, <4>1, ZenonT(30) DEF ConnMoves
      <4>2. CASE n # l
        <5>1. z.conn[n] = g.conn[n] /\ z.accepting # n /\ (n \in z.mgr.members <=> n \in g.mgr.members)
          BY <1>1, <2>2, <2>3, <4>2, ZenonT(30)
        <5> QED BY <1>1, <2>4, <5>1, ZenonT(30) DEF ConnMoves, ConnOk
      <4> QED BY <4>1, <4>2, Zenon
    <3>2. /\ z.returned = g.returned /\ z.mgr.shutting = g.mgr.shutting /\ ~g.mgr.shutting
          /\ z.listening = g.listening /\ z.resources = g.resources
          /\ z.open = g.open /\ g.mgr.members \subseteq z.mgr.members /\ z.thread = g.thread
      BY <1>5, <1>12, <2>2, <2>3, Zenon
    <3>3. InHands(g, "listener") => InHands(z, "listener")
      BY <3>2, Zenon DEF InHands
    <3> QED BY <2>4, <3>1, <3>2, <3>3, ZenonT(30) DEF NetMoves
  <2>6. Later(g, z) /\ Only(g, z, E) /\ IsFiniteSet(z.chn.members)
    <3>1. ASSUME NEW n \in Conns
          PROVE  /\ g.conn[n].st \in {"open", "shut"} => z.conn[n].st \in {"open", "shut"}
                 /\ g.conn[n].st = "shut" => z.conn[n].st = "shut"
      BY <1>3, <1>8, <2>2, Zenon
    <3> QED BY <1>1, <2>2, <3>1, Zenon DEF Later, Only
  <2>7. ThreadOk(z)
    <3>1. ThreadOk(g) /\ z.thread = g.thread /\ z.chn = g.chn
      BY <1>1, <2>2, Zenon
    <3> QED BY <3>1, ZenonT(30) DEF ThreadOk
  <2>8. Moved(g.jobs, z.jobs, "channel", E, E)
    BY <1>1, <2>2, Unmoved, Zenon
  <2>9. Goes(g, z, "channel", E, E, E)
    BY <2>2, <2>5, <2>6, <2>7, <2>8, ZenonT(30) DEF Goes
  <2> HIDE DEF E
  <2>10. Inv(z)
    BY <1>1, <2>9, GoesKeeps, Zenon
  <2>11. SameStacks(g, z) /\ z.jobs["channel"] = g.jobs["channel"]
    BY <2>2, Zenon DEF SameStacks
  <2> QED BY <2>1, <2>10, <2>11, StacksAlone, Zenon
<1> QED BY <1>11, <1>12, Zenon
=============================================================================
