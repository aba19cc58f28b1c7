-------------------------- MODULE LifecycleProofs --------------------------
(***************************************************************************)
(* The lambdas on the strands keep the invariants of LifecycleCalls, and   *)
(* what follows: the properties of Lifecycle for any number of threads,    *)
(* stacks and connections.                                                 *)
(***************************************************************************)
EXTENDS LifecycleCalls, FiniteSetTheorems

----------------------------------------------------------------------------
(* The lambdas.                                                            *)

\* The lambda at the head of strand k ran, and js was posted behind the others.
Ran(x, y, k, js) ==
  /\ y \in StateType /\ js \in Seq(Jobs) /\ x.jobs[k] # <<>>
  /\ y.jobs = [x.jobs EXCEPT ![k] = Tail(x.jobs[k]) \o js]
  /\ Distinct(js) /\ \A i \in Range(js) : i.who \in Threads => i.who = Head(x.jobs[k]).who

\* The first lambda is gone, the ones it posted are there.
LEMMA RanMoves ==
  ASSUME NEW x, Inv(x), NEW y, NEW k \in Strands, NEW js, Ran(x, y, k, js)
  PROVE  /\ Moved(x.jobs, y.jobs, k, {Head(x.jobs[k])}, Range(js))
         /\ Head(x.jobs[k]) \in Jobs /\ Head(x.jobs[k]) \in Range(x.jobs[k]) /\ JobOk(x, k, Head(x.jobs[k]))
<1>1. x.jobs \in [Strands -> Seq(Jobs)] /\ Unique(x.jobs) /\ JobsOk(x)
  BY Zenon DEF Inv, StateType, JobsOk, Unique
<1>2. /\ js \in Seq(Jobs) /\ x.jobs[k] # <<>> /\ Distinct(js)
      /\ \A i \in Range(js) : i.who \in Threads => i.who = Head(x.jobs[k]).who
      /\ y.jobs = [x.jobs EXCEPT ![k] = Tail(x.jobs[k]) \o js]
  BY Zenon DEF Ran
<1>3. Moved(x.jobs, [x.jobs EXCEPT ![k] = Tail(x.jobs[k]) \o js], k, {Head(x.jobs[k])}, Range(js))
  BY <1>1, <1>2, Running, ZenonT(30)
<1>4. Head(x.jobs[k]) \in Jobs /\ Head(x.jobs[k]) \in Range(x.jobs[k])
  BY <1>1, <1>2, TailRange, Zenon
<1> QED BY <1>1, <1>2, <1>3, <1>4, Zenon DEF JobsOk

\* It keeps the invariant when the state it leaves is sound, and only the thread
\* that waited for it goes on.
LEMMA RanKeeps ==
  ASSUME NEW x, Inv(x), NEW y, NEW k \in Strands, NEW js, Ran(x, y, k, js), NEW U \in SUBSET Threads,
         U \subseteq {Head(x.jobs[k]).who}, Later(x, y), Only(x, y, U),
         \A i \in Range(js) : JobOk(y, k, i),
         ThreadOk(y), NetMoves(x, y), IsFiniteSet(y.chn.members)
  PROVE  Inv(y)
<1> DEFINE a == Head(x.jobs[k])
           A == {a}
           N == Range(js)
<1>1. Moved(x.jobs, y.jobs, k, A, N)
  BY RanMoves, ZenonT(30)
<1>2. \A m \in Strands : \A j \in Range(y.jobs[m]) : j.who \in U => m = k /\ j \in N
  <2> SUFFICES ASSUME NEW m \in Strands, NEW j \in Range(y.jobs[m]), j.who \in U PROVE m = k /\ j \in N
    BY Zenon
  <2>1. j.who \in Threads /\ j.who = a.who /\ a \in A
    BY Zenon
  <2> HIDE DEF A, N
  <2> QED BY <1>1, <2>1, Zenon DEF Moved
<1>3. y \in StateType /\ \A j \in N : JobOk(y, k, j)
  BY Zenon DEF Ran
<1> HIDE DEF A, N
<1>4. Goes(x, y, k, A, N, U)
  BY <1>1, <1>2, <1>3, Zenon DEF Goes
<1> QED BY <1>4, GoesKeeps, Zenon

\* What shuts down r is still there unless it is what ran.
LEMMA RanReach ==
  ASSUME NEW x, Inv(x), NEW y, NEW k \in Strands, NEW js, Ran(x, y, k, js), NEW r \in {"channel"} \cup Conns,
         r # k \/ Head(x.jobs[k]).op # Closer(r),
         \A v \in Threads : y.thread[v].todo = x.thread[v].todo /\ y.thread[v].arg = x.thread[v].arg
  PROVE  KeepsReach(x, y, r)
<1>1. r \in Strands /\ Moved(x.jobs, y.jobs, k, {Head(x.jobs[k])}, Range(js))
  BY RanMoves, ZenonT(30) DEF Strands
<1>2. ASSUME NEW j \in Range(x.jobs[r]), j.op = Closer(r) PROVE j \in Range(y.jobs[r])
  <2>1. CASE r # k
    BY <1>1, <2>1, Zenon DEF Moved
  <2>2. CASE r = k
    <3>1. j # Head(x.jobs[k])
      BY <1>2, <2>2, Zenon
    <3> QED BY <1>1, <2>2, <3>1, Zenon DEF Moved
  <2> QED BY <2>1, <2>2, Zenon
<1> QED BY <1>2, Zenon DEF KeepsReach

\* It leaves the stacks alone, and the strand of an open channel still ends with
\* a lambda somebody waits for.
LEMMA RanStacks ==
  ASSUME NEW x, Inv(x), NEW y, Inv(y), Inv2(x), NEW k \in Strands, NEW js, Ran(x, y, k, js), SameStacks(x, y),
         k = "channel" => /\ Head(x.jobs[k]).op # "detachStack"
                          /\ js = <<>> \/ \E i \in Jobs : js = <<i>> /\ i.who \in Threads /\ i.op = "flushed"
  PROVE  Inv2(y)
<1>1. /\ x \in StateType /\ y \in StateType /\ ThreadOk(x) /\ ThreadOk(y) /\ StackOk(x) /\ HeadOk(x) /\ LastOk(x)
      /\ "channel" \in Strands /\ x.jobs \in [Strands -> Seq(Jobs)]
  BY Zenon DEF Inv, Inv2, Strands, StateType
<1>2. CASE k # "channel"
  <2>1. y.jobs["channel"] = x.jobs["channel"]
    BY <1>1, <1>2, Zenon DEF Ran
  <2> QED BY <2>1, StacksAlone, Zenon
<1>3. CASE k = "channel"
  <2>1. Moved(x.jobs, y.jobs, k, {Head(x.jobs[k])}, Range(js))
    BY RanMoves, ZenonT(30)
  <2>2. \A i \in Range(js) : i.op = "flushed"
    <3>1. CASE js = <<>>
      BY <3>1 DEF Range
    <3>2. ASSUME NEW i \in Jobs, js = <<i>>, i.op = "flushed" PROVE \A j \in Range(js) : j.op = "flushed"
      <4>1. Range(<<i>>) = {i}
        BY <3>2, Singles, ZenonT(30)
      <4> QED BY <3>2, <4>1, Zenon
    <3> QED BY <1>3, <3>1, <3>2, Zenon
  <2>3. SameWork(x, y)
    BY <1>3, <2>1, <2>2, Zenon DEF SameWork, Moved
  <2>4. StackOk(y)
    BY <1>1, <2>3, StacksKept, Zenon
  <2>5. /\ x.jobs["channel"] # <<>> /\ x.jobs["channel"] \in Seq(Jobs) /\ Tail(x.jobs["channel"]) \in Seq(Jobs)
        /\ y.jobs["channel"] = Tail(x.jobs["channel"]) \o js /\ (y.open => x.open)
    BY <1>1, <1>3, TailRange, Zenon DEF Ran, SameStacks
  <2>6. HeadOk(y)
    <3>1. js \in Seq(Jobs) /\ \A i \in Range(js) : i.op # "add"
      BY <2>2, Zenon DEF Ran
    <3> QED BY <1>1, <2>5, <3>1, HeadKept, ZenonT(30)
  <2>7. CASE js = <<>>
    <3>1. y.jobs["channel"] = Tail(x.jobs["channel"])
      BY <2>5, <2>7, Lens, Zenon
    <3> QED BY <1>1, <2>4, <2>5, <2>6, <3>1, LastKept, Zenon DEF Inv2
  <2>8. ASSUME NEW i \in Jobs, js = <<i>>, i.who \in Threads PROVE Inv2(y)
    <3>1. \E q \in Seq(Jobs), j \in Jobs : j.who \in Threads /\ y.jobs["channel"] = q \o <<j>>
      BY <2>5, <2>8, ZenonT(30)
    <3> QED BY <1>1, <2>4, <2>5, <2>6, <3>1, LastKept, ZenonT(30) DEF Inv2
  <2> QED BY <1>3, <2>7, <2>8, Zenon
<1> QED BY <1>2, <1>3, Zenon

\* Taking the lambda from the queue.
Popped(x, z, k) ==
  /\ z \in StateType /\ z.jobs = [x.jobs EXCEPT ![k] = Tail(x.jobs[k])]
  /\ SameRest(x, z) /\ z.chn = x.chn /\ z.thread = x.thread /\ z.handed = x.handed

\* Taking the first lambda from its queue.
LEMMA PoppedFields ==
  ASSUME NEW x \in StateType, NEW k \in Strands, x.jobs[k] # <<>>
  PROVE  Popped(x, [x EXCEPT !.jobs[k] = Tail(@)], k)
<1> DEFINE h == [x.jobs EXCEPT ![k] = Tail(x.jobs[k])]
           z == [x EXCEPT !.jobs = h]
<1>1. x.jobs \in [Strands -> Seq(Jobs)]
  BY Zenon DEF StateType
<1>2. Tail(x.jobs[k]) \in Seq(Jobs)
  BY <1>1, TailRange, Zenon
<1>3. h \in [Strands -> Seq(Jobs)]
  BY <1>1, <1>2, Zenon
<1> HIDE DEF h
<1>4. /\ z \in StateType /\ z.jobs = h
      /\ SameRest(x, z) /\ z.chn = x.chn /\ z.thread = x.thread /\ z.handed = x.handed
  BY <1>3, ZenonT(30) DEF StateType, SameRest
<1>5. [x EXCEPT !.jobs[k] = Tail(@)] = z
  BY Zenon DEF h
<1> HIDE DEF z
<1> QED BY <1>4, <1>5, Zenon DEF Popped, h

\* Nothing more is posted.
LEMMA RanNothing ==
  ASSUME NEW x \in StateType, NEW y \in StateType, NEW k \in Strands, x.jobs[k] # <<>>,
         y.jobs = [x.jobs EXCEPT ![k] = Tail(x.jobs[k])]
  PROVE  Ran(x, y, k, <<>>) /\ Range(<<>>) = {}
<1>1. x.jobs[k] \in Seq(Jobs)
  BY Zenon DEF StateType
<1>2. Tail(x.jobs[k]) \in Seq(Jobs)
  BY <1>1, TailRange, Zenon
<1>3. Tail(x.jobs[k]) \o <<>> = Tail(x.jobs[k])
  BY <1>2, Lens, Zenon
<1>4. <<>> \in Seq(Jobs) /\ Range(<<>>) = {} /\ Distinct(<<>>)
  BY DEF Range, Distinct
<1> QED BY <1>3, <1>4, Zenon DEF Ran

\* What the lambda posts, and at the end what tells its caller to go on.
Flushes(x, w, y, k, js, f) ==
  /\ Ran(x, y, k, js \o <<f>>) /\ Range(js \o <<f>>) = Range(js) \cup {f} /\ f \in Jobs
  /\ w.jobs[k] \in Seq(Jobs) /\ y.jobs[k] = w.jobs[k] \o <<f>>
  /\ SameRest(w, y) /\ y.chn = w.chn /\ y.thread = w.thread /\ y.handed = w.handed

\* A lambda that somebody waits for ends by posting the flush.
LEMMA RanFlush ==
  ASSUME NEW x \in StateType, NEW w \in StateType, NEW k \in Strands, x.jobs[k] # <<>>, NEW js \in Seq(Jobs),
         w.jobs = [x.jobs EXCEPT ![k] = Tail(x.jobs[k]) \o js], \A i \in Range(js) : i.who \notin Threads,
         Head(x.jobs[k]).who \in Threads
  PROVE  LET f == Job("flushed", None, Head(x.jobs[k]).who)
             y == Post(w, k, <<f>>)
         IN  Flushes(x, w, y, k, js, f)
<1> DEFINE f == Job("flushed", None, Head(x.jobs[k]).who)
           fs == <<f>>
           y == Post(w, k, fs)
           t == Tail(x.jobs[k])
<1>1. f \in Jobs /\ f.who = Head(x.jobs[k]).who
  BY Zenon DEF Job, Jobs, CallOps
<1> HIDE DEF f
<1>2. fs \in Seq(Jobs) /\ Range(fs) = {f} /\ Distinct(fs)
  BY <1>1, Singles, ZenonT(30)
<1>3. x.jobs \in [Strands -> Seq(Jobs)] /\ x.jobs[k] \in Seq(Jobs)
  BY Zenon DEF StateType
<1>4. t \in Seq(Jobs)
  BY <1>3, TailRange, Zenon
<1> HIDE DEF fs
<1>5. /\ y \in StateType /\ y.jobs = [w.jobs EXCEPT ![k] = w.jobs[k] \o fs]
      /\ SameRest(w, y) /\ y.chn = w.chn /\ y.thread = w.thread /\ y.handed = w.handed
  BY <1>2, PostFields, ZenonT(30)
<1> HIDE DEF y, t
<1>6. (t \o js) \o fs = t \o (js \o fs)
  BY <1>2, <1>4, ConcatTwice
<1>7. w.jobs = [x.jobs EXCEPT ![k] = t \o js]
  BY Zenon DEF t
<1>8. y.jobs = [x.jobs EXCEPT ![k] = t \o (js \o fs)]
  BY <1>3, <1>5, <1>6, <1>7, ZenonT(30)
<1>9. js \o fs \in Seq(Jobs) /\ Range(js \o fs) = Range(js) \cup Range(fs)
  BY <1>2, ConcatRange
<1>10. Distinct(js \o fs)
  <2>1. \A i \in DOMAIN js : js[i] \in Range(js)
    BY Zenon DEF Range
  <2>2. Distinct(js) /\ Apart(js, fs)
    BY <2>1, Zenon DEF Distinct, Apart
  <2> QED BY <1>2, <2>2, ConcatDistinct, Zenon
<1>11. Ran(x, y, k, js \o fs)
  BY <1>1, <1>2, <1>5, <1>8, <1>9, <1>10, Zenon DEF Ran, t
<1>12. w.jobs[k] \in Seq(Jobs) /\ y.jobs[k] = w.jobs[k] \o fs
  BY <1>5, Zenon DEF StateType
<1> QED BY <1>1, <1>2, <1>5, <1>9, <1>11, <1>12, ZenonT(30) DEF Flushes, f, fs, y

\* What is left alone by a lambda: NetMoves follows when what it did not shut
\* down can still be reached.
LEMMA RanNet ==
  ASSUME NEW x, Inv(x), NEW y, NEW k \in Strands, NEW js, Ran(x, y, k, js),
         y.mgr = x.mgr, y.open = x.open, y.returned = x.returned, y.accepting = x.accepting, y.conn = x.conn,
         y.listening = x.listening, y.resources = x.resources,
         \A v \in Threads : y.thread[v].todo = x.thread[v].todo /\ y.thread[v].arg = x.thread[v].arg,
         Head(x.jobs[k]).op = "close" => ~x.open,
         Head(x.jobs[k]).op = "shutConn" => x.conn[k].st = "shut"
  PROVE  NetMoves(x, y)
<1>1. ConnOk(x) /\ "channel" \notin Conns
  BY NamesDiffer, Zenon DEF Inv
<1>2. x.open => KeepsReach(x, y, "channel")
  <2> SUFFICES ASSUME x.open PROVE KeepsReach(x, y, "channel")
    BY Zenon
  <2>1. "channel" \in {"channel"} \cup Conns /\ Head(x.jobs[k]).op # Closer("channel")
    BY Zenon DEF Closer
  <2> QED BY <2>1, RanReach, ZenonT(30)
<1>3. ASSUME NEW l \in Conns, x.conn[l].st = "open" PROVE KeepsReach(x, y, l)
  <2>1. l \in {"channel"} \cup Conns /\ (l # k \/ Head(x.jobs[k]).op # Closer(l))
    BY <1>1, <1>3, Zenon DEF Closer
  <2> QED BY <2>1, RanReach, ZenonT(30)
<1>4. ASSUME NEW l \in Conns PROVE ConnMoves(x, y, l)
  BY <1>1, <1>3, Zenon DEF ConnMoves, ConnOk
<1>5. InHands(x, "listener") => InHands(y, "listener")
  BY Zenon DEF InHands
<1> QED BY <1>2, <1>4, <1>5, Zenon DEF NetMoves

\* A lambda that only posts others.
LEMMA QuietRan ==
  ASSUME NEW x, Inv(x), NEW y, NEW k \in Strands, NEW js, Ran(x, y, k, js),
         SameRest(x, y), y.chn = x.chn, y.thread = x.thread, y.handed = x.handed,
         \A i \in Range(js) : JobOk(y, k, i),
         Head(x.jobs[k]).op = "close" => ~x.open,
         Head(x.jobs[k]).op = "shutConn" => x.conn[k].st = "shut"
  PROVE  Inv(y) /\ SameStacks(x, y)
<1> DEFINE U == {}
<1>1. /\ y.mgr = x.mgr /\ y.open = x.open /\ y.bound = x.bound /\ y.returned = x.returned
      /\ y.listening = x.listening /\ y.resources = x.resources
      /\ y.accepting = x.accepting /\ y.conn = x.conn
  BY Zenon DEF SameRest
<1>2. NetMoves(x, y)
  BY <1>1, RanNet, Zenon
<1>3. ThreadOk(y) /\ IsFiniteSet(y.chn.members)
  BY DEF Inv, ThreadOk
<1>4. U \in SUBSET Threads /\ U \subseteq {Head(x.jobs[k]).who} /\ Later(x, y) /\ Only(x, y, U)
  BY <1>1, Zenon DEF Later, Only
<1> HIDE DEF U
<1>5. Inv(y)
  BY <1>2, <1>3, <1>4, RanKeeps, Zenon
<1>6. SameStacks(x, y)
  BY <1>1, Zenon DEF SameStacks
<1> QED BY <1>5, <1>6, Zenon

\* The flush has what it needs.
LEMMA FlushOk ==
  ASSUME NEW x, NEW y, NEW k \in Strands, NEW j, JobOk(x, k, j), j.op \in {"remove", "close", "shutConn"},
         y.thread = x.thread
  PROVE  JobOk(y, k, Job("flushed", None, j.who)) /\ j.who \in Threads
BY Zenon DEF JobOk, Job, CallOps, PostOps

\* A channel, or a connection, that is already shut down.
LEMMA AgainStep ==
  ASSUME NEW x, Inv(x), NEW k \in Strands, x.jobs[k] # <<>>, NEW z, Popped(x, z, k),
         \/ Head(x.jobs[k]).op = "close" /\ ~x.open
         \/ Head(x.jobs[k]).op = "shutConn" /\ x.conn[k].st = "shut"
  PROVE  LET y == Post(z, k, <<Job("flushed", None, Head(x.jobs[k]).who)>>)
         IN  Inv(y) /\ (Inv2(x) => Inv2(y))
<1> DEFINE j == Head(x.jobs[k])
           f == Job("flushed", None, j.who)
           y == Post(z, k, <<f>>)
           e == <<>>
           js == e \o <<f>>
<1>1. x \in StateType /\ x.jobs[k] \in Seq(Jobs) /\ JobsOk(x)
  BY Zenon DEF Inv, StateType
<1>2. z \in StateType /\ Ran(x, z, k, <<>>) /\ Range(<<>>) = {}
  BY <1>1, RanNothing, Zenon DEF Popped
<1>3. JobOk(x, k, j)
  BY <1>2, RanMoves, ZenonT(30)
<1>4. j.who \in Threads
  BY <1>3, FlushOk, Zenon
<1>5. e \in Seq(Jobs) /\ z.jobs = [x.jobs EXCEPT ![k] = Tail(x.jobs[k]) \o e] /\ \A i \in Range(e) : i.who \notin Threads
  BY <1>2, Zenon DEF Ran
<1> HIDE DEF e
<1>6. /\ Ran(x, y, k, js) /\ Range(js) = Range(e) \cup {f} /\ f \in Jobs
      /\ SameRest(z, y) /\ y.chn = z.chn /\ y.thread = z.thread /\ y.handed = z.handed
  <2>1. Flushes(x, z, y, k, e, f)
    BY <1>1, <1>2, <1>4, <1>5, RanFlush, ZenonT(30)
  <2> QED BY <2>1, ZenonT(30) DEF Flushes
<1>7. js = <<f>>
  BY <1>6 DEF e
<1> HIDE DEF y
<1>8. SameRest(x, y) /\ y.chn = x.chn /\ y.thread = x.thread /\ y.handed = x.handed
  BY <1>6, Zenon DEF SameRest, Popped
<1>9. JobOk(y, k, f)
  BY <1>3, <1>8, FlushOk, Zenon
<1>10. \A i \in Range(js) : JobOk(y, k, i)
  BY <1>2, <1>6, <1>9, Zenon DEF e
<1> HIDE DEF js
<1>11. Inv(y) /\ SameStacks(x, y)
  BY <1>6, <1>8, <1>10, QuietRan, Zenon
<1>12. \E i \in Jobs : js = <<i>> /\ i.who \in Threads /\ i.op = "flushed"
  BY <1>4, <1>6, <1>7, Zenon DEF Job
<1>13. Inv2(x) => Inv2(y)
  BY <1>6, <1>11, <1>12, RanStacks, Zenon
<1> QED BY <1>11, <1>13, Zenon DEF y

\* The user or the session released the stack of a connection.
LEMMA ReleaseStep ==
  ASSUME NEW x, Inv(x), NEW k \in Strands, x.jobs[k] # <<>>, NEW z, Popped(x, z, k), Head(x.jobs[k]).op = "release"
  PROVE  LET y == ShutdownImpl(z, Head(x.jobs[k]).arg) IN Inv(y) /\ (Inv2(x) => Inv2(y))
<1> DEFINE j == Head(x.jobs[k])
           e == <<>>
<1>1. x \in StateType /\ x.jobs[k] \in Seq(Jobs) /\ JobsOk(x)
  BY Zenon DEF Inv, StateType
<1>2. z \in StateType /\ Ran(x, z, k, e) /\ Range(e) = {}
  BY <1>1, RanNothing, Zenon DEF Popped
<1>3. JobOk(x, k, j)
  BY <1>2, RanMoves, ZenonT(30)
<1>4. j.arg = k /\ x.conn[k].st \in {"open", "shut"} /\ k \in Conns
  BY <1>3, Zenon DEF JobOk
<1>5. SameRest(x, z) /\ z.chn = x.chn /\ z.thread = x.thread /\ z.handed = x.handed
  BY Zenon DEF Popped
<1>6. e = <<>> /\ \A i \in Range(e) : JobOk(z, k, i)
  BY <1>2, Zenon
<1> HIDE DEF e
<1>7. Inv(z) /\ SameStacks(x, z)
  BY <1>2, <1>5, <1>6, QuietRan, Zenon
<1>8. Inv2(x) => Inv2(z)
  BY <1>2, <1>6, <1>7, RanStacks, Zenon
<1>9. z.conn[k].st \in {"open", "shut"}
  BY <1>4, <1>5, Zenon DEF SameRest
<1> QED BY <1>4, <1>7, <1>8, <1>9, ShutdownImplStep, Zenon

\* What the caller does next when the lambda j has run.
Onward(z, j) ==
  IF j.op = "add" THEN "inUse" ELSE IF z.thread[j.who].arg = "manager" THEN "shutting" ELSE "idle"

\* The caller goes on: everything is flushed, or the route was in use.
LEMMA GoesOnStep ==
  ASSUME NEW x, Inv(x), NEW k \in Strands, x.jobs[k] # <<>>, NEW z, Popped(x, z, k),
         Head(x.jobs[k]).op \in {"flushed", "add"}
  PROVE  LET y == At(z, Head(x.jobs[k]).who, Onward(z, Head(x.jobs[k])))
         IN  Inv(y) /\ (Inv2(x) => Inv2(y))
<1> DEFINE j == Head(x.jobs[k])
           u == j.who
           pc == Onward(z, j)
           y == At(z, u, pc)
           e == <<>>
           U == {u}
<1>1. x \in StateType /\ ThreadOk(x) /\ IsFiniteSet(x.chn.members)
  BY Zenon DEF Inv
<1>2. /\ z \in StateType /\ z.thread = x.thread /\ z.chn = x.chn /\ z.handed = x.handed /\ SameRest(x, z)
      /\ z.jobs = [x.jobs EXCEPT ![k] = Tail(x.jobs[k])]
  BY Zenon DEF Popped
<1>3. JobOk(x, k, j)
  BY <1>1, <1>2, RanNothing, RanMoves, ZenonT(30)
<1>4. /\ u \in Threads /\ x.thread[u].pc = "wait"
      /\ x.thread[u].arg \in Stacks <=> j.op = "add"
  BY <1>3, ZenonT(30) DEF JobOk, CallOps
<1>5. pc \in {"idle", "wait", "bind", "inUse", "shutting"} /\ pc # "bind"
  BY Zenon DEF Onward
<1> HIDE DEF pc, u
<1>6. /\ y \in StateType
      /\ y.thread = [z.thread EXCEPT ![u] = Thread(pc, z.thread[u].arg, z.thread[u].todo)]
      /\ SameRest(z, y) /\ y.chn = z.chn /\ y.jobs = z.jobs /\ y.handed = z.handed
  BY <1>2, <1>4, <1>5, AtFields, ZenonT(30)
<1> HIDE DEF y
<1>7. /\ y.mgr = x.mgr /\ y.open = x.open /\ y.bound = x.bound /\ y.returned = x.returned
      /\ y.listening = x.listening /\ y.resources = x.resources
      /\ y.accepting = x.accepting /\ y.conn = x.conn /\ y.chn = x.chn /\ y.handed = x.handed
      /\ y.jobs = [x.jobs EXCEPT ![k] = Tail(x.jobs[k])]
  BY <1>2, <1>6, Zenon DEF SameRest
<1>8. /\ y.thread[u].pc = pc /\ y.thread[u].arg = x.thread[u].arg /\ y.thread[u].todo = x.thread[u].todo
      /\ \A v \in Threads \ {u} : y.thread[v] = x.thread[v]
  BY <1>1, <1>2, <1>4, <1>6, SMTT(20) DEF StateType, Thread
<1>9. Ran(x, y, k, e) /\ Range(e) = {}
  BY <1>1, <1>6, <1>7, RanNothing, Zenon
<1>10. ThreadOk(y)
  <2>1. x.thread[u].arg \in Stacks \cup {None, "manager"} /\ None # "manager" /\ "manager" \notin Stacks /\ None \notin Stacks
    BY <1>1, <1>4, NamesDiffer, Zenon DEF StateType
  <2>2. pc = IF x.thread[u].arg \in Stacks THEN "inUse" ELSE IF x.thread[u].arg = "manager" THEN "shutting" ELSE "idle"
    BY <1>2, <1>4, Zenon DEF pc, Onward, u
  <2>3. y.chn = x.chn /\ ThreadOk(x)
    BY <1>1, <1>7, Zenon
  <2> QED BY <1>8, <2>1, <2>2, <2>3, SMTT(20) DEF ThreadOk
<1>11. \A v \in Threads : y.thread[v].todo = x.thread[v].todo /\ y.thread[v].arg = x.thread[v].arg
  BY <1>8, Zenon
<1>12. e = <<>> /\ \A i \in Range(e) : JobOk(y, k, i)
  BY <1>9, Zenon
<1> HIDE DEF e
<1>13. NetMoves(x, y)
  BY <1>7, <1>9, <1>11, RanNet
<1>14. U \in SUBSET Threads /\ U \subseteq {Head(x.jobs[k]).who} /\ Later(x, y) /\ Only(x, y, U)
  BY <1>4, <1>7, <1>8, ZenonT(30) DEF Later, Only, u
<1> HIDE DEF U
<1>15. Inv(y)
  BY <1>1, <1>7, <1>9, <1>10, <1>12, <1>13, <1>14, RanKeeps, Zenon
<1>16. SameStacks(x, y)
  BY <1>4, <1>5, <1>7, <1>8, Zenon DEF SameStacks
<1>17. Inv2(x) => Inv2(y)
  BY <1>9, <1>12, <1>15, <1>16, RanStacks, Zenon
<1> QED BY <1>15, <1>17, ZenonT(30) DEF y, pc, u

\* The stack is registered on the strand of the channel.
LEMMA AddRunStep ==
  ASSUME NEW x, Inv(x), NEW k \in Strands, x.jobs[k] # <<>>, NEW z, Popped(x, z, k),
         Head(x.jobs[k]).op = "add", Head(x.jobs[k]).arg \notin x.bound
  PROVE  LET j == Head(x.jobs[k])
             y == At([z EXCEPT !.bound = @ \cup {j.arg}], j.who, "bind")
         IN  Inv(y) /\ (Inv2(x) => Inv2(y))
<1> DEFINE j == Head(x.jobs[k])
           u == j.who
           s == j.arg
           w == [z EXCEPT !.bound = z.bound \cup {s}]
           y == At(w, u, "bind")
           e == <<>>
           U == {u}
<1>1. x \in StateType /\ ThreadOk(x) /\ IsFiniteSet(x.chn.members)
  BY Zenon DEF Inv
<1>2. /\ z \in StateType /\ z.thread = x.thread /\ z.chn = x.chn /\ z.handed = x.handed /\ SameRest(x, z)
      /\ z.jobs = [x.jobs EXCEPT ![k] = Tail(x.jobs[k])]
  BY Zenon DEF Popped
<1>3. JobOk(x, k, j) /\ j \in Range(x.jobs[k])
  BY <1>1, <1>2, RanNothing, RanMoves, ZenonT(30)
<1>4. /\ u \in Threads /\ x.thread[u].pc = "wait" /\ x.thread[u].arg = s /\ s \in Stacks /\ x.chn.owner = u
      /\ k = "channel"
  BY <1>3, ZenonT(30) DEF JobOk, CallOps
<1>5. z.bound = x.bound /\ z.bound \cup {s} \in SUBSET Stacks
  BY <1>1, <1>2, <1>4, Zenon DEF StateType, SameRest
<1> HIDE DEF u, s
<1>6. /\ w \in StateType /\ w.bound = x.bound \cup {s} /\ w.mgr = z.mgr /\ w.open = z.open /\ w.returned = z.returned
      /\ w.listening = z.listening /\ w.resources = z.resources
      /\ w.accepting = z.accepting /\ w.conn = z.conn /\ w.chn = z.chn /\ w.jobs = z.jobs /\ w.thread = z.thread
      /\ w.handed = z.handed
  BY <1>2, <1>5, ZenonT(30) DEF StateType
<1> HIDE DEF w
<1>7. /\ y \in StateType
      /\ y.thread = [w.thread EXCEPT ![u] = Thread("bind", w.thread[u].arg, w.thread[u].todo)]
      /\ SameRest(w, y) /\ y.chn = w.chn /\ y.jobs = w.jobs /\ y.handed = w.handed
  BY <1>4, <1>6, AtFields, ZenonT(30)
<1> HIDE DEF y
<1>8. /\ y.mgr = x.mgr /\ y.open = x.open /\ y.bound = x.bound \cup {s} /\ y.returned = x.returned
      /\ y.listening = x.listening /\ y.resources = x.resources
      /\ y.accepting = x.accepting /\ y.conn = x.conn /\ y.chn = x.chn /\ y.handed = x.handed
      /\ y.jobs = [x.jobs EXCEPT ![k] = Tail(x.jobs[k])]
  BY <1>2, <1>6, <1>7, Zenon DEF SameRest
<1>9. /\ y.thread[u].pc = "bind" /\ y.thread[u].arg = x.thread[u].arg /\ y.thread[u].todo = x.thread[u].todo
      /\ \A v \in Threads \ {u} : y.thread[v] = x.thread[v]
  BY <1>1, <1>2, <1>4, <1>6, <1>7, SMTT(20) DEF StateType, Thread
<1>10. Ran(x, y, k, e) /\ Range(e) = {}
  BY <1>1, <1>7, <1>8, RanNothing, Zenon
<1>11. ThreadOk(y)
  <2>1. y.chn = x.chn /\ ThreadOk(x) /\ "manager" \notin Stacks /\ None \notin Stacks
    BY <1>1, <1>8, NamesDiffer, Zenon
  <2> QED BY <1>4, <1>9, <2>1, SMTT(20) DEF ThreadOk
<1>12. \A v \in Threads : y.thread[v].todo = x.thread[v].todo /\ y.thread[v].arg = x.thread[v].arg
  BY <1>9, Zenon
<1>13. e = <<>> /\ \A i \in Range(e) : JobOk(y, k, i)
  BY <1>10, Zenon
<1> HIDE DEF e
<1>14. NetMoves(x, y)
  BY <1>8, <1>10, <1>12, RanNet
<1>15. U \in SUBSET Threads /\ U \subseteq {Head(x.jobs[k]).who} /\ Later(x, y) /\ Only(x, y, U)
  BY <1>4, <1>8, <1>9, ZenonT(30) DEF Later, Only, u
<1> HIDE DEF U
<1>16. Inv(y)
  BY <1>1, <1>8, <1>10, <1>11, <1>13, <1>14, <1>15, RanKeeps, Zenon
<1>17. ASSUME Inv2(x) PROVE Inv2(y)
  <2>1. StackOk(x) /\ HeadOk(x) /\ LastOk(x)
    BY <1>17, Zenon DEF Inv2
  <2>2. Moved(x.jobs, y.jobs, k, {Head(x.jobs[k])}, Range(e))
    BY <1>10, RanMoves, ZenonT(30)
  <2>3. \A i \in Range(y.jobs["channel"]) : i \in Range(x.jobs["channel"])
    BY <1>4, <1>10, <2>2, Zenon DEF Moved
  <2>4. \A i \in Range(x.jobs["channel"]) : i.op = "detachStack" => i \in Range(y.jobs["channel"])
    BY <1>4, <2>2, Zenon DEF Moved
  <2>5. \A t : Detaching(x, t) <=> Detaching(y, t)
    BY <2>3, <2>4, Zenon DEF Detaching
  <2>6. x.open /\ ~Detaching(x, s) /\ Clean(x, s)
    <3>1. Clean(x, s)
      BY <1>3, <1>4, <2>1, Zenon DEF StackOk, s
    <3> QED BY <1>4, <2>1, <3>1, NamesDiffer, Zenon DEF StackOk, Detaching, Clean
  <2>7. \A v \in Threads \ {u} : x.thread[v].pc # "bind"
    BY <1>1, <1>4, ThreadFacts, Zenon
  <2>8. \A t \in y.bound \ y.chn.members :
          \E v \in Threads : y.thread[v].pc = "bind" /\ y.thread[v].arg = t
    <3> SUFFICES ASSUME NEW t \in y.bound \ y.chn.members
                 PROVE  \E v \in Threads : y.thread[v].pc = "bind" /\ y.thread[v].arg = t
      BY Zenon
    <3>1. CASE t = s
      BY <1>4, <1>9, <3>1, Zenon
    <3>2. CASE t # s
      <4>1. t \in x.bound \ x.chn.members
        BY <1>8, <3>2, Zenon
      <4>2. PICK v \in Threads : x.thread[v].pc = "bind" /\ x.thread[v].arg = t
        BY <2>1, <4>1, Zenon DEF StackOk
      <4>3. v # u
        BY <1>4, <4>2, Zenon
      <4> QED BY <1>9, <4>2, <4>3, Zenon
    <3> QED BY <3>1, <3>2, Zenon
  <2>9. \A t \in y.chn.members \ y.bound : Detaching(y, t)
    BY <1>8, <2>1, <2>5, Zenon DEF StackOk
  <2>10. \A t \in y.bound : ~Detaching(y, t)
    BY <1>8, <2>1, <2>5, <2>6, Zenon DEF StackOk
  <2>11. ASSUME NEW v \in Threads, y.thread[v].pc = "bind"
         PROVE  y.thread[v].arg \in y.bound /\ Clean(y, y.thread[v].arg)
    <3>1. v = u
      <4>1. CASE v \in Threads \ {u}
        BY <1>9, <2>7, <2>11, <4>1, SMTT(20)
      <4> QED BY <4>1, Zenon
    <3>2. Clean(y, s)
      BY <1>8, <2>3, <2>6, Zenon DEF Clean
    <3>3. y.thread[v].arg = s
      BY <1>4, <1>9, <3>1, Zenon
    <3> QED BY <1>8, <3>2, <3>3, Zenon
  <2>12. /\ y.chn.shutting <=> ~y.open
         /\ ~y.open => y.bound = {} /\ y.chn.members = {} /\ y.chn.owner = None
         /\ y.handed \subseteq y.bound
    BY <1>8, <2>1, <2>6, Zenon DEF StackOk
  <2>13. x.jobs["channel"] # <<>> /\ y.jobs["channel"] = Tail(x.jobs["channel"]) /\ (y.open => x.open)
    BY <1>1, <1>4, <1>8, Zenon DEF StateType
  <2>14. \A i \in Range(y.jobs["channel"]) : i.op # "add" /\ (i.op = "remove" => i.arg \notin y.handed)
    BY <1>8, <2>1, <2>3, <2>13, Zenon DEF StackOk, HeadOk
  <2>15. StackOk(y)
    BY <2>8, <2>9, <2>10, <2>11, <2>12, <2>14, Zenon DEF StackOk
  <2>16. LastOk(y)
    BY <1>1, <1>7, <2>1, <2>13, LastKept, Zenon
  <2>17. HeadOk(y)
    <3>1. e \in Seq(Jobs) /\ \A i \in Range(e) : i.op # "add"
      BY <1>10, Zenon DEF Ran
    <3>2. y.jobs["channel"] = Tail(x.jobs["channel"]) \o e
      BY <1>1, <1>4, <1>10, Zenon DEF Ran, StateType
    <3> QED BY <1>1, <1>7, <2>1, <2>13, <3>1, <3>2, HeadKept, ZenonT(30)
  <2> QED BY <2>15, <2>16, <2>17, Zenon DEF Inv2
<1> QED BY <1>16, <1>17, Zenon DEF y, w, u, s

\* A stack is taken from the resources of the channel.
LEMMA DetachStackStep ==
  ASSUME NEW x, Inv(x), NEW k \in Strands, x.jobs[k] # <<>>, NEW z, Popped(x, z, k),
         Head(x.jobs[k]).op = "detachStack"
  PROVE  LET y == [z EXCEPT !.chn = Detach(@, Head(x.jobs[k]).arg)] IN Inv(y) /\ (Inv2(x) => Inv2(y))
<1> DEFINE j == Head(x.jobs[k])
           s == j.arg
           c == Detach(z.chn, s)
           y == [z EXCEPT !.chn = c]
           e == <<>>
           U == {}
<1>1. /\ x \in StateType /\ ThreadOk(x) /\ IsFiniteSet(x.chn.members)
      /\ x.chn \in [shutting : BOOLEAN, members : SUBSET Stacks, owner : Threads \cup {None}]
  BY Zenon DEF Inv, StateType
<1>2. /\ z \in StateType /\ z.thread = x.thread /\ z.chn = x.chn /\ z.handed = x.handed /\ SameRest(x, z)
      /\ z.jobs = [x.jobs EXCEPT ![k] = Tail(x.jobs[k])]
  BY Zenon DEF Popped
<1>3. JobOk(x, k, j) /\ j \in Range(x.jobs[k])
  BY <1>1, <1>2, RanNothing, RanMoves, ZenonT(30)
<1>4. s \in Stacks /\ k = "channel"
  BY <1>3, Zenon DEF JobOk
<1>5. /\ c \in [shutting : BOOLEAN, members : SUBSET Stacks, owner : Threads \cup {None}]
      /\ c.shutting = x.chn.shutting /\ c.members = x.chn.members \ {s} /\ c.owner = x.chn.owner
  BY <1>1, <1>2, Zenon DEF Detach
<1>6. LET w == [z EXCEPT !.chn = Detach(@, s)] IN w = y
  BY Zenon
<1> HIDE DEF c, s
<1>7. /\ y \in StateType /\ y.chn = c /\ y.bound = z.bound /\ y.mgr = z.mgr /\ y.open = z.open
      /\ y.returned = z.returned /\ y.accepting = z.accepting /\ y.conn = z.conn /\ y.jobs = z.jobs
      /\ y.listening = z.listening /\ y.resources = z.resources
      /\ y.thread = z.thread /\ y.handed = z.handed
  BY <1>2, <1>5, ZenonT(30) DEF StateType
<1> HIDE DEF y
<1>8. /\ y.mgr = x.mgr /\ y.open = x.open /\ y.bound = x.bound /\ y.returned = x.returned
      /\ y.listening = x.listening /\ y.resources = x.resources
      /\ y.accepting = x.accepting /\ y.conn = x.conn /\ y.thread = x.thread /\ y.handed = x.handed
      /\ y.jobs = [x.jobs EXCEPT ![k] = Tail(x.jobs[k])]
  BY <1>2, <1>7, Zenon DEF SameRest
<1>9. Ran(x, y, k, e) /\ Range(e) = {}
  BY <1>1, <1>7, <1>8, RanNothing, Zenon
<1>10. ThreadOk(y)
  <2>1. y.chn.owner = x.chn.owner /\ ThreadOk(x) /\ y.thread = x.thread
    BY <1>1, <1>5, <1>7, <1>8, Zenon
  <2> QED BY <2>1, Zenon DEF ThreadOk
<1>11. e = <<>> /\ \A i \in Range(e) : JobOk(y, k, i)
  BY <1>9, Zenon
<1> HIDE DEF e
<1>12. NetMoves(x, y)
  BY <1>8, <1>9, RanNet, Zenon
<1>13. U \in SUBSET Threads /\ U \subseteq {Head(x.jobs[k]).who} /\ Later(x, y) /\ Only(x, y, U)
  BY <1>5, <1>7, <1>8, Zenon DEF Later, Only
<1> HIDE DEF U
<1>14. IsFiniteSet(y.chn.members)
  <2>1. y.chn.members = x.chn.members \ {s}
    BY <1>5, <1>7, Zenon
  <2>2. IsFiniteSet(x.chn.members \ {s})
    BY <1>1, FiniteRemove, ZenonT(30)
  <2> QED BY <2>1, <2>2, Zenon
<1>15. Inv(y)
  BY <1>9, <1>10, <1>11, <1>12, <1>13, <1>14, RanKeeps, Zenon
<1>16. ASSUME Inv2(x) PROVE Inv2(y)
  <2>1. StackOk(x) /\ HeadOk(x) /\ LastOk(x)
    BY <1>16, Zenon DEF Inv2
  <2>2. Moved(x.jobs, y.jobs, k, {j}, Range(e))
    BY <1>9, RanMoves, ZenonT(30)
  <2>3. \A i \in Range(y.jobs["channel"]) : i \in Range(x.jobs["channel"])
    BY <1>4, <1>9, <2>2, Zenon DEF Moved
  <2>4. \A i \in Range(x.jobs["channel"]) : i.arg # s => i \in Range(y.jobs["channel"])
    BY <1>4, <2>2, Zenon DEF Moved, s
  <2>5. /\ \A t : Detaching(y, t) => Detaching(x, t)
        /\ \A t : t # s /\ Detaching(x, t) => Detaching(y, t)
    BY <2>3, <2>4, Zenon DEF Detaching
  <2>6. Detaching(x, s) /\ s \notin x.bound
    BY <1>3, <1>4, <2>1, Zenon DEF StackOk, Detaching, s
  <2>7. y.chn.members = x.chn.members \ {s} /\ y.chn.shutting = x.chn.shutting /\ y.chn.owner = x.chn.owner
    BY <1>5, <1>7, Zenon
  <2>8. \A t \in y.bound \ y.chn.members :
          \E v \in Threads : y.thread[v].pc = "bind" /\ y.thread[v].arg = t
    BY <1>8, <2>1, <2>6, <2>7, SMTT(20) DEF StackOk
  <2>9. \A t \in y.chn.members \ y.bound : Detaching(y, t)
    BY <1>8, <2>1, <2>5, <2>7, Zenon DEF StackOk
  <2>10. \A t \in y.bound : ~Detaching(y, t)
    BY <1>8, <2>1, <2>5, Zenon DEF StackOk
  <2>11. \A t : Clean(x, t) => Clean(y, t)
    BY <1>8, <2>3, <2>7, Zenon DEF Clean
  <2>12. \A v \in Threads : y.thread[v].pc = "bind" =>
           y.thread[v].arg \in y.bound /\ Clean(y, y.thread[v].arg)
    BY <1>8, <2>1, <2>11, Zenon DEF StackOk
  <2>13. \A i \in Range(y.jobs["channel"]) :
           /\ i.op = "add" => i.arg \in y.bound \/ Clean(y, i.arg)
           /\ i.op = "remove" => i.arg \notin y.handed
    BY <1>8, <2>1, <2>3, <2>11, Zenon DEF StackOk
  <2>14. /\ y.chn.shutting <=> ~y.open
         /\ ~y.open => y.bound = {} /\ y.chn.members = {} /\ y.chn.owner = None
         /\ y.open => y.handed \subseteq y.bound
    BY <1>8, <2>1, <2>7, Zenon DEF StackOk
  <2>15. StackOk(y)
    BY <2>8, <2>9, <2>10, <2>12, <2>13, <2>14, Zenon DEF StackOk
  <2>16. x.jobs["channel"] # <<>> /\ y.jobs["channel"] = Tail(x.jobs["channel"]) /\ (y.open => x.open)
    BY <1>1, <1>4, <1>8, Zenon DEF StateType
  <2>17. LastOk(y)
    BY <1>1, <1>7, <2>1, <2>16, LastKept, Zenon
  <2>18. HeadOk(y)
    <3>1. e \in Seq(Jobs) /\ \A i \in Range(e) : i.op # "add"
      BY <1>9, Zenon DEF Ran
    <3>2. y.jobs["channel"] = Tail(x.jobs["channel"]) \o e
      BY <1>1, <1>4, <1>9, Zenon DEF Ran, StateType
    <3> QED BY <1>1, <1>7, <2>1, <2>16, <3>1, <3>2, HeadKept, ZenonT(30)
  <2> QED BY <2>15, <2>17, <2>18, Zenon DEF Inv2
<1> QED BY <1>6, <1>15, <1>16, Zenon DEF s

\* The lambda j takes resource r from the manager.
Frees(j, r) ==
  \/ j.op = "detachChannel" /\ r = "channel"
  \/ j.op = "detachListener" /\ r = "listener"
  \/ j.op = "detachConn" /\ r = j.arg

Freed(x, r) == [x EXCEPT !.mgr = Detach(@, r)]

\* The channel, the listener or a connection is taken from the manager: it is
\* down.
LEMMA DetachMemberStep ==
  ASSUME NEW x, Inv(x), NEW k \in Strands, x.jobs[k] # <<>>, NEW z, Popped(x, z, k), NEW r, Frees(Head(x.jobs[k]), r)
  PROVE  Inv(Freed(z, r)) /\ (Inv2(x) => Inv2(Freed(z, r)))
<1> DEFINE j == Head(x.jobs[k])
           m == Detach(z.mgr, r)
           y == [z EXCEPT !.mgr = m]
           e == <<>>
           U == {}
<1>1. /\ x \in StateType /\ ThreadOk(x) /\ IsFiniteSet(x.chn.members) /\ ConnOk(x)
      /\ x.mgr \in [shutting : BOOLEAN, members : SUBSET Members, owner : Threads \cup {None}]
      /\ "channel" \notin Conns /\ "listener" \notin Conns
  BY NamesDiffer, Zenon DEF Inv, StateType
<1>2. /\ z \in StateType /\ z.thread = x.thread /\ z.chn = x.chn /\ z.handed = x.handed /\ SameRest(x, z)
      /\ z.jobs = [x.jobs EXCEPT ![k] = Tail(x.jobs[k])]
  BY Zenon DEF Popped
<1>3. JobOk(x, k, j)
  BY <1>1, <1>2, RanNothing, RanMoves, ZenonT(30)
<1>4. /\ r = "channel" => ~x.open
      /\ r = "listener" => ~x.listening
      /\ r \in Conns => x.conn[r].st = "shut"
  BY <1>1, <1>3, Zenon DEF JobOk, Frees
<1>5. /\ m \in [shutting : BOOLEAN, members : SUBSET Members, owner : Threads \cup {None}]
      /\ m.shutting = x.mgr.shutting /\ m.members = x.mgr.members \ {r}
  <2>1. z.mgr = x.mgr
    BY <1>2, Zenon DEF SameRest
  <2> QED BY <1>1, <2>1, Zenon DEF Detach
<1>6. Freed(z, r) = y
  BY Zenon DEF Freed
<1> HIDE DEF m
<1>7. /\ y \in StateType /\ y.mgr = m /\ y.bound = z.bound /\ y.chn = z.chn /\ y.open = z.open
      /\ y.returned = z.returned /\ y.accepting = z.accepting /\ y.conn = z.conn /\ y.jobs = z.jobs
      /\ y.listening = z.listening /\ y.resources = z.resources
      /\ y.thread = z.thread /\ y.handed = z.handed
  BY <1>2, <1>5, ZenonT(30) DEF StateType
<1> HIDE DEF y
<1>8. /\ y.chn = x.chn /\ y.open = x.open /\ y.bound = x.bound /\ y.returned = x.returned
      /\ y.listening = x.listening /\ y.resources = x.resources
      /\ y.accepting = x.accepting /\ y.conn = x.conn /\ y.thread = x.thread /\ y.handed = x.handed
      /\ y.jobs = [x.jobs EXCEPT ![k] = Tail(x.jobs[k])]
  BY <1>2, <1>7, Zenon DEF SameRest
<1>9. Ran(x, y, k, e) /\ Range(e) = {}
  BY <1>1, <1>7, <1>8, RanNothing, Zenon
<1>10. ThreadOk(y) /\ IsFiniteSet(y.chn.members)
  BY <1>1, <1>8 DEF ThreadOk
<1>11. e = <<>> /\ \A i \in Range(e) : JobOk(y, k, i)
  BY <1>9, Zenon
<1> HIDE DEF e
<1>12. NetMoves(x, y)
  <2>1. \A i \in {"channel"} \cup Conns : KeepsReach(x, y, i)
    <3> SUFFICES ASSUME NEW i \in {"channel"} \cup Conns PROVE KeepsReach(x, y, i)
      BY Zenon
    <3>1. Head(x.jobs[k]).op # Closer(i)
      BY Zenon DEF Closer, Frees
    <3> QED BY <1>8, <1>9, <3>1, RanReach, ZenonT(30)
  <2>2. ASSUME NEW l \in Conns PROVE ConnMoves(x, y, l)
    <3>1. /\ y.conn[l] = x.conn[l] /\ y.accepting = x.accepting /\ KeepsReach(x, y, l) /\ ConnOk(x)
          /\ l \in y.mgr.members => l \in x.mgr.members
          /\ x.conn[l].st = "open" /\ l \in x.mgr.members => l \in y.mgr.members
      BY <1>1, <1>4, <1>5, <1>7, <1>8, <2>1, ZenonT(30)
    <3> QED BY <3>1, Zenon DEF ConnMoves, ConnOk
  <2>3. y.open => ("channel" \in x.mgr.members => "channel" \in y.mgr.members)
    BY <1>4, <1>5, <1>7, <1>8, Zenon
  <2>4. y.mgr.members \subseteq x.mgr.members /\ y.mgr.shutting = x.mgr.shutting
    BY <1>5, <1>7, Zenon
  <2>5. y.listening => (InHands(x, "listener") => InHands(y, "listener"))
    BY <1>4, <1>5, <1>7, <1>8, Zenon DEF InHands
  <2> QED BY <1>8, <2>1, <2>2, <2>3, <2>4, <2>5, Zenon DEF NetMoves
<1>13. U \in SUBSET Threads /\ U \subseteq {Head(x.jobs[k]).who} /\ Later(x, y) /\ Only(x, y, U)
  BY <1>8, Zenon DEF Later, Only
<1> HIDE DEF U
<1>14. Inv(y)
  BY <1>9, <1>10, <1>11, <1>12, <1>13, RanKeeps, Zenon
<1>15. SameStacks(x, y)
  BY <1>8, Zenon DEF SameStacks
<1>16. Inv2(x) => Inv2(y)
  <2>1. Head(x.jobs[k]).op # "detachStack"
    BY Zenon DEF Frees
  <2> QED BY <1>9, <1>11, <1>14, <1>15, <2>1, RanStacks, Zenon
<1> QED BY <1>6, <1>14, <1>16, Zenon

\* A connection is shut down for the manager.
LEMMA ShutConnStep ==
  ASSUME NEW x, Inv(x), NEW k \in Strands, x.jobs[k] # <<>>, NEW z, Popped(x, z, k),
         Head(x.jobs[k]).op = "shutConn", x.conn[k].st # "shut"
  PROVE  LET j == Head(x.jobs[k])
             y == Post(ShutdownImpl(z, j.arg), k, <<Job("flushed", None, j.who)>>)
         IN  Inv(y) /\ (Inv2(x) => Inv2(y))
<1> DEFINE j == Head(x.jobs[k])
           f == Job("flushed", None, j.who)
           w == ShutdownImpl(z, k)
           R == Releases(z, k)
           y == Post(w, k, <<f>>)
           js == R \o <<f>>
           U == {}
<1>1. /\ x \in StateType /\ ThreadOk(x) /\ IsFiniteSet(x.chn.members) /\ ConnOk(x)
      /\ x.jobs \in [Strands -> Seq(Jobs)] /\ "channel" \notin Conns /\ None \notin Threads
  BY NamesDiffer, Zenon DEF Inv, StateType
<1>2. /\ z \in StateType /\ z.thread = x.thread /\ z.chn = x.chn /\ z.handed = x.handed
      /\ z.mgr = x.mgr /\ z.open = x.open /\ z.bound = x.bound /\ z.returned = x.returned
      /\ z.listening = x.listening /\ z.resources = x.resources
      /\ z.accepting = x.accepting /\ z.conn = x.conn
      /\ z.jobs = [x.jobs EXCEPT ![k] = Tail(x.jobs[k])]
  BY Zenon DEF Popped, SameRest
<1>3. JobOk(x, k, j)
  BY <1>1, <1>2, RanNothing, RanMoves, ZenonT(30)
<1>4. k \in Conns /\ j.arg = k /\ x.conn[k].st = "open" /\ j.who \in Threads
  BY <1>3, ZenonT(30) DEF JobOk, CallOps
<1>5. Shut(z, w, k)
  BY <1>2, <1>4, ShutFields, Zenon
<1>6. R \in Seq(Jobs) /\ Range(R) \subseteq {Job("release", k, None), Job("detachConn", k, None)}
  BY <1>4, ReleasesFields, Zenon
<1>7. \A i \in Range(R) : i.who = None /\ i.who \notin Threads /\ i.arg = k /\ i.op \in {"release", "detachConn"}
  BY <1>1, <1>6, SMTT(20) DEF Job
<1> HIDE DEF w, R
<1>8. w \in StateType /\ w.jobs = [x.jobs EXCEPT ![k] = Tail(x.jobs[k]) \o R]
  <2>1. w \in StateType /\ w.jobs = [z.jobs EXCEPT ![k] = z.jobs[k] \o R]
    BY <1>5, Zenon DEF Shut, R
  <2> QED BY <1>1, <1>2, <2>1, ZenonT(30)
<1>9. /\ Ran(x, y, k, js) /\ Range(js) = Range(R) \cup {f}
      /\ SameRest(w, y) /\ y.chn = w.chn /\ y.thread = w.thread /\ y.handed = w.handed
  <2>1. /\ x \in StateType /\ w \in StateType /\ R \in Seq(Jobs)
        /\ w.jobs = [x.jobs EXCEPT ![k] = Tail(x.jobs[k]) \o R]
        /\ \A i \in Range(R) : i.who \notin Threads
        /\ Head(x.jobs[k]).who \in Threads
    BY <1>1, <1>4, <1>6, <1>7, <1>8, Zenon
  <2>2. Flushes(x, w, y, k, R, f)
    BY <2>1, RanFlush, ZenonT(30)
  <2> QED BY <2>2, ZenonT(30) DEF Flushes
<1> HIDE DEF y, js
<1>10. /\ y.mgr = x.mgr /\ y.open = x.open /\ y.bound = x.bound /\ y.returned = x.returned
       /\ y.listening = x.listening /\ y.resources = x.resources
       /\ y.accepting = x.accepting /\ y.chn = x.chn /\ y.thread = x.thread /\ y.handed = x.handed
       /\ \A l \in Conns \ {k} : y.conn[l] = x.conn[l]
       /\ y.conn[k].st = "shut" /\ y.conn[k].closes = x.conn[k].closes + 1
       /\ ~y.conn[k].timer /\ ~y.conn[k].socket
  BY <1>2, <1>5, <1>9, ZenonT(30) DEF Shut, SameRest
<1>11. \A i \in Range(js) : JobOk(y, k, i)
  <2>1. JobOk(y, k, f)
    BY <1>3, <1>10, FlushOk, Zenon
  <2>2. \A i \in Range(R) : JobOk(y, k, i)
    BY <1>4, <1>7, <1>10, Zenon DEF JobOk, CallOps, PostOps
  <2> QED BY <1>9, <2>1, <2>2, Zenon
<1>12. ThreadOk(y) /\ IsFiniteSet(y.chn.members)
  BY <1>1, <1>10, SMTT(20) DEF ThreadOk
<1>13. NetMoves(x, y)
  <2>1. \A i \in {"channel"} \cup Conns : i # k => KeepsReach(x, y, i)
    BY <1>9, <1>10, RanReach, ZenonT(30)
  <2>2. ASSUME NEW l \in Conns PROVE ConnMoves(x, y, l)
    <3>1. CASE l = k
      <4>1. ConnSound(x.conn[k]) /\ x.accepting # k
        BY <1>1, <1>4, Zenon DEF ConnOk
      <4>2. ConnSound(y.conn[k])
        BY <1>4, <1>10, <4>1, SMTT(20) DEF ConnSound
      <4> QED BY <1>10, <3>1, <4>1, <4>2, Zenon DEF ConnMoves
    <3>2. CASE l # k
      <4>1. y.conn[l] = x.conn[l] /\ y.accepting = x.accepting /\ KeepsReach(x, y, l) /\ y.mgr = x.mgr
        BY <1>10, <2>1, <3>2, Zenon
      <4> QED BY <1>1, <4>1, Zenon DEF ConnMoves, ConnOk
    <3> QED BY <3>1, <3>2, Zenon
  <2>3. KeepsReach(x, y, "channel")
    BY <1>1, <1>4, <2>1, Zenon
  <2>4. InHands(x, "listener") => InHands(y, "listener")
    BY <1>10, Zenon DEF InHands
  <2> QED BY <1>10, <2>2, <2>3, <2>4, Zenon DEF NetMoves
<1>14. Later(x, y)
  <2>1. ASSUME NEW l \in Conns
        PROVE  /\ x.conn[l].st \in {"open", "shut"} => y.conn[l].st \in {"open", "shut"}
               /\ x.conn[l].st = "shut" => y.conn[l].st = "shut"
    BY <1>10, Zenon
  <2> QED BY <1>10, <2>1, Zenon DEF Later
<1>15. U \in SUBSET Threads /\ U \subseteq {Head(x.jobs[k]).who} /\ Only(x, y, U)
  BY <1>10, Zenon DEF Only
<1> HIDE DEF U
<1>16. Inv(y)
  BY <1>9, <1>11, <1>12, <1>13, <1>14, <1>15, RanKeeps, Zenon
<1>17. SameStacks(x, y) /\ k # "channel"
  BY <1>1, <1>4, <1>10, Zenon DEF SameStacks
<1>18. Inv2(x) => Inv2(y)
  BY <1>9, <1>16, <1>17, RanStacks, Zenon
<1> QED BY <1>4, <1>16, <1>18, Zenon DEF y, w

\* A stack is shut down by the user.
LEMMA RemoveStep ==
  ASSUME NEW x, Inv(x), NEW k \in Strands, x.jobs[k] # <<>>, NEW z, Popped(x, z, k), Head(x.jobs[k]).op = "remove"
  PROVE  LET j == Head(x.jobs[k])
             y == Post(PerformShutdown(z, j.arg), k, <<Job("flushed", None, j.who)>>)
         IN  Inv(y) /\ (Inv2(x) => Inv2(y))
<1> DEFINE j == Head(x.jobs[k])
           s == j.arg
           f == Job("flushed", None, j.who)
           d == Job("detachStack", s, None)
           R == <<d>>
           b == [z EXCEPT !.bound = z.bound \ {s}]
           w == PerformShutdown(z, s)
           y == Post(w, k, <<f>>)
           js == R \o <<f>>
           U == {}
<1>1. /\ x \in StateType /\ ThreadOk(x) /\ IsFiniteSet(x.chn.members) /\ ConnOk(x)
      /\ x.jobs \in [Strands -> Seq(Jobs)] /\ None \notin Threads
  BY NamesDiffer, Zenon DEF Inv, StateType
<1>2. /\ z \in StateType /\ z.thread = x.thread /\ z.chn = x.chn /\ z.handed = x.handed
      /\ z.mgr = x.mgr /\ z.open = x.open /\ z.bound = x.bound /\ z.returned = x.returned
      /\ z.listening = x.listening /\ z.resources = x.resources
      /\ z.accepting = x.accepting /\ z.conn = x.conn
      /\ z.jobs = [x.jobs EXCEPT ![k] = Tail(x.jobs[k])]
  BY Zenon DEF Popped, SameRest
<1>3. JobOk(x, k, j) /\ j \in Range(x.jobs[k])
  BY <1>1, <1>2, RanNothing, RanMoves, ZenonT(30)
<1>4. k = "channel" /\ s \in Stacks /\ j.who \in Threads
  BY <1>3, ZenonT(30) DEF JobOk, CallOps
<1>5. d \in Jobs /\ d.op = "detachStack" /\ d.arg = s /\ d.who = None
  BY <1>4, Zenon DEF Job, Jobs, PostOps
<1>6. w = Post(b, k, R)
  BY <1>4, Zenon DEF PerformShutdown
<1> HIDE DEF s, d
<1>7. R \in Seq(Jobs) /\ Range(R) = {d}
  BY <1>5, Singles, ZenonT(30)
<1>8. /\ b \in StateType /\ b.bound = x.bound \ {s} /\ b.mgr = z.mgr /\ b.open = z.open /\ b.returned = z.returned
      /\ b.listening = z.listening /\ b.resources = z.resources
      /\ b.accepting = z.accepting /\ b.conn = z.conn /\ b.chn = z.chn /\ b.jobs = z.jobs /\ b.thread = z.thread
      /\ b.handed = z.handed
  BY <1>2, ZenonT(30) DEF StateType
<1> HIDE DEF b, R, w
<1>9. /\ w \in StateType /\ w.jobs = [b.jobs EXCEPT ![k] = b.jobs[k] \o R]
      /\ SameRest(b, w) /\ w.chn = b.chn /\ w.thread = b.thread /\ w.handed = b.handed
  BY <1>6, <1>7, <1>8, PostFields, ZenonT(30)
<1>10. w.jobs = [x.jobs EXCEPT ![k] = Tail(x.jobs[k]) \o R]
  <2>1. w.jobs = [z.jobs EXCEPT ![k] = z.jobs[k] \o R]
    BY <1>8, <1>9, Zenon
  <2> QED BY <1>1, <1>2, <2>1, ZenonT(30)
<1>11. \A i \in Range(R) : i.who \notin Threads
  BY <1>1, <1>5, <1>7, Zenon
<1>12. /\ Ran(x, y, k, js) /\ Range(js) = Range(R) \cup {f} /\ f \in Jobs
       /\ w.jobs[k] \in Seq(Jobs) /\ y.jobs[k] = w.jobs[k] \o <<f>>
       /\ SameRest(w, y) /\ y.chn = w.chn /\ y.thread = w.thread /\ y.handed = w.handed
  <2>1. /\ x \in StateType /\ w \in StateType /\ R \in Seq(Jobs)
        /\ w.jobs = [x.jobs EXCEPT ![k] = Tail(x.jobs[k]) \o R]
        /\ \A i \in Range(R) : i.who \notin Threads
        /\ Head(x.jobs[k]).who \in Threads
    BY <1>1, <1>4, <1>7, <1>9, <1>10, <1>11, Zenon
  <2>2. Flushes(x, w, y, k, R, f)
    BY <2>1, RanFlush, ZenonT(30)
  <2> QED BY <2>2, ZenonT(30) DEF Flushes
<1> HIDE DEF y, js
<1>13. /\ y.mgr = x.mgr /\ y.open = x.open /\ y.bound = x.bound \ {s} /\ y.returned = x.returned
       /\ y.listening = x.listening /\ y.resources = x.resources
       /\ y.accepting = x.accepting /\ y.chn = x.chn /\ y.thread = x.thread /\ y.handed = x.handed
       /\ y.conn = x.conn
  <2>1. SameRest(w, y) /\ SameRest(b, w) /\ y.chn = b.chn /\ y.thread = b.thread /\ y.handed = b.handed
    BY <1>9, <1>12, Zenon
  <2>2. /\ y.mgr = b.mgr /\ y.open = b.open /\ y.bound = b.bound /\ y.returned = b.returned
        /\ y.listening = b.listening /\ y.resources = b.resources
        /\ y.accepting = b.accepting /\ y.conn = b.conn
    BY <2>1, Zenon DEF SameRest
  <2> QED BY <1>2, <1>8, <2>1, <2>2, Zenon
<1>14. \A i \in Range(js) : JobOk(y, k, i)
  <2>1. JobOk(y, k, f)
    BY <1>3, <1>13, FlushOk, Zenon
  <2>2. JobOk(y, k, d)
    BY <1>4, <1>5, Zenon DEF JobOk, CallOps, PostOps
  <2> QED BY <1>7, <1>12, <2>1, <2>2, Zenon
<1>15. ThreadOk(y) /\ IsFiniteSet(y.chn.members)
  BY <1>1, <1>13 DEF ThreadOk
<1>16. NetMoves(x, y)
  BY <1>12, <1>13, RanNet, ZenonT(30)
<1>17. U \in SUBSET Threads /\ U \subseteq {Head(x.jobs[k]).who} /\ Later(x, y) /\ Only(x, y, U)
  BY <1>13, Zenon DEF Only, Later
<1> HIDE DEF U
<1>18. Inv(y)
  BY <1>12, <1>14, <1>15, <1>16, <1>17, RanKeeps, ZenonT(30)
<1>19. ASSUME Inv2(x) PROVE Inv2(y)
  <2>1. StackOk(x) /\ HeadOk(x) /\ LastOk(x)
    BY <1>19, Zenon DEF Inv2
  <2>2. Moved(x.jobs, y.jobs, k, {j}, Range(js))
    BY <1>12, RanMoves, ZenonT(30)
  <2>3. \A i \in Range(y.jobs["channel"]) : i \in Range(x.jobs["channel"]) \/ i = d \/ i = f
    BY <1>4, <1>7, <1>12, <2>2, ZenonT(30) DEF Moved
  <2>4. /\ \A i \in Range(x.jobs["channel"]) : i.op = "detachStack" => i \in Range(y.jobs["channel"])
        /\ d \in Range(y.jobs["channel"]) /\ f.op = "flushed"
    BY <1>4, <1>7, <1>12, <2>2, ZenonT(30) DEF Moved, Job
  <2>5. \A t : Detaching(y, t) <=> Detaching(x, t) \/ t = s
    BY <1>5, <2>3, <2>4, Zenon DEF Detaching
  <2>6. /\ s \notin x.handed
        /\ \A t : Clean(x, t) => t # s
    BY <1>3, <1>4, <2>1, Zenon DEF StackOk, Clean, s
  <2>7. \A t \in y.bound \ y.chn.members :
          \E v \in Threads : y.thread[v].pc = "bind" /\ y.thread[v].arg = t
    BY <1>13, <2>1, SMTT(20) DEF StackOk
  <2>8. \A t \in y.chn.members \ y.bound : Detaching(y, t)
    BY <1>13, <2>1, <2>5, Zenon DEF StackOk
  <2>9. \A t \in y.bound : ~Detaching(y, t)
    BY <1>13, <2>1, <2>5, Zenon DEF StackOk
  <2>10. \A t : Clean(x, t) => Clean(y, t)
    BY <1>5, <1>13, <2>3, <2>4, <2>6, ZenonT(30) DEF Clean
  <2>11. \A v \in Threads : y.thread[v].pc = "bind" =>
           y.thread[v].arg \in y.bound /\ Clean(y, y.thread[v].arg)
    BY <1>13, <2>1, <2>6, <2>10, Zenon DEF StackOk
  <2>12. /\ x.jobs["channel"] # <<>> /\ x.jobs["channel"] \in Seq(Jobs) /\ js \in Seq(Jobs)
         /\ y.jobs["channel"] = Tail(x.jobs["channel"]) \o js
         /\ y \in StateType
    BY <1>1, <1>4, <1>12, Zenon DEF Ran, StateType
  <2>13. \A i \in Range(js) : i.op # "add"
    BY <1>5, <1>7, <1>12, <2>4, Zenon
  <2>14. \A i \in Range(y.jobs["channel"]) : i.op # "add"
    <3>1. \A i \in Range(y.jobs["channel"]) : i \in Range(Tail(x.jobs["channel"])) \/ i \in Range(js)
      <4>1. Tail(x.jobs["channel"]) \in Seq(Jobs)
        BY <2>12, TailRange, Zenon
      <4>2. Range(Tail(x.jobs["channel"]) \o js) = Range(Tail(x.jobs["channel"])) \cup Range(js)
        BY <2>12, <4>1, ConcatRange, Zenon
      <4> QED BY <2>12, <4>2, Zenon
    <3> QED BY <2>1, <2>12, <2>13, <3>1, Zenon DEF HeadOk
  <2>15. \A i \in Range(y.jobs["channel"]) : i.op = "remove" => i.arg \notin y.handed
    BY <1>5, <1>13, <2>1, <2>3, <2>4, Zenon DEF StackOk
  <2>16. /\ y.chn.shutting <=> ~y.open
         /\ ~y.open => y.bound = {} /\ y.chn.members = {} /\ y.chn.owner = None
         /\ y.open => y.handed \subseteq y.bound
    BY <1>13, <2>1, <2>6, Zenon DEF StackOk
  <2>17. StackOk(y)
    BY <2>7, <2>8, <2>9, <2>11, <2>14, <2>15, <2>16, Zenon DEF StackOk
  <2>18. HeadOk(y)
    BY <1>1, <2>1, <2>12, <2>13, HeadKept, ZenonT(30)
  <2>19. LastOk(y)
    <3>1. \E q \in Seq(Jobs), i \in Jobs : i.who \in Threads /\ y.jobs["channel"] = q \o <<i>>
      <4>1. f \in Jobs /\ f.who \in Threads
        BY <1>4, <1>12, Zenon DEF Job
      <4>2. w.jobs["channel"] \in Seq(Jobs) /\ y.jobs["channel"] = w.jobs["channel"] \o <<f>>
        BY <1>4, <1>12, Zenon
      <4> QED BY <4>1, <4>2, ZenonT(30)
    <3>2. y \in StateType /\ (y.open => x.open)
      BY <1>12, <1>13, Zenon DEF Ran
    <3> QED BY <1>1, <2>1, <3>1, <3>2, LastKept, ZenonT(30)
  <2> QED BY <2>17, <2>18, <2>19, Zenon DEF Inv2
<1> QED BY <1>18, <1>19, Zenon DEF y, w, s

\* Shutting down the stacks of a channel posts a lambda for each of them, in
\* some order.
LEMMA DetachesAll ==
  ASSUME NEW m, IsFiniteSet(m), m \subseteq Stacks
  PROVE  /\ Detaches(m) \in Seq(Jobs)
         /\ \A j \in Range(Detaches(m)) : j.op = "detachStack" /\ j.arg \in m /\ j.who = None
<1> DEFINE S == {Job("detachStack", s, None) : s \in m}
           h == [s \in m |-> Job("detachStack", s, None)]
           n == Cardinality(S)
<1>1. h \in Surjection(m, S)
  <2>1. h \in [m -> S]
    BY Zenon
  <2>2. \A t \in S : \E s \in m : h[s] = t
    BY Zenon
  <2> QED BY <2>1, <2>2, Zenon DEF Surjection
<1>2. \A j \in S : j \in Jobs /\ j.op = "detachStack" /\ j.arg \in m /\ j.who = None
  BY DEF Job, Jobs, PostOps
<1> HIDE DEF S, h
<1>3. IsFiniteSet(S)
  BY <1>1, FS_Surjection, Zenon
<1>4. n \in Nat /\ ExistsBijection(1 .. n, S)
  BY <1>3, FS_CardinalityType, Zenon
<1>5. \E q \in [1 .. n -> S] : IsInjective(q)
  BY <1>4, Zenon DEF ExistsBijection, Bijection, Injection, IsInjective
<1>6. Detaches(m) \in [1 .. n -> S]
  <2>1. Detaches(m) = CHOOSE q \in [1 .. n -> S] : IsInjective(q)
    BY Zenon DEF Detaches, S
  <2> QED BY <1>5, <2>1, Zenon
<1> DEFINE q == Detaches(m)
<1> HIDE DEF n, q
<1>8. q \in [1 .. n -> S]
  BY <1>6, Zenon DEF q
<1>9. q \in Seq(Jobs)
  BY <1>2, <1>4, <1>8
<1>10. Range(q) \subseteq S
  BY <1>8, Zenon DEF Range
<1> QED BY <1>2, <1>9, <1>10, Zenon DEF q

\* The fields of a channel that is shut down, before the lambdas are posted.
LEMMA ClosesFields ==
  ASSUME NEW x \in StateType
  PROVE  LET y == [x EXCEPT !.open = FALSE, !.chn = Clear(@), !.bound = @ \ x.chn.members]
         IN  /\ y \in StateType /\ ~y.open /\ y.bound = x.bound \ x.chn.members
             /\ y.chn.members = {} /\ y.chn.shutting /\ y.chn.owner = x.chn.owner
             /\ y.mgr = x.mgr /\ y.returned = x.returned /\ y.accepting = x.accepting /\ y.conn = x.conn
             /\ y.listening = x.listening /\ y.resources = x.resources
             /\ y.jobs = x.jobs /\ y.thread = x.thread /\ y.handed = x.handed
<1> DEFINE c == [x.chn EXCEPT !.shutting = TRUE, !.members = {}]
           b == x.bound \ x.chn.members
           z == [x EXCEPT !.open = FALSE, !.chn = c, !.bound = b]
           y == [x EXCEPT !.open = FALSE, !.chn = Clear(@), !.bound = @ \ x.chn.members]
<1>1. x.chn \in [shutting : BOOLEAN, members : SUBSET Stacks, owner : Threads \cup {None}] /\ b \in SUBSET Stacks
  BY Zenon DEF StateType
<1>2. /\ c \in [shutting : BOOLEAN, members : SUBSET Stacks, owner : Threads \cup {None}]
      /\ c.shutting /\ c.members = {} /\ c.owner = x.chn.owner
  BY <1>1, ZenonT(30)
<1>3. y = z
  BY Zenon DEF Clear
<1> HIDE DEF c, b, y
<1>4. z \in StateType
  BY <1>1, <1>2, ZenonT(30) DEF StateType
<1>5. /\ ~z.open /\ z.chn = c /\ z.bound = b
      /\ z.mgr = x.mgr /\ z.returned = x.returned /\ z.accepting = x.accepting /\ z.conn = x.conn
      /\ z.listening = x.listening /\ z.resources = x.resources
      /\ z.jobs = x.jobs /\ z.thread = x.thread /\ z.handed = x.handed
  BY Zenon DEF StateType
<1> HIDE DEF z
<1> QED BY <1>2, <1>3, <1>4, <1>5, ZenonT(30) DEF y, b

\* The channel is shut down, with its stacks.
LEMMA CloseStep ==
  ASSUME NEW x, Inv(x), NEW k \in Strands, x.jobs[k] # <<>>, NEW z, Popped(x, z, k),
         Head(x.jobs[k]).op = "close", x.open, x.chn.owner = None
  PROVE  LET y == Post(CloseChannel(z), k, <<Job("flushed", None, Head(x.jobs[k]).who)>>)
         IN  Inv(y) /\ (Inv2(x) => Inv2(y))
<1> DEFINE j == Head(x.jobs[k])
           f == Job("flushed", None, j.who)
           d == Job("detachChannel", None, None)
           D == Detaches(x.chn.members)
           R == D \o <<d>>
           b == [z EXCEPT !.open = FALSE, !.chn = Clear(@), !.bound = @ \ z.chn.members]
           w == CloseChannel(z)
           y == Post(w, k, <<f>>)
           js == R \o <<f>>
           U == {}
<1>1. /\ x \in StateType /\ ThreadOk(x) /\ IsFiniteSet(x.chn.members) /\ ConnOk(x)
      /\ x.jobs \in [Strands -> Seq(Jobs)] /\ None \notin Threads /\ "channel" \notin Conns
      /\ x.chn.members \subseteq Stacks
  BY NamesDiffer, Zenon DEF Inv, StateType
<1>2. /\ z \in StateType /\ z.thread = x.thread /\ z.chn = x.chn /\ z.handed = x.handed
      /\ z.mgr = x.mgr /\ z.open = x.open /\ z.bound = x.bound /\ z.returned = x.returned
      /\ z.listening = x.listening /\ z.resources = x.resources
      /\ z.accepting = x.accepting /\ z.conn = x.conn
      /\ z.jobs = [x.jobs EXCEPT ![k] = Tail(x.jobs[k])]
  BY Zenon DEF Popped, SameRest
<1>3. JobOk(x, k, j)
  BY <1>1, <1>2, RanNothing, RanMoves, ZenonT(30)
<1>4. k = "channel" /\ j.who \in Threads
  BY <1>3, ZenonT(30) DEF JobOk, CallOps
<1>5. d \in Jobs /\ d.op = "detachChannel" /\ d.who = None
  BY Zenon DEF Job, Jobs, PostOps
<1>6. w = Post(b, k, R)
  BY <1>2, <1>4, Zenon DEF CloseChannel
<1>7. D \in Seq(Jobs) /\ \A i \in Range(D) : i.op = "detachStack" /\ i.arg \in x.chn.members /\ i.who = None
  BY <1>1, DetachesAll, Zenon
<1>8. /\ b \in StateType /\ ~b.open /\ b.bound = z.bound \ z.chn.members
      /\ b.chn.members = {} /\ b.chn.shutting /\ b.chn.owner = z.chn.owner
      /\ b.mgr = z.mgr /\ b.returned = z.returned /\ b.accepting = z.accepting /\ b.conn = z.conn
      /\ b.listening = z.listening /\ b.resources = z.resources
      /\ b.jobs = z.jobs /\ b.thread = z.thread /\ b.handed = z.handed
  BY <1>2, ClosesFields, ZenonT(30)
<1> HIDE DEF d, D, b, w
<1>9. R \in Seq(Jobs) /\ Range(R) = Range(D) \cup {d}
  <2> DEFINE ds == <<d>>
  <2>1. ds \in Seq(Jobs) /\ Range(ds) = {d}
    BY <1>5, Singles, ZenonT(30)
  <2> HIDE DEF ds
  <2>2. D \o ds \in Seq(Jobs) /\ Range(D \o ds) = Range(D) \cup Range(ds)
    BY <1>7, <2>1, ConcatRange
  <2> QED BY <2>1, <2>2, Zenon DEF ds
<1> HIDE DEF R
<1>10. /\ w \in StateType /\ w.jobs = [b.jobs EXCEPT ![k] = b.jobs[k] \o R]
       /\ SameRest(b, w) /\ w.chn = b.chn /\ w.thread = b.thread /\ w.handed = b.handed
  <2>1. b \in StateType /\ R \in Seq(Jobs) /\ w = Post(b, k, R)
    BY <1>6, <1>8, <1>9, Zenon
  <2> QED BY <2>1, PostFields, ZenonT(30)
<1>11. w.jobs = [x.jobs EXCEPT ![k] = Tail(x.jobs[k]) \o R]
  <2>1. w.jobs = [z.jobs EXCEPT ![k] = z.jobs[k] \o R]
    BY <1>8, <1>10, Zenon
  <2> QED BY <1>1, <1>2, <2>1, ZenonT(30)
<1>12. /\ Ran(x, y, k, js) /\ Range(js) = Range(R) \cup {f} /\ f \in Jobs
       /\ w.jobs[k] \in Seq(Jobs) /\ y.jobs[k] = w.jobs[k] \o <<f>>
       /\ SameRest(w, y) /\ y.chn = w.chn /\ y.thread = w.thread /\ y.handed = w.handed
  <2>1. /\ x \in StateType /\ w \in StateType /\ R \in Seq(Jobs)
        /\ w.jobs = [x.jobs EXCEPT ![k] = Tail(x.jobs[k]) \o R]
        /\ \A i \in Range(R) : i.who \notin Threads
        /\ Head(x.jobs[k]).who \in Threads
    BY <1>1, <1>4, <1>5, <1>7, <1>9, <1>10, <1>11, Zenon
  <2>2. Flushes(x, w, y, k, R, f)
    BY <2>1, RanFlush, ZenonT(30)
  <2> QED BY <2>2, ZenonT(30) DEF Flushes
<1> HIDE DEF y, js
<1>13. /\ ~y.open /\ y.bound = x.bound \ x.chn.members
       /\ y.chn.members = {} /\ y.chn.shutting /\ y.chn.owner = None
       /\ y.mgr = x.mgr /\ y.returned = x.returned /\ y.accepting = x.accepting /\ y.conn = x.conn
       /\ y.listening = x.listening /\ y.resources = x.resources
       /\ y.thread = x.thread /\ y.handed = x.handed
  <2>1. SameRest(w, y) /\ SameRest(b, w) /\ y.chn = b.chn /\ y.thread = b.thread /\ y.handed = b.handed
    BY <1>10, <1>12, ZenonT(30)
  <2>2. /\ y.mgr = b.mgr /\ y.open = b.open /\ y.bound = b.bound /\ y.returned = b.returned
        /\ y.listening = b.listening /\ y.resources = b.resources
        /\ y.accepting = b.accepting /\ y.conn = b.conn
    BY <2>1, Zenon DEF SameRest
  <2> QED BY <1>2, <1>8, <2>1, <2>2, Zenon
<1>14. \A i \in Range(js) : JobOk(y, k, i)
  <2>1. JobOk(y, k, f)
    BY <1>3, <1>13, FlushOk, Zenon
  <2>2. JobOk(y, k, d)
    BY <1>4, <1>5, <1>13, Zenon DEF JobOk, CallOps, PostOps
  <2>3. \A i \in Range(D) : JobOk(y, k, i)
    BY <1>1, <1>4, <1>7, Zenon DEF JobOk, CallOps, PostOps
  <2> QED BY <1>9, <1>12, <2>1, <2>2, <2>3, ZenonT(30)
<1>15. ThreadOk(y)
  BY <1>1, <1>13, SMTT(20) DEF ThreadOk
<1>16. IsFiniteSet(y.chn.members)
  BY <1>13, FiniteEmpty, Zenon
<1>17. NetMoves(x, y)
  <2>1. \A i \in {"channel"} \cup Conns : i # k => KeepsReach(x, y, i)
    BY <1>12, <1>13, RanReach, ZenonT(30)
  <2>2. ASSUME NEW l \in Conns PROVE ConnMoves(x, y, l)
    <3>1. y.conn[l] = x.conn[l] /\ y.accepting = x.accepting /\ KeepsReach(x, y, l) /\ y.mgr = x.mgr
      BY <1>1, <1>4, <1>13, <2>1, ZenonT(30)
    <3> QED BY <1>1, <3>1, Zenon DEF ConnMoves, ConnOk
  <2>3. InHands(x, "listener") => InHands(y, "listener")
    BY <1>13, Zenon DEF InHands
  <2> QED BY <1>13, <2>2, <2>3, Zenon DEF NetMoves
<1>18. U \in SUBSET Threads /\ U \subseteq {Head(x.jobs[k]).who} /\ Later(x, y) /\ Only(x, y, U)
  BY <1>13, Zenon DEF Only, Later
<1> HIDE DEF U
<1>19. Inv(y)
  BY <1>12, <1>14, <1>15, <1>16, <1>17, <1>18, RanKeeps, ZenonT(30)
<1>20. ASSUME Inv2(x) PROVE Inv2(y)
  <2>1. StackOk(x) /\ HeadOk(x)
    BY <1>20, Zenon DEF Inv2
  <2>2. \A v \in Threads : y.thread[v].pc # "bind" /\ x.thread[v].pc # "bind"
    <3> SUFFICES ASSUME NEW v \in Threads, x.thread[v].pc = "bind" PROVE FALSE
      BY <1>13, Zenon
    <3>1. x.thread[v].pc \in {"bind", "inUse"} => x.chn.owner = v
      BY <1>1, ThreadFacts, Zenon
    <3> QED BY <1>1, <3>1, Zenon
  <2>3. y.bound = {}
    BY <1>1, <1>13, <2>1, <2>2, SMTT(20) DEF StackOk, StateType
  <2>4. \A i \in Range(js) : i.op \notin {"add", "remove"}
    BY <1>5, <1>7, <1>9, <1>12, SMTT(20) DEF Job
  <2>5. Moved(x.jobs, y.jobs, k, {j}, Range(js)) /\ js \in Seq(Jobs)
    BY <1>12, RanMoves, ZenonT(30) DEF Ran
  <2>6. /\ x.jobs["channel"] # <<>> /\ x.jobs["channel"] \in Seq(Jobs)
        /\ y.jobs["channel"] = Tail(x.jobs["channel"]) \o js
        /\ y \in StateType
    BY <1>1, <1>4, <1>12, Zenon DEF Ran, StateType
  <2>7. \A i \in Range(y.jobs["channel"]) : i \in Range(Tail(x.jobs["channel"])) \/ i \in Range(js)
    <3>1. Tail(x.jobs["channel"]) \in Seq(Jobs)
      BY <2>6, TailRange, Zenon
    <3>2. Range(Tail(x.jobs["channel"]) \o js) = Range(Tail(x.jobs["channel"])) \cup Range(js)
      BY <2>5, <3>1, ConcatRange, Zenon
    <3> QED BY <2>6, <3>2, Zenon
  <2>8. \A i \in Range(y.jobs["channel"]) : i.op # "add"
    BY <2>1, <2>4, <2>6, <2>7, Zenon DEF HeadOk
  <2>9. \A i \in Range(y.jobs["channel"]) : i.op = "remove" => i.arg \notin y.handed
    <3>1. \A i \in Range(y.jobs["channel"]) : i.op = "remove" => i \in Range(x.jobs["channel"])
      BY <1>4, <2>4, <2>5, Zenon DEF Moved
    <3> QED BY <1>13, <2>1, <3>1, Zenon DEF StackOk
  <2>10. StackOk(y)
    BY <1>13, <2>2, <2>3, <2>8, <2>9, ZenonT(30) DEF StackOk
  <2>11. HeadOk(y)
    BY <1>1, <2>1, <2>4, <2>5, <2>6, HeadKept, ZenonT(30)
  <2>12. LastOk(y)
    BY <1>13, Zenon DEF LastOk
  <2> QED BY <2>10, <2>11, <2>12, Zenon DEF Inv2
<1> QED BY <1>19, <1>20, Zenon DEF y, w

\* A strand runs its next lambda.
LEMMA RunStep ==
  ASSUME Inv(g), NEW k \in Strands, Run(k)
  PROVE  Inv(g') /\ (Inv2(g) => Inv2(g'))
<1> DEFINE j == Head(g.jobs[k])
           z == [g EXCEPT !.jobs[k] = Tail(@)]
           f == Job("flushed", None, j.who)
<1>1. g \in StateType /\ g.jobs[k] \in Seq(Jobs) /\ g.jobs[k] # <<>> /\ Runs(g, j) /\ g' = Effect(z, k, j)
  BY Zenon DEF Inv, StateType, Run
<1>2. Popped(g, z, k)
  BY <1>1, PoppedFields, Zenon
<1> HIDE DEF z
<1>3. /\ z.conn = g.conn /\ z.open = g.open
      /\ z \in StateType /\ z.jobs = [g.jobs EXCEPT ![k] = Tail(g.jobs[k])]
  BY <1>2, Zenon DEF Popped, SameRest
<1>4. JobOk(g, k, j) /\ j \in Jobs
  BY <1>1, <1>3, RanNothing, RanMoves, ZenonT(30)
<1> HIDE DEF j
<1>5. CASE j.op = "add"
  <2>1. g' = AddContext(z, j.arg, j.who) /\ z.bound = g.bound
    BY <1>1, <1>2, <1>5, Zenon DEF Effect, Popped, SameRest
  <2>2. CASE j.arg \in g.bound
    <3>1. g' = At(z, j.who, Onward(z, j))
      BY <1>5, <2>1, <2>2, Zenon DEF AddContext, Onward
    <3> QED BY <1>1, <1>2, <1>5, <3>1, GoesOnStep, ZenonT(30) DEF j
  <2>3. CASE j.arg \notin g.bound
    <3>1. g' = At([z EXCEPT !.bound = @ \cup {j.arg}], j.who, "bind")
      BY <2>1, <2>3, Zenon DEF AddContext
    <3> QED BY <1>1, <1>2, <1>5, <2>3, <3>1, AddRunStep, ZenonT(30) DEF j
  <2> QED BY <2>2, <2>3, Zenon
<1>6. CASE j.op = "remove"
  <2>1. g' = Post(PerformShutdown(z, j.arg), k, <<f>>)
    BY <1>1, <1>6, Zenon DEF Effect
  <2> QED BY <1>1, <1>2, <1>6, <2>1, RemoveStep, ZenonT(30) DEF j
<1>7. CASE j.op = "close"
  <2>1. g' = Post(CloseChannel(z), k, <<f>>)
    BY <1>1, <1>7, Zenon DEF Effect
  <2>2. CASE ~g.open
    <3>1. CloseChannel(z) = z
      BY <1>3, <2>2, Zenon DEF CloseChannel
    <3> QED BY <1>1, <1>2, <1>7, <2>1, <2>2, <3>1, AgainStep, ZenonT(30) DEF j
  <2>3. CASE g.open
    <3>1. g.chn.owner = None
      BY <1>1, <1>7, Zenon DEF Runs
    <3> QED BY <1>1, <1>2, <1>7, <2>1, <2>3, <3>1, CloseStep, ZenonT(30) DEF j
  <2> QED BY <2>2, <2>3, Zenon
<1>8. CASE j.op = "shutConn"
  <2>1. g' = Post(ShutdownImpl(z, j.arg), k, <<f>>)
    BY <1>1, <1>8, Zenon DEF Effect
  <2>2. CASE g.conn[k].st = "shut"
    <3>1. j.arg = k
      BY <1>4, <1>8, Zenon DEF JobOk
    <3>2. ShutdownImpl(z, j.arg) = z
      BY <1>3, <2>2, <3>1, Zenon DEF ShutdownImpl
    <3> QED BY <1>1, <1>2, <1>8, <2>1, <2>2, <3>2, AgainStep, ZenonT(30) DEF j
  <2>3. CASE g.conn[k].st # "shut"
    BY <1>1, <1>2, <1>8, <2>1, <2>3, ShutConnStep, ZenonT(30) DEF j
  <2> QED BY <2>2, <2>3, Zenon
<1>9. CASE j.op = "release"
  <2>1. g' = ShutdownImpl(z, j.arg)
    BY <1>1, <1>9, Zenon DEF Effect
  <2> QED BY <1>1, <1>2, <1>9, <2>1, ReleaseStep, Zenon DEF j
<1>10. CASE j.op = "detachStack"
  <2>1. g' = [z EXCEPT !.chn = Detach(@, j.arg)]
    BY <1>1, <1>10, Zenon DEF Effect
  <2> QED BY <1>1, <1>2, <1>10, <2>1, DetachStackStep, SMTT(20) DEF j
<1>11. CASE j.op = "detachChannel"
  <2> DEFINE r == "channel"
  <2>1. g' = Freed(z, r)
    BY <1>1, <1>11, Zenon DEF Effect, Freed
  <2>2. Frees(j, r)
    BY <1>11, ZenonT(30) DEF Frees
  <2> HIDE DEF r
  <2> QED BY <1>1, <1>2, <2>1, <2>2, DetachMemberStep, Zenon DEF j
<1>12. CASE j.op = "detachListener"
  <2> DEFINE r == "listener"
  <2>1. g' = Freed(z, r)
    BY <1>1, <1>12, Zenon DEF Effect, Freed
  <2>2. Frees(j, r)
    BY <1>12, Zenon DEF Frees
  <2> HIDE DEF r
  <2> QED BY <1>1, <1>2, <2>1, <2>2, DetachMemberStep, Zenon DEF j
<1>13. CASE j.op = "detachConn"
  <2> DEFINE r == j.arg
  <2>1. g' = Freed(z, r)
    BY <1>1, <1>13, Zenon DEF Effect, Freed
  <2>2. Frees(j, r)
    BY <1>13, Zenon DEF Frees
  <2> HIDE DEF r
  <2> QED BY <1>1, <1>2, <2>1, <2>2, DetachMemberStep, Zenon DEF j
<1>14. CASE j.op = "flushed"
  <2>1. g' = At(z, j.who, Onward(z, j))
    BY <1>1, <1>14, Zenon DEF Effect, Onward
  <2> QED BY <1>1, <1>2, <1>14, <2>1, GoesOnStep, ZenonT(30) DEF j
<1>15. j.op \in CallOps \cup PostOps
  BY <1>4, Zenon DEF Jobs
<1> QED BY <1>5, <1>6, <1>7, <1>8, <1>9, <1>10, <1>11, <1>12, <1>13, <1>14, <1>15, ZenonT(30) DEF CallOps, PostOps

----------------------------------------------------------------------------
(* The invariants.                                                         *)

\* The channel and the listener are bound when the manager is in use, and
\* nothing else is.
LEMMA InvInit ==
  ASSUME Init PROVE Inv(g) /\ Inv2(g)
<1>1. /\ g.mgr = [shutting |-> FALSE, members |-> {"channel", "listener"}, owner |-> None]
      /\ g.chn = [shutting |-> FALSE, members |-> {}, owner |-> None]
      /\ g.open = TRUE /\ g.bound = {} /\ g.jobs = [k \in Strands |-> <<>>]
      /\ g.thread = [u \in Threads |-> [pc |-> "idle", arg |-> None, todo |-> {}]]
      /\ g.listening = TRUE /\ g.accepting = None /\ g.conn = [l \in Conns |-> NewConn]
      /\ g.handed = {} /\ g.returned = FALSE /\ g.resources = TRUE
  BY ZenonT(30) DEF Init, Resources
<1>2. \A k \in Strands : g.jobs[k] = <<>> /\ Range(g.jobs[k]) = {} /\ DOMAIN g.jobs[k] = {}
  BY <1>1 DEF Range
<1>3. "channel" \in Strands
  BY Zenon DEF Strands
<1>4. g \in StateType
  BY DEF Init, Resources, StateType, Members, NewConn
<1>5. JobsOk(g)
  BY <1>2, ZenonT(30) DEF JobsOk, Distinct, Apart
<1>6. \A u \in Threads : g.thread[u].pc = "idle" /\ g.thread[u].arg = None /\ g.thread[u].todo = {}
  BY <1>1
<1>7. ThreadOk(g)
  BY <1>1, <1>6, NamesDiffer DEF ThreadOk
<1>8. ManagerOk(g)
  BY <1>1, <1>6, NamesDiffer, SMTT(20) DEF ManagerOk, Reached, InHands
<1>9. ConnOk(g)
  <2>1. ASSUME NEW l \in Conns
        PROVE  /\ ConnSound(g.conn[l]) /\ g.conn[l].st = "new" /\ l \notin g.mgr.members
    BY <1>1, NamesDiffer DEF ConnSound, NewConn
  <2> QED BY <1>6, <2>1, Zenon DEF ConnOk
<1>10. IsFiniteSet(g.chn.members)
  BY <1>1, FiniteEmpty, SMTT(20)
<1>11. StackOk(g)
  BY <1>1, <1>2, <1>3, <1>6, NamesDiffer, SMTT(20) DEF StackOk
<1>12. LastOk(g) /\ HeadOk(g)
  BY <1>2, <1>3, Zenon DEF LastOk, HeadOk
<1> QED BY <1>4, <1>5, <1>7, <1>8, <1>9, <1>10, <1>11, <1>12, ZenonT(30) DEF Inv, Inv2

\* Every step keeps the invariant; what it says of the stacks is kept as long
\* as no stack is added while something is shut down.
LEMMA InvNext ==
  ASSUME Inv(g), [Next]_g
  PROVE  Inv(g') /\ (~ConcurrentAdd /\ Inv2(g) => Inv2(g'))
<1>1. CASE UNCHANGED g
  BY <1>1, Zenon
<1>2. ASSUME NEW k \in Strands, Run(k) PROVE Inv(g') /\ (Inv2(g) => Inv2(g'))
  BY <1>2, RunStep, Zenon
<1>3. ASSUME NEW u \in Threads, NEW s \in Stacks, AddStack(u, s)
      PROVE  Inv(g') /\ (~ConcurrentAdd /\ Inv2(g) => Inv2(g'))
  BY <1>3, AddStackStep, Zenon
<1>4. ASSUME NEW u \in Threads, NEW s \in Stacks, ShutdownStack(u, s) PROVE Inv(g') /\ (Inv2(g) => Inv2(g'))
  BY <1>4, ShutdownStackStep, Zenon
<1>5. ASSUME NEW u \in Threads, AddStackEnds(u) PROVE Inv(g') /\ (Inv2(g) => Inv2(g'))
  BY <1>5, AddStackEndsStep, Zenon
<1>6. ASSUME NEW u \in Threads, ShutdownChannel(u) PROVE Inv(g') /\ (Inv2(g) => Inv2(g'))
  BY <1>6, ShutdownChannelStep, ZenonT(30)
<1>7. ASSUME NEW u \in Threads, ShutdownManager(u) PROVE Inv(g') /\ (Inv2(g) => Inv2(g'))
  BY <1>7, ShutdownManagerStep, Zenon
<1>8. ASSUME NEW u \in Threads, ShutdownNext(u) PROVE Inv(g') /\ (Inv2(g) => Inv2(g'))
  BY <1>8, ShutdownNextStep, Zenon
<1>9. ASSUME NEW u \in Threads, ShutdownReturns(u) PROVE Inv(g') /\ (Inv2(g) => Inv2(g'))
  BY <1>9, ShutdownReturnsStep, Zenon
<1>10. ASSUME NEW l \in Conns, Accept(l) PROVE Inv(g') /\ (Inv2(g) => Inv2(g'))
  BY <1>10, AcceptStep, Zenon
<1>11. ASSUME NEW l \in Conns, Read(l) \/ Breaks(l) PROVE Inv(g') /\ (Inv2(g) => Inv2(g'))
  BY <1>11, ReadStep, ZenonT(30)
<1>12. ASSUME NEW l \in Conns, FirstFrameTimeout(l) PROVE Inv(g') /\ (Inv2(g) => Inv2(g'))
  BY <1>12, FirstFrameTimeoutStep, Zenon
<1>13. CASE BindConn
  BY <1>13, BindConnStep, Zenon
<1>14. ASSUME NEW u \in Threads, ShutdownListener(u) PROVE Inv(g') /\ (Inv2(g) => Inv2(g'))
  BY <1>14, ShutdownListenerStep, Zenon
<1>15. ASSUME NEW l \in Conns, BeginShutdown(l) PROVE Inv(g') /\ (Inv2(g) => Inv2(g'))
  BY <1>15, BeginShutdownStep, Zenon
<1>16. CASE AcceptFails
  BY <1>16, AcceptFailsStep, Zenon
<1> QED BY <1>1, <1>2, <1>3, <1>4, <1>5, <1>6, <1>7, <1>8, <1>9, <1>10, <1>11, <1>12, <1>13, <1>14, <1>15, <1>16,
           ZenonT(30) DEF Next

\* What the invariants say of the properties.
LEMMA Implied == (IInv => ClosedOnce) /\ (IInv /\ IInv2 => StacksAgree /\ NothingEscapes)
<1>1. IInv => ClosedOnce
  BY Zenon DEF IInv, Inv, ConnOk, ConnSound, ClosedOnce
<1>2. IInv /\ IInv2 => StacksAgree
  <2> SUFFICES ASSUME Inv(g), StackOk(g), \A u \in Threads : Idle(u), g.jobs["channel"] = <<>>
               PROVE  g.bound = g.chn.members
    BY Zenon DEF IInv, IInv2, Inv2, StacksAgree
  <2>1. \A s : ~Detaching(g, s)
    BY DEF Detaching, Range
  <2>2. \A u \in Threads : g.thread[u].pc # "bind"
    BY Zenon DEF Idle
  <2> QED BY <2>1, <2>2, ZenonT(30) DEF StackOk
<1>3. IInv /\ IInv2 => NothingEscapes
  <2> SUFFICES ASSUME Inv(g), StackOk(g) PROVE NothingEscapes
    BY Zenon DEF IInv, IInv2, Inv2
  <2>1. g \in StateType /\ JobsOk(g) /\ ThreadOk(g) /\ ManagerOk(g) /\ ConnOk(g)
    BY Zenon DEF Inv
  <2>2. ASSUME NEW k \in Strands, NEW j \in Range(g.jobs[k]) PROVE Pending(j.op, j.arg) /\ JobOk(g, k, j)
    <3>1. PICK i \in DOMAIN g.jobs[k] : g.jobs[k][i] = j
      BY Zenon DEF Range
    <3>2. Pending(j.op, j.arg)
      BY <3>1, Zenon DEF Pending
    <3> QED BY <2>1, <3>2, Zenon DEF JobsOk
  <2>3. ASSUME NEW l \in Conns, g.conn[l].st = "open"
        PROVE  InHand(l) \/ Pending("shutConn", l)
    <3>1. Reached(g, l) /\ l \in Strands /\ l # "channel"
      BY <2>1, <2>3, NamesDiffer, Zenon DEF ConnOk, Strands
    <3>2. ASSUME NEW j \in Range(g.jobs[l]), j.op = "shutConn" PROVE Pending("shutConn", l)
      <4>1. Pending(j.op, j.arg) /\ JobOk(g, l, j)
        BY <2>2, <3>1, Zenon
      <4>2. j.arg = l
        BY <3>2, <4>1, Zenon DEF JobOk
      <4> QED BY <3>2, <4>1, <4>2, Zenon
    <3> QED BY <3>1, <3>2, Zenon DEF Reached, Closer, InHand
  <2>4. ASSUME g.open PROVE InHand("channel") \/ Pending("close", None)
    <3>1. Reached(g, "channel") /\ "channel" \in Strands
      BY <2>1, <2>4, Zenon DEF ManagerOk, Strands
    <3>2. ASSUME NEW j \in Range(g.jobs["channel"]), j.op = "close" PROVE Pending("close", None)
      BY <2>2, <3>1, <3>2, ZenonT(30) DEF JobOk
    <3> QED BY <3>1, <3>2, Zenon DEF Reached, Closer, InHand
  <2>5. ~g.resources => g.mgr.members = {}
    BY <2>1, Zenon DEF ManagerOk
  <2>6. ASSUME g.returned PROVE ~g.open /\ g.bound = {} /\ ~g.listening /\ \A l \in Conns : ~g.conn[l].socket
    <3>1. ~g.open /\ (\A l \in Conns : g.conn[l].st # "open") /\ g.mgr.members = {}
      BY <2>1, <2>6, Zenon DEF ManagerOk
    <3>2. \A u \in Threads : g.thread[u].todo = {}
      BY <2>1, <2>6, Zenon DEF ManagerOk, ThreadOk
    <3>3. ~g.listening
      BY <2>1, <3>1, <3>2, Zenon DEF ManagerOk, InHands
    <3>4. \A l \in Conns : ConnSound(g.conn[l])
      BY <2>1, Zenon DEF ConnOk
    <3> QED BY <3>1, <3>3, <3>4, Zenon DEF StackOk, ConnSound
  <2> QED BY <2>3, <2>4, <2>5, <2>6, Zenon DEF NothingEscapes
<1> QED BY <1>1, <1>2, <1>3, Zenon

\* The inductive invariant, whatever the threads of the user do.
THEOREM InvCorrect == Spec => []IInv
<1>1. Init => IInv
  BY InvInit, Zenon DEF IInv
<1>2. IInv /\ [Next]_g => IInv'
  BY InvNext, Zenon DEF IInv
<1> QED BY <1>1, <1>2, PTL DEF Spec

\* What it says of the stacks, when no stack is added during a shutdown.
THEOREM Inv2Correct ==
  ASSUME ~ConcurrentAdd PROVE Spec => [](IInv /\ IInv2)
<1>1. Init => IInv /\ IInv2
  BY InvInit, Zenon DEF IInv, IInv2
<1>2. IInv /\ IInv2 /\ [Next]_g => (IInv /\ IInv2)'
  BY InvNext, Zenon DEF IInv, IInv2
<1> QED BY <1>1, <1>2, PTL DEF Spec

\* The user is told once that a connection closed: the read that fails, the
\* refusal of a first frame, the shutdown of the manager and the stack that is
\* released all come to LinkSession::ShutdownImpl, in any order.
THEOREM ClosedOnceCorrect == Spec => []ClosedOnce
BY InvCorrect, Implied, PTL

\* When no call is in progress the IOHandler and the resources of the channel
\* name the same stacks.
THEOREM StacksCorrect ==
  ASSUME ~ConcurrentAdd PROVE Spec => []StacksAgree
BY Inv2Correct, Implied, PTL

\* The manager loses nothing that is open: the channel and every connection,
\* one that was being accepted meanwhile included, stay in its resources or in
\* the list of the Shutdown that took them until they are shut down. Once any
\* Shutdown returned, the early one of a second thread included, the manager has
\* no resource and takes none; once the Shutdown that took the resources
\* returned, nothing is open.
THEOREM EscapesCorrect ==
  ASSUME ~ConcurrentAdd PROVE Spec => []NothingEscapes
BY Inv2Correct, Implied, PTL
=============================================================================
