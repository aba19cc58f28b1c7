---------------------------- MODULE MCOutstation ----------------------------
(***************************************************************************)
(* Three small outstations in one run; `scenario' says which one a         *)
(* behaviour is about.  In "sequence" the effect of a request depends on   *)
(* an earlier one and nothing is reported unsolicited; in "poll" a master  *)
(* reads events and static points in fragments of one object; in "disturb" *)
(* requests change what an outstanding response is about.                  *)
(***************************************************************************)
EXTENDS Outstation

CONSTANTS binary

VARIABLE scenario

Req(fn, tag, classes, points) ==
  [fn |-> fn, tag |-> tag, classes |-> classes, max |-> 9, points |-> points]
Read(classes, points) == Req("READ", "", classes, points)
Confirm == Req("CONFIRM", "", {}, {})
Command(fn) == Req(fn, "crob", {}, {})
Simple(fn, tag) == Req(fn, tag, {}, {})

To(dest, uns, seq, req) ==
  [dest |-> dest, wellformed |-> TRUE, uns |-> uns, seq |-> seq, req |-> req]
Unicast(seqs, reqs) == {To("self", FALSE, n, q) : n \in seqs, q \in reqs}
Confirms(seqs) == {To("self", u, n, Confirm) : u \in BOOLEAN, n \in seqs}

OneType == {binary}
OneCapacity == [t \in OneType |-> 2]
BinaryEvent == <<binary, 1>>
Singles == {<<BinaryEvent, None>>, <<None, None>>}

----------------------------------------------------------------------------
\* Polls of events and of static points, another request, confirmations, and a
\* broadcast that interrupts them.
PollMessages ==
  Confirms(Seqs)
  \cup Unicast(0 .. 1, {Read({1}, {1}), Simple("DELAY_MEASURE", "empty")})
  \cup {To("DontConfirm", FALSE, 0, Simple("DELAY_MEASURE", "empty"))}

\* Requests whose effect depends on an earlier one: controls and time.
SequenceMessages ==
  Unicast(Seqs, {Command("SELECT"), Command("OPERATE"), Simple("OPERATE", "other"),
           Simple("WRITE", "lan"), Simple("RECORD_CURRENT_TIME", "empty")})
  \cup {To("self", FALSE, 0, Simple("OPERATE", "oversized")),
        To("self", FALSE, 0, Simple("WRITE", "restart")),
        To("self", FALSE, 0, Simple("SELECT", "other")),
        [To("self", FALSE, 1, Command("OPERATE")) EXCEPT !.wellformed = FALSE],
        To("other", FALSE, 1, Command("OPERATE"))}

\* Requests that cause events, change the mask or touch the selections while a
\* poll or an unsolicited response is outstanding.
DisturbingMessages ==
  {To("self", u, 0, Confirm) : u \in BOOLEAN}
  \cup {To("self", FALSE, 0, Read({1}, {1, 2})),
        To("self", TRUE, 0, Read({1}, {1, 2})),
        To("self", FALSE, 1, Req("READ", "file", {}, {})),
        To("self", FALSE, 1, Req("READ", "bad", {1}, {2})),
        To("self", FALSE, 1, Req("IMMED_FREEZE", "", {}, {2})),
        To("self", FALSE, 1, Req("IMMED_FREEZE_NR", "", {}, {2})),
        To("self", FALSE, 1, Command("DIRECT_OPERATE_NR")),
        To("OptionalConfirm", FALSE, 0, Req("DISABLE_UNSOLICITED", "", {1}, {})),
        To("self", FALSE, 1, Req("ENABLE_UNSOLICITED", "", {1}, {}))}

----------------------------------------------------------------------------
Scenarios == {"sequence", "poll", "disturb"}

Arriving(s) ==
  CASE s = "sequence" -> SequenceMessages
    [] s = "poll"     -> PollMessages
    [] s = "disturb"  -> DisturbingMessages

ParamsOf(s) ==
  [unsolicited |-> s # "sequence", readInNull |-> s = "disturb", infinite |-> FALSE,
   retries |-> IF s = "disturb" THEN 0 ELSE 1]

\* The bound on the arrivals of events.
Arrivals(s) == CASE s = "sequence" -> 0 [] s = "poll" -> 3 [] s = "disturb" -> 2

MCMessages == UNION {Arriving(s) : s \in Scenarios}
MCParams == {ParamsOf(s) : s \in Scenarios}

MCInit == scenario \in Scenarios /\ Init /\ o.params = ParamsOf(scenario)

MCNext ==
  /\ UNCHANGED scenario
  /\ Local \/ \E m \in Arriving(scenario) : OnReceive(m)
  /\ o'.buf.next <= 1 + Arrivals(scenario)

MCSpec == MCInit /\ [][MCNext]_<<o, scenario>>
=============================================================================
