# A verification of opendnp3

opendnp3 is a C++ implementation of DNP3 (IEEE 1815): masters poll outstations
for measurements, outstations report events, on their own if they are allowed
to, and masters operate controls and transfer files. This directory holds TLA+
specifications of the parts of `cpp/lib/src` whose state is hard to test, the
TLC configurations that check them, and machine-checked proofs.

Paths below are relative to `src/cpp/lib/src`. `PROJECT.json` maps every
definition to the lines it models.

## 1. The system

One *channel* (a TCP, UDP, serial or TLS connection) carries link frames for
one or more *sessions*. Above it every session has the same stack:

    application layer   OContext (outstation) or MContext (master)
    transport function  TransportLayer: fragments <-> segments
    link layer          LinkContext: primary and secondary station
    channel             IOHandler: one write at a time, frames routed by address
                        LinkLayerParser: frames from a stream of octets

The masters of a channel share one scheduler, so that one task runs at a time.
A `DNP3Manager` owns the channels, a channel owns its stacks.

All callbacks of a channel run on one strand (an executor that never runs two
of them at once). Concurrency is therefore the interleaving of whole callbacks:
a frame arrived, a write finished, a timer expired, the user applied updates or
asked for something, a posted call runs, the connection came or went. A step of
every specification here is one such callback, run to completion. The exception
is `Lifecycle`: threads of the user call in from outside, take mutexes and wait
for strands, and its steps are the pieces between these points.

| Part | State | Operations | Must hold |
|---|---|---|---|
| Event buffer (`outstation/event`) | a list of all events, one list per type, cross-linked; counters per class and state; overflow flag | update (evicts when full), select by type, count or class, load, clear written, unselect | counters and lists agree; loss only by overflow and never silently |
| Outstation (`OutstationContext`, `OutstationStates`) | one of four states, confirm timer, sequence numbers, last responses, deferred request, request history, broadcast flag, retries, select and time state | link up/down, transmit complete, receive, timeout, updates | an event is removed only when the response that carried it is confirmed; repeated requests get their response; nothing startable waits |
| Static database (`Database`, `StaticDataMap`) | per type a map of cells (value, last event, selection copy) and the selected range | update, modify, freeze, select, load, assign class | range and cells agree; a response is a snapshot; events mirror the values |
| Static writers (`StaticWriters`, write iterators) | position in the selection, current header | load loops | what counts as loaded was written |
| Transport (`transport`) | transmit position and sequence; receive buffer and expected sequence | segment, reassemble | only whole fragments are delivered |
| Link (`LinkContext`, `Pri-`, `SecLinkLayerStates`) | two state machines, one transmit slot and a pending slot per role, response timer, keep-alive, frame count bit | up/down, frame, transmit complete, timeouts, send, status check | nobody waits for nothing; every send ends, unless link checks never do |
| Parser (`LinkLayerParser`, `ShiftableBuffer`) | buffer with read and write position, parse state | read, reset | exactly the frames of the stream are handed on; there is room for the next read |
| Object parser (`app/parsing`) | octets left, number of headers, result; what the handler counted | two passes over a fragment, header by header | the handler is told all that was written, or nothing |
| Master (`MasterContext`, tasks) | active task, response timer, sequence numbers, confirm queue; per task its expiration and what it remembers | up/down, receive, timeout, transmit complete, run task, user requests | session and scheduler agree; a task ends and is reported once |
| Scheduler (`MasterSchedulerBackend`) | current task, queue, posted check, task timer, start timer | add, demand, complete, offline, check, timeout, shutdown | no task and no wakeup is lost |
| Channel (`IOHandler` and its transports) | sessions, open channel, transmit queue, client or server, retry timers | add, enable, disable, remove, send, connect, accept, fail, retry, break, shutdown | sessions know whether they are online; completions arrive; the channel reconnects, and closes when unused |
| Lifecycle (`DNP3ManagerImpl`, `ResourceManager`, `DNP3Channel`, `LinkSession`) | resources with a mutex, strands with posted lambdas, accepted connections | add stacks; shut down stacks, sessions, channel, listener, manager; accept, first frame, break | nothing survives the shutdown; calls return |

What makes these parts hard is listed under `hazards` in `PROJECT.json`, each at
the line where it bites. In short: requests, confirms, broadcasts and timeouts
meet the outstation in every state; events are evicted while they are selected
or in flight; a READ spans several fragments while the database changes; link
frames are lost and repeated; answers come late and meet another task; masters
that share a channel come and go; the link fails at any step; a shutdown meets
whatever is going on.

## 2. Modules

Specifications are layered as the code is. Component modules define operators on
a record that holds the fields of the C++ object (`Update(b, t, c)` is the buffer
after `EventBuffer::Update`), so one callback that nests many calls is one
composition of operators and one step, and modules that compose components use
the same operators.

| Module | Contents |
|---|---|
| `EventBuffer` | operators for `EventUpdate`, `EventSelection`, `EventWriting`, `EventStorage`, `EventClassCounters`, `EventBuffer` |
| `EventBufferSpec` | the buffer under an arbitrary client; its properties |
| `EventBufferProofs` | theorems about `EventBufferSpec` |
| `EventList` | `List<T>`, the linked list the buffer is made of, with its free list; its property |
| `EventListProofs` | theorem about `EventList` |
| `OutstationFiles` | the file functions of `OContext` and the file handler behind them (external) |
| `OutstationApp` | `ResponseContext` and the function handlers of `OContext`; EXTENDS `EventBuffer`, `OutstationFiles` |
| `Outstation` | the states, deferral, repetition, unsolicited reporting, broadcasts; one action per callback of `OContext` |
| `OutstationProofs` | theorems about `Outstation`; EXTENDS `EventBufferProofs` |
| `StaticDataMap` | one `StaticDataMap<Spec>` |
| `Database` | the maps together: READ, updates, freezes, class assignment, loading by arithmetic on the room left |
| `DatabaseProofs` | theorems about `Database` |
| `StaticWriters` | the loops of `StaticWriters.cpp` and of the range and bit field iterators, with index and count of limited width |
| `Transport` | `TransportTx`, `TransportRx` |
| `LinkLayer` | `LinkContext`, the primary and secondary states, `TransportLayer::BeginTransmit`/`OnTxReady`; EXTENDS `Transport` |
| `Stack` | a station, a channel that loses, repeats and fails, and the receiver of the peer |
| `StackProofs` | theorems about `Stack` |
| `LinkParser` | `LinkFrame`, `ShiftableBuffer`, `LinkLayerParser` |
| `LinkReader` | a parser that reads a stream in pieces; the reference definition of the frames in a stream |
| `ObjectParser` | `APDUParser` and the parsers of each qualifier, as operators on octets |
| `ObjectReader` | the two passes of `APDUParser::Parse` over a fragment, with the white list and an `IAPDUHandler` |
| `ObjectFormat` | reference: object headers as they are written, with their meaning |
| `MasterFiles` | the file tasks of a master |
| `MasterTask` | attributes, requests and responses of every task; `TaskBehavior`; EXTENDS `MasterFiles` |
| `MasterScheduler` | `MasterSchedulerBackend`; EXTENDS `MasterTask` |
| `Master` | the callbacks of `MContext`; EXTENDS `MasterScheduler` |
| `MasterSpec` | the masters of a channel against anything that may arrive or expire |
| `EventDelivery` | abstract: what master and outstation together promise about events |
| `System` | a master (`Master`) and an outstation (`Outstation`) over an unreliable connection |
| `Channel` | `IOHandler` with the TCP client, UDP, serial and TCP server handlers |
| `ChannelProofs` | theorems about `Channel` |
| `Lifecycle` | `ResourceManager`, `DNP3ManagerImpl`, `DNP3Channel`, `StackBase`, `LinkSession`, `MasterTCPServer` |
| `LifecycleCalls` | the inductive invariants of `Lifecycle`; threads and connections keep them |
| `LifecycleProofs` | lambdas keep them; theorems about `Lifecycle` |
| `MC*` | instances for TLC |

### Correspondence

*Event buffer.* `buf.events` maps the arrival number of each live record to its
type, class, state and variations; the list of all events is its domain in
order, and `buf.typed[t]` is the list of type `t` (records keep the order of
arrival). `buf.total`, `buf.written` and `buf.selected` are
`EventClassCounters`. Values and time stamps are left out; a fragment has room
for so many events. Actions: `NewEvent` (`Update`), `SelectType`, `SelectClass`,
`LoadFragment`, `Clear`, `Reset` (`Unselect`), `ReadOverflow` (`IsOverflown`,
which also clears the flag).

*Linked list.* `list` has the pointers of every node, `head`, `tail`, `free` and
the length. `at` holds the pointers that `Add` returned and that a record of the
other list keeps; `RemoveValue` removes by any of them. `walk` is the loop of
`RemoveAll`, one turn per step, with its iterator one node ahead; a turn that
removes nothing is also one of `Foreach`. `pool` is an auxiliary variable, the free
nodes in order. `EventBuffer` sees a list as the set of its values in order of
arrival, which is what `ListIntact` says of the chain from `head`.

*Outstation.* The record `o` has the fields of `OContext`: `state`, `online`,
`tx` (what is being transmitted), `timer` (confirm timer armed), `check`
(`shouldCheckForUnsolicited`), `completedNull`, the sequence numbers, `sol` and
`unsol` (the responses recorded for retransmission, with the events they carry),
`history`, `deferred`, `broadcast`, `retries`, `mask`, `control`, `time`,
`points` (the static selection, seen as a set), `buf` and `store` (the file
handler). `o.rsp` and `o.detect` live only inside a step: the response under
construction and the choice of whether a value changed. A request is a record of
function, a tag that stands for its objects, and classes and points for a READ;
a message adds destination, sequence number and the UNS bit. In `outstation`
there is no network: *any* message of the configured set may arrive at any time,
which covers loss, duplication, delay and reordering. Requests are compared by
all their fields, as the code compares digest and length; CRC collisions are
left out. For a command, "refused" stands for a status that does not set
PARAM_ERROR.

*Static database.* `db[k]` has, per index, value, last event, event class, and
for selected cells the copy and the variation taken at selection, and the kept
range. Three kinds stand for nine types: `binary` (can be packed, promoted when
the quality is bad), `counter` and `frozen`. `mirror`, `asked` and `sent` are
history variables.

*Link and transport.* `s` is `LinkContext` with `TransportLayer` and
`TransportTx`. A frame given to the channel is a reference to one of two
buffers, so `s.line` keeps what was formatted and the frame that goes out is
either that or what the buffer holds by then. `posted` counts calls in the
executor. Octets are pairs (fragment, position), so mixing would be visible.

*Parser.* The buffer keeps the array with its read and write positions,
`Shift` included, because user data is copied while octets behind it are still
to be parsed. A header is one octet that names its fields; a valid one is one
the code accepts, and every reason to reject is one of the other headers. Block
size, frame size and CRC are scaled down.

*Object parser.* `parse` is the loop of `ParseSinglePass` (octets left, headers
seen, result), `handler` the `IAPDUHandler`; a step is one header. Octets have
four bits, group and variation are one octet, and the table of objects has one
entry for each way the parsers treat an object. Numbers of one and two octets,
packed bits and double bits, counts, ranges, prefixes and free format are decoded
as in the code; a value of fixed size stays the octets it is made of. Attributes
that are signed, floats or times go the way of unsigned integers.

*Master.* The record `s` (in `MasterSpec`: `ch`) is a channel: `ctx[m]` is the
`MContext` of master `m` (online, transmission, sequence number, active task,
task state, response timer, confirm queue), `queue`, `current`, `pending`,
`posted`, `taskTimer` and `startTimer` are the scheduler, `task[t]` holds the
`TaskBehavior` and the job of a task. Times are distances from now, and a tick
moves all of them; `Never` is `Timestamp::Max`. `owed[t]` counts the outcomes
the user of an ad hoc task still has to be told, `soe` is what the SOE handler
was given.

*System.* `s` and `out` are the two records above, `net` holds the fragments on
their way in order. The layers below are taken for what `stack` shows: a
fragment arrives whole, or not at all, or twice. Whatever goes wrong (a loss, a
doubling, a broken connection, a timer that fires while the exchange is still
under way, an expired selection) is taken from a budget.

*Channel.* `c` is an `IOHandler`: the state of every session, which of them were
told that they are online, which wait for `OnTxReady`, the open channel, the
queue (by session), the client object, whether it is connecting (`dialing`),
attempts of clients that were replaced (`stray`), the retry timer and timers whose
handle was overwritten (`orphans`). A server counts its outstanding accepts
(`accepts`; `BeginChannelAccept` adds one whether or not one is under way), and
`deaf` says that it could not bind its port, or that its last accept failed.

*Lifecycle.* `g` holds the resource managers with the holder of their mutex, the
lambdas of every strand, the program counter of every user thread, and the
accepted connections. `resources` is the pointer of `DNP3ManagerImpl`, `returned`
the end of the call of `Shutdown` that found the members, `listening` that the
server goes on accepting. The channel and the listener exist from `Init` on;
`AddStack` has both its outcomes, a stack or, for a route in use, none. The user
may shut down the listener (`ShutdownListener`) and a session (`BeginShutdown`) as
well. `block_until_and_flush` of the executor library is modelled
from its use: the caller waits for the lambda and for what the lambda posts.

## 3. Runs

Properties are described at their definitions; this is what each run adds.

| Run | Instance | Shows |
|---|---|---|
| `event_buffer` | a behaviour is one of the *buffer* (two types, of capacity 2 and 1, two classes, two variations, five arrivals) or of a *list* (three nodes, six arrivals, so that every node is used again) | counters, lists, no silent loss, under every order of calls; both chains of the linked list stay intact, also in a loop that removes |
| `outstation` | three scenarios in one run. *poll*: three events for a buffer of two, one object per fragment, polls, another request, all confirms, a broadcast, one retry. *disturb*: two events, requests that cause events, change the mask, freeze selected counters, fail to parse or need no answer, no retries, immediate READs during the null response. *sequence*: controls and time, no unsolicited responses. Sequence numbers modulo 3 | written events are always those of the awaited response, timers are armed, nothing startable is left, repetitions get their own response, FIN is last, no event is lost unconfirmed; select-before-operate and the LAN time procedure hold under repetition, deferral and expiry |
| `static_data` | binaries 0, 1, 3; counters 0, 1; frozen counter 1; READs of class 0, overlapping ranges, and a gap; rooms 3, 4, 20; two changes | range and cells agree, responses are snapshots, events mirror values, what counts as loaded was written |
| `stack` | a behaviour is one of a *station* (segments of two octets, fragments of 2, 3 and 4 octets, the last too long for the peer, sequence numbers modulo 3, two fragments, any number of status checks, one fault) of a *parser* (blocks of two octets, frames of up to two blocks, streams of up to three pieces: frames, cut-off, rejected and broken frames, noise) or of the *objects* of a fragment (every qualifier and every kind of object, one or two headers, well-formed or not, cut off at any octet) | buffers, waits, reassembly, every send ends unless link checks go on for ever; the parser hands on exactly the frames of the stream however it is cut, and never runs out of room; the handler of a fragment is told exactly what was written, or nothing |
| `master` | two masters on a channel: one with an integrity poll and a periodic poll, one with a command and a request without response; responses with fitting and other sequence numbers, in one or two fragments, unsolicited ones, IIN restart | session and scheduler agree, tasks are in one place, no wakeup is lost, ad hoc tasks are reported once and end |
| `channel` | two sessions, every transport, three frames, two stray attempts | sessions are told exactly whether they are online, completions arrive, unused channels are closed, enabled sessions come online unless the server failed to bind or to accept |
| `lifecycle` | two user threads, two stacks, one connection | whatever is open is in the hands of the shutdown of the manager, and nothing is open when it has returned; stacks agree, one close per connection, calls return |
| `system` | four plans: a poll with one event and two faults; a poll with three events, more than the buffer holds, and one fault; two select-and-operate commands with two faults; a file of two blocks read and written with one fault. Sequence numbers modulo 3 | the two sides implement `EventDelivery`; a command runs at most once per request and did run if reported; transferred files are intact |
| `system_live` | a poll with two events and one fault, under fairness | every event is acknowledged or pushed out in the end |

*Refinement.* `DeliversEvents` is `EventDelivery!Spec` with `recorded` mapped to
the arrival numbers given out so far, `pending` to the events in the buffer, and
`delivered` to what the SOE handler was given. Every step of `System` is then a
`Record`, a `Deliver`, an `Acknowledge` or a stutter: `ClearWritten` removes only
what the application of the master has.

*Reference definition.* `FramesExact` compares the incremental parser with
`FramesIn`, a recursive definition of the frames in a sequence of octets.
`AllOrNothing` compares the object parser with `ObjectFormat`, which writes headers
from what they mean: the parser has to recover the meaning from the octets.

### Bounds and why they are enough

Every list has both a type that can hold two events (order matters) and one that
holds one (every update evicts); five arrivals refill a list after a clear. In
`outstation` any message may arrive at any time, so more sequence numbers only make
it rarer that a late confirm or a repeated request is mistaken for a current one;
three are the fewest for which the number after and the number before differ. In `system` messages arise
from the two sides alone and keep their order, at most two things go wrong, and a
master gives up a request after one timeout: few sequence numbers make it more
likely than sixteen do that an old fragment is taken for a current one, and the
properties hold with three already. One object per fragment makes every response of two objects a
multi-fragment one. Three segment sequence numbers against at most one fault
stand for 64 numbers against fewer than 64 losses in a row: the protocol itself
cannot tell a segment from the one 64 later. Updates of the database are bounded
by two per behaviour because an update overwrites the effects of the one before.
In `master` all durations are one tick, so that any two timers may expire in
either order; one ad hoc task at a time, one posted check and one queued confirm
are enough to make every queue in the code non-empty while something else
happens. Two sessions are enough for the channel, because a session is affected
by the others only through the queue and through "some other is enabled". A
second outstanding accept of a server, and a third, differ from the first only in
that there is another one left when one ends. In `lifecycle` two threads are enough
for every pair of calls to meet, two calls of `DNP3Manager::Shutdown` included
(and `AddStack` if `ConcurrentAdd`); a second `BeginShutdown` of a session comes
when the lambda of the first has run.

### Fairness

`stack` assumes that the channel finishes its writes, that the executor runs
posted calls, and that a running response timer expires. `master` assumes for
the master whose tasks it is about that transmissions end, and for the executor
that it runs posted checks and expired timers and that time passes; nothing is
assumed of answers or of the other master. `channel` assumes that timers fire,
that attempts end, and that attempts which are made again and again succeed at
last: without it no session could be promised a connection. `lifecycle` assumes
that the threads of the pool run what was posted and that a thread that can go
on does. `system_live` assumes that the two sides keep making progress, that they
are connected again and again (which `channel` shows), and that an outstation
that waits again and again for a confirm is told in the end that none came. This
last condition is strong fairness. The model can take `OutstationTimeout` while the
timer runs and a fault is still to be spent, or nothing is under way, so a wait
that is cut short each time would disable it; the real timer has a fixed length and
does expire if no confirm comes within it. The fairness conditions of `stack` and
`system_live` are spelled out with the enabling condition. In `stack` this is weak
fairness. In `channel` the success of attempts is strong fairness, the rest weak.

`SendCompletes` makes an exception that fairness cannot remove: if link status
checks, the user's or those of the keep-alive timer, come again and again, one in
every wait for an answer, no segment is ever sent (section 5). The checks are not
bounded in the run, so that finitely many of them only delay a fragment.

Deadlock is checked everywhere but in `channel`, `channel_reconnect` and
`lifecycle`, which may stop once everything was shut down.

### Assumptions about the environment

Four constants switch assumptions. The passing runs make them, because the code
does not do what the property says without them:

* `Prompt` (`Stack`): a link status request is on the line before its answer or
  its timeout, and posted calls run before the link is up again.
* `ConcurrentAdd = FALSE` (`Lifecycle`): stacks are not added while another
  thread shuts something down.
* `StaleConfirms = FALSE` (`System`): the master does not lose the connection
  with confirms queued. The connection is lost for both sides (`Drops`).
* `RemoveEnabled = FALSE` (`Channel`): stacks are disabled before they are shut
  down; `channel_reconnect` shows what happens otherwise.

The outstation runs leave out broadcasts to the shall-confirm address, for the
reason given in section 5.

### Runs that end in a violation

Each one checks a property that the code's own comments state and fails; the
details are under `findings`.

* `static_bitfield`: as many packed binaries as the index field has values
  (256 for one octet; 4 in the run) are dropped from the response but count as
  loaded ("True if all data was loaded").
* `stack_secondary`: confirmed user data to a broadcast address leaves the
  secondary station waiting for a transmission that does not exist ("no response
  is sent back").
* `channel_reconnect`: removing the last enabled session stops the client or
  server but leaves the channel open; a session that is enabled on it is never
  reconnected when it breaks ("the current channel has closed, start getting a
  new one").

## 4. Proofs

`EventBufferProofs` proves, for any finite sets of types and classes, any
capacities and any number of events:

* `TypeCorrect`: `BufferSpec => []TypeOK`; the unsigned counters never go below zero.
* `CountersCorrect`: `BufferSpec => []CountersExact`.
* `ListsCorrect`: `BufferSpec => []ListsAgree`.
* `IndicationsCorrect`: `BufferSpec => []IndicationsExact`.
* `LossCorrect`: `BufferSpec => NoSilentLoss`, an action property.

The inductive invariant is `Consistent(b)`: the types, the counters and the lists
together. None of the three is inductive alone: a counter stays a natural number
only because it counts something that is there (types need counters); eviction
takes a record from both lists and decrements by its state, so counters need the
lists to agree; and the record taken is a record only by its type. Every
operation gets two lemmas, what it does to each field and that it preserves
`Consistent`; the invariant is then one case per action. Indications follow from
the counters, because total minus written counts the unwritten events of a class
(the run checks the counters only, and leaves `TypeOK` and `IndicationsExact` to
the proofs). For the loss property, only `Clear` and an evicting `NewEvent` make
the set of records smaller; the evicted one is the least of its list, which exists
because natural numbers are well-founded.

Assumptions on the constants are those named in `EventBuffer` and
`EventBufferSpec`; `MaxEvents` bounds arrivals but is any natural number.

`EventListProofs` proves `ListCorrect`: `ListSpec => []ListIntact`, for any capacity
(zero included) and any number of arrivals. The inductive invariant has the types,
the two chains, the length and, during a loop, that the iterator is at the value
behind the current one: the loop goes on from there after the current node was
freed. `UsedChain` says of each node which value is next, and that there is one or
that the value is the last; in this form a step needs the neighbours of one node
only, and no minimum has to be shown to exist. `Apart` (no node is in both chains)
carries most steps.

`DatabaseProofs` proves, for any points, values, requests, rooms and any number of
changes:

* `RangeCorrect`: `Spec => []RangeExact`.
* `SnapshotCorrect`: `Spec => []ResponseIsSnapshot`.
* `MirrorCorrect`: `Spec => []MirrorExact`.

The first is what the iteration over a selection rests on: `clear_selection` and
a freeze reach every selected cell only because they begin at the first one, so
`MapOk` (the fields of a map, cells within the points, the exact range) is proved
of every operation together with what the operation leaves alone. The mirror is
not inductive as stated: an update compares with the value last considered for an
event and not with the current one, so `Reflects` adds that a point which is not
hidden was seen with that value, even while it is ahead. The snapshot needs the
ranges only so that selections stay within the points; what carries it is that
updates do not touch copies and that a fragment takes selected cells only.

`ChannelProofs` proves, for any number of sessions, frames, attempts and timers
and every transport:

* `OnlineCorrect`: `Spec => []OnlineExactly`.
* `CompletionCorrect`: `Spec => []CompletionOwed`.
* `ClosedCorrect`: `Spec => []ClosedWhenUnused`, assuming `~RemoveEnabled`.

The invariant `Good` joins them with the types and with two facts about
transports: a server has no retry timer and no attempt left over from a client,
and a TCP channel that nobody uses is closed, is neither connecting nor accepting
and, in a client, has given up the object that could connect. Operations nest (a
send that fails resets the channel, which starts an accept), so each gets a lemma that it takes a good channel to a good channel, and
`Dials` and `Queues` say which fields an operation may touch at all.

`StackProofs` proves, for fragments of any length, any frames from the line and
any sizes of segments and sequence numbers, assuming `Prompt`:

* `FrameCorrect`: `Spec => []FrameIntact`.
* `NothingWaitsCorrect`: `Spec => []NothingWaits`.
* `ReadyCorrect`: `Spec => []ReadyMeansWritten`.
* `SecondaryCorrect`: `Spec => []SecondaryWaitsForSomething`, assuming also
  `NoConfirmedBroadcast`; `stack_secondary` shows that this is needed.

The invariant `IInv` says what each state of the two stations means for the one
transmit slot (`LineOk`, `PriOk`, `SecOk`, `SendOk`), that what can be started is
started (`Started`), and how far the fragment has been on the line (`SentOk`,
`WrittenOk`). The octets written so far are those before the segment at the front,
plus those of that segment once its frame is on the line; so `ReadyMeansWritten`
needs to know which frame is in the buffer, which needs `FrameIntact`. Without
`Prompt` this fails where section 5 says. Arithmetic on the sequence number of
segments plays no part: what the peer makes of them (`DeliveredIntact`) depends on
how many frames a channel may repeat before the number comes round, is false for
arbitrary constants and stays with TLC.

`LifecycleProofs` proves, for any number of threads, stacks and connections:

* `ClosedOnceCorrect`: `Spec => []ClosedOnce`, with or without `ConcurrentAdd`.
* `StacksCorrect`: `Spec => []StacksAgree`, assuming `~ConcurrentAdd`.
* `EscapesCorrect`: `Spec => []NothingEscapes`, assuming `~ConcurrentAdd`.

`StacksAgree` is about states in which nothing is going on, `NothingEscapes` about
every state: what is open is a member of the manager, or among the members that a
call of `Shutdown` still has to reach, or a lambda that closes it is posted. Since a
second call returns at once while the first is at work (section 5), "nothing is
open" is claimed of the return of the first. The invariants say what is going on
meanwhile. `Inv` holds whatever the threads call: every posted lambda has what
it needs, a thread waits for one lambda at most, a lambda that somebody waits for
has that thread waiting, one thread at most carries out the shutdown of the manager,
and that thread waits for the lambda that closes what is open and no longer on its
list (`Reached`); a listener that still accepts is on a list (`InHands`). A connection that is being accepted
is the hard case: it becomes a member, or finds the manager shutting down and is
refused. `Inv2` adds, without concurrent additions, that members and bound stacks
differ only by a stack that is being added or whose detaching lambda is posted,
that a stack on its way in is in use or nobody holds it or is about to take it away
(`Clean`, which needs that its lambda is the first of the strand, `HeadOk`), and
that somebody waits for the last lambda of an open channel's strand, so that a
quiet system has no such lambda left. A step is described by what it takes from
and adds to the queues and which threads it moves; the lemmas `GoesKeeps`,
`OneConnStep` and `CallStep` then carry the invariants for all steps of a kind.

`OutstationProofs` proves, for any messages, broadcast addresses, parameters,
variations, capacities and sizes:

* `RepeatCorrect`: `Spec => []RepeatGetsItsResponse`.
* `OperateCorrect`: `Spec => OperateFollowsSelect`, an action property.
* `WrittenCorrect`: `Spec => []WrittenAreCarried`, `FinCorrect`: `Spec =>
  []FinIsLast`, `NothingLeftCorrect`: `Spec => []NothingLeftToStart` and
  `NoLossCorrect`: `Spec => NoUnconfirmedLoss` (an action property), assuming
  `"ShallConfirm" \notin Broadcasts`. Section 5 says why.
* `LanCorrect`: `Spec => LanWriteInSequence`, assuming that no WRITE is broadcast:
  a broadcast does not set the sequence number that a WRITE is compared with.

The inductive invariant is `Sound`. It has the buffer's `Consistent`, whose lemmas
in `EventBufferProofs` on updating, selecting, writing and clearing are used
again; that the last response answers the request in the history (`Answered`);
that a deferred request is a READ that waits for the end of a confirm (`Patient`);
and that nothing startable is left when a callback returns (`Started`). Unless a
broadcast demands confirmation it has `Careful`: a wait for a confirm has its
timer; whatever is written was carried by the awaited response, and if that was
the last fragment nothing is selected any more; and a response that is waited for
answers a READ. Loss needs `Careful`, because a confirm clears whatever is
written; `Careful` needs `Consistent`, because counters decide whether events are
loaded and FIN is set; the timer needs the last conjunct, because the repetition
of any other request cancels it. `Patient` and `Started` do not hold in the middle
of a callback: they are proved of `CheckForTaskStart`, which ends every callback
that leaves the link up. A callback is a chain of operators on the record `o`:
every operator has a lemma that says which fields it may change, what it does to
the buffer and to the command selection, and the lemma about an action puts them
together.

TLC checked `Sound`, and `Inv` and `Inv2` of `Lifecycle`, on the instances of the
runs before they were proved.

Assumptions on constants are those named in the modules that declare them; the
bounds of the model are constants of which nothing is assumed but their type.
`None` is assumed to differ from the strings it is compared with (`NoneDiffers`),
and the strands of the channel and the listener from the connections
(`NamesDiffer`).

Only model-checked, and why:

* All liveness (`SendCompletes`, `ComesOnline`, `CallsReturn` and the others):
  fairness and ENABLED are outside what the prover supports.
* The static writers and the parsers (`FramesExact`, `AllOrNothing`): recursion or
  folds over the octets, which would need induction over data.
* The master and its scheduler: a callback folds over the set of tasks, so that
  what it leaves behind is again induction, over the tasks. `EventDelivery` and
  the rest of `System` contain the master.
* `DeliveredIntact`, for the reason given above.

## 5. What is not modelled, and what was observed

* Values, time stamps, dead-bands and their encodings, and the two header octets
  of an APDU. The object parser is modelled on its own; in the models of
  outstation and master requests and responses arrive parsed, or fail to parse,
  which `AllOrNothing` justifies.
* Sockets, serial ports and TLS themselves: operating system I/O behind
  `IAsyncChannel`. Secure authentication: no stack uses it.
* Generated code, logging, decoder, language bindings.

These are most of the repository's lines; they are tables, wrappers and pure
conversions with little or no state of their own.

Behaviour of the code that the models show or that was met while writing them,
and that the properties above do not cover:

*Outstation.* After a broadcast that demands confirmation every answer asks for a
confirm (`OutstationContext.cpp:497`), and the confirm of an answer without events
clears events whose own response was never confirmed (`OutstationStates.cpp:99`):
with `"ShallConfirm"` in `Broadcasts`, `NoUnconfirmedLoss` fails. A repeated
non-READ request stops the confirm timer (`OutstationStates.cpp:138`), which
matters only after such a broadcast: then a wait for a confirm can be left without
the timer that ends it, and `NothingLeftToStart` fails as well. A broadcast WRITE of
the LAN time is compared with the sequence number of the last request that was not
a broadcast (`OutstationContext.cpp:733`). Broadcast RECORD_CURRENT_TIME requires
objects where the unicast one forbids them (`OutstationContext.cpp:593` and `676`,
modelled as written). Selection by class keeps the variation of an earlier,
abandoned READ (`EventSelection.cpp:38`).

*Database.* `FreezeCounter` freezes every counter that an unfinished READ still
selects, and takes it off the response (`Database.cpp:474`); `ResponseIsSnapshot`
excepts counters. `StaticDataMap::modify` reports false if a point lies beyond
the range (`StaticDataMap.h:281`).

*Link.* The completion of a frame goes to the current state, not to the one that
queued it (`LinkContext.cpp:144`): without `Prompt` the completion of a link status
request is taken for that of a data segment. `userLinkStatusCallback` is
overwritten by a second check and not called when the link goes down
(`LinkContext.cpp:324`). `TryStartTransmission` serves a link check before the next
segment (`LinkContext.cpp:225`): if one comes in every wait for an answer, for
instance because the peer is silent and `KeepAliveTimeout` is not longer than the
response timeout, the fragment is never sent, and its sender is never told.

*Master.* `OnLowerLayerDown` keeps the confirm queue (`MasterContext.cpp:101`): with
`StaleConfirms` an old confirm acknowledges a response of the next connection that
never arrived. Queued confirms wait behind the next request at `OnTxReady`. The
master confirms responses that its task rejected. A NoResponse task tells its
user nothing once it was sent. A task that blocks those of lower priority and
fails again and again starves them; only start timeouts end the wait. A demand for
a task that is running is forgotten when it succeeds. If only one side notices
that the connection was lost, sequence numbers start again on that side only.

*Files.* Handle and block number of an answer are not compared with the request
(`FileTransferTask.cpp:330`); an answer in the middle of a file that cannot be
parsed ends the transfer with SUCCESS; a timeout leaves the handle open.

*Channel.* `Disable` and `Remove` leave the frames of the session in the queue, and
their completions reach it when it is enabled again (`IOHandler.cpp:88`). Retry
timers of the serial and UDP handlers whose handle was overwritten reopen the
port after everything was disabled (`ClosedWhenUnused` excepts the two). A server
that fails to bind its port again does not retry, and neither does one whose accept
ends in an error: the callback starts no other (`TCPServer.cpp:106`), and
`OnShutdown` of the handler is empty (`TCPServerIOHandler.h:61`). Sessions are not
told; `ComesOnline` excepts the two. `BeginChannelAccept` starts an accept also
while one is outstanding (`TCPServerIOHandler.cpp:69`).

*Lifecycle.* `DNP3Manager::Shutdown` empties the list under its mutex and shuts the
resources down after that (`ResourceManager.cpp:32`): a second thread that calls it
meanwhile finds the list empty and returns with the channel still open, and it
resets `resources` (`DNP3ManagerImpl.cpp:60`), a pointer that no mutex protects and
through which the first call is still at work. An accept that ends in an error
detaches the listener from the manager without closing its acceptor
(`MasterTCPServer.cpp:45`). `AddStack` holds the mutex of the channel's resources while it waits
for the strand (`DNP3Channel.cpp:136`, `ResourceManager.h:47`): with
`ConcurrentAdd`, `CallsReturn` fails. A connection that times out before its first
frame is closed without telling the user and stays among the resources until the
manager shuts down (`LinkSession.cpp:171`). A second frame in the same read as a
rejected first frame asks the user once more (`LinkSession.cpp:125`).

## 6. Plan

1. Several masters and outstations on one channel in `System`, with the link layer
   in between instead of its abstraction.
2. Proofs about the master: `Agreement` and `Custody` of the scheduler, with the
   folds over tasks replaced by relations between the states before and after them;
   then the refinement of `EventDelivery`.
