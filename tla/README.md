# Formal models of ntex-mqtt

TLA+ models of the MQTT server and client framework `ntex-mqtt`, model-checked
with TLC and, for the properties that carry the most weight, proved with TLAPS.

The models are translations of the Rust source: an action is what one task does
between two awaits, and carries the name of the function it stands for.
`PROJECT.json` maps each definition to its lines.

## The system

Everything of one connection runs on one thread; concurrency is the interleaving
of futures at awaits, of wake-ups, and of the peer.

| part | source | what it does | module |
|---|---|---|---|
| sink, versions 3 and 5 | `v{3,5}/shared.rs`, `v{3,5}/sink.rs` | outbound publishes, subscribes, unsubscribes; packet ids, receive maximum, acks, callbacks | `Sink` |
| framed dispatcher | `io.rs` | decodes frames, calls the service, orders responses, back-pressure, errors, shutdown | `IoDispatcher`, `ResponseOrder` |
| its timers | `io.rs` | keep-alive and frame read rate | `IoTimers` |
| in-flight limiter | `inflight.rs` | limits calls and bytes being handled | `InFlight` |
| packet dispatchers | `v{3,5}/dispatcher.rs`, `v{3,5}/client/dispatcher.rs`, `v{3,5}/control.rs` | check packets, ids, aliases; call the publish and control services | `PacketCalls`, `DispatcherV5`, `DispatcherV3`, `ClientDispatcherV5`, `ClientDispatcherV3`, `PacketPromise` |
| routers | `v{3,5}/router.rs`, `v{3,5}/client/connection.rs` | resource by topic, alias tables | `Routers` |
| handshakes and servers | `server.rs`, `service.rs`, `v{3,5}/server.rs`, `v{3,5}/handshake.rs` | version detection, negotiation, timeouts | `Handshake` |
| client connections | `v{3,5}/client/connector.rs`, `connection.rs` | connect, limits, keep-alive task | `Handshake` |
| topics | `topic.rs` | validity, parsing and matching of filters | `Topic` |
| codecs | `v{3,5}/codec/*`, `utils.rs`, `version.rs` | framing, size limits, every packet on the wire, version detection | `Codec`, `PacketsV5`, `PacketsV3`, `Wire` |
| values | `error.rs`, `types.rs` | data carried around | not modelled: no state |

How they interact: the framed dispatcher decodes a packet and calls the in-flight
limiter, which calls the packet dispatcher. Acks go from there to the sink, other
packets to the application's publish service (concurrently) and control service
(one at a time). Answers come back to the framed dispatcher, which writes them in
the order of the packets. The sink writes directly. The framed dispatcher tells
the packet dispatcher of timeouts, errors and back-pressure by calling it with
items of its own.

## The modules

### Sink

State: the fields of `MqttShared` (`cap`, `wrb`, the queues `inflight`,
`inflight_ids`, `waiters`, the id counter, the callback), whether the io is closed
and the dispatcher gone, and for each task what its request is doing. A channel is
the name of its task; a cancelled task leaves a `Dead` sender behind. The peer is
the sequence of packets it has not acknowledged. Actions: the request functions
(`send_at_least_once`, its non-blocking form, `subscribe`, `unsubscribe`, `ready`),
`resume` of a woken future, `cancel`, acks, back-pressure on and off, `set_cap`,
the ways a connection ends. `Version` selects what a non-blocking publish does
without a callback, the only difference of the two versions in the queue
discipline; the map names the lines of both. The theorems hold for both.

Runs: `MCSink_v5` (version 5, two tasks, every event, a peer that may acknowledge out
of turn; `UniqueIds`, `ChannelsMatch`, `AckOrder`, `CallbackOwed`) and
`MCSink_contention` (version 3, three tasks for two slots under back-pressure;
`WakeAccounting`, `RequestsEnd`). A capacity of one makes every request contend,
three ids make the counter wrap while ids are in use, and `MaxWaiters` leaves room
for a cancelled waiter in front of live ones.

Two runs are violations, each with its finding. `MCSink_close_race`: a publish woken
before the close registers after the queues were cleared, and never ends.
`MCSink_receive_max`: a woken publish does not look at the credit again, so it and a
publish that started in between exceed the receive maximum.

Left out: refused subscribe packets in `AckOrder`'s run (`send_subscription` registers
its entry before encoding and leaves it behind, so the next ack mismatches), and
`ready` and cancellations in `RequestsEnd`'s (an ack wakes one waiter, and one that
sends nothing does not pass the wake-up on). Both are hypotheses of the theorems, and
hazards in `PROJECT.json`.

### IoDispatcher and ResponseOrder

State: the fields of the dispatcher, the program counter of its poll, its wake-up,
the spawned response tasks, and the io (signals, frames, full write buffer). One
action per step of `poll` between which nothing else runs, and one per thing that
happens outside of the poll. `ResponseOrder` says what is promised of responses:
calls finish in any order, responses are handed to the encoder in call order, each
once and as early as possible. `InOrder` says that `IoDispatcher` implements it,
with `hist` (results by call) and `out` (responses handed over) as the mapping.

`MCIoDispatcher_events` has every signal, two of them at any point of the poll, three
responses at a time, indexes modulo 4, so that they wrap, and one response that the
encoder refuses (`MaxBad`). `StopEnds` is checked under fairness. `MaxCalls` bounds the
notices that each wake-up repeats while the service is busy and the buffer full. Calls
return a response, an error, or a response that is refused; one that returns nothing
(`none`) is written like a response that is not, and is left to the theorems.
`ErrorReported` says which error the future returns: the slot holds one, so a response
refused after an error of the service takes its place.

`MCIoDispatcher_stop` is a violation, with its finding: `StopIsFinal` says that a
stopping dispatcher does not read on. In Backpressure the flush that follows an item
sets the state back to Processing whatever it was (io.rs:325).

### IoTimers

The timers of the same dispatcher, with the rest reduced to what touches them. One
tick is a second; a frame is bytes; the fixed header is consumed early, as the
codecs do. `got`, `unseen`, `told`, `missed` and `periods` are history: the bytes
`update_timer` was told of in the period, those it was not told of yet, whether it was
told at all, which earlier periods it was not told in, and how often the timer was
extended. `MCIoTimers_timers` has a service that is busy, write back-pressure and memory
pressure at any time. A peer can keep the rate of more than one byte a period for four
periods within the eight bytes of the buffer, longer than the maximal time of five
seconds lets it, so that `MaxTimeoutKept` is about `max_timeout` and not about the
buffer.

`ExtendedForRate` says that a period counts as kept exactly when more than `rate`
bytes were received in it. The documentation of `frame_read_rate` extends the timer for
`rate` bytes; the code needs one more. The equivalence is about timers for which the
dispatcher looked at the buffer in every period. In the first period without, which
write back-pressure makes possible, `read_remains` is still 0, the unsigned difference
wraps and the period is extended for a peer that sent nothing (io.rs:551; a debug build
panics); the second conjunct says that a second such period in a row is not.
`SilentPeerEnds` assumes that interruptions end, and a `frame_read_rate`: in the default
configuration (`ReadTimeout` = 0) no timer runs while the buffer holds part of a frame.

### InFlight

The counters, the waker and the guards; `wake` is anything else that wakes the
dispatcher's task. Items of the dispatcher are called while it is not ready, so the
limits are exceeded, which the test for a crossing in `dec` must survive.
`MCInFlight_limits` has packets smaller, equal and larger than the limit on bytes.

### PacketCalls and the four dispatchers

`PacketCalls` has what they share: the ids being handled (`inflight`), the calls in
progress with the service each awaits, the queue of a control service that takes one
message at a time (servers), and the properties. Each dispatcher has its handlers with
their early returns in order, and what it does with each answer or error of a service.
Publishes go through the router of the same side (`Routers`), whose alias table is
apart from the dispatcher's. `bound` is what the peer believes of its aliases; a
publish that was refused before its alias was looked at leaves the alias open, since
the code forgets that binding and the peer may not.

`MCDispatchers_promise` has all four dispatchers with every kind of item, two calls and
two aliases, one above the maximum, and those of version 5 with a receive maximum of one
in some behaviours, which the calls reach, and of two in the others, in which an id is
seen twice (`OneCallPerId`, `ReceiveMaximumKept`, `NoLeakedIds`, `RoutedAsMeant`). It
shows that each implements `PacketPromise`, the abstract specification of an id-guarded
request, with the mapping of `PacketCalls`: `handling` is for each id the set of calls
that have it, not the one call, so that two calls with one id are a state of the mapping
and a violation. Slots are symmetric. Buffered packets may arrive after an error until
the framed dispatcher has seen it (`stop`). A publish whose duplicate id is refused
before its alias is looked at counts as not binding it.

Two things the models show and no property forbids: the receive maximum is compared
with a set that also holds the ids of subscribe and unsubscribe packets, so a publish
can be refused below it; and the retain flag of QoS 0 publishes is not checked. A client
of version 5 may waive the answer of any publish (`ack_qos0`), so that one with an id
gets no PUBACK; the model counts such a publish as settled.

### Topic

`is_valid` is a loop over characters and a step reads one, so the states of
`MCTopic_filters` are all texts of up to six characters over the ones that matter
(`a $ + # /`). Filters are matched with the topic names and filters of the constants
`Topics` and `Filters`, in the run those of up to three levels.
`TopicFilter::try_from`, `to_string`, `matches_topic` and `matches_filter` are
operators on them. They are compared with each other
(`ValidIffParsed`, `RoundTrip`), with a definition of matching written from MQTT's
rules (`MatchesAsSpecified`), and matching of filters with the topic names that
filters have (`FilterCovers`). Six characters hold three levels
with names and wildcards in each place. `FilterCovers` leaves out filters that start
with a level of the server (`$...`): `#` matches the filter `$SYS/a` but not the topic
name (topic.rs:177 ignores the index that topic.rs:189 looks at).

### Codec, PacketsV5, PacketsV3 and Wire

A buffer is a sequence of tokens, each with the bytes it takes; the bytes of a variable
length integer are tokens of their own because a decoder may see a part of them.
`PacketsV5` and `PacketsV3` have for every packet the size that is announced, what is
written and what is read back: separate code that must agree on every byte. `Codec`
puts a codec at each end of a connection. Frames arrive in pieces of any size
(`Arrive`), the server detects the version before it decodes, limits come from CONNECT
and CONNACK, and other implementations send frames this one does not write
(`ForeignFrame`), broken ones among them.

`MCCodec_frames` has packets with each property alone, with none and with all, lengths
on both sides of the steps of the length integer, and limits at which diagnostics fit,
do not fit, or the packet does not. `InSync` is the round trip through any cut of the
stream; `WellFormed` says that only values of the structs are decoded;
`WithinPeerLimit` and `DiagnosticsKept` are about the Maximum Packet Size;
`VersionDetected` about version detection. `WithinPeerLimit` starts at six bytes; below
that the code leaves no room for the header. `DiagnosticsKept` covers every limit: where
the peer takes less than the bytes that are set aside (`limit - HEADER_LEN - 4` in
pubacks.rs), the unsigned difference wraps in a release build, which the model has, and
an answer that fits only without its diagnostics may be refused; a debug build panics.

### Handshake

State: the settings of both sides, the client (`c`), the server (`s`), how much of
CONNECT has arrived, what the server wrote, and the two keep-alive clocks. One action
per step of `_connect`, of `MqttServerImpl::call` and of `HandshakeService::call`
between two awaits, for each version where they differ; the handler may accept, change
limits (`with`), choose a timeout, refuse, fail, or publish through the sink it is
given. U16_MAX, the default keep-alive of 30 and the default Receive Maximum of 16 are
constants, scaled down so that saturation and defaults are reached.

`MCHandshake_connect` varies the keep-alive from none to the largest and the limits of
both sides, with the client's timeout set or not and the two of the server set together
or not. `LimitsAgree`: neither side sends more, or larger, than the other enforces.
`AckBeforeCredit`: `set_cap` wakes tasks before CONNACK is encoded, and none of them
overtakes it. A QoS 0 publish of the handler does: it needs no credit, is written at
once, and the client ends the connection ("CONNACK packet expected from server first").
`KeptAlive` names the only cases in which the server drops a client for silence. The
server's clock starts with its dispatcher and the client's with CONNACK, so the client
may be late. `RefusalReported`: a refused client does not report a lost connection.
`HandshakeEnds` and `GoneClientDropped` are liveness: a side with timeouts ends the
handshake, and a server with timeouts drops a client that is gone, at whatever point it
went (`ClientGone`) and though the end of its stream may never arrive.

A keep-alive that the handler writes into the packet through `with` is announced as it
is, and the server's own timer does not follow it (v5/server.rs:416). Maximal QoS, alias
maximum, retain and subscription ids of CONNACK are copied by the code and not modelled.
`io.shutdown` is folded into the step that follows it. The docs of the keep-alive options
still give a default of 30 seconds that the code no longer sets. A packet other than
CONNECT fails in version detection, which `Codec` has.

## Fairness

- Sink: a woken task runs, the peer acknowledges, back-pressure ends, the handshake
  sets the capacity, a closed connection is torn down. The single-threaded executor
  justifies the first; the others are what a request needs to end at all.
- IoDispatcher: a scheduled task is polled, calls end, a busy service becomes ready,
  buffers are flushed, shutdown completes. Nothing is assumed of the peer.
- IoTimers: time passes (strong fairness: polls in between do not stop it) and a
  poll ends.
- InFlight: calls end. Other wake-ups are not assumed.
- Handshake: tasks that can run do, timers that are set fire, time passes, and the
  handler and the application's services return (the code puts no timeout on them).
  Nothing is assumed of the network: CONNECT, CONNACK and the end of a stream may stall
  for ever, and a side without timeouts then waits for ever. Once both sides are up a
  ping arrives within the second.

`CHECK_DEADLOCK FALSE` is set where a connection ends and nothing follows.

## Proofs

| module | theorem | for all |
|---|---|---|
| `SinkProofs` | `SinkTypeOK`, `SinkUniqueIds`, `SinkChannelsMatch` | tasks, ids, capacities, requests and events, both versions |
| | `SinkAckOrder`, `SinkAcksInTurn`, `SinkCallbackOwed` | the same, if subscribe and unsubscribe packets can be encoded |
| | `SinkWakeAccounting` | the same as the first, in behaviours without `WakeUpUnused` |
| `IoDispatcherProofs` | `IoIndexMatch`, `IoInOrder`, `IoDrainedAtShutdown`, `IoBackpressureTold`, `IoErrorReported` | index ranges, numbers of requests, results and signals |
| `DispatcherV5Proofs` | `V5OneCallPerId`, `V5NoLeakedIds`, `V5RoutedAsMeant`, `V5ReceiveMaximum`, `V5PromiseKept` | ids, topics, aliases, limits and calls in progress; server and client |
| `DispatcherV3Proofs` | `V3OneCallPerId`, `V3NoLeakedIds`, `V3RoutedAsMeant`, `V3PromiseKept` | the same |
| | `TimersFlagsHaveTimer`, `TimersExtendedForRate`, `TimersMaxTimeoutKept` (IoTimers) | timeouts, rates, sizes of chunks and buffers |
| | `InFlightNoLostWake`, `InFlightCapExact` (InFlight) | limits, sizes, calls |
| `HandshakeProofs` | `HandshakeLimitsAgree`, `HandshakeAckBeforeCredit`, `HandshakeKeptAlive`, `HandshakeRefusalReported` | settings of both sides, changes the handler makes, timeouts |
| `TopicProofs` | `TopicValidIffParsed`, `TopicRoundTrip`, `TopicMatchesAsSpecified`, `TopicFilterCovers` | texts, filters and topic names of any length over any characters |
| | `VarIntRoundTrip`, `VarIntLenUndone` (Wire) | lengths up to `MAX_PACKET_SIZE`, whatever follows them |

`ResponseQueueProofs` and `PacketCallsProofs` hold the lemmas that the modules after
them share. Each proof starts from the named assumption of its component
(`SinkAssumption`, `IoAssumption` and so on), which the runs evaluate; where the
component is instantiated, as the timers and the limiter are in `DispatcherV3Proofs`,
the assumption is a hypothesis of the theorem. The inductive invariants were
model-checked before they were proved.

`SinkProofs`: the inductive invariant is `TypeOK /\ UniqueIds /\ ChannelsMatch`.
None is inductive alone: that a popped entry frees its id needs uniqueness, and
that a woken or acknowledged task leaves exactly one queue needs that it had one
entry of the right kind. Lemmas say what each queue operation (wake, end, block,
register, cancel, clear, pop, acknowledge) preserves; every action is one or two of
them. `AckInv` adds that the queue mirrors what the peer has: every step leaves the
queue alone, appends what it sends, clears the queue with the connection closed, or
takes the head (`QueueStep`). `SubscriptionsEncode` is the hypothesis, for the reason
the runs have it: a subscribe packet that is not encoded leaves an entry in the queue
that the peer never answers.

`SinkWakeAccounting` is about counts: while tasks await credit on an open connection,
the packets in flight and the tasks that were woken and have yet to run use up the
receive maximum. An ack takes a packet away and wakes a waiter; a woken task takes its
place when it sends. Its hypothesis `[][~WakeUpUnused]_vars` names the steps at which
the code has no successor for a wake-up: a woken task is dropped, had only called
`ready`, or has its packet refused because the id is in use or by the codec. Each of
them leaves waiters behind that only the next ack wakes. The counting lemmas take the
facts about finite sets as one hypothesis, `FiniteFacts`, which is proved from
`FiniteSetTheorems` at the end of the module; `CountingFacts` does the same for the
receive maximum in `DispatcherV5Proofs`.

`ResponseQueueProofs`: `RespInv` says that the queue is the calls after the last
written one, in order, with the result of each that finished; that the calls without
a result are the spawned tasks and the future in place, each with the index of its
entry (`IndexMatch`); and that `out` is the written calls that had a response. The
indexes wrap, so a lemma says that entries of a queue no longer than the range have
different indexes; that it is no longer is the guard `Len(queue) < Wrap` of a call, as
a queue of `usize::MAX` calls does not fit in memory. That popping the finished front stops at the first unfinished entry
is an argument over a sequence of any length: the least counterexample, from the
well-founded order on the naturals. `IoDispatcherProofs` adds where the poll is
(`PollState`) and which error the slot holds after the calls written so far
(`ErrorKept`, which is `ErrorReported` of a queue that is not drained yet); a write
leaves the last error among what it wrote (`ErrorLeft`). `InOrder` then
follows step by step: a write of the dispatcher is the end of a call in
`ResponseOrder`, everything else of the responses is a call or a stutter.

`PacketCallsProofs`: `CallStep` is what a step of any of the four dispatchers may do
with the calls: start one whose id is free or that has none, move one on, end one, or
nothing. A `CallStep` keeps `CallsInv` and is a step of `PacketPromise`. The two
modules after it show that each handler, with each early return and each answer of a
service, is a `CallStep`. `RoutedAsMeant` of version 5 needs `TablesInv`: the
dispatcher knows every alias that the peer bound with a packet that was not refused.
The theorems are about the specification of each dispatcher; the runs of
`MCDispatchers` check the disjunction of the dispatchers.

`HandshakeProofs`: `HandshakeInv` says which phases of the client go with which of the
server (`Phases`), what each knows of the limits of the other in each (`Limits`), what
was written (`Answer`), and that the two clocks run together and count to the
keep-alive the sides agreed on (`Clocks`), so that the client pings before the server's
timer is due unless one of the cases of `KeptAlive` holds.

The timers, in `DispatcherV3Proofs`: `FlagsInv` is `FlagsHaveTimer` with the types
and that a read timer runs only with a timeout. `MaxInv` says what is left of
`max_timeout` after so many periods. `ExtendedForRate` needs what the two numbers the
code keeps mean (`RateInv`): the buffer is what earlier periods had brought
(`read_remains_prev`), what this one brought and was noted (`got`), and what was not
noted yet (`unseen`); `read_remains` is the buffer as last noted (`Noted`). A header that
is consumed while the timer runs takes bytes out of the buffer, which is why the
equivalence is about rates that no incomplete header exceeds. `WrapInv` is the state
after a period that was not looked at.

The limiter, in the same module: the invariant is `NoLostWake` with integer counters.
The lemma `NotCrossed` is the argument: a count at a limit that does not cross it is
still at the limit. `CapExact`, the count of calls, is proved apart from the sum of
sizes.

`TopicProofs`: the loops over characters and levels are recursive functions in the
model, and no installed prover instantiates the library's induction theorems. Each
argument over a text of any length is therefore made by its least counterexample
(`LeastNat`): a first place at which two computations differ, one turn after a place
at which they agree. `SameFold` and `SplitAppend` say what `split` does with one
character more, so that the state of the check loop (`is_valid`) can be compared with
the levels of the text read so far, which is the inductive invariant; `JoinGrows`
the same of `to_string`. `MatchTopicIs` turns the loop of `match_topic` into a
statement on levels without a loop, from which both matching theorems follow
(`MatchTopicAsSpecified`, `MatchFilterCovers`, for all filters and names and not only
those of the constants).

The variable length integers of `Wire`, at the end of the same module: a length has at
most four bytes, so the sum that the decoder makes can be written out (`TotalIs`) and
compared with the groups of seven bits of the number (`GroupsOfSeven`); `WrittenBytes`
says that only the last byte has its high bit clear, which is where the decoder stops
(`ReadEnds`), and without which it waits (`ReadWaits`).

Only model-checked:

- Liveness (`RequestsEnd`, `StopEnds`, `HandshakeEnds`, `GoneClientDropped` and those of
  IoTimers and InFlight): the prover does not handle fairness.
- The sum of the sizes in `CountsExact` of InFlight: a fold over a set, which needs
  induction with an operator parameter.
- Codec (`InSync`, `WellFormed`, `WithinPeerLimit`, `DiagnosticsKept`,
  `VersionDetected`): sizes and contents of packets are sums over sequences of fields,
  so that a proof needs an induction over data for every kind of packet. The lengths
  in front of them are proved, see above.

`TypeOK` of Sink is proved and belongs to no run; in the other modules it documents
the state and is in no run either.

## Not modelled

- Text and payload bytes (a string is its length in the codecs, a name elsewhere),
  logging, the pool of channels, TLS and io back ends of ntex. The io, the timer and
  the buffer service of ntex are modelled from their use and marked external.
- Service factories, default services and the start functions of the clients: they
  build the parts and hold no state of a connection. Errors and types are values.
- A publish-ack callback that calls the sink again; `PROJECT.json` lists it with the
  other hazards that no property covers.
- The composition of a packet dispatcher with the framed dispatcher's response queue:
  the ack of a duplicate id is written ahead of the responses in the queue.

## Running

    tlc -config MCSink_v5.cfg MCSink
    tlapm SinkProofs.tla
