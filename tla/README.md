# Formal model of the LightStep C++ tracer

TLA+ modules, TLC configurations and TLAPS proofs for the tracer's own logic:
how spans are started, changed and finished by threads, how their contexts
travel from process to process, how finished spans travel through a buffer and
a transport to satellites, and what is counted when they do not arrive. Paths
below are relative to the directory that holds the tracer's `src/`, `test/` and
`include/`. `PROJECT.json` lists the components, runs, mutants, hazards,
findings and theorems, and maps every definition to the lines it models.

## The system

    headers -- Extract --> Span, LegacySpan -- Inject --> headers

    application threads                recorder's thread (libevent loop)
    Span::Finish                       StreamRecorderImpl::Poll, Flush
        | RecordSpan                       |
        v                                  v
    CircularBuffer  ------------------> SatelliteStreamer
        ^     Peek / Consume               | Flush, InitiateShutdown
        |                                  v
    FlushWithTimeout,                  SatelliteConnection (several)
    ShutdownWithTimeout  <-- notify --     | ConnectionStream, SpanStream, Write
    (condition variables)                  v
                                       satellites

The drawing shows StreamRecorder. AutoRecorder has a thread that sends reports
over a blocking transporter; ManualRecorder and LegacyManualRecorder have no
thread, and the application's transporter calls them back.

| component | state it keeps | operations | talks to |
|---|---|---|---|
| CircularBuffer, AtomicUniquePtr (`src/common/circular_buffer.h`) | slots, head, tail | Add (many threads), Peek, Consume, Clear (one thread) | shared memory |
| SpanStream (`span_stream.cpp`) | allotment, a half-written span | Allot, Clear, Seek, ConsumeRemnant | CircularBuffer, MetricsTracker |
| ConnectionStream (`connection_stream.cpp`) | header, terminal chunk, remnant, embedded drop count | Flush, Shutdown, Reset | SpanStream, Write |
| Write, Consume (`vector_write.cpp`, `fragment_input_stream.cpp`) | none | batches of writev, seek the streams to where it stopped | socket, fragment streams |
| ChainedStream, FragmentArrayInputStream, ComposableFragmentInputStream | fragments, position | ForEachFragment, Clear, Seek | - |
| MetricsTracker | dropped spans not yet reported | OnSpansDropped, OnSpansSent, Consume/UnconsumeDroppedSpans | MetricsObserver |
| SatelliteConnection (`satellite_connection.cpp`) | socket, four events, flags | Connect, Flush, InitiateReconnect, Reconnect, handlers | libevent, ConnectionStream, endpoint manager |
| SatelliteStreamer | connections | Flush, InitiateShutdown, is_active | SatelliteConnection |
| SatelliteEndpointManager, SatelliteDnsResolutionManager | addresses, round-robin indices | Start, RequestEndpoint, resolution, retry, refresh | c-ares, streamer |
| StreamRecorder, StreamRecorderImpl | request counters, outcome, thread | RecordSpan, FlushWithTimeout, ShutdownWithTimeout, Poll, fork handlers, destructor | all of the above |
| ForkAwareRecorder | global list | fork handlers | recorders |
| AutoRecorder | pending and in-flight report, sequence numbers | RecordSpan, FlushWithTimeout, writer thread | SyncTransporter |
| ManualRecorder, LegacyManualRecorder | buffer or builder, counters | RecordSpan, FlushWithTimeout, OnSuccess, OnFailure | AsyncTransporter |
| Span, TracerImpl, propagators, serialization | one span; none | SetTag, Finish, Inject, Extract | recorder |

The hard behaviours are races between producers and the consumer in the
buffer; writes that stop or fail anywhere; timers that act on a session other
than the one they were set for; threads that sleep and must be woken; a fork in
the middle of all that; transporters that call back early, late or never;
references and finished flags that are read in one critical section and used in
another; headers that get lost on their way; and counters that must tell the
truth in spite of it.

What makes each component correct, in a sentence: the buffer is a bounded
queue that owns every element exactly once; requests are well formed and every
span is accounted for exactly once; connections come back and shut down; calls
return, and return the truth; a report's spans are counted as sent or dropped
and not both; an endpoint is only asked for once there is one; a span is
recorded at most once; extract undoes inject.

## The modules

| module | what it models |
|---|---|
| `BoundedQueue` | the abstract queue that a recorder relies on |
| `CircularBuffer` | the buffer, one action per access to shared memory; its invariants, and the refinement of `BoundedQueue` |
| `FragmentStreams` | the bytes below: blocks, chains of spans, framing, partial writes |
| `CommonProofs` | the theorems about these two, the modules of `src/common` |
| `ConnectionStreams` | the data side of streaming: spans, remnants, headers and drop counts of several connections |
| `SatelliteConnection` | the control side of one connection: sockets, events, timers, failures, shutdown |
| `ConnectionProofs` | the theorems about these two, the two sides of a connection |
| `StreamRecorder` | the blocking calls, the poll timer, forks and the destructor |
| `StreamRecorderProofs` | the theorems about it |
| `EndpointManager` | resolution of hosts, and the addresses handed to connections |
| `EndpointManagerProofs` | the theorems about it |
| `AutoRecorder` | the recorder with a writer thread and a blocking transporter |
| `AutoRecorderProofs` | the theorems about it |
| `ManualRecorder` | the recorder over a buffer with a transporter that calls back |
| `ManualRecorderProofs` | the theorems about it |
| `LegacyManualRecorder` | the recorder of the deprecated transporter |
| `LegacyManualRecorderProofs` | the theorems about it |
| `Spans` | `Span` and `LegacySpan` shared by threads |
| `Propagation` | span contexts in headers, through services of all configurations |
| `TracerProofs` | the theorems about these two, the tracer itself |
| `MC...` | instances for TLC: symmetry, lists of hosts and of modes, sizes of varints |

`ManualRecorder` uses `BoundedQueue` for its buffer, which `CircularBuffer` is
proved to implement; the other modules meet where `PROJECT.json` says that a
component has several. `StreamRecorder` takes what a flush sends and whether
connections are active as nondeterminism, which `ConnectionStreams` and
`SatelliteConnection` fill in; the ready callback of `EndpointManager` is
`Start` of `SatelliteConnection`; `FragmentStreams` justifies that
`ConnectionStreams` only counts bytes.

Each module has operators marked as mutants. A mutant is a likely
mistake in the action whose name it begins with. Put in the place of that
action it makes the property that `PROJECT.json` names fail, which shows that
the property depends on that piece of code.

### CircularBuffer

`data`, `head` and `tail` are `data_`, `head_`, `tail_`. A producer's program
counter says which access of `Add` comes next: `ReadTail`, `ReadHead` (or
`ReturnFull`), `SwapIfNull` (or `SwapFails`), `AdvanceHead` (or
`AdvanceFails`), `UndoSwap`. `t` and `h` are its locals and `ptr` what its
unique_ptr owns. Both compare-and-swaps are `compare_exchange_weak`, so the
failing action is also enabled when the comparison would succeed. `Consume`
advances `tail` in one step and empties the slots one by one afterwards
(`from` is the first not yet empty). Emptying by `Reset` and by `Swap` (as
Seek does for a remnant) are the same to the buffer. `BeginAdd` needs `head <
MaxHead`, a bound that the code lacks and no property rests on: the safety properties
are proved for every `MaxHead`, and `AddsProgress` speaks of numbers below it.

`AddsProgress` says that a call of `Add` that does not return is overtaken: while
it goes on, head moves. That every call returns is not a fact about this code.
Whenever a producer looks, others may have put an element into the slot at head, and
move head after it has given up, without end; `SwapIfNull` is then never enabled for
it, and no fairness of threads helps. Nor does `AddsProgress` hold if a thread may stop
for good between its swap and its advance of head, with its element in the slot that all
others need: the buffer is not lock-free.

`ImplementsQueue` maps the buffer to `BoundedQueue`. The abstract queue may
refuse only if the elements seen queued at some moment of the call plus those
accepted since reach the capacity. It does *not* say that the buffer was full
at some moment, because that is false: a producer that read the tail, slept
while elements were added and consumed, and then reads the head, refuses its
element although there was room all the time (`circular_buffer.h:72-76`).

### FragmentStreams

A byte is named by its place (stream, segment, block, offset) and known by its
number, its position in the request: `Contents` maps the places of the bytes
that the streams hold to their numbers, so a byte sent twice, skipped or moved
shows. Sizes are constants: of a block, of a chunk's header, of the fragments of
the request's header, and `VarintSize`, of a length encoded by protobuf, of which
nothing is assumed but that it is positive and grows with the length.

`Span(framing, body, eager)` is what serializing a span leaves in a
`ChainedStream`: reserved space for the headers, the body and the footer in as many
blocks as they take (`Asked`; protobuf asks for a block before or after it needs
one: `eager`), what is left of the last block given back (`BackUp`), and the unused
part of the reserved space skipped. `Chain` is the list that `Append` makes, pointer
by pointer: `next` and `last` as functions from streams to streams, `Passed` the
streams a recursive `Append` comes by, `Along` the loop over `next_`.
`SegmentSeek`, `Seek` and `Consume` are the code's. Loops and recursions over lists are
running totals (`Sums`) and recursive functions: `FragmentsBefore` for the loop of
`num_fragments` and of `Seek`, `Visited` and `ChainBytes` for the callback that `Consume`
hands to `ForEachFragment`, which stops at the first fragment that is `Short`. The
initial states are all requests of up to `MaxSpans` spans of every length, as
`StreamRecorder` writes them (one stream per span) and as `ManualRecorder`'s
report holds them (one chain). `Write(n)` is a write that stops after `n` bytes.

### ConnectionStreams

A `Flush` is one action: it runs on one thread, and it works on the allotment
it took when it began, so a span that another thread adds or drops in the
middle commutes with it. What it hands to the writer is `Streams(c)`, a
list of pieces: the rest of the header, the remnant, then the buffered spans or the
rest of the terminal chunk. Its nondeterminism is where the write stops (`Cuts`),
or fails (`ErrorCuts`: writev is called once for `IoVecMax` fragments, so
an error surfaces after a whole number of batches). `FlushStream` is
`ConnectionStream::Flush` and `FlushShutdown` with a writer that returns,
`FlushFails` with one that throws; the latter includes the `FreeSocket` that
`SatelliteConnection::Flush` then calls, because no other event can come in
between. `wire`, `received`, `reported`, `sent`, `lost` and `interrupted` are
history variables. A drop count counts as reported when the header that carries
it was written completely, which is when the code stops keeping it. A failed
write also stands for a fatal socket error before anything was written. The
code's counts of dropped and sent spans are kept as the sets of the spans that
they count, which is more than their sums: a sum of counts is a union of sets, and
that no two of them meet is part of what is to be shown.

`StreamsInv` says what holds between two calls. A request and what is left of it
are two sides of one thing: `Linked` says that the pieces a connection holds
(`Held`: its header, its remnant, after a shutdown its terminal chunk) come after
all that is on the wire, and that the one item there that is not whole goes on in
one of them; `Straight` that nothing on the wire was begun in the middle. The rest
says whose a span is: `OneWriter`, `Ordered`, `StrayIsLost`, `WholeAreReceived`.
`Consistent` adds `CompletedIsComplete`, what `ConnectionStream::completed` means.

### SatelliteConnection

A method is an operator from the state of the connection to the set of states
it may leave behind, an action is a callback of the loop or a call of the
streamer, so everything a handler calls is part of its action. Events and
timers are `{}` or `{ticks left}`; `Tick` lets time pass only while nothing is
due, and events of the same moment come in any order. Socket readiness, answers
and errors may come at any time while the event is pending. `OnReadable` is
reading until no more comes, which re-adds the read event; what
`StatusLineParser` has seen of the answer is `line`, and how it finds the code
in the line is left out. A satellite may answer before the request is complete,
never answer, answer something else, or close. `IndInv` says what holds between
two callbacks: `EventsMatchSocket`, `NeverForgotten` and `OneAttempt` are what
the code promises; `RetryComesFirst`, `Deadlines` (how much time the armed timers
leave a session of a given age) and `Phases` (what a shutdown and the time before
`Start` exclude) are what these rest on.

### StreamRecorder

A step is a critical section or an access to shared memory outside of one.
`Enter` is the critical section of a call up to the first test of the
predicate, `Block` gives up the mutex and sleeps, `Resume` wakes (also for no
reason) and tests again, `TimeOut` is the end of `wait_for`. `loop` is where the
recorder's thread stands in `Poll`. A `Flush` of the loop takes any number of the
buffered spans: what a connection takes is the business of
`ConnectionStreams`. Only whether the request counters are positive matters to
the code, so `requests` is a set. `PrepareForFork` waits for the thread to end
(`PollExit`), and one of `OnForkedParent` and `OnForkedChild` follows: the module
follows either process. As the comment on `ForkAwareRecorder` asks, no other
thread uses the recorder while its owner forks. `unserved` is a history variable.

### EndpointManager

A manager is a host and an address family, numbered in the order in which
`Start` starts them. `pending[m]` counts its lookups without an answer and its
armed timers. A resolver may answer before `Resolve` returns, so `Answered` may
happen inside `Start` or `OnRefresh`, and the first addresses make the ready
callback start the connections there and then: `owed` is how many of them
have not asked for their endpoint yet. `RequestEndpoint` has no loop of its own:
`Skipped` is the number of rounds the loop makes, `LastIndex` what its assertion
compares with. The counters wrap at `Wrap`; the sum in the assertion is a
`size_t` and does not. `LastCounted` ties the history variable `last`, the
endpoint answered last, to the counter.

### AutoRecorder

All shared state is guarded by one mutex, so a step is a critical section or a
call of the transporter. Spans are counted, not named. `writer` is where the
writer thread stands: about to wait (`next`), in `WaitUntil` (`waiting`,
`woken`), in `FlushOne` (`flush`, `send`, `succeeded`, `failed`), `done`. `pc` is
where a caller stands in `FlushWithTimeout`. A notification wakes the writer and
all callers, who test their own predicates again. `inflight` and `saved` are the
locals `save_pending` and `save_dropped`. `SendThrows` is an exception of the
transporter, which leaves `FlushOne` and ends the writer; the sync transporter's
`Send` is not `noexcept`. `SetLimit` is the application's functor behind
`max_buffered_spans`. The period between reports is left out: the wait may end
at any time. `accepted`, `lost`, `reported` and `target` are history variables.

### ManualRecorder

`RecordSpan` is `add` (the first `Add`), `full` (inside `OnSpanBufferFull`, which may
flush) and `again` (the second `Add`); both are offers to `BoundedQueue`, which may
make the thread retry or refuse its span as `CircularBuffer` does. A
`FlushWithTimeout`, called by the application or by `OnSpanBufferFull`, makes a
report with the drop count before it takes the mutex (`BeginFlush`), then finds
`NothingToDo`, or reads the number of spans (`ReadSize`) and consumes that many
(`TakeSpans`), and sends. The mutex is held from `ReadSize` to `TakeSpans`, while
`numSpans[t]` is the number read; it keeps other flushes out and not the threads that
add spans, so what these add in between stays behind. A report goes
through `made`, `filled`, `inflight`, and `failed` between the two halves of
`OnFailure`. Callbacks come at any moment from `inflight` on, also before `Send` has
returned, which to the recorder is the same. Drop counts are sets of the
spans they count. `since[t]` counts the spans accepted since `t`'s flush read how
many there are. `OnForkedChild` is the child after a fork; `parents` is what it left
to its parent.

### LegacyManualRecorder

One thread, as its header asks for, so an action is a whole call. `FlushOne`
is an operator on the recorder's state because `RecordSpan` runs it up to two
times and a `Send` may call back before it returns. `Outcomes` is what a transporter
may do inside `Send`, throwing included; it calls back at most once per report.

### Spans

A `Span` and a `LegacySpan` may be of one process and refer to each other. Methods
that hold the span's lock for their whole body are one step. A start is
several: `ReadFlags` and `ReadBaggage` for each reference (two critical sections
of the reference), then `Opened` with its `sampling.priority` tag, if any.
`FinishLegacy` is the exchange of `is_finished_` and `RecordLegacy` the rest under
the lock; `Finish` of `Span` tests its flag under the lock. `Destroy` takes no lock
and needs that no other thread uses the span, as C++ does. Writes to
a span are counted, not kept: a name set twice follows the first one in a `Span`'s
message and replaces it in a `LegacySpan` (`legacy_span.cpp:137`). `Contexts` keeps trace, sampled flag,
baggage and trace state; `parents`, `promised` and `decided` are history variables.
What users may rely on (`Inherits`, `OneDecision`) is about spans whose
constructor has returned. The section after it says what is true of a span while
its constructor runs: what it has read so far is inherited (`InheritsSoFar`), what
it was promised is there or with a reference still to be read (`PromisesKept`),
its trace has a root that was started before (`TracesRooted`), and it agrees with
its trace from the first reference on (`DecidedSoFar`).

### Propagation

A header is a pair of a mode and a field, its value what the text means or
`Corrupt`. `Inject...` and `Extract...` are one operator per propagator, in the order
in which the code calls `Set` or tests a header, with its out parameters: what an
extractor wrote before it failed is there for the next. `UniqifyPropagationModes`
keeps the first of each mode in its place; the loop over the extractors is the
recursive function in `ExtractSpanContext`. `Serve` is a service
that extracts with its list of modes, starts a span, and injects into a new
request or on top of the headers it received. An injection is the set of its calls
of `Set`, each with its place in the order, and may stop before any of them
(`Until`). Of a trace id the two 64-bit halves are kept apart, since three of the
headers carry only the lower one.

`PropagationInv` is what holds of a request on its way: each header denotes
something of its kind (`WellTyped`), all that the headers of one mode tell is of one
span (`Sources`), a mode's headers are all there or none of them as long as nothing
went wrong (`Undamaged`), a fresh request carries what its sender injected (`Fresh`),
and the spans so far are one trace (`OneTrace`).

## What is checked

| run | bounds | shows |
|---|---|---|
| `buffer` | 2 producers, buffer of 2, 3 elements, head up to 4 | the inductive invariant, `PublishedStable`, `ImplementsQueue`; an `Add` that does not return is overtaken by others that do |
| `fragments` | blocks of 7 bytes, up to 3 spans of 1 to 5 bytes, varints of base 2 | what was not written is left, byte for byte; fragments are counted right |
| `streams` | 2 connections, 3 spans of 2 fragments of 2 bytes, buffer of 2, 2 fragments per writev | the inductive invariant, completed streams left nothing unfinished, requests well formed, spans and drop counts conserved, order, unless a write fails between batches |
| `streams_lost` | same | violation: after such a failure a span is lost uncounted |
| `sessions` | periods 1, 5, 5, 5 to 7 | the inductive invariant (events match the socket, nothing is forgotten, one attempt at a time, deadlines), bounded sessions, reconnection and the end of a shutdown |
| `recorder` | 2 callers, 1 span, buffer of 1, 1 fork | no lost wakeup, no lost request, truthful results, calls return without their timeout |
| `endpoints` | 1 or 2 hosts, up to 3 endpoints, 2 connections, counters of 2 bits | the inductive invariant (one lookup at a time per manager, one ready callback), requests are answered, in turn, also across the wrap; connections start |
| `auto` | 2 callers, 3 spans, a limit of 1 or 2 that changes | sequence numbers, drop counts, no lost wakeup, truthful results, calls return |
| `manual` | 2 threads, 5 spans, 2 reports at a time, buffer of 2 | every span and every drop in one place, what a flush has counted is there when it takes it, a flush makes room |
| `legacy` | 5 spans, a limit of 0 to 3 that changes | the same for one thread with callbacks inside `Send`; the buffer stays within its limit |
| `spans` | 2 threads, a Span, a LegacySpan, a remote context, 1 write, 2 references | the inductive invariant (recorded once, inheritance while constructors run), faithful reports, inheritance, one sampling decision |
| `propagation` | a client and 2 services, 8 lists of modes, 1 fault | extract undoes inject, no mixture of spans, one trace |

Why the bounds are enough to be interesting. Three slots and a head of four
let head go round the array, let a producer sleep while the other fills and
the consumer empties, and let an element be allocated again at the same place
(ABA). Blocks of seven hold the headers of a span of one byte and not its
body, so every border between header, body, footer and block is met; every
length of varint occurs. Two bytes per fragment and two fragments per span let a
write stop inside a fragment, between fragments, between spans and between
streams; two fragments per writev split a header and a span over two batches,
so an error can come after a part; three spans fill a buffer of two and drop
one. The periods keep the order of the defaults (retry before reconnect,
write timeout and graceful timeout equal) so timers of different kinds
meet at the same tick; `OneAttempt` and `RetryComesFirst` depend on the retry
period being shorter than the graceful timeout (TLC finds them violated with a
retry period of 6 and a graceful timeout of 5). Two callers and one fork give every pair of calls and
a call before and after the fork. Three endpoints and counters of two bits put
the wrap out of step with the endpoints. Three spans and a limit of one or two let a
report be filled while another is in flight, fails, and gives its drop count
to the next one. Five spans let a thread flush a buffer of two, lose the room to the
other thread, and drop. Two references let a legacy and a new span inherit from each
other, a remote context and a null reference. Two services after the client let
headers pass a service that does not know them. `MaxHead`, `MaxSpans`,
`MaxForks`, `MaxWrites`, `MaxReferences`, `MaxHops` and `MaxFaults` only bound how often
operations are called. A bound on calls could make a liveness property hold that is
false without it; `AddsProgress` therefore only speaks of a head below `MaxHead`, where
every producer may still call.

`CHECK_DEADLOCK FALSE` is in `fragments`, `spans` and `propagation`, where a request is
written, all spans are destroyed, or the last service is reached.

Symmetry is used only in runs without liveness.

### Fairness

* Buffer: a thread inside `Add` or inside the callback of `Consume` keeps
  running (weak fairness); a weak compare-and-swap that could succeed again and
  again succeeds once (strong fairness). Without the latter the C++ standard
  lets it fail forever. Nobody has to call anything.
* Connection: due timers run and time passes. `Reconnects` also assumes that
  not every attempt to connect fails; `ShutdownEnds` needs no help from the
  network.
* Recorder: threads run and a mutex that is free again and again is obtained
  (strong fairness); the poll timer fires. `CallsReturn` also assumes that
  satellites take the buffered spans in the end and connections told to shut
  down do, for otherwise only the timeouts of the calls end them. Timeouts are
  not assumed to fire.
* EndpointManager: the event loop finishes its callbacks, and not every lookup
  of the first host fails (strong fairness of a lookup that brings addresses).
* AutoRecorder: threads run, the time of the next report comes, and `Send`
  returns or throws (weak fairness of each thread). Timeouts of calls are not
  assumed to fire.

### Disagreements between the code and what is said about it

The run `streams_lost` shows the first. The others were met while modelling and
are stated by the way a property is worded, as said here.

1. If `writev` fails in a later batch in the middle of a span, that span is
   neither counted as dropped nor sent (`connection_stream.cpp:80`), contrary to
   `connection_stream_test.cpp:211`, and the rest of it may be sent in another
   session. A remnant that an earlier batch of such a write has finished is not
   counted as sent, because the count follows the write (`connection_stream.cpp:85`),
   nor as dropped, because `Reset` finds it empty. `~interrupted` exempts
   both from the other properties.
2. The circular buffer is not lock-free as its comment says
   (`circular_buffer.h:12`, `81`): if the thread whose element is in the slot at head
   does not run, no other `Add` gets anything in. `AddsProgress` is stated under the
   fairness that every thread inside `Add` keeps running.
3. A socket error during a shutdown opens a session whose reconnect timer does
   nothing (`satellite_connection.cpp:168`, `279`): the shutdown ends only if a
   later attempt to connect or to write fails, or an answer does not parse.
   `ShutdownEnds` is therefore stated with that exception (`revived`).
4. A connection whose shutdown is over before the first host is resolved opens a
   session afterwards (`satellite_connection.cpp:51`).
5. `last_is_active_` is not reset after a fork (`stream_recorder.cpp:158`, `165`):
   `ShutdownTruthUnforked` speaks of processes that never forked.
6. After a `Send` that throws, `LegacyManualRecorder` takes a report for in
   progress for good and never flushes again (`legacy_manual_recorder.cpp:84`); the
   drop count that went with it is lost. `StaysFlushed` and `DropsConserved` are
   worded accordingly.
7. `LegacySpan` accepts writes after it was finished, and its `SetBaggageItem`
   keeps the first value of a key (`legacy_span.cpp:166`) where `Span` takes the last.
   `ReportIsPart` is the weaker promise, `ReportIsFinal` that of `Span`.
8. The lightstep, envoy and binary headers cut trace ids to 64 bits; a missing
   `sampled` header means sampled; a `tracestate` is taken without a `traceparent`; an
   injection that stops half way over forwarded headers leaves a mixture of two
   spans. `ExtractUndoesInject`, `FromOneSpan` (`mixed`) and `OneTrace` (`wide`) say so.
9. `Add` may refuse an element although there was room all the time, see
   CircularBuffer.
10. A stream without fragments inside a chain would be visited by `ForEachFragment`
    and not counted by `num_fragments`. Spans are never empty, so it does not
    happen.
11. A buffer limit of 0 is not refused by `LegacyManualRecorder` and acts as one of 1:
    the span that `RecordSpan` adds is in the buffer until the flush after it.
    `StaysFlushed` says `Room` for that.

## What is proved

Every invariant that a run checks is proved, and every action property and the
refinement, for all values of the constants that the named assumptions allow.

### CircularBuffer

`CommonProofs` proves, for any set of producers and elements, any
capacity and any bound, from `MaxSizeAssumption`, `MaxHeadAssumption` and
`NullAssumption` only:

* `BufferSafe`: `Spec => []IndInv`. `IndInv` joins `SizeBound`,
  `PublishedNonNull`, `NothingStranded`, `SingleOwner`, `ClaimsExclusive`
  (a producer between its swap and its undo is the only owner of a slot
  outside of the published range) and `LocalsConsistent` (what stale locals
  still imply: `t <= tail`, `h <= head`, room was computed against an old
  tail). No part is inductive alone: that head moves only over a full slot needs
  `ClaimsExclusive`; that a claim cannot collide with a published slot needs
  that the slot was null, so not published, and that a head equal to `h`
  makes the slot the next one; that head does not lap the consumer needs `h - t <
  MaxSize` with `t <= tail`, and that the slots still being emptied are
  not null, so cannot be claimed.
* `TypeCorrect`, `NeverOverfull`, `ConsumerSeesElements`, `OwnershipUnique`, `NoLeak`:
  the invariants that the run checks.
* `PeekStable`: the action property `PublishedStable`.
* `BufferIsQueue`: the refinement. Every step maps to a step of
  `BoundedQueue` or to a stutter: `AdvanceHead` to `Accept`, `ReturnFull` to
  `Refuse`, `ReadTail` to `Retry`, `ConsumeStart` to `Consume`, `BeginAdd` to `Offer`, the
  rest to a stutter.

The lemmas before these theorems say that different sequence numbers less than
`Capacity` apart have different slots, and what each action does to the claims
and to the queue.

### FragmentStreams

`CommonProofs` proves, for any sizes of blocks, headers and varints, any number of
spans of any length and any writes, from `SizesAssumption`, `VarintAssumption` (a
greater length takes no fewer bytes) and `BlockAssumption` (what
`ReserveHeaderSpace` asserts):

* `FragmentsHold`: `FragmentsSpec => []FragmentsInv`. The invariant, at the head of
  the section on steps, has three parts. Every segment is empty or stands before a
  byte that is there (`Segment`): its index is a block's and its position less than that
  block's size, which is what makes a relative `SegmentSeek` land where it should. The
  bytes of the request are `Numbered` from 1 to what the headers announce, each number
  once. And `Contents(streams) = After(written, contents)`: what the streams hold now is
  what they held at first without the bytes written, moved to the front.
* `UnwrittenLeft`, `FragmentsCountedRight`: the invariants that the run checks.

The argument is about `Joined`, the contents of parts that are visited one after
the other, and `After`, what is left after some bytes. To take `n` bytes from parts
that are joined is to take from each part what `n` reaches of it
(`JoinedCut`), and to take twice is to take the sum (`AfterAfter`). So it is enough
that one level takes from its parts what it should: a segment by seeking
(`SeekTakes`, `ClearTakes`), a chain by clearing the segments before the first
fragment that is short and seeking in the one that has it (`ConsumeChainTakes`), a
list of streams by stopping at the first that is not used up (`ConsumeTakes`). That
the fragment counted by the callback is found again by `Seek`, which counts on its
own, needs that `num_fragments` and `ForEachFragment` agree, segment by segment. The
initial states need that `Next` and `BackUp` keep the sum of the block sizes, that a
first block that is left has room for the reserved headers, so the skipped part
lies within it, and that `Append` gives the spans in their order (`AppendedStage`:
the pointers after each call).

### The recorders

`AutoRecorderProofs` proves, for any set of callers, any limits and any number
of spans, from `LimitsAssumption` and `MaxSpansAssumption` only:

* `RecorderInvariant`: `Spec => []IndInv`. `IndInv` joins the invariants of the
  run with `OneReport` (nothing is held for a report while the writer waits or
  is about to take one, so taking one forgets nothing) and
  `WaitsForItsSpans` (a caller's spans are in the report whose number it waits
  for, or in one before). The last is what makes the comparison of numbers mean
  something: taking a report turns "not in the report being filled" into a
  statement about the one in flight, finishing it into one about what is
  finished, and `SeqnosTellInFlight` links the numbers to these moments.
* `RecorderTypes`, `SequenceNumbers`, `NobodySleepsOn`, `DropsAreConserved`:
  the invariants that the run checks.
* `FlushTellsTruth`: the action property `FlushTruth`. A call that returns at
  once finds no pending span and adjacent numbers, so everything accepted is
  finished; one that waited has `WaitsForItsSpans`.

There is one lemma for each action; those of callers follow from `CallerStep`,
which says what a change of one caller's locals has to respect.

`ManualRecorderProofs` proves, for any threads, spans and number of reports and
any size of the buffer, from `BufferAssumption` and `NoneAssumption` only:

* `RecorderInvariant`: `Spec => []IndInv`. `SpansAccounted` and `DropsConserved` say
  that sets are disjoint; what makes their preservation hold is
  `ControlConsistent`: who is where in `RecordSpan` owns its span, a thread in a
  flush owns its report, and a report that is not filled has no spans. That the spans
  a flush takes are the oldest `numSpans[t]` and the others stay, each once, is
  `ConsumeSome` and `ConsumeSplits`.
* `CountedSpansStay`: `SizeHolds`, a part of `IndInv`, what `Consume` asserts. It holds because
  the mutex keeps other flushes out; spans that are added only make the buffer longer.
* `SpansAreAccounted`, `DropsAreConserved`: the invariants that the run checks.
* `FlushingMakesRoom`: the action property `FlushMakesRoom`, from `RoomCounted`: the
  buffer, without the spans that `t`'s flush has counted and not taken yet, holds no
  more than was accepted since that count, nor did it when an offer in progress looked
  at it. So a refusal needs a whole buffer of others. With a count taken when the flush
  consumes it would be false: the spans added in between stay and use up room.

`LegacyManualRecorderProofs` proves, for any finite set of spans and any limits,
from `SpansAssumption` and `LimitsAssumption`:

* `RecorderInvariant`: `Spec => []IndInv`. `SeqnosTellInFlight` ties the two counters to
  whether a report is in flight or was thrown, and the saved counts to the
  report. Lemmas say what `FlushOne`, `OnSuccess` and `OnFailure` do to a state that
  satisfies the invariant; the actions are compositions of them.
* `SpansAreAccounted`, `DropsAreConserved`: the invariants that the run checks.
* `BufferStaysFlushed`: the action property `StaysFlushed`.

`StreamRecorderProofs` proves, for any callers, buffer size, number of forks and
value of the marker, from the module's assumptions:

* `RecorderInvariant`: `Spec => []IndInv`, where a caller sleeps only if what it waits
  for is not there or the loop is about to notify it, and a request not yet served is
  still asked for or is the one the loop is flushing for.
* `WakeupsArrive`, `RequestsAreServed`: no lost wakeup, no request cleared unserved.
* `FlushTellsTruth`, `ShutdownTellsTruth`: what a call that returns true has seen. The
  second is about processes that never forked, see above.

### SatelliteConnection

`ConnectionProofs` proves, from `PeriodsAssumption` (the five periods are
positive and the reconnect window is not empty):

* `AnyPeriods`, `NeverForgottenAlways`, `SessionsBounded`: for any periods events and
  timers match the socket, nothing outlives a socket, a connection is never
  forgotten, and `SessionBounded`. `SessionBounded` needs `Deadlines`: a timer armed
  now ends the session in time only because the session's age and the timer's rest
  add up to no more than the bound, and `Tick` changes both.
* `ConnectionInvariant`: `IndInv` if the retry period is shorter than the graceful
  timeout, as in the defaults (`stream_recorder_options.h:67`, `84`). The hypothesis is
  necessary: `InitiateReconnect` arms the graceful timer although its flush
  may have failed and freed the socket. If that timer fires before the pending
  retry, `Reconnect` opens a session which the retry then replaces, or fails and arms
  a second retry. `RetryComesFirst` says that it does not, and `OneAttempt` is not
  inductive without it.
* `AttemptsDoNotPileUp`: at most one timer will connect, and never over an open socket.

A callback is a composition of `FreeSocket`, `HandleFailure`, `Connect`, `Flush` and
`InitiateReconnect`, so the invariant is split into predicates of the state of a
connection, and one lemma for each of these methods says which it needs and
which it leaves behind. They are called half way through a callback, when the
invariant does not hold, so they need little: `HandleFailure` and `Connect` only that
a connection that was shut down is shutting down.

### ConnectionStreams

`ConnectionProofs` proves, for any connections, any sizes of the buffer, of a span, of
a fragment and of a batch, and any number of spans, from `SizesAssumption` and
`NoneAssumption`:

* `StreamsInductive`: `StreamsSpec => []StreamsInv`. No part is inductive alone.
  `AccountedOnce` needs `OneWriter` and `Ordered` to know that the span a connection
  begins was begun by nobody; `SentAreReceived` needs `Straight`, for a span finished by
  its last bytes has been received only if its first went to the same satellite, and
  `WholeAreReceived`, for a write also repeats what is on the wire; that a new segment
  joins the last one exactly if it continues it needs `Linked`; that nothing follows a
  terminal chunk needs `TerminalIsLast`; and after a failed write the span left in the
  SpanStream, which the next flush may hand to a connection, must be older than all that
  is buffered and newer than all that was begun (`Ordered`), and unaccounted for
  (`StrayIsLost`).
* `StreamsAreConsistent`, `RequestsAreWellFormed`, `SpansAccountedOnce`,
  `SentSpansAreReceived`, `DropCountsConserved`, `WiresInOrder`: the invariants that the
  run checks. `SpansHaveOneWriter`: no span is in two of the requests being written.

A write takes some pieces from the front of `Streams(c)` and some bytes of the
next. The lemmas say what such a cut does to sequences and to the wire (`Sends`), what
`Streams(c)` consists of in each of its forms, and then, one by one, that each part of the
invariant survives a cut that ends in a return (`FlushCut`), and one that ends in an
error and a reset (`Failed`, of which `Reset` is the case of nothing written). They
hold for every cut, so of `ErrorCuts` only that they are cuts is used.

### EndpointManager

`EndpointManagerProofs` proves, for any lists of endpoints that are neither empty
nor longer than the counter counts, any answers, any number of connections and
any `Wrap`, from the module's assumptions:

* `EndpointsInvariant`: `Spec => []IndInv`. `OneLookup` counts answers owed and timers
  of every manager over the loop of `Start`, during which a resolver may answer;
  `ReadyOnce` needs that a manager with addresses is never left without, so that
  `numReady`, a cardinality, only grows.
* `RequestsAnswered`: the invariant `RequestsAreAnswered`. The loop of `RequestEndpoint`
  ends because some endpoint has an address and the counter, which goes at least
  as far as there are endpoints, meets them all. It passes the assertion because
  it gets there in fewer than `Len(endpoints)` steps if it does not wrap on the way,
  and if it may wrap the sum that the assertion compares with is no value of the
  counter. That there is a first round that finds an address is proved without
  induction: a finite set of numbers is ranked by how many members lie below each,
  distinct members have distinct ranks, so one has rank zero.
* `EndpointsRoundRobin`: the action property `RoundRobin`, from `LastCounted`, and from
  arithmetic of remainders that the lemmas at the head of the module give.

### Spans

`TracerProofs` proves, for any threads, spans of both kinds, extracted contexts, keys,
values, and bounds, from the module's assumptions:

* `SpansInvariant`: `Spec => []IndInv`. A constructor reads each reference in two critical
  sections, between which other threads may write, tag or finish that
  reference. What makes inheritance survive is that what a constructor reads from
  a reference is never taken back: keys of baggage are never erased, traces never
  change, and references live until they were read (`ReferencesLive`). One
  decision per trace survives because the flag is copied in the step that
  copies the trace, and a tag that changes the flag of one span
  puts its trace in `decided`.
* `ReportsFaithful`, `SpansRecordedOnce`: the report of a `Span` is final, that of a
  `LegacySpan` made of its first writes, and there is at most one, although threads
  finish and destroy a span together.
* `SpansInherit`, `DecisionsAgree`: the invariants `Inherits` and `OneDecision`, from
  `InheritsSoFar` and `PromisesKept`, and from `DecidedSoFar` and `TracesRooted`.

The invariant is proved in two halves, about constructions and about reports; a
lemma for each half says which variables it depends on, so an action is looked
at only for the half it changes.

### Propagation

`TracerProofs` proves, for any lists of modes of whatever length and order, any
number of services and any number of faults, from `ModesAssumption` and
`MarksAssumption` (the marks are no values):

* `PropagationHolds`: `PropagationSpec => []PropagationInv`. `Serve` writes the headers
  of its own modes and leaves the others, so a mode's headers are of the span that wrote
  them last: `Sources` survives because an injection writes a mode as a whole or, cut short
  into a new request, in part over nothing; over older headers it is the case that
  `mixed` records. `OneTrace` is not inductive without `Sources` and `Undamaged`: what
  the next service extracts must come from *some* service of the trace, perhaps
  not the last one.
* `ExtractionUndoesInjection`, `ExtractedFromOneSpan`, `TraceStaysOne`: the invariants that
  the run checks. The first needs `Fresh`, and that two lists with a mode in common, or
  one with `lightstep` and one with `envoy`, agree on headers in whatever order
  they try them; extractors tried before leave nothing behind that shows.

### Recursive functions

The loop over the extractors, the running totals and the pointers of a list are
recursive functions over intervals of numbers. That such a function exists and
satisfies its recursion (`Recursion`), and what holds of all its values, is proved
without the library's induction theorems, which take an operator as a parameter. A set of
numbers that is not empty has a least element, from the facts `NatLessThanWellFounded`
and `WFMin`, which take sets. So a set that holds 0 and with each number the next
holds all numbers (`NatLeast`, `NatAll`, `UpTo`), and an induction is a statement
about a set of numbers.

### What is only model-checked

Liveness: `AddsProgress`, `Reconnects`, `ShutdownEnds`, the two `CallsReturn` and
`ConnectionsStart`. They rest on fairness, and so on ENABLED, which TLAPS 1.4.5 does not
handle.

## What is not modelled

* Weak memory: every access to shared memory is a step of one global order. The
  code's release stores and relaxed failures are not distinguished.
* `int64_t` counters of the buffer do not overflow within a process's life.
* Contents and encodings of messages: protobuf, base64, hexadecimal, the text of
  headers and of the status line (their outcomes are modelled), logging, errors of
  memory allocation.
* The flush in the destructor of `SatelliteConnection`, and drop counts and
  remnants that `PrepareForFork` destroys with the connections.
* `TracerImpl::Close`, which calls the recorder's `FlushWithTimeout` and
  `ShutdownWithTimeout` one after the other; both are modelled.
* The global list of `ForkAwareRecorder` and its mutex; the order of its
  handlers is modelled.
* The request of a shutdown left in `shutdown_counter_` over a fork is kept, as in
  the code; nothing says what it should mean in the child.
* `FlushWithTimeout` promises that spans have left the buffer, no more: they
  may be half written. `FlushTruth` says that and nothing stronger.
* The observer's total of sent spans in `AutoRecorder`: a report that fails was
  counted as sent before (`auto_recorder.cpp:154`) and its spans as dropped
  afterwards. What the destructor leaves unsent is not counted anywhere.
* Components with status `not_modelled` in `PROJECT.json`: c-ares and libevent
  glue, gRPC, system calls, options and factories, sequential helpers, language
  bindings and build files. They hold no state of the tracer that another
  component's correctness depends on beyond what the modules assume of them.

## What could come next

Liveness is open, see above. Of the code, `TracerImpl::Close`, what a fork does to
half-written spans and to their drop counts (`stream_recorder.cpp:152`), and memory
orders weaker than sequential consistency would be the next to model.
