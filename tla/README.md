# T-Rex in TLA+

T-Rex is a complex event processing middleware. Clients publish events
(`PubPkt`), install rules (`RulePkt`) and subscribe (`SubPkt`); the engine
detects the sequences of events that the rules describe, creates composite
events for them, delivers those to the subscribers and feeds them back into the
engine. This directory models the repository's core, checks it with TLC and
proves the parts that can be proved with TLAPS.

## 1. Inventory

| Component | State | Operations | Interacts with |
|---|---|---|---|
| `TRexEngine` (`TRex2-lib/src/Engine/TRexEngine.cc`) | `Shared` record, mutex and condition variable per thread, `stillProcessing`, the rules, `recursionDepth` | `finalize`, `processRulePkt`, `processPubPkt`, destructor, thread body `processor` | called by server threads; calls the index, the rules, the listeners |
| Subscription index (`IndexingTable.cc`, `*ConstraintIndex.cc`) | table constraints, connected predicates | `installRulePkt`, `processMessage` | called by the engine; fills a `MatchingHandler` |
| `StacksRule` (`StacksRule.cc`) | stacks of packets for states, negations, aggregates | `addTo*Stack`, `startComputation` | called by one processor thread; uses the searches of `Funs.cc` and `CompositeEventGenerator` |
| Column searches (`Funs.cc`) | none | `getFirstValidElement`, `getLastValidElement`, `deleteInvalidElements` | called on every stack |
| Parameters and aggregates (`Funs.cc`, `OpTree`, `CompositeEventGenerator.cc`) | none | evaluation of operator trees | called by `StacksRule` |
| `PubPkt` | reference count under a mutex | `incRefCount`, `decRefCount`, `copy` | shared by stacks of several threads |
| `RulePkt` | predicates, parameters, negations, aggregates | `add*` with validation | built by clients and the unmarshaller |
| GPU engine (`Engine/GPU`) | one processor per rule: circular columns, samples, parameters on the device | `processRulePkt`, `processPubPkt`, destructor | optional build; uses the memory manager and the kernels |
| GPU memory manager (`MemoryManager.cu`) | host pages, their owners, device pages | `subscribe`, `addEventToStack`, `setEventsStacks`, `cleanEventStack`, `unsubscribe` | shared by all processors |
| Marshalling (`Marshalling/*.cc`, `polimi/trex/marshalling`) | none | encoders, sizes, decoders, in C++ and in Java | between packets and byte arrays |
| Framing (`BufferedPacketUnmarshaller.cpp`, `PacketMarshaller.cpp`) | bytes not yet decoded | `unmarshal` | between socket and request handler |
| `Connection` (`TRex-Server/src/Connection`) | socket, two ping timers, `stopTimers` | read, write, timer handlers, close | boost::asio threads |
| `RequestHandler`, `SubscriptionTable` | subscriptions of a connection, set of listeners | one handler per packet kind, `handleResult`, `processPubPkt` | engine, connection |
| `SOEPServer`, `Main.cpp` | io_service and its threads | accept, run, the test driver | everything above |
| Java client, HTTP proxy | reader and ping threads; connections with leases, event queues | connect, read, send, clean up | the server's socket |

What is hard in this system:

* **Threads.** A packet is split over `numProc` threads by hand-written signals
  and a counter. Several server threads may call the engine. A thread reads its
  job after it has released its mutex.
* **Forgetting.** A rule drops packets as soon as it believes no later event can
  need them. The belief is computed from other stacks that were just cut.
* **Order.** Time stamps come from the clients, packets may tie or come late, and
  all searches rely on sorted stacks.
* **Sharing.** Rules share table constraints and packets; a packet lives as long
  as some stack holds it.
* **The server.** Asynchronous handlers, timers that are cancelled and restarted,
  sets shared by io threads without a lock.

`PROJECT.json` lists these hazards line by line, with the property that covers
each of them or the reason why none does yet.

What correctness means for each component:

* engine: each packet is processed exactly once by every rule that it matches
  and by no other, before its caller goes on; nothing is used after it was freed;
  each rule belongs to one thread; all results reach the listeners; every call
  and the destructor end;
* index: exactly the predicates whose constraints all hold are matched;
* rule: exactly the composite events that the rule means are created, however
  much was forgotten; stacks stay sorted and do not keep expired packets;
* searches: they return the element the callers take them for, inside the vector;
* stream: however it is cut into reads, the receiver decodes the packets that were
  sent, in order, with the meaning they had; encoders stay inside their arrays;
* server: a subscriber gets each matching event once, no destroyed connection is
  reached, no timer is lost, a connection that fails ends;
* GPU engine: the composite events are those of the host's evaluators over the
  whole history; a device page that counts as current is current; rules do not
  share host pages.

## 2. Modules

| Module | Models | Remarks |
|---|---|---|
| `EngineDispatch` | `TRexEngine.cc`: threads, callers, destructor | one action per critical section or loop iteration |
| `AtomicEngine` | what the engine promises: a packet is evaluated in one step | abstract specification |
| `EngineRefinement` | the mapping from the first to the second | |
| `EngineDispatch_proofs` | type correctness for all constants; the handshake between caller and threads; recursion depth; ranges, barrier, freed packets, exclusion of rules; results; the engine implements `AtomicEngine` | |
| `Loops_proofs` | recursive functions over an interval, concatenation, `FlattenSeq` | used by the proofs of the server and of the GPU engine |
| `IndexingTable` | the index and its five constraint indexes | |
| `IndexingTable_proofs` | the index is exact, for any rules and packets | |
| `StacksRule` | one rule: stacks, clearing, search, consumption; and `Meaning`, its semantics on the whole history | |
| `StacksRule_proofs` | stacks sorted, events sound, old packets removed, for any rule and history | |
| `StacksMeaning_proofs` | events are exactly those the rule means, for any local rule and history in order | |
| `Columns` | what the searches return | used by `StacksRule` |
| `ColumnSearch` | the searches, step by step | shown to compute what `Columns` says |
| `ColumnSearch_proofs` | their correctness for columns of any length | |
| `RulePkt` | building a rule: what each `add` operation accepts, parameters in CPU and GPU form, the ordering graph | no variables |
| `WireFormat` | the library's `Marshaller`, `PacketMarshaller` | bytes as fields that know their width |
| `Unmarshaller` | the library's `Unmarshaller`, `BufferedPacketUnmarshaller` | |
| `JavaCodec` | the Java client's encoders and the decoders it uses | |
| `PacketStream` | one direction of a connection: send, read in pieces, decode | composes the four above |
| `SubMatching` | which events a subscription asks for; equality of subscriptions | no variables |
| `Server` | `Connection`, `RequestHandler`, `SubscriptionTable`, the io_service | the engine is the constant `Results` |
| `Server_proofs` | listeners exist, reads and timers stay armed, for any number of connections and threads; events are delivered as subscribed | |
| `Values` | operator trees, constraints, complex parameters, aggregates, composite events on the host | no variables |
| `GPUValues` | the same on the device: prefix arrays, attributes by position, reductions | no variables |
| `MemoryManager` | pages on host and device | a record and its operations |
| `GPUProcessor` | one rule on the GPU: circular stacks, set-up of parameters, kernels, consumption | a record and its operations |
| `GPUEngine` | the engine that drives processors and memory; `Detected` and `Composite`, what a rule means | composes the four above |
| `GPUEngine_proofs` | pages, indexes and device memory, for any memory, rules and history | |
| `MCEngineDispatch`, `MCIndexingTable`, `MCStacksRule`, `MCPacketStream`, `MCServer`, `MCGPUEngine` | instances for TLC | |

The modules fit together as the code does. `EngineDispatch` hands a packet to
rules and treats "rule `i` processes the packet" as one step (`Evaluate`);
`RuleExclusion` justifies that `StacksRule` then models a rule without threads.
The answer of the index is an arbitrary set of rules in `EngineDispatch`;
`IndexingTable` says which set it is. `StacksRule` uses `FirstValid`, `LastValid`
and `Remaining` instead of binary searches; `ColumnSearch` proves that the
searches return them. `Server` treats a packet as one item and the engine as a
constant; `PacketStream` has the bytes and `EngineDispatch` the engine.
`PacketStream` hands a decoded rule to the operations of `RulePkt`, and
`MCGPUEngine` builds its rules with the same operations, so that `GPUEngine` runs
on the GPU form of the parameters that `RulePkt` really produces.

### EngineDispatch

Variables of a caller: `pc` (the point in `processPubPkt` or `processRulePkt`),
`idx` (loop counter), `calls`, `matching` (its `MatchingHandler`), `got` (the
local `result`), `frames` (one entry per nested call, how many results are left).
Variables of a thread: `wpc`, `job` (`mh`), `cur` and `wend` (`i` and
`upperBound`), and its `Shared` record: `shMh` (`mh` and `pkt`), `lowerBound`,
`upperBound`, `finish`, `result`. Of the engine: `stillProcessing`, `rules`,
`indexed`, `recursionDepth`, `recursionNeeded`, and the destructor's `dpc`,
`didx`. `hits` and `produced` are ghosts: how often a rule has processed the
packet, and which rules created an event.

A mutex becomes a guard: a thread holds its `processMutex` from line 92 (or 36)
until `pthread_cond_wait` releases it, which is the state "locked"; callers that
need the mutex wait for another state. A signal to a thread that is not waiting
is lost, as in POSIX. Memory that was freed is not an error by itself: a lookup
in a freed handler answers anything (`Lookup`), and `NoUseAfterFree` says it
never happens.

Two constants separate what the code guarantees from what it relies on.
`SerializedCalls` says that at most one caller is inside the engine;
`StartupSettled` says that the `usleep(1000)` of `finalize` outlasts the threads'
start. The code ensures neither.

### IndexingTable

`rules` holds the installed rules, `table` the table constraints with their
connected predicates, `todo` the constraints that `installRulePkt` has yet to
install (nothing else happens while it is not empty), `last` and `mh` the last
packet and its handler. The sets of table constraints are ordered by address, so
what `getConstraint` finds first is a choice. Values of type float are integers:
the code of the two indexes is the same. `string::find` is the constant
`Includes`.

### StacksRule

A packet is a record with its time stamp, the states, negations and aggregates
it matches and its attributes; stacks hold packet numbers. `Receive` is the whole
handling of a packet by `processor`: negations, aggregates, states, and, if the
packet matches state 0, `startComputation` with clearing, search, parameters,
creation, consumption and removal of the terminator. Sizes kept beside the
vectors mirror their lengths. A complex parameter is an equality between two
attributes. A composite event is the sequence of its packets and, for each
aggregate, the set of packets it is computed from.

`Meaning` defines the same events from everything that was ever received: a
packet for each state, inside its window, not consumed before, satisfying
parameters, not forbidden by a negation, and the first, the last or any one.
`consumed` is a ghost for it.

`RuleOK` is what `addPredicate`, `addNegation` and `addAggregate` of `RulePkt`
guarantee about a rule. A negative `refersTo` passes `addPredicate`; the code would
then look for the stack of a state that does not exist, and the model leaves such
rules out.

### ColumnSearch

Argument variables, `lo` and `hi` for `minValue` and `maxValue`, one action for
the entry, one for an iteration, one for the exit. The initial states are all
sorted columns and keys within the bounds.

### PacketStream

An encoded packet is a sequence with one item per byte, which knows its field's
kind and value and its place in the field, so that a decoder which reads at a
wrong position or with a wrong type gets `Garbage`. Enumerations are encoded and
decoded with the tables of either side; text has a length in bytes. Variables:
`dir` (the direction: client to server, server to client, or the library's
encoders that the server does not use), `todo` and `sent`, `net` (bytes under way),
`buffer` (the receiver's), `got`. `Send` encodes one packet, `Receive(n)` is one
completed read of at most `n` bytes with everything the receiver then decodes.

### Server

Variables follow the objects: for each connection its `socket`, the `read`, the
`writes` and the two `timer`s with the handlers that are queued for them, `stop`
(`stopTimers`), `subs`, `first`; the sets `table` and `engine` of listeners; for
each io thread what it is doing. A handler keeps its connection alive, and
`HandlerEnds` destroys a connection without pending operations, together with its
listeners. Cancelling a waiting timer queues its handler with `operation_aborted`;
one that has already expired keeps its outcome, as with boost. Reads and writes
are handled in the connection's strand, timers are not. Clients send, leave or do
nothing at any time. A subscription whose constraints `vector::erase` has freed
compares and matches as `undef` says, a choice made anew each time. `sent`, `asked` and
`want` are ghosts: what was written, the filters a client has subscribed to, and what
these ask for.

### GPUEngine

A setup fixes rules, packets and sizes of the memory. `ProcessRulePkt`, `Publish`,
`Recur` (one nested `processPubPkt` on a result), `DropResults` (the depth limit)
and `Destroy` are the actions; `status` becomes "exited" where the code calls
`exit`. The order in which nested calls handle a set of results is that of
pointers, so it is a choice. A cell of memory is the number of a packet, 0 for
zeroed memory; a test that reads memory nobody has written answers `undef`, a
choice. The kernels are functions from partial results to partial results.
`Detected` and `Composite` define what should come out, with the host's evaluators
of `Values`, from all packets since the rule was added.

The model keeps what the code does with parameters before the first complete
sample: `setParameters` returns early at an attribute it cannot find, and the ones
before it stay in use with positions that were never copied (`known`). It also
keeps the exchanged arguments of `setAllNegations` and the sets that
`reduceFinal` counts but does not move.

## 3. Runs

| Run | Result | What it shows |
|---|---|---|
| `engine_serial` | pass, 280 068 states | callers one at a time: barrier, no use after free, complete results, one thread per rule, bounded recursion, refinement of `AtomicEngine`, every call returns, the destructor ends |
| `engine_concurrent` | violation of `BarrierHolds` | two callers at once |
| `engine_startup` | violation of `EveryCallReturns` | a packet before the threads wait |
| `column_search` | pass, 66 000 states | the searches are correct, stay in bounds and end |
| `index_shared` | pass, 15 597 states | rules that share constraints match exactly |
| `index_string` | violation of `MatchesExactly` | two rules on one string attribute |
| `stacks_rules` | pass, 1 303 520 states | events are those the rule means; sorted, trimmed, sound |
| `stacks_neg_across` | violation of `ResultsMatchMeaning` | a negation that spans two windows |
| `packet_stream` | pass, 51 326 states | encoders fit their arrays, packets arrive as sent however the stream is cut, the GPU form of a parameter is that of its trees as far as it keeps them (depth up to `MAX_DEPTH`, numbers), windows, leaves and sequences of the ordering graph are those of its references |
| `server_serial` | pass, 34 597 states | no destroyed connection is reached, every event goes to each subscription once, read and timers stay armed, failed connections end unless publications reach them for ever, every packet that was read is handled |
| `server_ping` | violation of `ClosedConnectionsEnd` | a packet arrives as the ping timeout expires |
| `gpu_engine` | pass, 70 854 states | pages exclusive, device coherent, composite events those of the rule, except at the end of an aggregate's column and for the rules named below |

### Bounds

* `engine_serial`: two threads (the second has its own range and can be late),
  two callers, two rules (one per thread, or both in one range after rounding),
  one packet for each caller and one level of recursion, so two or more packets
  follow each other and a nested call follows an outer one. Rules are installed
  before, between and after packets. Since calls do not overlap, no packet is under
  way while the ranges change.
* `column_search`: columns up to length 5 with time stamps 0 to 4: all lengths at
  which the loop runs 0, 1, 2 and 3 times, duplicates, keys at both ends. The
  theorems remove the bound.
* `index_shared`: three rules out of five, in every order, that share constraints
  with one another and across event types; packets with and without each of
  three attributes.
* `stacks_rules`: four packets, up to two time units apart, windows of 1 to 3, so
  packets expire, tie and lie exactly on a window's edge; a sequence needs two or
  three packets, so one or two remain to expire, to forbid, to be consumed or to
  be the second terminator. A packet plays up to two roles.

* `packet_stream`: rules with one to four predicates in a chain and in a tree, no,
  one and two negations and aggregates with their bounds in both orders,
  parameters on each of them, templates with and without attributes; reads of 13,
  33 and 80 bytes, so that a header, a packet and a boundary between packets are
  cut, and several packets come at once. Two or three packets per stream: one
  behind another is what framing can get wrong.
* `server_serial`: one io thread; two connections without pings, one connection with
  pings (two would be millions of states, too many for the liveness properties); one
  unfinished write before another ping is sent, so that pings do not pile up. In one
  setup the client of a connection with pings has sent publications that match its
  own subscription, so that they reach the connection after a write has failed and
  `shutdown` has thrown.
  Every interleaving of reads, writes, expiry and departure is there; with several
  threads `std::set` itself is a data race (section 5).
* `gpu_engine`: columns of three to eight cells in pages of one, two or four, with
  four to eight packets, so that stacks wrap around; two processors on half as many
  device pages as host pages, so that pages are evicted; rules with two or three
  predicates, chains and trees, one negation, one aggregate of each function, a
  recursion of two levels; one packet before all rules are there. An aggregate has a
  parameter that no packet fails, or one that some fail whose attribute's name was left
  over in memory (`Leftover`); an aggregate's column of three cells goes around. Four setups end
  in `exit`: too many rules, too few pages for a rule, for a published event, for a
  result that is fed back.

`stacks_rules`, `index_shared`, `packet_stream`, `server_serial` and `gpu_engine`
do not check for deadlock: they stop when everything has been sent or the bound on
packets or rules is reached.

### Fairness

`engine_serial` and `engine_startup` assume weak fairness of every thread and
caller step once started, of `finalize` and of the destructor: the operating
system schedules runnable threads, and a mutex that is free again and again is
eventually obtained. It is not assumed that anybody publishes, installs a rule
or destroys the engine. `column_search` assumes that a running function goes on.
`server_serial` and `server_ping` assume weak fairness of the io threads, of
started reads and writes that can end, and of the timers' expiry, and strong
fairness of each queued handler: the io_service takes handlers from a first-in
first-out queue, so one that is queued again and again while the threads are busy
gets its turn. Nothing obliges a client to send, to stay or to leave.

### What the violations show

1. `processPubPkt` has no lock of its own, but the server runs it on several io
   threads and the test driver on several publisher threads. The second call
   overwrites the job of a thread that is still busy with the first, its signal
   is lost, and both callers share one counter.
2. Only a sleep makes the threads wait before the first signal is sent.
3. `StringConstraintIndex::getConstraint` skips the equal constraint and returns
   a different one.
4. `clearStacks` bounds a negation between two states by the window of the lower
   one, also when there are states in between.
5. On a ping timeout `handlePingReceive` only closes the socket. If a read has
   just completed, its handler finds the socket closed and starts no other, so
   nothing fails that would set `stopTimers`, and the sending timer is restarted
   for ever and keeps the connection.

More is visible in the models without a run of its own:

* `recursionDepth` grows with every nested call and never shrinks, so after
  `MAX_RECURSION_DEPTH` nested calls results are no longer fed back, at whatever
  depth (both engines; `MayRecur`, `DropResults`);
* a parameter's two ends are exchanged when it is stored; when it is checked, each
  name is looked up in the packet of the other state (`StacksRule.cc:74`), which
  matters when the names differ;
* the stack of an aggregate between two states is never cut (`ClearedAggs`:
  `win < 0` on an unsigned time);
* a predicate that states one constraint twice never matches (`PredCount`);
* erasing a subscription from the vector of a connection assigns elements that own
  their constraints, so a subscription that is left over reads freed memory
  (`RequestHandler.cpp:222`, `Erased`);
* the GPU processor looks up the position of a state's attribute in the sample of
  the mirrored state (`GPUProcessor.cc:455`), which matters when the event types
  lay out their attributes differently; the packets of `gpu_engine` do not;
* consuming an event moves the events behind it and not their time stamps
  (`MemoryManager.cu:226`), which matters when a consuming rule's events later
  expire;
* with `highIndex` 0 `getLastValidElementCircular` looks behind the column
  (`undef` there), and an aggregate may be computed over the wrong elements. With the
  column of `gpu_engine` that goes around TLC finds such a result when `EndsColumn` is
  taken out of `GPUResultsMatch`;
* parameters of aggregates on the GPU: `serializeNode` does not copy the name of an
  aggregate's attribute (`RulePkt.cc:323`), so it is what the memory of the
  parameter held before. If that names no attribute, as the model assumes
  ("unset"), `setAggregatesParameters` fails at every terminator, the parameter is
  never checked, negations with parameters are never set up, and the results differ
  from the host's as soon as the parameter would exclude an event. If the name
  happens to be right, `computeVal` (`Aggregates.cu:34`) still checks the rule's first
  aggregate parameter in place of each one (`ComputeVal`), so with two of them the
  results differ. And the maximum of no element is `SMALL_NUM` there, 0 on the host.
  `GPUResultsMatch` is checked where none of this matters: a parameter that nothing
  fails, and a single one with the right name under `AVG`;
* `timestamps`, `negTimestamps` and `aggTimestamps` (`GPUProcessor.h:241`) are never
  initialised, and `deleteExpiredEvents` searches columns that were never filled
  (`GPUProcessor.cc:620`, `645`). The model starts them at 0, which is what fresh pages
  of the system hold for an object of several megabytes; reused memory could hold
  anything;
* for a rule of one predicate `compute` calls `prepareForNextLoop(-1)`
  (`CudaKernels.cu:433`) and reads in front of its arrays; the rules of `gpu_engine` have
  two predicates or more;
* the GPU form of a parameter loses static values of type BOOL and STRING
  (`RulePkt.cc:304`, "FIXME missing cases?"), and a tree deeper than `MAX_DEPTH`
  overruns the arrays of `GPUParameter` (`Structures.h:152`, `Consts.h:138`).
  `GPUFormAgrees` speaks of the parameters without either;
* `getJoinPoints`, documented as indexes "shared among more than one sequence"
  (`RulePkt.h:203`), returns every predicate that is referred to, and -1; `copy`,
  documented as an exact copy (`RulePkt.h:62`), leaves out negations, aggregates,
  parameters and consumption. Nothing calls them and they are not modelled;
* when `shutdown` throws (`Connection.cpp:196`), `close` is skipped and the listener
  stays. Each later publication then fails to be written, cancels the timers and so
  restarts them: as long as publications keep coming the connection does not end.
  `FailedConnectionsEnd` allows for it;
* `Connection::start` asks for the remote endpoint (`Connection.cpp:55`), which throws
  when the client has gone already; nobody catches it and the process ends. `Accept`
  models the connections for which it does not;
* a stack that is empty with both indexes at the end of its last page has no page
  there, and `setEventsStacks` (`MemoryManager.cu:273`) looks up the page of chunk -1.
  The model reads 0 (`GetPage`): host page 0 is copied and device page 0 is marked as
  the rule's own. With several host pages per device page another page of the rule
  that belongs there then counts as copied, and `DeviceCoherent` fails: two rules on
  columns of four cells in pages of one, three host pages per device page, are enough.
  With one host page per device page, as shipped (`HOST_MEM_MUL`, `Consts.h:89`), the
  copy does no harm, which is what `SpecDeviceCoherent` proves;
* in an empty column the search for the first valid element may answer the last
  index before the column (`Funs.cc:372`). A negation's or an aggregate's stack that
  was emptied then gets its last element back, if a later time limit is smaller, as it
  can be when it comes from another stack (`DeleteExpired` tests for emptiness for
  states only, as the code does).

## 4. Proofs

| Theorem | Statement |
|---|---|
| `EngineDispatch_proofs!TypeCorrect` | `Spec => []TypeOK`, for every number of threads, callers, rules and publications, with serialized calls or not |
| `EngineDispatch_proofs!RecursionCorrect` | `ServerUse => (Spec => []RecursionBounded)` |
| `EngineDispatch_proofs!BarrierCorrect` | `ServerUse => (Spec => []BarrierHolds)` |
| `EngineDispatch_proofs!PacketsOutliveThreads` | `ServerUse => (Spec => []NoUseAfterFree)` |
| `EngineDispatch_proofs!RangesCorrect` | `ServerUse => (Spec => []RangesPartitionRules)` |
| `EngineDispatch_proofs!RulesExclusive` | `ServerUse => (Spec => []RuleExclusion)` |
| `EngineDispatch_proofs!ListenersCorrect` | `ServerUse => (Spec => []ListenersGetAllResults)` |
| `EngineDispatch_proofs!EngineIsAtomic` | `ServerUse => (Spec => ImplementsAtomicEngine)` |
| `ColumnSearch_proofs!SearchIsCorrect` | `Spec => []SearchCorrect`, for every length and range of time stamps |
| `ColumnSearch_proofs!SearchInBounds` | `Spec => []InBounds` |
| `ColumnSearch_proofs!SearchTypeCorrect` | `Spec => []TypeOK` |
| `StacksRule_proofs!StacksTypeCorrect` | `Spec => []TypeOK`, for every rule, number of packets and order of arrival |
| `StacksRule_proofs!StacksStaySorted` | `Spec => []StacksSorted`, likewise |
| `StacksRule_proofs!EventsSound` | `Spec => ResultsSound`, likewise (an action property) |
| `StacksRule_proofs!OldPacketsRemoved` | `Spec => StatesTrimmed`, likewise (an action property) |
| `StacksMeaning_proofs!EventsAreMeant` | `LocalRules => (Spec => ResultsMatchMeaning)`, for every number of packets (an action property) |
| `IndexingTable_proofs!IndexTypeCorrect` | `Spec => []TypeOK`, for every set of rules and packets |
| `IndexingTable_proofs!SharingComplete` | `RulesOK => (Spec => []ConstraintsShared)` |
| `IndexingTable_proofs!IndexExact` | `RulesOK /\ PacketsOK => (Spec => []MatchesExactly)` |
| `Server_proofs!ServerTypeCorrect` | `Spec => []TypeOK`, for every number of connections and io threads |
| `Server_proofs!WatchdogStaysArmed` | `Spec => []WatchdogArmed`, likewise |
| `Server_proofs!TablesStayLive` | `Spec => []TablesLive`, likewise |
| `Server_proofs!ListenersStayLive` | `SingleThread => (Spec => []ListenersLive)` |
| `Server_proofs!DeliveredCorrect` | `SingleThread /\ ScriptsOK => (Spec /\ []SubsIntact => []DeliveredAsSubscribed)` |
| `GPUEngine_proofs!SpecTypeOK` | `Spec => []TypeOK`, for every memory, set of rules and history |
| `GPUEngine_proofs!SpecPagesExclusive` | `Spec => []PagesExclusive`, likewise |
| `GPUEngine_proofs!SpecDeviceCoherent` | `Spec => [](setup.mul = 1 => DeviceCoherent)`, likewise |

Assumptions on constants, which TLC evaluates in the runs: `ConstantsAssumption` of
the engine (at least one thread, some caller, natural bounds), `BoundsAssumption` of
`ColumnSearch` and of `StacksRule` and `BoundAssumption` of `IndexingTable` (natural
bounds), `RulesAssumption` of `StacksRule` (`RuleOK`, section 2),
`ServerAssumption` (finitely many connections and at least one thread, a Boolean
`usePing`, a positive bound on writes) and `SetupsAssumption` of `GPUEngine` (a
positive number of pages, `ALLOC_SIZE` a multiple of `PAGE_SIZE`, rules whose windows
are natural numbers and whose negations and aggregates refer to states they have,
which `RulePkt` ensures). Hypotheses that are not assumptions because
the code does not ensure them: `ServerUse`, `RulesOK`, `PacketsOK`, `SingleThread`,
`ScriptsOK`, `SubsIntact`, `LocalRules`; each is explained below. `CheckedLocal` in
`MCStacksRule` and `CheckedScripts` in `MCServer` are no assumptions of a proof: TLC
confirms there that the rules of `stacks_rules` satisfy `RuleLocal` and that the one of
`stacks_neg_across` does not, and that the packets of the server's runs satisfy
`ScriptsOK`.

### Engine

`TypeOK` of the engine is not inductive: that `idx` stays below `NumProc` in the
loops, that `didx` does while the destructor works, that a caller that drains
results has a frame with a natural number in it and one that installs a rule has
its id need the points in the code where these variables are used. The proof's
invariant adds those facts, and goes action by action.

`ServerUse` is `SerializedCalls /\ StartupSettled`, the setting of the run
`EngineSerial`: one caller inside the engine at a time, and no call before the
threads have reached their first `cond_wait`. It cannot be dropped: the runs
`EngineConcurrent` and `EngineStartup` show what fails without either half.

The engine's invariant has three layers, each proved action by action and each
using the ones before it.

* `ProtocolInv` (`EngineDispatch_proofs`): calls do not overlap (`SingleCaller`);
  outside a dispatch the threads rest, during one the threads not yet reached rest
  and nobody has exited (`ThreadsInv`); `stillProcessing` is the number of threads
  not yet reached or still busy (`CounterInv`), so that it is 1 exactly for the
  last thread to report; a busy thread has the packet of the call in progress
  (`JobsInv`). The count is over a finite set of any size: `Report` removes one
  element, `Install` leaves the set as it is, since the signal finds the thread
  waiting.
* `RangeInv` (`EngineDispatch_proofs`): the bounds are those of the rules installed,
  as far as `processRulePkt` has got (`BoundsInv`), a thread is inside its range
  (`ScanInv`), and a rule has processed the packet once if it matches and its
  thread has passed it, else not at all (`HitsInv`). Two lemmas on the rounding
  (`RangesDisjoint`, `RangesCover`) say that the ranges neither overlap nor leave
  out a rule.
* `ResultsInv` (`EngineDispatch_proofs`): the events created for the packet are
  in the threads' sets until they are collected, then in the caller's.

The refinement follows: the lookup is the step `Match`, `Release` the step
`EvaluateAll`, the return of the outermost call `Finish`, `IndexRule` the step
`AddRule`; every other step leaves each caller's view (`ViewOf`) as it is. The
depth of the recursion is bounded by `DepthInv`: a caller has at most one frame
more than `recursionDepth`, and none once its call has returned.

### Searches

`SearchCorrect` speaks of the end of the search only. The inductive invariant
`SearchInv` adds `Enclosed`: in the loop `lo <= hi` lie in the column, everything
up to `lo` is on the lower side of the key unless `lo` is still where the search
began, and everything from `hi` on is on the upper side unless `hi` is still the
last index. Sortedness carries this from the two ends to all elements. Lemmas
state that `FirstValid` and `LastValid` are the only positions with these
properties.

### Rules

The inductive invariant `StackInv` says more than `StacksSorted`: the stack of a
state is sorted, and every packet in it matches that state and is not one that an
earlier event consumed there (`Free`); the stacks of negations and aggregates are
sorted and hold packets that match them. Without `Free` nothing would connect the
events that are created to the ghost `consumed`, and without the order the searches
return nothing in particular. Every part of `startComputation` then has its
lemma: `InsertOK` (a packet is put where the order stays, ties and late packets
included), `TrimOK` and `ClearedStatesOK` (clearing keeps a final part of a stack,
and what it keeps is not older than the window), `WinEventsOK` and
`PartialResultsOK` (a partial result has a packet of the right stack and inside the
window for every state so far), `WithoutOK` (consumption keeps the order).
`EventsSound` follows, since parameters and negations only discard results, and
`OldPacketsRemoved`, since later steps of the computation only remove packets.

`ClearedStates`, `PartialResults` and `Without` are recursive functions. The
library's theorems on recursion and induction are out of the prover's reach, so
`StacksRule_proofs` has its own: `LeastNat` (a set of numbers has a least
element), `PositionInduction` on sets instead of predicates, and `Recursion`, which
gives a solution of an equation whose right-hand side is a function `F` that maps
each position to a function. The recursive definitions are brought into that form.

`EventsAreMeant` is the theorem about forgetting. The events are computed from stacks
that were cut again and again, and `Meaning` is computed from everything that was
received. The invariant `MeaningInv` compares the two: packets are numbered in the
order of their time stamps, and each stack is `Covered`. It holds packets of its set
only (those that match the state and were not consumed; those that match the negation
or the aggregate), in order, and a packet of the set that it does not hold is too old
for every packet of the stack it is looked up from, and for every packet to come. For a
state that stack is the one of the state it refers to, for a negation or an aggregate
the one of its upper state. With this the searches on the stack and on the history find
the same packets: `RangeExact` and `BetweenExact` for one search, `NegExact`,
`AggExact`, `SelectedExact` and `ChooseExact` for what is built on it (a negation that
holds, the packets of an aggregate, the candidates of a state, the first, the last or
each of them), `PartialExact` by induction over the states, `EventsExact` for the
events with their aggregates. That the invariant survives is `FilledCovered` (a packet
arrives), `ClearedCovered` and `ClearedBounds` (clearing cuts from state 0 upwards, each
stack by the oldest packet left in the stack it refers to) and `ComputationMeant`
(consumption takes packets out of stack and set alike).

`LocalRules` says that every rule whose packets come in order is local (`RuleLocal`): a
negation or an aggregate between two states lies between a state and the one it refers
to, an aggregate's time is no shorter than that window, a complex parameter speaks of
earlier states, and the two ends of a parameter have one name. Without it the property
is false: `stacks_neg_across` is a rule whose negation spans two windows, and the other
parts are where the code reads a value it has exchanged or not yet filled in (section
3). Packets that come late are outside, as they are in `ResultsMatchMeaning` itself:
what a late packet would need may be gone.

### Index

`MatchesExactly` is a statement about counters: a predicate is in the handler when
the number of table constraints that count for it is its `constraintsNum`. The
invariant is `LinkInv`: every constraint that was installed has an entry that stands
for it and names its predicate, and no entry names a predicate without such a
constraint; with `ConstraintsShared` that entry is the only one. Then the pairs of
an attribute and an entry that count for a predicate map one to one to its
constraints that hold, and the count is complete exactly if all of them hold
(`FS_Injection` on the finite sets).

The hypotheses are needed. `RulesOK`: no constraints on strings (the run
`IndexString` shows what happens with them), operators that the index of the type
knows, and no predicate that states one constraint twice, which would be counted
once and expected twice. `PacketsOK`: one attribute per name, as in the packet's
`contentMap`. The rules and packets of `IndexShared` satisfy both.

### Server

`ServerInv` has four parts. `ShapeInv`: ranges. `LifeInv`: a thread that runs a
handler has a connection that exists; a connection that is not made or is destroyed
has no operation left. `ArmedInv`: in an open connection with a client `stopTimers`
is unset, both timers are on when pings are used, and without a read some thread is
handling packets for it and will start one. `TablesLive`: the subscription table and
the engine know the same listeners, all of them existing connections that have
subscribed. `WatchdogArmed` is not inductive: it speaks of connections that no
thread is busy with, and needs `~stop` and the busy thread, which `ArmedInv` adds.
A connection is destroyed in `HandlerEnds`, so `TablesLive` and `LifeInv` rest on
`Referenced`: no other thread and no operation has the connection then.

`ListenersLive` also speaks of the copies that a publication visits. With several io
threads another one may destroy a listener between the copy and the visit, so
`VisitsLive` holds for one thread only: `SingleThread`, the setting of the run
`ServerSerial`.

`DeliveredAsSubscribed` says nothing while a handler runs, and a publication takes many
steps: a round over the listeners of the table, then one over those of the engine.
Three invariants connect its beginning with its end:

* `FlightInv`: the packets on their way, read or being handled are well formed;
* `AskedInv`: a connection's vector of subscriptions has each filter once, and those
  filters are the ones its client has asked for (`asked`); a live connection with a
  subscription is in the table, so whom a round leaves out wants nothing;
* `DeliverInv`: with nobody busy `sent` is `want`; during a publication `want` is what
  was sent, then what the listeners still to visit get in this round, then, if the
  engine's round is to come, what it will bring (`Due`). A step of the thread moves an
  event from `Due` to `sent`; nothing else can change who is live, open or subscribed
  meanwhile, which is where the one thread is needed.

That a connection writes what its client deserves (`OutgoingIsDeserved`) is a count:
the code counts elements of a vector that match, the history filters that pass. Filters
of different elements differ (`ListOK`), so the two sets correspond one to one
(`CountsAgree`). It needs that `equals`, which looks for the constraints of one packet in
the other only, decides equality of filters (`EqualsFilter`: as many constraints, none
twice, so a subset is the whole) and that `matches`, which takes the first attribute of a
name, asks whether some attribute passes (`MatchesPasses`). `AddedOK` and `RemovedOK` say
what the two operations on the vector do to the set of filters. `ScriptsOK` is what these
lemmas need of packets: a subscription states no constraint twice (one that states `x > 1` twice equals one
with `x > 1` and `y > 2`, and not the other way round), and an event has one attribute of
a name.
`SubsIntact` excludes what `vector::erase` breaks (section 3): `Removed` then leaves a
subscription whose freed constraints may match anything.

### GPU engine

`PagesExclusive` follows from how pages are chosen (`FreeChunks`), but only together
with what the chosen page is written to, and `DeviceCoherent` from a chain of copies
and invalidations in five operations. The invariant `Inv` has, while the engine is not
destroyed (`Ready`):

* `Good`, on the memory: `Counted` (`inUse` is 1 exactly for pages in some slot of the
  table), `Apart` (two slots never have one host page, two slots of one rule never one
  device page) and, with one host page per device page, `Coherent`: a page that is free
  or that its owner takes for its own on the device is the same on both sides. The free
  pages are what `DeviceCoherent` lacks: a page is given out without a copy, and is
  coherent then because it was when it was returned;
* `Fits`, on each processor and the memory: a stack has a page for every index it has
  in use, and all pages of its column once it has gone around (`StackFits`). Without it
  an access through the table could hit no page or another one;
* time stamps: a column is positive only where a page was written, which is what the
  searches need to return an index with a page even for columns that were emptied. It
  holds at the beginning because the columns start at 0 (`NewProcessor`), which the code
  leaves to the memory it gets (section 3): all three theorems rest on that;
* that rules and processors, tokens and tables belong together.

After the destructor `Gone` holds: no page is in use.

The operations are loops over recursive functions: a processor for each rule, a stack
for each key, a page for each offset, a shift for each event behind a consumed one. One
lemma, `LoopStaysInSet` of `Loops_proofs`, says that a recursive function on `0 .. n` whose steps map
elements of a staged family of sets to the next stage ends in the last; every
loop states its stages (`Pairs`, `Between`, `Leaving`) and proves one step. `Steady` is
what lets the processors be taken in turn: while one works, the pages of the others
stay as they are. The kernels read memory only, so for what they compute it is enough
to know that it consists of events in the packets' list (`ComputeFacts`).

### Only model-checked

* Liveness, which is out of the prover's reach.
* `ResultsMatchMeaning` for rules that are not local, where it fails or the code's
  answer depends on exchanged names.
* `DeliveredAsSubscribed` after constraints have been freed, where it can fail.
* `GPUResultsMatch`: it compares what kernels compute on circular columns, prefix
  arrays and reductions with evaluations of trees over the whole history, which would
  need induction over the trees.
* `DeviceCoherent` with several host pages per device page, where it fails in
  general (section 3); the setups of `gpu_engine` are ones where it holds.
* `PacketStream`: its modules use recursive operators (`WireFormat`, `Unmarshaller`,
  `JavaCodec`, `RulePkt`), which the prover cannot take; what decoders compute would
  need induction over data.
* The index of strings, where the property fails.

## 5. Not modelled

* Spurious wakeups: `EngineDispatch` lets a wait return only after a signal. With
  spurious wakeups `BarrierHolds` fails, since neither wait is in a loop.
* Data races inside `std::map` and `std::set`: a rule installed while a packet is
  being matched, a listener added while another io thread visits the set. Their
  outcomes have no bound; the server's run has one io thread.
* The bytes of two overlapping `async_write`s: how boost interleaves its composed
  operations is outside the repository.
* The reference count of `PubPkt` itself; `EngineDispatch` follows who holds a
  packet, not the count.
* GPU: reductions and searches that need more than one block of threads, `checkN`
  (compiled only with `CHECK_NEG_PARALLEL`), the order of atomic additions within a
  kernel, errors of the CUDA library, timing.
* Floating point: a float is a number of halves, division truncates to that.
* Java client: its reader and ping threads (its encoders and decoders are in
  `JavaCodec`, except what the decoders of rules and subscriptions, which the server
  never sends, make of a packet's body); the rule parser is generated. HTTP proxy: leases and event queues
  of `trex-proxy.js`.
* Advertisements and join packets, which no program of the repository sends.
* Tracing, logging, option parsing, signals, example rules;
  `Communication/TRexServer.cc`, which the build does not contain.

## 6. Plan

1. Done: engine dispatch, searches, rule evaluation, index.
2. Done: the engine's safety invariants and its refinement proved.
3. Done: rules, marshalling and framing; connections, timers and subscriptions;
   evaluation of operator trees and aggregates; the GPU engine and its memory.
4. Done: proofs for `Server` (connections, listeners, timers), for the index and for
   the stacks of a rule.
5. Done: `ResultsMatchMeaning` proved for every local rule.
6. Done: `DeliveredAsSubscribed` proved for one io thread and intact subscriptions.
7. Done: `GPUEngine` without recursive operators; its types, `PagesExclusive` and
   `DeviceCoherent` proved.
8. Packet lifetime: the reference count across stacks of several threads.
9. Clients: reader and ping threads of the Java client, leases of the HTTP proxy.
