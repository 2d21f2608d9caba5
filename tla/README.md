# A TLA+ verification of Ratecat

Ratecat is a rate-limiting service: clients register named resources with a
limiter, and ask a cluster of nodes with `Allow(name, n)` whether they may use
`n` units now. This directory models the parts of it where order, failure and
time matter, model-checks them with TLC and proves the most important results
with TLAPS. Paths below are relative to the repository.

Contents: 1 the system, 2 the modules, 3 the runs, 4 the proofs, 5 what the
models disagree about with the repository, 6 what is not modelled, 7 the plan.

## 1. The system

| Component | State | Operations | Must hold |
|---|---|---|---|
| Token bucket, `internal/limit/token_bucket.go` | token count, last and next fill, a mutex | `Allow`, `Take`, lazy `fill`; conversion to and from protobuf | never more than the burst and the rate, in any window; no refusal without cause; clock readings out of order do no harm |
| Leaky bucket, `internal/limit/leaky_bucket.go` | level, last and next drain, a mutex | `Allow`, `Take`, lazy `drain` | the same, with its capability; who sleeps as `Take` says goes ahead at the rate |
| Resource manager, `internal/mgr` | name → resource map (`store`), per-node index of it (`nodeStore`), a mutex | put, remove, move: proposed to raft as entries, applied by the state machine; `Snapshot`, `Restore` | every path to a point of the log gives the same store; what was confirmed is not lost |
| Commands, `internal/cmd` | none of their own | `RegRes`, `GetRes`, `Allow` (forwarded to the owner of a resource), `Meow` | one limiter decides for a resource; a forwarded command ends |
| API server, `internal/server/api`, `internal/endec` | gnet connections, an optional pool of workers | decode, process, write the answer | an answer reaches the command it belongs to |
| Cluster server, `internal/cluster` | raft node, gRPC server, readiness | start, wait until ready, stop; gRPC `GetNodeInfo`, `AllowResource` | a node that restarts comes back to its state |
| Node prober, `internal/cluster/probe` | cache of node information, lightest and heaviest node | `Init`, `GetCurNodeInfo`, `GetPeerNodeInfo`, `UpdateNodeLoading` | a node called leader was leader; the lightest node is the lightest of those that answered |
| Client, `client/` | pool of connections, name → connection binding (`resPool`), a mutex for the pool and one for each connection | commands, redirect, periodic refresh of the pool | calls return; the client finds the cluster again |
| Request rate, `internal/metric` | a counter, a history of counts | count, tick (take the count, push it), average | no request is lost or counted twice; the history stays bounded |
| Wire formats, `proto`, `internal/cluster/pb`, `internal/endec` | none | marshal, size, unmarshal; frames of requests and answers | what is read is what was written; what lost its end is not misread |
| Raft, `github.com/shaj13/raft` (external) | log, snapshots | `Replicate`, `Apply`, `Snapshot`, `Restore` | one agreed log |

How they interact. A client sends a command over a TCP connection; the API
server decodes it in gnet's event loop and runs it there or on a worker. A
registration becomes an entry in the raft log; each node applies the log to its
own store. `Allow` is answered by the limiter of the node that owns the
resource; another node forwards it over gRPC, marks the answer redirected, and
the client binds the resource to the owner and sends the command again. Every
`checkInterval` a client asks a node with `Meow` for the members, which that
node answers from its prober's cache. `UpdateNodeLoading` asks the peers for their
average request rates; `PutResource` gives a resource to the lightest node.
Everything between processes is protobuf: raft entries, snapshots and gRPC
messages as they are, API commands in frames.

What is hard about it: readings of the clock that reach a mutex out of order;
stores at different points of the log while commands run; a deadline that
passes while the answer is on its way; a proposal that times out and is
committed later; a node that gets a snapshot instead of entries, or restarts
from one; connections and caches that outlive what they describe; an average
over nothing; three functions for each message that must agree. These are
listed line by line under `hazards` in `PROJECT.json`, each with the properties
that would catch it.

## 2. The modules

| Module | Models | Rests on |
|---|---|---|
| `TokenContract` | what a limiter promises: credit accrues with time up to a ceiling, grants are paid from it | – |
| `TokenBucket` | the token bucket and its callers; implements `TokenContract` | `TokenContract` by INSTANCE |
| `LeakyBucket` | the leaky bucket and its callers; implements `TokenContract` with a larger ceiling | `TokenContract` by INSTANCE |
| `ResourceStore` | operators: what an entry, a snapshot and a restore do to one node's two maps | – |
| `ResourceRegistry` | what readers of the replicated store may rely on: one history, each node at a position that moves forward | – |
| `ResourceReplication` | requests, raft's log, snapshots, crashes; implements `ResourceRegistry` | extends `ResourceStore` |
| `AllowRouting` | `Allow` and `RegisterTokenBucket` from the client's pool to the stores and back, over stores that disagree and with answers that come late | extends `ResourceStore`, its stores are those of `ResourceRegistry` |
| `CommandStream` | one connection: mutex, deadline, header and body, event loop, workers | – |
| `Discovery` | node start, readiness, the prober's caches, the client's pool | – |
| `NodeLoading` | the request rate of a node and the prober's choice of the lightest and heaviest node | – |
| `Protobuf` | operators: what the generated code makes of a message, and reads from bytes | – |
| `Wire` | messages alone, extended or cut, and streams of frames | extends `Protobuf` |
| `TokenBucketProofs`, `LeakyBucketProofs`, `ResourceReplicationProofs`, `AllowRoutingProofs`, `CommandStreamProofs`, `DiscoveryProofs`, `NodeLoadingProofs` | proofs (those of `TokenContract` are few and in the module itself) | the module they name |
| `MC*` | instances: symmetry, the clock skews, the address list, samples of every message | the module they name |

In a module, an operator whose comment begins with `mutant:` is not part of the
model. It stands before the definition it distorts, and shows how the property
that `PROJECT.json` names with it would fail if the code had that bug.

**TokenBucket.** `tokens` is `tokenCount` in units of 1/`FillPeriod` token, so
that `fill`'s division is exact; `lastFilled` and `nextFill` are the fields of
the same name. `Sample` is the caller's `time.Now()` (`cmd_allow.go:48`), which
comes before the mutex; `AllowGranted`, `AllowRefused` and `Take` are what is
done under it, each with its whole `fill`; `Proceed` is a caller of `Take`
that has slept. `Births` are the readings of other nodes' clocks that a bucket
from the log or a snapshot starts with: they may be in the future. A level of a
`float64` is rounded in the code; the model is exact.

**LeakyBucket.** `drops`, `lastDrained` and `nextDrain` are the fields of the
same name, and the callers are those of `TokenBucket`. `drain` divides a
duration by the period as integers, so it drains whole drops (`Drips`) and
moves `lastDrained` by just those. It does nothing while the level is not above
zero, and it may bring the level down to minus the capability; a pause is thus
drained after the calls that end it, and they and their successors together get
up to four times the capability in at once (`Outstanding`, `PauseWorth`). A
request larger than the capability fits only while the level is below zero.

**ResourceStore, ResourceReplication.** A store is `res` (the map every command
reads) and `index` (`nodeStore`). `MoveResource` follows `updateResourceNodeId`
as it is: it assigns the node id first and looks up the source map under it, so
the destination's map has the name deleted. `Register` and `FindExisting` are
`RegisterResourcePbCmd`, whose look-up and proposal are separate steps for other
requests to come between. `TimeOut` is the end of `Replicate`'s ten seconds; the
entry may still be committed. Raft is external: assumed are one agreed log, a
proposal that is committed once or lost, entries applied in order, a snapshot
that is that of the index it is filed under, and a restart from the own last
snapshot. Any running node's snapshot may be sent to a node that is behind. What
is committed reaches a node (`Deliver`) while a majority runs: without one there
is no leader to tell it the commit index. A registration asks for a token
bucket, as the client's do; the other ways through `cmd_res.go:38-47` end before
the store.

**AllowRouting.** A node's handler takes `GetResource`'s result in `Lookup` and
acts on it in `Decide` or `Forward`, with anything in between: the store may be
replaced, the limiter with it. `copies` are all copies of a limiter a node has
had, since a handler may still hold an old one. A crash ends the handlers on a
node but not what it has forwarded. A connection takes one call at a time (its
mutex) and stays as it is when a call gives up (`TimeOut`): the answer that
comes late is `Unread`, and the next call on the connection reads it, whatever
either has asked (`client.go:212-228`). So a redirected answer about one
resource makes an `Allow` of another bind that one (`client.go:170-177`), and
what `RegRes` and `Allow` answer is read as the other: they share the field of
the node. Reading an answer (`ReadAllow`, `ReadRegRes`) and `bindResourceConn`
(`Bind`) are steps of their own, and the owner may change between them. Answers
come in any order, as workers write them; a read that fails halfway loses some.
The answers to `Meow` and `GetRes`, read late, are left out: `Allow` fails to
decode them, `RegRes` the first, and in the second it finds an owner, as in its
own. `LeaderConn` is any node: what a client takes for the leader comes from
caches (`Discovery`). No time passes that would fill a bucket: rates are
`TokenBucket`'s subject.

**CommandStream.** One action for each way a read may end: all there, a part
of it (`conn.Read` is not repeated), bytes of an older answer where a header is
expected, a deadline, end of file. `pooled` chooses between the two forms of
`OnTraffic`. gnet and ants are external: buffered input that `Next` returns
only when it is all there, asynchronous writes in the order they are made, a
pool that may be full of the commands of other connections.

**Discovery.** `Start`, `Join`, `BecomeReady` and `Crash` are the life of a
process: the API answers first (`cmd/ratecat/main.go:61`), raft has members
later, `WaitReady` lets it through or ends it. `info` is `nodeInfoCache`. A node
that runs may hang (`Hang`, `Recover`): it accepts connections, or not even
that, and does not answer within the client's second. `establishConns` is split
where it waits for the network: pooled connections are asked one by one until
one answers (`AskPooled`), the listed nodes are updated or dialled one by one
(`UpdateNode`). It holds the pool's mutex throughout. Of the initial addresses
one that cannot be dialled is passed over (`DialFails`), but one that is dialled
and does not answer ends the search (`AskDialledFails`, `conn.go:275-279`). A
connection is one life of its node, for nothing dials a `Connection` twice.
`restarts` counts the restarts of all nodes, for the bound. Left out are
`resPool`, which `AllowRouting` has; `active`, which is true in all entries; and
the late answer to a command that `Meow` reads as its own.

**NodeLoading.** One node in detail: `AddAPICmdCount` is the event loop's,
`Calc` and `push` the two halves of a tick, between which commands are counted
and averages read. `OnTick` passes a second to `Calc` however late it is, so an
entry's rate is its count. An average is a fraction, and 0/0 where the history
has entries but no recent one; `Less` and `Equal` are false of it as they are in
Go. The peers answer with any average that a history can have (the sum of no entries
is zero), 0/0 included, or not at all. What the entries of the last while add up to
is a sum over the set of their places in the history. `SortFunc`
is the insertion sort that `slices.SortFunc` is for up to twelve elements, which
matters because 0/0 is not ordered. In the running service the timer that calls
`UpdateNodeLoading` is commented out (`res_mgr.go:78`); tests call it. The
difference of the loads, which is written and never read, is left out.

**Protobuf, Wire.** Each type has three tables, in the order of the statements
they stand for: the fields `MarshalToSizedBuffer` writes with their tag bytes,
the fields `Size` adds up, the fields `Unmarshal` reads with their numbers and
wire types. `Size`, `MarshalToSizedBuffer`, `Skip` and `UnmarshalInto` interpret
them with the code the generator repeats per kind of field: numbers, booleans,
doubles, bytes, messages, repeated messages, oneofs. They work on bytes: varints,
lengths, buffers filled from the end, unknown fields and groups, proto3's zero
values, nil pointers apart from empty messages. Numbers are below 2^31, so the
widths of integers and the overflow of a varint do not show; a negative zero,
which is read as zero, does not occur in the samples. `Send`, `Cut` and
`Receive` are an entry or a snapshot on its way; `Extend` adds fields of a later
version. `Request`, `Serve`, `Answer` and `ReadAnswer` are the frames of
`codec.go` with what `process`, the dispatcher and the client do to them.

## 3. The runs

`tlc -config X.cfg M` for each; each takes from seconds to about three and a
half minutes. Runs that end in a violation are section 5.

| Run (module, config) | Properties | Bounds |
|---|---|---|
| `token_bucket` (`MCTokenBucket`) | `Ledger`, `RateBound`, `TakeRateBound`, `WindowBound`, `RefusalJustified`, `ImplementsContract` | 2 callers, period 2, burst 2, requests of 1 and 2, clocks up to 2 off, readings up to 2 old, 5 ticks |
| `leaky_bucket` (`MCLeakyBucket`) | `Ledger`, `ShapedRate`, `RefusalJustified`, `ImplementsContract` | 2 callers, period 2, capability 2, requests of 1 and of 5 (which never fits), readings up to 1 old, 13 ticks |
| `replication_commands` (`ResourceReplication`, `ResourceCommands.cfg`) | `StoreFollowsLog`, `IndexCoversStore`, `AnsweredIsRegistered`, `ImplementsRegistry`, `RegisteredSpreads` | 3 nodes, 1 name, 2 registrations, 2 crashes |
| `replication_api` (`MCResourceReplication`, `ResourceApi.cfg`) | `NothingMissing`, `LimiterWasRegistered` | 2 nodes, 2 names, 3 puts, removals or moves of which 1 times out, no crash |
| `allow_routing` (`MCAllowRouting`, `AllowRouting.cfg`) | `OneBurstPerCopy`, `BoundWasOwner`, `SettledCallsAreShort` | 2 nodes, 2 names, 2 registrations, 2 calls, 2 commands at once, burst 1, 1 fault |
| `allow_ends` (`AllowRouting`, `AllowEnds.cfg`) | `HandlersEnd` | 2 nodes, 2 registrations of 1 name, 1 call, burst 1, 1 fault |
| `command_stream` (`CommandStream`) | `AnswersMatchUntilGivenUp`, `AnswersAreUsedOnce`, `CallsReturn` | 3 calls, with and without workers |
| `discovery` (`MCDiscovery`, `Discovery.cfg`) | `MarkedWasLeader`, `EmptiedByEmptyAnswer`, `ClientReconnects` | 2 nodes that may hang, both initial addresses, 1 restart |
| `node_loading` (`MCNodeLoading`, `NodeLoading.cfg`) | `RequestsKeptOnce`, `HistoryBounded`, `LightestIsLightest`, `PanicsWhenQuiet` | 2 peers that answer 0, 1/2, 1, 0/0 or nothing, averages over 1 second, histories of 2, 2 requests, 4 seconds, 1 update |
| `wire` (`MCWire`) | `SizesExact`, `ReadAsWritten`, `CutLosesOnlyTheEnd` | 20 types, each with no field, one, all but one and all; cut at every byte; 5 unknown fields; 2 frames in a stream, answers of up to 60 bytes |

A module's `TypeOK` is checked with its first run. The comment over each
property states it; in short:

* The bucket accounts for every token (`Ledger`), lets through no more than the
  burst and what time pays for since it was made or in any window
  (`RateBound`, `WindowBound`; with `Take` up to the debt its floor forgives,
  `TakeRateBound`), refuses only when tokens, overflow and one period account
  for all the time (`RefusalJustified`).
* The leaky bucket accounts for every drop (`Ledger`), spaces out its `Take`s at
  the rate whatever `Allow` lets in between (`ShapedRate`), refuses what it can
  hold only for lack of time (`RefusalJustified`), and keeps the same contract
  with a ceiling of four times its capability.
* Without removals a node shows exactly the registry that the part of the log
  it has reached makes, by whatever mixture of entries, snapshots and replays
  (`StoreFollowsLog`), so that reads are reads of one history
  (`ImplementsRegistry`); with removals and moves it never misses a resource
  (`NothingMissing`) nor shows a limiter the name did not have
  (`LimiterWasRegistered`). What a caller was told is registered is never lost
  (`AnsweredIsRegistered`) and reaches every node that is not cut off for good, by
  being down itself or in want of a majority, also when the node that answered stays
  down (`RegisteredSpreads`).
* However calls are forwarded, the limiter of a registration gives one burst for
  each copy its owner has had (`OneBurstPerCopy`). Clients are bound to nodes
  that have owned the resource until a read is given up, and from then on to
  nodes that have owned some resource (`BoundWasOwner`). Calls take one hop and
  one retry while the nodes agree, if no older call is open and no older answer
  is to come or left unread (`SettledCallsAreShort`). A command that nodes send
  back and forth ends (`HandlersEnd`), unless several nodes are left that are no
  majority.
* On a connection answers match their commands until a read is given up
  (`AnswersMatchUntilGivenUp`); after that they may be off, but none is
  returned twice or to an older command (`AnswersAreUsedOnce`), and every call
  returns (`CallsReturn`).
* A client marks as leader only who was (`MarkedWasLeader`), loses all its
  connections only to the answer of a node that knows no members yet
  (`EmptiedByEmptyAnswer`), and gets a connection that is answered again and
  again while the node of one initial address answers and none with an address
  before it hangs (`ClientReconnects`). The last condition is the code's: see
  section 5.
* A request is in one entry of the history or on its way into one, and while an
  entry of its time may be there it is (`RequestsKeptOnce`); late ticks do not
  make a history grow (`HistoryBounded`); the prober's lightest and heaviest
  node are those of the answers it got, when all are numbers
  (`LightestIsLightest`); and it panics only after its own ticks had stopped for
  longer than an average reaches back, never for what a peer answers
  (`PanicsWhenQuiet`).
* `Size` is the number of bytes that are written (`SizesExact`); a reader gets
  every field as it was, through fields it does not know and frame after frame,
  up to an answer that is longer than a client takes (`ReadAsWritten`); a
  message that lost its end is refused, or read without its last fields or
  entries, never with others (`CutLosesOnlyTheEnd`).

**Why the bounds are enough.** In `replication_commands` three nodes: one can
answer and stay down while the other two go on, and one can come back to a log
whose beginning is now a snapshot. One name is registered twice: the entry that
comes second and must change nothing is a matter of one name, and entries of
different names do not touch each other. In `replication_api` two names are what
a snapshot or an index can be partly right about; three requests are a put, a
removal and a move in every order. That run has no crashes (both its
properties are proved with them), and one caller at most gives up, since giving
up changes nothing but the caller. In `allow_routing` two names let an answer about one be
read for the other, and two registrations are of one name, which moves it from
node to node, or of both. Two calls are one that leaves an answer and one that
reads it, or two that compete for a burst of one; a call sends again only when
an answer was read, so that two never have more than two commands at once. In
`allow_ends` two registrations of a name for two nodes are enough to send a
command in a circle. A fault is a crash or a restored snapshot, whose level is
any. Of three calls on a connection one can give up, one read the answer it
left, one come after that. One restart of one of two nodes makes every pooled
connection dead once the other is down, and has each initial address up, down or
hung at each dial, the first as the second. In the bucket, five ticks hold two
whole periods, two fills and a reading older than a fill; in the leaky bucket,
thirteen hold a pause that brings the level to its floor and the calls after it.
The proofs cover longer ones. Four seconds are two ticks, a pause longer than a
history and a tick after it; two requests and two peers give three different
averages, in every order. An update uses nothing of the one before it. The
samples of a message have lengths and numbers of one, two and more bytes,
pointers that are nil, to an empty and to a full message, and two frames show
whether a read ends where the next begins.

`CHECK_DEADLOCK FALSE` stands where all requests of the instance can have ended
and nothing is left to do. `Discovery` checks for deadlock.

**Fairness**, only where a liveness property is checked:

* `Deliver`, weak, per node: raft goes on delivering its log to a node that runs
  while a majority runs, which elects a leader; without one it does not tell a
  node what is committed, even where the node has it on disk. Nothing is assumed
  to restart a node, hence "not cut off for good", and `Stranded` in
  `HandlersEnd`: nodes that disagree and hear no more of the log may send a
  command in a circle for ever.
* `Handle`, weak, per call: a goroutine that can go on does.
* `Send ∨ SendFails` and `Read`, weak, per call: Go's mutex starves nobody, and
  `SetDeadline` ends a read. Nothing is assumed of the server.
* `Refresh`, weak: `checkConns` has a ticker, and dials and reads have time
  limits. `Join`, weak: raft gets to know its members. Nothing is assumed of
  elections, readiness or restarts, nor that a node that hangs ever recovers.

## 4. The proofs

`tlapm M.tla` for `TokenContract` and each `*Proofs` module. They hold for every
value of the constants that the named assumptions allow. `Max...` constants bound
the instances, not the results: they may be any naturals.

**Token bucket.** From `BucketAssumption` (a positive period, naturals for
burst, lag and requests, any integers for births).

* `ClockInv` ties the fills to the clock: `nextFill` is a period after
  `lastFilled`, which is no later than now or the birth, and readings are no
  older than the lag. With `TypeOK` it is inductive: `TypeCorrect`, and
  `FillsForward`, by which an old reading never moves the last fill back.
* `Ledger` is inductive with it (`LedgerCorrect`). `RateBound` is not:
  `GrantsPaidFor` says what grants and level together have been paid from, and
  gives `RateBounded`; the ledger also gives `RefusalsJustified`.
* `TakesBounded` is about callers that sleep: what they took counts from the end
  of their sleep. `PacedInv` says for every instant to come that what is admitted
  now, and what those whose sleep ends by then have taken, is paid for by then;
  `SpentInv` that all this has been spent. At a `Take` the ledger makes the debt
  that is left the very time the caller is told to sleep (`DebtPaysLater`). The
  tokens of the sleepers are counted as a set of pairs of caller and number
  (`Owed`), so that a `Take` adds a block to it (`TakeOwes`, `BlockAdds`), and
  `Proceed` moves that block to what is admitted (`ProceedOwes`).
* `KeepsContract`: with credit := the level and the time not credited yet,
  capped at burst, one token and lag, every step is a `Tick`, `Grant`, `Forgo`
  or stutter of `TokenContract`.
* `TokenContract!WindowBounded` holds for whatever keeps the contract, by the
  inductive `WindowLedger`; `WindowsBounded` is that for the bucket.

**Leaky bucket.** From `LeakyAssumption` (a positive period, naturals for the
rest). Products with the period stay folded in `Cost`, with four lemmas
(`CostInInt`, `CostAdds`, `CostGrows`, `WholeDrops`), so that all else is linear.

* `ClockInv` as above: `TypeCorrect`. `Ledger` is inductive with it
  (`LedgerCorrect`), since a drain moves level, time and what the floor holds
  back together (`CallKeepsLedger`).
* `RefusalsJustified`: a refused request that fits leaves a level above zero,
  so that no whole period up to the reading is undrained (`DrainedUpTo`).
* `TakesShaped`: `PacedInv` and `TakenInv` look ahead in the same way. A caller of
  `Take` sleeps until what was in the bucket before it has drained, so that all
  that was let in up to then, but its own request, is paid for by the clock
  (`TakeWaitsItsTurn`, from the ledger): one request too early, never two.
* `KeepsContract`: credit := `Outstanding`, the room above the level and the
  undrained time, of which no more than `PauseWorth` counts. A call takes its
  cost from it (`CallCharges`): without a drain by `CreditSpent`, with one by
  `CreditDrained`. `WindowsBounded` follows from the contract.

**Replicated store.** From `StoreAssumption` and `OperationsAssumption`, for
any numbers of nodes, names, requests and crashes.

* `TypeCorrect`: types, and that no node is ahead of the log.
* `CoverInv` = types, the history is the fold of the log, disks and stores miss
  nothing of their point of it. Inductive with every operation, removals and
  moves included: `MissesNothing`.
* `TracedInv`: every limiter on a disk or in a store is one its name had at a
  point of the history that the disk or the store has reached; entries add one
  of a new point, snapshots and restarts those of points reached before.
  `LimitersWereRegistered`.
* `FollowInv`, with `"Remove" \notin Operations`: the registry only grows along
  the history, so that putting a later snapshot over an older store gives the
  snapshot; disks and stores equal their point of the history, and a node that
  is down has none. `StoresFollow`, and with the refinement mapping
  position := applied + 1, shown := res, `KeepsRegistry`. The condition is
  needed: run `removed_is_gone` violates it.
* `IndexInv`, with `"Move" \notin Operations`: `IndexCovers`. Needed as well:
  after a move the per-node index has the name under the old node only.
* `AnsweredInv`, with registrations only: a request that ended well has its
  entry in the log, by the node that applied it or the store it was found in,
  and the registry keeps names. `AnswersHold`.

**Allow.** From `StoreAssumption` and `RoutingAssumption` (a positive burst),
for any numbers of nodes, names, registrations, calls and faults. `TypeOK` is
not inductive: a handler uses the copy of a limiter that it looked up earlier,
so that `CopyInv` (the node shown as having a limiter has made a copy; a copy
that is held is one its node has had), `CommandInv` (a command has its place
while it is handled or its answer is to come or to be read), `CallInv` and
`RegistryInv` belong to it. Together they are `TypeInv`: `TypeCorrect`.

* `MatchInv`: one call waits on a connection. Until a read is given up every
  command and answer on its way over a connection is for the call that waits there
  (`Matching`), so that what is read is the own answer (`ReadOwn`). After that
  it is so again for as long as there is a settled call, since that began with
  nothing of others on the way.
* `OwnerInv`: every place where an owner's name is on its way to a client (the
  entry a handler holds, the node a forwarded command was told of, the answer,
  what a call is about to bind, the binding) has one that the history had: for
  this resource in the cluster, for this one or, once a read was given up, for
  another in the client (`OwnerFor`). The history only grows (`HistoryGrows`).
  `BoundToOwners`.
* `PaidInv`: a registration has one owner in all of the history (`OneOwner`), what
  a handler holds was registered for the node it names (`HeldMade`), and what was
  granted is no more than what is gone from the owner's copies (`GrantsPaid`),
  with the tokens gone counted as a set of pairs of copy and number (`SpentOf`).
  A new copy, full or of any level, only adds to that set. `GrantsBounded`.
* `SettledInv`: while there is a settled call the cluster is `Quiet`, and all
  that is open or on its way is settled. Where its call and its command may be
  is said for each number of hops and retries they have had (`ShortCall`,
  `ShortCommand`): a command leaves any node but the owner by one hop, and an
  answer, which is the call's own by `MatchInv`, names the owner or the node
  that was asked, so that a call that is sent again is sent to the owner.
  `SettledShort`.

**A connection.** From `StreamAssumption`, for any number of calls.

* `TypeCorrect`, with what the mutex gives: only its holder reads or writes.
* `MatchInv`: until a read is given up, the client and the server are in step
  (`InStep`): the connection holds one command or (what is left of) one answer,
  that of the call that has the mutex, and nothing when nobody has it.
  `AnswersMatch`.
* `OnceInv`, for what comes after: a command is sent once and is in one place of
  the server at most (`SentInv`, `PlaceInv`), and one whose answer a call has
  taken is in none (`TakenInv`). An answer is thus taken by one call only, and who
  takes it was sent last of all. `AnswersUsedOnce`.

**Discovery.** From `PoolAssumption` (the addresses are those of nodes; the value
that stands for "nothing" is no node, flag or connection), for any number of nodes,
restarts and addresses. `DiscoveryInv` has a part for the nodes, for the caches,
for the pool and for a refresh under way; `TypeCorrect` is all of it.

* `MarksAreOfLeaders`: a flag is copied from raft to a node's own entry, to its
  peers' caches, to an answer and into the pool, and is stale at every stop. What
  each of them calls leader has been leader (`Truthful`).
* `PoolEmptied`: an answer that a refresh goes on with lists a node whose
  connection is in the pool, or nobody (`Answered`), so that an update keeps that
  connection unless the answer is empty.

**Request history.** From `ConstantsAssumption` (naturals for the durations).
`HistoryBounded` is not inductive: a push that drops nothing must know that the
entries fit into the duration. `Spaced` says that any two entries are as many
seconds apart as they are places, `Past` that a tick under way is in a later
second than all of them (`LastIsLatest`). An append keeps both (`AppendSpaced`),
a drop too (`TailSpaced`), so that either nothing is dropped and the oldest is
young enough, or the length stays (`PushKeeps`): `HistoriesBounded`.

* `RequestsInv` adds to this that nothing has been counted after now and that one
  count at most is on its way (`CountType`). A request that is counted adds one to
  both sides (`CountingKeeps`); `Calc` moves the count, and `push` moves it on into
  an entry that is as young as can be, and drops one only if it is too old to
  be asked for (`PushKeepsRequests`). `RequestsKept`.
* `LoadsInv` says that the first of the averages is the node's own and is not a
  number just when its ticks have stopped (`QuietIsNaN`; `OwnAverage` is where it
  comes from). An insertion never puts anything before a first that is not a
  number, nor one that is not a number before the first (`InsertKeepsFirst`,
  `SortKeeps`), so that what remains to choose from is nothing in that case
  only: `PanicsAreQuiet`.
* Fractions with counts above zero are ordered (`LeqTransitive`, by cross products
  that `CancelFactor` and `TimesFactor` keep out of the solver's way). An insertion
  into a sorted sequence gives a sorted one of the same averages (`InsertSorts`,
  `InsertAdds`), so that the sort does (`SortSorts`), and its ends are what all
  others are compared with: `ChoicesAreRight`.

What the sums and the sort compute is proved by induction. The theorems of the
library that do this take an operator for the statement, which the provers here
cannot instantiate; `SetInduction` is the same for the set of the numbers of
which the statement is true, from the least number not in it. A recursive
function is first shown to exist and to obey its equation (`SumsExist`,
`SumUnfolds`; `InsertionsExist`, `SortSteps`), for only then is `f[x]` anything.

**Only model-checked**: liveness (`RegisteredSpreads`, `HandlersEnd`,
`CallsReturn`, `ClientReconnects`), which TLAPS does not do; and `Wire`, because
`Protobuf` has recursive operators, in whose presence TLAPS loses its solver for
arithmetic.

## 5. Where code, tests and comments disagree

Two are runs that end in a counterexample.

* `removed_is_gone`: `Restore` puts a snapshot over the store without clearing
  it: a live node that gets a removal as part of a snapshot keeps the resource.
* `refused_is_free`: a forwarded `Allow` takes its tokens, and the client sends
  the command again after the redirect: it may be refused after all.

Noticed on the way, and part of the models. On a connection whose deadline has
passed, the late answer is read by the next call, and so on from then:
`AnswersMatchUntilGivenUp` says no more than that. A redirected answer that is
read in this way binds the resource of the call that reads it to the owner of
another (`client.go:170-177`), and `Allow` returns the grant of another call:
`BoundWasOwner` has the exception. A node that accepts connections and does not
answer, as the first initial address, keeps a client from all addresses after
it, for its `Meow` ends the search, where a dial that fails does not
(`conn.go:275-279`): `ClientReconnects` has the condition. `establishConns`
"removes zombie connections" (`conn.go:222`) from the pool, but not from
`resPool`, so commands on a bound resource go on using them. An answer of more
than 4096 bytes, of `Meow` in a cluster of some dozens of nodes, say, is refused
with its body left in the stream (`codec.go:153`). `process` sends the text of
an error without its code. A peer whose average is 0/0 can hide a lighter or
heavier node from the sort. `PutResource` returns when the proposing node has
applied, and other nodes show the resource later; a move leaves the per-node
index without the moved name; a request that arrives in pieces ends a server
without workers, and makes the event loop of one with workers spin;
`getServerInfo` fails when the last initial address is down though another
answered (the connection it made stays in the pool, which is why
`ClientReconnects` holds); leader flags are never refreshed.

## 6. What is not modelled

* The wait of `ForwardAllowCmd` for a peer that hangs: a peer answers, or dies.
* A token bucket starts full, at a birth; one from a snapshot (`FromResPB`) may
  start at any level, and its bounds begin with that level. `AllowRouting` has
  copies of any level.
* What a client reads after an answer that was too long. A frame whose header
  is longer than itself (`codec.go:119`): writers of this repository make none.
* The rates of single resources: nothing counts them (`AddResourceCount` and
  `RPS.Add` of a resource have no caller). `Reset`: only tests call it.
* `CheckMemberStatus`, `IsEntryApplied`, `moveNodeResources`,
  `RebalanceResources`: their callers are commented out or missing.
* Standalone mode (one map under one mutex), the client's shutdown, a second
  set of checkers after a second `Dial`, `ToLimiterPB`'s read without a lock.
* Configuration, logging, dependency injection, metrics export, benchmark and
  demo programs; getters, descriptors and gRPC stubs of the generated code.
* Raft's elections and messages: a library.

## 7. Plan

Done, in this order: the token bucket and its contract with proofs; the store,
its replication and the registry with proofs; Allow; the connection; discovery;
the leaky bucket with proofs; node loading with its first proof; the wire
formats; the proofs of Allow, the connection and discovery, and of the callers
that sleep; the proofs of what node loading adds up and sorts.

Left, models: the client's shutdown and its checkers (`Close` waits for
one of them; a second `Close` may wait for ever, a third checker stays behind); a
bucket in a snapshot, read without its mutex.

Left, proofs: with the recursion of `Protobuf` written as functions, that a size
is the length of what is written, by `SetInduction`; and the invariants that
`ResourceReplication` and `AllowRouting` share, as lemmas on `ResourceStore`.
