# cljgo: a TLA+ development of its concurrency core

cljgo is Clojure on Go: a reader, an analyzer, a tree-walking evaluator and a
compiler that emits Go, over a runtime library (`pkg/lang`) that implements
Clojure's values and reference types with goroutines, Go channels, mutexes and
atomics. This directory models the part of it where a wrong interleaving, a
panic at the wrong moment or a call after close breaks a program and no unit
test is likely to notice: the reference types, `core.async` channels and what is
built on them (alts!, mult, pub/sub, mix, pipeline), and the two parts outside the
runtime where processes or connections meet: the nREPL server and the dependency
cache.

Paths below are relative to the repository root; `agent.go` and the like are in
`pkg/lang`.

## 1. The system's parts

| part | state | operations | hard behaviour | modelled by |
|---|---|---|---|---|
| channel (`chan.go`) | a Go channel that is never closed, `done`, `mu`, `closed`, policy, transducer, promise latch | `>!` `<!` `close!` `offer!` `poll!` `put!` `take!` | close racing puts and takes; a transducer that parks holding `mu`; eviction in three steps; panics of transducer and ex-handler | `Channel` |
| `alts!`, `timeout` (`chan_alts.go`) | none of its own | ready pass, then `reflect.Select` | two passes over several channels; raw sends that bypass `closed` and the policy; polled ports; a transducer's step inside the pass, which holds the channel's lock | `Alts` |
| mult, pub/sub (`chan_pump.go`) | tap and topic tables, a goroutine per mult and pub | tap, untap, sub, unsub, unsub-all | snapshots of a table that changes; close that travels through two pumps | `PubSub` |
| mix (`chan_pump.go`) | inputs and their flags, solo mode, a change channel | admix, unmix, unmix-all, toggle, solo-mode | the pump waits on a view that a control makes stale | `Mix`, over `Alts` |
| pipeline (`chan_pump.go`) | jobs and results queues, a channel per input | pipeline, pipeline-blocking, pipeline-async | order with n workers, shutdown, an output closed downstream | `Pipeline` implements `OrderedMap` |
| pipe, merge, onto-chan, split, map, reduce, into (`chan_pump.go`) | a goroutine each | receive, transform, send | none the above do not have | not modelled |
| agent (`agent.go`, `corelib/builtins.go`) | value, error, mode, handler, a 32-slot queue, one drainer | send, await, await-for, restart-agent, clear-agent-errors, mode and handler setters | read and install in two critical sections; bounded queue; failure and restart between send and run | `Agent` |
| future (`agent.go`) | outcome, done channel, cancelled flag, `sync.Once` | AgentSubmit, deref, timed deref, future-cancel | body and cancellers race; unlocked readers | `Future` implements `WriteOnce` |
| delay (`delay.go`) | value, exception, body, mutex pointer | deref | fields read outside the mutex | `Delay` |
| lazy seq (`lazyseq.go`) | per cell: body, raw value, unwrapped seq, two mutexes | Seq | goroutines that enter one chain at different cells | `LazySeq` |
| refs, dosync (`ref.go`) | a global lock, per ref value and mutex, the dynamic mark `-in-transaction` | dosync, alter, commute, ref-set, ensure, deref | conveyance of the mark to futures that outlive the transaction; user code run under a mutex | `Ref` |
| atom (`atom.go`), promise (`promise.go`) | `atomic.Value`; a latch | swap!, reset!, compare-and-set!, watches; deliver, deref | CAS loop beside unconditional store; first deliver wins | planned |
| vars and bindings (`var.go`) | roots, per-goroutine frames | def, binding, conveyance, sealing | frames shared between goroutines | planned (Ref models the one binding it needs) |
| monitors (`monitor.go`), multimethods (`multifn.go`) | lock table; method table and cache | WithLock; dispatch | table entry dropped while waited for; stale cache | planned |
| persistent collections, numeric tower | immutable tries | pure functions | boundaries of the trie, overflow | planned as operators / out of reach |
| reader, analyzer, evaluator, emitter, build driver, diagnostics, REPL, publishing | sequential | text and tree transformations, files, processes | no concurrency | not modelled |
| deps (`pkg/deps`, `resolveDeps` of `pkg/build`) | lock file per project, shared cache of trees and mirrors, a flock per commit | load, resolve, fetch, publish, verify, write lock, cache clean | several processes, each killed at any step; a clean that takes no lock; which pins an update keeps | `Deps` (one git dependency) |
| nREPL (`pkg/nrepl`) | sessions, a queue, a goroutine and a busy flag each | clone, close, eval and the like, interrupt, describe | request queued on a session that has quit; busy flag against the last reply | `Nrepl` |
| bri web framework (`pkg/bri`) | handles, log sink, servers | serve, drain, spawn, timeout | exit racing a timeout | partly planned |
| generated code (`pkg/coreaot`, `pkg/briaot`), `core/*.clj(g)` | | | | generated; programs in the language |

How they interact: `alts!`, `go`, `put!`, `take!`, timers and pumps are goroutines that
call the channel API. AgentSubmit starts futures with the caller's bindings,
which is how a transaction's mark leaves its goroutine; agents run actions that
may use any of the others, their own agent included. Watches, validators, error
handlers, transducers and ex-handlers are user code called back from inside
the runtime, under a lock in some places and not in others; that is where most
of the panics matter.

What makes each part correct is stated as the properties of section 4;
`PROJECT.json` lists the hazards they answer, at the line where each bites.

## 2. The modules

Every module models one goroutine's code as program counters and one action per
stretch between two points where another goroutine can interfere: a critical
section that contains no blocking call is one step, and each Go channel
operation, each mutex acquisition that is followed by a call out, and each
callback into user code is a step. Values are abstracted to who produced them
(an element is its producer, the number of its call and which product of the
transducer it is; an agent's state is the list of actions applied to it; a
ref's, the number of updates).

* **Channel** — `shape` fixes what the constructors fix (capacity, policy,
  transducer, promise, ex-handler), so one run covers several kinds of channel.
  `buf`, `sendq`, `recvq` are the Go channel: a FIFO buffer and FIFO queues of
  parked goroutines, as the Go runtime keeps them. `CanSend` … `CloseDone` are
  its external part. `ChanSend` … `ChanTakeAsync` are the API; `BufferAdd`,
  `SlideEvict`, `SlideReadd` are bufferAdd; a transducer step is any member of
  `XOutcomes` (how many elements it adds, and whether it returns, says reduced,
  panics, or panics in the ex-handler too). `todo[p]` is what the call has still
  to add; a goroutine that parks in the middle of an expansion keeps `mu`.
  Workers are the goroutines `put!` and `take!` spawn. A poisoned channel
  (ex-handler panics in ChanSend, where the unlock is not deferred) keeps `mu`.
* **Agent** — the drainer's steps (`Take`, `RunAction`, `BodyEnd`, `Install`,
  `NotifyWatches`, `RecordError`, `RecordErrorEnd`) and the clients' calls.
  `Nests` lets an action, one of its watches or the error handler, all of which run on
  the drainer, send to their own agent once.
* **WriteOnce**, **Future** — the abstract write-once cell; the future with its
  `sync.Once` (external), where the writes of `cancelled`, `res` and `done` are
  separate steps, since readers hold no lock.
* **Delay** — reads of `d.mtx`, `d.exception` and `d.val` outside the mutex race
  with realize's stores; a read may return the value before or after the store.
* **LazySeq** — a chain of N cells, each body returning the next cell, the last
  one a seq. `realizeMtx` and `seqMtx` are separate, as in the code.
* **Ref** — `stm`, `mark` (the binding as each goroutine sees it), per-ref
  mutexes. `swaps` is the stack of txSwaps whose function a goroutine is running: the
  function may deref, alter or ref-set any ref, its own included, while the mutexes of
  all of them are held. A panic leaves its mutex locked (`FnEnd`), and those of the
  swaps it goes through (`Unwind`), until something catches it (`Catch`) or the
  transaction ends. `view`, `joined` and `alone` are history: the refs as the running
  transaction knows them, the goroutines that belong to it, and whether it began with
  no future of an earlier one still at work.
* **Alts** — channels reduced to a buffer, a lock and closing; a goroutine is in the
  ordered pass (`TryReady`, port by port), in a transducer's step that the pass has
  entered (`EnterStep`, `StepAdd` per element, `StepEnd`), at the select, parked in it,
  or woken by a done case and about to drain. A step keeps `mu` while it adds the
  elements it makes of one value, waits for room with it, and keeps it for ever when the
  ex-handler throws; `close!` of such a channel runs the completion under `mu` before
  `done` fires (`Close`, `CloseDone`). Several ports of a call may be on one channel. Whoever completes a case of a parked goroutine
  completes its call, as the Go runtime does. A polled port (`Polled`) sends a
  parked call back to the pass on a timer (`Tick`). Producers and consumers are
  callers with a single port.
* **Mix** — EXTENDS Alts: the pump's loop (`Snapshot`, alts!, `Consume`, `Drop`,
  `Forward`, `Sent`), the controls (`Edit` under `m.mu`, then `Signal`).
* **PubSub** — the pub's pump, one mult and its pump per topic, clients whose
  calls find the topic and change the mult in two steps. A channel is the
  sequence of its values, the ones past its capacity being those of parked
  senders.
* **OrderedMap**, **Pipeline** — what pipeline promises: the results of each input
  in order, one input after the other; and dispatcher, workers and writer with
  their three queues.
* **Nrepl** — a goroutine per connection (`Read`, then one of the operations; eval,
  load-file, complete and lookup differ in what runs and are one operation here)
  and per session (`Take`, `SetBusy`, `ClearBusy`, `SendDone`, `Quit`).
* **Deps** — processes that load the lock file, decide whether its pin may be kept
  (`pinIsCurrent`) or the ref is resolved again (`Resolve`; branches move upstream,
  `Names`), look into the cache, take the commit's flock, clone or fetch the mirror, extract, publish, hash, verify and
  rewrite the lock; `Kill` at any of these steps; `CacheClean` removing things
  piecemeal. A tree is full, partial or absent and its hash good or bad
  accordingly.
* **MCChannel**, **MCAgent**, **MCAlts**, **MCMix**, **MCPubSub**, **MCPipeline**,
  **MCNrepl**, **MCDeps** — the instances: kinds of channel, transducer outcomes,
  scripts of calls. The other modules are run directly.
* **ChannelProofs**, **AgentProofs**, **LazySeqProofs**, **RefProofs**, **MixProofs**
  (of Alts and Mix), **PumpProofs** (of Pipeline and PubSub), **CellProofs** (of Future
  and Delay), **ToolProofs** (of Deps and Nrepl) — the theorems of section 5. Where a
  proof module treats two components, the definitions of the second carry its name
  (`PubSubInit`, `DelayDeref`, `NreplNext`).

A definition named `Mut_X` stands before the definition `X` it distorts the way
a plausible bug would. It belongs to no specification; replacing `X` by it must
break the property that `PROJECT.json` pairs with it.

## 3. Bounds and fairness

`MaxOps`, `MaxCalls`, `MaxDerefs` bound the calls of one goroutine, `MaxPart`
the elements one transducer call adds, `MaxCrashes` the processes killed,
`MaxSessions` the sessions made (no less than the script can make). Queues have
one slot (the code's agent queue has 32, an nREPL session's 16) so that a full
queue, a parked sender and the sender behind it are all reached within two calls.
Two clients and a drainer, or three clients, suffice for every race here between a
caller, one that closes, fails or restarts, and one that is parked. Buffers of 0,
1 and 2 give a rendezvous, a full buffer after one put, and an eviction that leaves
something to compare. Three lazy cells give a first, a middle and a last one. Five
inputs through a pipeline of two workers are one more than the queues and workers
hold without the writer's help, and with results 3, 0, 2, 1, 1 the second worker
overtakes the first. Two topics and a channel subscribed to both reach every pair of
mults that meet in one subscriber. Two builds share a project, or only a mirror; HEAD
names two commits and a tag one of them. In Alts the writer calls twice and the others
once, and a step adds none or two elements to a buffer of one: filtered, and parked in
the middle. In Ref two refs, two transactions and one future give cycles of one and of
two functions; `Deadlocked` is stated for cycles of any length, which three refs and two
futures would need, and that instance is too large for TLC.
Deadlock is not checked (`CHECK_DEADLOCK FALSE`) because the bounded calls run out
and because the code lets goroutines park for ever (a take on an open empty
channel); the liveness properties say which waits must end.

Fairness is weak fairness of each goroutine's steps *inside* a call: Go's
scheduler runs every runnable goroutine. In Channel, Agent, PubSub, Pipeline and
Nrepl parked goroutines are served first come, first served, as the Go runtime
does; in Alts which of several parked peers is served is left open, so nothing
checked there depends on it. No client has to make a call. User code (bodies,
actions, watches, handlers, evaluations) is assumed to end, timers to fire, and an
async function of pipeline-async to close its channel, as its contract asks. Readers
of an output or a subscribed channel need not take: the properties that depend on it
(`ClosePropagates`, `Terminates`) say so in their premise. In Deps the operating
system runs every process; nobody has to start a build or clean the cache. The runs
of Future, Delay and Mix are of safety only.

## 4. The runs

| run | what it checks |
|---|---|
| `Channel` | all calls on seven kinds of channel. `NoDuplicates`: every element is in at most one place. `NothingVanishes`: what a put or a completion has begun to add stays until a take returns it or the buffer policy discards it. `PromiseLatch`: all takes agree. `XformSerialized`, `NoDoubleClose`, `PerProducerOrder`, `SlidingKeepsNewest`. `NilOnlyWhenDrained`: a take says nil only with nothing left; `GuardedNilForever`: and on the channels whose puts hold `mu`, for ever. `OfferParksLate`: the one case in which offer! parks. `CloseWakesTakers` (liveness): a take on a closing channel returns, although `close!` may first have to push its completion past a full buffer. |
| `Agent` | send, await, await-for, restart, clear, mode and handler with failing and self-sending actions, watches and handlers. `NoLostUpdate`, `SendOrder`, `AwaitCoversSent`; `CallsFinish` and `DeadlineHonoured` (liveness). |
| `Future` | `IsWriteOnce` (refinement of WriteOnce), `CancelVerdict`. |
| `Delay` | `SlowDerefsAgree`. |
| `LazySeq` | `BodyOnce`, `OneHeadAgrees`, `SeqReturns` (liveness), with panicking bodies. |
| `Ref` | two transactions and a conveyed future, functions that deref and alter further refs. `NoLostUpdate`. `IsolatedTogether`: nothing changes under a transaction that began with no earlier future at work. `CallsReturn` (liveness) names the two things that do block, a mutex a panic left locked and functions that wait for the refs of one another (or one for its own). |
| `Alts` | `OnePortOnly`: at most one port of a call takes effect. `ClosedTakesNothing`: no value goes to a channel closed before the call, although the select's sends do not look. `ClosedPortReturns` (liveness): a closed read port, a timeout's included, ends the wait, unless the call is held for ever at a write port with a transducer (`Blocked`). |
| `Mix` | `NoLostSignal`: the pump never sleeps on a stale view. |
| `PubSub` | `NothingSkipped`: a subscriber misses no value. `AtMostOneLate`: after unsub at most one more. `ClosePropagates` (liveness): the source's close reaches the subscribers that asked for it. |
| `Pipeline` | `InOrder` (refinement of OrderedMap), `BoundedInFlight`: at most N + 2 inputs ahead, `Terminates` (liveness): it ends if the reader keeps taking, whether or not it also closes the output. |
| `Nrepl` | `DoneThenIdle`: after the last "done" an interrupt finds the session idle. `AnswersComeBack` (liveness): every message is answered unless its session was closed under it. |
| `Deps` | two builds, kills, edited declarations, old locks, a HEAD that moves, and in two of the cases the cache cleaned meanwhile. `CacheSound`: without a clean no partial entry and no wrong pin, and a torn lock only by a writer at work or killed in the act. `PinHolds`: a build that rewrites the lock keeps the pin it loaded unless that was stale, and never puts the hash of a half-removed tree in the place of its own. `BuildsEnd` (liveness). |

Each module has one type invariant (`TypeOK`; `AltsTypeOK`, `PubSubTypeOK`,
`DelayTypeOK`, `NreplTypeOK`), which also holds the capacity of buffers and queues and
who must hold which mutex. They hold on these instances; the runs do not repeat them,
since all are proved but Mix's.

Several properties name an exception where the code does not keep the plain promise
(`Poisoned`, `Abandoned`, `Deadlocked`, `Blocked`, `Left`, `Orphaned`, `Stale`, `dpc = "park"`
...). The exception is part of the result: with it the property holds, so nothing
*else* breaks the promise; section 6 lists them.

## 5. What is proved

All theorems hold for every value of the constants that satisfies the named
assumption of the module (`ChannelAssumption`, `AgentAssumption`, …): any number
of goroutines, any capacity, any bound, any set of transducer outcomes. Every safety
property of a run (invariant, action property or refinement) is stated by a theorem.
The assumptions give the constants their types; what they say beyond that is named
below. `PubSubAssumption` and `NreplAssumption` ask that the topics and the connections
be finitely many, which only the bounds of the queues need, and `MixAssumption` the
inputs, which the snapshot enumerates. `AltsAssumption` asks for non-empty port vectors
and, as the constructor does, for a buffer behind a transducer; it says nothing of the
channels of a call's ports, several of which may be on one.

* **ChannelProofs.** `IInv` is the type invariant together with: the queues of
  parked goroutines hold each goroutine once, and only parked ones; a goroutine
  about to send has something to send (`TodoAt`); where a goroutine is fits the
  call it is in and the kind of channel (`OpAt`, `ShapeAt`); on a guarded channel
  whoever is adding holds `mu`, not after close unless it is the closer, and the
  closer runs before `done` fires (`LockAt`); the promise latch, `closed` and
  `done` agree (`LatchInv`, `DoneInv`); a sliding put that has evicted finds room
  or a receiver (`SlideInv`). TypeOK is not inductive without the queue and todo
  parts (a receive takes the head of a parked sender's todo), and serialization
  not without the lock discipline. From it: `TypeCorrect`, `Serialized`,
  `DoneClosedOnce`, `SlidingAdmits`; and the action properties `GuardedEndsInNil`
  and `NilMeansDrained`, proved step by step under the invariant.

  `PromiseIsLatch` (`PromiseInv`: what was taken is `pval`, nil was answered only
  with the latch empty and `done` fired, and `done` freezes the latch).
  `OffersParkLate` (`OfferInv`: an offer that has added nothing yet found a slot and
  still holds the lock, so its first element finds it too).

  `Conserved`: the action property `NothingVanishes`, step by step: whoever stops adding
  has handed its element to a receiver, to the buffer or to the buffer policy
  (`SendConserves`, `RecvConserves`, `AddConserves`), and all other steps leave what was
  accepted where it is.

  `EachElementOnce`, `ProducersKeepOrder` and `SlidingKeeps` rest on `KeepInv`:
  every element is in at most one place (`Apart`), the elements of a producer move on in the
  order it made them (`Ordered`, while no put! has handed a value to a goroutine),
  takers park only on an empty buffer (`WaitInv`: otherwise a direct hand-over
  would overtake the buffer), elements come from calls already made, those of the
  completion from a close (`AgeInv`, which makes the next call's elements new), and a
  put that has not begun to add has left no trace but its value (`TaskInv`, needed
  because a put! that would block gives its value to another goroutine, which
  numbers nothing itself). A step either moves elements (`SendKeeps`, `RecvKeeps`,
  `DropKeeps`, `SlideEvictKeeps`), moves none (`QuietKeeps`) or makes new ones
  (`PutKeeps`, `CloseLockedKeeps`); what a move does is proved once over four
  arbitrary containers (`TakeContents` ... `GiveContents`).
* **AgentProofs.** `Serialized`: `NoLostUpdate` is itself inductive. Its content
  is that Restart refuses an agent without an error and only the drainer sets
  the error, between actions. `RunInSendOrder` and `AwaitIsBarrier` need the order
  of everything that was ever queued: `FreshInv` (what a client has ready to send,
  or an action may still send, is newer than all that was seen), `OrderInv` (ran,
  running and queued entries are in the order of sending), `CoverInv` (what an await
  waits for is in front of its latch in the queue), with `ParkInv` for the senders
  behind a full queue. `TypeCorrect` includes the queue's bound.
* **MixProofs.** Of alts!: `CommitsToOnePort` and `RespectsClosed` from `AInv`: the
  values of a call carry its number (`OwnInv`), a value of a goroutine's last call
  is out only if that call has ended with it or is in the step that makes elements of it,
  and has not counted it among those to come (`OfferInv`), no value is on a channel
  twice or after it was received (`UniqueInv`), and the ordered pass does not get
  past a write to a channel closed at the start, so no such port is left for the
  select (`ShutInv`). `AltsTypeCorrect` adds `BoundInv`: no channel is filled beyond its
  capacity, where a parked writer's value takes the slot a read has freed and a send, or
  the next element of a step, finds a slot or a reader, and a promise-chan holds one value at most; a call ends with
  one of its ports or with :default. Of the mix, which EXTENDS Alts: `SignalsAreNotLost` from `SignalInv`
  and `SlotInv` (a change the snapshot misses is signalled, about to be, or the pump
  is on its way back; and it parks only with the change slot empty), and
  `UnopenedIsNotRead` (`NeverReadUnopened`: an input that no state of the mix ever
  allowed to be read is not read) from `PumpInv` and `OpenInv`. `MixAssumption` says of the
  surroundings that nobody else holds `m.change`, which is a private field, and that
  the admixed channels are read by the mix alone: another reader of an input could
  read it in any state, and the property is about the mix.
* **PumpProofs.** Of the pipeline, `IInv`: the inputs in flight are consecutive (`QueueOrder`:
  finished, at the writer, queued, in the dispatcher's hand), the writer forwards
  what it reads (`ReadInv`), a result channel is closed after its last result
  (`FillInv`), the queues have room for what is about to be sent (`RoomInv`), and
  the order of shutdown (`EndInv`). From it `TypeCorrect`, `BackPressure`, and
  `ImplementsOrderedMap`: with `at <- fin + 1` and `n <- nsent` initial states map to
  initial states and each step to a step of OrderedMap or to a stutter.

  Of pub and mults, `NothingIsSkipped` and `OneLateAtMost` from `PubInv`: a value that is
  due to a channel is got, in front of the mult's snapshot with the channel still tapped, or
  in the mult's hands with the channel in the snapshot (`Way`); a channel that was
  untapped is in no tap, and in a snapshot only until it has been served there once
  (`Late`); topics that are tapped or found were made (`Found`); and a pump at work has a
  value in hand (`Serving`). NothingSkipped alone is not inductive: it does not say
  which of the places a missing value may be in, and a mult's step moves it from one to the
  next. `PubSubTypes` bounds the channels' lengths with `Room`: a topic's values travel in
  order, so what is past its buffer is the pub's last value, and what is past a
  subscriber's buffer is the last value of a mult parked there; the parked values of a
  channel belong to different topics (an injection, and the cardinality theorems, give
  the bound).
* **CellProofs.** Of the future, `ImplementsWriteOnce`: with `cell <- IF done THEN res ELSE
  "none"`, initial states map to initial states and each step to a step or a
  stutter, given that the goroutine inside the Once is the only writer and that
  it writes before it closes. `CancelAnswers` from the same invariant; `FutureTypes`
  with it (a deref that returns has an outcome to return).

  Of the delay, `SlowAgree` from an invariant that ties who holds the mutex to
  who may store, and what a deref that has passed it will read: an exception, once
  there, stays, and a value is there if the body is gone. `RunsNoMore`: once `d.fn` is
  nil nobody is in the body or gets there. `DelayTypes`.
* **LazySeqProofs.** `BodyReturnsOnce`: who runs a body holds the cell's
  `realizeMtx`, and a cell with a body has not run it. `HeadsAgree`: as long as one
  cell has been entered and no body has panicked (`OneHead`), the goroutine inside
  Seq is alone there (`OwnAt`), the head is untouched, or empty with its seq found,
  whenever nobody is inside (`SvAt`), and in between whoever has emptied `s.sv` is on
  its way down the chain (`WalkAt`); the cells behind keep what their bodies
  returned. Without either proviso the invariant fails (section 6, item 4).
* **RefProofs.** `NoUpdateLost` from `SwapInv` (who is inside alter's function
  holds the ref's mutex and was given its present value, and its swaps are of different
  refs, since a second one on the same ref waits for itself);
  `TransactionsIsolated` from `SwapInv` and `Together` (among the clients only the
  holder of `stmMtx` is inside a transaction, and if it began with no earlier future at
  work, every future at work is its own and it knows every update). `RefTypes`.
* **ToolProofs.** Of the dependency cache, `CacheIsSound` and `PinsHold` from `DepsInv`:
  a build that updates has resolved a pin that is not stale to its commit, and one that
  is about to write the lock has found the hash its commit was pinned to, if it
  was pinned (`PinAt`), and before any clean what it writes is the hash of a
  complete tree (`GoodAt`). The second is what CacheSound lacks to be inductive: a
  process carries the hash it computed across the steps in which others publish,
  are killed or begin a clean. `DepsTypes`.

  Of the nREPL server, `DoneMeansIdle` from `NreplInv`: a request is in one place, on
  one queue once or in one session's hands, and unanswered as long as it is
  (`Queues`, `Hands`); what was answered was read and is not in a connection's hands any
  more, so the next message is a new one (`Answers`); a session is busy only while it runs a
  request (`Working`). `NreplTypeCorrect` adds `QueueInv`: past its capacity a queue holds
  only the sends of connections parked on it, one each.

The inductive invariants were model-checked on the instances of section 4, or larger
ones, before they were proved.

Only model-checked: all liveness, because the prover does not treat fairness
(`CloseWakesTakers`, `CallsFinish`, `DeadlineHonoured`, `SeqReturns`, `CallsReturn`,
`ClosedPortReturns`, `ClosePropagates`, `Terminates`, `AnswersComeBack`, `BuildsEnd`), and
the type invariant of Mix, of which `MixInv` proves the parts its properties need.

## 6. Where the code and its documentation disagree

Found while modelling; where a property of section 4 excepts the case, it is named.

1. `chan.go:202`: on a plain channel a put that looked at `closed` before
   `close!` may send after a take has already answered nil; the next take
   answers a value. The comment at 252-254 says "nil forever". Channels with a
   transducer or a policy are not affected (`GuardedNilForever`).
2. `chan.go:332`: offer! through a transducer that expands parks, holding `mu`,
   when the buffer had room for one element only (comment at 330-331: "offer! must
   never block"). `OfferParksLate` shows it is the only case.
3. `agent.go:339`: await-for sends its latch with a plain send before it makes
   its timer; on a full queue behind an action that does not return it
   outlives the deadline that the comment at 325-327 promises. `DeadlineHonoured`
   begins when the latch is queued.
4. `lazyseq.go:121`: Seq empties `s.sv` under `seqMtx` and fills `s.seq` later;
   realize of that cell, called from an earlier cell under `realizeMtx` only,
   then returns nil, which the earlier cell keeps; a body that panics further down
   leaves the same nil behind. `OneHeadAgrees` excepts both.
   `design/02-data-structures.md:328` asks that realization be goroutine-safe.
5. `ref.go:122`: alter checks the conveyed mark only; a future that outlives its
   dosync alters refs inside another goroutine's transaction (`IsolatedTogether` is
   about those that begin with no such future at work), against the comment at
   `ref.go:40`. And `ref.go:127` runs alter's function with the ref's mutex held: one
   that uses its own ref, or functions that wait for the refs of one another, block for
   ever (`Deadlocked`), and a panic leaves the ref locked (`Abandoned`).
6. `chan_pump.go:371`: the writer leaves a result channel when the output is closed;
   the worker with two or more results still to put on it stays parked, and the
   channel pipeline returned never closes (`Left`). A reader that closes the output and
   stops taking while the writer is parked in its send has the same effect
   (`chan.go:184-186`: a parked put outlives close); `Terminates` asks that it keep taking.
7. `chan_pump.go:556`: a sub that finds its topic before the source's close and taps
   after the topic's mult has exited is never closed; and a channel subscribed to two
   topics is closed by the first of their mults to end, so values of the other are
   refused. The comment at 491-492 speaks of every subscriber.
8. `server.go:302`: a request for a session that is closed between its lookup and
   its turn is never answered; when its queue is full the connection is stuck
   (`Orphaned`). The request that the session is running is answered.
9. `lock.go:263`: the lock file is written in place; a process killed in between
   leaves a lock that every later build of the project refuses.
10. `resolve.go:506`: a process killed in the first moments of a clone leaves a mirror
    directory that is not a repository; every later fetch from that URL fails
    until the cache is cleaned. `lock_unix.go:14-15` says that "a crashed resolver cannot
    wedge the cache". Two builds of different commits may also meet in one
    mirror that one of them is still cloning, since the flock is per commit: the
    other one fails.
11. `cache.go:194`: cache clean takes no lock. A build without a pin may hash a tree that
    is being removed and write that hash into a fresh lock (`CacheSound` is about caches
    that are not being cleaned; `PinHolds` shows that the hash of a commit that stays
    pinned is safe).
12. `agent.go:317`: await returns normally after an action sent before it was
    dropped, when a restart clears the error before await looks.
13. `agent.go:151`: the queue has 32 slots, not "unbounded" (ADR 0038), and an
    action that sends to its own agent when it is full waits for itself.
14. `builtins.go:1200`: clear-agent-errors may write back a state that is no longer
    the agent's, after a restart, an action and a failure in between.
15. `agent.go:75`: a timed deref returns the recovered panic as a value.
16. `delay.go:41`: a body that panicked is run again by the next force, and the
    first panic stays: later derefs raise it although a value is there.
17. `delay.go:48`: a deref that never takes the mutex may read `d.val` unset.
18. `chan.go:411`: two put!s of one producer on a full channel arrive in any order.
19. `resolve.go:439`: a dependency declared without `:ref` is given the ref HEAD before
    its declaration is hashed (589), so that its `:decl/hash` never is that of the
    declaration, and any update resolves it again; so does one with an entry of an old
    lock, by intent (`declhash.go:67-69`). The comment at `declhash.go:61-65` says that "a
    declaration whose hash is unchanged keeps its pin even during an update"
    (`PinHolds` excepts both: `Stale`).
20. `cache.go:140`: the loser of a race to publish removes its own tree, which has been
    made read-only by then; but for root that fails, and the build with it. The comment
    at 131-133 says that "the existing entry wins".
21. `chan_alts.go:166`: the ready pass of alts! offers to a channel with a transducer,
    and so waits for its `mu` (`chan.go:324`), held by a step parked in a full buffer or, on
    a poisoned channel, by nobody any more, or parks in the step itself (item 2). Such
    a call does not return although a timeout among its ports has fired (`Blocked`).

## 7. What is left out, and the plan

Left out of the modelled parts: nil arguments and their error messages, metadata,
watch and validator *registration*, `Raw`, printing, cached hashes, ref history
knobs. A future's `glsBindings` entry (never removed) belongs to the var model.

Of alts!, ports that are channels of other Go code, dropping and sliding
buffers behind a blocking write, and of a transducer behind a write port a reduced step
and what its completion adds or throws (Channel has them); `:priority`, which the code reads nowhere (the ready
pass is always ordered). Of Deps, everything about a graph of several dependencies,
Maven, vendoring, offline and frozen modes, and the lock file that stands for flock on
Windows and that is taken over after two minutes.

Next, in this order:

1. **Atom** and **Promise** (a second implementation of WriteOnce), **Var**
   (frames, conveyance, sealing), **Monitor**, **MultiFn**.
2. **bri** process handles; `cache.cljg` and `jobs.cljg`.
3. Persistent vector and map as operators checked against sequences and
   functions.
4. The type invariant of Mix as a theorem.

Not modelled and not planned: text processing (reader, emitter, diagnostics),
the sequential evaluator, the Go toolchain driver, network and file I/O,
generated code. They have no concurrent state, or none that TLC could say more
about than a test. That is nearly all of the repository by lines: of its 165 000, the
ahead-of-time compiled core (`pkg/coreaot`, `pkg/briaot`) is generated, the reader,
analyzer, evaluator and emitter turn one tree into another in one goroutine, the core
library wraps arguments, and the numeric tower and the collections are pure functions.
The models here are of the few thousand lines in which goroutines, processes or
connections meet, and cover a small share of the whole for that reason.
