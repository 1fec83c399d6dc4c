# TLA+ models of revalle's multi-process core and node registry

The repository consists of a modified Squid proxy (`squid-modified-aws/`, C++), a
control plane for a fleet of proxy nodes (`aws-deployment/proxy-node-system/`,
Node.js with Redis and Postgres, shell agents on the nodes), and deployment material
(terraform, installers, dashboards).

The part of it that is hardest to get right and hardest to test is how the processes
of one Squid instance work together without locks: several *workers*, *diskers* and a
*coordinator* (the "kids") share memory segments, communicate by lock-free data
structures and UDS datagrams, and may be killed and restarted at any moment while the
memory survives. This project models that core first, up to the map of cache entries that
the shared memory cache is built on. Of the control plane it models the registry of proxy
nodes, whose handlers interleave at every `await`.

Paths below are relative to `src/squid-modified-aws/src/` unless they begin with
`control-plane/`, which is `src/aws-deployment/proxy-node-system/control-plane/`.

## Inventory

| part | state | operations | interacts with | what is hard | what makes it correct |
|---|---|---|---|---|---|
| read/write lock, `ipc/ReadWriteLock` | `readers`, `writing`, `appending`, `updating`, `readLevel`, `writeLevel`, all atomics in shared memory | lock and unlock shared, exclusive, headers; switch between them; start and stop appending | every entry of a `StoreMap` has one | each operation is several atomic accesses | exclusion, nothing left behind by failed attempts, refusals with a reason |
| queues, `ipc/Queue` | ring buffers (`theIn`, `theOut`, `theSize`), `popBlocked` and `popSignal` of each reader | `push()`, `pop()`, `clearSignal()` | used by collapsed forwarding and by disker I/O; a datagram wakes the reader up | two processes work on a ring at a time; wake-ups; kills | FIFO, nothing lost or duplicated, no lost wake-up, no starvation |
| collapsed forwarding, `CollapsedForwarding` | none of its own | `Broadcast()`, `Notify()`, `HandleNotification()`, `HandleNewDataAtStart()` | queues, UDS, Transients | as above | workers learn of changed entries |
| disker I/O, `DiskIO/IpcIo` | pending requests of a worker in two generations, timeout event, paused disker | `open()`, `read()`, `write()`, `push()`, `handleResponse()`, `checkTimeouts()`, `DiskerHandleRequests()` | queues, pages, coordinator, UDS | late answers, restarts, lost notifications, full queues | each request is completed once and by its own answer; pages come back; everybody wakes up |
| free pages, `ipc/mem/PageStack` | a binary tree of atomic words; `size_` | `pop()`, `push()`, `makeFullBeforeSharing()` | `PagePool`, Rock and MemStore slots | an operation walks the tree one word at a time | no page handed out twice, counters never promise too much |
| page pool, `ipc/mem/Pages`, `PagePool` | `theLevels` per purpose | `GetPage()`, `PutPage()` | disker I/O, memory cache | test, pop and count are separate steps | levels are exact, limits hold |
| UDS datagrams, `ipc/UdsOp` | retries and timeout of a sender | send, retry, give up | all of the above | messages get lost | senders end |
| map of cache entries, `ipc/StoreMap` | anchors with a lock, a key and marks; chains of slices; names of anchors | open and close for reading, writing, updating; abort; free; purge | Transients, MemStore, Rock | marks, names and chains change in separate steps; an update has two anchors share slices | slices are owned once and none is lost, opened entries stay, an update leaves no gap, an evicted entry stays away |
| shared memory cache, `MemStore` | `freeSlots`, entries in a `StoreMap` | `get()`, `write()`, `updateHeaders()`, `evictCached()`, `evictIfFound()` | map, pages, the store | runs out of slices half-way through an entry | as above |
| Transients, Rock | entries on top of a `StoreMap` | | | | |
| coordinator, strands, `ipc/Coordinator`, `Strand`, `Forwarder`, `Inquirer` | registered kids, searches, pending requests | register, find strand, forward | UDS | timeouts race with answers | each request is answered or times out |
| node registry, `control-plane/src/nodeManager.js`, `scheduler.js`, `loadBalancer.js` | node records and the set of active nodes in Redis | register, heartbeat, health check, update, remove, select | agents on the nodes | handlers interleave at every `await`; outages; restarts between two writes | a dead node is dropped, a live one can be selected, a removed one stays away |
| users, keys, limits, sessions, IPs, webhooks, `control-plane/src/*Manager.js`, `rateLimiter.js` | records and counters in Redis and in memory | | `server.js` | read-modify-write across `await` | quotas and limits hold |

`PROJECT.json` lists all components with their status, and under "hazards" the places
where the code is exposed to interleavings, kills, limits and lost messages, with the
properties that watch over them.

## Modules

| module | models | grain of a step |
|---|---|---|
| `ReadWriteLock` | `ipc/ReadWriteLock.{h,cc}` | one access to one atomic |
| `LockPromise` | what the lock promises: who holds it, and that an attempt may fail | one lock operation |
| `ReadWriteLockProofs` | theorems about `ReadWriteLock` | |
| `MultiQueue` | `ipc/Queue.{h,cc}` and the callers in `CollapsedForwarding.cc` | one access to one atomic |
| `FifoChannels` | what the queues promise: bounded FIFO channels | one item in or out |
| `MultiQueueProofs` | theorems about `MultiQueue` | |
| `IpcIoFile` | `DiskIO/IpcIo/IpcIoFile.cc`: worker and disker | one queue operation, with the local work around it |
| `IpcIoFileProofs` | theorems about `IpcIoFile` | |
| `PageStack` | `ipc/mem/PageStack.{h,cc}`: `pop()` and `push()` | one access to one word |
| `FreePages` | what the stack promises: a page is taken by one process at a time | one pop or push |
| `PageStackProofs` | theorems about `PageStack` | |
| `IdSetTree` | how the tree is measured and filled before it is shared | one iteration of a loop |
| `PowersOfTwo` | `1U << level`, as a function that proofs can reason about | |
| `IdSetTreeProofs` | theorems about `IdSetTree`, and that `PageStack` starts where it ends | |
| `PagePool` | `GetPage()` and `PutPage()` in `ipc/mem/Pages`, `PagePool` | one access; the stack counts as one |
| `PagePoolProofs` | theorems about `PagePool` | |
| `StoreMap` | `ipc/StoreMap.cc` as `MemStore.cc` uses it | one lock operation, mark, lookup or move of a name, with the work under the lock |
| `StoreMapProofs` | theorems about `StoreMap`: locks, names, count, evictions, chains of slices | |
| `NodeRegistry` | `nodeManager.js` with its routes and the scheduled health check | one Redis command or one ping |
| `NodeRegistryProofs` | theorems about `NodeRegistry` | |
| `MC*` | constants for TLC | |

How modules fit together: `IpcIoFile` takes a queue operation as one step because
`MultiQueue` shows that its accesses may be interleaved (`ImplementsChannels`), and
counts pages because `PageStack` shows that a page has one owner. `PagePool` takes the
stack at its word for the same reason. `PageStack` starts from the tree that the
constructor builds in `IdSetTree` (theorem `StackStartsRight`). `StoreMap` takes an operation on an anchor's lock as one
step because `ReadWriteLock` implements `LockPromise` (theorem `Refinement`), and theorem
`LocksAreUsedProperly` shows the other half: whatever the kids do, each step is, for the
lock of each anchor, a step that `LockPromise` allows. `NodeRegistry` stands alone: control
plane and Squid share no state.

### ReadWriteLock

A variable per atomic of the class, and per user a control location and a return
location, which stands for the call stack: `lockHeaders()` calls `lockShared()`,
`unlockSharedAndSwitchToExclusive()` calls `unlockShared()` and `finalizeExclusive()`,
and so on. An operation is started only by a user in the state its callers guarantee
(who unlocks holds the lock, who appends writes). Every assertion in the code is a
location `"assert"` that must not be reached. Counters have a width (`CounterMax`) and
wrap around, as a `uint32_t` does; the models and proofs assume fewer users than the
counter has values. That the wrap-around is never used is a property, not a type:
`CountersInStep` bounds each counter from below by the users that hold the lock and from
above by those that hold it or are in one of its methods, at every access, so a release
too many is noticed although its result is a number like any other.

### MultiQueue

Each writer is in `push()` at one of its shared accesses, or idle; the reader is in
`pop()`, `clearSignal()` or its main loop. The item at index *i* is *i*, so an item that
is lost, repeated or overwritten shows as a wrong value. Indices wrap at `IndexLimit`
(2^32 in the code, a multiple of the capacity). Accesses that only their own process can
tell apart are one step: the `full()` test of `push()` goes with the write to a slot that
is the writer's own, and the datagram goes with the exchange of `popSignal`. A full queue
throws `Full` and nothing changes.

`notes` counts datagrams on their way. A `UdsSender` retries on its own and may give up
(`GiveUp`), and nothing in the code lowers `popSignal` then. `lost` remembers, until the
reader clears the signal, that this happened or that a writer was killed before it
notified. `poppedCount` is what `HandleNewData()` has popped in this call: when it reaches
`PopLimit`, the code's `SQUID_MAXFD`, the assertion fails, the reader dies (`PopTooMany`)
and is restarted. A killed process restarts at once: shared memory stays, its control
state and some datagrams in its socket are lost. The constants `ReaderCrash` and
`WriterCrash` say where processes may be killed.

### IpcIoFile

One worker and one disker. The worker's handlers run to completion but interleave with
the disker at each queue operation: `HandleResponses()` is a loop of such steps that is
run at the start, when notified, before a `push()` and before a timeout check, and
`then` remembers what follows it. Requests have a `serial`, which only the properties
read, and the `requestId` of the code, which restarts from 1 with a new process and
wraps at `IdLimit`. The disker pops, does the I/O (which may fail), pushes its response
and may pause at the places where the code does. Time is not modelled: a timeout check
that is scheduled may run at any moment, and any request older than one check may time
out; the code gives no lower bound on the disker's speed.

### PageStack, IdSetTree, PagePool

A node of the tree is the path to it. `pop()` is one step per level, then the leaf, then
`--size_`; `push()` is the reverse. The compare-and-exchange loops of the code are one
step each, the exchange that succeeds: a failed exchange changes nothing and the loop
recomputes the value. Processes may be killed anywhere; `used` records who popped a page,
and any process may push it. The assertion in `innerPush()`, that adding one to a half of a
word does not overflow, has no location of its own: the model's counters are unbounded,
`CountsAreBacked` bounds each by the ids below it, and `CountsStaySmall` of `IdSetTreeProofs`
shows that so many fit. `IdSetTree` uses the code's level and offset instead of
paths, follows the loops of `IdSetMeasurements`, `fillAllNodes()` and
`truncateExtras()`, and lets the undefined shift by the full width of a word yield
either of the outcomes compilers produce.

### StoreMap

An anchor is a record of its key, marks and chain start, `next` links the slices, and
`fileNos` is the table of names that `relocate()` changes. What a kid does, and with which
anchors, is its `op`; who holds which lock follows from that (`Shared`, `Exclusive`,
`Appending`, `HoldsHeaders`) and is not stored twice. A lock may be refused although
nobody holds it: somebody else may be in the middle of an attempt.

Every operation on a key begins with `FindAnchor`, and the anchor that was found may have
been relocated, freed or overwritten when the next step locks it. A kid is a *getter*, a
*writer*, an *evictor* or an *updater*, as `Purposes` allows it, one at a time; an updater finds its
entry by name, which covers the hint that `openForUpdating()` may be given, since a hint is
a lookup that was made earlier. The stages of an update are those at which other kids can
see or change something:

- `LockHeaders`, `FindVictim`, `OpenKeyless`, `ExtendPrefix`, `WritePrefix`: the second lock
  on the stale anchor, the choice of a name, the lock on that name's anchor, and the fresh
  chain, slice by slice, of which `WritePrefix` is the last;
- `closeForUpdating()` in four steps, `Splice`, `Relocate`, `FreeStale` and
  `CloseForUpdating`. The statements put together in one of them write what only the
  updater can see at that moment (an anchor under its exclusive lock, the splicing point
  under the headers lock), so that other kids cannot tell their order.

Pages are not counted: a writer that needs a slice gets a free one, or purges an entry for
one, whether or not slices are free (`GetPage()` may find no page, which the memory cache
shares with others). `id`
numbers the entries that were written and stays with an entry that is updated; `updated`
says that an anchor was written by an update; `evicted` holds, for each key, the entries that
its evictions had to evict: the one whose anchor the kid had locked (`evictCached()`), or
all that existed when the kid looked the key up (`evictIfFound()`), but not those that an
update had moved to another anchor by then (`MovedAway`); `doubleFree` says that a slice was
freed twice. `overlap` says how far updates got into each other's way: `"some"` once an
update began while another was under way, `"stale"` once an update locked an anchor that
was no longer the one its name leads to. The properties read these, the actions do not.

A chain is the least set of slices that has the first one and, with each slice up to the
splicing point, the one after it (`ChainBy`). Without cycles these are the slices that the
loop of `freeChainAt()` visits; that there are none is part of what is proved.

The model has an operation of the map if the memory cache calls it. Rock and Transients
also use `openOrCreateForReading()`, `switchWritingToReading()`, `forgetWritingEntry()`,
`closeForReadingAndFreeIdle()` and `importSlice()`. `validateHit()` is off by default
(`paranoid_hit_validation`).

### NodeRegistry

A node has a record `node:<id>` and may be in the set `nodes:active`. A handler of the
control plane is a control location with what it read before the last `await`: one
heartbeat handler per node, one registration per node, one administrator's request, and
the health check (`runJob()` does not start a job that is running). Each step is one Redis
command and the code up to the next `await`. The control plane may be restarted between
any two steps; then the handlers are gone and Redis stays.

Time is counted in ticks that saturate at `SilentAge`, the two minutes after which a node
counts as silent. A tick is longer than the 30 seconds between heartbeats, so every
machine that is not cut off is heard in each. A machine is `up`, `busy` (the agent reports
`degraded`, Squid answers), `sick` (Squid does not answer) or `cut off`. A node that
registers again does so under its old id, as `node-agent/register.sh` does if `NODE_ID` is
set; `squid-node/agent/register.sh` sends no id, so the control plane makes up a new one and
the machine is a new node to the registry, while the old one falls silent. The registry
is empty at the start or kept from an earlier life. `nodes:load` is written and never read,
and is left out; of the load balancer only the set it chooses from is modelled.

## Runs

All runs take the code as it is; `expect: violation` runs show where it differs from what
a comment says.

| run | instance | result |
|---|---|---|
| `lock` | 4 users, symmetric, counters of 3 bits | counters in step with the users, all other properties, and refinement of `LockPromise` |
| `queue` | 2 writers, queues of 2, indices modulo 4, `HandleNewData()` dies of its second item, datagrams get lost, one kill: of the reader anywhere but between `theOut++` and `--theSize`, or of a writer that has counted its item | FIFO, no wake-up lost but by a lost datagram, refinement of `FifoChannels`, no starvation through dying readers |
| `io` | queues of 1, one page, ids 1 and 2, three requests, one kill of worker or disker, one lost notification | requests completed once, by their own answers, nobody sleeps on work, pages come back unless something was abandoned or killed, every request of a living worker ends |
| `io_restarted` | worker killed once | `LateMeansCompleted` fails: a response to the predecessor removes a request |
| `stack` | 3 processes, 5 pages, 4 leaves of 2, one kill | all properties, and refinement of `FreePages` |
| `tree` | leaves of 4 bits, all capacities 0..36 | the tree is exact |
| `pool` | 3 processes, limits 3 and 2 | levels exact, limits reserve pages unless calls overlap |
| `store_map` | 3 kids, two of them updaters, 1 key, 2 anchors, 3 slices, 2 entries | opened entries kept, names complete, count not too high; while updates take turns: slices owned once and none lost, updates without a gap, an eviction lost to updates only |
| `store_stale_reader` | the same with one updater | `LockedChainIsIntact` fails: slices are freed under a reader of the stale anchor |
| `store_two_updates` | the same as `store_map`, and updates may lock anchors by outdated names | `OwnChainsAreApart` fails: the second updater splices to slices that the first one's entry owns |
| `nodes` | 1 node, 2 ticks to silence, 4 requests, outages and restarts | a removed node returns only by a race, a dead one is dropped, a listed one recovers |
| `nodes_return` | 1 node, one outage | `HeartbeatingNodeReturns` fails: a node that was silent for two minutes is never used again |

Why these bounds are enough to be interesting:

- `lock`: four users are a writer that appends, two readers (one of them updating
  headers) and somebody who tries. All races of the code are between two or three users.
- `queue`: with capacity 2 a ring is empty, partly filled and full; four index values
  wrap around again and again. Two writers compete for one signal. One kill suffices
  since a restarted process does not remember it was restarted; deaths by assertion are
  not bounded. The limit of the assertion is 2 (`PopLimit`), so that a backlog of the two
  queues always exceeds it; in the code queues of 1024 items from several kids exceed
  `SQUID_MAXFD` when it is small. `EveryQueueIsServed` needs a limit of at least the
  number of writers: a reader that dies earlier starts with the first queue again and
  again. `SQUID_MAXFD` exceeds the number of kids. `RetryLimit` is 0: the datagrams that
  waited for a reader that died of the assertion are gone with it, which is the worst case.
- `io`: one slot per queue makes both queues overflow, one page makes the pool run dry,
  and with ids 1 and 2 the third request reuses an id. Either process may die once.
- `stack`: two levels of inner nodes, so that there are counters that are neither at
  the root nor above leaves, a partly filled leaf and an empty one.
- `tree`: capacities from an empty tree of one level to four levels, each with no, some
  and all bits of the last leaf in use.
- `pool`: two processes race for the last page of a purpose, the third sees the result.
- `store_map`: kid a updates, b updates and writes, c reads and evicts; writers also purge what
  others wrote. Two anchors suffice for an update, and every other lookup of the key then
  meets the stale or the fresh one. Three slices are a stale chain of two and a fresh prefix,
  with nothing left: a writer has to purge. The second entry overwrites or follows the first,
  so that marks can hit the wrong one. Slices are interchangeable; kids are not, as their
  purposes differ. `entryCount()`, which drifts downwards, may fall to -1 and no further
  (`CountFloor`). A behaviour ends where an update locks an anchor by an outdated name
  (`NamesWereCurrent`): beyond that point `HeldEntryIsKept` and `CountIsNotTooHigh` are
  proved but not part of this run, and the other properties say nothing. Which hypotheses
  the theorems have is said under "Proofs". With two anchors and one key, the outdated name is that
  of the stale anchor (lookup before the lock in `openForUpdating()`); the window between
  the lookup and the lock in `openKeyless()` needs two keys and three anchors, see
  "Findings". `NamesReachEveryAnchor` also holds with three anchors and two or three kids (6.2
  million states), which takes too long for a run.
- `nodes`: all handlers but the health check work on one node's key, so one node has all
  races between them; the one effect of another node, a pass that is aborted, ends the pass
  of the node itself too. What an aborted pass does to the nodes after it is therefore not
  exercised in this run. Four events are, for instance, outage, removal, registration and
  restart. With two nodes and two events the same properties hold (1.6 million states).

Deadlock is checked in `lock`, `stack`, `pool`, `store_map` and `nodes`. `io` runs stop when
`RequestLimit` is used up, and `tree` runs when the tree is filled. A system of queues may
really stop: after a lost datagram the reader sleeps and the writers' queues fill up.

### Fairness

`queue` assumes that a process that is running takes its next step (weak fairness of each
writer's `PushStep` and of the reader), which includes that a reader receives a datagram
that arrives, and that a reader that died of its assertion is started again (the master
process does so, at the latest after `hopeless_kid_revival_delay`). No datagram has to
arrive: a sender may give up at any time. Nothing obliges a writer to push. `io` assumes weak fairness of the worker alone: its
event loop runs, including scheduled timeout events. Nothing is assumed of the disker.

`nodes` assumes that the scheduler starts the health check again and again and that it goes
on (`setInterval` in `scheduler.js`), that handlers under way go on, that the agents of
machines that are not cut off send heartbeats (the loop in `squid-node/entrypoint.sh`), and
that time passes. Time needs strong fairness: a tick is enabled only between handlers, so
it is not enabled continuously, and no handler can stop the clock. Nobody has to register,
remove, update or recover.

### Findings

Each of these is a run that fails:

- `handleResponse()` dequeues by request id before it compares process ids, so a response
  to a killed worker can remove a request of its successor, which then never ends
  (`io_restarted`).
- After an update the stale and the fresh anchor lead to the same suffix of slices, under
  two locks. A reader of the stale anchor does not keep the suffix from being freed and
  used for another entry, in spite of what the comment on `StoreMapAnchor` says
  (`store_stale_reader`).
- `openForUpdating()` looks at the mark of the stale anchor before it takes the headers
  lock. When another update is closed in between, the second updater works on a chain that
  has given its suffix away (`store_two_updates`).
- `checkNodeHealth()` takes a silent node out of the set from which it gets the nodes to
  check, so its branch that reactivates nodes is never reached for such a node
  (`nodes_return`).

The properties of passing runs contain exceptions where the code makes weaker promises
than one might expect. They are what the code does, and each exception is needed:

- A reader killed between the two accesses of `pop()` leaves `theOut` and `theSize`
  inconsistent, and a writer killed after it wrote its item leaves an item that is not
  counted. `queue` kills nobody there.
- A datagram that is given up, or a writer killed before it sends it, leaves a signal that
  silences all writers, or a reader that was not told, until the reader restarts:
  `NoLostWakeup` and `EveryQueueIsServed` except that (`lost`).
- Updates may overlap: `ChainsStayApart`, `NoSliceIsLost`, `UpdateIsSeamless` and
  `EvictionLostOnlyToUpdate` hold up to the first update that begins while another is
  under way. `store_two_updates` shows what happens to chains after that.
- An update looks a name up and locks the anchor in separate steps, for its stale anchor
  (`StoreMap.cc:529`, `559`) and for the fresh one (`592`, `593`). If another update moves
  the name in between, the exchange of names goes wrong: `NamesReachEveryAnchor` excepts
  that. The exception is needed for either lookup. For the second one, let there be
  three anchors, two keys and two kids that update and write, and leave `LockHeaders` out
  when the name is outdated: after 29 steps names 0, 1 and 2 lead to anchors 2, 2 and 1,
  and no name leads to anchor 0 any more. Updates that overlap but lock by current names
  keep all anchors.
- The page of a read response that comes too late is never put back: `PagesAreReturned`
  excepts abandoned requests.
- `GetPage()` tests the limit before the page is counted, so overlapping calls exceed it:
  `OverrunNeedsRace`.
- An update that is being closed while its entry is evicted may bring the entry back:
  `EvictionLostOnlyToUpdate` excepts entries that were moved away from the anchor that the
  eviction found, and, until the second check of `closeForUpdating()`, entries that were
  marked between its two checks. A comment there says that this race is accepted.
- A mark that hits an anchor that is already empty makes `entryCount()` drop once too
  often: `CountIsNotTooHigh` is an upper bound only.
- A removed node may be used again if a heartbeat, an update or a registration had read or
  was writing its record and the health check was about to list it:
  `RemovedNodeReturnsOnlyByRace`. The removal itself opens no other window: the node is
  unavailable from the moment its record is deleted. A removal that a restart of the
  control plane cuts short does not count as one: nobody was told that it succeeded.
- The health check and a heartbeat may overwrite each other's record as long as they keep
  meeting: `ListedNodeRecovers`.

Smaller disagreements between comments and code, met on the way and not part of a run:
`QueueReader` is not constructed "blocked without a signal" (`ipc/Queue.h:31`) but
unblocked; the worker's pop queue can overflow, in spite of `IpcIoFile.cc:969`, after
requests were abandoned; `PageStack::size_` is an upper bound for the number of free pages,
not a lower bound (`PageStack.h:175`); `truncateExtras()` clears one leaf too few when the
capacity is not a multiple of 64, which is harmless because no counter leads there
(`TreeHoldsCapacity`).

## Proofs

The theorems in the `*Proofs` modules hold for every value of the constants that the named
assumptions allow: any number of users or processes, any capacity of queues, pages and
trees, any number of kills, requests and outages, any map (kids, purposes, keys, anchors,
slices). They are checked by `tlapm` with Z3, Zenon and LS4. Where a theorem has a
hypothesis beyond those assumptions, it is named below with the behaviour that makes it
necessary. Every inductive invariant was checked by TLC on a small instance before it was
proved.

### The lock

Assumed: the users are finitely many (`UsersAssumption`) and no more than a counter can
count (`CounterAssumption`). The properties are not inductive: whether two users can both
hold the lock depends on what the counters say, and the counters are changed one access
at a time. The invariant `IInv` adds

- `RetOK`: the return location fits the location, i.e. the call stack is one the code has;
- `Counts`: `readLevel`, `writeLevel` and `readers` are exactly the numbers of users at
  locations that have incremented and not yet decremented them;
- `OneWinner`: only one user is between winning `writeLevel++` and giving it up;
- `Flags`: `writing` and `updating` are set exactly while a user is at a location that owns
  them, and `appending` only while a writer is at one where it may still be set;
- `Exclusion`: while a user has exclusive access, nobody reads, and nobody is about to
  read without another look at the lock.

From it follow that the counters stay in step (`CountersStayInStep`: as there are never more
users than a counter can count, no increment or decrement wraps), mutual exclusion, a single
headers updater, that no assertion fails, that
an idle lock is pristine, that refusals are justified, and that the lock implements
`LockPromise` with the holders as refinement mapping.

The lock is called non-blocking: `MethodsEnd` shows that whatever others do, each access of
a method brings it closer to its return, which is at most nine accesses away. `RetOK` is
what makes this more than a look at each method: a method that returns into another one
must not start a longer one.

### The page stack

Assumed: finitely many processes, positive sizes (`StackAssumption`), and that every id
has a leaf (`MeasurementsAssumption`: the capacity is at most that of a full tree of that
height; theorem `StackStartsRight` shows that the measurements of the code provide it). The invariant `IInv` is

- `Places`: an operation is at a node of the level its location says;
- `CountsAreBacked`: at every node but the root, what the parent counts plus the number
  of operations that stand at the node is no more than what the node has. This is what
  makes `descend()` and `leafPop()` succeed, and it survives kills, since a killed
  process only makes the left side smaller;
- `Owned`: an id is in its leaf, used by one process or in the hand of one process;
- `SizeCounts`: `size_` is the capacity minus the number of pages in use;
- and that no assertion failed.

The initial state needs that the ids below a node are those below its two children
(`IdsSplit`); the steps need how a changed word changes totals and promises
(`CounterChange`, `LeafChange`) and how a step changes the number of operations at a node
(`ClaimsChange`). From it follow that no assertion fails, that counters never promise too
much, and that no page is handed out twice (`Refinement`).

That no page is lost needs one more conjunct, and holds only while nobody was killed:
`RootCounts` says that a page that `size_` counts is counted by the root or is in the hands
of exactly one operation under way. `pop()` takes it from the root first and from `size_`
last, and `push()` does it the other way round, so the numbers of both and of the busy
processes change together. `NoPageIsLost` is the case of no busy process,
`PopFailsHonestly` the case of an empty root.

`OperationsEnd`: what an operation has ahead of it is at most the height of the tree plus
one accesses, decreases with each step of the operation, and no step of another process
changes it. A compare-and-exchange that fails is not a step of the model, so this says that
an operation cannot be sent up and down the tree for ever, not that each exchange succeeds.

### The tree

Assumed: a leaf has at least one bit (`TreeAssumption`). `IInv` of `IdSetTreeProofs` follows
the construction:

- `Measured`: the leaves are a power of two, and half as many would not suffice;
- `AtFirstExtra`: `truncateExtras()` stands at the node that has the first id to remove, and
  `toSubtract` is the number of ids from there to the end of that node. This is what makes
  the loop right, and is not written anywhere in the code;
- `FullAbove(level)`: the nodes above are still full; `ExactFrom(level)` and `ExactLeaves`:
  the nodes from that level on have the counts and bits they must have, if they stand for
  an id below the capacity. Nodes to the right of that path may be wrong (see
  "Findings"), and whichever word the undefined shift leaves is covered.

The sizes of levels are powers of two. Since `^` means nothing to the prover, the modules
use the recursive function `PowerOfTwo`; that it is a total function with the expected
equations, and facts about all levels, are proved by induction stated for sets
(`Induction`: a set of naturals that has 0 and successors is `Nat`), derived from the
well-foundedness of `<`. From the invariant follow

- `TreeIsExact`, the property of run `tree`, for every capacity and size of a leaf;
- `TreeIsLargeEnough`: there is a leaf for every id and half the tree has too few;
- `TruncationIsSafe`: the assertions of `leafTruncate()` and `innerTruncate()` hold;
- `CountsStaySmall`: no count exceeds a leaf or reaches the capacity, so that the 32-bit
  halves of a node do not overflow. The model's integers are unbounded; by this theorem
  and `TreeIsLargeEnough` they are exact for capacities up to 2^31, where the number of ids
  of the full tree still fits 32 bits;
- `LoopsEnd`: a natural number decreases with every step of the construction;
- `NodesDoNotOverlap`: the indexes `nodeAt()` computes are within the array and no two nodes
  have the same one, so that levels and offsets, and paths in `PageStack`, may stand
  for words in memory;
- `StackStartsRight`: the finished tree, read by paths instead of levels and offsets, is the
  initial state of `PageStack`, and its `MeasurementsAssumption` holds. The binary digits of
  a leaf's offset are the path to it (`PathsCover`, `IdsBelowPath`). Nodes that stand for no
  id below the capacity, where `truncateExtras()` may leave anything, are read as empty;
  `UnusedNodesAreLeftAlone` of `PageStackProofs` justifies that: no operation gets to such a
  node, whatever overlaps and whoever is killed.

### The queues

Assumed: positive numbers of writers and slots, and a capacity that is below `IndexLimit`
and divides it, as powers of two do (`QueueAssumption`). Two facts are independent of each
other.

- `RingInv`: between `theOut` and `theIn`, modulo `IndexLimit`, lie exactly the items that
  are counted or about to be counted, and the slot of each holds its item; `theSize` is
  within bounds whatever is killed (`SizeFits`). It needs `KillsSpareRings`: no reader is
  killed between `theOut++` and `--theSize`, no writer between its item and `theSize++`.
  From it follow `ItemsArriveIntact` and, with the queued items as the refinement mapping,
  `QueuesAreChannels`: each access of `push()` and `pop()` is a step of `FifoChannels` or
  changes nothing there.
- `WakeupInv`: a reader that is asleep, or on its way to sleep past the queues it has
  looked at, is covered for every non-empty queue by a writer that has yet to look at
  `popBlocked`, by a datagram, or by its own second look, unless `lost`. It has no
  hypothesis on kills, lost datagrams or the limit of the assertion: `NoWakeupIsLost`
  holds whoever is killed wherever.

### Disker I/O

Assumed: a positive queue capacity and at least two ids (`IpcIoAssumption`), and that a new
request does not meet its own id among the pending ones (`IdsAssumption`: there is one
pending request at a time, as in run `io` where ids go round, or there are more ids than
requests; the code has 2^32 ids and gives up on a request after seconds, but does not test
for it). `IoInv` is twelve conjuncts, of which the ones that carry the argument are

- `InOrder` and `IdsGoRound`: messages on their way, in the disker's hands and in the
  response queue are in the order of their serial numbers, and an id belongs to the last
  request of the process that got it or to one that is a whole round of ids older. So a
  response of this process whose id fits a pending request without being its answer is a
  whole round of ids late (`ResponsesMatch`);
- `PendingOnce`, `EachCompletedOnce`, `TimeoutIsScheduled`: a request is in one of the two
  generations, the new one is never left without a scheduled check;
- `MessagesArePending`: as long as nothing was abandoned or killed, requests in messages
  and pending requests are the same. This is what keeps the pages of late responses
  accounted for in `PagesAreConserved`;
- `Awake` and `FewNotes`: a disker that waits with a request in its queue has a datagram or
  a scheduled call coming, unless a datagram was lost.

### The page pool

Assumed: `PoolAssumption` (finitely many processes, two purposes, limits whose sum fits in
a `size_t`). `PoolInv` adds to `LevelIsAccurate` that every page is in the stack, in
use or being pushed back (`PagesAreConserved`), and that a purpose is within its limit
unless two of its `GetPage()` calls overlapped (`LimitsAreKept`). The width of `size_t` stays
in the model: that levels never wrap is part of what is proved.

### The shared map

Assumed: `StoreMapAssumption`, i.e. at least one anchor, a hash that yields anchors, and
finitely many slices. The invariant is

- `TypeOK`, which includes that a busy kid has a key and that an updater that is about to
  splice has a slice to splice to;
- `LocksExclude`: a writer has its anchor to itself, one that appends shares with readers
  only, headers have one updater, and the two anchors of an update differ;
- `HeldEntryIsKept`: what is opened stays under its anchor.

The last two need each other: that the anchors of an update differ follows from the locks
at the moment the fresh one is taken, and that a key stays follows from who else may hold
the anchor when a step changes it. Each action is shown to be `Fine`: other kids stay where
they are, the kid takes only locks that are free, keeps its two anchors apart, and changes
keys only of anchors that nobody else holds. Two lemmas (`StepKeepsLocks`,
`StepKeepsEntries`) draw the invariant from that, and `LocksAreUsedProperly` draws from it
that every step is a step of `LockPromise` for each anchor's lock.

`CountStaysLow`: each step is shown to be `Counted`, i.e. it adds an entry for each one it
counts up, and counts down for each one it takes away.

Names are moved by updates only, in two steps, `Relocate` and `CloseForUpdating`, and any
number of updates may be under way. `NamesInv` holds until an update locks an anchor by an
outdated name (`NamesCorrespond`). It says that

- the fresh anchors of different updates differ (`FreshApart`);
- the names by which an updater locked its two anchors still lead there, the key's name
  until `Relocate` (`NamesOf`);
- if each update that is between its two steps moved its second name now, every anchor
  would have a name (`Leads`), and so exactly one, as there are as many names as anchors.

That an update may have a second one on its heels is what makes this more than a fact about
one exchange. Who holds the headers lock of an anchor that a name leads to keeps that name:
another update that moved it would have to hold that lock, or the exclusive lock, on the
same anchor (lemma `KeyNameIsOwn`). `AnchorsKeepNames` follows.

The properties of chains, evictions and of an update without a gap need more: that no
two updates overlapped. `TurnsInv` (`OverlapIsNoticed`) says that as long as `overlap` is
`"none"` there is indeed at most one update under way; that is what `UpdatesAreSeamless` and
the next two paragraphs start from. Whichever kids update, the theorems speak of every
behaviour up to the first overlap.

Chains. General facts about chains come first: a chain is closed and
least, links elsewhere do not matter to it, a splicing point divides it, and linking or
splicing a slice at its end adds that slice or that suffix. They follow from the definition
by least sets; no induction over a chain is needed. `ChainInv` is

- `Tidy`: no cycles, free slices lead nowhere, no owned slice is free, every slice is free
  or owned, and two anchors own a slice only while one of them is taking over the other's
  suffix, between `Splice` and `FreeStale` (`Exempt`);
- `Keeps`: who writes or updates has an anchor that gave no slices away, the slice to splice
  to is in the stale chain, and after the splice the two anchors share exactly what follows
  it. This is what makes `FreeStale` leave each slice with one owner;
- `Undisturbed`: nobody appends to an entry that is being updated, since that would
  lengthen the suffix of one of two anchors;
- `SplicedAreMarked`: an anchor that gave slices away is marked, so that nobody opens it for
  an update again.

`ChainInv` holds as long as no two updates overlapped (`ChainsStayTidy`), and `ChainsAreApart`
and `NoSliceGetsLost` follow. `store_two_updates` is the counterexample without that.

Evictions. `EvictInv` (`EvictionsAreTraced`, as long as no two updates overlapped) follows
entries by their numbers: two anchors have the same number
only if one is a copy; the fresh anchor of an update has the number of the stale one until
the update is closed; an entry that is opened while it is written is no copy; and an entry
that an eviction is about can be under another anchor than the one it found only as a copy
(`Traces`). Hence an evicted entry that its key leads to is `Excused`: it is the fresh
anchor of an update whose stale anchor is marked and which has yet to look at that mark.
`Relocate` is the step that can move a key to an evicted entry, and needs that names
correspond and updates take turns; `FreeStale` ends the excuse; the other steps are
instances of one lemma (`TracingStep`). `EvictionsAreLostOnlyToUpdates` follows. An
earlier version of `evicted`, the greatest number that was evicted, does not have this
invariant: with three entries, two of which have the same key under two anchors, evicting
the newer one (which the key does not lead to) says nothing about the older one. The runs
with two entries could not show the difference.

### The node registry

Assumed: a node is silent after two ticks or more (`SilentAgeAssumption`). `StaysAway` says that a
removed node whose removal met no other handler is `Gone` (no record, and nobody is about
to write one) or `Out` (not listed, and the health check does not hold a copy that would
make it list the node). Either may be undone only by a step that the other rules out: a
heartbeat writes a record only if it finds one, and the check lists a node only if it found
it in the list. `RemovedNodesStayAway` follows.

### Only model-checked

- Liveness (`EveryQueueIsServed`, `EveryRequestEnds`, `SilentNodeIsDropped`,
  `ListedNodeRecovers`) is outside what the prover handles. Every other property of a
  passing run is a theorem. That something ends is proved only where a number decreases with
  every step (`MethodsEnd`, `OperationsEnd`, `LoopsEnd`); that the next step is possible
  (`ENABLED`) is left to the deadlock check of the runs.

## Not modelled

- Of the modelled parts: callbacks from disker I/O into its requestor (Rock), in
  particular a requestor that starts an I/O from within a completion; the map operations
  that only Rock and Transients use; kills of kids that hold an anchor's lock (nothing in
  the code recovers such a lock); memory ordering weaker than sequential consistency (the
  code uses the default order everywhere but for the `updating` flag); the layout of shared
  memory; statistics.
- The coordinator and its requests between kids, Transients, Rock: see "Plan".
- Of the control plane: users, quotas and rate limits (`recordUsage()`, the
  read-modify-write across an `await`, has no caller), sessions, outgoing IPs, the tunnel
  with its pool, webhooks, reports.
- The rest of Squid, about 250000 lines: HTTP, FTP, ICAP, ACLs, DNS, authentication, cache
  manager, configuration parser. Nearly all of it parses, formats and passes data through
  one event loop per process; a faithful model would be of the size of the code, and the
  parts of it that are concurrent across processes are the ones listed above. The models
  therefore cover a small share of the repository's lines, and do not aim at a large one.

`PROJECT.json` gives the reason for every component.

## Plan

1. Transients as the second user of `StoreMap`, where the dropped broadcasts of collapsed
   forwarding matter; kills of kids in `StoreMap`.
2. Coordinator, strands and requests between kids: registration and search with
   timeouts, answers after the timeout, a restarted strand.
3. Control plane: the tunnel's connection pool, webhooks.
4. Callbacks in `IpcIoFile`.
