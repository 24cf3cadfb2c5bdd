# A verification of voxy: its server, its network and its client

Voxy is a voxel game in C: a server that keeps a world of chunks and entities
and a client that draws it, joined by a small network library. This directory
holds TLA+ models of what the server and the client do with their state and of
both ends of the network, the TLC configurations that check them on small
instances, and proofs by TLAPS of theorems about the stores, the network, the
players, light, the client's copy, the thread pool and the small modules. File names
below are relative to the repository; the server's own sources are in
`bin/voxy/server/src`, the client's in `bin/voxy/client/src`.

1. [The system](#the-system)
2. [The modules](#the-modules)
3. [The runs](#the-runs)
4. [Fairness](#fairness)
5. [What is proved](#what-is-proved)
6. [Where code and documents disagree](#where-code-and-documents-disagree)
7. [What is not modelled](#what-is-not-modelled)
8. [Plan](#plan)

## The system

The server's main thread runs frames (`main.c`): `on_update` lets the entities
update themselves, moves them, propagates light, reaps I/O and updates the
block and the entity manager; then the events of the network are handled. Next
to it run the network thread of libnet, the workers of the thread pool, the
OpenMP threads of light propagation and, behind io_uring, the kernel.

| Component | State | Operations | Interacts through | What is hard | What makes it correct |
|---|---|---|---|---|---|
| Block store (`chunk/block/`) | table of block groups with dirty flags and neighbour pointers; load and save entries; slot bitmap; terrain jobs; files | set a block, load, generate, flush, unload, send to clients | calls of the frame; io_uring; thread pool; light queues; libnet | I/O in flight over several frames while groups are edited and unloaded; failures; crashes | no edit lost, no stale or double load, no freed memory in the kernel's hands, terrain never over a stored chunk |
| Chunk regions (`chunk/manager.c`) | this frame's list of spheres | reset, add, iterate the major parts, test for a minor part | entities' updates fill it, both managers read it | octants that meet; several regions | each chunk once; nothing unloaded near a player |
| Entity store (`chunk/entity/`) | array of entities with free handles; loaded chunks; three SQLite tables | spawn, despawn, activate a chunk, write, unload, start | the same regions; libnet | a crash between any two statements; handles reused; a loop that frees what it walks | an entity is active or inactive, never both, and survives a crash |
| libnet server (`lib/net/src/server.c`) | request and event queues, eventfd, proxies and their lists, socket buffers | connect, disconnect, acknowledge, send, poll an event | main thread and network thread share the queues | proxies freed by one thread and used by the other; blocking calls | messages in order and once; no request lost; no freed proxy used |
| libnet client (`lib/net/src/client.c`) | the same for one connection | send, poll an event | client's main loop | both ends blocked in send | messages in order and once |
| Thread pool (`lib/core/src/thread_pool.c`) | list of jobs, mutex, condition variable | enqueue, run, stop | the generator owns the jobs | lost signals, exit, jobs freed by their owner | every job runs; the exit ends |
| Ring buffer (`lib/core`) | head, tail, array | push, pop, grow | libnet's queues | growth while wrapped | it is a queue |
| Socket buffers (`lib/net/src/socket.h`) | plain and encrypted bytes in both directions | enqueue, encrypt, send, receive, decrypt, cut into messages | both ends of libnet | every call may move a part | the messages enqueued, whole, in order, none held back |
| Light (`light/light.c`) | queues of updates | propagate, destroy | groups and their neighbour pointers | parallel read-compare-write | the light of a block is the greatest its neighbours propagate |
| Players (`player/`, base mod) | strong and weak counts, avatars, input | connect, log in, move, ask for chunks, disconnect | proxies and entities point to players | three owners; an entity that could be unloaded under its player | freed once, after the last use; the avatar of a player stays |
| Physics (`physics/`) | position, velocity, grounded | swept boxes, contacts, ground | entities, blocks | several contacts a frame, ties | never in a block, never stopped by a floor |
| Client replica (`chunk/`, `camera/`, `render/block/` of the client) | groups with pointers, entities, camera, meshes | apply a message, mesh | libnet client | order of updates and removals; limits per frame | a copy of the server's world, drawn as it is |
| Input (`input/input.c`, `lib/gfx/src/window.c`, `player/`) | keys, buttons, mouse at three places | send changes, accumulate | client to avatar | only changes are sent | the avatar does what is pressed |
| Server process (`main.c`, `chunk/seed.c`) | seed file, signal flag, clock | start, frame, sleep, signal | owns the rest | crash while starting; long frames | one seed for ever; no hurry |
| Coordinates, ray cast, corner light (`lib/math`, `render_info.c`) | none | conversions, ray, average | calls | rounding at negative positions, ties | each block found, nothing skipped |
| Protocol, serialization, SQLite wrapper, registries, build | constant or none | formatting, thin layers | calls | none of their own | |
| Rendering, UI | OpenGL objects | drawing | calls | floating point | |

## The modules

Names follow the code. The comment above each action says which function it
is; `PROJECT.json` gives the lines. Every bound is a constant named `Max...`
in a guard. **Mutants**: a definition `X_Y` is definition `X` with a plausible
bug `Y`; no module uses it. Replacing `X` by `X_Y` must break the property it
is listed with in `PROJECT.json`, which shows that the property depends on
that piece of the code.

A module `XProofs` extends the component's module `X` and proves its theorems;
`PlayersProofs` is also for `EntityStore`, `LibnetProofs` for `LibnetServer` and
`Libnet`, `AlgorithmsProofs` for
`ServerProcess`, `PlayerInput`, `ChunkIteration`, `Coordinates`, `RingBuffer`, `Socket`,
`RayCast`, `Physics` and `MeshLight`. `Lemmas` has what several of them share.

### `BlockStore` (with `ChunkRegions`; abstract: `WorldStore`)

`pc` is the phase of the frame, in the order of `on_update`: *update* (edits by
entities, `SetBlock`, and the regions they ask for), *light* (`LightUpdate`),
*submit* and *reap* (`voxy_block_database_update`), *iterate*, *flush*,
*unload* (the three loops of `voxy_block_manager_update`) and *events*. `todo`
holds the visits a loop has yet to make. The order in which a hash table or a
sphere is walked is left open; regions are taken in the order of the list.

A load or a save is a chain of linked io_uring operations. Its `stage` is what
the kernel does next, so that `KernelLoad` and `KernelSave` can interleave with
every step of the main thread; `KernelFault` makes an operation fail or fall
short at any stage, upon which the rest of the chain is cancelled and the entry
stays for ever (`dead`), as in the code, which only logs. `Restart` ends the
process at any point and leaves the files as they are: *none*, a content, or
`Short`, truncated and not yet written. The load chain's `value` is read when
the kernel executes the read, not when the result is used.

The ids and lights of a group are one `Content`. `links` are the neighbour
pointers, `lit` the groups in the light queues, `told` what a client was last
sent of each chunk. `touched` is a history variable: groups edited after the
kernel took the bytes of the save in flight.

`WorldStore` is what the store promises: a chunk comes into view with what is
stored, or generated if nothing is; it goes out of view only when something is
stored; a failure hides everything. `ImplementsWorld` is the refinement, with
`shown <- content` and `stored <- disk`.

### `ChunkIteration` (with `ChunkRegions` and `Coordinates`)

The nested loops of `iterate_major_chunk`, one action per loop that advances,
against the sphere `MajorVisits` of `ChunkRegions` that the stores use. The
region is the one a player's entity asks for. `Coordinates` holds the integer
conversions between positions of blocks, chunks and blocks in a chunk, with
C's truncating division.

### `Light`

`pc` follows a frame as far as light sees it: *load* (groups are inserted and
unloaded), *edit* (`voxy_set_block`), then `light_update`: *destroy* and
*create* are the tests of its two while loops, *destroying* and *creating*
their parallel regions. `batch` is the queue of the round, and each thread has
in `work` the iterations of the two loops it has yet to make, by the static
schedule; those that return at once, because the neighbour is absent or solid,
are left out of it. A call is as many steps as it makes atomic accesses: the
reads go to `seen`, new updates to the thread's `found`, and the join appends
these to the queues in any order of the threads.

A cell is a block position and a group any finite set of cells, so a slice of two
chunks suffices. What is generated is a constant, a set of terrains with ether
above ether, as `generate_block` of the base mod has it. Groups
that were unloaded return with the light they had; `stale` and `raced` are
history variables that mark the two ways in which the result goes wrong.

### `EntityStore`

The frame as above, with the entity manager's part in detail. Every SQL
statement is a step, so that `Restart` falls between any two of them; a
restart inside the frame's transaction goes back to `saved`, the tables when it
began. `entities` and `orphans` are the allocator's; a handle is an index.
`Move` stands for updates and physics: an entity may be in any chunk
afterwards. SQL errors end the process in the code and are restarts here.

### `Players` (over `EntityStore`)

`Players` decides what `EntityStore` leaves open: `turn` is the handle the loop
of `on_update` is at, `asked` the regions the avatars' updates have asked for,
and each action of the store is taken together with what it does to players.
`opaque` is the pointer in an entity, `count` and `weak_count` are those of the
player, `phase` tells where its connection is; a player whose counts are both
zero is freed. An avatar outlives the process in the database, its player does
not. A client may log in again, which spawns another avatar for its camera to follow;
the old one keeps its pointer to the player. Every step of `Players` is by construction one of
`EntityStore` with the same variables, or leaves these as they were; what has to be
shown of it is that the handles and regions it chooses are ones that `EntityStore`
allows (the lemma `PlayersImplement`), so that what is proved of `EntityStore`
holds of `Players`.

### `LibnetServer` (abstract: `Mailbox`)

Main thread: a libnet call is two steps, `PushRequest` under the mutex and
`WriteEfd`, as other threads may run in between; `calls` are those a handler
still has to make, in the order of `main.c` (acknowledge, send the world,
create the player; or acknowledge, put the player). Network thread: the steps
of one iteration of `handler` in order, `Poll`, the request, `Accept`, each
polled client. A socket is two queues: `outbox` in the process and `kernel`,
of `Room` messages. `SendSome` hands over one message and `SendEnd` needs the
outbox to be empty, because send on a blocking socket returns only then.
The clients here are an environment: they connect, send, read and close at any
time, and what is under way to the server is not bounded. Proxies are not reused: a
freed one stays `"freed"`, so a use after it is visible.

`Mailbox` promises each acknowledged client the messages addressed to it and
the broadcasts from its acknowledgement on, in order and once. It leaves open
what the messages are: one that is sent is the same for all it is addressed to.

### `LibnetClient` and `Libnet`

`LibnetClient` is the same for the client's process: `app` is the place of its
main loop (`init` and `run` of the client's `main.c`), `net` that of `handler`
in `client.c`. It is written for several processes, each variable a function of
the process, and leaves what the kernel holds to its user.

`Libnet` composes the two: `LibnetServer` by `EXTENDS`, its clients replaced by
`LibnetClient`, whose `arriving` is the server's `kernel` and whose `leaving`,
now bounded by `ClientRoom`, is its `inbox`. `HungUp`, the connections whose server
side is closed, is what the client's recv and send see of it. `ImplementsServer`
is the refinement that justifies the environment: every step of the composition
is one of `LibnetServer` or changes nothing there, so that its safety properties
hold of the composition.

### `Socket` (with `RingBuffer`)

What `LibnetServer` and `LibnetClient` take as one queue of messages, byte by
byte: `mwbio`, `wbio`, the kernel's `wire`, `rbio` and `mrbio` are the buffers
on the way, TLS is an external step that makes records. Every call moves as
many bytes as it likes. The messages cut out of the stream go through
`RingBuffer`, the memory, head and tail of `ds/ring_buffer.h`, to the main
thread.

### `ThreadPool`

Workers step between mutex operations; `idle` is the point inside
`pthread_cond_wait` before the worker waits, with the mutex still held. `Spurious`
wakeups are allowed. The main thread is the generator: it enqueues a job, asks
for it again in later frames, frees it once `ready`, and exits at any time.

### `Replica` (with `ChunkRegions`)

The client's one thread: `Frame` moves the camera and meshes, `Poll` applies one
message, until there is none. `groups` with their `neighbours`, the `entities` and
`target` (whom the camera follows) are the tables, `remesh` the flags of groups,
`meshes` what was drawn from. The server is the environment; it sends what
`BlockStore` and `EntityStore` show it to send, and `AvatarStays` of `Players` is
why it does not remove the entity the camera follows.

### The small ones

`PlayerInput` is the way of an input: `keys_down` on the client, what it has
sent, the messages on the way, and the player on the server, with two main loops
that run at any relative speed. `ServerProcess` is the life of the server from
outside its frames: the steps of starting, of writing the seed, the clock of the
frames, signals and crashes at any step. `Physics` is a frame of one entity among
blocks, in exact arithmetic on a grid of `Grain` points to a block; `RayCast` the ray of a click and
`MeshLight` the cells averaged for the corner of a face. `AlgorithmsMC` runs one of
these, of `Socket` or of `ChunkIteration`, chosen at the beginning.

## The runs

Each run finishes in less than four minutes with two workers. "Bounds" says why
the instance is large enough for the interesting cases.

| Run | Checks | Bounds | States |
|---|---|---|---|
| `block_store_frames` | slots, links, light queues, what the client knows; the kernel and live memory, lost edits, `ImplementsWorld` | two adjacent chunks (a pair of neighbours) for one slot and one insertion per frame: slots and limit are both exhausted; one chunk is always asked for, the other asked for, only kept or out of range; two contents; two faults at any stage and a restart at any point: a save can fail, be cut off, and be met by a load of the next life | 1,638,445 |
| `block_store_live` | `ChunksServed`: while at most one group more than slots is held, no chunk starves, although edits never end; `StoreSettles`: once edits end, everything is loaded, unloaded and saved | three chunks for one slot: one group too many, or not, as regions come and go; one id, no fault and no restart | 677,393 |
| `block_store_lost` | a disagreement, see below | one chunk, no fault | |
| `light` | `LightRight`, `LightSettles` | two threads; a hill (a dig meets light from above and from the side: the race) and a tunnel (light fades out across the border of two groups); one edit of a dug or placed block and one unload at any time; levels up to 3, so that light ends within the slice | 464,592 |
| `libnet_server_safe` | queue and eventfd, freed proxies, `ImplementsMailbox` | two connections (one to disturb the other), one broadcast, one input, one message in the kernel; connections are symmetric | 1,787,712 |
| `libnet_both` | the client's queue, delivery in both directions, freeing, `ImplementsServer` | one client: a login and an input, which fit in the kernel (for what happens otherwise see `libnet_blocked`); two messages to it, of which one fits | 85,357 |
| `libnet_server_opaque`, `libnet_blocked` | disagreements, see below | one connection | |
| `players` | tables, memory and clients agree; reference counts; avatars stay; crashes | two players, who may log in more than once, and one other entity, five chunks of which some are out of one another's sight, one restart at any point: the array has a first, a middle and a last element; clients are symmetric | 1,135,745 |
| `client` | pointers, copy, meshes; `MeshesSettle` | two chunks next to each other, one mesh per frame and one message on the way, so that both limits bind; camera positions with both in range, one exactly at the radius and one beyond | 117,824 |
| `thread_pool` | ownership of jobs, no lost wakeup, exit | two workers, two chunks, three jobs: a job is created again for a chunk | |
| `algorithms` | what stands alone | every radius from 0 to 6 on both sides of zero; rooms of a floor and up to two blocks, the player's hitbox of 0.8 x 0.8 x 1.9 blocks on a grid of tenths, flush with the sides of blocks, a tenth over their edges and between, offsets up to one and a half blocks, each way looked at in four places; rays from middles and edges in all directions of five slopes; all 128 neighbourhoods of a corner; four messages shorter and longer than every buffer, a ring buffer that begins with two cells; two inputs on the way; three starts of the server, frames up to three times too long | 85,677 |

Deadlock is checked in all runs but those of systems that end: the loops and
bounded inputs of `algorithms` and the exit of `ThreadPool`.

`ChunksServed` and `StoreSettles` divide between them what the flush loop
guarantees. It gives free slots to dirty groups in the order of the table, and a
group that is edited while its save is under way is dirty again when the slot is
free (`chunk/block/manager.c:180`). With two chunks more than slots, 514 for the 512
of the code, two groups that are edited for ever can take turns at the last slot
and keep a third from being saved: its file stays out of date as long as that goes on.
Hence `ChunksServed` is stated for the case that, from some time on, at most one
group more than slots is held, and `StoreSettles`, for any number of them, from the
last edit on. Neither is claimed once an operation of a chain fails or a restart
cuts a save off: the entry of a failed operation stays in the code's table for ever,
and so does that of a load that finds the file too short.

The overlaps too small to count as standing, below half a thousandth of the hitbox's
width, need a grid of 2,500 points to a block; on it the areas of contacts exceed
TLC's integers. The theorem `SlidesAlongFloor` covers them.

Safety properties are stated for every reachable state, so a run without
faults is part of a run with faults. The hazards each property is for are in
`PROJECT.json`.

## Fairness

`BlockStore!FairSpec`: the main thread never blocks, so `MainLoop` is weakly
fair; the kernel completes what was submitted and the pool runs its jobs (the
latter is what `ThreadPool` shows). Edits, clients, faults and restarts are not
fair.

`Libnet!LibnetSpec`: the two threads of the server and of each client are weakly
fair, since none of them waits but in poll and in send, which the guards state.
Connecting and the login are steps of those threads; sending input, closing the
window and the server's broadcasts are not required to happen.

`ThreadPool!FairSpec`: weak fairness for each thread, and strong fairness for
`Lock`, since a thread that waits for the mutex finds it taken in between by
others; POSIX leaves this to the scheduler, and the critical sections here are
a few instructions.

`Light!FairSpec`: the rounds of propagation are fair, as the main thread waits for
nothing but its OpenMP threads, which take their steps without locks.

`Replica!Spec`: `MainLoop` is weakly fair: drawing and polling do not block. The
server owes nothing; `MeshesSettle` begins when it has become quiet.

## What is proved

TLAPS checks the theorems of the eight proof modules for every value of the
constants that meets the assumptions named in the modules. The 45 results are
listed in `PROJECT.json`; an invariant is seldom inductive alone, so what follows
says what was added to make it so.

**Block store** (`BlockStoreProofs`). Assumed are that contents, *none* and the
truncated file differ (`ContentAssumption`), that chunks are integer vectors
(`VectorAssumption`) and that a chunk an entity asks for is one that is kept
(`RegionAssumption`: the base mod's radii are 10 and 15).

- `StoreInv` is `SaveReadsLiveGroup`, `LoadOnlyUnloaded`, `LoadFresh`,
  `GenerateOnlyNew`, `CleanMeansSavedUnlessTouched` and what these need. A save
  must have a live group, which needs that the unload loop finds the group dirty,
  which fails if a completed save survived the flush loop of its frame: hence
  `DoneInFrame`. That a clean group is what its file holds needs the bytes of the
  save before the flag is cleared, `SavedBytes`; that a load is fresh needs that no
  save of its chunk runs; that terrain is generated only where there is no file
  needs `LoadUnread` for the missing file.
- `SlotsExact` is inductive over `StoreInv`: an entry keeps its slot from its
  submission to its last stage, and a failed one for ever.
- `PointersLive` needs `LitKept`: what the light queues hold when the unload loop
  comes was asked for in this frame and is kept in it. The rest is geometry:
  adjacency goes both ways (`AdjacentFacts`).
- `ToldCurrent` is inductive over `TypeOK`.
- `ImplementsWorld`: `WorldStep` maps each step to one of `WorldStore` or to none.

**Entity store** (`PlayersProofs`), with `RegionAssumption` and
`NoneAssumption`. `StoreInv` says where the server can be in the middle of
something (`PlaceRight`), that free handles are the dead cells and appear once
(`ArrayRight`), that the active rows are those in memory or on the way there
(`MemoryRight`), where a row is between the two statements of a spawn or of an
unload, that an inactive row is filed under its own, unloaded chunk (`RowsRight`),
and that the state a crash goes back to is consistent and has the same entities
(`SavedRight`). From it follow `TypeOK`, `TablesExact`, `ToldHandles` and
`KeptByRestart`, of which the last is an action property.

**Players** (`PlayersProofs`). Assumed are that any regions the avatars ask for, one
each, are among the lists (`AskAssumption`), and that a region covers the
chunks an avatar can be in after its frame (`ReachAssumption`); the lemma
`ReachFromFour` proves the latter for every radius from 4 on, and the code's radii
are 10 and 15. `OwnInv` relates phases, counts and avatars (`OwnRight`), shows that
there are no more regions than clients (`CountRight`), and follows an avatar
through the frame (`ReachRight`): its update asks for a region, the move leaves
it in reach of that, the load loop visits what is in reach, the unload loop keeps it.
`PlayersLive` and `AvatarStays` follow, and, with the lemma `PlayersImplement`,
everything proved of `EntityStore` (`PlayersAgree`).

**libnet server** (`LibnetProofs`). `ServerInv` speaks of `Requested`, the requests in the
queue together with those the main thread is about to push, so that a call between
its two steps changes nothing. It says where the two threads can be
(`PlaceRight`), that events and requests are about allocated proxies (`AboutLive`),
that a connection is the first and a disconnection the last that is said of a
proxy (`ConnectedFirst`, `DisconnectedLast`), and which proxies have a player
(`PlayersRight`, `TaskRight`). Hence `TypeOK`, `EfdCounts` and `ProxiesLive`.
`Conserved` and `ImplementsMailbox` need `MailRight`: what p has received, what the
kernel and the outbox hold, and the messages for p in the request queue
after its acknowledgement, are together what was sent to it (`Carried`). `Messages`, which
collects messages from the queue, is a recursive function; what it yields when the
queue grows or shrinks is proved by induction on sets of numbers.

**libnet, both ends** (`LibnetProofs`). Assumed is that there are finitely many
connections and that what their clients may send is within the bound that
`LibnetServer` sets its environment (`ClientAssumption`). `ClientsInv` has the
client's `TypeOK` and `EfdCounts`, says where the two threads of each process are
(`ClientPlace`: before it has connected, the server has nothing of it), and that
`inputs` is the number of messages handed to the kernel. With it each step of a
client is one of `LibnetServer`'s or leaves it as it was, hence
`ImplementsServer`: the theorems about the server hold with these clients.
`InputsConserved` is then an account like `MailRight` in the other direction
(`InputsInv`), over the connections whose two ends are there; a connection that
is gone never comes back (`ThereBefore`).

**Light** (`LightProofs`). Assumed are that groups are finite, disjoint sets of positions
(`GroupAssumption`), that there is nothing but ether above ether in what is
generated (`TerrainAssumption`), and that there are a thread and a level
(`TeamAssumption`). `LightRight` speaks of the end of light_update only; what
`LightInvariant` says in between is, of each pair of neighbours,

- that a cell has at least what the other passes on, or the other is yet to be
  spread in this direction, or is going to look at the cell from the other side
  because that has lost its light (`SpreadRight`), and
- that a lit cell has exactly what some neighbour passes on, or less of it, which
  is yet to be spread, or has what a neighbour passed on before it lost its light,
  which is yet to be taken away (`SupportRight`).

"Yet to" is `ToSpread` and `ToRemove`: an update in a queue, an iteration of some
thread or a find of one. What a thread has read may be out of date when it stores;
`SeenRight` says how far: another thread has noted the change, or has stored the same.
Both facts hold until a thread overwrites brighter light or a group comes back out of
date. When the queues are empty nothing is "yet to", so levels are at least and at most
what is `Given` (`DeterminedWhenSettled`). The neighbour that supports a cell may
be in a group that is away, hence `Known` and the condition on `away` in `LightRight`.
`Joined` concatenates what threads have found; that it has these updates and no
others is proved by induction over the threads.

**Client replica** (`ReplicaProofs`). `LinksExact`, then over it `MeshFresh`. `CopyFollows`
is inductive with `FollowRight`: the camera message is sent once, its entity is alive
when the message is taken, and no removal of it is behind the message.

**Thread pool** (`ThreadPoolProofs`). `PoolHoldsLiveJobs` needs that a job that is
not ready is in one place only: in the pool, or with one worker (`EachInOnePlace`).

**Small modules** (`AlgorithmsProofs`). `NotHurried`: the hurry is at most `Dt` less
what the compensation still takes away. `OneSeed`: the name on disk is that of the first
complete file, whatever part of a later one is written. `InputFollows`: the sums of the
mouse's motion over the messages on the way.

- `SphereVisitedOnce`: at any time the chunks called for are those whose
  magnitudes come before `offset` in the order of the loops, in all their mirror
  images (`IterationInv`); a magnitude has one mirror image per choice of signs,
  as the axes it lies on are skipped.
- `BlocksFound` assumes that positions are integers and the width of a chunk is
  positive. A block has one chunk and one place in it, as a number has one
  quotient and remainder (`OneQuotient`), and the truncating conversions yield it.
- `RayInBlock` assumes that a block is an even number of units wide, that a ray
  starts at whole units and that its direction is not zero. `RayInv` says that the
  ray is in the block at `since` and moves on inside it or along its boundary; the
  next step is taken at the earliest time at which it leaves the block on an axis.
- `NoOverlap` assumes that the entity has a size, that a block is an even number of
  grid points wide and that all lengths are whole ones of the grid, which may be as fine
  as one likes; nothing is assumed of the blocks or of how far a frame goes. It speaks of
  the whole way of a frame, of each k-th of `Instants` parts of it, for every `Instants`. A
  block that the box overlaps somewhere on the way, and does not at its start, is
  among the contacts (`NoContactIsApart`), so the way of an offset without contacts is
  free; an impulse leaves less of the offset on one axis and as much on the others
  (`ContactFacts`), so a frame ends in such an offset. `Resolved` is a function
  recursive over offsets: that it exists is shown with the least set of offsets
  that is closed under impulses (`Led`), and what it says of an offset by
  induction on the offset's length.
- `SlidesOnFloor`: the entity touches the tops of the blocks under it at once and with
  an area. The edges between them are touched at once too, without an area, so the
  contacts in `First` are tops, their impulse takes the downward part of the offset
  away, and what is left meets nothing. The test for the ground looks at a box that is
  narrower by a thousandth (`physics/physics.c:117`), so an entity
  that hangs on an edge by less slides as well, but is not grounded: `Stands` says how
  much is needed, and `NearestFacts` that roundf finds the block then.
- `Reassembled` assumes that NULL is not a buffer. `SocketInv`: the messages there,
  then `mrbio` and what is on its way (`OnTheWay`) make up the stream of all messages
  enqueued. What follows k messages in that stream begins with the size of the next
  one, so the loop over a buffer cuts there (`Cut`), and stops only with less than a message
  left (`NoneLeft`). Sizes of messages, headers, receives, records and of the kernel's buffer
  are arbitrary.
- `CornerLight`: of cells with a face in common the farther one differs in one
  coordinate, so what light reaches in one, two and three steps is what the nested
  conditions count.
- `RingBuffer`: `Push` appends to `Elements` and `Pop` takes their head
  (`PushAppends`, `PopTakes`), at every capacity, full and wrapped around or not.
  The initial capacity is a power of two up to 64, and NULL is not a buffer.

`Lemmas` holds what several of these need about numbers and sequences. The library's
induction theorems take an operator as parameter, which the provers cannot
instantiate. Induction is here in the form `SetInduction`: a set of numbers
that has 0 and with n also n + 1 has them all.

Only model-checked:

- Liveness and ENABLED, which are beyond the prover.

## Where code and documents disagree

Three runs are expected to find a violation.

- `block_store_lost`: an edit made while the group's save is under way is
  dropped, because the flush loop clears `disk_dirty` when the save completes
  (`chunk/block/manager.c:185`). The invariant that does hold is
  `CleanMeansSavedUnlessTouched`: this is the only way to lose an edit short of
  a fault or the end of the process.
- `libnet_server_opaque`: the acknowledgement that allows a proxy to be freed is
  sent before its opaque pointer is read (`main.c:125`).
- `libnet_blocked`: neither the accepted nor the connected socket is made
  non-blocking (`lib/net/src/server.c:362`, `client.c:163`), contrary to the
  comments in `socket.h`. When both ends have more to send than the kernel
  takes, each network thread waits in send for the other to read. The clients of
  this run do all that the code does and close nothing.

Several properties name further cases that the code does not handle.
`LightRight`: the comparison and the store of `process_light_creation_update`
are two atomic accesses, so that of two threads that light the same block the
dimmer may come last (`light/light.c:238`); it is not repaired, since only the
dimmer light is spread further. And a group that comes back lit at its border is
not brought up to date with what changed while it was away
(`chunk/block/manager.c:153`). `bin/voxy/server/include/voxy/server/chunk/block/manager.h`
says that light "is determined by block info in block registry and light
propagation rules".
`ExitsUnlessMissed`: a worker between its test of `thread_shutdown` and
`pthread_cond_wait` misses the broadcast at exit. `OneState`: a spawn is two
statements outside a transaction (`chunk/entity/database.c:93`), and a kill
between them leaves a row in neither state, which is never loaded again; so
that a row is in one of the two states is stated until the first kill.

Seen while reading, and not the subject of a run:

- `is_minor_chunk` compares every region with the first region's minor radius
  (`chunk/manager.c:72`), where `manager.h:15` speaks of any region. The base mod
  asks for regions of one size only, and so do the models.
- The client: an update of a group marks its six face neighbours, though a mesh
  also reads the groups at edges and corners; a removal marks nothing; a mesh
  exactly at the radius on an axis is kept but never built again. `MeshFresh` is
  stated of what is left. Corner light looks only at the block's own face, so
  two coplanar neighbouring faces may disagree about a corner they share.
- A reused handle keeps the velocity and the grounded flag of the entity that had
  it before (`chunk/entity/allocator.c:15`). `voxy_entity_manager_start` spawns its
  entities at every start, so the world gains them each time.
- `voxy_player_create` leaves the mouse buttons uninitialised; a click pressed and
  released between two frames of the server is not seen. Both shift keys share
  one bit of `input_states` (`lib/gfx/src/window.c`), so releasing one of them while
  the other is held counts as a release; and as a mouse position is measured from
  the lower edge of the window, a change of the window's height counts as motion.
- Any failure to read the seed file, not only its absence, makes up and writes a
  new one. A signal that does not interrupt the sleep is noticed only by the next
  one that does. The wall clock that is set back makes one sleep long
  (`lib/core`, `time.c:10`).
- `read_all` (`lib/core`, `fs.c`) does not end if a read returns 0, which
  needs a file that shrinks while it is read; `mkdir_recursive` fails for absolute
  paths. The README's command line for the programs lacks arguments they require.

## What is not modelled

Rendering, UI, terrain noise, matrices and transforms are floating-point
computations or OpenGL calls without a state of their own. Protocol,
serialization, the SQLite wrapper and the file helpers are thin layers whose
errors end the process; registries are filled at start. Build scripts and tools
run at build time. TLS is external: `Socket` models what goes in and out of it,
not its own failures. In `Physics` and `RayCast` arithmetic is exact, so what
rounding of floats does (the factor 1.0001, the FIXME beside it) is not seen.
Gravity and drag only choose the offset of a frame, which is open there.

More than half of the repository's 25,943 lines are vendored (`stb_image.h`,
`stb_ds.h`, `glad`, `khrplatform.h`). Of the others the definitions here stand for
about 3,400; what is left is mostly drawing, fonts, noise, matrices, the build, the
layouts of messages and headers.

## Plan

The modules planned are written, and every invariant and step property that a
passing run checks is also proved for every value of the constants; liveness stays with
TLC. What could be added, in this order:

- the two hazards without a property in `PROJECT.json`, the fields a reused entity
  handle keeps and a signal outside the sleep of the main loop;
- the geometry of `mesh.c` and the noise of the terrain, which need floating point.
