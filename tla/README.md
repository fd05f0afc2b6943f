# A verification project for zig-chipmunk2d

The repository holds the C sources of the Chipmunk2D rigid-body engine
(`src/chipmunk2d/`), which `src/build.zig` compiles, and a port of it to Zig
(`src/src/`). This directory models the parts of both in which bookkeeping
rather than arithmetic decides: what happens to bodies, arbiters, contacts,
callbacks, threads, spatial indexes, masses, impulses and outlines over many steps. The modules are TLA+; TLC checks them on
small worlds and TLAPS proves what is said to be proved below.

Paths in this file are relative to `src/`.

## 1. The system

| Part | Source | State it keeps | Operations | What makes it correct |
|---|---|---|---|---|
| Space and step | `chipmunk2d/src/cpSpace.c`, `cpSpaceStep.c` | lists of awake and static bodies, two spatial indexes, the joints, this step's arbiters, the arbiter cache, `stamp` | `cpSpaceStep()`, add and remove of bodies, shapes, joints, setters | lists and indexes agree with what sleeps; `begin` and `separate` alternate |
| Contact graph and sleep | `cpSpaceComponent.c` | `arbiterList` of each body, `sleeping.root/next/idleTime`, `sleepingComponents`, `rousedBodies` | `cpSpaceProcessComponents()`, `cpBodyActivate()`, `cpBodySleepWithGroup()` | bodies sleep and wake by islands, none is lost, nothing saved for sleepers leaks |
| Contact buffers | `cpSpaceStep.c` | a ring of buffers with time stamps; pointers into them from arbiters | fresh buffer, push, pop, save and restore | a buffer is reused only when nothing points into it |
| Lock and post-step queue | `cpSpaceStep.c` | `locked`, `skipPostStep`, `postStepCallbacks` | lock, unlock, schedule | each callback runs once, in an unlocked space |
| Threads | `cpHastySpace.c` | `num_threads`, `num_working`, `work`, a mutex, two condition variables | run workers, set threads, free | no race with the game, no missed wakeup, all calls return |
| Collision handlers | `cpSpace.c`, `cpArbiter.c` | a table by pairs of types, wildcards | add, look up, call | order of types, swapped arguments |
| Hash set | `cpHashSet.c`, `prime.h` | chains, pooled bins | insert, resize, remove, filter, each | it holds what was put in; filtering while callbacks look things up |
| Arrays, iterators | `cpArray.c`, `cpSpace.c` | `dynamicBodies`, `staticBodies`, `sleepingComponents`, `rousedBodies`; an index into one of them | push, delete, `cpSpaceEachBody()`, `cpSpaceDestroy()` | each body is met once while the function wakes others |
| Spatial indexes | `cpBBTree.c`, `cpSpaceHash.c`, `cpSweep1D.c`, `cpSpatialIndex.c` | tree with cached pairs; cells with handles | insert, remove, reindex, query | each overlapping pair is reported, and once |
| Queries | `cpSpaceQuery.c` | none | point, segment, box, shape | nearest and first answers, filters |
| Shapes, bodies | `cpShape.c`, `cpPolyShape.c`, `cpBody.c` | mass and lists | add and remove mass, types | sums stay right |
| Joints | `cpConstraint.c`, `cp*Joint.c`, `cpDamped*.c`, `cpSimpleMotor.c` | the accumulated impulse, the bias, the state of a limit | `preStep`, `applyCachedImpulse`, `applyImpulse`, setters | the impulse stays in its limits and is what the bodies got |
| Narrow phase | `cpCollision.c` | floating point | | |
| Geometry tools | `cpPolyline.c`, `cpMarch.c`, `chipmunk.c` | a set of polylines; an array of points and hull | march, collect a segment, convex hull | outlines whole, hull right |
| Zig space | `src/space/*.zig`, `src/collision/*.zig` | lists, `arbiter_cache`, union-find | as above, simpler, without a lock | as above |
| Zig indexes | `src/spatial_index/*.zig` | a balanced tree, a grid, a sorted array | as above | as above, and a sound tree |
| Zig extras | `src/extras/*.zig` | a queue of jobs, polylines | dispatch, resize, join | each job is done once |

How the parts interact. `cpSpaceStep()` (a) resets last step's arbiters, (b) locks
the space, moves the bodies and lets the dynamic index report overlapping pairs to
`cpSpaceCollideShapes()`, which calls the user's `begin` and `preSolve` and
writes contacts into the ring, (c) unlocks, which activates the bodies roused by
callbacks, (d) rebuilds the contact graph, wakes what is touched and puts idle
islands to sleep, (e) locks again, filters the arbiter cache, which calls
`separate`, solves, calls `postSolve`, and (f) unlocks with post-step callbacks.
Everything runs on the game's thread except the solver of a `cpHastySpace`.

What is hard about it:

* User code runs in the middle of (b), (e) and (f), and between steps, and can
  wake bodies, lock the space again and schedule callbacks at each point.
* Waking a body while the space is locked is done in two halves.
* The same pair of bodies is recorded in up to five places (this step's list, the
  cache, two `arbiterList`s, the buffer, a saved copy), each with its own rule for
  when it is dropped. The age of contacts is compared with the same number,
  `collisionPersistence`, at two places, with `>` and with `>=`.
* Sleeping arbiters do not age, everything else does.
* The threads of `cpHastySpace` share two words without holding the mutex.

PROJECT.json lists these and others, each at its line, under "hazards".

## 2. The modules

### SpaceStep: the core

One variable for each list or field that decides anything: `dynamicBodies`,
`staticBodies`, `dynamicShapes`, `staticShapes`, `root` (`body->sleeping.root`),
`sleepingComponents`, `idleTime`, `rousedBodies`, `constraints`, `arbiters`,
`cached` (`space->cachedArbiters`), `threaded` (linked in `arbiterList`s) and
`arb`, the fields of each pair's arbiter. `touching` is what overlaps; `begun` and
`broken` are history: the pairs the user was told of, and the internal contracts
(assertions, what is freed, what is pushed) that failed. After a failure nothing
moves, as the program would have aborted.

| Code | Action |
|---|---|
| `cpSpaceStep()` up to the narrow phase | `StepBegin` |
| `cpSpaceCollideShapes()`, `cpArbiterUpdate()`, `begin`, `preSolve` | `CollideShapes`, once for each overlapping pair |
| `cpSpaceUnlock()`, idle timers | `EndNarrowPhase` |
| one turn of the loop over the arbiters, `cpBodyPushArbiter()` | `PushArbiter` |
| kinematic ends of joints | `HoldJointed` |
| flood fill, sleeping | `ProcessComponents` |
| `cpSpaceArbiterSetFilter()` for one arbiter, `separate` | `FilterArbiter` |
| solver, `postSolve`, last unlock | `StepEnd` |
| the calls between steps | `BodyActivate`, `BodySleepWithGroup`, `BodySetType`, `SpaceSetGravity`, `SpaceAdd...`, `SpaceRemove...` |

The order in which the loops visit arbiters is left open, so that all orders are
checked. Time is counted in steps; `idleTime` stops at the threshold and ages one
above the persistence. Which pairs overlap, which bodies move fast and what the
callbacks answer are inputs. A pair overlaps only if one of its bodies is awake or
it did before: nothing else moves. Callbacks wake at most one body each.

The constants `WakeFrom` and `Careless` say how the game behaves.
`WakeFrom` holds the callbacks that call `cpBodyActivate()`. The passing runs leave
out `"narrow"` (`begin` and `preSolve`), because waking a sleeping body there
breaks the contact graph (run `f_wake`). `Careless` lifts two preconditions that the
code does not check and that the passing runs need:

* `"sleep"`: `cpBodySleep()` of a body that touches or is joined to an awake one.
  The flood fill then meets a body of another component
  (`cpSpaceComponent.c:205`).
* `"type"`: `cpBodySetType()` of a sleeping body, or of one that a sleeper rests on
  or is joined to. The type is changed before `cpBodyActivate()` looks at it, which
  then does nothing (`cpBody.c:158-180`): the body sleeps on under its new type and
  waking its component fails the assertion at `cpSpaceComponent.c:31`. What rests
  on a static body is not woken at all: that call is commented out
  (`cpBody.c:178`).

Likewise a body is removed only after its shapes and joints (the assertions that
said so are commented out, `cpSpace.c:548-549`), and the sleep threshold and the
persistence of a running space stay as they are. A threshold of 0 belongs to the
model and is covered by the type theorem, but not by the runs nor by the other proofs: with a kinematic body
it trips the assertion at `cpSpaceComponent.c:85`.

### SleepingIslands: what sleeping promises

The abstract specification: a set of islands. Islands of awake bodies fall asleep,
islands wake as a whole, a body may be put to sleep with an island. `SpaceStep`
implements it with `islands <- {Component(b) : b \in Asleep}` (property
`SleepsByIsland`); a body roused in a locked space counts as awake.

### ContactBuffers

The ring in detail: `cpSpacePushFreshContactBuffer()` (`Fresh`),
`cpContactBufferGetArray()` (`Roomy`), push and pop, the filter, and the saving and
restoring of contacts when bodies sleep and wake. Stamps wrap around at
`StampRange`. An arbiter's contacts are the place where they were written and the
stamp the buffer had then, so that reuse shows. `cpSpaceArbiterSetFilter()` keeps an arbiter
whose bodies are static or asleep however old it is, with its pointer (`ArbiterSetFilter` is
given the arbiters that rest). If its contacts were not saved, because it had stopped touching,
the buffer they are in may be used again meanwhile. Such a pointer is `rested`, and the
properties say nothing of it: they speak of the `Current` arbiters, the others in a buffer. Run
`f_contacts` shows what follows from a rested one. The two arbiters of the run are
interchangeable (`AlikeArbiters`). `SpaceStep` keeps only the age of a
buffer (`bufAge`) in its place. Only raising `collisionPersistence` between steps is
modelled: lowering it lets the ring use a buffer again that an arbiter, kept under
the old value, still points into.

### PostStep and PostStepOnce

The lock, the queue and the loop over it, which is re-entrant: `UserRuns` says when
user code has control, and then it may schedule, lock, unlock and wake. The
abstract `PostStepOnce` says that each callback that was scheduled runs once, and
none inside another; `RunsOnce` is the refinement.

### HastyThreads

A program counter for the main thread and each worker; what a thread does between
locking the mutex and unlocking or waiting is one action, and the unlocked accesses
to `work` and `num_working` are actions of their own. `num_working` is an unsigned
long and wraps. The model assumes that no wakeup is spurious. POSIX allows them, and
the code waits without a loop (see the end of section 3).

The game's thread accesses the words in actions of their own too; a call of a NULL
`work` ends in `"crash"`, from which `RunWorkers()` never returns.

### ZigHasty

The same for `extras/hasty_space.zig`, which works otherwise: a `JobQueue` of ranges,
taken from its end by workers that loop around their waits. A critical section is an
action; waits may end for no reason; `push()` may find no memory, and then the main
thread does the job. The threads of a resize can always be had: the failing allocation or
spawn of `hasty_space.zig:262-266` is left out (see the end of section 3). `MCHasty` runs one of the two in each behaviour.

### SpatialIndex, BBTree, SpaceHash, Sweep1D, ZigIndex, SpaceQuery

`SpatialIndex` is what a space expects of an index, with the events that come from the
space: a shape enters the static or the dynamic index, leaves it, moves, and pairs are
asked for. Boxes are intervals: the second axis decides nothing that the first does
not. The calls of the pair function are a bag, so that a pair reported twice shows.

* `BBTree`: both trees with their nodes, fat leaves that lean the way they move,
  stamps, and the bag of cached pairs; `SubtreeInsert`, `SubtreeRemove`, `MarkSubtree`,
  `LeafUpdate`, `LeafAddPairs`, reindexing of one, of all and of the static shapes,
  `cpBBTreeOptimize()`.
* `SpaceHash`: handles with their counts and their pool, cells that share slots,
  orphans, stamps, rehashing, the two loops of `cpSpaceHashReindexQuery()` cell by cell, and
  the cells that a segment visits. `Link` and `Unlink` put bins in and take them out of any
  cells at once; only the order in which freed handles reach the pool is lost by that.
* `Sweep1D`: the table, its deletion by the last cell, the sort, with every order that
  `qsort()` can leave equal bounds in, and the two loops of `cpSweep1DReindexQuery()` cell by
  cell.
* `ZigIndex`: the port's tree with its rotations and fat margin, its grid, its sorted
  array, replacing one by another, and the broad phase that asks both indexes.
* `SpaceQuery`: on top of `BBTree`, point, nearest point, segment, first segment, box
  and shape queries with filters and sensors.

`Careful` leaves out what is known to lose or repeat pairs; each place says what:

* `cpSpaceReindexStatic()` while there are dynamic shapes: `cpBBTreeReindex()` marks the
  leaves of the static tree only, and drops pairs with dynamic leaves that stay in
  their boxes (`cpBBTree.c:656`).
* A query made by the callback of another one on a spatial hash: the inner one advances
  the stamp by which the outer one knows what it has seen (`cpSpaceHash.c:366`).
* `cpSpaceHashResize()` with shapes in it: it empties the table and does not fill it
  (`cpSpaceHash.c:555`), so nothing is found until the next reindexing.
* A segment to the left that starts on the border of a cell: the first cell is passed
  over (`cpSpaceHash.c:508`).
* A static shape moved in a sweep: its index is never sorted or updated again
  (`cpSweep1D.c:162`).
* The result of `cpSpaceShapeQuery()` when sensors are touched: it is that of the last
  shape met (`cpSpaceQuery.c:227`).

Not modelled: the inner loop of a sweep reads the bounds of the cell behind the last one before
it looks at the count (`cpSweep1D.c:225`), which is past the end of a full table; and the stamp
of a tree that wraps around.

### HashSet

`cpHashSet` with its chains, the pool of bins that grows by buffers, insertion, removal and
resizing to the next prime. The loops that go through the chains take a step for each bin:
`ResizeStep` moves one from the old table into the new one, `FilterBin` is one call of the
callback of `cpHashSetFilter()` (or of `cpHashSetEach()`, where all stay), which may look
elements up; `FilterNext` goes to the next slot. `due` is history: what the callback was not
shown yet. That a callback of the filter inserts (the user's `separate` cannot: the space is
locked) is not modelled.

### Iteration

`cpSpaceEachBody()` in a locked space, one call of `func` at a time (`CallDynamic`,
`CallStatic`, `CallSleeping`); `func` wakes any body. The lists are sequences here, because
`cpArrayDeleteObj()` moves the last element into the gap (`DeleteObj`), under an index that
goes on. A component is the chain of its root; the successor is read before `func` is
called, and waking cuts the chain and puts its bodies into `rousedBodies`. Between two
iterations bodies come, go, sleep and wake. `cpSpaceDestroy()` is the same walk with
`cpBodyActivateWrap()` as its function; since that wakes each body it is called for, its
loop over the components passes over every second one, as that of `cpSpaceSetGravity()`
does (run `f_gravity`); the space is freed then.

### CollisionHandlers

One pair of shapes through its life, and the handlers that are added meanwhile: lookup,
the default handler that is one struct of the space and is overwritten, wildcards, and
the swapping of arguments. `HandlersKept` says that handlers and types change only while
no pair touches. Without it the arbiter keeps handlers it found earlier
(`cpSpace.c:388`), and one begun before the first default handler was added calls
through a null `handlerA` (`cpSpace.c:385`).

### BodyMass

A body on a line, its doubly linked list of shapes, `cpBodyAccumulateMassFromShapes()`,
the centre of gravity, `p` and the transform. The loop that adds up the masses takes a step
for each shape (`Accumulate` begins it, `AccumulateShape` and `AccumulateEnd` go on), in which
no other operation is possible. Lengths are multiples of `Unit`, which every mass a body can
have divides (`BodyMassAssumption`), so that its centre of gravity is always an integer.

### Joints

All ten constraints along one axis, in integers with an inverse mass of 1: the parameters
their constructors set (`PinSet` to `DampedRotarySpringSet`: distances or angles `min` and
`max` from `Limits`, a goal, as rest length, rate, ratio or phase, from `Goal`) and the
setters that change them between steps (`SetParameters`, `SetRatchet`, `SetMaxForce`); on
the solver's side, what `preStep()` computes and resets, the warm start, and the clamps of
`applyImpulse()` in `Iterations` turns. Distances and velocities are inputs, and so is each
step's `dt`. The warm start pushes the sum of the last step times `dt_coef`, the quotient of the
two `dt` (`DtCoef`, and 0 in a space's first step); what is pushed is therefore counted in
halves of an impulse. `applyCachedImpulse()` leaves the sum as it was: if `dt` changed, the
bodies got more or less than `cpConstraintGetImpulse()` tells, by the last step's sum times
`dt_coef - 1` (`Unsaid`), which no clamp ever sees. The property says that this is
the only difference, and what the clamps promise of the rest. Two things
are left out of the property and named in its comment: a pin, slide or damped spring whose anchors
coincide (`coincide`) adds up impulses for which it has no direction, and the damped rotary spring adds its damping
with the wrong sign to what `cpConstraintGetImpulse()` returns
(`cpDampedRotarySpring.c:68`).

### ZigSpace

The port's space and stepper, in one record. A step goes through `BroadPhase`, one
`QueryPairs` for each shape an index reports (in any order within a query), which keeps or
makes the entry in `arbiter_cache`, `ProcessComponents` with its union-find over arbiters
and constraints, `WakeNext` for each sleeper that should not sleep, and
`PruneArbiterCache` with its `separate`. `touching` holds the pairs that overlap in the step,
whether the step looked at them or not, and `slept` the bodies that slept when it began:
`queryPairs()` passes over two sleepers (`PassedOver`). When one of two that lie on each other is woken
later in the step, the other may go on sleeping (`space_step.zig:230`; see `f_zig`). `ZigSleepTogether`
therefore speaks of what arbiters and constraints hold together, and of every body that
*falls* asleep: all that it touches sleeps too, unless a handler refused the contact
(`Refused`). The stepper is the space's own: that of the Zig `cpHastySpace` links arbiters into
the lists of bodies (`attachArbitersToBodies()`, `space.zig:746-800`), through which
`activate()` would wake neighbours; it is not modelled. `removeBody()` is `RemoveBody` and one
`RemoveShapeOfBody` or `RemoveJointOfBody` for each round of its two loops; `phase` says which
loop runs, and no other action is possible meanwhile. `ZCareful` leaves out
`removeBody()` with a constraint at the front of the list, where an unsigned index goes
below zero (`space.zig:331`), or with both of the first shapes, where one is passed over,
and `setType()` of a body that sleeps or has shapes, which
does not move them to the other index (`body.zig:49`).

### Outlines and ConvexHull

`Outlines`: `cpMarchCells()` with its buffer of one row, the sixteen cases of the soft
and of the hard march, and `cpPolylineSetCollectSegment()`, in C (the last line moves
into the place of the joined one) and in Zig (the others keep their order). Samples are
below, at or above the threshold. `ConvexHull`: `cpConvexHull()` as it works, in one
array that holds first the points and then the hull, with tolerance 0.

`MCEngine` runs `ContactBuffers`, `HashSet`, `CollisionHandlers`, `BodyMass`, `Joints`,
`ZigSpace`, `Outlines`, `ConvexHull` and `Iteration`, one in each behaviour, since they share no state.

Operators marked `(faulty: ...)` are variants of the definition below them with a
plausible mistake. PROJECT.json pairs each property with one that it catches.

## 3. The runs

The worlds of `MCSpaceStep` have the ground and two bodies, enough for an island of
two, for a body that rests on another, and for a contact that links a sleeping with
an awake body.

| Run | World and bounds | Properties |
|---|---|---|
| `stack` | d2 on d1 on the ground; persistence 2, threshold 1; the game activates, sleeps, adds and removes bodies and shapes | `TypeOK`, `NoInternalError`, `ActiveArbiterSound`, `SavedIffDetached`, refinement `SleepsByIsland` |
| `rig` | the same, d2 also hangs from the ground, the ground being the joint's first body; persistence 1; joints come and go, types and gravity change | `BodyInOnePlace`, `ShapeIndexFollowsBody`, `ComponentsClosed`, `JointListedIffAwake` |
| `sensor` | d1 carries a sensor that meets the ground; persistence 2; shapes come and go; fair | `BeginSeparateAlternate`, liveness `RousedAwake`, `SeparateFollows` |
| `post_step` | three keys, one body, nesting 2, a queue of 5 | `QueueConsistent`, `CallbacksUnlocked`, `NoBodyInLimbo`, `KeyOnce`, `RunsOnce`, liveness `ScheduledRuns` |
| `hasty` | C: up to three workers, the counter modulo 8; Zig: up to three workers, dispatches of up to five items | `WorkersQuiet`, `EachRunsOnce`, `NoThreadLeft`, `ZigJobsOnce`, liveness `CallsReturn`, `ZigCallsReturn` |
| `indexes` | three shapes of width 10 at three places, a fourth in a Zig tree; five operations, each a change, a move or a broad phase (queries and rearranging cost none) | `ReportsOnce`, `HashExact` (`HandlesCounted` and `HashReportsOnce`), `QueriesFind` (with the cached pairs, `CacheExact`, and the Zig nodes, `ZigTreeSound`), `SweepReportsOnce` |
| `engine` | see below | one or two properties for each part |

The parts of `engine`:

| Part | Bounds | Properties |
|---|---|---|
| buffers | two arbiters of up to two contacts, any of which may rest; buffers of 3, at most 3 buffers when contacts are added, stamps modulo 10, persistence 1 raised to 2 | `ContactsSafe` (`ContactsIntact` and `NoOverlap`) |
| set | six keys, some of which collide in tables of 5 and of 13; two bins to a buffer; any number of calls | `SetFaithful` |
| handlers | two types, persistence 2 | `HandlersTold` |
| mass | three shapes, one of which is moved; masses 0 and 1; places up to 6 | `MassOfShapes`, `PlaceKept` |
| joints | the ten kinds; distances and velocities up to 2; two pairs of limits, one of them turned round, one goal; two iterations; `maxForce` 1 and 2; `dt` 1 and 2 in any order | `ImpulseIsWhatWasPushed` |
| zig | three bodies with a shape each, a joint; two calls between steps; persistence 2, threshold 1 | `ZigListsAgree`, `ZigSleepTogether`, `ZigSeparateOwed` |
| march | three by three samples of three levels, soft and hard, C and Zig | `OutlinesWhole` |
| hull | up to five of six spots, with repetitions and collinear ones | `HullRight` |
| each | three dynamic bodies and a static one, any number of iterations | `EachCalledOnce` |

Why the bounds are enough. A persistence of 2 separates "one step old" from
"expired"; a threshold of 1 separates a body that just stopped from an idle one. An
arbiter's life needs at most persistence + 2 steps to go through all its states, and
the runs of `MCSpaceStep` have no bound on the number of steps: the state spaces are finite and are
explored completely. The queue of 5 holds callbacks that ran, one that runs and
those it scheduled, one under its own key once it is done; buffers of 3 with arbiters of 2 make the ring grow within a step; the
stamp wraps around several times.

Five operations put two shapes into the indexes and let them meet in three more: a broad
phase, a move or a removal, and the next broad phase; or three shapes with one broad phase
after another change. The Zig tree rotates
only with three leaves on one side, hence the fourth shape, which is left out of the
other indexes (`FourInATree`), and at most one Zig index is not a tree unless both are
hashes (`OneReplaced`). Six keys fill the first table and force it to grow while chains
have two bins. A joint's impulse depends on no more than the last step,
of which two values of `dt` make coefficients of 0, ½, 1 and 2, and two
iterations reach each clamp from both sides. Two calls of the game between steps put a
body where it is joined or touched and take it away again. Nine samples make cells with
all sixteen cases beside each other, closed loops, and segments that meet in every order
that a march can give. Five points make hulls with points left to look at on both sides
of a pivot; six points (tried once) found nothing else.

Fairness. `FairSpec` of `SpaceStep` says that a step that has begun is carried to its
end (it is one call on one thread) and that the game keeps stepping. `PostStep` is
strongly fair to leaving a callback and to the game's stepping because user code
can lock and unlock in a loop, which weak fairness would let go on forever.
`PortSpec` of `MCHasty` is weakly fair to each thread, in C and in Zig: the scheduler runs
what can run. Neither the game's calls nor spurious wakeups are promised.

### Disagreements with comments and assertions

| Run | What is said | What the model finds |
|---|---|---|
| `f_gravity` | "Wake up all of the bodies since the gravity changed." (`cpSpace.c:258`) | The loop advances over an array that shrinks by moving its last element: every second component stays asleep. The loop of `cpSpaceDestroy()` passes over them in the same way. |
| `f_separate` | "This prevents errant separate callbacks" (`cpSpaceStep.c:301`) | A contact that wakes a body after the narrow phase leaves its sensor pair with an old stamp and an awake body: `separate` is called though the shapes overlap. |
| `f_wake` | "Dangling contact graph pointers detected. (A)" (`cpSpaceComponent.c:172`) | A narrow-phase callback activates a sleeping body; its arbiters, still linked, are pushed again. Without assertions the list becomes cyclic. |
| `f_contacts` | "The tail buffer is available" (`cpSpaceStep.c:150`) | An arbiter that stopped touching just before its bodies slept neither expires nor has its contacts saved; when its bodies touch again old impulses are read from a reused buffer. |
| `f_zig` | "Fire `separate` callbacks only on contact exit" (`ParityTaskList.md:9`) | The broad phase skips two sleepers; when a third body wakes them in that step the pruning finds their old stamp: `separate` is called though they touch. |

The first four were reproduced with the C library compiled from this tree: `f_gravity` by
counting sleepers, `f_separate` by counting calls, `f_wake` by the abort (or hang),
`f_contacts` by an impulse of another body in the arbiter.

Disagreements without a run:

* `cpArbiterIgnore()` promises to ignore a pair "until the
two objects separate" (`include/chipmunk/cpArbiter.h:60`), but called from `postSolve`
it is undone by `cpSpaceStep.c:353`. `StepEnd` lets `postSolve` do it.
* `cpConstraintGetImpulse()`, "the last impulse applied" (`cpConstraint.h:81`), is something
  else for a damped rotary spring (see `Joints`).
* "Create the worker threads and wait for them to signal ready" (`cpHastySpace.c:537`), but
`pthread_cond_wait()` is called once, not in a loop. When a wakeup without a signal is added, TLC finds within five states that
`cpHastySpaceSetThreads()` returns while a worker is on its way to its wait, where the
next step's broadcast does not reach it.
* In the Zig port, seen while reading and not modelled: `removeShape()` calls `separate` for
  the arbiter of the step and again for the cached pair (`space.zig:939`); cached entries
  linked into the lists of bodies (`space.zig:760`) outlive their pruning; a post-step
  callback that adds one may see it cleared without having run (`space_step.zig:283`); a
  thread that cannot be spawned leaves `workers` partly uninitialized
  (`hasty_space.zig:263`); a `defer` in an `if` block unlocks at once, so that the threads of
  the broad phase write the arbiter list without the mutex (`space.zig:1031`).

Further hazards, beside those in PROJECT.json, that nothing here covers: what rests on a
static body that stops being static is not woken (`cpBody.c:178`); `cpSpaceRemoveBody()`
does not filter the arbiters of shapes that are still there (`cpSpace.c:553`); the threads
of the C solver update the same arbiters without a lock, as intended (`cpHastySpace.c:481`).

## 4. The proofs

`SpaceStepProofs`: `TypeCorrect == Spec => []TypeOK`, for any bodies, shapes, joints,
persistence, threshold and behaviour of the game, `Careless` or not. `TypeOK` is
inductive: the ages stay within their bounds because `StepBegin` caps them, the timers
because `EndNarrowPhase` does. There is one lemma for each action, on top of lemmas about
`Woken`, `Unsleep`, `RestoredArb` and the other operators through which all actions wake
bodies.

`SleepProofs`: the sleeping code is right for every careful game, whatever the number of
bodies, shapes and joints. A game is `Careful` if it makes no call of `Careless`, wakes
nobody from the callbacks of the narrow phase, and the sleep threshold is not 0. These
are the conditions of `stack` and `rig`; `f_wake` and the notes on `Careless` above show
that none can be dropped. Proved of `Spec`:

* `NothingBreaks`: `NoInternalError`.
* `BodiesKept`: `BodyInOnePlace`; `IndexesFollow`: `ShapeIndexFollowsBody`.
* `SleepersTogether`: `ComponentsClosed`; `JointsFollow`: `JointListedIffAwake`.
* `SolverSound`: `ActiveArbiterSound`; `ContactsKept`: `SavedIffDetached`.
* `IslandsImplemented`: `SleepsByIsland`. An action that wakes takes away whole islands,
  `cpBodySleepWithGroup()` adds one or joins one, `ProcessComponents` adds the components
  that the flood fill finds, which are disjoint because being linked is symmetric.

None of these is inductive alone, so all rest on one invariant, `SleepInv`. Beyond the
properties themselves it says that

* an arbiter linked in the contact graph is out of the cache exactly if one of its bodies
  is away (asleep or roused), and bodies that share an arbiter or a joint are away
  together (`Linkage`, `Joined`). Otherwise removing a shape could leave an
  arbiter of it linked, and waking one component could push an arbiter of another;
* every pair of the graph, the cache or the broad phase is of shapes in the indexes
  (`OnShapes`), so that a removed body leaves nothing behind;
* at the end of the loop over the arbiters no dynamic body that a kinematic one touches
  or is joined to is tired (`Held`), which is why no component that falls asleep has one;
* an arbiter of this step has age 0 (`Fields`), so the filter never drops a linked one;
* at each phase `todo` holds what the loop of that phase has not done (`Progress`).

The conditions are operators of the values they relate rather than of the variables: most
actions rouse bodies and put them back in one step, and with parameters the state in
between can be written down. `Rouse` and `Activate` are the lemmas for the two halves,
`FallAsleep` the one for the way back; then there is one lemma for each action.

`PostStepProofs`:

* `QueueAgrees`, `RunUnlocked`, `NoneLost` and `KeysOnce`: for any keys, bodies, nesting and
  queue length, `QueueConsistent`, `CallbacksUnlocked`, `NoBodyInLimbo` and `KeyOnce` are
  invariant. Together with `TypeOK` they are
  inductive: `QueueConsistent` needs that a callback only returns in an unlocked space
  and that no second loop starts inside (`CallbacksUnlocked`), and that in turn needs
  that an unlocking inside a callback sees `skipPostStep`.
* `Refinement`: `Spec => RunsOnce`. Every action maps to `Schedule`, `Start`, `Finish` or
  a stutter; `KeyOnce` is what makes a taken entry the only one with its key, so that
  `Start` really removes it from `pending`.

The last part of `SleepProofs` is `TheyAlternate`, that `BeginSeparateAlternate` holds in every careful
game. Its invariant `Alt` adds to `SleepInv` where the user's knowledge is kept: a pair was
begun and not separated exactly if its arbiter, in the cache or asleep in a `threaded` list,
is not `"cached"`; and a `"first"` arbiter in the cache is one of this step, so none is met
again as `"first"`. What is linked has age 0, which keeps the filter away from it.

`HastyProofs`: for any number of threads, `Quiet`, `RunOnce` and `NoneLeft` prove
`WorkersQuiet`, `EachRunsOnce` and `NoThreadLeft`, whatever the main thread asks for. Their
invariant says what `num_working` means (`Counted`): except between its assignment in
`RunWorkers()` and the broadcast it is the number of workers not yet waiting again, so the
last of them wakes the main thread and nobody else does. `Places` says where workers can be
when the main thread is somewhere, `WorkSet` when `work` is set, `RunsCounted` that who is
back in the loop has run it once. Condition variables wake nobody unsignalled, as in the
model.

`BuffersProofs`: `Disjoint` proves `ContactsSafe`, that is `ContactsIntact` and `NoOverlap`, for
any persistence, number of pairs and buffer size: no buffer is used again while a `Current`
arbiter points into it. It does not cover an arbiter that rested past the persistence without
being saved, of which that is false (`f_contacts`). The invariant is that the ring is in the
order it was filled in (`Ring`): stamps fall from the newest buffer to the oldest, and a
buffer's place in the ring bounds its age, so the stamps of all buffers are less than a wrap
of the counter apart and the comparison in `cpSpacePushFreshContactBuffer()` means what it
says. For this the ring a step adds to may hold at most `MaxBuffers` buffers, and the counter
must count past that number and twice the persistence. `Young` adds that a current arbiter's contacts lie in a buffer with the arbiter's own stamp,
and that the filter ends every step with current arbiters no older than the persistence. So the
buffer that is old enough to be reused holds the contacts of none of them. As in the module, the game only
raises the persistence.

For the Zig threads, in the same module, `JobsRunOnce` proves `ZigJobsOnce` for any numbers of workers and items.
In its invariant an item that was not executed is in exactly one job, of the queue, of a
worker or of the main thread (`Exclusive`, `Undone = Claimed`), and `pending` counts the
queue and the workers that are not back (`ZigCounted`), so that zero of it means that nothing
is left. `JobsPartition` says that the ranges `dispatch` cuts the items into are disjoint and
leave none out.

`IndexProofs`: two of the indexes, for any shapes, widths and places.

`SweepComplete` proves `SweepReportsOnce`. The invariant says that each table holds the shapes of its index, in one cell each
(`Holds`), that from the sort to the next operation the bounds of the dynamic shapes are
true and sorted, and those of the static shapes always while none was moved (`Fresh`,
`Sorted`), and that the calls made so far are exactly those of the cells the loops have
passed, once each (`Told`). A step of either loop adds pairs that were not told of before
(`SweepGoesOn`, `StaticGoesOn`), because no shape has two cells nor is in both indexes.
At the end (`OverlapTold`) two dynamic shapes that overlap have been met: what lies between
their cells begins no later than the second, so before the end of the first, and the inner
loop does not stop.

`HashKeepsCount` proves `HashExact`, also for any width of cells and size of the table. The
first half of its invariant (`Handles`) speaks of one index and holds in every program: the set
has a handle for each shape, the handle has that shape, no other handle has one (`Handled`);
`retain` is the number of bins plus one if there is a shape (`Retained`); and the pool has the
handles with a count of 0, once each (`Pooled`). Each operator on handles keeps it
(`NewHandleKeeps`, `LeftKeeps`, `LinkKeeps`, `UnlinkKeeps`), because the cardinality of the bins
changes by that of the bins added or dropped (`BinsAdd`). The second half is about careful
programs: the static index has the cells of its shapes (`StaticFiled`); in the loops the
dynamic one has those of the shapes that are done and the first ones of the current shape,
and the handles with the current stamp are those met in the cells it has passed (`Rehashing`,
`Asking`); so the calls made are those of the pairs that share a slot so far (`HashTold`).
A cell adds pairs that were not told of before (`OneMoreSlot`), a shape that is done turns
`Done` into one more (`OneMoreShape`), and boxes that overlap share a cell
(`OverlapShares`).

`EngineProofs`: five of the smaller parts.

* `HandlersHear`: `HandlersTold`, for any types and persistence, if `HandlersKept`. The
  invariant (`HandlersInv`) says that while the shapes touch, every handler the arbiter
  points to may be shown them in the order in which it has them, and that the wildcards
  that were told of a begin are added, those of the types of now, and known to the arbiter.
* `ImpulsesTrue`: `ImpulseIsWhatWasPushed`, for any distances, velocities, forces, biases,
  number of iterations and values of `dt` whose quotients are whole halves. The invariant (`JointInv`) has one line
  for each clamp: what has been pushed so far in this step is the accumulated impulse and what
  the warm start added to it (`Owed`), and the accumulated impulse is within `maxForce` of this
  step and on the side of the limit. Setters between steps leave alone what it speaks of (`Alike`).
* `EachBodyOnce`: `EachCalledOnce`, for any bodies, however they sleep and whomever `func` wakes.
  The invariant (`IterationInv`) says that nobody still to come was called (`Uncalled`): not
  the rest of the array, nor the roused, since these go back to their array only when the
  space is unlocked, nor the components from the index on, which deletion only moves towards
  the front; and that, as long as nobody was woken, all those passed by were called
  (`Passed`). A component that is woken while the walk is inside it is left, and so may be the
  one that takes its place: hence the bodies that the property exempts.
* `SetKept`: `SetFaithful`, for any keys, primes and buffers. The invariant (`SetInv`) is about
  positions in chains: keys are in the chain of their slot, once each (`Table`); during a
  resizing each key is in exactly one of the two tables and the slots passed are empty
  (`Resizing`), so that at the end the new table has them all; a filter has still to meet the
  keys of later slots and those from its bin on (`Ahead`), also when the bin before is
  unlinked. A chain is a sequence, and what unlinking does to it is a fact about its positions
  (`WithoutIs`), for which no induction is needed. That `next_prime()` finds an entry needs
  that the primes go beyond the number of keys.
* `MassTrue` and `PlaceStays`: `MassOfShapes` and `PlaceKept`, for any number of shapes and any
  masses that the unit of lengths allows. The invariant (`MassInv`) says that while the loop
  runs the body weighs what the shapes passed so far weigh (`Seen`): its moment plus its mass
  times the square of the centre is their moment about the origin, which only grows when the
  centre moves (`Weighed`); the parallel axis theorem (`MomentAbout`) turns that into the
  moment about the centre at the end. `Heavy` is the arithmetic of one turn of the loop:
  none of its divisions leaves a remainder. The list is a numbering of the shapes (`InOrder`)
  that grows at its front (`ListGrows`) and loses one anywhere (`ListShrinks`). Sums over all
  shapes are recursive functions, and facts about them (`PrefixExists`, `PrefixUnique`) are
  proved by induction in the form of a set of numbers that holds 0 and every successor
  (`NumbersOf`).

`ZigSpaceProofs`: the Zig space, for any bodies, shapes and constraints.

* `ListsAgree` and `SleepAlike`: `ZigListsAgree` and `ZigSleepTogether`, if the game is
  careful. The invariant (`ZigInv`) adds to `ZigListsAgree` that the lists hold nothing twice
  (`Lined`), which makes `removePtr()` a removal from the set; where the loops of
  `removeBody()` have been (`Removing`): before the index nothing is the body's, and not both
  of the first two shapes are, so passing over the one that moved to the front does no harm;
  and, for the sleepers (`Slept`), that those that should sleep are closed under what
  arbiters and constraints hold together, because a union-find component is
  (`ComponentClosed`). Of each touching pair the invariant (`Touched`) says that it is still to
  be reported, was found, with an arbiter or refused, or is of two that slept when the step began, so that a body
  that falls asleep has an arbiter with whatever it touches. So the loop that wakes the others wakes none of them through a
  constraint, and when it is done the sleepers of the space are those that should.
* `SeparationOwed`: `ZigSeparateOwed`, in any game. An entry is only forgotten at an age
  of at least 1, and if it was not marked by then it is told in the same pass. This needs
  `collision_persistence` not to be 0.

Assumed: the named assumptions on the constants in the modules, which TLC evaluates in
every run. Only model-checked:

* all liveness (`RousedAwake`, `SeparateFollows`, `ScheduledRuns`, `CallsReturn`,
  `ZigCallsReturn`), which is beyond the prover;
* `ReportsOnce` (of the trees in C and Zig), `QueriesFind`, `OutlinesWhole` and `HullRight`.
  What these say is the content of trees, or what a loop over data of any length computes. The
  modules follow the links with RECURSIVE operators or folds, which the prover
  cannot reason about.

## 5. Plan

Done: the core (`SpaceStep`, `SleepingIslands`, `ContactBuffers`, `PostStep`,
`HastyThreads`), the indexes and queries, hash set, iteration, handlers, masses, joints, the Zig space
and its threads, marching squares and hulls; the proofs of section 4, by which every safety
property that a passing run checks of the space, its sleep, its callbacks, its contact buffers, both thread pools, the
sweep, the spatial hash (but for segments), the handlers, the joints, masses, the hash set, `cpSpaceEachBody()` and the Zig
space is a theorem. These properties are no wider than they say: that of the buffers is about current
arbiters, that of the joints leaves out what a change of `dt` adds unclamped, and that of the Zig
sleepers is about bodies as they fall asleep.

Left, in this order:

1. The trees without RECURSIVE operators, as far as that keeps them readable, and their
   properties as theorems; which cells a segment visits in the spatial hash.
2. The Zig space with post-step callbacks, and with the removal of a shape in contact.
3. Polyline simplification and convex decomposition over a grid, against a definition.

## 6. Not modelled

Floating-point arithmetic: the narrow phase (`cpCollision.c`), the contact solver,
integration, transforms, simplification and decomposition of polylines (`cpPolyline.c`,
`cpRobust.c`), and their Zig counterparts. In the models its results are inputs, or small
integers where only comparisons and clamps matter. The iterators over shapes
and constraints, the freeing of memory and debug drawing only read or free. The solver's concurrent updates of the same arbiters are intended
by its authors and need arithmetic. The Zig entry points and the build have no state.
PROJECT.json gives the status of each part.
