------------------------------- MODULE PostStep -------------------------------
(***************************************************************************)
(* The lock of a cpSpace and its queue of post-step callbacks: cpSpaceLock,*)
(* cpSpaceUnlock, cpSpaceAddPostStepCallback.  Everything runs on one      *)
(* thread, but user code is called in the middle: from locked sections     *)
(* (collision callbacks, queries) and from the loop that runs the          *)
(* callbacks, where it may lock the space again and schedule more.         *)
(***************************************************************************)
EXTENDS Integers, Sequences

CONSTANTS
  Key,         \* the keys callbacks are scheduled under
  NoKey,
  Body,        \* the sleeping bodies that user code may activate
  MaxDepth,    \* bound: locked sections nested in one another
  MaxQueue     \* bound: entries of the queue, those already run included

ASSUME PostStepAssumption ==
  /\ NoKey \notin Key
  /\ MaxDepth \in Nat
  /\ MaxQueue \in Nat

VARIABLES
  locked,            \* space->locked
  skipPostStep,      \* space->skipPostStep: the loop over the queue is running
  postStepCallbacks, \* the queue: [key, func], func "set", "taken" or "freed"
  next,              \* the loop's index
  inCallback,        \* the loop is inside the func it has called
  rousedBodies,      \* space->rousedBodies
  awake              \* the bodies activated so far

vars == <<locked, skipPostStep, postStepCallbacks, next, inCallback,
          rousedBodies, awake>>

queue == postStepCallbacks
Entry == [key : Key, func : {"set", "taken", "freed"}]

\* User code has control: the space is idle, or it called a callback.
UserRuns == ~skipPostStep \/ inCallback

\* (faulty: sees the newest entry only; does not see the one that runs)
IsNewest(k) == queue # <<>> /\ queue[Len(queue)].key = k /\ queue[Len(queue)].func # "freed"
IsWaiting(k) == \E i \in 1..Len(queue) : queue[i].key = k /\ queue[i].func = "set"

\* cpSpaceGetPostStepCallback(): a freed entry is NULL, a taken one is found
IsScheduled(k) == \E i \in 1..Len(queue) : queue[i].key = k /\ queue[i].func # "freed"

\* cpSpaceAddPostStepCallback(), when it returns true; otherwise nothing changes
AddPostStepCallback(k) ==
  /\ UserRuns /\ Len(queue) < MaxQueue
  /\ ~IsScheduled(k)
  /\ postStepCallbacks' = Append(queue, [key |-> k, func |-> "set"])
  /\ UNCHANGED <<locked, skipPostStep, next, inCallback, rousedBodies, awake>>

SpaceLock ==
  /\ UserRuns /\ locked < MaxDepth
  /\ locked' = locked + 1
  /\ UNCHANGED <<skipPostStep, postStepCallbacks, next, inCallback, rousedBodies, awake>>

\* (faulty: put off whether the space is locked or not)
ActivateLater(b) ==
  /\ UserRuns /\ b \notin awake \cup rousedBodies
  /\ rousedBodies' = rousedBodies \cup {b}
  /\ UNCHANGED <<locked, skipPostStep, postStepCallbacks, next, inCallback, awake>>

\* cpBodyActivate() of a sleeping body: put off while the space is locked
ActivateBody(b) ==
  /\ UserRuns /\ b \notin awake \cup rousedBodies
  /\ IF locked > 0
     THEN rousedBodies' = rousedBodies \cup {b} /\ UNCHANGED awake
     ELSE awake' = awake \cup {b} /\ UNCHANGED rousedBodies
  /\ UNCHANGED <<locked, skipPostStep, postStepCallbacks, next, inCallback>>


\* "Space lock underflow."
CanUnlock == locked > 0

\* (faulty: an inner unlocking does)
DrainsInside(runPostStep) == runPostStep /\ ~skipPostStep

\* Is this the unlocking that runs the callbacks?
Drains(runPostStep) == locked = 1 /\ runPostStep /\ ~skipPostStep

\* cpSpaceUnlock(): the outermost one activates the roused bodies and, if asked
\* to and not called from a callback, begins the loop over the queue.
SpaceUnlock(runPostStep) ==
  LET outermost == locked = 1
      drain == Drains(runPostStep)
  IN  /\ UserRuns /\ CanUnlock
      /\ locked' = locked - 1
      /\ IF outermost
         THEN awake' = awake \cup rousedBodies /\ rousedBodies' = {}
         ELSE UNCHANGED <<awake, rousedBodies>>
      /\ IF drain THEN skipPostStep' = TRUE /\ next' = 1
                  ELSE UNCHANGED <<skipPostStep, next>>
      /\ UNCHANGED <<postStepCallbacks, inCallback>>

\* (faulty: one too early)
AtLast == next >= Len(queue)

\* The loop looks at the queue's length each time: it may have grown.
AtEnd == next > Len(queue)

\* (faulty: the func is called and left where it is)
RunAndLeave ==
  /\ skipPostStep /\ ~inCallback /\ ~AtEnd
  /\ inCallback' = TRUE
  /\ UNCHANGED <<locked, skipPostStep, postStepCallbacks, next, rousedBodies, awake>>

\* The loop takes the next entry's func, so that nobody else can, and calls it.
RunCallback ==
  /\ skipPostStep /\ ~inCallback /\ ~AtEnd
  /\ postStepCallbacks' = [queue EXCEPT ![next].func = "taken"]
  /\ inCallback' = TRUE
  /\ UNCHANGED <<locked, skipPostStep, next, rousedBodies, awake>>

\* The callback returns, having unlocked the space as often as it locked it.
CallbackReturns ==
  /\ inCallback /\ locked = 0
  /\ postStepCallbacks' = [queue EXCEPT ![next].func = "freed"]
  /\ next' = next + 1
  /\ inCallback' = FALSE
  /\ UNCHANGED <<locked, skipPostStep, rousedBodies, awake>>

\* The loop has reached the end of the queue.
EndLoop ==
  /\ skipPostStep /\ ~inCallback /\ AtEnd
  /\ postStepCallbacks' = <<>>
  /\ skipPostStep' = FALSE
  /\ UNCHANGED <<locked, next, inCallback, rousedBodies, awake>>

Init ==
  /\ locked = 0 /\ skipPostStep = FALSE /\ postStepCallbacks = <<>>
  /\ next = 1 /\ inCallback = FALSE
  /\ rousedBodies = {} /\ awake = {}

Next ==
  \/ \E k \in Key : AddPostStepCallback(k)
  \/ \E b \in Body : ActivateBody(b)
  \/ SpaceLock
  \/ \E runPostStep \in BOOLEAN : SpaceUnlock(runPostStep)
  \/ RunCallback \/ CallbackReturns \/ EndLoop

Spec == Init /\ [][Next]_vars

\* The loop goes on; a callback does a finite amount of work, and so does a locked
\* section, which therefore ends; and the game goes on stepping: sooner or later
\* it locks the space, and unlocks it asking for the callbacks.
FairSpec ==
  /\ Spec
  /\ WF_vars(RunCallback) /\ SF_vars(CallbackReturns) /\ WF_vars(EndLoop)
  /\ SF_vars(locked = 0 /\ SpaceLock)
  /\ SF_vars(locked = 1 /\ SpaceUnlock(TRUE))
  /\ WF_vars(locked > 1 /\ \E runPostStep \in BOOLEAN : SpaceUnlock(runPostStep))

-----------------------------------------------------------------------------
(* Properties *)

TypeOK ==
  /\ locked \in Nat
  /\ skipPostStep \in BOOLEAN /\ inCallback \in BOOLEAN
  /\ postStepCallbacks \in Seq(Entry)
  /\ next \in Nat \ {0}
  /\ rousedBodies \subseteq Body /\ awake \subseteq Body

\* The loop and the queue agree: entries before the loop's index are freed, the
\* one at it is taken exactly while its func runs, the others are still to run;
\* while no loop runs, all are.  So no func is skipped, called twice, or used
\* after its entry was freed.
QueueConsistent ==
  \A i \in 1..Len(queue) :
    queue[i].func = IF skipPostStep /\ i < next THEN "freed"
                    ELSE IF inCallback /\ i = next THEN "taken" ELSE "set"

\* Post-step callbacks are called in an unlocked space, by a single loop: when
\* the loop has control, no section is locked and no body is waiting for one.
CallbacksUnlocked ==
  /\ skipPostStep /\ ~inCallback => locked = 0
  /\ inCallback => skipPostStep /\ next <= Len(queue)

\* No activation is left pending in an unlocked space, and none is lost.
NoBodyInLimbo ==
  /\ locked = 0 => rousedBodies = {}
  /\ rousedBodies \cap awake = {}

\* A key is in the queue once only.
KeyOnce ==
  \A i, j \in 1..Len(queue) :
    queue[i].func # "freed" /\ queue[j].func # "freed" /\ queue[i].key = queue[j].key
      => i = j

Pending == {queue[i].key : i \in {j \in 1..Len(queue) : queue[j].func = "set"}}
Running == IF inCallback THEN queue[next].key ELSE NoKey

\* The queue implements the abstract promise: each callback scheduled runs once,
\* none inside another, one per key at a time.
Once == INSTANCE PostStepOnce WITH pending <- Pending, running <- Running
RunsOnce == Once!Spec

\* A callback that was scheduled runs, also one scheduled by another callback.
ScheduledRuns == \A k \in Key : (k \in Pending) ~> (Running = k)
=============================================================================
