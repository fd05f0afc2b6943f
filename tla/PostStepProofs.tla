---------------------------- MODULE PostStepProofs ----------------------------
(***************************************************************************)
(* Proofs about PostStep, for any set of keys and any bounds: the type     *)
(* invariant, the invariants the runs check, and that the queue implements *)
(* PostStepOnce.                                                           *)
(***************************************************************************)
EXTENDS PostStep, TLAPS

\* The inductive invariant is the conjunction of what the runs check.
IInv == TypeOK /\ QueueConsistent /\ CallbacksUnlocked /\ NoBodyInLimbo /\ KeyOnce

\* Appending an entry leaves the others where they are.
LEMMA AppendEntry ==
  ASSUME NEW q \in Seq(Entry), NEW e \in Entry
  PROVE  /\ Append(q, e) \in Seq(Entry)
         /\ Len(Append(q, e)) = Len(q) + 1
         /\ \A i \in 1..Len(q) : Append(q, e)[i] = q[i]
         /\ Append(q, e)[Len(q) + 1] = e
  OBVIOUS

\* Marking an entry changes neither the length nor any key.
LEMMA MarkEntry ==
  ASSUME NEW q \in Seq(Entry), NEW n \in 1..Len(q), NEW f \in {"set", "taken", "freed"},
         NEW r, r = [q EXCEPT ![n].func = f]
  PROVE  /\ r \in Seq(Entry) /\ Len(r) = Len(q)
         /\ r[n].func = f
         /\ \A i \in 1..Len(q) : i # n => r[i] = q[i]
         /\ \A i \in 1..Len(q) : r[i].key = q[i].key
<1> DEFINE e == [q[n] EXCEPT !.func = f]
<1>1. q \in [1..Len(q) -> Entry] /\ Len(q) \in Nat
  OBVIOUS
<1>2. q[n] \in Entry
  BY <1>1
<1>3. e.key = q[n].key /\ e.func = f /\ e \in Entry
  BY <1>2 DEF Entry
<1> HIDE DEF e
<1>4. r = [q EXCEPT ![n] = e]
  BY DEF e
<1>5. r \in [1..Len(q) -> Entry] /\ r[n] = e /\ \A i \in 1..Len(q) : i # n => r[i] = q[i]
  BY <1>1, <1>3, <1>4
<1>6. r \in Seq(Entry) /\ Len(r) = Len(q)
  BY <1>1, <1>5
<1> QED
  BY <1>3, <1>5, <1>6

\* Initially nothing is locked, scheduled or roused.
LEMMA InitInv == Init => IInv
<1> SUFFICES ASSUME Init PROVE IInv
  OBVIOUS
<1>1. postStepCallbacks \in Seq(Entry) /\ Len(postStepCallbacks) = 0
  BY DEF Init
<1>2. TypeOK
  <2>1. 0 \in Nat /\ 1 \in Nat \ {0} /\ FALSE \in BOOLEAN
    OBVIOUS
  <2> QED
    BY <1>1, <2>1 DEF Init, TypeOK
<1>3. QueueConsistent /\ CallbacksUnlocked /\ NoBodyInLimbo /\ KeyOnce
  BY <1>1 DEF Init, QueueConsistent, CallbacksUnlocked, NoBodyInLimbo, KeyOnce, queue
<1> QED
  BY <1>2, <1>3 DEF IInv

\* Scheduling a callback keeps the invariant: the new entry comes last, and its
\* key was in no live entry.
LEMMA AddInv ==
  ASSUME IInv, NEW k \in Key, AddPostStepCallback(k)
  PROVE  IInv'
<1> DEFINE e == [key |-> k, func |-> "set"]
<1> USE DEF queue
<1>1. e \in Entry /\ postStepCallbacks \in Seq(Entry)
  BY DEF IInv, TypeOK, Entry
<1>2. postStepCallbacks' = Append(postStepCallbacks, e)
  BY DEF AddPostStepCallback
<1>3. /\ postStepCallbacks' \in Seq(Entry)
      /\ Len(postStepCallbacks') = Len(postStepCallbacks) + 1
      /\ \A i \in 1..Len(postStepCallbacks) : postStepCallbacks'[i] = postStepCallbacks[i]
      /\ postStepCallbacks'[Len(postStepCallbacks) + 1] = e
  BY <1>1, <1>2, AppendEntry
<1> HIDE DEF e
<1>a. Len(postStepCallbacks) \in Nat
  BY <1>1
<1>4. \A i \in 1..Len(postStepCallbacks') :
        i \in 1..Len(postStepCallbacks) \/ i = Len(postStepCallbacks) + 1
  BY <1>3, <1>a
<1>5. UNCHANGED <<locked, skipPostStep, next, inCallback, rousedBodies, awake>>
  BY DEF AddPostStepCallback
<1>6. TypeOK'
  BY <1>3, <1>5 DEF IInv, TypeOK
<1>7. QueueConsistent'
  <2>1. skipPostStep => inCallback
    BY DEF AddPostStepCallback, UserRuns
  <2>2. e.func = "set"
    BY DEF e
  <2>3. inCallback => next <= Len(postStepCallbacks) /\ skipPostStep
    BY DEF IInv, CallbacksUnlocked
  <2>4. next \in Nat
    BY DEF IInv, TypeOK
  <2> QED
    BY <1>3, <1>4, <1>5, <1>a, <2>1, <2>2, <2>3, <2>4 DEF IInv, QueueConsistent
<1>8. CallbacksUnlocked'
  BY <1>3, <1>5, <1>a DEF IInv, CallbacksUnlocked, TypeOK
<1>9. NoBodyInLimbo'
  BY <1>5 DEF IInv, NoBodyInLimbo
<1>10. KeyOnce'
  <2>1. \A i \in 1..Len(postStepCallbacks) :
          postStepCallbacks[i].func = "freed" \/ postStepCallbacks[i].key # e.key
    BY DEF AddPostStepCallback, IsScheduled, e
  <2> QED
    BY <1>3, <1>4, <1>a, <2>1 DEF IInv, KeyOnce
<1> QED
  BY <1>6, <1>7, <1>8, <1>9, <1>10 DEF IInv

\* Locking, unlocking and activating bodies do not touch the queue.
LEMMA LockInv ==
  ASSUME IInv,
         \/ SpaceLock
         \/ \E runPostStep \in BOOLEAN : SpaceUnlock(runPostStep)
         \/ \E b \in Body : ActivateBody(b)
  PROVE  IInv'
<1> USE DEF queue
<1>1. CASE SpaceLock
  BY <1>1 DEF SpaceLock, IInv, TypeOK, QueueConsistent, CallbacksUnlocked, UserRuns,
              NoBodyInLimbo, KeyOnce
<1>2. ASSUME NEW run \in BOOLEAN, SpaceUnlock(run) PROVE IInv'
  <2>1. TypeOK'
    <3>1. locked \in Nat /\ locked > 0 /\ locked' = locked - 1
      BY <1>2 DEF SpaceUnlock, Drains, CanUnlock, IInv, TypeOK
    <3>2. locked' \in Nat
      BY <3>1
    <3>3. next' \in Nat \ {0}
      BY <1>2 DEF SpaceUnlock, Drains, CanUnlock, IInv, TypeOK
    <3>5. skipPostStep' \in BOOLEAN
      BY <1>2, Zenon DEF SpaceUnlock, Drains, CanUnlock, IInv, TypeOK
    <3>4. awake' \subseteq Body /\ rousedBodies' \subseteq Body
      BY <1>2 DEF SpaceUnlock, Drains, CanUnlock, IInv, TypeOK
    <3> QED
      BY <1>2, <3>2, <3>3, <3>4, <3>5 DEF SpaceUnlock, Drains, CanUnlock, IInv, TypeOK
  <2>2. QueueConsistent'
    BY <1>2 DEF SpaceUnlock, Drains, CanUnlock, IInv, TypeOK, QueueConsistent, CallbacksUnlocked, UserRuns
  <2>3. CallbacksUnlocked' /\ NoBodyInLimbo' /\ KeyOnce'
    BY <1>2 DEF SpaceUnlock, Drains, CanUnlock, IInv, TypeOK, CallbacksUnlocked, NoBodyInLimbo, KeyOnce, UserRuns
  <2> QED
    BY <2>1, <2>2, <2>3 DEF IInv
<1>3. ASSUME NEW b \in Body, ActivateBody(b) PROVE IInv'
  BY <1>3 DEF ActivateBody, IInv, TypeOK, QueueConsistent, CallbacksUnlocked,
              NoBodyInLimbo, KeyOnce
<1> QED
  BY <1>1, <1>2, <1>3

\* The loop takes an entry, frees it, and goes on.
LEMMA LoopInv ==
  ASSUME IInv, RunCallback \/ CallbackReturns \/ EndLoop
  PROVE  IInv'
<1> USE DEF queue
<1>1. postStepCallbacks \in Seq(Entry) /\ Len(postStepCallbacks) \in Nat /\ next \in Nat \ {0}
  BY DEF IInv, TypeOK
<1>2. CASE RunCallback
  <2>1. next \in 1..Len(postStepCallbacks)
    BY <1>1, <1>2 DEF RunCallback, AtEnd
  <2>2. postStepCallbacks' = [postStepCallbacks EXCEPT ![next].func = "taken"]
    BY <1>2 DEF RunCallback, AtEnd
  <2>3. /\ postStepCallbacks' \in Seq(Entry)
        /\ Len(postStepCallbacks') = Len(postStepCallbacks)
        /\ postStepCallbacks'[next].func = "taken"
        /\ \A i \in 1..Len(postStepCallbacks) :
             i # next => postStepCallbacks'[i] = postStepCallbacks[i]
        /\ \A i \in 1..Len(postStepCallbacks) :
             postStepCallbacks'[i].key = postStepCallbacks[i].key
    BY <1>1, <2>1, <2>2, MarkEntry, SMTT(30)
  <2>4. TypeOK' /\ CallbacksUnlocked' /\ NoBodyInLimbo'
    BY <1>2, <2>1, <2>3 DEF RunCallback, AtEnd, IInv, TypeOK, CallbacksUnlocked, NoBodyInLimbo
  <2>5. QueueConsistent'
    BY <1>1, <1>2, <2>3 DEF RunCallback, AtEnd, IInv, QueueConsistent
  <2>6. postStepCallbacks[next].func # "freed"
    BY <1>1, <1>2, <2>1 DEF RunCallback, AtEnd, IInv, QueueConsistent
  <2>7. KeyOnce'
    BY <2>3, <2>6 DEF IInv, KeyOnce
  <2> QED
    BY <2>4, <2>5, <2>7 DEF IInv
<1>3. CASE CallbackReturns
  <2>1. next \in 1..Len(postStepCallbacks) /\ skipPostStep
    BY <1>1, <1>3 DEF CallbackReturns, IInv, CallbacksUnlocked
  <2>2. postStepCallbacks' = [postStepCallbacks EXCEPT ![next].func = "freed"]
    BY <1>3 DEF CallbackReturns
  <2>3. /\ postStepCallbacks' \in Seq(Entry)
        /\ Len(postStepCallbacks') = Len(postStepCallbacks)
        /\ postStepCallbacks'[next].func = "freed"
        /\ \A i \in 1..Len(postStepCallbacks) :
             i # next => postStepCallbacks'[i] = postStepCallbacks[i]
    <3>1. "freed" \in {"set", "taken", "freed"}
      OBVIOUS
    <3> QED
      BY ONLY <1>1, <2>1, <2>2, <3>1, MarkEntry
  <2>4. TypeOK' /\ CallbacksUnlocked' /\ NoBodyInLimbo'
    <3>1. next' = next + 1 /\ next' \in Nat \ {0} /\ inCallback' = FALSE
      BY <1>1, <1>3 DEF CallbackReturns
    <3>2. UNCHANGED <<locked, skipPostStep, rousedBodies, awake>> /\ locked = 0
      BY <1>3 DEF CallbackReturns
    <3>3. TypeOK'
      BY <2>3, <3>1, <3>2 DEF IInv, TypeOK
    <3> QED
      BY <3>1, <3>2, <3>3 DEF IInv, CallbacksUnlocked, NoBodyInLimbo
  <2>5. QueueConsistent'
    BY <1>1, <1>3, <2>1, <2>3 DEF CallbackReturns, IInv, QueueConsistent
  <2>6. KeyOnce'
    BY <2>3 DEF IInv, KeyOnce
  <2> QED
    BY <2>4, <2>5, <2>6 DEF IInv
<1>4. CASE EndLoop
  <2>1. postStepCallbacks' \in Seq(Entry) /\ Len(postStepCallbacks') = 0
    BY <1>4 DEF EndLoop, AtEnd
  <2>2. TypeOK'
    BY <1>4, <2>1 DEF EndLoop, AtEnd, IInv, TypeOK
  <2>3. QueueConsistent' /\ KeyOnce'
    BY <2>1 DEF QueueConsistent, KeyOnce
  <2>4. CallbacksUnlocked' /\ NoBodyInLimbo'
    BY <1>4 DEF EndLoop, AtEnd, IInv, CallbacksUnlocked, NoBodyInLimbo
  <2> QED
    BY <2>2, <2>3, <2>4 DEF IInv
<1> QED
  BY <1>2, <1>3, <1>4

\* Every step keeps the invariant.
LEMMA NextInv == IInv /\ [Next]_vars => IInv'
<1> SUFFICES ASSUME IInv, [Next]_vars PROVE IInv'
  OBVIOUS
<1>1. CASE UNCHANGED vars
  BY <1>1 DEF vars, IInv, TypeOK, QueueConsistent, CallbacksUnlocked, NoBodyInLimbo,
              KeyOnce, queue
<1>2. CASE Next
  BY <1>2, AddInv, LockInv, LoopInv DEF Next
<1> QED
  BY <1>1, <1>2

\* The inductive invariant holds in every reachable state.
LEMMA AlwaysIInv == Spec => []IInv
BY InitInv, NextInv, PTL DEF Spec

\* The loop of cpSpaceUnlock() and the queue agree, although callbacks append to the
\* queue, step again and query while the loop runs over it.
THEOREM QueueAgrees == Spec => []QueueConsistent
BY AlwaysIInv, PTL DEF IInv

\* A callback runs with the space unlocked, and only one of them at a time.
THEOREM RunUnlocked == Spec => []CallbacksUnlocked
BY AlwaysIInv, PTL DEF IInv

\* No body that was activated while the space was locked stays out of the lists when
\* it is unlocked again.
THEOREM NoneLost == Spec => []NoBodyInLimbo
BY AlwaysIInv, PTL DEF IInv

\* A key has one entry at most that was not freed: scheduling it again is refused until
\* its callback has returned.
THEOREM KeysOnce == Spec => []KeyOnce
BY AlwaysIInv, PTL DEF IInv

-----------------------------------------------------------------------------
(* The queue implements PostStepOnce *)

\* Initially nothing is pending and nothing runs.
LEMMA InitRefines == Init => Once!Init
  BY DEF Init, Once!Init, Pending, Running, queue

\* Scheduling appends a pending entry under a key that is neither pending nor
\* running.
LEMMA AddRefines ==
  ASSUME IInv, NEW k \in Key, AddPostStepCallback(k)
  PROVE  Once!Schedule(k)
<1> DEFINE e == [key |-> k, func |-> "set"]
<1> USE DEF queue
<1>1. e \in Entry /\ postStepCallbacks \in Seq(Entry) /\ Len(postStepCallbacks) \in Nat
  BY DEF IInv, TypeOK, Entry
<1>2. /\ Len(postStepCallbacks') = Len(postStepCallbacks) + 1
      /\ \A i \in 1..Len(postStepCallbacks) : postStepCallbacks'[i] = postStepCallbacks[i]
      /\ postStepCallbacks'[Len(postStepCallbacks) + 1] = e
  BY <1>1, AppendEntry DEF AddPostStepCallback
<1>3. e.key = k /\ e.func = "set"
  OBVIOUS
<1> HIDE DEF e
<1>4. Pending' = Pending \cup {k}
  <2>1. ASSUME NEW x \in Pending' PROVE x \in Pending \cup {k}
    BY <1>1, <1>2, <1>3 DEF Pending
  <2>2. ASSUME NEW x \in Pending PROVE x \in Pending'
    BY <1>1, <1>2 DEF Pending
  <2>3. k \in Pending'
    BY <1>1, <1>2, <1>3 DEF Pending
  <2> QED
    BY <2>1, <2>2, <2>3
<1>5. k \notin Pending
  BY DEF AddPostStepCallback, IsScheduled, Pending
<1>6. Running' = Running /\ k # Running
  <2>1. CASE inCallback
    <3>1. next \in 1..Len(postStepCallbacks) /\ postStepCallbacks[next].func = "taken"
      BY <2>1, <1>1 DEF IInv, TypeOK, CallbacksUnlocked, QueueConsistent
    <3> QED
      BY <2>1, <3>1, <1>2 DEF AddPostStepCallback, IsScheduled, Running
  <2>2. CASE ~inCallback
    BY <2>2, PostStepAssumption DEF AddPostStepCallback, Running
  <2> QED
    BY <2>1, <2>2
<1> QED
  BY <1>4, <1>5, <1>6 DEF Once!Schedule

\* The loop starts the pending callback whose entry it takes: the key is pending
\* no more, because it has no other live entry.
LEMMA RunRefines ==
  ASSUME IInv, RunCallback
  PROVE  \E k \in Key : Once!Start(k)
<1> USE DEF queue
<1> DEFINE k == postStepCallbacks[next].key
<1>1. /\ postStepCallbacks \in Seq(Entry) /\ Len(postStepCallbacks) \in Nat
      /\ next \in 1..Len(postStepCallbacks)
  BY DEF IInv, TypeOK, RunCallback, AtEnd
<1>2. postStepCallbacks[next] \in Entry
  BY <1>1
<1>3. k \in Key
  BY <1>2 DEF Entry
<1>4. postStepCallbacks[next].func = "set"
  BY <1>1 DEF IInv, QueueConsistent, RunCallback, AtEnd
<1>5. postStepCallbacks' = [postStepCallbacks EXCEPT ![next].func = "taken"]
  BY DEF RunCallback, AtEnd
<1>6. /\ Len(postStepCallbacks') = Len(postStepCallbacks)
      /\ postStepCallbacks'[next].func = "taken"
      /\ \A i \in 1..Len(postStepCallbacks) :
           i # next => postStepCallbacks'[i] = postStepCallbacks[i]
      /\ \A i \in 1..Len(postStepCallbacks) :
           postStepCallbacks'[i].key = postStepCallbacks[i].key
  BY ONLY <1>1, <1>5, MarkEntry
<1>7. k \in Pending
  BY <1>1, <1>4 DEF Pending
<1>8. Pending' = Pending \ {k}
  <2>1. ASSUME NEW i \in 1..Len(postStepCallbacks), postStepCallbacks[i].key = k,
               postStepCallbacks[i].func = "set"
        PROVE  i = next
    BY <1>1, <1>4, <2>1 DEF IInv, KeyOnce
  <2>2. ASSUME NEW x \in Pending' PROVE x \in Pending /\ x # k
    <3>1. PICK i \in 1..Len(postStepCallbacks) :
            postStepCallbacks'[i].func = "set" /\ x = postStepCallbacks'[i].key
      BY <1>6 DEF Pending
    <3>2. i # next /\ postStepCallbacks'[i] = postStepCallbacks[i]
      BY <3>1, <1>6
    <3> QED
      BY <3>1, <3>2, <2>1 DEF Pending
  <2>3. ASSUME NEW x \in Pending, x # k PROVE x \in Pending'
    <3>1. PICK i \in 1..Len(postStepCallbacks) :
            postStepCallbacks[i].func = "set" /\ x = postStepCallbacks[i].key
      BY DEF Pending
    <3>2. i # next
      BY <3>1, <2>3
    <3> QED
      BY <3>1, <3>2, <1>6 DEF Pending
  <2> QED
    BY <2>2, <2>3
<1>9. Running = NoKey /\ Running' = k
  BY <1>1, <1>6 DEF RunCallback, AtEnd, Running
<1> QED
  BY <1>3, <1>7, <1>8, <1>9 DEF Once!Start

\* When the callback returns its entry was already taken, so nothing else changes.
LEMMA ReturnRefines ==
  ASSUME IInv, CallbackReturns
  PROVE  Once!Finish
<1> USE DEF queue
<1>1. /\ postStepCallbacks \in Seq(Entry) /\ Len(postStepCallbacks) \in Nat
      /\ next \in 1..Len(postStepCallbacks) /\ inCallback
  BY DEF IInv, TypeOK, CallbacksUnlocked, CallbackReturns
<1>2. postStepCallbacks[next].func = "taken" /\ postStepCallbacks[next].key \in Key
  <2>1. postStepCallbacks[next] \in Entry
    BY <1>1
  <2> QED
    BY <1>1, <2>1 DEF IInv, QueueConsistent, Entry
<1>3. postStepCallbacks' = [postStepCallbacks EXCEPT ![next].func = "freed"]
  BY DEF CallbackReturns
<1>4. "freed" \in {"set", "taken", "freed"}
  OBVIOUS
<1>5. /\ Len(postStepCallbacks') = Len(postStepCallbacks)
      /\ postStepCallbacks'[next].func = "freed"
      /\ \A i \in 1..Len(postStepCallbacks) :
           i # next => postStepCallbacks'[i] = postStepCallbacks[i]
  BY ONLY <1>1, <1>3, <1>4, MarkEntry
<1>6. Pending' = Pending
  <2>1. ASSUME NEW i \in 1..Len(postStepCallbacks)
        PROVE  /\ (postStepCallbacks'[i].func = "set") <=> (postStepCallbacks[i].func = "set")
               /\ postStepCallbacks[i].func = "set"
                    => postStepCallbacks'[i].key = postStepCallbacks[i].key
    BY <1>1, <1>2, <1>5
  <2> QED
    BY <1>5, <2>1 DEF Pending
<1>7. Running # NoKey /\ Running' = NoKey
  BY <1>1, <1>2, PostStepAssumption DEF Running, CallbackReturns
<1> QED
  BY <1>6, <1>7 DEF Once!Finish

\* Everything else leaves what is pending and running alone; the loop ends when
\* all entries are freed.
LEMMA OtherStutters ==
  ASSUME IInv,
         \/ SpaceLock
         \/ \E runPostStep \in BOOLEAN : SpaceUnlock(runPostStep)
         \/ \E b \in Body : ActivateBody(b)
         \/ EndLoop
         \/ UNCHANGED vars
  PROVE  UNCHANGED <<Pending, Running>>
<1> USE DEF queue
<1>1. CASE EndLoop
  <2>1. /\ Len(postStepCallbacks) \in Nat /\ next \in Nat
        /\ next > Len(postStepCallbacks) /\ skipPostStep /\ ~inCallback
    BY <1>1 DEF EndLoop, AtEnd, IInv, TypeOK
  <2>2. \A i \in 1..Len(postStepCallbacks) : postStepCallbacks[i].func = "freed"
    BY <2>1 DEF IInv, QueueConsistent
  <2>3. Pending = {} /\ Pending' = {}
    BY <1>1, <2>2 DEF EndLoop, AtEnd, Pending
  <2> QED
    BY <1>1, <2>1, <2>3 DEF EndLoop, AtEnd, Running
<1>2. ASSUME NEW run \in BOOLEAN, SpaceUnlock(run) PROVE UNCHANGED <<Pending, Running>>
  <2>1. /\ UNCHANGED <<postStepCallbacks, inCallback>>
        /\ inCallback => skipPostStep
        /\ skipPostStep => UNCHANGED next
    BY <1>2 DEF SpaceUnlock, Drains, CanUnlock, IInv, CallbacksUnlocked
  <2> QED
    BY <2>1 DEF Pending, Running
<1>3. CASE SpaceLock \/ UNCHANGED vars \/ \E b \in Body : ActivateBody(b)
  BY <1>3 DEF SpaceLock, ActivateBody, vars, Pending, Running
<1> QED
  BY <1>1, <1>2, <1>3

\* The queue implements the abstract promise: a callback that was scheduled runs
\* once, none runs inside another, and a key is taken until its callback returns.
THEOREM Refinement == Spec => RunsOnce
<1>1. IInv /\ [Next]_vars => [Once!Next]_<<Pending, Running>>
  <2> SUFFICES ASSUME IInv, [Next]_vars PROVE [Once!Next]_<<Pending, Running>>
    OBVIOUS
  <2>1. ASSUME NEW k \in Key, AddPostStepCallback(k) PROVE Once!Next
    BY <2>1, AddRefines DEF Once!Next
  <2>2. CASE RunCallback
    BY <2>2, RunRefines DEF Once!Next
  <2>3. CASE CallbackReturns
    BY <2>3, ReturnRefines DEF Once!Next
  <2>4. CASE \/ SpaceLock
             \/ \E runPostStep \in BOOLEAN : SpaceUnlock(runPostStep)
             \/ \E b \in Body : ActivateBody(b)
             \/ EndLoop
             \/ UNCHANGED vars
    BY <2>4, OtherStutters
  <2> QED
    BY <2>1, <2>2, <2>3, <2>4 DEF Next
<1>2. Spec => []IInv
  BY AlwaysIInv
<1> QED
  BY <1>1, <1>2, InitRefines, PTL DEF Spec, RunsOnce, Once!Spec
=============================================================================
