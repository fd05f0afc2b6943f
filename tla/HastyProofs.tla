------------------------------ MODULE HastyProofs ------------------------------
(***************************************************************************)
(* The threads of a cpHastySpace are right for any number of them.  In C   *)
(* the workers are quiet while the game has control, each runs the solver  *)
(* once, and none is left when the space is freed.  In Zig each item of a  *)
(* dispatch is executed once, and a dispatch returns when all are.         *)
(***************************************************************************)
EXTENDS HastyThreads, ZigHasty, FiniteSetTheorems, SequenceTheorems, TLAPS

-----------------------------------------------------------------------------
(* Fork and join in C *)

\* the workers that do not wait for work: those that num_working counts
Unready == {w \in Created : worker[w] # "wait"}

\* RunWorkers() sets num_working to all workers before it wakes them; from then on,
\* and from the creation of workers on, it is the number of those not ready.
Counted ==
  /\ main \in {"setWork", "broadcast"} => num_working = num_threads - 1
  /\ main \in {"user", "solve", "check", "resume", "clear", "ready"} =>
       num_working = Cardinality(Unready)
  /\ main \in {"resume", "ready"} => num_working > 0

\* where the workers can be when main is somewhere
Places ==
  /\ \A w \in Worker \ Created : worker[w] = "none"
  /\ main \in {"user", "setWork", "broadcast", "clear"} => \A w \in Created : worker[w] = "wait"
  /\ main \in {"solve", "check", "resume"} =>
       \A w \in Created : worker[w] \in {"woken", "call", "solve", "loop", "wait"}
  /\ main \in {"joinSet", "joinFree"} => \A w \in Created : worker[w] \in {"woken", "exit"}
  /\ main = "ready" => \A w \in Created : worker[w] \in {"loop", "wait"}
  /\ main \in {"create", "freed"} => \A w \in Worker : worker[w] = "none"

\* work is the solver from before the broadcast until all have run it.
WorkSet == work = IF main \in {"broadcast", "solve", "check", "resume", "clear"} THEN "Solver" ELSE "NULL"

\* Who is back in the loop has run it.
RunsCounted ==
  main \in Running => \A w \in Created :
    runs[w] = IF main \in {"solve", "check", "resume", "clear"} /\ worker[w] \in {"loop", "wait"}
              THEN 1 ELSE 0

IInv == TypeOK /\ Counted /\ Places /\ WorkSet /\ RunsCounted

\* Sets of workers are finite, and there are num_threads - 1 of them.
LEMMA WorkersCount ==
  ASSUME TypeOK
  PROVE  /\ IsFiniteSet(Created) /\ Cardinality(Created) = num_threads - 1
         /\ Created \subseteq Worker
         /\ IsFiniteSet(Unready) /\ Cardinality(Unready) \in Nat
         /\ Cardinality(Unready) = 0 <=> Unready = {}
         /\ Cardinality(Unready) <= num_threads - 1
<1>1. num_threads \in Nat /\ num_threads - 1 \in Nat /\ 1 \in Int /\ num_threads <= MaxThreads
  BY ThreadsAssumption DEF TypeOK
<1>2. IsFiniteSet(Created) /\ Cardinality(Created) = num_threads - 1
  BY <1>1, FS_Interval DEF Created
<1>3. Unready \subseteq Created
  BY DEF Unready
<1>4. IsFiniteSet(Unready) /\ Cardinality(Unready) <= Cardinality(Created)
  BY <1>2, <1>3, FS_Subset
<1>5. Cardinality(Unready) \in Nat /\ (Cardinality(Unready) = 0 <=> Unready = {})
  BY <1>4, FS_CardinalityType, FS_EmptySet
<1> QED
  BY <1>1, <1>2, <1>4, <1>5, ThreadsAssumption DEF Created, Worker

LEMMA InitHolds == Init => IInv
<1> SUFFICES ASSUME Init PROVE IInv
  OBVIOUS
<1>1. Created = {} /\ Unready = {} /\ Cardinality(Unready) = 0
  BY FS_EmptySet DEF Init, Created, Unready
<1> QED
  BY <1>1, ThreadsAssumption DEF Init, IInv, TypeOK, Counted, Places, WorkSet, RunsCounted, Running, Managing

\* A worker comes back for more: num_working counts one less, and the last one lets
\* the main thread go on.
LEMMA ReadyHolds == ASSUME IInv, NEW w \in Worker, WorkerReady(w) PROVE IInv'
<1>1. TypeOK
  BY DEF IInv
<1>2. /\ worker[w] = "loop" /\ worker' = [worker EXCEPT ![w] = "wait"]
      /\ num_threads' = num_threads /\ work' = work /\ runs' = runs /\ Created' = Created
  BY DEF WorkerReady, Goes, Created
<1>3. w \in Created /\ main \in {"solve", "check", "resume", "ready"}
  <2>1. w \in Created
    BY <1>2 DEF IInv, Places
  <2>2. main \in {"user", "freed", "setWork", "broadcast", "solve", "check", "resume", "clear",
                  "joinSet", "joinFree", "create", "ready"}
    BY <1>1 DEF TypeOK, Running, Managing
  <2> QED
    BY <1>2, <2>1, <2>2 DEF IInv, Places
<1>4. num_working = Cardinality(Unready) /\ w \in Unready
  BY <1>2, <1>3 DEF IInv, Counted, Unready
<1>5. /\ Unready' = Unready \ {w}
      /\ Cardinality(Unready') = Cardinality(Unready) - 1
  <2>1. Unready' = Unready \ {w}
    BY <1>1, <1>2, <1>3 DEF Unready, TypeOK
  <2>2. Cardinality(Unready \ {w}) = Cardinality(Unready) - 1
    BY <1>1, <1>4, WorkersCount, FS_RemoveElement
  <2> QED
    BY <2>1, <2>2
<1>6. num_working \in Int /\ num_working - 1 \in Nat /\ num_working - 1 < ULong
  <2>1. Cardinality(Unready) \in Nat /\ Cardinality(Unready) # 0
    BY <1>1, <1>4, WorkersCount
  <2> QED
    BY <1>1, <1>4, <2>1, ThreadsAssumption DEF TypeOK
<1>7. num_working' = num_working - 1
  <2>1. \A n \in Nat, m \in Nat : n < m => n % m = n
    OBVIOUS
  <2>2. num_working' = (num_working - 1) % ULong
    BY DEF WorkerReady
  <2> QED
    BY <1>6, <2>1, <2>2, ThreadsAssumption
<1>8. num_working' = Cardinality(Unready')
  BY <1>4, <1>5, <1>7
<1>9. CASE num_working' = 0
  <2>1. main' = CASE main = "resume" -> "clear" [] main = "ready" -> "user" [] OTHER -> main
    BY <1>9 DEF WorkerReady, SignalResume
  <2>2. main' \in {"solve", "check", "clear", "user"}
    BY <1>3, <2>1
  <2>3. \A v \in Created : worker'[v] = "wait"
    <3>1. Unready' = {}
      BY <1>5, <1>8, <1>9, <1>1, WorkersCount, FS_Subset, FS_EmptySet
    <3> QED
      BY <3>1, <1>2 DEF Unready
  <2>4. TypeOK'
    BY <1>1, <1>2, <1>6, <1>7, <2>2, ThreadsAssumption DEF TypeOK, Running, Managing
  <2>5. Counted'
    BY <1>8, <2>2 DEF Counted
  <2>6. Places'
    BY <1>1, <1>2, <1>3, <2>2, <2>3 DEF IInv, Places, TypeOK
  <2>7. WorkSet'
    BY <1>2, <1>3, <2>1 DEF IInv, WorkSet
  <2>8. RunsCounted'
    BY <1>1, <1>2, <1>3, <2>1, <2>3 DEF IInv, RunsCounted, Running, TypeOK
  <2> QED
    BY <2>4, <2>5, <2>6, <2>7, <2>8 DEF IInv
<1>10. CASE num_working' # 0
  <2>1. main' = main
    BY <1>10 DEF WorkerReady
  <2>2. TypeOK'
    BY <1>1, <1>2, <1>6, <1>7, <2>1, ThreadsAssumption DEF TypeOK
  <2>3. Counted'
    <3>1. num_working' > 0
      BY <1>6, <1>7, <1>10
    <3> QED
      BY <1>3, <1>8, <2>1, <3>1 DEF Counted
  <2>4. Places'
    BY <1>1, <1>2, <1>3, <2>1 DEF IInv, Places, TypeOK
  <2>5. WorkSet' /\ RunsCounted'
    BY <1>1, <1>2, <1>3, <2>1 DEF IInv, WorkSet, RunsCounted, TypeOK
  <2> QED
    BY <2>2, <2>3, <2>4, <2>5 DEF IInv
<1> QED
  BY <1>9, <1>10

\* A worker that was woken: it stays among those that are not ready.
LEMMA WorkerHolds ==
  ASSUME IInv, NEW w \in Worker, WorkerFetch(w) \/ WorkerCall(w) \/ WorkerSolved(w)
  PROVE  IInv'
<1>1. TypeOK
  BY DEF IInv
<1>2. /\ worker[w] \in {"woken", "call", "solve"} /\ UNCHANGED <<main, num_threads, num_working, work>>
      /\ Created' = Created
  BY DEF WorkerFetch, WorkerCall, WorkerSolved, Goes, Created
<1>3. w \in Created /\ main \in {"solve", "check", "resume", "joinSet", "joinFree"}
  <2>1. w \in Created
    BY <1>2 DEF IInv, Places
  <2>2. main \in {"user", "freed", "setWork", "broadcast", "solve", "check", "resume", "clear",
                  "joinSet", "joinFree", "create", "ready"}
    BY <1>1 DEF TypeOK, Running, Managing
  <2> QED
    BY <1>2, <2>1, <2>2 DEF IInv, Places
<1>4. \E at \in {"exit", "call", "solve", "loop"} :
        /\ worker' = [worker EXCEPT ![w] = at]
        /\ at = "exit" => main \in {"joinSet", "joinFree"}
        /\ main \in {"joinSet", "joinFree"} => at = "exit"
        /\ IF at = "loop" THEN runs' = [runs EXCEPT ![w] = 1] ELSE runs' = runs
  <2>1. CASE WorkerFetch(w)
    BY <1>3, <2>1 DEF WorkerFetch, Goes, IInv, WorkSet
  <2>2. CASE WorkerCall(w)
    <3>1. main \notin {"joinSet", "joinFree"} /\ worker' = [worker EXCEPT ![w] = "solve"] /\ runs' = runs
      BY <1>3, <2>2 DEF WorkerCall, Goes, IInv, WorkSet, Places
    <3> QED
      BY <1>3, <3>1
  <2>3. CASE WorkerSolved(w)
    <3>1. main \notin {"joinSet", "joinFree"} /\ worker' = [worker EXCEPT ![w] = "loop"]
      BY <1>3, <2>3 DEF WorkerSolved, Goes, IInv, Places
    <3>2. runs[w] = 0
      BY <1>3, <2>3, <3>1 DEF WorkerSolved, Goes, IInv, RunsCounted, Running
    <3>3. runs' = [runs EXCEPT ![w] = 1]
      BY <2>3, <3>2 DEF WorkerSolved
    <3> QED
      BY <1>3, <3>1, <3>3
  <2> QED
    BY <2>1, <2>2, <2>3
<1>5. PICK at \in {"exit", "call", "solve", "loop"} :
        /\ worker' = [worker EXCEPT ![w] = at]
        /\ at = "exit" => main \in {"joinSet", "joinFree"}
        /\ main \in {"joinSet", "joinFree"} => at = "exit"
        /\ IF at = "loop" THEN runs' = [runs EXCEPT ![w] = 1] ELSE runs' = runs
  BY <1>4
<1>6. Unready' = Unready
  BY <1>1, <1>2, <1>3, <1>5 DEF Unready, TypeOK
<1>7. TypeOK'
  BY <1>1, <1>2, <1>5 DEF TypeOK
<1>8. Counted' /\ WorkSet'
  BY <1>2, <1>6 DEF IInv, Counted, WorkSet
<1>9. Places'
  BY <1>1, <1>2, <1>3, <1>5 DEF IInv, Places, TypeOK
<1>10. RunsCounted'
  <2> SUFFICES ASSUME main' \in Running, NEW v \in Created'
               PROVE  runs'[v] = IF worker'[v] \in {"loop", "wait"} THEN 1 ELSE 0
    BY <1>2, <1>3 DEF RunsCounted, Running
  <2>1. main \in {"solve", "check", "resume"} /\ v \in Created /\ v \in Worker
    BY <1>1, <1>2, <1>3, WorkersCount DEF Running
  <2>2. \A u \in Created : runs[u] = IF worker[u] \in {"loop", "wait"} THEN 1 ELSE 0
    BY <2>1 DEF IInv, RunsCounted, Running
  <2>3. runs \in [Worker -> 0 .. 2] /\ DOMAIN worker = Worker
    BY <1>1 DEF TypeOK
  <2>4. CASE v = w
    BY <1>2, <1>3, <1>5, <2>1, <2>2, <2>3, <2>4
  <2>5. CASE v # w
    BY <1>2, <1>3, <1>5, <2>1, <2>2, <2>3, <2>5
  <2> QED
    BY <2>4, <2>5
<1> QED
  BY <1>7, <1>8, <1>9, <1>10 DEF IInv

\* The main thread within RunWorkers().
LEMMA RunningHolds ==
  ASSUME IInv, RunWorkers \/ SetWork \/ Broadcast \/ MainSolved \/ CheckWorking \/ ClearWork
  PROVE  IInv'
<1>1. TypeOK
  BY DEF IInv
<1>2. num_threads' = num_threads /\ Created' = Created
  BY DEF RunWorkers, SetWork, Broadcast, MainSolved, CheckWorking, ClearWork, Created
<1>3. CASE RunWorkers
  <2>1. num_threads - 1 \in 0 .. (ULong - 1)
    BY <1>1, ThreadsAssumption DEF TypeOK
  <2>2. /\ main = "user" /\ main' = "setWork" /\ num_working' = num_threads - 1
        /\ runs' = [w \in Worker |-> 0] /\ UNCHANGED <<worker, num_threads, work>>
    BY <1>3 DEF RunWorkers, MainGoes
  <2>3. \A w \in Created : runs'[w] = 0
    BY <1>1, <2>2, WorkersCount
  <2>4. TypeOK'
    BY <1>1, <2>1, <2>2 DEF TypeOK, Running
  <2> QED
    BY <1>2, <2>2, <2>3, <2>4 DEF IInv, Counted, Places, WorkSet, RunsCounted
<1>4. CASE SetWork
  <2>1. Unready' = Unready
    BY <1>2, <1>4 DEF SetWork, Unready
  <2>2. main = "setWork" /\ num_working = num_threads - 1 /\ UNCHANGED <<worker, num_working, runs>> /\ work' = "Solver"
    BY <1>4 DEF SetWork, MainGoes, IInv, Counted
  <2>3. main' = IF num_working > 0 THEN "broadcast" ELSE "solve"
    BY <1>4 DEF SetWork, MainGoes
  <2>4. main' = "solve" => Created = {} /\ num_working = 0 /\ Cardinality(Unready) = 0
    <3>1. main' = "solve" => num_threads = 1
      BY <2>2, <2>3, <1>1, ThreadsAssumption DEF TypeOK
    <3>2. num_threads = 1 => Created = {} /\ Unready = {}
      BY DEF Created, Unready
    <3> QED
      BY <2>2, <3>1, <3>2, FS_EmptySet
  <2> QED
    BY <1>1, <1>2, <2>1, <2>2, <2>3, <2>4 DEF IInv, TypeOK, Counted, Places, WorkSet, RunsCounted, Running, Managing
<1>5. CASE Broadcast
  <2>1. /\ main = "broadcast" /\ main' = "solve" /\ num_working = num_threads - 1
        /\ UNCHANGED <<num_working, work, runs>>
        /\ worker' = [w \in Worker |-> IF worker[w] = "wait" THEN "woken" ELSE worker[w]]
    BY <1>5 DEF Broadcast, BroadcastWork, MainGoes, IInv, Counted
  <2>2. \A w \in Created : w \in Worker /\ worker'[w] = "woken"
    BY <1>1, <2>1, WorkersCount DEF IInv, Places
  <2>3. Unready' = Created
    BY <1>2, <2>2 DEF Unready
  <2>4. num_working' = Cardinality(Unready')
    BY <1>1, <2>1, <2>3, WorkersCount
  <2> QED
    BY <1>1, <1>2, <2>1, <2>2, <2>4 DEF IInv, TypeOK, Counted, Places, WorkSet, RunsCounted, Running, Managing
<1>6. CASE MainSolved
  <2>1. Unready' = Unready
    BY <1>2, <1>6 DEF MainSolved, Unready
  <2> QED
    BY <1>1, <1>2, <1>6, <2>1 DEF MainSolved, MainGoes, IInv, TypeOK, Counted, Places, WorkSet, RunsCounted,
       Running, Managing
<1>7. CASE CheckWorking
  <2>1. Unready' = Unready
    BY <1>2, <1>7 DEF CheckWorking, Unready
  <2>2. main' = "clear" => \A w \in Created : worker[w] = "wait"
    <3>1. main' = "clear" => Unready = {}
      BY <1>1, <1>7, WorkersCount DEF CheckWorking, MainGoes, IInv, Counted
    <3> QED
      BY <3>1 DEF Unready
  <2> QED
    BY <1>1, <1>2, <1>7, <2>1, <2>2 DEF CheckWorking, MainGoes, IInv, TypeOK, Counted, Places, WorkSet, RunsCounted,
       Running, Managing
<1>8. CASE ClearWork
  <2>1. Unready' = Unready
    BY <1>2, <1>8 DEF ClearWork, Unready
  <2> QED
    BY <1>1, <1>2, <1>8, <2>1 DEF ClearWork, MainGoes, IInv, TypeOK, Counted, Places, WorkSet, RunsCounted,
       Running, Managing
<1> QED
  BY <1>3, <1>4, <1>5, <1>6, <1>7, <1>8

\* The main thread while it halts, joins and creates workers.
LEMMA ManagingHolds ==
  ASSUME IInv,
         HaltThreads \/ Join \/ HastySpaceNew \/ \E threads \in 0 .. (MaxThreads + 1) : CreateThreads(threads)
  PROVE  IInv'
<1>1. TypeOK
  BY DEF IInv
<1>2. CASE HaltThreads
  <2>1. /\ main = "user" /\ main' \in {"joinSet", "joinFree"} /\ work' = "NULL"
        /\ UNCHANGED <<num_threads, num_working, runs>> /\ Created' = Created
        /\ worker' = [w \in Worker |-> IF worker[w] = "wait" THEN "woken" ELSE worker[w]]
    BY <1>2 DEF HaltThreads, BroadcastWork, MainGoes, Created
  <2>2. \A w \in Created : w \in Worker /\ worker'[w] = "woken"
    BY <1>1, <2>1, WorkersCount DEF IInv, Places
  <2> QED
    BY <1>1, <2>1, <2>2 DEF IInv, TypeOK, Counted, Places, WorkSet, RunsCounted, Running, Managing
<1>3. CASE Join
  <2>1. /\ main' \in {"create", "freed"} /\ work' = work /\ main \in {"joinSet", "joinFree"}
        /\ UNCHANGED <<num_threads, num_working, runs>> /\ Created' = Created
        /\ worker' = [w \in Worker |-> IF worker[w] = "exit" THEN "none" ELSE worker[w]]
    BY <1>3 DEF Join, Created
  <2>2. \A w \in Worker : worker'[w] = "none"
    BY <1>1, <1>3, <2>1 DEF Join, IInv, Places
  <2> QED
    BY <1>1, <2>1, <2>2 DEF IInv, TypeOK, Counted, Places, WorkSet, RunsCounted, Running, Managing
<1>4. CASE HastySpaceNew
  <2>1. Created' = {} /\ Unready' = {} /\ Cardinality(Unready') = 0
    BY <1>4, FS_EmptySet DEF HastySpaceNew, Created, Unready
  <2> QED
    BY <1>1, <1>4, <2>1, ThreadsAssumption DEF HastySpaceNew, MainGoes, IInv, TypeOK, Counted, Places, WorkSet,
       RunsCounted, Running, Managing
<1>5. ASSUME NEW threads \in 0 .. (MaxThreads + 1), CreateThreads(threads) PROVE IInv'
  <2> DEFINE n == Clamped(threads)
  <2>1. n \in 1 .. MaxThreads
    BY ThreadsAssumption DEF Clamped
  <2> HIDE DEF n
  <2>2. /\ main = "create" /\ main' = IF n > 1 THEN "ready" ELSE "user"
        /\ num_threads' = n /\ num_working' = n - 1 /\ UNCHANGED <<work, runs>>
        /\ worker' = [w \in Worker |-> IF w < n THEN "loop" ELSE "none"]
    BY <1>5 DEF CreateThreads, MainGoes, n
  <2>3. Created' = 1 .. (n - 1) /\ Created' \subseteq Worker
    BY <2>1, <2>2, ThreadsAssumption DEF Created, Worker
  <2>4. /\ \A w \in Created' : worker'[w] = "loop"
        /\ \A w \in Worker \ Created' : worker'[w] = "none"
    BY <2>1, <2>2, <2>3, ThreadsAssumption DEF Worker
  <2>5. Unready' = Created'
    BY <2>4 DEF Unready
  <2>6. TypeOK'
    BY <1>1, <2>1, <2>2, ThreadsAssumption DEF TypeOK, Running, Managing
  <2>7. Cardinality(Unready') = n - 1
    BY <2>1, <2>3, <2>5, FS_Interval
  <2>8. Counted'
    BY <2>1, <2>2, <2>7, ThreadsAssumption DEF Counted
  <2>9. Places'
    BY <2>1, <2>2, <2>3, <2>4, ThreadsAssumption DEF Places
  <2>10. WorkSet' /\ RunsCounted'
    BY <2>2 DEF IInv, WorkSet, RunsCounted, Running
  <2> QED
    BY <2>6, <2>8, <2>9, <2>10 DEF IInv
<1> QED
  BY <1>2, <1>3, <1>4, <1>5

LEMMA Stutters == ASSUME IInv, UNCHANGED vars PROVE IInv'
  BY DEF IInv, TypeOK, Counted, Places, WorkSet, RunsCounted, Unready, Created, vars

LEMMA Inductive == ASSUME IInv, [Next]_vars PROVE IInv'
  BY ReadyHolds, WorkerHolds, RunningHolds, ManagingHolds, Stutters DEF Next, MainStep, WorkerStep

LEMMA Invariance == Spec => []IInv
<1>1. IInv /\ [Next]_vars => IInv'
  BY Inductive
<1> QED
  BY InitHolds, <1>1, PTL DEF Spec

\* However many threads there are, all workers wait while the game has control, so
\* neither the rest of the step nor a callback races with the solver (RunWorkers()).
THEOREM Quiet == Spec => []WorkersQuiet
<1>1. IInv => WorkersQuiet
  BY DEF IInv, Places, WorkersQuiet
<1> QED
  BY Invariance, <1>1, PTL

\* Each worker has run the solver once when RunWorkers() returns, and none twice.
THEOREM RunOnce == Spec => []EachRunsOnce
<1>1. IInv => EachRunsOnce
  <2> SUFFICES ASSUME IInv PROVE EachRunsOnce
    OBVIOUS
  <2>1. main = "clear" => \A w \in Created : runs[w] = 1
    BY DEF IInv, Places, RunsCounted, Running
  <2>2. ASSUME NEW w \in Worker, worker[w] \in {"woken", "call", "solve"}, main \in Running
        PROVE  runs[w] = 0
    <3>1. w \in Created
      BY <2>2 DEF IInv, Places
    <3> QED
      BY <2>2, <3>1 DEF IInv, RunsCounted
  <2> QED
    BY <2>1, <2>2 DEF EachRunsOnce
<1> QED
  BY Invariance, <1>1, PTL

\* No thread is left when the space is freed, and HaltThreads() leaves none beyond
\* those that are joined.
THEOREM NoneLeft == Spec => []NoThreadLeft
<1>1. IInv => NoThreadLeft
  BY DEF IInv, Places, NoThreadLeft
<1> QED
  BY Invariance, <1>1, PTL

-----------------------------------------------------------------------------
(* The job queue in Zig *)

Items == DOMAIN zdone
Busy == {w \in ZWorker : zworker[w].at \in {"execute", "complete"}}
Executing == {w \in ZWorker : zworker[w].at = "execute"}

JobSets == Seq(SUBSET Int)

ZTypeOK ==
  /\ zmain \in {"user", "push", "waitAll", "drained", "settle", "quiet", "stop", "join", "spawn"}
  /\ zworker \in [ZWorker -> [at : {"none", "take", "wait", "execute", "complete", "exit"},
                              job : SUBSET Int]]
  /\ zqueue \in [jobs : JobSets, pending : Nat, shutdown : BOOLEAN, unpushed : JobSets,
                 own : SUBSET Int, workers : 0 .. MaxWorkers, target : 0 .. MaxWorkers]
  /\ \A i \in Items : zdone[i] \in {0, 1}

Apart(J) == \A k, l \in 1 .. Len(J) : k # l => J[k] \cap J[l] = {}
Total(J) == UNION {J[k] : k \in 1 .. Len(J)}
Job(w) == zworker[w].job

\* No item is in two jobs of the queue, of the main thread's and of the workers'.
Exclusive ==
  /\ Apart(zqueue.jobs) /\ Apart(zqueue.unpushed)
  /\ Total(zqueue.jobs) \cap Total(zqueue.unpushed) = {}
  /\ zqueue.own \cap (Total(zqueue.jobs) \cup Total(zqueue.unpushed)) = {}
  /\ \A w \in Executing :
       /\ Job(w) \cap (Total(zqueue.jobs) \cup Total(zqueue.unpushed) \cup zqueue.own) = {}
       /\ \A v \in Executing : v # w => Job(v) \cap Job(w) = {}

Undone == {i \in Items : zdone[i] = 0}

\* The items in a job: those that were not executed.
Hands == UNION {Job(w) : w \in Executing}
Claimed == Total(zqueue.jobs) \cup Total(zqueue.unpushed) \cup zqueue.own \cup Hands

\* pending counts what is queued or in a worker's hands.
ZigCounted == zqueue.pending = Len(zqueue.jobs) + Cardinality(Busy)

\* where the workers and jobs are when the main thread is somewhere
ZigPlaces ==
  /\ \A w \in ZWorker \ Workers : zworker[w].at = "none"
  /\ \A w \in Workers : zworker[w].at # "none"
  /\ zmain # "push" => zqueue.unpushed = <<>> /\ zqueue.own = {}
  /\ zmain \notin {"push", "waitAll", "drained", "settle", "quiet"} => zqueue.pending = 0
  /\ zmain \in {"settle", "quiet", "stop", "join", "spawn", "user"} => Undone = {}
  /\ zmain # "join" => ~zqueue.shutdown /\ \A w \in ZWorker : zworker[w].at # "exit"

ZInv == ZTypeOK /\ Exclusive /\ Undone = Claimed /\ ZigCounted /\ ZigPlaces

-----------------------------------------------------------------------------
(* Sequences of jobs *)

LEMMA TotalHas ==
  ASSUME NEW J, NEW x
  PROVE  x \in Total(J) <=> \E k \in 1 .. Len(J) : x \in J[k]
BY DEF Total

LEMMA EmptyJobs ==
  /\ <<>> \in JobSets /\ Len(<<>>) = 0 /\ Total(<<>>) = {} /\ Apart(<<>>)
  /\ \A J \in JobSets : Len(J) = 0 => J = <<>>
<1>1. Len(<<>>) = 0 /\ 1 .. 0 = {} /\ <<>> \in JobSets
  BY DEF JobSets
<1>2. \A J \in JobSets : Len(J) = 0 => J = <<>>
  BY EmptySeq DEF JobSets
<1> QED
  BY <1>1, <1>2 DEF Total, Apart

LEMMA JobAppended ==
  ASSUME NEW J \in JobSets, NEW job \in SUBSET Int
  PROVE  LET K == Append(J, job)
         IN  /\ K \in JobSets /\ Len(K) = Len(J) + 1 /\ Total(K) = Total(J) \cup job
             /\ Apart(J) /\ Total(J) \cap job = {} => Apart(K)
<1> DEFINE K == Append(J, job)
<1>1. /\ K \in JobSets /\ Len(J) \in Nat /\ Len(K) = Len(J) + 1 /\ K[Len(J) + 1] = job
      /\ \A k \in 1 .. Len(J) : K[k] = J[k]
  BY DEF JobSets
<1> HIDE DEF K
<1>2. \A k \in 1 .. Len(K) : \/ k \in 1 .. Len(J) /\ K[k] = J[k]
                             \/ k = Len(J) + 1 /\ K[k] = job
  BY <1>1
<1>3. \A k \in 1 .. Len(J) : k \in 1 .. Len(K)
  BY <1>1
<1>4. Len(J) + 1 \in 1 .. Len(K)
  BY <1>1
<1>5. Total(K) = Total(J) \cup job
  <2>1. ASSUME NEW x PROVE x \in Total(K) <=> x \in Total(J) \cup job
    BY <1>1, <1>2, <1>3, <1>4, TotalHas
  <2> QED
    BY <2>1
<1>6. ASSUME Apart(J), Total(J) \cap job = {} PROVE Apart(K)
  <2>1. \A k \in 1 .. Len(J) : J[k] \cap job = {}
    BY <1>6, TotalHas
  <2> QED
    BY <1>2, <1>6, <2>1 DEF Apart
<1> QED
  BY <1>1, <1>5, <1>6 DEF K

\* Taking a job off either end.
LEMMA JobTaken ==
  ASSUME NEW J \in JobSets, J # <<>>
  PROVE  /\ Tail(J) \in JobSets /\ Len(Tail(J)) = Len(J) - 1 /\ Head(J) \in SUBSET Int
         /\ Front(J) \in JobSets /\ Len(Front(J)) = Len(J) - 1 /\ Last(J) \in SUBSET Int
         /\ Len(J) \in Nat /\ Len(J) > 0
         /\ Total(J) = Head(J) \cup Total(Tail(J)) /\ Total(J) = Last(J) \cup Total(Front(J))
         /\ Apart(J) => /\ Apart(Tail(J)) /\ Head(J) \cap Total(Tail(J)) = {}
                        /\ Apart(Front(J)) /\ Last(J) \cap Total(Front(J)) = {}
<1> DEFINE T == Tail(J)
           F == Front(J)
           n == Len(J)
<1>1. /\ n \in Nat /\ n > 0 /\ T \in JobSets /\ Len(T) = n - 1
      /\ \A k \in 1 .. (n - 1) : T[k] = J[k + 1]
      /\ Head(J) = J[1] /\ \A k \in 1 .. n : J[k] \in SUBSET Int
  BY DEF JobSets
<1>2. /\ F \in JobSets /\ Len(F) = n - 1 /\ \A k \in 1 .. (n - 1) : F[k] = J[k]
      /\ Last(J) = J[n]
  BY <1>1 DEF JobSets, Front, Last
<1> HIDE DEF T, F, n
<1>3. /\ 1 \in 1 .. n /\ n \in 1 .. n
      /\ \A k \in 1 .. (n - 1) : k \in 1 .. n /\ k + 1 \in 1 .. n /\ k # n /\ k + 1 # 1
      /\ \A k \in 1 .. n : k # n => k \in 1 .. (n - 1)
      /\ \A k \in 1 .. n : k # 1 => k - 1 \in 1 .. (n - 1) /\ (k - 1) + 1 = k
      /\ \A k, l \in 1 .. (n - 1) : k # l => k + 1 # l + 1
  BY <1>1
<1>4. \A k \in 1 .. n : k # 1 => T[k - 1] = J[k]
  BY <1>1, <1>3
<1>5. ASSUME NEW x PROVE x \in Total(J) <=> x \in Head(J) \cup Total(T)
  <2>1. x \in Total(T) <=> \E k \in 1 .. (n - 1) : x \in J[k + 1]
    BY <1>1, TotalHas
  <2>2. x \in Total(J) <=> \E k \in 1 .. n : x \in J[k]
    BY TotalHas DEF n
  <2>3. ASSUME x \in Total(J), x \notin J[1] PROVE x \in Total(T)
    <3>1. PICK k \in 1 .. n : x \in J[k]
      BY <2>2, <2>3
    <3>2. k - 1 \in 1 .. (n - 1) /\ (k - 1) + 1 = k
      BY <1>3, <2>3, <3>1
    <3> QED
      BY <2>1, <3>1, <3>2
  <2> QED
    BY <1>1, <1>3, <2>1, <2>2, <2>3
<1>6. ASSUME NEW x PROVE x \in Total(J) <=> x \in Last(J) \cup Total(F)
  <2>1. x \in Total(F) <=> \E k \in 1 .. (n - 1) : x \in J[k]
    BY <1>2, TotalHas
  <2>2. x \in Total(J) <=> \E k \in 1 .. n : x \in J[k]
    BY TotalHas DEF n
  <2> QED
    BY <1>2, <1>3, <2>1, <2>2
<1>7. ASSUME Apart(J)
      PROVE  /\ Apart(T) /\ Head(J) \cap Total(T) = {}
             /\ Apart(F) /\ Last(J) \cap Total(F) = {}
  <2>1. \A k, l \in 1 .. n : k # l => J[k] \cap J[l] = {}
    BY <1>7 DEF Apart, n
  <2>2. Apart(T)
    BY <1>1, <1>3, <2>1, SMTT(30) DEF Apart
  <2>3. Apart(F)
    BY <1>2, <1>3, <2>1 DEF Apart
  <2>4. ASSUME NEW x, x \in Head(J), x \in Total(T) PROVE FALSE
    <3>1. PICK k \in 1 .. (n - 1) : x \in J[k + 1]
      BY <1>1, <2>4, TotalHas
    <3> QED
      BY <1>1, <1>3, <2>1, <2>4, <3>1
  <2>5. ASSUME NEW x, x \in Last(J), x \in Total(F) PROVE FALSE
    <3>1. PICK k \in 1 .. (n - 1) : x \in J[k]
      BY <1>2, <2>5, TotalHas
    <3> QED
      BY <1>2, <1>3, <2>1, <2>5, <3>1
  <2> QED
    BY <2>2, <2>3, <2>4, <2>5
<1>8. Head(J) \in SUBSET Int /\ Last(J) \in SUBSET Int
  BY <1>1, <1>2, <1>3
<1> QED
  BY <1>1, <1>2, <1>5, <1>6, <1>7, <1>8 DEF T, F, n

-----------------------------------------------------------------------------
(* dispatchJobs(): the jobs are a partition of the items. *)

LEMMA Division ==
  ASSUME NEW x \in Nat, NEW c \in Nat, c > 0
  PROVE  x \div c \in Nat /\ c * (x \div c) <= x /\ x < c * (x \div c) + c
OBVIOUS

LEMMA Multiples ==
  ASSUME NEW a \in Nat, NEW b \in Nat, NEW c \in Nat, c > 0
  PROVE  /\ a * c = c * a /\ a * c \in Nat /\ (a + 1) * c = a * c + c
         /\ a < b => (a + 1) * c <= b * c
         /\ a * c < b * c => a < b
<1>1. a * c = c * a /\ a * c \in Nat /\ (a + 1) * c = a * c + c
  OBVIOUS
<1>2. ASSUME NEW d \in Nat, NEW e \in Nat, d <= e PROVE d * c <= e * c
  <2>1. (e - d) \in Nat /\ (e - d) * c \in Nat /\ e * c = d * c + (e - d) * c
    BY <1>2
  <2>2. d * c \in Nat
    OBVIOUS
  <2> QED
    BY <2>1, <2>2
<1>3. a < b => (a + 1) * c <= b * c
  BY <1>2
<1>4. a * c < b * c => a < b
  <2>1. b <= a => b * c <= a * c
    BY <1>2
  <2>2. a * c \in Nat /\ b * c \in Nat
    OBVIOUS
  <2> QED
    BY <2>1, <2>2
<1> QED
  BY <1>1, <1>3, <1>4

LEMMA JobsPartition ==
  ASSUME NEW total \in Nat \ {0}, zqueue.workers \in Nat
  PROVE  /\ Jobs(total) \in JobSets /\ Jobs(total) # <<>>
         /\ Apart(Jobs(total)) /\ Total(Jobs(total)) = 1 .. total
<1> DEFINE share == total \div (zqueue.workers + 1)
           chunk == IF share = 0 THEN 1 ELSE share
           least(a, b) == IF a < b THEN a ELSE b
           n == (total + chunk - 1) \div chunk
           job(i) == (i - 1) * chunk + 1 .. least(i * chunk, total)
           J == Jobs(total)
<1>1. chunk \in Nat /\ chunk > 0
  <2>1. zqueue.workers + 1 \in Nat /\ zqueue.workers + 1 > 0
    OBVIOUS
  <2>2. share \in Nat
    BY <2>1, Division
  <2> HIDE DEF share
  <2> QED
    BY <2>2
<1>2. J = [i \in 1 .. n |-> job(i)]
  BY DEF Jobs
<1> HIDE DEF chunk, share, J
<1>3. n \in Nat /\ n > 0 /\ total <= n * chunk
  <2>1. total + chunk - 1 \in Nat /\ total + chunk - 1 >= chunk
    BY <1>1
  <2>2. n \in Nat /\ chunk * n <= total + chunk - 1 /\ total + chunk - 1 < chunk * n + chunk
    BY <1>1, <2>1, Division
  <2> HIDE DEF n
  <2>3. n * chunk = chunk * n /\ n * chunk \in Nat
    BY <1>1, <2>2, Multiples
  <2>4. n # 0
    <3>1. CASE n = 0
      <4>1. n * chunk = 0
        BY <1>1, <3>1
      <4> QED
        BY <1>1, <2>1, <2>2, <2>3, <4>1
    <3> QED
      BY <3>1
  <2> QED
    BY <1>1, <2>2, <2>3, <2>4
<1> HIDE DEF n
<1>4. ASSUME NEW i \in 1 .. n PROVE (i - 1) * chunk \in Nat /\ i * chunk = (i - 1) * chunk + chunk
  <2>1. i - 1 \in Nat /\ (i - 1) + 1 = i
    BY <1>3
  <2> QED
    BY <1>1, <2>1, Multiples
<1>5. ASSUME NEW i \in 1 .. n, NEW x
      PROVE  x \in job(i) <=> x \in 1 .. total /\ (i - 1) * chunk < x /\ x <= i * chunk
  BY <1>1, <1>3, <1>4
<1>6. J \in JobSets /\ Len(J) = n /\ \A i \in 1 .. n : J[i] = job(i)
  <2>1. \A i \in 1 .. n : job(i) \in SUBSET Int
    BY <1>5
  <2> HIDE DEF job
  <2>2. J \in [1 .. n -> SUBSET Int]
    BY <1>2, <2>1
  <2> QED
    BY <1>2, <1>3, <2>2 DEF JobSets
<1> HIDE DEF job
<1>7. Apart(J)
  <2>1. ASSUME NEW k \in 1 .. n, NEW l \in 1 .. n, k < l PROVE J[k] \cap J[l] = {}
    <3>1. k \in Nat /\ l - 1 \in Nat /\ k <= l - 1
      BY <1>3, <2>1
    <3>2. k * chunk <= (l - 1) * chunk
      <4>1. CASE k = l - 1
        BY <1>4, <3>1, <4>1
      <4>2. CASE k < l - 1
        <5>1. (k + 1) * chunk <= (l - 1) * chunk /\ (k + 1) * chunk = k * chunk + chunk
              /\ k * chunk \in Nat
          BY <1>1, <3>1, <4>2, Multiples
        <5> QED
          BY <1>1, <1>4, <5>1
      <4> QED
        BY <3>1, <4>1, <4>2
    <3>3. k * chunk \in Nat /\ (l - 1) * chunk \in Nat
      BY <1>1, <1>4
    <3>4. ASSUME NEW x, x \in J[k], x \in J[l] PROVE FALSE
      <4>1. x \in 1 .. total /\ x <= k * chunk /\ (l - 1) * chunk < x
        BY <1>5, <1>6, <3>4
      <4> QED
        BY <3>2, <3>3, <4>1
    <3> QED
      BY <3>4
  <2>2. \A k, l \in 1 .. n : k # l => k < l \/ l < k
    BY <1>3
  <2> QED
    BY <1>6, <2>1, <2>2 DEF Apart
<1>8. Total(J) = 1 .. total
  <2>1. ASSUME NEW x \in 1 .. total PROVE x \in Total(J)
    <3> DEFINE d == (x - 1) \div chunk
    <3>1. x - 1 \in Nat
      OBVIOUS
    <3>2. d \in Nat /\ chunk * d <= x - 1 /\ x - 1 < chunk * d + chunk
      BY <1>1, <3>1, Division
    <3> HIDE DEF d
    <3>3. d * chunk = chunk * d /\ d * chunk \in Nat /\ n * chunk \in Nat
      BY <1>1, <1>3, <3>2, Multiples
    <3>4. d * chunk < n * chunk
      BY <1>3, <3>1, <3>2, <3>3
    <3>5. d < n
      BY <1>1, <1>3, <3>2, <3>4, Multiples
    <3>6. d + 1 \in 1 .. n /\ (d + 1) - 1 = d
      BY <1>3, <3>2, <3>5
    <3>7. (d + 1) * chunk = d * chunk + chunk
      BY <1>1, <3>2, Multiples
    <3>8. x \in job(d + 1)
      <4>1. d * chunk < x /\ x <= (d + 1) * chunk
        BY <1>1, <3>2, <3>3, <3>7
      <4> QED
        BY <1>5, <3>6, <4>1
    <3> QED
      BY <1>6, <3>6, <3>8, TotalHas
  <2>2. ASSUME NEW x, x \in Total(J) PROVE x \in 1 .. total
    BY <1>5, <1>6, <2>2, TotalHas
  <2> QED
    BY <2>1, <2>2
<1>9. J # <<>>
  BY <1>3, <1>6, EmptyJobs
<1> QED
  BY <1>6, <1>7, <1>8, <1>9 DEF J

-----------------------------------------------------------------------------
(* What the actions share *)

InHand == {"execute", "complete"}
QueueState ==
  [jobs : JobSets, pending : Nat, shutdown : BOOLEAN, unpushed : JobSets,
   own : SUBSET Int, workers : 0 .. MaxWorkers, target : 0 .. MaxWorkers]
WorkerState == [at : {"none", "take", "wait", "execute", "complete", "exit"}, job : SUBSET Int]

LEMMA Fields ==
  ASSUME ZInv
  PROVE  /\ zqueue.jobs \in JobSets /\ zqueue.unpushed \in JobSets /\ zqueue.own \in SUBSET Int
         /\ zqueue.pending \in Nat /\ zqueue.shutdown \in BOOLEAN
         /\ zqueue.workers \in 0 .. MaxWorkers /\ zqueue.target \in 0 .. MaxWorkers
         /\ zqueue.workers \in Nat /\ Workers \subseteq ZWorker
         /\ \A w \in ZWorker : zworker[w] \in WorkerState /\ Job(w) \in SUBSET Int
         /\ zworker \in [ZWorker -> WorkerState] /\ DOMAIN zworker = ZWorker
         /\ Busy \subseteq ZWorker /\ Executing \subseteq Busy
<1>1. ZTypeOK
  BY DEF ZInv
<1>2. Workers \subseteq ZWorker
  BY <1>1, ZigHastyAssumption DEF ZTypeOK, Workers, ZWorker
<1>3. zworker \in [ZWorker -> WorkerState]
  BY <1>1 DEF ZTypeOK, WorkerState
<1>4. \A w \in ZWorker : zworker[w] \in WorkerState /\ Job(w) \in SUBSET Int
  BY <1>3 DEF WorkerState, Job
<1>5. Busy \subseteq ZWorker /\ Executing \subseteq Busy
  BY DEF Busy, Executing
<1> QED
  BY <1>1, <1>2, <1>3, <1>4, <1>5, ZigHastyAssumption DEF ZTypeOK

LEMMA BusyCounted ==
  ASSUME ZInv
  PROVE  /\ IsFiniteSet(Busy) /\ Cardinality(Busy) \in Nat /\ Len(zqueue.jobs) \in Nat
         /\ zqueue.pending = Len(zqueue.jobs) + Cardinality(Busy)
         /\ zqueue.pending = 0 => zqueue.jobs = <<>> /\ Busy = {}
         /\ Busy # {} => zqueue.pending > 0
<1>1. IsFiniteSet(ZWorker)
  BY ZigHastyAssumption, FS_Interval DEF ZWorker
<1>2. IsFiniteSet(Busy)
  BY <1>1, Fields, FS_Subset
<1>3. Cardinality(Busy) \in Nat /\ (Cardinality(Busy) = 0 <=> Busy = {})
  BY <1>2, FS_CardinalityType, FS_EmptySet
<1>4. Len(zqueue.jobs) \in Nat /\ (Len(zqueue.jobs) = 0 => zqueue.jobs = <<>>)
  BY Fields, EmptyJobs DEF JobSets
<1>5. zqueue.pending = Len(zqueue.jobs) + Cardinality(Busy)
  BY DEF ZInv, ZigCounted
<1> QED
  BY <1>2, <1>3, <1>4, <1>5

\* A job is executed: its items, which nobody had executed, are done.
LEMMA JobExecuted ==
  ASSUME ZInv, NEW job, job \subseteq Claimed, zdone' = Executed(zdone, job)
  PROVE  /\ Items' = Items /\ Undone' = Undone \ job
         /\ \A i \in Items' : zdone'[i] \in {0, 1}
<1>1. /\ \A i \in Items : zdone[i] \in {0, 1}
      /\ \A i \in job : i \in Items /\ zdone[i] = 0
  BY DEF ZInv, ZTypeOK, Undone
<1>2. zdone' = [i \in Items |-> IF i \in job THEN zdone[i] + 1 ELSE zdone[i]]
  BY DEF Executed, Items
<1>3. Items' = Items
  BY <1>2 DEF Items
<1>4. \A i \in Items : zdone'[i] = IF i \in job THEN 1 ELSE zdone[i]
  BY <1>1, <1>2
<1>5. Undone' = Undone \ job
  BY <1>1, <1>3, <1>4 DEF Undone
<1> QED
  BY <1>1, <1>3, <1>4, <1>5

LEMMA HandsApart ==
  ASSUME NEW S, \A w \in Executing : Job(w) \cap S = {}
  PROVE  Hands \cap S = {}
<1>1. ASSUME NEW x, x \in Hands, x \in S PROVE FALSE
  <2>1. PICK w \in Executing : x \in Job(w)
    BY <1>1 DEF Hands
  <2> QED
    BY <1>1, <2>1
<1> QED
  BY <1>1

\* Hands are the same when the same workers hold the same jobs.
LEMMA SameHands ==
  ASSUME Executing' = Executing, \A w \in Executing : Job(w)' = Job(w)
  PROVE  Hands' = Hands
BY DEF Hands

\* Nothing that has to do with jobs changes.
LEMMA ControlHolds ==
  ASSUME ZInv, ZTypeOK', ZigPlaces', UNCHANGED zdone,
         zqueue'.jobs = zqueue.jobs, zqueue'.unpushed = zqueue.unpushed,
         zqueue'.own = zqueue.own, zqueue'.pending = zqueue.pending,
         \A w \in ZWorker : zworker[w].at \in InHand \/ zworker'[w].at \in InHand =>
           zworker'[w] = zworker[w]
  PROVE  ZInv'
<1>1. Busy' = Busy /\ Executing' = Executing /\ \A w \in Executing : Job(w)' = Job(w)
  BY DEF Busy, Executing, Job, InHand
<1>2. Undone' = Undone
  BY DEF Undone, Items
<1>3. Exclusive'
  BY <1>1 DEF ZInv, Exclusive
<1>4. Claimed' = Claimed
  BY <1>1 DEF Claimed, Hands
<1>5. ZigCounted'
  BY <1>1 DEF ZInv, ZigCounted
<1> QED
  BY <1>2, <1>3, <1>4, <1>5 DEF ZInv

\* Workers that move neither leave the threads nor join them.
LEMMA WorkersPlaced ==
  ASSUME ZInv, Workers' = Workers,
         \A w \in ZWorker : \/ zworker'[w] = zworker[w]
                            \/ w \in Workers /\ zworker'[w].at \notin {"none", "exit"}
  PROVE  /\ \A w \in ZWorker \ Workers' : zworker'[w].at = "none"
         /\ \A w \in Workers' : zworker'[w].at # "none"
         /\ zmain # "join" => ~zqueue.shutdown /\ \A w \in ZWorker : zworker'[w].at # "exit"
<1>1. /\ \A w \in ZWorker \ Workers : zworker[w].at = "none"
      /\ \A w \in Workers : zworker[w].at # "none"
      /\ zmain # "join" => ~zqueue.shutdown /\ \A w \in ZWorker : zworker[w].at # "exit"
  BY DEF ZInv, ZigPlaces
<1> QED
  BY <1>1, Fields

-----------------------------------------------------------------------------
(* The workers *)

LEMMA TakeHolds ==
  ASSUME ZInv, NEW w \in Workers, Take(w) PROVE ZInv'
<1>1. /\ zworker[w].at = "take" /\ w \in ZWorker /\ w \notin Busy /\ w \notin Executing
      /\ UNCHANGED <<zmain, zdone>> /\ Undone' = Undone
  BY Fields DEF Take, Busy, Executing, Undone, Items
<1>2. CASE zqueue.jobs = <<>>
  <2>1. /\ zworker' = [zworker EXCEPT ![w].at = IF zqueue.shutdown THEN "exit" ELSE "wait"]
        /\ UNCHANGED zqueue
    BY <1>2 DEF Take
  <2>2. /\ zworker' \in [ZWorker -> WorkerState]
        /\ \A v \in ZWorker : v # w => zworker'[v] = zworker[v]
        /\ zworker'[w].at = IF zqueue.shutdown THEN "exit" ELSE "wait"
    BY <1>1, <2>1, Fields DEF WorkerState
  <2>3. ZTypeOK'
    BY <1>1, <2>1, <2>2 DEF ZInv, ZTypeOK, WorkerState, Items
  <2>4. ZigPlaces'
    <3>1. ZigPlaces
      BY DEF ZInv
    <3> QED
      BY <1>1, <2>1, <2>2, <3>1 DEF ZigPlaces, Workers
  <2> QED
    BY <1>1, <2>1, <2>2, <2>3, <2>4, ControlHolds DEF InHand
<1>3. CASE zqueue.jobs # <<>>
  <2> DEFINE J == zqueue.jobs
  <2>1. /\ zworker' = [zworker EXCEPT ![w] = [at |-> "execute", job |-> Last(J)]]
        /\ zqueue' = [zqueue EXCEPT !.jobs = Front(J)]
    BY <1>3 DEF Take
  <2>2. /\ Front(J) \in JobSets /\ Len(Front(J)) = Len(J) - 1 /\ Last(J) \in SUBSET Int
        /\ Total(J) = Last(J) \cup Total(Front(J)) /\ Len(J) \in Nat
        /\ Apart(J) => Apart(Front(J)) /\ Last(J) \cap Total(Front(J)) = {}
    BY <1>3, Fields, JobTaken
  <2>3. /\ zworker' \in [ZWorker -> WorkerState]
        /\ \A v \in ZWorker : v # w => zworker'[v] = zworker[v]
        /\ zworker'[w].at = "execute" /\ zworker'[w].job = Last(J)
    BY <1>1, <2>1, <2>2, Fields DEF WorkerState
  <2>4. /\ zqueue'.jobs = Front(J) /\ zqueue'.unpushed = zqueue.unpushed
        /\ zqueue'.own = zqueue.own /\ zqueue'.pending = zqueue.pending
        /\ zqueue'.shutdown = zqueue.shutdown /\ zqueue'.workers = zqueue.workers
    BY <2>1 DEF ZInv, ZTypeOK
  <2>5. /\ Executing' = Executing \cup {w} /\ Busy' = Busy \cup {w}
        /\ \A v \in Executing : Job(v)' = Job(v)
        /\ Job(w)' = Last(J)
    BY <1>1, <2>3 DEF Executing, Busy, Job
  <2>6. ZTypeOK'
    BY <1>1, <2>1, <2>2, <2>3 DEF ZInv, ZTypeOK, WorkerState, Items
  <2>7. Exclusive'
    BY <1>1, <2>2, <2>4, <2>5 DEF ZInv, Exclusive
  <2>8. Claimed' = Claimed
    BY <1>1, <2>2, <2>4, <2>5 DEF Claimed, Hands
  <2>9. ZigCounted'
    <3>1. Cardinality(Busy') = Cardinality(Busy) + 1
      BY <1>1, <2>5, BusyCounted, FS_AddElement
    <3> QED
      BY <2>2, <2>4, <3>1, BusyCounted DEF ZigCounted
  <2>10. ZigPlaces'
    <3>1. ZigPlaces
      BY DEF ZInv
    <3> QED
      <4>1. Workers' = Workers /\ zmain' = zmain
        BY <1>1, <2>4 DEF Workers
      <4>2. \A v \in ZWorker : \/ zworker'[v] = zworker[v]
                               \/ v \in Workers /\ zworker'[v].at \notin {"none", "exit"}
        BY <2>3
      <4> QED
        BY <1>1, <2>4, <3>1, <4>1, <4>2, WorkersPlaced DEF ZigPlaces
  <2> QED
    BY <1>1, <2>6, <2>7, <2>8, <2>9, <2>10 DEF ZInv
<1> QED
  BY <1>2, <1>3

LEMMA ExecuteHolds ==
  ASSUME ZInv, NEW w \in Workers, Execute(w) PROVE ZInv'
<1>1. /\ zworker[w].at = "execute" /\ w \in ZWorker /\ w \in Executing /\ UNCHANGED <<zmain, zqueue>>
      /\ zdone' = Executed(zdone, Job(w)) /\ zworker' = [zworker EXCEPT ![w].at = "complete"]
  BY Fields DEF Execute, Executing, Job
<1>2. Job(w) \subseteq Claimed
  BY <1>1 DEF Claimed, Hands
<1>3. /\ Items' = Items /\ Undone' = Undone \ Job(w)
      /\ \A i \in Items' : zdone'[i] \in {0, 1}
  BY <1>1, <1>2, JobExecuted
<1>4. /\ zworker' \in [ZWorker -> WorkerState]
      /\ \A v \in ZWorker : v # w => zworker'[v] = zworker[v]
      /\ zworker'[w].at = "complete"
  BY <1>1, Fields DEF WorkerState
<1>5. /\ Executing' = Executing \ {w} /\ Busy' = Busy
      /\ \A v \in Executing' : Job(v)' = Job(v)
  BY <1>1, <1>4 DEF Executing, Busy, Job
<1>6. ZTypeOK'
  BY <1>1, <1>3, <1>4 DEF ZInv, ZTypeOK, WorkerState
<1>7. Exclusive'
  BY <1>1, <1>5 DEF ZInv, Exclusive
<1>8. Claimed' = Claimed \ Job(w)
  <2>1. /\ Job(w) \cap (Total(zqueue.jobs) \cup Total(zqueue.unpushed) \cup zqueue.own) = {}
        /\ \A v \in Executing : v # w => Job(v) \cap Job(w) = {}
    BY <1>1 DEF ZInv, Exclusive
  <2> QED
    BY <1>1, <1>5, <2>1 DEF Claimed, Hands
<1>9. ZigCounted'
  BY <1>1, <1>5 DEF ZInv, ZigCounted
<1>10. ZigPlaces'
  <2>1. ZigPlaces
    BY DEF ZInv
  <2> QED
    BY <1>1, <1>3, <1>4, <2>1 DEF ZigPlaces, Workers
<1> QED
  BY <1>3, <1>6, <1>7, <1>8, <1>9, <1>10 DEF ZInv

LEMMA CompleteHolds ==
  ASSUME ZInv, NEW w \in Workers, Complete(w) PROVE ZInv'
<1>1. /\ zworker[w].at = "complete" /\ w \in ZWorker /\ w \in Busy /\ w \notin Executing
      /\ zqueue.pending > 0 /\ zqueue.pending \in Nat /\ UNCHANGED zdone /\ Undone' = Undone
      /\ zworker' = [zworker EXCEPT ![w] = [at |-> "take", job |-> None]]
  <2>1. zworker[w].at = "complete" /\ w \in ZWorker /\ w \in Busy /\ w \notin Executing
    BY Fields DEF Complete, Busy, Executing
  <2> QED
    BY <2>1, Fields, BusyCounted DEF Complete, Undone, Items
<1>2. /\ zqueue' = [zqueue EXCEPT !.pending = zqueue.pending - 1]
      /\ zqueue'.jobs = zqueue.jobs /\ zqueue'.unpushed = zqueue.unpushed
      /\ zqueue'.own = zqueue.own /\ zqueue'.pending = zqueue.pending - 1
      /\ zqueue'.shutdown = zqueue.shutdown /\ zqueue'.workers = zqueue.workers
  BY <1>1 DEF Complete, ZInv, ZTypeOK
<1>3. /\ zworker' \in [ZWorker -> WorkerState]
      /\ \A v \in ZWorker : v # w => zworker'[v] = zworker[v]
      /\ zworker'[w].at = "take"
  BY <1>1, Fields DEF WorkerState, None
<1>4. /\ Executing' = Executing /\ Busy' = Busy \ {w}
      /\ \A v \in Executing : Job(v)' = Job(v)
  BY <1>1, <1>3 DEF Executing, Busy, Job
<1>5. \/ zmain' = zmain
      \/ zmain = "drained" /\ zmain' = "waitAll"
      \/ zmain = "quiet" /\ zmain' = "settle"
  BY DEF Complete
<1>6. ZTypeOK'
  BY <1>1, <1>2, <1>3, <1>5 DEF ZInv, ZTypeOK, WorkerState, Items
<1>7. Exclusive'
  BY <1>2, <1>4 DEF ZInv, Exclusive
<1>8. Claimed' = Claimed
  BY <1>2, <1>4 DEF Claimed, Hands
<1>9. ZigCounted'
  <2>1. Cardinality(Busy') = Cardinality(Busy) - 1
    BY <1>1, <1>4, BusyCounted, FS_RemoveElement
  <2> QED
    BY <1>2, <2>1, BusyCounted DEF ZigCounted
<1>10. ZigPlaces'
  <2>1. ZigPlaces
    BY DEF ZInv
  <2> QED
    BY <1>1, <1>2, <1>3, <1>5, <2>1 DEF ZigPlaces, Workers
<1> QED
  BY <1>1, <1>6, <1>7, <1>8, <1>9, <1>10 DEF ZInv

-----------------------------------------------------------------------------
(* The main thread *)

LEMMA DispatchHolds ==
  ASSUME ZInv, NEW total \in 1 .. MaxItems, Dispatch(total) PROVE ZInv'
<1> DEFINE J == Jobs(total)
<1>1. /\ zmain = "user" /\ zmain' = "push" /\ UNCHANGED zworker
      /\ zqueue' = [zqueue EXCEPT !.own = Head(J), !.unpushed = Tail(J)]
      /\ zdone' = [i \in 1 .. total |-> 0]
      /\ total \in Nat \ {0}
  BY ZigHastyAssumption DEF Dispatch
<1>2. zqueue.jobs = <<>> /\ Busy = {} /\ Executing = {} /\ zqueue.pending = 0
  <2>1. zqueue.pending = 0
    BY <1>1 DEF ZInv, ZigPlaces
  <2> QED
    BY <2>1, BusyCounted, Fields
<1>3. J \in JobSets /\ J # <<>> /\ Apart(J) /\ Total(J) = 1 .. total
  BY <1>1, Fields, JobsPartition
<1> HIDE DEF J
<1>4. /\ Tail(J) \in JobSets /\ Head(J) \in SUBSET Int
      /\ Total(J) = Head(J) \cup Total(Tail(J))
      /\ Apart(Tail(J)) /\ Head(J) \cap Total(Tail(J)) = {}
  BY <1>3, JobTaken
<1>5. /\ zqueue'.jobs = zqueue.jobs /\ zqueue'.unpushed = Tail(J)
      /\ zqueue'.own = Head(J) /\ zqueue'.pending = zqueue.pending
      /\ zqueue'.shutdown = zqueue.shutdown /\ zqueue'.workers = zqueue.workers
  BY <1>1 DEF ZInv, ZTypeOK
<1>6. Items' = 1 .. total /\ Undone' = 1 .. total /\ \A i \in Items' : zdone'[i] \in {0, 1}
  BY <1>1 DEF Items, Undone
<1>7. Executing' = {} /\ Busy' = {}
  BY <1>1, <1>2 DEF Executing, Busy
<1>8. ZTypeOK'
  BY <1>1, <1>4, <1>6 DEF ZInv, ZTypeOK
<1>9. Exclusive' /\ Claimed' = 1 .. total
  <2>1. Total(zqueue.jobs) = {} /\ Apart(zqueue.jobs)
    BY <1>2, EmptyJobs
  <2> QED
    BY <1>3, <1>4, <1>5, <1>7, <2>1 DEF Exclusive, Claimed, Hands
<1>10. ZigCounted'
  BY <1>2, <1>5, <1>7 DEF ZInv, ZigCounted
<1>11. ZigPlaces'
  BY <1>1, <1>5 DEF ZInv, ZigPlaces, Workers
<1> QED
  BY <1>6, <1>8, <1>9, <1>10, <1>11 DEF ZInv

\* A signal makes at most a waiting worker look again.
LEMMA SignalKeeps ==
  ASSUME ZInv, Signal
  PROVE  /\ zworker' \in [ZWorker -> WorkerState]
         /\ \A w \in ZWorker :
              \/ zworker'[w] = zworker[w]
              \/ w \in Workers /\ zworker[w].at = "wait" /\ zworker'[w].at = "take"
<1>1. CASE zworker' = zworker
  BY <1>1, Fields
<1>2. ASSUME NEW w \in Waiting, zworker' = Woken(w)
      PROVE  /\ zworker' \in [ZWorker -> WorkerState]
             /\ \A v \in ZWorker :
                  \/ zworker'[v] = zworker[v]
                  \/ v \in Workers /\ zworker[v].at = "wait" /\ zworker'[v].at = "take"
  <2>1. w \in Workers /\ w \in ZWorker /\ zworker[w].at = "wait"
    BY Fields DEF Waiting
  <2>2. /\ zworker' \in [ZWorker -> WorkerState] /\ zworker'[w].at = "take"
        /\ \A v \in ZWorker : v # w => zworker'[v] = zworker[v]
    BY <1>2, <2>1, Fields DEF Woken, WorkerState
  <2> QED
    BY <2>1, <2>2
<1> QED
  BY <1>1, <1>2 DEF Signal

LEMMA PushHolds ==
  ASSUME ZInv, PushJob PROVE ZInv'
<1> DEFINE U == zqueue.unpushed
           J == zqueue.jobs
<1>1. /\ zmain = "push" /\ U # <<>> /\ UNCHANGED <<zmain, zdone>> /\ Undone' = Undone
      /\ zqueue' = [zqueue EXCEPT !.jobs = Append(J, Head(U)), !.unpushed = Tail(U),
                                  !.pending = zqueue.pending + 1]
  BY DEF PushJob, Undone, Items
<1>2. /\ zworker' \in [ZWorker -> WorkerState]
      /\ \A w \in ZWorker :
           \/ zworker'[w] = zworker[w]
           \/ w \in Workers /\ zworker[w].at = "wait" /\ zworker'[w].at = "take"
  BY SignalKeeps DEF PushJob
<1>3. /\ Tail(U) \in JobSets /\ Head(U) \in SUBSET Int
      /\ Total(U) = Head(U) \cup Total(Tail(U))
      /\ Apart(U) => Apart(Tail(U)) /\ Head(U) \cap Total(Tail(U)) = {}
  BY <1>1, Fields, JobTaken
<1>4. /\ Append(J, Head(U)) \in JobSets /\ Len(Append(J, Head(U))) = Len(J) + 1
      /\ Total(Append(J, Head(U))) = Total(J) \cup Head(U)
      /\ Apart(J) /\ Total(J) \cap Head(U) = {} => Apart(Append(J, Head(U)))
  BY <1>3, Fields, JobAppended
<1>5. /\ zqueue'.jobs = Append(J, Head(U)) /\ zqueue'.unpushed = Tail(U)
      /\ zqueue'.own = zqueue.own /\ zqueue'.pending = zqueue.pending + 1
      /\ zqueue'.shutdown = zqueue.shutdown /\ zqueue'.workers = zqueue.workers
  BY <1>1 DEF ZInv, ZTypeOK
<1>6. Executing' = Executing /\ Busy' = Busy /\ \A w \in Executing : Job(w)' = Job(w)
  BY <1>2 DEF Executing, Busy, Job
<1>7. ZTypeOK'
  <2>1. zqueue' \in QueueState
    <3>1. zqueue \in QueueState /\ zqueue.pending + 1 \in Nat
      BY Fields DEF ZInv, ZTypeOK, QueueState
    <3> HIDE DEF U, J
    <3> QED
      BY <1>1, <1>3, <1>4, <3>1 DEF QueueState
  <2> QED
    BY <1>1, <1>2, <2>1 DEF ZInv, ZTypeOK, WorkerState, QueueState, Items
<1>8. Exclusive'
  <2>1. Exclusive
    BY DEF ZInv
  <2> HIDE DEF U, J
  <2>2. /\ Apart(J) /\ Apart(U) /\ Total(J) \cap Total(U) = {}
        /\ zqueue.own \cap (Total(J) \cup Total(U)) = {}
        /\ \A w \in Executing :
             /\ Job(w) \cap (Total(J) \cup Total(U) \cup zqueue.own) = {}
             /\ \A v \in Executing : v # w => Job(v) \cap Job(w) = {}
    BY <2>1 DEF Exclusive, U, J
  <2> QED
    BY <1>3, <1>4, <1>5, <1>6, <2>2 DEF Exclusive
<1>9. Claimed' = Claimed
  <2>1. Claimed = Total(J) \cup Total(U) \cup zqueue.own \cup Hands
    BY DEF Claimed, Hands
  <2> HIDE DEF U, J
  <2> QED
    BY <1>3, <1>4, <1>5, <1>6, <2>1 DEF Claimed, Hands
<1>10. ZigCounted'
  BY <1>4, <1>5, <1>6, BusyCounted DEF ZigCounted
<1>11. ZigPlaces'
  <2>1. ZigPlaces
    BY DEF ZInv
  <2>2. Workers' = Workers
    BY <1>5 DEF Workers
  <2> QED
    BY <1>1, <1>2, <1>5, <2>1, <2>2, WorkersPlaced DEF ZigPlaces
<1> QED
  BY <1>1, <1>7, <1>8, <1>9, <1>10, <1>11 DEF ZInv

LEMMA PushFailsHolds ==
  ASSUME ZInv, PushFails PROVE ZInv'
<1> DEFINE U == zqueue.unpushed
<1>1. /\ zmain = "push" /\ U # <<>> /\ UNCHANGED <<zmain, zworker>>
      /\ zqueue' = [zqueue EXCEPT !.unpushed = Tail(U)]
      /\ zdone' = Executed(zdone, Head(U))
  BY DEF PushFails
<1>2. /\ Tail(U) \in JobSets /\ Total(U) = Head(U) \cup Total(Tail(U))
      /\ Apart(U) => Apart(Tail(U)) /\ Head(U) \cap Total(Tail(U)) = {}
  BY <1>1, Fields, JobTaken
<1>3. /\ zqueue'.jobs = zqueue.jobs /\ zqueue'.unpushed = Tail(U)
      /\ zqueue'.own = zqueue.own /\ zqueue'.pending = zqueue.pending
      /\ zqueue'.shutdown = zqueue.shutdown /\ zqueue'.workers = zqueue.workers
  BY <1>1 DEF ZInv, ZTypeOK
<1>4. Executing' = Executing /\ Busy' = Busy /\ \A w \in Executing : Job(w)' = Job(w)
  BY <1>1 DEF Executing, Busy, Job
<1>5. /\ Items' = Items /\ Undone' = Undone \ Head(U) /\ \A i \in Items' : zdone'[i] \in {0, 1}
  <2>1. Head(U) \subseteq Claimed
    BY <1>2 DEF Claimed, Hands
  <2> QED
    BY <1>1, <2>1, JobExecuted
<1>6. ZTypeOK'
  BY <1>1, <1>2, <1>5 DEF ZInv, ZTypeOK
<1>7. Exclusive' /\ Claimed' = Claimed \ Head(U)
  <2>1. Exclusive
    BY DEF ZInv
  <2> HIDE DEF U
  <2>2. /\ Apart(zqueue.jobs) /\ Apart(U) /\ Total(zqueue.jobs) \cap Total(U) = {}
        /\ zqueue.own \cap (Total(zqueue.jobs) \cup Total(U)) = {}
        /\ \A w \in Executing :
             /\ Job(w) \cap (Total(zqueue.jobs) \cup Total(U) \cup zqueue.own) = {}
             /\ \A v \in Executing : v # w => Job(v) \cap Job(w) = {}
    BY <2>1 DEF Exclusive, U
  <2>3. Exclusive'
    BY <1>2, <1>3, <1>4, <2>2 DEF Exclusive
  <2>4. Claimed = Total(zqueue.jobs) \cup Total(U) \cup zqueue.own \cup Hands
    BY DEF Claimed, U
  <2>5. Claimed' = Total(zqueue.jobs) \cup Total(Tail(U)) \cup zqueue.own \cup Hands
    BY <1>3, <1>4, SameHands DEF Claimed
  <2>6. Hands \cap Head(U) = {}
    <3>1. \A w \in Executing : Job(w) \cap Head(U) = {}
      BY <1>2, <2>2
    <3> QED
      BY <3>1, HandsApart
  <2>7. Head(U) \cap (Total(zqueue.jobs) \cup Total(Tail(U)) \cup zqueue.own) = {}
    BY <1>2, <2>2
  <2> QED
    BY <1>2, <2>3, <2>4, <2>5, <2>6, <2>7
<1>8. ZigCounted'
  BY <1>3, <1>4 DEF ZInv, ZigCounted
<1>9. ZigPlaces'
  BY <1>1, <1>3 DEF ZInv, ZigPlaces, Workers
<1> QED
  BY <1>5, <1>6, <1>7, <1>8, <1>9 DEF ZInv

LEMMA OwnHolds ==
  ASSUME ZInv, ExecuteOwn PROVE ZInv'
<1> DEFINE own == zqueue.own
<1>1. /\ zmain = "push" /\ zmain' = "waitAll" /\ zqueue.unpushed = <<>> /\ UNCHANGED zworker
      /\ zqueue' = [zqueue EXCEPT !.own = None] /\ None = {}
      /\ zdone' = Executed(zdone, own)
  BY DEF ExecuteOwn, None
<1>2. /\ zqueue'.jobs = zqueue.jobs /\ zqueue'.unpushed = zqueue.unpushed
      /\ zqueue'.own = {} /\ zqueue'.pending = zqueue.pending
      /\ zqueue'.shutdown = zqueue.shutdown /\ zqueue'.workers = zqueue.workers
  BY <1>1 DEF ZInv, ZTypeOK
<1>3. Executing' = Executing /\ Busy' = Busy /\ \A w \in Executing : Job(w)' = Job(w)
  BY <1>1 DEF Executing, Busy, Job
<1>4. /\ Items' = Items /\ Undone' = Undone \ own /\ \A i \in Items' : zdone'[i] \in {0, 1}
  <2>1. own \subseteq Claimed
    BY DEF Claimed, Hands
  <2> QED
    BY <1>1, <2>1, JobExecuted
<1>5. ZTypeOK'
  BY <1>1, <1>4 DEF ZInv, ZTypeOK
<1>6. Exclusive' /\ Claimed' = Claimed \ own
  <2>1. Exclusive
    BY DEF ZInv
  <2>2. Exclusive'
    BY <1>2, <1>3, <2>1 DEF Exclusive
  <2>3. Claimed' = Total(zqueue.jobs) \cup Total(zqueue.unpushed) \cup Hands
    BY <1>2, <1>3, SameHands DEF Claimed
  <2>4. Hands \cap own = {}
    <3>1. \A w \in Executing : Job(w) \cap own = {}
      BY <2>1 DEF Exclusive
    <3> QED
      BY <3>1, HandsApart
  <2> QED
    BY <2>1, <2>2, <2>3, <2>4 DEF Claimed, Exclusive
<1>7. ZigCounted'
  BY <1>2, <1>3 DEF ZInv, ZigCounted
<1>8. ZigPlaces'
  BY <1>1, <1>2 DEF ZInv, ZigPlaces, Workers
<1> QED
  BY <1>4, <1>5, <1>6, <1>7, <1>8 DEF ZInv

\* A dispatch that returns has no job left, so nothing is undone.
LEMMA WaitAllHolds ==
  ASSUME ZInv, WaitAll PROVE ZInv'
<1>1. /\ zmain \in {"waitAll", "settle"} /\ UNCHANGED <<zworker, zqueue, zdone>>
      /\ \/ zmain = "waitAll" /\ zmain' = "drained"
         \/ zmain = "settle" /\ zmain' = "quiet"
         \/ zmain = "waitAll" /\ zmain' = "user" /\ zqueue.pending = 0
         \/ zmain = "settle" /\ zmain' \in {"spawn", "stop"} /\ zqueue.pending = 0
  <2>1. CASE zqueue.pending > 0
    BY <2>1 DEF WaitAll, WaitWhile
  <2>2. CASE ~(zqueue.pending > 0)
    <3>1. zqueue.pending = 0
      BY <2>2, Fields
    <3> QED
      BY <2>2, <3>1 DEF WaitAll, WaitWhile
  <2> QED
    BY <2>1, <2>2
<1>2. zqueue.pending = 0 /\ zmain = "waitAll" => Undone = {}
  <2> SUFFICES ASSUME zqueue.pending = 0, zmain = "waitAll" PROVE Undone = {}
    OBVIOUS
  <2>1. zqueue.jobs = <<>> /\ Executing = {}
    BY BusyCounted, Fields
  <2>2. zqueue.unpushed = <<>> /\ zqueue.own = {}
    BY DEF ZInv, ZigPlaces
  <2> QED
    BY <2>1, <2>2, EmptyJobs DEF ZInv, Claimed, Hands
<1>3. Undone' = Undone
  BY <1>1 DEF Undone, Items
<1>4. ZigPlaces'
  BY <1>1, <1>2, <1>3 DEF ZInv, ZigPlaces, Workers
<1>5. ZTypeOK'
  BY <1>1 DEF ZInv, ZTypeOK, Items
<1> QED
  BY <1>1, <1>4, <1>5, ControlHolds

LEMMA ResizeHolds ==
  ASSUME ZInv, NEW count \in 0 .. MaxWorkers, ResizeWorkers(count) PROVE ZInv'
<1>1. /\ zmain = "user" /\ zmain' = "settle" /\ UNCHANGED <<zworker, zdone>>
      /\ zqueue' = [zqueue EXCEPT !.target = count] /\ Undone' = Undone
  BY DEF ResizeWorkers, Undone, Items
<1>2. /\ zqueue'.jobs = zqueue.jobs /\ zqueue'.unpushed = zqueue.unpushed
      /\ zqueue'.own = zqueue.own /\ zqueue'.pending = zqueue.pending
      /\ zqueue'.shutdown = zqueue.shutdown /\ zqueue'.workers = zqueue.workers
  BY <1>1 DEF ZInv, ZTypeOK
<1>3. ZTypeOK'
  BY <1>1 DEF ZInv, ZTypeOK, Items
<1>4. ZigPlaces'
  BY <1>1, <1>2 DEF ZInv, ZigPlaces, Workers
<1> QED
  BY <1>1, <1>2, <1>3, <1>4, ControlHolds

LEMMA StopHolds ==
  ASSUME ZInv, RequestStop PROVE ZInv'
<1>1. /\ zmain = "stop" /\ zmain' = "join" /\ UNCHANGED zdone /\ Undone' = Undone
      /\ zqueue' = [zqueue EXCEPT !.shutdown = TRUE]
      /\ zworker' = [w \in ZWorker |->
           IF w \in Waiting THEN [zworker[w] EXCEPT !.at = "take"] ELSE zworker[w]]
  BY DEF RequestStop, WakeWorkers, Undone, Items
<1>2. /\ zqueue'.jobs = zqueue.jobs /\ zqueue'.unpushed = zqueue.unpushed
      /\ zqueue'.own = zqueue.own /\ zqueue'.pending = zqueue.pending
      /\ zqueue'.workers = zqueue.workers
  BY <1>1 DEF ZInv, ZTypeOK
<1>3. /\ zworker' \in [ZWorker -> WorkerState]
      /\ \A w \in ZWorker :
           \/ zworker'[w] = zworker[w]
           \/ w \in Workers /\ zworker[w].at = "wait" /\ zworker'[w].at = "take"
  BY <1>1, Fields DEF Waiting, WorkerState
<1>4. ZTypeOK'
  BY <1>1, <1>3 DEF ZInv, ZTypeOK, WorkerState, Items
<1>5. ZigPlaces'
  <2>1. ZigPlaces
    BY DEF ZInv
  <2>2. Workers' = Workers
    BY <1>2 DEF Workers
  <2> QED
    BY <1>1, <1>2, <1>3, <2>1, <2>2, WorkersPlaced DEF ZigPlaces
<1> QED
  BY <1>1, <1>2, <1>3, <1>4, <1>5, ControlHolds DEF InHand

LEMMA JoinHolds ==
  ASSUME ZInv, JoinAll PROVE ZInv'
<1>1. /\ zmain = "join" /\ zmain' = "spawn" /\ UNCHANGED zdone /\ Undone' = Undone
      /\ zworker' = [w \in ZWorker |-> Idle]
      /\ zqueue' = [zqueue EXCEPT !.jobs = <<>>, !.pending = 0, !.shutdown = FALSE, !.workers = 0]
  BY DEF JoinAll, Undone, Items
<1>2. zqueue.pending = 0 /\ zqueue.jobs = <<>> /\ Busy = {}
  <2>1. zqueue.pending = 0
    BY <1>1 DEF ZInv, ZigPlaces
  <2> QED
    BY <2>1, BusyCounted
<1>3. /\ zqueue'.jobs = zqueue.jobs /\ zqueue'.unpushed = zqueue.unpushed
      /\ zqueue'.own = zqueue.own /\ zqueue'.pending = zqueue.pending
      /\ ~zqueue'.shutdown /\ zqueue'.workers = 0
  BY <1>1, <1>2 DEF ZInv, ZTypeOK
<1>4. /\ zworker' \in [ZWorker -> WorkerState]
      /\ \A w \in ZWorker : zworker'[w].at = "none"
  BY <1>1 DEF Idle, None, WorkerState
<1>5. ZTypeOK'
  <2>1. zqueue' \in QueueState
    <3>1. zqueue \in QueueState /\ <<>> \in JobSets /\ 0 \in 0 .. MaxWorkers
      BY EmptyJobs, ZigHastyAssumption DEF ZInv, ZTypeOK, QueueState
    <3> QED
      BY <1>1, <3>1 DEF QueueState
  <2> QED
    BY <1>1, <1>4, <2>1 DEF ZInv, ZTypeOK, WorkerState, QueueState, Items
<1>6. ZigPlaces'
  BY <1>1, <1>2, <1>3, <1>4 DEF ZInv, ZigPlaces, Workers
<1> QED
  BY <1>1, <1>2, <1>3, <1>4, <1>5, <1>6, ControlHolds DEF InHand, Busy

LEMMA SpawnHolds ==
  ASSUME ZInv, SpawnWorkers PROVE ZInv'
<1>1. /\ zmain = "spawn" /\ zmain' = "user" /\ UNCHANGED zdone /\ Undone' = Undone
      /\ zworker' = [w \in ZWorker |->
           IF w <= zqueue.target THEN [Idle EXCEPT !.at = "take"] ELSE Idle]
      /\ zqueue' = [zqueue EXCEPT !.workers = zqueue.target]
      /\ zqueue.target \in 0 .. MaxWorkers
  BY Fields DEF SpawnWorkers, Undone, Items
<1>2. zqueue.pending = 0 /\ Busy = {}
  <2>1. zqueue.pending = 0
    BY <1>1 DEF ZInv, ZigPlaces
  <2> QED
    BY <2>1, BusyCounted
<1>3. /\ zqueue'.jobs = zqueue.jobs /\ zqueue'.unpushed = zqueue.unpushed
      /\ zqueue'.own = zqueue.own /\ zqueue'.pending = zqueue.pending
      /\ zqueue'.shutdown = zqueue.shutdown /\ zqueue'.workers = zqueue.target
  BY <1>1 DEF ZInv, ZTypeOK
<1>4. /\ zworker' \in [ZWorker -> WorkerState]
      /\ \A w \in ZWorker : zworker'[w].at = IF w <= zqueue.target THEN "take" ELSE "none"
  BY <1>1 DEF Idle, None, WorkerState
<1>5. ZTypeOK'
  BY <1>1, <1>4 DEF ZInv, ZTypeOK, WorkerState, Items
<1>6. ZigPlaces'
  <2>1. ZigPlaces
    BY DEF ZInv
  <2>2. \A w \in ZWorker : w \in Workers' <=> w <= zqueue.target
    BY <1>1, <1>3, ZigHastyAssumption DEF Workers, ZWorker
  <2>3. Workers' \subseteq ZWorker
    BY <1>1, <1>3, ZigHastyAssumption DEF Workers, ZWorker
  <2> QED
    BY <1>1, <1>2, <1>3, <1>4, <2>1, <2>2, <2>3 DEF ZigPlaces
<1> QED
  BY <1>1, <1>2, <1>3, <1>4, <1>5, <1>6, ControlHolds DEF InHand, Busy

LEMMA SpuriousHolds ==
  ASSUME ZInv, Spurious PROVE ZInv'
<1>1. UNCHANGED <<zqueue, zdone>> /\ Undone' = Undone /\ Workers' = Workers
  BY DEF Spurious, Undone, Items, Workers
<1>2. /\ zmain' \in {"user", "push", "waitAll", "drained", "settle", "quiet", "stop", "join", "spawn"}
      /\ \/ zmain' = zmain
         \/ zmain = "drained" /\ zmain' = "waitAll"
         \/ zmain = "quiet" /\ zmain' = "settle"
  BY DEF Spurious, ZInv, ZTypeOK
<1>3. /\ zworker' \in [ZWorker -> WorkerState]
      /\ \A w \in ZWorker :
           \/ zworker'[w] = zworker[w]
           \/ w \in Workers /\ zworker[w].at = "wait" /\ zworker'[w].at = "take"
  <2>1. zworker' = zworker \/ \E w \in Waiting : zworker' = Woken(w)
    BY DEF Spurious
  <2>2. CASE zworker' = zworker
    BY <2>2, Fields
  <2>3. CASE \E w \in Waiting : zworker' = Woken(w)
    BY <2>3, SignalKeeps DEF Signal
  <2> QED
    BY <2>1, <2>2, <2>3
<1>4. ZTypeOK'
  BY <1>1, <1>2, <1>3 DEF ZInv, ZTypeOK, WorkerState, Items
<1>5. ZigPlaces'
  <2>1. ZigPlaces
    BY DEF ZInv
  <2> QED
    BY <1>1, <1>2, <1>3, <2>1, WorkersPlaced DEF ZigPlaces
<1> QED
  BY <1>1, <1>3, <1>4, <1>5, ControlHolds DEF InHand

-----------------------------------------------------------------------------

LEMMA ZigInitHolds == ZigHastyInit => ZInv
<1> SUFFICES ASSUME ZigHastyInit PROVE ZInv
  OBVIOUS
<1>1. /\ zmain = "user" /\ zworker = [w \in ZWorker |-> Idle] /\ zdone = <<>>
      /\ zqueue.jobs = <<>> /\ zqueue.unpushed = <<>> /\ zqueue.own = {} /\ zqueue.pending = 0
      /\ zqueue.shutdown = FALSE /\ zqueue.workers = 0 /\ zqueue.target = 0
  BY DEF ZigHastyInit, None
<1>2. Items = {} /\ Undone = {} /\ Workers = {}
  BY <1>1 DEF Items, Undone, Workers
<1>3. Busy = {} /\ Executing = {} /\ \A w \in ZWorker : zworker[w].at = "none"
  BY <1>1 DEF Busy, Executing, Idle
<1>4. ZTypeOK
  BY <1>1, <1>2, EmptyJobs, ZigHastyAssumption DEF ZigHastyInit, ZTypeOK, Idle, None
<1>5. Exclusive /\ Claimed = {}
  BY <1>1, <1>3, EmptyJobs DEF Exclusive, Claimed, Hands
<1>6. ZigCounted
  BY <1>1, <1>3, EmptyJobs, FS_EmptySet DEF ZigCounted
<1>7. ZigPlaces
  BY <1>1, <1>2, <1>3 DEF ZigPlaces
<1> QED
  BY <1>2, <1>4, <1>5, <1>6, <1>7 DEF ZInv

LEMMA NextHolds == ZInv /\ [ZigHastyNext]_zigHastyVars => ZInv'
<1> SUFFICES ASSUME ZInv, [ZigHastyNext]_zigHastyVars PROVE ZInv'
  OBVIOUS
<1>1. CASE \E total \in 1 .. MaxItems : Dispatch(total)
  BY <1>1, DispatchHolds
<1>2. CASE \E count \in 0 .. MaxWorkers : ResizeWorkers(count)
  BY <1>2, ResizeHolds
<1>3. CASE ZigMainStep
  BY <1>3, PushHolds, PushFailsHolds, OwnHolds, WaitAllHolds, StopHolds, JoinHolds, SpawnHolds
     DEF ZigMainStep
<1>4. CASE Spurious
  BY <1>4, SpuriousHolds
<1>5. CASE \E w \in ZWorker : ZigWorkerStep(w)
  BY <1>5, TakeHolds, ExecuteHolds, CompleteHolds DEF ZigWorkerStep
<1>6. CASE UNCHANGED zigHastyVars
  BY <1>6 DEF zigHastyVars, ZInv, ZTypeOK, Items, Exclusive, Undone, Claimed, Hands, ZigCounted, ZigPlaces,
              Busy, Executing, Job, Workers
<1> QED
  BY <1>1, <1>2, <1>3, <1>4, <1>5, <1>6 DEF ZigHastyNext

\* For any numbers of workers and items, however waits end and wherever memory runs out:
\* a dispatch of the Zig cpHastySpace returns when each of its items was executed, no item
\* is executed twice, and then no worker has a job (dispatchJobs(), workerMain()).
THEOREM JobsRunOnce == ZigHastySpec => []ZigJobsOnce
<1>1. ZInv => ZigJobsOnce
  <2> SUFFICES ASSUME ZInv PROVE ZigJobsOnce
    OBVIOUS
  <2>1. \A i \in DOMAIN zdone : zdone[i] \in {0, 1}
    BY DEF ZInv, ZTypeOK, Items
  <2>2. ASSUME zmain = "user"
        PROVE  /\ \A i \in DOMAIN zdone : zdone[i] = 1
               /\ zqueue.jobs = <<>> /\ zqueue.pending = 0
               /\ \A w \in ZWorker : zworker[w].at \in {"none", "take", "wait"}
    <3>1. zqueue.pending = 0 /\ Undone = {} /\ \A w \in ZWorker : zworker[w].at # "exit"
      BY <2>2 DEF ZInv, ZigPlaces
    <3>2. zqueue.jobs = <<>> /\ Busy = {}
      BY <3>1, BusyCounted
    <3>3. \A w \in ZWorker :
            zworker[w].at \in {"none", "take", "wait", "execute", "complete", "exit"}
      BY Fields DEF WorkerState
    <3> QED
      BY <2>1, <3>1, <3>2, <3>3 DEF Undone, Items, Busy
  <2> QED
    BY <2>1, <2>2 DEF ZigJobsOnce
<1>2. ZigHastySpec => []ZInv
  BY ZigInitHolds, NextHolds, PTL DEF ZigHastySpec
<1> QED
  BY <1>1, <1>2, PTL
=============================================================================
