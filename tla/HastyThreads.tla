----------------------------- MODULE HastyThreads -----------------------------
(***************************************************************************)
(* The worker threads of a cpHastySpace: RunWorkers() hands them the       *)
(* solver and waits for them, cpHastySpaceSetThreads() replaces them, and  *)
(* cpHastySpaceFree() halts them.                                          *)
(*                                                                         *)
(* What a thread does between locking the mutex and unlocking it or        *)
(* waiting is one action; a waiting thread that is woken and finds the     *)
(* mutex free is on its next line.  No wakeup is spurious: the code waits  *)
(* without a loop, and relies on that.  num_working and work are also      *)
(* accessed without the mutex, each time in an action of its own.          *)
(***************************************************************************)
EXTENDS Integers, FiniteSets

CONSTANTS
  MaxThreads,      \* MAX_THREADS
  ULong            \* 2^64, the range of unsigned long

ASSUME ThreadsAssumption ==
  /\ MaxThreads \in Nat \ {0}
  /\ ULong \in Nat /\ ULong > MaxThreads

Worker == 1..(MaxThreads - 1)     \* thread 0 is the main thread

VARIABLES
  main,           \* where the main thread is
  worker,         \* where each worker thread is
  num_threads,
  num_working,
  work,           \* "Solver" or "NULL"
  runs            \* history: how often each worker ran work since RunWorkers()
                  \* was called, counted up to 2

vars == <<main, worker, num_threads, num_working, work, runs>>

Created == 1..(num_threads - 1)

\* where main is inside RunWorkers(), and where in SetThreads() or Free()
Running == {"setWork", "broadcast", "solve", "check", "resume", "clear"}
Managing == {"joinSet", "joinFree", "create", "ready"}

-----------------------------------------------------------------------------
(* WorkerThreadLoop() *)

Goes(w, from, to) == worker[w] = from /\ worker' = [worker EXCEPT ![w] = to]

\* pthread_cond_signal(&hasty->cond_resume)
SignalResume ==
  main' = CASE main = "resume" -> "clear"
            [] main = "ready" -> "user"
            [] OTHER -> main

\* the critical section up to the wait for cond_work
WorkerReady(w) ==
  /\ Goes(w, "loop", "wait")
  /\ num_working' = (num_working - 1) % ULong
  /\ IF num_working' = 0 THEN SignalResume ELSE UNCHANGED main
  /\ UNCHANGED <<num_threads, work, runs>>

\* func = hasty->work
WorkerFetch(w) ==
  /\ Goes(w, "woken", IF work = "NULL" THEN "exit" ELSE "call")
  /\ UNCHANGED <<main, num_threads, num_working, work, runs>>

\* hasty->work(...), which reads work again; a call of NULL is a crash
WorkerCall(w) ==
  /\ Goes(w, "call", IF work = "NULL" THEN "crash" ELSE "solve")
  /\ UNCHANGED <<main, num_threads, num_working, work, runs>>

WorkerSolved(w) ==
  /\ Goes(w, "solve", "loop")
  /\ runs' = [runs EXCEPT ![w] = IF @ < 2 THEN @ + 1 ELSE @]
  /\ UNCHANGED <<main, num_threads, num_working, work>>

WorkerStep(w) == WorkerReady(w) \/ WorkerFetch(w) \/ WorkerCall(w) \/ WorkerSolved(w)

-----------------------------------------------------------------------------
(* The main thread *)

MainGoes(from, to) == main = from /\ main' = to

\* pthread_cond_broadcast(&hasty->cond_work)
BroadcastWork ==
  worker' = [w \in Worker |-> IF worker[w] = "wait" THEN "woken" ELSE worker[w]]

\* (faulty: main waits for the first worker only)
RunWorkersFirst ==
  /\ MainGoes("user", "setWork")
  /\ num_working' = IF num_threads > 1 THEN 1 ELSE 0
  /\ runs' = [w \in Worker |-> 0]
  /\ UNCHANGED <<worker, num_threads, work>>

\* RunWorkers(), called by a step that has enough to solve
RunWorkers ==
  /\ MainGoes("user", "setWork")
  /\ num_working' = num_threads - 1
  /\ runs' = [w \in Worker |-> 0]
  /\ UNCHANGED <<worker, num_threads, work>>

SetWork ==
  /\ MainGoes("setWork", IF num_working > 0 THEN "broadcast" ELSE "solve")
  /\ work' = "Solver"
  /\ UNCHANGED <<worker, num_threads, num_working, runs>>

Broadcast ==
  /\ MainGoes("broadcast", "solve")
  /\ BroadcastWork
  /\ UNCHANGED <<num_threads, num_working, work, runs>>

MainSolved ==
  /\ MainGoes("solve", IF Created = {} THEN "clear" ELSE "check")
  /\ UNCHANGED <<worker, num_threads, num_working, work, runs>>

\* (faulty: does not look at num_working, and waits; or does not, and goes on)
WaitAnyway ==
  /\ MainGoes("check", "resume")
  /\ UNCHANGED <<worker, num_threads, num_working, work, runs>>
GoOnAnyway ==
  /\ MainGoes("check", "clear")
  /\ UNCHANGED <<worker, num_threads, num_working, work, runs>>

CheckWorking ==
  /\ MainGoes("check", IF num_working > 0 THEN "resume" ELSE "clear")
  /\ UNCHANGED <<worker, num_threads, num_working, work, runs>>

ClearWork ==
  /\ MainGoes("clear", "user")
  /\ work' = "NULL"
  /\ UNCHANGED <<worker, num_threads, num_working, runs>>

\* HaltThreads(), called by cpHastySpaceSetThreads() or cpHastySpaceFree()
HaltThreads ==
  /\ \E then \in {"joinSet", "joinFree"} : MainGoes("user", then)
  /\ work' = "NULL"
  /\ BroadcastWork
  /\ UNCHANGED <<num_threads, num_working, runs>>

\* (faulty: does not wait for them)
JoinNone ==
  /\ main \in {"joinSet", "joinFree"}
  /\ main' = IF main = "joinSet" THEN "create" ELSE "freed"
  /\ worker' = [w \in Worker |-> IF worker[w] = "exit" THEN "none" ELSE worker[w]]
  /\ UNCHANGED <<num_threads, num_working, work, runs>>

\* pthread_join() of all workers
Join ==
  /\ main \in {"joinSet", "joinFree"}
  /\ \A w \in Created : worker[w] = "exit"
  /\ main' = IF main = "joinSet" THEN "create" ELSE "freed"
  /\ worker' = [w \in Worker |-> IF worker[w] = "exit" THEN "none" ELSE worker[w]]
  /\ UNCHANGED <<num_threads, num_working, work, runs>>

\* The number of threads that cpHastySpaceSetThreads() will really use.
Clamped(threads) == IF threads = 0 THEN 1 ELSE IF threads < MaxThreads THEN threads ELSE MaxThreads

\* The rest of cpHastySpaceSetThreads(): with the mutex locked, create the
\* workers; then wait for cond_resume.
CreateThreads(threads) ==
  LET n == Clamped(threads)
  IN  /\ MainGoes("create", IF n > 1 THEN "ready" ELSE "user")
      /\ num_threads' = n /\ num_working' = n - 1
      /\ worker' = [w \in Worker |-> IF w < n THEN "loop" ELSE "none"]
      /\ UNCHANGED <<work, runs>>

\* cpHastySpaceNew() in the place of the space that was freed
HastySpaceNew ==
  /\ MainGoes("freed", "user")
  /\ num_threads' = 1 /\ num_working' = 0 /\ work' = "NULL"
  /\ UNCHANGED <<worker, runs>>

\* what main does without being asked by the game
MainStep ==
  \/ SetWork \/ Broadcast \/ MainSolved \/ CheckWorking \/ ClearWork \/ Join
  \/ \E threads \in 0..(MaxThreads + 1) : CreateThreads(threads)

-----------------------------------------------------------------------------

Init ==
  /\ main = "user"
  /\ worker = [w \in Worker |-> "none"]
  /\ num_threads = 1 /\ num_working = 0 /\ work = "NULL"
  /\ runs = [w \in Worker |-> 0]

Next ==
  \/ RunWorkers \/ HaltThreads \/ HastySpaceNew
  \/ MainStep
  \/ \E w \in Worker : WorkerStep(w)

Spec == Init /\ [][Next]_vars

\* Every thread that can run does run.
FairSpec == Spec /\ WF_vars(MainStep) /\ \A w \in Worker : WF_vars(WorkerStep(w))

-----------------------------------------------------------------------------
(* Properties *)

TypeOK ==
  /\ main \in {"user", "freed"} \cup Running \cup Managing
  /\ worker \in [Worker -> {"none", "loop", "wait", "woken", "call", "solve", "exit", "crash"}]
  /\ num_threads \in 1..MaxThreads
  /\ num_working \in 0..(ULong - 1)
  /\ work \in {"NULL", "Solver"}
  /\ runs \in [Worker -> 0..2]

\* While the game has control the whole space is its own: every worker waits for
\* work, none is in the solver or on its way there, so callbacks and the rest of
\* the step do not race with it.  Nor does one touch num_working or work when
\* RunWorkers() writes them without the mutex.
WorkersQuiet ==
  main \in {"user", "setWork", "broadcast", "clear"} => \A w \in Created : worker[w] = "wait"

\* RunWorkers() returns when every worker has run the solver exactly once, and
\* none runs it twice.
EachRunsOnce ==
  /\ main = "clear" => \A w \in Created : runs[w] = 1
  /\ \A w \in Worker : worker[w] \in {"woken", "call", "solve"} /\ main \in Running => runs[w] = 0

\* No thread is left that could touch the space after it was freed, and the
\* threads that exist are the first num_threads - 1.
NoThreadLeft ==
  /\ main = "freed" => \A w \in Worker : worker[w] = "none"
  /\ \A w \in Worker \ Created : worker[w] = "none"

\* RunWorkers(), SetThreads() and Free() return: nobody waits for a signal that was
\* already given, nor for a thread that does not exit.
CallsReturn == (main \in Running \cup Managing) ~> (main \in {"user", "freed"})
=============================================================================
