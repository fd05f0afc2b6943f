------------------------------- MODULE ZigHasty -------------------------------
(***************************************************************************)
(* cpHastySpace of the Zig port: a JobQueue that the main thread fills with *)
(* ranges of constraints, arbiters or shapes, and worker threads that take *)
(* them.  A critical section of the queue's mutex is one action; waits are *)
(* loops, and may end for no reason.  A thread can always be spawned, and   *)
(* its context allocated: what a failure leaves behind is not modelled.    *)
(***************************************************************************)
EXTENDS Integers, SequencesExt

CONSTANTS
  MaxWorkers,    \* bound: threads beside the main one
  MaxItems       \* bound: items of one dispatch

ASSUME ZigHastyAssumption == MaxWorkers \in Nat /\ MaxItems \in Nat

\* zmain: where the main thread is; zworker: where each worker is, and its job;
\* zqueue: the JobQueue, the jobs the main thread has still to push and its own, the
\* number of workers, and thread_target for the next ones; zdone: how often each item
\* of this dispatch was executed.
VARIABLES zmain, zworker, zqueue, zdone

zigHastyVars == <<zmain, zworker, zqueue, zdone>>

ZWorker == 1 .. MaxWorkers
None == 1 .. 0
Idle == [at |-> "none", job |-> None]
Workers == 1 .. zqueue.workers

Executed(done, job) == [i \in DOMAIN done |-> IF i \in job THEN done[i] + 1 ELSE done[i]]

\* work_ready: one waiting worker looks again, or all of them do
Woken(w) == [zworker EXCEPT ![w].at = "take"]
Waiting == {w \in Workers : zworker[w].at = "wait"}
Signal == IF Waiting = {} THEN zworker' = zworker ELSE \E w \in Waiting : zworker' = Woken(w)
WakeWorkers ==
  zworker' = [w \in ZWorker |-> IF w \in Waiting THEN [zworker[w] EXCEPT !.at = "take"] ELSE zworker[w]]

-----------------------------------------------------------------------------
(* workerMain() *)

\* take(): the newest job, or none after requestStop()
Take(w) ==
  /\ zworker[w].at = "take"
  /\ IF zqueue.jobs # <<>>
     THEN /\ zworker' = [zworker EXCEPT ![w] = [at |-> "execute", job |-> Last(zqueue.jobs)]]
          /\ zqueue' = [zqueue EXCEPT !.jobs = Front(@)]
     ELSE /\ zworker' = [zworker EXCEPT ![w].at = IF zqueue.shutdown THEN "exit" ELSE "wait"]
          /\ UNCHANGED zqueue
  /\ UNCHANGED <<zmain, zdone>>

\* executeJob()
Execute(w) ==
  /\ zworker[w].at = "execute"
  /\ zworker' = [zworker EXCEPT ![w].at = "complete"]
  /\ zdone' = Executed(zdone, zworker[w].job)
  /\ UNCHANGED <<zmain, zqueue>>

\* (faulty: the workers that wait are told, and not the thread that waits for them)
CompleteUntold(w) ==
  /\ zworker[w].at = "complete"
  /\ zworker' = [zworker EXCEPT ![w] = [at |-> "take", job |-> None]]
  /\ zqueue' = [zqueue EXCEPT !.pending = IF @ = 0 THEN 0 ELSE @ - 1]
  /\ UNCHANGED <<zmain, zdone>>

\* complete()
Complete(w) ==
  /\ zworker[w].at = "complete"
  /\ zworker' = [zworker EXCEPT ![w] = [at |-> "take", job |-> None]]
  /\ zqueue' = [zqueue EXCEPT !.pending = IF @ = 0 THEN 0 ELSE @ - 1]
  /\ zmain' = IF zqueue.pending # 1 THEN zmain
              ELSE CASE zmain = "drained" -> "waitAll" [] zmain = "quiet" -> "settle" [] OTHER -> zmain
  /\ UNCHANGED zdone

ZigWorkerStep(w) == w \in Workers /\ (Take(w) \/ Execute(w) \/ Complete(w))

-----------------------------------------------------------------------------
(* The main thread *)

\* dispatchJobs(): a share for the main thread, and jobs of a share each for the
\* workers; what a share does not divide makes one job more.
Jobs(total) ==
  LET share == total \div (zqueue.workers + 1)
      chunk == IF share = 0 THEN 1 ELSE share
      least(a, b) == IF a < b THEN a ELSE b
  IN  [i \in 1 .. (total + chunk - 1) \div chunk |-> (i - 1) * chunk + 1 .. least(i * chunk, total)]

Dispatch(total) ==
  /\ zmain = "user" /\ zqueue.workers > 0
  /\ zmain' = "push"
  /\ zqueue' = [zqueue EXCEPT !.own = Head(Jobs(total)), !.unpushed = Tail(Jobs(total))]
  /\ zdone' = [i \in 1 .. total |-> 0]
  /\ UNCHANGED zworker

\* push()
PushJob ==
  /\ zmain = "push" /\ zqueue.unpushed # <<>>
  /\ zqueue' = [zqueue EXCEPT !.jobs = Append(@, Head(zqueue.unpushed)), !.unpushed = Tail(@),
                              !.pending = @ + 1]
  /\ Signal
  /\ UNCHANGED <<zmain, zdone>>

\* push() finds no memory: the main thread executes the job.
PushFails ==
  /\ zmain = "push" /\ zqueue.unpushed # <<>>
  /\ zqueue' = [zqueue EXCEPT !.unpushed = Tail(@)]
  /\ zdone' = Executed(zdone, Head(zqueue.unpushed))
  /\ UNCHANGED <<zmain, zworker>>

ExecuteOwn ==
  /\ zmain = "push" /\ zqueue.unpushed = <<>>
  /\ zmain' = "waitAll"
  /\ zdone' = Executed(zdone, zqueue.own)
  /\ zqueue' = [zqueue EXCEPT !.own = None]
  /\ UNCHANGED zworker

\* waitAll(), of a dispatch or of resizeWorkers(), while there is something to wait for
WaitWhile(unfinished) ==
  /\ zmain' = CASE zmain = "waitAll" -> IF unfinished THEN "drained" ELSE "user"
                [] zmain = "settle" -> IF unfinished THEN "quiet"
                                       ELSE IF Workers = {} THEN "spawn" ELSE "stop"
  /\ UNCHANGED <<zworker, zqueue, zdone>>

\* (faulty: waits until the queue is empty)
WaitAllTaken == zmain \in {"waitAll", "settle"} /\ WaitWhile(zqueue.jobs # <<>>)

WaitAll == zmain \in {"waitAll", "settle"} /\ WaitWhile(zqueue.pending > 0)

\* resizeWorkers(), called by setThreads() or deinit()
ResizeWorkers(count) ==
  /\ zmain = "user" /\ count # zqueue.workers
  /\ zmain' = "settle"
  /\ zqueue' = [zqueue EXCEPT !.target = count]
  /\ UNCHANGED <<zworker, zdone>>

RequestStop ==
  /\ zmain = "stop"
  /\ zmain' = "join"
  /\ zqueue' = [zqueue EXCEPT !.shutdown = TRUE]
  /\ WakeWorkers
  /\ UNCHANGED zdone

\* join() of all, and resetAfterStop()
JoinAll ==
  /\ zmain = "join" /\ \A w \in Workers : zworker[w].at = "exit"
  /\ zmain' = "spawn"
  /\ zworker' = [w \in ZWorker |-> Idle]
  /\ zqueue' = [zqueue EXCEPT !.jobs = <<>>, !.pending = 0, !.shutdown = FALSE, !.workers = 0]
  /\ UNCHANGED zdone

\* The rest of resizeWorkers(), if memory and threads can be had.
SpawnWorkers ==
  /\ zmain = "spawn"
  /\ zmain' = "user"
  /\ zworker' = [w \in ZWorker |-> IF w <= zqueue.target THEN [Idle EXCEPT !.at = "take"] ELSE Idle]
  /\ zqueue' = [zqueue EXCEPT !.workers = zqueue.target]
  /\ UNCHANGED zdone

ZigMainStep ==
  PushJob \/ PushFails \/ ExecuteOwn \/ WaitAll \/ RequestStop \/ JoinAll \/ SpawnWorkers

\* A wait ends without a signal.
Spurious ==
  /\ \/ \E w \in Waiting : zworker' = Woken(w) /\ UNCHANGED zmain
     \/ zmain = "drained" /\ zmain' = "waitAll" /\ UNCHANGED zworker
     \/ zmain = "quiet" /\ zmain' = "settle" /\ UNCHANGED zworker
  /\ UNCHANGED <<zqueue, zdone>>

ZigHastyInit ==
  /\ zmain = "user" /\ zworker = [w \in ZWorker |-> Idle] /\ zdone = <<>>
  /\ zqueue = [jobs |-> <<>>, pending |-> 0, shutdown |-> FALSE, unpushed |-> <<>>, own |-> None,
               workers |-> 0, target |-> 0]

ZigHastyNext ==
  \/ \E total \in 1 .. MaxItems : Dispatch(total)
  \/ \E count \in 0 .. MaxWorkers : ResizeWorkers(count)
  \/ ZigMainStep \/ Spurious
  \/ \E w \in ZWorker : ZigWorkerStep(w)

ZigHastySpec == ZigHastyInit /\ [][ZigHastyNext]_zigHastyVars

-----------------------------------------------------------------------------
(* Properties *)

\* A dispatch returns when each of its items was executed once, by whichever thread,
\* and then no worker has a job or is about to get one: the space is the caller's.
\* No item is executed twice, and none is dropped when the workers are replaced.
ZigJobsOnce ==
  /\ zmain = "user" => /\ \A i \in DOMAIN zdone : zdone[i] = 1
                       /\ zqueue.jobs = <<>> /\ zqueue.pending = 0
                       /\ \A w \in ZWorker : zworker[w].at \in {"none", "take", "wait"}
  /\ \A i \in DOMAIN zdone : zdone[i] <= 1

\* dispatchJobs() and resizeWorkers() return, whenever waits are woken.
ZigCallsReturn == (zmain # "user") ~> (zmain = "user")
=============================================================================
