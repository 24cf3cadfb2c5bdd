----------------------------- MODULE ThreadPool -----------------------------
(***************************************************************************)
(* The thread pool (lib/core/src/thread_pool.c) with its only user, the    *)
(* terrain generator (chunk/block/generator.c), which owns the jobs: the   *)
(* main thread enqueues a job and later frees it, workers take jobs from a *)
(* list under a mutex and a condition variable, and at exit the main       *)
(* thread stops and joins the workers.                                     *)
(*                                                                         *)
(* What is abstracted: a job is the chunk it is for; the pool's start.     *)
(*                                                                         *)
(* A definition X_Y is X with a bug; it is used nowhere.                   *)
(***************************************************************************)
EXTENDS Naturals, Sequences, FiniteSets

CONSTANTS
  Job,       \* chunk positions, one job each at a time
  Worker,    \* the pool's threads
  Nobody,    \* nobody holds the mutex; no job
  MaxJobs    \* bound: jobs created in a behaviour

ASSUME NobodyAssumption == Nobody \notin Worker \cup Job
ASSUME BoundAssumption == MaxJobs \in Nat

VARIABLES
  main,      \* where the main thread is
  asking,    \* the chunk it asks for in voxy_block_group_generate
  queue,     \* the list from head to tail
  holder,    \* the worker that holds the mutex between two steps
  shutdown,  \* thread_shutdown
  worker,    \* where each worker is
  running,   \* the job each worker runs
  wrappers,  \* jobs in the generator's table: allocated
  ready,     \* jobs whose block_group has been stored
  created,   \* history: the number of jobs created
  missed     \* history: workers about to wait when the broadcast was made

vars == <<main, asking, queue, holder, shutdown, worker, running, wrappers, ready,
          created, missed>>

Init ==
  /\ main = "frame" /\ asking = Nobody
  /\ queue = <<>> /\ holder = Nobody /\ shutdown = FALSE
  /\ worker = [w \in Worker |-> "lock"] /\ running = [w \in Worker |-> Nobody]
  /\ wrappers = {} /\ ready = {} /\ created = 0 /\ missed = {}
-----------------------------------------------------------------------------
(***************************************************************************)
(* A worker: thread_pool_func.                                             *)
(***************************************************************************)
Lock(w) ==
  /\ worker[w] = "lock" /\ holder = Nobody
  /\ holder' = w
  /\ worker' = [worker EXCEPT ![w] = "test"]
  /\ UNCHANGED <<main, asking, queue, shutdown, running, wrappers, ready, created, missed>>

\* Shutdown is seen.
Leave(w) ==
  /\ worker[w] = "test" /\ shutdown
  /\ holder' = Nobody
  /\ worker' = [worker EXCEPT ![w] = "left"]
  /\ UNCHANGED <<main, asking, queue, shutdown, running, wrappers, ready, created, missed>>

\* There is a job: it is unlinked and the mutex released.
Rest == Tail(queue)

Take(w) ==
  /\ worker[w] = "test" /\ ~shutdown /\ queue # <<>>
  /\ running' = [running EXCEPT ![w] = Head(queue)]
  /\ queue' = Rest
  /\ holder' = Nobody
  /\ worker' = [worker EXCEPT ![w] = "run"]
  /\ UNCHANGED <<main, asking, shutdown, wrappers, ready, created, missed>>

\* There is none: pthread_cond_wait is about to be called with the mutex held...
Idle(w) ==
  /\ worker[w] = "test" /\ ~shutdown /\ queue = <<>>
  /\ worker' = [worker EXCEPT ![w] = "idle"]
  /\ UNCHANGED <<main, asking, queue, holder, shutdown, running, wrappers, ready, created, missed>>

\* ...and releases the mutex as it begins to wait.
Wait(w) ==
  /\ worker[w] = "idle"
  /\ holder' = Nobody
  /\ worker' = [worker EXCEPT ![w] = "wait"]
  /\ UNCHANGED <<main, asking, queue, shutdown, running, wrappers, ready, created, missed>>

\* The standard allows a wait to end without a signal.
Spurious(w) ==
  /\ worker[w] = "wait"
  /\ worker' = [worker EXCEPT ![w] = "lock"]
  /\ UNCHANGED <<main, asking, queue, holder, shutdown, running, wrappers, ready, created, missed>>

\* job_invoke: the last thing it does is to store the group.
Invoke(w) ==
  /\ worker[w] = "run"
  /\ ready' = ready \cup {running[w]}
  /\ running' = [running EXCEPT ![w] = Nobody]
  /\ worker' = [worker EXCEPT ![w] = "lock"]
  /\ UNCHANGED <<main, asking, queue, holder, shutdown, wrappers, created, missed>>
-----------------------------------------------------------------------------
(***************************************************************************)
(* The main thread: voxy_block_group_generate and thread_pool_enqueue.     *)
(***************************************************************************)
Enqueue(j) ==
  /\ main = "frame" /\ j \notin wrappers
  /\ created < MaxJobs
  /\ holder = Nobody
  /\ created' = created + 1
  /\ queue' = Append(queue, j)
  /\ wrappers' = wrappers \cup {j} /\ ready' = ready \ {j}
  /\ asking' = j
  /\ main' = "signal"
  /\ UNCHANGED <<holder, shutdown, worker, running, missed>>

\* pthread_cond_signal wakes a waiting worker if there is one.
Woken_None == {worker}
Woken == {[worker EXCEPT ![w] = "lock"] : w \in {v \in Worker : worker[v] = "wait"}}

Signal ==
  /\ main = "signal"
  /\ IF Woken = {} THEN UNCHANGED worker ELSE worker' \in Woken
  /\ main' = "poll"
  /\ UNCHANGED <<asking, queue, holder, shutdown, running, wrappers, ready, created, missed>>

\* The chunk has a job already.
AskAgain(j) ==
  /\ main = "frame" /\ j \in wrappers
  /\ asking' = j
  /\ main' = "poll"
  /\ UNCHANGED <<queue, holder, shutdown, worker, running, wrappers, ready, created, missed>>

\* The job is freed once its group is there.
MayFree_Always(j) == TRUE
MayFree(j) == j \in ready

PollJob ==
  /\ main = "poll"
  /\ wrappers' = IF MayFree(asking) THEN wrappers \ {asking} ELSE wrappers
  /\ main' = "frame" /\ asking' = Nobody
  /\ UNCHANGED <<queue, holder, shutdown, worker, running, ready, created, missed>>

\* main returns: thread_pool_atexit.
Exit ==
  /\ main = "frame"
  /\ shutdown' = TRUE
  /\ main' = "broadcast"
  /\ UNCHANGED <<asking, queue, holder, worker, running, wrappers, ready, created, missed>>

\* pthread_cond_broadcast, without the mutex.
Broadcast_One ==
  LET woken == CHOOSE w \in Worker : worker[w] = "wait" \/ \A v \in Worker : worker[v] # "wait"
  IN  [worker EXCEPT ![woken] = IF @ = "wait" THEN "lock" ELSE @]
Broadcast ==
  [w \in Worker |-> IF worker[w] = "wait" THEN "lock" ELSE worker[w]]

Stop ==
  /\ main = "broadcast"
  /\ worker' = Broadcast
  /\ missed' = {w \in Worker : worker[w] = "idle"}
  /\ main' = "join"
  /\ UNCHANGED <<asking, queue, holder, shutdown, running, wrappers, ready, created>>

\* Every worker has been joined; the jobs left in the list are destroyed, which
\* does nothing to a terrain job.
Joined ==
  /\ main = "join"
  /\ \A w \in Worker : worker[w] = "left"
  /\ main' = "end"
  /\ UNCHANGED <<asking, queue, holder, shutdown, worker, running, wrappers, ready, created, missed>>
-----------------------------------------------------------------------------
WorkerStep(w) == Lock(w) \/ Leave(w) \/ Take(w) \/ Idle(w) \/ Wait(w) \/ Invoke(w)

Frame == \E j \in Job : Enqueue(j) \/ AskAgain(j)

AtExit == Stop \/ Joined

Next ==
  \/ \E w \in Worker : WorkerStep(w) \/ Spurious(w)
  \/ Frame \/ Signal \/ PollJob
  \/ Exit \/ AtExit

Spec == Init /\ [][Next]_vars

(***************************************************************************)
(* Threads are scheduled, and a thread that wants the mutex gets it at     *)
(* last, although others take it in between.                               *)
(***************************************************************************)
FairSpec ==
  /\ Spec
  /\ WF_vars(Signal) /\ WF_vars(PollJob) /\ WF_vars(AtExit)
  /\ \A w \in Worker : SF_vars(Lock(w)) /\ WF_vars(WorkerStep(w))
-----------------------------------------------------------------------------
(***************************************************************************)
(* Properties.                                                             *)
(***************************************************************************)
\* The pool never holds a job the generator has freed, and a job of the table
\* that is not ready is in one place, once in the list or with one worker: a job
\* is freed after its group was stored, and no worker touches it after that.
PoolHoldsLiveJobs ==
  /\ \A i \in DOMAIN queue : queue[i] \in wrappers
  /\ \A w \in Worker : worker[w] = "run" => running[w] \in wrappers
  /\ \A j \in wrappers \ ready :
       Cardinality({i \in DOMAIN queue : queue[i] = j})
         + Cardinality({w \in Worker : running[w] = j}) = 1

\* A job is run unless the server exits first: no job is left lying while the
\* whole pool sleeps, although signals sent to busy workers are lost.
JobRuns == \A j \in Job : j \in wrappers ~> (j \in ready \/ shutdown)

\* The server exits, but for one case: thread_shutdown is set and broadcast
\* after a worker has looked at it and before it waits, since neither is done
\* under the mutex.  That worker sleeps on and join never returns.
ExitsUnlessMissed == (main = "join" /\ missed = {}) ~> (main = "end")
=============================================================================
