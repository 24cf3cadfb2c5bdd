-------------------------- MODULE ThreadPoolProofs --------------------------
(***************************************************************************)
(* Proofs about ThreadPool, for any jobs, workers and bound.               *)
(***************************************************************************)
EXTENDS ThreadPool, Lemmas, FiniteSetTheorems

\* Every variable holds a value of its kind.
TypeOK ==
  /\ main \in {"frame", "signal", "poll", "broadcast", "join", "end"}
  /\ asking \in Job \cup {Nobody}
  /\ queue \in Seq(Job)
  /\ worker \in [Worker -> {"lock", "test", "idle", "wait", "run", "left"}]
  /\ running \in [Worker -> Job \cup {Nobody}]
  /\ wrappers \subseteq Job /\ ready \subseteq Job

\* A worker has a job exactly while it runs one, and the main thread has asked
\* for a chunk exactly when it is about to look at its job.
BusyRight ==
  /\ \A w \in Worker : worker[w] = "run" <=> running[w] # Nobody
  /\ main \in {"signal", "poll"} => asking \in Job

Waiting == wrappers \ ready

\* The list and the workers hold jobs that wait for their group, each of these
\* once, and hold all of them.
EachInOnePlace ==
  /\ \A i \in 1 .. Len(queue) : queue[i] \in Waiting
  /\ \A w \in Worker : running[w] # Nobody => running[w] \in Waiting
  /\ \A i, k \in 1 .. Len(queue) : queue[i] = queue[k] => i = k
  /\ \A v, w \in Worker : running[v] = running[w] /\ running[v] # Nobody => v = w
  /\ \A i \in 1 .. Len(queue), w \in Worker : queue[i] # running[w]
  /\ \A j \in Waiting : \/ \E i \in 1 .. Len(queue) : queue[i] = j
                        \/ \E w \in Worker : running[w] = j

PoolInv == TypeOK /\ BusyRight /\ EachInOnePlace
-----------------------------------------------------------------------------
\* Initially the pool is empty and the workers have no jobs.
LEMMA PoolInit == Init => PoolInv
BY DEF Init, PoolInv, TypeOK, BusyRight, EachInOnePlace, Waiting

\* A worker that only takes or gives up the mutex, waits or wakes keeps it.
LEMMA PlaceStep ==
  ASSUME PoolInv,
         UNCHANGED <<main, asking, queue, running, wrappers, ready>>,
         worker' \in [Worker -> {"lock", "test", "idle", "wait", "run", "left"}],
         \A w \in Worker : worker'[w] = "run" <=> worker[w] = "run"
  PROVE  PoolInv'
BY DEF PoolInv, TypeOK, BusyRight, EachInOnePlace, Waiting

\* The first job of the list moves to the worker that takes it.
LEMMA TakeStep ==
  ASSUME PoolInv, NEW w \in Worker, Take(w)
  PROVE  PoolInv'
<1> USE NobodyAssumption DEF PoolInv, TypeOK
<1> DEFINE j == Head(queue)
<1>1. /\ queue' \in Seq(Job) /\ Len(queue) \in Nat
      /\ 1 \in 1 .. Len(queue) /\ j = queue[1] /\ j \in Job
      /\ Len(queue') = Len(queue) - 1
      /\ \A i \in 1 .. Len(queue') : i + 1 \in 1 .. Len(queue) /\ queue'[i] = queue[i + 1]
      /\ \A i \in 2 .. Len(queue) : i - 1 \in 1 .. Len(queue') /\ queue'[i - 1] = queue[i]
  BY TailFacts DEF Take, Rest
<1>2. running[w] = Nobody
  BY DEF Take, BusyRight
<1>3. /\ running' = [running EXCEPT ![w] = j] /\ Waiting' = Waiting
      /\ worker' = [worker EXCEPT ![w] = "run"]
  BY DEF Take, Waiting
<1>4. TypeOK' /\ BusyRight'
  BY <1>1, <1>3 DEF Take, BusyRight
<1>5. EachInOnePlace'
  <2>1. \A i \in 1 .. Len(queue') : queue'[i] \in Waiting /\ queue'[i] # j
    <3> TAKE i \in 1 .. Len(queue')
    <3>1. i + 1 \in 1 .. Len(queue) /\ i + 1 # 1 /\ queue'[i] = queue[i + 1]
      BY <1>1
    <3>2. queue[i + 1] \in Waiting /\ (queue[i + 1] = queue[1] => i + 1 = 1)
      BY <1>1, <3>1 DEF EachInOnePlace
    <3> QED
      BY <1>1, <3>1, <3>2
  <2>2. \A v \in Worker : running'[v] # Nobody => running'[v] \in Waiting
    BY <1>1, <1>3 DEF EachInOnePlace
  <2>3. \A i, k \in 1 .. Len(queue') : queue'[i] = queue'[k] => i = k
    <3> TAKE i, k \in 1 .. Len(queue')
    <3>1. queue[i + 1] = queue[k + 1] => i + 1 = k + 1
      BY <1>1 DEF EachInOnePlace
    <3>2. queue'[i] = queue[i + 1] /\ queue'[k] = queue[k + 1]
      BY <1>1
    <3> QED
      BY <3>1, <3>2
  <2>4. \A u, v \in Worker : running'[u] = running'[v] /\ running'[u] # Nobody => u = v
    BY <1>1, <1>3 DEF EachInOnePlace
  <2>5. \A i \in 1 .. Len(queue'), v \in Worker : queue'[i] # running'[v]
    BY <1>1, <1>3, <2>1 DEF EachInOnePlace
  <2>6. ASSUME NEW x \in Waiting
        PROVE  \/ \E i \in 1 .. Len(queue') : queue'[i] = x
               \/ \E v \in Worker : running'[v] = x
    <3>1. CASE x = j
      BY <1>3, <3>1
    <3>2. CASE x # j /\ \E i \in 1 .. Len(queue) : queue[i] = x
      BY <1>1, <3>2
    <3>3. CASE \E v \in Worker : running[v] = x
      BY <1>2, <1>3, <3>3 DEF Waiting
    <3> QED
      BY <3>1, <3>2, <3>3 DEF EachInOnePlace
  <2> QED
    BY <1>3, <2>1, <2>2, <2>3, <2>4, <2>5, <2>6 DEF EachInOnePlace
<1> QED
  BY <1>4, <1>5

\* A job whose group has been stored waits no longer and is nowhere.
LEMMA InvokeStep ==
  ASSUME PoolInv, NEW w \in Worker, Invoke(w)
  PROVE  PoolInv'
<1> USE NobodyAssumption DEF PoolInv, TypeOK
<1>1. running[w] \in Job /\ Waiting' = Waiting \ {running[w]}
  BY DEF Invoke, BusyRight, Waiting
<1>2. TypeOK' /\ BusyRight'
  BY <1>1 DEF Invoke, BusyRight
<1>3. /\ queue' = queue
      /\ \A v \in Worker : running'[v] = IF v = w THEN Nobody ELSE running[v]
      /\ \A i \in 1 .. Len(queue) : queue[i] \in Job
  BY DEF Invoke
<1>4. EachInOnePlace'
  BY <1>1, <1>3 DEF EachInOnePlace
<1> QED
  BY <1>2, <1>4

\* A new job is the last of the list and nowhere else.
LEMMA EnqueueStep ==
  ASSUME PoolInv, NEW j \in Job, Enqueue(j)
  PROVE  PoolInv'
<1> USE NobodyAssumption DEF PoolInv, TypeOK
<1>1. /\ queue' \in Seq(Job) /\ Len(queue) \in Nat
      /\ Len(queue') = Len(queue) + 1
      /\ \A i \in 1 .. Len(queue) : queue'[i] = queue[i] /\ queue[i] \in Job
      /\ queue'[Len(queue')] = j
  BY AppendProperties, LenProperties, ElementOfSeq DEF Enqueue
<1>2. Waiting' = Waiting \cup {j} /\ j \notin Waiting /\ running' = running
  BY DEF Enqueue, Waiting
<1>3. TypeOK' /\ BusyRight'
  BY <1>1 DEF Enqueue, BusyRight
<1>4. EachInOnePlace'
  <2>1. \A i \in 1 .. Len(queue') :
          \/ i \in 1 .. Len(queue) /\ queue'[i] = queue[i]
          \/ i = Len(queue') /\ queue'[i] = j
    BY <1>1
  <2>2. Len(queue') \in 1 .. Len(queue') /\ \A i \in 1 .. Len(queue) : i \in 1 .. Len(queue')
    BY <1>1
  <2>3. /\ \A i \in 1 .. Len(queue) : queue[i] # j
        /\ \A w \in Worker : running[w] # Nobody => running[w] # j
    BY <1>2 DEF EachInOnePlace
  <2>4. \A i \in 1 .. Len(queue') : queue'[i] \in Waiting'
    BY <1>2, <2>1 DEF EachInOnePlace
  <2>5. \A i, k \in 1 .. Len(queue') : queue'[i] = queue'[k] => i = k
    BY <2>1, <2>3 DEF EachInOnePlace
  <2>6. \A i \in 1 .. Len(queue'), w \in Worker : queue'[i] # running'[w]
    BY <1>2, <2>1, <2>3, SMTT(30) DEF EachInOnePlace
  <2>7. \A x \in Waiting' :
          \/ \E i \in 1 .. Len(queue') : queue'[i] = x
          \/ \E w \in Worker : running'[w] = x
    BY <1>1, <1>2, <2>2 DEF EachInOnePlace
  <2> QED
    BY <1>2, <2>4, <2>5, <2>6, <2>7 DEF EachInOnePlace
<1> QED
  BY <1>3, <1>4

\* Only a job whose group is there is freed, and such a job does not wait.
LEMMA PollStep ==
  ASSUME PoolInv, PollJob
  PROVE  PoolInv'
BY DEF PollJob, MayFree, PoolInv, TypeOK, BusyRight, EachInOnePlace, Waiting

\* Every step keeps each waiting job in one place.
LEMMA PoolStep == PoolInv /\ [Next]_vars => PoolInv'
<1> SUFFICES ASSUME PoolInv, [Next]_vars PROVE PoolInv'
  OBVIOUS
<1> USE DEF PoolInv, TypeOK
<1>1. ASSUME NEW w \in Worker, Lock(w) \/ Leave(w) \/ Idle(w) \/ Wait(w) \/ Spurious(w)
      PROVE  PoolInv'
  <2>1. worker[w] # "run" /\ \E s \in {"lock", "test", "idle", "wait", "left"} :
                               worker' = [worker EXCEPT ![w] = s]
    BY <1>1 DEF Lock, Leave, Idle, Wait, Spurious
  <2>2. UNCHANGED <<main, asking, queue, running, wrappers, ready>>
    BY <1>1 DEF Lock, Leave, Idle, Wait, Spurious
  <2> QED
    BY <2>1, <2>2, PlaceStep
<1>2. ASSUME NEW w \in Worker, Take(w) PROVE PoolInv'
  BY <1>2, TakeStep
<1>3. ASSUME NEW w \in Worker, Invoke(w) PROVE PoolInv'
  BY <1>3, InvokeStep
<1>4. ASSUME NEW j \in Job, Enqueue(j) PROVE PoolInv'
  BY <1>4, EnqueueStep
<1>5. ASSUME NEW j \in Job, AskAgain(j) PROVE PoolInv'
  BY <1>5 DEF AskAgain, BusyRight, EachInOnePlace, Waiting
<1>6. CASE Signal
  <2>1. \A w \in Worker : worker'[w] = "run" <=> worker[w] = "run"
    BY <1>6 DEF Signal, Woken
  <2>2. worker' \in [Worker -> {"lock", "test", "idle", "wait", "run", "left"}]
    BY <1>6 DEF Signal, Woken
  <2> QED
    BY <1>6, <2>1, <2>2 DEF Signal, BusyRight, EachInOnePlace, Waiting
<1>7. CASE PollJob
  BY <1>7, PollStep
<1>8. CASE Exit \/ Joined
  BY <1>8 DEF Exit, Joined, BusyRight, EachInOnePlace, Waiting
<1>9. CASE Stop
  <2>1. \A w \in Worker : worker'[w] = "run" <=> worker[w] = "run"
    BY <1>9 DEF Stop, Broadcast
  <2>2. worker' \in [Worker -> {"lock", "test", "idle", "wait", "run", "left"}]
    BY <1>9 DEF Stop, Broadcast
  <2> QED
    BY <1>9, <2>1, <2>2 DEF Stop, BusyRight, EachInOnePlace, Waiting
<1>10. CASE UNCHANGED vars
  BY <1>10 DEF vars, BusyRight, EachInOnePlace, Waiting
<1> QED
  BY <1>1, <1>2, <1>3, <1>4, <1>5, <1>6, <1>7, <1>8, <1>9, <1>10
     DEF Next, WorkerStep, Frame, AtExit

\* A job that waits is in one place, counted.
LEMMA OnePlace ==
  ASSUME PoolInv, NEW j \in Waiting
  PROVE  Cardinality({i \in DOMAIN queue : queue[i] = j})
           + Cardinality({w \in Worker : running[w] = j}) = 1
<1> DEFINE In  == {i \in DOMAIN queue : queue[i] = j}
           Run == {w \in Worker : running[w] = j}
<1> USE NobodyAssumption DEF PoolInv, TypeOK, EachInOnePlace
<1>1. DOMAIN queue = 1 .. Len(queue) /\ j # Nobody
  BY LenProperties DEF Waiting
<1>2. CASE \E i \in 1 .. Len(queue) : queue[i] = j
  <2>1. PICK i \in 1 .. Len(queue) : queue[i] = j
    BY <1>2
  <2>2. In = {i} /\ Run = {}
    BY <1>1, <2>1
  <2>3. Cardinality(In) = 1 /\ Cardinality(Run) = 0
    BY <2>2, FS_Singleton, FS_EmptySet
  <2> QED
    BY <2>3
<1>3. CASE ~ \E i \in 1 .. Len(queue) : queue[i] = j
  <2>1. PICK w \in Worker : running[w] = j
    BY <1>3
  <2>2. Run = {w} /\ In = {}
    BY <1>1, <1>3, <2>1
  <2>3. Cardinality(Run) = 1 /\ Cardinality(In) = 0
    BY <2>2, FS_Singleton, FS_EmptySet
  <2> QED
    BY <2>3
<1> QED
  BY <1>2, <1>3

\* Whatever the workers and the main thread do, and in whatever order, the pool
\* holds only jobs the generator has not freed, and a job whose group is not
\* there is once in the list or with one worker.
THEOREM PoolIsLive == Spec => []PoolHoldsLiveJobs
<1>1. PoolInv => PoolHoldsLiveJobs
  <2> SUFFICES ASSUME PoolInv PROVE PoolHoldsLiveJobs
    OBVIOUS
  <2>1. DOMAIN queue = 1 .. Len(queue)
    BY LenProperties DEF PoolInv, TypeOK
  <2> QED
    BY <2>1, OnePlace DEF PoolInv, BusyRight, EachInOnePlace, Waiting, PoolHoldsLiveJobs
<1> QED
  BY <1>1, PoolInit, PoolStep, PTL DEF Spec
=============================================================================
