---------------------------- MODULE RuntimeOrder ----------------------------
(***************************************************************************)
(* The order in which tasks are taken, what is left behind when the workers*)
(* stop, and which tasks wait_group makes significant, for any number of   *)
(* workers, tasks and groups.                                              *)
(***************************************************************************)
EXTENDS RuntimeCount

USE RuntimeAssumption

(***************************************************************************)
(* Workers leave their loops only after a shutdown.                        *)
(***************************************************************************)
LEMMA NextStopsLast ==
  ASSUME TypeOK, Structure, StopsLast, [Next]_vars
  PROVE  StopsLast'
<1> USE DEF StopsLast, Stopped
<1>0. /\ workerPc \in [Workers -> WorkerSteps]
      /\ running \in [Workers -> BOOLEAN]
      /\ k \in Workers
  BY DEF TypeOK, WorkerType, MainType
<1>1. CASE Application
  BY <1>1 DEF Application, NewTask, PushTask, PushUngrouped, WaitGroup,
              WaitAborts, Shutdown, hands
<1>2. CASE StartWorker
  BY <1>0, <1>2 DEF StartWorker
<1>3. CASE StopWorker \/ JoinWorker \/ JoinCrashes
  BY <1>0, <1>3 DEF StopWorker, JoinWorker, JoinCrashes, hands
<1>4. ASSUME NEW r \in Ratios, LockGroup(r)
      PROVE  StopsLast'
  BY <1>4 DEF LockGroup, BeginWait, hands
<1>5. CASE \/ SkipTask \/ DispatchTask \/ CountTask \/ NextLevel \/ CondWait
           \/ WaitReturn \/ SpuriousWakeup
  BY <1>5 DEF SkipTask, AtTask, DispatchTask, Deal, CountTask, Count,
              NextLevel, LowerLevel, BucketDone, CondWait, EndLoops,
              WaitReturn, SpuriousWakeup, hands
<1>6. ASSUME NEW w \in Workers, CheckRunning(w) \/ Recheck(w)
      PROVE  StopsLast'
  BY <1>0, <1>6 DEF CheckRunning, Recheck, LoopTest
<1>7. ASSUME NEW w \in Workers, \/ PopNothing(w) \/ PopTask(w) \/ RunTask(w)
                                \/ EnterSync(w) \/ LeaveSync(w)
      PROVE  StopsLast'
  BY <1>0, <1>7 DEF PopNothing, PopTask, RunTask, EnterSync, TakeLock,
                    LeaveSync
<1>8. ASSUME NEW w \in Workers, CountDown(w)
      PROVE  StopsLast'
  BY <1>0, <1>8 DEF CountDown, CountDownAnd
<1>9. CASE UNCHANGED vars
  BY <1>9 DEF vars, hands
<1> QED
  BY <1>1, <1>2, <1>3, <1>4, <1>5, <1>6, <1>7, <1>8, <1>9
  DEF Next, Call, Worker

\* A task that is still in a queue is one that wait_group waits for.
LEMMA StopsEmpty ==
  ASSUME TypeOK, Structure, StopsLast, Rendezvous
  PROVE  NothingAbandoned
<1> SUFFICES ASSUME NEW w \in Workers, workerPc[w] = "exit",
                    work_queue[w] # << >>
             PROVE  FALSE
  BY DEF NothingAbandoned
<1>1. mainPc \notin InWait
  BY DEF StopsLast, Stopped, InWait
<1>2. work_queue[w] \in Seq(Tasks)
  BY DEF TypeOK, WorkerType
<1>3. PICK t \in Tasks : /\ 1 \in 1 .. Len(work_queue[w])
                         /\ t = work_queue[w][1]
  BY <1>2
<1>4. stage[t] = "queued" /\ Queued(t)
  BY <1>3 DEF Structure, QueuesHold, Queued
<1>5. my_group[t] \in waited
  BY <1>1, <1>4 DEF Structure, TakenInWait, Taken
<1>6. t \in InFlight(my_group[t])
  BY <1>4 DEF InFlight, Members
<1> QED
  BY <1>5, <1>6 DEF Rendezvous

(***************************************************************************)
(* A worker that has left main_acc leaves no task in its queue, unless     *)
(* pthread_cond_wait returns spuriously.                                   *)
(***************************************************************************)
THEOREM NothingLeftBehind ==
  ASSUME ~ SpuriousWakeups
  PROVE  Spec => []NothingAbandoned
<1>1. Init => StopsLast
  BY DEF Init, StopsLast
<1>2. IInv /\ StopsLast /\ [Next]_vars => StopsLast'
  BY NextStopsLast DEF IInv
<1>3. IInv /\ StopsLast /\ Rendezvous => NothingAbandoned
  BY StopsEmpty DEF IInv
<1> QED
  BY <1>1, <1>2, <1>3, Invariant, RendezvousCorrect, PTL DEF Spec

-----------------------------------------------------------------------------
(***************************************************************************)
(* The bucket of a task is told by its group and the arrays alone.         *)
(***************************************************************************)
LEMMA BucketFrame ==
  ASSUME UNCHANGED <<pending_q, my_group>>, NEW t, NEW l
  PROVE  InBucket(t, l)' <=> InBucket(t, l)
BY DEF InBucket

\* The task that wait_group has come to is in bucket sig and in no other.
LEMMA HereBucket ==
  ASSUME TypeOK, Structure, Dealing, i <= Len(pending_q[cur][sig])
  PROVE  /\ Here \in Tasks /\ my_group[Here] = cur
         /\ InBucket(Here, sig)
         /\ \A l \in Levels : InBucket(Here, l) => l = sig
<1>1. /\ cur \in Groups /\ sig \in Levels /\ Here \in Tasks
      /\ i \in 1 .. Len(pending_q[cur][sig])
  BY HereType
<1>2. my_group[Here] = cur
  BY <1>1 DEF Structure, BucketsHold, Here
<1>3. InBucket(Here, sig)
  BY <1>1, <1>2 DEF InBucket, Here
<1>4. ASSUME NEW l \in Levels, InBucket(Here, l)
      PROVE  l = sig
  <2>1. PICK n \in 1 .. Len(pending_q[cur][l]) : pending_q[cur][l][n] = Here
    BY <1>2, <1>4 DEF InBucket
  <2> QED
    BY <1>1, <2>1 DEF Structure, BucketsHold, Here
<1> QED
  BY <1>1, <1>2, <1>3, <1>4

\* push_task puts its task into a bucket and leaves the others where they are.
LEMMA PushBucket ==
  ASSUME TypeOK, NEW t \in Tasks, NEW g \in Groups, PushTask(t, g)
  PROVE  /\ InBucket(t, significance[t])'
         /\ \A u \in Tasks \ {t} :
              /\ my_group'[u] = my_group[u]
              /\ my_group[u] # NULL => \A l \in Levels :
                   InBucket(u, l)' <=> InBucket(u, l)
<1>1. /\ my_group \in [Tasks -> groups \cup {NULL}]
      /\ pending_q \in [Groups -> [Levels -> Seq(Tasks)]]
      /\ significance[t] \in Levels /\ groups \subseteq Groups
      /\ significance' = significance
  BY DEF TypeOK, TaskType, GroupType, PushTask
<1>2. /\ my_group' = [my_group EXCEPT ![t] = g]
      /\ pending_q' = [pending_q EXCEPT ![g][significance[t]] = Append(@, t)]
  BY DEF PushTask
<1>3. pending_q'[g][significance[t]] = Append(pending_q[g][significance[t]], t)
  BY <1>1, <1>2
<1>4. my_group'[t] = g
  BY <1>1, <1>2
<1>5. pending_q[g][significance[t]] \in Seq(Tasks)
  BY <1>1
<1>6. \E n \in 1 .. Len(pending_q'[g][significance[t]]) :
         pending_q'[g][significance[t]][n] = t
  <2> DEFINE q == pending_q[g][significance[t]]
  <2>1. Len(q) + 1 \in 1 .. Len(Append(q, t)) /\ Append(q, t)[Len(q) + 1] = t
    BY <1>5
  <2> QED
    BY <1>3, <2>1
<1>7. InBucket(t, significance[t])'
  BY <1>1, <1>4, <1>6 DEF InBucket
<1>8. ASSUME NEW u \in Tasks \ {t}
      PROVE  /\ my_group'[u] = my_group[u]
             /\ my_group[u] # NULL => \A l \in Levels :
                  InBucket(u, l)' <=> InBucket(u, l)
  <2>1. my_group'[u] = my_group[u]
    BY <1>1, <1>2
  <2>2. ASSUME my_group[u] # NULL, NEW l \in Levels
        PROVE  InBucket(u, l)' <=> InBucket(u, l)
    <3>1. CASE my_group[u] = g /\ l = significance[t]
      <4> DEFINE q == pending_q[g][significance[t]]
      <4>1. pending_q[my_group[u]][l] = q
            /\ pending_q'[my_group'[u]][l] = Append(q, t)
        BY <1>3, <2>1, <3>1
      <4> HIDE DEF q
      <4>2. q \in Seq(Tasks)
        BY <1>5 DEF q
      <4>3. (\E n \in 1 .. Len(Append(q, t)) : Append(q, t)[n] = u)
              <=> \E n \in 1 .. Len(q) : q[n] = u
        BY <4>2
      <4> QED
        BY <4>1, <4>3 DEF InBucket
    <3>2. CASE my_group[u] # g \/ l # significance[t]
      <4>1. my_group[u] \in Groups
        BY <1>1, <2>2
      <4>2. pending_q'[my_group[u]][l] = pending_q[my_group[u]][l]
        BY <1>1, <1>2, <3>2, <4>1
      <4> QED
        BY <2>1, <4>2 DEF InBucket
    <3> QED
      BY <3>1, <3>2
  <2> QED
    BY <2>1, <2>2
<1> QED
  BY <1>7, <1>8

\* And it puts it into one bucket only.
LEMMA PushOneBucket ==
  ASSUME TypeOK, Structure, NEW t \in Tasks, NEW g \in Groups, PushTask(t, g),
         NEW l \in Levels, InBucket(t, l)'
  PROVE  l = significance[t]
<1>1. /\ my_group \in [Tasks -> groups \cup {NULL}]
      /\ my_group' = [my_group EXCEPT ![t] = g]
      /\ significance[t] \in Levels
  BY DEF PushTask, TypeOK, TaskType
<1>2. BucketsHold'
  BY PushTaskStructure DEF Structure
<1>3. my_group'[t] = g
  BY <1>1
<1>4. PICK n \in 1 .. Len(pending_q'[g][l]) : pending_q'[g][l][n] = t
  BY <1>3 DEF InBucket
<1>5. InBucket(t, significance[t])'
  BY PushBucket
<1>6. PICK m \in 1 .. Len(pending_q'[g][significance[t]]) :
         pending_q'[g][significance[t]][m] = t
  <2>1. significance' = significance
    BY DEF PushTask
  <2> QED
    BY <1>3, <1>5, <2>1 DEF InBucket
<1> QED
  BY <1>1, <1>2, <1>3, <1>4, <1>6 DEF BucketsHold

(***************************************************************************)
(* Steps that move no task between buckets and queues keep the order, if   *)
(* wait_group only goes down.                                              *)
(***************************************************************************)
LEMMA OrderFrame ==
  ASSUME TypeOK, Ordered, UNCHANGED <<work_queue, pending_q, my_group>>,
         Dealing' => Dealing /\ cur' = cur /\ sig' \in Levels /\ sig' <= sig
  PROVE  Ordered'
<1>1. \A t : \A l : InBucket(t, l)' <=> InBucket(t, l)
  BY BucketFrame
<1>2. InSomeBucket' /\ Sorted'
  BY <1>1 DEF Ordered, InSomeBucket, Sorted
<1>3. DealtAbove'
  <2> SUFFICES ASSUME Dealing', NEW w \in Workers,
                      NEW n \in 1 .. Len(work_queue[w]),
                      my_group[work_queue[w][n]] = cur,
                      NEW l \in Levels, InBucket(work_queue[w][n], l)
               PROVE  l >= sig'
    BY <1>1 DEF DealtAbove
  <2>1. l >= sig /\ sig \in Levels
    BY DEF Ordered, DealtAbove, TypeOK, MainType
  <2> QED
    BY <2>1 DEF Levels, NON_SIGNIFICANT
<1> QED
  BY <1>2, <1>3 DEF Ordered

\* A task that is queued was pushed to a group.
LEMMA QueuedMember ==
  ASSUME TypeOK, Structure, NEW w \in Workers,
         NEW n \in 1 .. Len(work_queue[w])
  PROVE  /\ work_queue[w][n] \in Tasks
         /\ stage[work_queue[w][n]] = "queued"
         /\ my_group[work_queue[w][n]] # NULL
<1>1. work_queue[w][n] \in Tasks
  BY DEF TypeOK, WorkerType
<1> QED
  BY <1>1 DEF Structure, QueuesHold, GroupKnown

\* A task that is pushed is not in a queue yet.
LEMMA PushOrder ==
  ASSUME TypeOK, Structure, Ordered,
         NEW t \in Tasks, NEW g \in Groups, PushTask(t, g)
  PROVE  Ordered'
<1>1. /\ ~ Dealing' /\ stage[t] = "made"
      /\ UNCHANGED <<work_queue, significance>>
  BY DEF PushTask, Dealing
<1>2. /\ InBucket(t, significance[t])'
      /\ \A u \in Tasks \ {t} :
           /\ my_group'[u] = my_group[u]
           /\ my_group[u] # NULL => \A l \in Levels :
                InBucket(u, l)' <=> InBucket(u, l)
  BY PushBucket
<1>3. significance[t] \in Levels
  BY DEF TypeOK, TaskType
<1>4. InSomeBucket'
  <2> SUFFICES ASSUME NEW u \in Tasks, my_group'[u] # NULL
               PROVE  \E l \in Levels : InBucket(u, l)'
    BY DEF InSomeBucket
  <2>1. CASE u = t
    BY <1>1, <1>2, <1>3, <2>1
  <2>2. CASE u # t
    BY <1>2, <2>2 DEF Ordered, InSomeBucket
  <2> QED
    BY <2>1, <2>2
<1>5. \A w \in Workers : \A n \in 1 .. Len(work_queue[w]) :
         /\ work_queue[w][n] \in Tasks \ {t}
         /\ my_group[work_queue[w][n]] # NULL
  BY <1>1, QueuedMember
<1>6. Sorted'
  BY <1>1, <1>2, <1>5 DEF Ordered, Sorted
<1> QED
  BY <1>1, <1>4, <1>6 DEF Ordered, DealtAbove

\* At the lock no task of the group is in a queue.
LEMMA LockOrder ==
  ASSUME TypeOK, Structure, Ordered, NEW r \in Ratios, LockGroup(r)
  PROVE  Ordered'
<1>1. /\ mainPc = "lock" /\ lock[cur] = FREE
      /\ UNCHANGED <<cur, work_queue, pending_q, my_group>>
  BY DEF LockGroup, BeginWait, tasks, buckets
<1>2. cur \in Groups /\ cur \notin waited
  BY <1>1 DEF TypeOK, MainType, GroupType, Structure, MainLocks
<1>3. \A t : \A l : InBucket(t, l)' <=> InBucket(t, l)
  BY <1>1, BucketFrame
<1>4. InSomeBucket' /\ Sorted'
  BY <1>1, <1>3 DEF Ordered, InSomeBucket, Sorted
<1>5. \A w \in Workers : \A n \in 1 .. Len(work_queue[w]) :
         my_group[work_queue[w][n]] # cur
  BY <1>1, <1>2, QueuedMember DEF Structure, TakenInWait, Taken, InWait
<1>6. DealtAbove'
  BY <1>1, <1>5 DEF DealtAbove
<1> QED
  BY <1>4, <1>6 DEF Ordered

\* The task dealt is of the bucket sig: those before it are of it or above.
LEMMA DispatchOrder ==
  ASSUME TypeOK, Structure, Ordered, DispatchTask
  PROVE  Ordered'
<1>1. /\ mainPc = "select" /\ i <= Len(pending_q[cur][sig])
      /\ UNCHANGED <<cur, sig, pending_q, my_group>>
      /\ work_queue' = [work_queue EXCEPT ![NextWorker] = Append(@, Here)]
  BY DEF DispatchTask, Deal, AtTask, buckets
<1>2. /\ Here \in Tasks /\ my_group[Here] = cur
      /\ \A l \in Levels : InBucket(Here, l) => l = sig
      /\ Dealing
  BY <1>1, HereBucket DEF Dealing
<1>3. \A t : \A l : InBucket(t, l)' <=> InBucket(t, l)
  BY <1>1, BucketFrame
<1>4. /\ work_queue \in [Workers -> Seq(Tasks)]
      /\ NextWorker \in Workers
      /\ sig \in Levels
  BY NextWorkerType DEF TypeOK, MainType, WorkerType
<1>5. \A w \in Workers : \A n \in 1 .. Len(work_queue'[w]) :
         \/ /\ n \in 1 .. Len(work_queue[w])
            /\ work_queue'[w][n] = work_queue[w][n]
         \/ /\ w = NextWorker /\ n = Len(work_queue[w]) + 1
            /\ work_queue'[w][n] = Here
  BY <1>1, <1>2, <1>4
<1>6. \A w \in Workers : \A n \in 1 .. Len(work_queue[w]) :
         my_group[work_queue[w][n]] = cur =>
           \A l \in Levels : InBucket(work_queue[w][n], l) => l >= sig
  BY <1>2 DEF Ordered, DealtAbove
<1>7. sig >= sig
  BY <1>4 DEF Levels, NON_SIGNIFICANT
<1>8. InSomeBucket'
  BY <1>1, <1>3 DEF Ordered, InSomeBucket
<1>9. DealtAbove'
  BY <1>1, <1>2, <1>3, <1>5, <1>6, <1>7 DEF DealtAbove
<1>10. Sorted'
  <2> SUFFICES ASSUME NEW w \in Workers,
                      NEW m \in 1 .. Len(work_queue'[w]),
                      NEW n \in 1 .. Len(work_queue'[w]), m < n,
                      my_group[work_queue'[w][m]] = my_group[work_queue'[w][n]],
                      NEW a \in Levels, InBucket(work_queue'[w][m], a),
                      NEW b \in Levels, InBucket(work_queue'[w][n], b)
               PROVE  a >= b
    BY <1>1, <1>3 DEF Sorted
  <2>1. m \in 1 .. Len(work_queue[w]) /\ work_queue'[w][m] = work_queue[w][m]
    BY <1>4, <1>5
  <2>2. CASE n \in 1 .. Len(work_queue[w])
             /\ work_queue'[w][n] = work_queue[w][n]
    BY <2>1, <2>2 DEF Ordered, Sorted
  <2>3. CASE work_queue'[w][n] = Here
    BY <1>2, <1>6, <2>1, <2>3
  <2> QED
    BY <1>5, <2>2, <2>3
<1> QED
  BY <1>8, <1>9, <1>10 DEF Ordered

\* A worker takes the first task of its queue.
LEMMA PopOrder ==
  ASSUME TypeOK, Structure, Ordered, NEW w \in Workers, PopTask(w)
  PROVE  Ordered'
<1>1. /\ UNCHANGED <<mainPc, cur, sig, pending_q, my_group>>
      /\ work_queue[w] # << >>
      /\ work_queue' = [work_queue EXCEPT ![w] = Tail(@)]
  BY DEF PopTask, tasks, buckets, locals
<1>2. work_queue \in [Workers -> Seq(Tasks)]
  BY DEF TypeOK, WorkerType
<1>3. \A t : \A l : InBucket(t, l)' <=> InBucket(t, l)
  BY <1>1, BucketFrame
<1>4. \A v \in Workers :
         \/ work_queue'[v] = work_queue[v]
         \/ \A n \in 1 .. Len(work_queue'[v]) :
              /\ n + 1 \in 1 .. Len(work_queue[v])
              /\ work_queue'[v][n] = work_queue[v][n + 1]
  <2>1. \A v \in Workers : v # w => work_queue'[v] = work_queue[v]
    BY <1>1, <1>2
  <2>2. work_queue'[w] = Tail(work_queue[w]) /\ work_queue[w] \in Seq(Tasks)
    BY <1>1, <1>2
  <2>3. \A n \in 1 .. Len(Tail(work_queue[w])) :
           /\ n + 1 \in 1 .. Len(work_queue[w])
           /\ Tail(work_queue[w])[n] = work_queue[w][n + 1]
    BY <1>1, <2>2
  <2> QED
    BY <2>1, <2>2, <2>3
<1>5. InSomeBucket'
  BY <1>1, <1>3 DEF Ordered, InSomeBucket
<1>6. DealtAbove'
  <2> SUFFICES ASSUME Dealing', NEW v \in Workers,
                      NEW n \in 1 .. Len(work_queue'[v]),
                      my_group[work_queue'[v][n]] = cur,
                      NEW l \in Levels, InBucket(work_queue'[v][n], l)
               PROVE  l >= sig
    BY <1>1, <1>3 DEF DealtAbove
  <2>1. \E m \in 1 .. Len(work_queue[v]) : work_queue'[v][n] = work_queue[v][m]
    BY <1>4
  <2> QED
    BY <1>1, <2>1 DEF Ordered, DealtAbove, Dealing
<1>7. Sorted'
  <2> SUFFICES ASSUME NEW v \in Workers,
                      NEW m \in 1 .. Len(work_queue'[v]),
                      NEW n \in 1 .. Len(work_queue'[v]), m < n,
                      my_group[work_queue'[v][m]] = my_group[work_queue'[v][n]],
                      NEW a \in Levels, InBucket(work_queue'[v][m], a),
                      NEW b \in Levels, InBucket(work_queue'[v][n], b)
               PROVE  a >= b
    BY <1>1, <1>3 DEF Sorted
  <2>1. CASE work_queue'[v] = work_queue[v]
    BY <2>1 DEF Ordered, Sorted
  <2>2. CASE \A j \in 1 .. Len(work_queue'[v]) :
              /\ j + 1 \in 1 .. Len(work_queue[v])
              /\ work_queue'[v][j] = work_queue[v][j + 1]
    <3>1. m + 1 < n + 1
      OBVIOUS
    <3> QED
      BY <2>2, <3>1 DEF Ordered, Sorted
  <2> QED
    BY <1>4, <2>1, <2>2
<1> QED
  BY <1>5, <1>6, <1>7 DEF Ordered

\* Ordered is inductive.
LEMMA NextOrdered ==
  ASSUME TypeOK, Structure, Ordered, [Next]_vars
  PROVE  Ordered'
<1>1. CASE Application
  <2>1. ASSUME \A t \in Tasks : \A g \in Groups : ~ PushTask(t, g)
        PROVE  /\ UNCHANGED <<work_queue, pending_q, my_group>>
               /\ ~ Dealing'
    BY <1>1, <2>1 DEF Application, NewTask, PushUngrouped, WaitGroup,
                      WaitAborts, Shutdown, Dealing, tasks, buckets
  <2> QED
    BY <2>1, PushOrder, OrderFrame
<1>2. CASE StartWorker \/ StopWorker \/ JoinWorker \/ JoinCrashes
           \/ WaitReturn \/ SpuriousWakeup \/ CondWait
  <2>1. UNCHANGED <<work_queue, pending_q, my_group>> /\ ~ Dealing'
    BY <1>2 DEF StartWorker, StopWorker, JoinWorker, JoinCrashes, WaitReturn,
                SpuriousWakeup, CondWait, EndLoops, Dealing, tasks, buckets
  <2> QED
    BY <2>1, OrderFrame
<1>3. CASE SkipTask \/ CountTask
  <2>1. /\ UNCHANGED <<work_queue, pending_q, my_group, cur, sig>>
        /\ Dealing
    BY <1>3 DEF SkipTask, AtTask, CountTask, Count, Dealing, tasks, buckets
  <2>2. sig \in Levels /\ sig <= sig
    BY DEF TypeOK, MainType, Levels, NON_SIGNIFICANT
  <2> QED
    BY <2>1, <2>2, OrderFrame
<1>4. CASE NextLevel
  <2>1. /\ UNCHANGED <<work_queue, pending_q, my_group, cur>>
        /\ Dealing /\ sig > NON_SIGNIFICANT /\ sig' = sig - 1
    BY <1>4 DEF NextLevel, LowerLevel, BucketDone, Dealing, tasks, buckets
  <2>2. sig' \in Levels /\ sig' <= sig
    BY <2>1 DEF TypeOK, MainType, Levels, NON_SIGNIFICANT
  <2> QED
    BY <2>1, <2>2, OrderFrame
<1>5. ASSUME NEW w \in Workers, Worker(w), ~ PopTask(w)
      PROVE  Ordered'
  <2>1. /\ UNCHANGED <<work_queue, pending_q, my_group, cur, sig>>
        /\ Dealing' => Dealing
    BY <1>5 DEF Worker, CheckRunning, PopNothing, Recheck, LoopTest, RunTask,
                EnterSync, TakeLock, CountDown, CountDownAnd, LeaveSync,
                Dealing, locals, tasks, buckets
  <2>2. sig \in Levels /\ sig <= sig
    BY DEF TypeOK, MainType, Levels, NON_SIGNIFICANT
  <2> QED
    BY <2>1, <2>2, OrderFrame
<1>6. CASE UNCHANGED vars
  <2>1. /\ UNCHANGED <<work_queue, pending_q, my_group, cur, sig>>
        /\ Dealing' => Dealing
    BY <1>6 DEF vars, Dealing, locals, tasks, buckets
  <2>2. sig \in Levels /\ sig <= sig
    BY DEF TypeOK, MainType, Levels, NON_SIGNIFICANT
  <2> QED
    BY <2>1, <2>2, OrderFrame
<1> QED
  BY <1>1, <1>2, <1>3, <1>4, <1>5, <1>6, LockOrder, DispatchOrder, PopOrder
  DEF Next, Call

\* So Ordered holds in every state.
LEMMA InvariantOrdered == Spec => [](IInv /\ Ordered)
<1>1. Init => Ordered
  BY DEF Init, Ordered, InSomeBucket, Sorted, DealtAbove, Dealing
<1>2. IInv /\ Ordered /\ [Next]_vars => Ordered'
  BY NextOrdered DEF IInv
<1> QED
  BY <1>1, <1>2, Invariant, PTL DEF Spec

\* The bucket of a task that was pushed is a bucket it is in.
LEMMA BucketIsIn ==
  ASSUME InSomeBucket, NEW t \in Tasks, my_group[t] # NULL
  PROVE  Bucket(t) \in Levels /\ InBucket(t, Bucket(t))
BY DEF InSomeBucket, Bucket

(***************************************************************************)
(* A worker takes the tasks it was dealt for a group in the order of their *)
(* significance.                                                           *)
(***************************************************************************)
THEOREM OrderCorrect == Spec => []MostSignificantFirst
<1>1. IInv /\ Ordered => MostSignificantFirst
  <2> SUFFICES ASSUME IInv, Ordered, NEW w \in Workers,
                      NEW m \in 1 .. Len(work_queue[w]),
                      NEW n \in 1 .. Len(work_queue[w]), m < n,
                      my_group[work_queue[w][m]] = my_group[work_queue[w][n]]
               PROVE  Bucket(work_queue[w][m]) >= Bucket(work_queue[w][n])
    BY DEF MostSignificantFirst
  <2>1. /\ work_queue[w][m] \in Tasks /\ my_group[work_queue[w][m]] # NULL
        /\ work_queue[w][n] \in Tasks /\ my_group[work_queue[w][n]] # NULL
    BY QueuedMember DEF IInv
  <2>2. /\ Bucket(work_queue[w][m]) \in Levels
        /\ InBucket(work_queue[w][m], Bucket(work_queue[w][m]))
        /\ Bucket(work_queue[w][n]) \in Levels
        /\ InBucket(work_queue[w][n], Bucket(work_queue[w][n]))
    BY <2>1, BucketIsIn DEF Ordered
  <2> QED
    BY <2>2 DEF Ordered, Sorted
<1> QED
  BY <1>1, InvariantOrdered, PTL

-----------------------------------------------------------------------------
(***************************************************************************)
(* Which tasks wait_group makes significant.                               *)
(***************************************************************************)

(***************************************************************************)
(* Steps that decide on no task, while the cursor stays or the loops are   *)
(* left.                                                                   *)
(***************************************************************************)
LEMMA ChosenFrame ==
  ASSUME Chosen,
         UNCHANGED <<pending_q, my_group, significance, cur, sig, i, current,
                     goal>>,
         \A t \in Tasks : /\ stage'[t] = "pending" => stage[t] = "pending"
                          /\ stage'[t] \in Taken <=> stage[t] \in Taken,
         \A l \in Levels : \A n \in 1 .. Len(pending_q[cur][l]) :
            Dealing => pending_q[cur][l][n] \in Tasks,
         mainPc' \in InWait => mainPc \in InWait,
         Dealing' => mainPc' = mainPc
  PROVE  Chosen'
<1>1. \A t : \A l : InBucket(t, l)' <=> InBucket(t, l)
  BY BucketFrame
<1>2. AsPushed'
  BY <1>1 DEF Chosen, AsPushed
<1>3. PassedTaken'
  BY DEF Chosen, PassedTaken, Dealing, Ahead
<1>4. QuotaUsed'
  BY <1>1 DEF Chosen, QuotaUsed, Members
<1>5. HigherFirst'
  BY <1>1 DEF Chosen, HigherFirst, Members
<1> QED
  BY <1>2, <1>3, <1>4, <1>5 DEF Chosen

\* The buckets of the group that is dealt hold tasks.
LEMMA BucketTasks ==
  ASSUME TypeOK
  PROVE  \A l \in Levels : \A n \in 1 .. Len(pending_q[cur][l]) :
            Dealing => pending_q[cur][l][n] \in Tasks
BY DEF TypeOK, MainType, GroupType, Dealing, InWait

\* Outside of wait_group only the significance of pending tasks counts.
LEMMA OutsideFrame ==
  ASSUME Chosen, mainPc' \notin InWait, AsPushed'
  PROVE  Chosen'
BY DEF Chosen, PassedTaken, QuotaUsed, HigherFirst, Dealing, InWait

(***************************************************************************)
(* A new task is not pending; one that is pushed goes to the bucket of its *)
(* significance.                                                           *)
(***************************************************************************)
LEMMA ApplicationChosen ==
  ASSUME TypeOK, Structure, Chosen, Application
  PROVE  Chosen'
<1>0. /\ stage \in [Tasks -> Stages]
      /\ significance \in [Tasks -> Levels]
      /\ my_group \in [Tasks -> groups \cup {NULL}]
      /\ groups \subseteq Groups
  BY DEF TypeOK, HistoryType, TaskType, GroupType
<1>1. mainPc' \notin InWait
  BY DEF Application, NewTask, PushTask, PushUngrouped, WaitGroup, WaitAborts,
         Shutdown, InWait
<1>2. ASSUME NEW s \in SigChoices, NEW v \in VersionChoices, NewTask(s, v)
      PROVE  AsPushed'
  <2>1. PICK t \in Tasks : t = id
    BY <1>2 DEF NewTask, TypeOK, TaskType, Tasks
  <2>2. /\ stage'[t] = "made"
        /\ \A u \in Tasks \ {t} : /\ stage'[u] = stage[u]
                                  /\ significance'[u] = significance[u]
        /\ UNCHANGED <<pending_q, my_group>>
    BY <1>0, <1>2, <2>1 DEF NewTask, buckets
  <2>3. \A u : \A l : InBucket(u, l)' <=> InBucket(u, l)
    BY <2>2, BucketFrame
  <2> QED
    BY <2>2, <2>3 DEF Chosen, AsPushed
<1>3. ASSUME NEW t \in Tasks, PushUngrouped(t)
      PROVE  AsPushed'
  <2>1. /\ \A u \in Tasks : stage'[u] = "pending" => stage[u] = "pending"
        /\ UNCHANGED <<pending_q, my_group, significance>>
    BY <1>0, <1>3 DEF PushUngrouped, buckets
  <2>2. \A u : \A l : InBucket(u, l)' <=> InBucket(u, l)
    BY <2>1, BucketFrame
  <2> QED
    BY <2>1, <2>2 DEF Chosen, AsPushed
<1>4. ASSUME NEW t \in Tasks, NEW g \in Groups, PushTask(t, g)
      PROVE  AsPushed'
  <2>1. /\ stage' = [stage EXCEPT ![t] = "pending"]
        /\ significance' = significance
        /\ my_group' = [my_group EXCEPT ![t] = g]
    BY <1>4 DEF PushTask
  <2>2. /\ InBucket(t, significance[t])'
        /\ \A u \in Tasks \ {t} :
             /\ my_group'[u] = my_group[u]
             /\ my_group[u] # NULL => \A l \in Levels :
                  InBucket(u, l)' <=> InBucket(u, l)
    BY <1>4, PushBucket
  <2>4. ASSUME NEW l \in Levels, InBucket(t, l)'
        PROVE  l = significance[t]
    BY <1>4, <2>4, PushOneBucket
  <2>5. ASSUME NEW u \in Tasks \ {t}, NEW l \in Levels,
               stage'[u] = "pending", InBucket(u, l)'
        PROVE  significance[u] = l
    <3>1. stage[u] = "pending" /\ my_group[u] # NULL
      BY <1>0, <2>1, <2>5 DEF Structure, GroupKnown
    <3> QED
      BY <2>2, <2>5, <3>1 DEF Chosen, AsPushed
  <2> QED
    BY <2>1, <2>4, <2>5 DEF AsPushed
<1>5. ASSUME NEW g \in Groups, WaitGroup(g) \/ WaitAborts(g)
      PROVE  AsPushed'
  <2>1. UNCHANGED <<pending_q, my_group, significance, stage>>
    BY <1>5 DEF WaitGroup, WaitAborts, tasks, buckets, history
  <2> QED
    BY <2>1, BucketFrame DEF Chosen, AsPushed
<1>6. CASE Shutdown
  <2>1. UNCHANGED <<pending_q, my_group, significance, stage>>
    BY <1>6 DEF Shutdown, tasks, buckets, history
  <2>2. AsPushed'
    BY <2>1, BucketFrame DEF Chosen, AsPushed
  <2> QED
    BY <1>1, <2>2, OutsideFrame
<1> QED
  BY <1>1, <1>2, <1>3, <1>4, <1>5, <1>6, OutsideFrame DEF Application

(***************************************************************************)
(* At the lock every task of the group is pending.                         *)
(***************************************************************************)
LEMMA LockChosen ==
  ASSUME TypeOK, Structure, Chosen, NEW r \in Ratios, LockGroup(r)
  PROVE  Chosen'
<1>1. /\ mainPc = "lock" /\ lock[cur] = FREE
      /\ mainPc' = "select" /\ sig' = SIGNIFICANT /\ i' = 1
      /\ UNCHANGED <<cur, pending_q, my_group, significance, stage>>
  BY DEF LockGroup, BeginWait, tasks, buckets, history
<1>2. cur \in Groups /\ cur \notin waited
  BY <1>1 DEF TypeOK, MainType, GroupType, Structure, MainLocks
<1>3. \A t : \A l : InBucket(t, l)' <=> InBucket(t, l)
  BY <1>1, BucketFrame
<1>4. ASSUME NEW t \in Members(cur)
      PROVE  stage[t] = "pending"
  <2>1. t \in Tasks /\ my_group[t] = cur /\ my_group[t] # NULL
    BY <1>2 DEF Members
  <2>2. stage[t] \in Stages \ {"unborn", "made", "ungrouped"}
    BY <2>1 DEF Structure, GroupKnown, TypeOK, HistoryType
  <2>3. stage[t] \notin Taken
    BY <1>1, <1>2, <2>1 DEF Structure, TakenInWait, InWait
  <2> QED
    BY <2>2, <2>3 DEF Stages, Taken
<1>5. Members(cur)' = Members(cur)
  BY <1>1 DEF Members
<1>6. AsPushed'
  BY <1>1, <1>3 DEF Chosen, AsPushed
<1>7. PassedTaken'
  BY <1>1 DEF PassedTaken, Ahead, Levels, NON_SIGNIFICANT
<1>8. QuotaUsed'
  BY <1>1, <1>4, <1>5 DEF QuotaUsed, Taken
<1>9. HigherFirst'
  <2>1. ASSUME NEW t \in Members(cur), NEW l \in Levels, InBucket(t, l),
               Undecided(l)
        PROVE  significance[t] # SIGNIFICANT
    BY <1>4, <2>1 DEF Chosen, AsPushed, Undecided, Members
  <2> QED
    BY <1>1, <1>3, <1>5, <2>1 DEF HigherFirst
<1> QED
  BY <1>6, <1>7, <1>8, <1>9 DEF Chosen

(***************************************************************************)
(* wait_group decides on the task it has come to.                          *)
(***************************************************************************)
LEMMA DecideChosen ==
  ASSUME TypeOK, Structure, Chosen, AtTask, Decide(Here),
         UNCHANGED <<pending_q, my_group, cur, sig, goal>>,
         NEW s \in Taken, stage' = [stage EXCEPT ![Here] = s],
         \/ mainPc' = "select" /\ i' = i + 1
         \/ mainPc' = "count" /\ i' = i
  PROVE  Chosen'
<1>0. /\ stage \in [Tasks -> Stages]
      /\ significance \in [Tasks -> Levels]
      /\ current \in Nat /\ goal \in Nat /\ i \in Nat \ {0}
      /\ sig \in Levels
      /\ cur \in Groups
      /\ pending_q \in [Groups -> [Levels -> Seq(Tasks)]]
  BY HereType DEF TypeOK, MainType, TaskType, GroupType, HistoryType, AtTask,
                  Dealing, InWait
<1>1. /\ mainPc = "select" /\ Dealing /\ i \in 1 .. Len(pending_q[cur][sig])
      /\ Here \in Tasks /\ my_group[Here] = cur
      /\ \A l \in Levels : InBucket(Here, l) => l = sig
      /\ InBucket(Here, sig)
  BY HereBucket, <1>0 DEF AtTask, Dealing
<1>2. stage[Here] = "pending"
  BY <1>0, <1>1 DEF Structure, CursorHolds, Ahead, Here
<1>3. significance[Here] = sig
  BY <1>0, <1>1, <1>2 DEF Chosen, AsPushed
<1>4. /\ current' \in Nat /\ current' >= current
      /\ significance' = [significance EXCEPT ![Here] = Decision(Here)]
  BY <1>0 DEF Decide
<1>5. /\ Undecided(sig) /\ current < goal => Decision(Here) = SIGNIFICANT
      /\ Undecided(sig) /\ ~ (current < goal)
           => Decision(Here) = NON_SIGNIFICANT
  BY <1>3 DEF Decision, DecisionBy
<1>6. \A t : \A l : InBucket(t, l)' <=> InBucket(t, l)
  BY BucketFrame
<1>7. /\ Members(cur)' = Members(cur)
      /\ stage'[Here] = s /\ significance'[Here] = Decision(Here)
      /\ \A t \in Tasks \ {Here} : /\ stage'[t] = stage[t]
                                   /\ significance'[t] = significance[t]
  BY <1>0, <1>1, <1>4 DEF Members
<1>8. NON_SIGNIFICANT # SIGNIFICANT
  BY DEF NON_SIGNIFICANT
<1>9. AsPushed'
  BY <1>6, <1>7 DEF Chosen, AsPushed, Taken
<1>10. PassedTaken'
  <2> SUFFICES ASSUME NEW l \in Levels, NEW n \in 1 .. Len(pending_q[cur][l]),
                      ~ Ahead(l, n)'
               PROVE  stage'[pending_q[cur][l][n]] \in Taken
    BY DEF PassedTaken
  <2>1. pending_q[cur][l][n] \in Tasks
    BY <1>0
  <2>2. CASE Ahead(l, n)
    <3>1. l = sig /\ n = i
      BY <1>0, <1>1, <2>2 DEF Ahead
    <3> QED
      BY <1>7, <3>1 DEF Here
  <2>3. CASE ~ Ahead(l, n)
    <3>1. stage[pending_q[cur][l][n]] \in Taken
      BY <1>1, <2>3 DEF Chosen, PassedTaken
    <3> QED
      BY <1>7, <2>1, <3>1
  <2> QED
    BY <2>2, <2>3
<1>11. QuotaUsed'
  <2> SUFFICES ASSUME NEW u \in Members(cur), NEW l \in Levels,
                      Undecided(l), InBucket(u, l), stage'[u] \in Taken,
                      significance'[u] # SIGNIFICANT
               PROVE  current' >= goal
    BY <1>6, <1>7 DEF QuotaUsed
  <2>1. current >= goal
    <3>1. CASE u = Here
      BY <1>0, <1>1, <1>5, <1>7, <3>1
    <3>2. CASE u # Here
      BY <1>1, <1>7, <3>2 DEF Chosen, QuotaUsed, Members, InWait
    <3> QED
      BY <3>1, <3>2
  <2> QED
    BY <1>0, <1>4, <2>1
<1>12. HigherFirst'
  <2> SUFFICES ASSUME NEW t \in Members(cur), NEW u \in Members(cur),
                      NEW l \in Levels, NEW m \in Levels,
                      Undecided(l), InBucket(t, l),
                      significance'[t] = SIGNIFICANT,
                      Undecided(m), InBucket(u, m), m > l
               PROVE  significance'[u] = SIGNIFICANT
    BY <1>6, <1>7 DEF HigherFirst
  <2>0. /\ t \in Tasks /\ my_group[t] = cur
        /\ u \in Tasks /\ my_group[u] = cur
    BY DEF Members
  <2>1. CASE t = Here
    <3>1. l = sig /\ current < goal /\ u # Here
      <4>1. l = sig
        BY <1>1, <2>1
      <4>2. current < goal
        BY <1>5, <1>7, <1>8, <2>1, <4>1
      <4>3. m # sig
        BY <4>1 DEF Levels, NON_SIGNIFICANT
      <4> QED
        BY <1>1, <4>1, <4>2, <4>3
    <3>2. PICK n \in 1 .. Len(pending_q[cur][m]) : pending_q[cur][m][n] = u
      BY <2>0 DEF InBucket
    <3>3. ~ Ahead(m, n)
      BY <1>0, <3>1 DEF Ahead, Levels, NON_SIGNIFICANT
    <3>4. stage[u] \in Taken
      BY <1>1, <3>2, <3>3 DEF Chosen, PassedTaken
    <3>5. ~ (current >= goal)
      BY <1>0, <3>1
    <3>6. significance[u] = SIGNIFICANT
      BY <1>1, <3>4, <3>5 DEF Chosen, QuotaUsed, InWait
    <3> QED
      BY <1>7, <2>0, <3>1, <3>6
  <2>2. CASE u = Here /\ t # Here
    <3>1. m = sig
      BY <1>1, <2>2
    <3>2. PICK n \in 1 .. Len(pending_q[cur][l]) : pending_q[cur][l][n] = t
      BY <2>0 DEF InBucket
    <3>3. Ahead(l, n)
      BY <1>0, <3>1 DEF Ahead, Levels, NON_SIGNIFICANT
    <3>4. stage[t] = "pending"
      BY <1>1, <3>2, <3>3 DEF Structure, CursorHolds
    <3>5. significance[t] = l
      BY <2>0, <3>4 DEF Chosen, AsPushed
    <3> QED
      BY <1>7, <2>0, <2>2, <3>5 DEF Undecided
  <2>3. CASE u # Here /\ t # Here
    BY <1>1, <1>7, <2>0, <2>3 DEF Chosen, HigherFirst, InWait
  <2> QED
    BY <2>1, <2>2, <2>3
<1> QED
  BY <1>9, <1>10, <1>11, <1>12 DEF Chosen

LEMMA SkipChosen ==
  ASSUME TypeOK, Structure, Chosen, SkipTask
  PROVE  Chosen'
<1>1. /\ AtTask /\ Decide(Here) /\ i' = i + 1 /\ mainPc' = "select"
      /\ stage' = [stage EXCEPT ![Here] = "skipped"]
      /\ UNCHANGED <<pending_q, my_group, cur, sig, goal>>
  BY DEF SkipTask, AtTask, buckets
<1>2. "skipped" \in Taken
  BY DEF Taken
<1> QED
  BY <1>1, <1>2, DecideChosen

LEMMA DispatchChosen ==
  ASSUME TypeOK, Structure, Chosen, DispatchTask
  PROVE  Chosen'
<1>1. /\ AtTask /\ Decide(Here) /\ i' = i /\ mainPc' = "count"
      /\ stage' = [stage EXCEPT ![Here] = "queued"]
      /\ UNCHANGED <<pending_q, my_group, cur, sig, goal>>
  BY DEF DispatchTask, Deal, buckets
<1>2. "queued" \in Taken
  BY DEF Taken
<1> QED
  BY <1>1, <1>2, DecideChosen

(***************************************************************************)
(* The cursor goes on: what it leaves behind has been decided on.          *)
(***************************************************************************)
LEMMA CursorChosen ==
  ASSUME TypeOK, Structure, Chosen, CountTask \/ NextLevel
  PROVE  Chosen'
<1>1. /\ Dealing /\ mainPc \in InWait
      /\ UNCHANGED <<pending_q, my_group, significance, stage, cur, current,
                     goal>>
  BY DEF CountTask, Count, NextLevel, LowerLevel, BucketDone, Dealing, InWait,
         tasks, buckets, history
<1>2. \A t : \A l : InBucket(t, l)' <=> InBucket(t, l)
  BY <1>1, BucketFrame
<1>3. AsPushed'
  BY <1>1, <1>2 DEF Chosen, AsPushed
<1>4. QuotaUsed'
  BY <1>1, <1>2 DEF Chosen, QuotaUsed, Members
<1>5. HigherFirst'
  BY <1>1, <1>2 DEF Chosen, HigherFirst, Members
<1>6. PassedTaken'
  <2>0. sig \in Levels /\ i \in Nat \ {0} /\ cur \in Groups
        /\ pending_q \in [Groups -> [Levels -> Seq(Tasks)]]
    BY <1>1 DEF TypeOK, MainType, GroupType
  <2> SUFFICES ASSUME NEW l \in Levels, NEW n \in 1 .. Len(pending_q[cur][l]),
                      ~ Ahead(l, n)'
               PROVE  ~ Ahead(l, n)
    BY <1>1 DEF Chosen, PassedTaken
  <2>1. n \in Nat \ {0} /\ n <= Len(pending_q[cur][l])
    BY <2>0
  <2>2. CASE CountTask
    <3>1. mainPc = "count" /\ mainPc' = "select" /\ sig' = sig /\ i' = i + 1
      BY <2>2 DEF CountTask, Count
    <3> QED
      BY <2>0, <2>1, <3>1 DEF Ahead, Levels, NON_SIGNIFICANT
  <2>3. CASE NextLevel
    <3>1. /\ sig' = sig - 1 /\ i' = 1 /\ mainPc' = "select"
          /\ i > Len(pending_q[cur][sig])
      BY <2>3 DEF NextLevel, LowerLevel, BucketDone
    <3>2. CASE l = sig
      BY <2>0, <2>1, <3>1, <3>2 DEF Ahead, Levels, NON_SIGNIFICANT
    <3>3. CASE l # sig
      BY <2>0, <2>1, <3>1, <3>3 DEF Ahead, Levels, NON_SIGNIFICANT
    <3> QED
      BY <3>2, <3>3
  <2> QED
    BY <2>2, <2>3
<1> QED
  BY <1>3, <1>4, <1>5, <1>6 DEF Chosen

\* A worker moves tasks among the stages that wait_group has taken them to.
LEMMA WorkerStages ==
  ASSUME TypeOK, Structure, NEW w \in Workers, Worker(w)
  PROVE  \A t \in Tasks :
           /\ stage'[t] = "pending" => stage[t] = "pending"
           /\ stage'[t] \in Taken <=> stage[t] \in Taken
           /\ stage'[t] \in Dispatched <=> stage[t] \in Dispatched
<1> USE DEF Taken, Dispatched
<1>1. stage \in [Tasks -> Stages]
  BY DEF TypeOK, HistoryType
<1>2. CASE PopTask(w)
  <2>1. work_queue[w] \in Seq(Tasks) /\ work_queue[w] # << >>
    BY <1>2 DEF PopTask, TypeOK, WorkerType
  <2>2. /\ 1 \in 1 .. Len(work_queue[w]) /\ Head(work_queue[w]) \in Tasks
        /\ Head(work_queue[w]) = work_queue[w][1]
    BY <2>1
  <2>3. stage[Head(work_queue[w])] = "queued"
    BY <2>2 DEF Structure, QueuesHold
  <2>4. stage' = [stage EXCEPT ![Head(work_queue[w])] = "held"]
    BY <1>2 DEF PopTask
  <2> QED
    BY <1>1, <2>2, <2>3, <2>4
<1>3. CASE CountDown(w)
  <2>1. job[w] \in Tasks /\ stage[job[w]] = "held"
    BY <1>3 DEF CountDown, CountDownAnd, Structure, HandsHold, Working
  <2>2. stage' = [stage EXCEPT ![job[w]] = "finished"]
    BY <1>3 DEF CountDown, CountDownAnd
  <2> QED
    BY <1>1, <2>1, <2>2
<1>4. CASE ~ PopTask(w) /\ ~ CountDown(w)
  BY <1>4 DEF Worker, CheckRunning, PopNothing, Recheck, LoopTest, RunTask,
              EnterSync, TakeLock, LeaveSync, history
<1> QED
  BY <1>2, <1>3, <1>4

(***************************************************************************)
(* A worker moves tasks among the stages that wait_group has taken them    *)
(* to.                                                                     *)
(***************************************************************************)
LEMMA WorkerChosen ==
  ASSUME TypeOK, Structure, Chosen, NEW w \in Workers, Worker(w)
  PROVE  Chosen'
<1>1. /\ UNCHANGED <<pending_q, my_group, significance, cur, sig, i, current,
                     goal>>
      /\ mainPc' \in InWait => mainPc \in InWait
      /\ Dealing' => mainPc' = mainPc
  BY DEF Worker, CheckRunning, PopNothing, Recheck, LoopTest, PopTask, RunTask,
         EnterSync, TakeLock, CountDown, CountDownAnd, LeaveSync, Dealing,
         InWait, locals, tasks, buckets
<1>2. \A t \in Tasks : /\ stage'[t] = "pending" => stage[t] = "pending"
                       /\ stage'[t] \in Taken <=> stage[t] \in Taken
  BY WorkerStages
<1> QED
  BY <1>1, <1>2, ChosenFrame, BucketTasks

\* Chosen is inductive.
LEMMA NextChosen ==
  ASSUME TypeOK, Structure, Chosen, [Next]_vars
  PROVE  Chosen'
<1>1. CASE StartWorker \/ StopWorker \/ JoinWorker \/ JoinCrashes
           \/ WaitReturn \/ SpuriousWakeup \/ CondWait
  <2>1. /\ UNCHANGED <<pending_q, my_group, significance, cur, sig, i, current,
                       goal, stage>>
        /\ mainPc' \in InWait => mainPc \in InWait
        /\ ~ Dealing'
    BY <1>1 DEF StartWorker, StopWorker, JoinWorker, JoinCrashes, WaitReturn,
                SpuriousWakeup, CondWait, EndLoops, BucketDone, Dealing,
                InWait, locals, tasks, buckets, history
  <2> QED
    BY <2>1, ChosenFrame, BucketTasks
<1>2. CASE UNCHANGED vars
  <2>1. UNCHANGED <<pending_q, my_group, significance, cur, sig, i, current,
                    goal, stage, mainPc>>
    BY <1>2 DEF vars, locals, tasks, buckets, history
  <2> QED
    BY <2>1, ChosenFrame, BucketTasks
<1> QED
  BY <1>1, <1>2, ApplicationChosen, LockChosen, SkipChosen, DispatchChosen,
     CursorChosen, WorkerChosen
  DEF Next, Call

\* So Chosen holds in every state.
LEMMA InvariantChosen == Spec => [](IInv /\ Ordered /\ Chosen)
<1>1. Init => Chosen
  <2>1. Init => \A t \in Tasks : stage[t] # "pending"
    BY DEF Init
  <2> QED
    BY <2>1 DEF Init, Chosen, AsPushed, PassedTaken, QuotaUsed, HigherFirst,
                Dealing, InWait
<1>2. IInv /\ Chosen /\ [Next]_vars => Chosen'
  BY NextChosen DEF IInv
<1> QED
  BY <1>1, <1>2, InvariantOrdered, PTL DEF Spec

(***************************************************************************)
(* Of the tasks that left the choice to the runtime none becomes           *)
(* significant before one that came with a higher significance.            *)
(***************************************************************************)
THEOREM PriorityCorrect == Spec => []Priority
<1>1. IInv /\ Ordered /\ Chosen => Priority
  <2> SUFFICES ASSUME IInv, Ordered, Chosen, DealtOut,
                      NEW t \in Promoted, NEW u \in Middling,
                      Bucket(u) > Bucket(t)
               PROVE  u \in Promoted
    BY DEF Priority
  <2>1. /\ mainPc \in InWait /\ cur # NULL
        /\ t \in Members(cur) /\ u \in Members(cur)
        /\ Undecided(Bucket(t)) /\ Undecided(Bucket(u))
        /\ significance[t] = SIGNIFICANT
    BY DEF DealtOut, InWait, Promoted, Middling, IInv, TypeOK, MainType,
           GroupType
  <2>2. /\ Bucket(t) \in Levels /\ InBucket(t, Bucket(t))
        /\ Bucket(u) \in Levels /\ InBucket(u, Bucket(u))
    BY <2>1, BucketIsIn DEF Ordered, Members
  <2>3. significance[u] = SIGNIFICANT
    BY <2>1, <2>2 DEF Chosen, HigherFirst
  <2> QED
    BY <2>3 DEF Promoted
<1> QED
  BY <1>1, InvariantChosen, PTL

=============================================================================
