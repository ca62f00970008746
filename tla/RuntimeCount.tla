---------------------------- MODULE RuntimeCount ----------------------------
(***************************************************************************)
(* What executing_num counts, the rendezvous of wait_group with its tasks, *)
(* and what has been executed for them by then, for any number of workers, *)
(* tasks and groups.                                                       *)
(***************************************************************************)
EXTENDS RuntimeStructure

USE RuntimeAssumption

(***************************************************************************)
(* Where a task is and the stage it has come to agree.                     *)
(***************************************************************************)
LEMMA InFlightIsOut ==
  ASSUME TypeOK, Structure, NEW g
  PROVE  InFlight(g) = OutOf(g)
<1> USE DEF Structure
<1>1. ASSUME NEW t \in Tasks
      PROVE  stage[t] = "queued" <=> Queued(t)
  BY DEF QueuesHold, OutSomewhere, Queued
<1>2. ASSUME NEW t \in Tasks
      PROVE  stage[t] = "held" <=> Held(t)
  BY DEF HandsHold, OutSomewhere, Held
<1> QED
  BY <1>1, <1>2 DEF InFlight, OutOf, Members, Out

\* One element more, one element less.
LEMMA OneMore ==
  ASSUME NEW S, NEW x, IsFiniteSet(S), x \notin S
  PROVE  Cardinality(S \cup {x}) = Cardinality(S) + 1
BY FS_AddElement

\* The same for an element that is taken away.
LEMMA OneLess ==
  ASSUME NEW S, NEW x, IsFiniteSet(S), x \in S
  PROVE  Cardinality(S \ {x}) = Cardinality(S) - 1
BY FS_RemoveElement

\* CountExact, told by the stages of the tasks.
LEMMA CountExactByStage ==
  ASSUME TypeOK, Structure
  PROVE  CountExact <=>
           \A g \in Groups : executing_num[g] = Cardinality(Counted(g))
BY InFlightIsOut DEF CountExact, Counted

\* The same after a step.
LEMMA CountExactNext ==
  (TypeOK /\ Structure)' =>
    (CountExact' <=>
       \A g \in Groups : executing_num'[g] = Cardinality(Counted(g)'))
<1>1. TypeOK /\ Structure =>
        (CountExact <=>
           \A g \in Groups : executing_num[g] = Cardinality(Counted(g)))
  BY CountExactByStage
<1>2. (TypeOK /\ Structure =>
        (CountExact <=>
           \A g \in Groups : executing_num[g] = Cardinality(Counted(g))))'
  BY <1>1, PTL
<1> QED
  BY <1>2

(***************************************************************************)
(* There are no more tasks to count than an unsigned int can hold.         *)
(***************************************************************************)
LEMMA CountedBound ==
  ASSUME NEW g
  PROVE  /\ IsFiniteSet(Counted(g))
         /\ Cardinality(Counted(g)) \in 0 .. UINT_MAX
         /\ IsFiniteSet(Counted(g)')
         /\ Cardinality(Counted(g)') \in 0 .. UINT_MAX
<1>1. IsFiniteSet(Tasks) /\ Cardinality(Tasks) = MaxTasks
  BY FS_Interval DEF Tasks
<1>2. Counted(g) \subseteq Tasks /\ Counted(g)' \subseteq Tasks
  BY DEF Counted, OutOf, Members
<1>3. ASSUME NEW S \in SUBSET Tasks
      PROVE  IsFiniteSet(S) /\ Cardinality(S) \in 0 .. UINT_MAX
  <2>1. /\ IsFiniteSet(S)
        /\ Cardinality(S) \in Nat
        /\ Cardinality(S) <= MaxTasks
    BY <1>1, FS_Subset, FS_CardinalityType
  <2> QED
    BY <2>1
<1> QED
  BY <1>2, <1>3

(***************************************************************************)
(* A worker that has the lock counts down a task that has been counted:    *)
(* until wait_group has counted the task it pushed, the lock is its own.   *)
(***************************************************************************)
LEMMA CountsDownCounted ==
  ASSUME TypeOK, Structure, NEW w \in Workers, workerPc[w] = "countdown"
  PROVE  job[w] \in Counted(my_group[job[w]])
<1>1. job[w] \in Tasks /\ stage[job[w]] = "held" /\ my_group[job[w]] \in Groups
  BY JobType DEF Working
<1>2. ASSUME mainPc = "count"
      PROVE  Here # job[w]
  <2>1. lock[my_group[job[w]]] = w
    BY DEF Structure, WorkerLocks
  <2>2. my_group[job[w]] # cur
    BY <1>1, <1>2, <2>1 DEF Structure, MainLocks, Dealing
  <2>3. my_group[Here] = cur
    BY <1>2, HereType DEF Structure, CursorHolds, Dealing, BucketsHold, Here
  <2> QED
    BY <2>2, <2>3
<1> QED
  BY <1>1, <1>2 DEF Counted, OutOf, Members, Out, Uncounted

\* What is counted stays the same while tasks neither go out nor come in.
LEMMA CountedFrame ==
  ASSUME NEW g, UNCHANGED my_group, Uncounted' = Uncounted,
         \A t \in Tasks : stage'[t] \in Out <=> stage[t] \in Out
  PROVE  Counted(g)' = Counted(g)
BY DEF Counted, OutOf, Members

(***************************************************************************)
(* The steps of the application and of wait_group that leave what is       *)
(* counted as it is: DispatchTask sends a task out that is not counted yet.*)
(***************************************************************************)
LEMMA ApplicationCounts ==
  ASSUME TypeOK, Structure, Application, NEW g \in Groups
  PROVE  Counted(g)' = Counted(g) /\ executing_num' = executing_num
<1> USE DEF Structure
<1>1. mainPc = "user" /\ mainPc' # "count" /\ executing_num' = executing_num
  BY DEF Application, NewTask, PushTask, PushUngrouped, WaitGroup, WaitAborts,
         Shutdown, counts
<1>2. Uncounted' = Uncounted
  BY <1>1 DEF Uncounted
<1>3. stage \in [Tasks -> Stages] /\ my_group \in [Tasks -> groups \cup {NULL}]
  BY DEF TypeOK, HistoryType, TaskType
<1>4. ASSUME NEW s \in SigChoices, NEW v \in VersionChoices, NewTask(s, v)
      PROVE  Counted(g)' = Counted(g)
  <2>1. id \in Tasks /\ stage[id] = "unborn"
    BY <1>4 DEF NewTask, TypeOK, TaskType, Tasks, Ids
  <2>2. /\ stage' = [stage EXCEPT ![id] = "made"]
        /\ UNCHANGED my_group
    BY <1>4 DEF NewTask
  <2> QED
    BY <1>2, <1>3, <2>1, <2>2, CountedFrame DEF Out
<1>5. ASSUME NEW t \in Tasks, NEW h \in Groups, PushTask(t, h)
      PROVE  Counted(g)' = Counted(g)
  <2>1. stage[t] \notin Out /\ stage'[t] \notin Out
    BY <1>3, <1>5 DEF PushTask, Out
  <2>2. \A u \in Tasks : u # t => /\ stage'[u] = stage[u]
                                  /\ my_group'[u] = my_group[u]
    BY <1>3, <1>5 DEF PushTask
  <2> QED
    BY <1>2, <2>1, <2>2 DEF Counted, OutOf, Members
<1>6. ASSUME NEW t \in Tasks, PushUngrouped(t)
      PROVE  Counted(g)' = Counted(g)
  <2>1. /\ stage[t] \notin Out /\ stage'[t] \notin Out
        /\ \A u \in Tasks : u # t => stage'[u] = stage[u]
        /\ UNCHANGED my_group
    BY <1>3, <1>6 DEF PushUngrouped, Out
  <2> QED
    BY <1>2, <2>1, CountedFrame
<1>7. ASSUME NEW h \in Groups, WaitGroup(h) \/ WaitAborts(h)
      PROVE  Counted(g)' = Counted(g)
  <2>1. UNCHANGED <<stage, my_group>>
    BY <1>7 DEF WaitGroup, WaitAborts, tasks, history
  <2> QED
    BY <1>2, <2>1, CountedFrame
<1>8. ASSUME Shutdown
      PROVE  Counted(g)' = Counted(g)
  <2>1. UNCHANGED <<stage, my_group>>
    BY <1>8 DEF Shutdown, tasks, history
  <2> QED
    BY <1>2, <2>1, CountedFrame
<1>9. Counted(g)' = Counted(g)
  BY <1>4, <1>5, <1>6, <1>7, <1>8 DEF Application
<1> QED
  BY <1>1, <1>9

\* wait_group skips a task, or pushes one that it has not counted yet.
LEMMA DispatchCounts ==
  ASSUME TypeOK, Structure, SkipTask \/ DispatchTask, NEW g \in Groups
  PROVE  Counted(g)' = Counted(g) /\ executing_num' = executing_num
<1>1. /\ mainPc = "select"
      /\ i <= Len(pending_q[cur][sig])
      /\ mainPc' \in {"select", "count"}
      /\ stage' = [stage EXCEPT ![Here] =
                     IF mainPc' = "count" THEN "queued" ELSE "skipped"]
      /\ UNCHANGED <<cur, sig, pending_q, my_group, executing_num>>
      /\ mainPc' = "count" => i' = i
  BY DEF SkipTask, DispatchTask, Deal, AtTask, counts, buckets
<1>2. Here \in Tasks /\ stage[Here] = "pending" /\ i \in Nat
  BY <1>1, HereType DEF Structure, CursorHolds, Ahead, Dealing, Here
<1>3. stage \in [Tasks -> Stages]
  BY DEF TypeOK, HistoryType
<1>4. mainPc' = "count" => Here' = Here
  BY <1>1 DEF Here
<1>5. /\ \A t \in Tasks : t # Here => stage'[t] = stage[t]
      /\ stage'[Here] = IF mainPc' = "count" THEN "queued" ELSE "skipped"
  BY <1>1, <1>2, <1>3
<1> QED
  BY <1>1, <1>2, <1>4, <1>5 DEF Counted, OutOf, Members, Uncounted, Out

\* executing_num is set to 0 when nothing of the group is out (group.c:131).
LEMMA LockGroupCounts ==
  ASSUME TypeOK, Structure, NEW r \in Ratios, LockGroup(r), NEW g \in Groups
  PROVE  /\ Counted(g)' = Counted(g)
         /\ cur \in Groups /\ Counted(cur) = {}
         /\ executing_num' = [executing_num EXCEPT ![cur] = 0]
<1>1. /\ mainPc = "lock" /\ mainPc' = "select" /\ lock[cur] = FREE
      /\ UNCHANGED <<stage, my_group>>
      /\ executing_num' = [executing_num EXCEPT ![cur] = 0]
  BY DEF LockGroup, BeginWait, tasks, history
<1>2. cur \in Groups
  BY <1>1 DEF TypeOK, MainType, GroupType
<1>3. cur \notin waited
  BY <1>1, <1>2 DEF Structure, MainLocks
<1>4. Counted(cur) = {}
  BY <1>1, <1>3 DEF Structure, TakenInWait, InWait, Taken, Out, Counted, OutOf,
                    Members
<1>5. Counted(g)' = Counted(g)
  BY <1>1, CountedFrame DEF Uncounted
<1> QED
  BY <1>1, <1>2, <1>4, <1>5

\* executing_num++ adds the task that was pushed (group.c:158).
LEMMA CountTaskCounts ==
  ASSUME TypeOK, Structure, CountTask, NEW h, h = cur
  PROVE  /\ h \in Groups
         /\ Here \notin Counted(h)
         /\ Counted(h)' = Counted(h) \cup {Here}
         /\ \A g \in Groups \ {h} : Counted(g)' = Counted(g)
         /\ executing_num' =
              [executing_num EXCEPT ![cur] = Increment(executing_num[cur])]
<1>1. /\ mainPc = "count" /\ mainPc' = "select"
      /\ UNCHANGED <<stage, my_group, cur>>
      /\ executing_num' =
           [executing_num EXCEPT ![cur] = Increment(executing_num[cur])]
  BY DEF CountTask, Count, tasks, history
<1>2. /\ cur \in Groups /\ Here \in Tasks
      /\ stage[Here] \in Out /\ my_group[Here] = cur
  BY <1>1, HereType DEF Structure, CursorHolds, Dealing, BucketsHold, Here
<1>3. Uncounted = {Here} /\ Uncounted' = {}
  BY <1>1 DEF Uncounted
<1>4. Here \notin Counted(h)
  BY <1>3 DEF Counted
<1>5. OutOf(h)' = OutOf(h) /\ Here \in OutOf(h)
  BY <1>1, <1>2 DEF OutOf, Members
<1>6. Counted(h)' = Counted(h) \cup {Here}
  BY <1>1, <1>3, <1>5 DEF Counted
<1>7. \A g \in Groups \ {h} : Counted(g)' = Counted(g)
  BY <1>1, <1>2, <1>3 DEF Counted, OutOf, Members
<1> QED
  BY <1>1, <1>2, <1>4, <1>6, <1>7

\* The other steps of the main application count nothing.
LEMMA CallCounts ==
  ASSUME TypeOK, Structure, NEW g \in Groups,
         \/ StartWorker \/ NextLevel \/ CondWait \/ WaitReturn
         \/ StopWorker \/ JoinWorker \/ JoinCrashes \/ SpuriousWakeup
  PROVE  Counted(g)' = Counted(g) /\ executing_num' = executing_num
<1>1. /\ mainPc # "count" /\ mainPc' # "count"
      /\ UNCHANGED <<stage, my_group, executing_num>>
  BY DEF StartWorker, NextLevel, LowerLevel, BucketDone, CondWait, EndLoops,
         WaitReturn, StopWorker, JoinWorker, JoinCrashes, SpuriousWakeup,
         tasks, counts, history
<1> QED
  BY <1>1, CountedFrame DEF Uncounted

\* A worker that does not count down leaves what is counted.
LEMMA WorkerCounts ==
  ASSUME TypeOK, Structure, NEW w \in Workers, Worker(w), NEW g \in Groups,
         workerPc[w] # "countdown"
  PROVE  Counted(g)' = Counted(g) /\ executing_num' = executing_num
<1>1. ASSUME PopTask(w)
      PROVE  Counted(g)' = Counted(g)
  <2>1. /\ Head(work_queue[w]) \in Tasks
        /\ stage[Head(work_queue[w])] = "queued"
    BY <1>1 DEF PopTask, TypeOK, WorkerType, Structure, QueuesHold
  <2>2. /\ stage \in [Tasks -> Stages]
        /\ stage' = [stage EXCEPT ![Head(work_queue[w])] = "held"]
        /\ UNCHANGED <<my_group, mainPc, cur, sig, i, pending_q>>
    BY <1>1 DEF PopTask, TypeOK, HistoryType, tasks, locals, buckets
  <2>3. Uncounted' = Uncounted
    BY <2>2 DEF Uncounted, Here
  <2> QED
    BY <2>1, <2>2, <2>3, CountedFrame DEF Out
<1>2. ASSUME CheckRunning(w) \/ PopNothing(w) \/ Recheck(w) \/ RunTask(w)
             \/ EnterSync(w) \/ LeaveSync(w)
      PROVE  Counted(g)' = Counted(g)
  <2>1. UNCHANGED <<stage, my_group, mainPc, cur, sig, i, pending_q>>
    BY <1>2 DEF CheckRunning, PopNothing, Recheck, LoopTest, RunTask, EnterSync,
                TakeLock, LeaveSync, tasks, locals, buckets, history
  <2>2. Uncounted' = Uncounted
    BY <2>1 DEF Uncounted, Here
  <2> QED
    BY <2>1, <2>2, CountedFrame
<1>3. ~ CountDown(w)
  BY DEF CountDown, CountDownAnd
<1>4. executing_num' = executing_num
  BY <1>3 DEF Worker, CheckRunning, PopNothing, Recheck, LoopTest, PopTask,
              RunTask, EnterSync, TakeLock, LeaveSync, counts
<1> QED
  BY <1>1, <1>2, <1>3, <1>4 DEF Worker

\* executing_num-- takes out the task the worker finished (group.c:185).
LEMMA CountDownCounts ==
  ASSUME TypeOK, Structure, NEW w \in Workers, CountDown(w),
         NEW h, h = my_group[job[w]]
  PROVE  /\ h \in Groups
         /\ job[w] \in Counted(h)
         /\ Counted(h)' = Counted(h) \ {job[w]}
         /\ \A g \in Groups \ {h} : Counted(g)' = Counted(g)
         /\ executing_num' =
              [executing_num EXCEPT ![h] = Decrement(executing_num[h])]
<1>0. PICK t \in Tasks :
         t = job[w] /\ h \in Groups /\ h = my_group[t] /\ t \in Counted(h)
  BY JobType, CountsDownCounted DEF CountDown, CountDownAnd, Working
<1>1. /\ stage' = [stage EXCEPT ![t] = "finished"]
      /\ stage \in [Tasks -> Stages]
      /\ UNCHANGED <<my_group, cur, sig, i, pending_q>>
      /\ mainPc' = "count" <=> mainPc = "count"
      /\ executing_num' =
           [executing_num EXCEPT ![h] = Decrement(executing_num[h])]
  BY <1>0 DEF CountDown, CountDownAnd, TypeOK, HistoryType, tasks, locals,
              buckets
<1>2. Uncounted' = Uncounted
  BY <1>1 DEF Uncounted, Here
<1>3. /\ stage'[t] \notin Out
      /\ \A u \in Tasks \ {t} : stage'[u] = stage[u]
  BY <1>1 DEF Out
<1>4. \A g \in Groups \ {h} : Counted(g)' = Counted(g)
  BY <1>0, <1>1, <1>2, <1>3 DEF Counted, OutOf, Members
<1>5. Counted(h)' = Counted(h) \ {t}
  BY <1>0, <1>1, <1>2, <1>3 DEF Counted, OutOf, Members
<1> QED
  BY <1>0, <1>1, <1>4, <1>5

(***************************************************************************)
(* The count is inductive.                                                 *)
(***************************************************************************)
LEMMA NextCount ==
  ASSUME TypeOK, Structure, CountExact, [Next]_vars
  PROVE  CountExact'
<1> DEFINE Exact(g) == executing_num[g] = Cardinality(Counted(g))
<1>1. TypeOK' /\ Structure'
  BY NextType, NextStructure
<1>2. \A g \in Groups : Exact(g)
  BY CountExactByStage
<1>3. executing_num \in [Groups -> 0 .. UINT_MAX]
  BY DEF TypeOK, GroupType
<1> SUFFICES ASSUME NEW g \in Groups
             PROVE  Exact(g)'
  <2>1. CountExact' <=> \A g \in Groups : Exact(g)'
    BY <1>1, CountExactNext
  <2> QED
    BY <2>1
<1>4. ASSUME Counted(g)' = Counted(g), executing_num' = executing_num
      PROVE  Exact(g)'
  BY <1>2, <1>4
<1>5. ASSUME NEW r \in Ratios, LockGroup(r)
      PROVE  Exact(g)'
  BY <1>2, <1>3, <1>5, LockGroupCounts, FS_EmptySet
<1>6. ASSUME CountTask
      PROVE  Exact(g)'
  <2>1. CASE g = cur
    <3>1. /\ IsFiniteSet(Counted(g))
          /\ Cardinality(Counted(g)) \in 0 .. UINT_MAX
      BY CountedBound
    <3>2. Cardinality(Counted(g)') = Cardinality(Counted(g)) + 1
      <4>1. Here \notin Counted(g) /\ Counted(g)' = Counted(g) \cup {Here}
        BY <1>6, <2>1, CountTaskCounts
      <4>2. Cardinality(Counted(g) \cup {Here}) = Cardinality(Counted(g)) + 1
        BY <3>1, <4>1, OneMore, Zenon
      <4> QED
        BY <4>1, <4>2, Zenon
    <3>3. Cardinality(Counted(g)') \in 0 .. UINT_MAX
      BY CountedBound
    <3>4. executing_num'[g] = Increment(executing_num[g])
      BY <1>3, <1>6, <2>1, CountTaskCounts
    <3> QED
      BY <1>2, <3>1, <3>2, <3>3, <3>4 DEF Increment
  <2>2. CASE g # cur
    <3>1. Counted(g)' = Counted(g) /\ executing_num'[g] = executing_num[g]
      BY <1>3, <1>6, <2>2, CountTaskCounts
    <3> QED
      BY <1>2, <3>1
  <2> QED
    BY <2>1, <2>2
<1>7. ASSUME NEW w \in Workers, CountDown(w)
      PROVE  Exact(g)'
  <2>1. CASE g = my_group[job[w]]
    <3>1. /\ IsFiniteSet(Counted(g))
          /\ Cardinality(Counted(g)) \in 0 .. UINT_MAX
      BY CountedBound
    <3>2. job[w] \in Counted(g) /\ Counted(g)' = Counted(g) \ {job[w]}
      BY <1>7, <2>1, CountDownCounts
    <3>3. Cardinality(Counted(g)') = Cardinality(Counted(g)) - 1
      <4>1. Cardinality(Counted(g) \ {job[w]}) = Cardinality(Counted(g)) - 1
        BY <3>1, <3>2, OneLess, Zenon
      <4> QED
        BY <3>2, <4>1, Zenon
    <3>4. Cardinality(Counted(g)) # 0
      BY <3>1, <3>2, FS_EmptySet
    <3>5. executing_num'[g] = Decrement(executing_num[g])
      BY <1>3, <1>7, <2>1, CountDownCounts
    <3> QED
      BY <1>2, <3>1, <3>3, <3>4, <3>5 DEF Decrement
  <2>2. CASE g # my_group[job[w]]
    BY <1>2, <1>3, <1>7, <2>2, CountDownCounts
  <2> QED
    BY <2>1, <2>2
<1>8. ASSUME NEW w \in Workers, Worker(w)
      PROVE  Exact(g)'
  <2>1. CASE workerPc[w] # "countdown"
    BY <1>4, <1>8, <2>1, WorkerCounts
  <2>2. CASE workerPc[w] = "countdown"
    <3>1. CountDown(w)
      BY <1>8, <2>2 DEF Worker, CheckRunning, PopNothing, Recheck, LoopTest,
                        PopTask, RunTask, EnterSync, LeaveSync
    <3> QED
      BY <1>7, <3>1
  <2> QED
    BY <2>1, <2>2
<1>9. CASE Application
  BY <1>4, <1>9, ApplicationCounts
<1>10. CASE Call
  BY <1>4, <1>5, <1>6, <1>10, DispatchCounts, CallCounts DEF Call
<1>11. CASE SpuriousWakeup
  BY <1>4, <1>11, CallCounts
<1>12. CASE UNCHANGED vars
  <2>1. Counted(g)' = Counted(g) /\ executing_num' = executing_num
    BY <1>12, CountedFrame DEF Uncounted, Here, vars, tasks, locals, buckets,
                               counts, history
  <2> QED
    BY <1>4, <2>1
<1> QED
  BY <1>8, <1>9, <1>10, <1>11, <1>12 DEF Next

\* At the start nothing is out and nothing is counted.
LEMMA InitCount == Init => CountExact
<1> SUFFICES ASSUME Init PROVE CountExact
  OBVIOUS
<1>1. \A g \in Groups : Counted(g) = {} /\ executing_num[g] = 0
  BY DEF Init, Counted, OutOf, Members, Out
<1> QED
  BY <1>1, InitType, InitStructure, CountExactByStage, FS_EmptySet

(***************************************************************************)
(* The invariant IInv is inductive.                                        *)
(***************************************************************************)
THEOREM Invariant == Spec => []IInv
<1>1. Init => IInv
  BY InitType, InitStructure, InitCount DEF IInv
<1>2. IInv /\ [Next]_vars => IInv'
  BY NextType, NextStructure, NextCount DEF IInv
<1> QED
  BY <1>1, <1>2, PTL DEF Spec

(***************************************************************************)
(* executing_num is the number of the group's tasks that are out.          *)
(***************************************************************************)
THEOREM CountCorrect == Spec => []CountExact
<1>1. IInv => CountExact
  BY DEF IInv
<1> QED
  BY <1>1, Invariant, PTL

(***************************************************************************)
(* Only CountTask adds to what is counted, and only in the group that is   *)
(* being waited for.                                                       *)
(***************************************************************************)
LEMMA CountedGrows ==
  ASSUME TypeOK, Structure, [Next]_vars, NEW g \in Groups
  PROVE  \/ Counted(g)' \subseteq Counted(g)
         \/ g = cur /\ mainPc = "count" /\ mainPc' = "select"
<1>1. CASE CountTask
  <2>1. mainPc = "count" /\ mainPc' = "select"
    BY <1>1 DEF CountTask, Count
  <2>2. g # cur => Counted(g)' = Counted(g)
    BY <1>1, CountTaskCounts
  <2> QED
    BY <2>1, <2>2
<1>2. ASSUME NEW w \in Workers, Worker(w)
      PROVE  Counted(g)' \subseteq Counted(g)
  <2>1. CASE workerPc[w] # "countdown"
    BY <1>2, <2>1, WorkerCounts
  <2>2. CASE workerPc[w] = "countdown"
    <3>1. CountDown(w)
      BY <1>2, <2>2 DEF Worker, CheckRunning, PopNothing, Recheck, LoopTest,
                        PopTask, RunTask, EnterSync, LeaveSync
    <3>2. CASE g = my_group[job[w]]
      BY <3>1, <3>2, CountDownCounts
    <3>3. CASE g # my_group[job[w]]
      BY <3>1, <3>3, CountDownCounts
    <3> QED
      BY <3>2, <3>3
  <2> QED
    BY <2>1, <2>2
<1>3. CASE Application
  BY <1>3, ApplicationCounts
<1>4. CASE Call
  BY <1>1, <1>4, DispatchCounts, LockGroupCounts, CallCounts DEF Call
<1>5. CASE SpuriousWakeup
  BY <1>5, CallCounts
<1>6. CASE UNCHANGED vars
  BY <1>6, CountedFrame DEF Uncounted, Here, vars, tasks, locals, buckets,
                            history
<1> QED
  BY <1>2, <1>3, <1>4, <1>5, <1>6 DEF Next

(***************************************************************************)
(* wait_group wakes up after the last of its tasks, and returns.           *)
(***************************************************************************)
LEMMA Wakes ==
  ASSUME TypeOK, Structure, [Next]_vars, ~ SpuriousWakeups, mainPc' = "awake"
  PROVE  /\ cur' = cur /\ waited' = waited
         /\ \/ mainPc = "awake"
            \/ mainPc = "asleep" /\ cur \in Groups /\ executing_num'[cur] = 0
<1>1. ASSUME NEW w \in Workers, Worker(w), ~ CountDown(w)
      PROVE  UNCHANGED <<cur, waited, mainPc>>
  BY <1>1 DEF Worker, CheckRunning, PopNothing, Recheck, LoopTest, PopTask,
              RunTask, EnterSync, TakeLock, LeaveSync, locals, history
<1>2. ASSUME NEW w \in Workers, CountDown(w)
      PROVE  /\ UNCHANGED <<cur, waited>>
             /\ mainPc' # mainPc =>
                  /\ mainPc = "asleep" /\ cur \in Groups
                  /\ executing_num'[cur] = 0
  <2>1. PICK g \in Groups : g = my_group[job[w]]
    BY <1>2, CountDownCounts
  <2>2. /\ UNCHANGED <<cur, waited>>
        /\ mainPc' # mainPc =>
             mainPc = "asleep" /\ cur = g /\ Decrement(executing_num[g]) = 0
        /\ executing_num' = [executing_num EXCEPT ![g] = Decrement(@)]
    BY <1>2, <2>1 DEF CountDown, CountDownAnd, locals
  <2> QED
    BY <2>2 DEF TypeOK, GroupType
<1>3. ~ Application /\ ~ Call
  BY DEF Application, NewTask, PushTask, PushUngrouped, WaitGroup, WaitAborts,
         Shutdown, Call, StartWorker, LockGroup, BeginWait, SkipTask, AtTask,
         DispatchTask, Deal, CountTask, Count, NextLevel, LowerLevel,
         BucketDone, CondWait, EndLoops, WaitReturn, StopWorker, JoinWorker,
         JoinCrashes
<1>4. ~ SpuriousWakeup
  BY DEF SpuriousWakeup
<1> QED
  BY <1>1, <1>2, <1>3, <1>4 DEF Next, vars, locals, history

\* A group is waited for when WaitReturn says so.
LEMMA Returns ==
  ASSUME TypeOK, [Next]_vars
  PROVE  \/ waited' = waited
         \/ mainPc = "awake" /\ waited' = waited \cup {cur}
BY DEF Next, Worker, CheckRunning, PopNothing, Recheck, LoopTest, PopTask,
       RunTask, EnterSync, TakeLock, LeaveSync, CountDown, CountDownAnd,
       Application, NewTask, PushTask, PushUngrouped, WaitGroup, WaitAborts,
       Shutdown, Call, StartWorker, LockGroup, BeginWait, SkipTask,
       DispatchTask, Deal, CountTask, Count, NextLevel, LowerLevel,
       CondWait, EndLoops, WaitReturn, StopWorker, JoinWorker, JoinCrashes,
       SpuriousWakeup, vars, history

\* AllIn is inductive when there are no spurious wakeups.
LEMMA NextAllIn ==
  ASSUME IInv, AllIn, [Next]_vars, ~ SpuriousWakeups
  PROVE  AllIn'
<1> USE DEF IInv
<1>1. TypeOK' /\ Structure' /\ CountExact'
  BY NextType, NextStructure, NextCount
<1>2. waited \subseteq Groups
  BY DEF TypeOK, HistoryType, GroupType
<1>3. ASSUME mainPc' = "awake"
      PROVE  Counted(cur)' = {}
  <2>1. CASE mainPc = "awake"
    <3>1. cur \in Groups /\ cur' = cur
      BY <1>3, <2>1, Wakes DEF TypeOK, MainType, InWait, GroupType
    <3>2. Counted(cur) = {}
      BY <2>1 DEF AllIn
    <3>3. \A g \in Groups : g = cur => Counted(g)' \subseteq Counted(g)
      BY <2>1, CountedGrows
    <3> QED
      BY <3>1, <3>2, <3>3
  <2>2. CASE mainPc = "asleep"
    <3>1. PICK g \in Groups : g = cur /\ g = cur' /\ executing_num'[g] = 0
      BY <1>3, <2>2, Wakes
    <3>2. Cardinality(Counted(g)') = 0
      BY <1>1, <3>1, CountExactNext
    <3>3. Counted(g)' = {}
      BY <3>2, CountedBound, FS_EmptySet, Zenon
    <3> QED
      BY <3>1, <3>3
  <2> QED
    BY <1>3, <2>1, <2>2, Wakes
<1>4. ASSUME NEW g \in waited'
      PROVE  Counted(g)' = {}
  <2>1. g \in Groups /\ Counted(g) = {}
    BY <1>2, <1>4, Returns DEF AllIn, TypeOK, MainType, InWait, GroupType
  <2>2. ~ (g = cur /\ mainPc = "count" /\ mainPc' = "select")
    BY <1>4, Returns DEF Structure, FirstWait, InWait
  <2> QED
    BY <2>1, <2>2, CountedGrows
<1> QED
  BY <1>3, <1>4 DEF AllIn

(***************************************************************************)
(* When wait_group has returned, no task of its group is in a queue or     *)
(* with a worker, unless pthread_cond_wait returns spuriously.             *)
(***************************************************************************)
LEMMA AllInRendezvous ==
  ASSUME TypeOK, Structure, AllIn
  PROVE  Rendezvous
<1> SUFFICES ASSUME NEW g \in waited
             PROVE  InFlight(g) = {}
  BY DEF Rendezvous
<1>1. OutOf(g) \ Uncounted = {}
  BY DEF AllIn, Counted
<1>2. ASSUME mainPc = "count"
      PROVE  Here \notin OutOf(g)
  <2>1. my_group[Here] = cur
    BY <1>2, HereType DEF Structure, CursorHolds, Dealing, BucketsHold, Here
  <2>2. cur # g
    BY <1>2 DEF Structure, FirstWait, InWait
  <2> QED
    BY <2>1, <2>2 DEF OutOf, Members
<1>3. OutOf(g) = {}
  BY <1>1, <1>2 DEF Uncounted
<1> QED
  BY <1>3, InFlightIsOut

\* So AllIn holds in every state.
LEMMA InvariantAllIn ==
  ASSUME ~ SpuriousWakeups
  PROVE  Spec => [](IInv /\ AllIn)
<1>1. Init => AllIn
  BY DEF Init, AllIn
<1>2. IInv /\ AllIn /\ [Next]_vars => AllIn'
  BY NextAllIn
<1> QED
  BY <1>1, <1>2, Invariant, PTL DEF Spec

\* When wait_group has returned, no task of its group is out (group.c:172).
THEOREM RendezvousCorrect ==
  ASSUME ~ SpuriousWakeups
  PROVE  Spec => []Rendezvous
<1>1. IInv /\ AllIn => Rendezvous
  BY AllInRendezvous DEF IInv
<1> QED
  BY <1>1, InvariantAllIn, PTL

-----------------------------------------------------------------------------
(***************************************************************************)
(* What is executed for a task.                                            *)
(***************************************************************************)

(***************************************************************************)
(* What is due to a task is the function that get_job selects for it.      *)
(***************************************************************************)
LEMMA DueIsSelected ==
  ASSUME TypeOK, NEW t \in Tasks
  PROVE  Due(t) = IF Selected(t) = NULL THEN << >> ELSE <<Selected(t)>>
BY DEF Due, Selected, OrNull, Versions

(***************************************************************************)
(* A step that leaves the decision on a task alone leaves what is due.     *)
(***************************************************************************)
LEMMA DueFrame ==
  ASSUME NEW t, significance'[t] = significance[t], versions'[t] = versions[t]
  PROVE  Due(t)' = Due(t) /\ Selected(t)' = Selected(t)
BY DEF Due, Selected, OrNull

(***************************************************************************)
(* A task that is not with a worker changes, and stays away from workers.  *)
(***************************************************************************)
LEMMA LogFrame ==
  ASSUME TypeOK, Structure, Logged, NEW t \in Tasks,
         stage[t] \notin {"held", "finished"},
         stage'[t] \notin {"held", "finished"},
         stage'[t] = "skipped" => Due(t)' = << >>,
         \A u \in Tasks \ {t} : /\ stage'[u] = stage[u]
                                /\ significance'[u] = significance[u]
                                /\ versions'[u] = versions[u],
         UNCHANGED <<workerPc, job, execution, ran>>
  PROVE  Logged'
<1>1. \A u \in Tasks \ {t} : Due(u)' = Due(u) /\ Selected(u)' = Selected(u)
  BY DueFrame
<1>2. ASSUME NEW u \in Tasks
      PROVE  /\ stage'[u] \notin {"held", "finished"} => ran'[u] = << >>
             /\ stage'[u] = "skipped" => Due(u)' = << >>
             /\ stage'[u] = "finished" => ran'[u] = Due(u)'
  <2>1. CASE u = t
    BY <2>1 DEF Logged
  <2>2. CASE u # t
    BY <1>1, <2>2 DEF Logged
  <2> QED
    BY <2>1, <2>2
<1>3. ASSUME NEW w \in Workers, workerPc[w] \in Working
      PROVE  /\ Selected(job[w])' = Selected(job[w])
             /\ Due(job[w])' = Due(job[w])
  <2>1. job[w] \in Tasks \ {t} /\ job'[w] = job[w]
    BY <1>3, JobType
  <2> QED
    BY <2>1, DueFrame
<1>4. ASSUME NEW w \in Workers
      PROVE  /\ workerPc'[w] = "run" =>
                  /\ ran'[job'[w]] = << >>
                  /\ execution'[w] = Selected(job[w])'
             /\ workerPc'[w] \in {"sync", "countdown"} =>
                  ran'[job'[w]] = Due(job[w])'
  BY <1>3 DEF Logged, Working
<1> QED
  BY <1>2, <1>4 DEF Logged

\* Only workers change what is logged of a task that is with one.
LEMMA LogSame ==
  ASSUME Logged, UNCHANGED <<stage, significance, versions, workerPc, job,
                             execution, ran>>
  PROVE  Logged'
BY DEF Logged, Due, Selected, OrNull

\* The application adds tasks for which nothing has been executed.
LEMMA ApplicationLogged ==
  ASSUME TypeOK, Structure, Logged, Application
  PROVE  Logged'
<1>0. /\ stage \in [Tasks -> Stages]
      /\ significance \in [Tasks -> Levels]
      /\ versions \in [Tasks -> SUBSET Versions]
  BY DEF TypeOK, HistoryType, TaskType
<1>1. ASSUME NEW s \in SigChoices, NEW v \in VersionChoices, NewTask(s, v)
      PROVE  Logged'
  <2>1. PICK t \in Tasks : t = id /\ stage[t] = "unborn"
    BY <1>1 DEF NewTask, TypeOK, TaskType, Tasks, Structure, Ids
  <2>2. /\ stage'[t] = "made"
        /\ \A u \in Tasks \ {t} : /\ stage'[u] = stage[u]
                                  /\ significance'[u] = significance[u]
                                  /\ versions'[u] = versions[u]
        /\ UNCHANGED <<workerPc, job, execution, ran>>
    BY <1>0, <1>1, <2>1 DEF NewTask, hands
  <2> QED
    BY <2>1, <2>2, LogFrame
<1>2. ASSUME NEW t \in Tasks,
             PushUngrouped(t) \/ \E g \in Groups : PushTask(t, g)
      PROVE  Logged'
  <2>1. /\ stage[t] = "made" /\ stage'[t] \in {"pending", "ungrouped"}
        /\ \A u \in Tasks \ {t} : stage'[u] = stage[u]
        /\ UNCHANGED <<significance, versions, workerPc, job, execution, ran>>
    BY <1>0, <1>2 DEF PushTask, PushUngrouped, hands
  <2> QED
    BY <2>1, LogFrame
<1>3. ASSUME NEW g \in Groups, WaitGroup(g) \/ WaitAborts(g)
      PROVE  Logged'
  BY <1>3, LogSame DEF WaitGroup, WaitAborts, tasks, hands, history
<1>4. CASE Shutdown
  BY <1>4, LogSame DEF Shutdown, tasks, hands, history
<1> QED
  BY <1>1, <1>2, <1>3, <1>4 DEF Application

\* wait_group decides; what it skips has nothing to execute.
LEMMA DispatchLogged ==
  ASSUME TypeOK, Structure, Logged, SkipTask \/ DispatchTask
  PROVE  Logged'
<1>1. /\ mainPc = "select" /\ i <= Len(pending_q[cur][sig])
      /\ UNCHANGED <<versions, workerPc, job, execution, ran>>
      /\ \/ SkipTask
         \/ stage' = [stage EXCEPT ![Here] = "queued"]
      /\ significance' = [significance EXCEPT ![Here] = Decision(Here)]
      /\ SkipTask => /\ stage' = [stage EXCEPT ![Here] = "skipped"]
                     /\ Droppable(Here)
  BY DEF SkipTask, DispatchTask, Deal, AtTask, Decide, hands
<1>2. PICK t \in Tasks : t = Here /\ stage[t] = "pending"
  BY <1>1, HereType DEF Structure, CursorHolds, Ahead, Dealing, Here
<1>3. /\ stage \in [Tasks -> Stages]
      /\ significance \in [Tasks -> Levels]
  BY DEF TypeOK, HistoryType, TaskType
<1>4. /\ \A u \in Tasks \ {t} : /\ stage'[u] = stage[u]
                                /\ significance'[u] = significance[u]
                                /\ versions'[u] = versions[u]
      /\ stage'[t] \in {"queued", "skipped"}
      /\ stage'[t] = "skipped" => SkipTask
      /\ significance'[t] = Decision(t)
  BY <1>1, <1>2, <1>3
<1>5. stage'[t] = "skipped" => Due(t)' = << >>
  BY <1>1, <1>2, <1>4 DEF Due, Droppable
<1> QED
  BY <1>1, <1>2, <1>4, <1>5, LogFrame

\* The other steps of the main application execute nothing.
LEMMA CallLogged ==
  ASSUME TypeOK, Structure, Logged, Call \/ SpuriousWakeup
  PROVE  Logged'
<1>1. CASE StartWorker
  <2>1. /\ k \in Workers /\ workerPc[k] = "unborn"
        /\ workerPc \in [Workers -> WorkerSteps]
        /\ workerPc' = [workerPc EXCEPT ![k] = "loop"]
        /\ UNCHANGED <<stage, significance, versions, job, execution, ran>>
    BY <1>1 DEF StartWorker, TypeOK, MainType, WorkerType, Structure, Unborn,
                Workers, tasks, history
  <2>2. \A w \in Workers :
           workerPc'[w] \in Working => workerPc'[w] = workerPc[w]
    BY <2>1 DEF Working
  <2> QED
    BY <2>1, <2>2 DEF Logged, Working, Due, Selected, OrNull
<1>2. ASSUME NEW r \in Ratios, LockGroup(r)
      PROVE  Logged'
  BY <1>2, LogSame DEF LockGroup, BeginWait, tasks, hands, history
<1>3. CASE CountTask
  BY <1>3, LogSame DEF CountTask, Count, tasks, hands, history
<1>4. CASE NextLevel \/ CondWait \/ SpuriousWakeup
  BY <1>4, LogSame DEF NextLevel, LowerLevel, CondWait, EndLoops,
                       SpuriousWakeup, tasks, hands, history
<1>5. CASE WaitReturn \/ StopWorker \/ JoinWorker \/ JoinCrashes
  BY <1>5, LogSame DEF WaitReturn, StopWorker, JoinWorker, JoinCrashes, tasks,
                       hands, history
<1> QED
  BY <1>1, <1>2, <1>3, <1>4, <1>5, DispatchLogged DEF Call

(***************************************************************************)
(* A worker logs what it executes: one function at most, the selected one. *)
(***************************************************************************)
LEMMA WorkerLogged ==
  ASSUME TypeOK, Structure, Logged, NEW w \in Workers, Worker(w)
  PROVE  Logged'
<1>0. /\ workerPc \in [Workers -> WorkerSteps]
      /\ job \in [Workers -> Tasks \cup {NULL}]
      /\ execution \in [Workers -> Versions \cup {NULL}]
      /\ stage \in [Tasks -> Stages]
      /\ ran \in [Tasks -> Seq(Versions)]
      /\ UNCHANGED <<significance, versions>>
  BY DEF TypeOK, HistoryType, WorkerType, Worker, CheckRunning, Recheck,
         LoopTest, PopNothing, PopTask, RunTask, EnterSync, TakeLock,
         CountDown, CountDownAnd, LeaveSync, tasks
<1>1. \A t : Due(t)' = Due(t) /\ Selected(t)' = Selected(t)
  BY <1>0, DueFrame
<1>2. ASSUME CheckRunning(w) \/ PopNothing(w) \/ Recheck(w) \/ LeaveSync(w)
      PROVE  Logged'
  <2>1. /\ \A v \in Workers : workerPc'[v] \in Working =>
              workerPc'[v] = workerPc[v] /\ job'[v] = job[v]
        /\ UNCHANGED <<execution, stage, ran>>
    BY <1>0, <1>2 DEF CheckRunning, PopNothing, Recheck, LoopTest, LeaveSync,
                      Working, history
  <2> QED
    BY <1>1, <2>1 DEF Logged, Working
<1>3. ASSUME EnterSync(w)
      PROVE  Logged'
  <2>1. /\ workerPc[w] = "sync" /\ workerPc'[w] = "countdown"
        /\ \A v \in Workers \ {w} : workerPc'[v] = workerPc[v]
        /\ UNCHANGED <<job, execution, stage, ran>>
    BY <1>0, <1>3 DEF EnterSync, TakeLock, history
  <2>2. \A v \in Workers : /\ workerPc'[v] = "run" => workerPc[v] = "run"
                           /\ workerPc'[v] \in {"sync", "countdown"} =>
                                workerPc[v] \in {"sync", "countdown"}
    BY <2>1
  <2> QED
    BY <1>1, <2>1, <2>2 DEF Logged
<1>4. ASSUME PopTask(w)
      PROVE  Logged'
  <2>1. PICK t \in Tasks : t = Head(work_queue[w]) /\ stage[t] = "queued"
    BY <1>4 DEF PopTask, TypeOK, WorkerType, Structure, QueuesHold
  <2>2. /\ workerPc'[w] = "run" /\ job'[w] = t /\ execution'[w] = Selected(t)
        /\ \A v \in Workers \ {w} : /\ workerPc'[v] = workerPc[v]
                                    /\ job'[v] = job[v]
                                    /\ execution'[v] = execution[v]
        /\ stage'[t] = "held" /\ ran' = ran
        /\ \A u \in Tasks \ {t} : stage'[u] = stage[u]
    BY <1>0, <1>4, <2>1 DEF PopTask
  <2>3. ran[t] = << >>
    BY <2>1 DEF Logged
  <2>4. ASSUME NEW u \in Tasks
        PROVE  /\ stage'[u] \notin {"held", "finished"} => ran'[u] = << >>
               /\ stage'[u] = "skipped" => Due(u)' = << >>
               /\ stage'[u] = "finished" => ran'[u] = Due(u)'
    BY <1>1, <2>2 DEF Logged
  <2>5. ASSUME NEW v \in Workers
        PROVE  /\ workerPc'[v] = "run" => /\ ran'[job'[v]] = << >>
                                          /\ execution'[v] = Selected(job'[v])
               /\ workerPc'[v] \in {"sync", "countdown"} =>
                    ran'[job'[v]] = Due(job'[v])
    <3>1. CASE v = w
      BY <2>2, <2>3, <3>1
    <3>2. CASE v # w
      BY <2>2, <3>2 DEF Logged
    <3> QED
      BY <3>1, <3>2
  <2>6. \A u : Selected(u)' = Selected(u) /\ Due(u)' = Due(u)
    BY <1>1
  <2> QED
    BY <1>0, <2>4, <2>5 DEF Logged, Due, Selected, OrNull
<1>5. ASSUME RunTask(w)
      PROVE  Logged'
  <2>1. PICK t \in Tasks : t = job[w] /\ stage[t] = "held"
    BY <1>5, JobType DEF RunTask, Working
  <2>2. /\ workerPc[w] = "run" /\ workerPc'[w] = "sync"
        /\ \A v \in Workers \ {w} : workerPc'[v] = workerPc[v]
        /\ UNCHANGED <<job, execution, stage>>
    BY <1>0, <1>5 DEF RunTask
  <2>3. ran[t] = << >> /\ execution[w] = Selected(t)
    BY <2>1, <2>2 DEF Logged
  <2>4. ran'[t] = Due(t) /\ \A u \in Tasks \ {t} : ran'[u] = ran[u]
    <3>1. CASE execution[w] = NULL
      BY <1>5, <2>1, <2>3, <3>1, DueIsSelected DEF RunTask
    <3>2. CASE execution[w] # NULL
      <4>1. ran' = [ran EXCEPT ![t] = Append(@, execution[w])]
        BY <1>5, <2>1, <3>2 DEF RunTask
      <4>2. Append(ran[t], execution[w]) = <<execution[w]>>
        BY <2>3
      <4>3. Due(t) = <<execution[w]>>
        BY <2>3, <3>2, DueIsSelected
      <4> QED
        BY <1>0, <4>1, <4>2, <4>3
    <3> QED
      BY <3>1, <3>2
  <2>5. ASSUME NEW u \in Tasks
        PROVE  /\ stage'[u] \notin {"held", "finished"} => ran'[u] = << >>
               /\ stage'[u] = "skipped" => Due(u)' = << >>
               /\ stage'[u] = "finished" => ran'[u] = Due(u)'
    BY <1>1, <2>1, <2>2, <2>4 DEF Logged
  <2>6. ASSUME NEW v \in Workers
        PROVE  /\ workerPc'[v] = "run" => /\ ran'[job[v]] = << >>
                                          /\ execution[v] = Selected(job[v])
               /\ workerPc'[v] \in {"sync", "countdown"} =>
                    ran'[job[v]] = Due(job[v])
    <3>1. CASE v = w
      BY <2>1, <2>2, <2>4, <3>1
    <3>2. CASE v # w
      <4>1. workerPc'[v] \in Working => job[v] \in Tasks \ {t}
        BY <2>1, <2>2, <3>2 DEF Structure, HandsHold, Working
      <4> QED
        BY <2>2, <2>4, <3>2, <4>1 DEF Logged, Working
    <3> QED
      BY <3>1, <3>2
  <2> QED
    BY <1>0, <2>2, <2>5, <2>6 DEF Logged, Due, Selected, OrNull
<1>6. ASSUME CountDown(w)
      PROVE  Logged'
  <2>1. PICK t \in Tasks : t = job[w]
    BY <1>6, JobType DEF CountDown, CountDownAnd, Working
  <2>2. /\ workerPc[w] = "countdown" /\ workerPc'[w] = "unlock"
        /\ \A v \in Workers \ {w} : workerPc'[v] = workerPc[v]
        /\ stage'[t] = "finished"
        /\ \A u \in Tasks \ {t} : stage'[u] = stage[u]
        /\ UNCHANGED <<job, execution, ran>>
    BY <1>0, <1>6, <2>1 DEF CountDown, CountDownAnd
  <2>3. ran[t] = Due(t)
    BY <2>1, <2>2 DEF Logged
  <2>4. ASSUME NEW u \in Tasks
        PROVE  /\ stage'[u] \notin {"held", "finished"} => ran'[u] = << >>
               /\ stage'[u] = "skipped" => Due(u)' = << >>
               /\ stage'[u] = "finished" => ran'[u] = Due(u)'
    BY <1>1, <2>2, <2>3 DEF Logged
  <2>5. ASSUME NEW v \in Workers
        PROVE  /\ workerPc'[v] = "run" => workerPc[v] = "run"
               /\ workerPc'[v] \in {"sync", "countdown"} =>
                    workerPc[v] \in {"sync", "countdown"}
    BY <2>2
  <2> QED
    BY <1>1, <2>2, <2>4, <2>5 DEF Logged
<1> QED
  BY <1>2, <1>3, <1>4, <1>5, <1>6 DEF Worker

\* Logged is inductive.
LEMMA NextLogged ==
  ASSUME TypeOK, Structure, Logged, [Next]_vars
  PROVE  Logged'
<1>1. CASE UNCHANGED vars
  BY <1>1, LogSame DEF vars, tasks, hands, history
<1> QED
  BY <1>1, ApplicationLogged, CallLogged, WorkerLogged DEF Next

\* So Logged holds in every state.
LEMMA InvariantLogged == Spec => [](IInv /\ Logged)
<1>1. Init => Logged
  BY DEF Init, Logged
<1>2. IInv /\ Logged /\ [Next]_vars => Logged'
  BY NextLogged DEF IInv
<1> QED
  BY <1>1, <1>2, Invariant, PTL DEF Spec

(***************************************************************************)
(* No task is executed twice, or in another version than its significance  *)
(* calls for, spurious wakeups or not.                                     *)
(***************************************************************************)
THEOREM RunsCorrect == Spec => []RunsAsDecided
<1>1. IInv /\ Logged => RunsAsDecided
  <2> SUFFICES ASSUME IInv, Logged, NEW t \in Tasks
               PROVE  ran[t] \in {<< >>, Due(t)}
    BY DEF RunsAsDecided
  <2>1. CASE stage[t] # "held"
    BY <2>1 DEF Logged
  <2>2. CASE stage[t] = "held"
    <3>1. PICK w \in Workers : workerPc[w] \in Working /\ job[w] = t
      BY <2>2 DEF IInv, Structure, OutSomewhere, Held
    <3> QED
      BY <3>1 DEF Logged, Working
  <2> QED
    BY <2>1, <2>2
<1> QED
  BY <1>1, InvariantLogged, PTL

=============================================================================
