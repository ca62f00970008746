-------------------------- MODULE RuntimeStructure --------------------------
(***************************************************************************)
(* The types of Runtime, and that every step keeps the tasks and the locks *)
(* where Structure says, for any number of workers, tasks and groups.      *)
(***************************************************************************)
EXTENDS RuntimeInv, FiniteSetTheorems, TLAPS

USE RuntimeAssumption

(***************************************************************************)
(* An integer is rounded to a natural number, and so is the share of tasks *)
(* that a ratio asks for.                                                  *)
(***************************************************************************)
LEMMA RoundedIsNat ==
  ASSUME NEW n \in Nat, NEW p \in Rounded(n)
  PROVE  p \in Nat
<1>1. p \in 0 .. 2 * n
  BY DEF Rounded
<1> QED
  BY <1>1

LEMMA GoalsAreNat ==
  ASSUME NEW n \in Nat, NEW r \in Nat, NEW x \in Goals(n, r)
  PROVE  x \in Nat
<1>1. PICK m \in Rounded(n) :
        \E p \in Rounded(m * r) : x = p \div RatioUnit
  BY DEF Goals
<1>2. PICK p \in Rounded(m * r) : x = p \div RatioUnit
  BY <1>1
<1>3. m \in Nat
  BY <1>1, RoundedIsNat
<1>4. m * r \in Nat
  BY <1>3
<1>5. p \in Nat
  BY <1>2, <1>4, RoundedIsNat
<1> QED
  BY <1>2, <1>5 DEF RuntimeAssumption

(***************************************************************************)
(* Counting up and down stays within the unsigned integers.                *)
(***************************************************************************)
LEMMA CountType ==
  ASSUME NEW f \in [Groups -> 0 .. UINT_MAX], NEW g
  PROVE  /\ [f EXCEPT ![g] = Increment(@)] \in [Groups -> 0 .. UINT_MAX]
         /\ [f EXCEPT ![g] = Decrement(@)] \in [Groups -> 0 .. UINT_MAX]
<1>1. \A n \in 0 .. UINT_MAX : /\ Increment(n) \in 0 .. UINT_MAX
                              /\ Decrement(n) \in 0 .. UINT_MAX
  BY DEF Increment, Decrement
<1> QED
  BY <1>1

(***************************************************************************)
(* Logging one more value keeps the logs sequences.                        *)
(***************************************************************************)
LEMMA LogType ==
  ASSUME NEW D, NEW S, NEW f \in [D -> Seq(S)], NEW d, NEW v \in S
  PROVE  [f EXCEPT ![d] = Append(@, v)] \in [D -> Seq(S)]
<1>1. \A e \in D : Append(f[e], v) \in Seq(S)
  OBVIOUS
<1> QED
  BY <1>1

(***************************************************************************)
(* Round robin stays within the workers.                                   *)
(***************************************************************************)
LEMMA NextWorkerType ==
  ASSUME worker \in Workers
  PROVE  NextWorker \in Workers
<1>1. worker + 1 \in Nat /\ NumWorkers \in Nat \ {0}
  BY DEF Workers
<1>2. (worker + 1) % NumWorkers \in 0 .. NumWorkers - 1
  BY <1>1
<1> QED
  BY <1>2 DEF NextWorker, Workers

\* The cursor of wait_group is at a task.
LEMMA HereType ==
  ASSUME TypeOK, Dealing, i <= Len(pending_q[cur][sig])
  PROVE  /\ cur \in Groups /\ sig \in Levels
         /\ i \in 1 .. Len(pending_q[cur][sig])
         /\ Here \in Tasks
<1>1. cur \in Groups /\ sig \in Levels
  BY DEF TypeOK, MainType, GroupType, InWait, Dealing
<1>2. pending_q[cur][sig] \in Seq(Tasks)
  BY <1>1 DEF TypeOK, GroupType
<1>3. i \in 1 .. Len(pending_q[cur][sig])
  BY <1>2 DEF TypeOK, MainType
<1> QED
  BY <1>1, <1>2, <1>3 DEF Here

\* The significance a task is left with is a level.
LEMMA DecisionType ==
  ASSUME TypeOK, NEW t \in Tasks
  PROVE  Decision(t) \in Levels
BY DEF TypeOK, TaskType, Decision, DecisionBy, Levels, NON_SIGNIFICANT

(***************************************************************************)
(* Variables that do not change keep their type.                           *)
(***************************************************************************)
LEMMA FrameTypes ==
  /\ MainType /\ UNCHANGED <<mainPc, k, locals, groups>> => MainType'
  /\ TaskType /\ UNCHANGED <<tasks, groups>> => TaskType'
  /\ GroupType /\ UNCHANGED <<buckets, counts, lock>> => GroupType'
  /\ WorkerType /\ UNCHANGED <<running, work_queue, hands>> => WorkerType'
  /\ HistoryType /\ UNCHANGED <<history, groups>> => HistoryType'
<1> USE DEF locals, tasks, buckets, counts, hands, history
<1>1. MainType /\ UNCHANGED <<mainPc, k, locals, groups>> => MainType'
  BY DEF MainType
<1>2. TaskType /\ UNCHANGED <<tasks, groups>> => TaskType'
  BY DEF TaskType
<1>3. GroupType /\ UNCHANGED <<buckets, counts, lock>> => GroupType'
  BY DEF GroupType
<1>4. WorkerType /\ UNCHANGED <<running, work_queue, hands>> => WorkerType'
  BY DEF WorkerType
<1>5. HistoryType /\ UNCHANGED <<history, groups>> => HistoryType'
  BY DEF HistoryType
<1> QED
  BY <1>1, <1>2, <1>3, <1>4, <1>5

(***************************************************************************)
(* The steps of the application keep the types.                            *)
(***************************************************************************)
LEMMA ApplicationType ==
  ASSUME TypeOK, Application
  PROVE  TypeOK'
<1> USE DEF TypeOK
<1>1. ASSUME NEW s \in SigChoices, NEW v \in VersionChoices, NewTask(s, v)
      PROVE  TypeOK'
  <2> USE <1>1 DEF NewTask
  <2>1. TaskType'
    BY DEF TaskType, Tasks, buckets
  <2>2. HistoryType'
    BY DEF HistoryType, Stages, buckets
  <2> QED
    BY <2>1, <2>2, FrameTypes DEF buckets
<1>2. ASSUME NEW t \in Tasks, NEW g \in Groups, PushTask(t, g)
      PROVE  TypeOK'
  <2> USE <1>2 DEF PushTask
  <2>1. MainType'
    BY DEF MainType, locals
  <2>2. TaskType'
    BY DEF TaskType
  <2>3. GroupType'
    BY DEF GroupType, TaskType, counts
  <2>4. HistoryType'
    BY DEF HistoryType, Stages
  <2> QED
    BY <2>1, <2>2, <2>3, <2>4, FrameTypes
<1>3. ASSUME NEW t \in Tasks, PushUngrouped(t)
      PROVE  TypeOK'
  <2> USE <1>3 DEF PushUngrouped
  <2>1. TaskType'
    BY DEF TaskType, buckets
  <2>2. HistoryType'
    BY DEF HistoryType, Stages, buckets
  <2> QED
    BY <2>1, <2>2, FrameTypes DEF buckets
<1>4. ASSUME NEW g \in Groups, WaitGroup(g) \/ WaitAborts(g)
      PROVE  TypeOK'
  <2> USE <1>4 DEF WaitGroup, WaitAborts
  <2>1. MainType'
    BY DEF MainType, MainSteps, InWait, locals, buckets
  <2> QED
    BY <2>1, FrameTypes DEF buckets
<1>5. CASE Shutdown
  <2> USE <1>5 DEF Shutdown
  <2>1. MainType'
    BY DEF MainType, MainSteps, InWait, locals, buckets
  <2> QED
    BY <2>1, FrameTypes DEF buckets
<1> QED
  BY <1>1, <1>2, <1>3, <1>4, <1>5 DEF Application

\* The counters of a group are counts.
LEMMA CountedType ==
  ASSUME GroupType,
         executing_num' \in [Groups -> 0 .. UINT_MAX],
         total_sig_tasks' \in [Groups -> 0 .. UINT_MAX],
         total_non_sig_tasks' \in [Groups -> 0 .. UINT_MAX],
         UNCHANGED <<groups, pending_q, total, ratio, lock>>
  PROVE  GroupType'
BY DEF GroupType

\* The steps of wait_group that decide on a task keep the types.
LEMMA DealType ==
  ASSUME TypeOK, SkipTask \/ DispatchTask
  PROVE  TypeOK'
<1> USE DEF TypeOK
<1>1. Dealing /\ i <= Len(pending_q[cur][sig])
  BY DEF SkipTask, DispatchTask, Deal, AtTask, Dealing
<1>2. /\ cur \in Groups /\ sig \in Levels
      /\ Here \in Tasks /\ Decision(Here) \in Levels
  BY <1>1, HereType, DecisionType
<1>3. /\ significance' \in [Tasks -> Levels]
      /\ current' \in Nat
  BY <1>2 DEF SkipTask, DispatchTask, Deal, Decide, TaskType, MainType
<1>4. TaskType'
  BY <1>3 DEF TaskType, SkipTask, DispatchTask, Deal, buckets
<1>5. CASE SkipTask
  <2> USE <1>5 DEF SkipTask
  <2>1. MainType'
    BY <1>3 DEF MainType, buckets
  <2>2. HistoryType'
    BY <1>2 DEF HistoryType, Stages, buckets
  <2> QED
    BY <1>4, <2>1, <2>2, FrameTypes
<1>6. CASE DispatchTask
  <2> USE <1>6 DEF DispatchTask, Deal
  <2>1. worker \in Workers /\ NextWorker \in Workers
    BY NextWorkerType DEF MainType
  <2>2. MainType'
    BY <1>1, <1>3, <2>1 DEF MainType, MainSteps, InWait, Dealing, buckets
  <2>3. WorkerType'
    BY <1>2, <2>1 DEF WorkerType, hands
  <2>4. HistoryType'
    BY <1>2, <2>1 DEF HistoryType, Stages, buckets
  <2> QED
    BY <1>4, <2>2, <2>3, <2>4, FrameTypes
<1> QED
  BY <1>5, <1>6

\* All steps of init_system, wait_group and shutdown_system.
LEMMA CallType ==
  ASSUME TypeOK, Call
  PROVE  TypeOK'
<1> USE DEF TypeOK
<1>1. CASE StartWorker
  <2> USE <1>1 DEF StartWorker
  <2>1. MainType'
    BY DEF MainType, MainSteps, InWait, Workers, locals, buckets
  <2>2. WorkerType'
    BY DEF WorkerType, WorkerSteps
  <2> QED
    BY <2>1, <2>2, FrameTypes DEF buckets
<1>2. ASSUME NEW r \in Ratios, LockGroup(r)
      PROVE  TypeOK'
  <2> USE <1>2 DEF LockGroup, BeginWait
  <2>1. cur \in Groups
    BY DEF MainType, GroupType
  <2>2. goal' \in Nat
    <3>1. total[cur] \in Nat /\ r \in Nat
      BY <2>1 DEF GroupType
    <3> QED
      BY <3>1, GoalsAreNat
  <2>3. 0 \in Workers /\ SIGNIFICANT \in Levels
    BY DEF Workers, Levels, NON_SIGNIFICANT
  <2>4. MainType'
    BY <2>2, <2>3 DEF MainType, MainSteps, InWait, buckets
  <2>5. GroupType'
    BY <2>1 DEF GroupType, buckets
  <2> QED
    BY <2>4, <2>5, FrameTypes DEF buckets
<1>3. CASE SkipTask \/ DispatchTask
  BY <1>3, DealType
<1>4. CASE CountTask
  <2> USE <1>4 DEF CountTask, Count
  <2>1. MainType'
    BY DEF MainType, MainSteps, InWait, buckets
  <2>2. \A f \in [Groups -> 0 .. UINT_MAX] :
           [f EXCEPT ![cur] = Increment(@)] \in [Groups -> 0 .. UINT_MAX]
    BY CountType
  <2>3. /\ executing_num' \in [Groups -> 0 .. UINT_MAX]
        /\ total_sig_tasks' \in [Groups -> 0 .. UINT_MAX]
        /\ total_non_sig_tasks' \in [Groups -> 0 .. UINT_MAX]
    <3>1. /\ executing_num \in [Groups -> 0 .. UINT_MAX]
          /\ total_sig_tasks \in [Groups -> 0 .. UINT_MAX]
          /\ total_non_sig_tasks \in [Groups -> 0 .. UINT_MAX]
      BY DEF GroupType
    <3>2. executing_num' = [executing_num EXCEPT ![cur] = Increment(@)]
      OBVIOUS
    <3>3. \/ total_sig_tasks' = total_sig_tasks
          \/ total_sig_tasks' = [total_sig_tasks EXCEPT ![cur] = Increment(@)]
      OBVIOUS
    <3>4. \/ total_non_sig_tasks' = total_non_sig_tasks
          \/ total_non_sig_tasks' =
               [total_non_sig_tasks EXCEPT ![cur] = Increment(@)]
      OBVIOUS
    <3> HIDE <1>4 DEF TypeOK, CountTask, Count
    <3>5. executing_num' \in [Groups -> 0 .. UINT_MAX]
      BY <3>1, <3>2, <2>2, Zenon
    <3>6. total_sig_tasks' \in [Groups -> 0 .. UINT_MAX]
      <4>1. [total_sig_tasks EXCEPT ![cur] = Increment(@)]
              \in [Groups -> 0 .. UINT_MAX]
        BY <3>1, <2>2, Zenon
      <4> QED
        BY <3>1, <3>3, <4>1
    <3>7. total_non_sig_tasks' \in [Groups -> 0 .. UINT_MAX]
      <4>1. [total_non_sig_tasks EXCEPT ![cur] = Increment(@)]
              \in [Groups -> 0 .. UINT_MAX]
        BY <3>1, <2>2, Zenon
      <4> QED
        BY <3>1, <3>4, <4>1
    <3> QED
      BY <3>5, <3>6, <3>7
  <2>4. UNCHANGED <<groups, pending_q, total, lock>>
    BY DEF buckets
  <2>5. GroupType'
    BY <2>3, <2>4, CountedType
  <2> QED
    BY <2>1, <2>5, FrameTypes DEF buckets
<1>5. CASE NextLevel \/ CondWait
  <2> USE <1>5 DEF NextLevel, LowerLevel, CondWait, EndLoops, BucketDone
  <2>1. MainType'
    BY DEF MainType, MainSteps, InWait, Levels, NON_SIGNIFICANT, locals,
           buckets
  <2>2. GroupType'
    BY DEF GroupType, buckets, counts
  <2> QED
    BY <2>1, <2>2, FrameTypes DEF buckets
<1>6. CASE WaitReturn
  <2> USE <1>6 DEF WaitReturn
  <2>1. cur \in groups
    BY DEF MainType, InWait
  <2>2. MainType'
    BY DEF MainType, MainSteps, InWait, locals, buckets
  <2>3. GroupType' /\ HistoryType'
    BY <2>1 DEF GroupType, HistoryType, buckets, counts
  <2> QED
    BY <2>2, <2>3, FrameTypes DEF buckets
<1>7. CASE StopWorker \/ JoinWorker \/ JoinCrashes
  <2> USE <1>7 DEF StopWorker, JoinWorker, JoinCrashes
  <2>1. MainType'
    BY DEF MainType, MainSteps, InWait, Workers, locals, buckets
  <2>2. WorkerType'
    BY DEF WorkerType, hands
  <2> QED
    BY <2>1, <2>2, FrameTypes DEF buckets
<1> QED
  BY <1>1, <1>2, <1>3, <1>4, <1>5, <1>6, <1>7 DEF Call

(***************************************************************************)
(* And the steps of a worker.                                              *)
(***************************************************************************)
LEMMA WorkerTypes ==
  ASSUME TypeOK, NEW w \in Workers, Worker(w)
  PROVE  TypeOK'
<1> USE DEF TypeOK
<1>1. CASE CheckRunning(w) \/ Recheck(w) \/ PopNothing(w)
  <2> USE <1>1 DEF CheckRunning, Recheck, LoopTest, PopNothing
  <2>1. WorkerType'
    BY DEF WorkerType, WorkerSteps
  <2> QED
    BY <2>1, FrameTypes DEF buckets
<1>2. CASE PopTask(w)
  <2> USE <1>2 DEF PopTask
  <2>1. work_queue[w] \in Seq(Tasks) /\ work_queue[w] # << >>
    BY DEF WorkerType
  <2>2. Head(work_queue[w]) \in Tasks /\ Tail(work_queue[w]) \in Seq(Tasks)
    BY <2>1
  <2>3. Selected(Head(work_queue[w])) \in Versions \cup {NULL}
    BY DEF Selected, OrNull, Versions
  <2>4. WorkerType'
    BY <2>2, <2>3 DEF WorkerType, WorkerSteps
  <2>5. HistoryType'
    BY <2>2 DEF HistoryType, Stages, buckets
  <2> QED
    BY <2>4, <2>5, FrameTypes DEF buckets
<1>3. CASE RunTask(w)
  <2> USE <1>3 DEF RunTask
  <2>1. WorkerType'
    BY DEF WorkerType, WorkerSteps
  <2>2. execution[w] # NULL => execution[w] \in Versions
    BY DEF WorkerType
  <2>3. ran' \in [Tasks -> Seq(Versions)]
    <3>1. CASE execution[w] = NULL
      BY <3>1 DEF HistoryType
    <3>2. CASE execution[w] # NULL
      BY <2>2, <3>2, LogType DEF HistoryType
    <3> QED
      BY <3>1, <3>2
  <2>4. HistoryType'
    BY <2>3 DEF HistoryType, buckets
  <2> QED
    BY <2>1, <2>4, FrameTypes DEF buckets
<1>4. CASE EnterSync(w) \/ LeaveSync(w)
  <2> USE <1>4 DEF EnterSync, TakeLock, LeaveSync
  <2>1. WorkerType'
    BY DEF WorkerType, WorkerSteps
  <2>2. lock' \in [Groups -> {FREE, MAIN} \cup Workers]
    <3>1. CASE EnterSync(w)
      BY <3>1 DEF GroupType
    <3>2. CASE LeaveSync(w)
      BY <3>2 DEF GroupType
    <3> QED
      BY <3>1, <3>2
  <2>3. GroupType'
    BY <2>2 DEF GroupType, buckets, counts
  <2> QED
    BY <2>1, <2>3, FrameTypes DEF buckets
<1>5. CASE CountDown(w)
  <2> USE <1>5 DEF CountDown, CountDownAnd
  <2>1. MainType'
    BY DEF MainType, MainSteps, InWait, locals, buckets
  <2>2. WorkerType'
    BY DEF WorkerType, WorkerSteps
  <2>3. executing_num' \in [Groups -> 0 .. UINT_MAX]
    BY CountType DEF GroupType
  <2>4. GroupType'
    BY <2>3 DEF GroupType, buckets
  <2>5. HistoryType'
    BY DEF HistoryType, Stages, buckets
  <2> QED
    BY <2>1, <2>2, <2>4, <2>5, FrameTypes DEF buckets
<1> QED
  BY <1>1, <1>2, <1>3, <1>4, <1>5 DEF Worker

\* So every step keeps the types.
LEMMA NextType ==
  ASSUME TypeOK, [Next]_vars
  PROVE  TypeOK'
<1>1. CASE SpuriousWakeup
  <2> USE <1>1 DEF SpuriousWakeup, TypeOK
  <2>1. MainType'
    BY DEF MainType, MainSteps, InWait, locals, buckets
  <2> QED
    BY <2>1, FrameTypes DEF buckets
<1>2. CASE UNCHANGED vars
  BY <1>2, FrameTypes DEF vars, TypeOK, buckets
<1> QED
  BY <1>1, <1>2, ApplicationType, CallType, WorkerTypes DEF Next

\* The variables start with their types.
LEMMA InitType == Init => TypeOK
<1> SUFFICES ASSUME Init PROVE TypeOK
  OBVIOUS
<1> USE DEF Init
<1>1. MainType
  BY DEF MainType, MainSteps, InWait, Workers, Levels, NON_SIGNIFICANT
<1>2. TaskType /\ GroupType
  BY DEF TaskType, GroupType, Levels, NON_SIGNIFICANT
<1>3. WorkerType /\ HistoryType
  BY DEF WorkerType, WorkerSteps, HistoryType, Stages
<1> QED
  BY <1>1, <1>2, <1>3 DEF TypeOK

(***************************************************************************)
(* Every variable of the runtime keeps its type.                           *)
(***************************************************************************)
THEOREM TypeCorrect == Spec => []TypeOK
<1> QED
  BY InitType, NextType, PTL DEF Spec

-----------------------------------------------------------------------------
(***************************************************************************)
(* Where the tasks are and who holds the locks.                            *)
(***************************************************************************)

(***************************************************************************)
(* Variables that do not change keep their part of the invariant.          *)
(***************************************************************************)
LEMMA FrameStructure ==
  /\ Ids /\ UNCHANGED <<stage, id>> => Ids'
  /\ GroupKnown /\ UNCHANGED <<stage, my_group>> => GroupKnown'
  /\ BucketsHold /\ UNCHANGED <<pending_q, my_group>> => BucketsHold'
  /\ CursorHolds /\ UNCHANGED <<mainPc, cur, sig, i, pending_q, stage>>
       => CursorHolds'
  /\ TakenInWait /\ UNCHANGED <<stage, my_group, waited, mainPc, cur>>
       => TakenInWait'
  /\ QueuesHold /\ UNCHANGED <<work_queue, stage>> => QueuesHold'
  /\ HandsHold /\ UNCHANGED <<workerPc, job, stage>> => HandsHold'
  /\ OutSomewhere /\ UNCHANGED <<stage, work_queue, workerPc, job>>
       => OutSomewhere'
  /\ WorkerLocks /\ UNCHANGED <<workerPc, job, my_group, lock>>
       => WorkerLocks'
  /\ MainLocks /\ UNCHANGED <<lock, waited, mainPc, cur>> => MainLocks'
  /\ FirstWait /\ UNCHANGED <<mainPc, cur, waited>> => FirstWait'
  /\ Unborn /\ UNCHANGED <<mainPc, k, workerPc>> => Unborn'
<1>1. /\ Ids /\ UNCHANGED <<stage, id>> => Ids'
      /\ GroupKnown /\ UNCHANGED <<stage, my_group>> => GroupKnown'
      /\ BucketsHold /\ UNCHANGED <<pending_q, my_group>> => BucketsHold'
  BY DEF Ids, GroupKnown, BucketsHold
<1>2. CursorHolds /\ UNCHANGED <<mainPc, cur, sig, i, pending_q, stage>>
        => CursorHolds'
  BY DEF CursorHolds, Dealing, Ahead, Here
<1>3. TakenInWait /\ UNCHANGED <<stage, my_group, waited, mainPc, cur>>
        => TakenInWait'
  BY DEF TakenInWait
<1>4. /\ QueuesHold /\ UNCHANGED <<work_queue, stage>> => QueuesHold'
      /\ HandsHold /\ UNCHANGED <<workerPc, job, stage>> => HandsHold'
      /\ OutSomewhere /\ UNCHANGED <<stage, work_queue, workerPc, job>>
           => OutSomewhere'
  BY DEF QueuesHold, HandsHold, OutSomewhere, Queued, Held
<1>5. /\ WorkerLocks /\ UNCHANGED <<workerPc, job, my_group, lock>>
           => WorkerLocks'
      /\ MainLocks /\ UNCHANGED <<lock, waited, mainPc, cur>> => MainLocks'
      /\ FirstWait /\ UNCHANGED <<mainPc, cur, waited>> => FirstWait'
      /\ Unborn /\ UNCHANGED <<mainPc, k, workerPc>> => Unborn'
  BY DEF WorkerLocks, MainLocks, Dealing, FirstWait, Unborn
<1> QED
  BY <1>1, <1>2, <1>3, <1>4, <1>5

(***************************************************************************)
(* A task that is not out comes to another stage, which is not out either. *)
(***************************************************************************)
LEMMA StageFrame ==
  ASSUME TypeOK, QueuesHold, HandsHold, OutSomewhere,
         NEW t \in Tasks, NEW x, stage[t] \notin Out, x \notin Out,
         stage' = [stage EXCEPT ![t] = x],
         UNCHANGED <<work_queue, workerPc, job>>
  PROVE  QueuesHold' /\ HandsHold' /\ OutSomewhere'
<1> USE DEF Out
<1>1. /\ stage \in [Tasks -> Stages]
      /\ \A w \in Workers : \A n \in 1 .. Len(work_queue[w]) :
            work_queue[w][n] \in Tasks
  BY DEF TypeOK, HistoryType, WorkerType
<1>2. QueuesHold'
  BY <1>1 DEF QueuesHold
<1>3. HandsHold'
  BY <1>1 DEF HandsHold
<1>4. OutSomewhere'
  BY <1>1 DEF OutSomewhere, Queued, Held
<1> QED
  BY <1>2, <1>3, <1>4

(***************************************************************************)
(* A worker takes a step that does not change whether it works on its job, *)
(* nor whether it has a lock.                                              *)
(***************************************************************************)
LEMMA WorkerFrame ==
  ASSUME NEW w \in Workers,
         \A v \in Workers : v # w => /\ workerPc'[v] = workerPc[v]
                                    /\ job'[v] = job[v],
         workerPc'[w] \in Working <=> workerPc[w] \in Working,
         workerPc'[w] \in Working => job'[w] = job[w],
         UNCHANGED <<stage, work_queue>>
  PROVE  /\ HandsHold /\ OutSomewhere => HandsHold' /\ OutSomewhere'
         /\ /\ WorkerLocks
            /\ UNCHANGED <<my_group, lock>>
            /\ workerPc[w] \notin {"countdown", "unlock"}
            /\ workerPc'[w] \notin {"countdown", "unlock"}
            => WorkerLocks'
<1>1. \A v \in Workers :
         /\ workerPc'[v] \in Working <=> workerPc[v] \in Working
         /\ workerPc'[v] \in Working => job'[v] = job[v]
  OBVIOUS
<1>2. HandsHold => HandsHold'
  BY <1>1 DEF HandsHold
<1>3. OutSomewhere => OutSomewhere'
  BY <1>1 DEF OutSomewhere, Queued, Held
<1>4. /\ WorkerLocks
      /\ UNCHANGED <<my_group, lock>>
      /\ workerPc[w] \notin {"countdown", "unlock"}
      /\ workerPc'[w] \notin {"countdown", "unlock"}
      => WorkerLocks'
  BY DEF WorkerLocks
<1> QED
  BY <1>2, <1>3, <1>4

(***************************************************************************)
(* A step of the main application outside of its loops and its wait.       *)
(***************************************************************************)
LEMMA MainFrame ==
  ASSUME mainPc \notin InWait, mainPc' \notin InWait,
         UNCHANGED <<lock, waited>>
  PROVE  /\ CursorHolds'
         /\ TakenInWait /\ UNCHANGED <<stage, my_group>> => TakenInWait'
         /\ MainLocks => MainLocks'
         /\ FirstWait'
<1> QED
  BY DEF InWait, Dealing, CursorHolds, TakenInWait, MainLocks, FirstWait

(***************************************************************************)
(* The steps of the application keep the structure: those that make and    *)
(* push a task, those that call wait_group and shutdown_system.            *)
(***************************************************************************)
LEMMA NewTaskStructure ==
  ASSUME TypeOK, Structure,
         NEW s \in SigChoices, NEW v \in VersionChoices, NewTask(s, v)
  PROVE  Structure'
<1> USE DEF Structure, NewTask
<1>1. id \in Tasks /\ stage[id] = "unborn"
  BY DEF TypeOK, TaskType, Tasks, Ids
<1>2. stage' = [stage EXCEPT ![id] = "made"] /\ stage \in [Tasks -> Stages]
  BY DEF TypeOK, HistoryType
<1>3. Ids'
  BY <1>1, <1>2 DEF Ids, Tasks, TypeOK, TaskType
<1>4. GroupKnown'
  BY <1>1, <1>2 DEF GroupKnown
<1>5. QueuesHold' /\ HandsHold' /\ OutSomewhere'
  BY <1>1, <1>2, StageFrame DEF Out, hands
<1>6. CursorHolds'
  BY DEF CursorHolds, Dealing
<1>7. TakenInWait'
  BY <1>1, <1>2 DEF TakenInWait, Taken, InWait
<1> QED
  BY <1>3, <1>4, <1>5, <1>6, <1>7, FrameStructure DEF buckets, locals, hands

\* push_task appends the task to the bucket of its significance.
LEMMA PushTaskStructure ==
  ASSUME TypeOK, Structure, NEW t \in Tasks, NEW g \in Groups, PushTask(t, g)
  PROVE  Structure'
<1> USE DEF Structure, PushTask
<1>1. /\ stage' = [stage EXCEPT ![t] = "pending"]
      /\ stage \in [Tasks -> Stages]
      /\ my_group' = [my_group EXCEPT ![t] = g]
      /\ my_group \in [Tasks -> groups \cup {NULL}]
      /\ my_group[t] = NULL /\ g # NULL
  BY DEF TypeOK, HistoryType, TaskType, GroupKnown
<1>2. Ids'
  BY <1>1 DEF Ids
<1>3. GroupKnown'
  BY <1>1 DEF GroupKnown
<1>4. BucketsHold'
  <2>1. significance[t] \in Levels
    BY DEF TypeOK, TaskType
  <2>2. pending_q \in [Groups -> [Levels -> Seq(Tasks)]]
    BY DEF TypeOK, GroupType
  <2>3. \A h \in Groups : \A l \in Levels : \A n \in 1 .. Len(pending_q[h][l]) :
           pending_q[h][l][n] \in Tasks /\ pending_q[h][l][n] # t
    BY <1>1, <2>2 DEF BucketsHold, TypeOK, GroupType
  <2>4. \A h \in Groups : \A l \in Levels :
           \/ pending_q'[h][l] = pending_q[h][l]
           \/ /\ h = g /\ l = significance[t]
              /\ pending_q'[h][l] = Append(pending_q[h][l], t)
    BY <2>1, <2>2
  <2>5. \A h \in Groups : \A l \in Levels :
          \A n \in 1 .. Len(pending_q'[h][l]) :
             \/ /\ n \in 1 .. Len(pending_q[h][l])
                /\ pending_q'[h][l][n] = pending_q[h][l][n]
             \/ /\ h = g /\ l = significance[t]
                /\ n = Len(pending_q[h][l]) + 1
                /\ pending_q'[h][l][n] = t
    BY <2>2, <2>4
  <2>6. \A u \in Tasks : u # t => my_group'[u] = my_group[u]
    BY <1>1
  <2>7. my_group'[t] = g
    BY <1>1
  <2> SUFFICES ASSUME NEW h \in Groups, NEW l \in Levels,
                      NEW n \in 1 .. Len(pending_q'[h][l])
               PROVE  /\ my_group'[pending_q'[h][l][n]] = h
                      /\ \A m \in Levels :
                           \A j \in 1 .. Len(pending_q'[h][m]) :
                             pending_q'[h][m][j] = pending_q'[h][l][n]
                               => m = l /\ j = n
    BY DEF BucketsHold
  <2> HIDE DEF PushTask
  <2>8. my_group'[pending_q'[h][l][n]] = h
    BY <2>3, <2>5, <2>6, <2>7 DEF BucketsHold
  <2>9. ASSUME NEW m \in Levels, NEW j \in 1 .. Len(pending_q'[h][m]),
               pending_q'[h][m][j] = pending_q'[h][l][n]
        PROVE  m = l /\ j = n
    <3>1. CASE pending_q'[h][l][n] = t
      <4>1. l = significance[t] /\ n = Len(pending_q[h][l]) + 1
        BY <2>3, <2>5, <3>1
      <4>2. m = significance[t] /\ j = Len(pending_q[h][m]) + 1
        BY <2>3, <2>5, <2>9, <3>1
      <4> QED
        BY <4>1, <4>2
    <3>2. CASE pending_q'[h][l][n] # t
      <4>1. /\ n \in 1 .. Len(pending_q[h][l])
            /\ pending_q'[h][l][n] = pending_q[h][l][n]
            /\ j \in 1 .. Len(pending_q[h][m])
            /\ pending_q'[h][m][j] = pending_q[h][m][j]
        BY <2>5, <2>9, <3>2
      <4> QED
        BY <2>9, <4>1 DEF BucketsHold
    <3> QED
      BY <3>1, <3>2
  <2> QED
    BY <2>8, <2>9
<1>5. CursorHolds'
  BY DEF CursorHolds, Dealing
<1>6. TakenInWait'
  BY <1>1 DEF TakenInWait, Taken, InWait
<1>7. QueuesHold' /\ HandsHold' /\ OutSomewhere'
  BY <1>1, StageFrame DEF Out, hands
<1>8. WorkerLocks'
  BY <1>1 DEF WorkerLocks, hands
<1> QED
  BY <1>2, <1>3, <1>4, <1>5, <1>6, <1>7, <1>8, FrameStructure
  DEF locals, hands

\* push_task without a group keeps the task in a pool of its own.
LEMMA PushUngroupedStructure ==
  ASSUME TypeOK, Structure, NEW t \in Tasks, PushUngrouped(t)
  PROVE  Structure'
<1> USE DEF Structure, PushUngrouped
<1>1. /\ stage' = [stage EXCEPT ![t] = "ungrouped"]
      /\ stage \in [Tasks -> Stages]
  BY DEF TypeOK, HistoryType
<1>2. Ids'
  BY <1>1 DEF Ids
<1>3. GroupKnown'
  BY <1>1 DEF GroupKnown
<1>4. CursorHolds'
  BY DEF CursorHolds, Dealing
<1>5. TakenInWait'
  BY <1>1 DEF TakenInWait, Taken, InWait
<1>6. QueuesHold' /\ HandsHold' /\ OutSomewhere'
  BY <1>1, StageFrame DEF Out, hands
<1> QED
  BY <1>2, <1>3, <1>4, <1>5, <1>6, FrameStructure DEF locals, hands, buckets

\* All steps of the application.
LEMMA ApplicationStructure ==
  ASSUME TypeOK, Structure, Application
  PROVE  Structure'
<1>1. ASSUME NEW g \in Groups, WaitGroup(g) \/ WaitAborts(g)
      PROVE  Structure'
  <2> USE <1>1 DEF WaitGroup, WaitAborts, Structure, tasks, buckets, hands,
                   history
  <2>1. CursorHolds' /\ TakenInWait' /\ MainLocks' /\ FirstWait'
    BY MainFrame DEF InWait
  <2>2. Unborn'
    BY DEF Unborn
  <2> QED
    BY <2>1, <2>2, FrameStructure
<1>2. CASE Shutdown
  <2> USE <1>2 DEF Shutdown, Structure, tasks, buckets, hands, history
  <2>1. CursorHolds' /\ TakenInWait' /\ MainLocks' /\ FirstWait'
    BY MainFrame DEF InWait
  <2>2. Unborn'
    BY DEF Unborn
  <2> QED
    BY <2>1, <2>2, FrameStructure
<1> QED
  BY <1>1, <1>2, NewTaskStructure, PushTaskStructure, PushUngroupedStructure
  DEF Application

(***************************************************************************)
(* The steps of wait_group.  With the lock taken, every task of the group  *)
(* is still pending: only a wait_group takes tasks out, and the lock of a  *)
(* group that has been waited for is never free.                           *)
(***************************************************************************)
LEMMA LockGroupStructure ==
  ASSUME TypeOK, Structure, NEW r \in Ratios, LockGroup(r)
  PROVE  Structure'
<1> USE DEF Structure, LockGroup, BeginWait
<1>1. cur \in Groups /\ cur \notin waited
  BY DEF TypeOK, MainType, GroupType, MainLocks
<1>2. \A l \in Levels : \A n \in 1 .. Len(pending_q[cur][l]) :
         stage[pending_q[cur][l][n]] = "pending"
  <2> SUFFICES ASSUME NEW l \in Levels, NEW n \in 1 .. Len(pending_q[cur][l])
               PROVE  stage[pending_q[cur][l][n]] = "pending"
    OBVIOUS
  <2> DEFINE t == pending_q[cur][l][n]
  <2>1. t \in Tasks /\ my_group[t] = cur
    BY <1>1 DEF BucketsHold, TypeOK, GroupType
  <2>2. stage[t] \in Stages \ {"unborn", "made", "ungrouped"}
    BY <1>1, <2>1 DEF GroupKnown, TypeOK, HistoryType
  <2>3. stage[t] \notin Taken
    BY <1>1, <2>1 DEF TakenInWait, InWait
  <2> QED
    BY <2>2, <2>3 DEF Stages, Taken
<1>3. CursorHolds'
  BY <1>2 DEF CursorHolds, Dealing, Ahead, buckets, history
<1>4. TakenInWait'
  BY DEF TakenInWait, InWait, tasks, history
<1>5. WorkerLocks'
  BY <1>1 DEF WorkerLocks, TypeOK, GroupType, WorkerType, hands, tasks
<1>6. MainLocks'
  BY <1>1 DEF MainLocks, Dealing, InWait, TypeOK, GroupType, history
<1>7. FirstWait' /\ Unborn'
  BY <1>1 DEF FirstWait, Unborn, history
<1> QED
  BY <1>3, <1>4, <1>5, <1>6, <1>7, FrameStructure
  DEF tasks, buckets, hands, history

\* The position after i is the only one that wait_group goes on to.
LEMMA AheadNext ==
  ASSUME TypeOK, NEW l \in Levels, NEW n \in Nat,
         mainPc' = "select", sig' = sig, i' = i + 1, Ahead(l, n)'
  PROVE  l < sig \/ (l = sig /\ n > i)
BY DEF Ahead, TypeOK, MainType, Levels, NON_SIGNIFICANT

\* What lies ahead of the present task is another task, and is pending.
LEMMA AheadIsPending ==
  ASSUME TypeOK, BucketsHold, CursorHolds, Dealing,
         cur \in Groups, sig \in Levels, i \in 1 .. Len(pending_q[cur][sig]),
         NEW l \in Levels, NEW n \in 1 .. Len(pending_q[cur][l]),
         l < sig \/ (l = sig /\ n > i)
  PROVE  /\ pending_q[cur][l][n] \in Tasks
         /\ pending_q[cur][l][n] # Here
         /\ stage[pending_q[cur][l][n]] = "pending"
<1>1. pending_q[cur][l] \in Seq(Tasks)
  BY DEF TypeOK, GroupType
<1>2. pending_q[cur][l][n] \in Tasks
  BY <1>1
<1>3. l # sig \/ n # i
  BY DEF Levels, NON_SIGNIFICANT
<1>4. pending_q[cur][l][n] # Here
  BY <1>3 DEF BucketsHold, Here
<1>5. stage[pending_q[cur][l][n]] = "pending"
  BY DEF CursorHolds, Ahead
<1> QED
  BY <1>2, <1>4, <1>5

\* The continue of the loop: the cursor goes on.
LEMMA SkipTaskStructure ==
  ASSUME TypeOK, Structure, SkipTask
  PROVE  Structure'
<1> USE DEF Structure, SkipTask, AtTask, Decide
<1>1. /\ cur \in Groups /\ sig \in Levels
      /\ i \in 1 .. Len(pending_q[cur][sig])
      /\ Here \in Tasks
      /\ stage[Here] = "pending" /\ my_group[Here] = cur
  BY HereType DEF Dealing, CursorHolds, Ahead, Here, BucketsHold
<1>2. stage' = [stage EXCEPT ![Here] = "skipped"] /\ stage \in [Tasks -> Stages]
  BY DEF TypeOK, HistoryType
<1>3. Ids' /\ GroupKnown'
  BY <1>1, <1>2 DEF Ids, GroupKnown
<1>4. QueuesHold' /\ HandsHold' /\ OutSomewhere'
  BY <1>1, <1>2, StageFrame DEF Out, hands
<1>5. CursorHolds'
  <2> SUFFICES ASSUME NEW l \in Levels,
                      NEW n \in 1 .. Len(pending_q[cur][l]), Ahead(l, n)'
               PROVE  stage'[pending_q[cur][l][n]] = "pending"
    BY DEF CursorHolds, buckets, Dealing
  <2>1. l < sig \/ (l = sig /\ n > i)
    BY AheadNext
  <2>2. /\ pending_q[cur][l][n] \in Tasks
        /\ pending_q[cur][l][n] # Here
        /\ stage[pending_q[cur][l][n]] = "pending"
    BY <1>1, <2>1, AheadIsPending DEF Dealing
  <2> QED
    BY <1>2, <2>2
<1>6. TakenInWait'
  BY <1>1, <1>2 DEF TakenInWait, Taken, InWait
<1>7. FirstWait'
  BY DEF FirstWait
<1> QED
  BY <1>3, <1>4, <1>5, <1>6, <1>7, FrameStructure DEF buckets, hands

\* queue_push: the task leaves its bucket for one queue.
LEMMA DispatchTaskStructure ==
  ASSUME TypeOK, Structure, DispatchTask
  PROVE  Structure'
<1> USE DEF Structure, DispatchTask, Deal, AtTask, Decide
<1>1. /\ cur \in Groups /\ sig \in Levels
      /\ i \in 1 .. Len(pending_q[cur][sig])
      /\ Here \in Tasks
      /\ stage[Here] = "pending" /\ my_group[Here] = cur
  BY HereType DEF Dealing, CursorHolds, Ahead, Here, BucketsHold
<1>2. stage' = [stage EXCEPT ![Here] = "queued"] /\ stage \in [Tasks -> Stages]
  BY DEF TypeOK, HistoryType
<1>3. /\ NextWorker \in Workers
      /\ work_queue \in [Workers -> Seq(Tasks)]
      /\ work_queue' = [work_queue EXCEPT ![NextWorker] = Append(@, Here)]
  BY NextWorkerType DEF TypeOK, MainType, WorkerType
<1>4. \A w \in Workers : \A n \in 1 .. Len(work_queue'[w]) :
         \/ /\ n \in 1 .. Len(work_queue[w])
            /\ work_queue'[w][n] = work_queue[w][n]
         \/ /\ w = NextWorker /\ n = Len(work_queue[w]) + 1
            /\ work_queue'[w][n] = Here
  BY <1>1, <1>3
<1>5. \A w \in Workers : \A n \in 1 .. Len(work_queue[w]) :
         /\ work_queue[w][n] \in Tasks
         /\ stage[work_queue[w][n]] = "queued"
         /\ work_queue[w][n] # Here
  BY <1>1, <1>3 DEF QueuesHold
<1>6. \A t \in Tasks : t # Here => stage'[t] = stage[t]
  BY <1>1, <1>2
<1>7. stage'[Here] = "queued"
  BY <1>1, <1>2
<1>8. Ids' /\ GroupKnown'
  BY <1>1, <1>2 DEF Ids, GroupKnown
<1>9. CursorHolds'
  <2>1. stage'[Here'] \in Out /\ i' <= Len(pending_q[cur][sig])
    BY <1>7, <1>1 DEF Here, Out, buckets
  <2> SUFFICES ASSUME NEW l \in Levels,
                      NEW n \in 1 .. Len(pending_q[cur][l]), Ahead(l, n)'
               PROVE  stage'[pending_q[cur][l][n]] = "pending"
    BY <2>1 DEF CursorHolds, buckets, Dealing
  <2>2. l < sig \/ (l = sig /\ n > i)
    BY DEF Ahead
  <2>3. /\ pending_q[cur][l][n] \in Tasks
        /\ pending_q[cur][l][n] # Here
        /\ stage[pending_q[cur][l][n]] = "pending"
    BY <1>1, <2>2, AheadIsPending DEF Dealing
  <2> QED
    BY <1>6, <2>3
<1>10. TakenInWait'
  BY <1>1, <1>2 DEF TakenInWait, Taken, InWait
<1>11. QueuesHold'
  <2> SUFFICES ASSUME NEW w \in Workers, NEW n \in 1 .. Len(work_queue'[w])
               PROVE  /\ stage'[work_queue'[w][n]] = "queued"
                      /\ \A v \in Workers :
                           \A m \in 1 .. Len(work_queue'[v]) :
                             work_queue'[v][m] = work_queue'[w][n]
                               => v = w /\ m = n
    BY DEF QueuesHold
  <2>1. stage'[work_queue'[w][n]] = "queued"
    BY <1>4, <1>5, <1>6, <1>7
  <2>2. ASSUME NEW v \in Workers, NEW m \in 1 .. Len(work_queue'[v]),
               work_queue'[v][m] = work_queue'[w][n]
        PROVE  v = w /\ m = n
    <3>1. CASE work_queue'[w][n] = Here
      <4>1. w = NextWorker /\ n = Len(work_queue[w]) + 1
        BY <1>4, <1>5, <3>1
      <4>2. v = NextWorker /\ m = Len(work_queue[v]) + 1
        BY <1>4, <1>5, <2>2, <3>1
      <4> QED
        BY <4>1, <4>2
    <3>2. CASE work_queue'[w][n] # Here
      <4>1. /\ n \in 1 .. Len(work_queue[w])
            /\ work_queue'[w][n] = work_queue[w][n]
            /\ m \in 1 .. Len(work_queue[v])
            /\ work_queue'[v][m] = work_queue[v][m]
        BY <1>4, <2>2, <3>2
      <4> QED
        BY <2>2, <4>1 DEF QueuesHold
    <3> QED
      BY <3>1, <3>2
  <2> QED
    BY <2>1, <2>2
<1>12. HandsHold'
  BY <1>1, <1>6 DEF HandsHold, hands
<1>13. OutSomewhere'
  <2>1. Queued(Here)'
    <3>1. /\ Len(work_queue'[NextWorker]) = Len(work_queue[NextWorker]) + 1
          /\ work_queue'[NextWorker][Len(work_queue[NextWorker]) + 1] = Here
      BY <1>1, <1>3
    <3>2. \E w \in Workers : \E n \in 1 .. Len(work_queue'[w]) :
             work_queue'[w][n] = Here
      BY <1>3, <3>1
    <3> QED
      BY <3>2 DEF Queued, Here, buckets
  <2>2. ASSUME NEW t \in Tasks, Queued(t)
        PROVE  Queued(t)'
    BY <1>3, <2>2 DEF Queued
  <2>3. ASSUME NEW t \in Tasks, Held(t)
        PROVE  Held(t)'
    BY <2>3 DEF Held, hands
  <2>4. Here' = Here
    BY DEF Here, buckets
  <2>5. ASSUME NEW t \in Tasks
        PROVE  /\ stage'[t] = "queued" => Queued(t)'
               /\ stage'[t] = "held" => Held(t)'
    <3>1. CASE t = Here
      BY <1>7, <2>1, <2>4, <3>1 DEF Queued
    <3>2. CASE t # Here
      BY <1>6, <2>2, <2>3, <3>2 DEF OutSomewhere
    <3> QED
      BY <3>1, <3>2
  <2> QED
    BY <2>5 DEF OutSomewhere
<1>14. MainLocks' /\ FirstWait' /\ Unborn'
  BY DEF MainLocks, FirstWait, Unborn, Dealing, InWait
<1> QED
  BY <1>8, <1>9, <1>10, <1>11, <1>12, <1>13, <1>14, FrameStructure
  DEF buckets, hands

\* executing_num++ and the end of the inner loop body.
LEMMA CountTaskStructure ==
  ASSUME TypeOK, Structure, CountTask
  PROVE  Structure'
<1>1. /\ mainPc = "count" /\ mainPc' = "select" /\ i' = i + 1
      /\ UNCHANGED <<k, cur, sig, tasks, buckets, lock, work_queue, hands,
                     history>>
  BY DEF CountTask, Count
<1> USE <1>1 DEF Structure, tasks, buckets, hands, history
<1>2. /\ cur \in Groups /\ sig \in Levels
      /\ i \in 1 .. Len(pending_q[cur][sig])
  BY HereType DEF Dealing, CursorHolds
<1>3. CursorHolds'
  <2> SUFFICES ASSUME NEW l \in Levels,
                      NEW n \in 1 .. Len(pending_q[cur][l]), Ahead(l, n)'
               PROVE  stage[pending_q[cur][l][n]] = "pending"
    BY DEF CursorHolds, Dealing
  <2>1. l < sig \/ (l = sig /\ n > i)
    BY AheadNext
  <2> QED
    BY <1>2, <2>1, AheadIsPending DEF Dealing
<1>4. TakenInWait' /\ MainLocks' /\ FirstWait' /\ Unborn'
  BY DEF TakenInWait, InWait, MainLocks, Dealing, FirstWait, Unborn
<1> QED
  BY <1>3, <1>4, FrameStructure

\* The next bucket has not been touched yet.
LEMMA NextLevelStructure ==
  ASSUME TypeOK, Structure, NextLevel
  PROVE  Structure'
<1>1. /\ mainPc = "select" /\ sig' = sig - 1 /\ i' = 1
      /\ UNCHANGED <<mainPc, k, cur, tasks, buckets, lock, work_queue, hands,
                     history>>
  BY DEF NextLevel, LowerLevel, BucketDone
<1> USE <1>1 DEF Structure, tasks, buckets, hands, history
<1>2. CursorHolds'
  <2> SUFFICES ASSUME NEW l \in Levels,
                      NEW n \in 1 .. Len(pending_q[cur][l]), Ahead(l, n)'
               PROVE  stage[pending_q[cur][l][n]] = "pending"
    BY DEF CursorHolds, Dealing
  <2>1. l < sig
    BY DEF Ahead, TypeOK, MainType, Levels, NON_SIGNIFICANT
  <2> QED
    BY <2>1 DEF CursorHolds, Dealing, Ahead
<1> QED
  BY <1>2, FrameStructure

\* pthread_cond_wait releases the lock.
LEMMA CondWaitStructure ==
  ASSUME TypeOK, Structure, CondWait
  PROVE  Structure'
<1>1. /\ mainPc = "select" /\ mainPc' = "asleep"
      /\ lock' = [lock EXCEPT ![cur] = FREE]
      /\ UNCHANGED <<k, locals, tasks, buckets, work_queue, hands, history>>
  BY DEF CondWait, EndLoops, BucketDone
<1> USE <1>1 DEF Structure, locals, tasks, buckets, hands, history
<1>2. cur \in Groups /\ lock \in [Groups -> {FREE, MAIN} \cup Workers]
  BY DEF TypeOK, MainType, GroupType, InWait
<1>3. lock[cur] = MAIN /\ cur \notin waited
  BY <1>2 DEF MainLocks, FirstWait, Dealing, InWait
<1>4. CursorHolds' /\ TakenInWait' /\ FirstWait' /\ Unborn'
  BY DEF CursorHolds, TakenInWait, FirstWait, Unborn, InWait, Dealing
<1>5. WorkerLocks'
  BY <1>2, <1>3 DEF WorkerLocks
<1>6. MainLocks'
  BY <1>2, <1>3 DEF MainLocks, Dealing
<1> QED
  BY <1>4, <1>5, <1>6, FrameStructure

\* Once woken wait_group keeps the lock, for good.
LEMMA WaitReturnStructure ==
  ASSUME TypeOK, Structure, WaitReturn
  PROVE  Structure'
<1>1. /\ mainPc = "awake" /\ mainPc' = "user" /\ lock[cur] = FREE
      /\ lock' = [lock EXCEPT ![cur] = MAIN] /\ waited' = waited \cup {cur}
      /\ UNCHANGED <<k, locals, tasks, buckets, work_queue, hands, stage>>
  BY DEF WaitReturn
<1> USE <1>1 DEF Structure, locals, tasks, buckets, hands
<1>2. cur \in Groups /\ lock \in [Groups -> {FREE, MAIN} \cup Workers]
  BY DEF TypeOK, MainType, GroupType, InWait
<1>3. CursorHolds' /\ TakenInWait' /\ FirstWait' /\ Unborn'
  BY DEF CursorHolds, TakenInWait, FirstWait, Unborn, InWait, Dealing
<1>4. WorkerLocks'
  BY <1>2 DEF WorkerLocks
<1>5. MainLocks'
  BY <1>2 DEF MainLocks, Dealing
<1> QED
  BY <1>3, <1>4, <1>5, FrameStructure

(***************************************************************************)
(* init_system and shutdown_system.                                        *)
(***************************************************************************)
LEMMA StartWorkerStructure ==
  ASSUME TypeOK, Structure, StartWorker
  PROVE  Structure'
<1> USE DEF Structure, StartWorker, locals, tasks, buckets, history
<1>1. k \in Workers /\ workerPc[k] = "unborn"
  BY DEF TypeOK, MainType, Unborn, Workers
<1>2. CursorHolds' /\ TakenInWait' /\ MainLocks' /\ FirstWait'
  BY MainFrame DEF InWait
<1>3. HandsHold' /\ OutSomewhere' /\ WorkerLocks'
  <2>1. workerPc'[k] = "loop"
    BY <1>1 DEF TypeOK, WorkerType
  <2>2. \A v \in Workers : v # k => workerPc'[v] = workerPc[v]
    BY <1>1 DEF TypeOK, WorkerType
  <2> QED
    BY <1>1, <2>1, <2>2, WorkerFrame DEF Working
<1>4. Unborn'
  BY <1>1 DEF Unborn, TypeOK, WorkerType, MainType, Workers
<1> QED
  BY <1>2, <1>3, <1>4, FrameStructure

\* shutdown_system moves no task and takes no lock.
LEMMA ShutdownStructure ==
  ASSUME TypeOK, Structure, StopWorker \/ JoinWorker \/ JoinCrashes
  PROVE  Structure'
<1>1. /\ mainPc \in {"stop", "join"}
      /\ mainPc' \in {"stop", "join", "down", "aborted"}
      /\ UNCHANGED <<locals, tasks, buckets, lock, work_queue, hands, history>>
  BY DEF StopWorker, JoinWorker, JoinCrashes
<1> USE <1>1 DEF Structure, locals, tasks, buckets, hands, history
<1>2. CursorHolds' /\ TakenInWait' /\ MainLocks' /\ FirstWait'
  BY MainFrame DEF InWait
<1>3. Unborn'
  BY DEF Unborn
<1> QED
  BY <1>2, <1>3, FrameStructure

\* All steps of init_system, wait_group and shutdown_system.
LEMMA CallStructure ==
  ASSUME TypeOK, Structure, Call
  PROVE  Structure'
BY LockGroupStructure, SkipTaskStructure, DispatchTaskStructure,
   CountTaskStructure, NextLevelStructure, CondWaitStructure,
   WaitReturnStructure, StartWorkerStructure, ShutdownStructure
DEF Call

(***************************************************************************)
(* The steps of a worker.                                                  *)
(***************************************************************************)
LEMMA PollStructure ==
  ASSUME TypeOK, Structure, NEW w \in Workers,
         CheckRunning(w) \/ PopNothing(w) \/ Recheck(w) \/ RunTask(w),
         mainPc # "init" \/ workerPc[w] # "unborn"
  PROVE  Structure'
<1> USE DEF Structure
<1>1. /\ UNCHANGED <<mainPc, k, locals, tasks, buckets, lock, work_queue, stage,
                     waited>>
      /\ \A v \in Workers : v # w => /\ workerPc'[v] = workerPc[v]
                                     /\ job'[v] = job[v]
      /\ workerPc[w] \in {"loop", "pop", "recheck", "run"}
      /\ \/ /\ workerPc[w] # "run"
            /\ workerPc'[w] \in {"pop", "exit", "recheck"}
         \/ workerPc[w] = "run" /\ workerPc'[w] = "sync" /\ job' = job
  BY DEF CheckRunning, Recheck, LoopTest, PopNothing, RunTask, TypeOK,
         WorkerType, history
<1>2. HandsHold' /\ OutSomewhere' /\ WorkerLocks'
  BY <1>1, WorkerFrame DEF Working, tasks
<1>3. Unborn'
  BY <1>1 DEF Unborn
<1> QED
  BY <1>1, <1>2, <1>3, FrameStructure DEF locals, tasks, buckets

\* queue_pop: the task leaves the queue for one worker.
LEMMA PopTaskStructure ==
  ASSUME TypeOK, Structure, NEW w \in Workers, PopTask(w)
  PROVE  Structure'
<1> USE DEF Structure
<1>0. PICK t \in Tasks : t = work_queue[w][1]
  BY DEF PopTask, TypeOK, WorkerType
<1>1. /\ UNCHANGED <<mainPc, k, cur, sig, i, tasks, buckets, lock, waited>>
      /\ workerPc[w] = "pop" /\ workerPc' = [workerPc EXCEPT ![w] = "run"]
      /\ work_queue[w] # << >>
      /\ job' = [job EXCEPT ![w] = t]
      /\ work_queue' = [work_queue EXCEPT ![w] = Tail(@)]
      /\ stage' = [stage EXCEPT ![t] = "held"]
  BY <1>0 DEF PopTask, locals
<1>2. /\ workerPc \in [Workers -> WorkerSteps]
      /\ work_queue \in [Workers -> Seq(Tasks)]
      /\ job \in [Workers -> Tasks \cup {NULL}]
      /\ stage \in [Tasks -> Stages]
  BY DEF TypeOK, WorkerType, HistoryType
<1>3. 1 \in 1 .. Len(work_queue[w]) /\ stage[t] = "queued"
  BY <1>0, <1>1, <1>2 DEF QueuesHold
<1>4. /\ workerPc'[w] = "run" /\ job'[w] = t
      /\ \A v \in Workers \ {w} : /\ workerPc'[v] = workerPc[v]
                                  /\ job'[v] = job[v]
                                  /\ work_queue'[v] = work_queue[v]
      /\ work_queue'[w] = Tail(work_queue[w])
  BY <1>1, <1>2
<1>5. /\ stage'[t] = "held"
      /\ \A u \in Tasks : u # t => stage'[u] = stage[u]
  BY <1>1, <1>2, <1>3
<1>6. \A v \in Workers : \A n \in 1 .. Len(work_queue'[v]) :
         IF v = w THEN /\ n + 1 \in 2 .. Len(work_queue[v])
                       /\ work_queue'[v][n] = work_queue[v][n + 1]
                  ELSE /\ n \in 1 .. Len(work_queue[v])
                       /\ work_queue'[v][n] = work_queue[v][n]
  BY <1>1, <1>2, <1>4
<1>7. \A v \in Workers : \A n \in 1 .. Len(work_queue'[v]) :
         /\ work_queue'[v][n] \in Tasks
         /\ work_queue'[v][n] # t
         /\ stage[work_queue'[v][n]] = "queued"
  <2> SUFFICES ASSUME NEW v \in Workers, NEW n \in 1 .. Len(work_queue'[v])
               PROVE  /\ work_queue'[v][n] \in Tasks
                      /\ work_queue'[v][n] # t
                      /\ stage[work_queue'[v][n]] = "queued"
    OBVIOUS
  <2>1. CASE v = w
    <3>1. /\ n + 1 \in 1 .. Len(work_queue[w]) /\ n + 1 # 1
          /\ work_queue'[v][n] = work_queue[w][n + 1]
      BY <1>6, <2>1
    <3>2. work_queue[w][n + 1] # t /\ stage[work_queue[w][n + 1]] = "queued"
      BY <1>0, <1>3, <3>1 DEF QueuesHold
    <3> QED
      BY <1>2, <3>1, <3>2
  <2>2. CASE v # w
    <3>1. /\ n \in 1 .. Len(work_queue[v])
          /\ work_queue'[v][n] = work_queue[v][n]
      BY <1>6, <2>2
    <3>2. work_queue[v][n] # t /\ stage[work_queue[v][n]] = "queued"
      BY <1>0, <1>3, <2>2, <3>1 DEF QueuesHold
    <3> QED
      BY <1>2, <3>1, <3>2
  <2> QED
    BY <2>1, <2>2
<1>8. Ids' /\ GroupKnown'
  BY <1>1, <1>3, <1>5 DEF Ids, GroupKnown, tasks
<1>9. CursorHolds'
  <2>1. \A l \in Levels : \A n \in 1 .. Len(pending_q[cur][l]) :
           stage[pending_q[cur][l][n]] = "pending"
             => stage'[pending_q[cur][l][n]] = "pending"
    BY <1>1, <1>2, <1>3
  <2>2. stage[Here] \in Out => stage'[Here] \in Out
    BY <1>1, <1>2, <1>3 DEF Out
  <2> QED
    BY <1>1, <2>1, <2>2 DEF CursorHolds, Dealing, Ahead, Here, buckets
<1>10. TakenInWait'
  BY <1>1, <1>3, <1>5 DEF TakenInWait, Taken, tasks
<1>11. QueuesHold'
  <2>1. \A v \in Workers : \A n \in 1 .. Len(work_queue'[v]) :
           stage'[work_queue'[v][n]] = "queued"
    BY <1>5, <1>7
  <2>2. ASSUME NEW u \in Workers, NEW m \in 1 .. Len(work_queue'[u]),
               NEW v \in Workers, NEW n \in 1 .. Len(work_queue'[v]),
               work_queue'[u][m] = work_queue'[v][n]
        PROVE  u = v /\ m = n
    <3> DEFINE p == IF u = w THEN m + 1 ELSE m
               q == IF v = w THEN n + 1 ELSE n
    <3>1. /\ p \in 1 .. Len(work_queue[u]) /\ q \in 1 .. Len(work_queue[v])
          /\ work_queue[u][p] = work_queue[v][q]
      BY <1>6, <2>2
    <3>2. u = v /\ p = q
      BY <3>1 DEF QueuesHold
    <3>3. m \in Int /\ n \in Int
      BY <1>2, <1>4
    <3> QED
      BY <3>2, <3>3
  <2> QED
    BY <2>1, <2>2 DEF QueuesHold
<1>12. HandsHold'
  BY <1>1, <1>3, <1>4, <1>5 DEF HandsHold, Working
<1>13. OutSomewhere'
  <2>1. Held(t)'
    BY <1>4 DEF Held, Working
  <2>2. ASSUME NEW u \in Tasks, u # t, Queued(u)
        PROVE  Queued(u)'
    <3>0. PICK v \in Workers :
             \E n \in 1 .. Len(work_queue[v]) : work_queue[v][n] = u
      BY <2>2 DEF Queued
    <3>1. PICK n \in 1 .. Len(work_queue[v]) : work_queue[v][n] = u
      BY <3>0
    <3>2. CASE v # w
      BY <1>4, <3>1, <3>2 DEF Queued
    <3>3. CASE v = w
      <4>1. n - 1 \in 1 .. Len(work_queue'[w])
            /\ work_queue'[w][n - 1] = u
        BY <1>0, <1>1, <1>2, <1>4, <2>2, <3>1, <3>3
      <4> QED
        BY <4>1 DEF Queued
    <3> QED
      BY <3>2, <3>3
  <2>3. ASSUME NEW u \in Tasks, Held(u)
        PROVE  Held(u)'
    BY <1>1, <1>4, <2>3 DEF Held, Working
  <2> QED
    BY <1>5, <2>1, <2>2, <2>3 DEF OutSomewhere
<1>14. WorkerLocks'
  BY <1>1, <1>4 DEF WorkerLocks, tasks
<1>15. Unborn'
  BY <1>1, <1>4 DEF Unborn
<1> QED
  BY <1>1, <1>8, <1>9, <1>10, <1>11, <1>12, <1>13, <1>14, <1>15, FrameStructure
  DEF tasks, buckets

\* A worker's task is held, and has a group.
LEMMA JobType ==
  ASSUME TypeOK, Structure, NEW w \in Workers, workerPc[w] \in Working
  PROVE  /\ job[w] \in Tasks
         /\ stage[job[w]] = "held"
         /\ my_group[job[w]] \in Groups
<1>1. job[w] \in Tasks /\ stage[job[w]] = "held"
  BY DEF Structure, HandsHold
<1>2. my_group[job[w]] # NULL
  BY <1>1 DEF Structure, GroupKnown
<1> QED
  BY <1>1, <1>2 DEF TypeOK, TaskType, GroupType

\* explicit_sync takes the lock of the group.
LEMMA EnterSyncStructure ==
  ASSUME TypeOK, Structure, NEW w \in Workers, EnterSync(w)
  PROVE  Structure'
<1> USE DEF Structure
<1>0. PICK g \in Groups : g = my_group[job[w]]
  BY JobType DEF EnterSync, Working
<1>1. /\ workerPc[w] = "sync" /\ lock[g] = FREE
      /\ lock' = [lock EXCEPT ![g] = w]
      /\ workerPc' = [workerPc EXCEPT ![w] = "countdown"]
      /\ UNCHANGED <<mainPc, k, locals, tasks, buckets, work_queue, job, stage,
                     waited>>
  BY <1>0 DEF EnterSync, TakeLock, history
<1>2. /\ workerPc \in [Workers -> WorkerSteps]
      /\ lock \in [Groups -> {FREE, MAIN} \cup Workers]
      /\ job[w] \in Tasks
  BY <1>1, JobType DEF TypeOK, WorkerType, GroupType, Working
<1>3. /\ workerPc'[w] = "countdown"
      /\ \A v \in Workers \ {w} : workerPc'[v] = workerPc[v]
      /\ lock'[g] = w
      /\ \A h \in Groups \ {g} : lock'[h] = lock[h]
  BY <1>1, <1>2
<1>4. HandsHold' /\ OutSomewhere'
  BY <1>1, <1>3, WorkerFrame DEF Working
<1>5. WorkerLocks'
  BY <1>0, <1>1, <1>2, <1>3 DEF WorkerLocks, tasks
<1>6. MainLocks'
  BY <1>1, <1>3 DEF MainLocks, Dealing, locals
<1>7. Unborn'
  BY <1>1, <1>3 DEF Unborn
<1> QED
  BY <1>1, <1>4, <1>5, <1>6, <1>7, FrameStructure DEF locals, tasks, buckets

\* explicit_sync counts down; the task is finished.
LEMMA CountDownStructure ==
  ASSUME TypeOK, Structure, NEW w \in Workers, CountDown(w)
  PROVE  Structure'
<1> USE DEF Structure
<1>0. PICK t \in Tasks : t = job[w]
  BY JobType DEF CountDown, CountDownAnd, Working
<1>1. /\ workerPc[w] = "countdown"
      /\ workerPc' = [workerPc EXCEPT ![w] = "unlock"]
      /\ stage' = [stage EXCEPT ![t] = "finished"]
      /\ mainPc' = mainPc \/ (mainPc = "asleep" /\ mainPc' = "awake")
      /\ UNCHANGED <<k, locals, tasks, buckets, lock, work_queue, job, waited>>
  BY <1>0 DEF CountDown, CountDownAnd
<1>2. /\ workerPc \in [Workers -> WorkerSteps]
      /\ stage \in [Tasks -> Stages]
      /\ stage[t] = "held"
  BY <1>0, <1>1, JobType DEF TypeOK, WorkerType, HistoryType, Working
<1>3. /\ workerPc'[w] = "unlock"
      /\ \A v \in Workers \ {w} : workerPc'[v] = workerPc[v]
      /\ stage'[t] = "finished"
      /\ \A u \in Tasks \ {t} : stage'[u] = stage[u]
  BY <1>1, <1>2
<1>4. Ids' /\ GroupKnown'
  BY <1>1, <1>2, <1>3 DEF Ids, GroupKnown, tasks
<1>5. CursorHolds'
  <2>1. CASE mainPc' = mainPc
    <3>1. \A l \in Levels : \A n \in 1 .. Len(pending_q[cur][l]) :
             stage[pending_q[cur][l][n]] = "pending"
               => stage'[pending_q[cur][l][n]] = "pending"
      BY <1>1, <1>2
    <3>2. ASSUME mainPc = "count"
          PROVE  Here # t
      <4>1. my_group[t] \in Groups /\ lock[my_group[t]] = w
        BY <1>0, <1>1 DEF WorkerLocks
      <4>2. my_group[t] # cur
        BY <3>2, <4>1 DEF MainLocks, Dealing
      <4>3. my_group[Here] = cur
        BY <3>2, HereType DEF CursorHolds, Dealing, BucketsHold, Here
      <4> QED
        BY <4>2, <4>3
    <3> QED
      BY <1>1, <1>2, <2>1, <3>1, <3>2
      DEF CursorHolds, Dealing, Ahead, Here, locals, buckets
  <2>2. CASE mainPc' = "awake"
    BY <2>2 DEF CursorHolds, Dealing
  <2> QED
    BY <1>1, <2>1, <2>2
<1>6. TakenInWait' /\ MainLocks' /\ FirstWait'
  BY <1>1, <1>2, <1>3
  DEF TakenInWait, Taken, InWait, MainLocks, Dealing, FirstWait, tasks, locals
<1>7. QueuesHold'
  BY <1>1, <1>2, <1>3 DEF QueuesHold
<1>8. HandsHold'
  BY <1>0, <1>1, <1>3 DEF HandsHold, Working
<1>9. OutSomewhere'
  BY <1>0, <1>1, <1>3 DEF OutSomewhere, Queued, Held, Working
<1>10. WorkerLocks'
  BY <1>1, <1>3 DEF WorkerLocks, tasks
<1>11. Unborn'
  BY <1>1, <1>3 DEF Unborn
<1> QED
  BY <1>1, <1>4, <1>5, <1>6, <1>7, <1>8, <1>9, <1>10, <1>11, FrameStructure
  DEF locals, tasks, buckets

\* explicit_sync releases the lock.
LEMMA LeaveSyncStructure ==
  ASSUME TypeOK, Structure, NEW w \in Workers, LeaveSync(w)
  PROVE  Structure'
<1> USE DEF Structure
<1>0. PICK g \in Groups : g = my_group[job[w]] /\ lock[g] = w
  BY DEF LeaveSync, WorkerLocks
<1>1. /\ workerPc[w] = "unlock"
      /\ lock' = [lock EXCEPT ![g] = FREE]
      /\ workerPc' = [workerPc EXCEPT ![w] = "loop"]
      /\ UNCHANGED <<mainPc, k, locals, tasks, buckets, work_queue, job, stage,
                     waited>>
  BY <1>0 DEF LeaveSync, history
<1>2. /\ workerPc \in [Workers -> WorkerSteps]
      /\ lock \in [Groups -> {FREE, MAIN} \cup Workers]
  BY DEF TypeOK, WorkerType, GroupType
<1>3. /\ workerPc'[w] = "loop"
      /\ \A v \in Workers \ {w} : workerPc'[v] = workerPc[v]
      /\ lock'[g] = FREE
      /\ \A h \in Groups \ {g} : lock'[h] = lock[h]
  BY <1>1, <1>2
<1>4. HandsHold' /\ OutSomewhere'
  BY <1>1, <1>3, WorkerFrame DEF Working
<1>5. WorkerLocks'
  BY <1>0, <1>1, <1>2, <1>3 DEF WorkerLocks, tasks
<1>6. MainLocks'
  BY <1>0, <1>1, <1>3 DEF MainLocks, Dealing, locals
<1>7. Unborn'
  BY <1>1, <1>3 DEF Unborn
<1> QED
  BY <1>1, <1>4, <1>5, <1>6, <1>7, FrameStructure DEF locals, tasks, buckets

(***************************************************************************)
(* The structure is inductive.                                             *)
(***************************************************************************)
LEMMA NextStructure ==
  ASSUME TypeOK, Structure, [Next]_vars
  PROVE  Structure'
<1>1. ASSUME NEW w \in Workers, Worker(w)
      PROVE  Structure'
  <2>1. CASE CheckRunning(w) \/ PopNothing(w) \/ Recheck(w) \/ RunTask(w)
    <3>1. workerPc[w] # "unborn"
      BY <2>1 DEF CheckRunning, PopNothing, Recheck, LoopTest, RunTask
    <3> QED
      BY <2>1, <3>1, PollStructure
  <2> QED
    BY <1>1, <2>1, PopTaskStructure, EnterSyncStructure, CountDownStructure,
       LeaveSyncStructure DEF Worker
<1>2. CASE SpuriousWakeup
  <2> USE <1>2 DEF SpuriousWakeup, Structure, locals, tasks, buckets, hands,
                   history
  <2>1. CursorHolds' /\ TakenInWait' /\ MainLocks' /\ FirstWait' /\ Unborn'
    BY DEF CursorHolds, TakenInWait, MainLocks, FirstWait, Unborn, Dealing,
           InWait
  <2> QED
    BY <2>1, FrameStructure
<1>3. CASE UNCHANGED vars
  BY <1>3, FrameStructure
  DEF vars, Structure, locals, tasks, buckets, hands, history
<1> QED
  BY <1>1, <1>2, <1>3, ApplicationStructure, CallStructure DEF Next

\* At the start no task exists and no lock is held.
LEMMA InitStructure == Init => Structure
<1> SUFFICES ASSUME Init PROVE Structure
  OBVIOUS
<1> USE DEF Init
<1>1. Ids /\ GroupKnown
  BY DEF Ids, GroupKnown, Tasks
<1>2. BucketsHold
  BY DEF BucketsHold, Levels, NON_SIGNIFICANT
<1>3. CursorHolds /\ TakenInWait
  BY DEF CursorHolds, TakenInWait, Dealing, Taken
<1>4. QueuesHold /\ HandsHold /\ OutSomewhere
  BY DEF QueuesHold, HandsHold, OutSomewhere, Working
<1>5. WorkerLocks /\ MainLocks /\ FirstWait /\ Unborn
  BY DEF WorkerLocks, MainLocks, FirstWait, Unborn, Dealing, InWait
<1> QED
  BY <1>1, <1>2, <1>3, <1>4, <1>5 DEF Structure

=============================================================================
