------------------------------ MODULE Runtime ------------------------------
(***************************************************************************)
(* The task runtime: group.c, task.c, accelerator.c and coordinator.c.     *)
(*                                                                         *)
(* One application thread, which wait_group calls the main application,    *)
(* creates tasks, pushes them to named groups and waits for a group.       *)
(* wait_group decides which tasks run their exact and which their          *)
(* approximate function, deals them round-robin to the workers' queues and *)
(* sleeps on the group's condition variable.  A worker polls its queue,    *)
(* runs a task and counts the group's executing_num down; the one that     *)
(* reaches zero signals.                                                   *)
(*                                                                         *)
(* A work queue is the first-in first-out queue that queue.c is shown to   *)
(* implement in WorkQueue.                                                 *)
(***************************************************************************)
EXTENDS Integers, Sequences, FiniteSets, Floats

CONSTANTS
  NumWorkers,       \* the argument of init_system
  MaxTasks,         \* bound: how often new_task is called
  Groups,           \* the names a group may have
  SIGNIFICANT,      \* the highest significance (100 in the code)
  SigChoices,       \* the significances new_task may be given
  VersionChoices,   \* the sets of functions a task may come with
  RatioUnit,        \* ratios are multiples of 1 / RatioUnit, floats all
  Ratios,           \* the multiples wait_group may be given
  UINT_MAX,         \* the largest unsigned int
  ReuseGroups,      \* may the application use a group again after a wait?
  SpuriousWakeups,  \* may pthread_cond_wait return without a signal?
  FREE, MAIN,       \* the state of a lock nobody holds, the main application
  NULL

NON_SIGNIFICANT == 0
Levels   == NON_SIGNIFICANT .. SIGNIFICANT
Versions == {"exact", "approx"}     \* execution and execution_nonsig
Workers  == 0 .. NumWorkers - 1
Tasks    == 0 .. MaxTasks - 1

ASSUME RuntimeAssumption ==
  /\ NumWorkers \in Nat \ {0}
  /\ MaxTasks \in Nat
  /\ SIGNIFICANT \in Nat \ {0}
  /\ SigChoices \subseteq Levels
  /\ VersionChoices \subseteq SUBSET Versions
  /\ RatioUnit \in Nat \ {0}
  /\ Ratios \subseteq 0 .. RatioUnit
  /\ UINT_MAX \in Nat /\ MaxTasks <= UINT_MAX
  /\ ReuseGroups \in BOOLEAN /\ SpuriousWakeups \in BOOLEAN
  /\ FREE \notin Workers /\ MAIN \notin Workers /\ FREE # MAIN
  /\ NULL \notin Tasks /\ NULL \notin Versions
  /\ NULL \notin Groups /\ NULL \notin Workers

\* The argument ratio is a float.  The largest exponent is left to its
\* products with the number of tasks.
ASSUME RatioAssumption ==
  /\ RatioUnit \in {2^e : e \in 0 .. LargestExponent - 1}
  /\ \A r \in Ratios : IsFloat(r)

VARIABLES
  mainPc,           \* what the main application is doing
  k,                \* the loop variable of init_system and shutdown_system
  cur, goal, current, worker, sig, i,    \* the locals of wait_group
  id,               \* new_task's static id
  significance, versions, my_group,      \* fields of every task
  pending_tasks,    \* the pool of tasks pushed without a group
  groups,           \* the names of the groups created so far
  pending_q, total, executing_num,       \* fields of every group
  ratio, total_sig_tasks, total_non_sig_tasks, lock,
  running, work_queue,                   \* fields of every worker
  workerPc, job, execution,
  stage,            \* history: how far a task has come
  ran,              \* history: the functions a task has executed
  placed,           \* history: the worker a task was dealt to
  waited            \* history: the groups some wait_group has returned for

MainSteps == {"init", "user", "lock", "select", "count", "asleep", "awake",
              "stop", "join", "down", "aborted"}
InWait    == {"select", "count", "asleep", "awake"}
WorkerSteps == {"unborn", "loop", "pop", "recheck", "run", "sync",
                "countdown", "unlock", "exit"}
Working   == {"run", "sync", "countdown"}
Stages    == {"unborn", "made", "ungrouped", "pending", "skipped", "queued",
              "held", "finished"}

locals  == <<cur, goal, current, worker, sig, i>>
tasks   == <<id, significance, versions, my_group, pending_tasks>>
buckets == <<groups, pending_q, total>>
counts  == <<executing_num, ratio, total_sig_tasks, total_non_sig_tasks>>
hands   == <<workerPc, job, execution>>
history == <<stage, ran, placed, waited>>
vars == <<mainPc, k, locals, tasks, buckets, counts, lock, running,
          work_queue, hands, history>>

Init ==
  /\ mainPc = "init"
  /\ k = 0
  /\ cur = NULL
  /\ goal = 0
  /\ current = 0
  /\ worker = 0
  /\ sig = SIGNIFICANT
  /\ i = 1
  /\ id = 0
  /\ significance = [t \in Tasks |-> NON_SIGNIFICANT]
  /\ versions = [t \in Tasks |-> {}]
  /\ my_group = [t \in Tasks |-> NULL]
  /\ pending_tasks = << >>
  /\ groups = {}
  /\ pending_q = [g \in Groups |-> [l \in Levels |-> << >>]]
  /\ total = [g \in Groups |-> 0]
  /\ executing_num = [g \in Groups |-> 0]
  /\ ratio = [g \in Groups |-> 0]
  /\ total_sig_tasks = [g \in Groups |-> 0]
  /\ total_non_sig_tasks = [g \in Groups |-> 0]
  /\ lock = [g \in Groups |-> FREE]
  /\ running = [w \in Workers |-> FALSE]
  /\ work_queue = [w \in Workers |-> << >>]
  /\ workerPc = [w \in Workers |-> "unborn"]
  /\ job = [w \in Workers |-> NULL]
  /\ execution = [w \in Workers |-> NULL]
  /\ stage = [t \in Tasks |-> "unborn"]
  /\ ran = [t \in Tasks |-> << >>]
  /\ placed = [t \in Tasks |-> NULL]
  /\ waited = {}

-----------------------------------------------------------------------------
(***************************************************************************)
(* init_system creates the workers one after the other; each starts to     *)
(* poll its queue as soon as it is created.                                *)
(***************************************************************************)
StartWorker ==
  /\ mainPc = "init"
  /\ running' = [running EXCEPT ![k] = TRUE]
  /\ workerPc' = [workerPc EXCEPT ![k] = "loop"]
  /\ IF k + 1 < NumWorkers
     THEN k' = k + 1 /\ UNCHANGED mainPc
     ELSE k' = 0 /\ mainPc' = "user"
  /\ UNCHANGED <<locals, tasks, buckets, counts, lock, work_queue, job,
                 execution, history>>

(***************************************************************************)
(* new_task, called for one task at a time: the application pushes a task  *)
(* before it makes the next one.                                           *)
(***************************************************************************)
NewTask(s, v) ==
  /\ mainPc = "user"
  /\ id < MaxTasks
  /\ \A t \in Tasks : stage[t] # "made"
  /\ id' = id + 1
  /\ significance' = [significance EXCEPT ![id] = s]
  /\ versions' = [versions EXCEPT ![id] = v]
  /\ stage' = [stage EXCEPT ![id] = "made"]
  /\ UNCHANGED <<mainPc, k, locals, my_group, pending_tasks, buckets, counts,
                 lock, running, work_queue, hands, ran, placed, waited>>

\* push_task and, in it, create_group and add_task_to_pending_queue
PushTask(t, g) ==
  /\ mainPc = "user"
  /\ stage[t] = "made"
  /\ g \notin waited \/ ReuseGroups
  /\ groups' = groups \cup {g}
  /\ my_group' = [my_group EXCEPT ![t] = g]
  /\ total' = [total EXCEPT ![g] = @ + 1]
  /\ pending_q' = [pending_q EXCEPT ![g][significance[t]] = Append(@, t)]
  /\ stage' = [stage EXCEPT ![t] = "pending"]
  /\ UNCHANGED <<mainPc, k, locals, id, significance, versions,
                 pending_tasks, counts, lock, running, work_queue, hands,
                 ran, placed, waited>>

\* push_task with a NULL name: nothing takes a task out of this pool again.
PushUngrouped(t) ==
  /\ mainPc = "user"
  /\ stage[t] = "made"
  /\ pending_tasks' = <<t>> \o pending_tasks
  /\ stage' = [stage EXCEPT ![t] = "ungrouped"]
  /\ UNCHANGED <<mainPc, k, locals, id, significance, versions, my_group,
                 buckets, counts, lock, running, work_queue, hands, ran,
                 placed, waited>>

-----------------------------------------------------------------------------
\* wait_group up to the lock
WaitGroup(g) ==
  /\ mainPc = "user"
  /\ g \in groups
  /\ g \notin waited \/ ReuseGroups
  /\ cur' = g
  /\ mainPc' = "lock"
  /\ UNCHANGED <<k, goal, current, worker, sig, i, tasks, buckets, counts,
                 lock, running, work_queue, hands, history>>

\* assert(0): there is no such group.
WaitAborts(g) ==
  /\ mainPc = "user"
  /\ g \notin groups
  /\ mainPc' = "aborted"
  /\ UNCHANGED <<k, locals, tasks, buckets, counts, lock, running,
                 work_queue, hands, history>>

\* What n * r may be, an unsigned times a float, made an unsigned again.
\* Both n and the product are rounded to a float.
Goals(n, r) ==
  {p \div RatioUnit : p \in UNION {Rounded(m * r) : m \in Rounded(n)}}

\* The body of wait_group from line 120 up to its loops.
BeginWait(r) ==
  /\ mainPc = "lock"
  /\ lock' = [lock EXCEPT ![cur] = MAIN]
  /\ ratio' = [ratio EXCEPT ![cur] = r]
  /\ goal' \in Goals(total[cur], r)
  /\ current' = 0
  /\ worker' = 0
  /\ sig' = SIGNIFICANT
  /\ i' = 1
  /\ executing_num' = [executing_num EXCEPT ![cur] = 0]
  /\ mainPc' = "select"
  /\ UNCHANGED <<k, cur, tasks, buckets, total_sig_tasks,
                 total_non_sig_tasks, running, work_queue, hands, history>>

LockGroup(r) == mainPc = "lock" /\ lock[cur] = FREE /\ BeginWait(r)

\* There is a next task in the bucket: pending_q[sig][i].
AtTask == mainPc = "select" /\ i <= Len(pending_q[cur][sig])
Here == pending_q[cur][sig][i]

Undecided(s) == s \notin {SIGNIFICANT, NON_SIGNIFICANT}

\* The significance the loop leaves t with, chosen being the test it makes.
DecisionBy(t, chosen) ==
  IF Undecided(significance[t])
  THEN IF chosen THEN SIGNIFICANT ELSE NON_SIGNIFICANT
  ELSE significance[t]

\* Faulty variants: one task too many; the first ones are non-significant.
DecisionOffByOne(t) == DecisionBy(t, current <= goal)
DecisionInverted(t) == DecisionBy(t, current >= goal)

Decision(t) == DecisionBy(t, current < goal)

Decide(t) ==
  /\ significance' = [significance EXCEPT ![t] = Decision(t)]
  /\ current' = IF Undecided(significance[t]) THEN current + 1 ELSE current

\* A non-significant task has nothing to execute.
Droppable(t) == /\ Decision(t) = NON_SIGNIFICANT
                /\ "approx" \notin versions[t]

\* The continue of the inner loop.
SkipTask ==
  /\ AtTask
  /\ Droppable(Here)
  /\ Decide(Here)
  /\ i' = i + 1
  /\ stage' = [stage EXCEPT ![Here] = "skipped"]
  /\ UNCHANGED <<mainPc, k, cur, goal, worker, sig, id, versions, my_group,
                 pending_tasks, buckets, counts, lock, running, work_queue,
                 hands, ran, placed, waited>>

\* Faulty variant: the last worker is left out.
NextWorkerShort == (worker + 1) % (NumWorkers - 1)

NextWorker == (worker + 1) % NumWorkers

\* The task goes to the next worker, whose queue it turns into queue.
Deal(queue) ==
  /\ AtTask
  /\ ~ Droppable(Here)
  /\ Decide(Here)
  /\ worker' = NextWorker
  /\ work_queue' = [work_queue EXCEPT ![NextWorker] = queue]
  /\ mainPc' = "count"
  /\ stage' = [stage EXCEPT ![Here] = "queued"]
  /\ placed' = [placed EXCEPT ![Here] = NextWorker]
  /\ UNCHANGED <<k, cur, goal, sig, i, id, versions, my_group, pending_tasks,
                 buckets, counts, lock, running, hands, ran, waited>>

\* Faulty variant: the task overtakes those that are queued.
DispatchAtHead == Deal(<<Here>> \o work_queue[NextWorker])

DispatchTask == Deal(Append(work_queue[NextWorker], Here))

Increment(n) == IF n = UINT_MAX THEN 0 ELSE n + 1
Decrement(n) == IF n = 0 THEN UINT_MAX ELSE n - 1

\* The task is counted only after it has gone to the queue.
Count(significant) ==
  /\ mainPc = "count"
  /\ executing_num' = [executing_num EXCEPT ![cur] = Increment(@)]
  /\ IF significant
     THEN /\ total_sig_tasks' = [total_sig_tasks EXCEPT ![cur] = Increment(@)]
          /\ UNCHANGED total_non_sig_tasks
     ELSE /\ total_non_sig_tasks' =
                [total_non_sig_tasks EXCEPT ![cur] = Increment(@)]
          /\ UNCHANGED total_sig_tasks
  /\ i' = i + 1
  /\ mainPc' = "select"
  /\ UNCHANGED <<k, cur, goal, current, worker, sig, tasks, buckets, ratio,
                 lock, running, work_queue, hands, history>>

\* Faulty variant: the statistics go by the bucket, not by the decision.
CountByBucket == Count(sig = SIGNIFICANT)

CountTask == Count(significance[Here] = SIGNIFICANT)

\* Faulty variant: the inner loop may end one task short.
BucketDoneShort == mainPc = "select" /\ i >= Len(pending_q[cur][sig])

BucketDone == mainPc = "select" /\ i > Len(pending_q[cur][sig])

\* sig-- of the outer loop
LowerLevel ==
  /\ BucketDone
  /\ sig' = sig - 1
  /\ i' = 1
  /\ UNCHANGED <<mainPc, k, cur, goal, current, worker, tasks, buckets,
                 counts, lock, running, work_queue, hands, history>>

NextLevel == sig > NON_SIGNIFICANT /\ LowerLevel

\* After the loops: release the lock and go on at pc.
EndLoops(pc) ==
  /\ BucketDone
  /\ sig = NON_SIGNIFICANT
  /\ lock' = [lock EXCEPT ![cur] = FREE]
  /\ mainPc' = pc
  /\ UNCHANGED <<k, locals, tasks, buckets, counts, running, work_queue,
                 hands, history>>

\* Faulty variant: nobody waits.
CondWaitLeftOut == EndLoops("awake")

\* pthread_cond_wait, whatever executing_num is
CondWait == EndLoops("asleep")

SpuriousWakeup ==
  /\ SpuriousWakeups
  /\ mainPc = "asleep"
  /\ mainPc' = "awake"
  /\ UNCHANGED <<k, locals, tasks, buckets, counts, lock, running,
                 work_queue, hands, history>>

\* Once woken, take the lock again and return; nothing releases it.
WaitReturn ==
  /\ mainPc = "awake"
  /\ lock[cur] = FREE
  /\ lock' = [lock EXCEPT ![cur] = MAIN]
  /\ mainPc' = "user"
  /\ waited' = waited \cup {cur}
  /\ UNCHANGED <<k, locals, tasks, buckets, counts, running, work_queue,
                 hands, stage, ran, placed>>

-----------------------------------------------------------------------------
\* shutdown_system
Shutdown ==
  /\ mainPc = "user"
  /\ mainPc' = "stop"
  /\ UNCHANGED <<k, locals, tasks, buckets, counts, lock, running,
                 work_queue, hands, history>>

StopWorker ==
  /\ mainPc = "stop"
  /\ running' = [running EXCEPT ![k] = FALSE]
  /\ IF k + 1 < NumWorkers
     THEN k' = k + 1 /\ UNCHANGED mainPc
     ELSE k' = 0 /\ mainPc' = "join"
  /\ UNCHANGED <<locals, tasks, buckets, counts, lock, work_queue, hands,
                 history>>

\* The threads are detached: pthread_join does not wait for them.
JoinWorker ==
  /\ mainPc = "join"
  /\ IF k + 1 < NumWorkers
     THEN k' = k + 1 /\ UNCHANGED mainPc
     ELSE k' = 0 /\ mainPc' = "down"
  /\ UNCHANGED <<locals, tasks, buckets, counts, lock, running, work_queue,
                 hands, history>>

\* Joining a detached thread that is gone may also bring the program down.
JoinCrashes ==
  /\ mainPc = "join"
  /\ workerPc[k] = "exit"
  /\ mainPc' = "aborted"
  /\ UNCHANGED <<k, locals, tasks, buckets, counts, lock, running,
                 work_queue, hands, history>>

-----------------------------------------------------------------------------
\* A loop condition of w at step pc: go on with a pop, or leave main_acc.
LoopTest(w, pc, on) ==
  /\ workerPc[w] = pc
  /\ workerPc' = [workerPc EXCEPT ![w] = IF on THEN "pop" ELSE "exit"]
  /\ UNCHANGED <<mainPc, k, locals, tasks, buckets, counts, lock, running,
                 work_queue, job, execution, history>>

\* while (whoami->running) in main_acc
CheckRunning(w) == LoopTest(w, "loop", running[w])

\* get_job: queue_pop has answered "empty".
PopNothing(w) ==
  /\ workerPc[w] = "pop"
  /\ work_queue[w] = << >>
  /\ job' = [job EXCEPT ![w] = NULL]
  /\ workerPc' = [workerPc EXCEPT ![w] = "recheck"]
  /\ UNCHANGED <<mainPc, k, locals, tasks, buckets, counts, lock, running,
                 work_queue, execution, history>>

\* Faulty variants: an empty queue ends the worker; running is not read.
RecheckGivesUp(w) == LoopTest(w, "recheck", FALSE)
RecheckForever(w) == LoopTest(w, "recheck", TRUE)

\* The while condition of get_job; without a task main_acc leaves its loop.
Recheck(w) == LoopTest(w, "recheck", running[w])

OrNull(t, v) == IF v \in versions[t] THEN v ELSE NULL

\* Faulty variant: the two functions are mixed up.
SelectedSwapped(t) ==
  OrNull(t, IF significance[t] = NON_SIGNIFICANT THEN "exact" ELSE "approx")

\* The function of t that get_job selects, NULL when t does not have it.
Selected(t) ==
  OrNull(t, IF significance[t] = NON_SIGNIFICANT THEN "approx" ELSE "exact")

PopTask(w) ==
  /\ workerPc[w] = "pop"
  /\ work_queue[w] # << >>
  /\ job' = [job EXCEPT ![w] = Head(work_queue[w])]
  /\ execution' = [execution EXCEPT ![w] = Selected(Head(work_queue[w]))]
  /\ work_queue' = [work_queue EXCEPT ![w] = Tail(@)]
  /\ workerPc' = [workerPc EXCEPT ![w] = "run"]
  /\ stage' = [stage EXCEPT ![Head(work_queue[w])] = "held"]
  /\ UNCHANGED <<mainPc, k, locals, tasks, buckets, counts, lock, running,
                 ran, placed, waited>>

\* whoami->execution(whoami->execution_args), unless it is NULL
RunTask(w) ==
  /\ workerPc[w] = "run"
  /\ ran' = IF execution[w] = NULL THEN ran
            ELSE [ran EXCEPT ![job[w]] = Append(@, execution[w])]
  /\ workerPc' = [workerPc EXCEPT ![w] = "sync"]
  /\ UNCHANGED <<mainPc, k, locals, tasks, buckets, counts, lock, running,
                 work_queue, job, execution, stage, placed, waited>>

\* finished_task calls explicit_sync: lock, count down and signal, unlock.
TakeLock(w) ==
  /\ workerPc[w] = "sync"
  /\ lock' = [lock EXCEPT ![my_group[job[w]]] = w]
  /\ workerPc' = [workerPc EXCEPT ![w] = "countdown"]
  /\ UNCHANGED <<mainPc, k, locals, tasks, buckets, counts, running,
                 work_queue, job, execution, history>>

EnterSync(w) ==
  workerPc[w] = "sync" /\ lock[my_group[job[w]]] = FREE /\ TakeLock(w)

\* executing_num--, and pthread_cond_signal if signal; it wakes a waiter only.
CountDownAnd(w, signal) ==
  LET g == my_group[job[w]]
  IN  /\ workerPc[w] = "countdown"
      /\ executing_num' = [executing_num EXCEPT ![g] = Decrement(@)]
      /\ mainPc' = IF signal /\ mainPc = "asleep" /\ cur = g
                   THEN "awake" ELSE mainPc
      /\ workerPc' = [workerPc EXCEPT ![w] = "unlock"]
      /\ stage' = [stage EXCEPT ![job[w]] = "finished"]
      /\ UNCHANGED <<k, locals, tasks, buckets, ratio, total_sig_tasks,
                     total_non_sig_tasks, lock, running, work_queue, job,
                     execution, ran, placed, waited>>

\* Faulty variants: every thread signals; the test precedes the decrement.
SignalAlways(w) == CountDownAnd(w, TRUE)
TestBeforeCountDown(w) ==
  CountDownAnd(w, executing_num[my_group[job[w]]] = 0)

CountDown(w) ==
  CountDownAnd(w, Decrement(executing_num[my_group[job[w]]]) = 0)

LeaveSync(w) ==
  /\ workerPc[w] = "unlock"
  /\ lock' = [lock EXCEPT ![my_group[job[w]]] = FREE]
  /\ workerPc' = [workerPc EXCEPT ![w] = "loop"]
  /\ UNCHANGED <<mainPc, k, locals, tasks, buckets, counts, running,
                 work_queue, job, execution, history>>

-----------------------------------------------------------------------------
\* What the application may ask for when no call of its own is under way.
Application ==
  \/ \E s \in SigChoices, v \in VersionChoices : NewTask(s, v)
  \/ \E t \in Tasks, g \in Groups : PushTask(t, g)
  \/ \E t \in Tasks : PushUngrouped(t)
  \/ \E g \in Groups : WaitGroup(g) \/ WaitAborts(g)
  \/ Shutdown

\* The steps of init_system, wait_group and shutdown_system.
Call ==
  \/ StartWorker
  \/ \E r \in Ratios : LockGroup(r)
  \/ SkipTask \/ DispatchTask \/ CountTask \/ NextLevel \/ CondWait
  \/ WaitReturn
  \/ StopWorker \/ JoinWorker \/ JoinCrashes

Worker(w) ==
  /\ mainPc # "aborted"
  /\ \/ CheckRunning(w) \/ PopNothing(w) \/ Recheck(w) \/ PopTask(w)
     \/ RunTask(w) \/ EnterSync(w) \/ CountDown(w) \/ LeaveSync(w)

Next ==
  \/ Application
  \/ Call
  \/ SpuriousWakeup
  \/ \E w \in Workers : Worker(w)

Spec == Init /\ [][Next]_vars

\* Threads run and task functions return; the application need not call.
Fairness == WF_vars(Call) /\ \A w \in Workers : WF_vars(Worker(w))

FairSpec == Spec /\ Fairness

-----------------------------------------------------------------------------
MainType ==
  /\ mainPc \in MainSteps
  /\ k \in Workers
  /\ cur \in Groups \cup {NULL}
  /\ mainPc \in {"lock"} \cup InWait => cur \in groups
  /\ goal \in Nat
  /\ current \in Nat
  /\ worker \in Workers
  /\ sig \in Levels
  /\ i \in Nat \ {0}

TaskType ==
  /\ id \in 0 .. MaxTasks
  /\ significance \in [Tasks -> Levels]
  /\ versions \in [Tasks -> SUBSET Versions]
  /\ my_group \in [Tasks -> groups \cup {NULL}]
  /\ pending_tasks \in Seq(Tasks)

GroupType ==
  /\ groups \in SUBSET Groups
  /\ pending_q \in [Groups -> [Levels -> Seq(Tasks)]]
  /\ total \in [Groups -> Nat]
  /\ executing_num \in [Groups -> 0 .. UINT_MAX]
  /\ ratio \in [Groups -> Ratios \cup {0}]
  /\ total_sig_tasks \in [Groups -> 0 .. UINT_MAX]
  /\ total_non_sig_tasks \in [Groups -> 0 .. UINT_MAX]
  /\ lock \in [Groups -> {FREE, MAIN} \cup Workers]

WorkerType ==
  /\ running \in [Workers -> BOOLEAN]
  /\ work_queue \in [Workers -> Seq(Tasks)]
  /\ workerPc \in [Workers -> WorkerSteps]
  /\ job \in [Workers -> Tasks \cup {NULL}]
  /\ execution \in [Workers -> Versions \cup {NULL}]

HistoryType ==
  /\ stage \in [Tasks -> Stages]
  /\ ran \in [Tasks -> Seq(Versions)]
  /\ placed \in [Tasks -> Workers \cup {NULL}]
  /\ waited \in SUBSET groups

\* Every variable has its type: no counter leaves the unsigned integers.
TypeOK == MainType /\ TaskType /\ GroupType /\ WorkerType /\ HistoryType

Members(g) == {t \in Tasks : my_group[t] = g}

Queued(t) ==
  \E w \in Workers : \E n \in 1 .. Len(work_queue[w]) : work_queue[w][n] = t
Held(t) == \E w \in Workers : workerPc[w] \in Working /\ job[w] = t

\* The tasks of g in a queue or with a worker that has not counted it down.
InFlight(g) == {t \in Members(g) : Queued(t) \/ Held(t)}

\* The task that wait_group has pushed and not yet counted.
Uncounted == IF mainPc = "count" THEN {Here} ELSE {}

(***************************************************************************)
(* executing_num is what it is used as: the number of the group's tasks    *)
(* that are out, whatever the workers do while wait_group deals.  A worker *)
(* may finish a task before group.c:158 counts it; only the lock keeps it  *)
(* from counting down first and wrapping the unsigned counter around.      *)
(***************************************************************************)
CountExact ==
  \A g \in Groups : executing_num[g] = Cardinality(InFlight(g) \ Uncounted)

(***************************************************************************)
(* When wait_group has returned no task of its group is in a queue or with *)
(* a worker: the last thread wakes up the main application, group.c:184.   *)
(***************************************************************************)
Rendezvous == \A g \in waited : InFlight(g) = {}

\* What has to be executed for a task, once its significance is decided.
Due(t) ==
  IF significance[t] = NON_SIGNIFICANT
  THEN IF "approx" \in versions[t] THEN <<"approx">> ELSE << >>
  ELSE IF "exact" \in versions[t] THEN <<"exact">> ELSE << >>

(***************************************************************************)
(* No task is executed twice, or in the version that its significance does *)
(* not call for, even when wait_group returns early or is called again.    *)
(***************************************************************************)
RunsAsDecided == \A t \in Tasks : ran[t] \in {<< >>, Due(t)}

(***************************************************************************)
(* When wait_group goes on behind pthread_cond_wait, group.c:172, every    *)
(* task of its group has been executed, unless it has no function for its  *)
(* significance: none was overlooked, and none is still out.               *)
(***************************************************************************)
Served == mainPc = "awake" => \A t \in Members(cur) : ran[t] = Due(t)

\* The level of the bucket t was put in: the significance it came with.
InBucket(t, l) == LET q == pending_q[my_group[t]][l]
                  IN  \E n \in 1 .. Len(q) : q[n] = t
Bucket(t) == CHOOSE l \in Levels : InBucket(t, l)

DealtOut == mainPc \in {"asleep", "awake"}
Middling == {t \in Members(cur) : Undecided(Bucket(t))}
Promoted == {t \in Middling : significance[t] = SIGNIFICANT}

(***************************************************************************)
(* Of the tasks that left the choice to the runtime, as many become        *)
(* significant as the ratio asks for, or all of them when they are fewer:  *)
(* never too few, and too many only by the rounding of the product, which  *)
(* is at most one part in 2^PRECISION, of groups whose size is a float.    *)
(***************************************************************************)
Quota ==
  DealtOut /\ Cardinality(Members(cur)) <= 2^PRECISION =>
    LET asked == Cardinality(Members(cur)) * ratio[cur]
        got   == Cardinality(Promoted)
    IN  /\ got < Cardinality(Middling) => asked < (got + 1) * RatioUnit
        /\ got > 0 => (got * RatioUnit - asked) * 2^PRECISION <= asked

(***************************************************************************)
(* None becomes significant before one that came with a higher             *)
(* significance.                                                           *)
(***************************************************************************)
Priority ==
  DealtOut => \A t \in Promoted, u \in Middling :
                 Bucket(u) > Bucket(t) => u \in Promoted

(***************************************************************************)
(* The tasks of a wait are spread evenly: no worker is dealt two more than *)
(* another.                                                                *)
(***************************************************************************)
Dealt(w) == {t \in Members(cur) : placed[t] = w}

Balanced ==
  mainPc \in InWait =>
    \A v, w \in Workers : Cardinality(Dealt(v)) <= Cardinality(Dealt(w)) + 1

(***************************************************************************)
(* A worker takes the tasks it was dealt in one wait_group in the order of *)
(* their significance: none waits behind a less significant one.           *)
(***************************************************************************)
MostSignificantFirst ==
  \A w \in Workers : \A m, n \in 1 .. Len(work_queue[w]) :
     LET t == work_queue[w][m]
         u == work_queue[w][n]
     IN  m < n /\ my_group[t] = my_group[u] => Bucket(t) >= Bucket(u)

(***************************************************************************)
(* The counters wait_group prints when it returns are the numbers of tasks *)
(* executed exactly and approximately, if every task of the group has an   *)
(* exact function: a significant one without it is counted, not executed.  *)
(***************************************************************************)
RanAs(g, v) == {t \in Members(g) : ran[t] = <<v>>}

Statistics ==
  \A g \in waited :
    (\A t \in Members(g) : "exact" \in versions[t]) =>
      /\ total_sig_tasks[g] = Cardinality(RanAs(g, "exact"))
      /\ total_non_sig_tasks[g] = Cardinality(RanAs(g, "approx"))

(***************************************************************************)
(* A worker that has left main_acc leaves no task behind in its queue,     *)
(* although it may see running cleared between any two of its steps.       *)
(***************************************************************************)
NothingAbandoned ==
  \A w \in Workers : workerPc[w] = "exit" => work_queue[w] = << >>

(***************************************************************************)
(* wait_group returns once it has been called.  It needs a task that was   *)
(* not skipped: with none out, nobody signals.                             *)
(***************************************************************************)
WaitReturns == mainPc = "lock" ~> mainPc = "user"

WaitReturnsWithTasks ==
  mainPc = "asleep" /\ executing_num[cur] > 0 ~> mainPc = "user"

(***************************************************************************)
(* After shutdown_system every worker leaves its loop, wherever in it the  *)
(* clearing of running meets it.  The wait_groups before have returned, so *)
(* that no worker holds a task by then.                                    *)
(***************************************************************************)
WorkersStop == mainPc = "down" ~> \A w \in Workers : workerPc[w] = "exit"

(***************************************************************************)
(* No more tasks end up significant than the ratio asks for, unless more   *)
(* came so: the comment at group.c:137, "the first @ratio tasks will be    *)
(* set as significant".                                                    *)
(***************************************************************************)
SignificantShare ==
  LET preset == {t \in Members(cur) : Bucket(t) = SIGNIFICANT}
      chosen == {t \in Members(cur) : significance[t] = SIGNIFICANT}
  IN  DealtOut => \/ Cardinality(chosen) <= goal
                  \/ chosen = preset

(***************************************************************************)
(* The refinement: a group is forked when wait_group has the lock and      *)
(* joined when it returns.                                                 *)
(***************************************************************************)
Settled(t) == stage[t] \in {"queued", "held", "finished", "skipped"}

MembersOf == [g \in Groups |-> Members(g)]
LevelOf == [t \in Tasks |-> IF my_group[t] = NULL THEN NON_SIGNIFICANT
                            ELSE Bucket(t)]
OffersOf == [t \in Tasks |-> IF my_group[t] = NULL THEN {} ELSE versions[t]]
PhaseOf == [g \in Groups |->
  IF g \in waited THEN "joined"
  ELSE IF g = cur /\ mainPc \in InWait THEN "forked" ELSE "open"]
ShareOf == [g \in Groups |-> IF PhaseOf[g] = "forked" THEN goal ELSE 0]
ModeOf == [t \in Tasks |->
  IF ~ Settled(t) THEN "open"
  ELSE IF significance[t] = SIGNIFICANT THEN "exact" ELSE "approx"]

Abstract ==
  INSTANCE ForkJoin WITH
    Lowest <- NON_SIGNIFICANT, Highest <- SIGNIFICANT, Unit <- RatioUnit,
    members <- MembersOf, level <- LevelOf, offers <- OffersOf,
    phase <- PhaseOf, share <- ShareOf, mode <- ModeOf

\* The runtime implements the fork and join that the application sees.
ImplementsForkJoin == Abstract!Spec

=============================================================================
