----------------------------- MODULE RuntimeInv ----------------------------
(***************************************************************************)
(* The inductive invariant of Runtime: where every task is, who holds      *)
(* every lock, and what executing_num counts.                              *)
(***************************************************************************)
EXTENDS Runtime

\* The stages of a task that has been taken out of its bucket by wait_group.
Taken == {"skipped", "queued", "held", "finished"}
Out   == {"queued", "held"}

\* wait_group is in its loops and has the lock of its group.
Dealing == mainPc \in {"select", "count"}

\* Between new_task's id and the tasks that exist there is no gap.
Ids == \A t \in Tasks : stage[t] = "unborn" <=> t >= id

\* Exactly the tasks that were pushed to a group have one.
GroupKnown ==
  \A t \in Tasks : my_group[t] = NULL <=>
     stage[t] \in {"unborn", "made", "ungrouped"}

\* A bucket holds tasks of its group, and no task twice.
BucketsHold ==
  \A g \in Groups : \A l \in Levels : \A n \in 1 .. Len(pending_q[g][l]) :
     /\ my_group[pending_q[g][l][n]] = g
     /\ \A m \in Levels : \A j \in 1 .. Len(pending_q[g][m]) :
           pending_q[g][m][j] = pending_q[g][l][n] => m = l /\ j = n

\* wait_group has not come to position n of bucket l yet.
Ahead(l, n) == \/ l < sig
               \/ l = sig /\ n > i
               \/ l = sig /\ n = i /\ mainPc = "select"

\* What wait_group still has to go through is pending.
CursorHolds ==
  /\ Dealing => \A l \in Levels : \A n \in 1 .. Len(pending_q[cur][l]) :
        Ahead(l, n) => stage[pending_q[cur][l][n]] = "pending"
  /\ mainPc = "count" => /\ i <= Len(pending_q[cur][sig])
                         /\ stage[Here] \in Out

\* Tasks are taken out of their buckets only in a wait_group of their group.
TakenInWait ==
  \A t \in Tasks : stage[t] \in Taken =>
     my_group[t] \in waited \/ (mainPc \in InWait /\ my_group[t] = cur)

\* A task that is out is in one place, and what is somewhere is out.
QueuesHold ==
  \A w \in Workers : \A n \in 1 .. Len(work_queue[w]) :
     /\ stage[work_queue[w][n]] = "queued"
     /\ \A v \in Workers : \A m \in 1 .. Len(work_queue[v]) :
           work_queue[v][m] = work_queue[w][n] => v = w /\ m = n

HandsHold ==
  \A w \in Workers : workerPc[w] \in Working =>
     /\ job[w] \in Tasks
     /\ stage[job[w]] = "held"
     /\ \A v \in Workers : workerPc[v] \in Working /\ job[v] = job[w] => v = w

OutSomewhere ==
  \A t \in Tasks : /\ stage[t] = "queued" => Queued(t)
                   /\ stage[t] = "held" => Held(t)

\* The locks, seen from the workers and from the main application.
WorkerLocks ==
  /\ \A w \in Workers : workerPc[w] \in {"countdown", "unlock"} =>
        /\ job[w] \in Tasks
        /\ my_group[job[w]] \in Groups
        /\ lock[my_group[job[w]]] = w
  /\ \A g \in Groups : \A w \in Workers : lock[g] = w =>
        workerPc[w] \in {"countdown", "unlock"} /\ my_group[job[w]] = g

MainLocks ==
  \A g \in Groups : lock[g] = MAIN <=> g \in waited \/ (Dealing /\ cur = g)

\* A group that is being waited for has not been waited for before.
FirstWait == mainPc \in InWait => cur \notin waited

\* The workers that init_system has still to create.
Unborn == mainPc = "init" => \A w \in Workers : w >= k => workerPc[w] = "unborn"

Structure ==
  /\ Ids
  /\ GroupKnown
  /\ BucketsHold
  /\ CursorHolds
  /\ TakenInWait
  /\ QueuesHold
  /\ HandsHold
  /\ OutSomewhere
  /\ WorkerLocks
  /\ MainLocks
  /\ FirstWait
  /\ Unborn

\* InFlight, told by the stages alone.
OutOf(g) == {t \in Members(g) : stage[t] \in Out}

\* The tasks that are in executing_num.
Counted(g) == OutOf(g) \ Uncounted

(***************************************************************************)
(* The inductive invariant.  What executing_num counts cannot be shown     *)
(* without knowing where every task is: a task is counted once (group.c:158*)
(* and 185), by the one worker that has it, under the lock of its group.   *)
(***************************************************************************)
IInv == TypeOK /\ Structure /\ CountExact

\* With no spurious wakeup the main application is woken after the last task,
\* and no task of a group comes out again once a wait for it has returned.
AllIn ==
  /\ mainPc = "awake" => Counted(cur) = {}
  /\ \A g \in waited : Counted(g) = {}

\* What has been executed for a task follows from where it is.
Logged ==
  /\ \A t \in Tasks :
        /\ stage[t] \notin {"held", "finished"} => ran[t] = << >>
        /\ stage[t] = "skipped" => Due(t) = << >>
        /\ stage[t] = "finished" => ran[t] = Due(t)
  /\ \A w \in Workers :
        /\ workerPc[w] = "run" => /\ ran[job[w]] = << >>
                                 /\ execution[w] = Selected(job[w])
        /\ workerPc[w] \in {"sync", "countdown"} => ran[job[w]] = Due(job[w])

\* A worker leaves main_acc only after shutdown_system was called.
Stopped == {"stop", "join", "down", "aborted"}

StopsLast ==
  \A w \in Workers :
     /\ workerPc[w] = "exit" => mainPc \in Stopped
     /\ workerPc[w] # "unborn" /\ mainPc \notin Stopped => running[w]

\* A task that was pushed to a group is in a bucket of it.
InSomeBucket ==
  \A t \in Tasks : my_group[t] # NULL => \E l \in Levels : InBucket(t, l)

\* The tasks of a group are in the queues in the order of their buckets, and
\* wait_group has not yet come to a bucket below those it has dealt from.
Sorted ==
  \A w \in Workers : \A m, n \in 1 .. Len(work_queue[w]) :
     LET t == work_queue[w][m]
         u == work_queue[w][n]
     IN  m < n /\ my_group[t] = my_group[u] =>
           \A a, b \in Levels : InBucket(t, a) /\ InBucket(u, b) => a >= b

DealtAbove ==
  Dealing => \A w \in Workers : \A n \in 1 .. Len(work_queue[w]) :
     my_group[work_queue[w][n]] = cur =>
       \A l \in Levels : InBucket(work_queue[w][n], l) => l >= sig

Ordered == InSomeBucket /\ Sorted /\ DealtAbove

\* Until wait_group decides on it a task has the significance of its bucket.
AsPushed ==
  \A t \in Tasks : \A l \in Levels :
     stage[t] = "pending" /\ InBucket(t, l) => significance[t] = l

PassedTaken ==
  Dealing => \A l \in Levels : \A n \in 1 .. Len(pending_q[cur][l]) :
     ~ Ahead(l, n) => stage[pending_q[cur][l][n]] \in Taken

\* The first task that is not made significant is so for want of quota.
QuotaUsed ==
  mainPc \in InWait => \A u \in Members(cur) : \A l \in Levels :
     /\ Undecided(l) /\ InBucket(u, l)
     /\ stage[u] \in Taken /\ significance[u] # SIGNIFICANT
     => current >= goal

HigherFirst ==
  mainPc \in InWait => \A t, u \in Members(cur) : \A l, m \in Levels :
     /\ Undecided(l) /\ InBucket(t, l) /\ significance[t] = SIGNIFICANT
     /\ Undecided(m) /\ InBucket(u, m) /\ m > l
     => significance[u] = SIGNIFICANT

Chosen == AsPushed /\ PassedTaken /\ QuotaUsed /\ HigherFirst

\* The tasks that wait_group gave to a worker, and those of g it has counted.
Dispatched == {"queued", "held", "finished"}
CountedOf(g) == {t \in Members(g) : stage[t] \in Dispatched} \ Uncounted

\* wait_group has decided on every task that it has taken, and drops those
\* that have nothing to execute.
Decided ==
  \A t \in Tasks :
     /\ stage[t] \in Taken => significance[t] \in {NON_SIGNIFICANT, SIGNIFICANT}
     /\ stage[t] \in Dispatched =>
          significance[t] = SIGNIFICANT \/ "approx" \in versions[t]

AllTaken == DealtOut => \A t \in Members(cur) : stage[t] \in Taken

\* The worker index goes round: those up to it are one task ahead.
Unplaced == \A t \in Tasks : stage[t] \notin Dispatched => placed[t] = NULL

RoundRobin ==
  mainPc \in InWait => \E n \in 0 .. MaxTasks : \A w \in Workers :
     Cardinality(Dealt(w)) = IF w \in 1 .. worker THEN n + 1 ELSE n

\* What the counters of a group count.
TotalCounts == \A g \in Groups : total[g] = Cardinality(Members(g))

StatsCount ==
  \A g \in Groups :
     /\ total_sig_tasks[g] =
          Cardinality({t \in CountedOf(g) : significance[t] = SIGNIFICANT})
     /\ total_non_sig_tasks[g] =
          Cardinality({t \in CountedOf(g) : significance[t] # SIGNIFICANT})

\* Of the tasks that left the choice to the runtime current are decided, and
\* the first ones, as long as there is quota, are significant.
GoalAsked ==
  mainPc \in InWait => /\ ratio[cur] \in Ratios
                       /\ goal \in Goals(total[cur], ratio[cur])

QuotaCounts ==
  mainPc \in InWait =>
     /\ current = Cardinality({t \in Middling : stage[t] \in Taken})
     /\ Cardinality(Promoted) = IF current < goal THEN current ELSE goal

Tallied ==
  /\ Decided
  /\ AllTaken
  /\ Unplaced
  /\ RoundRobin
  /\ TotalCounts
  /\ StatsCount
  /\ GoalAsked
  /\ QuotaCounts

=============================================================================
