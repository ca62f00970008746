# A verification project for the approximate task runtime

The repository is a small task-parallel runtime in C for *approximate*
computing: an application groups tasks under a name, gives each a significance
and up to two functions, an exact and an approximate one, and waits for a group
with a *ratio*, the share of tasks that are to run exactly.  This directory
models the runtime in TLA+, checks the models with TLC and proves theorems about
them with TLAPS.

The code is about a thousand lines in six files.  It is short, but it has a
lock-free queue, unsigned counters, a condition variable without a predicate, a
mutex that is never released and detached threads that are joined; and its TODO
file begins with a deadlock.

## 1. Inventory

| Component | Source | State | Operations | Hard about it |
|---|---|---|---|---|
| Work queue | `queue.c` | `queue_t` (head, tail), `element_t` (data, next) | `queue_make_element`, `queue_init`, `queue_push`, `queue_pop`, `queue_destroy` | every interleaving of four compare-and-swap loops; a push that is half done |
| Groups | `group.c` | `group_t`: buckets `pending_q[0..100]`, `total`, `executing_num`, statistics, lock, condition | `create_group`, `wait_group`, `explicit_sync`, `whoami` | counting tasks that already run, lost wakeups, who holds the lock |
| Tasks | `task.c` | `task_t`: id, functions, significance, group; the pool `pending_tasks` | `new_task`, `push_task`, `finished_task` | arrays that grow; a commented-out lock |
| Workers | `accelerator.c` | `info`: `running`, `execution`, `work_queue` | `main_acc`, `get_job` | `running` cleared between any two steps |
| Coordinator | `coordinator.c` | `my_threads`, `total_workers` | `init_system`, `shutdown_system` | workers start before the system is complete, and are joined although detached |
| Pools | `list.c` | a linked list with head, tail and a lock | `add_pool_head/tail`, `remove_element`, `delete_element`, `search`, `exec_on_elem`, `pop_first`, `empty_pool`, `delete_list` | boundary cases: first, last and only node; who may call at the same time |
| Dependencies | `dependencies.c` | - | - | not built, does not compile |
| Applications | `benchmarks/` | - | call `push_task`, `wait_group` | - |

How they interact: the application thread runs `new_task`, `push_task` and
`wait_group`; `push_task` finds or makes the group in the pool `groups` and puts
the task into the bucket of its significance.  `wait_group` locks the group,
goes through the buckets from the most significant down, decides the
significance of each undecided task, drops tasks with nothing to execute, deals
the others to the workers' queues and sleeps on the group's condition.  Each
worker polls its own queue, runs the function chosen by `get_job` and calls
`explicit_sync`, which counts `executing_num` down under the group's lock; the
worker that reaches zero signals.  `shutdown_system` clears every worker's
`running`.

What makes each component correct:

* work queue: a first-in first-out queue under every interleaving; pushes and
  pops return;
* groups: `executing_num` is exact; `wait_group` returns when, and only when,
  all tasks of the group that were dealt are done; the ratio is met, by the most
  significant tasks; the load is balanced;
* workers: every task that is popped runs once, in the decided version, and is
  counted down; nothing stays in a queue when a worker leaves;
* coordinator: workers leave after `shutdown_system`;
* pools: a list implements a sequence, without losing a node;
* tasks: a push is as good as an atomic addition to a bucket, whose array never
  overflows.

The hazards behind these, each at its line, are listed in `PROJECT.json`.

## 2. Modules

| Module | What it is |
|---|---|
| `FifoQueue` | abstract specification: an atomic first-in first-out queue |
| `WorkQueue` | `queue.c`, one step per access to shared memory |
| `QueueLife` | `WorkQueue` and then `queue_destroy`, one step per element freed |
| `WorkQueueProofs` | theorems about `WorkQueue` and `QueueLife`, among them that the first implements `FifoQueue` |
| `MCWorkQueue` | an instance of `QueueLife` for TLC |
| `List` | abstract specification: a sequence and the answers of its calls |
| `Pool` | `list.c`, node by node |
| `PoolProofs` | theorems about `Pool`, among them that it implements `List` |
| `MCPool` | an instance of `Pool` for TLC |
| `Buckets` | abstract specification: atomic addition to a bucket |
| `Pushing` | `new_task`, `push_task` and `create_group`, one step per access to memory that application threads share |
| `PushingProofs` | theorems about `Pushing`, among them that it implements `Buckets` |
| `MCPushing` | instances of `Pushing` for TLC |
| `ForkJoin` | abstract specification: what an application may expect of a group |
| `Floats` | the numbers a float can hold, and rounding to them |
| `Runtime` | `group.c`, `task.c`, `accelerator.c` and `coordinator.c`, with the work queues as sequences |
| `RuntimeInv` | the inductive invariant of `Runtime` and its extensions |
| `RuntimeStructure` | proofs: every step keeps the types, and tasks and locks where the invariant says |
| `RuntimeCount` | proofs: what `executing_num` counts, the rendezvous, and what is executed for a task |
| `RuntimeOrder` | proofs: the order of the queues, what a worker leaves behind, and which tasks are made significant |
| `RuntimeTallies` | proofs: the rounding of floats, the round robin, the quota, the statistics, and that every task is served |
| `RuntimeForkJoin` | proof: `Runtime` implements `ForkJoin` |
| `MCRuntime` | instances of `Runtime` for TLC |

`Runtime` composes the components below the application and takes each for what
its own module shows it to be.  Its queues are sequences with an atomic push
and pop, which is justified by the theorem `Implementation` of
`WorkQueueProofs`: `WorkQueue`, where a push or pop takes several steps,
implements `FifoQueue`, where it takes one.  Its `PushTask` adds to a bucket in
one step, which is justified by the theorem `BucketsImplemented` of
`PushingProofs`: `Pushing`, where a push takes a step for every access and the
array grows, implements `Buckets`.  The pools are sequences or sets, which is
justified by the theorem `Implementation` of `PoolProofs`.  `Runtime` in turn
implements `ForkJoin` (`ForkJoinImplemented` of `RuntimeForkJoin`).

### How `WorkQueue` corresponds to `queue.c`

`next` and `data` are the fields of the elements, `made` the elements allocated
so far (nothing frees one while the queue lives), `head` and `tail` the queue's
two pointers.  `el`, `tl`, `hd` are the locals `element`, `tail`, `head` of the
calls under way, `pushPc` and `popPc` the step they have come to.  Every
compare-and-swap is one step with two outcomes; every plain read of shared
memory is a step of its own.  The compare-and-swap operations are gcc's
`__sync` built-ins, full barriers, so interleaving is the right memory model for
them; the plain reads of `head->next` between them are of a field that is
written once (`NextWrittenOnce`, proved).  `queued` is a history variable, the
elements in the order of their linking; a pop's effect is its successful CAS and
an empty pop's effect is the read that found `next` NULL.

`QueueLife` adds the end: `queue_destroy` may be called when no push or pop is
under way.  `node` is its local `el`; `freedNodes` and `freedData` are
histories of what has been freed.  A datum is taken for the element it was
pushed with; a datum that is pushed twice is not covered.

### How `Pool` corresponds to `list.c`

`args`, `next` are the fields of the nodes, `live` the nodes allocated and not
freed, `head` and `tail` the pool's pointers.  A call that takes its result
from the two ends is one step.  A call with a loop (`delete_element`, `search`,
`exec_on_elem`, `empty_pool`, `delete_list`) takes one step for each node; `l`
and `l1` are its locals.  `wanted` stands for the compare function: the set of
elements it accepts.  Calls do not overlap: where several threads use a pool
its lock is taken around the call (`task.c:115-117`), and where they do not
take it there is one of them, or the run `two_owners` shows the consequence.
What `empty_pool` does to the last node (it stays allocated, forgotten) and
`delete_list` to the pool (its pointers dangle, so that nothing may be called
afterwards) is modelled; `lost` and the call `deleted` record it.  `pop_first`
of an empty pool ends in `crashed`.  So would `remove_element` where its assert
fails (`list.c:73-74`, a node without predecessor that is not the head);
`PoolProofs` shows that neither of its callers brings that about.

### How `Pushing` corresponds to the code

Every thread makes tasks and may push them to the pool of tasks without a
group; those in `Owners` push to groups as well.  `id`, `task_id`, `level`,
`my_group` are the counter and the fields of the
tasks; `groups`, `head`, `next` the pool of groups, where a group_t and the
node that holds it are one object; `name`, `total`, `pending_q`, `pending_num`,
`pending_num_size` the fields of the groups; `pending_tasks` and `lock` the one
pool that is locked. `pc` says where each thread is, `task`, `key`, `pool`,
`at`, `reg`, `seen` are its locals and registers.  `x++` is a read and a write.
`create_group` reads the pool and links a new group in the order of `list.c`,
so the group is in the pool before it has a name (`group.c:63`) and before its
counters are cleared, level by level (`group.c:84-89`).  `strcmp` of a missing
name ends in `crashed`, as does a store beyond the array.  The growth of an
array is one step.  `STEP` is
`PENDING_QUEUE_SIZE_STEP`.

### How `Runtime` corresponds to the code

| Variables | Code |
|---|---|
| `mainPc`, `cur`, `goal`, `current`, `worker`, `sig`, `i` | where the application thread is, and the locals of `wait_group` |
| `k` | the loop variable of `init_system` and `shutdown_system` |
| `id`, `significance`, `versions`, `my_group` | `new_task`'s counter and the fields of `task_t`; `versions` says which of `execution` and `execution_nonsig` is not NULL |
| `pending_tasks` | the pool of tasks pushed without a group |
| `groups`, `pending_q`, `total`, `executing_num`, `ratio`, `total_sig_tasks`, `total_non_sig_tasks`, `lock` | the pool of groups and the fields of `group_t` |
| `running`, `work_queue`, `workerPc`, `job`, `execution` | the fields of a worker's `info` and the locals of `main_acc` |
| `stage`, `ran`, `placed`, `waited` | history: where a task is, what it has executed, which worker it was dealt to; the groups that some `wait_group` has returned for |

The steps are chosen so that everything another thread can see or change lies
in a step of its own.  `wait_group` is split at each `queue_push`:
`DispatchTask` ends with the push, `CountTask` is the code after it, because a
worker may pop and run the task in between.  `explicit_sync` is split into
lock, count down and signal, unlock.  `get_job` is split at the pop and at the
test of `running`.  The main application sleeps in `mainPc = "asleep"`; a
signal to a group nobody sleeps on is lost, as `pthread_cond_signal` has it; a
spurious wakeup is an action that a constant switches on.

Decisions that need a word:

* `BATCH_SIZE` is 1 (`group.c:19`), so `consequtive % BATCH_SIZE` is always 0
  and the worker index goes up before every push: task 1 goes to worker 1, not
  0.
* The application makes one task at a time and pushes it before it makes the
  next one, as all the benchmarks do.  `new_task` and `push_task` run in the
  one application thread and are not interleaved with a `wait_group` of theirs;
  workers do interleave with them.
* `pthread_join` is called on threads created detached, which is undefined once
  such a thread has gone.  `JoinWorker` returns without waiting; `JoinCrashes`
  brings the program down.  Both are outcomes a build can have.
* A ratio is a float, given as a multiple of `1 / RatioUnit`.  `goal` is the
  truncated product of an unsigned and a float: `Goals` rounds the unsigned to
  a float, multiplies, rounds the product to a float and truncates.
  `PRECISION` is the number of bits of a significand, 24 in the code.  The
  rounding can reach the next integer, so one task more than the exact product
  may be asked for; `Quota` says how many more at most.

## 3. Runs

| Run | Instance | Shows |
|---|---|---|
| `queue` | two pushers, two poppers, two pushes, two data, `queue_destroy`, fairness | every interleaving of the CAS loops: the second CAS of a push cannot fail, the chain is never broken, no element is rewritten, the queue implements `FifoQueue`, pushes and pops return though a push may spin behind one that is half done, and `queue_destroy` frees each element once and no datum that was handed out |
| `pool` | three nodes, two elements, fairness | every sequence of calls: the pointers spell the list until it is deleted, no node is freed too early and none is lost but by `empty_pool`, the pool implements `List`, the loops end |
| `pushing` | two threads that make tasks and push them to the locked pool, one of which owns the groups; three tasks, two names, two levels | the array never overflows, its counters agree, a push implements the atomic addition of `Buckets` and returns |
| `runtime` | two workers, three tasks, significant or undecided, with or without an approximate function, one group, fairness | count, rendezvous, executions, balance, statistics, nothing left in a queue; refinement of `ForkJoin`; `wait_group` with tasks out returns; the workers, which hold no task by then, leave after `shutdown_system` |
| `selection` | four tasks on four levels, ratios 0, 5/16, 1/2 and 1, significands of 3 bits | how many and which tasks become significant, and the order of the queues |
| `early_return` | two groups, waited for again, spurious wakeups | the inductive invariant and the executions, even when `wait_group` returns early |
| `reexecution`, `all_dropped`, `preset`, `spurious`, `two_owners`, `two_makers` | one property each | a disagreement of the code with its comments, section 7 |

Bounds, and why they are enough:

* `Nodes` of the queue: three `element_t` objects, the first dummy and two
  pushes. Two pushes by two threads reach every relation of the two pointers:
  empty queue, `tail` behind by one, `head` past `tail`, a CAS that fails on
  both sides.  What is safety here is a theorem for any number.
* `Nodes` of the pool: three, so that there is a first, an inner and a last
  one. Elements may be in the pool twice.
* `Pushing`: with `STEP = 2` three tasks make the array of a bucket grow twice,
  the second time with tasks in it; two names make the search pass a group.  In
  `two_owners` both threads push to groups, two tasks and one name; in
  `two_makers` both make a task and one owns the groups.
* `MaxTasks`: 1 to 4 tasks.  Three tasks on two workers put two tasks into one
  queue and leave a worker with work while the other counts down, and they are
  more than one round; four are the fewest that put two tasks on each of two
  middle levels.
* Groups: two in `early_return`, where one is left with tasks out while the
  other is in use.  One elsewhere: the lock and the counter are the group's own,
  and the theorems are about any number.
* `SIGNIFICANT`: 2 or 3 stand for 100.  The code only compares a significance
  with 0, with 100 and with other ones, so one or two levels in between show
  all there is.  Level 0 is left to `selection`: what comes with it is
  approximate from the start, as an undecided task is when the share is used up.
* `PRECISION` is 3: the product of 3 tasks and 5/16 is 15/16, which needs four
  bits and is rounded to 1, so the rounding changes the share.  With 24 bits
  and fewer than 2^24 tasks the sum is the same at another scale.
* `LargestExponent` in `Floats` is 24: it bounds the exponents that TLC tries
  for a float; the integers that occur are far below.  For the proofs it is any
  number, and the ratios are multiples of any power of two below it.
* `UINT_MAX` is 7 or 9 in the runs: a counter that went below zero would show
  as that.  The theorems assume only `MaxTasks <= UINT_MAX`.
* `NumWorkers`: 1 or 2.
* `Symmetry` is used for groups, in `early_return` only, which has no liveness.

`CHECK_DEADLOCK` is off because the models really stop: `Runtime` after
`shutdown_system` and when `wait_group` of an unknown group hits `assert(0)`,
`QueueLife` when the queue is gone, `Pool` after `delete_list`, `Pushing` when
every task has been pushed.  Threads that wait for one another are caught by
the liveness properties instead.

## 4. Fairness

`QueueLife!LifeFairness`: weak fairness of each thread inside `queue_push`, of
each popper, which polls, and of the call of `queue_destroy` once it has begun.
Nothing obliges a thread to push.  The instance has
finitely many elements, so `PushReturns` says that a push is not held up for
ever by *finitely many* others; the loop is not wait-free and with endless other
pushes no such claim is made.  In the runtime there is one pusher, the
application, and one popper for each queue.

`Pool!FairSpec`: weak fairness of the call that is under way.
`Pushing!FairSpec`: weak fairness of each thread inside a call, and strong
fairness of `LockPool`: a mutex that is free again and again is got at last.
The system does not promise that to a thread that competes with others without
end, but the bounded number of pushes ends every competition.

`Runtime!FairSpec`: weak fairness of `Call`, the application thread inside
`init_system`, `wait_group` or `shutdown_system`, and of each `Worker(w)`.  It
is what the operating system gives runnable threads, and assumes that task
functions return.  The application need not call anything.  A mutex is taken
when it is free: weak fairness suffices because a group's lock is fought over
by workers that need it once per task.  No fairness makes a spurious wakeup
happen.

## 5. Proofs

All theorems hold for every value of the constants that satisfies
`QueueAssumption`, `PoolAssumption`, `PushingAssumption`, `PrecisionAssumption`,
`RuntimeAssumption` and `RatioAssumption`: any number of threads, elements,
nodes, workers, tasks, groups and levels, any size of the steps in which an
array grows, any precision of the floats.  Every safety property of a passing
run is a theorem.  Some have a hypothesis, which the theorem states:

| Hypothesis | Where | Why |
|---|---|---|
| `~ SpuriousWakeups` | `RendezvousCorrect`, `ServedCorrect`, `NothingLeftBehind`, `StatisticsCorrect`, `ForkJoinImplemented` | the run `spurious` shows that a spurious wakeup ends `wait_group` early |
| `OneOwner` | `PushingProofs`, its types apart | the run `two_owners` shows two groups of one name; threads that push to the locked pool there may be any number of |
| `MaxTasks <= 2^PRECISION` | `ForkJoinImplemented` | with more tasks a float does not hold their number, and the rounding of the share may be off by more than one |

The invariants were checked by TLC on the instances of section 3 before they
were proved.

**Work queue.**  The invariant `IInv` of `WorkQueue` says that a pusher's
element is its own and outside of the chain until it is linked, that a local
copy of `tail` or `head` is current or has a successor, that a pusher between
its CAS operations is the only one (`LinkedOnce`), and that the chain of `next`
pointers spells `queued` (`ChainHolds`).  No part is inductive alone: that the
second CAS succeeds needs that nobody else may link to the same node, which
needs `next[tail]` to be non-NULL, which is `LinkedOnce` again.
`Implementation` shows that each step maps to a step of `FifoQueue` or to a
stutter; `SuccessorIsStable` is the action property that makes the late reads
of `head->next` safe.  `DestroyCorrect` is about `LifeSpec`, the queue with
`queue_destroy`.  Its invariant `LifeInv` adds to `IInv` that the chain does
not pass an element twice (`ChainOnce`) and how far the loop is: the elements
freed are the first ones of `queued`, in its order, and `node` stands at the
next one; at the end they are all of `queued` and then the dummy
(`DestroyHolds`).

**Pool.**  `IInv` of `Pool` says that the pointers spell the history `nodes`
(`ListHolds`), that the nodes allocated are those and the forgotten ones
(`Accounted`), and where the loop under way stands: `l` is the node at some
position, `l1` the one before it, and no element before it is wanted.  The last
part is what `remove_element` needs: it unlinks through `prev`, and with a
`prev` that is not the predecessor the list is cut.  `Implementation` maps the
elements along `nodes` to the sequence of `List`; the steps of a loop are
stutters until the one that ends it.

**Runtime.**  `TypeCorrect` includes that no counter leaves the unsigned
integers, but a counter could still wrap around; `CountCorrect` says that it
does not.  Its inductive invariant is

    IInv == TypeOK /\ Structure /\ CountExact

with `Structure` in `RuntimeInv`.  Why so much is needed: `executing_num--`
preserves the count only if the worker's task has been counted, that is, if it
is not the one `wait_group` has just pushed.  That follows from the locks
(`WorkerLocks`, `MainLocks`): the worker has the lock of its task's group, and
while `wait_group` deals, the lock of its group is the application's.
`executing_num++` preserves it only if the task was not out already, which
needs `CursorHolds` (what lies ahead of the loop is pending) and `BucketsHold`
(no task is in two places).  `executing_num = 0` preserves it only if nothing
is out when the lock is taken: `TakenInWait` and `MainLocks` say that tasks are
taken only in a `wait_group` of their group, and that the lock of a group which
has been waited for is never free again.  (So the count is right *because* of
what the finding `reexecution` complains about.)  `QueuesHold`, `HandsHold` and
`OutSomewhere` tie the queues and the workers' hands to the stages.

`Rendezvous` is implied by `AllIn`, which is inductive together with `IInv` if
there are no spurious wakeups: the signal comes when the count is zero, the
count is exact, and nothing of the group goes out before `wait_group` has the
lock again. `RunsCorrect` rests on `Logged`, which says for each stage what has
been executed.  `ServedCorrect` puts the two together with `AllTaken`, a part of
`Tallied` below: when the loop is over, no task of the group has been
overlooked.

`NothingLeftBehind` adds that a worker leaves its loop only after a shutdown
(`StopsLast`), when no `wait_group` is under way; a task in a queue would
belong to a group that has been waited for, which `Rendezvous` excludes.
`OrderCorrect` rests on `Ordered`: the loop goes down the levels, so what it
deals is of no higher level than what it has dealt (`DealtAbove`), and workers
take from the front (`Sorted`).  That tasks queued by different waits do not
mix up follows from `TakenInWait`.  `PriorityCorrect` rests on `Chosen`: a task
has the significance of its bucket until the loop decides on it (`AsPushed`),
all that the loop has passed is decided (`PassedTaken`), and the first
undecided task that is not made significant means that the quota is used up for
good (`QuotaUsed`), so none of a lower level is made significant after it
(`HigherFirst`).  `Ordered` and `Chosen` are each inductive together with
`IInv`.

`BalanceCorrect`, `QuotaCorrect` and `StatisticsCorrect` rest on `Tallied`,
which is inductive together with `IInv`, `Ordered` and `Chosen` and relates the
counters of the loop to cardinalities: the workers up to the index are one task
ahead of the others (`RoundRobin`); `current` counts the tasks that the loop
has decided on of those that left the choice to it, and the first of them, up
to `goal`, are the promoted ones (`QuotaCounts`); the statistics count the
tasks dealt and counted, by their significance (`StatsCount`), and so they are
right for a group whose tasks all have an exact function; no task of the group
is passed over (`AllTaken`).  How many tasks `goal` asks for is arithmetic
(`RoundError`, `ShareAsked`): rounding to a float adds at most one part in
2^PRECISION, for any precision.  The provers know nothing of powers of two;
`Power`, `PowerNext` and `PowerGrows` take them as the numbers of subsets, and
the exponent of a float is found without induction, by the pigeonhole principle
(`FirstPlace`).

`ForkJoinImplemented` maps pushing to `Submit`, the start of a `wait_group` to
`Fork`, the decision on a task to `Settle`, the call of its function by a worker
to `Execute` and the return of `wait_group` to `Join`; all else is a stutter.
`Join` is allowed by `AllIn` and `Logged`: every task of the group has been
executed as decided.

**Pushing.**  `TypeCorrect` holds whatever threads push.  With one owner, and
any number of threads that make tasks, the invariant `PushInv` has five parts,
each inductive with those before it.  `TypeInv`: a thread that is not idle has
a task, and one that works in a group has the group.  `FreshInv`: what the
pools and the threads point to is in use (`InUse`), and a group not in use or
still being made has nothing in it (`Fresh`), so that the late clearing of its
counters loses nothing.  `CountInv`: used and free slots make up the array but
while a push is between its two counters (`Slots`), `total` is ahead of the
buckets while one is under way (`Totals`), and what a thread has read is still
so (`Registers`) - which is where one owner is needed, `Alone`.  `NameInv`: the
groups linked are those that `next` leads to from the head (`Chain`), the
search has passed no group of the name (`Before`), and so none has it when one
is added (`Knows`).  `BucketInv`: no two threads push one task (`Apart`), the
lock keeps the pool (`Locked`), every task in a bucket or in the pool was put
there by its own push (`Accounted`), and what is to be counted is in its slot
(`Stored`).

`BucketsImplemented` maps the bucket of a name to the first `pending_num` slots
of the group's array.  The abstract addition is the step that writes
`pending_num`; growing the array, writing the slot, and the second naming of a
group are stutters.  It is for `Accounted` that the task was not there before.
`NamesUnique` is the property that the run `two_owners` refutes for two.  There
is no theorem about ids: with one maker their uniqueness says nothing, and with
two the run `two_makers` refutes it.

The proofs are by cases on the actions, with one lemma for each action
(`...Structure`, `...Counts`, `...Logged`) and frame lemmas for what an action
leaves alone.

## 6. Only model-checked, and not modelled

Model-checked only:

* liveness (`PushReturns`, `PopReturns`, `CallReturns`, `WaitReturnsWithTasks`,
  `WorkersStop`): TLAPS does not prove liveness under fairness; that of the
  runtime is checked with one group and three tasks;
* that the properties of the violation runs fail: a counterexample is found, not
  proved.

Not modelled, and why:

* failing allocations (`calloc` and `realloc` return memory):
  `queue_make_element` that fails would have the element before pushed twice,
  outside of what a queue is; `create_group` and `new_task` assert instead;
* significances above 100: `push_task` would index beyond the 101 buckets; a
  precondition that every benchmark keeps;
* totals above 2^24, which a float does not hold exactly: `Quota` excludes them
  by its premise;
* `create_list`, `free_args`, `move_q`, `cmp_tasks`, `del_non_signf`,
  `check_sync`: no callers;
* `dependencies.c` (not built, does not compile), thread pinning, energy
  counters, signal handlers, printing: no state the runtime's correctness
  depends on;
* `tests/`: written for an earlier interface; `fi/`, `include/CL/`: simulator
  stubs and vendored headers, which are more than half of the lines;
* `benchmarks/`: clients; their calls are the `Application` actions of
  `Runtime`.

## 7. Findings

| Run | What the code does | What it says |
|---|---|---|
| `reexecution` | `wait_group` returns with the lock held (`group.c:172-179`), the second wait for a group blocks at line 119 | `task.c:131`: "the entire group might be re-executed" |
| `all_dropped` | with every task dropped nobody signals, yet `wait_group` waits | `group.c:184`: "last thread wakes up the main application" |
| `preset` | tasks that came as significant are not deducted from the ratio's share | `group.c:137`: "the first @ratio tasks will be set as significant" |
| `spurious` | `pthread_cond_wait` is not in a loop: a spurious wakeup ends the wait while tasks are out | `group.c:184`, as above |
| `two_makers` | `new_task` counts with `id++` and no lock: two threads that make a task may both read the same value (`task.c:48`) | `task.c:47`: "TASK_ID is unique for each task" |
| `two_owners` | `create_group` uses the pool of groups without its mutex: two threads that push to a new group both make it, and `wait_group` finds one (`group.c:51-63`) | `list.h:9`: "Sync is guaranteed with the mutex." |

## 8. Plan

Done: the modules of section 2, the theorems of section 5.

What would come next:

1. Failing allocations, with an element that is in the queue twice.
2. A composition of `Pushing` and `Runtime` in one specification, in which
   pushes of one thread overlap with the `wait_group` of another.
