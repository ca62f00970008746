------------------------------ MODULE Pushing ------------------------------
(***************************************************************************)
(* new_task and push_task (task.c), create_group (group.c) and the calls   *)
(* they make of list.c, one step per access to memory that application     *)
(* threads share; a bucket's array grows in one step.  Only the pool of    *)
(* tasks without a group is locked: the lock of push_task as a whole is    *)
(* commented out (task.c:113 and 127).  Every thread makes tasks and may   *)
(* push them to the locked pool; those in Owners push to groups as well.   *)
(***************************************************************************)
EXTENDS Naturals, Sequences, FiniteSets

CONSTANTS
  Apps,       \* application threads
  Owners,     \* those of them that push to groups
  Tasks,      \* bound: the task_t objects new_task may allocate
  Groups,     \* bound: the group_t objects create_group may allocate
  Names,      \* the names groups may be given
  EMPTY,      \* the empty string
  Levels,     \* significances
  STEP,       \* PENDING_QUEUE_SIZE_STEP
  UINT_MAX,
  NULL

ASSUME PushingAssumption ==
  /\ Owners \subseteq Apps
  /\ STEP \in Nat \ {0}
  /\ UINT_MAX \in Nat
  /\ Levels \subseteq Nat /\ 0 \in Levels
  /\ EMPTY \notin Names
  /\ NULL \notin Apps \cup Tasks \cup Groups \cup Names \cup {EMPTY}

VARIABLES
  id,                  \* new_task's static counter
  task_id, level, my_group,   \* fields of the tasks
  made,                \* the tasks that new_task has returned
  groups,              \* the pool of groups: the thread that created it
  head,                \* the first group of every pool of groups
  next,                \* the group behind each group in its pool
  allocated,           \* the group_t objects in use
  name, total,         \* fields of the groups
  pending_q, pending_num, pending_num_size,
  pending_tasks, lock, \* the pool of tasks without a group, and its holder
  pc,                  \* what every thread is doing,
  task, key,           \* the task and the name it pushes,
  pool, at,            \* the pool and the group it works on,
  reg, seen,           \* and what it has read, to write it back changed;
                       \* reg is also the level that create_group's loop is at
  pushed               \* history: the pushes that have returned

taskVars   == <<id, task_id, level, my_group, made>>
poolVars   == <<groups, head, next, allocated>>
groupVars  == <<name, total>>
bucketVars == <<pending_q, pending_num, pending_num_size>>
looseVars  == <<pending_tasks, lock>>
callVars   == <<task, key>>
localVars  == <<pool, at, reg, seen>>
vars == <<taskVars, poolVars, groupVars, bucketVars, looseVars, pc,
          callVars, localVars, pushed>>

Steps == {"idle", "number", "test", "create", "open", "first", "search",
          "add", "empty", "next", "link", "name", "copy",
          "fill", "zero_num", "zero_size", "zero_q",
          "total", "totalled", "room", "grow",
          "store", "num", "numbered", "size", "sized",
          "lock", "head", "put", "unlock", "crashed"}

Init ==
  /\ id = 0
  /\ task_id = [t \in Tasks |-> 0]
  /\ level = [t \in Tasks |-> 0]
  /\ my_group = [t \in Tasks |-> NULL]
  /\ made = {}
  /\ groups = NULL
  /\ head = [a \in Apps |-> NULL]
  /\ next = [g \in Groups |-> NULL]
  /\ allocated = {}
  /\ name = [g \in Groups |-> NULL]
  /\ total = [g \in Groups |-> 0]
  /\ pending_q = [g \in Groups |-> [s \in Levels |-> << >>]]
  /\ pending_num = [g \in Groups |-> [s \in Levels |-> 0]]
  /\ pending_num_size = [g \in Groups |-> [s \in Levels |-> 0]]
  /\ pending_tasks = << >>
  /\ lock = NULL
  /\ pc = [a \in Apps |-> "idle"]
  /\ task = [a \in Apps |-> NULL]
  /\ key = [a \in Apps |-> NULL]
  /\ pool = [a \in Apps |-> NULL]
  /\ at = [a \in Apps |-> NULL]
  /\ reg = [a \in Apps |-> 0]
  /\ seen = [a \in Apps |-> << >>]
  /\ pushed = {}

Go(a, from, to) == pc[a] = from /\ pc' = [pc EXCEPT ![a] = to]

\* The thread reads a counter.
Read(a, value) ==
  /\ reg' = [reg EXCEPT ![a] = value]
  /\ UNCHANGED <<pool, at, seen>>

\* The call returns: its locals are gone.
Return(a, from) ==
  /\ Go(a, from, "idle")
  /\ task' = [task EXCEPT ![a] = NULL]
  /\ key' = [key EXCEPT ![a] = NULL]
  /\ pool' = [pool EXCEPT ![a] = NULL]
  /\ at' = [at EXCEPT ![a] = NULL]
  /\ reg' = [reg EXCEPT ![a] = 0]
  /\ seen' = [seen EXCEPT ![a] = << >>]

Given == {t \in Tasks : \/ \E a \in Apps : task[a] = t
                        \/ \E p \in pushed : p[1] = t}

-----------------------------------------------------------------------------
(***************************************************************************)
(* new_task: id++ is a read and a write.                                   *)
(***************************************************************************)
\* Which of the free objects is allocated makes no difference.
Calloc(free) == CHOOSE object \in free : TRUE

AllocTask(a, s) ==
  /\ Go(a, "idle", "number")
  /\ Tasks \ (made \cup Given) # {}
  /\ LET t == Calloc(Tasks \ (made \cup Given))
     IN  /\ task' = [task EXCEPT ![a] = t]
         /\ level' = [level EXCEPT ![t] = s]
  /\ Read(a, id)
  /\ UNCHANGED <<id, task_id, my_group, made, poolVars, groupVars,
                 bucketVars, looseVars, key, pushed>>

NumberTask(a) ==
  /\ Return(a, "number")
  /\ task_id' = [task_id EXCEPT ![task[a]] = reg[a]]
  /\ id' = reg[a] + 1
  /\ made' = made \cup {task[a]}
  /\ UNCHANGED <<level, my_group, poolVars, groupVars, bucketVars, looseVars,
                 pushed>>

-----------------------------------------------------------------------------
(***************************************************************************)
(* push_task with a name begins with create_group: the pool is created if  *)
(* there is none, and searched.                                            *)
(***************************************************************************)
Push(a, t, x) ==
  /\ a \in Owners
  /\ Go(a, "idle", "test")
  /\ t \in made \ Given
  /\ task' = [task EXCEPT ![a] = t]
  /\ key' = [key EXCEPT ![a] = x]
  /\ UNCHANGED <<taskVars, poolVars, groupVars, bucketVars, looseVars,
                 localVars, pushed>>

TestGroups(a) ==
  /\ Go(a, "test", IF groups = NULL THEN "create" ELSE "open")
  /\ UNCHANGED <<taskVars, poolVars, groupVars, bucketVars, looseVars,
                 callVars, localVars, pushed>>

CreatePool(a) ==
  /\ Go(a, "create", "open")
  /\ groups' = a
  /\ head' = [head EXCEPT ![a] = NULL]
  /\ UNCHANGED <<taskVars, next, allocated, groupVars, bucketVars, looseVars,
                 callVars, localVars, pushed>>

\* The variable groups is read for a call with the pool.
ReadPool(a, from, to) ==
  /\ Go(a, from, to)
  /\ pool' = [pool EXCEPT ![a] = groups]
  /\ UNCHANGED <<taskVars, groups, head, next, groupVars, bucketVars,
                 looseVars, callVars, reg, seen, pushed>>

OpenPool(a) == ReadPool(a, "open", "first") /\ UNCHANGED <<allocated, at>>

SearchFirst(a) ==
  /\ Go(a, "first", "search")
  /\ at' = [at EXCEPT ![a] = head[pool[a]]]
  /\ UNCHANGED <<taskVars, poolVars, groupVars, bucketVars, looseVars,
                 callVars, pool, reg, seen, pushed>>

\* search with cmp_group, whose strcmp needs a name
SearchOn(a) ==
  /\ at[a] # NULL /\ name[at[a]] \notin {NULL, key[a]}
  /\ Go(a, "search", "search")
  /\ at' = [at EXCEPT ![a] = next[at[a]]]
  /\ UNCHANGED <<taskVars, poolVars, groupVars, bucketVars, looseVars,
                 callVars, pool, reg, seen, pushed>>

\* The search ends at a group of that name or at the end of the pool, or in
\* strcmp, at a group that has no name yet.
SearchEnd(a) ==
  /\ at[a] # NULL => name[at[a]] \in {NULL, key[a]}
  /\ Go(a, "search", IF at[a] = NULL THEN "add"
                     ELSE IF name[at[a]] = NULL THEN "crashed" ELSE "total")
  /\ UNCHANGED <<taskVars, poolVars, groupVars, bucketVars, looseVars,
                 callVars, localVars, pushed>>

SearchGroup(a) == SearchFirst(a) \/ SearchOn(a) \/ SearchEnd(a)

(***************************************************************************)
(* No group has the name: a new one goes to the head of the pool before it *)
(* has its name and before its counters are cleared.  The list_t that      *)
(* holds it is taken for the group: without its args and without its name  *)
(* a search ends alike.                                                    *)
(***************************************************************************)
AllocGroup(a) ==
  /\ ReadPool(a, "add", "empty")
  /\ Groups # allocated
  /\ LET g == Calloc(Groups \ allocated)
     IN  /\ allocated' = allocated \cup {g}
         /\ at' = [at EXCEPT ![a] = g]

\* An empty pool gets the group as its head; otherwise the group points to
\* the old head before it becomes the new one.
TestEmpty(a) ==
  /\ Go(a, "empty", IF head[pool[a]] = NULL THEN "link" ELSE "next")
  /\ UNCHANGED <<taskVars, poolVars, groupVars, bucketVars, looseVars,
                 callVars, localVars, pushed>>

NextGroup(a) ==
  /\ Go(a, "next", "link")
  /\ next' = [next EXCEPT ![at[a]] = head[pool[a]]]
  /\ UNCHANGED <<taskVars, groups, head, allocated, groupVars, bucketVars,
                 looseVars, callVars, localVars, pushed>>

LinkGroup(a) ==
  /\ Go(a, "link", "name")
  /\ head' = [head EXCEPT ![pool[a]] = at[a]]
  /\ UNCHANGED <<taskVars, groups, next, allocated, groupVars, bucketVars,
                 looseVars, callVars, localVars, pushed>>

SetName(a, from, to, x) ==
  /\ Go(a, from, to)
  /\ name' = [name EXCEPT ![at[a]] = x]
  /\ UNCHANGED <<taskVars, poolVars, total, bucketVars, looseVars, callVars,
                 localVars, pushed>>

\* A zeroed string first, then strcpy
NameGroup(a) ==
  \/ SetName(a, "name", "copy", EMPTY)
  \/ SetName(a, "copy", "fill", key[a])

FillGroup(a) ==
  /\ Go(a, "fill", "zero_num")
  /\ total' = [total EXCEPT ![at[a]] = 0]
  /\ reg' = [reg EXCEPT ![a] = 0]
  /\ UNCHANGED <<taskVars, poolVars, name, bucketVars, looseVars, callVars,
                 pool, at, seen, pushed>>

\* The loop over the levels, from the lowest one up.
ZeroNum(a) ==
  /\ Go(a, "zero_num", "zero_size")
  /\ pending_num' = [pending_num EXCEPT ![at[a]][reg[a]] = 0]
  /\ UNCHANGED <<taskVars, poolVars, groupVars, pending_q, pending_num_size,
                 looseVars, callVars, localVars, pushed>>

ZeroSize(a) ==
  /\ Go(a, "zero_size", "zero_q")
  /\ pending_num_size' = [pending_num_size EXCEPT ![at[a]][reg[a]] = 0]
  /\ UNCHANGED <<taskVars, poolVars, groupVars, pending_q, pending_num,
                 looseVars, callVars, localVars, pushed>>

Higher(s) == {r \in Levels : r > s}

ZeroQueue(a) ==
  /\ Go(a, "zero_q", IF Higher(reg[a]) = {} THEN "total" ELSE "zero_num")
  /\ pending_q' = [pending_q EXCEPT ![at[a]][reg[a]] = << >>]
  /\ IF Higher(reg[a]) = {}
     THEN UNCHANGED reg
     ELSE \E s \in Higher(reg[a]) : /\ \A r \in Higher(reg[a]) : s <= r
                                   /\ reg' = [reg EXCEPT ![a] = s]
  /\ UNCHANGED <<taskVars, poolVars, groupVars, pending_num,
                 pending_num_size, looseVars, callVars, pool, at, seen,
                 pushed>>

ZeroLevel(a) == ZeroNum(a) \/ ZeroSize(a) \/ ZeroQueue(a)

CreateGroup(a) ==
  \/ TestGroups(a) \/ CreatePool(a) \/ OpenPool(a) \/ SearchGroup(a)
  \/ AllocGroup(a) \/ TestEmpty(a) \/ NextGroup(a) \/ LinkGroup(a)
  \/ NameGroup(a) \/ FillGroup(a) \/ ZeroLevel(a)

-----------------------------------------------------------------------------
\* task->my_group = group and (group->total)++
ReadTotal(a) ==
  /\ Go(a, "total", "totalled")
  /\ my_group' = [my_group EXCEPT ![task[a]] = at[a]]
  /\ Read(a, total[at[a]])
  /\ UNCHANGED <<id, task_id, level, made, poolVars, groupVars, bucketVars,
                 looseVars, callVars, pushed>>

WriteTotal(a) ==
  /\ Go(a, "totalled", "room")
  /\ total' = [total EXCEPT ![at[a]] = reg[a] + 1]
  /\ UNCHANGED <<taskVars, poolVars, name, bucketVars, looseVars, callVars,
                 localVars, pushed>>

(***************************************************************************)
(* add_task_to_pending_queue: the bucket's array grows by STEP slots when  *)
(* it has none left; pending_num_size counts the slots that are free.      *)
(***************************************************************************)
Sig(a) == level[task[a]]

TestRoom(a) ==
  /\ Go(a, "room",
        IF pending_num_size[at[a]][Sig(a)] = 0 THEN "grow" ELSE "store")
  /\ UNCHANGED <<taskVars, poolVars, groupVars, bucketVars, looseVars,
                 callVars, localVars, pushed>>

\* realloc: the array gets n slots, the old ones keep what they hold.
Resized(q, n) == [j \in 1 .. n |-> IF j <= Len(q) THEN q[j] ELSE NULL]

GrowTo(a, n, room) ==
  /\ Go(a, "grow", "store")
  /\ pending_q' = [pending_q EXCEPT ![at[a]][Sig(a)] = Resized(@, n)]
  /\ pending_num_size' = [pending_num_size EXCEPT ![at[a]][Sig(a)] = room]
  /\ UNCHANGED <<taskVars, poolVars, groupVars, pending_num, looseVars,
                 callVars, localVars, pushed>>

\* Faulty variants: the array keeps its first size; all slots count as free.
GrowShort(a) == GrowTo(a, STEP, STEP)
GrowCounted(a) ==
  GrowTo(a, pending_num[at[a]][Sig(a)] + STEP,
         pending_num[at[a]][Sig(a)] + STEP)

Grow(a) == GrowTo(a, pending_num[at[a]][Sig(a)] + STEP, STEP)

\* The index of the first free slot; in the code the first index is zero.
Slot(a) == pending_num[at[a]][Sig(a)] + 1

Store(a) ==
  /\ Go(a, "store",
        IF Slot(a) <= Len(pending_q[at[a]][Sig(a)]) THEN "num" ELSE "crashed")
  /\ pending_q' =
       [pending_q EXCEPT ![at[a]][Sig(a)] =
          IF Slot(a) <= Len(@) THEN [@ EXCEPT ![Slot(a)] = task[a]] ELSE @]
  /\ UNCHANGED <<taskVars, poolVars, groupVars, pending_num,
                 pending_num_size, looseVars, callVars, localVars, pushed>>

ReadCounter(a) ==
  /\ \/ /\ Go(a, "num", "numbered")
        /\ Read(a, pending_num[at[a]][Sig(a)])
     \/ /\ Go(a, "size", "sized")
        /\ Read(a, pending_num_size[at[a]][Sig(a)])
  /\ UNCHANGED <<taskVars, poolVars, groupVars, bucketVars, looseVars,
                 callVars, pushed>>

WriteNum(a) ==
  /\ Go(a, "numbered", "size")
  /\ pending_num' = [pending_num EXCEPT ![at[a]][Sig(a)] = reg[a] + 1]
  /\ UNCHANGED <<taskVars, poolVars, groupVars, pending_q, pending_num_size,
                 looseVars, callVars, localVars, pushed>>

\* The push returns.
Done(a, from) ==
  /\ Return(a, from)
  /\ pushed' = pushed \cup {<<task[a], key[a]>>}
  /\ UNCHANGED <<taskVars, poolVars, groupVars, pending_q, pending_num>>

WriteSize(a) ==
  /\ Done(a, "sized")
  /\ pending_num_size' =
       [pending_num_size EXCEPT ![at[a]][Sig(a)] =
          IF reg[a] = 0 THEN UINT_MAX ELSE reg[a] - 1]
  /\ UNCHANGED looseVars

AddTask(a) ==
  \/ ReadTotal(a) \/ WriteTotal(a) \/ TestRoom(a) \/ Grow(a) \/ Store(a)
  \/ ReadCounter(a) \/ WriteNum(a) \/ WriteSize(a)

-----------------------------------------------------------------------------
\* push_task without a name: add_pool_head under the pool's lock
PushUngrouped(a, t) ==
  /\ Go(a, "idle", "lock")
  /\ t \in made \ Given
  /\ task' = [task EXCEPT ![a] = t]
  /\ UNCHANGED <<taskVars, poolVars, groupVars, bucketVars, looseVars, key,
                 localVars, pushed>>

\* Faulty variant: the lock is not waited for.
BargeIn(a) ==
  /\ Go(a, "lock", "head")
  /\ lock' = a
  /\ UNCHANGED <<taskVars, poolVars, groupVars, bucketVars, pending_tasks,
                 callVars, localVars, pushed>>

LockPool(a) == lock = NULL /\ BargeIn(a)

ReadHead(a) ==
  /\ Go(a, "head", "put")
  /\ seen' = [seen EXCEPT ![a] = pending_tasks]
  /\ UNCHANGED <<taskVars, poolVars, groupVars, bucketVars, looseVars,
                 callVars, pool, at, reg, pushed>>

Put(a, element) ==
  /\ Go(a, "put", "unlock")
  /\ pending_tasks' = <<element>> \o seen[a]
  /\ UNCHANGED <<taskVars, poolVars, groupVars, bucketVars, lock, callVars,
                 localVars, pushed>>

\* Faulty variant: the name is put into the pool.
PutName(a) == Put(a, key[a])

PutHead(a) == Put(a, task[a])

\* Return, the lock being in this state.
ReturnWith(a, holder) ==
  /\ Done(a, "unlock")
  /\ lock' = holder
  /\ UNCHANGED <<pending_num_size, pending_tasks>>

\* Faulty variant: the lock is kept.
ReturnLocked(a) == ReturnWith(a, lock)

UnlockPool(a) == ReturnWith(a, NULL)

AddUngrouped(a) == LockPool(a) \/ ReadHead(a) \/ PutHead(a) \/ UnlockPool(a)

-----------------------------------------------------------------------------
Application(a) ==
  \/ \E s \in Levels : AllocTask(a, s)
  \/ \E t \in Tasks : PushUngrouped(a, t) \/ \E x \in Names : Push(a, t, x)

Call(a) == NumberTask(a) \/ CreateGroup(a) \/ AddTask(a) \/ AddUngrouped(a)

Next == \E a \in Apps : Application(a) \/ Call(a)

Spec == Init /\ [][Next]_vars

\* The threads run; a mutex that is free again and again is got.
FairSpec ==
  /\ Spec
  /\ \A a \in Apps : WF_vars(Call(a)) /\ SF_vars(LockPool(a))

-----------------------------------------------------------------------------
(***************************************************************************)
(* Every field and local has its type.                                     *)
(***************************************************************************)
GroupTypeOK ==
  /\ groups \in Apps \cup {NULL}
  /\ head \in [Apps -> Groups \cup {NULL}]
  /\ next \in [Groups -> Groups \cup {NULL}]
  /\ allocated \in SUBSET Groups
  /\ name \in [Groups -> Names \cup {EMPTY, NULL}]
  /\ total \in [Groups -> Nat]
  /\ pending_q \in [Groups -> [Levels -> Seq(Tasks \cup {NULL})]]
  /\ pending_num \in [Groups -> [Levels -> Nat]]
  /\ pending_num_size \in [Groups -> [Levels -> Nat]]

TypeOK ==
  /\ id \in Nat
  /\ task_id \in [Tasks -> Nat]
  /\ level \in [Tasks -> Levels]
  /\ my_group \in [Tasks -> Groups \cup {NULL}]
  /\ made \in SUBSET Tasks
  /\ GroupTypeOK
  /\ pending_tasks \in Seq(Tasks)
  /\ lock \in Apps \cup {NULL}
  /\ pc \in [Apps -> Steps]
  /\ task \in [Apps -> Tasks \cup {NULL}]
  /\ key \in [Apps -> Names \cup {NULL}]
  /\ pool \in [Apps -> Apps \cup {NULL}]
  /\ at \in [Apps -> Groups \cup {NULL}]
  /\ reg \in [Apps -> Nat]
  /\ seen \in [Apps -> Seq(Tasks)]
  /\ pushed \in SUBSET (Tasks \X (Names \cup {NULL}))

(***************************************************************************)
(* A task is stored within the bucket's array, however often that has      *)
(* grown: pending_num_size and pending_num together follow its length.     *)
(***************************************************************************)
InBounds ==
  \A a \in Apps :
    pc[a] = "store" => Slot(a) <= Len(pending_q[at[a]][Sig(a)])

(***************************************************************************)
(* Between two pushes the three counters of a group agree with its arrays: *)
(* used and free slots make up the array, and total counts the used ones.  *)
(***************************************************************************)
Busy(g) == \E a \in Apps : at[a] = g /\ pc[a] # "idle"

CountsAgree ==
  \A g \in allocated : ~ Busy(g) =>
    /\ \A s \in Levels :
         pending_num[g][s] + pending_num_size[g][s] = Len(pending_q[g][s])
    /\ total[g] =
         Cardinality(UNION {{s} \X (1 .. pending_num[g][s]) : s \in Levels})

(***************************************************************************)
(* TASK_ID is unique for each task (task.c:47), whichever thread made it.  *)
(***************************************************************************)
TaskIdsUnique == \A t, u \in made : task_id[t] = task_id[u] => t = u

(***************************************************************************)
(* The pool of groups is kept in order (list.h:9): no two groups have one  *)
(* name, so that wait_group finds all the tasks pushed to it.              *)
(***************************************************************************)
OneGroupPerName ==
  \A g, h \in allocated : name[g] \in Names /\ name[g] = name[h] => g = h

(***************************************************************************)
(* A push implements the atomic addition to a bucket that Runtime takes it *)
(* for, when one thread owns the groups; pushes without a name are safe    *)
(* from any number of threads.                                             *)
(***************************************************************************)
BucketOf(x, s) ==
  IF \E g \in allocated : name[g] = x
  THEN LET g == CHOOSE g \in allocated : name[g] = x
       IN  SubSeq(pending_q[g][s], 1, pending_num[g][s])
  ELSE << >>

Abstract ==
  INSTANCE Buckets WITH
    bucket <- [x \in Names |-> [s \in Levels |-> BucketOf(x, s)]],
    ungrouped <- {pending_tasks[j] : j \in DOMAIN pending_tasks}

ImplementsBuckets == Abstract!Spec

(***************************************************************************)
(* Every call of new_task and push_task returns.                           *)
(***************************************************************************)
PushReturns == \A a \in Apps : pc[a] # "idle" ~> pc[a] = "idle"

=============================================================================
