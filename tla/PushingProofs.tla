---------------------------- MODULE PushingProofs ---------------------------
(***************************************************************************)
(* Proofs about Pushing for any number of threads, tasks, groups and       *)
(* levels, any size step, and arrays that grow any number of times.  The   *)
(* types hold for any number of owners, the rest when one thread owns the  *)
(* groups; any thread makes tasks and pushes them to the locked pool.      *)
(***************************************************************************)
EXTENDS Pushing, FiniteSetTheorems, SequenceTheorems, TLAPS

(***************************************************************************)
(* What every proof may use of the constants.                              *)
(***************************************************************************)
LEMMA Constants ==
  /\ Owners \subseteq Apps
  /\ STEP \in Nat \ {0} /\ UINT_MAX \in Nat /\ 0 \in Levels
  /\ EMPTY \notin Names
  /\ NULL \notin Apps \cup Tasks \cup Groups \cup Names \cup {EMPTY}
BY PushingAssumption

USE Constants

\* A thread looks for its group, makes it, and adds its task to it.
Finding  == {"test", "create", "open", "first", "search", "add"}
Named    == {"fill", "zero_num", "zero_size", "zero_q"}
New      == {"empty", "next", "link", "name", "copy"} \cup Named
Adding   == {"total", "totalled", "room", "grow", "store", "num", "numbered",
             "size", "sized"}
Grouping == Finding \cup New \cup Adding

\* There is a pool; the thread has read it; it clears the levels.
Looking == {"open", "first", "search", "add"}
Pooled  == {"first", "empty", "next", "link"}
Zeroing == {"zero_num", "zero_size", "zero_q"}

\* A thread that is not idle works on a task, in a group that it has.
Locals ==
  \A a \in Apps :
    /\ pc[a] # "idle" => task[a] \in Tasks
    /\ pc[a] \in Grouping => key[a] \in Names
    /\ pc[a] \in Looking => groups # NULL
    /\ pc[a] \in Pooled => pool[a] \in Apps
    /\ pc[a] \in New \cup Adding => at[a] \in Groups
    /\ pc[a] \in Zeroing => reg[a] \in Levels

TypeInv == TypeOK /\ Locals

(***************************************************************************)
(* How these kinds of steps lie to each other.                             *)
(***************************************************************************)
LEMMA StepSets ==
  /\ Grouping \cup {"idle", "number", "lock", "head", "put", "unlock",
                    "crashed"} = Steps
  /\ {"idle", "number", "lock", "head", "put", "unlock", "crashed"}
       \cap Grouping = {}
  /\ Finding \cap New = {} /\ (Finding \cup New) \cap Adding = {}
  /\ Looking \subseteq Finding /\ Pooled \subseteq Finding \cup New
  /\ Zeroing \subseteq Named /\ Named \subseteq New
  /\ Pooled \cap (Named \cup Adding) = {}
  /\ {"test", "create"} \subseteq Finding \ (Looking \cup Pooled)
  /\ {"open", "search", "add"} \subseteq Looking \ Pooled
  /\ "first" \in Looking \cap Pooled
  /\ {"empty", "next", "link"} \subseteq Pooled \cap New
  /\ {"name", "copy"} \subseteq New \ (Pooled \cup Named)
  /\ "fill" \in Named \ Zeroing
  /\ {"zero_num", "zero_size", "zero_q"} \subseteq Zeroing
BY DEF Steps, Finding, Named, New, Adding, Grouping, Looking, Pooled, Zeroing

(***************************************************************************)
(* An object that is free is allocated.                                    *)
(***************************************************************************)
LEMMA CallocType ==
  ASSUME NEW free, free # {}
  PROVE  Calloc(free) \in free
BY DEF Calloc

(***************************************************************************)
(* One entry of an array of arrays is written.                             *)
(***************************************************************************)
LEMMA EntryType ==
  ASSUME NEW D, NEW E, NEW X, NEW F \in [D -> [E -> X]], NEW g, NEW s,
         NEW x \in X
  PROVE  [F EXCEPT ![g][s] = x] \in [D -> [E -> X]]
OBVIOUS

(***************************************************************************)
(* What realloc returns: the old slots, then empty ones.                   *)
(***************************************************************************)
LEMMA ResizedType ==
  ASSUME NEW q \in Seq(Tasks \cup {NULL}), NEW n \in Nat
  PROVE  /\ Resized(q, n) \in Seq(Tasks \cup {NULL})
         /\ Len(Resized(q, n)) = n
         /\ \A j \in 1 .. n : j <= Len(q) => Resized(q, n)[j] = q[j]
BY DEF Resized

LEMMA InitTypeInv == Init => TypeInv
<1> SUFFICES ASSUME Init
             PROVE  TypeInv
  OBVIOUS
<1>1. TypeOK
  BY DEF Init, TypeOK, GroupTypeOK, Steps
<1>2. \A a \in Apps : pc[a] = "idle"
  BY DEF Init
<1>3. "idle" \notin Grouping \cup Looking \cup Pooled \cup New \cup Adding
                     \cup Zeroing
  BY DEF Finding, Named, New, Adding, Grouping, Looking, Pooled, Zeroing
<1>4. Locals
  BY <1>2, <1>3 DEF Locals
<1> QED
  BY <1>1, <1>4 DEF TypeInv

(***************************************************************************)
(* A thread goes on to its next step, and the locals that others have stay *)
(* as they are.                                                            *)
(***************************************************************************)
LEMMA GoType ==
  ASSUME TypeInv, NEW a \in Apps, NEW from, NEW to \in Steps, Go(a, from, to)
  PROVE  /\ pc[a] = from
         /\ pc' \in [Apps -> Steps]
         /\ pc'[a] = to
         /\ \A b \in Apps \ {a} : pc'[b] = pc[b]
BY DEF TypeInv, TypeOK, Go

LEMMA GoLocals ==
  ASSUME TypeInv, NEW a \in Apps, NEW from, NEW to \in Steps, Go(a, from, to),
         groups # NULL => groups' # NULL,
         \A b \in Apps \ {a} :
           /\ task'[b] = task[b] /\ key'[b] = key[b] /\ pool'[b] = pool[b]
           /\ at'[b] = at[b] /\ reg'[b] = reg[b],
         to # "idle" => task'[a] \in Tasks,
         to \in Grouping => key'[a] \in Names,
         to \in Looking => groups' # NULL,
         to \in Pooled => pool'[a] \in Apps,
         to \in New \cup Adding => at'[a] \in Groups,
         to \in Zeroing => reg'[a] \in Levels
  PROVE  Locals'
BY GoType DEF TypeInv, Locals

\* The types of the locals behind a step.
LocalTypes ==
  /\ pc' \in [Apps -> Steps]
  /\ task' \in [Apps -> Tasks \cup {NULL}]
  /\ key' \in [Apps -> Names \cup {NULL}]
  /\ pool' \in [Apps -> Apps \cup {NULL}]
  /\ at' \in [Apps -> Groups \cup {NULL}]
  /\ reg' \in [Apps -> Nat]
  /\ seen' \in [Apps -> Seq(Tasks)]

LEMMA ReturnType ==
  ASSUME TypeInv, NEW a \in Apps, NEW from, Return(a, from)
  PROVE  LocalTypes
<1>1. "idle" \in Steps /\ 0 \in Nat /\ << >> \in Seq(Tasks)
  BY DEF Steps
<1>2. pc' \in [Apps -> Steps]
  BY <1>1, GoType DEF Return
<1> QED
  BY <1>1, <1>2 DEF Return, LocalTypes, TypeInv, TypeOK

LEMMA TaskStepsType ==
  ASSUME TypeInv, NEW a \in Apps
  PROVE  /\ \A s \in Levels : AllocTask(a, s) => TypeInv'
         /\ NumberTask(a) => TypeInv'
         /\ \A t \in Tasks, x \in Names : Push(a, t, x) => TypeInv'
         /\ \A t \in Tasks : PushUngrouped(a, t) => TypeInv'
<1> USE DEF TypeInv, TypeOK, GroupTypeOK, Read, Return, taskVars, poolVars,
            groupVars, bucketVars, looseVars, callVars, localVars
<1>0. /\ \A x \in {"idle", "number", "lock"} :
            x \in Steps /\ x \notin Grouping \cup New \cup Adding \cup Looking
                                      \cup Pooled \cup Zeroing
      /\ "test" \in Steps \ (New \cup Adding \cup Looking \cup Pooled
                                 \cup Zeroing)
  BY DEF Steps, Finding, Named, New, Adding, Grouping, Looking, Pooled, Zeroing
<1>1. ASSUME NEW s \in Levels, AllocTask(a, s)
      PROVE  TypeInv'
  <2>1. Calloc(Tasks \ (made \cup Given)) \in Tasks
    BY <1>1, CallocType DEF AllocTask
  <2>2. TypeOK'
    BY <1>0, <1>1, <2>1, GoType DEF AllocTask
  <2>3. Locals'
    BY <1>0, <1>1, <2>1, GoLocals DEF AllocTask
  <2> QED
    BY <2>2, <2>3
<1>2. ASSUME NumberTask(a)
      PROVE  TypeInv'
  <2>0. task[a] \in Tasks /\ reg[a] \in Nat
    BY <1>0, <1>2 DEF NumberTask, Go, Locals
  <2> DEFINE n == reg[a] + 1
  <2>3. n \in Nat /\ id' = n
    BY <1>2, <2>0 DEF NumberTask
  <2> HIDE DEF n
  <2>4. task_id' \in [Tasks -> Nat] /\ made' \in SUBSET Tasks
    BY <1>2, <2>0 DEF NumberTask
  <2>5. LocalTypes
    BY <1>2, ReturnType DEF NumberTask
  <2>1. TypeOK'
    BY <1>2, <2>3, <2>4, <2>5 DEF NumberTask, LocalTypes
  <2>2. Locals'
    BY <1>0, <1>2, GoLocals DEF NumberTask
  <2> QED
    BY <2>1, <2>2
<1>3. ASSUME NEW t \in Tasks, NEW x \in Names, Push(a, t, x)
      PROVE  TypeInv'
  <2>1. TypeOK'
    BY <1>0, <1>3, GoType DEF Push
  <2>2. Locals'
    BY <1>0, <1>3, GoLocals DEF Push
  <2> QED
    BY <2>1, <2>2
<1>4. ASSUME NEW t \in Tasks, PushUngrouped(a, t)
      PROVE  TypeInv'
  <2>1. TypeOK'
    BY <1>0, <1>4, GoType DEF PushUngrouped
  <2>2. Locals'
    BY <1>0, <1>4, GoLocals DEF PushUngrouped
  <2> QED
    BY <2>1, <2>2
<1> QED
  BY <1>1, <1>2, <1>3, <1>4

(***************************************************************************)
(* create_group: the search, the pool, the name and the counters.          *)
(***************************************************************************)
LEMMA FindingType ==
  ASSUME TypeInv, NEW a \in Apps,
         \/ TestGroups(a) \/ CreatePool(a) \/ OpenPool(a) \/ SearchGroup(a)
  PROVE  TypeInv'
<1> USE DEF TypeInv, TypeOK, GroupTypeOK, taskVars, poolVars, groupVars,
            bucketVars, looseVars, callVars, localVars
<1>0. pc[a] \in Finding => task[a] \in Tasks /\ key[a] \in Names
  BY StepSets DEF Grouping, Locals
<1>1. CASE TestGroups(a)
  <2> DEFINE to == IF groups = NULL THEN "create" ELSE "open"
  <2>1. to \in Steps /\ to \in Finding /\ to # "idle"
    BY StepSets DEF Grouping
  <2>2. task[a] \in Tasks /\ key[a] \in Names
    BY <1>0, <1>1, StepSets DEF TestGroups, Go
  <2>3. TypeOK'
    BY <1>1, <2>1, GoType DEF TestGroups
  <2>4. to \notin New \cup Adding \cup Pooled \cup Zeroing
    BY StepSets
  <2>5. to \in Looking => groups # NULL
    BY StepSets
  <2>6. Locals'
    BY <1>1, <2>1, <2>2, <2>4, <2>5, GoLocals DEF TestGroups
  <2> QED
    BY <2>3, <2>6
<1>2. CASE CreatePool(a)
  <2>1. task[a] \in Tasks /\ key[a] \in Names
    BY <1>0, <1>2, StepSets DEF CreatePool, Go
  <2>0. "open" \in Steps \ (New \cup Adding \cup Pooled \cup Zeroing)
    BY StepSets DEF Grouping
  <2>2. TypeOK'
    BY <1>2, <2>0, GoType DEF CreatePool
  <2>3. Locals'
    BY <1>2, <2>0, <2>1, GoLocals DEF CreatePool
  <2> QED
    BY <2>2, <2>3
<1>3. CASE OpenPool(a)
  <2>1. task[a] \in Tasks /\ key[a] \in Names /\ groups \in Apps
    BY <1>0, <1>3, StepSets DEF OpenPool, ReadPool, Go, Locals
  <2>0. "first" \in Steps \ (New \cup Adding \cup Zeroing)
    BY StepSets DEF Grouping
  <2>2. TypeOK'
    BY <1>3, <2>0, <2>1, GoType DEF OpenPool, ReadPool
  <2>3. Locals'
    BY <1>3, <2>0, <2>1, GoLocals DEF OpenPool, ReadPool
  <2> QED
    BY <2>2, <2>3
<1>4. CASE SearchFirst(a) \/ SearchOn(a)
  <2>1. /\ task[a] \in Tasks /\ key[a] \in Names /\ groups # NULL
        /\ pc[a] \in {"first", "search"} /\ Go(a, pc[a], "search")
    BY <1>0, <1>4, StepSets DEF SearchFirst, SearchOn, Go, Locals
  <2>0. "search" \in Steps \ (New \cup Adding \cup Pooled \cup Zeroing)
    BY StepSets DEF Grouping
  <2>2. at' \in [Apps -> Groups \cup {NULL}]
    <3>1. CASE SearchFirst(a)
      <4>1. head[pool[a]] \in Groups \cup {NULL}
        BY <3>1, StepSets DEF SearchFirst, Go, Locals
      <4> QED
        BY <3>1, <4>1 DEF SearchFirst
    <3>2. CASE SearchOn(a)
      BY <3>2 DEF SearchOn
    <3> QED
      BY <1>4, <3>1, <3>2
  <2>3. \A b \in Apps \ {a} : at'[b] = at[b]
    BY <1>4 DEF SearchFirst, SearchOn
  <2>4. UNCHANGED <<taskVars, poolVars, groupVars, bucketVars, looseVars,
                    callVars, pool, reg, seen, pushed>>
    BY <1>4 DEF SearchFirst, SearchOn
  <2>5. TypeOK'
    BY <2>0, <2>1, <2>2, <2>4, GoType
  <2>6. Locals'
    BY <2>0, <2>1, <2>3, <2>4, GoLocals
  <2> QED
    BY <2>5, <2>6
<1>5. CASE SearchEnd(a)
  <2> DEFINE to == IF at[a] = NULL THEN "add"
                   ELSE IF name[at[a]] = NULL THEN "crashed" ELSE "total"
  <2>1. /\ to \in Steps /\ to # "idle"
        /\ to \notin Pooled \cup Zeroing
        /\ to \in New \cup Adding => at[a] \in Groups
    BY StepSets DEF Grouping, Adding
  <2>2. task[a] \in Tasks /\ key[a] \in Names /\ groups # NULL
    BY <1>0, <1>5, StepSets DEF SearchEnd, Go, Locals
  <2>5. /\ Go(a, "search", to)
        /\ UNCHANGED <<taskVars, poolVars, groupVars, bucketVars, looseVars,
                       callVars, localVars, pushed>>
    BY <1>5 DEF SearchEnd
  <2> HIDE DEF to
  <2>3. TypeOK'
    BY <2>1, <2>5, GoType
  <2>4. Locals'
    BY <2>1, <2>2, <2>5, GoLocals
  <2> QED
    BY <2>3, <2>4
<1> QED
  BY <1>1, <1>2, <1>3, <1>4, <1>5 DEF SearchGroup

LEMMA LinkingType ==
  ASSUME TypeInv, NEW a \in Apps,
         AllocGroup(a) \/ TestEmpty(a) \/ NextGroup(a) \/ LinkGroup(a)
  PROVE  TypeInv'
<1> USE DEF TypeInv, TypeOK, GroupTypeOK, taskVars, poolVars, groupVars,
            bucketVars, looseVars, callVars, localVars
<1>0. /\ pc[a] \in Finding \cup New => task[a] \in Tasks /\ key[a] \in Names
      /\ pc[a] \in New => at[a] \in Groups
      /\ pc[a] \in Pooled => pool[a] \in Apps
  BY StepSets DEF Grouping, Locals
<1>6. \A x \in {"empty", "next", "link", "name"} :
         x \in Steps \ (Looking \cup Adding \cup Zeroing) /\ x # "idle"
  BY DEF Steps, Looking, Adding, Zeroing
<1>1. CASE AllocGroup(a)
  <2> DEFINE g == Calloc(Groups \ allocated)
  <2>1. g \in Groups
    <3>1. Groups \ allocated # {}
      BY <1>1 DEF AllocGroup
    <3> QED
      BY <3>1, CallocType
  <2>2. /\ allocated' = allocated \cup {g}
        /\ at' = [at EXCEPT ![a] = g]
    BY <1>1 DEF AllocGroup
  <2> HIDE DEF g
  <2>3. task[a] \in Tasks /\ key[a] \in Names /\ groups \in Apps
    BY <1>0, <1>1, StepSets DEF AllocGroup, ReadPool, Go, Locals
  <2>6. /\ Go(a, "add", "empty")
        /\ pool' = [pool EXCEPT ![a] = groups]
        /\ UNCHANGED <<taskVars, groups, head, next, groupVars, bucketVars,
                       looseVars, callVars, reg, seen, pushed>>
    BY <1>1 DEF AllocGroup, ReadPool
  <2>4. TypeOK'
    BY <1>6, <2>1, <2>2, <2>3, <2>6, GoType
  <2>5. Locals'
    BY <1>6, <2>1, <2>2, <2>3, <2>6, GoLocals
  <2> QED
    BY <2>4, <2>5
<1>2. CASE TestEmpty(a)
  <2> DEFINE to == IF head[pool[a]] = NULL THEN "link" ELSE "next"
  <2>1. /\ task[a] \in Tasks /\ key[a] \in Names /\ at[a] \in Groups
        /\ pool[a] \in Apps
    BY <1>0, <1>2, StepSets DEF TestEmpty, Go
  <2>2. to \in {"next", "link"} /\ Go(a, "empty", to)
    BY <1>2 DEF TestEmpty
  <2> HIDE DEF to
  <2>3. TypeOK'
    BY <1>2, <1>6, <2>2, GoType DEF TestEmpty
  <2>4. Locals'
    BY <1>2, <1>6, <2>1, <2>2, GoLocals DEF TestEmpty
  <2> QED
    BY <2>3, <2>4
<1>3. CASE NextGroup(a)
  <2>1. /\ task[a] \in Tasks /\ key[a] \in Names /\ at[a] \in Groups
        /\ pool[a] \in Apps
    BY <1>0, <1>3, StepSets DEF NextGroup, Go
  <2>2. TypeOK'
    BY <1>3, <1>6, <2>1, GoType DEF NextGroup
  <2>3. Locals'
    BY <1>3, <1>6, <2>1, GoLocals DEF NextGroup
  <2> QED
    BY <2>2, <2>3
<1>4. CASE LinkGroup(a)
  <2>1. task[a] \in Tasks /\ key[a] \in Names /\ at[a] \in Groups
    BY <1>0, <1>4, StepSets DEF LinkGroup, Go
  <2>2. TypeOK'
    BY <1>4, <1>6, <2>1, GoType DEF LinkGroup
  <2>3. "name" \notin Pooled
    BY StepSets
  <2>4. Locals'
    BY <1>4, <1>6, <2>1, <2>3, GoLocals DEF LinkGroup
  <2> QED
    BY <2>2, <2>4
<1> QED
  BY <1>1, <1>2, <1>3, <1>4

LEMMA NamingType ==
  ASSUME TypeInv, NEW a \in Apps, NameGroup(a) \/ FillGroup(a)
  PROVE  TypeInv'
<1> USE DEF TypeInv, TypeOK, GroupTypeOK, taskVars, poolVars, groupVars,
            bucketVars, looseVars, callVars, localVars
<1>0. pc[a] \in New =>
         task[a] \in Tasks /\ key[a] \in Names /\ at[a] \in Groups
  BY StepSets DEF Grouping, Locals
<1>1. ASSUME NEW from \in {"name", "copy"}, NEW to \in {"copy", "fill"},
             NEW x \in Names \cup {EMPTY, NULL}, SetName(a, from, to, x)
      PROVE  TypeInv'
  <2>0. to \in Steps \ (Looking \cup Pooled \cup Adding \cup Zeroing)
    BY DEF Steps, Looking, Pooled, Adding, Zeroing
  <2>1. task[a] \in Tasks /\ key[a] \in Names /\ at[a] \in Groups
    BY <1>0, <1>1, StepSets DEF SetName, Go
  <2>2. TypeOK'
    BY <1>1, <2>0, <2>1, GoType DEF SetName
  <2>3. Locals'
    BY <1>1, <2>0, <2>1, GoLocals DEF SetName
  <2> QED
    BY <2>2, <2>3
<1>2. NameGroup(a) => TypeInv'
  <2>1. pc[a] = "copy" => key[a] \in Names
    BY <1>0, StepSets
  <2> QED
    BY <1>1, <2>1 DEF NameGroup, SetName, Go
<1>3. CASE FillGroup(a)
  <2>0. "zero_num" \in Steps \ (Looking \cup Pooled \cup Adding)
    BY DEF Steps, Looking, Pooled, Adding
  <2>1. task[a] \in Tasks /\ key[a] \in Names /\ at[a] \in Groups
    BY <1>0, <1>3, StepSets DEF FillGroup, Go
  <2>2. reg' = [reg EXCEPT ![a] = 0] /\ 0 \in Levels
    BY <1>3 DEF FillGroup
  <2>5. /\ total' \in [Groups -> Nat] /\ reg' \in [Apps -> Nat]
        /\ pc' \in [Apps -> Steps]
    BY <1>3, <2>0, <2>1, GoType DEF FillGroup
  <2>6. UNCHANGED <<taskVars, poolVars, name, bucketVars, looseVars, callVars,
                    pool, at, seen, pushed>>
    BY <1>3 DEF FillGroup
  <2>7. GroupTypeOK'
    BY <2>5, <2>6
  <2>8. LocalTypes
    BY <2>5, <2>6 DEF LocalTypes
  <2> HIDE DEF GroupTypeOK
  <2>3. TypeOK'
    BY <2>6, <2>7, <2>8 DEF LocalTypes
  <2>4. Locals'
    BY <1>3, <2>0, <2>1, <2>2, GoLocals DEF FillGroup
  <2> QED
    BY <2>3, <2>4
<1> QED
  BY <1>2, <1>3

LEMMA ZeroingType ==
  ASSUME TypeInv, NEW a \in Apps, ZeroLevel(a)
  PROVE  TypeInv'
<1> USE DEF TypeInv, taskVars, poolVars, groupVars, bucketVars, looseVars,
            callVars, localVars
<1>0. pc[a] \in Zeroing => /\ task[a] \in Tasks /\ key[a] \in Names
                           /\ at[a] \in Groups /\ reg[a] \in Levels
  BY StepSets DEF Grouping, Locals, TypeOK
<1>1. \A x \in {"zero_num", "zero_size", "zero_q"} :
         x \in Steps \ (Looking \cup Pooled \cup Adding) /\ x # "idle"
  BY DEF Steps, Looking, Pooled, Adding
<1>2. /\ pending_num \in [Groups -> [Levels -> Nat]]
      /\ pending_num_size \in [Groups -> [Levels -> Nat]]
      /\ pending_q \in [Groups -> [Levels -> Seq(Tasks \cup {NULL})]]
      /\ 0 \in Nat /\ << >> \in Seq(Tasks \cup {NULL})
  BY DEF TypeOK, GroupTypeOK
<1>3. CASE ZeroNum(a)
  <2>1. pending_num' \in [Groups -> [Levels -> Nat]]
    BY <1>2, <1>3, EntryType DEF ZeroNum
  <2>2. TypeOK'
    BY <1>1, <1>3, <2>1, GoType DEF ZeroNum, TypeOK, GroupTypeOK
  <2>3. Locals'
    BY <1>0, <1>1, <1>3, StepSets, GoLocals DEF ZeroNum, Go
  <2> QED
    BY <2>2, <2>3
<1>4. CASE ZeroSize(a)
  <2>1. pending_num_size' \in [Groups -> [Levels -> Nat]]
    BY <1>2, <1>4, EntryType DEF ZeroSize
  <2>2. TypeOK'
    BY <1>1, <1>4, <2>1, GoType DEF ZeroSize, TypeOK, GroupTypeOK
  <2>3. Locals'
    BY <1>0, <1>1, <1>4, StepSets, GoLocals DEF ZeroSize, Go
  <2> QED
    BY <2>2, <2>3
<1>5. CASE ZeroQueue(a)
  <2> DEFINE to == IF Higher(reg[a]) = {} THEN "total" ELSE "zero_num"
  <2>1. pending_q' \in [Groups -> [Levels -> Seq(Tasks \cup {NULL})]]
    BY <1>2, <1>5, EntryType DEF ZeroQueue
  <2>2. /\ task[a] \in Tasks /\ key[a] \in Names /\ at[a] \in Groups
        /\ reg[a] \in Levels
    BY <1>0, <1>5, StepSets DEF ZeroQueue, Go
  <2>3. \E s \in Levels : reg' = [reg EXCEPT ![a] = s]
    <3>1. CASE Higher(reg[a]) = {}
      <4>1. reg' = [reg EXCEPT ![a] = reg[a]]
        BY <1>5, <3>1 DEF ZeroQueue, TypeOK
      <4> QED
        BY <2>2, <4>1
    <3>2. CASE Higher(reg[a]) # {}
      BY <1>5, <3>2 DEF ZeroQueue, Higher
    <3> QED
      BY <3>1, <3>2
  <2>4. PICK s \in Levels : reg' = [reg EXCEPT ![a] = s]
    BY <2>3
  <2>5. reg \in [Apps -> Nat] /\ reg' \in [Apps -> Nat]
    BY <2>4, PushingAssumption DEF TypeOK
  <2>6. /\ to \in Steps \ (Looking \cup Pooled) /\ to # "idle"
        /\ Go(a, "zero_q", to)
    BY <1>1, <1>5, StepSets DEF ZeroQueue, Adding, Grouping
  <2>9. UNCHANGED <<taskVars, poolVars, groupVars, pending_num,
                    pending_num_size, looseVars, callVars, pool, at, seen,
                    pushed>>
    BY <1>5 DEF ZeroQueue
  <2> HIDE DEF to
  <2>7. TypeOK'
    BY <2>1, <2>5, <2>6, <2>9, GoType DEF TypeOK, GroupTypeOK
  <2>8. Locals'
    BY <2>2, <2>4, <2>5, <2>6, <2>9, GoLocals
  <2> QED
    BY <2>7, <2>8
<1> QED
  BY <1>3, <1>4, <1>5 DEF ZeroLevel

LEMMA AddTaskType ==
  ASSUME TypeInv, NEW a \in Apps, AddTask(a)
  PROVE  TypeInv'
<1> USE DEF TypeInv, Read, taskVars, poolVars, groupVars,
            bucketVars, looseVars, callVars, localVars
<1> DEFINE g == at[a]
           s == Sig(a)
<1>0. /\ {"total", "totalled", "room", "grow", "store", "num", "numbered",
          "size", "sized"} \subseteq Adding
      /\ {"idle", "crashed"} \cap Grouping = {}
      /\ New \cup Adding \subseteq Grouping /\ Grouping \subseteq Steps
      /\ Looking \cup Pooled \cup Zeroing \subseteq Grouping
      /\ {"idle", "crashed"} \subseteq Steps
      /\ Adding \cap (Looking \cup Pooled \cup Zeroing) = {}
      /\ "idle" \notin Adding
  BY StepSets DEF Adding, Grouping
<1>1. pc[a] \in Adding => /\ g \in Groups /\ s \in Levels
                          /\ task[a] \in Tasks /\ key[a] \in Names
  BY <1>0 DEF Sig, Locals, TypeOK
<1> HIDE DEF g, s
<1>10. /\ reg \in [Apps -> Nat] /\ total \in [Groups -> Nat]
      /\ pending_num \in [Groups -> [Levels -> Nat]]
      /\ pending_num_size \in [Groups -> [Levels -> Nat]]
      /\ pending_q \in [Groups -> [Levels -> Seq(Tasks \cup {NULL})]]
  BY DEF TypeOK, GroupTypeOK
<1>2. CASE ReadTotal(a)
  <2>1. g \in Groups /\ task[a] \in Tasks /\ key[a] \in Names
    BY <1>0, <1>1, <1>2 DEF ReadTotal, Go
  <2>2. TypeOK'
    BY <1>0, <1>2, <2>1, GoType DEF g, ReadTotal,
       TypeOK, GroupTypeOK
  <2>3. Locals'
    BY <1>0, <1>2, <2>1, GoLocals DEF g, ReadTotal
  <2> QED
    BY <2>2, <2>3
<1>3. CASE WriteTotal(a)
  <2>1. g \in Groups /\ task[a] \in Tasks /\ key[a] \in Names
    BY <1>0, <1>1, <1>3 DEF WriteTotal, Go
  <2> DEFINE n == reg[a] + 1
  <2>5. total' = [total EXCEPT ![g] = n] /\ n \in Nat
    BY <1>10, <1>3 DEF WriteTotal, g
  <2> HIDE DEF n
  <2>2. total' \in [Groups -> Nat]
    BY <1>10, <2>5
  <2>3. TypeOK'
    BY <1>0, <1>3, <2>2, GoType DEF WriteTotal,
       TypeOK, GroupTypeOK
  <2>4. Locals'
    BY <1>0, <1>3, <2>1, GoLocals DEF g, WriteTotal
  <2> QED
    BY <2>3, <2>4
<1>4. CASE TestRoom(a)
  <2>1. g \in Groups /\ task[a] \in Tasks /\ key[a] \in Names
    BY <1>0, <1>1, <1>4 DEF TestRoom, Go
  <2> DEFINE to == IF pending_num_size[g][s] = 0 THEN "grow" ELSE "store"
  <2>2. to \in Adding /\ to \in Steps
    BY <1>0
  <2>3. TypeOK'
    BY <1>4, <2>2, GoType DEF g, s, TestRoom,
       TypeOK, GroupTypeOK
  <2>4. Locals'
    BY <1>0, <1>4, <2>1, <2>2, GoLocals DEF g, s, TestRoom
  <2> QED
    BY <2>3, <2>4
<1>5. CASE Grow(a)
  <2> DEFINE n == pending_num[g][s] + STEP
             q == pending_q[g][s]
  <2>1. g \in Groups /\ s \in Levels /\ task[a] \in Tasks /\ key[a] \in Names
    BY <1>0, <1>1, <1>5 DEF Grow, GrowTo, Go
  <2>9. pending_num[g][s] \in Nat /\ q \in Seq(Tasks \cup {NULL})
    BY <1>10, <2>1
  <2>2. n \in Nat /\ q \in Seq(Tasks \cup {NULL})
    BY <2>9
  <2>3. Resized(q, n) \in Seq(Tasks \cup {NULL}) /\ STEP \in Nat
    BY <2>2, ResizedType
  <2>4. /\ pending_q' = [pending_q EXCEPT ![g][s] = Resized(q, n)]
        /\ pending_num_size' = [pending_num_size EXCEPT ![g][s] = STEP]
    BY <1>5 DEF Grow, GrowTo, g, s
  <2>5. pending_q' \in [Groups -> [Levels -> Seq(Tasks \cup {NULL})]]
    <3> HIDE DEF q, n
    <3> QED
      BY <1>10, <2>3, <2>4, EntryType
  <2>6. pending_num_size' \in [Groups -> [Levels -> Nat]]
    <3> HIDE DEF q, n
    <3> QED
      BY <1>10, <2>3, <2>4, EntryType
  <2>7. TypeOK'
    BY <1>0, <1>5, <2>5, <2>6, GoType DEF Grow, GrowTo,
       TypeOK, GroupTypeOK
  <2>8. Locals'
    BY <1>0, <1>5, <2>1, GoLocals DEF g, Grow, GrowTo
  <2> QED
    BY <2>7, <2>8
<1>6. CASE Store(a)
  <2> DEFINE q == pending_q[g][s]
             r == IF Slot(a) <= Len(q) THEN [q EXCEPT ![Slot(a)] = task[a]] ELSE q
             to == IF Slot(a) <= Len(q) THEN "num" ELSE "crashed"
  <2>1. g \in Groups /\ s \in Levels /\ task[a] \in Tasks /\ key[a] \in Names
    BY <1>0, <1>1, <1>6 DEF Store, Go
  <2>10. pending_num[g][s] \in Nat /\ q \in Seq(Tasks \cup {NULL})
    BY <1>10, <2>1
  <2>2. Slot(a) \in Nat /\ q \in Seq(Tasks \cup {NULL})
    BY <2>10 DEF Slot, g, s
  <2>3. r \in Seq(Tasks \cup {NULL})
    BY <2>1, <2>2
  <2>4. pending_q' = [pending_q EXCEPT ![g][s] = r]
    BY <1>6 DEF Store, g, s
  <2>5. pending_q' \in [Groups -> [Levels -> Seq(Tasks \cup {NULL})]]
    <3> HIDE DEF r
    <3> QED
      BY <1>10, <2>3, <2>4, EntryType
  <2>9. Go(a, "store", to)
    BY <1>6 DEF Store, g, s
  <2>6. to \in Steps /\ (to = "crashed" \/ to \in Adding)
    BY <1>0
  <2>7. TypeOK'
    <3> HIDE DEF to
    <3> QED
      BY <1>6, <2>5, <2>6, <2>9, GoType DEF Store,
       TypeOK, GroupTypeOK
  <2>8. Locals'
    <3> HIDE DEF to
    <3> QED
      BY <1>0, <1>6, <2>1, <2>6, <2>9, GoLocals DEF g, Store
  <2> QED
    BY <2>7, <2>8
<1>7. CASE ReadCounter(a)
  <2>1. g \in Groups /\ s \in Levels /\ task[a] \in Tasks /\ key[a] \in Names
    BY <1>0, <1>1, <1>7 DEF ReadCounter, Go
  <2>2. PICK to \in {"numbered", "sized"} : Go(a, pc[a], to)
    BY <1>7 DEF ReadCounter, Go
  <2>3. pending_num[g][s] \in Nat /\ pending_num_size[g][s] \in Nat
    BY <1>10, <2>1
  <2>4. reg' \in [Apps -> Nat]
    BY <1>7, <1>10, <2>3 DEF ReadCounter, g, s
  <2>5. TypeOK'
    BY <1>0, <1>7, <2>2, <2>4, GoType DEF ReadCounter,
       TypeOK, GroupTypeOK
  <2>7. to \in Adding
    BY <1>0
  <2>8. /\ \A b \in Apps \ {a} : reg'[b] = reg[b]
        /\ UNCHANGED <<task, key, pool, at, groups>>
    BY <1>7, <1>10 DEF ReadCounter
  <2>6. Locals'
    BY <1>0, <2>1, <2>2, <2>7, <2>8, GoLocals DEF g
  <2> QED
    BY <2>5, <2>6
<1>8. CASE WriteNum(a)
  <2>1. g \in Groups /\ s \in Levels /\ task[a] \in Tasks /\ key[a] \in Names
    BY <1>0, <1>1, <1>8 DEF WriteNum, Go
  <2> DEFINE n == reg[a] + 1
  <2>2. pending_num' = [pending_num EXCEPT ![g][s] = n] /\ n \in Nat
    BY <1>8, <1>10 DEF WriteNum, g, s
  <2> HIDE DEF n
  <2>3. pending_num' \in [Groups -> [Levels -> Nat]]
    BY <1>10, <2>2, EntryType
  <2>4. TypeOK'
    BY <1>0, <1>8, <2>3, GoType DEF WriteNum,
       TypeOK, GroupTypeOK
  <2>5. Locals'
    BY <1>0, <1>8, <2>1, GoLocals DEF g, WriteNum
  <2> QED
    BY <2>4, <2>5
<1>9. CASE WriteSize(a)
  <2> DEFINE n == IF reg[a] = 0 THEN UINT_MAX ELSE reg[a] - 1
  <2>1. task[a] \in Tasks /\ key[a] \in Names
    BY <1>0, <1>1, <1>9 DEF WriteSize, Done, Return, Go
  <2>2. pending_num_size' = [pending_num_size EXCEPT ![g][s] = n] /\ n \in Nat
    BY <1>9, <1>10 DEF WriteSize, g, s
  <2>3. pending_num_size' \in [Groups -> [Levels -> Nat]]
    <3> HIDE DEF n
    <3> QED
      BY <1>10, <2>2, EntryType
  <2>6. <<task[a], key[a]>> \in Tasks \X (Names \cup {NULL})
    BY <2>1
  <2>7. LocalTypes
    BY <1>0, <1>9, GoType, ReturnType DEF WriteSize, Done
  <2>4. TypeOK'
    BY <1>9, <2>3, <2>6, <2>7 DEF WriteSize, Done, LocalTypes, TypeOK,
       GroupTypeOK
  <2>5. Locals'
    BY <1>0, <1>9, GoLocals DEF WriteSize, Done, Return
  <2> QED
    BY <2>4, <2>5
<1> QED
  BY <1>2, <1>3, <1>4, <1>5, <1>6, <1>7, <1>8, <1>9 DEF AddTask

LEMMA AddUngroupedType ==
  ASSUME TypeInv, NEW a \in Apps, AddUngrouped(a)
  PROVE  TypeInv'
<1> USE DEF TypeInv, taskVars, poolVars, groupVars,
            bucketVars, looseVars, callVars, localVars
<1>0. /\ {"idle", "lock", "head", "put", "unlock"} \subseteq Steps \ Grouping
      /\ New \cup Adding \subseteq Grouping
      /\ Looking \cup Pooled \cup Zeroing \subseteq Grouping
  BY StepSets DEF Grouping
<1>1. pc[a] # "idle" => task[a] \in Tasks
  BY DEF Locals, TypeOK
<1>2. CASE LockPool(a)
  <2>1. TypeOK'
    BY <1>0, <1>2, GoType DEF LockPool, BargeIn,
       TypeOK, GroupTypeOK
  <2>2. Locals'
    BY <1>0, <1>1, <1>2, GoLocals DEF LockPool, BargeIn, Go
  <2> QED
    BY <2>1, <2>2
<1>3. CASE ReadHead(a)
  <2>1. TypeOK'
    BY <1>0, <1>3, GoType DEF ReadHead,
       TypeOK, GroupTypeOK
  <2>2. Locals'
    BY <1>0, <1>1, <1>3, GoLocals DEF ReadHead, Go
  <2> QED
    BY <2>1, <2>2
<1>4. CASE PutHead(a)
  <2>1. task[a] \in Tasks /\ seen[a] \in Seq(Tasks)
    BY <1>1, <1>4 DEF PutHead, Put, Go, TypeOK
  <2>2. <<task[a]>> \o seen[a] \in Seq(Tasks)
    BY <2>1
  <2>3. TypeOK'
    BY <1>0, <1>4, <2>2, GoType DEF PutHead, Put,
       TypeOK, GroupTypeOK
  <2>4. Locals'
    BY <1>0, <1>1, <1>4, GoLocals DEF PutHead, Put, Go
  <2> QED
    BY <2>3, <2>4
<1>5. CASE UnlockPool(a)
  <2>1. task[a] \in Tasks /\ key[a] \in Names \cup {NULL}
    BY <1>1, <1>5 DEF UnlockPool, ReturnWith, Done, Return, Go, TypeOK
  <2>4. <<task[a], key[a]>> \in Tasks \X (Names \cup {NULL})
    BY <2>1
  <2>5. LocalTypes
    BY <1>0, <1>5, GoType, ReturnType DEF UnlockPool, ReturnWith, Done
  <2>2. TypeOK'
    BY <1>5, <2>4, <2>5 DEF UnlockPool, ReturnWith, Done, LocalTypes, TypeOK,
       GroupTypeOK
  <2>3. Locals'
    BY <1>0, <1>1, <1>5, GoLocals DEF UnlockPool, ReturnWith, Done, Return
  <2> QED
    BY <2>2, <2>3
<1> QED
  BY <1>2, <1>3, <1>4, <1>5 DEF AddUngrouped

LEMMA NextTypeInv == TypeInv /\ [Next]_vars => TypeInv'
<1> SUFFICES ASSUME TypeInv, [Next]_vars
             PROVE  TypeInv'
  OBVIOUS
<1>1. ASSUME NEW a \in Apps, Application(a) \/ Call(a)
      PROVE  TypeInv'
  BY <1>1, TaskStepsType, FindingType, LinkingType, NamingType, ZeroingType,
     AddTaskType, AddUngroupedType DEF Application, Call, CreateGroup
<1>2. CASE UNCHANGED vars
  BY <1>2 DEF TypeInv, TypeOK, GroupTypeOK, Locals, vars, taskVars, poolVars,
     groupVars, bucketVars, looseVars, callVars, localVars
<1> QED
  BY <1>1, <1>2 DEF Next

LEMMA InvariantTypeInv == Spec => []TypeInv
BY InitTypeInv, NextTypeInv, PTL DEF Spec

(***************************************************************************)
(* The fields of the tasks and groups and the locals of the threads keep   *)
(* their types, whatever threads push to the groups.                       *)
(***************************************************************************)
THEOREM TypeCorrect == Spec => []TypeOK
<1>1. TypeInv => TypeOK
  BY DEF TypeInv
<1> QED
  BY <1>1, InvariantTypeInv, PTL

-----------------------------------------------------------------------------
(***************************************************************************)
(* A step of one thread leaves the locals of the others as they are.       *)
(***************************************************************************)
Still(b) ==
  /\ pc'[b] = pc[b] /\ task'[b] = task[b] /\ key'[b] = key[b]
  /\ pool'[b] = pool[b] /\ at'[b] = at[b]
  /\ reg'[b] = reg[b] /\ seen'[b] = seen[b]

\* A thread outside of its group: it makes a task or uses the locked pool.
Outside == {"idle", "number", "lock", "head", "put", "unlock"}

LEMMA OutsideFrame ==
  ASSUME TypeInv, NEW a \in Apps,
         Application(a) \/ NumberTask(a) \/ AddUngrouped(a)
  PROVE  /\ pc[a] \in Outside
         /\ pc'[a] \in Outside \/ (pc'[a] = "test" /\ a \in Owners)
         /\ UNCHANGED <<poolVars, groupVars, bucketVars>>
         /\ \A b \in Apps \ {a} : Still(b)
<1> USE DEF TypeInv, TypeOK, Still, Go, Read, Return, Outside, callVars,
            localVars, bucketVars
<1>1. ASSUME NEW s \in Levels, AllocTask(a, s)
      PROVE  /\ pc[a] \in Outside /\ pc'[a] \in Outside
             /\ UNCHANGED <<poolVars, groupVars, bucketVars>>
             /\ \A b \in Apps \ {a} : Still(b)
  BY <1>1 DEF AllocTask
<1>2. ASSUME NEW t \in Tasks, PushUngrouped(a, t)
      PROVE  /\ pc[a] \in Outside /\ pc'[a] \in Outside
             /\ UNCHANGED <<poolVars, groupVars, bucketVars>>
             /\ \A b \in Apps \ {a} : Still(b)
  BY <1>2 DEF PushUngrouped
<1>3. ASSUME NEW t \in Tasks, NEW x \in Names, Push(a, t, x)
      PROVE  /\ pc[a] \in Outside /\ pc'[a] = "test" /\ a \in Owners
             /\ UNCHANGED <<poolVars, groupVars, bucketVars>>
             /\ \A b \in Apps \ {a} : Still(b)
  BY <1>3 DEF Push
<1>4. ASSUME NumberTask(a)
      PROVE  /\ pc[a] \in Outside /\ pc'[a] \in Outside
             /\ UNCHANGED <<poolVars, groupVars, bucketVars>>
             /\ \A b \in Apps \ {a} : Still(b)
  BY <1>4 DEF NumberTask
<1>5. ASSUME AddUngrouped(a)
      PROVE  /\ pc[a] \in Outside /\ pc'[a] \in Outside
             /\ UNCHANGED <<poolVars, groupVars, bucketVars>>
             /\ \A b \in Apps \ {a} : Still(b)
  BY <1>5 DEF AddUngrouped, LockPool, BargeIn, ReadHead, PutHead, Put,
     UnlockPool, ReturnWith, Done, groupVars
<1> QED
  BY <1>1, <1>2, <1>3, <1>4, <1>5 DEF Application

(***************************************************************************)
(* create_group gets nowhere but to the push or to a crash, and works on   *)
(* groups alone.                                                           *)
(***************************************************************************)
LEMMA CreateFrame ==
  ASSUME TypeInv, NEW a \in Apps, CreateGroup(a)
  PROVE  /\ pc[a] \in Finding \cup New
         /\ pc'[a] \in Finding \cup New \cup {"total", "crashed"}
         /\ UNCHANGED <<taskVars, looseVars, callVars, pushed>>
         /\ \A b \in Apps \ {a} : Still(b)
<1> USE DEF TypeInv, TypeOK, Still, Go, callVars, localVars
<1> DEFINE Kept == /\ UNCHANGED <<taskVars, looseVars, callVars, pushed>>
                   /\ \A b \in Apps \ {a} : Still(b)
<1>1. CASE TestGroups(a) \/ CreatePool(a) \/ OpenPool(a) \/ SearchGroup(a)
  <2>1. Kept
    BY <1>1 DEF TestGroups, CreatePool, OpenPool, ReadPool, SearchGroup,
       SearchFirst, SearchOn, SearchEnd
  <2>2. /\ pc[a] \in {"test", "create", "open", "first", "search"}
        /\ pc'[a] \in {"create", "open", "first", "search", "add", "total",
                       "crashed"}
    BY <1>1 DEF TestGroups, CreatePool, OpenPool, ReadPool, SearchGroup,
       SearchFirst, SearchOn, SearchEnd
  <2> QED
    BY <2>1, <2>2 DEF Finding
<1>2. CASE AllocGroup(a) \/ TestEmpty(a) \/ NextGroup(a) \/ LinkGroup(a)
  <2>1. Kept
    BY <1>2 DEF AllocGroup, ReadPool, TestEmpty, NextGroup, LinkGroup
  <2>2. /\ pc[a] \in {"add", "empty", "next", "link"}
        /\ pc'[a] \in {"empty", "next", "link", "name"}
    BY <1>2 DEF AllocGroup, ReadPool, TestEmpty, NextGroup, LinkGroup
  <2> QED
    BY <2>1, <2>2 DEF Finding, New
<1>3. CASE NameGroup(a) \/ FillGroup(a)
  <2>1. Kept
    BY <1>3 DEF NameGroup, SetName, FillGroup
  <2>2. /\ pc[a] \in {"name", "copy", "fill"}
        /\ pc'[a] \in {"copy", "fill", "zero_num"}
    BY <1>3 DEF NameGroup, SetName, FillGroup
  <2> QED
    BY <2>1, <2>2 DEF New, Named
<1>4. CASE ZeroLevel(a)
  <2>1. Kept
    <3>1. \A b \in Apps \ {a} : reg'[b] = reg[b]
      BY <1>4 DEF ZeroLevel, ZeroNum, ZeroSize, ZeroQueue
    <3> QED
      BY <1>4, <3>1 DEF ZeroLevel, ZeroNum, ZeroSize, ZeroQueue
  <2>2. /\ pc[a] \in {"zero_num", "zero_size", "zero_q"}
        /\ pc'[a] \in {"zero_num", "zero_size", "zero_q", "total"}
    BY <1>4 DEF ZeroLevel, ZeroNum, ZeroSize, ZeroQueue
  <2> QED
    BY <2>1, <2>2 DEF New, Named
<1> QED
  BY <1>1, <1>2, <1>3, <1>4 DEF CreateGroup

(***************************************************************************)
(* The push adds its task to one bucket of one group.                      *)
(***************************************************************************)
\* The arrays and counters of a group stay as they are.
Untouched(g) ==
  /\ total'[g] = total[g] /\ pending_q'[g] = pending_q[g]
  /\ pending_num'[g] = pending_num[g]
  /\ pending_num_size'[g] = pending_num_size[g]

LEMMA AddFrame ==
  ASSUME TypeInv, NEW a \in Apps, AddTask(a)
  PROVE  /\ pc[a] \in Adding
         /\ pc'[a] \in Adding \cup {"idle", "crashed"}
         /\ pc'[a] # "idle" => UNCHANGED <<callVars, at>>
         /\ UNCHANGED <<level, poolVars, name, looseVars>>
         /\ \A b \in Apps \ {a} : Still(b)
         /\ \A g \in Groups : g # at[a] => Untouched(g)
<1>0. /\ pc \in [Apps -> Steps] /\ reg \in [Apps -> Nat]
      /\ total \in [Groups -> Nat]
      /\ pending_num \in [Groups -> [Levels -> Nat]]
      /\ pending_num_size \in [Groups -> [Levels -> Nat]]
      /\ pending_q \in [Groups -> [Levels -> Seq(Tasks \cup {NULL})]]
  BY DEF TypeInv, TypeOK, GroupTypeOK
<1>1. /\ pc[a] \in Adding
      /\ pc'[a] \in Adding \cup {"idle", "crashed"}
      /\ pc'[a] # "idle" => UNCHANGED <<callVars, at>>
  BY <1>0 DEF AddTask, ReadTotal, WriteTotal, TestRoom, Grow, GrowTo, Store,
     ReadCounter, Read, WriteNum, WriteSize, Done, Return, Go, Adding, callVars,
     localVars
<1>2. /\ UNCHANGED <<level, poolVars, name, looseVars>>
      /\ \A b \in Apps \ {a} : Still(b)
  BY <1>0 DEF AddTask, ReadTotal, WriteTotal, TestRoom, Grow, GrowTo, Store,
     ReadCounter, Read, WriteNum, WriteSize, Done, Return, Go, taskVars,
     groupVars, callVars, localVars, Still, TypeInv, TypeOK
<1>3. ASSUME NEW g \in Groups, g # at[a]
      PROVE  Untouched(g)
  <2>1. CASE ReadTotal(a) \/ WriteTotal(a) \/ TestRoom(a) \/ ReadCounter(a)
    BY <1>0, <1>3, <2>1 DEF ReadTotal, WriteTotal, TestRoom, ReadCounter,
       groupVars, bucketVars, Untouched
  <2>2. CASE Grow(a) \/ Store(a)
    BY <1>0, <1>3, <2>2 DEF Grow, GrowTo, Store, groupVars, Untouched
  <2>3. CASE WriteNum(a) \/ WriteSize(a)
    BY <1>0, <1>3, <2>3 DEF WriteNum, WriteSize, Done, groupVars, Untouched
  <2> QED
    BY <2>1, <2>2, <2>3 DEF AddTask
<1> QED
  BY <1>1, <1>2, <1>3

-----------------------------------------------------------------------------
(***************************************************************************)
(* The rest of the invariant needs one owner of the groups.                *)
(***************************************************************************)
OneOwner == \A a, b \in Owners : a = b

\* The steps of a thread that pushes to a group.
Owning == Grouping \cup {"crashed"}

\* Threads that are not owners make tasks and use the locked pool only.
OwnersOnly == \A a \in Apps : pc[a] \in Owning => a \in Owners

LEMMA OthersWait ==
  ASSUME TypeInv, OwnersOnly, NEW a \in Apps, Application(a) \/ Call(a)
  PROVE  /\ \A b \in Apps \ {a} : Still(b)
         /\ OwnersOnly'
<1>1. /\ Finding \cup New \cup Adding \subseteq Owning
      /\ Outside \cap Owning = {}
  BY StepSets DEF Owning, Outside, Grouping
<1>2. CASE Application(a) \/ NumberTask(a) \/ AddUngrouped(a)
  BY <1>1, <1>2, OutsideFrame DEF OwnersOnly, Still
<1>3. CASE CreateGroup(a)
  BY <1>1, <1>3, CreateFrame DEF OwnersOnly, Still
<1>4. CASE AddTask(a)
  BY <1>1, <1>4, AddFrame DEF OwnersOnly, Still
<1> QED
  BY <1>2, <1>3, <1>4 DEF Call

(***************************************************************************)
(* A thread that pushes to a group is alone in doing so.                   *)
(***************************************************************************)
LEMMA Alone ==
  ASSUME OneOwner, TypeInv, OwnersOnly, NEW a \in Apps, pc[a] \in Owning,
         NEW b \in Apps \ {a}
  PROVE  pc[b] \notin Owning
BY DEF OneOwner, OwnersOnly

LEMMA AloneNext ==
  ASSUME OneOwner, TypeInv, OwnersOnly, NEW a \in Apps,
         CreateGroup(a) \/ AddTask(a)
  PROVE  \A b \in Apps \ {a} : pc[b] \notin Owning /\ pc'[b] \notin Owning
<1>1. pc[a] \in Owning
  BY CreateFrame, AddFrame DEF Owning, Grouping
<1> QED
  BY <1>1, Alone, OthersWait DEF Call, Still

-----------------------------------------------------------------------------
(***************************************************************************)
(* A new group has zeroed memory and has it still when create_group clears *)
(* its counters: with one owner no other thread finds the group before.    *)
(***************************************************************************)
Fresh(g) ==
  /\ total[g] = 0
  /\ \A s \in Levels : /\ pending_num[g][s] = 0 /\ pending_num_size[g][s] = 0
                       /\ pending_q[g][s] = << >>

\* Whatever the pools and the threads point to is in use.
InUse ==
  /\ \A p \in Apps : head[p] \in allocated \cup {NULL}
  /\ \A g \in Groups : next[g] \in allocated \cup {NULL}
  /\ \A a \in Apps : pc[a] = "search" => at[a] \in allocated \cup {NULL}
  /\ \A a \in Apps : pc[a] \in New \cup Adding => at[a] \in allocated

FreshInv ==
  /\ OwnersOnly /\ InUse
  /\ \A g \in Groups \ allocated : Fresh(g)
  /\ \A a \in Apps : pc[a] \in New => Fresh(at[a])

LEMMA InitFreshInv == Init => FreshInv
<1> SUFFICES ASSUME Init
             PROVE  FreshInv
  OBVIOUS
<1>1. \A a \in Apps : pc[a] = "idle"
  BY DEF Init
<1>2. "idle" \notin Owning \cup New \cup Adding
  BY StepSets DEF Owning, Grouping
<1>3. \A g \in Groups : Fresh(g)
  BY DEF Init, Fresh
<1>4. InUse
  BY <1>1, <1>2 DEF Init, InUse
<1> QED
  BY <1>1, <1>2, <1>3, <1>4 DEF FreshInv, OwnersOnly

LEMMA SameEntry ==
  ASSUME NEW D, NEW E, NEW X, NEW F \in [D -> [E -> X]], NEW g \in D,
         NEW s \in E
  PROVE  [F EXCEPT ![g][s] = F[g][s]] = F
OBVIOUS

LEMMA CreateZeroes ==
  ASSUME TypeInv, FreshInv, NEW a \in Apps, CreateGroup(a)
  PROVE  UNCHANGED <<total, bucketVars>>
<1>0. /\ total \in [Groups -> Nat]
      /\ pending_num \in [Groups -> [Levels -> Nat]]
      /\ pending_num_size \in [Groups -> [Levels -> Nat]]
      /\ pending_q \in [Groups -> [Levels -> Seq(Tasks \cup {NULL})]]
  BY DEF TypeInv, TypeOK, GroupTypeOK
<1>1. CASE FillGroup(a)
  <2>1. PICK g \in Groups : g = at[a] /\ total[g] = 0
    BY <1>1, StepSets DEF FillGroup, Go, FreshInv, Fresh, TypeInv, Locals
  <2>2. total' = [total EXCEPT ![g] = total[g]]
    BY <1>1, <2>1 DEF FillGroup
  <2> QED
    BY <1>0, <1>1, <2>2 DEF FillGroup
<1>2. CASE ZeroLevel(a)
  <2>1. pc[a] \in Zeroing
    BY <1>2, StepSets DEF ZeroLevel, ZeroNum, ZeroSize, ZeroQueue, Go
  <2>2. PICK g \in Groups, s \in Levels : g = at[a] /\ s = reg[a]
    BY <2>1, StepSets DEF TypeInv, Locals
  <2>3. /\ pending_num[g][s] = 0 /\ pending_num_size[g][s] = 0
        /\ pending_q[g][s] = << >>
    BY <2>1, <2>2, StepSets DEF FreshInv, Fresh
  <2>4. CASE ZeroNum(a)
    <3>1. pending_num' = [pending_num EXCEPT ![g][s] = pending_num[g][s]]
      BY <2>2, <2>3, <2>4 DEF ZeroNum
    <3> QED
      BY <1>0, <2>4, <3>1, SameEntry DEF ZeroNum, groupVars, bucketVars
  <2>5. CASE ZeroSize(a)
    <3>1. pending_num_size' =
            [pending_num_size EXCEPT ![g][s] = pending_num_size[g][s]]
      BY <2>2, <2>3, <2>5 DEF ZeroSize
    <3> QED
      BY <1>0, <2>5, <3>1, SameEntry DEF ZeroSize, groupVars, bucketVars
  <2>6. CASE ZeroQueue(a)
    <3>1. pending_q' = [pending_q EXCEPT ![g][s] = pending_q[g][s]]
      BY <2>2, <2>3, <2>6 DEF ZeroQueue
    <3> QED
      BY <1>0, <2>6, <3>1, SameEntry DEF ZeroQueue, groupVars, bucketVars
  <2> QED
    BY <1>2, <2>4, <2>5, <2>6 DEF ZeroLevel
<1>3. CASE ~ FillGroup(a) /\ ~ ZeroLevel(a)
  BY <1>3 DEF CreateGroup, TestGroups, CreatePool, OpenPool, ReadPool,
     SearchGroup, SearchFirst, SearchOn, SearchEnd, AllocGroup, TestEmpty,
     NextGroup, LinkGroup, NameGroup, SetName, groupVars
<1> QED
  BY <1>1, <1>2, <1>3

(***************************************************************************)
(* The step keeps what is in use in use.                                   *)
(***************************************************************************)
LEMMA CreateInUse ==
  ASSUME TypeInv, FreshInv, NEW a \in Apps, CreateGroup(a)
  PROVE  /\ InUse' /\ allocated \subseteq allocated'
         /\ pc'[a] \in New =>
              \/ pc[a] \in New /\ at'[a] = at[a]
              \/ at'[a] \in Groups \ allocated
<1>0. /\ pc \in [Apps -> Steps] /\ at \in [Apps -> Groups \cup {NULL}]
      /\ pool \in [Apps -> Apps \cup {NULL}]
      /\ head \in [Apps -> Groups \cup {NULL}]
      /\ next \in [Groups -> Groups \cup {NULL}]
      /\ allocated \in SUBSET Groups
      /\ \A from, to : Go(a, from, to) => pc[a] = from /\ pc'[a] = to
  BY DEF TypeInv, TypeOK, GroupTypeOK, Go
<1>1. \A b \in Apps \ {a} : pc'[b] = pc[b] /\ at'[b] = at[b]
  BY CreateFrame DEF Still
<1>2. /\ pc[a] = "search" => at[a] \in allocated \cup {NULL}
      /\ pc[a] \in New => at[a] \in allocated
      /\ pc[a] \in Pooled => pool[a] \in Apps
  BY DEF FreshInv, InUse, TypeInv, Locals
<1>3. ASSUME \A p \in Apps : head'[p] \in allocated' \cup {NULL},
             \A g \in Groups : next'[g] \in allocated' \cup {NULL},
             allocated \subseteq allocated',
             pc'[a] = "search" => at'[a] \in allocated' \cup {NULL},
             pc'[a] \in New \cup Adding => at'[a] \in allocated'
      PROVE  InUse'
  BY <1>1, <1>3 DEF FreshInv, InUse
<1>4. CASE TestGroups(a) \/ CreatePool(a) \/ OpenPool(a) \/ SearchFirst(a)
             \/ SearchOn(a)
  <2>1. /\ UNCHANGED <<next, allocated>>
        /\ pc'[a] \in {"create", "open", "first", "search"}
    BY <1>0, <1>4 DEF TestGroups, CreatePool, OpenPool, ReadPool, SearchFirst,
       SearchOn, poolVars
  <2>2. pc'[a] \notin New \cup Adding
    BY <2>1, StepSets
  <2>3. \A p \in Apps : head'[p] \in allocated' \cup {NULL}
    BY <1>0, <1>4, <2>1 DEF TestGroups, CreatePool, OpenPool, ReadPool,
       SearchFirst, SearchOn, poolVars, FreshInv, InUse
  <2>4. pc'[a] = "search" => at'[a] \in allocated' \cup {NULL}
    <3>1. CASE SearchFirst(a)
      BY <1>0, <1>2, <2>1, <3>1, StepSets DEF SearchFirst, FreshInv, InUse
    <3>2. CASE SearchOn(a)
      BY <1>0, <1>2, <2>1, <3>2 DEF SearchOn, FreshInv, InUse
    <3> QED
      BY <1>0, <1>4, <3>1, <3>2 DEF TestGroups, CreatePool, OpenPool, ReadPool
  <2> QED
    BY <1>3, <2>1, <2>2, <2>3, <2>4 DEF FreshInv, InUse
<1>5. CASE SearchEnd(a)
  <2>1. /\ UNCHANGED <<next, allocated, head, at>> /\ pc[a] = "search"
        /\ pc'[a] = IF at[a] = NULL THEN "add"
                    ELSE IF name[at[a]] = NULL THEN "crashed" ELSE "total"
    BY <1>0, <1>5 DEF SearchEnd, poolVars, localVars
  <2>2. "add" \notin New \cup Adding /\ {"crashed", "total"} \cap New = {}
    BY DEF New, Named, Adding
  <2>3. "crashed" \notin Adding /\ "total" \in Adding
    BY DEF Adding
  <2> QED
    BY <1>2, <1>3, <2>1, <2>2, <2>3 DEF FreshInv, InUse
<1>6. CASE AllocGroup(a)
  <2>1. PICK g \in Groups \ allocated :
          allocated' = allocated \cup {g} /\ at' = [at EXCEPT ![a] = g]
    <3>1. Groups \ allocated # {}
      BY <1>0, <1>6 DEF AllocGroup
    <3> QED
      BY <1>6, <3>1, CallocType DEF AllocGroup
  <2>2. /\ UNCHANGED <<head, next>> /\ at'[a] = g /\ pc'[a] = "empty"
    BY <1>0, <1>6, <2>1 DEF AllocGroup, ReadPool
  <2> QED
    BY <1>3, <2>1, <2>2 DEF FreshInv, InUse
<1>7. CASE TestEmpty(a) \/ NextGroup(a) \/ LinkGroup(a)
  <2>1. /\ UNCHANGED <<allocated, at>>
        /\ pc[a] \in {"empty", "next", "link"}
        /\ pc'[a] \in {"next", "link", "name"}
    BY <1>0, <1>7 DEF TestEmpty, NextGroup, LinkGroup, poolVars, localVars
  <2>2. at[a] \in allocated /\ pool[a] \in Apps
    BY <1>2, <2>1, StepSets
  <2>3. /\ \A p \in Apps : head'[p] \in allocated \cup {NULL}
        /\ \A g \in Groups : next'[g] \in allocated \cup {NULL}
    BY <1>0, <1>7, <2>2 DEF TestEmpty, NextGroup, LinkGroup, poolVars,
       FreshInv, InUse
  <2>4. pc[a] \in New /\ pc'[a] # "search"
    BY <2>1, StepSets
  <2> QED
    BY <1>3, <2>1, <2>2, <2>3, <2>4
<1>8. CASE NameGroup(a) \/ FillGroup(a) \/ ZeroLevel(a)
  <2>1. /\ UNCHANGED <<head, next, allocated, at>>
        /\ pc[a] \in {"name", "copy"} \cup Named
        /\ pc'[a] \in {"copy", "total"} \cup Named
    BY <1>0, <1>8 DEF NameGroup, SetName, FillGroup, ZeroLevel, ZeroNum,
       ZeroSize, ZeroQueue, poolVars, localVars, Named
  <2>2. pc[a] \in New /\ pc'[a] # "search"
    BY <2>1 DEF New, Named
  <2> QED
    BY <1>2, <1>3, <2>1, <2>2 DEF FreshInv, InUse
<1> QED
  BY <1>4, <1>5, <1>6, <1>7, <1>8 DEF CreateGroup, SearchGroup

LEMMA NextFreshInv ==
  ASSUME OneOwner, TypeInv, FreshInv, [Next]_vars
  PROVE  FreshInv'
<1>1. ASSUME NEW a \in Apps, Application(a) \/ Call(a)
      PROVE  FreshInv'
  <2>1. (\A b \in Apps \ {a} : Still(b)) /\ OwnersOnly'
    BY <1>1, OthersWait DEF FreshInv
  <2>2. CASE CreateGroup(a)
    <3>1. \A g : Fresh(g)' <=> Fresh(g)
      BY <2>2, CreateZeroes DEF Fresh, bucketVars
    <3>2. \A g \in Groups \ allocated' : Fresh(g)'
      BY <2>2, <3>1, CreateInUse DEF FreshInv
    <3>3. pc'[a] \in New => Fresh(at'[a])
      BY <2>2, CreateInUse DEF FreshInv
    <3>4. \A b \in Apps : pc'[b] \in New => Fresh(at'[b])
      BY <2>1, <3>3 DEF FreshInv, Still
    <3>5. \A b \in Apps : pc'[b] \in New => Fresh(at[b])'
      BY <2>2, <3>4, CreateZeroes DEF Fresh, bucketVars
    <3> QED
      BY <2>1, <2>2, <3>2, <3>5, CreateInUse DEF FreshInv
  <2>3. CASE AddTask(a)
    <3>1. /\ pc[a] \in Adding /\ pc'[a] \in Adding \cup {"idle", "crashed"}
          /\ pc'[a] # "idle" => at' = at
          /\ UNCHANGED <<head, next, allocated>>
          /\ \A g \in Groups : g # at[a] => Untouched(g)
      BY <2>3, AddFrame DEF poolVars
    <3>2. pc'[a] \notin New /\ pc'[a] # "search"
      BY <3>1, StepSets DEF Adding, New, Named
    <3>3. \A b \in Apps \ {a} : pc'[b] \notin New \cup Adding
      BY <2>3, AloneNext DEF FreshInv, Owning, Grouping
    <3>4. at[a] \in allocated
      BY <3>1 DEF FreshInv, InUse
    <3>5. \A g \in Groups \ allocated : Fresh(g)'
      BY <3>1, <3>4 DEF FreshInv, Fresh, Untouched
    <3>6. "idle" \notin Adding
      BY DEF Adding
    <3>7. InUse'
      BY <2>1, <3>1, <3>2, <3>3, <3>4, <3>6 DEF FreshInv, InUse, Still
    <3> QED
      BY <2>1, <3>1, <3>2, <3>3, <3>5, <3>7 DEF FreshInv
  <2>4. CASE Application(a) \/ NumberTask(a) \/ AddUngrouped(a)
    <3>1. /\ pc'[a] \in Outside \cup {"test"}
          /\ UNCHANGED <<head, next, allocated, total, bucketVars>>
      BY <2>4, OutsideFrame DEF poolVars, groupVars
    <3>2. pc'[a] \notin New \cup Adding /\ pc'[a] # "search"
      BY <3>1 DEF Outside, New, Named, Adding
    <3>3. InUse'
      BY <2>1, <3>1, <3>2 DEF FreshInv, InUse, Still
    <3>4. \A g : Fresh(g) => Fresh(g)'
      BY <3>1 DEF Fresh, bucketVars
    <3>5. ASSUME NEW b \in Apps, pc'[b] \in New
          PROVE  Fresh(at[b])'
      <4>1. Fresh(at[b]) /\ at'[b] = at[b]
        BY <2>1, <3>2, <3>5 DEF FreshInv, Still
      <4> QED
        BY <3>1, <4>1 DEF Fresh, bucketVars
    <3> QED
      BY <2>1, <3>1, <3>3, <3>4, <3>5 DEF FreshInv
  <2> QED
    BY <1>1, <2>2, <2>3, <2>4 DEF Call
<1>2. CASE UNCHANGED vars
  BY <1>2 DEF vars, poolVars, groupVars, bucketVars, localVars, FreshInv,
     OwnersOnly, InUse, Fresh
<1> QED
  BY <1>1, <1>2 DEF Next

LEMMA InvariantFreshInv ==
  ASSUME OneOwner
  PROVE  Spec => [](TypeInv /\ FreshInv)
<1>1. FreshInv /\ TypeInv /\ [Next]_vars => FreshInv'
  BY NextFreshInv
<1> QED
  BY <1>1, InitFreshInv, InvariantTypeInv, PTL DEF Spec

-----------------------------------------------------------------------------
(***************************************************************************)
(* The counters of a group, between any two steps of a push.               *)
(***************************************************************************)
\* The thread works in bucket s of group g.
In(a, g, s) == at[a] = g /\ Sig(a) = s

\* Some thread has counted its task in pending_num, and its slot still counts
\* as free.
HalfCounted(g, s) == \E a \in Apps : pc[a] \in {"size", "sized"} /\ In(a, g, s)

Slots ==
  \A g \in Groups, s \in Levels :
    pending_num[g][s] + pending_num_size[g][s] =
      Len(pending_q[g][s]) + (IF HalfCounted(g, s) THEN 1 ELSE 0)

Used(g) == UNION {{s} \X (1 .. pending_num[g][s]) : s \in Levels}

Counting == {"totalled", "room", "grow", "store", "num", "numbered", "size",
             "sized"}

\* Some thread has counted its task in total and not yet in pending_num.
Entered(g) ==
  \E a \in Apps :
    at[a] = g /\ pc[a] \in {"room", "grow", "store", "num", "numbered"}

Totals ==
  \A g \in Groups :
    /\ IsFiniteSet(Used(g))
    /\ total[g] = Cardinality(Used(g)) + (IF Entered(g) THEN 1 ELSE 0)

\* What a thread has read is still so, and it has room where it needs it.
Registers ==
  \A a \in Apps :
    /\ pc[a] = "totalled" => reg[a] = total[at[a]]
    /\ pc[a] = "numbered" => reg[a] = pending_num[at[a]][Sig(a)]
    /\ pc[a] = "sized" => reg[a] = pending_num_size[at[a]][Sig(a)]
    /\ pc[a] = "grow" => pending_num_size[at[a]][Sig(a)] = 0
    /\ pc[a] \in {"store", "num", "numbered", "size", "sized"} =>
         pending_num_size[at[a]][Sig(a)] # 0

CountInv == OwnersOnly /\ Slots /\ Totals /\ Registers

LEMMA InitCountInv == Init => CountInv
<1> SUFFICES ASSUME Init
             PROVE  CountInv
  OBVIOUS
<1> USE DEF Init
<1>1. OwnersOnly /\ Registers
  <2>1. \A a \in Apps : pc[a] = "idle" /\ "idle" \notin Owning
    BY StepSets DEF Owning
  <2> QED
    BY <2>1 DEF OwnersOnly, Registers
<1>2. ASSUME NEW g \in Groups
      PROVE  /\ ~ Entered(g)
             /\ \A s \in Levels : ~ HalfCounted(g, s)
             /\ Used(g) = {}
  BY DEF Entered, HalfCounted, Used
<1>3. Slots
  BY <1>2 DEF Slots
<1>4. Totals
  <2>1. IsFiniteSet({}) /\ Cardinality({}) = 0
    BY FS_EmptySet
  <2>2. ASSUME NEW g \in Groups
        PROVE  total[g] = 0 /\ Used(g) = {} /\ ~ Entered(g)
    BY <1>2
  <2>3. ASSUME NEW g \in Groups
        PROVE  /\ IsFiniteSet(Used(g))
               /\ total[g] = Cardinality(Used(g)) +
                               (IF Entered(g) THEN 1 ELSE 0)
    <3>1. total[g] = 0 /\ Used(g) = {} /\ ~ Entered(g)
      BY <2>2
    <3>2. IsFiniteSet(Used(g)) /\ Cardinality(Used(g)) = 0
      BY <2>1, <3>1
    <3> QED
      BY <3>1, <3>2
  <2> QED
    BY <2>3 DEF Totals
<1> QED
  BY <1>1, <1>3, <1>4 DEF CountInv

(***************************************************************************)
(* The significance of a task does not change while it is pushed.          *)
(***************************************************************************)
LEMMA LevelStays ==
  ASSUME TypeInv, NEW a \in Apps, Application(a) \/ Call(a), NEW b \in Apps,
         pc[b] # "idle"
  PROVE  level'[task[b]] = level[task[b]]
<1>1. task[b] \in Tasks
  BY DEF TypeInv, Locals
<1>2. ASSUME NEW s \in Levels, AllocTask(a, s)
      PROVE  level'[task[b]] = level[task[b]]
  <2> DEFINE t == Calloc(Tasks \ (made \cup Given))
  <2>1. Tasks \ (made \cup Given) # {} /\ level' = [level EXCEPT ![t] = s]
    BY <1>2 DEF AllocTask
  <2>2. t \notin Given
    BY <2>1, CallocType
  <2>3. task[b] \in Given
    BY <1>1 DEF Given
  <2> HIDE DEF t
  <2> QED
    BY <1>1, <2>1, <2>2, <2>3 DEF TypeInv, TypeOK
<1>3. CASE ~ \E s \in Levels : AllocTask(a, s)
  <2>1. CASE Application(a) \/ NumberTask(a) \/ AddUngrouped(a)
    <3>1. level' = level
      BY <1>3, <2>1 DEF Application, NumberTask, PushUngrouped, Push,
         AddUngrouped, LockPool, BargeIn, ReadHead, PutHead, Put, UnlockPool,
         ReturnWith, Done, taskVars
    <3> QED
      BY <3>1
  <2>2. CASE CreateGroup(a) \/ AddTask(a)
    BY <2>2, CreateFrame, AddFrame DEF taskVars
  <2> QED
    BY <2>1, <2>2 DEF Call
<1> QED
  BY <1>2, <1>3

(***************************************************************************)
(* Steps that touch no counter: no thread comes into a bucket or leaves it.*)
(***************************************************************************)
LEMMA CountFrame ==
  ASSUME TypeInv, CountInv, OwnersOnly', UNCHANGED <<total, bucketVars>>,
         \A b \in Apps :
           pc[b] \in Counting \/ pc'[b] \in Counting =>
             /\ pc'[b] = pc[b] /\ at'[b] = at[b] /\ reg'[b] = reg[b]
             /\ Sig(b)' = Sig(b)
  PROVE  CountInv'
<1> USE DEF Counting
<1>2. \A g : Entered(g)' <=> Entered(g)
  BY DEF Entered
<1>3. \A g, s : HalfCounted(g, s)' <=> HalfCounted(g, s)
  BY DEF HalfCounted, In
<1>4. \A g : Used(g)' = Used(g)
  BY DEF Used, bucketVars
<1>5. Slots'
  BY <1>3 DEF CountInv, Slots, bucketVars
<1>6. Totals'
  BY <1>2, <1>4 DEF CountInv, Totals
<1>7. Registers'
  BY DEF CountInv, Registers, bucketVars
<1> QED
  BY <1>5, <1>6, <1>7 DEF CountInv

(***************************************************************************)
(* The bucket of the thread that pushes to a group is the only one whose   *)
(* counters may be apart.                                                  *)
(***************************************************************************)
LEMMA AloneCounts ==
  ASSUME OneOwner, TypeInv, OwnersOnly, NEW a \in Apps, AddTask(a)
  PROVE  /\ at[a] \in Groups /\ Sig(a) \in Levels
         /\ pc'[a] # "idle" => at'[a] = at[a] /\ Sig(a)' = Sig(a)
         /\ \A b \in Apps \ {a} : pc[b] \notin Owning /\ pc'[b] \notin Owning
         /\ \A g, s : HalfCounted(g, s) <=>
              pc[a] \in {"size", "sized"} /\ g = at[a] /\ s = Sig(a)
         /\ \A g, s : HalfCounted(g, s)' <=>
              pc'[a] \in {"size", "sized"} /\ g = at[a] /\ s = Sig(a)
         /\ \A g : Entered(g) <=>
              /\ g = at[a]
              /\ pc[a] \in {"room", "grow", "store", "num", "numbered"}
         /\ \A g : Entered(g)' <=>
              /\ g = at[a]
              /\ pc'[a] \in {"room", "grow", "store", "num", "numbered"}
<1>0. /\ {"size", "sized", "room", "grow", "store", "num", "numbered"}
           \subseteq Owning
      /\ "idle" \notin {"size", "sized"}
  BY DEF Owning, Grouping, Adding
<1>1. pc[a] \in Adding /\ pc[a] # "idle"
  BY AddFrame, StepSets DEF Adding
<1>2. at[a] \in Groups /\ task[a] \in Tasks /\ Sig(a) \in Levels
  BY <1>1 DEF TypeInv, TypeOK, Locals, Sig
<1>3. pc'[a] # "idle" => at'[a] = at[a] /\ Sig(a)' = Sig(a)
  BY AddFrame DEF callVars, Sig
<1>4. \A b \in Apps \ {a} : pc[b] \notin Owning /\ pc'[b] \notin Owning
  BY AloneNext
<1>5. \A g, s : HalfCounted(g, s) <=>
        pc[a] \in {"size", "sized"} /\ g = at[a] /\ s = Sig(a)
  BY <1>0, <1>4 DEF HalfCounted, In
<1>6. \A g, s : HalfCounted(g, s)' <=>
        pc'[a] \in {"size", "sized"} /\ g = at[a] /\ s = Sig(a)
  BY <1>0, <1>3, <1>4 DEF HalfCounted, In
<1>7. \A g : /\ Entered(g) <=>
                  /\ g = at[a]
                  /\ pc[a] \in {"room", "grow", "store", "num", "numbered"}
             /\ Entered(g)' <=>
                  /\ g = at[a]
                  /\ pc'[a] \in {"room", "grow", "store", "num", "numbered"}
  BY <1>0, <1>3, <1>4 DEF Entered
<1> QED
  BY <1>2, <1>3, <1>4, <1>5, <1>6, <1>7

(***************************************************************************)
(* The tasks counted in the buckets of a group, when one of them grows.    *)
(***************************************************************************)
LEMMA UsedGrows ==
  ASSUME TypeInv, NEW g \in Groups, NEW s \in Levels, IsFiniteSet(Used(g)),
         pending_num' =
           [pending_num EXCEPT ![g][s] = pending_num[g][s] + 1]
  PROVE  /\ IsFiniteSet(Used(g)')
         /\ Cardinality(Used(g)') = Cardinality(Used(g)) + 1
<1> DEFINE n == pending_num[g][s]
<1>1. n \in Nat /\ pending_num \in [Groups -> [Levels -> Nat]]
  BY DEF TypeInv, TypeOK, GroupTypeOK
<1>2. \A r \in Levels :
         pending_num'[g][r] = IF r = s THEN n + 1 ELSE pending_num[g][r]
  BY <1>1
<1> HIDE DEF n
<1>3. /\ \A e : e \in Used(g) <=>
           \E r \in Levels : \E j \in 1 .. pending_num[g][r] : e = <<r, j>>
      /\ \A e : e \in Used(g)' <=>
           \E r \in Levels : \E j \in 1 .. pending_num'[g][r] : e = <<r, j>>
  BY DEF Used
<1>4. <<s, n + 1>> \notin Used(g)
  BY <1>1, <1>3 DEF n
<1>5. Used(g)' = Used(g) \cup {<<s, n + 1>>}
  <2>1. ASSUME NEW e \in Used(g)'
        PROVE  e \in Used(g) \cup {<<s, n + 1>>}
    <3>4. PICK r \in Levels : \E j \in 1 .. pending_num'[g][r] : e = <<r, j>>
      BY <1>3
    <3>1. PICK j \in 1 .. pending_num'[g][r] : e = <<r, j>>
      BY <3>4
    <3>2. CASE r = s /\ j = n + 1
      BY <3>1, <3>2
    <3>3. CASE ~ (r = s /\ j = n + 1)
      <4>1. j \in 1 .. pending_num[g][r]
        BY <1>1, <1>2, <3>3 DEF n
      <4> QED
        BY <1>3, <3>1, <4>1
    <3> QED
      BY <3>2, <3>3
  <2>2. ASSUME NEW e \in Used(g)
        PROVE  e \in Used(g)'
    <3>4. PICK r \in Levels : \E j \in 1 .. pending_num[g][r] : e = <<r, j>>
      BY <1>3
    <3>1. PICK j \in 1 .. pending_num[g][r] : e = <<r, j>>
      BY <3>4
    <3>2. j \in 1 .. pending_num'[g][r]
      BY <1>1, <1>2 DEF n
    <3> QED
      BY <1>3, <3>1, <3>2
  <2>3. <<s, n + 1>> \in Used(g)'
    <3>1. n + 1 \in 1 .. pending_num'[g][s]
      BY <1>1, <1>2
    <3> QED
      BY <1>3, <3>1
  <2> QED
    BY <2>1, <2>2, <2>3
<1> DEFINE e == <<s, n + 1>>
<1> HIDE DEF e
<1>6. /\ IsFiniteSet(Used(g) \cup {e})
      /\ Cardinality(Used(g) \cup {e}) = Cardinality(Used(g)) + 1
  <2>1. e \notin Used(g)
    BY <1>4 DEF e
  <2> QED
    BY <2>1, FS_AddElement
<1> QED
  BY <1>5, <1>6 DEF e

(***************************************************************************)
(* What a step of a push must do in its own bucket, and leave alone in the *)
(* others.                                                                 *)
(***************************************************************************)
Elsewhere(g, s) ==
  \A h \in Groups, r \in Levels : h # g \/ r # s =>
    /\ pending_num'[h][r] = pending_num[h][r]
    /\ pending_num_size'[h][r] = pending_num_size[h][r]
    /\ Len(pending_q'[h][r]) = Len(pending_q[h][r])

OtherTotals(g) == \A h \in Groups : h # g => total'[h] = total[h]

SlotsHere(a, g, s) ==
  pending_num'[g][s] + pending_num_size'[g][s] =
    Len(pending_q'[g][s]) + (IF pc'[a] \in {"size", "sized"} THEN 1 ELSE 0)

TotalHere(a, g) ==
  /\ IsFiniteSet(Used(g)')
  /\ total'[g] = Cardinality(Used(g)') +
       (IF pc'[a] \in {"room", "grow", "store", "num", "numbered"}
        THEN 1 ELSE 0)

RegistersHere(a, g, s) ==
  /\ pc'[a] = "totalled" => reg'[a] = total'[g]
  /\ pc'[a] = "numbered" => reg'[a] = pending_num'[g][s]
  /\ pc'[a] = "sized" => reg'[a] = pending_num_size'[g][s]
  /\ pc'[a] = "grow" => pending_num_size'[g][s] = 0
  /\ pc'[a] \in {"store", "num", "numbered", "size", "sized"} =>
       pending_num_size'[g][s] # 0

LEMMA CountLocal ==
  ASSUME OneOwner, TypeInv, TypeInv', CountInv, OwnersOnly', NEW a \in Apps,
         AddTask(a), NEW g, g = at[a], NEW s, s = Sig(a),
         Elsewhere(g, s), OtherTotals(g), SlotsHere(a, g, s),
         TotalHere(a, g), RegistersHere(a, g, s)
  PROVE  CountInv'
<1>1. /\ g \in Groups /\ s \in Levels
      /\ pc'[a] # "idle" => at'[a] = g /\ Sig(a)' = s
      /\ \A b \in Apps \ {a} : pc'[b] \notin Owning
      /\ \A h, r : HalfCounted(h, r) <=>
           pc[a] \in {"size", "sized"} /\ h = g /\ r = s
      /\ \A h, r : HalfCounted(h, r)' <=>
           pc'[a] \in {"size", "sized"} /\ h = g /\ r = s
      /\ \A h : h # g => ~ Entered(h) /\ ~ Entered(h)'
      /\ Entered(g)' <=>
           pc'[a] \in {"room", "grow", "store", "num", "numbered"}
  BY AloneCounts DEF CountInv
<1>2. ASSUME NEW h \in Groups, NEW r \in Levels
      PROVE  pending_num'[h][r] + pending_num_size'[h][r] =
               Len(pending_q'[h][r]) + (IF HalfCounted(h, r)' THEN 1 ELSE 0)
  <2>1. CASE h = g /\ r = s
    BY <1>1, <2>1 DEF SlotsHere
  <2>2. CASE ~ (h = g /\ r = s)
    <3>1. pending_num[h][r] + pending_num_size[h][r] =
            Len(pending_q[h][r]) + (IF HalfCounted(h, r) THEN 1 ELSE 0)
      BY DEF CountInv, Slots
    <3>2. ~ HalfCounted(h, r) /\ ~ HalfCounted(h, r)'
      BY <1>1, <2>2
    <3>3. /\ pending_num'[h][r] = pending_num[h][r]
          /\ pending_num_size'[h][r] = pending_num_size[h][r]
          /\ Len(pending_q'[h][r]) = Len(pending_q[h][r])
      BY <2>2 DEF Elsewhere
    <3> QED
      BY <3>1, <3>2, <3>3
  <2> QED
    BY <2>1, <2>2
<1>3. ASSUME NEW h \in Groups
      PROVE  /\ IsFiniteSet(Used(h)')
             /\ total'[h] = Cardinality(Used(h)') +
                             (IF Entered(h)' THEN 1 ELSE 0)
  <2>1. CASE h = g
    BY <1>1, <2>1 DEF TotalHere
  <2>2. CASE h # g
    <3>1. Used(h)' = Used(h)
      BY <2>2 DEF Used, Elsewhere
    <3>2. ~ Entered(h) /\ ~ Entered(h)' /\ total'[h] = total[h]
      BY <1>1, <2>2 DEF OtherTotals
    <3>3. IsFiniteSet(Used(h)) /\ total[h] = Cardinality(Used(h)) + 0
      BY <3>2 DEF CountInv, Totals
    <3> QED
      BY <3>1, <3>2, <3>3
  <2> QED
    BY <2>1, <2>2
<1>4. Registers'
  <2>1. {"totalled", "numbered", "sized", "grow", "store", "num", "size"}
          \subseteq Owning
    BY DEF Owning, Grouping, Adding
  <2> QED
    BY <1>1, <2>1 DEF Registers, RegistersHere
<1> QED
  BY <1>2, <1>3, <1>4 DEF CountInv, Slots, Totals

LEMMA CountAdds ==
  ASSUME OneOwner, TypeInv, TypeInv', CountInv, OwnersOnly', NEW a \in Apps,
         AddTask(a)
  PROVE  CountInv'
<1>4. PICK g \in Groups, s \in Levels : g = at[a] /\ s = Sig(a)
  BY AloneCounts DEF CountInv
<1>1. /\ g \in Groups /\ s \in Levels
      /\ HalfCounted(g, s) <=> pc[a] \in {"size", "sized"}
      /\ Entered(g) <=> pc[a] \in {"room", "grow", "store", "num", "numbered"}
  BY <1>4, AloneCounts DEF CountInv
<1>2. /\ pending_num \in [Groups -> [Levels -> Nat]]
      /\ pending_num_size \in [Groups -> [Levels -> Nat]]
      /\ pending_q \in [Groups -> [Levels -> Seq(Tasks \cup {NULL})]]
      /\ total \in [Groups -> Nat] /\ reg \in [Apps -> Nat]
      /\ pc \in [Apps -> Steps]
  BY DEF TypeInv, TypeOK, GroupTypeOK
<1>3. /\ pc[a] = "totalled" => reg[a] = total[g]
      /\ pc[a] = "numbered" => reg[a] = pending_num[g][s]
      /\ pc[a] = "sized" => reg[a] = pending_num_size[g][s]
      /\ pc[a] = "grow" => pending_num_size[g][s] = 0
      /\ pc[a] \in {"store", "num", "numbered", "size", "sized"} =>
           pending_num_size[g][s] # 0
  BY <1>4 DEF CountInv, Registers
<1>5. pending_num[g][s] + pending_num_size[g][s] =
        Len(pending_q[g][s]) + (IF pc[a] \in {"size", "sized"} THEN 1 ELSE 0)
  BY <1>1 DEF CountInv, Slots
<1>6. /\ IsFiniteSet(Used(g))
      /\ total[g] = Cardinality(Used(g)) +
           (IF pc[a] \in {"room", "grow", "store", "num", "numbered"}
            THEN 1 ELSE 0)
  BY <1>1 DEF CountInv, Totals
<1>7. /\ pending_num[g][s] \in Nat /\ pending_num_size[g][s] \in Nat
      /\ pending_q[g][s] \in Seq(Tasks \cup {NULL})
      /\ Len(pending_q[g][s]) \in Nat
      /\ Cardinality(Used(g)) \in Nat /\ reg[a] \in Nat
  BY <1>1, <1>2, <1>6, FS_CardinalityType
<1>8. pending_num' = pending_num => Used(g)' = Used(g)
  BY DEF Used
<1>9. /\ Elsewhere(g, s) /\ OtherTotals(g) /\ SlotsHere(a, g, s)
      /\ TotalHere(a, g) /\ RegistersHere(a, g, s)
      => CountInv'
  BY <1>4, CountLocal
<1> USE DEF Go, Read
<1>10. CASE ReadTotal(a)
  <2>1. /\ pc[a] = "total" /\ pc'[a] = "totalled"
        /\ reg'[a] = total[g] /\ total' = total
        /\ UNCHANGED <<pending_q, pending_num, pending_num_size>>
    BY <1>2, <1>4, <1>10 DEF ReadTotal, groupVars, bucketVars
  <2>11. Elsewhere(g, s)
    BY <2>1 DEF Elsewhere
  <2>12. OtherTotals(g)
    BY <2>1 DEF OtherTotals
  <2>13. SlotsHere(a, g, s)
    BY <1>5, <2>1 DEF SlotsHere
  <2>14. TotalHere(a, g)
    BY <1>6, <1>7, <1>8, <2>1 DEF TotalHere
  <2>15. RegistersHere(a, g, s)
    BY <2>1 DEF RegistersHere
  <2> QED
    BY <1>9, <2>11, <2>12, <2>13, <2>14, <2>15
<1>11. CASE WriteTotal(a)
  <2>1. /\ pc[a] = "totalled" /\ pc'[a] = "room"
        /\ total' = [total EXCEPT ![g] = reg[a] + 1]
        /\ UNCHANGED <<pending_q, pending_num, pending_num_size>>
    BY <1>2, <1>4, <1>11 DEF WriteTotal, bucketVars
  <2>2. total'[g] = total[g] + 1 
    BY <1>1, <1>2, <1>3, <2>1
  <2>11. Elsewhere(g, s)
    BY <2>1 DEF Elsewhere
  <2>12. OtherTotals(g)
    BY <1>1, <1>2, <2>1 DEF OtherTotals
  <2>13. SlotsHere(a, g, s)
    BY <1>5, <2>1 DEF SlotsHere
  <2>14. TotalHere(a, g)
    BY <1>6, <1>7, <1>8, <2>1, <2>2 DEF TotalHere
  <2>15. RegistersHere(a, g, s)
    BY <2>1 DEF RegistersHere
  <2> QED
    BY <1>9, <2>11, <2>12, <2>13, <2>14, <2>15
<1>12. CASE TestRoom(a)
  <2>1. /\ pc[a] = "room"
        /\ pc'[a] = IF pending_num_size[g][s] = 0 THEN "grow" ELSE "store"
        /\ UNCHANGED <<total, pending_q, pending_num, pending_num_size>>
    BY <1>2, <1>4, <1>12 DEF TestRoom, groupVars, bucketVars
  <2>11. Elsewhere(g, s)
    BY <2>1 DEF Elsewhere
  <2>12. OtherTotals(g)
    BY <2>1 DEF OtherTotals
  <2>13. SlotsHere(a, g, s)
    BY <1>5, <2>1 DEF SlotsHere
  <2>14. TotalHere(a, g)
    BY <1>6, <1>7, <1>8, <2>1 DEF TotalHere
  <2>15. RegistersHere(a, g, s)
    BY <2>1 DEF RegistersHere
  <2> QED
    BY <1>9, <2>11, <2>12, <2>13, <2>14, <2>15
<1>13. CASE Grow(a)
  <2> DEFINE n == pending_num[g][s] + STEP
             q == Resized(pending_q[g][s], n)
  <2>1. /\ pc[a] = "grow" /\ pc'[a] = "store"
        /\ pending_q' = [pending_q EXCEPT ![g][s] = q]
        /\ pending_num_size' = [pending_num_size EXCEPT ![g][s] = STEP]
        /\ UNCHANGED <<total, pending_num>>
    BY <1>2, <1>4, <1>13 DEF Grow, GrowTo, groupVars
  <2>2. Len(q) = n
    BY <1>7, ResizedType
  <2> HIDE DEF q
  <2>4. /\ pending_q'[g][s] = q /\ pending_num_size'[g][s] = STEP
        /\ pending_num'[g][s] = pending_num[g][s]
    BY <1>1, <1>2, <2>1
  <2>11. Elsewhere(g, s)
    BY <1>1, <1>2, <2>1 DEF Elsewhere
  <2>12. OtherTotals(g)
    BY <2>1 DEF OtherTotals
  <2>13. SlotsHere(a, g, s)
    BY <2>1, <2>2, <2>4 DEF SlotsHere
  <2>14. TotalHere(a, g)
    BY <1>6, <1>7, <1>8, <2>1 DEF TotalHere
  <2>15. RegistersHere(a, g, s)
    BY <2>1, <2>4 DEF RegistersHere
  <2> QED
    BY <1>9, <2>11, <2>12, <2>13, <2>14, <2>15
<1>14. CASE Store(a)
  <2> DEFINE q == pending_q[g][s]
             r == IF Slot(a) <= Len(q) THEN [q EXCEPT ![Slot(a)] = task[a]]
                                       ELSE q
  <2>1. /\ pc[a] = "store"
        /\ pc'[a] = IF Slot(a) <= Len(q) THEN "num" ELSE "crashed"
        /\ pending_q' = [pending_q EXCEPT ![g][s] = r]
        /\ UNCHANGED <<total, pending_num, pending_num_size>>
    BY <1>2, <1>4, <1>14 DEF Store, groupVars
  <2>2. Len(r) = Len(q)
    BY <1>7
  <2>3. pc'[a] = "num"
    BY <1>3, <1>4, <1>5, <1>7, <2>1 DEF Slot
  <2> HIDE DEF r
  <2>4. pending_q'[g][s] = r
    BY <1>1, <1>2, <2>1
  <2>11. Elsewhere(g, s)
    BY <1>1, <1>2, <2>1 DEF Elsewhere
  <2>12. OtherTotals(g)
    BY <2>1 DEF OtherTotals
  <2>13. SlotsHere(a, g, s)
    BY <1>5, <2>1, <2>2, <2>3, <2>4 DEF SlotsHere
  <2>14. TotalHere(a, g)
    BY <1>6, <1>7, <1>8, <2>1, <2>3 DEF TotalHere
  <2>15. RegistersHere(a, g, s)
    BY <1>3, <2>1, <2>3 DEF RegistersHere
  <2> QED
    BY <1>9, <2>11, <2>12, <2>13, <2>14, <2>15
<1>15. CASE ReadCounter(a)
  <2>1. /\ UNCHANGED <<total, pending_q, pending_num, pending_num_size>>
        /\ \/ /\ pc[a] = "num" /\ pc'[a] = "numbered"
              /\ reg'[a] = pending_num[g][s]
           \/ /\ pc[a] = "size" /\ pc'[a] = "sized"
              /\ reg'[a] = pending_num_size[g][s]
    BY <1>2, <1>4, <1>15 DEF ReadCounter, groupVars, bucketVars
  <2>11. Elsewhere(g, s)
    BY <2>1 DEF Elsewhere
  <2>12. OtherTotals(g)
    BY <2>1 DEF OtherTotals
  <2>13. SlotsHere(a, g, s)
    BY <1>5, <2>1 DEF SlotsHere
  <2>14. TotalHere(a, g)
    BY <1>6, <1>7, <1>8, <2>1 DEF TotalHere
  <2>15. RegistersHere(a, g, s)
    BY <1>3, <2>1 DEF RegistersHere
  <2> QED
    BY <1>9, <2>11, <2>12, <2>13, <2>14, <2>15
<1>16. CASE WriteNum(a)
  <2>1. /\ pc[a] = "numbered" /\ pc'[a] = "size"
        /\ pending_num' = [pending_num EXCEPT ![g][s] = pending_num[g][s] + 1]
        /\ UNCHANGED <<total, pending_q, pending_num_size>>
    BY <1>2, <1>4, <1>3, <1>16 DEF WriteNum, groupVars
  <2>2. /\ IsFiniteSet(Used(g)')
        /\ Cardinality(Used(g)') = Cardinality(Used(g)) + 1
    BY <1>1, <1>6, <2>1, UsedGrows
  <2>3. pending_num'[g][s] = pending_num[g][s] + 1
    BY <1>1, <1>2, <2>1
  <2>7. /\ pending_num[g][s] + pending_num_size[g][s] =
             Len(pending_q[g][s]) + 0
        /\ pending_num_size'[g][s] = pending_num_size[g][s]
        /\ Len(pending_q'[g][s]) = Len(pending_q[g][s])
        /\ pc'[a] \in {"size", "sized"}
    BY <1>5, <2>1
  <2>11. Elsewhere(g, s)
    BY <1>1, <1>2, <2>1 DEF Elsewhere
  <2>12. OtherTotals(g)
    BY <2>1 DEF OtherTotals
  <2>8. \A n, f, l \in Nat : n + f = l + 0 => (n + 1) + f = l + 1
    OBVIOUS
  <2>9. pending_num'[g][s] + pending_num_size'[g][s] =
          Len(pending_q'[g][s]) + 1
    <3> DEFINE n == pending_num[g][s]
               f == pending_num_size[g][s]
               l == Len(pending_q[g][s])
    <3>1. n \in Nat /\ f \in Nat /\ l \in Nat /\ n + f = l + 0
      BY <1>7, <2>7
    <3>2. /\ pending_num'[g][s] = n + 1 /\ pending_num_size'[g][s] = f
          /\ Len(pending_q'[g][s]) = l
      BY <2>3, <2>7
    <3> HIDE DEF n, f, l
    <3>3. (n + 1) + f = l + 1
      BY <2>8, <3>1
    <3> QED
      BY <3>2, <3>3
  <2>13. SlotsHere(a, g, s)
    BY <2>1, <2>9 DEF SlotsHere
  <2>14. TotalHere(a, g)
    BY <1>6, <1>7, <2>1, <2>2 DEF TotalHere
  <2>15. RegistersHere(a, g, s)
    BY <1>3, <2>1 DEF RegistersHere
  <2> QED
    BY <1>9, <2>11, <2>12, <2>13, <2>14, <2>15
<1>17. CASE WriteSize(a)
  <2> DEFINE n == pending_num_size[g][s] - 1
  <2>3. /\ pc[a] = "sized" /\ pc'[a] = "idle"
        /\ pending_num_size' = [pending_num_size EXCEPT ![g][s] =
             IF reg[a] = 0 THEN UINT_MAX ELSE reg[a] - 1]
        /\ UNCHANGED <<total, pending_q, pending_num>>
    BY <1>2, <1>4, <1>17 DEF WriteSize, Done, Return, groupVars
  <2>4. reg[a] = pending_num_size[g][s] /\ reg[a] # 0
    BY <1>3, <2>3
  <2>1. /\ pc[a] = "sized" /\ pc'[a] = "idle" /\ n \in Nat
        /\ pending_num_size' = [pending_num_size EXCEPT ![g][s] = n]
        /\ UNCHANGED <<total, pending_q, pending_num>>
    BY <1>7, <2>3, <2>4
  <2>2. pending_num_size'[g][s] = n
    BY <1>1, <1>2, <2>1
  <2>8. /\ pending_num[g][s] + pending_num_size[g][s] =
             Len(pending_q[g][s]) + 1
        /\ pending_num'[g][s] = pending_num[g][s]
        /\ Len(pending_q'[g][s]) = Len(pending_q[g][s])
        /\ ~ pc'[a] \in {"size", "sized"}
    BY <1>5, <2>1
  <2>11. Elsewhere(g, s)
    BY <1>1, <1>2, <2>1 DEF Elsewhere
  <2>12. OtherTotals(g)
    BY <2>1 DEF OtherTotals
  <2>9. \A k, f, l \in Nat : k + f = l + 1 => k + (f - 1) = l + 0
    OBVIOUS
  <2>10. pending_num'[g][s] + pending_num_size'[g][s] =
           Len(pending_q'[g][s]) + 0
    <3> DEFINE k == pending_num[g][s]
               f == pending_num_size[g][s]
               l == Len(pending_q[g][s])
    <3>1. k \in Nat /\ f \in Nat /\ l \in Nat /\ k + f = l + 1
      BY <1>7, <2>8
    <3>2. /\ pending_num'[g][s] = k /\ pending_num_size'[g][s] = f - 1
          /\ Len(pending_q'[g][s]) = l
      BY <2>2, <2>8
    <3> HIDE DEF k, f, l
    <3>3. k + (f - 1) = l + 0
      BY <2>9, <3>1
    <3> QED
      BY <3>2, <3>3
  <2>13. SlotsHere(a, g, s)
    BY <2>1, <2>10 DEF SlotsHere
  <2>14. TotalHere(a, g)
    BY <1>6, <1>7, <1>8, <2>1 DEF TotalHere
  <2>15. RegistersHere(a, g, s)
    BY <2>1 DEF RegistersHere
  <2> QED
    BY <1>9, <2>11, <2>12, <2>13, <2>14, <2>15
<1> QED
  BY <1>10, <1>11, <1>12, <1>13, <1>14, <1>15, <1>16, <1>17 DEF AddTask

(***************************************************************************)
(* Of the steps only those of the push touch a counter.                    *)
(***************************************************************************)
LEMMA NextCountInv ==
  ASSUME OneOwner, TypeInv, TypeInv', FreshInv, CountInv, [Next]_vars
  PROVE  CountInv'
<1>1. ASSUME NEW a \in Apps, Application(a) \/ Call(a)
      PROVE  CountInv'
  <2>1. (\A b \in Apps \ {a} : Still(b)) /\ OwnersOnly'
    BY <1>1, OthersWait DEF CountInv
  <2>2. CASE AddTask(a)
    BY <2>1, <2>2, CountAdds
  <2>3. CASE ~ AddTask(a)
    <3>0. Application(a) \/ NumberTask(a) \/ AddUngrouped(a) \/ CreateGroup(a)
      BY <1>1, <2>3 DEF Call
    <3>1. UNCHANGED <<total, bucketVars>>
      BY <3>0, OutsideFrame, CreateZeroes DEF groupVars
    <3>2. pc[a] \notin Counting /\ pc'[a] \notin Counting
      <4>1. /\ pc[a] \in Finding \cup New \cup Outside
            /\ pc'[a] \in Finding \cup New \cup Outside
                          \cup {"test", "total", "crashed"}
        BY <3>0, OutsideFrame, CreateFrame
      <4> QED
        BY <4>1 DEF Finding, Named, New, Outside, Counting
    <3>3. "idle" \notin Counting
      BY DEF Counting
    <3>4. ASSUME NEW b \in Apps, pc[b] \in Counting \/ pc'[b] \in Counting
          PROVE  /\ pc'[b] = pc[b] /\ at'[b] = at[b] /\ reg'[b] = reg[b]
                 /\ Sig(b)' = Sig(b)
      <4>1. b # a /\ Still(b) /\ pc[b] # "idle"
        BY <2>1, <3>2, <3>3, <3>4 DEF Still
      <4>2. level'[task[b]] = level[task[b]]
        BY <1>1, <4>1, LevelStays
      <4> QED
        BY <4>1, <4>2 DEF Still, Sig
    <3> QED
      BY <2>1, <3>1, <3>4, CountFrame
  <2> QED
    BY <2>2, <2>3
<1>2. CASE UNCHANGED vars
  <2>1. OwnersOnly'
    BY <1>2 DEF CountInv, OwnersOnly, vars
  <2> QED
    BY <1>2, <2>1, CountFrame DEF vars, taskVars, groupVars, callVars,
       localVars, Sig
<1> QED
  BY <1>1, <1>2 DEF Next

LEMMA InvariantCountInv ==
  ASSUME OneOwner
  PROVE  Spec => [](TypeInv /\ FreshInv /\ CountInv)
<1>1. CountInv /\ TypeInv /\ TypeInv' /\ FreshInv /\ [Next]_vars => CountInv'
  BY NextCountInv
<1> QED
  BY <1>1, InitCountInv, InvariantFreshInv, PTL DEF Spec

(***************************************************************************)
(* A task is stored within the array of its bucket, however often that has *)
(* grown.                                                                  *)
(***************************************************************************)
THEOREM StoreInBounds ==
  ASSUME OneOwner
  PROVE  Spec => []InBounds
<1>1. TypeInv /\ CountInv => InBounds
  <2> SUFFICES ASSUME TypeInv, CountInv, NEW a \in Apps, pc[a] = "store"
               PROVE  Slot(a) <= Len(pending_q[at[a]][Sig(a)])
    BY DEF InBounds
  <2>1. PICK g \in Groups, s \in Levels : g = at[a] /\ s = Sig(a)
    BY DEF TypeInv, TypeOK, Locals, Adding, Sig
  <2>2. pending_num_size[g][s] # 0
    BY <2>1 DEF CountInv, Registers
  <2>3. /\ pending_num[g][s] \in Nat /\ pending_num_size[g][s] \in Nat
        /\ Len(pending_q[g][s]) \in Nat
    BY DEF TypeInv, TypeOK, GroupTypeOK
  <2>4. ~ HalfCounted(g, s)
    <3> SUFFICES ASSUME NEW b \in Apps, pc[b] \in {"size", "sized"}
                 PROVE  FALSE
      BY DEF HalfCounted
    <3>1. a # b /\ pc[a] \in Owning /\ pc[b] \in Owning
      BY DEF Owning, Grouping, Adding
    <3> QED
      BY <3>1, Alone DEF CountInv
  <2>5. pending_num[g][s] + pending_num_size[g][s] =
          Len(pending_q[g][s]) + 0
    BY <2>4 DEF CountInv, Slots
  <2> QED
    BY <2>1, <2>2, <2>3, <2>5 DEF Slot
<1> QED
  BY <1>1, InvariantCountInv, PTL

(***************************************************************************)
(* Between two pushes the counters of a group agree with its arrays.       *)
(***************************************************************************)
THEOREM CountersCorrect ==
  ASSUME OneOwner
  PROVE  Spec => []CountsAgree
<1>1. TypeInv /\ CountInv => CountsAgree
  <2> SUFFICES ASSUME TypeInv, CountInv, NEW g \in allocated, ~ Busy(g)
               PROVE  /\ \A s \in Levels :
                           pending_num[g][s] + pending_num_size[g][s] =
                             Len(pending_q[g][s])
                      /\ total[g] = Cardinality(Used(g))
    BY DEF CountsAgree, Used
  <2>1. g \in Groups /\ ~ Entered(g) /\ \A s : ~ HalfCounted(g, s)
    BY DEF Busy, Entered, HalfCounted, In, TypeInv, TypeOK, GroupTypeOK
  <2>2. ASSUME NEW s \in Levels
        PROVE  pending_num[g][s] + pending_num_size[g][s] =
                 Len(pending_q[g][s])
    <3>1. Len(pending_q[g][s]) \in Nat
      BY <2>1 DEF TypeInv, TypeOK, GroupTypeOK
    <3>2. pending_num[g][s] + pending_num_size[g][s] =
            Len(pending_q[g][s]) + 0
      BY <2>1 DEF CountInv, Slots
    <3> QED
      BY <3>1, <3>2
  <2>3. total[g] = Cardinality(Used(g)) + 0 /\ Cardinality(Used(g)) \in Nat
    BY <2>1, FS_CardinalityType DEF CountInv, Totals
  <2> QED
    BY <2>2, <2>3
<1> QED
  BY <1>1, InvariantCountInv, PTL

-----------------------------------------------------------------------------
(***************************************************************************)
(* The pool of groups.  It is closed: no set of groups that has the first  *)
(* one and the one behind each of its own leaves out a group that has been *)
(* put into the pool.                                                      *)
(***************************************************************************)
Linking == {"empty", "next", "link"}

Linked == {g \in allocated : \A a \in Apps : pc[a] \in Linking => at[a] # g}

Closed(S) ==
  /\ head[groups] \in S \cup {NULL}
  /\ \A g \in S : next[g] \in S \cup {NULL}

Chain == groups # NULL => \A S \in SUBSET Groups : Closed(S) => Linked \subseteq S

PoolHolds ==
  /\ groups = NULL => allocated = {}
  /\ \A g \in Groups \ allocated : next[g] = NULL /\ name[g] = NULL
  /\ Chain

\* The groups in front of the one where the search is; none has the name.
Before(a, V) ==
  /\ head[groups] \in V \cup {at[a]}
  /\ \A g \in V : next[g] \in V \cup {at[a]} /\ name[g] # key[a]

NoneNamed(x) == \A g \in allocated : name[g] # x

\* What a thread that pushes to a group knows of the pool and of its group.
Knows(a) ==
  /\ pc[a] = "create" => groups = NULL
  /\ pc[a] = "search" => \E V \in SUBSET allocated : Before(a, V)
  /\ pc[a] \in {"add", "name", "copy"} \cup Linking => NoneNamed(key[a])
  /\ pc[a] \in {"first"} \cup Linking => pool[a] = groups
  /\ pc[a] \in {"empty", "next"} => next[at[a]] = NULL
  /\ pc[a] = "link" => next[at[a]] = head[groups]
  /\ pc[a] \in New \cup Adding => groups # NULL
  /\ pc[a] \in Named \cup Adding => name[at[a]] = key[a]

NameInv ==
  /\ OwnersOnly /\ PoolHolds /\ OneGroupPerName
  /\ \A a \in Apps : Knows(a)

LEMMA StepNames ==
  /\ {"create", "first", "search", "add", "total"} \cup Linking \cup New
       \cup Adding \subseteq Owning
  /\ New = Linking \cup {"name", "copy"} \cup Named /\ "total" \in Adding
  /\ {"test", "create", "open", "first", "search", "add", "crashed"}
       \cap (New \cup Adding) = {}
  /\ {"idle", "number", "lock", "head", "put", "unlock"}
       \cap (New \cup Adding \cup Owning) = {}
  /\ New \cap Adding = {} /\ Linking = {"empty", "next", "link"}
  /\ {"name", "copy"} \cap (Linking \cup Named) = {}
  /\ Linking \cap Named = {} /\ "fill" \in Named
BY DEF Owning, Grouping, Finding, New, Named, Adding, Linking

LEMMA InitNameInv == Init => NameInv
<1> SUFFICES ASSUME Init
             PROVE  NameInv
  OBVIOUS
<1>1. \A a \in Apps : pc[a] = "idle"
  BY DEF Init
<1>2. OwnersOnly /\ \A a \in Apps : Knows(a)
  BY <1>1, StepNames DEF OwnersOnly, Knows
<1>3. PoolHolds /\ OneGroupPerName
  BY DEF Init, PoolHolds, OneGroupPerName, Chain
<1> QED
  BY <1>2, <1>3 DEF NameInv

(***************************************************************************)
(* Steps that leave the pool and the names alone.                          *)
(***************************************************************************)
LEMMA NameFrame ==
  ASSUME TypeInv, NameInv, OwnersOnly', UNCHANGED <<poolVars, name>>,
         \A b \in Apps :
           \/ /\ pc'[b] \notin {"create", "first", "search", "add"}
                                 \cup New \cup Adding
              /\ pc[b] \notin Linking
           \/ Still(b)
           \/ /\ pc[b] \in Named \cup Adding /\ pc'[b] \in Named \cup Adding
              /\ at'[b] = at[b] /\ key'[b] = key[b]
  PROVE  NameInv'
<1> USE DEF NameInv, poolVars
<1>0. (Named \cup Adding) \cap
        ({"create", "first", "search", "add", "name", "copy"} \cup Linking) = {}
  BY StepNames
<1>1. Linked' \subseteq Linked
  BY <1>0 DEF Linked, Still
<1>2. Chain'
  BY <1>1 DEF PoolHolds, Chain, Closed
<1>3. PoolHolds'
  BY <1>2 DEF PoolHolds
<1>4. OneGroupPerName'
  BY DEF OneGroupPerName
<1>5. ASSUME NEW b \in Apps
      PROVE  Knows(b)'
  <2>1. CASE pc'[b] \notin {"create", "first", "search", "add"}
                             \cup New \cup Adding
    BY <2>1, StepNames DEF Knows
  <2>2. CASE Still(b)
    <3>1. Knows(b)
      OBVIOUS
    <3>2. \A V : Before(b, V) => Before(b, V)'
      BY <2>2 DEF Before, Still
    <3>3. NoneNamed(key[b]) => NoneNamed(key[b])'
      BY <2>2 DEF NoneNamed, Still
    <3> QED
      BY <2>2, <3>1, <3>2, <3>3 DEF Knows, Still
  <2>3. CASE /\ pc[b] \in Named \cup Adding /\ pc'[b] \in Named \cup Adding
             /\ at'[b] = at[b] /\ key'[b] = key[b]
    <3>1. pc[b] \in New \cup Adding
      BY <2>3, StepNames
    <3> QED
      BY <1>0, <2>3, <3>1, StepNames DEF Knows
  <2> QED
    BY <2>1, <2>2, <2>3
<1> QED
  BY <1>3, <1>4, <1>5

LEMMA KnowsOne ==
  ASSUME NEW a \in Apps, Knows(a)',
         \A b \in Apps \ {a} : pc'[b] \notin Owning
  PROVE  \A b \in Apps : Knows(b)'
BY StepNames DEF Knows

(***************************************************************************)
(* The search of the pool.                                                 *)
(***************************************************************************)
LEMMA NamesSearch ==
  ASSUME OneOwner, TypeInv, FreshInv, NameInv, OwnersOnly', NEW a \in Apps,
         TestGroups(a) \/ CreatePool(a) \/ OpenPool(a) \/ SearchGroup(a)
  PROVE  NameInv'
<1> USE DEF NameInv
<1>1. /\ \A b \in Apps \ {a} : pc[b] \notin Owning /\ pc'[b] \notin Owning
      /\ pc[a] \in {"test", "create", "open", "first", "search"}
  BY AloneNext DEF CreateGroup, TestGroups, CreatePool, OpenPool, ReadPool,
     SearchGroup, SearchFirst, SearchOn, SearchEnd, Go
<1>2. /\ pc \in [Apps -> Steps] /\ at \in [Apps -> Groups \cup {NULL}]
      /\ key \in [Apps -> Names \cup {NULL}]
      /\ pool \in [Apps -> Apps \cup {NULL}]
      /\ head \in [Apps -> Groups \cup {NULL}]
      /\ allocated \in SUBSET Groups /\ groups \in Apps \cup {NULL}
      /\ \A from, to : Go(a, from, to) => pc[a] = from /\ pc'[a] = to
  BY DEF TypeInv, TypeOK, GroupTypeOK, Go
<1>3. /\ pc[a] \notin Linking
      /\ pc'[a] \in {"create", "open", "first", "search", "add", "crashed",
                     "total"}
  BY <1>1, <1>2 DEF TestGroups, CreatePool, OpenPool, ReadPool, SearchGroup,
     SearchFirst, SearchOn, SearchEnd, Linking
<1>4. Linked = allocated /\ Linked' = allocated'
  BY <1>1, <1>3, StepNames DEF Linked
<1>5. UNCHANGED <<next, allocated, name, key>>
  BY DEF TestGroups, CreatePool, OpenPool, ReadPool, SearchGroup, SearchFirst,
     SearchOn, SearchEnd, poolVars, groupVars, callVars
<1>6. OneGroupPerName'
  BY <1>5 DEF OneGroupPerName
<1>7. UNCHANGED <<groups, head>> => PoolHolds'
  BY <1>4, <1>5 DEF PoolHolds, Chain, Closed
<1>8. CASE TestGroups(a)
  <2>1. /\ UNCHANGED <<groups, head>>
        /\ pc'[a] = IF groups = NULL THEN "create" ELSE "open"
    BY <1>2, <1>8 DEF TestGroups, poolVars
  <2>2. Knows(a)'
    BY <2>1, StepNames DEF Knows
  <2> QED
    BY <1>1, <1>6, <1>7, <2>1, <2>2, KnowsOne
<1>9. CASE CreatePool(a)
  <2>1. /\ groups = NULL /\ allocated = {} /\ groups' = a
        /\ pc'[a] = "open"
    BY <1>2, <1>9 DEF CreatePool, Knows, PoolHolds
  <2>2. PoolHolds'
    BY <1>4, <1>5, <2>1 DEF PoolHolds, Chain
  <2>3. Knows(a)'
    BY <2>1, StepNames DEF Knows
  <2> QED
    BY <1>1, <1>6, <2>2, <2>3, KnowsOne
<1>10. CASE OpenPool(a)
  <2>1. /\ UNCHANGED <<groups, head>> /\ pc'[a] = "first"
        /\ pool'[a] = groups
    BY <1>2, <1>10 DEF OpenPool, ReadPool
  <2>2. Knows(a)'
    BY <2>1, StepNames DEF Knows
  <2> QED
    BY <1>1, <1>6, <1>7, <2>1, <2>2, KnowsOne
<1>11. CASE SearchFirst(a)
  <2>1. /\ UNCHANGED <<groups, head>> /\ pc'[a] = "search"
        /\ at'[a] = head[groups]
    BY <1>2, <1>11 DEF SearchFirst, poolVars, Knows
  <2>2. Before(a, {})' /\ {} \in SUBSET allocated'
    BY <2>1 DEF Before
  <2>3. \E V \in SUBSET allocated' : Before(a, V)'
    BY <2>2
  <2>4. Knows(a)'
    BY <2>1, <2>3, StepNames DEF Knows
  <2> QED
    BY <1>1, <1>6, <1>7, <2>1, <2>4, KnowsOne
<1>12. CASE SearchOn(a)
  <2>1. /\ pc[a] = "search" /\ pc'[a] = "search" /\ UNCHANGED <<groups, head>>
        /\ at[a] # NULL /\ name[at[a]] # key[a] /\ at'[a] = next[at[a]]
    BY <1>2, <1>12 DEF SearchOn, poolVars
  <2>3. PICK V \in SUBSET allocated : Before(a, V)
    BY <2>1 DEF Knows
  <2>4. at[a] \in allocated
    BY <2>1 DEF FreshInv, InUse
  <2> DEFINE W == V \cup {at[a]}
  <2>6. /\ head'[groups'] \in W \cup {at'[a]}
        /\ \A g \in W : next'[g] \in W \cup {at'[a]} /\ name'[g] # key'[a]
    BY <1>5, <2>1, <2>3 DEF Before
  <2>7. \E U \in SUBSET allocated' : Before(a, U)'
    <3>1. PICK U \in SUBSET allocated' : U = W
      BY <1>5, <2>4
    <3>2. Before(a, U)'
      BY <2>6, <3>1 DEF Before
    <3> QED
      BY <3>2
  <2>8. Knows(a)'
    BY <2>1, <2>7, StepNames DEF Knows
  <2> QED
    BY <1>1, <1>6, <1>7, <2>1, <2>8, KnowsOne
<1>13. CASE SearchEnd(a)
  <2>1. /\ pc[a] = "search" /\ UNCHANGED <<groups, head, at>>
        /\ pc'[a] = IF at[a] = NULL THEN "add"
                    ELSE IF name[at[a]] = NULL THEN "crashed" ELSE "total"
        /\ at[a] # NULL => name[at[a]] \in {NULL, key[a]}
    BY <1>2, <1>13 DEF SearchEnd, poolVars, localVars
  <2>2. groups # NULL
    BY <2>1, StepSets DEF TypeInv, Locals
  <2>3. PICK V \in SUBSET allocated : Before(a, V)
    BY <2>1 DEF Knows
  <2>4. ASSUME at[a] = NULL
        PROVE  Knows(a)'
    <3>1. Closed(V) /\ V \in SUBSET Groups
      BY <1>2, <2>3, <2>4 DEF Before, Closed
    <3>2. allocated \subseteq V
      BY <1>4, <2>2, <3>1 DEF PoolHolds, Chain
    <3>3. NoneNamed(key[a])'
      BY <1>5, <2>3, <3>2 DEF NoneNamed, Before
    <3> QED
      BY <2>1, <2>4, <3>3, StepNames DEF Knows
  <2>5. ASSUME at[a] # NULL
        PROVE  Knows(a)'
    BY <1>5, <2>1, <2>2, <2>5, StepNames DEF Knows
  <2> QED
    BY <1>1, <1>6, <1>7, <2>1, <2>4, <2>5, KnowsOne
<1> QED
  BY <1>8, <1>9, <1>10, <1>11, <1>12, <1>13 DEF SearchGroup

(***************************************************************************)
(* A new group goes into the pool and gets its name.                       *)
(***************************************************************************)
LEMMA NamesAdd ==
  ASSUME OneOwner, TypeInv, FreshInv, NameInv, OwnersOnly', NEW a \in Apps,
         \/ AllocGroup(a) \/ TestEmpty(a) \/ NextGroup(a) \/ LinkGroup(a)
         \/ NameGroup(a)
  PROVE  NameInv'
<1> USE DEF NameInv
<1>1. \A b \in Apps \ {a} : pc[b] \notin Owning /\ pc'[b] \notin Owning
  BY AloneNext DEF CreateGroup
<1>2. /\ pc \in [Apps -> Steps] /\ at \in [Apps -> Groups \cup {NULL}]
      /\ key \in [Apps -> Names \cup {NULL}]
      /\ pool \in [Apps -> Apps \cup {NULL}]
      /\ head \in [Apps -> Groups \cup {NULL}]
      /\ next \in [Groups -> Groups \cup {NULL}]
      /\ name \in [Groups -> Names \cup {EMPTY, NULL}]
      /\ allocated \in SUBSET Groups /\ groups \in Apps \cup {NULL}
      /\ \A from, to : Go(a, from, to) => pc[a] = from /\ pc'[a] = to
  BY DEF TypeInv, TypeOK, GroupTypeOK, Go
<1>3. /\ UNCHANGED <<groups, key>>
      /\ pc[a] \in {"add", "empty", "next", "link", "name", "copy"}
  BY DEF AllocGroup, ReadPool, TestEmpty, NextGroup, LinkGroup, NameGroup,
     SetName, poolVars, callVars, Go
<1>4. groups # NULL /\ key[a] \in Names
  BY <1>3, StepSets, StepNames DEF TypeInv, Locals, Grouping, Knows
<1>5. pc[a] \in New => at[a] \in allocated
  BY DEF FreshInv, InUse
<1>6. CASE AllocGroup(a)
  <2>1. PICK g \in Groups \ allocated :
          /\ allocated' = allocated \cup {g}
          /\ at' = [at EXCEPT ![a] = g]
    <3>1. Groups \ allocated # {}
      BY <1>2, <1>6 DEF AllocGroup
    <3> QED
      BY <1>6, <3>1, CallocType DEF AllocGroup
  <2>2. /\ pc[a] = "add" /\ pc'[a] = "empty" /\ pool'[a] = groups
        /\ at'[a] = g
        /\ UNCHANGED <<head, next, name>>
    BY <1>2, <1>6, <2>1 DEF AllocGroup, ReadPool, groupVars
  <2>3. next[g] = NULL /\ name[g] = NULL
    BY <2>1 DEF PoolHolds
  <2>5. Linked = allocated /\ Linked' = allocated
    <3>1. Linked = allocated
      BY <1>1, <2>2, StepNames DEF Linked
    <3>2. ASSUME NEW h \in allocated'
          PROVE  h \in Linked' <=> h # g
      BY <1>1, <2>2, <3>2, StepNames DEF Linked
    <3> QED
      BY <2>1, <3>1, <3>2 DEF Linked
  <2>7. Chain'
    BY <1>3, <2>2, <2>5 DEF PoolHolds, Chain, Closed
  <2>9. PoolHolds'
    BY <1>3, <1>4, <2>1, <2>2, <2>7 DEF PoolHolds
  <2>10. OneGroupPerName'
    BY <2>1, <2>2, <2>3 DEF OneGroupPerName
  <2>11. NoneNamed(key[a])'
    BY <1>3, <1>4, <2>1, <2>2, <2>3 DEF NoneNamed, Knows
  <2>12. Knows(a)'
    BY <1>3, <1>4, <2>2, <2>3, <2>11, StepNames DEF Knows
  <2> QED
    BY <1>1, <2>9, <2>10, <2>12, KnowsOne
<1>7. CASE TestEmpty(a)
  <2>1. /\ pc[a] = "empty" /\ UNCHANGED <<head, next, allocated, name, at, pool>>
        /\ pc'[a] = IF head[pool[a]] = NULL THEN "link" ELSE "next"
    BY <1>2, <1>7 DEF TestEmpty, poolVars, groupVars, localVars
  <2>2. pool[a] = groups /\ next[at[a]] = NULL /\ NoneNamed(key[a])
    BY <2>1, StepNames DEF Knows
  <2>3. Linked' = Linked
    BY <1>1, <2>1, StepNames DEF Linked
  <2>4. PoolHolds'
    BY <1>3, <2>1, <2>3 DEF PoolHolds, Chain, Closed
  <2>5. OneGroupPerName'
    BY <2>1 DEF OneGroupPerName
  <2>6. NoneNamed(key[a])'
    BY <1>3, <2>1, <2>2 DEF NoneNamed
  <2>7. Knows(a)'
    BY <1>3, <1>4, <2>1, <2>2, <2>6, StepNames DEF Knows
  <2> QED
    BY <1>1, <2>4, <2>5, <2>7, KnowsOne
<1>8. CASE NextGroup(a)
  <2>1. PICK g \in allocated : g = at[a] /\ pool[a] = groups /\ next[g] = NULL
    BY <1>2, <1>5, <1>8, StepNames DEF NextGroup, Knows
  <2>2. /\ pc[a] = "next" /\ pc'[a] = "link"
        /\ next' = [next EXCEPT ![g] = head[groups]]
        /\ UNCHANGED <<head, allocated, name, at, pool>>
    BY <1>2, <1>8, <2>1 DEF NextGroup, groupVars, localVars
  <2>3. /\ next'[g] = head[groups]
        /\ \A h \in Groups : h # g => next'[h] = next[h]
    BY <1>2, <2>1, <2>2
  <2>4. Linked' = Linked
    BY <1>1, <2>2, StepNames DEF Linked
  <2>5. ASSUME NEW S \in SUBSET Groups, Closed(S)'
        PROVE  Closed(S)
    <3>1. /\ head[groups] \in S \cup {NULL}
          /\ \A h \in S : next'[h] \in S \cup {NULL}
      BY <1>3, <2>2, <2>5 DEF Closed
    <3>2. ASSUME NEW h \in S
          PROVE  next[h] \in S \cup {NULL}
      BY <2>1, <2>3, <3>1
    <3> QED
      BY <3>1, <3>2 DEF Closed
  <2>6. PoolHolds'
    BY <1>3, <2>1, <2>2, <2>3, <2>4, <2>5 DEF PoolHolds, Chain
  <2>7. OneGroupPerName'
    BY <2>2 DEF OneGroupPerName
  <2>8. NoneNamed(key[a])'
    BY <1>3, <2>2, StepNames DEF NoneNamed, Knows
  <2>9. Knows(a)'
    BY <1>3, <1>4, <2>1, <2>2, <2>3, <2>8, StepNames DEF Knows
  <2> QED
    BY <1>1, <2>6, <2>7, <2>9, KnowsOne
<1>9. CASE LinkGroup(a)
  <2>1. PICK g \in allocated :
          g = at[a] /\ pool[a] = groups /\ next[g] = head[groups]
    BY <1>2, <1>5, <1>9, StepNames DEF LinkGroup, Knows
  <2>2. /\ pc[a] = "link" /\ pc'[a] = "name" /\ head'[groups] = g
        /\ UNCHANGED <<next, allocated, name, at>>
    BY <1>2, <1>4, <1>9, <2>1 DEF LinkGroup, groupVars, localVars
  <2>3. Linked = allocated \ {g} /\ Linked' = allocated
    BY <1>1, <2>1, <2>2, StepNames DEF Linked
  <2>4. ASSUME NEW S \in SUBSET Groups, Closed(S)'
        PROVE  Closed(S) /\ g \in S
    <3>1. /\ g \in S \cup {NULL}
          /\ \A h \in S : next[h] \in S \cup {NULL}
      BY <1>3, <2>2, <2>4 DEF Closed
    <3>2. g # NULL
      BY <1>2, <2>1
    <3> QED
      BY <2>1, <3>1, <3>2 DEF Closed
  <2>5. Chain'
    BY <1>3, <1>4, <2>3, <2>4 DEF PoolHolds, Chain
  <2>6. PoolHolds'
    BY <1>3, <1>4, <2>2, <2>5 DEF PoolHolds
  <2>7. OneGroupPerName'
    BY <2>2 DEF OneGroupPerName
  <2>8. NoneNamed(key[a])'
    BY <1>3, <2>2, StepNames DEF NoneNamed, Knows
  <2>9. Knows(a)'
    BY <1>3, <1>4, <2>2, <2>8, StepNames DEF Knows
  <2> QED
    BY <1>1, <2>6, <2>7, <2>9, KnowsOne
<1>10. ASSUME NEW from, NEW to, NEW x \in {EMPTY, key[a]},
              SetName(a, from, to, x),
              \/ from = "name" /\ to = "copy" /\ x = EMPTY
              \/ from = "copy" /\ to = "fill" /\ x = key[a]
       PROVE  NameInv'
  <2>1. /\ pc[a] = from /\ pc'[a] = to /\ name' = [name EXCEPT ![at[a]] = x]
        /\ UNCHANGED <<head, next, allocated, at>>
    BY <1>2, <1>10 DEF SetName, poolVars, localVars
  <2>2. PICK g \in allocated : g = at[a]
    BY <1>5, <1>10, <2>1, StepNames
  <2>3. name'[g] = x /\ \A h \in Groups : h # g => name'[h] = name[h]
    BY <1>2, <2>1, <2>2
  <2>4. Linked = allocated /\ Linked' = allocated
    BY <1>1, <1>10, <2>1, StepNames DEF Linked
  <2>5. PoolHolds'
    <3>1. Chain'
      BY <1>3, <2>1, <2>4 DEF PoolHolds, Chain, Closed
    <3>2. \A h \in Groups \ allocated : name'[h] = name[h]
      BY <2>2, <2>3
    <3> QED
      BY <1>3, <2>1, <3>1, <3>2 DEF PoolHolds
  <2>6. NoneNamed(key[a])
    BY <1>10, <2>1 DEF Knows
  <2>7. OneGroupPerName'
    <3> SUFFICES ASSUME NEW h \in allocated, NEW k \in allocated,
                        name'[h] \in Names, name'[h] = name'[k]
                 PROVE  h = k
      BY <2>1 DEF OneGroupPerName
    <3>1. h \in Groups /\ k \in Groups
      BY <1>2
    <3> QED
      BY <1>10, <2>3, <2>6, <3>1 DEF NoneNamed, OneGroupPerName
  <2>8. to = "copy" => NoneNamed(key[a])'
    BY <1>2, <1>3, <1>4, <1>10, <2>1, <2>3, <2>6 DEF NoneNamed
  <2>9. Knows(a)'
    BY <1>3, <1>4, <1>10, <2>1, <2>2, <2>3, <2>8, StepNames DEF Knows
  <2> QED
    BY <1>1, <2>5, <2>7, <2>9, KnowsOne
<1> QED
  BY <1>6, <1>7, <1>8, <1>9, <1>10 DEF NameGroup

LEMMA NextNameInv ==
  ASSUME OneOwner, TypeInv, FreshInv, NameInv, [Next]_vars
  PROVE  NameInv'
<1>1. ASSUME NEW a \in Apps, Application(a) \/ Call(a)
      PROVE  NameInv'
  <2>1. (\A b \in Apps \ {a} : Still(b)) /\ OwnersOnly'
    BY <1>1, OthersWait DEF NameInv
  <2>2. CASE FillGroup(a) \/ ZeroLevel(a)
    <3>1. /\ pc[a] \in Named /\ pc'[a] \in Named \cup {"total"}
          /\ UNCHANGED <<poolVars, name, at, key>>
      BY <2>2 DEF FillGroup, ZeroLevel, ZeroNum, ZeroSize, ZeroQueue, Go, Named,
         groupVars, callVars, localVars, TypeInv, TypeOK
    <3> QED
      BY <2>1, <3>1, NameFrame, StepNames
  <2>3. CASE CreateGroup(a) /\ ~ FillGroup(a) /\ ~ ZeroLevel(a)
    BY <2>1, <2>3, NamesSearch, NamesAdd DEF CreateGroup
  <2>4. CASE AddTask(a)
    <3>1. /\ UNCHANGED <<poolVars, name>> /\ pc[a] \in Adding
          /\ \/ pc'[a] \in {"idle", "crashed"}
             \/ pc'[a] \in Adding /\ at' = at /\ key' = key
      BY <2>4, AddFrame, StepNames DEF callVars
    <3>2. pc[a] \notin Linking
      BY <3>1, StepNames
    <3> QED
      BY <2>1, <3>1, <3>2, NameFrame, StepNames
  <2>5. CASE Application(a) \/ NumberTask(a) \/ AddUngrouped(a)
    <3>1. UNCHANGED <<poolVars, name>>
      BY <2>5, OutsideFrame DEF groupVars
    <3>2. pc[a] \in Outside /\ pc'[a] \in Outside \cup {"test"}
      BY <2>5, OutsideFrame
    <3>3. /\ pc'[a] \notin {"create", "first", "search", "add"}
                             \cup New \cup Adding
          /\ pc[a] \notin Linking
      BY <3>2 DEF Outside, New, Named, Adding, Linking
    <3> QED
      BY <2>1, <3>1, <3>3, NameFrame
  <2> QED
    BY <1>1, <2>2, <2>3, <2>4, <2>5 DEF Call
<1>2. CASE UNCHANGED vars
  <2>1. OwnersOnly'
    BY <1>2 DEF NameInv, OwnersOnly, vars
  <2> QED
    BY <1>2, <2>1, NameFrame DEF vars, groupVars, callVars, localVars, Still
<1> QED
  BY <1>1, <1>2 DEF Next

LEMMA InvariantNameInv ==
  ASSUME OneOwner
  PROVE  Spec => [](TypeInv /\ FreshInv /\ NameInv)
<1>1. NameInv /\ TypeInv /\ FreshInv /\ [Next]_vars => NameInv'
  BY NextNameInv
<1> QED
  BY <1>1, InitNameInv, InvariantFreshInv, PTL DEF Spec

(***************************************************************************)
(* When one thread names the groups no two of them have one name: what     *)
(* fails with two threads (the run two_owners).                            *)
(***************************************************************************)
THEOREM NamesUnique ==
  ASSUME OneOwner
  PROVE  Spec => []OneGroupPerName
<1>1. NameInv => OneGroupPerName
  BY DEF NameInv
<1> QED
  BY <1>1, InvariantNameInv, PTL

-----------------------------------------------------------------------------
(***************************************************************************)
(* The tasks.  No two threads push one task and none is pushed again; the  *)
(* thread that works on the locked pool has its lock; and a task in a      *)
(* bucket or in the pool was put there by its own push.                    *)
(***************************************************************************)
Apart ==
  /\ \A a, b \in Apps : task[a] # NULL /\ task[a] = task[b] => a = b
  /\ \A a \in Apps : \A p \in pushed : task[a] # p[1]
  /\ \A a \in Apps : pc[a] = "idle" => task[a] = NULL

Locked ==
  \A a \in Apps :
    /\ pc[a] \in {"head", "put", "unlock"} => lock = a
    /\ pc[a] = "put" => seen[a] = pending_tasks

\* The push of the task has returned, or has only a counter or the lock left.
Late == {"size", "sized", "unlock"}

Placed(t) == \/ \E p \in pushed : p[1] = t
             \/ \E a \in Apps : task[a] = t /\ pc[a] \in Late

\* The tasks in a bucket, in their order.
Held(g, s) == SubSeq(pending_q[g][s], 1, pending_num[g][s])

InBuckets(t) == \E g \in Groups, s \in Levels :
                  \E j \in DOMAIN Held(g, s) : t = Held(g, s)[j]

InPool(t) == \E j \in DOMAIN pending_tasks : t = pending_tasks[j]

Accounted == \A t \in Tasks : InBuckets(t) \/ InPool(t) => Placed(t)

\* What is to be counted next is in its slot.
Stored ==
  \A a \in Apps : pc[a] \in {"num", "numbered"} =>
    pending_q[at[a]][Sig(a)][Slot(a)] = task[a]

BucketInv == Apart /\ Locked /\ Accounted /\ Stored

(***************************************************************************)
(* The first slots of an array, where they are kept and where one is added.*)
(***************************************************************************)
\* What a slot may hold.
Cells == Tasks \cup {NULL}

LEMMA FirstSlots ==
  ASSUME NEW q \in Seq(Cells), NEW n \in 0 .. Len(q)
  PROVE  /\ SubSeq(q, 1, n) \in Seq(Cells) /\ Len(SubSeq(q, 1, n)) = n
         /\ DOMAIN SubSeq(q, 1, n) = 1 .. n
         /\ \A j \in 1 .. n : SubSeq(q, 1, n)[j] = q[j]
<1> DEFINE r == SubSeq(q, 1, n)
<1>1. n \in Nat /\ \A i \in 1 .. n : q[i] \in Cells
  OBVIOUS
<1>2. /\ r \in Seq(Cells) /\ Len(r) = IF 1 <= n THEN n - 1 + 1 ELSE 0
      /\ \A j \in 1 .. n - 1 + 1 : r[j] = q[1 + j - 1]
  BY <1>1, SubSeqProperties
<1> HIDE DEF r
<1>3. r \in Seq(Cells) /\ Len(r) = n /\ \A j \in 1 .. n : r[j] = q[j]
  BY <1>1, <1>2
<1> QED
  BY <1>3 DEF r

LEMMA SlotsKept ==
  ASSUME NEW q \in Seq(Cells), NEW r \in Seq(Cells), NEW n \in 0 .. Len(q),
         n <= Len(r), \A j \in 1 .. n : r[j] = q[j]
  PROVE  SubSeq(r, 1, n) = SubSeq(q, 1, n)
<1>1. n \in 0 .. Len(r)
  OBVIOUS
<1>2. /\ SubSeq(r, 1, n) \in Seq(Cells) /\ SubSeq(q, 1, n) \in Seq(Cells)
      /\ Len(SubSeq(r, 1, n)) = n /\ Len(SubSeq(q, 1, n)) = n
      /\ \A j \in 1 .. n : SubSeq(r, 1, n)[j] = SubSeq(q, 1, n)[j]
  BY <1>1, FirstSlots
<1> QED
  BY <1>2, SeqEqual

LEMMA SlotAdded ==
  ASSUME NEW q \in Seq(Cells), NEW n \in Nat, n + 1 <= Len(q)
  PROVE  SubSeq(q, 1, n + 1) = Append(SubSeq(q, 1, n), q[n + 1])
<1> DEFINE k == n + 1
           r == SubSeq(q, 1, n)
<1>1. k \in 0 .. Len(q) /\ n \in 0 .. Len(q) /\ q[k] \in Cells
  OBVIOUS
<1>2. /\ r \in Seq(Cells) /\ Len(r) = n /\ \A j \in 1 .. n : r[j] = q[j]
      /\ SubSeq(q, 1, k) \in Seq(Cells) /\ Len(SubSeq(q, 1, k)) = k
      /\ \A j \in 1 .. k : SubSeq(q, 1, k)[j] = q[j]
  BY <1>1, FirstSlots
<1> HIDE DEF r
<1>3. /\ Append(r, q[k]) \in Seq(Cells) /\ Len(Append(r, q[k])) = k
      /\ \A j \in 1 .. k : Append(r, q[k])[j] = q[j]
  BY <1>1, <1>2
<1>4. SubSeq(q, 1, k) = Append(r, q[k])
  <2> HIDE DEF k
  <2> QED
    BY <1>2, <1>3, SeqEqual
<1> QED
  BY <1>4 DEF r

LEMMA InitBucketInv == Init => BucketInv
<1> SUFFICES ASSUME Init
             PROVE  BucketInv
  OBVIOUS
<1> USE DEF Init
<1>1. Apart /\ Locked /\ Stored
  BY DEF Apart, Locked, Stored
<1>2. \A t : ~ InPool(t)
  BY DEF InPool
<1>3. \A t : ~ InBuckets(t)
  <2>1. ASSUME NEW g \in Groups, NEW s \in Levels
        PROVE  DOMAIN Held(g, s) = {}
    <3>1. pending_q[g][s] = << >> /\ pending_num[g][s] = 0
      OBVIOUS
    <3>2. SubSeq(<< >>, 1, 0) = << >>
      BY SubSeqEmpty
    <3> QED
      BY <3>1, <3>2 DEF Held
  <2> QED
    BY <2>1 DEF InBuckets
<1> QED
  BY <1>1, <1>2, <1>3 DEF BucketInv, Accounted

(***************************************************************************)
(* A thread takes a task, keeps it, or is done with it.                    *)
(***************************************************************************)
Keeps(a) ==
  /\ task' = task /\ pushed' = pushed
  /\ pc[a] # "idle" /\ pc'[a] # "idle"
  /\ pc[a] \in Late => pc'[a] \in Late

Takes(a) ==
  /\ pc[a] = "idle" /\ pc'[a] \in {"number", "test", "lock"}
  /\ pushed' = pushed
  /\ \E t \in Tasks \ Given : task' = [task EXCEPT ![a] = t]

Returns(a) ==
  /\ pc[a] # "idle" /\ pc'[a] = "idle"
  /\ task' = [task EXCEPT ![a] = NULL]
  /\ \/ pc[a] = "number" /\ pushed' = pushed
     \/ pushed' = pushed \cup {<<task[a], key[a]>>}

LEMMA TaskMoves ==
  ASSUME TypeInv, NEW a \in Apps, Application(a) \/ Call(a)
  PROVE  Keeps(a) \/ Takes(a) \/ Returns(a)
<1>0. /\ pc \in [Apps -> Steps] /\ made \in SUBSET Tasks
      /\ \A from, to : Go(a, from, to) => pc[a] = from /\ pc'[a] = to
  BY DEF TypeInv, TypeOK, Go
<1>1. ASSUME NEW s \in Levels, AllocTask(a, s)
      PROVE  Takes(a)
  <2>1. PICK t \in Tasks \ (made \cup Given) : task' = [task EXCEPT ![a] = t]
    <3>1. Tasks \ (made \cup Given) # {}
      BY <1>1 DEF AllocTask
    <3> QED
      BY <1>1, <3>1, CallocType DEF AllocTask
  <2> QED
    BY <1>0, <1>1, <2>1 DEF AllocTask, Takes
<1>2. ASSUME NEW t \in Tasks, PushUngrouped(a, t)
      PROVE  Takes(a)
  BY <1>0, <1>2 DEF PushUngrouped, Takes
<1>3. ASSUME NEW t \in Tasks, NEW x \in Names, Push(a, t, x)
      PROVE  Takes(a)
  BY <1>0, <1>3 DEF Push, Takes
<1>4. CASE NumberTask(a)
  BY <1>0, <1>4 DEF NumberTask, Return, Returns
<1>5. CASE CreateGroup(a)
  <2>1. /\ "idle" \notin Finding \cup New \cup {"total", "crashed"}
        /\ Late \cap (Finding \cup New) = {}
    BY DEF Finding, New, Named, Late
  <2> QED
    BY <1>5, <2>1, CreateFrame DEF Keeps, callVars
<1>6. CASE AddTask(a)
  <2>1. CASE WriteSize(a)
    BY <1>0, <2>1 DEF WriteSize, Done, Return, Returns
  <2>2. CASE ~ WriteSize(a)
    BY <1>0, <1>6, <2>2 DEF AddTask, ReadTotal, WriteTotal, TestRoom, Grow,
       GrowTo, Store, ReadCounter, WriteNum, Keeps, Late, callVars
  <2> QED
    BY <2>1, <2>2
<1>7. CASE AddUngrouped(a)
  <2>1. CASE UnlockPool(a)
    BY <1>0, <2>1 DEF UnlockPool, ReturnWith, Done, Return, Returns
  <2>2. CASE ~ UnlockPool(a)
    BY <1>0, <1>7, <2>2 DEF AddUngrouped, LockPool, BargeIn, ReadHead, PutHead,
       Put, Keeps, Late, callVars
  <2> QED
    BY <2>1, <2>2
<1> QED
  BY <1>1, <1>2, <1>3, <1>4, <1>5, <1>6, <1>7 DEF Application, Call

LEMMA ApartNext ==
  ASSUME TypeInv, Apart, NEW a \in Apps, \A b \in Apps \ {a} : Still(b),
         Keeps(a) \/ Takes(a) \/ Returns(a)
  PROVE  Apart'
<1>1. task \in [Apps -> Tasks \cup {NULL}] /\ \A p \in pushed : p[1] # NULL
  BY DEF TypeInv, TypeOK
<1>2. CASE Keeps(a)
  BY <1>2 DEF Apart, Keeps, Still
<1>3. CASE Takes(a)
  <2>1. PICK t \in Tasks \ Given : task' = [task EXCEPT ![a] = t]
    BY <1>3 DEF Takes
  <2>2. /\ pushed' = pushed /\ pc'[a] # "idle" /\ task'[a] = t
        /\ \A b \in Apps \ {a} : task'[b] = task[b] /\ task[b] # t
        /\ \A p \in pushed : p[1] # t
    BY <1>1, <1>3, <2>1 DEF Takes, Given
  <2> QED
    BY <2>2 DEF Apart, Still
<1>4. CASE Returns(a)
  <2>1. /\ task[a] \in Tasks /\ task'[a] = NULL
        /\ \A b \in Apps \ {a} : task'[b] = task[b] /\ task[b] # task[a]
    BY <1>1, <1>4 DEF Returns, TypeInv, Locals, Apart
  <2>2. \A p \in pushed' : p \in pushed \/ p[1] = task[a]
    BY <1>4 DEF Returns
  <2> QED
    BY <1>1, <1>4, <2>1, <2>2 DEF Apart, Returns, Still
<1> QED
  BY <1>2, <1>3, <1>4

LEMMA PlacedStays ==
  ASSUME TypeInv, NEW a \in Apps, \A b \in Apps \ {a} : Still(b),
         Keeps(a) \/ Takes(a) \/ Returns(a), NEW t, Placed(t)
  PROVE  Placed(t)'
<1>1. pushed \subseteq pushed'
  BY DEF Keeps, Takes, Returns
<1>2. CASE \E p \in pushed : p[1] = t
  BY <1>1, <1>2 DEF Placed
<1>3. ASSUME NEW b \in Apps \ {a}, task[b] = t, pc[b] \in Late
      PROVE  Placed(t)'
  BY <1>3 DEF Placed, Still
<1>4. CASE task[a] = t /\ pc[a] \in Late
  <2>1. pc[a] # "idle" /\ pc[a] # "number"
    BY <1>4 DEF Late
  <2>2. CASE Keeps(a)
    BY <1>4, <2>2 DEF Keeps, Placed
  <2>3. CASE Returns(a)
    <3>1. <<t, key[a]>> \in pushed'
      BY <1>4, <2>1, <2>3 DEF Returns
    <3> QED
      BY <3>1 DEF Placed
  <2> QED
    BY <2>1, <2>2, <2>3 DEF Takes
<1> QED
  BY <1>2, <1>3, <1>4 DEF Placed

(***************************************************************************)
(* The lock keeps the others out of the pool of tasks.                     *)
(***************************************************************************)
LEMMA LockedNext ==
  ASSUME TypeInv, Locked, NEW a \in Apps, \A b \in Apps \ {a} : Still(b),
         Application(a) \/ Call(a)
  PROVE  /\ Locked'
         /\ \/ pending_tasks' = pending_tasks
            \/ /\ PutHead(a)
               /\ pending_tasks' = <<task[a]>> \o pending_tasks
<1>0. /\ pc \in [Apps -> Steps] /\ seen \in [Apps -> Seq(Tasks)]
      /\ \A from, to : Go(a, from, to) => pc[a] = from /\ pc'[a] = to
  BY DEF TypeInv, TypeOK, Go
<1> USE <1>0 DEF Locked, Still
<1>1. CASE AddUngrouped(a)
  <2>1. CASE LockPool(a)
    BY <2>1 DEF LockPool, BargeIn
  <2>2. CASE ReadHead(a)
    BY <2>2 DEF ReadHead, looseVars
  <2>3. CASE PutHead(a)
    BY <2>3 DEF PutHead, Put
  <2>4. CASE UnlockPool(a)
    BY <2>4 DEF UnlockPool, ReturnWith, Done, Return
  <2> QED
    BY <1>1, <2>1, <2>2, <2>3, <2>4 DEF AddUngrouped
<1>2. CASE ~ AddUngrouped(a)
  <2>1. UNCHANGED looseVars /\ pc'[a] \notin {"head", "put", "unlock"}
    <3>1. CASE Application(a) \/ NumberTask(a)
      BY <3>1 DEF Application, AllocTask, PushUngrouped, Push, NumberTask,
         Return
    <3>2. CASE CreateGroup(a)
      <4>1. {"head", "put", "unlock"}
              \cap (Finding \cup New \cup {"total", "crashed"}) = {}
        BY DEF Finding, New, Named
      <4> QED
        BY <3>2, <4>1, CreateFrame
    <3>3. CASE AddTask(a)
      <4>1. {"head", "put", "unlock"}
              \cap (Adding \cup {"idle", "crashed"}) = {}
        BY DEF Adding
      <4> QED
        BY <3>3, <4>1, AddFrame
    <3> QED
      BY <1>2, <3>1, <3>2, <3>3 DEF Call
  <2> QED
    BY <2>1 DEF looseVars
<1> QED
  BY <1>1, <1>2

(***************************************************************************)
(* The pool takes the task that is put, and no other.                      *)
(***************************************************************************)
LEMMA PoolNext ==
  ASSUME TypeInv, NEW a \in Apps, PutHead(a),
         pending_tasks' = <<task[a]>> \o pending_tasks
  PROVE  /\ \A t : InPool(t)' <=> InPool(t) \/ t = task[a]
         /\ \A t : t = task[a] => Placed(t)'
<1>1. PICK x \in Tasks, q \in Seq(Tasks) : x = task[a] /\ q = pending_tasks
  BY DEF PutHead, Put, Go, TypeInv, TypeOK, Locals
<1>2. PICK r : r = <<x>> \o q
  OBVIOUS
<1>3. pending_tasks' = r
  BY <1>1, <1>2
<1>4. \A t : (\E j \in DOMAIN r : t = r[j])
               <=> t = x \/ \E j \in DOMAIN q : t = q[j]
  <2>1. /\ Len(q) \in Nat /\ DOMAIN q = 1 .. Len(q)
        /\ DOMAIN r = 1 .. Len(q) + 1
        /\ \A j \in 1 .. Len(q) + 1 : r[j] = IF j = 1 THEN x ELSE q[j - 1]
    BY <1>2
  <2>2. \A j \in 1 .. Len(q) : j + 1 \in 1 .. Len(q) + 1 /\ r[j + 1] = q[j]
    BY <2>1
  <2>3. \A j \in 1 .. Len(q) + 1 : j = 1 \/ j - 1 \in 1 .. Len(q)
    BY <2>1
  <2>4. 1 \in DOMAIN r /\ r[1] = x
    BY <2>1
  <2>5. ASSUME NEW t, NEW j \in DOMAIN r, t = r[j]
        PROVE  t = x \/ \E i \in DOMAIN q : t = q[i]
    BY <2>1, <2>3, <2>5
  <2>6. ASSUME NEW t, t = x \/ \E i \in DOMAIN q : t = q[i]
        PROVE  \E j \in DOMAIN r : t = r[j]
    BY <2>1, <2>2, <2>4, <2>6
  <2> QED
    BY <2>5, <2>6
<1>5. \A t : InPool(t)' <=> InPool(t) \/ t = task[a]
  <2> HIDE Constants
  <2> TAKE t
  <2>1. (\E j \in DOMAIN r : t = r[j])
               <=> t = x \/ \E j \in DOMAIN q : t = q[j]
    BY <1>4
  <2>2. InPool(t)' <=> \E j \in DOMAIN r : t = r[j]
    BY <1>3, Zenon DEF InPool
  <2>3. InPool(t) <=> \E j \in DOMAIN q : t = q[j]
    BY <1>1, Zenon DEF InPool
  <2> QED
    BY <1>1, <2>1, <2>2, <2>3
<1>6. task'[a] = task[a] /\ pc'[a] = "unlock"
  BY DEF PutHead, Put, Go, callVars, TypeInv, TypeOK
<1>7. \A t : t = task[a] => Placed(t)'
  BY <1>6 DEF Placed, Late
<1> QED
  BY <1>5, <1>7

(***************************************************************************)
(* A bucket's tasks are in its array, whose other slots are free.          *)
(***************************************************************************)
LEMMA BucketsFit ==
  ASSUME TypeInv, CountInv, NEW g \in Groups, NEW s \in Levels
  PROVE  /\ pending_q[g][s] \in Seq(Cells)
         /\ pending_num[g][s] \in 0 .. Len(pending_q[g][s])
<1>1. /\ pending_q[g][s] \in Seq(Cells) /\ Len(pending_q[g][s]) \in Nat
      /\ pending_num[g][s] \in Nat /\ pending_num_size[g][s] \in Nat
  BY DEF TypeInv, TypeOK, GroupTypeOK, Cells
<1>2. /\ pending_num[g][s] + pending_num_size[g][s] =
           Len(pending_q[g][s]) + (IF HalfCounted(g, s) THEN 1 ELSE 0)
      /\ HalfCounted(g, s) => pending_num_size[g][s] # 0
  BY DEF CountInv, Slots, Registers, HalfCounted, In
<1>3. \A n, f, l \in Nat :
         n + f = l \/ (n + f = l + 1 /\ f # 0) => n \in 0 .. l
  OBVIOUS
<1>4. \/ pending_num[g][s] + pending_num_size[g][s] = Len(pending_q[g][s])
      \/ /\ pending_num[g][s] + pending_num_size[g][s] = Len(pending_q[g][s]) + 1
         /\ pending_num_size[g][s] # 0
  <2>1. CASE HalfCounted(g, s)
    BY <1>2, <2>1
  <2>2. CASE ~ HalfCounted(g, s)
    <3>1. pending_num[g][s] + pending_num_size[g][s] =
            Len(pending_q[g][s]) + 0
      BY <1>2, <2>2
    <3> QED
      BY <1>1, <3>1
  <2> QED
    BY <2>1, <2>2
<1> QED
  BY <1>1, <1>3, <1>4

\* The thread puts its task behind those in the bucket, and no other changes.
Appends(a) ==
  \E g \in Groups, s \in Levels :
    /\ g = at[a] /\ s = Sig(a)
    /\ Held(g, s)' = Append(Held(g, s), task[a])
    /\ \A h \in Groups, l \in Levels :
         h # g \/ l # s => Held(h, l)' = Held(h, l)

LEMMA HeldGrows ==
  ASSUME OneOwner, TypeInv, CountInv, NEW a \in Apps, Grow(a)
  PROVE  \A h \in Groups, l \in Levels : Held(h, l)' = Held(h, l)
<1>0. /\ pending_q \in [Groups -> [Levels -> Seq(Tasks \cup {NULL})]]
      /\ pending_num \in [Groups -> [Levels -> Nat]]
      /\ pending_num_size \in [Groups -> [Levels -> Nat]]
  BY DEF TypeInv, TypeOK, GroupTypeOK
<1>1. PICK g \in Groups, s \in Levels : g = at[a] /\ s = Sig(a)
  BY AloneCounts DEF CountInv, AddTask
<1>2. PICK n \in Nat, q \in Seq(Cells) :
         n = pending_num[g][s] /\ q = pending_q[g][s] /\ n \in 0 .. Len(q)
  BY BucketsFit
<1>3. PICK r : r = Resized(q, n + STEP)
  OBVIOUS
<1>4. n + STEP \in Nat /\ n <= n + STEP
  BY <1>2
<1>5. /\ r \in Seq(Cells) /\ Len(r) = n + STEP
      /\ \A j \in 1 .. n + STEP : j <= Len(q) => r[j] = q[j]
  BY <1>3, <1>4, ResizedType DEF Cells
<1>6. n <= Len(r) /\ \A j \in 1 .. n : r[j] = q[j]
  <2>1. \A j \in 1 .. n : j \in 1 .. n + STEP /\ j <= Len(q)
    BY <1>2
  <2> QED
    BY <1>4, <1>5, <2>1
<1>7. SubSeq(r, 1, n) = SubSeq(q, 1, n)
  BY <1>2, <1>5, <1>6, SlotsKept
<1>8. /\ pending_num' = pending_num
      /\ pending_q' = [pending_q EXCEPT ![g][s] = r]
  BY <1>1, <1>2, <1>3 DEF Grow, GrowTo, TypeInv, TypeOK, GroupTypeOK
<1>9. \A h \in Groups, l \in Levels :
         pending_q'[h][l] = IF h = g /\ l = s THEN r ELSE pending_q[h][l]
  BY <1>0, <1>8
<1>10. ASSUME NEW h \in Groups, NEW l \in Levels
       PROVE  Held(h, l)' = Held(h, l)
  <2>1. CASE h = g /\ l = s
    BY <1>2, <1>7, <1>8, <1>9, <2>1 DEF Held
  <2>2. CASE ~ (h = g /\ l = s)
    BY <1>8, <1>9, <2>2 DEF Held
  <2> QED
    BY <2>1, <2>2
<1> QED
  BY <1>10

LEMMA HeldStores ==
  ASSUME OneOwner, TypeInv, CountInv, NEW a \in Apps, Store(a)
  PROVE  /\ \A h \in Groups, l \in Levels : Held(h, l)' = Held(h, l)
         /\ pc'[a] = "num" =>
              pending_q'[at[a]][Sig(a)][Slot(a)] = task[a]
<1>0. /\ pending_q \in [Groups -> [Levels -> Seq(Tasks \cup {NULL})]]
      /\ pending_num \in [Groups -> [Levels -> Nat]]
      /\ pending_num_size \in [Groups -> [Levels -> Nat]]
  BY DEF TypeInv, TypeOK, GroupTypeOK
<1>1. PICK g \in Groups, s \in Levels : g = at[a] /\ s = Sig(a)
  BY AloneCounts DEF CountInv, AddTask
<1>2. PICK n \in Nat, q \in Seq(Cells) :
         n = pending_num[g][s] /\ q = pending_q[g][s] /\ n \in 0 .. Len(q)
  BY BucketsFit
<1>3. PICK t \in Tasks : t = task[a]
  BY DEF Store, Go, TypeInv, Locals
<1>4. PICK k \in Nat : k = n + 1
  BY <1>2
<1>5. PICK r : r = IF k <= Len(q) THEN [q EXCEPT ![k] = t] ELSE q
  OBVIOUS
<1>6. /\ r \in Seq(Cells) /\ Len(r) = Len(q)
      /\ k <= Len(q) => r[k] = t
      /\ \A j \in 1 .. Len(q) : j # k => r[j] = q[j]
  BY <1>4, <1>5 DEF Cells
<1>7. n <= Len(r) /\ \A j \in 1 .. n : r[j] = q[j]
  <2>1. Len(q) \in Nat /\ \A j \in 1 .. n : j \in 1 .. Len(q) /\ j # k
    BY <1>2, <1>4
  <2> QED
    BY <1>2, <1>6, <2>1
<1>8. SubSeq(r, 1, n) = SubSeq(q, 1, n)
  BY <1>2, <1>6, <1>7, SlotsKept
<1>9. /\ pending_num' = pending_num
      /\ pc'[a] = IF k <= Len(q) THEN "num" ELSE "crashed"
      /\ pending_q' = [pending_q EXCEPT ![g][s] = r]
  BY <1>1, <1>2, <1>3, <1>4, <1>5 DEF Store, Go, Slot, TypeInv, TypeOK, GroupTypeOK
<1>10. \A h \in Groups, l \in Levels :
         pending_q'[h][l] = IF h = g /\ l = s THEN r ELSE pending_q[h][l]
  BY <1>0, <1>9
<1>11. ASSUME NEW h \in Groups, NEW l \in Levels
       PROVE  Held(h, l)' = Held(h, l)
  <2>1. CASE h = g /\ l = s
    BY <1>2, <1>8, <1>9, <1>10, <2>1 DEF Held
  <2>2. CASE ~ (h = g /\ l = s)
    BY <1>9, <1>10, <2>2 DEF Held
  <2> QED
    BY <2>1, <2>2
<1>12. pc'[a] = "num" => pending_q'[g][s][k] = t
  BY <1>6, <1>9, <1>10
<1> QED
  BY <1>1, <1>2, <1>3, <1>4, <1>11, <1>12 DEF Slot

LEMMA HeldAppends ==
  ASSUME OneOwner, TypeInv, CountInv, Stored, NEW a \in Apps,
         WriteNum(a)
  PROVE  Appends(a)
<1>0. /\ pending_q \in [Groups -> [Levels -> Seq(Tasks \cup {NULL})]]
      /\ pending_num \in [Groups -> [Levels -> Nat]]
      /\ pending_num_size \in [Groups -> [Levels -> Nat]]
  BY DEF TypeInv, TypeOK, GroupTypeOK
<1>1. PICK g \in Groups, s \in Levels : g = at[a] /\ s = Sig(a)
  BY AloneCounts DEF CountInv, AddTask
<1>2. PICK n \in Nat, q \in Seq(Cells) :
         n = pending_num[g][s] /\ q = pending_q[g][s] /\ n \in 0 .. Len(q)
  BY BucketsFit
<1>3. PICK k \in Nat : k = n + 1
  BY <1>2
<1>4. /\ pc[a] = "numbered" /\ pending_q' = pending_q
      /\ reg[a] = n
  BY <1>1, <1>2 DEF WriteNum, Go, CountInv, Registers
<1>5. pending_num' = [pending_num EXCEPT ![g][s] = k]
  BY <1>1, <1>3, <1>4 DEF WriteNum, TypeInv, TypeOK, GroupTypeOK
<1>6. \A h \in Groups, l \in Levels :
         pending_num'[h][l] = IF h = g /\ l = s THEN k ELSE pending_num[h][l]
  BY <1>0, <1>5
<1>7. q[k] = task[a]
  BY <1>1, <1>2, <1>3, <1>4 DEF Stored, Slot
<1>8. n + 1 <= Len(q)
  <2>1. PICK f \in Nat : f = pending_num_size[g][s] /\ f # 0
    BY <1>0, <1>1, <1>4 DEF CountInv, Registers
  <2>2. ~ HalfCounted(g, s)
    BY <1>1, <1>4, AloneCounts DEF CountInv, AddTask
  <2>3. n + f = Len(q) + 0
    BY <1>2, <2>1, <2>2 DEF CountInv, Slots
  <2> QED
    BY <1>2, <2>1, <2>3
<1>9. SubSeq(q, 1, k) = Append(SubSeq(q, 1, n), task[a])
  BY <1>3, <1>7, <1>8, SlotAdded
<1>10. Held(g, s)' = Append(Held(g, s), task[a])
  BY <1>2, <1>4, <1>6, <1>9 DEF Held
<1>11. \A h \in Groups, l \in Levels :
          h # g \/ l # s => Held(h, l)' = Held(h, l)
  BY <1>4, <1>6 DEF Held
<1> QED
  BY <1>1, <1>10, <1>11 DEF Appends

\* The buckets stay as they are, or the thread puts its task into one; what is
\* to be counted is in its slot.
LEMMA HeldNext ==
  ASSUME OneOwner, TypeInv, FreshInv, CountInv, Stored,
         NEW a \in Apps, Application(a) \/ Call(a)
  PROVE  /\ \/ \A h \in Groups, l \in Levels : Held(h, l)' = Held(h, l)
            \/ WriteNum(a) /\ Appends(a)
         /\ Stored'
<1> USE DEF Stored
<1>1. \A b \in Apps \ {a} : Still(b)
  BY OthersWait DEF CountInv
<1>2. {"num", "numbered"} \subseteq Owning /\ "idle" \notin {"num", "numbered"}
  BY DEF Owning, Grouping, Adding
<1>3. CASE AddTask(a)
  <2>1. /\ pc'[a] # "idle" => at'[a] = at[a] /\ Sig(a)' = Sig(a)
        /\ \A b \in Apps \ {a} : pc'[b] \notin {"num", "numbered"}
    BY <1>2, <1>3, AloneCounts DEF CountInv
  <2>2. CASE Grow(a)
    <3>1. pc'[a] = "store"
      BY <2>2 DEF Grow, GrowTo, Go, TypeInv, TypeOK
    <3> QED
      BY <2>1, <2>2, <3>1, HeldGrows
  <2>3. CASE Store(a)
    <3>1. /\ pc'[a] \in {"num", "crashed"} /\ task' = task
          /\ pending_num' = pending_num
      BY <2>3 DEF Store, Go, callVars, TypeInv, TypeOK
    <3>2. pc'[a] = "num" => Slot(a)' = Slot(a)
      BY <1>2, <2>1, <3>1 DEF Slot
    <3>3. pc'[a] = "num" => pending_q'[at'[a]][Sig(a)'][Slot(a)'] = task'[a]
      BY <1>2, <2>1, <2>3, <3>1, <3>2, HeldStores
    <3>4. Stored'
      BY <2>1, <3>1, <3>3
    <3> QED
      BY <2>3, <3>4, HeldStores
  <2>4. CASE WriteNum(a)
    <3>1. pc'[a] = "size"
      BY <2>4 DEF WriteNum, Go, TypeInv, TypeOK
    <3> QED
      BY <2>1, <2>4, <3>1, HeldAppends
  <2>5. CASE ~ Grow(a) /\ ~ Store(a) /\ ~ WriteNum(a)
    <3>1. UNCHANGED <<pending_q, pending_num>>
      BY <1>3, <2>5 DEF AddTask, ReadTotal, WriteTotal, TestRoom, ReadCounter,
         WriteSize, Done, bucketVars
    <3>2. pc'[a] \in {"num", "numbered"} =>
            pc[a] = "num" /\ UNCHANGED task
      BY <1>3, <2>5 DEF AddTask, ReadTotal, WriteTotal, TestRoom, ReadCounter,
         WriteSize, Done, Return, Go, callVars, TypeInv, TypeOK
    <3>3. pc'[a] \in {"num", "numbered"} => Slot(a)' = Slot(a)
      BY <1>2, <2>1, <3>1 DEF Slot
    <3>4. Stored'
      BY <1>2, <2>1, <3>1, <3>2, <3>3
    <3>5. \A h \in Groups, l \in Levels : Held(h, l)' = Held(h, l)
      BY <3>1 DEF Held
    <3> QED
      BY <3>4, <3>5
  <2> QED
    BY <2>2, <2>3, <2>4, <2>5
<1>4. CASE ~ AddTask(a)
  <2>1. UNCHANGED bucketVars /\ pc'[a] \notin {"num", "numbered"}
    <3>1. CASE CreateGroup(a)
      <4>1. {"num", "numbered"}
              \cap (Finding \cup New \cup {"total", "crashed"}) = {}
        BY DEF Finding, New, Named
      <4> QED
        BY <3>1, <4>1, CreateFrame, CreateZeroes
    <3>2. CASE ~ CreateGroup(a)
      <4>1. {"num", "numbered"} \cap (Outside \cup {"test"}) = {}
        BY DEF Outside
      <4> QED
        BY <1>4, <3>2, <4>1, OutsideFrame DEF Call
    <3> QED
      BY <3>1, <3>2
  <2>2. ASSUME NEW b \in Apps, pc'[b] \in {"num", "numbered"}
        PROVE  pending_q'[at'[b]][Sig(b)'][Slot(b)'] = task'[b]
    <3>1. Still(b) /\ pc[b] # "idle" /\ pc[b] \in {"num", "numbered"}
      BY <1>1, <2>1, <2>2 DEF Still
    <3>2. level'[task[b]] = level[task[b]]
      BY <3>1, LevelStays
    <3>3. Sig(b)' = Sig(b) /\ Slot(b)' = Slot(b)
      BY <2>1, <3>1, <3>2 DEF Sig, Slot, Still, bucketVars
    <3> QED
      BY <2>1, <3>1, <3>3 DEF Still, bucketVars
  <2>3. \A h \in Groups, l \in Levels : Held(h, l)' = Held(h, l)
    BY <2>1 DEF Held, bucketVars
  <2> QED
    BY <2>2, <2>3
<1> QED
  BY <1>3, <1>4

(***************************************************************************)
(* What the buckets hold.                                                  *)
(***************************************************************************)
LEMMA Appended ==
  ASSUME NEW q \in Seq(Cells), NEW x \in Cells, NEW j \in DOMAIN Append(q, x)
  PROVE  Append(q, x)[j] = x \/ \E i \in DOMAIN q : Append(q, x)[j] = q[i]
<1>1. PICK n \in Nat : n = Len(q) /\ DOMAIN q = 1 .. n
  OBVIOUS
<1>2. PICK r \in Seq(Cells) : r = Append(q, x)
  BY AppendProperties
<1>3. /\ DOMAIN r = 1 .. n + 1 /\ r[n + 1] = x
      /\ \A i \in 1 .. n : r[i] = q[i]
  BY <1>1, <1>2, AppendProperties
<1>4. \A i \in 1 .. n + 1 : i = n + 1 \/ i \in 1 .. n
  OBVIOUS
<1> QED
  BY <1>1, <1>2, <1>3, <1>4

LEMMA HeldType ==
  ASSUME TypeInv, CountInv, NEW g \in Groups, NEW s \in Levels
  PROVE  Held(g, s) \in Seq(Cells)
BY BucketsFit, FirstSlots DEF Held

LEMMA BucketsNext ==
  ASSUME TypeInv, CountInv, NEW a \in Apps, pc[a] # "idle",
         \/ \A h \in Groups, l \in Levels : Held(h, l)' = Held(h, l)
         \/ Appends(a)
  PROVE  \A t : InBuckets(t)' => InBuckets(t) \/ (Appends(a) /\ t = task[a])
<1>1. CASE \A h \in Groups, l \in Levels : Held(h, l)' = Held(h, l)
  BY <1>1 DEF InBuckets
<1>2. CASE Appends(a)
  <2>1. PICK g \in Groups : \E s \in Levels :
           /\ Held(g, s)' = Append(Held(g, s), task[a])
           /\ \A h \in Groups, l \in Levels :
                h # g \/ l # s => Held(h, l)' = Held(h, l)
    BY <1>2 DEF Appends
  <2>2. PICK s \in Levels :
           /\ Held(g, s)' = Append(Held(g, s), task[a])
           /\ \A h \in Groups, l \in Levels :
                h # g \/ l # s => Held(h, l)' = Held(h, l)
    BY <2>1
  <2>3. PICK x \in Cells : x = task[a]
    BY DEF TypeInv, Locals, Cells
  <2>4. PICK q \in Seq(Cells) : q = Held(g, s)
    BY HeldType
  <2>5. ASSUME NEW t, NEW h \in Groups, NEW l \in Levels,
               NEW j \in DOMAIN Held(h, l)', t = Held(h, l)'[j]
        PROVE  InBuckets(t) \/ t = task[a]
    <3>1. CASE h = g /\ l = s
      <4>1. j \in DOMAIN Append(q, x) /\ t = Append(q, x)[j]
        BY <2>2, <2>3, <2>4, <2>5, <3>1
      <4>2. t = x \/ \E i \in DOMAIN q : t = q[i]
        BY <4>1, Appended
      <4> QED
        BY <2>3, <2>4, <4>2 DEF InBuckets
    <3>2. CASE ~ (h = g /\ l = s)
      BY <2>2, <2>5, <3>2 DEF InBuckets
    <3> QED
      BY <3>1, <3>2
  <2>6. ASSUME NEW t, InBuckets(t)'
        PROVE  InBuckets(t) \/ t = task[a]
    BY <2>5, <2>6 DEF InBuckets
  <2> QED
    BY <1>2, <2>6
<1> QED
  BY <1>1, <1>2

LEMMA NextBucketInv ==
  ASSUME OneOwner, TypeInv, FreshInv, CountInv, BucketInv, [Next]_vars
  PROVE  BucketInv'
<1>1. ASSUME NEW a \in Apps, Application(a) \/ Call(a)
      PROVE  BucketInv'
  <2>1. \A b \in Apps \ {a} : Still(b)
    BY <1>1, OthersWait DEF CountInv
  <2>2. Keeps(a) \/ Takes(a) \/ Returns(a)
    BY <1>1, TaskMoves
  <2>3. Apart'
    BY <2>1, <2>2, ApartNext DEF BucketInv
  <2>4. /\ Locked'
        /\ \/ pending_tasks' = pending_tasks
           \/ /\ PutHead(a)
              /\ pending_tasks' = <<task[a]>> \o pending_tasks
    BY <1>1, <2>1, LockedNext DEF BucketInv
  <2>5. \A t : Placed(t) => Placed(t)'
    BY <2>1, <2>2, PlacedStays
  <2>6. /\ \/ \A h \in Groups, l \in Levels : Held(h, l)' = Held(h, l)
           \/ WriteNum(a) /\ Appends(a)
        /\ Stored'
    BY <1>1, HeldNext DEF BucketInv
  <2>7. ASSUME NEW t, InPool(t)'
        PROVE  InPool(t) \/ Placed(t)'
    <3>1. CASE pending_tasks' = pending_tasks
      BY <2>7, <3>1 DEF InPool
    <3>2. CASE PutHead(a) /\ pending_tasks' = <<task[a]>> \o pending_tasks
      BY <2>7, <3>2, PoolNext
    <3> QED
      BY <2>4, <3>1, <3>2
  <2>8. ASSUME NEW t, InBuckets(t)'
        PROVE  InBuckets(t) \/ Placed(t)'
    <3>1. CASE \A h \in Groups, l \in Levels : Held(h, l)' = Held(h, l)
      BY <2>8, <3>1 DEF InBuckets
    <3>2. CASE WriteNum(a) /\ Appends(a)
      <4>1. /\ pc[a] = "numbered" /\ pc'[a] = "size" /\ task' = task
        BY <3>2 DEF WriteNum, Go, callVars, TypeInv, TypeOK
      <4>2. t = task[a] => Placed(t)'
        BY <4>1 DEF Placed, Late
      <4> QED
        BY <2>8, <3>2, <4>1, <4>2, BucketsNext
    <3> QED
      BY <2>6, <3>1, <3>2
  <2>9. ASSUME NEW t \in Tasks, InBuckets(t)' \/ InPool(t)'
        PROVE  Placed(t)'
    <3>1. InBuckets(t) \/ InPool(t) \/ Placed(t)'
      BY <2>7, <2>8, <2>9
    <3> QED
      BY <2>5, <3>1 DEF BucketInv, Accounted
  <2>10. Accounted'
    BY <2>9 DEF Accounted
  <2> QED
    BY <2>3, <2>4, <2>6, <2>10 DEF BucketInv
<1>2. CASE UNCHANGED vars
  <2>1. Apart' /\ Locked' /\ Stored'
    BY <1>2 DEF vars, taskVars, bucketVars, looseVars, callVars, localVars,
       BucketInv, Apart, Locked, Stored, Sig, Slot
  <2>2. \A t : /\ InBuckets(t)' <=> InBuckets(t)
               /\ InPool(t)' <=> InPool(t)
               /\ Placed(t)' <=> Placed(t)
    BY <1>2 DEF vars, bucketVars, looseVars, callVars, InBuckets, Held, InPool,
       Placed
  <2> QED
    BY <2>1, <2>2 DEF BucketInv, Accounted
<1> QED
  BY <1>1, <1>2 DEF Next

\* Everything that is known of pushing.
PushInv == TypeInv /\ FreshInv /\ CountInv /\ NameInv /\ BucketInv

LEMMA InvariantPushInv ==
  ASSUME OneOwner
  PROVE  Spec => []PushInv
<1>1. BucketInv /\ TypeInv /\ FreshInv /\ CountInv /\ [Next]_vars => BucketInv'
  BY NextBucketInv
<1>2. Spec => [](TypeInv /\ FreshInv /\ CountInv) /\ []NameInv
  BY InvariantCountInv, InvariantNameInv, PTL
<1>3. TypeInv /\ FreshInv /\ CountInv /\ NameInv /\ BucketInv => PushInv
  BY DEF PushInv
<1> QED
  BY <1>1, <1>2, <1>3, InitBucketInv, PTL DEF Spec

-----------------------------------------------------------------------------
(***************************************************************************)
(* The refinement.  The bucket of a name is that of the group of the name. *)
(***************************************************************************)
LEMMA BucketFound ==
  ASSUME OneGroupPerName, NEW x \in Names, NEW s \in Levels,
         NEW g \in allocated, name[g] = x
  PROVE  BucketOf(x, s) = Held(g, s)
<1> DEFINE h == CHOOSE h \in allocated : name[h] = x
<1>1. h \in allocated /\ name[h] = x
  OBVIOUS
<1>2. h = g
  BY <1>1 DEF OneGroupPerName
<1> QED
  BY <1>2 DEF BucketOf, Held

LEMMA BucketFoundNext ==
  ASSUME OneGroupPerName', NEW x \in Names, NEW s \in Levels,
         NEW g \in allocated', name'[g] = x
  PROVE  BucketOf(x, s)' = Held(g, s)'
<1> DEFINE h == CHOOSE h \in allocated' : name'[h] = x
<1>1. h \in allocated' /\ name'[h] = x
  OBVIOUS
<1>2. h = g
  BY <1>1 DEF OneGroupPerName
<1> QED
  BY <1>2 DEF BucketOf, Held

LEMMA BucketMissing ==
  ASSUME NEW x, NEW s, NoneNamed(x)
  PROVE  BucketOf(x, s) = << >>
BY DEF BucketOf, NoneNamed

(***************************************************************************)
(* A group whose name a step changes, or that it allocates, has nothing in *)
(* its buckets.                                                            *)
(***************************************************************************)
LEMMA FreshHeld ==
  ASSUME NEW g \in Groups, Fresh(g), NEW s \in Levels
  PROVE  Held(g, s) = << >>
<1>1. \A q : SubSeq(q, 1, 0) = << >>
  BY SubSeqEmpty
<1> QED
  BY <1>1 DEF Held, Fresh

LEMMA NamesNext ==
  ASSUME TypeInv, FreshInv, NEW a \in Apps, Application(a) \/ Call(a),
         NEW g \in Groups
  PROVE  \/ (g \in allocated' <=> g \in allocated) /\ name'[g] = name[g]
         \/ \A s \in Levels : Held(g, s) = << >>
<1>1. CASE AllocGroup(a)
  <2>1. /\ name' = name
        /\ \E h : h \notin allocated /\ allocated' = allocated \cup {h}
    <3>1. Groups \ allocated # {}
      BY <1>1 DEF AllocGroup, TypeInv, TypeOK, GroupTypeOK
    <3> QED
      BY <1>1, <3>1, CallocType DEF AllocGroup, ReadPool, groupVars
  <2>2. g \notin allocated => \A s \in Levels : Held(g, s) = << >>
    BY FreshHeld DEF FreshInv
  <2> QED
    BY <2>1, <2>2
<1>2. CASE NameGroup(a)
  <2>1. /\ allocated' = allocated
        /\ pc[a] \in New
        /\ \E x : name' = [name EXCEPT ![at[a]] = x]
    BY <1>2 DEF NameGroup, SetName, Go, New, poolVars
  <2>2. g = at[a] => \A s \in Levels : Held(g, s) = << >>
    BY <2>1, FreshHeld DEF FreshInv
  <2>3. g # at[a] => name'[g] = name[g]
    BY <2>1 DEF TypeInv, TypeOK, GroupTypeOK
  <2> QED
    BY <2>1, <2>2, <2>3
<1>3. CASE ~ AllocGroup(a) /\ ~ NameGroup(a)
  <2>1. UNCHANGED <<allocated, name>>
    <3>1. CASE CreateGroup(a)
      BY <1>3, <3>1 DEF CreateGroup, TestGroups, CreatePool, OpenPool,
         ReadPool, SearchGroup, SearchFirst, SearchOn, SearchEnd, TestEmpty,
         NextGroup, LinkGroup, FillGroup, ZeroLevel, ZeroNum, ZeroSize,
         ZeroQueue, poolVars, groupVars
    <3>2. CASE ~ CreateGroup(a)
      BY <3>2, OutsideFrame, AddFrame DEF Call, poolVars, groupVars
    <3> QED
      BY <3>1, <3>2
  <2> QED
    BY <2>1
<1> QED
  BY <1>1, <1>2, <1>3

LEMMA BucketStays ==
  ASSUME TypeInv, TypeInv', FreshInv, NameInv, NameInv',
         NEW a \in Apps, Application(a) \/ Call(a),
         \A h \in Groups, l \in Levels : Held(h, l)' = Held(h, l),
         NEW x \in Names, NEW s \in Levels
  PROVE  BucketOf(x, s)' = BucketOf(x, s)
<1>1. allocated \subseteq Groups /\ allocated' \subseteq Groups
  BY DEF TypeInv, TypeOK, GroupTypeOK
<1>2. OneGroupPerName /\ OneGroupPerName'
  BY DEF NameInv
<1>3. ASSUME NEW h \in allocated', name'[h] = x
      PROVE  BucketOf(x, s)' = Held(h, s)
  <2>1. Held(h, s)' = Held(h, s)
    BY <1>1
  <2>2. BucketOf(x, s)' = Held(h, s)'
    BY <1>2, <1>3, BucketFoundNext
  <2> QED
    BY <2>1, <2>2
<1>4. (\A h \in allocated' : name'[h] # x) => BucketOf(x, s)' = << >>
  BY BucketMissing DEF NoneNamed, BucketOf
<1>5. CASE \E g \in allocated : name[g] = x
  <2>1. PICK g \in allocated : name[g] = x
    BY <1>5
  <2>2. BucketOf(x, s) = Held(g, s)
    BY <1>2, <2>1, BucketFound
  <2>3. CASE g \in allocated' /\ name'[g] = name[g]
    BY <1>3, <2>1, <2>2, <2>3
  <2>4. CASE ~ (g \in allocated' /\ name'[g] = name[g])
    <3>1. Held(g, s) = << >>
      BY <1>1, <2>1, <2>4, NamesNext
    <3>2. ASSUME NEW h \in allocated', name'[h] = x
          PROVE  Held(h, s) = << >>
      <4>1. ~ (h \in allocated /\ name'[h] = name[h])
        BY <1>2, <2>1, <2>4, <3>2 DEF OneGroupPerName
      <4> QED
        BY <1>1, <3>2, <4>1, NamesNext
    <3> QED
      BY <1>3, <1>4, <2>2, <3>1, <3>2
  <2> QED
    BY <2>3, <2>4
<1>6. CASE ~ \E g \in allocated : name[g] = x
  <2>1. BucketOf(x, s) = << >>
    BY <1>6, BucketMissing DEF NoneNamed
  <2>2. ASSUME NEW h \in allocated', name'[h] = x
        PROVE  Held(h, s) = << >>
    <3>1. ~ (h \in allocated /\ name'[h] = name[h])
      BY <1>6, <2>2
    <3> QED
      BY <1>1, <2>2, <3>1, NamesNext
  <2> QED
    BY <1>3, <1>4, <2>1, <2>2
<1> QED
  BY <1>5, <1>6

\* The state that the abstract specification sees.
Shown == [x \in Names |-> [s \in Levels |-> BucketOf(x, s)]]
Loose == {pending_tasks[j] : j \in DOMAIN pending_tasks}

(***************************************************************************)
(* A task that is about to be added is not yet anywhere.                   *)
(***************************************************************************)
LEMMA AddedOnce ==
  ASSUME PushInv, NEW a \in Apps, pc[a] \in {"numbered", "put"}
  PROVE  task[a] \in Tasks /\ ~ Abstract!InBucket(task[a]) /\ task[a] \notin Loose
<1>1. task[a] \in Tasks
  BY DEF PushInv, TypeInv, Locals
<1>2. ~ Placed(task[a])
  <2>1. \A p \in pushed : p[1] # task[a]
    BY DEF PushInv, BucketInv, Apart
  <2>2. \A b \in Apps : task[b] = task[a] => b = a
    BY <1>1 DEF PushInv, BucketInv, Apart
  <2>3. pc[a] \notin Late
    BY DEF Late
  <2> QED
    BY <2>1, <2>2, <2>3 DEF Placed
<1>3. ~ InBuckets(task[a]) /\ ~ InPool(task[a])
  BY <1>1, <1>2 DEF PushInv, BucketInv, Accounted
<1>4. task[a] \notin Loose
  BY <1>3 DEF InPool, Loose
<1>5. ASSUME NEW x \in Names, NEW s \in Levels, NEW i \in DOMAIN BucketOf(x, s),
             BucketOf(x, s)[i] = task[a]
      PROVE  FALSE
  <2>1. CASE \E g \in allocated : name[g] = x
    <3>1. PICK g \in allocated : name[g] = x
      BY <2>1
    <3>2. BucketOf(x, s) = Held(g, s) /\ g \in Groups
      BY <3>1, BucketFound DEF PushInv, NameInv, TypeInv, TypeOK, GroupTypeOK
    <3> QED
      BY <1>3, <1>5, <3>2 DEF InBuckets
  <2>2. CASE ~ \E g \in allocated : name[g] = x
    <3>1. BucketOf(x, s) = << >>
      BY <2>2, BucketMissing DEF NoneNamed
    <3> QED
      BY <1>5, <3>1
  <2> QED
    BY <2>1, <2>2
<1>6. ~ Abstract!InBucket(task[a])
  BY <1>5 DEF Abstract!InBucket
<1> QED
  BY <1>1, <1>4, <1>6

(***************************************************************************)
(* Counting a task in its bucket is the addition.                          *)
(***************************************************************************)
LEMMA BucketAdds ==
  ASSUME PushInv, PushInv', NEW a \in Apps, WriteNum(a), Appends(a)
  PROVE  \E x \in Names, s \in Levels :
           Shown' = [Shown EXCEPT ![x][s] = Append(@, task[a])]
<1>1. /\ pc[a] = "numbered" /\ UNCHANGED <<allocated, name>>
  BY DEF WriteNum, Go, poolVars, groupVars
<1>2. PICK g \in allocated, x \in Names : g = at[a] /\ x = key[a] /\ name[g] = x
  BY <1>1 DEF PushInv, FreshInv, InUse, NameInv, Knows, TypeInv, Locals, Adding,
     Grouping
<1>3. PICK s \in Levels :
         /\ Held(g, s)' = Append(Held(g, s), task[a])
         /\ \A h \in Groups, l \in Levels :
              h # g \/ l # s => Held(h, l)' = Held(h, l)
  BY <1>2 DEF Appends
<1>4. allocated \subseteq Groups /\ OneGroupPerName /\ OneGroupPerName'
  BY DEF PushInv, NameInv, TypeInv, TypeOK, GroupTypeOK
<1>5. ASSUME NEW y \in Names, NEW l \in Levels, NEW h \in allocated, name[h] = y
      PROVE  /\ BucketOf(y, l) = Held(h, l)
             /\ BucketOf(y, l)' = Held(h, l)'
  BY <1>1, <1>4, <1>5, BucketFound, BucketFoundNext
<1>6. BucketOf(x, s)' = Append(BucketOf(x, s), task[a])
  BY <1>2, <1>3, <1>5
<1>7. ASSUME NEW y \in Names, NEW l \in Levels, y # x \/ l # s
      PROVE  BucketOf(y, l)' = BucketOf(y, l)
  <2>1. CASE \E h \in allocated : name[h] = y
    <3>1. PICK h \in allocated : name[h] = y
      BY <2>1
    <3>2. h # g \/ l # s
      BY <1>2, <1>7, <3>1
    <3> QED
      BY <1>3, <1>4, <1>5, <3>1, <3>2
  <2>2. CASE ~ \E h \in allocated : name[h] = y
    BY <1>1, <2>2 DEF BucketOf
  <2> QED
    BY <2>1, <2>2
<1>8. Shown' = [Shown EXCEPT ![x][s] = Append(@, task[a])]
  BY <1>6, <1>7 DEF Shown
<1> QED
  BY <1>8

LEMMA InitImplements == Init => Abstract!Init
<1> SUFFICES ASSUME Init
             PROVE  Abstract!Init
  OBVIOUS
<1>1. \A x, s : BucketOf(x, s) = << >>
  BY DEF Init, BucketOf
<1>2. Shown = [x \in Names |-> [s \in Levels |-> << >>]]
  BY <1>1 DEF Shown
<1>3. Loose = {}
  BY DEF Init, Loose
<1> QED
  BY <1>2, <1>3 DEF Abstract!Init, Shown, Loose

LEMMA StepImplements ==
  ASSUME OneOwner, PushInv, PushInv', [Next]_vars
  PROVE  [Abstract!Next]_Abstract!vars
<1>0. /\ TypeInv /\ TypeInv' /\ FreshInv /\ CountInv /\ NameInv /\ NameInv'
      /\ BucketInv /\ Stored
  BY DEF PushInv, BucketInv
<1>1. ASSUME NEW a \in Apps, Application(a) \/ Call(a)
      PROVE  [Abstract!Next]_Abstract!vars
  <2>1. \A b \in Apps \ {a} : Still(b)
    BY <1>0, <1>1, OthersWait DEF CountInv
  <2>2. \/ pending_tasks' = pending_tasks
        \/ PutHead(a) /\ pending_tasks' = <<task[a]>> \o pending_tasks
    BY <1>0, <1>1, <2>1, LockedNext DEF BucketInv
  <2>3. \/ \A h \in Groups, l \in Levels : Held(h, l)' = Held(h, l)
        \/ WriteNum(a) /\ Appends(a)
    BY <1>0, <1>1, HeldNext
  <2>4. (\A h \in Groups, l \in Levels : Held(h, l)' = Held(h, l))
          => Shown' = Shown
    <3>1. ASSUME \A h \in Groups, l \in Levels : Held(h, l)' = Held(h, l),
                 NEW x \in Names, NEW s \in Levels
          PROVE  BucketOf(x, s)' = BucketOf(x, s)
      BY <1>0, <1>1, <3>1, BucketStays
    <3> QED
      BY <3>1 DEF Shown
  <2>5. CASE WriteNum(a) /\ Appends(a)
    <3>1. pc[a] = "numbered" /\ pending_tasks' = pending_tasks
      BY <2>5 DEF WriteNum, Go, looseVars
    <3>2. PICK t \in Tasks : t = task[a]
      BY <1>1, <3>1, AddedOnce
    <3>3. ~ Abstract!InBucket(t) /\ t \notin Loose
      BY <3>1, <3>2, AddedOnce
    <3>4. PICK x \in Names : \E s \in Levels :
             Shown' = [Shown EXCEPT ![x][s] = Append(@, t)]
      BY <2>5, <3>2, BucketAdds
    <3>5. PICK s \in Levels : Shown' = [Shown EXCEPT ![x][s] = Append(@, t)]
      BY <3>4
    <3>6. Loose' = Loose
      BY <3>1 DEF Loose
    <3>7. Abstract!Add(t, x, s)
      BY <3>3, <3>5, <3>6 DEF Abstract!Add, Shown, Loose
    <3> QED
      BY <3>7 DEF Abstract!Next
  <2>6. CASE PutHead(a) /\ pending_tasks' = <<task[a]>> \o pending_tasks
    <3>1. pc[a] = "put"
      BY <2>6 DEF PutHead, Put, Go
    <3>2. PICK t \in Tasks : t = task[a]
      BY <3>1, AddedOnce
    <3>3. ~ Abstract!InBucket(t) /\ t \notin Loose
      BY <3>1, <3>2, AddedOnce
    <3>4. \A u : InPool(u)' <=> InPool(u) \/ u = t
      BY <1>0, <2>6, <3>2, PoolNext
    <3>5. Loose' = Loose \cup {t}
      BY <3>4 DEF InPool, Loose
    <3>6. Shown' = Shown
      <4>1. ~ WriteNum(a)
        BY <3>1 DEF WriteNum, Go
      <4> QED
        BY <2>3, <2>4, <4>1
    <3>7. Abstract!AddUngrouped(t)
      BY <3>3, <3>5, <3>6 DEF Abstract!AddUngrouped, Shown, Loose
    <3> QED
      BY <3>7 DEF Abstract!Next
  <2>7. CASE /\ \A h \in Groups, l \in Levels : Held(h, l)' = Held(h, l)
             /\ pending_tasks' = pending_tasks
    <3>1. Shown' = Shown /\ Loose' = Loose
      BY <2>4, <2>7 DEF Loose
    <3> QED
      BY <3>1 DEF Abstract!vars, Shown, Loose
  <2> QED
    BY <2>2, <2>3, <2>5, <2>6, <2>7
<1>2. CASE UNCHANGED vars
  <2>1. \A x, s : BucketOf(x, s)' = BucketOf(x, s)
    BY <1>2 DEF vars, poolVars, groupVars, bucketVars, BucketOf
  <2>2. Shown' = Shown /\ Loose' = Loose
    BY <1>2, <2>1 DEF vars, looseVars, Shown, Loose
  <2> QED
    BY <2>2 DEF Abstract!vars, Shown, Loose
<1> QED
  BY <1>1, <1>2 DEF Next

(***************************************************************************)
(* A push of the owner is one addition to the bucket of the name and the   *)
(* significance, behind the tasks pushed before; a push without a name is  *)
(* one addition to the locked pool, whichever threads push there.          *)
(***************************************************************************)
THEOREM BucketsImplemented ==
  ASSUME OneOwner
  PROVE  Spec => ImplementsBuckets
<1>1. PushInv /\ PushInv' /\ [Next]_vars => [Abstract!Next]_Abstract!vars
  BY StepImplements
<1> QED
  BY <1>1, InitImplements, InvariantPushInv, PTL
     DEF Spec, ImplementsBuckets, Abstract!Spec
=============================================================================
