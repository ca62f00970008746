------------------------------ MODULE Buckets ------------------------------
(***************************************************************************)
(* What push_task promises: a task pushed to a named group is added to the *)
(* group's bucket for the task's significance, behind those pushed before  *)
(* it, and one pushed without a name is added to the pool of such tasks.   *)
(***************************************************************************)
EXTENDS Sequences

CONSTANTS Tasks, Names, Levels

VARIABLES
  bucket,      \* the tasks of every group and level, in the order of pushing
  ungrouped    \* the tasks pushed without a name

vars == <<bucket, ungrouped>>

Init ==
  /\ bucket = [x \in Names |-> [s \in Levels |-> << >>]]
  /\ ungrouped = {}

InBucket(t) == \E x \in Names, s \in Levels :
                 \E i \in DOMAIN bucket[x][s] : bucket[x][s][i] = t

Add(t, x, s) ==
  /\ ~ InBucket(t) /\ t \notin ungrouped
  /\ bucket' = [bucket EXCEPT ![x][s] = Append(@, t)]
  /\ UNCHANGED ungrouped

AddUngrouped(t) ==
  /\ ~ InBucket(t) /\ t \notin ungrouped
  /\ ungrouped' = ungrouped \cup {t}
  /\ UNCHANGED bucket

Next == \E t \in Tasks : \/ \E x \in Names, s \in Levels : Add(t, x, s)
                         \/ AddUngrouped(t)

Spec == Init /\ [][Next]_vars

=============================================================================
