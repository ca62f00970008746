----------------------------- MODULE FifoQueue -----------------------------
(***************************************************************************)
(* What the work queue of queue.c promises to its callers: a first-in      *)
(* first-out queue whose operations take effect one at a time.  A push     *)
(* adds its datum at the end; a pop either takes the first datum or, only  *)
(* when there is none, answers "empty".                                    *)
(***************************************************************************)
EXTENDS Sequences

CONSTANTS
  Poppers,   \* the threads that call queue_pop
  Data,      \* what an element may carry (in the runtime: a task)
  NULL       \* *data after an empty pop

VARIABLES
  contents,  \* the data that is in the queue, first out first
  result     \* result[c]: *data as left by the last queue_pop of c

vars == <<contents, result>>

Init ==
  /\ contents = << >>
  /\ result = [c \in Poppers |-> NULL]

Enqueue(d) ==
  /\ contents' = Append(contents, d)
  /\ UNCHANGED result

Dequeue(c) ==
  /\ contents # << >>
  /\ contents' = Tail(contents)
  /\ result' = [result EXCEPT ![c] = Head(contents)]

DequeueEmpty(c) ==
  /\ contents = << >>
  /\ result' = [result EXCEPT ![c] = NULL]
  /\ UNCHANGED contents

Next ==
  \/ \E d \in Data : Enqueue(d)
  \/ \E c \in Poppers : Dequeue(c) \/ DequeueEmpty(c)

Spec == Init /\ [][Next]_vars

=============================================================================
