-------------------------------- MODULE List --------------------------------
(***************************************************************************)
(* What a pool of list.c promises its caller: a sequence of elements, and  *)
(* an answer to every call.  The elements a caller looks for are given as  *)
(* a set, those its compare function accepts.                              *)
(***************************************************************************)
EXTENDS Naturals, Sequences

CONSTANT Elements

VARIABLES
  contents,   \* the elements, first to last
  answer      \* what the last call returned, as a sequence: an element that
              \* was found, none, or all those a function was applied to

vars == <<contents, answer>>

Init == contents = << >> /\ answer = << >>

AddFirst(e) == contents' = <<e>> \o contents /\ answer' = <<e>>
AddLast(e)  == contents' = Append(contents, e) /\ answer' = <<e>>

\* s without its i-th element
Without(s, i) ==
  [j \in 1 .. Len(s) - 1 |-> IF j < i THEN s[j] ELSE s[j + 1]]

\* i is the first position of an element of M
FirstIn(i, M) ==
  /\ i \in 1 .. Len(contents)
  /\ contents[i] \in M
  /\ \A j \in 1 .. i - 1 : contents[j] \notin M

Delete(M) == \E i \in 1 .. Len(contents) :
  /\ FirstIn(i, M)
  /\ contents' = Without(contents, i)
  /\ answer' = <<contents[i]>>

Find(M) == \E i \in 1 .. Len(contents) :
  /\ FirstIn(i, M)
  /\ answer' = <<contents[i]>>
  /\ UNCHANGED contents

\* Neither a deletion nor a search finds what is not there.
NotFound(M) ==
  /\ \A i \in 1 .. Len(contents) : contents[i] \notin M
  /\ answer' = << >>
  /\ UNCHANGED contents

ForEach == answer' = contents /\ UNCHANGED contents

\* While a pool is being emptied its elements go one after the other.
Drop == contents # << >> /\ contents' = Tail(contents) /\ UNCHANGED answer

Next ==
  \/ \E e \in Elements : AddFirst(e) \/ AddLast(e)
  \/ \E M \in SUBSET Elements : Delete(M) \/ Find(M) \/ NotFound(M)
  \/ ForEach
  \/ Drop

Spec == Init /\ [][Next]_vars

=============================================================================
