----------------------------- MODULE WorkQueue -----------------------------
(***************************************************************************)
(* queue.c, one step per access to shared memory: a linked list with a     *)
(* dummy first node, pushed at the tail and popped at the head with        *)
(* compare-and-swap.  A push links its element to the last node with one   *)
(* CAS and then swings queue->tail with a second one; nobody helps a       *)
(* pusher that stops in between.  A pop moves queue->head onto the next    *)
(* node, which becomes the new dummy.  No node is ever freed.              *)
(*                                                                         *)
(* Between its two CAS operations a pusher leaves tail one node behind,    *)
(* and head may then overtake it.                                          *)
(***************************************************************************)
EXTENDS Integers, Sequences

CONSTANTS
  Pushers,   \* threads that call queue_push (wait_group's caller)
  Poppers,   \* threads that call queue_pop (the worker that owns the queue)
  Nodes,     \* the element_t objects that can ever be allocated
  Dummy,     \* the element_t that queue_init allocates
  Data,      \* what an element may carry
  NULL

ASSUME QueueAssumption ==
  /\ Dummy \in Nodes
  /\ NULL \notin Nodes
  /\ NULL \notin Data

VARIABLES
  next, data,   \* the two fields of every element_t
  made,         \* the element_t objects that have been allocated
  head, tail,   \* the fields of the queue_t
  pushPc, el, tl,      \* queue_push of p: its step, element and local tail
  popPc, hd, result,   \* queue_pop of c: its step, local head and *data
  queued        \* history: the nodes linked and not yet popped, in order

pushVars == <<pushPc, el, tl>>
popVars  == <<popPc, hd, result>>
vars == <<next, data, made, head, tail, pushVars, popVars, queued>>

PushSteps == {"idle", "read", "link", "swing"}
PopSteps  == {"idle", "read", "check", "cas", "fetch"}

(***************************************************************************)
(* queue_init                                                              *)
(***************************************************************************)
Init ==
  /\ next = [n \in Nodes |-> NULL]
  /\ data = [n \in Nodes |-> NULL]
  /\ made = {Dummy}
  /\ head = Dummy
  /\ tail = Dummy
  /\ pushPc = [p \in Pushers |-> "idle"]
  /\ el = [p \in Pushers |-> NULL]
  /\ tl = [p \in Pushers |-> NULL]
  /\ popPc = [c \in Poppers |-> "idle"]
  /\ hd = [c \in Poppers |-> NULL]
  /\ result = [c \in Poppers |-> NULL]
  /\ queued = << >>

-----------------------------------------------------------------------------
(***************************************************************************)
(* queue_make_element followed by the call of queue_push                   *)
(***************************************************************************)
MakeElement(p, e, d) ==
  /\ pushPc[p] = "idle"
  /\ e \notin made
  /\ made' = made \cup {e}
  /\ next' = [next EXCEPT ![e] = NULL]
  /\ data' = [data EXCEPT ![e] = d]
  /\ el' = [el EXCEPT ![p] = e]
  /\ pushPc' = [pushPc EXCEPT ![p] = "read"]
  /\ UNCHANGED <<head, tail, tl, popVars, queued>>

\* tail = queue->tail
ReadTail(p) ==
  /\ pushPc[p] = "read"
  /\ tl' = [tl EXCEPT ![p] = tail]
  /\ pushPc' = [pushPc EXCEPT ![p] = "link"]
  /\ UNCHANGED <<next, data, made, head, tail, el, popVars, queued>>

\* tail->next = element, linking the element at the end
Link(p) ==
  /\ pushPc[p] = "link"
  /\ next' = [next EXCEPT ![tl[p]] = el[p]]
  /\ queued' = Append(queued, el[p])
  /\ pushPc' = [pushPc EXCEPT ![p] = "swing"]
  /\ UNCHANGED <<data, made, head, tail, el, tl, popVars>>

\* The first CAS, on tail->next, finds it NULL: the element is in the queue.
LinkElement(p) ==
  pushPc[p] = "link" /\ next[tl[p]] = NULL /\ Link(p)

\* The first CAS fails: another element is linked there; yield and retry.
LinkFails(p) ==
  /\ pushPc[p] = "link"
  /\ next[tl[p]] # NULL
  /\ pushPc' = [pushPc EXCEPT ![p] = "read"]
  /\ UNCHANGED <<next, data, made, head, tail, el, tl, popVars, queued>>

\* Faulty variant: the push returns as soon as its element is linked.
SwingForgotten(p) ==
  /\ pushPc[p] = "swing"
  /\ pushPc' = [pushPc EXCEPT ![p] = "idle"]
  /\ UNCHANGED <<next, data, made, head, tail, el, tl, popVars, queued>>

\* The second CAS, on queue->tail: return on success, else start again.
SwingTail(p) ==
  /\ pushPc[p] = "swing"
  /\ IF tail = tl[p]
     THEN /\ tail' = el[p]
          /\ pushPc' = [pushPc EXCEPT ![p] = "idle"]
     ELSE /\ pushPc' = [pushPc EXCEPT ![p] = "read"]
          /\ UNCHANGED tail
  /\ UNCHANGED <<next, data, made, head, el, tl, popVars, queued>>

Push(p) == ReadTail(p) \/ LinkElement(p) \/ LinkFails(p) \/ SwingTail(p)

-----------------------------------------------------------------------------
\* head = queue->head, at the call and again at every retry
ReadHead(c) ==
  /\ popPc[c] \in {"idle", "read"}
  /\ hd' = [hd EXCEPT ![c] = head]
  /\ popPc' = [popPc EXCEPT ![c] = "check"]
  /\ UNCHANGED <<next, data, made, head, tail, pushVars, result, queued>>

\* head->next == NULL: *data = NULL and return 2.
PopEmpty(c) ==
  /\ popPc[c] = "check"
  /\ next[hd[c]] = NULL
  /\ result' = [result EXCEPT ![c] = NULL]
  /\ popPc' = [popPc EXCEPT ![c] = "idle"]
  /\ UNCHANGED <<next, data, made, head, tail, pushVars, hd, queued>>

SeeNext(c) ==
  /\ popPc[c] = "check"
  /\ next[hd[c]] # NULL
  /\ popPc' = [popPc EXCEPT ![c] = "cas"]
  /\ UNCHANGED <<next, data, made, head, tail, pushVars, hd, result, queued>>

\* queue->head = head->next
Advance(c) ==
  /\ popPc[c] = "cas"
  /\ head' = next[hd[c]]
  /\ queued' = Tail(queued)
  /\ popPc' = [popPc EXCEPT ![c] = "fetch"]
  /\ UNCHANGED <<next, data, made, tail, pushVars, hd, result>>

\* CAS(&queue->head, head, head->next)
MoveHead(c) ==
  popPc[c] = "cas" /\ head = hd[c] /\ Advance(c)

\* Faulty variant: a failed CAS is repeated with the head already read.
MoveHeadSpins(c) ==
  /\ popPc[c] = "cas"
  /\ head # hd[c]
  /\ UNCHANGED vars

MoveHeadFails(c) ==
  /\ popPc[c] = "cas"
  /\ head # hd[c]
  /\ popPc' = [popPc EXCEPT ![c] = "read"]
  /\ UNCHANGED <<next, data, made, head, tail, pushVars, hd, result, queued>>

\* *data = d and return 0
Fetch(c, d) ==
  /\ popPc[c] = "fetch"
  /\ result' = [result EXCEPT ![c] = d]
  /\ popPc' = [popPc EXCEPT ![c] = "idle"]
  /\ UNCHANGED <<next, data, made, head, tail, pushVars, hd, queued>>

\* Faulty variants: the datum of the old dummy; the element, not its datum.
FetchOldDummy(c) == Fetch(c, data[hd[c]])
FetchElement(c) == Fetch(c, next[hd[c]])

\* *data = head->next->data: reads the new dummy, after the CAS.
FetchData(c) == Fetch(c, data[next[hd[c]]])

Pop(c) == \/ ReadHead(c) \/ PopEmpty(c) \/ SeeNext(c)
          \/ MoveHead(c) \/ MoveHeadFails(c) \/ FetchData(c)

-----------------------------------------------------------------------------
Next ==
  \/ \E p \in Pushers, e \in Nodes, d \in Data : MakeElement(p, e, d)
  \/ \E p \in Pushers : Push(p)
  \/ \E c \in Poppers : Pop(c)

Spec == Init /\ [][Next]_vars

\* A thread inside queue_push keeps running, and so does a worker, which
\* calls queue_pop again and again.  Nothing obliges a thread to push.
Fairness ==
  /\ \A p \in Pushers : WF_vars(Push(p))
  /\ \A c \in Poppers : WF_vars(Pop(c))

FairSpec == Spec /\ Fairness

-----------------------------------------------------------------------------
\* Every field and every local of queue.c has its type.
TypeOK ==
  /\ next \in [Nodes -> made \cup {NULL}]
  /\ data \in [Nodes -> Data \cup {NULL}]
  /\ made \in SUBSET Nodes
  /\ head \in made
  /\ tail \in made
  /\ pushPc \in [Pushers -> PushSteps]
  /\ el \in [Pushers -> made \cup {NULL}]
  /\ tl \in [Pushers -> made \cup {NULL}]
  /\ popPc \in [Poppers -> PopSteps]
  /\ hd \in [Poppers -> made \cup {NULL}]
  /\ result \in [Poppers -> Data \cup {NULL}]
  /\ queued \in Seq(made)

(***************************************************************************)
(* The second CAS of queue_push (queue.c:78) never fails: whoever linked   *)
(* an element is the only one that may move tail away from the node it was *)
(* linked to.  Were it to fail, the loop would link the element again.     *)
(***************************************************************************)
LinkedOnce ==
  \A p \in Pushers : pushPc[p] = "swing" => /\ tail = tl[p]
                                           /\ next[tail] = el[p]

\* The nodes from the dummy on, as a walk along the next pointers meets them.
Walk == <<head>> \o queued

(***************************************************************************)
(* Following next from queue->head meets exactly the elements that were    *)
(* pushed and not yet popped, in the order of their linking, and ends in   *)
(* NULL; queue->tail is the last of these nodes or, while a push is half   *)
(* done, points to it.                                                     *)
(***************************************************************************)
ChainHolds ==
  /\ \A i \in 1 .. Len(queued) : next[Walk[i]] = Walk[i + 1]
  /\ next[Walk[Len(queued) + 1]] = NULL
  /\ Walk[Len(queued) + 1] = IF next[tail] = NULL THEN tail ELSE next[tail]

(***************************************************************************)
(* The next field of an allocated node is written once: queue_pop may read *)
(* head->next three times (queue.c:95, 101 and 103), the last time after   *)
(* it has given up the node, and always sees the same element.             *)
(***************************************************************************)
NextWrittenOnce ==
  [][\A n \in made : next[n] # NULL => next'[n] = next[n]]_vars

(***************************************************************************)
(* Every queue_push returns although it may have to spin behind another    *)
(* pusher that has linked its element and not yet moved tail.              *)
(***************************************************************************)
PushReturns ==
  \A p \in Pushers : pushPc[p] = "read" ~> pushPc[p] = "idle"

\* Every queue_pop returns, with a datum or with the answer "empty".
PopReturns ==
  \A c \in Poppers : popPc[c] = "check" ~> popPc[c] = "idle"

(***************************************************************************)
(* The inductive invariant behind the properties above: the elements of    *)
(* unfinished pushes are distinct and outside the chain until linked, and  *)
(* a local copy of tail or head is current or has a successor.             *)
(***************************************************************************)
PushersOwn ==
  \A p \in Pushers : pushPc[p] # "idle" =>
    /\ el[p] \in made
    /\ data[el[p]] \in Data
    /\ \A q \in Pushers : q # p /\ pushPc[q] # "idle" => el[q] # el[p]

NotYetLinked ==
  \A p \in Pushers : pushPc[p] \in {"read", "link"} =>
    /\ el[p] # tail
    /\ next[el[p]] = NULL

StaleTail ==
  \A p \in Pushers : pushPc[p] = "link" =>
    /\ tl[p] \in made
    /\ tl[p] = tail \/ next[tl[p]] # NULL

StaleHead ==
  \A c \in Poppers :
    /\ popPc[c] \in {"check", "cas", "fetch"} =>
         /\ hd[c] \in made
         /\ hd[c] = head \/ next[hd[c]] # NULL
    /\ popPc[c] \in {"cas", "fetch"} => next[hd[c]] # NULL

IInv ==
  /\ TypeOK
  /\ PushersOwn
  /\ NotYetLinked
  /\ StaleTail
  /\ StaleHead
  /\ LinkedOnce
  /\ ChainHolds

(***************************************************************************)
(* The refinement: a push takes effect when its element is linked, a pop   *)
(* when head moves, an empty answer when head->next is seen to be NULL.    *)
(***************************************************************************)
Contents == [i \in 1 .. Len(queued) |-> data[queued[i]]]

Results == [c \in Poppers |-> IF popPc[c] = "fetch"
                              THEN data[next[hd[c]]]
                              ELSE result[c]]

Fifo == INSTANCE FifoQueue WITH contents <- Contents, result <- Results

\* queue.c implements the first-in first-out queue its callers rely on.
ImplementsFifo == Fifo!Spec

=============================================================================
