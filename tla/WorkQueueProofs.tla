-------------------------- MODULE WorkQueueProofs --------------------------
(***************************************************************************)
(* Proofs about WorkQueue and QueueLife for any number of pushers, poppers *)
(* and elements.                                                           *)
(***************************************************************************)
EXTENDS QueueLife, SequenceTheorems, TLAPS

USE QueueAssumption

(***************************************************************************)
(* A non-empty sequence, taken as its first element and the rest.          *)
(***************************************************************************)
LEMMA Prepend ==
  ASSUME NEW S, NEW h \in S, NEW q \in Seq(S)
  PROVE  LET w == <<h>> \o q
         IN  /\ Len(q) \in Nat
             /\ w[1] = h
             /\ \A i \in 1 .. Len(q) : w[i + 1] = q[i]
             /\ \A i \in 1 .. Len(q) + 1 : w[i] \in S
<1> DEFINE w == <<h>> \o q
<1>1. /\ <<h>> \in Seq(S)
      /\ \A i \in 1 .. 1 + Len(q) :
            w[i] = IF i <= 1 THEN <<h>>[i] ELSE q[i - 1]
  OBVIOUS
<1>2. Len(q) \in Nat /\ \A i \in 1 .. Len(q) : q[i] \in S
  OBVIOUS
<1> HIDE DEF w
<1>3. w[1] = h
  BY <1>1, <1>2
<1>4. \A i \in 1 .. Len(q) : w[i + 1] = q[i]
  BY <1>1, <1>2
<1>5. ASSUME NEW i \in 1 .. Len(q) + 1
      PROVE  w[i] \in S
  <2>1. CASE i = 1
    BY <2>1, <1>3
  <2>2. CASE i # 1
    <3>1. i - 1 \in 1 .. Len(q)
      BY <2>2, <1>2
    <3> QED
      BY <2>2, <3>1, <1>1, <1>2
  <2> QED
    BY <2>1, <2>2
<1> QED
  BY <1>2, <1>3, <1>4, <1>5 DEF w

(***************************************************************************)
(* Walk is head followed by the queued elements.                           *)
(***************************************************************************)
LEMMA WalkNodes ==
  ASSUME TypeOK
  PROVE  /\ Len(queued) \in Nat
         /\ Walk[1] = head
         /\ \A i \in 1 .. Len(queued) : Walk[i + 1] = queued[i]
         /\ \A i \in 1 .. Len(queued) + 1 : Walk[i] \in made
BY Prepend DEF TypeOK, Walk

(***************************************************************************)
(* The same after a step.                                                  *)
(***************************************************************************)
LEMMA WalkNodesNext ==
  ASSUME head' \in made', queued' \in Seq(made')
  PROVE  /\ Len(queued') \in Nat
         /\ Walk'[1] = head'
         /\ \A i \in 1 .. Len(queued') : Walk'[i + 1] = queued'[i]
         /\ \A i \in 1 .. Len(queued') + 1 : Walk'[i] \in made'
BY Prepend DEF Walk

(***************************************************************************)
(* Linking an element makes the walk one longer at its end.                *)
(***************************************************************************)
LEMMA WalkLinked ==
  ASSUME TypeOK, NEW e \in made, queued' = Append(queued, e),
         UNCHANGED <<made, head>>
  PROVE  /\ Len(queued') = Len(queued) + 1
         /\ \A i \in 1 .. Len(queued) + 1 : Walk'[i] = Walk[i]
         /\ Walk'[Len(queued) + 2] = e
<1> DEFINE k == Len(queued)
<1>1. /\ k \in Nat
      /\ Len(queued') = k + 1
      /\ head' \in made' /\ queued' \in Seq(made')
  BY WalkNodes DEF TypeOK
<1>2. \A i \in 1 .. k : queued'[i] = queued[i]
  BY DEF TypeOK
<1>3. Walk'[1] = Walk[1]
  BY <1>1, WalkNodes, WalkNodesNext
<1>4. \A i \in 1 .. k : Walk'[i + 1] = Walk[i + 1]
  BY <1>1, <1>2, WalkNodes, WalkNodesNext
<1>5. ASSUME NEW i \in 1 .. k + 1, i # 1
      PROVE  Walk'[i] = Walk[i]
  <2>1. i - 1 \in 1 .. k /\ (i - 1) + 1 = i
    BY <1>1, <1>5
  <2> QED
    BY <1>4, <2>1
<1>6. Walk'[k + 2] = e
  <2>1. queued'[k + 1] = e
    BY DEF TypeOK
  <2>2. k + 1 \in 1 .. Len(queued') /\ (k + 1) + 1 = k + 2
    BY <1>1
  <2> QED
    BY <1>1, <2>1, <2>2, WalkNodesNext
<1> QED
  BY <1>1, <1>3, <1>5, <1>6

(***************************************************************************)
(* A pop takes the first node off the walk.                                *)
(***************************************************************************)
LEMMA WalkPopped ==
  ASSUME TypeOK, queued # << >>, head' = queued[1], queued' = Tail(queued),
         UNCHANGED made
  PROVE  /\ Len(queued') = Len(queued) - 1
         /\ \A i \in 1 .. Len(queued) : Walk'[i] = Walk[i + 1]
<1> DEFINE k == Len(queued)
<1>1. queued \in Seq(made) /\ k \in Nat \ {0} /\ queued[1] \in made
  BY DEF TypeOK
<1>2. /\ queued' \in Seq(made') /\ Len(queued') = k - 1
      /\ head' \in made'
  BY <1>1
<1>3. Walk'[1] = queued[1]
  BY <1>2, WalkNodesNext
<1>4. Walk[1 + 1] = queued[1]
  BY <1>1, WalkNodes
<1>5. ASSUME NEW i \in 1 .. k, i # 1
      PROVE  Walk'[i] = Walk[i + 1]
  <2>1. i - 1 \in 1 .. k - 1 /\ (i - 1) + 1 = i
    BY <1>1, <1>5
  <2>2. Walk'[(i - 1) + 1] = queued'[i - 1]
    BY <1>2, <2>1, WalkNodesNext
  <2>3. queued'[i - 1] = queued[(i - 1) + 1]
    BY <1>1, <2>1
  <2>4. Walk[i + 1] = queued[i]
    BY WalkNodes
  <2> QED
    BY <2>1, <2>2, <2>3, <2>4
<1> QED
  BY <1>2, <1>3, <1>4, <1>5

(***************************************************************************)
(* The chain of next pointers from head is empty exactly when head->next   *)
(* is NULL, and otherwise goes on with the first queued element.           *)
(***************************************************************************)
LEMMA HeadNext ==
  ASSUME TypeOK, ChainHolds
  PROVE  /\ next[head] = NULL => queued = << >>
         /\ next[head] # NULL => queued # << >> /\ next[head] = queued[1]
<1>1. Len(queued) \in Nat /\ queued \in Seq(made)
  BY WalkNodes DEF TypeOK
<1>2. CASE queued = << >>
  <2>1. Len(queued) = 0
    BY <1>2
  <2>2. next[head] = NULL
    BY <2>1, WalkNodes DEF ChainHolds
  <2> QED
    BY <1>2, <2>2
<1>3. CASE queued # << >>
  <2>1. Len(queued) >= 1
    BY <1>1, <1>3
  <2>2. next[Walk[1]] = Walk[1 + 1] /\ Walk[1 + 1] = queued[1] /\ Walk[1] = head
    BY <1>1, <2>1, WalkNodes DEF ChainHolds
  <2>3. queued[1] \in made
    BY <1>1, <2>1
  <2> QED
    BY <1>3, <2>2, <2>3 DEF TypeOK
<1> QED
  BY <1>2, <1>3

(***************************************************************************)
(* The initial state of queue_init.                                        *)
(***************************************************************************)
LEMMA InitInv == Init => IInv
<1> SUFFICES ASSUME Init PROVE IInv
  OBVIOUS
<1>1. TypeOK
  BY DEF Init, TypeOK, PushSteps, PopSteps
<1>2. /\ PushersOwn /\ NotYetLinked /\ StaleTail
      /\ StaleHead /\ LinkedOnce
  BY DEF Init, PushersOwn, NotYetLinked, StaleTail, StaleHead, LinkedOnce
<1>3. ChainHolds
  <2>1. Len(queued) = 0 /\ Walk[1] = Dummy
    BY <1>1, WalkNodes DEF Init
  <2> QED
    BY <2>1 DEF Init, ChainHolds
<1> QED
  BY <1>1, <1>2, <1>3 DEF IInv

(***************************************************************************)
(* Steps that leave the chain alone keep it intact.                        *)
(***************************************************************************)
LEMMA ChainUnchanged ==
  ASSUME ChainHolds, UNCHANGED <<next, head, tail, queued>>
  PROVE  ChainHolds'
BY DEF ChainHolds, Walk

\* A fresh element is not linked to anything.
LEMMA MakeElementInv ==
  ASSUME IInv, NEW p \in Pushers, NEW e \in Nodes, NEW d \in Data,
         MakeElement(p, e, d)
  PROVE  IInv'
<1> USE DEF IInv, MakeElement, pushVars, popVars
<1>1. TypeOK'
  <2>1. made' \in SUBSET Nodes /\ made \subseteq made'
    BY DEF TypeOK
  <2>2. queued' \in Seq(made')
    BY <2>1, SeqMonotonic DEF TypeOK
  <2> QED
    BY <2>1, <2>2 DEF TypeOK, PushSteps, PopSteps
<1>2. \A n \in made : n # e /\ next'[n] = next[n] /\ data'[n] = data[n]
  BY DEF TypeOK
<1>3. next'[e] = NULL /\ data'[e] = d /\ e \in made' /\ made \subseteq made'
  BY DEF TypeOK
<1>4. /\ pushPc' = [pushPc EXCEPT ![p] = "read"]
      /\ el' = [el EXCEPT ![p] = e]
      /\ \A q \in Pushers : q # p => /\ pushPc'[q] = pushPc[q]
                                    /\ el'[q] = el[q]
      /\ pushPc'[p] = "read" /\ el'[p] = e
  BY DEF TypeOK
<1>5. PushersOwn'
  BY <1>2, <1>3, <1>4 DEF PushersOwn
<1>6. NotYetLinked'
  BY <1>2, <1>3, <1>4 DEF NotYetLinked, PushersOwn, TypeOK
<1>7. StaleTail'
  BY <1>2, <1>3, <1>4 DEF StaleTail
<1>8. StaleHead'
  BY <1>2, <1>3 DEF StaleHead
<1>9. LinkedOnce'
  BY <1>2, <1>4 DEF LinkedOnce, TypeOK
<1>10. ChainHolds'
  <2>1. Walk' = Walk /\ Len(queued') = Len(queued) /\ tail' = tail
    BY DEF Walk
  <2>2. \A i \in 1 .. Len(queued) + 1 : next'[Walk[i]] = next[Walk[i]]
    BY <1>2, WalkNodes
  <2>3. next'[tail] = next[tail]
    BY <1>2 DEF TypeOK
  <2>4. Len(queued) \in Nat
    BY WalkNodes
  <2> QED
    BY <2>1, <2>2, <2>3, <2>4 DEF ChainHolds
<1> QED
  BY <1>1, <1>5, <1>6, <1>7, <1>8, <1>9, <1>10

\* What a pusher reads as the tail is in the chain.
LEMMA ReadTailInv ==
  ASSUME IInv, NEW p \in Pushers, ReadTail(p)
  PROVE  IInv'
<1> USE DEF IInv, ReadTail, pushVars, popVars
<1>1. TypeOK'
  BY DEF TypeOK, PushSteps
<1>2. PushersOwn' /\ NotYetLinked' /\ StaleHead'
  BY DEF PushersOwn, NotYetLinked, StaleHead, TypeOK
<1>3. StaleTail' /\ LinkedOnce'
  BY DEF StaleTail, LinkedOnce, TypeOK
<1> QED
  BY <1>1, <1>2, <1>3, ChainUnchanged

\* The CAS on next appends one element to the chain.
LEMMA LinkElementInv ==
  ASSUME IInv, NEW p \in Pushers, LinkElement(p)
  PROVE  IInv'
<1> USE DEF IInv, LinkElement, Link, popVars
<1> DEFINE e == el[p]
<1>1. tl[p] = tail /\ next[tail] = NULL
  BY DEF StaleTail
<1>2. e \in made /\ e # tail /\ next[e] = NULL /\ e # NULL
  BY DEF PushersOwn, NotYetLinked, TypeOK
<1>3. /\ next'[tail] = e
      /\ \A n \in Nodes : n # tail => next'[n] = next[n]
  BY <1>1 DEF TypeOK
<1>4. \A n \in made : next[n] # NULL => next'[n] = next[n]
  BY <1>1, <1>3 DEF TypeOK
<1>5. \A q \in Pushers : pushPc[q] # "swing"
  BY <1>1 DEF LinkedOnce, PushersOwn, TypeOK
<1>6. /\ pushPc'[p] = "swing"
      /\ \A q \in Pushers : q # p => pushPc'[q] = pushPc[q]
  BY DEF TypeOK
<1>7. TypeOK'
  <2>1. queued' \in Seq(made)
    BY <1>2 DEF TypeOK
  <2>2. next' \in [Nodes -> made \cup {NULL}]
    BY <1>2 DEF TypeOK
  <2> QED
    BY <2>1, <2>2 DEF TypeOK, PushSteps
<1>8. PushersOwn'
  BY <1>6 DEF PushersOwn
<1>9. NotYetLinked'
  BY <1>3, <1>6 DEF NotYetLinked, PushersOwn, TypeOK
<1>10. StaleTail'
  BY <1>4, <1>6 DEF StaleTail
<1>11. StaleHead'
  BY <1>4 DEF StaleHead
<1>12. LinkedOnce'
  BY <1>1, <1>3, <1>5, <1>6 DEF LinkedOnce
<1>13. ChainHolds'
  <2> DEFINE k == Len(queued)
  <2>1. k \in Nat /\ Len(queued') = k + 1
    BY <1>2, WalkNodes DEF TypeOK
  <2>2. \A i \in 1 .. k + 1 : Walk'[i] = Walk[i]
    BY <1>2, WalkLinked
  <2>3. Walk'[k + 2] = e
    BY <1>2, WalkLinked
  <2>4. Walk[k + 1] = tail
    BY <1>1 DEF ChainHolds
  <2>5. \A i \in 1 .. k : next'[Walk[i]] = Walk[i + 1]
    <3>1. \A i \in 1 .. k : Walk[i] \in made /\ Walk[i + 1] \in made
      BY <2>1, WalkNodes
    <3>2. \A i \in 1 .. k : next[Walk[i]] # NULL
      BY <3>1 DEF ChainHolds, TypeOK
    <3> QED
      BY <1>4, <3>1, <3>2 DEF ChainHolds
  <2>6. ASSUME NEW i \in 1 .. k + 1
        PROVE  next'[Walk'[i]] = Walk'[i + 1]
    <3>1. CASE i = k + 1
      <4>1. i + 1 = k + 2
        BY <2>1, <3>1
      <4> QED
        BY <1>3, <2>2, <2>3, <2>4, <3>1, <4>1
    <3>2. CASE i # k + 1
      <4>1. i \in 1 .. k /\ i + 1 \in 1 .. k + 1
        BY <2>1, <3>2
      <4> QED
        BY <2>2, <2>5, <4>1
    <3> QED
      BY <3>1, <3>2
  <2>7. next'[e] = NULL
    BY <1>2, <1>3 DEF TypeOK
  <2>8. Len(queued') + 1 = k + 2 /\ tail' = tail
    BY <2>1
  <2> QED
    BY <1>2, <1>3, <2>1, <2>3, <2>6, <2>7, <2>8 DEF ChainHolds
<1> QED
  BY <1>7, <1>8, <1>9, <1>10, <1>11, <1>12, <1>13

\* A CAS on next that fails changes nothing shared.
LEMMA LinkFailsInv ==
  ASSUME IInv, NEW p \in Pushers, LinkFails(p)
  PROVE  IInv'
<1> USE DEF IInv, LinkFails, pushVars, popVars
<1>1. TypeOK'
  BY DEF TypeOK, PushSteps
<1>2. PushersOwn' /\ NotYetLinked' /\ StaleHead'
  BY DEF PushersOwn, NotYetLinked, StaleHead, TypeOK
<1>3. StaleTail' /\ LinkedOnce'
  BY DEF StaleTail, LinkedOnce, TypeOK
<1> QED
  BY <1>1, <1>2, <1>3, ChainUnchanged

\* The CAS on tail brings it to the end of the chain.
LEMMA SwingTailInv ==
  ASSUME IInv, NEW p \in Pushers, SwingTail(p)
  PROVE  IInv'
<1> USE DEF IInv, SwingTail, popVars
<1>1. /\ tail = tl[p] /\ next[tail] = el[p]
      /\ el[p] \in made /\ el[p] # NULL
  BY DEF LinkedOnce, PushersOwn, TypeOK
<1>2. tail' = el[p] /\ pushPc' = [pushPc EXCEPT ![p] = "idle"]
  BY <1>1
<1>3. /\ pushPc'[p] = "idle"
      /\ \A q \in Pushers : q # p => pushPc'[q] = pushPc[q]
  BY <1>2 DEF TypeOK
<1>4. TypeOK'
  BY <1>1, <1>2 DEF TypeOK, PushSteps
<1>5. PushersOwn' /\ StaleHead'
  BY <1>3 DEF PushersOwn, StaleHead
<1>6. NotYetLinked'
  BY <1>2, <1>3 DEF NotYetLinked, PushersOwn
<1>7. StaleTail'
  BY <1>1, <1>3 DEF StaleTail
<1>8. LinkedOnce'
  BY <1>1, <1>3 DEF LinkedOnce, PushersOwn
<1>9. ChainHolds'
  BY <1>1, <1>2 DEF ChainHolds, Walk
<1> QED
  BY <1>4, <1>5, <1>6, <1>7, <1>8, <1>9

\* The CAS on head takes the first element off the chain.
LEMMA MoveHeadInv ==
  ASSUME IInv, NEW c \in Poppers, MoveHead(c)
  PROVE  IInv'
<1> USE DEF IInv, MoveHead, Advance, pushVars
<1> DEFINE k == Len(queued)
<1>1. /\ head = hd[c] /\ next[head] # NULL
      /\ queued # << >> /\ head' = queued[1]
  BY HeadNext DEF StaleHead
<1>2. queued \in Seq(made) /\ k \in Nat \ {0} /\ queued[1] \in made
  BY <1>1 DEF TypeOK
<1>3. queued' \in Seq(made) /\ Len(queued') = k - 1
  BY <1>1, <1>2
<1>4. /\ popPc'[c] = "fetch"
      /\ \A d \in Poppers : d # c => popPc'[d] = popPc[d]
  BY DEF TypeOK
<1>5. TypeOK'
  BY <1>1, <1>2, <1>3 DEF TypeOK, PopSteps
<1>6. PushersOwn' /\ NotYetLinked' /\ StaleTail' /\ LinkedOnce'
  BY DEF PushersOwn, NotYetLinked, StaleTail, LinkedOnce
<1>7. StaleHead'
  BY <1>1, <1>4 DEF StaleHead
<1>8. ChainHolds'
  <2>1. \A i \in 1 .. k : Walk'[i] = Walk[i + 1]
    BY <1>1, WalkPopped
  <2>2. ASSUME NEW i \in 1 .. k - 1
        PROVE  next[Walk'[i]] = Walk'[i + 1]
    <3>1. i \in 1 .. k /\ i + 1 \in 1 .. k
      BY <1>2
    <3> QED
      BY <2>1, <3>1 DEF ChainHolds
  <2>3. Walk'[k] = Walk[k + 1] /\ Len(queued') + 1 = k
    BY <1>2, <1>3, <2>1
  <2> QED
    BY <1>3, <2>2, <2>3 DEF ChainHolds
<1> QED
  BY <1>5, <1>6, <1>7, <1>8

(***************************************************************************)
(* The steps of queue_pop that only change the popper's own variables.     *)
(***************************************************************************)
LEMMA PopLocalInv ==
  ASSUME IInv, NEW c \in Poppers,
         \/ ReadHead(c) \/ PopEmpty(c) \/ SeeNext(c)
         \/ MoveHeadFails(c) \/ FetchData(c)
  PROVE  IInv'
<1> USE DEF IInv, pushVars, popVars, ReadHead, PopEmpty, SeeNext,
            MoveHeadFails, FetchData, Fetch
<1>1. UNCHANGED <<next, data, made, head, tail, pushPc, el, tl, queued>>
  OBVIOUS
<1>2. hd' \in [Poppers -> made \cup {NULL}]
  BY DEF TypeOK
<1>3. popPc' \in [Poppers -> PopSteps]
  BY DEF TypeOK, PopSteps
<1>4. result' \in [Poppers -> Data \cup {NULL}]
  <2>1. CASE FetchData(c)
    BY <2>1 DEF TypeOK, StaleHead
  <2> QED
    BY <2>1 DEF TypeOK
<1>5. TypeOK'
  BY <1>1, <1>2, <1>3, <1>4 DEF TypeOK
<1>6. PushersOwn' /\ NotYetLinked' /\ StaleTail' /\ LinkedOnce'
  BY <1>1 DEF PushersOwn, NotYetLinked, StaleTail, LinkedOnce
<1>7. StaleHead'
  BY <1>1 DEF StaleHead, TypeOK
<1> QED
  BY <1>1, <1>5, <1>6, <1>7, ChainUnchanged

\* So every step keeps the invariant.
LEMMA NextInv ==
  ASSUME IInv, [Next]_vars
  PROVE  IInv'
<1>1. ASSUME NEW p \in Pushers, NEW e \in Nodes, NEW d \in Data,
             MakeElement(p, e, d)
      PROVE  IInv'
  BY <1>1, MakeElementInv
<1>2. ASSUME NEW p \in Pushers, Push(p)
      PROVE  IInv'
  BY <1>2, ReadTailInv, LinkElementInv, LinkFailsInv, SwingTailInv DEF Push
<1>3. ASSUME NEW c \in Poppers, Pop(c)
      PROVE  IInv'
  BY <1>3, MoveHeadInv, PopLocalInv DEF Pop
<1>4. CASE UNCHANGED vars
  <2> USE <1>4 DEF vars, pushVars, popVars
  <2>1. TypeOK' /\ PushersOwn' /\ NotYetLinked'
    BY DEF IInv, TypeOK, PushersOwn, NotYetLinked
  <2>2. StaleTail' /\ StaleHead' /\ LinkedOnce'
    BY DEF IInv, StaleTail, StaleHead, LinkedOnce
  <2> QED
    BY <2>1, <2>2, ChainUnchanged DEF IInv
<1> QED
  BY <1>1, <1>2, <1>3, <1>4 DEF Next

(***************************************************************************)
(* The inductive invariant holds in every reachable state.                 *)
(***************************************************************************)
THEOREM Invariance == Spec => []IInv
<1> QED
  BY InitInv, NextInv, PTL DEF Spec

(***************************************************************************)
(* Every variable of the queue keeps its type.                             *)
(***************************************************************************)
THEOREM TypeCorrect == Spec => []TypeOK
<1>1. IInv => TypeOK
  BY DEF IInv
<1> QED
  BY <1>1, Invariance, PTL

(***************************************************************************)
(* The CAS on queue->tail at queue.c:78 never fails, whatever the number   *)
(* of pushers: no element is linked twice.                                 *)
(***************************************************************************)
THEOREM SecondCasSucceeds == Spec => []LinkedOnce
<1>1. IInv => LinkedOnce
  BY DEF IInv
<1> QED
  BY <1>1, Invariance, PTL

(***************************************************************************)
(* The next pointers from queue->head spell the queue, and tail is at most *)
(* one node behind its end.                                                *)
(***************************************************************************)
THEOREM ChainIsIntact == Spec => []ChainHolds
<1>1. IInv => ChainHolds
  BY DEF IInv
<1> QED
  BY <1>1, Invariance, PTL

-----------------------------------------------------------------------------
(***************************************************************************)
(* The next field of an allocated element is written at most once, so the  *)
(* reads of head->next in queue_pop all see the same successor.            *)
(***************************************************************************)
THEOREM SuccessorIsStable == Spec => NextWrittenOnce
<1> DEFINE Stable == \A n \in made : next[n] # NULL => next'[n] = next[n]
<1>1. ASSUME IInv, [Next]_vars
      PROVE  Stable
  <2>1. ASSUME NEW p \in Pushers, NEW e \in Nodes, NEW d \in Data,
               MakeElement(p, e, d)
        PROVE  Stable
    BY <1>1, <2>1 DEF MakeElement, IInv, TypeOK
  <2>2. ASSUME NEW p \in Pushers, Push(p)
        PROVE  Stable
    BY <1>1, <2>2 DEF Push, ReadTail, LinkElement, Link, LinkFails, SwingTail,
                      IInv, TypeOK
  <2>3. ASSUME NEW c \in Poppers, Pop(c)
        PROVE  Stable
    BY <2>3 DEF Pop, ReadHead, PopEmpty, SeeNext, MoveHead, Advance,
                MoveHeadFails, FetchData, Fetch
  <2>4. CASE UNCHANGED vars
    BY <2>4 DEF vars
  <2> QED
    BY <1>1, <2>1, <2>2, <2>3, <2>4 DEF Next
<1>2. IInv /\ [Next]_vars => [Stable]_vars
  BY <1>1
<1> QED
  BY <1>2, Invariance, PTL DEF Spec, NextWrittenOnce

-----------------------------------------------------------------------------
(***************************************************************************)
(* Reading a sequence of nodes through a function commutes with Append and *)
(* with Tail.                                                              *)
(***************************************************************************)
LEMMA ThroughAppend ==
  ASSUME NEW S, NEW T, NEW f, NEW q \in Seq(S), NEW e \in S,
         \A n \in S : f[n] \in T
  PROVE  LET m == [i \in 1 .. Len(q) |-> f[q[i]]]
             r == Append(q, e)
         IN  [i \in 1 .. Len(r) |-> f[r[i]]] = Append(m, f[e])
<1> DEFINE m == [i \in 1 .. Len(q) |-> f[q[i]]]
           r == Append(q, e)
           g == [i \in 1 .. Len(r) |-> f[r[i]]]
<1>1. m \in Seq(T) /\ Len(m) = Len(q) /\ Len(q) \in Nat
  OBVIOUS
<1>2. Len(r) = Len(q) + 1 /\ r \in Seq(S)
  OBVIOUS
<1>3. g \in Seq(T) /\ Len(g) = Len(q) + 1
  BY <1>1, <1>2
<1>4. f[e] \in T /\ Append(m, f[e]) \in Seq(T)
  BY <1>1
<1>5. Len(Append(m, f[e])) = Len(g)
  BY <1>1, <1>3, <1>4
<1>6. ASSUME NEW i \in 1 .. Len(g)
      PROVE  g[i] = Append(m, f[e])[i]
  <2>1. CASE i = Len(q) + 1
    BY <1>1, <1>2, <1>3, <1>4, <2>1
  <2>2. CASE i \in 1 .. Len(q)
    <3>1. r[i] = q[i] /\ Append(m, f[e])[i] = m[i]
      BY <1>1, <1>4, <2>2
    <3> QED
      BY <1>2, <1>1, <2>2, <3>1
  <2> QED
    BY <1>1, <1>3, <2>1, <2>2
<1> HIDE DEF m, r, g
<1>7. g = Append(m, f[e])
  BY <1>3, <1>4, <1>5, <1>6, SeqEqual
<1> QED
  BY <1>7 DEF m, r, g

\* The chain goes through the tail.
LEMMA ThroughTail ==
  ASSUME NEW S, NEW T, NEW f, NEW q \in Seq(S), q # << >>,
         \A n \in S : f[n] \in T
  PROVE  LET m == [i \in 1 .. Len(q) |-> f[q[i]]]
             r == Tail(q)
         IN  /\ m # << >>
             /\ Head(m) = f[q[1]]
             /\ [i \in 1 .. Len(r) |-> f[r[i]]] = Tail(m)
<1> DEFINE m == [i \in 1 .. Len(q) |-> f[q[i]]]
           r == Tail(q)
           g == [i \in 1 .. Len(r) |-> f[r[i]]]
<1>1. m \in Seq(T) /\ Len(m) = Len(q) /\ Len(q) \in Nat \ {0}
  OBVIOUS
<1>2. r \in Seq(S) /\ Len(r) = Len(q) - 1
  OBVIOUS
<1>3. m # << >> /\ Head(m) = f[q[1]]
  BY <1>1
<1>4. Tail(m) \in Seq(T) /\ Len(Tail(m)) = Len(q) - 1
  BY <1>1, <1>3
<1>5. g \in Seq(T) /\ Len(g) = Len(q) - 1
  BY <1>1, <1>2
<1>6. ASSUME NEW i \in 1 .. Len(g)
      PROVE  g[i] = Tail(m)[i]
  <2>1. i \in 1 .. Len(q) - 1 /\ i + 1 \in 1 .. Len(q)
    BY <1>1, <1>5
  <2>2. r[i] = q[i + 1] /\ Tail(m)[i] = m[i + 1]
    BY <1>1, <1>3, <2>1
  <2> QED
    BY <1>2, <2>1, <2>2
<1> HIDE DEF m, r, g
<1>7. g = Tail(m)
  BY <1>4, <1>5, <1>6, SeqEqual
<1> QED
  BY <1>3, <1>7 DEF m, r, g

(***************************************************************************)
(* A step that changes neither the order of the queue nor the data of an   *)
(* allocated element leaves the contents alone.                            *)
(***************************************************************************)
LEMMA ContentsUnchanged ==
  ASSUME TypeOK, UNCHANGED queued, \A n \in made : data'[n] = data[n]
  PROVE  Contents' = Contents
<1>1. \A i \in 1 .. Len(queued) : queued[i] \in made
  BY DEF TypeOK
<1> QED
  BY <1>1 DEF Contents

(***************************************************************************)
(* A half done pop keeps its answer as long as its successor node and that *)
(* node's datum stay the same.                                             *)
(***************************************************************************)
LEMMA ResultsUnchanged ==
  ASSUME UNCHANGED <<popPc, hd, result>>,
         \A c \in Poppers : popPc[c] = "fetch" =>
            /\ next'[hd[c]] = next[hd[c]]
            /\ data'[next[hd[c]]] = data[next[hd[c]]]
  PROVE  Results' = Results
BY DEF Results

\* A step of a pusher is a push of FifoQueue or a stutter.
LEMMA PushImplements ==
  ASSUME IInv, NEW p \in Pushers, Push(p)
  PROVE  [Fifo!Next]_Fifo!vars
<1> USE DEF IInv
<1>1. CASE ReadTail(p) \/ LinkFails(p) \/ SwingTail(p)
  <2>1. UNCHANGED <<next, data, popPc, hd, result, queued>>
    BY <1>1 DEF ReadTail, LinkFails, SwingTail, popVars
  <2> QED
    BY <2>1, ContentsUnchanged, ResultsUnchanged DEF Fifo!vars
<1>2. CASE LinkElement(p)
  <2> USE <1>2 DEF LinkElement, Link, popVars
  <2>1. el[p] \in made /\ data[el[p]] \in Data
    BY DEF PushersOwn
  <2>2. Results' = Results
    <3>1. \A c \in Poppers : popPc[c] = "fetch" => next'[hd[c]] = next[hd[c]]
      BY DEF StaleHead, TypeOK
    <3> QED
      BY <3>1, ResultsUnchanged
  <2>3. Contents' = Append(Contents, data[el[p]])
    BY <2>1, ThroughAppend DEF Contents, TypeOK
  <2> QED
    BY <2>1, <2>2, <2>3 DEF Fifo!Next, Fifo!Enqueue
<1> QED
  BY <1>1, <1>2 DEF Push

\* A step of a popper is a pop of FifoQueue or a stutter.
LEMMA PopImplements ==
  ASSUME IInv, NEW c \in Poppers, Pop(c)
  PROVE  [Fifo!Next]_Fifo!vars
<1> USE DEF IInv, pushVars
<1>1. CASE ReadHead(c) \/ SeeNext(c) \/ MoveHeadFails(c) \/ FetchData(c)
  <2>1. UNCHANGED <<next, data, queued>>
    BY <1>1 DEF ReadHead, SeeNext, MoveHeadFails, FetchData, Fetch
  <2>2. Results' = Results
    BY <1>1 DEF ReadHead, SeeNext, MoveHeadFails, FetchData, Fetch, Results,
                TypeOK
  <2> QED
    BY <2>1, <2>2, ContentsUnchanged DEF Fifo!vars
<1>2. CASE PopEmpty(c)
  <2> USE <1>2 DEF PopEmpty
  <2>1. queued = << >>
    BY HeadNext DEF StaleHead
  <2>2. Contents' = Contents /\ Contents = << >>
    BY <2>1 DEF Contents
  <2>3. Results' = [Results EXCEPT ![c] = NULL]
    BY DEF Results, TypeOK
  <2> QED
    BY <2>2, <2>3 DEF Fifo!Next, Fifo!DequeueEmpty
<1>3. CASE MoveHead(c)
  <2> USE <1>3 DEF MoveHead, Advance
  <2>1. head = hd[c] /\ queued # << >> /\ next[head] = queued[1]
    BY HeadNext DEF StaleHead
  <2>2. /\ Contents # << >>
        /\ Head(Contents) = data[queued[1]]
        /\ Contents' = Tail(Contents)
    BY <2>1, ThroughTail DEF Contents, TypeOK
  <2>3. Results' = [Results EXCEPT ![c] = data[queued[1]]]
    BY <2>1 DEF Results, TypeOK
  <2> QED
    BY <2>2, <2>3 DEF Fifo!Next, Fifo!Dequeue
<1> QED
  BY <1>1, <1>2, <1>3 DEF Pop

(***************************************************************************)
(* queue.c implements a first-in first-out queue: a push takes effect at   *)
(* its first CAS and a pop at its own, whatever the interleaving.          *)
(***************************************************************************)
THEOREM Implementation == Spec => ImplementsFifo
<1>1. Init => Fifo!Init
  BY DEF Init, Fifo!Init, Contents, Results
<1>2. ASSUME IInv, [Next]_vars
      PROVE  [Fifo!Next]_Fifo!vars
  <2>1. ASSUME NEW p \in Pushers, NEW e \in Nodes, NEW d \in Data,
               MakeElement(p, e, d)
        PROVE  [Fifo!Next]_Fifo!vars
    <3> USE <1>2, <2>1 DEF IInv, MakeElement, popVars
    <3>1. \A n \in made : next'[n] = next[n] /\ data'[n] = data[n]
      BY DEF TypeOK
    <3>2. \A c \in Poppers : popPc[c] = "fetch" => /\ hd[c] \in made
                                                  /\ next[hd[c]] \in made
      BY DEF StaleHead, TypeOK
    <3>3. Contents' = Contents
      BY <3>1, ContentsUnchanged
    <3>4. Results' = Results
      BY <3>1, <3>2, ResultsUnchanged
    <3> QED
      BY <3>3, <3>4 DEF Fifo!vars
  <2>2. CASE UNCHANGED vars
    BY <2>2 DEF vars, popVars, Fifo!vars, Contents, Results
  <2> QED
    BY <1>2, <2>1, <2>2, PushImplements, PopImplements DEF Next
<1> QED
  BY <1>1, <1>2, Invariance, PTL DEF Spec, ImplementsFifo, Fifo!Spec

-----------------------------------------------------------------------------
(***************************************************************************)
(* Only the CAS on next and the one on head change the chain.              *)
(***************************************************************************)
LEMMA NextChainOnce ==
  ASSUME IInv, ChainOnce, [Next]_vars
  PROVE  ChainOnce'
<1> DEFINE k == Len(queued)
<1>1. TypeOK /\ k \in Nat
  BY WalkNodes DEF IInv
<1>2. CASE UNCHANGED <<head, queued>>
  BY <1>2 DEF ChainOnce, Walk
<1>3. ASSUME NEW p \in Pushers, LinkElement(p)
      PROVE  ChainOnce'
  <2>1. /\ tl[p] = tail /\ next[tail] = NULL
        /\ el[p] \in made /\ el[p] # tail /\ next[el[p]] = NULL
    BY <1>3 DEF IInv, LinkElement, StaleTail, PushersOwn, NotYetLinked
  <2>2. /\ Len(queued') = k + 1
        /\ \A j \in 1 .. k + 1 : Walk'[j] = Walk[j]
        /\ Walk'[k + 2] = el[p]
    BY <1>1, <1>3, <2>1, WalkLinked DEF LinkElement, Link
  <2>3. \A j \in 1 .. k : next[Walk[j]] # NULL
    <3>1. \A j \in 1 .. k : j + 1 \in 1 .. k + 1 /\ Walk[j + 1] # NULL
      BY <1>1, WalkNodes DEF TypeOK
    <3> QED
      BY <3>1 DEF IInv, ChainHolds
  <2>4. Walk[k + 1] = tail
    BY <2>1 DEF IInv, ChainHolds
  <2>5. \A j \in 1 .. k + 1 : Walk[j] # el[p]
    <3> SUFFICES ASSUME NEW j \in 1 .. k + 1
                 PROVE  Walk[j] # el[p]
      OBVIOUS
    <3>1. j \in 1 .. k \/ j = k + 1
      BY <1>1
    <3> QED
      BY <2>1, <2>3, <2>4, <3>1
  <2> QED
    BY <1>1, <2>2, <2>5 DEF ChainOnce
<1>4. ASSUME NEW c \in Poppers, MoveHead(c)
      PROVE  ChainOnce'
  <2>1. queued # << >> /\ head' = queued[1]
    BY <1>1, <1>4, HeadNext DEF IInv, MoveHead, Advance, StaleHead
  <2>2. /\ Len(queued') = k - 1
        /\ \A j \in 1 .. k : Walk'[j] = Walk[j + 1]
    BY <1>1, <1>4, <2>1, WalkPopped DEF MoveHead, Advance
  <2> QED
    BY <1>1, <2>2 DEF ChainOnce
<1>5. ASSUME NEW p \in Pushers, NEW e \in Nodes, NEW d \in Data,
             MakeElement(p, e, d)
      PROVE  ChainOnce'
  BY <1>2, <1>5 DEF MakeElement
<1>6. ASSUME NEW p \in Pushers, Push(p)
      PROVE  ChainOnce'
  BY <1>2, <1>3, <1>6 DEF Push, ReadTail, LinkFails, SwingTail
<1>7. ASSUME NEW c \in Poppers, Pop(c)
      PROVE  ChainOnce'
  BY <1>2, <1>4, <1>7
     DEF Pop, ReadHead, PopEmpty, SeeNext, MoveHeadFails, FetchData, Fetch
<1>8. CASE UNCHANGED vars
  BY <1>2, <1>8 DEF vars
<1> QED
  BY <1>5, <1>6, <1>7, <1>8 DEF Next

(***************************************************************************)
(* queue_destroy moves along the chain and changes nothing of it.          *)
(***************************************************************************)
LEMMA NextLifeInv ==
  ASSUME LifeInv, [LifeNext]_lifeVars
  PROVE  LifeInv'
<1> DEFINE m == Len(freedData)
<1> USE DEF LifeInv
<1>1. TypeOK /\ Len(queued) \in Nat /\ m \in Nat
  BY WalkNodes DEF IInv, DestroyHolds
<1>2. [Next]_vars
  BY DEF LifeNext, lifeVars, Destroy, DestroyFrom, FreeElement, FreeQueue
<1>3. IInv' /\ ChainOnce'
  BY <1>2, NextInv, NextChainOnce
<1>4. CASE phase = "used" /\ Next /\ UNCHANGED destroyVars
  <2>1. Len(queued') \in Nat
    BY <1>3 DEF IInv, TypeOK
  <2> QED
    BY <1>3, <1>4, <2>1 DEF DestroyHolds, destroyVars
<1>5. CASE Destroy
  <2>1. Walk[1] = head /\ freedData = << >> /\ m + 1 = 1
    BY <1>1, <1>5, WalkNodes DEF DestroyHolds, Destroy, DestroyFrom
  <2> QED
    BY <1>1, <1>3, <1>5, <2>1
       DEF DestroyHolds, Destroy, DestroyFrom, vars, Walk
<1>6. CASE FreeElement
  <2>1. node = next[Walk[m + 1]] /\ node # NULL /\ freedData \in Seq(Nodes)
    BY <1>6 DEF FreeElement, DestroyHolds
  <2>2. m < Len(queued)
    BY <1>1, <2>1 DEF DestroyHolds, IInv, ChainHolds
  <2>3. node = Walk[m + 2] /\ node = queued[m + 1] /\ node \in Nodes
    <3>1. m + 1 \in 1 .. Len(queued) /\ (m + 1) + 1 = m + 2
      BY <1>1, <2>2
    <3>2. next[Walk[m + 1]] = Walk[m + 2]
      BY <3>1 DEF IInv, ChainHolds
    <3>3. Walk[m + 2] = queued[m + 1] /\ Walk[m + 2] \in made
      BY <1>1, <3>1, WalkNodes
    <3> QED
      BY <1>1, <2>1, <3>2, <3>3 DEF TypeOK
  <2>4. /\ freedData' = Append(freedData, node)
        /\ freedData' \in Seq(Nodes)
        /\ Len(freedData') = m + 1
        /\ \A j \in 1 .. m : freedData'[j] = freedData[j]
        /\ freedData'[m + 1] = node
    BY <1>6, <2>1, <2>3 DEF FreeElement
  <2>5. \A j \in 1 .. m + 1 : freedData'[j] = queued[j]
    BY <1>1, <2>3, <2>4 DEF DestroyHolds
  <2>6. /\ freedNodes' = freedData' /\ node' = next[Walk[m + 2]]
        /\ UNCHANGED <<vars, phase>> /\ phase = "destroyed"
    BY <1>6, <2>3, <2>4 DEF FreeElement, DestroyHolds
  <2> QED
    BY <1>1, <1>3, <2>2, <2>4, <2>5, <2>6 DEF DestroyHolds, vars, Walk
<1>7. CASE FreeQueue
  <2>1. /\ node = next[Walk[m + 1]] /\ node = NULL
        /\ freedNodes = freedData
        /\ m <= Len(queued)
    BY <1>7 DEF FreeQueue, DestroyHolds
  <2>2. m = Len(queued)
    <3> SUFFICES ASSUME m < Len(queued)
                 PROVE  FALSE
      BY <1>1, <2>1
    <3>1. m + 1 \in 1 .. Len(queued) /\ (m + 1) + 1 \in 1 .. Len(queued) + 1
      BY <1>1
    <3>2. next[Walk[m + 1]] = Walk[(m + 1) + 1]
      BY <3>1 DEF IInv, ChainHolds
    <3>3. Walk[(m + 1) + 1] # NULL
      BY <1>1, <3>1, WalkNodes DEF TypeOK
    <3> QED
      BY <2>1, <3>2, <3>3
  <2> QED
    BY <1>1, <1>3, <1>7, <2>1, <2>2 DEF DestroyHolds, FreeQueue, vars
<1>8. CASE UNCHANGED lifeVars
  BY <1>3, <1>8 DEF lifeVars, destroyVars, vars, DestroyHolds, Walk
<1> QED
  BY <1>4, <1>5, <1>6, <1>7, <1>8 DEF LifeNext

(***************************************************************************)
(* queue_destroy frees each element that is left and its datum once, the   *)
(* dummy once, and no datum that queue_pop has handed out, after any pushes*)
(* and pops.                                                               *)
(***************************************************************************)
THEOREM DestroyCorrect == LifeSpec => []DestroysRest
<1>1. LifeInit => LifeInv
  <2> SUFFICES ASSUME LifeInit
               PROVE  LifeInv
    OBVIOUS
  <2>1. IInv
    BY InitInv DEF LifeInit
  <2>2. queued = << >> /\ Len(queued) = 0 /\ Len(freedData) = 0
    BY DEF LifeInit, Init
  <2> QED
    BY <2>1, <2>2 DEF LifeInit, LifeInv, ChainOnce, DestroyHolds
<1>2. LifeInv => DestroysRest
  <2> SUFFICES ASSUME LifeInv, phase = "gone"
               PROVE  /\ Once(freedNodes, {Walk[j] : j \in DOMAIN Walk})
                      /\ Once(freedData, {queued[j] : j \in DOMAIN queued})
    BY DEF DestroysRest
  <2> DEFINE k == Len(queued)
  <2>1. /\ TypeOK /\ k \in Nat /\ queued \in Seq(Nodes)
        /\ freedData \in Seq(Nodes) /\ Len(freedData) = k
        /\ freedNodes = Append(freedData, head)
        /\ \A j \in 1 .. k : freedData[j] = queued[j]
    <3>1. TypeOK /\ k \in Nat /\ queued \in Seq(made) /\ made \subseteq Nodes
      BY WalkNodes DEF LifeInv, IInv, TypeOK
    <3>2. queued \in Seq(Nodes)
      BY <3>1
    <3> QED
      BY <3>1, <3>2 DEF LifeInv, DestroyHolds
  <2>2. /\ Walk[1] = head
        /\ \A j \in 1 .. k : Walk[j + 1] = queued[j]
        /\ DOMAIN Walk = 1 .. k + 1
    BY <2>1, WalkNodes DEF Walk, TypeOK
  <2>3. /\ DOMAIN freedNodes = 1 .. k + 1
        /\ freedNodes[k + 1] = head
        /\ \A j \in 1 .. k : freedNodes[j] = queued[j]
    BY <2>1 DEF TypeOK
  <2>4. Once(freedData, {queued[j] : j \in DOMAIN queued})
    <3>1. DOMAIN freedData = 1 .. k /\ DOMAIN queued = 1 .. k
      BY <2>1
    <3>2. \A j, l \in 1 .. k : queued[j] = queued[l] => j = l
      BY <2>1, <2>2 DEF LifeInv, ChainOnce
    <3> QED
      BY <2>1, <3>1, <3>2 DEF Once
  <2>5. Once(freedNodes, {Walk[j] : j \in DOMAIN Walk})
    <3> DEFINE at(j) == IF j = k + 1 THEN 1 ELSE j + 1
               from(j) == IF j = 1 THEN k + 1 ELSE j - 1
    <3>1. \A j \in 1 .. k + 1 : /\ at(j) \in 1 .. k + 1
                                /\ freedNodes[j] = Walk[at(j)]
      BY <2>1, <2>2, <2>3
    <3>2. \A j \in 1 .. k + 1 : from(j) \in 1 .. k + 1 /\ at(from(j)) = j
      BY <2>1
    <3>3. \A j, l \in 1 .. k + 1 : at(j) = at(l) => j = l
      BY <2>1
    <3> HIDE DEF at, from
    <3>4. ASSUME NEW j \in 1 .. k + 1, NEW l \in 1 .. k + 1,
                 freedNodes[j] = freedNodes[l]
          PROVE  j = l
      <4>1. /\ at(j) \in 1 .. k + 1 /\ at(l) \in 1 .. k + 1
            /\ Walk[at(j)] = Walk[at(l)]
        BY <3>1, <3>4
      <4>2. at(j) = at(l)
        BY <4>1 DEF LifeInv, ChainOnce
      <4> QED
        BY <3>3, <4>2
    <3>5. {freedNodes[j] : j \in DOMAIN freedNodes}
            = {Walk[j] : j \in DOMAIN Walk}
      BY <2>2, <2>3, <3>1, <3>2
    <3> QED
      BY <2>3, <3>4, <3>5 DEF Once
  <2> QED
    BY <2>4, <2>5
<1>3. LifeSpec => LifeInit /\ [][LifeNext]_lifeVars
  BY DEF LifeSpec
<1> QED
  BY <1>1, <1>2, <1>3, NextLifeInv, PTL

=============================================================================
