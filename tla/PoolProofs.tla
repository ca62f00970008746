----------------------------- MODULE PoolProofs -----------------------------
(***************************************************************************)
(* Proofs about Pool, for any set of elements and of nodes.                *)
(***************************************************************************)
EXTENDS Pool, SequenceTheorems, TLAPS

USE PoolAssumption

(***************************************************************************)
(* A sequence with one more element in front.                              *)
(***************************************************************************)
LEMMA InFront ==
  ASSUME NEW S, NEW h \in S, NEW q \in Seq(S)
  PROVE  LET w == <<h>> \o q
         IN  /\ w \in Seq(S)
             /\ Len(q) \in Nat
             /\ Len(w) = Len(q) + 1
             /\ w[1] = h
             /\ \A i \in 1 .. Len(q) : w[i + 1] = q[i]
<1>1. /\ <<h>> \in Seq(S) /\ Len(<<h>>) = 1 /\ Len(q) \in Nat
      /\ <<h>>[1] = h
  OBVIOUS
<1>2. /\ <<h>> \o q \in Seq(S)
      /\ Len(<<h>> \o q) = 1 + Len(q)
      /\ \A i \in 1 .. 1 + Len(q) :
            (<<h>> \o q)[i] = IF i <= 1 THEN <<h>>[i] ELSE q[i - 1]
  BY <1>1
<1> QED
  BY <1>1, <1>2

(***************************************************************************)
(* A sequence without its p-th element, when no element is in it twice.    *)
(***************************************************************************)
LEMMA WithoutFacts ==
  ASSUME NEW S, NEW s \in Seq(S), NEW p \in 1 .. Len(s),
         \A i, j \in 1 .. Len(s) : s[i] = s[j] => i = j
  PROVE  LET w == Without(s, s[p])
         IN  /\ w \in Seq(S)
             /\ w = [j \in 1 .. Len(s) - 1 |-> IF j < p THEN s[j] ELSE s[j + 1]]
             /\ Len(w) = Len(s) - 1
             /\ \A j \in 1 .. Len(s) - 1 :
                   w[j] = IF j < p THEN s[j] ELSE s[j + 1]
<1>1. Len(s) \in Nat /\ Len(s) - 1 \in Nat /\ \A j \in 1 .. Len(s) : s[j] \in S
  OBVIOUS
<1>2. (CHOOSE i \in 1 .. Len(s) : s[i] = s[p]) = p
  OBVIOUS
<1>3. Without(s, s[p])
        = [j \in 1 .. Len(s) - 1 |-> IF j < p THEN s[j] ELSE s[j + 1]]
  BY <1>2 DEF Without
<1>4. \A j \in 1 .. Len(s) - 1 : (IF j < p THEN s[j] ELSE s[j + 1]) \in S
  BY <1>1
<1>5. [j \in 1 .. Len(s) - 1 |-> IF j < p THEN s[j] ELSE s[j + 1]] \in Seq(S)
  BY <1>1, <1>4
<1> QED
  BY <1>1, <1>3, <1>5

(***************************************************************************)
(* What the invariant says of the nodes and of the two ends.               *)
(***************************************************************************)
LEMMA ListFacts ==
  ASSUME IInv, call # "deleted"
  PROVE  /\ Len(nodes) \in Nat
         /\ \A i \in 1 .. Len(nodes) : nodes[i] \in Nodes /\ nodes[i] # NULL
         /\ \A i \in 1 .. Len(nodes) : nodes[i] \in live
         /\ Len(nodes) = 0 => head = NULL /\ tail = NULL /\ nodes = << >>
         /\ Len(nodes) # 0 => /\ head = nodes[1] /\ tail = nodes[Len(nodes)]
                              /\ head # NULL /\ tail # NULL
                              /\ head \in Nodes /\ tail \in Nodes
         /\ head = tail <=> Len(nodes) <= 1
<1>1. /\ nodes \in Seq(Nodes) /\ Len(nodes) \in Nat
      /\ \A i \in 1 .. Len(nodes) : nodes[i] \in Nodes
  BY DEF IInv, TypeOK
<1>2. Len(nodes) = 0 => nodes = << >>
  BY <1>1
<1>3. Ends /\ Distinct
  BY DEF IInv, ListHolds
<1>4. \A i \in 1 .. Len(nodes) : nodes[i] \in live
  BY DEF IInv, Accounted, InList
<1>5. Len(nodes) # 0 => nodes # << >> /\ 1 \in 1 .. Len(nodes)
                         /\ Len(nodes) \in 1 .. Len(nodes)
  BY <1>1
<1>6. Len(nodes) = 0 => head = NULL /\ tail = NULL
  BY <1>2, <1>3 DEF Ends
<1>7. Len(nodes) # 0 => head = nodes[1] /\ tail = nodes[Len(nodes)]
  BY <1>3, <1>5 DEF Ends
<1>8. ASSUME Len(nodes) # 0 PROVE head = tail <=> Len(nodes) = 1
  BY <1>8, <1>3, <1>5, <1>7 DEF Distinct
<1> QED
  BY <1>1, <1>2, <1>4, <1>5, <1>6, <1>7, <1>8

LEMMA InitInv == Init => IInv
<1> SUFFICES ASSUME Init PROVE IInv
  OBVIOUS
<1>1. TypeOK
  BY DEF Init, TypeOK, NodeType, PoolType, Calls
<1>2. Len(nodes) = 0
  BY DEF Init
<1> QED
  BY <1>1, <1>2 DEF Init, IInv, ListHolds, Ends, Chain, Distinct, Accounted,
     InList, Filled, Walking

(***************************************************************************)
(* add_pool_head keeps the invariant.                                      *)
(***************************************************************************)
LEMMA AddHeadInv ==
  ASSUME IInv, NEW n \in Nodes, NEW e \in Elements, AddPoolHead(n, e)
  PROVE  IInv'
<1> USE DEF AddPoolHead, NewItem
<1>1. call = "none" /\ n \notin live /\ call' = "none"
  OBVIOUS
<1>2. /\ nodes' \in Seq(Nodes)
      /\ Len(nodes') = Len(nodes) + 1
      /\ nodes'[1] = n
      /\ \A i \in 1 .. Len(nodes) : nodes'[i + 1] = nodes[i]
  BY InFront DEF IInv, TypeOK
<1>3. \A i \in 1 .. Len(nodes') : i # 1 => /\ i - 1 \in 1 .. Len(nodes)
                                           /\ nodes'[i] = nodes[i - 1]
  <2>1. TAKE i \in 1 .. Len(nodes')
  <2>2. HAVE i # 1
  <2>3. i - 1 \in 1 .. Len(nodes)
    BY <2>2, <1>1, <1>2, ListFacts
  <2> QED
    BY <2>3, <1>2
<1>4. TypeOK'
  <2>1. NodeType' /\ PoolType'
    BY DEF IInv, TypeOK, NodeType, PoolType
  <2>2. <<e>> \in Seq(Elements)
    OBVIOUS
  <2> QED
    BY <2>1, <2>2, <1>2 DEF IInv, TypeOK, locals
<1>5. \A i \in 1 .. Len(nodes) : nodes[i] # n
  BY <1>1, ListFacts
<1>6. Distinct'
  BY <1>1, <1>2, <1>3, <1>5 DEF Distinct, IInv, ListHolds
<1>7. Chain'
  <2>1. SUFFICES ASSUME NEW i \in 1 .. Len(nodes')
                 PROVE  next'[nodes'[i]] =
                          IF i = Len(nodes') THEN NULL ELSE nodes'[i + 1]
    BY DEF Chain
  <2>2. CASE i = 1
    <3>1. next'[nodes'[i]] = head
      BY <2>2, <1>2 DEF IInv, TypeOK, NodeType
    <3>2. Len(nodes) # 0 => nodes'[2] = nodes[1]
      BY <1>1, <1>2, ListFacts
    <3> QED
      BY <2>2, <3>1, <3>2, <1>1, <1>2, ListFacts
  <2>3. CASE i # 1
    <3>1. i - 1 \in 1 .. Len(nodes) /\ nodes'[i] = nodes[i - 1]
      BY <2>3, <1>3
    <3>2. next'[nodes'[i]] = next[nodes[i - 1]]
      BY <3>1, <1>1, <1>5, ListFacts DEF IInv, TypeOK, NodeType
    <3>3. next[nodes[i - 1]] =
            IF i - 1 = Len(nodes) THEN NULL ELSE nodes[(i - 1) + 1]
      BY <3>1, <1>1 DEF IInv, ListHolds, Chain
    <3>4. i # Len(nodes') => i \in 1 .. Len(nodes) /\ nodes'[i + 1] = nodes[i]
      BY <1>1, <1>2, ListFacts
    <3> QED
      BY <3>1, <3>2, <3>3, <3>4, <1>1, <1>2, ListFacts
  <2> QED
    BY <2>2, <2>3
<1>8. Ends'
  <2>1. nodes' # << >>
    BY <1>1, <1>2, ListFacts
  <2>2. Len(nodes) # 0 => nodes'[Len(nodes')] = nodes[Len(nodes)]
    BY <1>1, <1>2, ListFacts
  <2> QED
    BY <2>1, <2>2, <1>1, <1>2, ListFacts DEF Ends
<1>9. Accounted' /\ Filled'
  <2>1. InList' = InList \cup {n}
    <3>1. \A i \in 1 .. Len(nodes) : i + 1 \in 1 .. Len(nodes')
      BY <1>1, <1>2, ListFacts
    <3>2. 1 \in 1 .. Len(nodes')
      BY <1>1, <1>2, ListFacts
    <3> QED
      BY <1>2, <1>3, <3>1, <3>2 DEF InList
  <2>2. Accounted'
    BY <2>1, <1>1 DEF IInv, Accounted
  <2>3. Filled'
    BY <1>1, <1>2, <1>3, <1>5, ListFacts DEF IInv, Filled, TypeOK, NodeType
  <2> QED
    BY <2>2, <2>3
<1> QED
  BY <1>1, <1>4, <1>6, <1>7, <1>8, <1>9 DEF IInv, ListHolds, Walking

(***************************************************************************)
(* add_pool_tail keeps the invariant.                                      *)
(***************************************************************************)
LEMMA AddTailInv ==
  ASSUME IInv, NEW n \in Nodes, NEW e \in Elements, AddPoolTail(n, e)
  PROVE  IInv'
<1>1. CASE AddToEmpty(n, e)
  <2>1. call # "deleted" /\ tail = NULL
    BY <1>1 DEF AddToEmpty, NewItem
  <2>2. nodes = << >> /\ head = NULL
    BY <2>1, ListFacts
  <2>3. <<n>> = <<n>> \o << >>
    OBVIOUS
  <2>4. AddPoolHead(n, e)
    BY <1>1, <2>1, <2>2, <2>3 DEF AddToEmpty, AddPoolHead
  <2> QED
    BY <2>4, AddHeadInv
<1>2. CASE AddBehindTail(n, e)
  <2> USE <1>2 DEF AddBehindTail
  <2>1. call = "none" /\ call' = "none" /\ n \notin live /\ tail # NULL
    OBVIOUS
  <2>2. Len(nodes) \in Nat /\ Len(nodes) # 0
    BY <2>1, ListFacts
  <2>3. /\ nodes' \in Seq(Nodes)
        /\ Len(nodes') = Len(nodes) + 1
        /\ nodes'[Len(nodes) + 1] = n
        /\ \A i \in 1 .. Len(nodes) : nodes'[i] = nodes[i]
    BY DEF IInv, TypeOK
  <2>4. TypeOK'
    <3>1. NodeType' /\ PoolType'
      BY DEF IInv, TypeOK, NodeType, PoolType
    <3>2. <<e>> \in Seq(Elements)
      OBVIOUS
    <3> QED
      BY <3>1, <3>2, <2>3 DEF IInv, TypeOK, locals
  <2>5. \A i \in 1 .. Len(nodes) : nodes[i] # n
    BY <2>1, ListFacts
  <2>6. Distinct'
    BY <2>1, <2>2, <2>3, <2>5 DEF Distinct, IInv, ListHolds
  <2>7. Chain'
    <3>1. SUFFICES ASSUME NEW i \in 1 .. Len(nodes')
                   PROVE  next'[nodes'[i]] =
                            IF i = Len(nodes') THEN NULL ELSE nodes'[i + 1]
      BY DEF Chain
    <3>2. CASE i = Len(nodes) + 1
      <4>1. next'[n] = NULL
        BY <2>1, <2>5, <2>2, ListFacts DEF IInv, TypeOK, NodeType
      <4> QED
        BY <4>1, <3>2, <2>3
    <3>3. CASE i = Len(nodes)
      <4>1. tail = nodes[i] /\ tail \in Nodes
        BY <3>3, <2>1, <2>2, ListFacts
      <4>2. next'[nodes'[i]] = n
        BY <4>1, <3>3, <2>2, <2>3 DEF IInv, TypeOK, NodeType
      <4> QED
        BY <4>2, <3>3, <2>2, <2>3
    <3>4. CASE i < Len(nodes)
      <4>1. i \in 1 .. Len(nodes) /\ i + 1 \in 1 .. Len(nodes)
        BY <3>4, <2>2
      <4>2. nodes[i] # tail /\ nodes[i] # n /\ nodes[i] \in Nodes
        BY <4>1, <3>4, <2>1, <2>2, <2>5, ListFacts
           DEF IInv, ListHolds, Distinct
      <4>3. next'[nodes[i]] = next[nodes[i]]
        BY <4>2 DEF IInv, TypeOK, NodeType
      <4>4. next[nodes[i]] = nodes[i + 1]
        BY <4>1, <3>4, <2>1, <2>2 DEF IInv, ListHolds, Chain
      <4> QED
        BY <4>1, <4>3, <4>4, <3>4, <2>2, <2>3
    <3> QED
      BY <3>2, <3>3, <3>4, <2>2, <2>3
  <2>8. Ends'
    <3>1. nodes'[1] = nodes[1] /\ nodes' # << >>
      BY <2>2, <2>3
    <3> QED
      BY <3>1, <2>1, <2>2, <2>3, ListFacts DEF Ends
  <2>9. InList' = InList \cup {n}
    <3>1. \A i \in 1 .. Len(nodes) : i \in 1 .. Len(nodes')
      BY <2>2, <2>3
    <3>2. Len(nodes) + 1 \in 1 .. Len(nodes')
      BY <2>2, <2>3
    <3>3. \A i \in 1 .. Len(nodes') : i # Len(nodes) + 1 => i \in 1 .. Len(nodes)
      BY <2>2, <2>3
    <3> QED
      BY <2>3, <3>1, <3>2, <3>3 DEF InList
  <2>10. Accounted'
    BY <2>9, <2>1 DEF IInv, Accounted
  <2>11. Filled'
    <3>1. SUFFICES ASSUME NEW i \in 1 .. Len(nodes')
                   PROVE  args'[nodes'[i]] \in Elements
      BY DEF Filled
    <3>2. CASE i = Len(nodes) + 1
      BY <3>2, <2>3 DEF IInv, TypeOK, NodeType
    <3>3. CASE i # Len(nodes) + 1
      <4>1. i \in 1 .. Len(nodes)
        BY <3>3, <2>2, <2>3
      <4> QED
        BY <4>1, <2>1, <2>3, <2>5, ListFacts DEF IInv, Filled, TypeOK, NodeType
    <3> QED
      BY <3>2, <3>3
  <2> QED
    BY <2>1, <2>4, <2>6, <2>7, <2>8, <2>10, <2>11 DEF IInv, ListHolds, Walking
<1> QED
  BY <1>1, <1>2 DEF AddPoolTail

\* The node before the p-th one, as the loops keep it in l1
Before(p) == IF p = 1 THEN NULL ELSE nodes[p - 1]

(***************************************************************************)
(* remove_element of the p-th node takes it out of the chain and leaves    *)
(* the ends where they belong, whichever of its three cases applies.       *)
(***************************************************************************)
LEMMA UnlinkFacts ==
  ASSUME IInv, call # "deleted", NEW p \in 1 .. Len(nodes),
         Unlink(nodes[p], Before(p))
  PROVE  /\ NodeType => next' \in [Nodes -> Nodes \cup {NULL}]
         /\ \A j \in 1 .. Len(nodes) : j # p =>
              next'[nodes[j]] = IF j # p - 1 THEN next[nodes[j]]
                                ELSE IF p = Len(nodes) THEN NULL
                                ELSE nodes[p + 1]
         /\ Len(nodes) = 1 => head' = NULL /\ tail' = NULL
         /\ Len(nodes) # 1 =>
              /\ head' = IF p = 1 THEN nodes[2] ELSE nodes[1]
              /\ tail' = IF p = Len(nodes) THEN nodes[p - 1]
                         ELSE nodes[Len(nodes)]
<1>1. /\ Len(nodes) \in Nat /\ Len(nodes) # 0
      /\ nodes[p] \in Nodes
      /\ head = nodes[1] /\ tail = nodes[Len(nodes)]
  BY ListFacts
<1>2. /\ next[nodes[p]] = IF p = Len(nodes) THEN NULL ELSE nodes[p + 1]
      /\ next \in [Nodes -> Nodes \cup {NULL}]
  BY DEF IInv, ListHolds, Chain, TypeOK, NodeType
<1>3. /\ nodes[p] = head <=> p = 1
      /\ nodes[p] = tail <=> p = Len(nodes)
  BY <1>1 DEF IInv, ListHolds, Distinct
<1>4. \A j \in 1 .. Len(nodes) : /\ nodes[j] \in Nodes
                                 /\ nodes[j] = nodes[p] => j = p
  BY ListFacts DEF IInv, ListHolds, Distinct
<1>5. CASE p = 1
  <2>1. UnlinkFirst(nodes[p])
    BY <1>5, <1>3 DEF Unlink, UnlinkLast, UnlinkInner
  <2>2. next' = [next EXCEPT ![nodes[p]] = NULL]
    BY <2>1 DEF UnlinkFirst
  <2>3. \A j \in 1 .. Len(nodes) : j # p => j # p - 1
    BY <1>5, <1>1
  <2>4. Len(nodes) # 1 => p # Len(nodes) /\ next[nodes[p]] = nodes[2]
    BY <1>1, <1>2, <1>5
  <2> QED
    BY <2>1, <2>2, <2>3, <2>4, <1>1, <1>2, <1>3, <1>4, <1>5 DEF UnlinkFirst
<1>6. CASE p # 1
  <2>1. /\ p - 1 \in 1 .. Len(nodes) /\ Before(p) = nodes[p - 1]
        /\ nodes[p - 1] \in Nodes /\ nodes[p - 1] # nodes[p]
        /\ Len(nodes) # 1
    BY <1>1, <1>4, <1>6 DEF Before
  <2>2. \A j \in 1 .. Len(nodes) : nodes[j] = nodes[p - 1] => j = p - 1
    BY <2>1 DEF IInv, ListHolds, Distinct
  <2>3. CASE p = Len(nodes)
    <3>1. UnlinkLast(nodes[p], Before(p))
      BY <2>3, <1>3, <1>6 DEF Unlink, UnlinkFirst
    <3> QED
      BY <3>1, <2>1, <2>2, <2>3, <1>1, <1>2, <1>4, <1>6 DEF UnlinkLast
  <2>4. CASE p # Len(nodes)
    <3>1. UnlinkInner(nodes[p], Before(p))
      BY <2>4, <1>3, <1>6 DEF Unlink, UnlinkFirst, UnlinkLast
    <3>2. next' = [next EXCEPT ![nodes[p - 1]] = next[nodes[p]],
                               ![nodes[p]] = NULL]
      BY <3>1, <2>1 DEF UnlinkInner
    <3>3. next[nodes[p]] = nodes[p + 1] /\ nodes[p + 1] \in Nodes
      BY <1>1, <1>2, <1>4, <2>4
    <3>4. head' = head /\ tail' = tail
      BY <3>1 DEF UnlinkInner, ends
    <3>5. next' \in [Nodes -> Nodes \cup {NULL}]
      BY <3>2, <3>3, <1>2
    <3>6. ASSUME NEW j \in 1 .. Len(nodes), j # p
          PROVE  next'[nodes[j]] = IF j # p - 1 THEN next[nodes[j]]
                                   ELSE nodes[p + 1]
      BY <3>2, <3>3, <3>6, <2>1, <2>2, <1>1, <1>2, <1>4
    <3> QED
      BY <3>4, <3>5, <3>6, <2>1, <2>4, <1>1, <1>6
  <2> QED
    BY <2>3, <2>4
<1> QED
  BY <1>5, <1>6

(***************************************************************************)
(* The assertion of remove_element holds: only the first node has none     *)
(* before it.                                                              *)
(***************************************************************************)
LEMMA AssertionHolds ==
  ASSUME IInv, call # "deleted", NEW p \in 1 .. Len(nodes)
  PROVE  Before(p) = NULL => nodes[p] = head
<1>1. /\ head = nodes[1] /\ Len(nodes) \in Nat
      /\ \A j \in 1 .. Len(nodes) : nodes[j] \in Nodes
  BY ListFacts
<1>2. p # 1 => p - 1 \in 1 .. Len(nodes)
  BY <1>1
<1> QED
  BY <1>1, <1>2, PoolAssumption DEF Before

(***************************************************************************)
(* remove_element keeps the invariant.                                     *)
(***************************************************************************)
LEMMA RemoveInv ==
  ASSUME IInv, call # "deleted", NEW p \in 1 .. Len(nodes),
         RemoveElement(nodes[p], Before(p)), UNCHANGED locals
  PROVE  IInv'
<1>0. /\ Unlink(nodes[p], Before(p))
      /\ live' = live \ {nodes[p]}
      /\ result' = <<args[nodes[p]]>>
      /\ nodes' = Without(nodes, nodes[p])
      /\ call' = "none"
      /\ args' = args /\ lost' = lost
  BY AssertionHolds DEF RemoveElement, RemoveAnd
<1>a. p \in Nat /\ 1 <= p /\ p <= Len(nodes) /\ Len(nodes) \in Nat
  BY ListFacts
<1>1. /\ Len(nodes) \in Nat
      /\ \A i \in 1 .. Len(nodes) : nodes[i] \in Nodes /\ nodes[i] \in live
  BY ListFacts
<1>2. \A i, j \in 1 .. Len(nodes) : nodes[i] = nodes[j] => i = j
  BY DEF IInv, ListHolds, Distinct
<1>3. /\ nodes' \in Seq(Nodes)
      /\ Len(nodes') = Len(nodes) - 1
      /\ \A j \in 1 .. Len(nodes) - 1 :
           nodes'[j] = IF j < p THEN nodes[j] ELSE nodes[j + 1]
  <2>1. nodes \in Seq(Nodes)
    BY DEF IInv, TypeOK
  <2> QED
    BY <1>0, <1>2, <2>1, WithoutFacts
<1>5. /\ next' \in [Nodes -> Nodes \cup {NULL}]
      /\ \A j \in 1 .. Len(nodes) : j # p =>
           next'[nodes[j]] = IF j # p - 1 THEN next[nodes[j]]
                             ELSE IF p = Len(nodes) THEN NULL
                             ELSE nodes[p + 1]
  BY <1>0, UnlinkFacts DEF IInv, TypeOK
<1>6. /\ Len(nodes) = 1 => head' = NULL /\ tail' = NULL
      /\ Len(nodes) # 1 =>
           /\ head' = IF p = 1 THEN nodes[2] ELSE nodes[1]
           /\ tail' = IF p = Len(nodes) THEN nodes[p - 1]
                      ELSE nodes[Len(nodes)]
  BY <1>0, UnlinkFacts
<1>7. TypeOK'
  <2>1. head' \in Nodes \cup {NULL} /\ tail' \in Nodes \cup {NULL}
    <3>1. CASE Len(nodes) = 1
      BY <3>1, <1>6
    <3>2. CASE Len(nodes) # 1
      <4>1. /\ 1 \in 1 .. Len(nodes) /\ 2 \in 1 .. Len(nodes)
            /\ Len(nodes) \in 1 .. Len(nodes)
            /\ p = Len(nodes) => p - 1 \in 1 .. Len(nodes)
        <5>1. \A k \in Nat : k # 1 /\ 1 <= p /\ p <= k =>
                /\ 1 \in 1 .. k /\ 2 \in 1 .. k /\ k \in 1 .. k
                /\ p = k => p - 1 \in 1 .. k
          BY <1>a
        <5> QED
          BY <3>2, <1>a, <5>1
      <4> QED
        BY <4>1, <3>2, <1>1, <1>6
    <3> QED
      BY <3>1, <3>2
  <2>2. args[nodes[p]] \in Elements
    BY DEF IInv, Filled
  <2>3. <<args[nodes[p]]>> \in Seq(Elements)
    BY <2>2
  <2> QED
    BY <2>1, <2>3, <1>0, <1>3, <1>5
       DEF IInv, TypeOK, NodeType, PoolType, Calls, locals
<1>8. Distinct'
  BY <1>1, <1>2, <1>3 DEF Distinct
<1>9. Chain'
  <2>1. SUFFICES ASSUME NEW i \in 1 .. Len(nodes')
                 PROVE  next'[nodes'[i]] =
                          IF i = Len(nodes') THEN NULL ELSE nodes'[i + 1]
    BY DEF Chain
  <2> DEFINE j == IF i < p THEN i ELSE i + 1
  <2>2. j \in 1 .. Len(nodes) /\ j # p /\ nodes'[i] = nodes[j]
    BY <1>1, <1>3
  <2>3. next[nodes[j]] = IF j = Len(nodes) THEN NULL ELSE nodes[j + 1]
    BY <2>2 DEF IInv, ListHolds, Chain
  <2>4. i # Len(nodes') => i + 1 \in 1 .. Len(nodes) - 1
    BY <1>1, <1>3
  <2>5. i # Len(nodes') =>
          nodes'[i + 1] = IF i + 1 < p THEN nodes[i + 1] ELSE nodes[i + 2]
    BY <2>4, <1>1, <1>3
  <2>6. i = Len(nodes') <=> i = Len(nodes) - 1
    BY <1>3
  <2>7. CASE i + 1 < p
    BY <2>2, <2>3, <2>5, <2>6, <2>7, <1>1, <1>5
  <2>8. CASE i + 1 = p
    BY <2>2, <2>5, <2>6, <2>8, <1>1, <1>5
  <2>9. CASE i + 1 > p
    BY <2>2, <2>3, <2>5, <2>6, <2>9, <1>1, <1>5
  <2> QED
    BY <2>7, <2>8, <2>9, <1>1
<1>10. Ends'
  <2>1. CASE Len(nodes) = 1
    <3>1. nodes' = << >>
      BY <2>1, <1>3
    <3> QED
      BY <3>1, <2>1, <1>6 DEF Ends
  <2>2. CASE Len(nodes) # 1
    <3>1. Len(nodes') \in 1 .. Len(nodes) - 1 /\ nodes' # << >>
      <4>1. Len(nodes) - 1 # 0 /\ Len(nodes) - 1 \in 1 .. Len(nodes) - 1
        BY <2>2, <1>a
      <4>2. Len(nodes') # 0 => nodes' # << >>
        OBVIOUS
      <4> QED
        BY <4>1, <4>2, <1>3
    <3>2. head' = nodes'[1]
      BY <3>1, <2>2, <1>1, <1>3, <1>6
    <3>3. tail' = nodes'[Len(nodes')]
      BY <3>1, <2>2, <1>1, <1>3, <1>6
    <3> QED
      BY <3>1, <3>2, <3>3 DEF Ends
  <2> QED
    BY <2>1, <2>2
<1>11. InList' = InList \ {nodes[p]}
  <2>1. ASSUME NEW i \in 1 .. Len(nodes')
        PROVE  nodes'[i] \in InList \ {nodes[p]}
    <3> DEFINE j == IF i < p THEN i ELSE i + 1
    <3>1. j \in 1 .. Len(nodes) /\ j # p /\ nodes'[i] = nodes[j]
      BY <1>1, <1>3
    <3> QED
      BY <3>1, <1>2 DEF InList
  <2>2. ASSUME NEW j \in 1 .. Len(nodes), j # p
        PROVE  \E i \in 1 .. Len(nodes') : nodes'[i] = nodes[j]
    <3> DEFINE i == IF j < p THEN j ELSE j - 1
    <3>1. i \in 1 .. Len(nodes') /\ nodes'[i] = nodes[j]
      BY <2>2, <1>1, <1>3
    <3> QED
      BY <3>1
  <2> QED
    BY <2>1, <2>2 DEF InList
<1>12. Accounted'
  <2>1. nodes[p] \in InList
    BY DEF InList
  <2> QED
    BY <1>0, <1>11, <2>1 DEF IInv, Accounted
<1>13. Filled'
  <2>1. ASSUME NEW i \in 1 .. Len(nodes') PROVE args'[nodes'[i]] \in Elements
    <3> DEFINE j == IF i < p THEN i ELSE i + 1
    <3>1. j \in 1 .. Len(nodes) /\ nodes'[i] = nodes[j]
      BY <1>1, <1>3
    <3> QED
      BY <3>1, <1>0 DEF IInv, Filled
  <2> QED
    BY <2>1 DEF Filled
<1> QED
  BY <1>0, <1>7, <1>8, <1>9, <1>10, <1>12, <1>13 DEF IInv, ListHolds, Walking

(***************************************************************************)
(* Where a loop is: at the p-th node, or past the last one.                *)
(***************************************************************************)
Loops == {"delete_element", "search", "exec_on_elem"}

LEMMA LoopAt ==
  ASSUME IInv, call \in Loops
  PROVE  \E p \in 1 .. Len(nodes) + 1 :
           /\ At(p)
           /\ l = NULL => p = Len(nodes) + 1
           /\ l # NULL => p \in 1 .. Len(nodes) /\ l = nodes[p] /\ l1 = Before(p)
<1>1. PICK p \in 1 .. Len(nodes) + 1 : At(p)
  BY DEF IInv, Walking, Loops
<1>2. call # "deleted"
  BY DEF Loops
<1>3. Len(nodes) \in Nat
  BY <1>2, ListFacts
<1>4. CASE p = Len(nodes) + 1
  BY <1>1, <1>4 DEF At
<1>5. CASE p # Len(nodes) + 1
  <2>1. p \in 1 .. Len(nodes)
    BY <1>3, <1>5
  <2>2. l = nodes[p] /\ l1 = Before(p)
    BY <1>1, <1>5 DEF At, Before
  <2>3. l # NULL
    BY <1>2, <2>1, <2>2, ListFacts
  <2> QED
    BY <1>1, <2>1, <2>2, <2>3
<1> QED
  BY <1>4, <1>5

(***************************************************************************)
(* What does not touch the list keeps what is said of it.                  *)
(***************************************************************************)
LEMMA SameList ==
  ASSUME IInv, call # "deleted",
         UNCHANGED <<heap, ends, nodes, lost>>
  PROVE  ListHolds' /\ Accounted' /\ Filled' /\ NodeType' /\ PoolType'
           /\ nodes' \in Seq(Nodes) /\ lost' \in SUBSET Nodes
<1>1. /\ args' = args /\ next' = next /\ live' = live
      /\ head' = head /\ tail' = tail
      /\ nodes' = nodes /\ lost' = lost
  BY DEF heap, ends
<1>2. ListHolds'
  BY <1>1 DEF IInv, ListHolds, Ends, Chain, Distinct
<1>3. Accounted' /\ Filled'
  BY <1>1 DEF IInv, Accounted, InList, Filled
<1> QED
  BY <1>1, <1>2, <1>3 DEF IInv, TypeOK, NodeType, PoolType

LEMMA StartInv ==
  ASSUME IInv, NEW f \in Calls \ {"deleted"}, NEW M \in SUBSET Elements,
         Start(f, M)
  PROVE  IInv'
<1>1. /\ call = "none" /\ call' = f /\ l' = head /\ l1' = NULL
      /\ wanted' = M /\ passed' = << >> /\ result' = result
      /\ nodes' = nodes /\ args' = args
      /\ UNCHANGED <<heap, ends, nodes, lost>>
  BY DEF Start, heap
<1>2. ListHolds' /\ Accounted' /\ Filled' /\ NodeType' /\ PoolType'
        /\ nodes' \in Seq(Nodes) /\ lost' \in SUBSET Nodes
  BY <1>1, SameList
<1>3. TypeOK'
  BY <1>1, <1>2 DEF TypeOK, IInv, PoolType
<1>4. At(1)'
  <2>1. Len(nodes) \in Nat /\ (head = IF Len(nodes) = 0 THEN NULL ELSE nodes[1])
    BY <1>1, ListFacts
  <2>2. 1 .. 1 - 1 = {}
    OBVIOUS
  <2>3. l' = IF 1 = Len(nodes') + 1 THEN NULL ELSE nodes'[1]
    BY <1>1, <2>1
  <2>4. passed' = [i \in 1 .. 1 - 1 |-> args'[nodes'[i]]]
    <3>1. [i \in 1 .. 1 - 1 |-> args'[nodes'[i]]] = << >>
      BY <2>2
    <3> QED
      BY <1>1, <3>1
  <2> QED
    BY <1>1, <2>2, <2>3, <2>4 DEF At
<1>5. 1 \in 1 .. Len(nodes') + 1
  BY <1>1, ListFacts
<1> QED
  BY <1>2, <1>3, <1>4, <1>5 DEF IInv, Walking

LEMMA ReturnInv ==
  ASSUME IInv, call # "deleted", NEW r \in Seq(Elements), Return(r)
  PROVE  IInv'
<1>1. /\ call' = "none" /\ result' = r
      /\ UNCHANGED <<heap, ends, nodes, lost>> /\ UNCHANGED locals
  BY DEF Return
<1>2. ListHolds' /\ Accounted' /\ Filled' /\ NodeType' /\ PoolType'
        /\ nodes' \in Seq(Nodes) /\ lost' \in SUBSET Nodes
  BY <1>1, SameList
<1>3. TypeOK'
  BY <1>1, <1>2 DEF TypeOK, IInv, locals, Calls
<1> QED
  BY <1>1, <1>2, <1>3 DEF IInv, Walking

(***************************************************************************)
(* The step of a loop to the next node keeps it on the list, if what it    *)
(* passes is as the loop says: an element exec was called with, or one     *)
(* that the compare function does not accept.                              *)
(***************************************************************************)
LEMMA AdvanceInv ==
  ASSUME IInv, call \in Loops, l # NULL, NEW q, Advance(q),
         IF call = "exec_on_elem" THEN q = Append(passed, args[l])
         ELSE q = passed /\ args[l] \notin wanted
  PROVE  IInv'
<1>1. PICK p \in 1 .. Len(nodes) :
             At(p) /\ l = nodes[p] /\ l1 = Before(p)
  BY LoopAt
<1>2. /\ call # "deleted" /\ call' = call /\ l' = next[l] /\ l1' = l
      /\ passed' = q /\ wanted' = wanted /\ result' = result
      /\ nodes' = nodes /\ args' = args
      /\ UNCHANGED <<heap, ends, nodes, lost>>
  BY DEF Advance, AdvanceFrom, Loops, heap
<1>3. ListHolds' /\ Accounted' /\ Filled' /\ NodeType' /\ PoolType'
        /\ nodes' \in Seq(Nodes) /\ lost' \in SUBSET Nodes
  BY <1>2, SameList
<1>4. Len(nodes) \in Nat /\ p + 1 \in 1 .. Len(nodes) + 1 /\ p + 1 # 1
      /\ (p + 1) - 1 = p /\ l \in Nodes
  BY <1>1, <1>2, ListFacts
<1>5. l' = IF p + 1 = Len(nodes) + 1 THEN NULL ELSE nodes[p + 1]
  BY <1>1, <1>2, <1>4 DEF IInv, ListHolds, Chain
<1>6. \A i \in 1 .. p : i \in 1 .. Len(nodes) /\ (i = p \/ i \in 1 .. p - 1)
  BY <1>4
<1>7. q \in Seq(Elements) /\ (call = "exec_on_elem" =>
                                q = [i \in 1 .. p |-> args[nodes[i]]])
  <2>1. CASE call = "exec_on_elem"
    <3>1. passed = [i \in 1 .. p - 1 |-> args[nodes[i]]]
      BY <2>1, <1>1 DEF At
    <3>2. args[nodes[p]] \in Elements
      BY <1>1 DEF IInv, Filled
    <3>3. passed \in Seq(Elements)
      BY DEF IInv, TypeOK
    <3>4. Len(passed) = p - 1
      BY <3>1, <3>3, <1>4
    <3>5. q \in Seq(Elements) /\ Len(q) = p /\ q[p] = args[nodes[p]]
          /\ \A i \in 1 .. p - 1 : q[i] = args[nodes[i]]
      BY <2>1, <3>1, <3>2, <3>3, <3>4, <1>1, <1>4
    <3>6. q = [i \in 1 .. Len(q) |-> q[i]]
      BY <3>5
    <3> QED
      BY <3>5, <3>6, <1>6
  <2>2. CASE call # "exec_on_elem"
    BY <2>2 DEF IInv, TypeOK
  <2> QED
    BY <2>1, <2>2
<1>8. At(p + 1)'
  <2>1. l1' = IF p + 1 = 1 THEN NULL ELSE nodes'[(p + 1) - 1]
    BY <1>1, <1>2, <1>4
  <2>2. CASE call = "exec_on_elem"
    BY <2>1, <2>2, <1>2, <1>4, <1>5, <1>7 DEF At
  <2>3. CASE call # "exec_on_elem"
    <3>1. \A i \in 1 .. p : args[nodes[i]] \notin wanted
      BY <2>3, <1>1, <1>6 DEF At
    <3> QED
      BY <3>1, <2>1, <2>3, <1>2, <1>4, <1>5 DEF At
  <2> QED
    BY <2>2, <2>3
<1>9. TypeOK'
  BY <1>2, <1>3, <1>4, <1>7 DEF TypeOK, IInv, NodeType
<1> QED
  BY <1>2, <1>3, <1>4, <1>8, <1>9 DEF IInv, Walking

LEMMA DeleteStepInv == ASSUME IInv, DeleteStep PROVE IInv'
<1>1. call \in Loops /\ call # "deleted" /\ call # "exec_on_elem"
  BY DEF DeleteStep, Loops
<1>2. ASSUME Return(<< >>) PROVE IInv'
  <2>1. << >> \in Seq(Elements)
    OBVIOUS
  <2> QED
    BY <1>1, <1>2, <2>1, ReturnInv
<1>3. ASSUME l # NULL, args[l] \notin wanted, Advance(passed) PROVE IInv'
  BY <1>1, <1>3, AdvanceInv
<1>4. ASSUME l # NULL, RemoveElement(l, l1), UNCHANGED locals PROVE IInv'
  <2>1. PICK p \in 1 .. Len(nodes) : l = nodes[p] /\ l1 = Before(p)
    BY <1>1, <1>4, LoopAt
  <2> QED
    BY <1>1, <1>4, <2>1, RemoveInv
<1> QED
  BY <1>2, <1>3, <1>4 DEF DeleteStep

LEMMA SearchStepInv == ASSUME IInv, SearchStep PROVE IInv'
<1>1. call \in Loops /\ call # "deleted" /\ call # "exec_on_elem"
  BY DEF SearchStep, Loops
<1>2. ASSUME Return(<< >>) PROVE IInv'
  <2>1. << >> \in Seq(Elements)
    OBVIOUS
  <2> QED
    BY <1>1, <1>2, <2>1, ReturnInv
<1>3. ASSUME l # NULL, args[l] \notin wanted, Advance(passed) PROVE IInv'
  BY <1>1, <1>3, AdvanceInv
<1>4. ASSUME l # NULL, Return(<<args[l]>>) PROVE IInv'
  <2>1. PICK p \in 1 .. Len(nodes) : l = nodes[p]
    BY <1>1, <1>4, LoopAt
  <2>2. <<args[l]>> \in Seq(Elements)
    BY <2>1 DEF IInv, Filled
  <2> QED
    BY <1>1, <1>4, <2>2, ReturnInv
<1> QED
  BY <1>2, <1>3, <1>4 DEF SearchStep

LEMMA ExecStepInv == ASSUME IInv, ExecStep PROVE IInv'
<1>1. call \in Loops /\ call # "deleted" /\ call = "exec_on_elem"
  BY DEF ExecStep, Loops
<1>2. ASSUME Return(passed) PROVE IInv'
  BY <1>1, <1>2, ReturnInv DEF IInv, TypeOK
<1>3. ASSUME l # NULL, Advance(Append(passed, args[l])) PROVE IInv'
  BY <1>1, <1>3, AdvanceInv
<1> QED
  BY <1>2, <1>3 DEF ExecStep

LEMMA PopFirstInv == ASSUME IInv, PopFirst PROVE IInv'
<1>1. call = "none" /\ UNCHANGED locals
  BY DEF PopFirst
<1>2. CASE head = NULL
  <2>1. call' = "crashed" /\ UNCHANGED <<heap, ends, nodes, lost>>
        /\ result' = result
    BY <1>2 DEF PopFirst
  <2>2. ListHolds' /\ Accounted' /\ Filled' /\ NodeType' /\ PoolType'
          /\ nodes' \in Seq(Nodes) /\ lost' \in SUBSET Nodes
    BY <1>1, <2>1, SameList
  <2>3. TypeOK'
    BY <1>1, <2>1, <2>2 DEF IInv, TypeOK, locals, Calls
  <2> QED
    BY <2>1, <2>2, <2>3 DEF IInv, Walking
<1>3. CASE head # NULL
  <2>1. Len(nodes) \in Nat /\ Len(nodes) # 0
    BY <1>1, <1>3, ListFacts
  <2>2. 1 \in 1 .. Len(nodes) /\ head = nodes[1]
    BY <1>1, <2>1, ListFacts
  <2>3. RemoveElement(nodes[1], Before(1))
    BY <1>3, <2>2 DEF PopFirst, Before
  <2> QED
    BY <1>1, <2>2, <2>3, RemoveInv
<1> QED
  BY <1>2, <1>3

(***************************************************************************)
(* The loop of empty_pool and delete_list frees the first node and goes to *)
(* the next one, which there is.                                           *)
(***************************************************************************)
LEMMA FreeFirstInv == ASSUME IInv, FreeFirst PROVE IInv'
<1>0. /\ call \in {"empty_pool", "delete_list"} /\ call # "deleted"
      /\ head # tail
      /\ l' = head /\ head' = next[head] /\ tail' = tail
      /\ live' = live \ {head} /\ nodes' = Tail(nodes)
      /\ args' = args /\ next' = next /\ call' = call /\ lost' = lost
      /\ l1' = l1 /\ wanted' = wanted /\ passed' = passed /\ result' = result
  BY DEF FreeFirst
<1>1. /\ Len(nodes) \in Nat /\ Len(nodes) >= 2
      /\ head = nodes[1] /\ tail = nodes[Len(nodes)] /\ head \in Nodes
  BY <1>0, ListFacts
<1>2. /\ nodes \in Seq(Nodes) /\ nodes # << >>
  BY <1>1 DEF IInv, TypeOK
<1>3. /\ nodes' \in Seq(Nodes)
      /\ Len(nodes') = Len(nodes) - 1
      /\ \A i \in 1 .. Len(nodes') : i + 1 \in 1 .. Len(nodes)
                                       /\ nodes'[i] = nodes[i + 1]
  BY <1>0, <1>1, <1>2
<1>4. next[head] = nodes[2] /\ nodes[2] \in Nodes
  <2>1. 1 \in 1 .. Len(nodes) /\ 2 \in 1 .. Len(nodes) /\ 1 # Len(nodes)
    BY <1>1
  <2> QED
    BY <1>0, <1>1, <2>1, ListFacts DEF IInv, ListHolds, Chain
<1>5. TypeOK'
  BY <1>0, <1>1, <1>3, <1>4 DEF IInv, TypeOK, NodeType, PoolType
<1>6. Ends'
  <2>1. nodes' # << >> /\ nodes'[1] = nodes[2]
        /\ nodes'[Len(nodes')] = nodes[Len(nodes)]
    BY <1>1, <1>3
  <2> QED
    BY <2>1, <1>0, <1>1, <1>4 DEF Ends
<1>7. Chain'
  <2>1. ASSUME NEW i \in 1 .. Len(nodes')
        PROVE  next[nodes'[i]] =
                 IF i = Len(nodes') THEN NULL ELSE nodes'[i + 1]
    <3>1. i + 1 \in 1 .. Len(nodes) /\ nodes'[i] = nodes[i + 1]
          /\ (i = Len(nodes') <=> i + 1 = Len(nodes))
      BY <1>1, <1>3
    <3>2. i # Len(nodes') => nodes'[i + 1] = nodes[(i + 1) + 1]
      BY <1>1, <1>3
    <3>3. next[nodes[i + 1]] =
            IF i + 1 = Len(nodes) THEN NULL ELSE nodes[(i + 1) + 1]
      BY <3>1, <1>0 DEF IInv, ListHolds, Chain
    <3> QED
      BY <3>1, <3>2, <3>3
  <2> QED
    BY <2>1, <1>0 DEF Chain
<1>8. \A i, j \in 1 .. Len(nodes) : nodes[i] = nodes[j] => i = j
  BY <1>0 DEF IInv, ListHolds, Distinct
<1>9. Distinct'
  BY <1>1, <1>3, <1>8 DEF Distinct
<1>10. InList' = InList \ {head}
  <2>1. ASSUME NEW i \in 1 .. Len(nodes')
        PROVE  nodes'[i] \in InList \ {head}
    <3>1. i + 1 \in 1 .. Len(nodes) /\ i + 1 # 1 /\ 1 \in 1 .. Len(nodes)
      BY <1>1, <1>3
    <3> QED
      BY <3>1, <1>1, <1>3, <1>8 DEF InList
  <2>2. ASSUME NEW j \in 1 .. Len(nodes), j # 1
        PROVE  j - 1 \in 1 .. Len(nodes') /\ nodes'[j - 1] = nodes[j]
    BY <2>2, <1>1, <1>3
  <2>3. ASSUME NEW x \in InList \ {head} PROVE x \in InList'
    <3>1. PICK j \in 1 .. Len(nodes) : x = nodes[j]
      BY <2>3 DEF InList
    <3>2. j # 1
      BY <2>3, <3>1, <1>1
    <3> QED
      BY <3>1, <3>2, <2>2 DEF InList
  <2>4. InList' \subseteq InList \ {head}
    BY <2>1 DEF InList
  <2> QED
    BY <2>3, <2>4
<1>11. Accounted'
  <2>1. head \in InList
    BY <1>1 DEF InList
  <2> QED
    BY <1>0, <1>10, <2>1 DEF IInv, Accounted
<1>12. Filled'
  BY <1>0, <1>3 DEF IInv, Filled
<1> QED
  BY <1>0, <1>5, <1>6, <1>7, <1>9, <1>11, <1>12
     DEF IInv, ListHolds, Walking

(***************************************************************************)
(* The ends of empty_pool and delete_list: at most one node is left, and   *)
(* it is forgotten or freed.                                               *)
(***************************************************************************)
LEMMA LastNode ==
  ASSUME IInv, call # "deleted", head = tail
  PROVE  InList = IF head = NULL THEN {} ELSE {head}
<1>1. Len(nodes) \in Nat /\ Len(nodes) <= 1
  BY ListFacts
<1>2. CASE Len(nodes) = 0
  BY <1>2, ListFacts DEF InList
<1>3. CASE Len(nodes) = 1
  <2>1. head = nodes[1] /\ head # NULL /\ 1 .. 1 = {1}
    BY <1>3, ListFacts
  <2> QED
    BY <1>3, <2>1 DEF InList
<1>4. Len(nodes) = 0 \/ Len(nodes) = 1
  <2>1. \A k \in Nat : k <= 1 => k = 0 \/ k = 1
    OBVIOUS
  <2> QED
    BY <1>1, <2>1
<1> QED
  BY <1>2, <1>3, <1>4

LEMMA EmptyEndInv == ASSUME IInv, EmptyEnd PROVE IInv'
<1>1. /\ call # "deleted" /\ call' = "none" /\ head = tail
      /\ head' = NULL /\ tail' = NULL /\ nodes' = << >>
      /\ lost' = IF head = NULL THEN lost ELSE lost \cup {head}
      /\ args' = args /\ next' = next /\ live' = live /\ result' = result
      /\ UNCHANGED locals
  BY DEF EmptyEnd, heap
<1>2. InList = IF head = NULL THEN {} ELSE {head}
  BY <1>1, LastNode
<1>3. TypeOK'
  BY <1>1 DEF IInv, TypeOK, NodeType, PoolType, Calls, locals
<1>4. Len(nodes') = 0 /\ InList' = {}
  BY <1>1 DEF InList
<1>5. Accounted'
  BY <1>1, <1>2, <1>4 DEF IInv, Accounted
<1> QED
  BY <1>1, <1>3, <1>4, <1>5
     DEF IInv, ListHolds, Ends, Chain, Distinct, Filled, Walking

LEMMA DeleteListEndInv == ASSUME IInv, DeleteListEnd PROVE IInv'
<1>1. /\ call # "deleted" /\ call' = "deleted" /\ head = tail
      /\ head' = head /\ tail' = tail /\ nodes' = << >> /\ lost' = lost
      /\ live' = live \ {head}
      /\ args' = args /\ next' = next /\ result' = result
      /\ UNCHANGED locals
  BY DEF DeleteListEnd, ends
<1>2. InList = IF head = NULL THEN {} ELSE {head}
  BY <1>1, LastNode
<1>3. TypeOK'
  BY <1>1 DEF IInv, TypeOK, NodeType, PoolType, Calls, locals
<1>4. Len(nodes') = 0 /\ InList' = {}
  BY <1>1 DEF InList
<1>5. NULL \notin live
  BY DEF IInv, TypeOK, NodeType
<1>6. Accounted'
  BY <1>1, <1>2, <1>4, <1>5 DEF IInv, Accounted
<1> QED
  BY <1>1, <1>3, <1>4, <1>6 DEF IInv, ListHolds, Filled, Walking

LEMMA NextInv == IInv /\ [Next]_vars => IInv'
<1> SUFFICES ASSUME IInv, [Next]_vars PROVE IInv'
  OBVIOUS
<1>1. ASSUME NEW n \in Nodes, NEW e \in Elements,
             AddPoolHead(n, e) \/ AddPoolTail(n, e)
      PROVE  IInv'
  BY <1>1, AddHeadInv, AddTailInv
<1>2. ASSUME NEW M \in SUBSET Elements,
             Start("delete_element", M) \/ Start("search", M)
      PROVE  IInv'
  BY <1>2, StartInv DEF Calls
<1>3. ASSUME Start("exec_on_elem", {}) \/ Start("empty_pool", {})
               \/ Start("delete_list", {})
      PROVE  IInv'
  BY <1>3, StartInv DEF Calls
<1>4. ASSUME UNCHANGED vars PROVE IInv'
  BY <1>4 DEF vars, heap, ends, locals, IInv, TypeOK, NodeType, PoolType,
     ListHolds, Ends, Chain, Distinct, Accounted, InList, Filled, Walking, At
<1> QED
  BY <1>1, <1>2, <1>3, <1>4, PopFirstInv, DeleteStepInv, SearchStepInv,
     ExecStepInv, FreeFirstInv, EmptyEndInv, DeleteListEndInv DEF Next

(***************************************************************************)
(* The pointers of a pool spell its list, a loop is where it seems to be,  *)
(* and the allocated nodes are accounted for, after any calls.             *)
(***************************************************************************)
THEOREM Invariant == Spec => []IInv
<1> QED
  BY InitInv, NextInv, PTL DEF Spec

(***************************************************************************)
(* Every field, pointer and local of list.c keeps its type: a loop never   *)
(* follows a pointer that is neither NULL nor a node.                      *)
(***************************************************************************)
THEOREM TypeCorrect == Spec => []TypeOK
<1>1. IInv => TypeOK
  BY DEF IInv
<1> QED
  BY <1>1, Invariant, PTL

(***************************************************************************)
(* head, tail and the next pointers always spell one list, whose nodes are *)
(* distinct.                                                               *)
(***************************************************************************)
THEOREM ListStaysWhole == Spec => []ListHolds
<1>1. IInv => ListHolds
  BY DEF IInv
<1> QED
  BY Invariant, <1>1, PTL

(***************************************************************************)
(* list.c never keeps a node that is neither in the list nor forgotten by  *)
(* empty_pool, and never frees a node of the list.                         *)
(***************************************************************************)
THEOREM NodesAccounted == Spec => []Accounted
<1>1. IInv => Accounted
  BY DEF IInv
<1> QED
  BY Invariant, <1>1, PTL

-----------------------------------------------------------------------------
(***************************************************************************)
(* The sequence that a pool holds.                                         *)
(***************************************************************************)
LEMMA ContentsFacts ==
  ASSUME IInv
  PROVE  /\ Contents \in Seq(Elements)
         /\ Len(Contents) = Len(nodes) /\ Len(nodes) \in Nat
         /\ \A i \in 1 .. Len(nodes) : Contents[i] = args[nodes[i]]
<1>1. Len(nodes) \in Nat
  BY DEF IInv, TypeOK
<1>2. \A i \in 1 .. Len(nodes) : args[nodes[i]] \in Elements
  BY DEF IInv, Filled
<1> QED
  BY <1>1, <1>2 DEF Contents

(***************************************************************************)
(* A step that leaves the list and the answer alone is a stutter of List.  *)
(***************************************************************************)
LEMMA Stutter ==
  ASSUME args' = args, nodes' = nodes, result' = result
  PROVE  UNCHANGED Sequence!vars
BY DEF Sequence!vars, Contents

LEMMA AddHeadRefines ==
  ASSUME IInv, IInv', NEW n \in Nodes, NEW e \in Elements, AddPoolHead(n, e)
  PROVE  Sequence!AddFirst(e)
<1>1. /\ call # "deleted" /\ n \notin live
      /\ nodes' = <<n>> \o nodes /\ args' = [args EXCEPT ![n] = e]
      /\ result' = <<e>>
  BY DEF AddPoolHead, NewItem
<1>2. /\ Len(nodes) \in Nat
      /\ \A i \in 1 .. Len(nodes) : nodes[i] \in Nodes /\ nodes[i] # n
  BY <1>1, ListFacts
<1>3. /\ Len(nodes') = Len(nodes) + 1 /\ nodes'[1] = n
      /\ \A i \in 1 .. Len(nodes) : nodes'[i + 1] = nodes[i]
  BY <1>1, InFront DEF IInv, TypeOK
<1>4. Contents \in Seq(Elements) /\ Len(Contents) = Len(nodes)
      /\ \A i \in 1 .. Len(nodes) : Contents[i] = args[nodes[i]]
  BY ContentsFacts
<1> DEFINE w == <<e>> \o Contents
<1>5. /\ w \in Seq(Elements) /\ Len(w) = Len(nodes') /\ w[1] = e
      /\ \A i \in 1 .. Len(nodes) : w[i + 1] = args[nodes[i]]
  BY <1>3, <1>4, InFront
<1>6. \A i \in 1 .. Len(nodes') : args'[nodes'[i]] = w[i]
  <2>1. TAKE i \in 1 .. Len(nodes')
  <2>2. CASE i = 1
    BY <2>2, <1>1, <1>3, <1>5 DEF IInv, TypeOK, NodeType
  <2>3. CASE i # 1
    <3>1. i - 1 \in 1 .. Len(nodes) /\ (i - 1) + 1 = i
      BY <2>3, <1>2, <1>3
    <3>2. nodes'[i] = nodes[i - 1] /\ w[i] = args[nodes[i - 1]]
      BY <3>1, <1>3, <1>5
    <3> QED
      BY <3>1, <3>2, <1>1, <1>2 DEF IInv, TypeOK, NodeType
  <2> QED
    BY <2>2, <2>3
<1>7. Contents' = w
  <2> HIDE DEF w
  <2>1. nodes' \in Seq(Nodes) /\ Len(nodes') \in Nat
    BY DEF IInv, TypeOK
  <2>2. Contents' = [i \in 1 .. Len(nodes') |-> w[i]]
    BY <1>6 DEF Contents
  <2>3. w = [i \in 1 .. Len(w) |-> w[i]]
    BY <1>5
  <2> QED
    BY <2>2, <2>3, <1>5
<1> QED
  BY <1>1, <1>7 DEF Sequence!AddFirst

LEMMA AddTailRefines ==
  ASSUME IInv, IInv', NEW n \in Nodes, NEW e \in Elements, AddPoolTail(n, e)
  PROVE  Sequence!AddLast(e)
<1>1. /\ call # "deleted" /\ n \notin live
      /\ nodes' = Append(nodes, n) /\ args' = [args EXCEPT ![n] = e]
      /\ result' = <<e>>
  <2>1. CASE AddToEmpty(n, e)
    <3>1. call # "deleted" /\ tail = NULL
      BY <2>1 DEF AddToEmpty, NewItem
    <3>2. nodes = << >>
      BY <3>1, ListFacts
    <3>3. Append(<< >>, n) = <<n>>
      OBVIOUS
    <3> QED
      BY <2>1, <3>1, <3>2, <3>3 DEF AddToEmpty, NewItem
  <2>2. CASE AddBehindTail(n, e)
    BY <2>2 DEF AddBehindTail
  <2> QED
    BY <2>1, <2>2 DEF AddPoolTail
<1>2. /\ Len(nodes) \in Nat
      /\ \A i \in 1 .. Len(nodes) : nodes[i] \in Nodes /\ nodes[i] # n
  BY <1>1, ListFacts
<1>3. /\ Len(nodes') = Len(nodes) + 1 /\ nodes'[Len(nodes) + 1] = n
      /\ \A i \in 1 .. Len(nodes) : nodes'[i] = nodes[i]
  BY <1>1 DEF IInv, TypeOK
<1>4. Contents \in Seq(Elements) /\ Len(Contents) = Len(nodes)
      /\ \A i \in 1 .. Len(nodes) : Contents[i] = args[nodes[i]]
  BY ContentsFacts
<1> DEFINE w == Append(Contents, e)
<1>5. /\ w \in Seq(Elements) /\ Len(w) = Len(nodes')
      /\ w[Len(nodes) + 1] = e
      /\ \A i \in 1 .. Len(nodes) : w[i] = args[nodes[i]]
  BY <1>2, <1>3, <1>4
<1>6. \A i \in 1 .. Len(nodes') : args'[nodes'[i]] = w[i]
  <2>1. TAKE i \in 1 .. Len(nodes')
  <2>2. CASE i = Len(nodes) + 1
    BY <2>2, <1>1, <1>3, <1>5 DEF IInv, TypeOK, NodeType
  <2>3. CASE i # Len(nodes) + 1
    <3>1. i \in 1 .. Len(nodes)
      BY <2>3, <1>2, <1>3
    <3> QED
      BY <3>1, <1>1, <1>2, <1>3, <1>5 DEF IInv, TypeOK, NodeType
  <2> QED
    BY <2>2, <2>3
<1>7. Contents' = w
  <2> HIDE DEF w
  <2>1. Contents' = [i \in 1 .. Len(nodes') |-> w[i]]
    BY <1>6 DEF Contents
  <2>2. w = [i \in 1 .. Len(w) |-> w[i]]
    BY <1>5
  <2> QED
    BY <2>1, <2>2, <1>5
<1> QED
  BY <1>1, <1>7 DEF Sequence!AddLast

(***************************************************************************)
(* remove_element takes one element out of the sequence and returns it.    *)
(***************************************************************************)
LEMMA RemoveRefines ==
  ASSUME IInv, call # "deleted", NEW p \in 1 .. Len(nodes),
         RemoveElement(nodes[p], Before(p))
  PROVE  /\ Contents' = Sequence!Without(Contents, p)
         /\ result' = <<Contents[p]>>
<1>1. /\ nodes' = Without(nodes, nodes[p]) /\ args' = args
      /\ result' = <<args[nodes[p]]>>
  BY AssertionHolds DEF RemoveElement, RemoveAnd
<1>2. Contents \in Seq(Elements) /\ Len(Contents) = Len(nodes)
      /\ Len(nodes) \in Nat
      /\ \A i \in 1 .. Len(nodes) : Contents[i] = args[nodes[i]]
  BY ContentsFacts
<1>3. /\ Len(nodes') = Len(nodes) - 1
      /\ \A j \in 1 .. Len(nodes) - 1 :
           nodes'[j] = IF j < p THEN nodes[j] ELSE nodes[j + 1]
  <2>1. nodes \in Seq(Nodes)
    BY DEF IInv, TypeOK
  <2>2. \A i, j \in 1 .. Len(nodes) : nodes[i] = nodes[j] => i = j
    BY DEF IInv, ListHolds, Distinct
  <2> QED
    BY <1>1, <2>1, <2>2, WithoutFacts
<1>4. \A j \in 1 .. Len(nodes) - 1 :
        args'[nodes'[j]] = IF j < p THEN Contents[j] ELSE Contents[j + 1]
  <2>1. TAKE j \in 1 .. Len(nodes) - 1
  <2>2. j \in 1 .. Len(nodes) /\ j + 1 \in 1 .. Len(nodes)
    BY <1>2
  <2> QED
    BY <2>2, <1>1, <1>2, <1>3
<1>5. Contents' = [j \in 1 .. Len(nodes) - 1 |->
                     IF j < p THEN Contents[j] ELSE Contents[j + 1]]
  BY <1>3, <1>4 DEF Contents
<1>6. Contents' = Sequence!Without(Contents, p)
  BY <1>2, <1>5 DEF Sequence!Without
<1> QED
  BY <1>1, <1>2, <1>6

LEMMA DeleteStepRefines ==
  ASSUME IInv, DeleteStep
  PROVE  \/ \E M \in SUBSET Elements : Sequence!Delete(M) \/ Sequence!NotFound(M)
         \/ UNCHANGED Sequence!vars
<1>1. call = "delete_element" /\ call # "deleted" /\ call \in Loops
      /\ wanted \in SUBSET Elements
  BY DEF DeleteStep, IInv, TypeOK, Loops
<1>2. PICK p \in 1 .. Len(nodes) + 1 :
             /\ At(p)
             /\ l = NULL => p = Len(nodes) + 1
             /\ l # NULL => p \in 1 .. Len(nodes) /\ l = nodes[p] /\ l1 = Before(p)
  BY <1>1, LoopAt
<1>3. \A i \in 1 .. p - 1 : args[nodes[i]] \notin wanted
  BY <1>1, <1>2 DEF At
<1>4. /\ Len(Contents) = Len(nodes) /\ Len(nodes) \in Nat
      /\ \A i \in 1 .. Len(nodes) : Contents[i] = args[nodes[i]]
  BY ContentsFacts
<1>5. \A i \in 1 .. p - 1 : i \in 1 .. Len(nodes) /\ Contents[i] \notin wanted
  BY <1>2, <1>3, <1>4
<1>6. CASE l = NULL /\ Return(<< >>)
  <2>1. p - 1 = Len(nodes)
    BY <1>2, <1>4, <1>6
  <2>2. Contents' = Contents /\ result' = << >>
    BY <1>6 DEF Return, Contents, heap
  <2>3. Sequence!NotFound(wanted)
    BY <1>4, <1>5, <2>1, <2>2 DEF Sequence!NotFound
  <2> QED
    BY <1>1, <2>3
<1>7. CASE Advance(passed)
  BY <1>7, Stutter DEF Advance, AdvanceFrom, heap
<1>8. CASE l # NULL /\ args[l] \in wanted /\ RemoveElement(l, l1)
  <2>1. p \in 1 .. Len(nodes) /\ Contents[p] \in wanted
    BY <1>2, <1>4, <1>8
  <2>2. /\ Contents' = Sequence!Without(Contents, p)
        /\ result' = <<Contents[p]>>
    BY <1>1, <1>2, <1>8, RemoveRefines
  <2>3. Sequence!FirstIn(p, wanted)
    BY <1>4, <1>5, <2>1 DEF Sequence!FirstIn
  <2>4. Sequence!Delete(wanted)
    BY <1>4, <2>1, <2>2, <2>3 DEF Sequence!Delete
  <2> QED
    BY <1>1, <2>4
<1> QED
  BY <1>6, <1>7, <1>8 DEF DeleteStep

LEMMA SearchStepRefines ==
  ASSUME IInv, SearchStep
  PROVE  \/ \E M \in SUBSET Elements : Sequence!Find(M) \/ Sequence!NotFound(M)
         \/ UNCHANGED Sequence!vars
<1>1. call = "search" /\ call # "deleted" /\ call \in Loops
      /\ wanted \in SUBSET Elements
  BY DEF SearchStep, IInv, TypeOK, Loops
<1>2. PICK p \in 1 .. Len(nodes) + 1 :
             /\ At(p)
             /\ l = NULL => p = Len(nodes) + 1
             /\ l # NULL => p \in 1 .. Len(nodes) /\ l = nodes[p] /\ l1 = Before(p)
  BY <1>1, LoopAt
<1>3. \A i \in 1 .. p - 1 : args[nodes[i]] \notin wanted
  BY <1>1, <1>2 DEF At
<1>4. /\ Len(Contents) = Len(nodes) /\ Len(nodes) \in Nat
      /\ \A i \in 1 .. Len(nodes) : Contents[i] = args[nodes[i]]
  BY ContentsFacts
<1>5. \A i \in 1 .. p - 1 : i \in 1 .. Len(nodes) /\ Contents[i] \notin wanted
  BY <1>2, <1>3, <1>4
<1>6. CASE l = NULL /\ Return(<< >>)
  <2>1. p - 1 = Len(nodes)
    BY <1>2, <1>4, <1>6
  <2>2. Contents' = Contents /\ result' = << >>
    BY <1>6 DEF Return, Contents, heap
  <2>3. Sequence!NotFound(wanted)
    BY <1>4, <1>5, <2>1, <2>2 DEF Sequence!NotFound
  <2> QED
    BY <1>1, <2>3
<1>7. CASE Advance(passed)
  BY <1>7, Stutter DEF Advance, AdvanceFrom, heap
<1>8. CASE l # NULL /\ args[l] \in wanted /\ Return(<<args[l]>>)
  <2>1. p \in 1 .. Len(nodes) /\ Contents[p] = args[l]
    BY <1>2, <1>4, <1>8
  <2>2. Contents' = Contents /\ result' = <<Contents[p]>>
    BY <1>8, <2>1 DEF Return, Contents, heap
  <2>3. Sequence!FirstIn(p, wanted)
    BY <1>4, <1>5, <1>8, <2>1 DEF Sequence!FirstIn
  <2>4. Sequence!Find(wanted)
    BY <1>4, <2>1, <2>2, <2>3 DEF Sequence!Find
  <2> QED
    BY <1>1, <2>4
<1> QED
  BY <1>6, <1>7, <1>8 DEF SearchStep

LEMMA ExecStepRefines ==
  ASSUME IInv, ExecStep
  PROVE  Sequence!ForEach \/ UNCHANGED Sequence!vars
<1>1. call = "exec_on_elem" /\ call # "deleted" /\ call \in Loops
  BY DEF ExecStep, Loops
<1>2. PICK p \in 1 .. Len(nodes) + 1 : At(p) /\ (l = NULL => p = Len(nodes) + 1)
  BY <1>1, LoopAt
<1>3. CASE l = NULL /\ Return(passed)
  <2>1. passed = [i \in 1 .. p - 1 |-> args[nodes[i]]]
    BY <1>1, <1>2 DEF At
  <2>2. p - 1 = Len(nodes)
    BY <1>2, <1>3, ContentsFacts
  <2>3. passed = Contents
    BY <2>1, <2>2 DEF Contents
  <2> QED
    BY <1>3, <2>3 DEF Return, Contents, heap, Sequence!ForEach
<1>4. CASE Advance(Append(passed, args[l]))
  BY <1>4, Stutter DEF Advance, AdvanceFrom, heap
<1> QED
  BY <1>3, <1>4 DEF ExecStep

LEMMA PopFirstRefines ==
  ASSUME IInv, PopFirst
  PROVE  Sequence!Delete(Elements) \/ UNCHANGED Sequence!vars
<1>1. call # "deleted"
  BY DEF PopFirst
<1>2. CASE head = NULL
  BY <1>2, Stutter DEF PopFirst, heap
<1>3. CASE head # NULL
  <2>1. 1 \in 1 .. Len(nodes) /\ head = nodes[1]
    BY <1>1, <1>3, ListFacts
  <2>2. RemoveElement(nodes[1], Before(1))
    BY <1>3, <2>1 DEF PopFirst, Before
  <2>3. /\ Contents' = Sequence!Without(Contents, 1)
        /\ result' = <<Contents[1]>>
    BY <1>1, <2>1, <2>2, RemoveRefines
  <2>4. /\ Contents \in Seq(Elements) /\ Len(Contents) = Len(nodes)
        /\ \A j \in 1 .. 1 - 1 : FALSE
    BY ContentsFacts
  <2>5. Sequence!FirstIn(1, Elements)
    BY <2>1, <2>4 DEF Sequence!FirstIn
  <2>6. Sequence!Delete(Elements)
    BY <2>1, <2>3, <2>4, <2>5 DEF Sequence!Delete
  <2> QED
    BY <2>6
<1> QED
  BY <1>2, <1>3

LEMMA FreeFirstRefines == ASSUME IInv, IInv', FreeFirst PROVE Sequence!Drop
<1>1. /\ call # "deleted" /\ head # tail /\ nodes' = Tail(nodes)
      /\ args' = args /\ result' = result
  BY DEF FreeFirst
<1>2. Len(nodes) \in Nat /\ Len(nodes) >= 2
  BY <1>1, ListFacts
<1>3. /\ Contents \in Seq(Elements) /\ Len(Contents) = Len(nodes)
      /\ \A i \in 1 .. Len(nodes) : Contents[i] = args[nodes[i]]
      /\ Contents # << >>
  BY <1>2, ContentsFacts
<1>4. /\ Tail(Contents) \in Seq(Elements)
      /\ Len(Tail(Contents)) = Len(nodes) - 1
      /\ \A i \in 1 .. Len(nodes) - 1 : Tail(Contents)[i] = Contents[i + 1]
  BY <1>3, HeadTailProperties
<1>5. /\ Len(nodes') = Len(nodes) - 1
      /\ \A i \in 1 .. Len(nodes) - 1 : nodes'[i] = nodes[i + 1]
  <2>1. nodes \in Seq(Nodes) /\ nodes # << >>
    BY <1>2 DEF IInv, TypeOK
  <2> QED
    BY <1>1, <2>1, HeadTailProperties
<1>6. \A i \in 1 .. Len(nodes) - 1 : args'[nodes'[i]] = Tail(Contents)[i]
  <2>1. TAKE i \in 1 .. Len(nodes) - 1
  <2>2. i + 1 \in 1 .. Len(nodes)
    BY <1>2
  <2> QED
    BY <2>2, <1>1, <1>3, <1>4, <1>5
<1>7. Contents' = [i \in 1 .. Len(nodes) - 1 |-> Tail(Contents)[i]]
  BY <1>5, <1>6 DEF Contents
<1>8. Tail(Contents) = [i \in 1 .. Len(nodes) - 1 |-> Tail(Contents)[i]]
  <2>1. Tail(Contents) \in [1 .. Len(nodes) - 1 -> Elements]
    BY <1>4, LenProperties
  <2> QED
    BY <2>1
<1>9. Contents' = Tail(Contents)
  BY <1>4, <1>7, <1>8
<1> QED
  BY <1>1, <1>3, <1>9 DEF Sequence!Drop

(***************************************************************************)
(* The end of empty_pool or delete_list drops the last element, if any.    *)
(***************************************************************************)
LEMMA LastDropRefines ==
  ASSUME IInv, EmptyEnd \/ DeleteListEnd
  PROVE  Sequence!Drop \/ UNCHANGED Sequence!vars
<1>1. /\ call # "deleted" /\ head = tail /\ nodes' = << >>
      /\ args' = args /\ result' = result
  BY DEF EmptyEnd, DeleteListEnd, heap
<1>2. Len(nodes) \in Nat /\ Len(nodes) <= 1
  BY <1>1, ListFacts
<1>3. CASE Len(nodes) = 0
  <2>1. nodes = << >>
    BY <1>1, <1>3, ListFacts
  <2> QED
    BY <1>1, <2>1, Stutter
<1>4. CASE Len(nodes) # 0
  <2>1. Len(nodes) = 1
    <3>1. \A k \in Nat : k <= 1 /\ k # 0 => k = 1
      OBVIOUS
    <3> QED
      BY <1>2, <1>4, <3>1
  <2>2. Contents \in Seq(Elements) /\ Len(Contents) = 1 /\ Contents # << >>
    <3>1. Contents \in Seq(Elements) /\ Len(Contents) = 1
      BY <2>1, ContentsFacts
    <3> QED
      BY <3>1, EmptySeq
  <2>3. Tail(Contents) \in Seq(Elements) /\ Len(Tail(Contents)) = 0
    BY <2>2, HeadTailProperties
  <2>4. Tail(Contents) = << >>
    BY <2>3, EmptySeq
  <2>5. Contents' = << >>
    BY <1>1 DEF Contents
  <2> QED
    BY <1>1, <2>2, <2>4, <2>5 DEF Sequence!Drop
<1> QED
  BY <1>3, <1>4

LEMMA StepRefines == IInv /\ IInv' /\ [Next]_vars => [Sequence!Next]_(Sequence!vars)
<1> SUFFICES ASSUME IInv, IInv', [Next]_vars
             PROVE  Sequence!Next \/ UNCHANGED Sequence!vars
  OBVIOUS
<1> USE DEF Sequence!Next
<1>1. ASSUME NEW n \in Nodes, NEW e \in Elements,
             AddPoolHead(n, e) \/ AddPoolTail(n, e)
      PROVE  Sequence!Next
  BY <1>1, AddHeadRefines, AddTailRefines
<1>2. ASSUME NEW f, NEW M, Start(f, M)
      PROVE  UNCHANGED Sequence!vars
  BY <1>2, Stutter DEF Start, heap
<1>3. CASE DeleteStep
  BY <1>3, DeleteStepRefines
<1>4. CASE SearchStep
  BY <1>4, SearchStepRefines
<1>5. CASE ExecStep
  BY <1>5, ExecStepRefines
<1>6. CASE PopFirst
  <2>1. Elements \in SUBSET Elements
    OBVIOUS
  <2> QED
    BY <1>6, <2>1, PopFirstRefines
<1>7. CASE FreeFirst
  BY <1>7, FreeFirstRefines
<1>8. CASE EmptyEnd \/ DeleteListEnd
  BY <1>8, LastDropRefines
<1>9. CASE UNCHANGED vars
  BY <1>9, Stutter DEF vars, heap
<1> QED
  BY <1>1, <1>2, <1>3, <1>4, <1>5, <1>6, <1>7, <1>8, <1>9 DEF Next

LEMMA InitRefines == Init => Sequence!Init
<1> SUFFICES ASSUME Init PROVE Sequence!Init
  OBVIOUS
<1>1. Len(nodes) = 0 /\ result = << >>
  BY DEF Init
<1> QED
  BY <1>1 DEF Sequence!Init, Contents

(***************************************************************************)
(* A pool is a List: deletions, searches, applications and the emptying    *)
(* loops, node by node, are steps of the sequence.                         *)
(***************************************************************************)
THEOREM Implementation == Spec => ImplementsList
<1>1. Spec => Sequence!Init
  BY InitRefines DEF Spec
<1>2. IInv /\ IInv' /\ [Next]_vars => [Sequence!Next]_(Sequence!vars)
  BY StepRefines
<1> QED
  BY Invariant, <1>1, <1>2, PTL DEF Spec, ImplementsList, Sequence!Spec

=============================================================================
