-------------------------------- MODULE Pool --------------------------------
(***************************************************************************)
(* list.c: a pool is a singly linked list of list_t nodes with a pointer   *)
(* to the first and one to the last.  The caller holds the pool's lock (or *)
(* is alone, as the main application is with the pool of groups), so calls *)
(* do not overlap; a call that goes through the list takes one step for    *)
(* each node, because what its loop has passed is what its correctness is  *)
(* about.                                                                  *)
(***************************************************************************)
EXTENDS Naturals, Sequences

CONSTANTS
  Elements,   \* what a pool may hold: tasks, groups
  Nodes,      \* bound: the list_t objects calloc may return
  NULL

ASSUME PoolAssumption == NULL \notin Nodes /\ NULL \notin Elements

VARIABLES
  args, next,   \* the fields of every list_t
  live,         \* the list_t objects allocated and not freed
  head, tail,   \* the fields of the pool_t
  call,         \* the function that is going through the list, if any
  l, l1,        \* its locals: the current node and the one before
  wanted,       \* the elements its compare function accepts
  passed,       \* the elements exec has been called with
  result,       \* what the last call returned, as in List
  nodes,        \* history: the nodes of the list, first to last
  lost          \* history: the nodes that empty_pool has forgotten

heap   == <<args, next, live>>
ends   == <<head, tail>>
locals == <<l, l1, wanted, passed>>
vars == <<heap, ends, call, locals, result, nodes, lost>>

Calls == {"none", "delete_element", "search", "exec_on_elem", "empty_pool",
          "delete_list", "deleted", "crashed"}

\* create_pool
Init ==
  /\ args = [n \in Nodes |-> NULL]
  /\ next = [n \in Nodes |-> NULL]
  /\ live = {}
  /\ head = NULL
  /\ tail = NULL
  /\ call = "none"
  /\ l = NULL
  /\ l1 = NULL
  /\ wanted = {}
  /\ passed = << >>
  /\ result = << >>
  /\ nodes = << >>
  /\ lost = {}

-----------------------------------------------------------------------------
\* calloc: a node that is not in use, for element e and with this successor
NewItem(n, e, succ) ==
  /\ call = "none"
  /\ n \notin live
  /\ live' = live \cup {n}
  /\ args' = [args EXCEPT ![n] = e]
  /\ next' = [next EXCEPT ![n] = succ]
  /\ result' = <<e>>
  /\ UNCHANGED <<call, locals, lost>>

AddPoolHead(n, e) ==
  /\ NewItem(n, e, head)
  /\ head' = n
  /\ tail' = IF head = NULL THEN n ELSE tail
  /\ nodes' = <<n>> \o nodes

AddToEmpty(n, e) ==
  /\ tail = NULL
  /\ NewItem(n, e, NULL)
  /\ head' = n /\ tail' = n
  /\ nodes' = <<n>>

AddBehindTail(n, e) ==
  /\ tail # NULL
  /\ call = "none"
  /\ n \notin live
  /\ live' = live \cup {n}
  /\ args' = [args EXCEPT ![n] = e]
  /\ next' = [next EXCEPT ![n] = NULL, ![tail] = n]
  /\ tail' = n
  /\ nodes' = Append(nodes, n)
  /\ result' = <<e>>
  /\ UNCHANGED <<head, call, locals, lost>>

AddPoolTail(n, e) == AddToEmpty(n, e) \/ AddBehindTail(n, e)

-----------------------------------------------------------------------------
Without(s, n) ==
  LET i == CHOOSE i \in 1 .. Len(s) : s[i] = n
  IN  [j \in 1 .. Len(s) - 1 |-> IF j < i THEN s[j] ELSE s[j + 1]]

\* The pointers after remove_element of the first, the last or another node
UnlinkFirst(node) ==
  /\ node = head
  /\ head' = IF node = tail THEN NULL ELSE next[node]
  /\ tail' = IF node = tail THEN NULL ELSE tail
  /\ next' = [next EXCEPT ![node] = NULL]

UnlinkLast(node, prev) ==
  /\ node # head /\ node = tail
  /\ tail' = prev
  /\ next' = [next EXCEPT ![prev] = NULL]
  /\ UNCHANGED head

UnlinkInner(node, prev) ==
  /\ node # head
  /\ next' = [next EXCEPT ![prev] = next[node], ![node] = NULL]
  /\ UNCHANGED ends

\* Faulty variant: the last node is treated as one in the middle.
UnlinkLastAsInner(node, prev) == UnlinkFirst(node) \/ UnlinkInner(node, prev)

Unlink(node, prev) ==
  \/ UnlinkFirst(node)
  \/ UnlinkLast(node, prev)
  \/ node # tail /\ UnlinkInner(node, prev)

\* Unlink node, free what is to be freed, and return r.  The assertion of
\* remove_element: a node that is not the first has one before it.
RemoveAnd(node, prev, freed, r) ==
  IF prev = NULL /\ node # head
  THEN call' = "crashed" /\ UNCHANGED <<heap, ends, result, nodes, lost>>
  ELSE /\ Unlink(node, prev)
       /\ live' = live \ freed
       /\ result' = <<r>>
       /\ nodes' = Without(nodes, node)
       /\ call' = "none"
       /\ UNCHANGED <<args, lost>>

\* Faulty variants: the node is not freed; the node is returned.
RemoveWithoutFree(node, prev) == RemoveAnd(node, prev, {}, args[node])
RemoveReturnsNode(node, prev) == RemoveAnd(node, prev, {node}, node)

\* remove_element of a node of the list
RemoveElement(node, prev) == RemoveAnd(node, prev, {node}, args[node])

\* pop_first reads head->next, also when there is no head.
PopFirst ==
  /\ call = "none"
  /\ IF head = NULL
     THEN call' = "crashed" /\ UNCHANGED <<heap, ends, result, nodes, lost>>
     ELSE RemoveElement(head, NULL)
  /\ UNCHANGED locals

-----------------------------------------------------------------------------
\* A call of function f, which goes through the list from its head.
Start(f, M) ==
  /\ call = "none"
  /\ call' = f
  /\ l' = head
  /\ l1' = NULL
  /\ wanted' = M
  /\ passed' = << >>
  /\ UNCHANGED <<heap, ends, result, nodes, lost>>

\* The call is over and returns r.
Return(r) ==
  /\ call' = "none"
  /\ result' = r
  /\ UNCHANGED <<heap, ends, locals, nodes, lost>>

\* To the next node, the one before it being prev.
AdvanceFrom(prev, p) ==
  /\ l' = next[l]
  /\ l1' = prev
  /\ passed' = p
  /\ UNCHANGED <<heap, ends, call, wanted, result, nodes, lost>>

\* Faulty variant: l1 is set once and stays behind.
AdvanceBehind(p) == AdvanceFrom(IF l1 = NULL THEN l ELSE l1, p)

\* The step of the loops to the next node
Advance(p) == AdvanceFrom(l, p)

DeleteStep ==
  /\ call = "delete_element"
  /\ \/ l = NULL /\ Return(<< >>)
     \/ l # NULL /\ args[l] \notin wanted /\ Advance(passed)
     \/ /\ l # NULL /\ args[l] \in wanted
        /\ RemoveElement(l, l1)
        /\ UNCHANGED locals

\* Faulty variant: the loop has no step.
SearchSpins ==
  call = "search" /\ l # NULL /\ args[l] \in wanted /\ Return(<<args[l]>>)

SearchStep ==
  /\ call = "search"
  /\ \/ l = NULL /\ Return(<< >>)
     \/ l # NULL /\ args[l] \notin wanted /\ Advance(passed)
     \/ l # NULL /\ args[l] \in wanted /\ Return(<<args[l]>>)

\* exec_on_elem, and exec_on_elem_targs, which returns nothing
ExecStep ==
  /\ call = "exec_on_elem"
  /\ \/ l # NULL /\ Advance(Append(passed, args[l]))
     \/ l = NULL /\ Return(passed)

\* The loop of empty_pool and delete_list: free the first of two or more.
FreeFirst ==
  /\ call \in {"empty_pool", "delete_list"}
  /\ head # tail
  /\ l' = head
  /\ head' = next[head]
  /\ live' = live \ {head}
  /\ nodes' = Tail(nodes)
  /\ UNCHANGED <<args, next, tail, call, l1, wanted, passed, result, lost>>

\* empty_pool only forgets the last node.
EmptyEnd ==
  /\ call = "empty_pool"
  /\ head = tail
  /\ head' = NULL /\ tail' = NULL
  /\ lost' = IF head = NULL THEN lost ELSE lost \cup {head}
  /\ nodes' = << >>
  /\ call' = "none"
  /\ UNCHANGED <<heap, locals, result>>

\* delete_list frees the last node, and leaves head and tail pointing to it.
DeleteListEnd ==
  /\ call = "delete_list"
  /\ head = tail
  /\ live' = live \ {head}
  /\ nodes' = << >>
  /\ call' = "deleted"
  /\ UNCHANGED <<args, next, ends, locals, result, lost>>

-----------------------------------------------------------------------------
Next ==
  \/ \E n \in Nodes, e \in Elements : AddPoolHead(n, e) \/ AddPoolTail(n, e)
  \/ PopFirst
  \/ \E M \in SUBSET Elements :
        Start("delete_element", M) \/ Start("search", M)
  \/ Start("exec_on_elem", {})
  \/ Start("empty_pool", {})
  \/ Start("delete_list", {})
  \/ DeleteStep \/ SearchStep \/ ExecStep
  \/ FreeFirst \/ EmptyEnd \/ DeleteListEnd

Spec == Init /\ [][Next]_vars

\* A call that has begun goes on.
FairSpec ==
  /\ Spec
  /\ WF_vars(DeleteStep \/ SearchStep \/ ExecStep \/ FreeFirst \/ EmptyEnd
             \/ DeleteListEnd)

-----------------------------------------------------------------------------
NodeType ==
  /\ args \in [Nodes -> Elements \cup {NULL}]
  /\ next \in [Nodes -> Nodes \cup {NULL}]
  /\ live \in SUBSET Nodes

PoolType == head \in Nodes \cup {NULL} /\ tail \in Nodes \cup {NULL}

\* Every field of a node and of the pool, and every local, has its type.
TypeOK ==
  /\ NodeType
  /\ PoolType
  /\ call \in Calls
  /\ l \in Nodes \cup {NULL} /\ l1 \in Nodes \cup {NULL}
  /\ wanted \in SUBSET Elements
  /\ passed \in Seq(Elements)
  /\ result \in Seq(Elements)
  /\ nodes \in Seq(Nodes)
  /\ lost \in SUBSET Nodes

(***************************************************************************)
(* The pointers spell the list: head is its first and tail its last node,  *)
(* both NULL when it is empty; each node points to the next one and the    *)
(* last to none; no node is there twice.  All of remove_element's cases    *)
(* have to agree on it.                                                    *)
(***************************************************************************)
Ends ==
  IF nodes = << >> THEN head = NULL /\ tail = NULL
  ELSE head = nodes[1] /\ tail = nodes[Len(nodes)]

Chain ==
  \A i \in 1 .. Len(nodes) :
    next[nodes[i]] = IF i = Len(nodes) THEN NULL ELSE nodes[i + 1]

Distinct ==
  \A i, j \in 1 .. Len(nodes) : nodes[i] = nodes[j] => i = j

ListHolds == call # "deleted" => Ends /\ Chain /\ Distinct

(***************************************************************************)
(* The nodes that are allocated are those of the list and those that       *)
(* empty_pool has forgotten, one for each time it was called on a list     *)
(* with elements; no pointer of the list leads to a node that was freed.   *)
(***************************************************************************)
InList == {nodes[i] : i \in 1 .. Len(nodes)}

Accounted == live = InList \cup lost /\ InList \cap lost = {}

(***************************************************************************)
(* A pool is a List, and every call answers as List says: a deletion       *)
(* removes, and a search finds, the first element the compare function     *)
(* accepts, and exec is called once for each element, in order.            *)
(***************************************************************************)
Contents == [i \in 1 .. Len(nodes) |-> args[nodes[i]]]

Sequence == INSTANCE List WITH contents <- Contents, answer <- result

ImplementsList == Sequence!Spec

(***************************************************************************)
(* What ListHolds and the answers rest on: the nodes carry elements, and a *)
(* loop is at a node of the list, l1 at the one before, with what it has   *)
(* passed behind it.                                                       *)
(***************************************************************************)
Filled == \A i \in 1 .. Len(nodes) : args[nodes[i]] \in Elements

At(p) ==
  /\ l = IF p = Len(nodes) + 1 THEN NULL ELSE nodes[p]
  /\ l1 = IF p = 1 THEN NULL ELSE nodes[p - 1]
  /\ IF call = "exec_on_elem"
     THEN passed = [i \in 1 .. p - 1 |-> args[nodes[i]]]
     ELSE \A i \in 1 .. p - 1 : args[nodes[i]] \notin wanted

Walking ==
  call \in {"delete_element", "search", "exec_on_elem"} =>
    \E p \in 1 .. Len(nodes) + 1 : At(p)

IInv == TypeOK /\ ListHolds /\ Accounted /\ Filled /\ Walking

(***************************************************************************)
(* Every call returns: the loops reach the end of the list.                *)
(***************************************************************************)
CallReturns == call # "none" ~> call \in {"none", "deleted", "crashed"}

=============================================================================
