----------------------------- MODULE QueueLife -----------------------------
(***************************************************************************)
(* The whole life of a queue: its use by pushers and poppers (WorkQueue),  *)
(* and then queue_destroy, which walks the list, frees every element       *)
(* behind the dummy with its datum, and at last the dummy.  It may be      *)
(* called only once nobody uses the queue.                                 *)
(***************************************************************************)
EXTENDS WorkQueue

VARIABLES
  phase,       \* is the queue in use, being destroyed, or gone?
  node,        \* el, the local of queue_destroy
  freedNodes,  \* the elements freed so far, in order
  freedData    \* the elements whose datum has been freed, in order

destroyVars == <<phase, node, freedNodes, freedData>>
lifeVars    == <<vars, destroyVars>>

LifeInit ==
  /\ Init
  /\ phase = "used"
  /\ node = NULL
  /\ freedNodes = << >>
  /\ freedData = << >>

Unused ==
  /\ \A p \in Pushers : pushPc[p] = "idle"
  /\ \A c \in Poppers : popPc[c] = "idle"

\* queue_destroy is called and sets el to first.
DestroyFrom(first) ==
  /\ phase = "used"
  /\ Unused
  /\ node' = first
  /\ phase' = "destroyed"
  /\ UNCHANGED <<vars, freedNodes, freedData>>

\* Faulty variant: the dummy, whose datum was handed out, is not left out.
DestroyWithDummy == DestroyFrom(head)

Destroy == DestroyFrom(next[head])

\* n = el->next; free(el->data); free(el); el = n
FreeElement ==
  /\ phase = "destroyed"
  /\ node # NULL
  /\ freedData' = Append(freedData, node)
  /\ freedNodes' = Append(freedNodes, node)
  /\ node' = next[node]
  /\ UNCHANGED <<vars, phase>>

\* free((*queue)->head), free(*queue)
FreeQueue ==
  /\ phase = "destroyed"
  /\ node = NULL
  /\ freedNodes' = Append(freedNodes, head)
  /\ phase' = "gone"
  /\ UNCHANGED <<vars, node, freedData>>

LifeNext ==
  \/ phase = "used" /\ Next /\ UNCHANGED destroyVars
  \/ Destroy \/ FreeElement \/ FreeQueue

\* The caller of queue_destroy stays in it until it returns.
LifeFairness ==
  /\ \A p \in Pushers :
       WF_lifeVars(phase = "used" /\ Push(p) /\ UNCHANGED destroyVars)
  /\ \A c \in Poppers :
       WF_lifeVars(phase = "used" /\ Pop(c) /\ UNCHANGED destroyVars)
  /\ WF_lifeVars(FreeElement \/ FreeQueue)

LifeSpec == LifeInit /\ [][LifeNext]_lifeVars /\ LifeFairness

-----------------------------------------------------------------------------
\* The elements of s are these values, each once.
Once(s, values) ==
  /\ {s[j] : j \in DOMAIN s} = values
  /\ \A j, l \in DOMAIN s : s[j] = s[l] => j = l

(***************************************************************************)
(* queue_destroy frees every element that is still in the queue and its    *)
(* datum once, the dummy once, and no datum that queue_pop has handed out: *)
(* the dummy is an element that was popped, and its datum is the caller's. *)
(* A datum is taken for the element it was pushed with: nothing is said of *)
(* one that is pushed twice.                                               *)
(***************************************************************************)
DestroysRest ==
  phase = "gone" =>
    /\ Once(freedNodes, {Walk[j] : j \in DOMAIN Walk})
    /\ Once(freedData, {queued[j] : j \in DOMAIN queued})

(***************************************************************************)
(* The inductive invariant behind it: the chain meets no element twice,    *)
(* and queue_destroy has freed the first elements of queued, in order, and *)
(* stands at the next one.                                                 *)
(***************************************************************************)
ChainOnce ==
  \A j, l \in 1 .. Len(queued) + 1 : Walk[j] = Walk[l] => j = l

DestroyHolds ==
  /\ phase = "used" => freedNodes = << >> /\ freedData = << >>
  /\ freedData \in Seq(Nodes)
  /\ Len(freedData) <= Len(queued)
  /\ \A j \in 1 .. Len(freedData) : freedData[j] = queued[j]
  /\ phase = "destroyed" => /\ freedNodes = freedData
                            /\ node = next[Walk[Len(freedData) + 1]]
  /\ phase = "gone" => /\ Len(freedData) = Len(queued)
                       /\ freedNodes = Append(freedData, head)

LifeInv == IInv /\ ChainOnce /\ DestroyHolds

=============================================================================
