----------------------------- MODULE ForkJoin ------------------------------
(***************************************************************************)
(* What the runtime promises an application: tasks are submitted to a      *)
(* group; waiting for the group forks it, which settles for every task     *)
(* whether its exact or its approximate function is due, the tasks run     *)
(* once each in any order, and the wait is over, the group joined, when    *)
(* all have run.                                                           *)
(*                                                                         *)
(* A task of the highest level is exact, one of the lowest approximate.    *)
(* Of the others, share[g] are exact, the higher levels first: the number  *)
(* that the ratio asks for, or one more.                                   *)
(***************************************************************************)
EXTENDS Integers, FiniteSets

CONSTANTS Tasks, Groups, Versions, Lowest, Highest, Unit, Ratios

VARIABLES
  members,   \* members[g]: the tasks submitted to g
  level,     \* the significance a task was submitted with
  offers,    \* the functions it came with
  phase,     \* of a group: "open", "forked" or "joined"
  share,     \* while forked: how many tasks of middling level are exact
  mode,      \* of a task: "open", "exact" or "approx"
  ran        \* the functions that a task has executed

vars == <<members, level, offers, phase, share, mode, ran>>

Init ==
  /\ members = [g \in Groups |-> {}]
  /\ level = [t \in Tasks |-> Lowest]
  /\ offers = [t \in Tasks |-> {}]
  /\ phase = [g \in Groups |-> "open"]
  /\ share = [g \in Groups |-> 0]
  /\ mode = [t \in Tasks |-> "open"]
  /\ ran = [t \in Tasks |-> << >>]

Submit(t, g) ==
  /\ phase[g] # "forked"
  /\ \A h \in Groups : t \notin members[h]
  /\ members' = [members EXCEPT ![g] = @ \cup {t}]
  /\ \E s \in Lowest .. Highest : level' = [level EXCEPT ![t] = s]
  /\ \E v \in SUBSET Versions : offers' = [offers EXCEPT ![t] = v]
  /\ UNCHANGED <<phase, share, mode, ran>>

Fork(g) ==
  /\ phase[g] = "open"
  /\ phase' = [phase EXCEPT ![g] = "forked"]
  /\ \E r \in Ratios, more \in {0, 1} :
        share' = [share EXCEPT ![g] =
                    (Cardinality(members[g]) * r) \div Unit + more]
  /\ UNCHANGED <<members, level, offers, mode, ran>>

Middling(g) == {t \in members[g] : level[t] \in Lowest + 1 .. Highest - 1}
Promoted(g) == {t \in Middling(g) : mode[t] = "exact"}

Due(t, g) ==
  IF level[t] = Highest \/ /\ level[t] # Lowest
                           /\ Cardinality(Promoted(g)) < share[g]
  THEN "exact" ELSE "approx"

Settle(t, g) ==
  /\ phase[g] = "forked"
  /\ t \in members[g]
  /\ mode[t] = "open"
  /\ \A u \in members[g] : mode[u] = "open" => level[u] <= level[t]
  /\ mode' = [mode EXCEPT ![t] = Due(t, g)]
  /\ UNCHANGED <<members, level, offers, phase, share, ran>>

\* A task runs once, and not at all without the function that is due.
Execute(t, g) ==
  /\ phase[g] = "forked"
  /\ t \in members[g]
  /\ mode[t] \in offers[t]
  /\ ran[t] = << >>
  /\ ran' = [ran EXCEPT ![t] = <<mode[t]>>]
  /\ UNCHANGED <<members, level, offers, phase, share, mode>>

Join(g) ==
  /\ phase[g] = "forked"
  /\ \A t \in members[g] : /\ mode[t] # "open"
                           /\ mode[t] \in offers[t] => ran[t] # << >>
  /\ phase' = [phase EXCEPT ![g] = "joined"]
  /\ share' = [share EXCEPT ![g] = 0]
  /\ UNCHANGED <<members, level, offers, mode, ran>>

Next == \E g \in Groups :
  \/ \E t \in Tasks : Submit(t, g) \/ Settle(t, g) \/ Execute(t, g)
  \/ Fork(g) \/ Join(g)

Spec == Init /\ [][Next]_vars

=============================================================================
