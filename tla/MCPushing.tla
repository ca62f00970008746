----------------------------- MODULE MCPushing -----------------------------
(***************************************************************************)
(* Small instances of Pushing.                                             *)
(***************************************************************************)
EXTENDS Pushing

CONSTANTS a, b, t1, t2, t3, g1, g2, x, y

MCApps == {a, b}
MCOneOwner == {a}
MCTasks == {t1, t2, t3}
MCTwoTasks == {t1, t2}
MCGroups == {g1, g2}
MCNames == {x, y}
MCOneName == {x}
MCLevels == {0, 50}
MCOneLevel == {0}

=============================================================================
