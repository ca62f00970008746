----------------------------- MODULE MCRuntime -----------------------------
(***************************************************************************)
(* Instances of Runtime for model checking.  A significance of 100 is      *)
(* modelled by 2 or 3, which leaves one or two levels in between.  With    *)
(* significands of 3 bits 3 * 5 is rounded to 16.                          *)
(***************************************************************************)
EXTENDS RuntimeInv, TLC

CONSTANTS g1, g2

Both        == {"exact", "approx"}
ExactOnly   == {"exact"}

MCOneGroup  == {g1}
MCTwoGroups == {g1, g2}
MCMiddle    == {1}
MCAnyLevel  == 0 .. SIGNIFICANT
MCUnset     == 1 .. SIGNIFICANT
MCComplete  == {Both}
MCMayDrop   == {Both, ExactOnly}
MCDropped   == {ExactOnly}
MCAnyBody   == SUBSET Both
MCHalf      == {1}
MCRatios    == {0, 5, 8, 16}
MCNone      == {0}

Symmetry == Permutations(Groups)

=============================================================================
