-------------------------- MODULE MCSkillCreation --------------------------
(***************************************************************************)
(* Instances of SkillCreation for TLC.                                     *)
(***************************************************************************)
EXTENDS SkillCreation, TLC

CONSTANTS p1, p2, p3

\* p1 and p2 ask for one name, p3 for another one.
TwoNames == p1 :> 1 @@ p2 :> 1 @@ p3 :> 2
\* Every command asks for a name of its own.
DistinctNames == p1 :> 1 @@ p2 :> 2
\* p1 and p2 ask for one new name at the same time.
SameName == p1 :> 1 @@ p2 :> 1

\* The commands for a name of TwoNames differ in nothing.
Interchangeable == Permutations({p1, p2})
=============================================================================
