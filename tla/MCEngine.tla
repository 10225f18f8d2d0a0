------------------------------ MODULE MCEngine ------------------------------
(***************************************************************************)
(* Three jobs on two slots; job 3 needs job 1.                             *)
(***************************************************************************)
EXTENDS Engine

MCWeight == <<1, 1, 2>>
MCRank == <<1, 2, 3>>
MCNeeds == <<{}, {}, {1}>>

(* Jobs 1 and 2 call reusable workflows.  Their child jobs have ids of     *)
(* their own, or they share one, so that reusableJobAliases drops the      *)
(* alias and there is no fallback.                                         *)
MCTopLevel == 1 .. 3
MCUses == {1, 2}
MCLogIds == <<{4}, {5}, {3}>>
MCSharedLogIds == <<{4}, {4}, {3}>>
MCChildren == <<{4}, {5, 6}, {}>>
MCSharedChildren == <<{4}, {4}, {}>>
=============================================================================
