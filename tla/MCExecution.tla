---------------------------- MODULE MCExecution -----------------------------
(***************************************************************************)
(* Two jobs on two slots: a matrix of two legs that its workflow lets run  *)
(* one at a time, one of whose two steps has a name that the plan does not *)
(* know, and a caller of a reusable workflow whose one step may fail       *)
(* without failing it.  The user may interrupt, and jobs that are torn     *)
(* down may return an error.                                               *)
(***************************************************************************)
EXTENDS Execution

MCRank == <<2, 1>>
MCNeeds == <<{}, {}>>
MCTopLevel == 1 .. 2
MCUses == {2}
MCChildren == <<{}, {3}>>
MCLogIds == <<{1}, {3}>>
MCStep == {"build", "test"}
MCScript == <<<<"build", "test">>, <<"test">>>>
MCLegs == <<2, 1>>
MCMaxParallel == <<1, 0>>
MCPlanned == <<{"build"}, {}>>
MCWeight == [n \in Node |-> JobWeight(n)]
=============================================================================
