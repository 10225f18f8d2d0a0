---------------------------- MODULE MCScheduler ----------------------------
(***************************************************************************)
(* Five jobs on three slots.  Job 2 is a matrix wider than the pool: while *)
(* anything runs it must be passed over, and the lower-ranked job 3 is     *)
(* dispatched past it.  Jobs 1 and 2 tie in rank.  Job 4 needs jobs 1 and  *)
(* 3, takes two slots and outranks everything once ready; job 5 needs 4.   *)
(***************************************************************************)
EXTENDS Scheduler

MCWeight == <<1, 4, 1, 2, 1>>
MCRank == <<2, 2, 1, 3, 2>>
MCNeeds == <<{}, {}, {}, {1, 3}, {4}>>
=============================================================================
