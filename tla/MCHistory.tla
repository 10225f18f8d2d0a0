----------------------------- MODULE MCHistory ------------------------------
(***************************************************************************)
(* Two jobs at the ends of the name heuristic (lint 100, deploy 10), with  *)
(* an unknown duration, one below the floor of a second, and two others    *)
(* more than five times apart.  Lists of two durations are trimmed from    *)
(* the third run on.  GitHub shows lint by its id and deploy, of a later   *)
(* file, by its name; neither is mistaken for the other, although the name *)
(* "ci" is made of both.                                                   *)
(***************************************************************************)
EXTENDS GitHubRun

MCJob == {"lint", "deploy"}
MCHeuristic == [lint |-> 100, deploy |-> 10]
MCDurations == {0, 500, 4000, 22000}
MCName == {"lint", "deploy", "release", "ci"}
MCVariants == [lint |-> {"lint", "ci"}, deploy |-> {"deploy", "release", "ci"}]
MCShown == [lint |-> {"lint"}, deploy |-> {"release"}]
MCFileOf == [lint |-> 1, deploy |-> 2]
MCReports ==
    {[conclusion |-> "success", current |-> "completed"],
     [conclusion |-> "timed_out", current |-> "completed"],
     [conclusion |-> "skipped", current |-> "completed"],
     [conclusion |-> "", current |-> "in_progress"]}
=============================================================================
