----------------------------- MODULE GitHubRun ------------------------------
(***************************************************************************)
(* How imported GitHub runs train the statistics of local jobs:            *)
(* importGitHub (internal/cli/cli.go) takes the jobs of a remote run       *)
(* (Import of internal/githubrun/githubrun.go), finds their local keys in  *)
(* the index of RemoteStatsKeys (internal/workflow/workflow.go) by their   *)
(* RemoteKey (internal/history/history.go), and counts them by             *)
(* UpdateWithKeys.                                                         *)
(*                                                                         *)
(* A name here is the RemoteKey of a workflow's and a job's displayed      *)
(* names: case does not matter, and what follows " (" in the job's name is *)
(* cut off, so that the legs of a matrix share a name.  Processes take     *)
(* turns; the module Records is about those that do not.                   *)
(***************************************************************************)
EXTENDS History

CONSTANTS Name,     \* the names
          Variants, \* Variants[j]: the names that RemoteStatsKeys makes of j
          Shown,    \* Shown[j]: the names under which GitHub shows legs of j
          FileOf,   \* FileOf[j]: the place of j's workflow in the directory
          Reports   \* what GitHub says of a job that occurs

Report == [conclusion : {"success", "failure", "timed_out", "startup_failure", "cancelled",
                         "skipped", "neutral", "action_required", "stale", ""},
           current : {"queued", "in_progress", "completed"}]

ASSUME GitHubAssumption ==
    /\ Variants \in [Job -> SUBSET Name]
    /\ Shown \in [Job -> SUBSET Name]
    /\ FileOf \in [Job -> Nat]
    /\ Reports \subseteq Report

VARIABLES index, \* the index of the import that is going on, or NoIndex
          ran    \* ran[j]: how often j ran to an outcome (history variable)

gitHubVars == <<record, index, ran>>

NoIndex == <<>>

(* What RemoteStatsKeys may return.  A workflow overwrites the names of    *)
(* those before it; the jobs of one workflow come in any order.            *)
Indexes ==
    {f \in [UNION Range(Variants) -> Job] :
        \A name \in DOMAIN f :
            /\ name \in Variants[f[name]]
            /\ \A j \in Job : name \in Variants[j] => FileOf[j] <= FileOf[f[name]]}

(* Mutant: a job that timed out is not a failure.                          *)
StatusStrict(report) ==
    LET value == IF report.conclusion = "" THEN report.current ELSE report.conclusion
    IN  IF value = "success" THEN "pass" ELSE IF value = "failure" THEN "fail" ELSE "error"

Status(report) ==
    LET value == IF report.conclusion = "" THEN report.current ELSE report.conclusion
    IN  IF value = "success" THEN "pass"
        ELSE IF value \in {"failure", "timed_out", "startup_failure"} THEN "fail"
        ELSE IF value = "cancelled" THEN "cancelled"
        ELSE IF value \in {"skipped", "neutral"} THEN "skip"
        ELSE IF value \in {"in_progress", "queued"} THEN "running" ELSE "error"

GitHubInit ==
    /\ HistoryInit
    /\ index = NoIndex
    /\ ran = [j \in Job |-> 0]

(* A job of a local run is counted under its own key.                      *)
CountLocal(j, failed, ms) ==
    /\ index = NoIndex
    /\ Learn(j, failed, ms)
    /\ ran' = [ran EXCEPT ![j] = @ + 1]
    /\ UNCHANGED index

BeginImport ==
    /\ index = NoIndex
    /\ index' \in Indexes
    /\ UNCHANGED <<record, ran>>

Concluded(report) == report.conclusion \in {"success", "failure", "timed_out", "startup_failure"}

(* A leg of j, shown under a name; one whose name is unknown is passed     *)
(* over, and so is one without evidence.                                   *)
CountRemote(j, name, report, ms) ==
    /\ index # NoIndex
    /\ IF Status(report) \in {"pass", "fail"} /\ name \in DOMAIN index
       THEN Learn(index[name], Status(report) = "fail", ms)
       ELSE UNCHANGED record
    /\ ran' = IF Concluded(report) THEN [ran EXCEPT ![j] = @ + 1] ELSE ran
    /\ UNCHANGED index

EndImport ==
    /\ index # NoIndex
    /\ index' = NoIndex
    /\ UNCHANGED <<record, ran>>

GitHubNext ==
    \/ \E j \in Job, failed \in BOOLEAN, ms \in Durations : CountLocal(j, failed, ms)
    \/ BeginImport
    \/ \E j \in Job, report \in Reports, ms \in Durations :
          \E name \in Shown[j] : CountRemote(j, name, report, ms)
    \/ EndImport

GitHubSpec == GitHubInit /\ [][GitHubNext]_gitHubVars

----------------------------------------------------------------------------

(* GitHub shows j under names that RemoteStatsKeys makes of j only, and    *)
(* shows no other job under a name that it makes of j.                     *)
Recognisable(j) ==
    /\ Shown[j] \subseteq Variants[j]
    /\ \A k \in Job \ {j} : Shown[j] \cap Variants[k] = {} /\ Shown[k] \cap Variants[j] = {}

(* "Imported `greenrun github` runs update the same statistics": every leg *)
(* of a recognisable job that ran to an outcome is counted exactly once,   *)
(* for this job, and nothing else is counted for it.                       *)
EvidenceIsCounted == \A j \in Job : Recognisable(j) => record[j].runs = ran[j]
=============================================================================
