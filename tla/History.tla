------------------------------ MODULE History -------------------------------
(***************************************************************************)
(* What stats.json says of each job, and the rank it gives the job in the  *)
(* queue (internal/history/history.go): the smoothed probability of a      *)
(* failure divided by the time until it is seen.                           *)
(*                                                                         *)
(* Ranks are floating-point numbers in the code and exact fractions here;  *)
(* both sides of a comparison are multiplied out.                          *)
(***************************************************************************)
EXTENDS Integers, Sequences, FiniteSets, Functions

CONSTANTS Job,
          Heuristic,    \* Heuristic[j]: the rank by the name of j
          Durations,    \* the durations of jobs that occur, in ms
          MaxDurations, \* the length of a list of durations
          MaxRuns       \* bound: the runs counted per job

ASSUME HistoryAssumption ==
    /\ Heuristic \in [Job -> 0..100]
    /\ Durations \subseteq Nat
    /\ MaxDurations \in Nat \ {0}
    /\ MaxRuns \in Nat

VARIABLE record  \* record[j]: the JobStats of j

NoRecord == [runs |-> 0, failures |-> 0, pass |-> <<>>, fail |-> <<>>, last |-> "none"]

HistoryInit == record = [j \in Job |-> NoRecord]

(* Mutant: the list may grow by one more.                                  *)
AppendUntrimmed(values, ms) ==
    IF ms = 0 THEN values
    ELSE IF Len(values) <= MaxDurations THEN Append(values, ms)
    ELSE Append(Tail(values), ms)

(* A duration of zero is unknown; the oldest one makes room.               *)
AppendDuration(values, ms) ==
    IF ms = 0 THEN values
    ELSE IF Len(values) < MaxDurations THEN Append(values, ms)
    ELSE Append(Tail(values), ms)

(* Mutant: only failures count as runs.                                    *)
CountFailures(r, failed, ms) ==
    IF failed
    THEN [r EXCEPT !.runs = @ + 1, !.failures = @ + 1, !.fail = AppendDuration(@, ms), !.last = "fail"]
    ELSE [r EXCEPT !.pass = AppendDuration(@, ms), !.last = "pass"]

Count(r, failed, ms) ==
    IF failed
    THEN [r EXCEPT !.runs = @ + 1, !.failures = @ + 1, !.fail = AppendDuration(@, ms), !.last = "fail"]
    ELSE [r EXCEPT !.runs = @ + 1, !.pass = AppendDuration(@, ms), !.last = "pass"]

(* A job of a result that passed or failed, one round of the loop in       *)
(* UpdateWithKeys; the legs of an imported matrix count one by one.        *)
Learn(j, failed, ms) ==
    /\ record[j].runs < MaxRuns
    /\ record' = [record EXCEPT ![j] = Count(@, failed, ms)]

HistoryNext == \E j \in Job, failed \in BOOLEAN, ms \in Durations : Learn(j, failed, ms)

HistorySpec == HistoryInit /\ [][HistoryNext]_record

----------------------------------------------------------------------------
(* The rank.                                                               *)

(* The upper median: the value at Len \div 2 + 1 of the sorted list; 0 of  *)
(* an empty one.                                                           *)
Median(values) ==
    LET middle == {v \in Range(values) :
                     /\ Cardinality({i \in DOMAIN values : values[i] < v}) <= Len(values) \div 2
                     /\ Cardinality({i \in DOMAIN values : values[i] <= v}) > Len(values) \div 2}
    IN  IF middle = {} THEN 0 ELSE CHOOSE v \in middle : TRUE

AtLeast(ms, low) == IF ms < low THEN low ELSE ms

DetectionMS(r) ==
    IF Median(r.fail) > 0 THEN AtLeast(Median(r.fail), 1000)
    ELSE IF Median(r.pass) > 0 THEN AtLeast(Median(r.pass), 1000) ELSE 60000

(* Mutants: the name weighs three times as much; a recent failure is not   *)
(* boosted.                                                                *)
SmoothedByName(r, heuristic) == 200 * r.failures + 3 * (40 + heuristic)

BoostNever(r) == 1

(* 200 times failures + prior * priorWeight, where the weight is 2 and the *)
(* prior 0.10 + 0.25 * heuristic / 100.                                    *)
Smoothed(r, heuristic) == 200 * r.failures + 40 + heuristic

Boost(r) == IF r.last = "fail" THEN 3 ELSE 1

(* The rank is Yield / Effort, up to a constant factor.                    *)
Yield(j) == Boost(record[j]) * Smoothed(record[j], Heuristic[j])

Effort(j) == (record[j].runs + 2) * DetectionMS(record[j])

(* j is dispatched before k.                                               *)
Ahead(j, k) == Yield(j) * Effort(k) > Yield(k) * Effort(j)

----------------------------------------------------------------------------

JobStats ==
    [runs : Nat, failures : Nat, pass : Seq(Nat \ {0}), fail : Seq(Nat \ {0}), last : {"none", "pass", "fail"}]

HistoryTypeOK == record \in [Job -> JobStats]

(* The counters, the bounded lists and the last status of a job agree,     *)
(* after any sequence of updates.                                          *)
RecordsAgree ==
    \A j \in Job :
        LET r == record[j] IN
        /\ r.failures <= r.runs
        /\ Len(r.fail) <= MaxDurations /\ Len(r.fail) <= r.failures
        /\ Len(r.pass) <= MaxDurations /\ Len(r.pass) <= r.runs - r.failures
        /\ r.last = "none" <=> r.runs = 0
        /\ r.last = "fail" => r.failures > 0
        /\ r.last = "pass" => r.failures < r.runs

(* "recorded runs take over smoothly" (Rank): between jobs that ran as     *)
(* often, are observed as fast and ended alike, one failure more decides,  *)
(* whatever the names; without one the name does.                          *)
EvidenceBeforeNames ==
    \A j, k \in Job :
        /\ record[j].runs = record[k].runs
        /\ DetectionMS(record[j]) = DetectionMS(record[k])
        /\ Boost(record[j]) = Boost(record[k])
        => /\ record[j].failures > record[k].failures => Ahead(j, k)
           /\ record[j].failures = record[k].failures => (Ahead(j, k) <=> Heuristic[j] > Heuristic[k])

(* "with the job that failed last run probed first": a job whose last      *)
(* outcome is a failure is ahead of every job whose last outcome is not.   *)
(* The code only triples its rank, and this does not hold.                 *)
FailedLastFirst ==
    \A j, k \in Job : record[j].last = "fail" /\ record[k].last # "fail" => Ahead(j, k)

(* What holds of it: a job that failed last is ahead of those that did not *)
(* as long as these have not failed more often nor run less often, and its *)
(* failure takes at most twice as long to see, or five times as long where *)
(* the other has never failed.                                             *)
FailedLastLeads ==
    \A j, k \in Job :
        /\ record[j].last = "fail" /\ record[k].last # "fail"
        /\ record[k].failures <= record[j].failures
        /\ record[j].runs <= record[k].runs
        /\ DetectionMS(record[j]) <= (IF record[k].failures = 0 THEN 5 ELSE 2) * DetectionMS(record[k])
        => Ahead(j, k)

(* Where the time to detection stays, a failure raises the rank of its job *)
(* and a pass lowers it, also right after a failure or a pass.             *)
EvidenceMovesRank ==
    [][\A j \in Job :
         /\ record'[j].runs # record[j].runs \/ record'[j].last # record[j].last
         /\ DetectionMS(record'[j]) = DetectionMS(record[j])
         => IF record'[j].last = "fail"
            THEN Yield(j)' * Effort(j) > Yield(j) * Effort(j)'
            ELSE Yield(j)' * Effort(j) < Yield(j) * Effort(j)']_record
=============================================================================
