----------------------------- MODULE Execution ------------------------------
(***************************************************************************)
(* What a run of the engine shows of its steps: the legs of each job and   *)
(* the steps in them, the collector's step records (Fire and Apply of      *)
(* internal/engine/logging.go), and how Execute puts them on the model,    *)
(* adds the planned steps that never ran and rewrites those of jobs it     *)
(* reports cancelled (reconcilePlannedSteps and markCancelled of           *)
(* internal/engine/engine.go).                                             *)
(*                                                                         *)
(* Every action is one of Engine with what it does to steps, or one inside *)
(* a job that Engine does not see.  A step is its name, which is how the   *)
(* collector keeps it: the legs of a matrix job share their records.       *)
(***************************************************************************)
EXTENDS Engine

CONSTANTS Step,        \* the names of steps
          Script,      \* Script[n]: what each leg of n does, in order
          Legs,        \* Legs[n]: the number of matrix combinations
          MaxParallel, \* MaxParallel[n]: as act reads it, 0 if there is none
          Planned      \* Planned[n]: the steps of n in its workflow file whose
                       \* names hold no expression

(* jobWeight: the breadth of the matrix within the declared max-parallel   *)
(* and the pool.                                                           *)
JobWeight(n) ==
    IF n \in Uses \/ Legs[n] = 1 THEN 1
    ELSE CHOOSE w \in {Legs[n], Capacity, MaxParallel[n]} \ {0} :
            \A v \in {Legs[n], Capacity, MaxParallel[n]} \ {0} : w <= v

ASSUME ExecutionAssumption ==
    /\ \A n \in Node : Script[n] \in Seq(Step)
    /\ Legs \in [Node -> Nat \ {0}]
    /\ MaxParallel \in [Node -> Nat]
    /\ Weight = [n \in Node |-> JobWeight(n)]
    /\ Planned \in [Node -> SUBSET Step]
    /\ \A n \in Uses : Planned[n] = {}

VARIABLES at,      \* at[n][l]: how far leg l of n is; odd within a step
          begun,   \* begun[n]: the steps that n has begun
          record,  \* the collector's records: record[id][s]
          shown,   \* shown[n][s]: the step in the result, or "none"
          lost     \* the jobs whose evidence could not be written

stepVars == <<at, begun, record, shown, lost>>
executionVars == <<engineVars, stepVars>>

Leg(n) == 1 .. Legs[n]
End(n) == 2 * Len(Script[n])
NoSteps == [s \in Step |-> "none"]

ExecutionInit ==
    /\ EngineInit
    /\ at = [n \in Node |-> [l \in Leg(n) |-> 0]]
    /\ begun = [n \in Node |-> {}]
    /\ record = [n \in Node |-> NoSteps]
    /\ shown = [n \in Node |-> NoSteps]
    /\ lost = {}

----------------------------------------------------------------------------
(* Inside a job.                                                           *)

(* The legs that have a container.                                         *)
Underway(n) == {l \in Leg(n) : at[n][l] \in 1 .. End(n) - 1}

(* Mutant: the matrix is as parallel as the workflow declares.             *)
MayStartUnpinned(n, l) == at[n][l] > 0 \/ Cardinality(Underway(n)) < Legs[n]

(* singleJobPlan pins the parallelism of the matrix to the weight.         *)
MayStart(n, l) == at[n][l] > 0 \/ Cardinality(Underway(n)) < Weight[n]

Moves(n, l, by) ==
    /\ Acting(n)
    /\ at[n][l] < End(n)
    /\ MayStart(n, l)
    /\ at' = [at EXCEPT ![n][l] = @ + by]

(* The collector keeps the status of step s under id.                      *)
Keep(id, s, value) ==
    record' = IF id \in Node THEN [record EXCEPT ![id][s] = value] ELSE record

(* A line outside of any step, or in a step that is already under way.     *)
JobLogs(n) ==
    /\ StepLogs(n)
    /\ UNCHANGED stepVars

(* An error outside of any step, which fails no job.                       *)
JobErrs(n) ==
    /\ StepFails(n)
    /\ broken' = broken
    /\ UNCHANGED stepVars

(* The first line of a step; a record that another leg left stays.         *)
StepBegins(n, l) ==
    /\ at[n][l] % 2 = 0
    /\ Moves(n, l, 1)
    /\ LET s == Script[n][at[n][l] \div 2 + 1]
       IN  /\ \E id \in Attribution[n] :
                /\ LogsAs(n, id)
                /\ Keep(id, s, IF id \in Node /\ record[id][s] # "none" THEN record[id][s] ELSE "running")
           /\ begun' = [begun EXCEPT ![n] = @ \cup {s}]
    /\ UNCHANGED <<shown, lost>>

(* The last line of a step, with its result.                               *)
StepEnds(n, l) ==
    /\ at[n][l] % 2 = 1
    /\ Moves(n, l, 1)
    /\ LET s == Script[n][at[n][l] \div 2 + 1]
       IN  \E id \in Attribution[n] :
             \/ LogsAs(n, id) /\ Keep(id, s, "pass")
             \/ FailsAs(n, id) /\ Keep(id, s, "fail")
    /\ UNCHANGED <<begun, shown, lost>>

(* A step whose condition does not hold leaves no line.                    *)
StepIsSkipped(n, l) ==
    /\ at[n][l] % 2 = 0
    /\ Moves(n, l, 2)
    /\ UNCHANGED <<engineVars, begun, record, shown, lost>>

Through(n) == \A l \in Leg(n) : at[n][l] = End(n)

(* act is done with n: with success when all legs are through, as skipped  *)
(* when nothing was begun, with no result of its own accord in either      *)
(* case.  A failure breaks off at any point; an error or the cancellation  *)
(* does too, but one leg that is through is enough for a success.          *)
JobEnds(n) ==
    /\ ActEnds(n)
    /\ result'[n] = "success" => \E l \in Leg(n) : at[n][l] = End(n)
    /\ result'[n] = "success" /\ error'[n] = "none" /\ ~ctxDone => Through(n)
    /\ result'[n] = "skipped" => begun[n] = {}
    /\ result'[n] = "none" /\ error'[n] = "none" /\ ~ctxDone => Through(n) \/ begun[n] = {}
    /\ UNCHANGED stepVars

----------------------------------------------------------------------------
(* The end of Execute.                                                     *)

(* Apply stops at the first log that cannot be written, with the jobs in   *)
(* the order of the plan.                                                  *)
Unwritten == {{}} \cup {{n \in Node : first <= n} : first \in seen}

Collected(n, missing) == IF n \in missing THEN NoSteps ELSE record[n]

(* Mutant: only the steps that passed are known.                           *)
ReconciledUnlessPassed(n, steps) ==
    [s \in Step |->
        IF steps[s] # "pass" /\ s \in Planned[n] /\ n \in seen THEN "skip" ELSE steps[s]]

(* reconcilePlannedSteps, for a job that the collector has seen.           *)
Reconciled(n, steps) ==
    [s \in Step |->
        IF steps[s] = "none" /\ s \in Planned[n] /\ n \in seen THEN "skip" ELSE steps[s]]

(* Mutant: only a step that failed is rewritten.                           *)
MarkedFailed(n, steps) ==
    [s \in Step |->
        IF OutcomeStatus(n) = "cancelled" /\ steps[s] = "fail" THEN "cancelled" ELSE steps[s]]

(* markCancelled, of a job that was dispatched.                            *)
Marked(n, steps) ==
    [s \in Step |->
        IF results[n].dispatched /\ OutcomeStatus(n) = "cancelled" /\ steps[s] \in {"fail", "running"}
        THEN "cancelled" ELSE steps[s]]

(* "Evidence first": what the collectors have, then what was planned, then *)
(* the outcomes.                                                           *)
Apply ==
    /\ ApplyOutcomes
    /\ lost' \in Unwritten
    /\ lost' # {} => execErr' # "none"
    /\ shown' = [n \in Node |-> Marked(n, Reconciled(n, Collected(n, lost')))]
    /\ UNCHANGED <<at, begun, record>>

(* What the engine does outside of jobs touches no step.                   *)
Elsewhere ==
    /\ \/ \E cause \in {"validation", "engine"} : StartFails(cause)
       \/ StartQueue
       \/ LaunchJob
       \/ QueueStep
       \/ \E n \in Node : NodeReturns(n)
       \/ CancelExec
       \/ Interrupt
       \/ WatchdogWakes
       \/ ForceCleanup
       \/ WatchdogStops
       \/ Finish
       \/ Finished
    /\ UNCHANGED stepVars

InJob(n) ==
    \/ JobLogs(n) \/ JobErrs(n) \/ JobEnds(n)
    \/ \E l \in Leg(n) : StepBegins(n, l) \/ StepEnds(n, l) \/ StepIsSkipped(n, l)

ExecutionNext ==
    \/ \E n \in Node : InJob(n)
    \/ Apply
    \/ Elsewhere

ExecutionSpec == ExecutionInit /\ [][ExecutionNext]_executionVars

----------------------------------------------------------------------------

ExecutionTypeOK ==
    /\ \A n \in Node : at[n] \in [Leg(n) -> 0 .. End(n)]
    /\ begun \in [Node -> SUBSET Step]
    /\ record \in [Node -> [Step -> {"none", "running", "pass", "fail"}]]
    /\ shown \in [Node -> [Step -> {"none", "running", "pass", "fail", "skip", "cancelled"}]]
    /\ lost \in SUBSET Node

(* "Steps of torn-down jobs must not read as failures": a job reported     *)
(* cancelled shows no step that failed or still runs, whatever the order   *)
(* in which its lines, the cancellation and its end came.                  *)
TornStepsCancelled ==
    Applied => \A n \in Node : \A s \in Step :
        status[n] = "cancelled" => shown[n][s] \notin {"fail", "running"}

(* What is shown of the steps of a job is what happened to them, when its  *)
(* log could be written: every planned step is there, it reads skipped if  *)
(* and only if no leg has begun it, and a job that a step of its only leg  *)
(* made fail shows a failed step.                                          *)
StepsTold ==
    Applied => \A n \in seen \ lost :
        /\ \A s \in Planned[n] : /\ shown[n][s] # "none"
                                 /\ shown[n][s] = "skip" <=> s \notin begun[n]
        /\ n \in broken /\ Legs[n] = 1 /\ status[n] = "fail" =>
              \E s \in Step : shown[n][s] = "fail"

(* The legs of n that have a container; a caller of a reusable workflow    *)
(* counts as one.                                                          *)
Occupied(n) ==
    IF worker[n] # "executing" THEN {}
    ELSE IF n \in Uses THEN {1} ELSE Underway(n)

Containers == {c \in Node \X UNION {Leg(n) : n \in Node} : c[2] \in Occupied(c[1])}

(* "Jobs across all workflows compete for the same weighted slots": the    *)
(* legs under way of all jobs fit the pool, and those of one job stay      *)
(* within its declared max-parallel.                                       *)
WithinSlots ==
    /\ Cardinality(Containers) <= Capacity
    /\ \A n \in Node : MaxParallel[n] > 0 => Cardinality(Underway(n)) <= MaxParallel[n]
=============================================================================
