------------------------------- MODULE Engine -------------------------------
(***************************************************************************)
(* One run of Engine.Execute (internal/engine/engine.go) on top of the job *)
(* queue, and the status runLocal (internal/cli/cli.go) gives it.          *)
(*                                                                         *)
(* Added to the queue: what act does inside a job and what the log         *)
(* collector makes of it, the shared record of the first failure and the   *)
(* cancellation it triggers, the user's interrupt, the watchdog that       *)
(* removes containers five seconds after a cancellation, and the mapping   *)
(* of act's results to statuses once the queue has drained.                *)
(*                                                                         *)
(* act is outside the repository: a job may log, fail a step, hang, and    *)
(* end with any of the results that applyOutcomes distinguishes.           *)
(***************************************************************************)
EXTENDS Scheduler, Filing

CONSTANTS
    None,         \* no job
    Tolerant,     \* the jobs that may log a failed step, or an error, and
                  \* yet not fail: those with a continue-on-error step
    Interruptible,\* may the user interrupt the run?
    LeftOut       \* does the plan hold remote or blocked jobs besides these?

ASSUME EngineAssumption ==
    /\ None \notin Node /\ None # Orphan
    /\ None \notin {"pass", "partial", "fail", "cancelled", "error"}
    /\ Tolerant \in SUBSET Node
    /\ Interruptible \in BOOLEAN
    /\ LeftOut \in BOOLEAN

VARIABLES phase,       \* "start", "queue", "applied" or "finished"
          ended,       \* the jobs act is done with
          error,       \* error[n]: what act returned besides: "none",
                       \* "canceled" (context.Canceled) or "other"
          result,      \* result[n]: Result of the parsed job, as act left it
          broken,      \* the jobs with a failed step that is not tolerated
          seen,        \* the jobs the collector has seen (HasJob)
          recorded,    \* failureState: the first failure, or None
          canceller,   \* the job whose goroutine is about to call cancelExec
          interrupted, \* the user's context is done
          watchdog,    \* "armed", "timing", "fired" or "off"
          doomed,      \* the jobs act cannot keep running
          status,      \* status[n]: the status of n in the result
          execErr,     \* the error of Execute: "none", "validation", "engine"
                       \* (of a job or a service), "evidence" (of a write)
          runStatus    \* the status of the run, or None

runVars == <<phase, interrupted, watchdog, status, execErr, runStatus>>
actVars == <<ended, error, result, broken, seen, recorded, canceller, doomed>>
engineVars == <<vars, runVars, actVars>>

EngineInit ==
    /\ Init
    /\ phase = "start"
    /\ ended = {}
    /\ error = [n \in Node |-> "none"]
    /\ result = [n \in Node |-> "none"]
    /\ broken = {}
    /\ seen = {}
    /\ recorded = None
    /\ canceller = None
    /\ interrupted = FALSE
    /\ watchdog = IF FailFast THEN "armed" ELSE "off"
    /\ doomed = {}
    /\ status = [n \in Node |-> "pending"]
    /\ execErr = "none"
    /\ runStatus = None

----------------------------------------------------------------------------
(* Before the queue.                                                       *)

(* The plan was not built or does not validate, or a workflow cannot be    *)
(* read, or a service does not come up: every job stays as planned.        *)
StartFails(cause) ==
    /\ phase = "start"
    /\ phase' = "applied"
    /\ execErr' = cause
    /\ UNCHANGED <<vars, actVars, interrupted, watchdog, status, runStatus>>

StartQueue ==
    /\ phase = "start"
    /\ phase' = "queue"
    /\ UNCHANGED <<vars, actVars, interrupted, watchdog, status, execErr, runStatus>>

----------------------------------------------------------------------------
(* The dispatcher.                                                         *)

(* A job launched under a context that is already done cannot stay.        *)
LaunchJob ==
    /\ phase = "queue"
    /\ Launch
    /\ doomed' = IF ctxDone THEN doomed \cup {ready[position]} ELSE doomed
    /\ UNCHANGED <<runVars, ended, error, result, broken, seen, recorded, canceller>>

QueueStep ==
    /\ phase = "queue"
    /\ Dispatch \/ PassOver \/ EndScan \/ Return \/ \E n \in Node : Receive(n)
    /\ UNCHANGED <<runVars, actVars>>

----------------------------------------------------------------------------
(* One job: executeNode, act inside it, and the collector's hook.          *)

Acting(n) ==
    /\ worker[n] = "executing"
    /\ n \notin ended
    /\ canceller # n

(* failures.record(id): the first one wins and goes on to cancel.          *)
Record(id, n) ==
    IF recorded = None
    THEN recorded' = id /\ canceller' = IF FailFast THEN n ELSE canceller
    ELSE UNCHANGED <<recorded, canceller>>

(* act logs a line in n, which is filed under id.                          *)
LogsAs(n, id) ==
    /\ Acting(n)
    /\ seen' = seen \cup ({id} \cap Node)
    /\ UNCHANGED <<vars, runVars, ended, error, result, broken, recorded, canceller, doomed>>

StepLogs(n) == \E id \in Attribution[n] : LogsAs(n, id)

(* A step of n fails: the collector files the line under id and reports    *)
(* the failure of id, whether or not the step is tolerated.                *)
FailsAs(n, id) ==
    /\ Acting(n)
    /\ seen' = seen \cup ({id} \cap Node)
    /\ Record(id, n)
    /\ \/ broken' = broken \cup {n}
       \/ n \in Tolerant /\ UNCHANGED broken
    /\ UNCHANGED <<vars, runVars, ended, error, result, doomed>>

StepFails(n) == \E id \in Attribution[n] : FailsAs(n, id)

(* How act reports a failure: its plan makes an error of it as well.       *)
Failure == [result |-> "failure", error |-> "other"]

(* How a job ends that nothing cancels: the Result that act leaves in it,  *)
(* and the error that act returns, one whatever the other.                 *)
OwnEndings(n) ==
    IF n \in broken THEN {Failure}
    ELSE [result : {"success", "skipped", "none"}, error : {"none", "other"}]

(* How a job ends whose context is done; one with a failed step is never   *)
(* left as a success, nor as skipped.                                      *)
TeardownEndings(n) ==
    {Failure} \cup
    [result : IF n \in broken THEN {"none"} ELSE {"success", "skipped", "none"},
     error  : {"none", "canceled", "other"}]

(* act returns to executeNode.  A "failure" is recorded.                   *)
ActEnds(n) ==
    /\ Acting(n)
    /\ \E end \in IF ctxDone THEN TeardownEndings(n) ELSE OwnEndings(n) :
        /\ result' = [result EXCEPT ![n] = end.result]
        /\ error' = [error EXCEPT ![n] = end.error]
        /\ IF end.result = "failure" THEN Record(n, n) ELSE UNCHANGED <<recorded, canceller>>
    /\ ended' = ended \cup {n}
    /\ UNCHANGED <<vars, runVars, broken, seen, doomed>>

CancelExec ==
    /\ canceller # None
    /\ canceller' = None
    /\ IF ctxDone THEN UNCHANGED vars ELSE Cancel
    /\ UNCHANGED <<runVars, ended, error, result, broken, seen, recorded, doomed>>

(* The error that executeNode passes on: not that of a failure, which is   *)
(* in the result, and not context.Canceled.                                *)
Kept(n) == error[n] = "other" /\ result[n] # "failure"

(* Mutant: context.Canceled is kept as well.                               *)
NodeReturnsCanceled(n) ==
    /\ n \in ended
    /\ canceller # n
    /\ ExecReturns(n, [failed |-> result[n] = "failure",
                       err |-> error[n] # "none" /\ result[n] # "failure"])
    /\ UNCHANGED <<runVars, actVars>>

NodeReturns(n) ==
    /\ n \in ended
    /\ canceller # n
    /\ ExecReturns(n, [failed |-> result[n] = "failure", err |-> Kept(n)])
    /\ UNCHANGED <<runVars, actVars>>

----------------------------------------------------------------------------
(* The rest of the process.                                                *)

(* SIGINT or SIGTERM: both contexts are done.                              *)
Interrupt ==
    /\ Interruptible
    /\ ~interrupted
    /\ phase # "finished"
    /\ interrupted' = TRUE
    /\ IF ctxDone THEN UNCHANGED vars ELSE Cancel
    /\ UNCHANGED <<actVars, phase, watchdog, status, execErr, runStatus>>

WatchdogWakes ==
    /\ phase = "queue"
    /\ watchdog = "armed"
    /\ ctxDone
    /\ watchdog' = "timing"
    /\ UNCHANGED <<vars, actVars, phase, interrupted, status, execErr, runStatus>>

(* Mutant: the timer fires without removing anything.                      *)
CleanupForgets ==
    /\ watchdog = "timing"
    /\ watchdog' = "fired"
    /\ UNCHANGED <<vars, actVars, phase, interrupted, status, execErr, runStatus>>

(* The timer fires: forceCleanup removes the containers of the run.        *)
ForceCleanup ==
    /\ watchdog = "timing"
    /\ watchdog' = "fired"
    /\ doomed' = doomed \cup {n \in Node : worker[n] = "executing"}
    /\ UNCHANGED <<vars, phase, interrupted, status, execErr, runStatus,
                   ended, error, result, broken, seen, recorded, canceller>>

(* cleanupDone is closed.                                                  *)
WatchdogStops ==
    /\ pc = "done"
    /\ watchdog \in {"armed", "timing"}
    /\ watchdog' = "off"
    /\ UNCHANGED <<vars, actVars, phase, interrupted, status, execErr, runStatus>>

(* Mutants of the statuses: every failure fails; only the first does; the  *)
(* recorded failure is not told from a cancellation; everything that ended *)
(* without a result is cancelled.                                          *)
AlwaysFail(n) == "fail"

OnlyFirstFails(n) == IF recorded \in {n, None} THEN "fail" ELSE "cancelled"

SilentForgetsFirst(n) ==
    IF interrupted \/ (recorded # None /\ FailFast) THEN "cancelled"
    ELSE IF results[n].err THEN "error"
    ELSE IF n \in seen THEN "pass" ELSE "skip"

SilentIsCancelled(n) ==
    IF recorded = n THEN "fail" ELSE "cancelled"

(* A result "failure" is evidence unless the first failure's cancellation  *)
(* may have caused it.                                                     *)
FailureStatus(n) == IF ~FailFast \/ recorded \in {n, None} THEN "fail" ELSE "cancelled"

(* act left no result.                                                     *)
SilentStatus(n) ==
    IF recorded = n THEN "fail"
    ELSE IF interrupted \/ (recorded # None /\ FailFast) THEN "cancelled"
    ELSE IF results[n].err THEN "error"
    ELSE IF n \in seen THEN "pass" ELSE "skip"

OutcomeStatus(n) ==
    IF ~results[n].dispatched
    THEN "cancelled"
    ELSE CASE result[n] = "failure" -> FailureStatus(n)
           [] result[n] = "success" -> "pass"
           [] result[n] = "skipped" -> "skip"
           [] result[n] = "none"    -> SilentStatus(n)

(* applyOutcomes, after the collectors wrote the evidence; a write that    *)
(* failed is the error of Execute when no job has one.                     *)
ApplyOutcomes ==
    /\ phase = "queue"
    /\ pc = "done"
    /\ phase' = "applied"
    /\ status' = [n \in Node |-> OutcomeStatus(n)]
    /\ execErr' \in IF \E n \in Node : results[n].err THEN {"engine"} ELSE {"none", "evidence"}
    /\ UNCHANGED <<vars, actVars, interrupted, watchdog, runStatus>>

(* Mutant: a failed job goes before the interrupt.                         *)
FailBeforeInterrupt ==
    IF \E n \in Node : status[n] = "fail" THEN "fail"
    ELSE IF interrupted THEN "cancelled"
    ELSE IF execErr = "validation" THEN "fail"
    ELSE IF execErr # "none" THEN "error"
    ELSE IF LeftOut THEN "partial" ELSE "pass"

ResultStatus ==
    IF interrupted THEN "cancelled"
    ELSE IF execErr = "validation" THEN "fail"
    ELSE IF execErr # "none" THEN "error"
    ELSE IF \E n \in Node : status[n] = "fail" THEN "fail"
    ELSE IF LeftOut THEN "partial" ELSE "pass"

(* runLocal reads its context again and settles the status of the run.     *)
Finish ==
    /\ phase = "applied"
    /\ phase' = "finished"
    /\ runStatus' = ResultStatus
    /\ UNCHANGED <<vars, actVars, interrupted, watchdog, status, execErr>>

ExitCode ==
    IF runStatus = "pass" THEN 0
    ELSE IF runStatus = "fail" THEN 1
    ELSE IF runStatus = "partial" THEN 3
    ELSE IF runStatus = "cancelled" THEN 130 ELSE 2

Finished ==
    /\ phase = "finished"
    /\ UNCHANGED engineVars

----------------------------------------------------------------------------

EngineNext ==
    \/ \E cause \in {"validation", "engine"} : StartFails(cause)
    \/ StartQueue
    \/ LaunchJob
    \/ QueueStep
    \/ \E n \in Node : StepLogs(n) \/ StepFails(n) \/ ActEnds(n) \/ NodeReturns(n)
    \/ CancelExec
    \/ Interrupt
    \/ WatchdogWakes
    \/ ForceCleanup
    \/ WatchdogStops
    \/ ApplyOutcomes
    \/ Finish
    \/ Finished

(* The Go runtime runs every goroutine and the timer.  act is only trusted *)
(* to end a job whose containers are gone or that started cancelled.       *)
EngineFairness ==
    /\ WF_engineVars(StartQueue)
    /\ WF_engineVars(LaunchJob \/ QueueStep)
    /\ \A n \in Node : /\ WF_engineVars(n \in doomed /\ ActEnds(n))
                       /\ WF_engineVars(NodeReturns(n))
    /\ WF_engineVars(CancelExec)
    /\ WF_engineVars(WatchdogWakes)
    /\ WF_engineVars(ForceCleanup)
    /\ WF_engineVars(ApplyOutcomes)
    /\ WF_engineVars(Finish)

EngineSafety == EngineInit /\ [][EngineNext]_engineVars

EngineSpec == EngineSafety /\ EngineFairness

----------------------------------------------------------------------------

EngineTypeOK ==
    /\ phase \in {"start", "queue", "applied", "finished"}
    /\ ended \in SUBSET Node
    /\ error \in [Node -> {"none", "canceled", "other"}]
    /\ result \in [Node -> {"none", "success", "failure", "skipped"}]
    /\ broken \in SUBSET Node
    /\ seen \in SUBSET Node
    /\ recorded \in Node \cup {None, Orphan}
    /\ canceller \in Node \cup {None}
    /\ interrupted \in BOOLEAN
    /\ watchdog \in {"armed", "timing", "fired", "off"}
    /\ doomed \in SUBSET Node
    /\ status \in [Node -> {"pending", "pass", "fail", "skip", "cancelled", "error"}]
    /\ execErr \in {"none", "validation", "engine", "evidence"}
    /\ runStatus \in {None, "pass", "partial", "fail", "cancelled", "error"}

Applied == phase \in {"applied", "finished"} /\ pc = "done"

(* "Jobs torn down by that cancellation are reported cancelled, never      *)
(* fail": once a fail-fast run has a first failure, no other job fails.    *)
OnlyFirstFailureFails ==
    Applied /\ FailFast /\ recorded # None =>
        \A n \in Node : status[n] = "fail" => n = recorded

(* "The failure is the evidence; report it": the run that recorded a first *)
(* failure reports a failed job.                                           *)
FirstFailureReported ==
    Applied /\ recorded # None => \E n \in Node : status[n] = "fail"

(* A job is only reported cancelled when the run was cancelled: by the     *)
(* first failure of a fail-fast run, or by the user.                       *)
CancelledHasCause ==
    Applied => \A n \in Node :
        status[n] = "cancelled" => interrupted \/ (FailFast /\ recorded # None)

(* "Honest statuses": a run only passes when the plan left nothing out and *)
(* every job ran to its end, or was skipped by its own condition, and no   *)
(* step failed that is not tolerated.                                      *)
PassMeansAllRan ==
    runStatus = "pass" => /\ ~LeftOut
                          /\ \A n \in Node : /\ status[n] \in {"pass", "skip"}
                                             /\ worker[n] = "gone"
                                             /\ n \notin broken

(* "run --complete collects them all": without fail-fast every job whose   *)
(* execution failed is reported failed, no error is lost to the run - and  *)
(* none to its job if act left it no result - and without the user nothing *)
(* is cancelled.  The error of a job that act left a success, or skipped,  *)
(* is the run's alone.                                                     *)
CompleteCollectsAll ==
    Applied /\ ~FailFast => \A n \in Node :
        /\ result[n] = "failure" => status[n] = "fail"
        /\ Kept(n) => /\ execErr = "engine"
                      /\ result[n] = "none" /\ ~interrupted => status[n] \in {"error", "fail"}
        /\ status[n] = "cancelled" => interrupted

(* applyOutcomes "returns the first genuine engine error": a run that      *)
(* started, and that the user let go on, ends as on an internal error,     *)
(* which lets a push pass, exactly if its evidence could not be written or *)
(* act returned an error for some job that is neither the job's failure    *)
(* nor context.Canceled.                                                   *)
ErrorIsGenuine ==
    phase = "finished" /\ pc = "done" =>
        (ExitCode = 2 <=> ~interrupted /\ (execErr = "evidence" \/ \E n \in Node : Kept(n)))

(* The hook "blocks the push only on a real local CI failure (exit 1)":    *)
(* where no step is tolerated, a run that started only fails because some  *)
(* step failed on its own, never because of the user, the cancellation or  *)
(* an error.                                                               *)
FailureIsReal ==
    Tolerant = {} /\ runStatus = "fail" /\ execErr # "validation" => broken # {}

(* A fail-fast run that has a first failure or was cancelled always comes  *)
(* to its end, however long act hangs: the failure cancels it, and the     *)
(* watchdog sees to the rest.                                              *)
CancelledRunFinishes ==
    FailFast /\ phase = "queue" /\ (ctxDone \/ recorded # None) ~> phase = "finished"

(* The queue inside the engine is the queue of Scheduler.                  *)
RunsTheQueue == SafetySpec
=============================================================================
