------------------------------ MODULE Planning ------------------------------
(***************************************************************************)
(* What becomes of the jobs of one workflow before and after the queue:    *)
(* readWorkflow classifies each job (internal/workflow/workflow.go),       *)
(* markDependencyBlocks gates the jobs that need unscheduled work, the     *)
(* scheduled jobs run, and ResultStatus and lowestFidelity sum up          *)
(* (internal/engine/engine.go).                                            *)
(*                                                                         *)
(* markDependencyBlocks ranges over a Go map, whose order is arbitrary and *)
(* may differ from pass to pass and from run to run.                       *)
(***************************************************************************)
EXTENDS Triggers, FiniteSets, Functions

CONSTANTS Job,    \* the jobs of the workflow
          Needs,  \* Needs[j]: the jobs that j needs, in the order declared
          Kinds,  \* the declarations of a job that occur
          Arm,    \* native arm64 images are used
          NoJob   \* no job

Kind == [runner : {"ubuntu", "matrix", "expression", "unsupported"},
         gated : BOOLEAN,    \* OIDC, or an environment
         missing : BOOLEAN]  \* a secret that was not supplied

ASSUME PlanningAssumption ==
    /\ IsFiniteSet(Job) /\ NoJob \notin Job
    /\ Needs \in [Job -> Seq(Job)]
    /\ Kinds \in SUBSET Kind
    /\ Arm \in BOOLEAN

Fidelity == {"exact", "compatible", "approximate", "remote_only"}

FidelityWeight ==
    [exact |-> 0, compatible |-> 1, approximate |-> 2, remote_only |-> 3]

(* The worst of a set of fidelities, as folding CombineFidelity over it.   *)
Lowest(fidelities) ==
    CHOOSE f \in fidelities : \A g \in fidelities : FidelityWeight[g] <= FidelityWeight[f]

VARIABLES phase,      \* "mark", "queue", "run" or "settled"
          triggered,  \* does the workflow handle the event?
          event,      \* the fidelity of the inferred event
          kind,       \* kind[j]: the declaration of j
          status, fidelity,
          reason,     \* reason[j]: the need that blocks j, or NoJob
          unvisited,  \* the jobs the current pass still has to look at
          changed,    \* did the current pass block a job?
          runStatus, runFidelity

planVars == <<phase, triggered, event, kind, status, fidelity, reason, unvisited, changed,
              runStatus, runFidelity>>

(* classifyJob, in its order of precedence.                                *)
ClassFidelity(k) ==
    IF k.gated \/ k.runner = "unsupported" THEN "remote_only"
    ELSE IF k.runner = "expression" THEN "approximate"
    ELSE IF Arm THEN "compatible"
    ELSE IF k.runner = "matrix" THEN "approximate" ELSE "exact"

ClassStatus(k) ==
    IF k.gated \/ k.runner = "unsupported" THEN "remote_only"
    ELSE IF k.missing THEN "blocked" ELSE "pending"

(* Whether the workflow handles the event that is verified.                *)
Judgements ==
    {[triggered |-> MatchesEvent(declared, inferred, files), fidelity |-> inferred.fidelity] :
        declared \in Declarations, inferred \in Events, files \in SUBSET File}

PlanInit ==
    /\ phase = "mark"
    /\ \E judgement \in Judgements : triggered = judgement.triggered /\ event = judgement.fidelity
    /\ kind \in [Job -> Kinds]
    /\ status = [j \in Job |-> IF triggered THEN ClassStatus(kind[j]) ELSE "skip"]
    /\ fidelity = [j \in Job |-> ClassFidelity(kind[j])]
    /\ reason = [j \in Job |-> NoJob]
    /\ unvisited = Job
    /\ changed = FALSE
    /\ runStatus = "none"
    /\ runFidelity = "exact"

Scheduled == {j \in Job : status[j] = "pending"}

(* One round of the inner loop: a pending job is blocked by the first of   *)
(* its needs that is not pending, and takes over its fidelity.             *)
Visit(j) ==
    /\ phase = "mark"
    /\ j \in unvisited
    /\ unvisited' = unvisited \ {j}
    /\ LET gates == {i \in DOMAIN Needs[j] : status[Needs[j][i]] # "pending"} IN
        IF status[j] = "pending" /\ gates # {}
        THEN \E first \in gates :
                /\ \A i \in gates : first <= i
                /\ status' = [status EXCEPT ![j] = "blocked"]
                /\ fidelity' = [fidelity EXCEPT ![j] = fidelity[Needs[j][first]]]
                /\ reason' = [reason EXCEPT ![j] = Needs[j][first]]
                /\ changed' = TRUE
        ELSE UNCHANGED <<status, fidelity, reason, changed>>
    /\ UNCHANGED <<phase, triggered, event, kind, runStatus, runFidelity>>

(* Mutant: one pass is enough.                                             *)
EndPassOnce ==
    /\ phase = "mark"
    /\ unvisited = {}
    /\ phase' = "queue"
    /\ UNCHANGED <<unvisited, changed, triggered, event, kind, status, fidelity, reason, runStatus, runFidelity>>

(* `for changed`: another pass after one that blocked a job.               *)
EndPass ==
    /\ phase = "mark"
    /\ unvisited = {}
    /\ IF changed THEN unvisited' = Job /\ UNCHANGED phase
                  ELSE phase' = "queue" /\ UNCHANGED unvisited
    /\ changed' = FALSE
    /\ UNCHANGED <<triggered, event, kind, status, fidelity, reason, runStatus, runFidelity>>

(* The queue and applyOutcomes give the scheduled jobs their statuses (the *)
(* module Engine says how).                                                *)
RunJobs ==
    /\ phase = "queue"
    /\ phase' = "run"
    /\ \E outcome \in [Scheduled -> {"pass", "fail", "skip", "cancelled"}] :
        status' = [j \in Job |-> IF j \in Scheduled THEN outcome[j] ELSE status[j]]
    /\ UNCHANGED <<unvisited, changed, triggered, event, kind, fidelity, reason, runStatus, runFidelity>>

(* Mutants: blocked jobs do not make a run partial; blocked jobs do not    *)
(* lower its fidelity.                                                     *)
RemoteIsPartial ==
    IF \E j \in Job : status[j] = "fail" THEN "fail"
    ELSE IF \E j \in Job : status[j] = "remote_only" THEN "partial" ELSE "pass"

ExecutedFidelity ==
    IF triggered
    THEN Lowest({event} \cup {fidelity[j] : j \in {i \in Job : status[i] \in {"pass", "fail"}}})
    ELSE event

(* ResultStatus of a run without error that nobody cancelled.              *)
ResultStatus ==
    IF \E j \in Job : status[j] = "fail" THEN "fail"
    ELSE IF \E j \in Job : status[j] \in {"remote_only", "blocked"} THEN "partial" ELSE "pass"

(* lowestFidelity, combined with the fidelity of the event; a triggered    *)
(* workflow has the latter too.                                            *)
ResultFidelity ==
    IF triggered
    THEN Lowest({event} \cup {fidelity[j] : j \in {i \in Job : status[i] # "skip"}})
    ELSE event

Settle ==
    /\ phase = "run"
    /\ phase' = "settled"
    /\ runStatus' = ResultStatus
    /\ runFidelity' = ResultFidelity
    /\ UNCHANGED <<unvisited, changed, triggered, event, kind, status, fidelity, reason>>

Settled ==
    /\ phase = "settled"
    /\ UNCHANGED planVars

PlanNext == (\E j \in Job : Visit(j)) \/ EndPass \/ RunJobs \/ Settle \/ Settled

PlanSafety == PlanInit /\ [][PlanNext]_planVars

----------------------------------------------------------------------------

PlanTypeOK ==
    /\ phase \in {"mark", "queue", "run", "settled"}
    /\ triggered \in BOOLEAN
    /\ event \in Fidelity
    /\ kind \in [Job -> Kind]
    /\ status \in [Job -> {"pending", "blocked", "remote_only", "skip", "pass", "fail", "cancelled"}]
    /\ fidelity \in [Job -> Fidelity]
    /\ reason \in [Job -> Job \cup {NoJob}]
    /\ unvisited \in SUBSET Job
    /\ changed \in BOOLEAN

(* The jobs that could be scheduled if dependencies did not matter.        *)
Eligible == {j \in Job : triggered /\ ClassStatus(kind[j]) = "pending"}

(* What should be scheduled: the largest set of eligible jobs that needs   *)
(* nothing outside itself.                                                 *)
Runnable == UNION {S \in SUBSET Eligible : \A j \in S : Range(Needs[j]) \subseteq S}

(* "jobs gated on unscheduled work were already marked blocked during      *)
(* planning" (type node): whatever the order of the map, exactly the       *)
(* runnable jobs reach the queue, hence all that a scheduled job needs.    *)
ExactlyRunnableScheduled == phase = "queue" => Scheduled = Runnable

(* "Unsupported work is never silently treated as passed. It yields a      *)
(* partial result unless an executed job fails."                           *)
UnsupportedIsNeverPass ==
    phase = "settled" /\ triggered /\ Eligible # Job => runStatus \in {"partial", "fail"}

(* Although a blocked job takes its fidelity from whichever gate it met    *)
(* first, the fidelity of the run does not depend on the order: it is the  *)
(* worst of the event, the jobs classified out and the scheduled jobs that *)
(* were not skipped.                                                       *)
RunFidelityIsWorst ==
    phase = "settled" /\ triggered =>
        LET counted == (Job \ Eligible) \cup {j \in Runnable : status[j] # "skip"}
        IN  runFidelity = Lowest({event} \cup {ClassFidelity(kind[j]) : j \in counted})
=============================================================================
