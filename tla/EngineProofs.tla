---------------------------- MODULE EngineProofs ----------------------------
(***************************************************************************)
(* The engine runs the queue it was proved about, and the statuses it      *)
(* gives to cancelled and failed jobs are justified, for every set of jobs.*)
(***************************************************************************)
EXTENDS Engine, SchedulerProofs

----------------------------------------------------------------------------
(* The engine's steps are steps of the queue, or leave it alone.           *)

(* Each action of the engine takes at most one step of the queue.          *)
LEMMA EngineStepIsQueueStep == EngineNext => [Next]_vars
<1> SUFFICES ASSUME EngineNext PROVE Next \/ UNCHANGED vars
  OBVIOUS
<1>1. CASE \E cause \in {"validation", "engine"} : StartFails(cause)
  BY <1>1 DEF StartFails
<1>2. CASE StartQueue
  BY <1>2 DEF StartQueue
<1>3. CASE LaunchJob
  BY <1>3 DEF LaunchJob, Next, Dispatcher
<1>4. CASE QueueStep
  BY <1>4 DEF QueueStep, Next, Dispatcher
<1>5. CASE \E n \in Node : StepLogs(n) \/ StepFails(n) \/ ActEnds(n)
  BY <1>5 DEF StepLogs, LogsAs, StepFails, FailsAs, ActEnds
<1>6. CASE \E n \in Node : NodeReturns(n)
  <2>1. PICK n \in Node : NodeReturns(n)
    BY <1>6
  <2> DEFINE out == [failed |-> result[n] = "failure", err |-> Kept(n)]
  <2>2. out \in Outcome /\ ExecReturns(n, out)
    BY <2>1 DEF NodeReturns, Kept, Outcome
  <2> QED
    BY <2>2 DEF Next
<1>7. CASE CancelExec \/ Interrupt
  BY <1>7 DEF CancelExec, Interrupt, Next
<1>8. CASE WatchdogWakes \/ ForceCleanup \/ WatchdogStops
  BY <1>8 DEF WatchdogWakes, ForceCleanup, WatchdogStops
<1>9. CASE ApplyOutcomes \/ Finish \/ Finished
  BY <1>9 DEF ApplyOutcomes, Finish, Finished, engineVars
<1> QED
  BY <1>1, <1>2, <1>3, <1>4, <1>5, <1>6, <1>7, <1>8, <1>9 DEF EngineNext

(* Whatever act, the collectors, the watchdog and the user do, the queue   *)
(* inside the engine behaves as the Scheduler module says.                 *)
THEOREM EngineRunsTheQueue == EngineSafety => RunsTheQueue
<1>1. EngineInit => Init
  BY DEF EngineInit
<1>2. [EngineNext]_engineVars => [Next]_vars
  BY EngineStepIsQueueStep DEF engineVars
<1> QED
  BY <1>1, <1>2, PTL DEF EngineSafety, RunsTheQueue, SafetySpec

----------------------------------------------------------------------------
(* Where the lines of a job are filed.                                     *)

(* A line is filed under a scheduled job or under no job.                  *)
LEMMA AttributionTypes ==
    ASSUME NEW n \in Node
    PROVE  Attribution[n] \subseteq Node \cup {Orphan}
<1> USE FilingAssumption
<1>1. \A order \in Orders : \A id : Aliases(order, id) \subseteq Node
  <2> SUFFICES ASSUME NEW order \in Orders, NEW id PROVE Aliases(order, id) \subseteq Node
    OBVIOUS
  <2> DEFINE callers == {i \in Node : order[i] \in Uses /\ id \in Children[order[i]]}
  <2>1. order \in [Node -> Node]
    BY DEF Orders, Bijection, Injection, Surjection
  <2>2. Aliases(order, id) \subseteq {order[i] : i \in {k \in callers : \A l \in callers : l <= k}}
    BY ZenonT(30) DEF Aliases
  <2>3. {k \in callers : \A l \in callers : l <= k} \subseteq Node
    OBVIOUS
  <2> HIDE DEF callers
  <2> QED
    BY <2>1, <2>2, <2>3
<1>2. Fallback \subseteq Node
  BY DEF Fallback
<1>3. \A order \in Orders : \A id : FiledUnder(order, id) \subseteq Node \cup {Orphan}
  BY <1>1, <1>2 DEF FiledUnder
<1> QED
  BY <1>3 DEF Attribution

(* The only caller with some child is the alias of the child, in whatever  *)
(* order the callers are met.                                              *)
LEMMA OnlyCaller ==
    ASSUME NEW order \in Orders, NEW n \in Uses, NEW id \in (Children[n] \ TopLevel),
           \A k \in Uses : k # n => id \notin Children[k]
    PROVE  Aliases(order, id) = {n}
<1> DEFINE callers == {i \in Node : order[i] \in Uses /\ id \in Children[order[i]]}
<1>1. PICK i \in Node : order[i] = n
  BY FilingAssumption DEF Orders, Bijection, Surjection
<1>2. \A k \in Node : order[k] = n => k = i
  BY <1>1 DEF Orders, Bijection, Injection, IsInjective
<1>3. callers = {i}
  BY <1>1, <1>2
<1>4. Cardinality(callers) = 1
  BY <1>3, FS_Singleton
<1>5. Aliases(order, id) = {order[j] : j \in {k \in callers : \A l \in callers : l <= k}}
  <2>1. Cardinality(callers) % 2 # 0
    BY <1>4
  <2> QED
    BY <2>1, Zenon DEF Aliases
<1>6. i \in Int
  BY DEF Node
<1> HIDE DEF callers
<1>7. {k \in callers : \A l \in callers : l <= k} = {i}
  BY <1>3, <1>6
<1> QED
  BY <1>1, <1>5, <1>7

(* Callers that share no child keep their lines.                           *)
LEMMA OwnLines ==
    ASSUME OwnChildren, NEW n \in Node
    PROVE  Attribution[n] = {n}
<1> USE FilingAssumption
<1>1. ASSUME NEW order \in Orders, NEW id \in LogIds[n]
      PROVE  FiledUnder(order, id) = {n}
  <2>1. CASE n \in Uses
    <3>1. Aliases(order, id) = {n}
      BY <2>1, OnlyCaller DEF OwnChildren
    <3> QED
      BY <3>1 DEF FiledUnder
  <2>2. CASE n \notin Uses
    <3>1. id = n
      BY <2>2 DEF OwnChildren
    <3>2. Aliases(order, id) = {}
      BY <3>1 DEF Aliases
    <3> QED
      BY <3>1, <3>2 DEF FiledUnder
  <2> QED
    BY <2>1, <2>2
<1>2. LogIds[n] # {}
  OBVIOUS
<1>3. [i \in Node |-> i] \in Orders
  BY DEF Orders, Bijection, Injection, Surjection, IsInjective
<1> QED
  BY <1>1, <1>2, <1>3 DEF Attribution

----------------------------------------------------------------------------
(* The inductive invariant of the engine.                                  *)

(* The goroutine of a job, what act left of it, and what the queue knows.  *)
Linked ==
    \A n \in Node :
        /\ worker[n] = "idle" => n \notin ended /\ n \notin broken
        /\ worker[n] \in {"sending", "gone"} => n \in ended
        /\ worker[n] = "sending" =>
              outcome[n] = [failed |-> result[n] = "failure", err |-> Kept(n)]
        /\ worker[n] = "gone" =>
              /\ results[n].failed = (result[n] = "failure")
              /\ results[n].err = Kept(n)

(* Every failure, and every cancellation but the user's, is on record.     *)
OnRecord ==
    /\ \A n \in Node : result[n] = "failure" \/ n \in broken => recorded # None
    /\ canceller # None => FailFast /\ recorded # None
    /\ ctxDone => interrupted \/ (FailFast /\ recorded # None)

Phases ==
    /\ phase = "start" => pc = "dispatch"
    /\ phase \in {"applied", "finished"} => pc = "done" \/ execErr # "none"
    /\ phase # "finished" => runStatus = None

EInv ==
    /\ Inv
    /\ EngineTypeOK
    /\ Linked
    /\ OnRecord
    /\ Phases
    /\ CancelledHasCause
    /\ OnlyFirstFailureFails

(* An engine about to start satisfies its invariant.                       *)
LEMMA EngineInitInv == EngineInit => EInv
<1> SUFFICES ASSUME EngineInit PROVE EInv
  OBVIOUS
<1>1. Inv
  BY InitInv DEF EngineInit
<1>2. EngineTypeOK /\ Linked /\ OnRecord /\ Phases
  BY EngineAssumption DEF EngineInit, Init, EngineTypeOK, Linked, OnRecord, Phases
<1>3. CancelledHasCause /\ OnlyFirstFailureFails
  BY DEF EngineInit, CancelledHasCause, OnlyFirstFailureFails, Applied
<1> QED
  BY <1>1, <1>2, <1>3 DEF EInv

(* Nothing that happens to jobs happens once the queue has returned.       *)
LEMMA NoJobAfterReturn ==
    ASSUME EInv, NEW n \in Node, worker[n] \in {"executing", "sending"}
    PROVE  pc # "done"
BY DEF EInv, Inv, ReturnsDrained, InFlight

(* A step of act inside a job, or of the collector.                        *)
LEMMA JobStepKeeps ==
    ASSUME EInv, NEW n \in Node, StepLogs(n) \/ StepFails(n) \/ ActEnds(n), Inv'
    PROVE  EInv'
<1>1. worker[n] = "executing" /\ n \notin ended /\ canceller # n
  BY DEF StepLogs, LogsAs, StepFails, FailsAs, ActEnds, Acting
<1>2. UNCHANGED vars /\ UNCHANGED runVars
  BY DEF StepLogs, LogsAs, StepFails, FailsAs, ActEnds
<1>3. \A id : Record(id, n) => /\ recorded # None => recorded' = recorded
                               /\ recorded' \in {recorded, id}
                               /\ canceller' \in {canceller, n}
                               /\ canceller' # canceller => FailFast /\ recorded' = id
                               /\ id # None => recorded' # None
  BY DEF Record
<1>4. Attribution[n] \subseteq Node \cup {Orphan} /\ None \notin Node /\ None # Orphan
  BY EngineAssumption, AttributionTypes
<1>5. /\ recorded # None => recorded' = recorded
      /\ recorded' \in Node \cup {None, Orphan}
      /\ canceller' \in {canceller, n}
      /\ canceller' # canceller => FailFast /\ recorded' # None
      /\ seen' \in SUBSET Node
  <2>1. CASE StepLogs(n)
    BY <1>4, <2>1 DEF StepLogs, LogsAs, EInv, EngineTypeOK
  <2>2. CASE StepFails(n)
    <3>1. PICK id \in Attribution[n] : seen' = seen \cup ({id} \cap Node) /\ Record(id, n)
      BY <2>2 DEF StepFails, FailsAs
    <3>2. id # None /\ id \in Node \cup {Orphan}
      BY <1>4
    <3> QED
      BY <1>3, <3>1, <3>2 DEF EInv, EngineTypeOK
  <2>3. CASE ActEnds(n)
    <3>1. seen' = seen /\ (Record(n, n) \/ UNCHANGED <<recorded, canceller>>)
      BY <2>3 DEF ActEnds
    <3> QED
      BY <1>3, <1>4, <3>1 DEF EInv, EngineTypeOK
  <2> QED
    BY <2>1, <2>2, <2>3
<1>6. /\ ended' \in {ended, ended \cup {n}}
      /\ broken' \in {broken, broken \cup {n}}
      /\ broken' # broken => recorded' # None
      /\ doomed' = doomed
  <2>1. CASE StepLogs(n)
    BY <2>1 DEF StepLogs, LogsAs
  <2>2. CASE StepFails(n)
    <3>1. recorded' # None
      BY <1>3, <1>4, <2>2 DEF StepFails, FailsAs
    <3> QED
      BY <2>2, <3>1 DEF StepFails, FailsAs
  <2>3. CASE ActEnds(n)
    BY <2>3 DEF ActEnds
  <2> QED
    BY <2>1, <2>2, <2>3
<1>7. /\ result' \in [Node -> {"none", "success", "failure", "skipped"}]
      /\ error' \in [Node -> {"none", "canceled", "other"}]
      /\ \A m \in Node : m # n => result'[m] = result[m] /\ error'[m] = error[m]
      /\ result'[n] = "failure" => result[n] = "failure" \/ recorded' # None
  <2>1. CASE StepLogs(n) \/ StepFails(n)
    BY <2>1 DEF StepLogs, LogsAs, StepFails, FailsAs, EInv, EngineTypeOK
  <2>2. CASE ActEnds(n)
    <3>1. PICK end \in IF ctxDone THEN TeardownEndings(n) ELSE OwnEndings(n) :
             /\ result' = [result EXCEPT ![n] = end.result]
             /\ error' = [error EXCEPT ![n] = end.error]
             /\ IF end.result = "failure" THEN Record(n, n) ELSE UNCHANGED <<recorded, canceller>>
      BY <2>2 DEF ActEnds
    <3>2. /\ end.result \in {"none", "success", "failure", "skipped"}
          /\ end.error \in {"none", "canceled", "other"}
      BY DEF OwnEndings, TeardownEndings, Failure
    <3>3. end.result = "failure" => recorded' # None
      BY <1>3, <1>4, <3>1
    <3> QED
      BY <3>1, <3>2, <3>3 DEF EInv, EngineTypeOK
  <2> QED
    BY <2>1, <2>2
<1>8. EngineTypeOK'
  BY <1>2, <1>5, <1>6, <1>7 DEF EInv, EngineTypeOK, runVars
<1>9. Linked'
  <2> SUFFICES ASSUME NEW m \in Node PROVE Linked!(m)'
    BY DEF Linked
  <2>1. worker' = worker /\ outcome' = outcome /\ results' = results
    BY <1>2 DEF vars, queueVars
  <2>2. CASE m = n
    BY <1>1, <2>1, <2>2
  <2>3. CASE m # n
    <3>1. /\ m \in ended' <=> m \in ended
          /\ error'[m] = error[m]
          /\ m \in broken' <=> m \in broken
          /\ result'[m] = result[m]
      BY <1>6, <1>7, <2>3
    <3> QED
      BY <2>1, <3>1 DEF EInv, Linked, Kept
  <2> QED
    BY <2>2, <2>3
<1>10. OnRecord'
  <2>1. recorded # None => recorded' # None
    BY <1>5
  <2>2. \A m \in Node : result'[m] = "failure" \/ m \in broken' => recorded' # None
    BY <1>6, <1>7, <2>1 DEF EInv, OnRecord
  <2>3. canceller' # None => FailFast /\ recorded' # None
    BY <1>5, <2>1 DEF EInv, OnRecord
  <2>4. ctxDone' => interrupted' \/ (FailFast /\ recorded' # None)
    BY <1>2, <2>1 DEF EInv, OnRecord, vars, runVars
  <2> QED
    BY <2>2, <2>3, <2>4 DEF OnRecord
<1>11. Phases'
  BY <1>2 DEF EInv, Phases, vars, queueVars, runVars
<1>12. CancelledHasCause' /\ OnlyFirstFailureFails'
  <2>1. ~Applied'
    BY <1>1, <1>2, NoJobAfterReturn DEF Applied, vars, queueVars
  <2> QED
    BY <2>1 DEF CancelledHasCause, OnlyFirstFailureFails
<1> QED
  BY <1>8, <1>9, <1>10, <1>11, <1>12 DEF EInv

(* A step of the dispatcher.                                               *)
LEMMA QueueStepKeeps ==
    ASSUME EInv, LaunchJob \/ QueueStep, Inv'
    PROVE  EInv'
<1>1. /\ phase = "queue"
      /\ UNCHANGED runVars
      /\ UNCHANGED <<ended, error, result, broken, seen, recorded, canceller>>
      /\ ctxDone' = ctxDone
  BY DEF LaunchJob, QueueStep, actVars, Launch, Dispatch, PassOver, EndScan, Return, Receive, Release, KeepResult, Unblock
<1>2. doomed' \in SUBSET Node
  <2>1. CASE LaunchJob
    <3>1. ready[position] \in Node
      BY <2>1, ElementOfSeq DEF LaunchJob, Launch, EInv, Inv, TypeOK
    <3> QED
      BY <2>1, <3>1 DEF LaunchJob, EInv, EngineTypeOK
  <2>2. CASE QueueStep
    BY <2>2 DEF QueueStep, actVars, EInv, EngineTypeOK
  <2> QED
    BY <2>1, <2>2
<1>3. EngineTypeOK'
  BY <1>1, <1>2 DEF EInv, EngineTypeOK, runVars
<1>4. Linked'
  <2>1. CASE Launch
    <3> DEFINE n == ready[position]
    <3>1. n \in Node
      BY <2>1, ElementOfSeq DEF Launch, EInv, Inv, TypeOK
    <3>2. /\ \A m \in Node : worker'[m] = IF m = n THEN "executing" ELSE worker[m]
          /\ \A m \in Node : m # n => results'[m] = results[m]
          /\ outcome' = outcome
      BY <2>1, <3>1 DEF Launch, EInv, Inv, TypeOK
    <3> QED
      BY <1>1, <3>2 DEF EInv, Linked, Kept
  <2>2. CASE \E n \in Node : Receive(n)
    <3>1. PICK n \in Node : Receive(n)
      BY <2>2
    <3>2. /\ worker[n] = "sending"
          /\ \A m \in Node : worker'[m] = IF m = n THEN "gone" ELSE worker[m]
          /\ \A m \in Node : m # n => results'[m] = results[m] /\ outcome'[m] = outcome[m]
          /\ results'[n].failed = outcome[n].failed
          /\ results'[n].err = outcome[n].err
      BY <3>1 DEF Receive, Release, KeepResult, Unblock, EInv, Inv, TypeOK
    <3>3. outcome[n] = [failed |-> result[n] = "failure", err |-> Kept(n)]
      BY <3>2 DEF EInv, Linked
    <3>4. results'[n].failed = (result[n] = "failure") /\ results'[n].err = Kept(n)
      BY <3>2, <3>3
    <3>5. n \in ended
      BY <3>2 DEF EInv, Linked
    <3> SUFFICES ASSUME NEW m \in Node PROVE Linked!(m)'
      BY DEF Linked
    <3>6. CASE m = n
      BY <1>1, <3>2, <3>4, <3>5, <3>6 DEF Kept
    <3>7. CASE m # n
      BY <1>1, <3>2, <3>7 DEF EInv, Linked, Kept
    <3> QED
      BY <3>6, <3>7
  <2>3. CASE Dispatch \/ PassOver \/ EndScan \/ Return
    <3>1. worker' = worker /\ results' = results /\ outcome' = outcome
      BY <2>3 DEF Dispatch, PassOver, EndScan, Return
    <3> QED
      BY <1>1, <3>1 DEF EInv, Linked, Kept
  <2> QED
    BY <2>1, <2>2, <2>3 DEF LaunchJob, QueueStep
<1>5. OnRecord' /\ Phases'
  BY <1>1 DEF EInv, OnRecord, Phases, runVars
<1>6. CancelledHasCause' /\ OnlyFirstFailureFails'
  BY <1>1 DEF CancelledHasCause, OnlyFirstFailureFails, Applied, runVars
<1> QED
  BY <1>3, <1>4, <1>5, <1>6 DEF EInv

(* The return of executeNode hands the queue the result and the error that *)
(* act left.                                                               *)
LEMMA NodeReturnsKeeps ==
    ASSUME EInv, NEW n \in Node, NodeReturns(n), Inv'
    PROVE  EInv'
<1>1. /\ worker[n] = "executing"
      /\ n \in ended
      /\ \A m \in Node : worker'[m] = IF m = n THEN "sending" ELSE worker[m]
      /\ \A m \in Node : outcome'[m] =
            IF m = n THEN [failed |-> result[n] = "failure", err |-> Kept(n)] ELSE outcome[m]
      /\ results' = results /\ pc' = pc /\ ctxDone' = ctxDone
      /\ UNCHANGED runVars
      /\ UNCHANGED actVars
  BY DEF NodeReturns, ExecReturns, queueVars, EInv, Inv, TypeOK
<1>2. EngineTypeOK' /\ OnRecord' /\ Phases'
  BY <1>1 DEF EInv, EngineTypeOK, OnRecord, Phases, runVars, actVars
<1>3. Linked'
  BY <1>1 DEF EInv, Linked, Kept, actVars
<1>4. ~Applied'
  BY <1>1, NoJobAfterReturn DEF Applied
<1> QED
  BY <1>2, <1>3, <1>4 DEF EInv, CancelledHasCause, OnlyFirstFailureFails

(* cancelExec, or the user.                                                *)
LEMMA ContextStepKeeps ==
    ASSUME EInv, CancelExec \/ Interrupt, Inv'
    PROVE  EInv'
<1>1. /\ UNCHANGED <<queueVars, worker, outcome>>
      /\ UNCHANGED <<phase, watchdog, status, execErr, runStatus>>
      /\ UNCHANGED <<ended, error, result, broken, seen, recorded, doomed>>
  BY DEF CancelExec, Interrupt, Cancel, vars, runVars, actVars
<1>2. /\ canceller' \in {canceller, None}
      /\ interrupted => interrupted'
      /\ interrupted' \in BOOLEAN
      /\ interrupted' \/ (FailFast /\ recorded # None)
  BY DEF CancelExec, Interrupt, runVars, actVars, EInv, EngineTypeOK, OnRecord
<1>3. EngineTypeOK'
  BY <1>1, <1>2 DEF EInv, EngineTypeOK
<1>4. Linked' /\ Phases'
  BY <1>1 DEF EInv, Linked, Kept, Phases, queueVars
<1>5. OnRecord'
  BY <1>1, <1>2 DEF EInv, OnRecord
<1>6. CancelledHasCause' /\ OnlyFirstFailureFails'
  BY <1>1, <1>2 DEF EInv, CancelledHasCause, OnlyFirstFailureFails, Applied, queueVars
<1> QED
  BY <1>3, <1>4, <1>5, <1>6 DEF EInv

(* The watchdog and its cleanup disturb no job's record.                   *)
LEMMA WatchdogStepKeeps ==
    ASSUME EInv, WatchdogWakes \/ ForceCleanup \/ WatchdogStops, Inv'
    PROVE  EInv'
<1>1. /\ UNCHANGED vars
      /\ UNCHANGED <<phase, interrupted, status, execErr, runStatus>>
      /\ UNCHANGED <<ended, error, result, broken, seen, recorded, canceller>>
      /\ watchdog' \in {"armed", "timing", "fired", "off"}
      /\ doomed' \in SUBSET Node
  BY DEF WatchdogWakes, ForceCleanup, WatchdogStops, actVars, EInv, EngineTypeOK
<1> QED
  BY <1>1 DEF EInv, EngineTypeOK, Linked, Kept, OnRecord, Phases, CancelledHasCause,
              OnlyFirstFailureFails, Applied, vars, queueVars

(* The statuses are right when they are given: a job that was never        *)
(* dispatched proves that the dispatch was stopped.                        *)
LEMMA ApplyOutcomesKeeps ==
    ASSUME EInv, ApplyOutcomes, Inv'
    PROVE  EInv'
<1>1. /\ UNCHANGED vars
      /\ UNCHANGED actVars
      /\ UNCHANGED <<interrupted, watchdog, runStatus>>
      /\ phase = "queue" /\ phase' = "applied" /\ pc = "done"
      /\ status' = [n \in Node |-> OutcomeStatus(n)]
      /\ execErr' \in {"engine", "none", "evidence"}
  BY DEF ApplyOutcomes
<1>2. \A n \in Node : OutcomeStatus(n) \in {"pass", "fail", "skip", "cancelled", "error"}
  BY DEF OutcomeStatus, FailureStatus, SilentStatus, EInv, EngineTypeOK
<1>3. EngineTypeOK'
  BY <1>1, <1>2 DEF EInv, EngineTypeOK, actVars
<1>4. Linked' /\ OnRecord' /\ Phases'
  BY <1>1 DEF EInv, Linked, Kept, OnRecord, Phases, vars, queueVars, actVars
<1>5. failed => recorded # None
  <2>1. failed => \E n \in Node : results[n].failed
    BY DEF EInv, Inv, ResultsFaithful
  <2>2. \A n \in Node : results[n].failed => worker[n] = "gone"
    BY DEF EInv, Inv, ResultsFaithful
  <2> QED
    BY <2>1, <2>2 DEF EInv, Linked, OnRecord
<1>6. Stopping => interrupted \/ (FailFast /\ recorded # None)
  BY <1>5 DEF EInv, OnRecord, Stopping
<1>7. ASSUME NEW n \in Node, OutcomeStatus(n) = "cancelled"
      PROVE  interrupted \/ (FailFast /\ recorded # None)
  <2>1. CASE ~results[n].dispatched
    <3>1. n \notin Completed
      BY <2>1 DEF EInv, Inv, ResultsFaithful, Completed
    <3>2. Stopping
      BY <1>1, <3>1 DEF EInv, Inv, ReturnsDrained
    <3> QED
      BY <1>6, <3>2
  <2>2. CASE results[n].dispatched
    BY <1>7, <2>2 DEF OutcomeStatus, FailureStatus, SilentStatus, EInv, EngineTypeOK
  <2> QED
    BY <2>1, <2>2 DEF EInv, Inv, TypeOK
<1>8. ASSUME NEW n \in Node, OutcomeStatus(n) = "fail", FailFast, recorded # None
      PROVE  n = recorded
  BY <1>8 DEF OutcomeStatus, FailureStatus, SilentStatus, EInv, EngineTypeOK
<1>9. CancelledHasCause'
  BY <1>1, <1>7 DEF CancelledHasCause, actVars
<1>10. OnlyFirstFailureFails'
  BY <1>1, <1>8 DEF OnlyFirstFailureFails, actVars
<1> QED
  BY <1>3, <1>4, <1>9, <1>10 DEF EInv

(* Starting, failing to start and settling the run's status keep the       *)
(* invariant.                                                              *)
LEMMA PhaseStepKeeps ==
    ASSUME EInv, (\E cause \in {"validation", "engine"} : StartFails(cause)) \/ StartQueue \/ Finish, Inv'
    PROVE  EInv'
<1>1. /\ UNCHANGED vars
      /\ UNCHANGED actVars
      /\ UNCHANGED <<interrupted, watchdog, status>>
  BY DEF StartFails, StartQueue, Finish
<1>2. /\ phase' \in {"queue", "applied", "finished"}
      /\ execErr' \in {"none", "validation", "engine", "evidence"}
      /\ runStatus' \in {None, "pass", "partial", "fail", "cancelled", "error"}
  BY DEF StartFails, StartQueue, Finish, ResultStatus, EInv, EngineTypeOK
<1>3. EngineTypeOK'
  BY <1>1, <1>2 DEF EInv, EngineTypeOK, actVars
<1>4. Linked' /\ OnRecord'
  BY <1>1 DEF EInv, Linked, Kept, OnRecord, vars, queueVars, actVars
<1>5. Phases'
  <2>1. CASE \E cause \in {"validation", "engine"} : StartFails(cause)
    BY <1>1, <2>1 DEF StartFails, EInv, Phases, vars, queueVars
  <2>2. CASE StartQueue
    BY <1>1, <2>2 DEF StartQueue, EInv, Phases, vars, queueVars
  <2>3. CASE Finish
    BY <1>1, <2>3 DEF Finish, EInv, Phases, vars, queueVars
  <2> QED
    BY <2>1, <2>2, <2>3
<1>6. Applied' => Applied
  <2>1. phase = "start" => pc' # "done"
    BY <1>1 DEF EInv, Phases, vars, queueVars
  <2>2. phase' \in {"applied", "finished"} => phase \in {"start", "applied"}
    BY DEF StartFails, StartQueue, Finish
  <2> QED
    BY <1>1, <2>1, <2>2 DEF Applied, vars, queueVars
<1>7. CancelledHasCause' /\ OnlyFirstFailureFails'
  BY <1>1, <1>6 DEF EInv, CancelledHasCause, OnlyFirstFailureFails, actVars
<1> QED
  BY <1>3, <1>4, <1>5, <1>7 DEF EInv

(* Every step of the engine keeps its invariant.                           *)
LEMMA EngineNextKeeps == EInv /\ [EngineNext]_engineVars => EInv'
<1> SUFFICES ASSUME EInv, [EngineNext]_engineVars PROVE EInv'
  OBVIOUS
<1>1. Inv'
  BY EngineStepIsQueueStep, NextKeeps DEF EInv, engineVars
<1>2. CASE EngineNext
  <2>1. CASE \E n \in Node : StepLogs(n) \/ StepFails(n) \/ ActEnds(n) \/ NodeReturns(n)
    BY <1>1, <2>1, JobStepKeeps, NodeReturnsKeeps
  <2>2. CASE LaunchJob \/ QueueStep
    BY <1>1, <2>2, QueueStepKeeps
  <2>3. CASE CancelExec \/ Interrupt
    BY <1>1, <2>3, ContextStepKeeps
  <2>4. CASE WatchdogWakes \/ ForceCleanup \/ WatchdogStops
    BY <1>1, <2>4, WatchdogStepKeeps
  <2>5. CASE ApplyOutcomes
    BY <1>1, <2>5, ApplyOutcomesKeeps
  <2>6. CASE (\E cause \in {"validation", "engine"} : StartFails(cause)) \/ StartQueue \/ Finish
    BY <1>1, <2>6, PhaseStepKeeps
  <2>7. CASE Finished
    BY <1>1, <2>7 DEF Finished, engineVars, vars, queueVars, runVars, actVars, EInv, EngineTypeOK,
                      Linked, Kept, OnRecord, Phases, CancelledHasCause, OnlyFirstFailureFails, Applied
  <2> QED
    BY <1>2, <2>1, <2>2, <2>3, <2>4, <2>5, <2>6, <2>7 DEF EngineNext
<1>3. CASE UNCHANGED engineVars
  BY <1>1, <1>3 DEF engineVars, vars, queueVars, runVars, actVars, EInv, EngineTypeOK,
                    Linked, Kept, OnRecord, Phases, CancelledHasCause, OnlyFirstFailureFails, Applied
<1> QED
  BY <1>2, <1>3

(* Whatever act, the collectors and the user do, a run of the engine keeps *)
(* its inductive invariant.                                                *)
THEOREM EngineInvariance == EngineSafety => []EInv
<1> QED
  BY EngineInitInv, EngineNextKeeps, PTL DEF EngineSafety

(* Every variable of the engine keeps its type.                            *)
THEOREM EngineTypeCorrect == EngineSafety => []EngineTypeOK
<1>1. EInv => EngineTypeOK
  BY DEF EInv
<1> QED
  BY <1>1, EngineInvariance, PTL

(* No job is reported cancelled in a run that nobody cancelled, whatever   *)
(* the attribution of log lines, tolerated steps and errors.               *)
THEOREM CancellationIsJustified == EngineSafety => []CancelledHasCause
<1>1. EInv => CancelledHasCause
  BY DEF EInv
<1> QED
  BY <1>1, EngineInvariance, PTL

(* A fail-fast run reports at most its first failure as failed.            *)
THEOREM TeardownIsNotEvidence == EngineSafety => []OnlyFirstFailureFails
<1>1. EInv => OnlyFirstFailureFails
  BY DEF EInv
<1> QED
  BY <1>1, EngineInvariance, PTL

----------------------------------------------------------------------------
(* The errors and failures of jobs reach the result.                       *)

(* What act left of a job that did not end.                                *)
Endings == \A n \in Node : n \notin ended => result[n] = "none" /\ error[n] = "none"

(* The error of Execute is that of a job, and makes the run an error.      *)
ErrorHasCause ==
    /\ Applied => execErr # "validation" /\ (execErr = "engine" <=> \E n \in Node : Kept(n))
    /\ phase = "finished" /\ pc = "done" =>
          (runStatus = "error" <=> ~interrupted /\ execErr # "none")
    /\ phase = "finished" => runStatus # None

EndInv ==
    /\ EInv
    /\ Endings
    /\ ErrorHasCause
    /\ CompleteCollectsAll

LEMMA EndInit == EngineInit => EndInv
<1> SUFFICES ASSUME EngineInit PROVE EndInv
  OBVIOUS
<1>1. EInv
  BY EngineInitInv
<1>2. Endings /\ ErrorHasCause /\ CompleteCollectsAll
  BY EngineAssumption DEF EngineInit, Endings, ErrorHasCause, CompleteCollectsAll, Applied
<1> QED
  BY <1>1, <1>2 DEF EndInv

(* A step inside a job, before anything is applied.                        *)
LEMMA EndJobStep ==
    ASSUME EndInv, NEW n \in Node, StepLogs(n) \/ StepFails(n) \/ ActEnds(n), EInv'
    PROVE  EndInv'
<1>1. worker[n] = "executing" /\ n \notin ended /\ UNCHANGED vars /\ UNCHANGED runVars
  BY DEF StepLogs, LogsAs, StepFails, FailsAs, ActEnds, Acting
<1>2. Endings'
  <2>1. CASE StepLogs(n) \/ StepFails(n)
    BY <2>1 DEF StepLogs, LogsAs, StepFails, FailsAs, EndInv, Endings
  <2>2. CASE ActEnds(n)
    <3>1. \A m \in Node : m # n => result'[m] = result[m] /\ error'[m] = error[m]
      BY <2>2 DEF ActEnds, EndInv, EInv, EngineTypeOK
    <3> QED
      BY <2>2, <3>1 DEF ActEnds, EndInv, Endings
  <2> QED
    BY <2>1, <2>2
<1>3. ErrorHasCause' /\ CompleteCollectsAll'
  <2>1. ~Applied' /\ pc' # "done"
    BY <1>1, NoJobAfterReturn DEF Applied, vars, queueVars, EndInv
  <2> QED
    BY <1>1, <2>1 DEF EndInv, ErrorHasCause, CompleteCollectsAll, runVars
<1> QED
  BY <1>2, <1>3 DEF EndInv

(* The statuses that applyOutcomes gives.                                  *)
LEMMA EndApply ==
    ASSUME EndInv, ApplyOutcomes, EInv'
    PROVE  EndInv'
<1>1. /\ UNCHANGED <<ended, error, result, ctxDone, interrupted, runStatus>>
      /\ pc = "done" /\ phase = "queue" /\ phase' = "applied"
      /\ status' = [n \in Node |-> OutcomeStatus(n)]
      /\ execErr' \in IF \E n \in Node : results[n].err THEN {"engine"} ELSE {"none", "evidence"}
  BY DEF ApplyOutcomes, vars, actVars
<1>2. Endings'
  BY <1>1 DEF EndInv, Endings
<1>3. ASSUME NEW n \in Node PROVE worker[n] \in {"idle", "gone"} /\ (worker[n] = "gone" <=> results[n].dispatched)
  BY <1>1 DEF EndInv, EInv, Inv, TypeOK, ReturnsDrained, InFlight, ResultsFaithful
<1>4. ASSUME NEW n \in Node, n \in ended PROVE results[n].dispatched /\ results[n].err = Kept(n)
  BY <1>3, <1>4 DEF EndInv, EInv, Linked
<1>5. ASSUME NEW n \in Node PROVE results[n].err <=> Kept(n)
  <2>1. CASE worker[n] = "gone"
    BY <2>1, <1>4 DEF EndInv, EInv, Linked
  <2>2. CASE worker[n] = "idle"
    <3>1. ~Kept(n)
      BY <2>2 DEF EndInv, EInv, Linked, Endings, Kept
    <3>2. ~results[n].err
      BY <2>2 DEF EndInv, EInv, Inv, ResultsFaithful
    <3> QED
      BY <3>1, <3>2
  <2> QED
    BY <1>3, <2>1, <2>2
<1>6. execErr' # "validation" /\ (execErr' = "engine" <=> \E n \in Node : Kept(n))
  BY <1>1, <1>5
<1>7. \A n \in Node : Kept(n)' = Kept(n)
  BY <1>1 DEF Kept
<1>8. ErrorHasCause'
  BY <1>1, <1>6, <1>7, EngineAssumption DEF ErrorHasCause, EndInv, EInv, Phases
<1>9. CompleteCollectsAll'
  <2> SUFFICES ASSUME ~FailFast, NEW n \in Node
               PROVE  /\ result[n] = "failure" => OutcomeStatus(n) = "fail"
                      /\ Kept(n) => execErr' = "engine"
                      /\ Kept(n) /\ result[n] = "none" /\ ~interrupted =>
                            OutcomeStatus(n) \in {"error", "fail"}
                      /\ status'[n] = "cancelled" => interrupted
    BY <1>1, <1>7 DEF CompleteCollectsAll
  <2>1. result[n] = "failure" => OutcomeStatus(n) = "fail"
    <3>1. result[n] = "failure" => results[n].dispatched
      BY <1>4 DEF EndInv, Endings
    <3> QED
      BY <3>1 DEF OutcomeStatus, FailureStatus
  <2>2. Kept(n) /\ result[n] = "none" /\ ~interrupted => OutcomeStatus(n) \in {"error", "fail"}
    <3>1. Kept(n) => results[n].dispatched /\ results[n].err
      BY <1>4, <1>5 DEF EndInv, Endings, Kept
    <3> QED
      BY <3>1 DEF OutcomeStatus, SilentStatus
  <2>3. status'[n] = "cancelled" => interrupted
    BY <1>1 DEF EInv, CancelledHasCause, Applied, vars, queueVars, ApplyOutcomes
  <2> QED
    BY <1>6, <2>1, <2>2, <2>3
<1> QED
  BY <1>2, <1>8, <1>9 DEF EndInv

(* The other steps neither end a job nor give a status.                    *)
LEMMA EndOtherStep ==
    ASSUME EndInv,
           LaunchJob \/ QueueStep \/ (\E n \in Node : NodeReturns(n)) \/ CancelExec \/ Interrupt
           \/ WatchdogWakes \/ ForceCleanup \/ WatchdogStops \/ StartQueue \/ Finish
           \/ (\E cause \in {"validation", "engine"} : StartFails(cause)) \/ Finished
           \/ UNCHANGED engineVars,
           EInv'
    PROVE  EndInv'
<1>1. UNCHANGED <<ended, error, result, status>>
  BY DEF LaunchJob, QueueStep, NodeReturns, CancelExec, Interrupt, WatchdogWakes, ForceCleanup,
         WatchdogStops, StartQueue, Finish, StartFails, Finished, engineVars, actVars, runVars
<1>2. interrupted => interrupted'
  BY DEF LaunchJob, QueueStep, NodeReturns, CancelExec, Interrupt, WatchdogWakes, ForceCleanup,
         WatchdogStops, StartQueue, Finish, StartFails, Finished, engineVars, runVars
<1>3. phase = "finished" => interrupted' = interrupted
  BY DEF LaunchJob, QueueStep, NodeReturns, CancelExec, Interrupt, WatchdogWakes, ForceCleanup,
         WatchdogStops, StartQueue, Finish, StartFails, Finished, engineVars, runVars
<1>4. \A n \in Node : Kept(n)' = Kept(n)
  BY <1>1 DEF Kept
<1>5. Endings'
  BY <1>1 DEF EndInv, Endings
<1>6. Applied' => Applied \/ phase' = "queue"
  <2>1. CASE LaunchJob \/ QueueStep
    BY <2>1 DEF LaunchJob, QueueStep, Applied, runVars
  <2>2. CASE \E n \in Node : NodeReturns(n)
    BY <2>2 DEF NodeReturns, ExecReturns, Applied, queueVars, runVars
  <2>3. CASE CancelExec \/ Interrupt
    BY <2>3 DEF CancelExec, Interrupt, Cancel, Applied, vars, queueVars, runVars
  <2>4. CASE WatchdogWakes \/ ForceCleanup \/ WatchdogStops \/ Finished \/ UNCHANGED engineVars
    BY <2>4 DEF WatchdogWakes, ForceCleanup, WatchdogStops, Finished, engineVars, Applied, vars,
                queueVars, runVars
  <2>5. CASE StartQueue \/ Finish \/ \E cause \in {"validation", "engine"} : StartFails(cause)
    BY <2>5 DEF StartQueue, Finish, StartFails, Applied, vars, queueVars, EndInv, EInv, Phases
  <2> QED
    BY <2>1, <2>2, <2>3, <2>4, <2>5
<1>7. Applied' => Applied
  BY <1>6 DEF Applied
<1>8. Applied' => execErr' = execErr
  <2>1. execErr' # execErr => \E cause \in {"validation", "engine"} : StartFails(cause)
    BY DEF LaunchJob, QueueStep, NodeReturns, CancelExec, Interrupt, WatchdogWakes, ForceCleanup,
           WatchdogStops, StartQueue, Finish, Finished, engineVars, runVars
  <2>2. ASSUME NEW cause, StartFails(cause) PROVE ~Applied
    BY <2>2 DEF StartFails, Applied
  <2> QED
    BY <1>7, <2>1, <2>2
<1>9. CompleteCollectsAll'
  BY <1>1, <1>2, <1>4, <1>7, <1>8 DEF EndInv, CompleteCollectsAll
<1>10. ErrorHasCause'
  <2>1. CASE Finish
    <3>1. /\ phase = "applied" /\ runStatus' = ResultStatus /\ pc' = pc
          /\ interrupted' = interrupted /\ execErr' = execErr
      BY <2>1 DEF Finish, vars, queueVars
    <3>2. runStatus' # None
      BY <3>1, EngineAssumption DEF ResultStatus
    <3>3. pc = "done" => execErr # "validation"
      BY <3>1 DEF EndInv, ErrorHasCause, Applied
    <3>4. pc = "done" => (runStatus' = "error" <=> ~interrupted /\ execErr # "none")
      BY <3>1, <3>3 DEF ResultStatus
    <3> QED
      BY <1>3, <1>4, <1>7, <1>8, <3>1, <3>2, <3>4 DEF EndInv, ErrorHasCause
  <2>2. CASE ~Finish
    <3>1. runStatus' = runStatus /\ (phase' = "finished" => phase = "finished")
      BY <2>2 DEF LaunchJob, QueueStep, NodeReturns, CancelExec, Interrupt, WatchdogWakes,
           ForceCleanup, WatchdogStops, StartQueue, StartFails, Finished, engineVars, runVars
    <3>2. phase' = "finished" /\ pc' = "done" => Applied' /\ Applied
      BY <1>7 DEF Applied
    <3> QED
      BY <1>3, <1>4, <1>7, <1>8, <3>1, <3>2 DEF EndInv, ErrorHasCause, Applied
  <2> QED
    BY <2>1, <2>2
<1> QED
  BY <1>5, <1>9, <1>10 DEF EndInv

LEMMA EndNext == EndInv /\ [EngineNext]_engineVars => EndInv'
<1> SUFFICES ASSUME EndInv, [EngineNext]_engineVars PROVE EndInv'
  OBVIOUS
<1>1. EInv'
  BY EngineNextKeeps DEF EndInv
<1>2. CASE \E n \in Node : StepLogs(n) \/ StepFails(n) \/ ActEnds(n)
  BY <1>1, <1>2, EndJobStep
<1>3. CASE ApplyOutcomes
  BY <1>1, <1>3, EndApply
<1>4. CASE \/ LaunchJob \/ QueueStep \/ (\E n \in Node : NodeReturns(n)) \/ CancelExec \/ Interrupt
           \/ WatchdogWakes \/ ForceCleanup \/ WatchdogStops \/ StartQueue \/ Finish
           \/ (\E cause \in {"validation", "engine"} : StartFails(cause)) \/ Finished
           \/ UNCHANGED engineVars
  BY <1>1, <1>4, EndOtherStep
<1> QED
  BY <1>2, <1>3, <1>4 DEF EngineNext

(* --complete loses no failure and no error, whatever the attribution of   *)
(* log lines, and cancels nothing without the user.                        *)
THEOREM CompleteIsComplete == EngineSafety => []CompleteCollectsAll
<1>1. EndInv => CompleteCollectsAll
  BY DEF EndInv
<1> QED
  BY <1>1, EndInit, EndNext, PTL DEF EngineSafety

(* Whatever act returns, a run that started ends as on an internal error   *)
(* exactly if the error of a job is passed on or its evidence is lost.     *)
THEOREM ErrorsAreGenuine == EngineSafety => []ErrorIsGenuine
<1>1. EndInv => ErrorIsGenuine
  <2> SUFFICES ASSUME EndInv, phase = "finished", pc = "done"
               PROVE  ExitCode = 2 <=>
                         ~interrupted /\ (execErr = "evidence" \/ \E n \in Node : Kept(n))
    BY DEF ErrorIsGenuine
  <2>1. ExitCode = 2 <=> runStatus = "error"
    BY EngineAssumption DEF ExitCode, EndInv, ErrorHasCause, EInv, EngineTypeOK
  <2>2. execErr # "none" <=> execErr = "evidence" \/ \E n \in Node : Kept(n)
    BY DEF EndInv, ErrorHasCause, Applied, EInv, EngineTypeOK
  <2> QED
    BY <2>1, <2>2 DEF EndInv, ErrorHasCause
<1> QED
  BY <1>1, EndInit, EndNext, PTL DEF EngineSafety

----------------------------------------------------------------------------
(* A run that fails has met a step that failed.                            *)

(* Without the user, the first failure on record goes back to a step that  *)
(* nobody tolerates: only the cancellation that it triggers tears others   *)
(* down.                                                                   *)
RecordIsReal == Tolerant = {} /\ recorded # None /\ ~interrupted => broken # {}

(* A failed job has put a failure on record.                               *)
FailIsRecorded ==
    Applied => \A n \in Node : status[n] = "fail" => recorded # None

(* Only executeNode's results make a job fail: before them it is pending.  *)
PendingUntilApplied ==
    phase # "finished" /\ ~Applied => \A n \in Node : status[n] = "pending"

(* What Planning takes the queue and applyOutcomes to do to the scheduled  *)
(* jobs of a run without error.                                            *)
OutcomesAsPlanned ==
    Applied /\ execErr # "engine" =>
        \A n \in Node : status[n] \in {"pass", "fail", "skip", "cancelled"}

RealInv ==
    /\ RecordIsReal
    /\ FailIsRecorded
    /\ PendingUntilApplied
    /\ OutcomesAsPlanned
    /\ FailureIsReal

LEMMA RealInit == EngineInit => RealInv
<1> SUFFICES ASSUME EngineInit PROVE RealInv
  OBVIOUS
<1>1. RecordIsReal /\ FailIsRecorded /\ PendingUntilApplied /\ OutcomesAsPlanned
  BY DEF EngineInit, RecordIsReal, FailIsRecorded, PendingUntilApplied, OutcomesAsPlanned, Applied
<1>2. FailureIsReal
  BY EngineAssumption DEF EngineInit, FailureIsReal
<1> QED
  BY <1>1, <1>2 DEF RealInv

(* Inside a job a first failure is put on record by a step that fails, by  *)
(* a job with such a step, or by one that is torn down, and what tears it  *)
(* down is on record.                                                      *)
LEMMA RealJobStep ==
    ASSUME EInv, RealInv, NEW n \in Node, StepLogs(n) \/ StepFails(n) \/ ActEnds(n)
    PROVE  RealInv'
<1>1. /\ worker[n] = "executing"
      /\ UNCHANGED vars /\ UNCHANGED runVars
  BY DEF StepLogs, LogsAs, StepFails, FailsAs, ActEnds, Acting
<1>2. pc # "done" /\ ~Applied'
  BY <1>1, NoJobAfterReturn DEF Applied, vars, queueVars
<1>3. (recorded # None => recorded' # None) /\ broken \subseteq broken'
  <2>1. CASE StepLogs(n)
    BY <2>1 DEF StepLogs, LogsAs
  <2>2. CASE StepFails(n)
    BY <2>2 DEF StepFails, FailsAs, Record
  <2>3. CASE ActEnds(n)
    BY <2>3 DEF ActEnds, Record
  <2> QED
    BY <2>1, <2>2, <2>3
<1>4. RecordIsReal'
  <2> SUFFICES ASSUME Tolerant = {}, recorded' # None, recorded = None, ~interrupted
               PROVE  broken' # {}
    BY <1>1, <1>3 DEF RealInv, RecordIsReal, runVars
  <2>1. CASE StepLogs(n)
    BY <2>1 DEF StepLogs, LogsAs
  <2>2. CASE StepFails(n)
    BY <2>2 DEF StepFails, FailsAs
  <2>3. CASE ActEnds(n)
    <3>1. ~ctxDone
      BY DEF EInv, OnRecord
    <3>2. PICK end \in OwnEndings(n) :
              IF end.result = "failure" THEN Record(n, n) ELSE UNCHANGED <<recorded, canceller>>
      BY <2>3, <3>1 DEF ActEnds
    <3>3. end.result = "failure"
      BY <3>2
    <3>4. n \in broken
      BY <3>2, <3>3 DEF OwnEndings
    <3> QED
      BY <1>3, <3>4
  <2> QED
    BY <2>1, <2>2, <2>3
<1>5. FailIsRecorded' /\ PendingUntilApplied' /\ OutcomesAsPlanned'
  BY <1>1, <1>2 DEF RealInv, FailIsRecorded, PendingUntilApplied, OutcomesAsPlanned, Applied, runVars,
                    vars, queueVars
<1>6. FailureIsReal'
  BY <1>1, <1>3 DEF RealInv, FailureIsReal, runVars
<1> QED
  BY <1>4, <1>5, <1>6 DEF RealInv

(* The statuses: a job fails on a result that was put on record, or as the *)
(* first failure.                                                          *)
LEMMA RealApply ==
    ASSUME EInv, RealInv, ApplyOutcomes
    PROVE  RealInv'
<1>1. /\ UNCHANGED <<vars, interrupted, recorded, broken, result, runStatus>>
      /\ phase = "queue" /\ phase' = "applied" /\ pc = "done"
      /\ status' = [n \in Node |-> OutcomeStatus(n)]
  BY DEF ApplyOutcomes, actVars
<1>2. ASSUME NEW n \in Node, OutcomeStatus(n) = "fail" PROVE recorded # None
  <2>1. result[n] = "failure" \/ recorded = n
    BY <1>2 DEF OutcomeStatus, SilentStatus, EInv, EngineTypeOK
  <2> QED
    BY <2>1, EngineAssumption DEF EInv, OnRecord
<1>3. FailIsRecorded'
  BY <1>1, <1>2 DEF FailIsRecorded
<1>4. Applied'
  BY <1>1 DEF Applied, vars, queueVars
<1>5. RecordIsReal' /\ PendingUntilApplied'
  BY <1>1, <1>4 DEF RealInv, RecordIsReal, PendingUntilApplied
<1>6. runStatus' = None
  BY <1>1 DEF EInv, Phases
<1>7. FailureIsReal'
  BY <1>6, EngineAssumption DEF FailureIsReal
<1>8. OutcomesAsPlanned'
  <2> SUFFICES ASSUME execErr' # "engine", NEW n \in Node
               PROVE  OutcomeStatus(n) \in {"pass", "fail", "skip", "cancelled"}
    BY <1>1 DEF OutcomesAsPlanned
  <2>1. ~results[n].err
    BY DEF ApplyOutcomes
  <2> QED
    BY <2>1 DEF OutcomeStatus, FailureStatus, SilentStatus, EInv, EngineTypeOK
<1> QED
  BY <1>3, <1>5, <1>7, <1>8 DEF RealInv

(* The status of the run: fail is that of a job, or of a start that failed.*)
LEMMA RealFinish ==
    ASSUME EInv, RealInv, Finish
    PROVE  RealInv'
<1>1. /\ UNCHANGED <<vars, interrupted, recorded, broken, status, execErr>>
      /\ phase = "applied" /\ phase' = "finished" /\ runStatus' = ResultStatus
  BY DEF Finish, actVars
<1>2. RecordIsReal' /\ FailIsRecorded' /\ PendingUntilApplied' /\ OutcomesAsPlanned'
  BY <1>1 DEF RealInv, RecordIsReal, FailIsRecorded, PendingUntilApplied, OutcomesAsPlanned, Applied,
              vars, queueVars
<1>3. FailureIsReal'
  <2> SUFFICES ASSUME Tolerant = {}, ResultStatus = "fail", execErr # "validation" PROVE broken # {}
    BY <1>1 DEF FailureIsReal
  <2>1. ~interrupted /\ \E n \in Node : status[n] = "fail"
    BY DEF ResultStatus
  <2>2. recorded # None
    BY <1>1, <2>1 DEF RealInv, FailIsRecorded, PendingUntilApplied
  <2> QED
    BY <2>1, <2>2 DEF RealInv, RecordIsReal
<1> QED
  BY <1>2, <1>3 DEF RealInv

(* The other steps neither record a failure nor settle a status.           *)
LEMMA RealOtherStep ==
    ASSUME EInv, RealInv,
           LaunchJob \/ QueueStep \/ (\E n \in Node : NodeReturns(n)) \/ CancelExec \/ Interrupt
           \/ WatchdogWakes \/ ForceCleanup \/ WatchdogStops \/ StartQueue
           \/ (\E cause \in {"validation", "engine"} : StartFails(cause)) \/ Finished
           \/ UNCHANGED engineVars
    PROVE  RealInv'
<1>1. UNCHANGED <<recorded, broken, status, runStatus>> /\ (interrupted => interrupted')
  <2>1. CASE LaunchJob
    BY <2>1 DEF LaunchJob, runVars
  <2>2. CASE QueueStep \/ \E n \in Node : NodeReturns(n)
    <3>1. UNCHANGED <<runVars, actVars>>
      BY <2>2 DEF QueueStep, NodeReturns
    <3> QED
      BY <3>1 DEF actVars, runVars
  <2>3. CASE CancelExec \/ Interrupt
    BY <2>3 DEF CancelExec, Interrupt, actVars, runVars
  <2>4. CASE \/ WatchdogWakes \/ ForceCleanup \/ WatchdogStops \/ StartQueue
             \/ (\E cause \in {"validation", "engine"} : StartFails(cause)) \/ Finished
             \/ UNCHANGED engineVars
    BY <2>4 DEF WatchdogWakes, ForceCleanup, WatchdogStops, StartQueue, StartFails, Finished,
                engineVars, actVars, runVars
  <2> QED
    BY <2>1, <2>2, <2>3, <2>4
<1>2. execErr' = execErr \/ phase = "start"
  BY DEF LaunchJob, QueueStep, NodeReturns, CancelExec, Interrupt, WatchdogWakes, ForceCleanup,
         WatchdogStops, StartQueue, StartFails, Finished, engineVars, runVars
<1>3. phase' = phase \/ (phase = "start" /\ pc' = pc)
  BY DEF LaunchJob, QueueStep, NodeReturns, CancelExec, Interrupt, WatchdogWakes, ForceCleanup,
         WatchdogStops, StartQueue, StartFails, Finished, engineVars, runVars, vars, queueVars
<1>4. phase # "queue" => pc' = pc
  <2>1. CASE LaunchJob \/ QueueStep
    BY <2>1 DEF LaunchJob, QueueStep
  <2>2. CASE \E n \in Node : NodeReturns(n)
    BY <2>2 DEF NodeReturns, ExecReturns, queueVars
  <2>3. CASE CancelExec \/ Interrupt
    BY <2>3 DEF CancelExec, Interrupt, Cancel, vars, queueVars
  <2>4. CASE \/ WatchdogWakes \/ ForceCleanup \/ WatchdogStops \/ StartQueue
             \/ (\E cause \in {"validation", "engine"} : StartFails(cause)) \/ Finished
             \/ UNCHANGED engineVars
    BY <2>4 DEF WatchdogWakes, ForceCleanup, WatchdogStops, StartQueue, StartFails, Finished,
                engineVars, vars, queueVars
  <2> QED
    BY <2>1, <2>2, <2>3, <2>4
<1>5. Applied' => Applied
  BY <1>3, <1>4 DEF EInv, Phases, Applied
<1>6. RecordIsReal' /\ FailIsRecorded' /\ OutcomesAsPlanned'
  BY <1>1, <1>2, <1>5 DEF RealInv, RecordIsReal, FailIsRecorded, OutcomesAsPlanned, Applied
<1>7. PendingUntilApplied'
  <2> SUFFICES ASSUME phase' # "finished", ~Applied', Applied PROVE FALSE
    BY <1>1, <1>3 DEF RealInv, PendingUntilApplied
  <2> QED
    BY <1>3, <1>4 DEF Applied
<1>8. FailureIsReal'
  <2>1. phase = "start" => runStatus' # "fail"
    BY <1>1, EngineAssumption DEF EInv, Phases
  <2> QED
    BY <1>1, <1>2, <2>1 DEF RealInv, FailureIsReal
<1> QED
  BY <1>6, <1>7, <1>8 DEF RealInv

LEMMA RealNext == EInv /\ RealInv /\ [EngineNext]_engineVars => RealInv'
BY RealJobStep, RealApply, RealFinish, RealOtherStep DEF EngineNext

(* When no step is tolerated, only a step that failed makes greenrun       *)
(* answer with a failure, which blocks a push: neither the user, nor the   *)
(* tearing down, nor an error of the engine does, whatever the attribution *)
(* of log lines.                                                           *)
THEOREM FailuresAreReal == EngineSafety => []FailureIsReal
<1>1. RealInv => FailureIsReal
  BY DEF RealInv
<1> QED
  BY <1>1, RealInit, RealNext, EngineInvariance, PTL DEF EngineSafety

(* Planning takes a run without an error of the engine to give each        *)
(* scheduled job one of four statuses; the engine does, whatever becomes   *)
(* of the jobs: none of them stays pending, and none is in error.          *)
THEOREM EngineKeepsToThePlan == EngineSafety => []OutcomesAsPlanned
<1>1. RealInv => OutcomesAsPlanned
  BY DEF RealInv
<1> QED
  BY <1>1, RealInit, RealNext, EngineInvariance, PTL DEF EngineSafety

----------------------------------------------------------------------------
(* When the callers of reusable workflows share no child and no step is    *)
(* tolerated, the first failure on record is a job that failed.  Neither   *)
(* assumption can be dropped: two runs of MCEngine show what happens then. *)

Clean ==
    /\ Tolerant = {}
    /\ OwnChildren

FirstIsReal ==
    /\ recorded # None => /\ recorded \in Node
                          /\ recorded \in broken \/ result[recorded] = "failure"
                          /\ worker[recorded] # "idle"
    /\ \A n \in Node : n \notin ended => result[n] = "none"
    /\ \A n \in broken : result[n] \in {"failure", "none"}

(* Once the outcomes are applied every job has a status, and a job in      *)
(* error has left its error to Execute.                                    *)
StatusesGiven ==
    Applied => \A n \in Node : /\ status[n] # "pending"
                               /\ status[n] = "error" => execErr = "engine"

CleanInv ==
    /\ EInv
    /\ FirstIsReal
    /\ StatusesGiven
    /\ FirstFailureReported
    /\ PassMeansAllRan

(* Initially no failure is on record.                                      *)
LEMMA CleanInit == EngineInit => CleanInv
<1> SUFFICES ASSUME EngineInit PROVE CleanInv
  OBVIOUS
<1>1. EInv
  BY EngineInitInv
<1>2. FirstIsReal /\ StatusesGiven /\ FirstFailureReported
  BY DEF EngineInit, FirstIsReal, StatusesGiven, FirstFailureReported, Applied
<1>3. PassMeansAllRan
  BY EngineAssumption DEF EngineInit, PassMeansAllRan
<1> QED
  BY <1>1, <1>2, <1>3 DEF CleanInv

(* Under Clean, a failure that is put on record is that of a job that runs *)
(* and is really broken.                                                   *)
LEMMA CleanJobStep ==
    ASSUME Clean, CleanInv, NEW n \in Node, StepLogs(n) \/ StepFails(n) \/ ActEnds(n), EInv'
    PROVE  CleanInv'
<1>1. worker[n] = "executing" /\ n \notin ended /\ worker' = worker
  BY DEF StepLogs, LogsAs, StepFails, FailsAs, ActEnds, Acting, vars
<1>2. UNCHANGED vars /\ UNCHANGED runVars
  BY DEF StepLogs, LogsAs, StepFails, FailsAs, ActEnds
<1>3. n # None
  BY EngineAssumption
<1>4. FirstIsReal'
  <2>1. CASE StepLogs(n)
    BY <1>1, <2>1 DEF StepLogs, LogsAs, CleanInv, FirstIsReal
  <2>2. CASE StepFails(n)
    <3>1. broken' = broken \cup {n}
      BY <2>2 DEF StepFails, FailsAs, Clean
    <3>2. ended' = ended /\ result' = result
      BY <2>2 DEF StepFails, FailsAs
    <3>3. recorded' = IF recorded = None THEN n ELSE recorded
      BY <2>2, OwnLines DEF StepFails, FailsAs, Clean, Record
    <3>4. result[n] = "none"
      BY <1>1 DEF CleanInv, FirstIsReal
    <3> QED
      BY <1>1, <3>1, <3>2, <3>3, <3>4 DEF CleanInv, FirstIsReal
  <2>3. CASE ActEnds(n)
    <3>1. PICK end \in IF ctxDone THEN TeardownEndings(n) ELSE OwnEndings(n) :
             /\ result' = [result EXCEPT ![n] = end.result]
             /\ IF end.result = "failure" THEN Record(n, n) ELSE UNCHANGED <<recorded, canceller>>
      BY <2>3 DEF ActEnds
    <3>2. ended' = ended \cup {n} /\ broken' = broken
      BY <2>3 DEF ActEnds
    <3>3. \A m \in Node : result'[m] = IF m = n THEN end.result ELSE result[m]
      BY <3>1 DEF CleanInv, EInv, EngineTypeOK
    <3>4. n \in broken => end.result \in {"failure", "none"}
      BY DEF OwnEndings, TeardownEndings, Failure
    <3>5. recorded' = IF recorded = None /\ end.result = "failure" THEN n ELSE recorded
      BY <3>1 DEF Record
    <3>6. recorded = n => n \in broken
      <4>1. result[n] = "none"
        BY <1>1 DEF CleanInv, FirstIsReal
      <4> QED
        BY <1>3, <4>1 DEF CleanInv, FirstIsReal
    <3>7. broken \subseteq Node
      BY DEF CleanInv, EInv, EngineTypeOK
    <3> QED
      BY <1>1, <3>2, <3>3, <3>4, <3>5, <3>6, <3>7 DEF CleanInv, FirstIsReal
  <2> QED
    BY <2>1, <2>2, <2>3
<1>5. FirstFailureReported' /\ StatusesGiven'
  <2>1. ~Applied'
    BY <1>1, <1>2, NoJobAfterReturn DEF Applied, vars, queueVars, CleanInv
  <2> QED
    BY <2>1 DEF FirstFailureReported, StatusesGiven
<1>6. PassMeansAllRan'
  BY <1>1, <1>2 DEF CleanInv, PassMeansAllRan, runVars
<1> QED
  BY <1>4, <1>5, <1>6 DEF CleanInv

(* The dispatcher and the return of a job leave statuses alone.            *)
LEMMA CleanQueueStep ==
    ASSUME CleanInv, LaunchJob \/ QueueStep \/ (\E n \in Node : NodeReturns(n)), EInv'
    PROVE  CleanInv'
<1>1. /\ UNCHANGED runVars
      /\ UNCHANGED <<ended, result, broken, recorded>>
  BY DEF LaunchJob, QueueStep, NodeReturns, actVars
<1>2. \A m \in Node : worker[m] # "idle" => worker'[m] # "idle"
  <2>1. CASE LaunchJob
    BY <2>1 DEF LaunchJob, Launch, CleanInv, EInv, Inv, TypeOK
  <2>2. CASE QueueStep
    BY <2>2 DEF QueueStep, Dispatch, PassOver, EndScan, Return, Receive, Release, KeepResult, Unblock, CleanInv, EInv, Inv, TypeOK
  <2>3. CASE \E n \in Node : NodeReturns(n)
    BY <2>3 DEF NodeReturns, ExecReturns, CleanInv, EInv, Inv, TypeOK
  <2> QED
    BY <2>1, <2>2, <2>3
<1>3. FirstIsReal'
  BY <1>1, <1>2 DEF CleanInv, FirstIsReal
<1>4. FirstFailureReported' /\ StatusesGiven' /\ PassMeansAllRan'
  <2>1. CASE LaunchJob \/ QueueStep
    <3>1. phase = "queue" /\ phase' = "queue"
      BY <1>1, <2>1 DEF LaunchJob, QueueStep, runVars
    <3>2. runStatus' = None
      BY <1>1, <3>1 DEF CleanInv, EInv, Phases, runVars
    <3> QED
      BY <3>1, <3>2, EngineAssumption DEF FirstFailureReported, StatusesGiven, PassMeansAllRan, Applied
  <2>2. CASE \E n \in Node : NodeReturns(n)
    <3>1. PICK n \in Node : NodeReturns(n)
      BY <2>2
    <3>2. worker[n] = "executing" /\ pc' = pc
      BY <3>1 DEF NodeReturns, ExecReturns, queueVars
    <3>3. pc # "done"
      BY <3>2, NoJobAfterReturn DEF CleanInv
    <3>4. runStatus' # "pass"
      BY <1>1, <3>2 DEF CleanInv, PassMeansAllRan, runVars
    <3> QED
      BY <3>2, <3>3, <3>4 DEF FirstFailureReported, StatusesGiven, PassMeansAllRan, Applied
  <2> QED
    BY <2>1, <2>2
<1> QED
  BY <1>3, <1>4 DEF CleanInv

(* The steps that touch neither jobs nor statuses.                         *)
LEMMA CleanOtherStep ==
    ASSUME CleanInv,
           CancelExec \/ Interrupt \/ WatchdogWakes \/ ForceCleanup \/ WatchdogStops \/ StartQueue
           \/ (\E cause \in {"validation", "engine"} : StartFails(cause)) \/ Finished
           \/ UNCHANGED engineVars,
           EInv'
    PROVE  CleanInv'
<1>1. /\ UNCHANGED <<queueVars, worker>>
      /\ UNCHANGED <<ended, result, broken, recorded, status, runStatus>>
  BY DEF CancelExec, Interrupt, Cancel, WatchdogWakes, ForceCleanup, WatchdogStops, StartQueue,
         StartFails, Finished, vars, engineVars, runVars, actVars
<1>2. FirstIsReal' /\ PassMeansAllRan'
  BY <1>1 DEF CleanInv, FirstIsReal, PassMeansAllRan
<1>3. Applied' => Applied
  <2>1. phase = "start" => pc' # "done"
    BY <1>1 DEF CleanInv, EInv, Phases, queueVars
  <2>2. phase' = phase \/ phase = "start"
    BY DEF CancelExec, Interrupt, WatchdogWakes, ForceCleanup, WatchdogStops, StartQueue,
           StartFails, Finished, engineVars, runVars
  <2> QED
    BY <1>1, <2>1, <2>2 DEF Applied, queueVars, CleanInv, EInv, EngineTypeOK
<1>4. Applied => execErr' = execErr
  BY DEF CancelExec, Interrupt, WatchdogWakes, ForceCleanup, WatchdogStops, StartQueue,
         StartFails, Finished, engineVars, runVars, Applied
<1>5. FirstFailureReported' /\ StatusesGiven'
  BY <1>1, <1>3, <1>4 DEF CleanInv, FirstFailureReported, StatusesGiven
<1> QED
  BY <1>2, <1>5 DEF CleanInv

(* The outcome mapping reports the recorded first failure as failed.       *)
LEMMA CleanApply ==
    ASSUME CleanInv, ApplyOutcomes, EInv'
    PROVE  CleanInv'
<1>1. /\ UNCHANGED <<worker, ended, result, broken, recorded, runStatus>>
      /\ pc = "done" /\ phase = "queue"
      /\ status' = [n \in Node |-> OutcomeStatus(n)]
  BY DEF ApplyOutcomes, vars, actVars
<1>2. FirstIsReal'
  BY <1>1 DEF CleanInv, FirstIsReal
<1>3. ASSUME recorded # None
      PROVE  \E n \in Node : status'[n] = "fail"
  <2>1. recorded \in Node /\ worker[recorded] # "idle" /\ result[recorded] \in {"failure", "none"}
    BY <1>3 DEF CleanInv, FirstIsReal
  <2>2. results[recorded].dispatched
    BY <2>1 DEF CleanInv, EInv, Inv, ResultsFaithful
  <2>3. OutcomeStatus(recorded) = "fail"
    BY <2>1, <2>2 DEF OutcomeStatus, FailureStatus, SilentStatus
  <2> QED
    BY <1>1, <2>1, <2>3
<1>4. FirstFailureReported'
  BY <1>1, <1>3 DEF FirstFailureReported
<1>5. PassMeansAllRan'
  <2>1. runStatus' = None
    BY <1>1 DEF CleanInv, EInv, Phases
  <2> QED
    BY <2>1, EngineAssumption DEF PassMeansAllRan
<1>6. StatusesGiven'
  <2>1. ASSUME NEW n \in Node
        PROVE  OutcomeStatus(n) # "pending" /\ (OutcomeStatus(n) = "error" => results[n].err)
    <3>1. result[n] \in {"none", "success", "failure", "skipped"}
      BY DEF CleanInv, EInv, EngineTypeOK
    <3>2. FailureStatus(n) \in {"fail", "cancelled"}
      BY DEF FailureStatus
    <3>3. /\ SilentStatus(n) \in {"fail", "cancelled", "error", "pass", "skip"}
          /\ SilentStatus(n) = "error" => results[n].err
      BY DEF SilentStatus
    <3> QED
      BY <3>1, <3>2, <3>3 DEF OutcomeStatus
  <2>3. (\E n \in Node : results[n].err) => execErr' = "engine"
    BY DEF ApplyOutcomes
  <2> QED
    BY <1>1, <2>1, <2>3 DEF StatusesGiven
<1> QED
  BY <1>2, <1>4, <1>5, <1>6 DEF CleanInv

(* A run that is settled as passed had no failure on record, hence nothing *)
(* stopped its queue, hence every job completed.                           *)
LEMMA CleanFinish ==
    ASSUME CleanInv, Finish, EInv'
    PROVE  CleanInv'
<1>1. /\ UNCHANGED <<worker, ended, result, broken, recorded, status, execErr, interrupted, pc>>
      /\ phase = "applied"
      /\ runStatus' = ResultStatus
  BY DEF Finish, vars, queueVars, actVars
<1>2. FirstIsReal'
  BY <1>1 DEF CleanInv, FirstIsReal
<1>3. FirstFailureReported' /\ StatusesGiven'
  BY <1>1 DEF CleanInv, FirstFailureReported, StatusesGiven, Applied
<1>4. ASSUME runStatus' = "pass"
      PROVE  /\ ~LeftOut
             /\ \A n \in Node : status[n] \in {"pass", "skip"} /\ worker[n] = "gone" /\ n \notin broken
  <2>1. ~LeftOut /\ ~interrupted /\ execErr = "none" /\ \A n \in Node : status[n] # "fail"
    BY <1>1, <1>4 DEF ResultStatus, CleanInv, EInv, EngineTypeOK
  <2>2. pc = "done" /\ Applied
    BY <1>1, <2>1 DEF CleanInv, EInv, Phases, Applied
  <2>3. recorded = None
    BY <2>1, <2>2 DEF CleanInv, FirstFailureReported
  <2>4. \A n \in Node : n \notin broken /\ result[n] # "failure"
    BY <2>3 DEF CleanInv, EInv, OnRecord
  <2>5. ~ctxDone
    BY <2>1, <2>3 DEF CleanInv, EInv, OnRecord
  <2>6. ~failed
    <3>1. \A n \in Node : results[n].failed => worker[n] = "gone"
      BY DEF CleanInv, EInv, Inv, ResultsFaithful
    <3>2. \A n \in Node : ~results[n].failed
      BY <2>4, <3>1 DEF CleanInv, EInv, Linked
    <3> QED
      BY <3>2 DEF CleanInv, EInv, Inv, ResultsFaithful
  <2>7. Completed = Node
    BY <2>2, <2>5, <2>6 DEF CleanInv, EInv, Inv, ReturnsDrained, Stopping
  <2>8. \A n \in Node : status[n] # "cancelled"
    BY <2>1, <2>2, <2>3 DEF CleanInv, EInv, CancelledHasCause
  <2>9. \A n \in Node : status[n] \notin {"pending", "error"}
    BY <2>1, <2>2 DEF CleanInv, StatusesGiven
  <2>10. \A n \in Node : status[n] \in {"pass", "skip"}
    BY <2>1, <2>8, <2>9 DEF CleanInv, EInv, EngineTypeOK
  <2> QED
    BY <2>1, <2>4, <2>7, <2>10 DEF Completed
<1>5. PassMeansAllRan'
  BY <1>1, <1>4 DEF PassMeansAllRan
<1> QED
  BY <1>2, <1>3, <1>5 DEF CleanInv

(* Under Clean, every step keeps the invariant with its strengthened part. *)
LEMMA CleanNext ==
    ASSUME Clean, CleanInv, [EngineNext]_engineVars
    PROVE  CleanInv'
<1>1. EInv'
  BY EngineNextKeeps DEF CleanInv
<1>2. CASE \E n \in Node : StepLogs(n) \/ StepFails(n) \/ ActEnds(n)
  BY <1>1, <1>2, CleanJobStep
<1>3. CASE LaunchJob \/ QueueStep \/ \E n \in Node : NodeReturns(n)
  BY <1>1, <1>3, CleanQueueStep
<1>4. CASE ApplyOutcomes
  BY <1>1, <1>4, CleanApply
<1>5. CASE Finish
  BY <1>1, <1>5, CleanFinish
<1>6. CASE \/ CancelExec \/ Interrupt \/ WatchdogWakes \/ ForceCleanup \/ WatchdogStops \/ StartQueue
           \/ \E cause \in {"validation", "engine"} : StartFails(cause)
           \/ Finished
           \/ UNCHANGED engineVars
  BY <1>1, <1>6, CleanOtherStep
<1> QED
  BY <1>2, <1>3, <1>4, <1>5, <1>6 DEF EngineNext

(* Under Clean, the run that recorded a first failure reports a failed     *)
(* job: no failure is lost in the teardown it triggers.                    *)
THEOREM FirstFailureIsReported ==
    ASSUME Clean PROVE EngineSafety => []FirstFailureReported
<1>1. CleanInv => FirstFailureReported
  BY DEF CleanInv
<1> QED
  BY <1>1, CleanInit, CleanNext, PTL DEF EngineSafety

(* Under Clean, a run passes only when every scheduled job was dispatched, *)
(* completed, and none failed.                                             *)
THEOREM PassIsEarned ==
    ASSUME Clean PROVE EngineSafety => []PassMeansAllRan
<1>1. CleanInv => PassMeansAllRan
  BY DEF CleanInv
<1> QED
  BY <1>1, CleanInit, CleanNext, PTL DEF EngineSafety

----------------------------------------------------------------------------
(* Why a cancelled fail-fast run ends, whatever act does.                  *)

PhasesAhead ==
    [start |-> {"queue", "applied", "finished"}, queue |-> {"applied", "finished"},
     applied |-> {"finished"}, finished |-> {}]

WatchdogAhead ==
    [armed |-> {"timing", "fired", "off"}, timing |-> {"fired", "off"}, fired |-> {}, off |-> {}]

(* What becomes of the first failure: it is recorded, then it cancels.     *)
FailureAhead ==
    IF recorded = None THEN {"recorded", "cancelled"}
    ELSE IF canceller # None THEN {"cancelled"} ELSE {}

(* The contexts that are not done yet.                                     *)
ContextsAhead == (IF interrupted THEN {} ELSE {"user"}) \cup (IF ctxDone THEN {} ELSE {"exec"})

(* What a run has before it, apart from what its jobs have.                *)
RunLeft ==
    <<Node \ ended, PhasesAhead[phase], WatchdogAhead[watchdog], FailureAhead, ContextsAhead>>

(* No step takes any of it back, and between two steps that leave less to  *)
(* do the dispatcher only gets nearer to where it waits.                   *)
NothingReturns ==
    /\ Left' \subseteq Left
    /\ \A i \in 1 .. 5 : RunLeft'[i] \subseteq RunLeft[i]
    /\ UNCHANGED <<Left, RunLeft>> => ToScan' <= ToScan

(* A step that leaves as much to do is one of act inside a job, and leaves *)
(* everything as it was that the runtime's steps depend on.                *)
AdvancesOrWorks ==
    \/ <<Left, RunLeft>>' # <<Left, RunLeft>>
    \/ ToScan' < ToScan
    \/ UNCHANGED <<vars, runVars, ended, error, result, recorded, canceller, doomed>>

(* The runtime has a step to take, or act one that it cannot put off.      *)
RunMoves ==
    \/ phase \in {"start", "applied"}
    \/ pc \in {"dispatch", "scan", "done"}
    \/ pc = "await" /\ (running = 0 \/ \E n \in Node : worker[n] = "sending")
    \/ canceller # None
    \/ watchdog = "timing" \/ (watchdog = "armed" /\ ctxDone)
    \/ \E n \in Node : worker[n] = "executing" /\ (n \in ended \/ n \in doomed)

(* A run only ever waits for act inside a job, and a fail-fast run that    *)
(* failed or was cancelled not even for that.                              *)
OnlyWaitsForAct ==
    phase # "finished" /\ ~RunMoves =>
        /\ \E n \in Node : Acting(n)
        /\ ~(FailFast /\ (ctxDone \/ recorded # None))

(* The first failure is about to cancel or has cancelled; the watchdog is  *)
(* there while the queue is, and the fired timer leaves no job that act    *)
(* can keep running.                                                       *)
Watched ==
    FailFast =>
        /\ recorded # None => canceller # None \/ ctxDone
        /\ watchdog = "off" => pc = "done"
        /\ watchdog \in {"timing", "fired"} => ctxDone
        /\ watchdog = "fired" => \A n \in Node : worker[n] = "executing" => n \in doomed

(* The sets are told apart by what they hold.                              *)
LEMMA AheadFacts ==
    /\ "queue" \in PhasesAhead.start /\ PhasesAhead.finished = {}
    /\ PhasesAhead.queue \subseteq PhasesAhead.start /\ "queue" \notin PhasesAhead.queue
    /\ PhasesAhead.applied \subseteq PhasesAhead.queue
    /\ "applied" \in PhasesAhead.queue /\ "applied" \notin PhasesAhead.applied
    /\ "finished" \in PhasesAhead.applied
    /\ WatchdogAhead.timing \subseteq WatchdogAhead.armed
    /\ "timing" \in WatchdogAhead.armed /\ "timing" \notin WatchdogAhead.timing
    /\ "off" \in WatchdogAhead.timing /\ "off" \in WatchdogAhead.armed
    /\ WatchdogAhead.fired = {} /\ WatchdogAhead.off = {}
BY DEF PhasesAhead, WatchdogAhead

(* If some part of what is left changes, so does the whole.                *)
LEMMA PartsDiffer ==
    ASSUME \/ Left' # Left \/ Node \ ended' # Node \ ended
           \/ PhasesAhead[phase'] # PhasesAhead[phase] \/ WatchdogAhead[watchdog'] # WatchdogAhead[watchdog]
           \/ FailureAhead' # FailureAhead \/ ContextsAhead' # ContextsAhead
    PROVE  <<Left, RunLeft>>' # <<Left, RunLeft>>
BY DEF RunLeft

(* What a step of act does to the record of the first failure.             *)
LEMMA RecordGoesAhead ==
    ASSUME NEW n \in Node, NEW id \in Node \cup {Orphan}, Record(id, n)
    PROVE  /\ FailureAhead' \subseteq FailureAhead
           /\ FailureAhead' # FailureAhead \/ UNCHANGED <<recorded, canceller>>
<1>1. CASE recorded = None
  <2>1. recorded' # None
    BY <1>1, EngineAssumption DEF Record
  <2> QED
    BY <1>1, <2>1 DEF FailureAhead
<1>2. CASE recorded # None
  BY <1>2 DEF Record, FailureAhead
<1> QED
  BY <1>1, <1>2

(* Steps that do not concern the queue leave it as far as it was.          *)
LEMMA QueueStays ==
    ASSUME UNCHANGED vars
    PROVE  Left' = Left /\ ToScan' = ToScan /\ ctxDone' = ctxDone
BY DEF vars, queueVars, Left, ToScan

(* A step of act, or of the collector.                                     *)
LEMMA JobGoesOn ==
    ASSUME EInv, NEW n \in Node, StepLogs(n) \/ StepFails(n) \/ ActEnds(n)
    PROVE  NothingReturns /\ AdvancesOrWorks
<1>1. UNCHANGED vars /\ UNCHANGED runVars /\ n \notin ended
  BY DEF StepLogs, LogsAs, StepFails, FailsAs, ActEnds, Acting
<1>2. Left' = Left /\ ToScan' = ToScan /\ ctxDone' = ctxDone /\ ToScan' <= ToScan
  <2>1. Left' = Left /\ ToScan' = ToScan /\ ctxDone' = ctxDone
    BY <1>1, QueueStays
  <2>2. ToScan \in Int
    BY DEF ToScan, EInv, Inv, TypeOK
  <2> QED
    BY <2>1, <2>2
<1>3. /\ phase' = phase /\ watchdog' = watchdog /\ ContextsAhead' = ContextsAhead
  BY <1>1, <1>2 DEF runVars, ContextsAhead
<1>4. ASSUME ended \subseteq ended', FailureAhead' \subseteq FailureAhead
      PROVE  NothingReturns
  BY <1>2, <1>3, <1>4 DEF NothingReturns, RunLeft
<1>5. Attribution[n] \subseteq Node \cup {Orphan}
  BY AttributionTypes
<1>6. CASE StepLogs(n)
  <2>1. UNCHANGED <<ended, error, result, recorded, canceller, doomed>>
    BY <1>6 DEF StepLogs, LogsAs
  <2>2. NothingReturns
    BY <1>4, <2>1 DEF FailureAhead
  <2> QED
    BY <1>1, <2>1, <2>2 DEF AdvancesOrWorks
<1>7. CASE StepFails(n)
  <2>1. PICK id \in Attribution[n] : FailsAs(n, id)
    BY <1>7 DEF StepFails
  <2>2. UNCHANGED <<ended, error, result, doomed>> /\ Record(id, n)
    BY <2>1 DEF FailsAs
  <2>3. /\ FailureAhead' \subseteq FailureAhead
        /\ FailureAhead' # FailureAhead \/ UNCHANGED <<recorded, canceller>>
    BY <1>5, <2>1, <2>2, RecordGoesAhead
  <2>4. NothingReturns
    BY <1>4, <2>2, <2>3
  <2> QED
    BY <1>1, <2>2, <2>3, <2>4, PartsDiffer DEF AdvancesOrWorks
<1>8. CASE ActEnds(n)
  <2>1. ended' = ended \cup {n} /\ (Record(n, n) \/ UNCHANGED <<recorded, canceller>>)
    BY <1>8 DEF ActEnds
  <2>2. FailureAhead' \subseteq FailureAhead
    <3>1. CASE Record(n, n)
      BY <3>1, RecordGoesAhead
    <3>2. CASE UNCHANGED <<recorded, canceller>>
      BY <3>2 DEF FailureAhead
    <3> QED
      BY <2>1, <3>1, <3>2
  <2>3. NothingReturns
    BY <1>4, <2>1, <2>2
  <2>4. Node \ ended' # Node \ ended
    BY <1>1, <2>1
  <2> QED
    BY <2>3, <2>4, PartsDiffer DEF AdvancesOrWorks
<1> QED
  BY <1>6, <1>7, <1>8

(* A step of the queue, in the engine: the dispatcher's, the return of a   *)
(* job, or a cancellation.                                                 *)
LEMMA QueueGoesAhead ==
    ASSUME EInv, ScanInside,
           LaunchJob \/ QueueStep \/ (\E n \in Node : NodeReturns(n))
    PROVE  NothingReturns /\ AdvancesOrWorks
<1>1. Dispatcher \/ \E n \in Node, out \in Outcome : ExecReturns(n, out)
  <2>1. ASSUME NEW n \in Node, NodeReturns(n)
        PROVE  \E out \in Outcome : ExecReturns(n, out)
    <3> DEFINE out == [failed |-> result[n] = "failure", err |-> Kept(n)]
    <3>1. out \in Outcome /\ ExecReturns(n, out)
      BY <2>1 DEF NodeReturns, Kept, Outcome
    <3> QED
      BY <3>1
  <2> QED
    BY <2>1 DEF LaunchJob, QueueStep, Dispatcher
<1>2. QueueAdvances
  BY <1>1, StepAdvances DEF EInv
<1>3. UNCHANGED <<runVars, ended, recorded, canceller>> /\ ctxDone' = ctxDone
  BY DEF LaunchJob, QueueStep, NodeReturns, actVars, Launch, Dispatch, PassOver, EndScan, Return,
         Receive, ExecReturns
<1>4. RunLeft' = RunLeft
  BY <1>3 DEF RunLeft, runVars, FailureAhead, ContextsAhead
<1>5. Left' \subseteq Left /\ (Left' = Left => ToScan' < ToScan)
  BY <1>2, <1>3 DEF QueueAdvances
<1>6. ToScan \in Int /\ ToScan' \in Int
  <2>1. Inv'
    BY <1>1, NextKeeps DEF EInv, Next
  <2> QED
    BY <2>1 DEF ToScan, EInv, Inv, TypeOK
<1>7. NothingReturns
  BY <1>4, <1>5, <1>6 DEF NothingReturns
<1>8. AdvancesOrWorks
  BY <1>5, PartsDiffer DEF AdvancesOrWorks
<1> QED
  BY <1>7, <1>8

(* Everything else: the contexts, the watchdog and the phases of the run.  *)
LEMMA RestGoesOn ==
    ASSUME EInv,
           \/ \E cause \in {"validation", "engine"} : StartFails(cause)
           \/ StartQueue \/ CancelExec \/ Interrupt
           \/ WatchdogWakes \/ ForceCleanup \/ WatchdogStops \/ ApplyOutcomes \/ Finish
    PROVE  NothingReturns /\ AdvancesOrWorks
<1>1. Left' = Left /\ ToScan' = ToScan /\ ToScan' <= ToScan
  <2>1. UNCHANGED vars \/ Cancel
    BY DEF StartFails, StartQueue, CancelExec, Interrupt, WatchdogWakes, ForceCleanup, WatchdogStops,
           ApplyOutcomes, Finish
  <2>2. Left' = Left /\ ToScan' = ToScan
    BY <2>1, QueueStays DEF Cancel, queueVars, Left, ToScan
  <2>3. ToScan \in Int
    BY DEF ToScan, EInv, Inv, TypeOK
  <2> QED
    BY <2>2, <2>3
<1>2. ended' = ended /\ recorded' = recorded
  BY DEF StartFails, StartQueue, CancelExec, Interrupt, WatchdogWakes, ForceCleanup, WatchdogStops,
         ApplyOutcomes, Finish, actVars
<1>3. CASE CancelExec \/ Interrupt
  <2>1. phase' = phase /\ watchdog' = watchdog /\ ContextsAhead' \subseteq ContextsAhead
    BY <1>3 DEF CancelExec, Interrupt, Cancel, vars, runVars, ContextsAhead
  <2>2. /\ FailureAhead' \subseteq FailureAhead
        /\ FailureAhead' # FailureAhead \/ ContextsAhead' # ContextsAhead
    <3>1. CASE CancelExec
      BY <1>2, <3>1 DEF CancelExec, FailureAhead, EInv, OnRecord
    <3>2. CASE Interrupt
      <4>1. interrupted = FALSE /\ interrupted' = TRUE /\ canceller' = canceller
        BY <3>2 DEF Interrupt, actVars, EInv, EngineTypeOK
      <4> QED
        BY <1>2, <4>1 DEF FailureAhead, ContextsAhead
    <3> QED
      BY <1>3, <3>1, <3>2
  <2> QED
    BY <1>1, <1>2, <2>1, <2>2, PartsDiffer DEF NothingReturns, RunLeft, AdvancesOrWorks
<1>4. CASE WatchdogWakes \/ ForceCleanup \/ WatchdogStops
  <2>1. phase' = phase /\ FailureAhead' = FailureAhead /\ ContextsAhead' = ContextsAhead
    BY <1>4 DEF WatchdogWakes, ForceCleanup, WatchdogStops, vars, actVars, FailureAhead, ContextsAhead
  <2>2. /\ WatchdogAhead[watchdog'] \subseteq WatchdogAhead[watchdog]
        /\ WatchdogAhead[watchdog'] # WatchdogAhead[watchdog]
    BY <1>4, AheadFacts DEF WatchdogWakes, ForceCleanup, WatchdogStops
  <2> QED
    BY <1>1, <1>2, <2>1, <2>2, PartsDiffer DEF NothingReturns, RunLeft, AdvancesOrWorks
<1>5. CASE \/ \E cause \in {"validation", "engine"} : StartFails(cause)
           \/ StartQueue \/ ApplyOutcomes \/ Finish
  <2>1. watchdog' = watchdog /\ FailureAhead' = FailureAhead /\ ContextsAhead' = ContextsAhead
    BY <1>5 DEF StartFails, StartQueue, ApplyOutcomes, Finish, vars, actVars, FailureAhead, ContextsAhead
  <2>2. /\ PhasesAhead[phase'] \subseteq PhasesAhead[phase]
        /\ PhasesAhead[phase'] # PhasesAhead[phase]
    BY <1>5, AheadFacts DEF StartFails, StartQueue, ApplyOutcomes, Finish
  <2> QED
    BY <1>1, <1>2, <2>1, <2>2, PartsDiffer DEF NothingReturns, RunLeft, AdvancesOrWorks
<1> QED
  BY <1>3, <1>4, <1>5

LEMMA RunGoesOn == EInv /\ ScanInside /\ [EngineNext]_engineVars => NothingReturns /\ AdvancesOrWorks
<1> SUFFICES ASSUME EInv, ScanInside, [EngineNext]_engineVars PROVE NothingReturns /\ AdvancesOrWorks
  OBVIOUS
<1>1. CASE \E n \in Node : StepLogs(n) \/ StepFails(n) \/ ActEnds(n)
  BY <1>1, JobGoesOn
<1>2. CASE LaunchJob \/ QueueStep \/ \E n \in Node : NodeReturns(n)
  BY <1>2, QueueGoesAhead
<1>3. CASE \/ \E cause \in {"validation", "engine"} : StartFails(cause)
           \/ StartQueue \/ CancelExec \/ Interrupt
           \/ WatchdogWakes \/ ForceCleanup \/ WatchdogStops \/ ApplyOutcomes \/ Finish
  BY <1>3, RestGoesOn
<1>4. CASE UNCHANGED engineVars
  <2>1. Left' = Left /\ ToScan' = ToScan /\ ToScan' <= ToScan
    <3>1. ToScan \in Int
      BY DEF ToScan, EInv, Inv, TypeOK
    <3> QED
      BY <1>4, <3>1, QueueStays DEF engineVars
  <2>2. RunLeft' = RunLeft
    BY <1>4 DEF engineVars, vars, runVars, actVars, RunLeft, FailureAhead, ContextsAhead
  <2> QED
    BY <1>4, <2>1, <2>2 DEF NothingReturns, AdvancesOrWorks, engineVars, actVars
<1> QED
  BY <1>1, <1>2, <1>3, <1>4 DEF EngineNext, Finished

LEMMA EngineStaysInside == EngineSafety => []ScanInside
BY EngineRunsTheQueue, ScanStaysInside, PTL DEF RunsTheQueue

(* No step of a run takes anything back, and every step brings the end     *)
(* nearer, except what act does inside a job; which keeps no step of the   *)
(* runtime from being taken.                                               *)
THEOREM RunAlwaysAdvances == EngineSafety => [][NothingReturns /\ AdvancesOrWorks]_engineVars
BY RunGoesOn, EngineStaysInside, EngineInvariance, PTL DEF EngineSafety

LEMMA WatchedInit == EngineInit => Watched
BY DEF EngineInit, Watched

(* A job that is launched after the timer fired is launched under a        *)
(* context that is done.                                                   *)
LEMMA WatchedNext == EInv /\ Watched /\ [EngineNext]_engineVars => Watched'
<1> SUFFICES ASSUME EInv, Watched, [EngineNext]_engineVars, FailFast PROVE Watched'
  BY DEF Watched
<1>1. ASSUME UNCHANGED <<pc, watchdog, worker, doomed>>, ctxDone => ctxDone',
             \/ UNCHANGED <<recorded, canceller>>
             \/ canceller' # None \/ ctxDone'
      PROVE  Watched'
  BY <1>1 DEF Watched
<1>2. CASE \E n \in Node : StepLogs(n) \/ StepFails(n) \/ ActEnds(n)
  <2>1. PICK n \in Node : StepLogs(n) \/ StepFails(n) \/ ActEnds(n)
    BY <1>2
  <2>2. /\ UNCHANGED <<pc, watchdog, worker, doomed, ctxDone>>
        /\ UNCHANGED <<recorded, canceller>> \/ \E id \in Node \cup {Orphan} : Record(id, n)
    BY <2>1, AttributionTypes DEF StepLogs, LogsAs, StepFails, FailsAs, ActEnds, vars, queueVars, runVars
  <2>3. (\E id \in Node \cup {Orphan} : Record(id, n)) => UNCHANGED <<recorded, canceller>> \/ canceller' # None
    BY EngineAssumption DEF Record
  <2> QED
    BY <1>1, <2>2, <2>3
<1>3. CASE \E n \in Node : NodeReturns(n)
  <2>1. PICK n \in Node : NodeReturns(n)
    BY <1>3
  <2>2. /\ UNCHANGED <<pc, watchdog, doomed, ctxDone, recorded, canceller>>
        /\ \A m \in Node : worker'[m] = "executing" => worker[m] = "executing"
    BY <2>1 DEF NodeReturns, ExecReturns, queueVars, runVars, actVars, EInv, Inv, TypeOK
  <2> QED
    BY <2>2 DEF Watched
<1>4. CASE LaunchJob
  <2> DEFINE n == ready[position]
  <2>1. n \in Node
    BY <1>4, ElementOfSeq DEF LaunchJob, Launch, EInv, Inv, TypeOK
  <2>2. /\ UNCHANGED <<pc, watchdog, ctxDone, recorded, canceller>> /\ pc = "scan"
        /\ \A m \in Node \ {n} : worker'[m] = worker[m]
        /\ doomed' = IF ctxDone THEN doomed \cup {n} ELSE doomed
    BY <1>4, <2>1 DEF LaunchJob, Launch, runVars, EInv, Inv, TypeOK
  <2> QED
    BY <2>1, <2>2 DEF Watched
<1>5. CASE QueueStep
  <2>1. UNCHANGED <<watchdog, doomed, ctxDone, recorded, canceller>> /\ pc # "done"
    BY <1>5 DEF QueueStep, runVars, actVars, Dispatch, PassOver, EndScan, Return, Receive
  <2>2. \A m \in Node : worker'[m] = "executing" => worker[m] = "executing"
    <3>1. CASE \E n \in Node : Receive(n)
      BY <3>1 DEF Receive, EInv, Inv, TypeOK
    <3>2. CASE Dispatch \/ PassOver \/ EndScan \/ Return
      BY <3>2 DEF Dispatch, PassOver, EndScan, Return
    <3> QED
      BY <1>5, <3>1, <3>2 DEF QueueStep
  <2> QED
    BY <2>1, <2>2 DEF Watched
<1>6. CASE CancelExec \/ Interrupt
  <2>1. UNCHANGED <<pc, watchdog, worker, doomed>> /\ ctxDone'
    BY <1>6 DEF CancelExec, Interrupt, Cancel, vars, queueVars, runVars, actVars
  <2> QED
    BY <1>1, <2>1
<1>7. CASE WatchdogWakes \/ ForceCleanup \/ WatchdogStops
  BY <1>7 DEF WatchdogWakes, ForceCleanup, WatchdogStops, vars, queueVars, actVars, Watched
<1>8. CASE \/ \E cause \in {"validation", "engine"} : StartFails(cause)
           \/ StartQueue \/ ApplyOutcomes \/ Finish \/ UNCHANGED engineVars
  BY <1>1, <1>8 DEF StartFails, StartQueue, ApplyOutcomes, Finish, engineVars, vars, queueVars, runVars, actVars
<1> QED
  BY <1>2, <1>3, <1>4, <1>5, <1>6, <1>7, <1>8 DEF EngineNext, Finished

(* A run that is not over waits for nobody but act, inside some job; a     *)
(* fail-fast run that failed or was cancelled does not even wait for act,  *)
(* because the failure is about to cancel, or the watchdog is armed,       *)
(* timing, or has removed what still ran.  With RunAlwaysAdvances this is  *)
(* why CancelledRunFinishes holds.                                         *)
THEOREM RunNeverStuck == EngineSafety => []OnlyWaitsForAct
<1>1. EInv /\ Watched => OnlyWaitsForAct
  <2> SUFFICES ASSUME EInv, Watched, phase # "finished", ~RunMoves
               PROVE  (\E n \in Node : Acting(n)) /\ ~(FailFast /\ (ctxDone \/ recorded # None))
    BY DEF OnlyWaitsForAct
  <2>1. /\ pc = "await" /\ running # 0 /\ canceller = None
        /\ \A n \in Node : worker[n] # "sending"
        /\ \A n \in Node : worker[n] = "executing" => n \notin ended /\ n \notin doomed
    BY DEF RunMoves, EInv, EngineTypeOK, Inv, TypeOK
  <2>2. InFlight # {}
    <3>1. running = Cardinality(InFlight)
      BY DEF EInv, Inv, SlotAccounting
    <3> QED
      BY <2>1, <3>1, FS_EmptySet
  <2>3. PICK n \in Node : worker[n] = "executing"
    BY <2>1, <2>2 DEF InFlight
  <2>4. Acting(n)
    BY <2>1, <2>3, EngineAssumption DEF Acting
  <2>5. ~(FailFast /\ (ctxDone \/ recorded # None))
    BY <2>1, <2>3 DEF Watched, RunMoves, EInv, EngineTypeOK
  <2> QED
    BY <2>4, <2>5
<1> QED
  BY <1>1, WatchedInit, WatchedNext, EngineInvariance, PTL DEF EngineSafety
=============================================================================
