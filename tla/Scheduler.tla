----------------------------- MODULE Scheduler -----------------------------
(***************************************************************************)
(* runQueue of internal/engine/scheduler.go: one dispatching goroutine,    *)
(* one goroutine per dispatched job, and an unbuffered channel on which    *)
(* the jobs hand their completion to the dispatcher.  The context may be   *)
(* cancelled by anyone between any two steps.                              *)
(*                                                                         *)
(* The dispatcher's program counter:                                       *)
(*   "dispatch"  about to test `failed && failFast || ctx.Err() != nil`    *)
(*   "scan"      inside the loop over the ready list, at `position`        *)
(*   "await"     at `for running > 0`, waiting for a completion            *)
(*   "done"      runQueue has returned                                     *)
(***************************************************************************)
EXTENDS JobShape, Sequences, SequencesExt

VARIABLES pc,        \* the dispatcher's program counter
          position,  \* index into ready of the scan
          ready,     \* jobs whose needs are complete, best rank first
          waiting,   \* waiting[n]: needs of n still incomplete
          free,      \* free slots
          running,   \* jobs dispatched and not yet received
          failed,    \* some received completion was a failure
          results,   \* what runQueue returns
          worker,    \* the goroutine of each job
          outcome,   \* what exec returned, until it is received
          ctxDone    \* ctx.Err() # nil

queueVars == <<pc, position, ready, waiting, free, running, failed, results>>
vars == <<queueVars, worker, outcome, ctxDone>>

(* The pool the queue implements: a job runs from its dispatch until its   *)
(* completion is received, and the pool is closed once no later dispatch   *)
(* can pass the entry test.                                                *)
JobOf == [n \in Node |->
            CASE worker[n] = "idle" -> "queued"
              [] worker[n] = "gone" -> "done"
              [] OTHER -> "running"]

Stopping == (failed /\ FailFast) \/ ctxDone

Pool == INSTANCE JobPool WITH job <- JobOf, closed <- (pc # "scan" /\ Stopping)

NoOutcome == [failed |-> FALSE, err |-> FALSE]
Outcome == [failed : BOOLEAN, err : BOOLEAN]

(* Mutant: lowest rank first.                                              *)
SortedAscending(list, added) ==
    {t \in Bijection(1 .. Len(list) + Cardinality(added), Range(list) \cup added) :
        \A i, j \in DOMAIN t : i < j => Rank[t[i]] <= Rank[t[j]]}

(* The orders in which sort.SliceStable may leave list \o added, where     *)
(* added is appended in index order: rank descending, ties as they were.   *)
(* There is exactly one.                                                   *)
SortedByRank(list, added) ==
    LET Older(a, b) ==
            \/ \E i, j \in DOMAIN list : i < j /\ list[i] = a /\ list[j] = b
            \/ a \in Range(list) /\ b \in added
            \/ a \in added /\ b \in added /\ a < b
        Precedes(a, b) == Rank[a] > Rank[b] \/ (Rank[a] = Rank[b] /\ Older(a, b))
    IN  {t \in Bijection(1 .. Len(list) + Cardinality(added), Range(list) \cup added) :
            \A i, j \in DOMAIN t : i < j => Precedes(t[i], t[j])}

----------------------------------------------------------------------------

Init ==
    /\ pc = "dispatch"
    /\ position = 1
    /\ ready \in SortedByRank(<<>>, {n \in Node : Needs[n] = {}})
    /\ waiting = [n \in Node |-> Cardinality(Needs[n])]
    /\ free = Capacity
    /\ running = 0
    /\ failed = FALSE
    /\ results = [n \in Node |-> [dispatched |-> FALSE, failed |-> FALSE, err |-> FALSE]]
    /\ worker = [n \in Node |-> "idle"]
    /\ outcome = [n \in Node |-> NoOutcome]
    /\ ctxDone = FALSE

(* Mutant: dispatch looks at the context only.                             *)
DispatchAfterFailure ==
    /\ pc = "dispatch"
    /\ pc' = IF ctxDone THEN "await" ELSE "scan"
    /\ position' = 1
    /\ UNCHANGED <<ready, waiting, free, running, failed, results, worker, outcome, ctxDone>>

(* The entry of dispatch(): the only place where a stop is looked for.     *)
Dispatch ==
    /\ pc = "dispatch"
    /\ pc' = IF Stopping THEN "await" ELSE "scan"
    /\ position' = 1
    /\ UNCHANGED <<ready, waiting, free, running, failed, results, worker, outcome, ctxDone>>

(* Mutant: a job that does not fit is looked at again and again.           *)
PassOverStuck ==
    /\ pc = "scan"
    /\ position <= Len(ready)
    /\ Cost(ready[position]) > free
    /\ UNCHANGED vars

PassOver ==
    /\ pc = "scan"
    /\ position <= Len(ready)
    /\ Cost(ready[position]) > free
    /\ position' = position + 1
    /\ UNCHANGED <<pc, ready, waiting, free, running, failed, results, worker, outcome, ctxDone>>

(* Mutant: a job is dispatched whether or not it fits.                     *)
LaunchUnfitting ==
    /\ pc = "scan"
    /\ position <= Len(ready)
    /\ LET n == ready[position] IN
        /\ ready' = RemoveAt(ready, position)
        /\ free' = free - Cost(n)
        /\ running' = running + 1
        /\ results' = [results EXCEPT ![n].dispatched = TRUE]
        /\ worker' = [worker EXCEPT ![n] = "executing"]
    /\ UNCHANGED <<pc, position, waiting, failed, outcome, ctxDone>>

Launch ==
    /\ pc = "scan"
    /\ position <= Len(ready)
    /\ LET n == ready[position] IN
        /\ Cost(n) <= free
        /\ ready' = RemoveAt(ready, position)
        /\ free' = free - Cost(n)
        /\ running' = running + 1
        /\ results' = [results EXCEPT ![n].dispatched = TRUE]
        /\ worker' = [worker EXCEPT ![n] = "executing"]
    /\ UNCHANGED <<pc, position, waiting, failed, outcome, ctxDone>>

(* Mutant: the scan stops at the first job that does not fit.              *)
EndScanAtWide ==
    /\ pc = "scan"
    /\ position > Len(ready) \/ Cost(ready[position]) > free
    /\ pc' = "await"
    /\ UNCHANGED <<position, ready, waiting, free, running, failed, results, worker, outcome, ctxDone>>

EndScan ==
    /\ pc = "scan"
    /\ position > Len(ready)
    /\ pc' = "await"
    /\ UNCHANGED <<position, ready, waiting, free, running, failed, results, worker, outcome, ctxDone>>

(* exec(n) returns and its goroutine blocks on `completions <-`.           *)
ExecReturns(n, out) ==
    /\ worker[n] = "executing"
    /\ worker' = [worker EXCEPT ![n] = "sending"]
    /\ outcome' = [outcome EXCEPT ![n] = out]
    /\ UNCHANGED <<queueVars, ctxDone>>

(* Mutant: the uncapped weight is given back.                              *)
ReleaseWeight(n) ==
    /\ running' = running - 1
    /\ free' = free + Weight[n]

(* The bookkeeping of a received completion: its slots, its result, and    *)
(* the jobs that waited for it, whatever its outcome.                      *)
Release(n) ==
    /\ running' = running - 1
    /\ free' = free + Cost(n)

KeepResult(n) ==
    /\ results' = [results EXCEPT ![n].failed = outcome[n].failed, ![n].err = outcome[n].err]
    /\ failed' = (failed \/ outcome[n].failed)

Unblock(n) ==
    /\ waiting' = [d \in Node |-> waiting[d] - IF d \in Dependents(n) THEN 1 ELSE 0]
    /\ LET newlyReady == {d \in Dependents(n) : waiting'[d] = 0}
       IN  IF newlyReady = {} THEN UNCHANGED ready
                              ELSE ready' \in SortedByRank(ready, newlyReady)

(* `done := <-completions`: a rendezvous with the goroutine of n.          *)
Receive(n) ==
    /\ pc = "await"
    /\ running > 0
    /\ worker[n] = "sending"
    /\ worker' = [worker EXCEPT ![n] = "gone"]
    /\ outcome' = [outcome EXCEPT ![n] = NoOutcome]
    /\ Release(n)
    /\ KeepResult(n)
    /\ Unblock(n)
    /\ pc' = "dispatch"
    /\ UNCHANGED <<position, ctxDone>>

Return ==
    /\ pc = "await"
    /\ running = 0
    /\ pc' = "done"
    /\ UNCHANGED <<position, ready, waiting, free, running, failed, results, worker, outcome, ctxDone>>

(* The context's owner cancels it, at any moment.                          *)
Cancel ==
    /\ ~ctxDone
    /\ ctxDone' = TRUE
    /\ UNCHANGED <<queueVars, worker, outcome>>

Returned ==
    /\ pc = "done"
    /\ UNCHANGED vars

Dispatcher == Dispatch \/ PassOver \/ Launch \/ EndScan \/ (\E n \in Node : Receive(n)) \/ Return

Next ==
    \/ Dispatcher
    \/ \E n \in Node, out \in Outcome : ExecReturns(n, out)
    \/ Cancel
    \/ Returned

(* The Go runtime runs the dispatcher and every goroutine; that exec       *)
(* returns is what the queue expects of its caller.  Nobody has to cancel. *)
Fairness ==
    /\ WF_vars(Dispatcher)
    /\ \A n \in Node : WF_vars(\E out \in Outcome : ExecReturns(n, out))

SafetySpec == Init /\ [][Next]_vars

Spec == SafetySpec /\ Fairness

----------------------------------------------------------------------------

InFlight == {n \in Node : worker[n] \in {"executing", "sending"}}
Completed == {n \in Node : worker[n] = "gone"}

TypeOK ==
    /\ pc \in {"dispatch", "scan", "await", "done"}
    /\ position \in Nat \ {0}
    /\ ready \in Seq(Node)
    /\ waiting \in [Node -> Nat]
    /\ free \in Nat
    /\ running \in Nat
    /\ failed \in BOOLEAN
    /\ results \in [Node -> [dispatched : BOOLEAN, failed : BOOLEAN, err : BOOLEAN]]
    /\ worker \in [Node -> {"idle", "executing", "sending", "gone"}]
    /\ outcome \in [Node -> Outcome]
    /\ ctxDone \in BOOLEAN

(* The counters tell the truth about the goroutines: a slot is free or     *)
(* held by a job in flight, never both and never lost, so that at most     *)
(* `slots` weighted slots are in flight (comment of runQueue).             *)
SlotAccounting ==
    /\ free + Cardinality(SlotsOf(InFlight)) = Capacity
    /\ running = Cardinality(InFlight)

(* The ready list holds, once each and best rank first, exactly the        *)
(* undispatched jobs whose needs have all been received; `waiting` counts  *)
(* what is missing; a dispatched job's needs are complete.                 *)
ReadyIsExact ==
    /\ \A n \in Node : waiting[n] = Cardinality(Needs[n] \ Completed)
    /\ \A n \in Node : worker[n] # "idle" => Needs[n] \subseteq Completed
    /\ Range(ready) = {n \in Node : worker[n] = "idle" /\ Needs[n] \subseteq Completed}
    /\ \A i, j \in DOMAIN ready : i < j => /\ ready[i] # ready[j]
                                          /\ Rank[ready[i]] >= Rank[ready[j]]

(* "detection time never waits on idle capacity": what the scan has left  *)
(* behind does not fit, and when the dispatcher blocks on the channel of   *)
(* an open queue, no ready job fits.                                       *)
NoIdleCapacity ==
    /\ pc = "scan" => \A i \in DOMAIN ready : i < position => Cost(ready[i]) > free
    /\ pc = "await" /\ ~Stopping => \A i \in DOMAIN ready : Cost(ready[i]) > free

(* runQueue returns only after every goroutine has handed over, and a run  *)
(* that nothing stopped has dispatched every job.                          *)
ReturnsDrained ==
    pc = "done" => /\ InFlight = {}
                   /\ Stopping \/ Completed = Node

(* The results handed back are those of exec, for exactly the jobs that    *)
(* were dispatched, and `failed` is their disjunction.                     *)
ResultsFaithful ==
    /\ \A n \in Node : results[n].dispatched <=> worker[n] # "idle"
    /\ \A n \in Node : results[n].failed \/ results[n].err => worker[n] = "gone"
    /\ failed <=> \E n \in Node : results[n].failed

(* The queue implements the pool: order by rank among the jobs that fit,   *)
(* needs, capacity, closing, and progress.                                 *)
ImplementsPool == Pool!PoolSpec

(* Every run of the queue ends.                                            *)
Terminates == <>(pc = "done")
=============================================================================
