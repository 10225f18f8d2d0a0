------------------------------ MODULE JobPool ------------------------------
(***************************************************************************)
(* What the global job queue promises, without saying how it does it: jobs *)
(* occupy weighted slots of a bounded pool, a job starts only after the    *)
(* jobs it needs, the best-ranked job that fits starts first, and once the *)
(* pool is closed (first failure of a fail-fast run, or cancellation)      *)
(* nothing starts any more while the running jobs drain.                   *)
(***************************************************************************)
EXTENDS JobShape

----------------------------------------------------------------------------

VARIABLES job,     \* job[n]: "queued", "running" or "done"
          closed   \* nothing starts any more

poolVars == <<job, closed>>

In(state) == {n \in Node : job[n] = state}

PoolInit ==
    /\ job = [n \in Node |-> "queued"]
    /\ closed = FALSE

(* A job that may start now: its needs are over, whatever their outcome,   *)
(* and it fits the free slots.                                             *)
Startable(n) ==
    /\ job[n] = "queued"
    /\ Needs[n] \subseteq In("done")
    /\ Cardinality(SlotsOf(In("running"))) + Cost(n) <= Capacity

Start(n) ==
    /\ ~closed
    /\ Startable(n)
    /\ \A m \in Node : Startable(m) => Rank[m] <= Rank[n]
    /\ job' = [job EXCEPT ![n] = "running"]
    /\ UNCHANGED closed

Stop(n, failed) ==
    /\ job[n] = "running"
    /\ job' = [job EXCEPT ![n] = "done"]
    /\ closed' = (closed \/ (FailFast /\ failed))

Close ==
    /\ closed' = TRUE
    /\ UNCHANGED job

PoolNext ==
    \/ \E n \in Node : Start(n)
    \/ \E n \in Node, failed \in BOOLEAN : Stop(n, failed)
    \/ Close

(* A pool that is not closed keeps starting jobs, and a running job ends.  *)
PoolFairness ==
    /\ WF_poolVars(\E n \in Node : Start(n))
    /\ \A n \in Node : WF_poolVars(\E failed \in BOOLEAN : Stop(n, failed))

PoolSafety == PoolInit /\ [][PoolNext]_poolVars

PoolSpec == PoolSafety /\ PoolFairness
=============================================================================
