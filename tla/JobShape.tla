----------------------------- MODULE JobShape ------------------------------
(***************************************************************************)
(* The scheduled jobs of one run, as runQueue receives them: the fields of *)
(* `node` (internal/engine/scheduler.go), the slots of the pool and the    *)
(* fail-fast flag.  Job n stands for nodes[n-1].                           *)
(***************************************************************************)
EXTENDS Integers, FiniteSets

CONSTANTS NumNodes,  \* len(nodes)
          Slots,     \* requested size of the pool
          Weight,    \* Weight[n]: containers job n runs at a time
          Rank,      \* Rank[n]: higher means earlier
          Needs,     \* Needs[n]: the scheduled jobs n waits for
          FailFast   \* does the first failure end the run?

Node == 1 .. NumNodes

(* Engine.Execute returns before runQueue when there is no job; jobWeight  *)
(* is never below one; the validation that precedes planning rejects       *)
(* workflows whose needs are missing, repeated or cyclic.                  *)
ASSUME ShapeAssumption ==
    /\ NumNodes \in Nat \ {0}
    /\ Slots \in Int
    /\ Weight \in [Node -> Nat \ {0}]
    /\ Rank \in [Node -> Int]
    /\ Needs \in [Node -> SUBSET Node]
    /\ FailFast \in BOOLEAN

ASSUME AcyclicAssumption ==
    \A S \in SUBSET Node : S # {} => \E n \in S : Needs[n] \cap S = {}

(* A requested size below one still leaves one slot, and a job wider than  *)
(* the pool takes all of it.                                               *)
Capacity == IF Slots < 1 THEN 1 ELSE Slots

(* Mutant: a matrix wider than the pool keeps its own weight.              *)
CostUncapped(n) == Weight[n]

Cost(n) == IF Weight[n] > Capacity THEN Capacity ELSE Weight[n]

(* The slots that the jobs of S hold, one pair per slot.                   *)
SlotsOf(S) == {s \in Node \X (1 .. Capacity) : s[1] \in S /\ s[2] <= Cost(s[1])}

Dependents(n) == {d \in Node : n \in Needs[d]}
=============================================================================
