-------------------------- MODULE ExecutionProofs --------------------------
(***************************************************************************)
(* What a run shows of its steps is what happened to them, and the legs of *)
(* its jobs stay within the pool, for every plan.                          *)
(***************************************************************************)
EXTENDS Execution, EngineProofs, FunctionTheorems

----------------------------------------------------------------------------
(* A run with its steps is a run of the engine.                            *)

LEMMA ExecutionStepIsEngineStep == [ExecutionNext]_executionVars => [EngineNext]_engineVars
<1> SUFFICES ASSUME [ExecutionNext]_executionVars PROVE EngineNext \/ UNCHANGED engineVars
  OBVIOUS
<1>1. ASSUME NEW n \in Node, InJob(n) PROVE EngineNext \/ UNCHANGED engineVars
  <2>1. CASE JobLogs(n) \/ JobErrs(n) \/ JobEnds(n)
    BY <2>1 DEF JobLogs, JobErrs, JobEnds, EngineNext
  <2>2. ASSUME NEW l \in Leg(n), StepBegins(n, l) \/ StepEnds(n, l) PROVE EngineNext
    BY <2>2 DEF StepBegins, StepEnds, StepLogs, StepFails, EngineNext
  <2>3. ASSUME NEW l \in Leg(n), StepIsSkipped(n, l) PROVE UNCHANGED engineVars
    BY <2>3 DEF StepIsSkipped
  <2> QED
    BY <1>1, <2>1, <2>2, <2>3 DEF InJob
<1>2. CASE Apply
  BY <1>2 DEF Apply, EngineNext
<1>3. CASE Elsewhere
  BY <1>3 DEF Elsewhere, EngineNext
<1>4. CASE UNCHANGED executionVars
  BY <1>4 DEF executionVars
<1> QED
  BY <1>1, <1>2, <1>3, <1>4 DEF ExecutionNext

(* Legs and steps take nothing away from the engine and add nothing to it: *)
(* every theorem about the engine holds of a run with steps.               *)
THEOREM ExecutionIsARun == ExecutionSpec => EngineSafety
<1>1. ExecutionInit => EngineInit
  BY DEF ExecutionInit
<1> QED
  BY <1>1, ExecutionStepIsEngineStep, PTL DEF ExecutionSpec, EngineSafety

(* Three levels down: whatever the legs, the steps, the collectors, the    *)
(* watchdog and the user do, the jobs of a run start as JobPool lets them, *)
(* in rank order among what fits, after their needs, and within the slots. *)
THEOREM RunImplementsPool == ExecutionSpec => Pool!PoolSafety
BY ExecutionIsARun, EngineRunsTheQueue, QueueImplementsPool, PTL DEF RunsTheQueue

----------------------------------------------------------------------------
(* The types of the steps.                                                 *)

LEMMA ScriptFacts ==
    ASSUME NEW n \in Node
    PROVE  /\ Script[n] \in Seq(Step)
           /\ Len(Script[n]) \in Nat
           /\ End(n) = 2 * Len(Script[n])
           /\ End(n) \in Nat
           /\ Legs[n] \in Nat \ {0}
           /\ Leg(n) = 1 .. Legs[n]
BY ExecutionAssumption DEF End, Leg

(* The step at which a leg is.                                             *)
Current(n, l) == Script[n][at[n][l] \div 2 + 1]

LEMMA CurrentFacts ==
    ASSUME NEW n \in Node, NEW l \in Leg(n), at[n][l] \in 0 .. End(n), at[n][l] < End(n)
    PROVE  /\ at[n][l] \div 2 + 1 \in 1 .. Len(Script[n])
           /\ Current(n, l) \in Step
<1> DEFINE a == at[n][l]
           e == Len(Script[n])
<1>1. a \in Nat /\ e \in Nat /\ a < 2 * e
  BY ScriptFacts
<1>2. a \div 2 + 1 \in 1 .. e
  <2> HIDE DEF a, e
  <2> QED
    BY <1>1
<1> QED
  BY <1>2, ScriptFacts, ElementOfSeq DEF Current

(* A leg stays within its script.                                          *)
LEMMA LegAdvances ==
    ASSUME NEW n \in Node, NEW a \in 0 .. End(n), NEW by \in {1, 2}, a < End(n),
           a % 2 = 0 \/ by = 1
    PROVE  a + by \in 0 .. End(n)
<1> DEFINE e == Len(Script[n])
<1>1. e \in Nat /\ a \in Nat /\ a < 2 * e /\ End(n) = 2 * e
  BY ScriptFacts
<1>2. a + by \in 0 .. 2 * e
  <2> HIDE DEF e
  <2> QED
    BY <1>1
<1> QED
  BY <1>1, <1>2

(* The steps inside a job that the engine does not see, seen together: one *)
(* leg advances, and perhaps one record is kept under one job.             *)
LegMoves(n, l, by) ==
    /\ Moves(n, l, by)
    /\ by = 1 \/ at[n][l] % 2 = 0
    /\ UNCHANGED <<shown, lost>>

LEMMA LegStep ==
    ASSUME NEW n \in Node, NEW l \in Leg(n), StepBegins(n, l) \/ StepEnds(n, l) \/ StepIsSkipped(n, l)
    PROVE  \E by \in {1, 2} : LegMoves(n, l, by)
<1>1. CASE StepBegins(n, l) \/ StepEnds(n, l)
  <2>1. LegMoves(n, l, 1)
    BY <1>1 DEF StepBegins, StepEnds, LegMoves
  <2> QED
    BY <2>1
<1>2. CASE StepIsSkipped(n, l)
  <2>1. LegMoves(n, l, 2)
    BY <1>2 DEF StepIsSkipped, LegMoves
  <2> QED
    BY <2>1
<1> QED
  BY <1>1, <1>2

(* How far the legs are, and what is within the pool.                      *)
AtOK == /\ at = [n \in Node |-> [l \in Leg(n) |-> at[n][l]]]
        /\ \A n \in Node : \A l \in Leg(n) : at[n][l] \in 0 .. End(n)

Pinned == \A n \in Node : Cardinality(Underway(n)) <= Weight[n]

LegInv == AtOK /\ Pinned

LEMMA UnderwayFinite ==
    ASSUME NEW n \in Node
    PROVE  /\ IsFiniteSet(Underway(n))
           /\ Cardinality(Underway(n)) \in Nat
<1>1. IsFiniteSet(Leg(n))
  <2>1. 1 \in Int /\ Legs[n] \in Int
    BY ScriptFacts
  <2>2. IsFiniteSet(1 .. Legs[n])
    BY <2>1, FS_Interval
  <2> QED
    BY <2>2 DEF Leg
<1>2. Underway(n) \in SUBSET Leg(n)
  BY DEF Underway
<1> QED
  BY <1>1, <1>2, FS_Subset, FS_CardinalityType

LEMMA LegInit == ExecutionInit => LegInv
<1> SUFFICES ASSUME ExecutionInit PROVE LegInv
  OBVIOUS
<1>1. AtOK
  BY ScriptFacts DEF ExecutionInit, AtOK
<1>2. ASSUME NEW n \in Node PROVE Cardinality(Underway(n)) <= Weight[n]
  <2>1. Underway(n) = {}
    BY ScriptFacts DEF ExecutionInit, Underway
  <2>2. Cardinality(Underway(n)) = 0
    BY <2>1, FS_EmptySet
  <2> QED
    BY <2>2, ShapeAssumption
<1> QED
  BY <1>1, <1>2 DEF LegInv, Pinned

LEMMA LegMovesKeeps ==
    ASSUME LegInv, NEW n \in Node, NEW l \in Leg(n), NEW by \in {1, 2}, LegMoves(n, l, by)
    PROVE  LegInv'
<1>1. /\ at[n][l] \in 0 .. End(n) /\ at[n][l] < End(n)
      /\ at[n][l] > 0 \/ Cardinality(Underway(n)) < Weight[n]
      /\ at' = [at EXCEPT ![n][l] = at[n][l] + by]
  BY DEF LegInv, AtOK, LegMoves, Moves, MayStart
<1>2. /\ \A m \in Node : \A k \in Leg(m) :
            at'[m][k] = IF m = n /\ k = l THEN at[n][l] + by ELSE at[m][k]
      /\ at' = [m \in Node |-> [k \in Leg(m) |-> at'[m][k]]]
  BY <1>1 DEF LegInv, AtOK
<1>3. at[n][l] + by \in 0 .. End(n)
  BY <1>1, LegAdvances DEF LegMoves
<1>4. AtOK'
  BY <1>2, <1>3 DEF LegInv, AtOK, Leg, End
<1>5. \A m \in Node : m # n => Underway(m)' = Underway(m)
  BY <1>2 DEF Underway, Leg, End
<1>6. Cardinality(Underway(n)') <= Weight[n]
  <2>1. Underway(n)' \subseteq Underway(n) \cup {l}
    BY <1>2 DEF Underway, Leg, End
  <2>2. CASE at[n][l] > 0
    <3>1. l \in Underway(n)
      BY <1>1, <2>2, ScriptFacts DEF Underway
    <3>2. Underway(n)' \in SUBSET Underway(n)
      BY <2>1, <3>1
    <3>3. Cardinality(Underway(n)') <= Cardinality(Underway(n)) /\ Cardinality(Underway(n)') \in Nat
      BY <3>2, UnderwayFinite, FS_Subset, FS_CardinalityType
    <3> QED
      BY <3>3, UnderwayFinite, ShapeAssumption DEF LegInv, Pinned
  <2>3. CASE ~(at[n][l] > 0)
    <3>1. Cardinality(Underway(n)) < Weight[n]
      BY <1>1, <2>3
    <3>2. /\ IsFiniteSet(Underway(n) \cup {l})
          /\ Cardinality(Underway(n) \cup {l}) <= Cardinality(Underway(n)) + 1
      <4> DEFINE S == Underway(n)
      <4>1. IsFiniteSet(S) /\ Cardinality(S) \in Nat
        BY UnderwayFinite
      <4> HIDE DEF S
      <4>2. /\ IsFiniteSet(S \cup {l})
            /\ Cardinality(S \cup {l}) = IF l \in S THEN Cardinality(S) ELSE Cardinality(S) + 1
        BY <4>1, FS_AddElement
      <4>3. Cardinality(S \cup {l}) <= Cardinality(S) + 1
        BY <4>1, <4>2
      <4> QED
        BY <4>2, <4>3 DEF S
    <3>3. /\ Cardinality(Underway(n)') <= Cardinality(Underway(n) \cup {l})
          /\ Cardinality(Underway(n)') \in Nat
          /\ Cardinality(Underway(n) \cup {l}) \in Nat
      BY <2>1, <3>2, FS_Subset, FS_CardinalityType
    <3> QED
      BY <3>1, <3>2, <3>3, UnderwayFinite, ShapeAssumption
  <2> QED
    BY <2>2, <2>3
<1>7. Pinned'
  BY <1>5, <1>6 DEF LegInv, Pinned
<1> QED
  BY <1>4, <1>7 DEF LegInv

LEMMA LegNext == LegInv /\ [ExecutionNext]_executionVars => LegInv'
<1> SUFFICES ASSUME LegInv, [ExecutionNext]_executionVars PROVE LegInv'
  OBVIOUS
<1>1. ASSUME UNCHANGED at PROVE LegInv'
  BY <1>1 DEF LegInv, AtOK, Pinned, Underway, Leg, End
<1>2. ASSUME NEW n \in Node, NEW l \in Leg(n), StepBegins(n, l) \/ StepEnds(n, l) \/ StepIsSkipped(n, l)
      PROVE  LegInv'
  BY <1>2, LegStep, LegMovesKeeps
<1>3. ASSUME NEW n \in Node, JobLogs(n) \/ JobErrs(n) \/ JobEnds(n) PROVE UNCHANGED at
  BY <1>3 DEF JobLogs, JobErrs, JobEnds, stepVars
<1>4. Apply \/ Elsewhere \/ UNCHANGED executionVars => UNCHANGED at
  BY DEF Apply, Elsewhere, executionVars, stepVars
<1> QED
  BY <1>1, <1>2, <1>3, <1>4 DEF ExecutionNext, InJob

----------------------------------------------------------------------------
(* The pool and the legs.                                                  *)

(* A matrix is never given more than the pool, its breadth or its declared *)
(* max-parallel.                                                           *)
LEMMA WeightFacts ==
    ASSUME NEW n \in Node
    PROVE  /\ Weight[n] \in 1 .. Capacity
           /\ MaxParallel[n] > 0 => Weight[n] <= MaxParallel[n]
<1> DEFINE legs == Legs[n]
           cap == Capacity
           most == MaxParallel[n]
<1>1. legs \in Nat \ {0} /\ cap \in Nat \ {0} /\ most \in Nat
  BY ExecutionAssumption, CostType
<1>2. Weight[n] = JobWeight(n)
  BY ExecutionAssumption
<1>3. CASE n \in Uses \/ legs = 1
  <2>1. Weight[n] = 1
    BY <1>2, <1>3 DEF JobWeight
  <2> HIDE DEF cap, most
  <2> QED
    BY <1>1, <2>1 DEF cap, most
<1>4. CASE ~(n \in Uses \/ legs = 1)
  <2> DEFINE Breadths == {legs, cap, most} \ {0}
             least == CHOOSE w \in Breadths : \A v \in Breadths : w <= v
  <2>1. Weight[n] = least
    BY <1>2, <1>4 DEF JobWeight
  <2> HIDE DEF legs, cap, most
  <2>2. \E w \in Breadths : \A v \in Breadths : w <= v
    <3> DEFINE low == IF legs <= cap THEN legs ELSE cap
    <3>1. CASE most = 0 \/ low <= most
      <4>1. low \in Breadths /\ \A v \in Breadths : low <= v
        BY <1>1, <3>1
      <4> QED
        BY <4>1
    <3>2. CASE ~(most = 0 \/ low <= most)
      <4>1. most \in Breadths /\ \A v \in Breadths : most <= v
        BY <1>1, <3>2
      <4> QED
        BY <4>1
    <3> QED
      BY <3>1, <3>2
  <2>3. least \in Breadths /\ \A v \in Breadths : least <= v
    BY <2>2
  <2> HIDE DEF least
  <2>4. least \in 1 .. cap /\ (most > 0 => least <= most)
    BY <1>1, <2>3
  <2> QED
    BY <2>1, <2>4 DEF cap, most
<1> QED
  BY <1>3, <1>4

(* A job occupies no more than it costs.                                   *)
LEMMA OccupiedFits ==
    ASSUME LegInv, NEW n \in Node
    PROVE  /\ IsFiniteSet(Occupied(n))
           /\ Cardinality(Occupied(n)) \in 0 .. Cost(n)
<1>1. Cost(n) = Weight[n] /\ Weight[n] \in Nat /\ Weight[n] >= 1
  BY WeightFacts, CostType DEF Cost
<1>2. CASE worker[n] # "executing"
  <2>1. Occupied(n) = {}
    BY <1>2 DEF Occupied
  <2> QED
    BY <1>1, <2>1, FS_EmptySet
<1>3. CASE worker[n] = "executing" /\ n \in Uses
  <2>1. Occupied(n) = {1}
    BY <1>3 DEF Occupied
  <2>2. IsFiniteSet({1}) /\ Cardinality({1}) = 1
    BY FS_Singleton
  <2> QED
    BY <1>1, <2>1, <2>2
<1>4. CASE worker[n] = "executing" /\ n \notin Uses
  <2>1. Occupied(n) = Underway(n)
    BY <1>4 DEF Occupied
  <2> QED
    BY <1>1, <2>1, UnderwayFinite DEF LegInv, Pinned
<1> QED
  BY <1>2, <1>3, <1>4

(* Every container of a job has a slot of that job to itself.              *)
LEMMA OccupiedInjects ==
    ASSUME LegInv, NEW n \in Node
    PROVE  Injection(Occupied(n), 1 .. Cost(n)) # {}
<1> DEFINE S == Occupied(n)
           k == Cardinality(S)
<1>1. IsFiniteSet(S) /\ k \in Nat /\ k <= Cost(n) /\ Cost(n) \in Nat
  BY OccupiedFits, CostType
<1> HIDE DEF S
<1>2. IsFiniteSet(1 .. k) /\ Cardinality(1 .. k) = k
  BY <1>1, FS_Interval
<1>3. ExistsBijection(S, 1 .. k)
  BY <1>1, <1>2, FS_SameCardinalityBij
<1>4. PICK f \in Bijection(S, 1 .. k) : TRUE
  BY <1>3, Fun_ExistsBij
<1>5. f \in [S -> 1 .. k] /\ \A a, b \in S : f[a] = f[b] => a = b
  BY <1>4 DEF Bijection, Injection, IsInjective
<1>6. 1 .. k \subseteq 1 .. Cost(n)
  BY <1>1
<1>7. f \in [S -> 1 .. Cost(n)]
  BY <1>5, <1>6
<1>8. f \in Injection(S, 1 .. Cost(n))
  BY <1>5, <1>7, Fun_IsInj
<1> QED
  BY <1>8 DEF S

LEMMA ContainersFit ==
    ASSUME LegInv, EInv
    PROVE  WithinSlots
<1> DEFINE Slot(n) == CHOOSE f : f \in Injection(Occupied(n), 1 .. Cost(n))
           held == SlotsOf(InFlight)
           put == [c \in Containers |-> <<c[1], Slot(c[1])[c[2]]>>]
<1>1. ASSUME NEW n \in Node
      PROVE  /\ Slot(n) \in [Occupied(n) -> 1 .. Cost(n)]
             /\ \A a, b \in Occupied(n) : Slot(n)[a] = Slot(n)[b] => a = b
  <2>1. Slot(n) \in Injection(Occupied(n), 1 .. Cost(n))
    BY <1>1, OccupiedInjects
  <2> HIDE DEF Slot
  <2> QED
    BY <2>1 DEF Injection, IsInjective
<1>2. \A c \in Containers : /\ c = <<c[1], c[2]>>
                             /\ c[1] \in Node
                             /\ c[2] \in Occupied(c[1])
                             /\ c[1] \in InFlight
  BY DEF Containers, Occupied, InFlight
<1> HIDE DEF Slot
<1>3. \A c \in Containers : put[c] \in held
  BY <1>1, <1>2, CostType DEF SlotsOf
<1>4. \A c, d \in Containers : put[c] = put[d] => c = d
  <2> SUFFICES ASSUME NEW c \in Containers, NEW d \in Containers, put[c] = put[d] PROVE c = d
    OBVIOUS
  <2>1. c[1] = d[1] /\ Slot(c[1])[c[2]] = Slot(c[1])[d[2]]
    OBVIOUS
  <2>2. c[2] = d[2]
    BY <1>1, <1>2, <2>1
  <2> QED
    BY <1>2, <2>1, <2>2
<1>5. put \in Injection(Containers, held)
  <2>1. put \in [Containers -> held]
    BY <1>3
  <2> HIDE DEF put
  <2> QED
    BY <1>4, <2>1, Fun_IsInj
<1>6. IsFiniteSet(held) /\ Cardinality(held) \in Nat
  <2>1. InFlight \in SUBSET Node
    BY DEF InFlight
  <2> QED
    BY <2>1, SlotsFinite
<1> HIDE DEF held, put
<1>7. /\ IsFiniteSet(Containers)
      /\ Cardinality(Containers) <= Cardinality(held)
  BY <1>5, <1>6, FS_Injection
<1>8. Cardinality(Containers) <= Capacity
  <2>1. free + Cardinality(held) = Capacity /\ free \in Nat
    BY DEF EInv, Inv, SlotAccounting, TypeOK, held
  <2>2. Cardinality(Containers) \in Nat
    BY <1>7, FS_CardinalityType
  <2> QED
    BY <1>6, <1>7, <2>1, <2>2, CostType
<1>9. ASSUME NEW n \in Node, MaxParallel[n] > 0
      PROVE  Cardinality(Underway(n)) <= MaxParallel[n]
  <2>1. Weight[n] \in Nat /\ Weight[n] <= MaxParallel[n] /\ MaxParallel[n] \in Nat
    BY <1>9, WeightFacts, ExecutionAssumption, CostType
  <2> QED
    BY <2>1, UnderwayFinite DEF LegInv, Pinned
<1> QED
  BY <1>8, <1>9 DEF WithinSlots

(* The legs under way of all jobs fit the pool, and those of a matrix its  *)
(* declared max-parallel: the slots that the queue counts are containers,  *)
(* because singleJobPlan pins each matrix to the weight it was counted at. *)
THEOREM LegsStayWithinSlots == ExecutionSpec => []WithinSlots
<1>1. ExecutionSpec => []LegInv
  BY LegInit, LegNext, PTL DEF ExecutionSpec
<1>2. ExecutionSpec => []EInv
  BY ExecutionIsARun, EngineInvariance, PTL
<1>3. LegInv /\ EInv => WithinSlots
  BY ContainersFit
<1> QED
  BY <1>1, <1>2, <1>3, PTL

----------------------------------------------------------------------------
(* The records of the steps, for plans in which no two callers share a     *)
(* reusable workflow: every line is filed under the job that logged it.    *)

(* What a first line, a last line and a step without lines do.             *)
LEMMA BeginFacts ==
    ASSUME OwnChildren, NEW n \in Node, NEW l \in Leg(n), StepBegins(n, l)
    PROVE  /\ worker[n] = "executing"
           /\ at[n][l] < End(n)
           /\ at[n][l] % 2 = 0
           /\ at' = [at EXCEPT ![n][l] = at[n][l] + 1]
           /\ begun' = [begun EXCEPT ![n] = begun[n] \cup {Current(n, l)}]
           /\ record' = [record EXCEPT ![n][Current(n, l)] =
                            IF record[n][Current(n, l)] # "none"
                            THEN record[n][Current(n, l)] ELSE "running"]
           /\ UNCHANGED <<vars, broken, shown, lost, status, phase>>
<1> DEFINE s == Current(n, l)
           value == IF n \in Node /\ record[n][s] # "none" THEN record[n][s] ELSE "running"
<1>1. /\ Moves(n, l, 1) /\ at[n][l] % 2 = 0 /\ UNCHANGED <<shown, lost>>
      /\ LogsAs(n, n) /\ Keep(n, s, value)
      /\ begun' = [begun EXCEPT ![n] = begun[n] \cup {s}]
  BY OwnLines DEF StepBegins, Current
<1>2. record' = [record EXCEPT ![n][s] = value]
  BY <1>1, Zenon DEF Keep
<1>3. UNCHANGED <<vars, broken, status, phase>>
  BY <1>1 DEF LogsAs, runVars
<1> QED
  BY <1>1, <1>2, <1>3 DEF Moves, Acting

LEMMA EndFacts ==
    ASSUME OwnChildren, NEW n \in Node, NEW l \in Leg(n), StepEnds(n, l)
    PROVE  /\ worker[n] = "executing"
           /\ at[n][l] < End(n)
           /\ at[n][l] % 2 = 1
           /\ at' = [at EXCEPT ![n][l] = at[n][l] + 1]
           /\ \/ /\ record' = [record EXCEPT ![n][Current(n, l)] = "pass"]
                 /\ broken' = broken
              \/ /\ record' = [record EXCEPT ![n][Current(n, l)] = "fail"]
                 /\ broken' \in {broken, broken \cup {n}}
           /\ UNCHANGED <<vars, begun, shown, lost, status, phase>>
<1>1. /\ Moves(n, l, 1) /\ at[n][l] % 2 = 1 /\ UNCHANGED <<begun, shown, lost>>
      /\ \/ LogsAs(n, n) /\ Keep(n, Current(n, l), "pass")
         \/ FailsAs(n, n) /\ Keep(n, Current(n, l), "fail")
  BY OwnLines DEF StepEnds, Current
<1>2. CASE LogsAs(n, n) /\ Keep(n, Current(n, l), "pass")
  BY <1>1, <1>2 DEF Moves, Acting, LogsAs, Keep, runVars
<1>3. CASE FailsAs(n, n) /\ Keep(n, Current(n, l), "fail")
  <2>1. broken' \in {broken, broken \cup {n}} /\ UNCHANGED <<vars, runVars>>
    BY <1>3 DEF FailsAs
  <2> QED
    BY <1>1, <1>3, <2>1 DEF Moves, Acting, Keep, runVars
<1> QED
  BY <1>1, <1>2, <1>3

LEMMA SkipFacts ==
    ASSUME NEW n \in Node, NEW l \in Leg(n), StepIsSkipped(n, l)
    PROVE  /\ worker[n] = "executing"
           /\ at[n][l] < End(n)
           /\ at[n][l] % 2 = 0
           /\ at' = [at EXCEPT ![n][l] = at[n][l] + 2]
           /\ UNCHANGED <<vars, begun, record, broken, shown, lost, status, phase>>
BY DEF StepIsSkipped, Moves, Acting, engineVars, runVars, actVars

RecordStatus == {"none", "running", "pass", "fail"}
ShownStatus == RecordStatus \cup {"skip", "cancelled"}

StepTypes ==
    /\ begun \in [Node -> SUBSET Step]
    /\ record \in [Node -> [Step -> RecordStatus]]
    /\ shown \in [Node -> [Step -> ShownStatus]]
    /\ lost \in SUBSET Node

(* There is a record of exactly the steps that were begun, and only jobs   *)
(* that were dispatched have begun any.                                    *)
Filed == \A n \in Node : \A s \in Step : record[n][s] # "none" <=> s \in begun[n]

InStep == \A n \in Node : \A l \in Leg(n) : at[n][l] % 2 = 1 => Current(n, l) \in begun[n]

Quiet == \A n \in Node : worker[n] = "idle" => begun[n] = {}

StepInv == StepTypes /\ Filed /\ InStep /\ Quiet /\ TornStepsCancelled

LEMMA StepInit == ExecutionInit => StepInv
<1> SUFFICES ASSUME ExecutionInit PROVE StepInv
  OBVIOUS
<1>1. StepTypes
  BY DEF ExecutionInit, StepTypes, NoSteps, RecordStatus, ShownStatus
<1>2. Filed /\ Quiet
  BY DEF ExecutionInit, Filed, Quiet, NoSteps
<1>3. InStep
  BY DEF ExecutionInit, InStep
<1>4. TornStepsCancelled
  BY DEF ExecutionInit, EngineInit, TornStepsCancelled, Applied
<1> QED
  BY <1>1, <1>2, <1>3, <1>4 DEF StepInv

LEMMA BeginKeeps ==
    ASSUME OwnChildren, EInv, LegInv, StepInv,
           NEW n \in Node, NEW l \in Leg(n), StepBegins(n, l)
    PROVE  StepInv'
<1> DEFINE s == Current(n, l)
<1>1. /\ at[n][l] \in 0 .. End(n) /\ at[n][l] < End(n)
      /\ worker[n] = "executing" /\ at[n][l] % 2 = 0
      /\ at' = [at EXCEPT ![n][l] = at[n][l] + 1]
      /\ begun' = [begun EXCEPT ![n] = begun[n] \cup {s}]
      /\ record' = [record EXCEPT ![n][s] = IF record[n][s] # "none" THEN record[n][s] ELSE "running"]
      /\ UNCHANGED <<vars, shown, lost, status, phase>>
  BY BeginFacts DEF LegInv, AtOK
<1>2. s \in Step
  BY <1>1, CurrentFacts
<1> HIDE DEF s
<1>3. StepTypes'
  BY <1>1, <1>2 DEF StepInv, StepTypes, RecordStatus
<1>4. Filed'
  BY <1>1, <1>2 DEF StepInv, StepTypes, Filed
<1>5. Quiet'
  BY <1>1 DEF StepInv, StepTypes, Quiet, vars
<1>6. \A m \in Node : begun[m] \subseteq begun'[m]
  BY <1>1 DEF StepInv, StepTypes
<1>7. \A m \in Node : \A k \in Leg(m) :
         at'[m][k] = IF m = n /\ k = l THEN at[n][l] + 1 ELSE at[m][k]
  BY <1>1 DEF LegInv, AtOK
<1>8. Current(n, l)' = s
  <2> DEFINE a == at[n][l]
  <2>1. a \in Nat /\ a % 2 = 0
    BY <1>1, ScriptFacts
  <2>2. at'[n][l] = a + 1
    BY <1>7
  <2> HIDE DEF a
  <2>3. (a + 1) \div 2 = a \div 2
    BY <2>1
  <2> QED
    BY <2>2, <2>3 DEF Current, s, a
<1>9. InStep'
  <2> SUFFICES ASSUME NEW m \in Node, NEW k \in Leg(m), at'[m][k] % 2 = 1
               PROVE  Current(m, k)' \in begun'[m]
    BY DEF InStep, Leg
  <2>1. CASE m = n /\ k = l
    BY <1>1, <1>8, <2>1 DEF StepInv, StepTypes
  <2>2. CASE ~(m = n /\ k = l)
    <3>1. at'[m][k] = at[m][k]
      BY <1>7, <2>2
    <3>2. Current(m, k)' = Current(m, k)
      BY <3>1 DEF Current
    <3>3. Current(m, k) \in begun[m]
      BY <3>1 DEF StepInv, InStep
    <3> QED
      BY <1>6, <3>2, <3>3
  <2> QED
    BY <2>1, <2>2
<1>10. TornStepsCancelled'
  BY <1>1, NoJobAfterReturn DEF TornStepsCancelled, Applied, vars, queueVars
<1> QED
  BY <1>3, <1>4, <1>5, <1>9, <1>10 DEF StepInv

LEMMA EndKeeps ==
    ASSUME OwnChildren, EInv, LegInv, StepInv,
           NEW n \in Node, NEW l \in Leg(n), StepEnds(n, l)
    PROVE  StepInv'
<1> DEFINE s == Current(n, l)
<1>1. /\ at[n][l] \in 0 .. End(n) /\ at[n][l] < End(n)
      /\ worker[n] = "executing" /\ at[n][l] % 2 = 1
      /\ at' = [at EXCEPT ![n][l] = at[n][l] + 1]
      /\ UNCHANGED <<vars, begun, shown, lost, status, phase>>
  BY EndFacts DEF LegInv, AtOK
<1>2. PICK value \in {"pass", "fail"} : record' = [record EXCEPT ![n][s] = value]
  BY EndFacts
<1>3. s \in Step /\ s \in begun[n]
  BY <1>1, CurrentFacts DEF StepInv, InStep
<1> HIDE DEF s
<1>4. StepTypes'
  BY <1>1, <1>2, <1>3 DEF StepInv, StepTypes, RecordStatus
<1>5. Filed'
  BY <1>1, <1>2, <1>3 DEF StepInv, StepTypes, Filed
<1>6. Quiet'
  BY <1>1 DEF StepInv, Quiet, vars
<1>7. \A m \in Node : \A k \in Leg(m) :
         at'[m][k] = IF m = n /\ k = l THEN at[n][l] + 1 ELSE at[m][k]
  BY <1>1 DEF LegInv, AtOK
<1>8. at'[n][l] % 2 = 0
  <2> DEFINE a == at[n][l]
  <2>1. a \in Nat /\ a % 2 = 1 /\ at'[n][l] = a + 1
    BY <1>1, <1>7, ScriptFacts
  <2> HIDE DEF a
  <2>2. (a + 1) % 2 = 0
    BY <2>1
  <2> QED
    BY <2>1, <2>2
<1>9. InStep'
  BY <1>1, <1>7, <1>8 DEF StepInv, InStep, Current, Leg
<1>10. TornStepsCancelled'
  BY <1>1, NoJobAfterReturn DEF TornStepsCancelled, Applied, vars, queueVars
<1> QED
  BY <1>4, <1>5, <1>6, <1>9, <1>10 DEF StepInv

LEMMA SkipKeeps ==
    ASSUME EInv, LegInv, StepInv,
           NEW n \in Node, NEW l \in Leg(n), StepIsSkipped(n, l)
    PROVE  StepInv'
<1>1. /\ at[n][l] \in 0 .. End(n)
      /\ worker[n] = "executing" /\ at[n][l] % 2 = 0
      /\ at' = [at EXCEPT ![n][l] = at[n][l] + 2]
      /\ UNCHANGED <<vars, begun, record, shown, lost, status, phase>>
  BY SkipFacts DEF LegInv, AtOK
<1>2. StepTypes' /\ Filed'
  BY <1>1 DEF StepInv, StepTypes, Filed
<1>3. Quiet'
  BY <1>1 DEF StepInv, Quiet, vars
<1>4. \A m \in Node : \A k \in Leg(m) :
         at'[m][k] = IF m = n /\ k = l THEN at[n][l] + 2 ELSE at[m][k]
  BY <1>1 DEF LegInv, AtOK
<1>5. at'[n][l] % 2 = 0
  <2> DEFINE a == at[n][l]
  <2>1. a \in Nat /\ a % 2 = 0 /\ at'[n][l] = a + 2
    BY <1>1, <1>4, ScriptFacts
  <2> HIDE DEF a
  <2>2. (a + 2) % 2 = 0
    BY <2>1
  <2> QED
    BY <2>1, <2>2
<1>6. InStep'
  BY <1>1, <1>4, <1>5 DEF StepInv, InStep, Current, Leg
<1>7. TornStepsCancelled'
  BY <1>1, NoJobAfterReturn DEF TornStepsCancelled, Applied, vars, queueVars
<1> QED
  BY <1>2, <1>3, <1>6, <1>7 DEF StepInv

(* What happens outside of steps: no step changes, nothing that fails a    *)
(* job, and once the outcomes are applied nothing of them changes.         *)
Steady ==
    /\ UNCHANGED <<at, begun, record, shown, lost, broken>>
    /\ \A n \in Node : worker'[n] = "idle" => worker[n] = "idle"
    /\ Applied' => Applied /\ UNCHANGED <<status, seen>>

LEMMA JobSteady ==
    ASSUME EInv, NEW n \in Node, JobLogs(n) \/ JobErrs(n) \/ JobEnds(n)
    PROVE  Steady
<1>1. UNCHANGED <<vars, broken, phase>> /\ worker[n] = "executing"
  BY DEF JobLogs, JobErrs, JobEnds, StepLogs, StepFails, LogsAs, FailsAs, ActEnds, Acting, runVars
<1>2. UNCHANGED stepVars
  BY DEF JobLogs, JobErrs, JobEnds
<1>3. ~Applied'
  BY <1>1, NoJobAfterReturn DEF Applied, vars, queueVars
<1> QED
  BY <1>1, <1>2, <1>3 DEF Steady, stepVars, vars

LEMMA ElsewhereSteady ==
    ASSUME EInv, Elsewhere
    PROVE  Steady
<1>1. UNCHANGED stepVars /\ broken' = broken
  BY DEF Elsewhere, StartFails, StartQueue, LaunchJob, QueueStep, NodeReturns, CancelExec, Interrupt,
         WatchdogWakes, ForceCleanup, WatchdogStops, Finish, Finished, actVars, engineVars
<1>2. \A n \in Node : worker'[n] = "idle" => worker[n] = "idle"
  <2>1. worker \in [Node -> {"idle", "executing", "sending", "gone"}]
    BY DEF EInv, Inv, TypeOK
  <2>2. ASSUME LaunchJob PROVE \E n : worker' = [worker EXCEPT ![n] = "executing"]
    BY <2>2 DEF LaunchJob, Launch
  <2>3. ASSUME QueueStep PROVE worker' = worker \/ \E n : worker' = [worker EXCEPT ![n] = "gone"]
    BY <2>3 DEF QueueStep, Dispatch, PassOver, EndScan, Return, Receive
  <2>4. ASSUME NEW n \in Node, NodeReturns(n) PROVE worker' = [worker EXCEPT ![n] = "sending"]
    BY <2>4 DEF NodeReturns, ExecReturns
  <2>5. ASSUME Elsewhere, ~LaunchJob, ~QueueStep, \A n \in Node : ~NodeReturns(n) PROVE worker' = worker
    BY <2>5 DEF Elsewhere, StartFails, StartQueue, CancelExec, Interrupt, Cancel,
                WatchdogWakes, ForceCleanup, WatchdogStops, Finish, Finished, engineVars, vars
  <2> QED
    BY <2>1, <2>2, <2>3, <2>4, <2>5
<1>3. Applied' => Applied /\ UNCHANGED <<status, seen>>
  <2>1. ASSUME NEW cause, StartFails(cause) PROVE ~Applied'
    BY <2>1 DEF StartFails, Applied, EInv, Phases, vars, queueVars
  <2>2. ASSUME StartQueue \/ LaunchJob \/ QueueStep PROVE ~Applied'
    BY <2>2 DEF StartQueue, LaunchJob, QueueStep, runVars, Applied
  <2>3. ASSUME NEW n \in Node, NodeReturns(n) PROVE UNCHANGED <<phase, pc, status, seen>>
    BY <2>3 DEF NodeReturns, ExecReturns, runVars, actVars, queueVars
  <2>4. ASSUME CancelExec \/ Interrupt PROVE UNCHANGED <<phase, pc, status, seen>>
    BY <2>4 DEF CancelExec, Interrupt, Cancel, runVars, actVars, vars, queueVars
  <2>5. ASSUME WatchdogWakes \/ ForceCleanup \/ WatchdogStops \/ Finished
        PROVE  UNCHANGED <<phase, pc, status, seen>>
    BY <2>5 DEF WatchdogWakes, ForceCleanup, WatchdogStops, Finished, engineVars, runVars, actVars,
                vars, queueVars
  <2>6. ASSUME Finish PROVE phase = "applied" /\ UNCHANGED <<pc, status, seen>>
    BY <2>6 DEF Finish, actVars, vars, queueVars
  <2> QED
    BY <2>1, <2>2, <2>3, <2>4, <2>5, <2>6 DEF Elsewhere, Applied
<1> QED
  BY <1>1, <1>2, <1>3 DEF Steady, stepVars

LEMMA StutterSteady == UNCHANGED executionVars => Steady
BY DEF executionVars, engineVars, stepVars, runVars, actVars, vars, queueVars, Steady, Applied

LEMMA SteadyKeeps == StepInv /\ Steady => StepInv'
<1> SUFFICES ASSUME StepInv, Steady PROVE StepInv'
  OBVIOUS
<1>1. StepTypes' /\ Filed' /\ InStep'
  BY DEF Steady, StepInv, StepTypes, Filed, InStep, Current, Leg
<1>2. Quiet'
  BY DEF Steady, StepInv, Quiet
<1>3. TornStepsCancelled'
  BY DEF Steady, StepInv, TornStepsCancelled
<1> QED
  BY <1>1, <1>2, <1>3 DEF StepInv

(* What Execute makes of the record of one step.                           *)
LEMMA ApplyFacts ==
    ASSUME StepTypes, Apply, NEW n \in Node, NEW s \in Step
    PROVE  LET kept == IF n \in lost' THEN "none" ELSE record[n][s]
               told == IF kept = "none" /\ s \in Planned[n] /\ n \in seen THEN "skip" ELSE kept
           IN  shown'[n][s] = IF results[n].dispatched /\ OutcomeStatus(n) = "cancelled"
                                 /\ told \in {"fail", "running"}
                              THEN "cancelled" ELSE told
<1>1. Collected(n, lost')[s] = IF n \in lost' THEN "none" ELSE record[n][s]
  BY DEF Collected, NoSteps
<1>2. shown'[n] = Marked(n, Reconciled(n, Collected(n, lost')))
  BY DEF Apply
<1> QED
  BY <1>1, <1>2 DEF Marked, Reconciled

LEMMA ApplyKeeps ==
    ASSUME EInv, StepInv, Apply
    PROVE  StepInv'
<1>1. UNCHANGED <<vars, at, begun, record, seen>> /\ status' = [n \in Node |-> OutcomeStatus(n)]
  BY DEF Apply, ApplyOutcomes, actVars
<1>2. StepTypes /\ StepTypes'
  <2>1. StepTypes
    BY DEF StepInv
  <2>2. shown' = [n \in Node |-> [s \in Step |-> shown'[n][s]]]
    BY DEF Apply, Marked
  <2>3. \A n \in Node : \A s \in Step : shown'[n][s] \in ShownStatus
    BY <2>1, ApplyFacts DEF StepTypes, RecordStatus, ShownStatus
  <2>4. shown' \in [Node -> [Step -> ShownStatus]]
    BY <2>2, <2>3
  <2>5. lost' \in SUBSET Node
    BY DEF Apply, Unwritten
  <2> QED
    BY <1>1, <2>1, <2>4, <2>5 DEF StepTypes
<1>3. Filed' /\ InStep' /\ Quiet'
  BY <1>1 DEF StepInv, Filed, InStep, Quiet, Current, Leg, vars
<1>4. TornStepsCancelled'
  <2> SUFFICES ASSUME NEW n \in Node, NEW s \in Step, OutcomeStatus(n) = "cancelled"
               PROVE  shown'[n][s] \notin {"fail", "running"}
    BY <1>1 DEF TornStepsCancelled
  <2>1. CASE results[n].dispatched
    BY <1>2, <2>1, ApplyFacts
  <2>2. CASE ~results[n].dispatched
    <3>1. worker[n] = "idle"
      BY <2>2 DEF EInv, Inv, ResultsFaithful
    <3>2. record[n][s] = "none"
      BY <3>1 DEF StepInv, Quiet, Filed
    <3> QED
      BY <1>2, <3>2, ApplyFacts
  <2> QED
    BY <2>1, <2>2
<1> QED
  BY <1>2, <1>3, <1>4 DEF StepInv

LEMMA StepNext ==
    OwnChildren /\ EInv /\ LegInv /\ StepInv /\ [ExecutionNext]_executionVars => StepInv'
<1> SUFFICES ASSUME OwnChildren, EInv, LegInv, StepInv, [ExecutionNext]_executionVars PROVE StepInv'
  OBVIOUS
<1>1. ASSUME NEW n \in Node, InJob(n) PROVE StepInv'
  <2>1. CASE JobLogs(n) \/ JobErrs(n) \/ JobEnds(n)
    BY <2>1, JobSteady, SteadyKeeps
  <2>2. ASSUME NEW l \in Leg(n), StepBegins(n, l) \/ StepEnds(n, l) \/ StepIsSkipped(n, l) PROVE StepInv'
    BY <2>2, BeginKeeps, EndKeeps, SkipKeeps
  <2> QED
    BY <1>1, <2>1, <2>2 DEF InJob
<1>2. CASE Apply
  BY <1>2, ApplyKeeps
<1>3. CASE Elsewhere
  BY <1>3, ElsewhereSteady, SteadyKeeps
<1>4. CASE UNCHANGED executionVars
  BY <1>4, StutterSteady, SteadyKeeps
<1> QED
  BY <1>1, <1>2, <1>3, <1>4 DEF ExecutionNext

LEMMA ExecutionInvariance == OwnChildren => (ExecutionSpec => [](EInv /\ LegInv /\ StepInv))
<1>1. ExecutionSpec => []EInv
  BY ExecutionIsARun, EngineInvariance, PTL
<1>2. ExecutionSpec => []LegInv
  BY LegInit, LegNext, PTL DEF ExecutionSpec
<1> SUFFICES ASSUME OwnChildren PROVE ExecutionSpec => [](EInv /\ LegInv /\ StepInv)
  OBVIOUS
<1>3. EInv /\ LegInv /\ StepInv /\ [ExecutionNext]_executionVars => StepInv'
  BY StepNext
<1> QED
  BY <1>1, <1>2, <1>3, StepInit, PTL DEF ExecutionSpec

(* A job reported cancelled shows no step that failed or still runs,       *)
(* whatever came first: the line, the cancellation or the end of the job.  *)
THEOREM TornDownStepsReadCancelled ==
    ASSUME OwnChildren
    PROVE  ExecutionSpec => []TornStepsCancelled
<1>1. EInv /\ LegInv /\ StepInv => TornStepsCancelled
  BY DEF StepInv
<1>2. ExecutionSpec => [](EInv /\ LegInv /\ StepInv)
  BY ExecutionInvariance
<1> QED
  BY <1>1, <1>2, PTL

----------------------------------------------------------------------------
(* What is told of the steps, in plans where the steps of a job without a  *)
(* matrix have names of their own: the collector keeps steps by name.      *)

DistinctSteps ==
    \A n \in Node : Legs[n] = 1 => \A i, j \in 1 .. Len(Script[n]) : i # j => Script[n][i] # Script[n][j]

(* A job without a matrix that a step made fail has the record of one that *)
(* failed, behind it.                                                      *)
FailedStep(n, i) ==
    /\ i \in 1 .. Len(Script[n])
    /\ 2 * i <= at[n][1]
    /\ record[n][Script[n][i]] = "fail"

FailuresFiled == \A n \in broken : Legs[n] = 1 => \E i : FailedStep(n, i)

ToldInv == FailuresFiled /\ StepsTold

LEMMA ToldInit == ExecutionInit => ToldInv
BY DEF ExecutionInit, EngineInit, ToldInv, FailuresFiled, StepsTold, Applied

(* A leg that moves on leaves the records of the steps behind it alone.    *)
LEMMA FailureStays ==
    ASSUME DistinctSteps, LegInv, StepTypes,
           NEW n \in Node, NEW l \in Leg(n), NEW by \in {1, 2},
           at[n][l] < End(n),
           at' = [at EXCEPT ![n][l] = at[n][l] + by],
           \/ record' = record
           \/ \E value : record' = [record EXCEPT ![n][Current(n, l)] = value],
           NEW m \in Node, NEW i, FailedStep(m, i), Legs[m] = 1
    PROVE  FailedStep(m, i)'
<1>1. at[m][1] \in Nat /\ at[n][l] \in Nat /\ i \in Nat
  BY ScriptFacts DEF LegInv, AtOK, FailedStep
<1>2. at'[m][1] = IF m = n /\ l = 1 THEN at[n][l] + by ELSE at[m][1]
  BY ScriptFacts DEF LegInv, AtOK
<1>3. 2 * i <= at'[m][1]
  <2> DEFINE a == at[m][1]
             b == at'[m][1]
  <2>1. a \in Nat /\ i \in Nat /\ 2 * i <= a /\ b \in {a, a + 1, a + 2}
    BY <1>1, <1>2 DEF FailedStep
  <2> HIDE DEF a, b
  <2>2. 2 * i <= b
    BY <2>1
  <2> QED
    BY <2>2 DEF b
<1>4. record'[m][Script[m][i]] = "fail"
  <2>1. CASE m # n \/ record' = record
    BY <2>1 DEF FailedStep, StepTypes
  <2>2. CASE m = n /\ record' # record
    <3> DEFINE c == at[n][l] \div 2 + 1
    <3>1. l = 1
      BY <2>2, ScriptFacts
    <3>2. c \in 1 .. Len(Script[n]) /\ i \in 1 .. Len(Script[n])
      BY <2>2, CurrentFacts DEF LegInv, AtOK, FailedStep
    <3>3. c # i
      <4> DEFINE a == at[n][l]
      <4>1. a \in Nat /\ i \in Nat /\ 2 * i <= a
        BY <1>1, <2>2, <3>1 DEF FailedStep
      <4> HIDE DEF a
      <4>2. a \div 2 + 1 # i
        BY <4>1
      <4> QED
        BY <4>2 DEF a
    <3>4. Script[n][i] # Current(n, l)
      BY <2>2, <3>2, <3>3 DEF DistinctSteps, Current
    <3>5. Script[n][i] \in Step
      BY <3>2, ScriptFacts, ElementOfSeq
    <3>6. record'[n][Script[n][i]] = record[n][Script[n][i]]
      BY <2>2, <3>4, <3>5 DEF StepTypes
    <3> QED
      BY <2>2, <3>6 DEF FailedStep
  <2> QED
    BY <2>1, <2>2
<1> QED
  BY <1>3, <1>4 DEF FailedStep

(* A step that ends with a failure is the one that fails the job.          *)
LEMMA FailureFiled ==
    ASSUME LegInv, StepTypes, NEW n \in Node, NEW l \in Leg(n), Legs[n] = 1,
           at[n][l] < End(n), at[n][l] % 2 = 1,
           at' = [at EXCEPT ![n][l] = at[n][l] + 1],
           record' = [record EXCEPT ![n][Current(n, l)] = "fail"]
    PROVE  \E i : FailedStep(n, i)'
<1> DEFINE a == at[n][l]
           i == a \div 2 + 1
<1>1. l = 1 /\ a \in Nat
  BY ScriptFacts DEF LegInv, AtOK
<1>2. i \in 1 .. Len(Script[n]) /\ Current(n, l) \in Step
  BY CurrentFacts DEF LegInv, AtOK
<1>3. at'[n][1] = a + 1
  BY <1>1 DEF LegInv, AtOK
<1>4. record'[n][Script[n][i]] = "fail"
  BY <1>2 DEF Current, StepTypes
<1>5. a % 2 = 1
  OBVIOUS
<1>6. 2 * i = a + 1
  <2> HIDE DEF a
  <2> QED
    BY <1>1, <1>5 DEF i
<1>7. i \in Nat
  BY <1>2
<1>8. 2 * i <= at'[n][1]
  <2> DEFINE b == at'[n][1]
  <2>1. b = a + 1 /\ 2 * i = a + 1 /\ a \in Nat /\ i \in Nat
    BY <1>1, <1>3, <1>6, <1>7
  <2> HIDE DEF i, a, b
  <2>2. 2 * i <= b
    BY <2>1
  <2> QED
    BY <2>2 DEF b
<1> HIDE DEF i, a
<1>9. PICK j : j = i
  OBVIOUS
<1>10. FailedStep(n, j)'
  BY <1>2, <1>4, <1>8, <1>9 DEF FailedStep
<1> QED
  BY <1>10

(* The steps of jobs.                                                      *)
LEMMA StepKeepsTold ==
    ASSUME OwnChildren, DistinctSteps, EInv, LegInv, StepInv, ToldInv, NEW n \in Node, NEW l \in Leg(n),
           StepBegins(n, l) \/ StepEnds(n, l) \/ StepIsSkipped(n, l)
    PROVE  ToldInv'
<1>1. StepTypes /\ broken \in SUBSET Node
  BY DEF StepInv, EInv, EngineTypeOK
<1>2. worker[n] = "executing" /\ UNCHANGED <<vars, phase>>
  BY BeginFacts, EndFacts, SkipFacts
<1>3. StepsTold'
  BY <1>2, NoJobAfterReturn DEF StepsTold, Applied, vars, queueVars
<1>4. FailuresFiled'
  <2>1. /\ at[n][l] < End(n)
        /\ \E by \in {1, 2} : at' = [at EXCEPT ![n][l] = at[n][l] + by]
        /\ \/ record' = record
           \/ \E value : record' = [record EXCEPT ![n][Current(n, l)] = value]
    BY BeginFacts, EndFacts, SkipFacts
  <2>2. ASSUME NEW m \in broken, Legs[m] = 1 PROVE \E i : FailedStep(m, i)'
    <3>1. PICK i : FailedStep(m, i)
      BY <2>2 DEF ToldInv, FailuresFiled
    <3>2. FailedStep(m, i)'
      BY <1>1, <2>1, <2>2, <3>1, FailureStays
    <3> QED
      BY <3>2
  <2>3. ASSUME broken' # broken, Legs[n] = 1 PROVE \E i : FailedStep(n, i)'
    <3>1. /\ at[n][l] % 2 = 1
          /\ at' = [at EXCEPT ![n][l] = at[n][l] + 1]
          /\ record' = [record EXCEPT ![n][Current(n, l)] = "fail"]
      BY <2>3, BeginFacts, EndFacts, SkipFacts
    <3> QED
      BY <1>1, <2>1, <2>3, <3>1, FailureFiled
  <2>4. broken' = broken \/ broken' = broken \cup {n}
    BY BeginFacts, EndFacts, SkipFacts
  <2> QED
    BY <2>2, <2>3, <2>4 DEF FailuresFiled
<1> QED
  BY <1>3, <1>4 DEF ToldInv

LEMMA SteadyKeepsTold == ToldInv /\ Steady => ToldInv'
<1> SUFFICES ASSUME ToldInv, Steady PROVE ToldInv'
  OBVIOUS
<1>1. FailuresFiled'
  BY DEF Steady, ToldInv, FailuresFiled, FailedStep
<1>2. StepsTold'
  BY DEF Steady, ToldInv, StepsTold
<1> QED
  BY <1>1, <1>2 DEF ToldInv

LEMMA ApplyTells ==
    ASSUME EInv, StepInv, ToldInv, Apply
    PROVE  ToldInv'
<1>1. /\ UNCHANGED <<vars, at, begun, record, seen, broken>>
      /\ status' = [n \in Node |-> OutcomeStatus(n)]
      /\ StepTypes
  BY DEF Apply, ApplyOutcomes, actVars, StepInv
<1>2. FailuresFiled'
  BY <1>1 DEF ToldInv, FailuresFiled, FailedStep
<1>3. ASSUME NEW n \in seen \ lost', n \in Node
      PROVE  /\ \A s \in Planned[n] : /\ shown'[n][s] # "none"
                                      /\ shown'[n][s] = "skip" <=> s \notin begun[n]
             /\ n \in broken /\ Legs[n] = 1 /\ OutcomeStatus(n) = "fail" =>
                   \E s \in Step : shown'[n][s] = "fail"
  <2>1. ASSUME NEW s \in Planned[n]
        PROVE  shown'[n][s] # "none" /\ (shown'[n][s] = "skip" <=> s \notin begun[n])
    <3>1. s \in Step
      BY <1>3, ExecutionAssumption
    <3>2. record[n][s] \in RecordStatus
      BY <1>1, <1>3, <3>1 DEF StepTypes
    <3>3. record[n][s] # "none" <=> s \in begun[n]
      BY <1>3, <3>1 DEF StepInv, Filed
    <3> QED
      BY <1>1, <1>3, <3>1, <3>2, <3>3, ApplyFacts DEF RecordStatus
  <2>2. ASSUME n \in broken, Legs[n] = 1, OutcomeStatus(n) = "fail"
        PROVE  \E s \in Step : shown'[n][s] = "fail"
    <3>1. PICK i : FailedStep(n, i)
      BY <2>2 DEF ToldInv, FailuresFiled
    <3> DEFINE s == Script[n][i]
    <3>2. s \in Step /\ record[n][s] = "fail"
      BY <1>3, <3>1, ScriptFacts, ElementOfSeq DEF FailedStep
    <3>3. shown'[n][s] = "fail"
      BY <1>1, <1>3, <2>2, <3>2, ApplyFacts
    <3> QED
      BY <3>2, <3>3
  <2> QED
    BY <2>1, <2>2
<1>4. seen \in SUBSET Node
  BY DEF EInv, EngineTypeOK
<1>5. StepsTold'
  BY <1>1, <1>3, <1>4 DEF StepsTold
<1> QED
  BY <1>2, <1>5 DEF ToldInv

LEMMA ToldNext ==
    OwnChildren /\ DistinctSteps /\ EInv /\ LegInv /\ StepInv /\ ToldInv
        /\ [ExecutionNext]_executionVars => ToldInv'
<1> SUFFICES ASSUME OwnChildren, DistinctSteps, EInv, LegInv, StepInv, ToldInv,
                    [ExecutionNext]_executionVars
             PROVE  ToldInv'
  OBVIOUS
<1>1. ASSUME NEW n \in Node, InJob(n) PROVE ToldInv'
  <2>1. CASE JobLogs(n) \/ JobErrs(n) \/ JobEnds(n)
    BY <2>1, JobSteady, SteadyKeepsTold
  <2>2. ASSUME NEW l \in Leg(n), StepBegins(n, l) \/ StepEnds(n, l) \/ StepIsSkipped(n, l) PROVE ToldInv'
    BY <2>2, StepKeepsTold
  <2> QED
    BY <1>1, <2>1, <2>2 DEF InJob
<1>2. CASE Apply
  BY <1>2, ApplyTells
<1>3. CASE Elsewhere
  BY <1>3, ElsewhereSteady, SteadyKeepsTold
<1>4. CASE UNCHANGED executionVars
  BY <1>4, StutterSteady, SteadyKeepsTold
<1> QED
  BY <1>1, <1>2, <1>3, <1>4 DEF ExecutionNext

(* What is shown of the steps of a job whose log was written is what       *)
(* happened to them: a planned step reads skipped if and only if it was    *)
(* never begun, and a failed job without a matrix shows a failed step if   *)
(* one of its steps made it fail.                                          *)
THEOREM StepsAreTold ==
    ASSUME OwnChildren, DistinctSteps
    PROVE  ExecutionSpec => []StepsTold
<1>1. EInv /\ LegInv /\ StepInv /\ ToldInv /\ [ExecutionNext]_executionVars => ToldInv'
  BY ToldNext
<1>2. ExecutionSpec => [](EInv /\ LegInv /\ StepInv)
  BY ExecutionInvariance
<1>3. ToldInv => StepsTold
  BY DEF ToldInv
<1> QED
  BY <1>1, <1>2, <1>3, ToldInit, PTL DEF ExecutionSpec

(* The variables of the steps keep their types.                            *)
THEOREM ExecutionTypeCorrect ==
    ASSUME OwnChildren
    PROVE  ExecutionSpec => []ExecutionTypeOK
<1>1. ASSUME EInv /\ LegInv /\ StepInv PROVE ExecutionTypeOK
  <2>1. \A n \in Node : at[n] \in [Leg(n) -> 0 .. End(n)]
    BY <1>1 DEF LegInv, AtOK
  <2> QED
    BY <1>1, <2>1 DEF StepInv, StepTypes, RecordStatus, ShownStatus, ExecutionTypeOK
<1>2. ExecutionSpec => [](EInv /\ LegInv /\ StepInv)
  BY ExecutionInvariance
<1>3. EInv /\ LegInv /\ StepInv => ExecutionTypeOK
  BY <1>1
<1> QED
  BY <1>2, <1>3, PTL
=============================================================================
