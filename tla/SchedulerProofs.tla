-------------------------- MODULE SchedulerProofs --------------------------
(***************************************************************************)
(* The job queue is correct for every number of jobs, every weight, rank   *)
(* and acyclic set of needs, and every pool size.                          *)
(***************************************************************************)
EXTENDS Scheduler, FiniteSetTheorems, SequenceTheorems, TLAPS

(* Every job costs at least one slot and at most the whole pool.           *)
LEMMA CostType ==
    /\ Capacity \in Nat \ {0}
    /\ \A n \in Node : Cost(n) \in 1 .. Capacity
BY ShapeAssumption DEF Capacity, Cost

(* There are finitely many jobs, hence finitely many in any set of them.   *)
LEMMA NodesFinite ==
    ASSUME NEW S \in SUBSET Node
    PROVE  /\ IsFiniteSet(S)
           /\ Cardinality(S) \in Nat
<1>1. IsFiniteSet(Node)
  BY FS_Interval, ShapeAssumption DEF Node
<1>2. IsFiniteSet(S)
  BY <1>1, FS_Subset
<1> QED
  BY <1>2, FS_CardinalityType

(* The slots of finitely many jobs can be counted.                         *)
LEMMA SlotsFinite ==
    ASSUME NEW S \in SUBSET Node
    PROVE  /\ IsFiniteSet(SlotsOf(S))
           /\ Cardinality(SlotsOf(S)) \in Nat
<1>1. IsFiniteSet(Node \X (1 .. Capacity))
  <2>1. IsFiniteSet(Node)
    BY NodesFinite
  <2>2. IsFiniteSet(1 .. Capacity)
    BY FS_Interval, CostType
  <2> QED
    BY <2>1, <2>2, FS_Product, Zenon
<1>2. SlotsOf(S) \in SUBSET (Node \X (1 .. Capacity))
  BY DEF SlotsOf
<1> QED
  BY <1>1, <1>2, FS_Subset, FS_CardinalityType

(* A job holds Cost(n) slots of its own.                                   *)
LEMMA SlotsOfOne ==
    ASSUME NEW n \in Node
    PROVE  /\ IsFiniteSet({n} \X (1 .. Cost(n)))
           /\ Cardinality({n} \X (1 .. Cost(n))) = Cost(n)
<1>1. IsFiniteSet({n}) /\ Cardinality({n}) = 1
  BY FS_Singleton
<1>2. IsFiniteSet(1 .. Cost(n)) /\ Cardinality(1 .. Cost(n)) = Cost(n)
  BY FS_Interval, CostType
<1>3. Cardinality({n} \X (1 .. Cost(n))) = Cardinality({n}) * Cardinality(1 .. Cost(n))
  BY <1>1, <1>2, FS_Product, Zenon
<1>4. IsFiniteSet({n} \X (1 .. Cost(n)))
  BY <1>1, <1>2, FS_Product, Zenon
<1> QED
  BY <1>1, <1>2, <1>3, <1>4, CostType

(* A job entering or leaving a set of jobs brings or takes its own slots   *)
(* and no other.                                                           *)
LEMMA SlotsAdd ==
    ASSUME NEW S \in SUBSET Node, NEW n \in Node, n \notin S
    PROVE  Cardinality(SlotsOf(S \cup {n})) = Cardinality(SlotsOf(S)) + Cost(n)
<1> DEFINE own == {n} \X (1 .. Cost(n))
<1>1. SlotsOf(S \cup {n}) = SlotsOf(S) \cup own
  BY CostType DEF SlotsOf
<1>2. SlotsOf(S) \cap own = {}
  BY DEF SlotsOf
<1>3. Cardinality(SlotsOf(S) \cup own) =
        Cardinality(SlotsOf(S)) + Cardinality(own) - Cardinality(SlotsOf(S) \cap own)
  BY SlotsFinite, SlotsOfOne, FS_Union
<1>4. Cardinality(SlotsOf(S) \cap own) = 0
  BY <1>2, FS_EmptySet
<1>5. Cardinality(SlotsOf(S)) \in Nat /\ Cardinality(own) = Cost(n) /\ Cost(n) \in Nat
  BY SlotsFinite, SlotsOfOne, CostType
<1>6. Cardinality(SlotsOf(S \cup {n})) = Cardinality(SlotsOf(S) \cup own)
  BY <1>1, Zenon
<1> DEFINE before == Cardinality(SlotsOf(S))
           after == Cardinality(SlotsOf(S \cup {n}))
           joint == Cardinality(SlotsOf(S) \cup own)
           cost == Cost(n)
<1>7. after = joint /\ joint = before + cost - 0 /\ before \in Nat /\ cost \in Nat
  BY <1>3, <1>4, <1>5, <1>6, Zenon
<1> HIDE DEF before, after, joint, cost
<1>8. after = before + cost
  BY <1>7
<1> QED
  BY <1>8 DEF before, after, cost

(* A job that leaves a set of jobs gives back exactly its own Cost(n)      *)
(* slots.                                                                  *)
LEMMA SlotsRemove ==
    ASSUME NEW S \in SUBSET Node, NEW n \in S
    PROVE  Cardinality(SlotsOf(S \ {n})) = Cardinality(SlotsOf(S)) - Cost(n)
<1>1. (S \ {n}) \cup {n} = S
  OBVIOUS
<1>2. Cardinality(SlotsOf(S)) = Cardinality(SlotsOf(S \ {n})) + Cost(n)
  BY <1>1, SlotsAdd
<1> QED
  BY <1>2, SlotsFinite, CostType

(* Deleting one entry of a list keeps the others, in their order.          *)
LEMMA RemoveAtFacts ==
    ASSUME NEW S, NEW s \in Seq(S), NEW i \in 1 .. Len(s)
    PROVE  LET t == RemoveAt(s, i)
           IN  /\ t \in Seq(S)
               /\ Len(t) = Len(s) - 1
               /\ \A k \in 1 .. Len(s) - 1 : t[k] = IF k < i THEN s[k] ELSE s[k + 1]
<1> DEFINE a == SubSeq(s, 1, i - 1)
           b == SubSeq(s, i + 1, Len(s))
<1>1. Len(s) \in Nat /\ \A k \in 1 .. Len(s) : s[k] \in S
  BY LenProperties, ElementOfSeq
<1>2. /\ a \in Seq(S)
      /\ Len(a) = i - 1
      /\ \A k \in 1 .. i - 1 : a[k] = s[k]
  <2>1. \A k \in 1 .. i - 1 : s[k] \in S
    BY <1>1
  <2>2. 1 \in Int /\ i - 1 \in Int
    BY <1>1
  <2> HIDE DEF a
  <2>3. /\ a \in Seq(S)
        /\ Len(a) = IF 1 <= i - 1 THEN i - 1 - 1 + 1 ELSE 0
        /\ \A k \in 1 .. i - 1 - 1 + 1 : a[k] = s[1 + k - 1]
    BY <2>1, <2>2, SubSeqProperties DEF a
  <2> QED
    BY <2>3, <1>1
<1>3. /\ b \in Seq(S)
      /\ Len(b) = Len(s) - i
      /\ \A k \in 1 .. Len(s) - i : b[k] = s[i + k]
  <2>1. \A k \in i + 1 .. Len(s) : s[k] \in S
    BY <1>1
  <2>2. i + 1 \in Int /\ Len(s) \in Int
    BY <1>1
  <2> HIDE DEF b
  <2>3. /\ b \in Seq(S)
        /\ Len(b) = IF i + 1 <= Len(s) THEN Len(s) - (i + 1) + 1 ELSE 0
        /\ \A k \in 1 .. Len(s) - (i + 1) + 1 : b[k] = s[i + 1 + k - 1]
    BY <2>1, <2>2, SubSeqProperties DEF b
  <2> QED
    BY <2>3, <1>1
<1>4. RemoveAt(s, i) = a \o b
  BY DEF RemoveAt
<1> HIDE DEF a, b
<1>5. /\ a \o b \in Seq(S)
      /\ Len(a \o b) = Len(a) + Len(b)
      /\ \A k \in 1 .. Len(a) + Len(b) : (a \o b)[k] = IF k <= Len(a) THEN a[k] ELSE b[k - Len(a)]
  BY <1>2, <1>3, ConcatProperties
<1> QED
  BY <1>1, <1>2, <1>3, <1>4, <1>5

(* The sorted list has the old and the added jobs, once each, best rank    *)
(* first.                                                                  *)
LEMMA SortedFacts ==
    ASSUME NEW list \in Seq(Node), NEW added \in SUBSET Node,
           NEW t \in SortedByRank(list, added)
    PROVE  /\ t \in Seq(Node)
           /\ Range(t) = Range(list) \cup added
           /\ \A i, j \in DOMAIN t : i < j => t[i] # t[j] /\ Rank[t[i]] >= Rank[t[j]]
<1> DEFINE k == Len(list) + Cardinality(added)
           all == Range(list) \cup added
<1>1. k \in Nat
  BY NodesFinite, LenProperties
<1>2. Range(list) \subseteq Node
  BY RangeOfSeq
<1>3. t \in Bijection(1 .. k, all)
  BY DEF SortedByRank
<1>4. /\ t \in [1 .. k -> all]
      /\ \A a, b \in 1 .. k : t[a] = t[b] => a = b
      /\ \A x \in all : \E a \in 1 .. k : t[a] = x
  BY <1>3 DEF Bijection, Injection, Surjection, IsInjective
<1>5. \A i, j \in DOMAIN t : i < j => Rank[t[i]] > Rank[t[j]] \/ Rank[t[i]] = Rank[t[j]]
  BY DEF SortedByRank
<1> HIDE DEF k, all
<1>6. all \subseteq Node
  BY <1>2 DEF all
<1>7. t \in Seq(Node)
  BY <1>1, <1>4, <1>6
<1>8. Range(t) = all
  BY <1>4 DEF Range
<1>9. \A i, j \in DOMAIN t : i < j => t[i] # t[j]
  BY <1>1, <1>4
<1>10. \A i \in DOMAIN t : t[i] \in Node
  BY <1>4, <1>6
<1>11. \A i, j \in DOMAIN t : i < j => Rank[t[i]] >= Rank[t[j]]
  BY <1>5, <1>10, ShapeAssumption
<1> QED
  BY <1>7, <1>8, <1>9, <1>11 DEF all

----------------------------------------------------------------------------

(* The inductive invariant: no part of it is inductive alone.  That what   *)
(* is free fits a dispatch needs the slot accounting; that a list without  *)
(* fitting jobs means a finished run needs the ready list to be exact.     *)
Inv ==
    /\ TypeOK
    /\ SlotAccounting
    /\ ReadyIsExact
    /\ NoIdleCapacity
    /\ ReturnsDrained
    /\ ResultsFaithful

(* A queue that has just been set up satisfies the invariant: only the     *)
(* jobs without needs are ready, and every slot is free.                   *)
LEMMA InitInv == Init => Inv
<1> SUFFICES ASSUME Init PROVE Inv
  OBVIOUS
<1> DEFINE roots == {n \in Node : Needs[n] = {}}
<1>1. /\ ready \in Seq(Node)
      /\ Range(ready) = Range(<<>>) \cup roots
      /\ \A i, j \in DOMAIN ready : i < j => ready[i] # ready[j] /\ Rank[ready[i]] >= Rank[ready[j]]
  <2>1. <<>> \in Seq(Node) /\ roots \in SUBSET Node
    OBVIOUS
  <2>2. ready \in SortedByRank(<<>>, roots)
    BY DEF Init
  <2> HIDE DEF roots
  <2> QED
    BY <2>1, <2>2, SortedFacts
<1>2. Range(ready) = roots
  BY <1>1 DEF Range
<1>3. \A n \in Node : Needs[n] \in SUBSET Node
  BY ShapeAssumption
<1>4. InFlight = {} /\ Completed = {}
  BY DEF Init, InFlight, Completed
<1>5. TypeOK
  <2>1. \A n \in Node : Cardinality(Needs[n]) \in Nat
    BY <1>3, NodesFinite
  <2>2. waiting \in [Node -> Nat]
    BY <2>1 DEF Init
  <2>3. Capacity \in Nat
    BY CostType
  <2>4. outcome \in [Node -> Outcome]
    BY DEF Init, Outcome, NoOutcome
  <2>5. results \in [Node -> [dispatched : BOOLEAN, failed : BOOLEAN, err : BOOLEAN]]
    BY DEF Init
  <2>6. worker \in [Node -> {"idle", "executing", "sending", "gone"}]
    BY DEF Init
  <2>7. free \in Nat /\ running \in Nat /\ position \in Nat \ {0}
    BY <2>3 DEF Init
  <2>8. pc \in {"dispatch", "scan", "await", "done"} /\ failed \in BOOLEAN /\ ctxDone \in BOOLEAN
    BY DEF Init
  <2> QED
    BY <1>1, <2>2, <2>4, <2>5, <2>6, <2>7, <2>8 DEF TypeOK
<1>6. SlotAccounting
  <2>1. SlotsOf({}) = {}
    BY DEF SlotsOf
  <2>2. Cardinality({}) = 0
    BY FS_EmptySet
  <2>3. free = Capacity /\ running = 0
    BY DEF Init
  <2>4. Cardinality(SlotsOf(InFlight)) = 0 /\ Cardinality(InFlight) = 0
    BY <1>4, <2>1, <2>2, Zenon
  <2>5. Capacity + 0 = Capacity
    BY CostType
  <2> QED
    BY <2>3, <2>4, <2>5, Zenon DEF SlotAccounting
<1>7. ReadyIsExact
  <2>1. \A n \in Node : worker[n] = "idle" /\ waiting[n] = Cardinality(Needs[n])
    BY DEF Init
  <2>2. \A n \in Node : waiting[n] = Cardinality(Needs[n] \ Completed)
    BY <1>4, <2>1
  <2>3. Range(ready) = {n \in Node : worker[n] = "idle" /\ Needs[n] \subseteq Completed}
    BY <1>2, <1>4, <2>1
  <2> QED
    BY <1>1, <2>1, <2>2, <2>3 DEF ReadyIsExact
<1>8. NoIdleCapacity /\ ReturnsDrained
  BY DEF Init, NoIdleCapacity, ReturnsDrained
<1>9. ResultsFaithful
  BY DEF Init, ResultsFaithful
<1> QED
  BY <1>5, <1>6, <1>7, <1>8, <1>9 DEF Inv

(* The parts that look only at the jobs survive a step of the dispatcher's *)
(* control or of the context.                                              *)
LEMMA JobsUntouched ==
    ASSUME Inv, UNCHANGED <<ready, waiting, free, running, failed, results, worker>>
    PROVE  SlotAccounting' /\ ReadyIsExact' /\ ResultsFaithful'
<1>1. InFlight' = InFlight /\ Completed' = Completed
  BY DEF InFlight, Completed
<1>2. SlotAccounting'
  BY <1>1 DEF Inv, SlotAccounting
<1>3. ReadyIsExact'
  BY <1>1 DEF Inv, ReadyIsExact
<1>4. ResultsFaithful'
  BY DEF Inv, ResultsFaithful
<1> QED
  BY <1>2, <1>3, <1>4

(* Entering dispatch() keeps the invariant; an entry that finds the run    *)
(* stopped goes straight to the wait.                                      *)
LEMMA DispatchKeeps == Inv /\ Dispatch => Inv'
<1> SUFFICES ASSUME Inv, Dispatch PROVE Inv'
  OBVIOUS
<1>1. TypeOK'
  BY DEF Inv, TypeOK, Dispatch
<1>2. SlotAccounting' /\ ReadyIsExact' /\ ResultsFaithful'
  BY JobsUntouched DEF Dispatch
<1>3. NoIdleCapacity'
  <2>1. pc' = "scan" => position' = 1 /\ \A i \in DOMAIN ready' : i >= 1
    BY LenProperties DEF Inv, TypeOK, Dispatch
  <2>2. pc' = "await" => Stopping'
    BY DEF Dispatch, Stopping
  <2>3. pc' = "scan" => \A i \in DOMAIN ready' : i \in Int
    BY LenProperties DEF Inv, TypeOK, Dispatch
  <2> QED
    BY <2>1, <2>2, <2>3 DEF NoIdleCapacity
<1>4. ReturnsDrained'
  BY DEF Dispatch, ReturnsDrained
<1> QED
  BY <1>1, <1>2, <1>3, <1>4 DEF Inv

(* Skipping a job that is too wide keeps the invariant: what lies behind   *)
(* the scan still does not fit.                                            *)
LEMMA PassOverKeeps == Inv /\ PassOver => Inv'
<1> SUFFICES ASSUME Inv, PassOver PROVE Inv'
  OBVIOUS
<1>1. TypeOK'
  BY DEF Inv, TypeOK, PassOver
<1>2. SlotAccounting' /\ ReadyIsExact' /\ ResultsFaithful'
  BY JobsUntouched DEF PassOver
<1>3. NoIdleCapacity'
  <2>1. DOMAIN ready = 1 .. Len(ready) /\ Len(ready) \in Nat /\ position \in Nat
    BY LenProperties DEF Inv, TypeOK
  <2>2. \A i \in DOMAIN ready : i < position + 1 => i < position \/ i = position
    BY <2>1
  <2>3. \A i \in DOMAIN ready : i < position => Cost(ready[i]) > free
    BY DEF Inv, NoIdleCapacity, PassOver
  <2> QED
    BY <2>2, <2>3 DEF PassOver, NoIdleCapacity
<1>4. ReturnsDrained'
  BY DEF PassOver, ReturnsDrained
<1> QED
  BY <1>1, <1>2, <1>3, <1>4 DEF Inv

(* The end of a scan keeps the invariant: the whole ready list was passed  *)
(* over, so nothing in it fits.                                            *)
LEMMA EndScanKeeps == Inv /\ EndScan => Inv'
<1> SUFFICES ASSUME Inv, EndScan PROVE Inv'
  OBVIOUS
<1>1. TypeOK'
  BY DEF Inv, TypeOK, EndScan
<1>2. SlotAccounting' /\ ReadyIsExact' /\ ResultsFaithful'
  BY JobsUntouched DEF EndScan
<1>3. NoIdleCapacity'
  <2>1. \A i \in DOMAIN ready : i < position
    BY LenProperties DEF Inv, TypeOK, EndScan
  <2> QED
    BY <2>1 DEF Inv, EndScan, NoIdleCapacity
<1>4. ReturnsDrained'
  BY DEF EndScan, ReturnsDrained
<1> QED
  BY <1>1, <1>2, <1>3, <1>4 DEF Inv

(* A cancellation at any moment keeps the invariant.                       *)
LEMMA CancelKeeps == Inv /\ Cancel => Inv'
<1> SUFFICES ASSUME Inv, Cancel PROVE Inv'
  OBVIOUS
<1>1. TypeOK'
  BY DEF Inv, TypeOK, Cancel, queueVars
<1>2. SlotAccounting' /\ ReadyIsExact' /\ ResultsFaithful'
  BY JobsUntouched DEF Cancel, queueVars
<1>3. NoIdleCapacity'
  BY DEF Inv, Cancel, queueVars, NoIdleCapacity, Stopping
<1>4. ReturnsDrained'
  BY DEF Inv, Cancel, queueVars, ReturnsDrained, InFlight, Completed, Stopping
<1> QED
  BY <1>1, <1>2, <1>3, <1>4 DEF Inv

(* runQueue returns with nothing in flight; unless it was stopped, a queue *)
(* with nothing in flight and nothing ready that fits has no job left,     *)
(* because needs are acyclic.                                              *)
LEMMA ReturnKeeps == Inv /\ Return => Inv'
<1> SUFFICES ASSUME Inv, Return PROVE Inv'
  OBVIOUS
<1>1. TypeOK'
  BY DEF Inv, TypeOK, Return
<1>2. SlotAccounting' /\ ReadyIsExact' /\ ResultsFaithful'
  BY JobsUntouched DEF Return
<1>3. NoIdleCapacity'
  BY DEF Return, NoIdleCapacity
<1>4. InFlight = {}
  BY NodesFinite, FS_EmptySet DEF Inv, SlotAccounting, Return, InFlight
<1>5. ASSUME ~Stopping PROVE Completed = Node
  <2>1. free = Capacity
    <3>1. SlotsOf(InFlight) = {}
      BY <1>4 DEF SlotsOf
    <3>2. Cardinality(SlotsOf(InFlight)) = 0
      BY <3>1, FS_EmptySet
    <3> QED
      BY <3>2 DEF Inv, SlotAccounting, TypeOK
  <2>2. \A i \in DOMAIN ready : ready[i] \in Node
    BY LenProperties DEF Inv, TypeOK
  <2>3. \A i \in DOMAIN ready : FALSE
    <3>1. \A i \in DOMAIN ready : Cost(ready[i]) > Capacity
      BY <1>5, <2>1 DEF Inv, NoIdleCapacity, Return
    <3> QED
      BY <2>2, <3>1, CostType
  <2>4. Range(ready) = {}
    BY <2>3 DEF Range
  <2> DEFINE left == Node \ Completed
  <2>5. \A n \in left : worker[n] = "idle"
    BY <1>4 DEF InFlight, Completed, Inv, TypeOK
  <2>6. \A n \in left : ~(Needs[n] \subseteq Completed)
    BY <2>4, <2>5 DEF Inv, ReadyIsExact
  <2>7. \A n \in left : Needs[n] \cap left # {}
    BY <2>6, ShapeAssumption
  <2>8. left = {}
    BY <2>7, AcyclicAssumption
  <2> QED
    BY <2>8 DEF Completed
<1>6. ReturnsDrained'
  <2>1. InFlight' = InFlight /\ Completed' = Completed /\ Stopping' = Stopping
    BY DEF Return, InFlight, Completed, Stopping
  <2> QED
    BY <1>4, <1>5, <2>1 DEF ReturnsDrained
<1> QED
  BY <1>1, <1>2, <1>3, <1>6 DEF Inv

(* An execution that ends keeps its slots until its completion is          *)
(* received.                                                               *)
LEMMA ExecReturnsKeeps ==
    ASSUME Inv, NEW n \in Node, NEW out \in Outcome, ExecReturns(n, out)
    PROVE  Inv'
<1>1. TypeOK'
  BY DEF Inv, TypeOK, ExecReturns, queueVars
<1>2. /\ \A m \in Node : worker'[m] = IF m = n THEN "sending" ELSE worker[m]
      /\ worker[n] = "executing"
  BY DEF Inv, TypeOK, ExecReturns
<1>3. InFlight' = InFlight /\ Completed' = Completed
  BY <1>2 DEF InFlight, Completed
<1>4. SlotAccounting'
  BY <1>3 DEF Inv, SlotAccounting, ExecReturns, queueVars
<1>5. ReadyIsExact'
  <2>1. \A m \in Node : worker'[m] = "idle" <=> worker[m] = "idle"
    BY <1>2
  <2>2. ready' = ready /\ waiting' = waiting
    BY DEF ExecReturns, queueVars
  <2> QED
    BY <1>3, <2>1, <2>2 DEF Inv, ReadyIsExact
<1>6. ResultsFaithful'
  BY <1>2 DEF Inv, ResultsFaithful, ExecReturns, queueVars
<1>7. NoIdleCapacity'
  BY DEF Inv, NoIdleCapacity, ExecReturns, queueVars, Stopping
<1>8. ReturnsDrained'
  BY <1>3 DEF Inv, ReturnsDrained, ExecReturns, queueVars, Stopping
<1> QED
  BY <1>1, <1>4, <1>5, <1>6, <1>7, <1>8 DEF Inv

(* A dispatch keeps the invariant: the job leaves the ready list, and its  *)
(* slots move from free to held.                                           *)
LEMMA LaunchKeeps == Inv /\ Launch => Inv'
<1> SUFFICES ASSUME Inv, Launch PROVE Inv'
  OBVIOUS
<1> DEFINE n == ready[position]
<1>1. /\ position \in 1 .. Len(ready)
      /\ Len(ready) \in Nat
      /\ DOMAIN ready = 1 .. Len(ready)
      /\ ready \in Seq(Node)
      /\ \A i \in 1 .. Len(ready) : ready[i] \in Node
  BY LenProperties, ElementOfSeq DEF Inv, TypeOK, Launch
<1>2. n \in Node /\ n \in Range(ready)
  BY <1>1 DEF Range
<1>3. worker[n] = "idle" /\ Needs[n] \subseteq Completed
  BY <1>2 DEF Inv, ReadyIsExact
<1>4. /\ \A m \in Node : worker'[m] = IF m = n THEN "executing" ELSE worker[m]
      /\ worker' \in [Node -> {"idle", "executing", "sending", "gone"}]
  BY <1>2 DEF Inv, TypeOK, Launch
<1>5. InFlight' = InFlight \cup {n} /\ n \notin InFlight
  BY <1>2, <1>3, <1>4 DEF InFlight
<1>6. Completed' = Completed
  BY <1>3, <1>4 DEF Completed
<1>7. /\ ready' \in Seq(Node)
      /\ Len(ready') = Len(ready) - 1
      /\ \A k \in 1 .. Len(ready) - 1 :
            ready'[k] = IF k < position THEN ready[k] ELSE ready[k + 1]
  BY <1>1, RemoveAtFacts DEF Launch
<1>8. DOMAIN ready' = 1 .. Len(ready) - 1
  BY <1>7, LenProperties
<1>9. \A m \in Node : results'[m] =
        IF m = n THEN [results[m] EXCEPT !.dispatched = TRUE] ELSE results[m]
  BY <1>2 DEF Inv, TypeOK, Launch
<1>10. TypeOK'
  <2>1. free' \in Nat /\ running' \in Nat
    <3>1. Cost(n) \in Nat /\ Cost(n) <= free
      BY <1>2, CostType DEF Launch
    <3> QED
      BY <3>1 DEF Inv, TypeOK, Launch
  <2>2. results' \in [Node -> [dispatched : BOOLEAN, failed : BOOLEAN, err : BOOLEAN]]
    BY <1>2 DEF Inv, TypeOK, Launch
  <2> QED
    BY <1>4, <1>7, <2>1, <2>2 DEF Inv, TypeOK, Launch
<1>11. SlotAccounting'
  <2>1. InFlight \in SUBSET Node
    BY DEF InFlight
  <2>2. Cardinality(SlotsOf(InFlight')) = Cardinality(SlotsOf(InFlight)) + Cost(n)
    BY <1>2, <1>5, <2>1, SlotsAdd
  <2>3. Cardinality(InFlight') = Cardinality(InFlight) + 1
    BY <1>5, <2>1, NodesFinite, FS_AddElement
  <2>4. /\ Cardinality(SlotsOf(InFlight)) \in Nat
        /\ Cardinality(InFlight) \in Nat
        /\ Cost(n) \in Nat
        /\ Capacity \in Nat
    BY <1>2, <2>1, SlotsFinite, NodesFinite, CostType
  <2>5. free' = free - Cost(n) /\ running' = running + 1 /\ free \in Nat /\ running \in Nat
    BY DEF Inv, TypeOK, Launch
  <2>6. free + Cardinality(SlotsOf(InFlight)) = Capacity /\ running = Cardinality(InFlight)
    BY DEF Inv, SlotAccounting
  <2>7. free' + Cardinality(SlotsOf(InFlight')) = Capacity
    BY <2>2, <2>4, <2>5, <2>6
  <2>8. running' = Cardinality(InFlight')
    BY <2>3, <2>5, <2>6
  <2> QED
    BY <2>7, <2>8 DEF SlotAccounting
<1>12. ReadyIsExact'
  <2>1. waiting' = waiting
    BY DEF Launch
  <2>2. Range(ready') = Range(ready) \ {n}
    <3>1. ASSUME NEW i \in 1 .. Len(ready), i # position
          PROVE  \E k \in DOMAIN ready' : ready'[k] = ready[i]
      <4>1. CASE i < position
        BY <1>1, <1>7, <1>8, <3>1, <4>1
      <4>2. CASE i > position
        <5>1. i - 1 \in DOMAIN ready' /\ ready'[i - 1] = ready[i]
          BY <1>1, <1>7, <1>8, <4>2
        <5> QED
          BY <5>1
      <4> QED
        BY <1>1, <3>1, <4>1, <4>2
    <3>2. ASSUME NEW k \in DOMAIN ready'
          PROVE  ready'[k] \in Range(ready) \ {n}
      <4>1. \E i \in 1 .. Len(ready) : i # position /\ ready'[k] = ready[i]
        BY <1>1, <1>7, <1>8
      <4>2. \A i \in 1 .. Len(ready) : i # position => ready[i] # n
        BY <1>1 DEF Inv, ReadyIsExact
      <4> QED
        BY <1>1, <4>1, <4>2 DEF Range
    <3> QED
      BY <1>1, <3>1, <3>2 DEF Range
  <2>3. \A m \in Node : worker'[m] = "idle" <=> worker[m] = "idle" /\ m # n
    BY <1>2, <1>3, <1>4
  <2>4. Range(ready') = {m \in Node : worker'[m] = "idle" /\ Needs[m] \subseteq Completed'}
    BY <1>6, <2>2, <2>3 DEF Inv, ReadyIsExact
  <2>5. \A m \in Node : worker'[m] # "idle" => Needs[m] \subseteq Completed'
    BY <1>3, <1>6, <2>3 DEF Inv, ReadyIsExact
  <2>6. \A m \in Node : waiting'[m] = Cardinality(Needs[m] \ Completed')
    BY <1>6, <2>1 DEF Inv, ReadyIsExact
  <2>7. ASSUME NEW i \in DOMAIN ready', NEW j \in DOMAIN ready', i < j
        PROVE  ready'[i] # ready'[j] /\ Rank[ready'[i]] >= Rank[ready'[j]]
    <3>1. PICK p \in 1 .. Len(ready) : ready'[i] = ready[p] /\ (p = IF i < position THEN i ELSE i + 1)
      BY <1>1, <1>7, <1>8
    <3>2. PICK q \in 1 .. Len(ready) : ready'[j] = ready[q] /\ (q = IF j < position THEN j ELSE j + 1)
      BY <1>1, <1>7, <1>8
    <3>3. p < q
      BY <1>1, <1>8, <2>7, <3>1, <3>2
    <3> QED
      BY <1>1, <3>1, <3>2, <3>3 DEF Inv, ReadyIsExact
  <2> QED
    BY <2>4, <2>5, <2>6, <2>7 DEF ReadyIsExact
<1>13. NoIdleCapacity'
  <2>1. ASSUME NEW i \in DOMAIN ready', i < position
        PROVE  Cost(ready'[i]) > free'
    <3>1. i \in 1 .. Len(ready) /\ ready'[i] = ready[i] /\ ready[i] \in Node
      BY <1>1, <1>7, <1>8, <2>1
    <3>2. Cost(ready[i]) > free
      BY <1>1, <2>1, <3>1 DEF Inv, NoIdleCapacity, Launch
    <3>3. Cost(n) \in Nat \ {0} /\ Cost(ready[i]) \in Nat
      BY <1>2, <3>1, CostType
    <3>4. free \in Nat /\ free' = free - Cost(n)
      BY DEF Inv, TypeOK, Launch
    <3>5. Cost(ready[i]) > free - Cost(n)
      BY <3>2, <3>3, <3>4
    <3> QED
      BY <3>1, <3>4, <3>5
  <2> QED
    BY <2>1 DEF NoIdleCapacity, Launch
<1>14. ReturnsDrained'
  BY DEF Launch, ReturnsDrained
<1>15. ResultsFaithful'
  BY <1>2, <1>3, <1>4, <1>9 DEF Inv, TypeOK, ResultsFaithful, Launch
<1> QED
  BY <1>10, <1>11, <1>12, <1>13, <1>14, <1>15 DEF Inv

(* A received completion keeps the invariant: slots come back, and exactly *)
(* the dependents whose last need this was become ready.                   *)
LEMMA ReceiveKeeps ==
    ASSUME Inv, NEW n \in Node, Receive(n)
    PROVE  Inv'
<1> DEFINE newlyReady == {d \in Dependents(n) : waiting'[d] = 0}
<1>1. /\ worker[n] = "sending"
      /\ \A m \in Node : worker'[m] = IF m = n THEN "gone" ELSE worker[m]
      /\ worker' \in [Node -> {"idle", "executing", "sending", "gone"}]
  BY DEF Inv, TypeOK, Receive, Release, KeepResult, Unblock
<1>2. InFlight' = InFlight \ {n} /\ n \in InFlight /\ InFlight \in SUBSET Node
  BY <1>1 DEF InFlight
<1>3. Completed' = Completed \cup {n} /\ n \notin Completed
  BY <1>1 DEF Completed
<1>4. \A d \in Node : Needs[d] \in SUBSET Node
  BY ShapeAssumption
<1>5. \A d \in Node : waiting'[d] = Cardinality(Needs[d] \ Completed')
  <2> TAKE d \in Node
  <2> DEFINE missing == Needs[d] \ Completed
  <2>1. missing \in SUBSET Node /\ IsFiniteSet(missing) /\ Cardinality(missing) \in Nat
    BY <1>4, NodesFinite
  <2>2. Needs[d] \ Completed' = missing \ {n}
    BY <1>3
  <2>3. waiting[d] = Cardinality(missing)
    BY DEF Inv, ReadyIsExact
  <2>4. n \in missing <=> d \in Dependents(n)
    BY <1>3 DEF Dependents
  <2>5. waiting'[d] = waiting[d] - IF d \in Dependents(n) THEN 1 ELSE 0
    BY DEF Receive, Release, KeepResult, Unblock
  <2> HIDE DEF missing
  <2>6. Cardinality(missing \ {n}) = IF n \in missing THEN Cardinality(missing) - 1 ELSE Cardinality(missing)
    BY <2>1, FS_RemoveElement
  <2>7. waiting'[d] = Cardinality(missing \ {n})
    BY <2>1, <2>3, <2>4, <2>5, <2>6
  <2> QED
    BY <2>2, <2>7
<1>6. \A d \in Node : waiting'[d] \in Nat /\ (waiting'[d] = 0 <=> Needs[d] \subseteq Completed')
  <2> TAKE d \in Node
  <2>1. Needs[d] \ Completed' \in SUBSET Node
    BY <1>4
  <2>2. IsFiniteSet(Needs[d] \ Completed') /\ Cardinality(Needs[d] \ Completed') \in Nat
    BY <2>1, NodesFinite
  <2>3. Cardinality(Needs[d] \ Completed') = 0 <=> Needs[d] \ Completed' = {}
    BY <2>2, FS_EmptySet
  <2> QED
    BY <1>5, <2>2, <2>3
<1>7. newlyReady = {d \in Node : n \in Needs[d] /\ Needs[d] \subseteq Completed'}
  BY <1>6 DEF Dependents
<1>8. \A d \in Node : worker[d] # "idle" => n \notin Needs[d]
  BY <1>1 DEF Inv, ReadyIsExact, Completed
<1>9. {d \in Node : worker'[d] = "idle" /\ Needs[d] \subseteq Completed'} = Range(ready) \cup newlyReady
  <2>1. Range(ready) = {d \in Node : worker[d] = "idle" /\ Needs[d] \subseteq Completed}
    BY DEF Inv, ReadyIsExact
  <2>2. \A d \in Node : worker'[d] = "idle" <=> worker[d] = "idle"
    BY <1>1
  <2>3. \A d \in Node : Needs[d] \subseteq Completed' <=>
            \/ Needs[d] \subseteq Completed
            \/ n \in Needs[d] /\ Needs[d] \subseteq Completed'
    BY <1>3
  <2> HIDE DEF newlyReady
  <2> QED
    BY <1>7, <1>8, <2>1, <2>2, <2>3
<1>10. /\ ready' \in Seq(Node)
       /\ Range(ready') = Range(ready) \cup newlyReady
       /\ \A i, j \in DOMAIN ready' : i < j => ready'[i] # ready'[j] /\ Rank[ready'[i]] >= Rank[ready'[j]]
  <2>1. ready \in Seq(Node) /\ newlyReady \in SUBSET Node
    BY <1>7 DEF Inv, TypeOK
  <2>2. CASE newlyReady = {}
    <3>1. ready' = ready
      BY <2>2 DEF Receive, Release, KeepResult, Unblock
    <3> QED
      BY <2>1, <2>2, <3>1 DEF Inv, ReadyIsExact
  <2>3. CASE newlyReady # {}
    <3>1. ready' \in SortedByRank(ready, newlyReady)
      BY <2>3 DEF Receive, Release, KeepResult, Unblock
    <3> HIDE DEF newlyReady
    <3> QED
      BY <2>1, <3>1, SortedFacts
  <2> QED
    BY <2>2, <2>3
<1> HIDE DEF newlyReady
<1>11. /\ Cost(n) \in Nat
       /\ free' = free + Cost(n) /\ running' = running - 1
       /\ free \in Nat /\ running \in Nat /\ running > 0
  <2>1. Cost(n) \in Nat
    BY CostType
  <2> QED
    BY <2>1 DEF Inv, TypeOK, Receive, Release, KeepResult, Unblock
<1>12. /\ outcome[n].failed \in BOOLEAN /\ outcome[n].err \in BOOLEAN
       /\ \A m \in Node : results'[m] =
            IF m = n THEN [results[m] EXCEPT !.failed = outcome[n].failed, !.err = outcome[n].err]
                     ELSE results[m]
       /\ results' \in [Node -> [dispatched : BOOLEAN, failed : BOOLEAN, err : BOOLEAN]]
  BY DEF Inv, TypeOK, Receive, Release, KeepResult, Unblock, Outcome
<1>13. TypeOK'
  <2>1. waiting' \in [Node -> Nat]
    BY <1>6 DEF Receive, Release, KeepResult, Unblock
  <2>2. free' \in Nat /\ running' \in Nat
    BY <1>11
  <2>3. failed' \in BOOLEAN
    BY <1>12 DEF Inv, TypeOK, Receive, Release, KeepResult, Unblock
  <2>4. outcome' \in [Node -> Outcome]
    BY DEF Inv, TypeOK, Receive, Release, KeepResult, Unblock, Outcome, NoOutcome
  <2> QED
    BY <1>1, <1>10, <1>12, <2>1, <2>2, <2>3, <2>4 DEF Inv, TypeOK, Receive, Release, KeepResult, Unblock
<1>14. SlotAccounting'
  <2>1. Cardinality(SlotsOf(InFlight')) = Cardinality(SlotsOf(InFlight)) - Cost(n)
    BY <1>2, SlotsRemove
  <2>2. IsFiniteSet(InFlight) /\ Cardinality(InFlight) \in Nat /\ Cardinality(SlotsOf(InFlight)) \in Nat
    BY <1>2, NodesFinite, SlotsFinite
  <2>3. Cardinality(InFlight') = Cardinality(InFlight) - 1
    BY <1>2, <2>2, FS_RemoveElement
  <2>4. free + Cardinality(SlotsOf(InFlight)) = Capacity /\ running = Cardinality(InFlight)
    BY DEF Inv, SlotAccounting
  <2>5. free' + Cardinality(SlotsOf(InFlight')) = Capacity
    BY <1>11, <2>1, <2>2, <2>4
  <2>6. running' = Cardinality(InFlight')
    BY <1>11, <2>3, <2>4
  <2> QED
    BY <2>5, <2>6 DEF SlotAccounting
<1>15. ReadyIsExact'
  <2>1. \A d \in Node : worker'[d] # "idle" => Needs[d] \subseteq Completed'
    BY <1>1, <1>3 DEF Inv, ReadyIsExact
  <2> QED
    BY <1>5, <1>9, <1>10, <2>1 DEF ReadyIsExact
<1>16. NoIdleCapacity' /\ ReturnsDrained'
  BY DEF Receive, Release, KeepResult, Unblock, NoIdleCapacity, ReturnsDrained
<1>17. ResultsFaithful'
  <2>1. \A m \in Node : results'[m].dispatched = results[m].dispatched
    BY <1>12 DEF Inv, TypeOK
  <2>2. \A m \in Node : results'[m].dispatched <=> worker'[m] # "idle"
    BY <1>1, <2>1 DEF Inv, ResultsFaithful
  <2>3. \A m \in Node : results'[m].failed \/ results'[m].err => worker'[m] = "gone"
    BY <1>1, <1>12 DEF Inv, ResultsFaithful
  <2>4. ~results[n].failed
    BY <1>1 DEF Inv, ResultsFaithful
  <2>5. results'[n].failed = outcome[n].failed
    BY <1>12 DEF Inv, TypeOK
  <2>6. (\E m \in Node : results'[m].failed) <=> (\E m \in Node : results[m].failed) \/ outcome[n].failed
    BY <1>12, <2>4, <2>5
  <2>7. failed' <=> failed \/ outcome[n].failed
    BY DEF Receive, Release, KeepResult, Unblock
  <2>8. failed <=> \E m \in Node : results[m].failed
    BY DEF Inv, ResultsFaithful
  <2> QED
    BY <2>2, <2>3, <2>6, <2>7, <2>8 DEF ResultsFaithful
<1> QED
  BY <1>13, <1>14, <1>15, <1>16, <1>17 DEF Inv

(* Every step of the queue keeps the invariant.                            *)
LEMMA NextKeeps == Inv /\ [Next]_vars => Inv'
<1> SUFFICES ASSUME Inv, [Next]_vars PROVE Inv'
  OBVIOUS
<1>1. CASE UNCHANGED vars
  BY <1>1 DEF vars, queueVars, Inv, TypeOK, SlotAccounting, ReadyIsExact, NoIdleCapacity,
              ReturnsDrained, ResultsFaithful, InFlight, Completed, Stopping
<1>2. CASE Dispatcher
  BY <1>2, DispatchKeeps, PassOverKeeps, LaunchKeeps, EndScanKeeps, ReceiveKeeps, ReturnKeeps
     DEF Dispatcher
<1>3. CASE \E n \in Node, out \in Outcome : ExecReturns(n, out)
  BY <1>3, ExecReturnsKeeps
<1>4. CASE Cancel
  BY <1>4, CancelKeeps
<1>5. CASE Returned
  BY <1>1, <1>5 DEF Returned
<1> QED
  BY <1>1, <1>2, <1>3, <1>4, <1>5 DEF Next

(* Whatever the jobs, the slots and the interleaving, the queue keeps its  *)
(* whole inductive invariant.                                              *)
THEOREM Invariance == SafetySpec => []Inv
<1> QED
  BY InitInv, NextKeeps, PTL DEF SafetySpec

(* Every variable of the queue keeps its type; in particular free slots    *)
(* and the counts of running jobs and missing needs never go negative.     *)
THEOREM TypeCorrect == SafetySpec => []TypeOK
<1>1. Inv => TypeOK
  BY DEF Inv
<1> QED
  BY <1>1, Invariance, PTL

(* At most `slots` weighted slots are ever in flight (comment of           *)
(* runQueue), and none is lost.                                            *)
THEOREM SlotsNeverLost == SafetySpec => []SlotAccounting
<1>1. Inv => SlotAccounting
  BY DEF Inv
<1> QED
  BY <1>1, Invariance, PTL

(* A job is dispatched once, and only after everything it needs completed. *)
THEOREM NeedsFirst == SafetySpec => []ReadyIsExact
<1>1. Inv => ReadyIsExact
  BY DEF Inv
<1> QED
  BY <1>1, Invariance, PTL

(* The dispatcher of an open queue never sleeps while a ready job fits.    *)
THEOREM NeverIdle == SafetySpec => []NoIdleCapacity
<1>1. Inv => NoIdleCapacity
  BY DEF Inv
<1> QED
  BY <1>1, Invariance, PTL

(* When runQueue returns, no goroutine is left behind, and a run nobody    *)
(* stopped has run every job: with acyclic needs it cannot get stuck.      *)
THEOREM NobodyLeftBehind == SafetySpec => []ReturnsDrained
<1>1. Inv => ReturnsDrained
  BY DEF Inv
<1> QED
  BY <1>1, Invariance, PTL

(* The results handed back are exactly what the executions returned.       *)
THEOREM ResultsAreFaithful == SafetySpec => []ResultsFaithful
<1>1. Inv => ResultsFaithful
  BY DEF Inv
<1> QED
  BY <1>1, Invariance, PTL

----------------------------------------------------------------------------

(* The instance counts the elements of a set as this module does.          *)
LEMMA PoolCardinality == \A S : Pool!Cardinality(S) = Cardinality(S)
BY DEF Pool!Cardinality, Cardinality

(* The free slots are those the running jobs of the pool leave.            *)
LEMMA FreeIsPoolFree ==
    ASSUME Inv
    PROVE  /\ Pool!In("running") = InFlight
           /\ Pool!In("done") = Completed
           /\ Cardinality(Pool!SlotsOf(Pool!In("running"))) = Capacity - free
<1>1. \A n \in Node : worker[n] \in {"idle", "executing", "sending", "gone"}
  BY DEF Inv, TypeOK
<1>2. Pool!In("running") = InFlight /\ Pool!In("done") = Completed
  BY <1>1 DEF Pool!In, Pool!Node, Node, JobOf, InFlight, Completed
<1>3. Pool!SlotsOf(InFlight) = SlotsOf(InFlight)
  BY DEF Pool!SlotsOf, SlotsOf, Pool!Node, Node, Pool!Cost, Cost, Pool!Capacity, Capacity
<1>4. free + Cardinality(SlotsOf(InFlight)) = Capacity /\ free \in Nat /\ Capacity \in Nat
  BY CostType DEF Inv, SlotAccounting, TypeOK
<1>5. InFlight \in SUBSET Node
  BY DEF InFlight
<1>6. Cardinality(SlotsOf(InFlight)) \in Nat
  BY <1>5, SlotsFinite
<1>7. Cardinality(SlotsOf(InFlight)) = Capacity - free
  BY <1>4, <1>6
<1> QED
  BY <1>2, <1>3, <1>7

(* A launch starts, in the pool, the best-ranked of the jobs that fit:     *)
(* those that rank higher were passed over because they did not fit, and   *)
(* free slots only shrink during a scan.                                   *)
LEMMA LaunchStarts ==
    ASSUME Inv, Launch
    PROVE  \E n \in Pool!Node : Pool!Start(n)
<1> DEFINE n == ready[position]
<1>1. /\ position \in 1 .. Len(ready)
      /\ DOMAIN ready = 1 .. Len(ready)
      /\ \A i \in 1 .. Len(ready) : ready[i] \in Node
      /\ Len(ready) \in Nat
  BY LenProperties, ElementOfSeq DEF Inv, TypeOK, Launch
<1>2. n \in Node /\ n \in Range(ready)
  BY <1>1 DEF Range
<1>3. worker[n] = "idle" /\ Needs[n] \subseteq Completed
  BY <1>2 DEF Inv, ReadyIsExact
<1>4. Pool!Node = Node /\ Pool!Capacity = Capacity
  BY DEF Pool!Node, Node, Pool!Capacity, Capacity
<1>5. \A m \in Node : Pool!Cost(m) = Cost(m)
  BY DEF Pool!Cost, Cost, Pool!Capacity, Capacity
<1>6. ASSUME NEW m \in Node
      PROVE  Pool!Startable(m) <=> m \in Range(ready) /\ Cost(m) <= free
  <2>1. Pool!Startable(m) <=> /\ JobOf[m] = "queued"
                              /\ Needs[m] \subseteq Completed
                              /\ Capacity - free + Cost(m) <= Capacity
    <3>1. /\ Pool!In("done") = Completed
          /\ Cardinality(Pool!SlotsOf(Pool!In("running"))) = Capacity - free
      BY FreeIsPoolFree
    <3> QED
      BY <1>4, <1>5, <3>1, PoolCardinality, Zenon DEF Pool!Startable
  <2>2. JobOf[m] = "queued" <=> worker[m] = "idle"
    BY DEF JobOf, Inv, TypeOK
  <2>3. Capacity - free + Cost(m) <= Capacity <=> Cost(m) <= free
    <3>1. Capacity \in Nat /\ Cost(m) \in Nat /\ free \in Nat
      BY CostType DEF Inv, TypeOK
    <3> QED
      BY <3>1
  <2> QED
    BY <2>1, <2>2, <2>3 DEF Inv, ReadyIsExact
<1>7. Pool!Startable(n)
  BY <1>2, <1>6 DEF Launch
<1>8. ASSUME NEW m \in Node, Pool!Startable(m)
      PROVE  Rank[m] <= Rank[n]
  <2>1. PICK i \in DOMAIN ready : ready[i] = m
    BY <1>6, <1>8 DEF Range
  <2>2. Cost(m) <= free
    BY <1>6, <1>8
  <2>3. ~(i < position)
    <3>1. Cost(m) \in Nat /\ free \in Nat
      BY CostType DEF Inv, TypeOK
    <3>2. i < position => Cost(m) > free
      BY <2>1 DEF Inv, NoIdleCapacity, Launch
    <3> QED
      BY <2>2, <3>1, <3>2
  <2>4. CASE i = position
    BY <2>1, <2>4, ShapeAssumption
  <2>5. CASE i > position
    <3>1. Rank[n] >= Rank[m]
      BY <1>1, <2>1, <2>5 DEF Inv, ReadyIsExact
    <3>2. Rank[n] \in Int /\ Rank[m] \in Int
      BY <1>2, ShapeAssumption
    <3> QED
      BY <3>1, <3>2
  <2> QED
    BY <1>1, <2>1, <2>3, <2>4, <2>5
<1>9. JobOf' = [JobOf EXCEPT ![n] = "running"]
  <2>1. \A m \in Node : worker'[m] = IF m = n THEN "executing" ELSE worker[m]
    BY <1>2 DEF Inv, TypeOK, Launch
  <2> QED
    BY <1>2, <2>1 DEF JobOf
<1>10. ~(pc # "scan" /\ Stopping) /\ ~(pc' # "scan" /\ Stopping')
  BY DEF Launch
<1>11. Pool!Start(n)
  BY <1>4, <1>7, <1>8, <1>9, <1>10 DEF Pool!Start
<1> QED
  BY <1>2, <1>4, <1>11

(* A received completion ends its job in the pool, and closes the pool     *)
(* when it is a failure of a fail-fast run.                                *)
LEMMA ReceiveStops ==
    ASSUME Inv, NEW n \in Node, Receive(n)
    PROVE  Pool!Stop(n, outcome[n].failed)
<1>1. JobOf[n] = "running" /\ JobOf' = [JobOf EXCEPT ![n] = "done"]
  BY DEF JobOf, Receive, Release, KeepResult, Unblock, Inv, TypeOK
<1>2. (pc' # "scan" /\ Stopping') = ((pc # "scan" /\ Stopping) \/ (FailFast /\ outcome[n].failed))
  BY DEF Receive, Release, KeepResult, Unblock, Stopping
<1> QED
  BY <1>1, <1>2 DEF Pool!Stop

(* Every step of the queue is a step of the pool or leaves it unchanged.   *)
LEMMA StepRefines == Inv /\ [Next]_vars => [Pool!PoolNext]_(Pool!poolVars)
<1> SUFFICES ASSUME Inv, [Next]_vars
             PROVE  Pool!PoolNext \/ UNCHANGED Pool!poolVars
  OBVIOUS
<1> USE DEF Pool!poolVars
<1>1. CASE Dispatch
  <2>1. JobOf' = JobOf /\ (pc' # "scan" /\ Stopping') = (pc # "scan" /\ Stopping)
    BY <1>1 DEF Dispatch, JobOf, Stopping
  <2> QED
    BY <2>1
<1>2. CASE PassOver
  BY <1>2 DEF PassOver, JobOf, Stopping
<1>3. CASE Launch
  BY <1>3, LaunchStarts DEF Pool!PoolNext
<1>4. CASE EndScan
  <2>1. JobOf' = JobOf /\ ~(pc # "scan" /\ Stopping)
    BY <1>4 DEF EndScan, JobOf
  <2>2. CASE Stopping'
    <3>1. Pool!Close
      BY <1>4, <2>1, <2>2 DEF Pool!Close, EndScan
    <3> QED
      BY <3>1 DEF Pool!PoolNext
  <2>3. CASE ~Stopping'
    BY <2>1, <2>3
  <2> QED
    BY <2>2, <2>3
<1>5. CASE \E n \in Node : Receive(n)
  <2>1. PICK n \in Node : Receive(n)
    BY <1>5
  <2>2. outcome[n].failed \in BOOLEAN
    BY DEF Inv, TypeOK, Outcome
  <2>3. n \in Pool!Node
    BY DEF Pool!Node, Node
  <2> QED
    BY <2>1, <2>2, <2>3, ReceiveStops DEF Pool!PoolNext
<1>6. CASE Return
  BY <1>6 DEF Return, JobOf, Stopping
<1>7. CASE \E n \in Node, out \in Outcome : ExecReturns(n, out)
  <2>1. PICK n \in Node, out \in Outcome : ExecReturns(n, out)
    BY <1>7
  <2>2. JobOf' = JobOf
    BY <2>1 DEF ExecReturns, JobOf, Inv, TypeOK
  <2>3. (pc' # "scan" /\ Stopping') = (pc # "scan" /\ Stopping)
    BY <2>1 DEF ExecReturns, queueVars, Stopping
  <2> QED
    BY <2>2, <2>3
<1>8. CASE Cancel
  <2>1. JobOf' = JobOf
    BY <1>8 DEF Cancel, JobOf
  <2>2. CASE pc = "scan"
    BY <1>8, <2>1, <2>2 DEF Cancel, queueVars
  <2>3. CASE pc # "scan"
    <3>1. Pool!Close
      BY <1>8, <2>1, <2>3 DEF Pool!Close, Cancel, queueVars, Stopping
    <3> QED
      BY <3>1 DEF Pool!PoolNext
  <2> QED
    BY <2>2, <2>3
<1>9. CASE Returned \/ UNCHANGED vars
  BY <1>9 DEF Returned, vars, queueVars, JobOf, Stopping
<1> QED
  BY <1>1, <1>2, <1>3, <1>4, <1>5, <1>6, <1>7, <1>8, <1>9 DEF Next, Dispatcher

(* The queue implements the pool: every launch starts the best-ranked job  *)
(* that fits, after its needs, and nothing is dispatched by a scan that    *)
(* begins after the first failure or the cancellation.                     *)
THEOREM QueueImplementsPool == SafetySpec => Pool!PoolSafety
<1>1. Init => Pool!PoolInit
  BY DEF Init, Pool!PoolInit, JobOf, Stopping, Pool!Node, Node
<1> QED
  BY <1>1, Invariance, StepRefines, PTL DEF SafetySpec, Pool!PoolSafety

----------------------------------------------------------------------------
(* Why every run of the queue ends.                                        *)

Ahead == [idle |-> {"executing", "sending", "gone"}, executing |-> {"sending", "gone"},
          sending |-> {"gone"}, gone |-> {}]

(* The states that jobs have before them.                                  *)
Left == {l \in Node \X {"executing", "sending", "gone"} : l[2] \in Ahead[worker[l[1]]]}

(* At most how many steps the dispatcher takes before a job takes one.     *)
ToScan ==
    CASE pc = "dispatch" -> Len(ready) + 3
      [] pc = "scan"     -> Len(ready) - position + 3
      [] pc = "await"    -> 1
      [] pc = "done"     -> 0

(* A step takes a job forward; or the context is cancelled; or else the    *)
(* dispatcher gets nearer to where it waits.                               *)
QueueAdvances ==
    \/ Left' \subseteq Left /\ Left' # Left
    \/ Left' = Left /\ ctxDone' # ctxDone /\ ToScan' = ToScan
    \/ Left' = Left /\ ToScan' < ToScan

(* Each disjunct is the guard of something that the runtime does, or exec, *)
(* which returns.                                                          *)
QueueMoves ==
    \/ pc \in {"dispatch", "scan"}
    \/ pc = "await" /\ running = 0
    \/ pc = "await" /\ running > 0 /\ \E n \in Node : worker[n] = "sending"
    \/ \E n \in Node : worker[n] = "executing"

(* What is left is finite, and until runQueue has returned somebody moves. *)
QueueGoesOn ==
    /\ IsFiniteSet(Left) /\ ToScan \in Nat
    /\ pc # "done" => QueueMoves

(* The scan never leaves the list.                                         *)
ScanInside == pc = "scan" => position <= Len(ready) + 1

(* A job that enters a state it had before it leaves less to do.           *)
LEMMA JobGoesAhead ==
    ASSUME TypeOK, NEW n \in Node, NEW next \in Ahead[worker[n]],
           \A m \in Node : worker'[m] = IF m = n THEN next ELSE worker[m]
    PROVE  Left' \subseteq Left /\ Left' # Left
<1>1. worker[n] \in {"idle", "executing", "sending", "gone"}
  BY DEF TypeOK
<1>2. /\ next \in {"executing", "sending", "gone"}
      /\ Ahead[next] \subseteq Ahead[worker[n]] /\ next \notin Ahead[next]
  BY <1>1 DEF Ahead
<1>3. Left' \subseteq Left
  BY <1>2 DEF Left
<1>4. <<n, next>> \in Left /\ <<n, next>> \notin Left'
  BY <1>2 DEF Left
<1> QED
  BY <1>3, <1>4

(* A step of the dispatcher that moves no job brings it nearer to where it *)
(* waits, and stays in the list.                                           *)
LEMMA ScanGoesAhead ==
    ASSUME Inv, ScanInside, Dispatch \/ PassOver \/ EndScan \/ Return
    PROVE  ScanInside' /\ Left' = Left /\ ctxDone' = ctxDone /\ ToScan' < ToScan
<1>1. Left' = Left /\ ctxDone' = ctxDone /\ ready' = ready
  BY DEF Dispatch, PassOver, EndScan, Return, Left
<1>2. Len(ready) \in Nat /\ position \in Nat
  BY DEF Inv, TypeOK
<1>3. CASE Dispatch
  BY <1>1, <1>2, <1>3 DEF Dispatch, ToScan, ScanInside
<1>4. CASE PassOver
  BY <1>1, <1>2, <1>4 DEF PassOver, ToScan, ScanInside
<1>5. CASE EndScan
  BY <1>1, <1>2, <1>5 DEF EndScan, ToScan, ScanInside
<1>6. CASE Return
  BY <1>1, <1>2, <1>6 DEF Return, ToScan, ScanInside
<1> QED
  BY <1>1, <1>3, <1>4, <1>5, <1>6

(* Every step but those after the return advances.                         *)
LEMMA StepAdvances ==
    ASSUME Inv, ScanInside,
           Dispatcher \/ (\E n \in Node, out \in Outcome : ExecReturns(n, out)) \/ Cancel
    PROVE  ScanInside' /\ QueueAdvances
<1>1. CASE Dispatch \/ PassOver \/ EndScan \/ Return
  BY <1>1, ScanGoesAhead DEF QueueAdvances
<1>2. CASE Launch
  <2> DEFINE n == ready[position]
  <2>1. n \in Node
    BY <1>2, ElementOfSeq DEF Launch, Inv, TypeOK
  <2>2. /\ worker[n] = "idle"
        /\ \A m \in Node : worker'[m] = IF m = n THEN "executing" ELSE worker[m]
    BY <1>2, <2>1 DEF Launch, Inv, TypeOK, ReadyIsExact, Range
  <2>3. "executing" \in Ahead[worker[n]]
    BY <2>2 DEF Ahead
  <2>4. Left' \subseteq Left /\ Left' # Left
    BY <2>1, <2>2, <2>3, JobGoesAhead DEF Inv
  <2>5. ready \in Seq(Node) /\ position \in 1 .. Len(ready)
    BY <1>2 DEF Launch, Inv, TypeOK
  <2>6. Len(ready') = Len(ready) - 1
    BY <1>2, <2>5, RemoveAtFacts DEF Launch
  <2>7. Len(ready) \in Nat /\ position' = position
    BY <1>2, <2>5 DEF Launch
  <2>8. ScanInside'
    BY <2>5, <2>6, <2>7 DEF ScanInside
  <2> QED
    BY <2>4, <2>8 DEF QueueAdvances
<1>3. CASE \E n \in Node : Receive(n)
  <2>1. PICK n \in Node : Receive(n)
    BY <1>3
  <2>2. /\ worker[n] = "sending" /\ pc' = "dispatch"
        /\ \A m \in Node : worker'[m] = IF m = n THEN "gone" ELSE worker[m]
    BY <2>1 DEF Receive, Inv, TypeOK
  <2>3. "gone" \in Ahead[worker[n]]
    BY <2>2 DEF Ahead
  <2>4. Left' \subseteq Left /\ Left' # Left
    BY <2>2, <2>3, JobGoesAhead DEF Inv
  <2> QED
    BY <2>2, <2>4 DEF QueueAdvances, ScanInside
<1>4. CASE \E n \in Node, out \in Outcome : ExecReturns(n, out)
  <2>1. PICK n \in Node, out \in Outcome : ExecReturns(n, out)
    BY <1>4
  <2>2. /\ worker[n] = "executing" /\ UNCHANGED <<pc, position, ready>>
        /\ \A m \in Node : worker'[m] = IF m = n THEN "sending" ELSE worker[m]
    BY <2>1 DEF ExecReturns, queueVars, Inv, TypeOK
  <2>3. "sending" \in Ahead[worker[n]]
    BY <2>2 DEF Ahead
  <2>4. Left' \subseteq Left /\ Left' # Left
    BY <2>2, <2>3, JobGoesAhead DEF Inv
  <2> QED
    BY <2>2, <2>4 DEF QueueAdvances, ScanInside
<1>5. CASE Cancel
  <2>1. ctxDone' # ctxDone /\ UNCHANGED <<pc, position, ready, worker>>
    BY <1>5 DEF Cancel, queueVars
  <2> QED
    BY <2>1 DEF QueueAdvances, ScanInside, Left, ToScan
<1> QED
  BY <1>1, <1>2, <1>3, <1>4, <1>5 DEF Dispatcher

LEMMA NextAdvances ==
    Inv /\ ScanInside /\ [Next]_vars => ScanInside' /\ [QueueAdvances]_vars
<1>1. ASSUME ScanInside, UNCHANGED vars PROVE ScanInside'
  BY <1>1 DEF vars, queueVars, ScanInside
<1> QED
  BY <1>1, StepAdvances DEF Next, Returned

LEMMA ScanStaysInside == SafetySpec => []ScanInside
<1>1. Init => ScanInside
  BY DEF Init, ScanInside
<1> QED
  BY <1>1, NextAdvances, Invariance, PTL DEF SafetySpec

(* Every step of the queue brings its end nearer: no job ever goes back,   *)
(* and the dispatcher turns only a bounded number of times between two     *)
(* jobs' steps.  With QueueNeverStuck this is why Terminates holds.        *)
THEOREM QueueAlwaysAdvances == SafetySpec => [][QueueAdvances]_vars
BY NextAdvances, ScanStaysInside, Invariance, PTL DEF SafetySpec

(* Until runQueue has returned somebody can move, and what is left to do   *)
(* is finite.                                                              *)
THEOREM QueueNeverStuck == SafetySpec => []QueueGoesOn
<1>1. Inv /\ ScanInside => QueueGoesOn
  <2> SUFFICES ASSUME Inv, ScanInside PROVE QueueGoesOn
    OBVIOUS
  <2>1. IsFiniteSet(Left)
    <3>1. IsFiniteSet(Node)
      BY NodesFinite
    <3>2. IsFiniteSet({"executing", "sending", "gone"})
      <4>1. {"executing", "sending", "gone"} = ({"executing"} \cup {"sending"}) \cup {"gone"}
        OBVIOUS
      <4>2. IsFiniteSet({"executing"})
        BY FS_Singleton
      <4>3. IsFiniteSet({"executing"} \cup {"sending"})
        BY <4>2, FS_AddElement
      <4>4. IsFiniteSet(({"executing"} \cup {"sending"}) \cup {"gone"})
        BY <4>3, FS_AddElement
      <4> QED
        BY <4>1, <4>4
    <3>3. IsFiniteSet(Node \X {"executing", "sending", "gone"})
      BY <3>1, <3>2, FS_Product, Zenon
    <3> QED
      BY <3>3, FS_Subset DEF Left
  <2>2. ToScan \in Nat
    <3>1. /\ Len(ready) \in Nat /\ position \in Nat
          /\ pc \in {"dispatch", "scan", "await", "done"}
      BY DEF Inv, TypeOK
    <3> QED
      BY <3>1 DEF ToScan, ScanInside
  <2>3. ASSUME pc # "done" PROVE QueueMoves
    <3>1. pc \in {"dispatch", "scan", "await"} /\ running \in Nat /\ running = Cardinality(InFlight)
      BY <2>3 DEF Inv, TypeOK, SlotAccounting
    <3>2. CASE InFlight = {}
      BY <3>1, <3>2, FS_EmptySet DEF QueueMoves
    <3>3. CASE InFlight # {}
      <4>1. PICK n \in Node : worker[n] \in {"executing", "sending"}
        BY <3>3 DEF InFlight
      <4>2. running # 0
        <5>1. IsFiniteSet(InFlight)
          BY NodesFinite DEF InFlight
        <5> QED
          BY <3>1, <3>3, <5>1, FS_EmptySet
      <4> QED
        BY <3>1, <4>1, <4>2 DEF QueueMoves
    <3> QED
      BY <3>2, <3>3
  <2> QED
    BY <2>1, <2>2, <2>3 DEF QueueGoesOn
<1> QED
  BY <1>1, ScanStaysInside, Invariance, PTL
=============================================================================
