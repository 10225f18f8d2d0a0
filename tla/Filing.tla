------------------------------- MODULE Filing -------------------------------
(***************************************************************************)
(* Under which job the collector files a log line (Fire of                 *)
(* internal/engine/logging.go), with the aliases and the fallback that     *)
(* buildSchedule hands it (internal/engine/engine.go).                     *)
(*                                                                         *)
(* A job that calls a reusable workflow logs under the ids of that         *)
(* workflow's jobs.  reusableJobAliases ranges over a Go map, so that it   *)
(* meets the callers in any order.  The jobs here belong to one workflow;  *)
(* job ids are numbers, those of the scheduled jobs being 1 .. NumNodes.   *)
(***************************************************************************)
EXTENDS JobShape, Functions

CONSTANTS Orphan,   \* any id that is not a scheduled job
          TopLevel, \* the ids of all the workflow's jobs, scheduled or not
          Uses,     \* the scheduled jobs that call a reusable workflow
          Children, \* Children[n]: the job ids of the workflow file that n
                    \* calls; none if it calls none, or one that is not local
          LogIds    \* LogIds[n]: the ids under which act logs what n does

ASSUME FilingAssumption ==
    /\ Orphan \notin Node
    /\ Node \subseteq TopLevel /\ TopLevel \subseteq Nat
    /\ Uses \subseteq Node
    /\ Children \in [Node -> SUBSET Nat]
    /\ LogIds \in [Node -> (SUBSET Nat) \ {{}}]

(* The orders in which the map of scheduled jobs may be met.               *)
Orders == Bijection(Node, Node)

(* Mutant: children are not looked up.                                     *)
NoAliases(order, id) == {}

(* The alias of id, if any: the first caller sets it, a second one deletes *)
(* it, a third one sets it again.                                          *)
Aliases(order, id) ==
    LET callers == {i \in Node : order[i] \in Uses /\ id \in Children[order[i]]}
    IN  IF id \in TopLevel \/ Cardinality(callers) % 2 = 0 THEN {}
        ELSE {order[i] : i \in {k \in callers : \A l \in callers : l <= k}}

(* The only scheduled caller, if it is the only one.                       *)
Fallback == IF \E n \in Uses : Uses = {n} THEN Uses ELSE {}

FiledUnder(order, id) ==
    IF Aliases(order, id) # {} THEN Aliases(order, id)
    ELSE IF id \in Node THEN {id}
    ELSE IF Fallback # {} THEN Fallback ELSE {Orphan}

(* Attribution[n]: the jobs under which a line of n may be filed.          *)
Attribution == [n \in Node |-> UNION {FiledUnder(order, id) : order \in Orders, id \in LogIds[n]}]

(* What keeps lines with their job: callers share no child, children are   *)
(* not named like a job of the caller's workflow, and every child logged   *)
(* is a child of the file that was read.                                   *)
OwnChildren ==
    /\ \A n \in Uses : LogIds[n] \subseteq Children[n] \ TopLevel
    /\ \A n \in Node \ Uses : LogIds[n] = {n}
    /\ \A n, k \in Uses : n # k => Children[n] \cap Children[k] = {}
=============================================================================
