------------------------------ MODULE Triggers ------------------------------
(***************************************************************************)
(* Which event a run verifies (internal/event/event.go), and whether a     *)
(* workflow handles it (internal/workflow/workflow.go).                    *)
(*                                                                         *)
(* A pattern is the set of names that its glob matches, and a sign; a glob *)
(* that does not parse matches none.                                       *)
(***************************************************************************)
EXTENDS Integers, Sequences

CONSTANTS Branch,        \* the branches
          DefaultBranch, \* the repository's default branch
          File,          \* the files of the repository
          Declarations   \* the declarations of a workflow's triggers that occur

EventName == {"push", "pull_request", "pull_request_target", "workflow_dispatch"}

Pattern(Name) == [negative : BOOLEAN, glob : SUBSET Name]

(* `on:` and what it says of one event; without a mapping all is empty.    *)
Declaration ==
    [on : SUBSET EventName, tags : BOOLEAN,
     branches : Seq(Pattern(Branch)), branchesIgnore : Seq(Pattern(Branch)),
     paths : Seq(Pattern(File)), pathsIgnore : Seq(Pattern(File))]

ASSUME TriggersAssumption ==
    /\ DefaultBranch \in Branch
    /\ Declarations \subseteq Declaration

(* The last pattern that matches decides.                                  *)
OrderedMatch(patterns, name) ==
    \E i \in DOMAIN patterns :
        /\ name \in patterns[i].glob
        /\ ~patterns[i].negative
        /\ \A k \in DOMAIN patterns : k > i => name \notin patterns[k].glob

MatchFilter(include, ignore, name) ==
    IF include # <<>> THEN OrderedMatch(include, name)
    ELSE ignore # <<>> => ~OrderedMatch(ignore, name)

(* Mutant: every changed file has to match.                                *)
MatchEveryPath(paths, ignore, files) ==
    /\ paths # <<>> \/ ignore # <<>> => files # {}
    /\ \A file \in files : MatchFilter(paths, ignore, file)

MatchPaths(paths, ignore, files) ==
    paths # <<>> \/ ignore # <<>> =>
        \E file \in files : \/ paths # <<>> /\ OrderedMatch(paths, file)
                            \/ ignore # <<>> /\ ~OrderedMatch(ignore, file)

(* The branch that branch filters are about.                               *)
FilteredBranch(event) ==
    IF event.name \in {"pull_request", "pull_request_target"} THEN event.base ELSE event.head

MatchesEvent(declared, event, files) ==
    /\ event.name \in declared.on
    /\ event.name = "push" /\ declared.tags =>
           declared.branches # <<>> \/ declared.branchesIgnore # <<>>
    /\ MatchFilter(declared.branches, declared.branchesIgnore, FilteredBranch(event))
    /\ MatchPaths(declared.paths, declared.pathsIgnore, files)

(* An event made up from the checkout.  Only pull requests have a base.    *)
Synthesize(branch, name) ==
    [name |-> name, fidelity |-> "approximate", head |-> branch, base |-> DefaultBranch]

(* The event named by the user; else that of the pull request that gh      *)
(* finds for a feature branch, pulls being the bases it may have; else one *)
(* made up.                                                                *)
Infer(branch, explicit, pulls) ==
    IF explicit # {} THEN {Synthesize(branch, name) : name \in explicit}
    ELSE IF branch = DefaultBranch THEN {Synthesize(branch, "push")}
    ELSE IF pulls # {}
    THEN {[name |-> "pull_request", fidelity |-> "exact", head |-> branch, base |-> base] : base \in pulls}
    ELSE {Synthesize(branch, "pull_request")}

(* The events that runs verify.                                            *)
Events ==
    UNION {Infer(branch, explicit, pulls) :
             branch \in Branch,
             explicit \in {{}} \cup {{name} : name \in EventName},
             pulls \in {{}} \cup {{base} : base \in Branch}}
=============================================================================
