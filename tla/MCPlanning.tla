----------------------------- MODULE MCPlanning -----------------------------
(***************************************************************************)
(* Four jobs: d needs c and a, in this order, and c needs b; whether a and *)
(* b may run, and with which fidelity, is open.                            *)
(***************************************************************************)
EXTENDS Planning

MCJob == {"a", "b", "c", "d"}
MCNeeds == [a |-> <<>>, b |-> <<>>, c |-> <<"b">>, d |-> <<"c", "a">>]

(* One declaration per outcome of the classification.                      *)
MCKinds ==
    {[runner |-> "ubuntu", gated |-> FALSE, missing |-> FALSE],
     [runner |-> "matrix", gated |-> FALSE, missing |-> TRUE],
     [runner |-> "expression", gated |-> FALSE, missing |-> FALSE],
     [runner |-> "unsupported", gated |-> FALSE, missing |-> TRUE],
     [runner |-> "ubuntu", gated |-> TRUE, missing |-> FALSE]}

(* Workflows for pushes, tags, some branches of pull requests, and some of *)
(* the files.                                                              *)
MCBranch == {"main", "topic"}
MCFile == {"doc.md", "main.go"}
Unfiltered ==
    [on |-> {"push", "pull_request"}, tags |-> FALSE,
     branches |-> <<>>, branchesIgnore |-> <<>>, paths |-> <<>>, pathsIgnore |-> <<>>]
Pat(negative, glob) == [negative |-> negative, glob |-> glob]
MCDeclarations ==
    {Unfiltered,
     [Unfiltered EXCEPT !.tags = TRUE],
     [Unfiltered EXCEPT !.branches = <<Pat(FALSE, {"main"})>>, !.tags = TRUE],
     [Unfiltered EXCEPT !.branchesIgnore = <<Pat(FALSE, {"topic"})>>],
     [Unfiltered EXCEPT !.paths = <<Pat(FALSE, MCFile), Pat(TRUE, {"doc.md"})>>],
     [Unfiltered EXCEPT !.pathsIgnore = <<Pat(FALSE, {"doc.md"})>>]}
=============================================================================
