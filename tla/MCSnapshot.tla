----------------------------- MODULE MCSnapshot -----------------------------
(***************************************************************************)
(* A path that git ignores and one that it does not, every combination of  *)
(* committed, staged and present contents, and two steps of the developer. *)
(* Workflows filter the paths in the three ways there are.                 *)
(***************************************************************************)
EXTENDS Selection

MCPath == {"main.go", "build.log"}
MCIgnored == {"build.log"}
MCContent == {"old", "new"}

(* An older commit that had both files.                                    *)
MCBases == {[p \in MCPath |-> "old"]}

MCBranch == {"main"}
Unfiltered ==
    [on |-> {"push"}, tags |-> FALSE,
     branches |-> <<>>, branchesIgnore |-> <<>>, paths |-> <<>>, pathsIgnore |-> <<>>]
Pat(negative, glob) == [negative |-> negative, glob |-> glob]
MCDeclarations ==
    {[Unfiltered EXCEPT !.paths = <<Pat(FALSE, {"main.go"})>>],
     [Unfiltered EXCEPT !.paths = <<Pat(FALSE, MCPath), Pat(TRUE, {"main.go"})>>],
     [Unfiltered EXCEPT !.pathsIgnore = <<Pat(FALSE, {"build.log"})>>]}
=============================================================================
