----------------------------- MODULE Selection -----------------------------
(***************************************************************************)
(* Discovery, snapshot and triggers together: runLocal discovers the       *)
(* changed files, takes the snapshot, and lets readWorkflow select by the  *)
(* former the workflows that it will run on the latter                     *)
(* (internal/cli/cli.go, internal/workflow/workflow.go).                   *)
(***************************************************************************)
EXTENDS Snapshot

CONSTANTS Branch, DefaultBranch, Declarations

Workflow == INSTANCE Triggers WITH File <- Path

(* The workflows that readWorkflow finds triggered.                        *)
Selected(event) == {declared \in Declarations : Workflow!MatchesEvent(declared, event, changed)}

(* What the snapshot changes against the reference, of the files that were *)
(* left alone since the run began and not lost with a listing that failed. *)
Differing == {p \in Path \ (touched \cup missed) : copy[p] # Reference(p)}

(* No workflow is passed over that what runs would trigger: the one that   *)
(* handles the event for the files that differ in the snapshot is selected *)
(* by the files that Discover found before, by up to four git commands,    *)
(* which may be too many.                                                  *)
NoWorkflowMissed ==
    stage = "done" =>
        \A event \in Workflow!Events, declared \in Declarations :
            Workflow!MatchesEvent(declared, event, Differing) => declared \in Selected(event)
=============================================================================
