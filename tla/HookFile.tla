------------------------------ MODULE HookFile ------------------------------
(***************************************************************************)
(* The pre-push hook file and the processes that want to own it            *)
(* (internal/hook/hook.go): `greenrun hook install` and `uninstall`, each  *)
(* in a process of its own, and whoever else writes hooks.                 *)
(*                                                                         *)
(* Install and Uninstall look at the file and act on it in separate steps; *)
(* os.WriteFile is two more, it opens the file with O_TRUNC and writes     *)
(* then.  A process that has the file open writes to that file, even when  *)
(* another one has taken its place meanwhile.                              *)
(***************************************************************************)
EXTENDS Naturals

CONSTANTS Proc,     \* the greenrun processes, one command each
          Faults,   \* what may go wrong: "crash", "io"
          MaxMoves  \* bound on the steps of others

ASSUME HookAssumption ==
    /\ Faults \subseteq {"crash", "io"}
    /\ MaxMoves \in Nat

(* "greenrun" is the script; "edited" is any other text with the marker,   *)
(* "blank" what is left after O_TRUNC.                                     *)
Text == {"none", "greenrun", "edited", "foreign", "blank"}

VARIABLES text, runnable, \* of the file; runnable is its mode bit
          doing,    \* doing[p]: what p does next, or "over"
          told,     \* told[p]: what p has told the user
          linked,   \* the processes that write to the file in place
          moves,    \* steps of others
          unaware,  \* history: another program wrote after p had looked
          calm,     \* history: since p looked nobody worked against it
          disabled, \* history: p found a file that is not executable
          stray     \* history: another program, or a process that failed in
                    \* the middle of a write, left its file

file == <<text, runnable, linked>>
history == <<unaware, calm, disabled, stray>>
hookVars == <<file, doing, told, moves, history>>

HookInit ==
    /\ text \in {"none", "foreign"}
    /\ runnable = TRUE
    /\ doing = [p \in Proc |-> "idle"]
    /\ told = [p \in Proc |-> "nothing"]
    /\ linked = {}
    /\ moves = 0
    /\ unaware = {}
    /\ calm = {}
    /\ disabled = {}
    /\ stray = (text = "foreign")

(* Mutant: any file is greenrun's.                                         *)
AnyState == IF text = "none" THEN "not installed" ELSE "installed"

(* inspect, and what Status reports.                                       *)
State ==
    IF text = "none" THEN "not installed"
    ELSE IF text \in {"greenrun", "edited"} THEN "installed" ELSE "foreign"

Active == {p \in Proc : doing[p] \in {"opening", "writing", "removing"}}

Ends(p, saying) ==
    /\ doing' = [doing EXCEPT ![p] = "over"]
    /\ told' = [told EXCEPT ![p] = saying]

GoesOn(p, step) ==
    /\ doing' = [doing EXCEPT ![p] = step]
    /\ UNCHANGED told

(* p has looked at the file, which is where its history begins.            *)
Looked(p) ==
    /\ doing[p] = "idle"
    /\ calm' = calm \cup {p}
    /\ disabled' = IF runnable \/ text = "none" THEN disabled ELSE disabled \cup {p}
    /\ UNCHANGED <<file, moves, unaware, stray>>

(* Mutant: a hook that is already installed is left alone.                 *)
LookToInstallOnce(p) ==
    /\ Looked(p)
    /\ IF State = "foreign" THEN Ends(p, "refused")
       ELSE IF State = "installed" THEN Ends(p, "installed") ELSE GoesOn(p, "opening")

LookToInstall(p) ==
    /\ Looked(p)
    /\ IF State = "foreign" THEN Ends(p, "refused") ELSE GoesOn(p, "opening")

LookToUninstall(p) ==
    /\ Looked(p)
    /\ IF State = "not installed" THEN Ends(p, "removed")
       ELSE IF State = "foreign" THEN Ends(p, "refused") ELSE GoesOn(p, "removing")

(* git rev-parse or the reading of the file fails.                         *)
LookFails(p) ==
    /\ "io" \in Faults
    /\ doing[p] = "idle"
    /\ Ends(p, "failed")
    /\ UNCHANGED <<file, moves, history>>

(* What p does to the file is against those in ps.                         *)
Against(ps) ==
    /\ calm' = calm \ ps
    /\ UNCHANGED <<moves, unaware, disabled>>

Removers == {p \in Proc : doing[p] = "removing" \/ told[p] = "removed"}

(* os.WriteFile opens the file; the mode is that of a new file only.       *)
Open(p) ==
    /\ doing[p] = "opening"
    /\ text' = "blank"
    /\ runnable' = (text = "none" \/ runnable)
    /\ linked' = linked \cup {p}
    /\ GoesOn(p, "writing")
    /\ Against(Removers)
    /\ UNCHANGED stray

OpenFails(p) ==
    /\ "io" \in Faults
    /\ doing[p] = "opening"
    /\ Ends(p, "failed")
    /\ UNCHANGED <<file, moves, history>>

(* The script is written from the start of the file that p opened, over    *)
(* what another program may have written there, of which a tail may stay.  *)
Write(p) ==
    /\ doing[p] = "writing"
    /\ IF p \in linked
       THEN text' = "greenrun" \/ (text \in {"foreign", "edited"} /\ text' = "edited")
       ELSE UNCHANGED text
    /\ linked' = linked \ {p}
    /\ Ends(p, "installed")
    /\ Against(IF p \in linked THEN Removers ELSE {})
    /\ UNCHANGED <<runnable, stray>>

(* p is killed, or fails, before it wrote.                                 *)
LeavesBlank(p) ==
    /\ linked' = linked \ {p}
    /\ stray' = (stray \/ p \in linked)
    /\ Against(IF p \in linked THEN Proc ELSE {})
    /\ UNCHANGED <<text, runnable>>

WriteFails(p) ==
    /\ "io" \in Faults
    /\ doing[p] = "writing"
    /\ Ends(p, "failed")
    /\ LeavesBlank(p)

Crash(p) ==
    /\ "crash" \in Faults
    /\ p \in Active
    /\ Ends(p, "nothing")
    /\ LeavesBlank(p)

(* Mutant: the file is emptied instead.                                    *)
RemoveContents(p) ==
    /\ doing[p] = "removing"
    /\ text' = IF text = "none" THEN "none" ELSE "blank"
    /\ linked' = {}
    /\ Ends(p, IF text = "none" THEN "failed" ELSE "removed")
    /\ Against(Proc \ Removers)
    /\ UNCHANGED <<runnable, stray>>

(* os.Remove, an error when the file is gone already.                      *)
Remove(p) ==
    /\ doing[p] = "removing"
    /\ text' = "none"
    /\ linked' = {}
    /\ Ends(p, IF text = "none" THEN "failed" ELSE "removed")
    /\ Against(Proc \ Removers)
    /\ UNCHANGED <<runnable, stray>>

RemoveFails(p) ==
    /\ "io" \in Faults
    /\ doing[p] = "removing"
    /\ Ends(p, "failed")
    /\ UNCHANGED <<file, moves, history>>

(* Another program, or the developer, writes a hook of its own, edits or   *)
(* deletes the one there, or changes its mode; in place, or by putting     *)
(* another file there.                                                     *)
Meddle ==
    /\ moves < MaxMoves
    /\ moves' = moves + 1
    /\ \/ /\ text' = "foreign" /\ runnable' \in BOOLEAN
          /\ linked' \in {linked, {}}
       \/ /\ text \in {"greenrun", "edited"}
          /\ text' = "edited" /\ UNCHANGED runnable
          /\ linked' \in {linked, {}}
       \/ text' = "none" /\ linked' = {} /\ UNCHANGED runnable
       \/ text # "none" /\ runnable' = ~runnable /\ UNCHANGED <<text, linked>>
    /\ unaware' = unaware \cup Active
    /\ calm' = {}
    /\ stray' = (stray \/ text' = "foreign")
    /\ UNCHANGED <<doing, told, disabled>>

ProcStep(p) ==
    \/ LookToInstall(p) \/ LookToUninstall(p) \/ LookFails(p)
    \/ Open(p) \/ OpenFails(p) \/ Write(p) \/ WriteFails(p)
    \/ Remove(p) \/ RemoveFails(p)
    \/ Crash(p)

HookNext == (\E p \in Proc : ProcStep(p)) \/ Meddle

HookSpec == HookInit /\ [][HookNext]_hookVars

----------------------------------------------------------------------------

HookTypeOK ==
    /\ text \in Text
    /\ runnable \in BOOLEAN
    /\ doing \in [Proc -> {"idle", "opening", "writing", "removing", "over"}]
    /\ told \in [Proc -> {"nothing", "installed", "removed", "refused", "failed"}]
    /\ linked \in SUBSET Proc
    /\ moves \in 0 .. MaxMoves
    /\ unaware \in SUBSET Proc
    /\ calm \in SUBSET Proc
    /\ disabled \in SUBSET Proc
    /\ stray \in BOOLEAN

(* "Install and Uninstall refuse to touch a pre-push hook without" the     *)
(* marker: only a process that looked before that hook was written, or     *)
(* before it was changed last, may overwrite or remove it.                 *)
ForeignKept ==
    [][\A p \in Proc \ unaware : ProcStep(p) /\ text = "foreign" => text' = "foreign"]_hookVars

(* What Install and Uninstall told the user ("installed pre-push hook",    *)
(* "no greenrun pre-push hook remains") stays true until somebody works    *)
(* against it, however many processes do the same; while one of them is in *)
(* the middle of a write, the file may be blank.                           *)
ToldHolds ==
    \A p \in calm :
        /\ told[p] = "installed" /\ linked = {} =>
               text = "greenrun" /\ (runnable \/ p \in disabled)
        /\ told[p] = "removed" => text = "none"

(* What greenrun leaves itself is not taken for a foreign hook, which it   *)
(* would refuse to replace or remove: such a file was left by another      *)
(* program or by a process that broke off, or is being written.            *)
OwnIsRecognised == State = "foreign" => stray \/ linked # {}

(* "hook must be executable": a hook that was just installed runs.         *)
InstalledIsExecutable ==
    \A p \in calm : told[p] = "installed" /\ linked = {} => runnable
=============================================================================
