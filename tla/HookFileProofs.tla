--------------------------- MODULE HookFileProofs ---------------------------
(***************************************************************************)
(* The hook file, for any number of processes and any number of steps of   *)
(* other programs.                                                         *)
(***************************************************************************)
EXTENDS HookFile, TLAPS

(* A process is in one step, and has told nothing before it is over.       *)
Stages ==
    /\ \A p \in linked : doing[p] = "writing"
    /\ \A p \in calm : doing[p] # "idle"
    /\ \A p \in Proc : doing[p] # "over" => told[p] = "nothing"

(* What is not greenrun's has its cause, and who writes has a file.        *)
Causes ==
    /\ text = "none" => linked = {}
    /\ text = "foreign" => stray
    /\ text = "blank" => stray \/ linked # {}

(* An installation against which nobody works.                             *)
Installing(p) ==
    /\ doing[p] \in {"opening", "writing"} \/ told[p] = "installed" =>
          text = "none" \/ runnable \/ p \in disabled
    /\ doing[p] = "writing" => p \in linked /\ text \in {"blank", "greenrun"}
    /\ told[p] = "installed" => text = "greenrun" \/ (text = "blank" /\ linked # {})

Removed(p) == told[p] = "removed" => text = "none"

(* Who has not overlooked another program's writing does not touch it.     *)
Aware ==
    \A p \in Active \ unaware : text # "foreign"

HookInv ==
    /\ HookTypeOK
    /\ Stages
    /\ Causes
    /\ \A p \in calm : Installing(p) /\ Removed(p)
    /\ Aware

(* The bound on the steps of others.                                       *)
LEMMA MeddleCounts ==
    ASSUME moves \in 0 .. MaxMoves, moves < MaxMoves, moves' = moves + 1
    PROVE  moves' \in 0 .. MaxMoves
BY HookAssumption

LEMMA HookStarts == HookInit => HookInv
<1> SUFFICES ASSUME HookInit PROVE HookInv
  OBVIOUS
<1>1. HookTypeOK
  <2>1. moves \in 0 .. MaxMoves
    BY HookAssumption DEF HookInit
  <2> QED
    BY <2>1 DEF HookTypeOK, HookInit, Text
<1>2. Stages /\ Causes /\ Aware
  BY DEF HookInit, Stages, Causes, Aware, Active
<1> QED
  BY <1>1, <1>2 DEF HookInv, HookInit

(* A process looks at the file.                                            *)
LEMMA LookInv ==
    ASSUME HookInv, NEW p \in Proc, LookToInstall(p) \/ LookToUninstall(p)
    PROVE  HookInv'
<1> USE DEF Looked, Ends, GoesOn, file, State
<1> USE DEF LookToInstall, LookToUninstall
<1>1. HookTypeOK'
  BY DEF HookInv, HookTypeOK
<1>2. Stages'
  BY DEF HookInv, HookTypeOK, Stages
<1>3. Causes'
  BY DEF HookInv, Causes
<1>4. ASSUME NEW q \in calm' PROVE Installing(q)' /\ Removed(q)'
  <2>1. CASE q = p
    BY <2>1 DEF HookInv, HookTypeOK, Stages, Installing, Removed, Text
  <2>2. CASE q # p
    BY <2>2, <1>4 DEF HookInv, HookTypeOK, Installing, Removed
  <2> QED
    BY <2>1, <2>2
<1>5. Aware'
  BY DEF HookInv, HookTypeOK, Aware, Active
<1> QED
  BY <1>1, <1>2, <1>3, <1>4, <1>5 DEF HookInv

(* A command fails without having touched the file.                        *)
LEMMA FailsInv ==
    ASSUME HookInv, NEW p \in Proc, LookFails(p) \/ OpenFails(p) \/ RemoveFails(p)
    PROVE  HookInv'
<1> USE DEF LookFails, OpenFails, RemoveFails, Ends, file, history
<1>1. HookTypeOK'
  BY DEF HookInv, HookTypeOK
<1>2. Stages'
  BY DEF HookInv, HookTypeOK, Stages
<1>3. Causes'
  BY DEF HookInv, Causes
<1>4. ASSUME NEW q \in calm' PROVE Installing(q)' /\ Removed(q)'
  <2>1. CASE q = p
    BY <2>1, <1>4 DEF HookInv, HookTypeOK, Installing, Removed
  <2>2. CASE q # p
    BY <2>2, <1>4 DEF HookInv, HookTypeOK, Installing, Removed
  <2> QED
    BY <2>1, <2>2
<1>5. Aware'
  BY DEF HookInv, HookTypeOK, Aware, Active
<1> QED
  BY <1>1, <1>2, <1>3, <1>4, <1>5 DEF HookInv

LEMMA OpenInv ==
    ASSUME HookInv, NEW p \in Proc, Open(p)
    PROVE  HookInv'
<1> USE DEF Open, GoesOn, Against
<1>1. HookTypeOK'
  BY DEF HookInv, HookTypeOK, Text
<1>2. Stages'
  BY DEF HookInv, HookTypeOK, Stages
<1>3. Causes'
  BY DEF HookInv, Causes
<1>4. ASSUME NEW q \in calm' PROVE Installing(q)' /\ Removed(q)'
  <2>1. q \in calm /\ q \in Proc /\ q \notin Removers
    BY <1>4 DEF HookInv, HookTypeOK
  <2>2. Removed(q)'
    BY <2>1 DEF Removers, Removed
  <2>3. Installing(q)'
    BY <2>1 DEF HookInv, HookTypeOK, Installing
  <2> QED
    BY <2>2, <2>3
<1>5. Aware'
  BY DEF Aware
<1> QED
  BY <1>1, <1>2, <1>3, <1>4, <1>5 DEF HookInv

LEMMA WriteInv ==
    ASSUME HookInv, NEW p \in Proc, Write(p)
    PROVE  HookInv'
<1> USE DEF Write, Ends, Against
<1>1. HookTypeOK'
  BY DEF HookInv, HookTypeOK, Text
<1>2. Stages'
  BY DEF HookInv, HookTypeOK, Stages
<1>3. Causes'
  BY DEF HookInv, Causes
<1>4. ASSUME NEW q \in calm' PROVE Installing(q)' /\ Removed(q)'
  <2>1. q \in calm /\ q \in Proc /\ (p \in linked => q \notin Removers)
    BY <1>4 DEF HookInv, HookTypeOK
  <2>2. Removed(q)'
    BY <2>1 DEF HookInv, HookTypeOK, Stages, Removers, Removed
  <2>3. ASSUME q = p PROVE Installing(q)'
    <3>1. p \in linked /\ text \in {"blank", "greenrun"} /\ (runnable \/ p \in disabled)
      BY <2>1, <2>3 DEF HookInv, Installing
    <3>2. text' = "greenrun" /\ doing'[p] = "over" /\ runnable' = runnable /\ disabled' = disabled
      BY <3>1 DEF HookInv, HookTypeOK
    <3> QED
      BY <2>3, <3>1, <3>2 DEF Installing
  <2>4. ASSUME q # p PROVE Installing(q)'
    <3>1. Installing(q) /\ doing'[q] = doing[q] /\ told'[q] = told[q]
      BY <2>1, <2>4 DEF HookInv, HookTypeOK
    <3>2. CASE p \in linked
      BY <2>1, <2>4, <3>1, <3>2 DEF HookInv, HookTypeOK, Causes, Installing
    <3>3. CASE p \notin linked
      BY <2>4, <3>1, <3>3 DEF Installing
    <3> QED
      BY <3>2, <3>3
  <2> QED
    BY <2>2, <2>3, <2>4
<1>5. Aware'
  BY DEF HookInv, HookTypeOK, Aware, Active
<1> QED
  BY <1>1, <1>2, <1>3, <1>4, <1>5 DEF HookInv

(* A process breaks off.                                                   *)
LEMMA BreaksOffInv ==
    ASSUME HookInv, NEW p \in Proc, WriteFails(p) \/ Crash(p)
    PROVE  HookInv'
<1>1. /\ p \in Active
      /\ doing' = [doing EXCEPT ![p] = "over"]
      /\ told' = [told EXCEPT ![p] = told'[p]]
      /\ told'[p] \in {"nothing", "failed"}
      /\ LeavesBlank(p)
  BY DEF WriteFails, Crash, Ends, Active, HookInv, HookTypeOK
<1> USE <1>1 DEF LeavesBlank, Against
<1>2. HookTypeOK'
  BY DEF HookInv, HookTypeOK
<1>3. Stages'
  BY DEF HookInv, HookTypeOK, Stages
<1>4. Causes'
  BY DEF HookInv, Causes
<1>5. ASSUME NEW q \in calm' PROVE Installing(q)' /\ Removed(q)'
  <2>1. q \in calm /\ q \in Proc /\ p \notin linked /\ linked' = linked
    BY <1>5 DEF HookInv, HookTypeOK
  <2>2. CASE q = p
    BY <2>1, <2>2 DEF HookInv, HookTypeOK, Installing, Removed
  <2>3. CASE q # p
    BY <2>1, <2>3 DEF HookInv, HookTypeOK, Installing, Removed
  <2> QED
    BY <2>2, <2>3
<1>6. Aware'
  BY DEF HookInv, HookTypeOK, Aware, Active
<1> QED
  BY <1>2, <1>3, <1>4, <1>5, <1>6 DEF HookInv

LEMMA RemoveInv ==
    ASSUME HookInv, NEW p \in Proc, Remove(p)
    PROVE  HookInv'
<1> USE DEF Remove, Ends, Against
<1>1. HookTypeOK'
  BY DEF HookInv, HookTypeOK, Text
<1>2. Stages'
  BY DEF HookInv, HookTypeOK, Stages
<1>3. Causes'
  BY DEF Causes
<1>4. ASSUME NEW q \in calm' PROVE Installing(q)' /\ Removed(q)'
  <2>1. q \in calm /\ q \in Proc /\ q \in Removers
    BY <1>4 DEF HookInv, HookTypeOK
  <2>2. doing'[q] # "writing" /\ told'[q] # "installed"
    BY <2>1 DEF HookInv, HookTypeOK, Stages, Removers
  <2> QED
    BY <2>2 DEF Installing, Removed
<1>5. Aware'
  BY DEF Aware
<1> QED
  BY <1>1, <1>2, <1>3, <1>4, <1>5 DEF HookInv

LEMMA MeddleInv ==
    ASSUME HookInv, Meddle
    PROVE  HookInv'
<1> USE DEF Meddle
<1>1. HookTypeOK'
  <2>1. moves' \in 0 .. MaxMoves
    BY MeddleCounts DEF HookInv, HookTypeOK
  <2>2. text' \in Text /\ runnable' \in BOOLEAN /\ linked' \in SUBSET Proc
    BY DEF HookInv, HookTypeOK, Text
  <2>3. unaware' \in SUBSET Proc
    BY DEF HookInv, HookTypeOK, Active
  <2>4. stray' \in BOOLEAN
    BY DEF HookInv, HookTypeOK
  <2> QED
    BY <2>1, <2>2, <2>3, <2>4 DEF HookInv, HookTypeOK
<1>2. Stages'
  BY DEF HookInv, Stages
<1>3. Causes'
  BY DEF HookInv, Causes
<1>4. Aware'
  BY DEF Aware, Active
<1> QED
  BY <1>1, <1>2, <1>3, <1>4 DEF HookInv

LEMMA HookStep == HookInv /\ [HookNext]_hookVars => HookInv'
<1> SUFFICES ASSUME HookInv, [HookNext]_hookVars PROVE HookInv'
  OBVIOUS
<1>1. ASSUME NEW p \in Proc, ProcStep(p) PROVE HookInv'
  BY <1>1, LookInv, FailsInv, OpenInv, WriteInv, BreaksOffInv, RemoveInv DEF ProcStep
<1>2. CASE Meddle
  BY <1>2, MeddleInv
<1>3. CASE UNCHANGED hookVars
  BY <1>3 DEF hookVars, file, history, HookInv, HookTypeOK, Stages, Causes, Installing, Removed, Aware, Active
<1> QED
  BY <1>1, <1>2, <1>3 DEF HookNext

(* The invariant of the hook file.                                         *)
THEOREM HookInvariant == HookSpec => []HookInv
BY HookStarts, HookStep, PTL DEF HookSpec

(* The hook file and all that is known of its processes have their types.  *)
THEOREM HookTypeCorrect == HookSpec => []HookTypeOK
<1>1. HookInv => HookTypeOK
  BY DEF HookInv
<1> QED
  BY <1>1, HookInvariant, PTL

(* What install and uninstall told holds until somebody works against it.  *)
THEOREM WhatWasToldHolds == HookSpec => []ToldHolds
<1>1. HookInv => ToldHolds
  <2> SUFFICES ASSUME HookInv, NEW p \in calm
               PROVE  /\ told[p] = "installed" /\ linked = {} =>
                             text = "greenrun" /\ (runnable \/ p \in disabled)
                      /\ told[p] = "removed" => text = "none"
    BY DEF ToldHolds
  <2> QED
    BY DEF HookInv, Installing, Removed
<1> QED
  BY <1>1, HookInvariant, PTL

(* greenrun recognises what it left itself.                                *)
THEOREM RecognisesItsOwn == HookSpec => []OwnIsRecognised
<1>1. HookInv => OwnIsRecognised
  BY DEF HookInv, HookTypeOK, Text, Causes, OwnIsRecognised, State
<1> QED
  BY <1>1, HookInvariant, PTL

(* A foreign hook is only touched by a process that looked before it came. *)
THEOREM ForeignIsKept == HookSpec => ForeignKept
<1>1. HookInv /\ [HookNext]_hookVars =>
        [\A p \in Proc \ unaware : ProcStep(p) /\ text = "foreign" => text' = "foreign"]_hookVars
  <2> SUFFICES ASSUME HookInv, NEW p \in Proc, p \notin unaware, ProcStep(p), text = "foreign"
               PROVE  text' = "foreign"
    OBVIOUS
  <2>1. p \notin Active
    BY DEF HookInv, Aware
  <2>2. LookToInstall(p) \/ LookToUninstall(p) \/ LookFails(p)
    BY <2>1 DEF ProcStep, Active, Open, OpenFails, Write, WriteFails, Remove, RemoveFails, Crash
  <2> QED
    BY <2>2 DEF LookToInstall, LookToUninstall, LookFails, Looked, file
<1> QED
  BY <1>1, HookInvariant, PTL DEF HookSpec, ForeignKept
=============================================================================
