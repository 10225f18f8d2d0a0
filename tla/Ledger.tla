------------------------------- MODULE Ledger -------------------------------
(***************************************************************************)
(* What the run store promises, without saying how: a run is published by  *)
(* one step that also makes it the latest, nothing is withdrawn, and a run *)
(* tells its verdict only after it was published.                          *)
(***************************************************************************)
CONSTANTS Run, NoRun

VARIABLES published, latest, told

ledgerVars == <<published, latest, told>>

LedgerInit == published = {} /\ latest = NoRun /\ told = {}

Publish(r) ==
    /\ r \notin published
    /\ published' = published \cup {r}
    /\ latest' = r
    /\ UNCHANGED told

Tell(r) ==
    /\ r \in published \ told
    /\ told' = told \cup {r}
    /\ UNCHANGED <<published, latest>>

LedgerNext == \E r \in Run : Publish(r) \/ Tell(r)

LedgerSpec == LedgerInit /\ [][LedgerNext]_ledgerVars
=============================================================================
