------------------------------ MODULE Records -------------------------------
(***************************************************************************)
(* What the greenrun processes of one repository leave on disk: the result *)
(* files of each run, `latest`, index.jsonl (internal/store/store.go) and  *)
(* stats.json (internal/history/history.go), written by runLocal and       *)
(* importGitHub (internal/cli/cli.go), which end alike.                    *)
(*                                                                         *)
(* A process may be killed between any two steps.  atomicWrite renames a   *)
(* complete file into place, so it is one step; os.WriteFile truncates the *)
(* file first and writes it then, so it is two.  The contents of           *)
(* stats.json are the set of runs it counts; an empty or unreadable file   *)
(* counts none, because Load ignores the error.                            *)
(***************************************************************************)
EXTENDS Integers, Sequences, SequencesExt

CONSTANTS Run,      \* the runs, each in a process of its own
          NoRun,
          Statuses, \* the statuses with which runs end
          Faults    \* what may go wrong: "crash", "io"

ASSUME RecordsAssumption ==
    /\ NoRun \notin Run
    /\ Statuses \subseteq {"pass", "fail", "partial", "error", "cancelled", "skip"}
    /\ Faults \subseteq {"crash", "io"}

Stage == {"idle", "executing", "completing", "compacting", "pointing", "indexing",
          "learning", "emptying", "saving", "saved", "unchanged"}

NoCode == -1

VARIABLES at,        \* at[r]: what r does next; stays where r ends
          status,    \* status[r]: the status of r once it has one
          evidence,  \* the runs with a job that passed or failed
          code,      \* code[r]: the exit code of r, or NoCode
          crashed,   \* the runs that were killed
          before,    \* before[r]: the runs over when r began (history variable)
          files,     \* files[r]: the result files of r
          latest, index,
          stats,     \* the runs that stats.json counts
          blank,     \* stats.json is empty or absent
          memory,    \* memory[r]: the statistics that r has loaded
          spoilt,    \* history: two updates of stats.json have overlapped, or
                     \* one was broken off after it had truncated the file
          reading    \* the run to which a reader has resolved "latest"

recordVars == <<at, status, evidence, code, crashed, before, files, latest, index,
                stats, blank, memory, spoilt, reading>>

disk == <<files, latest, index, stats, blank>>

RecordsInit ==
    /\ at = [r \in Run |-> "idle"]
    /\ status = [r \in Run |-> "none"]
    /\ evidence = {}
    /\ code = [r \in Run |-> NoCode]
    /\ crashed = {}
    /\ before = [r \in Run |-> {}]
    /\ files = [r \in Run |-> {}]
    /\ latest = NoRun
    /\ index = <<>>
    /\ stats = {}
    /\ blank = TRUE
    /\ memory = [r \in Run |-> {}]
    /\ spoilt = FALSE
    /\ reading = NoRun

Over == {r \in Run : r \in crashed \/ code[r] # NoCode}

Live == {r \in Run : at[r] # "idle"} \ Over

Doing(r, stage) == r \in Live /\ at[r] = stage

Go(r, stage) == at' = [at EXCEPT ![r] = stage]

(* Start makes the directories of the run.                                 *)
Begin(r) ==
    /\ at[r] = "idle"
    /\ Go(r, "executing")
    /\ before' = [before EXCEPT ![r] = Over]
    /\ UNCHANGED <<status, evidence, code, crashed, memory, spoilt, reading, disk>>

(* Mutant: the statistics are updated before the run is completed.         *)
ExecuteThenLearn(r) ==
    /\ Doing(r, "executing")
    /\ Go(r, "learning")
    /\ \E s \in Statuses : status' = [status EXCEPT ![r] = s]
    /\ evidence' \in {evidence, evidence \cup {r}}
    /\ UNCHANGED <<code, crashed, before, memory, spoilt, reading, disk>>

(* The jobs have run, or the remote run was fetched.                       *)
Execute(r) ==
    /\ Doing(r, "executing")
    /\ Go(r, "completing")
    /\ \E s \in Statuses : status' = [status EXCEPT ![r] = s]
    /\ evidence' \in {evidence, evidence \cup {r}}
    /\ UNCHANGED <<code, crashed, before, memory, spoilt, reading, disk>>

(* Mutants: `latest` is written with the first file; it names the run that *)
(* ends the index; an error of the index is ignored.                       *)
WriteResultPointed(r) ==
    /\ Doing(r, "completing")
    /\ Go(r, "compacting")
    /\ files' = [files EXCEPT ![r] = @ \cup {"result.json"}]
    /\ latest' = r
    /\ UNCHANGED <<status, evidence, code, crashed, before, index, stats, blank, memory, spoilt, reading>>

PointIndexed(r) ==
    /\ Doing(r, "pointing")
    /\ Go(r, "indexing")
    /\ latest' = IF index = <<>> THEN r ELSE index[Len(index)]
    /\ UNCHANGED <<status, evidence, code, crashed, before, files, index, stats, blank, memory, spoilt, reading>>

AppendIndexUnheeded(r) ==
    /\ Doing(r, "indexing")
    /\ Go(r, "learning")
    /\ index' = Append(index, r) \/ ("io" \in Faults /\ UNCHANGED index)
    /\ UNCHANGED <<status, evidence, code, crashed, before, files, latest, stats, blank, memory, spoilt, reading>>

(* Complete, one step per file.                                            *)
WriteResult(r) ==
    /\ Doing(r, "completing")
    /\ Go(r, "compacting")
    /\ files' = [files EXCEPT ![r] = @ \cup {"result.json"}]
    /\ UNCHANGED <<status, evidence, code, crashed, before, latest, index, stats, blank, memory, spoilt, reading>>

WriteCompact(r) ==
    /\ Doing(r, "compacting")
    /\ Go(r, "pointing")
    /\ files' = [files EXCEPT ![r] = @ \cup {"result.gr"}]
    /\ UNCHANGED <<status, evidence, code, crashed, before, latest, index, stats, blank, memory, spoilt, reading>>

PointLatest(r) ==
    /\ Doing(r, "pointing")
    /\ Go(r, "indexing")
    /\ latest' = r
    /\ UNCHANGED <<status, evidence, code, crashed, before, files, index, stats, blank, memory, spoilt, reading>>

AppendIndex(r) ==
    /\ Doing(r, "indexing")
    /\ Go(r, "learning")
    /\ index' = Append(index, r)
    /\ UNCHANGED <<status, evidence, code, crashed, before, files, latest, stats, blank, memory, spoilt, reading>>

ExitCode(s) ==
    IF s = "pass" THEN 0
    ELSE IF s = "fail" THEN 1
    ELSE IF s = "partial" THEN 3
    ELSE IF s = "cancelled" THEN 130 ELSE 2

(* Mutant: a run exits with its verdict although it was not stored.        *)
GiveUpQuietly(r) ==
    /\ "io" \in Faults
    /\ \E stage \in {"executing", "completing", "compacting", "pointing", "indexing"} : Doing(r, stage)
    /\ code' = [code EXCEPT ![r] = ExitCode(status[r])]
    /\ UNCHANGED <<at, status, evidence, crashed, before, memory, spoilt, reading, disk>>

(* An error of Start, of what precedes Complete, or of Complete: the       *)
(* command exits with 2.                                                   *)
GiveUp(r) ==
    /\ "io" \in Faults
    /\ \E stage \in {"executing", "completing", "compacting", "pointing", "indexing"} : Doing(r, stage)
    /\ code' = [code EXCEPT ![r] = 2]
    /\ UNCHANGED <<at, status, evidence, crashed, before, memory, spoilt, reading, disk>>

Updating == {r \in Live : at[r] \in {"emptying", "saving"}}

(* Mutant: the file is truncated before it is loaded.                      *)
LoadTruncated(r) ==
    /\ Doing(r, "learning")
    /\ Go(r, IF r \in evidence THEN "emptying" ELSE "unchanged")
    /\ memory' = [memory EXCEPT ![r] = {}]
    /\ spoilt' = (spoilt \/ (r \in evidence /\ Updating # {}))
    /\ UNCHANGED <<status, evidence, code, crashed, before, reading, disk>>

(* Load, at the beginning of UpdateWithKeys; a run without evidence        *)
(* changes nothing.                                                        *)
Load(r) ==
    /\ Doing(r, "learning")
    /\ Go(r, IF r \in evidence THEN "emptying" ELSE "unchanged")
    /\ memory' = [memory EXCEPT ![r] = stats]
    /\ spoilt' = (spoilt \/ (r \in evidence /\ Updating # {}))
    /\ UNCHANGED <<status, evidence, code, crashed, before, reading, disk>>

(* os.WriteFile opens the file with O_TRUNC ...                            *)
Empty(r) ==
    /\ Doing(r, "emptying")
    /\ Go(r, "saving")
    /\ stats' = {}
    /\ blank' = TRUE
    /\ UNCHANGED <<status, evidence, code, crashed, before, files, latest, index, memory, spoilt, reading>>

(* ... and writes from the start of it; over what another process has      *)
(* written since, the longer tail of which makes the file unreadable.      *)
Save(r) ==
    /\ Doing(r, "saving")
    /\ Go(r, "saved")
    /\ \/ stats' = memory[r] \cup {r}
       \/ ~blank /\ stats' = {}
    /\ blank' = FALSE
    /\ UNCHANGED <<status, evidence, code, crashed, before, files, latest, index, memory, spoilt, reading>>

(* An error of UpdateWithKeys is ignored.                                  *)
SaveFails(r) ==
    /\ "io" \in Faults
    /\ Doing(r, "saving")
    /\ Go(r, "unchanged")
    /\ stats' = {}
    /\ spoilt' = TRUE
    /\ blank' \in BOOLEAN
    /\ UNCHANGED <<status, evidence, code, crashed, before, files, latest, index, memory, reading>>

Exit(r) ==
    /\ Doing(r, "saved") \/ Doing(r, "unchanged")
    /\ code' = [code EXCEPT ![r] = ExitCode(status[r])]
    /\ UNCHANGED <<at, status, evidence, crashed, before, memory, spoilt, reading, disk>>

Crash(r) ==
    /\ "crash" \in Faults
    /\ r \in Live
    /\ crashed' = crashed \cup {r}
    /\ spoilt' = (spoilt \/ at[r] = "saving")
    /\ UNCHANGED <<at, status, evidence, code, before, memory, reading, disk>>

(* `greenrun show`, `logs` and `path` resolve "latest", then read.         *)
Resolve ==
    /\ latest # NoRun
    /\ reading' = latest
    /\ UNCHANGED <<at, status, evidence, code, crashed, before, memory, spoilt, disk>>

RunStep(r) ==
    \/ Begin(r) \/ Execute(r)
    \/ WriteResult(r) \/ WriteCompact(r) \/ PointLatest(r) \/ AppendIndex(r) \/ GiveUp(r)
    \/ Load(r) \/ Empty(r) \/ Save(r) \/ SaveFails(r)
    \/ Exit(r) \/ Crash(r)

RecordsNext == (\E r \in Run : RunStep(r)) \/ Resolve

RecordsSpec == RecordsInit /\ [][RecordsNext]_recordVars

----------------------------------------------------------------------------

RecordsTypeOK ==
    /\ at \in [Run -> Stage]
    /\ status \in [Run -> Statuses \cup {"none"}]
    /\ evidence \in SUBSET Run
    /\ code \in [Run -> {NoCode, 0, 1, 2, 3, 130}]
    /\ crashed \in SUBSET Run
    /\ before \in [Run -> SUBSET Run]
    /\ files \in [Run -> SUBSET {"result.json", "result.gr"}]
    /\ latest \in Run \cup {NoRun}
    /\ index \in Seq(Run)
    /\ stats \in SUBSET Run
    /\ blank \in BOOLEAN
    /\ memory \in [Run -> SUBSET Run]
    /\ spoilt \in BOOLEAN
    /\ reading \in Run \cup {NoRun}

Published == {r \in Run : at[r] \in {"indexing", "learning", "emptying", "saving", "saved", "unchanged"}}

(* A run tells a verdict by an exit code other than 2, which it shares     *)
(* with the errors of greenrun itself.                                     *)
Told == {r \in Run : code[r] \in {0, 1, 3, 130}}

(* Whatever crashes or fails, `latest`, a reader that has resolved it and  *)
(* the index only lead to runs whose result files are both in place (the   *)
(* order of Complete).                                                     *)
PublishedIsComplete ==
    \A r \in ({latest, reading} \ {NoRun}) \cup ToSet(index) : files[r] = {"result.json", "result.gr"}

(* Who reads "latest" after a run has told its verdict never gets a run    *)
(* that was over before it began.                                          *)
LatestIsFresh == \A r \in Told : latest \notin before[r] \cup {NoRun}

(* The index lists a run once, after `latest` named it, and lists every    *)
(* run that has told its verdict.                                          *)
IndexIsExact ==
    /\ \A i, k \in DOMAIN index : index[i] = index[k] => i = k
    /\ Told \subseteq ToSet(index) /\ ToSet(index) \subseteq Published

(* The statistics count no run that is not in the index, on disk or in the *)
(* memory of a process that may write them back.                           *)
TrainedIsRecorded ==
    /\ stats \subseteq ToSet(index) \cap evidence
    /\ \A r \in Live : memory[r] \subseteq ToSet(index) \cap evidence

(* Complete publishes a run in one step, before it tells its verdict.      *)
LedgerView == INSTANCE Ledger WITH published <- Published, told <- Told
ImplementsLedger == LedgerView!LedgerSpec

SavedRuns == {r \in Run : at[r] = "saved"}

(* "Local runs train the ranking automatically": however many runs there   *)
(* are at once, and wherever else they are killed or fail, the statistics  *)
(* count every run that has saved its evidence, or the process holds them  *)
(* that is just replacing the file - as long as no two updates overlap,    *)
(* which nothing keeps apart, and none is broken off within the write.     *)
LearnsUnlessSpoilt ==
    ~spoilt => \A r \in SavedRuns : r \in stats \/ \E s \in Live : at[s] = "saving" /\ r \in memory[s]
=============================================================================
