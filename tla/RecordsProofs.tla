--------------------------- MODULE RecordsProofs ----------------------------
(***************************************************************************)
(* What greenrun leaves on disk is consistent for any number of processes, *)
(* whatever crashes and fails; and the statistics lose nothing as long as  *)
(* no two updates of them overlap and none is broken off.                  *)
(***************************************************************************)
EXTENDS Records, TLAPS

Pointed == {"indexing", "learning", "emptying", "saving", "saved", "unchanged"}

Indexed == {r \in Run : at[r] \in Pointed \ {"indexing"}}

(* The result files that each stage has behind it.                         *)
FilesInPlace ==
    \A r \in Run :
        /\ at[r] = "compacting" => files[r] = {"result.json"}
        /\ at[r] \in {"idle", "executing", "completing"} => files[r] = {}
        /\ at[r] \in Pointed \cup {"pointing"} => files[r] = {"result.json", "result.gr"}

NamedArePublished == {latest, reading} \ {NoRun} \subseteq Published

(* The index lists exactly the runs that have got past it, each once.      *)
IndexByStage ==
    /\ \A i \in 1..Len(index) : index[i] \in Indexed
    /\ \A r \in Indexed : \E i \in 1..Len(index) : index[i] = r
    /\ \A i, k \in 1..Len(index) : index[i] = index[k] => i = k

(* A process that is over was not idle, and told no verdict too early.     *)
OverByStage ==
    /\ \A r \in Over : at[r] # "idle"
    /\ \A r \in Told : at[r] \in {"saved", "unchanged"}

(* No published run began after the latest one was over.                   *)
FreshByStage ==
    /\ \A r \in Run : before[r] \subseteq Over
    /\ \A r \in Published : latest \notin before[r] \cup {NoRun}

(* Nothing is counted that is not in the index.                            *)
CountedIndexed ==
    /\ stats \subseteq Indexed \cap evidence
    /\ \A r \in Run : memory[r] \subseteq Indexed \cap evidence
    /\ \A r \in Run : at[r] \in {"emptying", "saving"} => r \in evidence

RecordsInv ==
    /\ RecordsTypeOK
    /\ FilesInPlace
    /\ NamedArePublished
    /\ IndexByStage
    /\ OverByStage
    /\ FreshByStage
    /\ CountedIndexed

(* The set of the elements of a sequence.                                  *)
LEMMA ToSetOfSeq ==
    ASSUME NEW s \in Seq(Run)
    PROVE  ToSet(s) = {s[i] : i \in 1..Len(s)} /\ DOMAIN s = 1..Len(s)
BY DEF ToSet

(* The invariant holds before the first process begins.                    *)
LEMMA RecordsInitInv == RecordsInit => RecordsInv
<1> SUFFICES ASSUME RecordsInit PROVE RecordsInv
  OBVIOUS
<1>1. RecordsTypeOK
  <2>1. blank \in BOOLEAN /\ spoilt \in BOOLEAN
    BY DEF RecordsInit
  <2>2. /\ at \in [Run -> Stage]
        /\ status \in [Run -> Statuses \cup {"none"}]
        /\ code \in [Run -> {NoCode, 0, 1, 2, 3, 130}]
        /\ before \in [Run -> SUBSET Run]
        /\ memory \in [Run -> SUBSET Run]
    BY DEF RecordsInit, Stage
  <2>3. files \in [Run -> SUBSET {"result.json", "result.gr"}]
    BY DEF RecordsInit
  <2>4. /\ evidence \in SUBSET Run /\ crashed \in SUBSET Run /\ stats \in SUBSET Run
        /\ index \in Seq(Run) /\ latest \in Run \cup {NoRun} /\ reading \in Run \cup {NoRun}
    BY DEF RecordsInit
  <2> QED
    BY <2>1, <2>2, <2>3, <2>4 DEF RecordsTypeOK
<1>2. FilesInPlace /\ NamedArePublished /\ IndexByStage
  BY DEF RecordsInit, FilesInPlace, NamedArePublished, IndexByStage, Published, Indexed, Pointed
<1>3. OverByStage /\ FreshByStage /\ CountedIndexed
  BY RecordsAssumption
  DEF RecordsInit, OverByStage, FreshByStage, CountedIndexed, Published, Indexed, Pointed, Over, Told, NoCode
<1> QED
  BY <1>1, <1>2, <1>3 DEF RecordsInv

(* Exit codes are exit codes; only a verdict of its own is told.           *)
LEMMA ExitCodes == \A s : ExitCode(s) \in {0, 1, 2, 3, 130}
BY DEF ExitCode

(* Every step preserves the invariant.                                     *)
LEMMA RecordsStep == RecordsInv /\ [RecordsNext]_recordVars => RecordsInv'
<1> SUFFICES ASSUME RecordsInv, [RecordsNext]_recordVars PROVE RecordsInv'
  OBVIOUS
<1> USE RecordsAssumption
<1> USE DEF RecordsInv, RecordsTypeOK, FilesInPlace, NamedArePublished, IndexByStage, OverByStage, FreshByStage,
        CountedIndexed, Published, Indexed, Pointed, Over, Told, Stage, NoCode, Live, Doing, Go, disk
<1>1. ASSUME NEW r \in Run, Begin(r) PROVE RecordsInv'
  BY <1>1 DEF Begin
<1>2. ASSUME NEW r \in Run, Execute(r) PROVE RecordsInv'
  BY <1>2 DEF Execute
<1>3. ASSUME NEW r \in Run, WriteResult(r) PROVE RecordsInv'
  BY <1>3 DEF WriteResult
<1>4. ASSUME NEW r \in Run, WriteCompact(r) PROVE RecordsInv'
  BY <1>4 DEF WriteCompact
<1>5. ASSUME NEW r \in Run, PointLatest(r) PROVE RecordsInv'
  BY <1>5 DEF PointLatest
<1>6. ASSUME NEW r \in Run, AppendIndex(r) PROVE RecordsInv'
  BY <1>6 DEF AppendIndex
<1>7. ASSUME NEW r \in Run, GiveUp(r) PROVE RecordsInv'
  BY <1>7 DEF GiveUp
<1>8. ASSUME NEW r \in Run, Load(r) PROVE RecordsInv'
  BY <1>8 DEF Load
<1>9. ASSUME NEW r \in Run, Empty(r) PROVE RecordsInv'
  BY <1>9 DEF Empty
<1>10. ASSUME NEW r \in Run, Save(r) PROVE RecordsInv'
  <2>1. r \in Indexed \cap evidence /\ Indexed' = Indexed /\ Published' = Published /\ Over' = Over /\ Told' = Told
    BY <1>10 DEF Save
  <2>2. RecordsTypeOK'
    <3>1. memory[r] \cup {r} \in SUBSET Run
      OBVIOUS
    <3>2. stats' \in SUBSET Run
      BY <1>10, <3>1 DEF Save
    <3>3. at' \in [Run -> Stage] /\ blank' \in BOOLEAN
      BY <1>10 DEF Save
    <3> QED
      BY <1>10, <3>2, <3>3 DEF Save
  <2>3. FilesInPlace' /\ NamedArePublished' /\ IndexByStage'
    BY <1>10, <2>1 DEF Save
  <2>4. OverByStage' /\ FreshByStage'
    BY <1>10, <2>1 DEF Save
  <2>5. stats' \subseteq Indexed \cap evidence
    BY <1>10, <2>1 DEF Save
  <2>6. CountedIndexed'
    BY <1>10, <2>1, <2>5 DEF Save
  <2> QED
    BY <2>2, <2>3, <2>4, <2>6 DEF RecordsInv
<1>11. ASSUME NEW r \in Run, SaveFails(r) PROVE RecordsInv'
  BY <1>11 DEF SaveFails
<1>12. ASSUME NEW r \in Run, Exit(r) PROVE RecordsInv'
  BY <1>12, ExitCodes DEF Exit
<1>13. ASSUME NEW r \in Run, Crash(r) PROVE RecordsInv'
  BY <1>13 DEF Crash
<1>14. CASE Resolve
  BY <1>14 DEF Resolve
<1>15. CASE UNCHANGED recordVars
  BY <1>15 DEF recordVars
<1> QED
  BY <1>1, <1>2, <1>3, <1>4, <1>5, <1>6, <1>7, <1>8, <1>9, <1>10, <1>11, <1>12, <1>13, <1>14, <1>15
  DEF RecordsNext, RunStep

(* RecordsInv is an invariant of the specification.                        *)
THEOREM RecordsInvariance == RecordsSpec => []RecordsInv
BY RecordsInitInv, RecordsStep, PTL DEF RecordsSpec

----------------------------------------------------------------------------
(* What the invariant says of the store.                                   *)

(* The index holds the runs that have got past it.                         *)
LEMMA IndexedInIndex == RecordsInv => ToSet(index) = Indexed
<1> SUFFICES ASSUME RecordsInv PROVE ToSet(index) = Indexed
  OBVIOUS
<1>1. ToSet(index) = {index[i] : i \in 1..Len(index)}
  BY ToSetOfSeq DEF RecordsInv, RecordsTypeOK
<1>2. /\ \A i \in 1..Len(index) : index[i] \in Indexed
      /\ \A r \in Indexed : \E i \in 1..Len(index) : index[i] = r
  BY DEF RecordsInv, IndexByStage
<1> QED
  BY <1>1, <1>2

(* `latest`, a reader of it and the index lead to complete results.        *)
THEOREM LatestLeadsToResults == RecordsSpec => []PublishedIsComplete
<1>1. RecordsInv => PublishedIsComplete
  <2> SUFFICES ASSUME RecordsInv, NEW r \in ({latest, reading} \ {NoRun}) \cup ToSet(index)
               PROVE  files[r] = {"result.json", "result.gr"}
    BY DEF PublishedIsComplete
  <2>1. Indexed \subseteq Published
    BY DEF Indexed, Pointed, Published
  <2>2. r \in Published
    BY <2>1, IndexedInIndex DEF RecordsInv, NamedArePublished
  <2> QED
    BY <2>2 DEF RecordsInv, FilesInPlace, Pointed, Published
<1> QED
  BY <1>1, RecordsInvariance, PTL

(* Who reads "latest" after a verdict gets no run that was over before.    *)
THEOREM VerdictThenLatest == RecordsSpec => []LatestIsFresh
<1>1. RecordsInv => LatestIsFresh
  BY DEF RecordsInv, OverByStage, FreshByStage, Published, LatestIsFresh, Told
<1> QED
  BY <1>1, RecordsInvariance, PTL

(* Every verdict told is in the index, which lists no run twice.           *)
THEOREM VerdictsAreIndexed == RecordsSpec => []IndexIsExact
<1>1. RecordsInv => IndexIsExact
  <2> SUFFICES ASSUME RecordsInv PROVE IndexIsExact
    OBVIOUS
  <2>1. ToSet(index) = Indexed
    BY IndexedInIndex
  <2>2. Told \subseteq Indexed
    BY DEF RecordsInv, OverByStage, Told, Indexed, Pointed
  <2>3. Indexed \subseteq Published
    BY DEF Indexed, Pointed, Published
  <2>4. DOMAIN index = 1..Len(index)
    BY ToSetOfSeq DEF RecordsInv, RecordsTypeOK
  <2> QED
    BY <2>1, <2>2, <2>3, <2>4 DEF IndexIsExact, RecordsInv, IndexByStage
<1> QED
  BY <1>1, RecordsInvariance, PTL

(* The statistics count only runs that are in the index.                   *)
THEOREM TrainingIsRecorded == RecordsSpec => []TrainedIsRecorded
<1>1. RecordsInv => TrainedIsRecorded
  <2> SUFFICES ASSUME RecordsInv PROVE TrainedIsRecorded
    OBVIOUS
  <2>1. ToSet(index) = Indexed
    BY IndexedInIndex
  <2> QED
    BY <2>1 DEF RecordsInv, CountedIndexed, TrainedIsRecorded, Live
<1> QED
  BY <1>1, RecordsInvariance, PTL

(* The store implements the ledger: every step publishes the run whose     *)
(* rename of `latest` it is, tells the verdict of a published run, or      *)
(* changes nothing that the ledger sees.                                   *)
THEOREM RecordsImplementLedger == RecordsSpec => ImplementsLedger
<1> USE DEF LedgerView!ledgerVars
<1>1. RecordsInit => LedgerView!LedgerInit
  BY DEF RecordsInit, LedgerView!LedgerInit, Published, Told, NoCode
<1>2. RecordsInv /\ [RecordsNext]_recordVars => [LedgerView!LedgerNext]_LedgerView!ledgerVars
  <2> SUFFICES ASSUME RecordsInv, [RecordsNext]_recordVars
               PROVE  LedgerView!LedgerNext \/ UNCHANGED <<Published, latest, Told>>
    BY DEF LedgerView!LedgerNext, LedgerView!Publish, LedgerView!Tell
  <2> USE DEF Published, Told, Doing, Live, Over, Go, disk, RecordsInv, RecordsTypeOK, Stage, NoCode
  <2>1. ASSUME NEW r \in Run, PointLatest(r) PROVE LedgerView!LedgerNext
    <3>1. r \notin Published /\ Published' = Published \cup {r} /\ latest' = r /\ Told' = Told
      BY <2>1 DEF PointLatest
    <3> QED
      BY <3>1 DEF LedgerView!LedgerNext, LedgerView!Publish
  <2>2. ASSUME NEW r \in Run, Exit(r) PROVE LedgerView!LedgerNext \/ UNCHANGED <<Published, latest, Told>>
    <3>1. r \in Published \ Told /\ UNCHANGED <<Published, latest>>
      BY <2>2 DEF Exit
    <3>2. Told' = Told \cup {r} \/ Told' = Told
      BY <2>2 DEF Exit
    <3> QED
      BY <3>1, <3>2 DEF LedgerView!LedgerNext, LedgerView!Tell
  <2>3. ASSUME NEW r \in Run, Begin(r) \/ Execute(r) \/ WriteResult(r) \/ WriteCompact(r) \/ AppendIndex(r)
        PROVE  UNCHANGED <<Published, latest, Told>>
    BY <2>3 DEF Begin, Execute, WriteResult, WriteCompact, AppendIndex
  <2>4. ASSUME NEW r \in Run, GiveUp(r) \/ Crash(r)
        PROVE  UNCHANGED <<Published, latest, Told>>
    BY <2>4 DEF GiveUp, Crash
  <2>5. ASSUME NEW r \in Run, Load(r) \/ Empty(r) \/ Save(r) \/ SaveFails(r)
        PROVE  UNCHANGED <<Published, latest, Told>>
    BY <2>5 DEF Load, Empty, Save, SaveFails
  <2>6. Resolve \/ UNCHANGED recordVars => UNCHANGED <<Published, latest, Told>>
    BY DEF Resolve, recordVars
  <2> QED
    BY <2>1, <2>2, <2>3, <2>4, <2>5, <2>6 DEF RecordsNext, RunStep
<1> QED
  BY <1>1, <1>2, RecordsInvariance, PTL DEF RecordsSpec, ImplementsLedger, LedgerView!LedgerSpec

----------------------------------------------------------------------------
(* The statistics file.                                                    *)

(* One update at a time; the process that has loaded the statistics holds  *)
(* all that was saved until it has saved it again.                         *)
UpdateInv ==
    ~spoilt =>
        /\ \A r, s \in Updating : r = s
        /\ \A r \in Run : at[r] = "saving" => r \in Live /\ blank
        /\ \A r \in Updating : SavedRuns \subseteq memory[r]
        /\ (\A r \in Live : at[r] # "saving") => SavedRuns \subseteq stats

(* Every step preserves the invariant.                                     *)
LEMMA UpdateStep == RecordsInv /\ UpdateInv /\ [RecordsNext]_recordVars => UpdateInv'
<1> SUFFICES ASSUME RecordsInv, UpdateInv, [RecordsNext]_recordVars, ~spoilt' PROVE UpdateInv'
  BY DEF UpdateInv
<1>0. ~spoilt
  BY DEF RecordsNext, RunStep, Begin, Execute, WriteResult, WriteCompact, PointLatest, AppendIndex,
         GiveUp, Load, Empty, Save, SaveFails, Exit, Crash, Resolve, recordVars
<1> USE <1>0 DEF UpdateInv, Updating, SavedRuns, Live, Over, Doing, Go, disk, RecordsInv,
                 RecordsTypeOK, Stage, NoCode
<1>1. ASSUME NEW r \in Run, Begin(r) PROVE UpdateInv'
  BY <1>1 DEF Begin
<1>2. ASSUME NEW r \in Run, Execute(r) \/ WriteResult(r) \/ WriteCompact(r) PROVE UpdateInv'
  BY <1>2 DEF Execute, WriteResult, WriteCompact
<1>3. ASSUME NEW r \in Run, PointLatest(r) \/ AppendIndex(r) PROVE UpdateInv'
  BY <1>3 DEF PointLatest, AppendIndex
<1>11. ASSUME NEW r \in Run, GiveUp(r) PROVE UpdateInv'
  <2>1. /\ at[r] \notin {"emptying", "saving", "saved"}
        /\ \A s \in Run : s \in Live' => s \in Live
        /\ \A s \in Run \ {r} : s \in Live => s \in Live'
        /\ UNCHANGED <<at, stats, blank, memory, spoilt>>
    BY <1>11 DEF GiveUp
  <2> QED
    BY <2>1
<1>4. ASSUME NEW r \in Run, Load(r) PROVE UpdateInv'
  <2>1. CASE r \in evidence
    <3>1. Updating = {}
      BY <1>4, <2>1 DEF Load
    <3>2. at' = [at EXCEPT ![r] = "emptying"] /\ memory' = [memory EXCEPT ![r] = stats]
      BY <1>4, <2>1 DEF Load
    <3>3. SavedRuns \subseteq stats
      BY <3>1
    <3>4. Updating' = {r} /\ SavedRuns' = SavedRuns /\ UNCHANGED <<stats, blank, code, crashed>>
      BY <1>4, <3>1, <3>2 DEF Load
    <3> QED
      BY <3>1, <3>2, <3>3, <3>4
  <2>2. CASE r \notin evidence
    <3>1. at' = [at EXCEPT ![r] = "unchanged"] /\ memory' = [memory EXCEPT ![r] = stats]
      BY <1>4, <2>2 DEF Load
    <3>2. Updating' = Updating /\ r \notin Updating /\ SavedRuns' = SavedRuns
          /\ UNCHANGED <<stats, blank, code, crashed>>
      BY <1>4, <3>1 DEF Load
    <3> QED
      BY <3>1, <3>2
  <2> QED
    BY <2>1, <2>2
<1>5. ASSUME NEW r \in Run, Empty(r) PROVE UpdateInv'
  BY <1>5 DEF Empty
<1>6. ASSUME NEW r \in Run, Save(r) PROVE UpdateInv'
  BY <1>6 DEF Save
<1>7. ASSUME NEW r \in Run, Exit(r) PROVE UpdateInv'
  BY <1>7, ExitCodes DEF Exit
<1>8. ASSUME NEW r \in Run, Crash(r) PROVE UpdateInv'
  BY <1>8 DEF Crash
<1>9. ~(\E r \in Run : SaveFails(r))
  BY DEF SaveFails
<1>10. CASE Resolve \/ UNCHANGED recordVars
  BY <1>10 DEF Resolve, recordVars
<1> QED
  BY <1>1, <1>2, <1>3, <1>11, <1>4, <1>5, <1>6, <1>7, <1>8, <1>9, <1>10 DEF RecordsNext, RunStep

(* Updates that neither overlap nor are broken off forget no evidence.     *)
THEOREM UpdatesForgetNothing == RecordsSpec => []LearnsUnlessSpoilt
<1>1. RecordsInit => UpdateInv
  BY DEF RecordsInit, UpdateInv, Updating, SavedRuns, Live, Over
<1>2. RecordsInv /\ UpdateInv => LearnsUnlessSpoilt
  <2> SUFFICES ASSUME RecordsInv, UpdateInv, ~spoilt, NEW r \in SavedRuns, r \notin stats
               PROVE  \E s \in Live : at[s] = "saving" /\ r \in memory[s]
    BY DEF LearnsUnlessSpoilt
  <2>1. PICK s \in Live : at[s] = "saving"
    BY DEF UpdateInv
  <2> QED
    BY <2>1 DEF UpdateInv, Updating
<1> QED
  BY <1>1, <1>2, UpdateStep, RecordsInvariance, PTL DEF RecordsSpec
=============================================================================
