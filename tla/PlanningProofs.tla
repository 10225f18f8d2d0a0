--------------------------- MODULE PlanningProofs ---------------------------
(***************************************************************************)
(* The fixpoint of markDependencyBlocks does not depend on the order in    *)
(* which Go ranges over the map: exactly the runnable jobs are scheduled.  *)
(***************************************************************************)
EXTENDS Planning, TLAPS

Marking == phase \in {"mark", "queue"}

(* Only eligible jobs are pending; the others stay blocked or remote.      *)
OnlyEligible ==
    /\ Marking => Scheduled \subseteq Eligible
    /\ triggered => \A j \in Job \ Eligible : status[j] \in {"blocked", "remote_only"}

(* No runnable job is ever blocked.                                        *)
RunnableKept == Marking => Runnable \subseteq Scheduled

(* What a pass that has blocked nothing yet has looked at is not gated.    *)
VisitedOpen ==
    phase = "mark" /\ ~changed =>
        \A j \in Scheduled \ unvisited : Range(Needs[j]) \subseteq Scheduled

QueueClosed ==
    phase = "queue" => \A j \in Scheduled : Range(Needs[j]) \subseteq Scheduled

PlanInv ==
    /\ PlanTypeOK
    /\ OnlyEligible
    /\ RunnableKept
    /\ VisitedOpen
    /\ QueueClosed
    /\ UnsupportedIsNeverPass

(* What a runnable job needs is runnable.                                  *)
LEMMA RunnableClosed ==
    ASSUME NEW j \in Runnable
    PROVE  j \in Eligible /\ Range(Needs[j]) \subseteq Runnable
<1>1. PICK S \in SUBSET Eligible : j \in S /\ \A i \in S : Range(Needs[i]) \subseteq S
  BY DEF Runnable
<1>2. S \subseteq Runnable
  BY <1>1 DEF Runnable
<1> QED
  BY <1>1, <1>2

(* A set of eligible jobs that needs nothing outside itself is runnable.   *)
LEMMA ClosedIsRunnable ==
    ASSUME NEW S \in SUBSET Eligible, \A j \in S : Range(Needs[j]) \subseteq S
    PROVE  S \subseteq Runnable
BY DEF Runnable

(* The fidelities that the classification gives are fidelities.            *)
LEMMA ClassTypes ==
    ASSUME NEW k \in Kind
    PROVE  /\ ClassFidelity(k) \in Fidelity
           /\ ClassStatus(k) \in {"remote_only", "blocked", "pending"}
BY DEF ClassFidelity, ClassStatus, Fidelity

(* The entries of Needs are jobs.                                          *)
LEMMA NeedsAreJobs ==
    ASSUME NEW j \in Job
    PROVE  /\ \A i \in DOMAIN Needs[j] : Needs[j][i] \in Job
           /\ Range(Needs[j]) = {Needs[j][i] : i \in DOMAIN Needs[j]}
<1>1. Needs[j] \in Seq(Job)
  BY PlanningAssumption
<1> QED
  BY <1>1 DEF Range

(* A judgement is a Boolean and a fidelity.                                *)
LEMMA JudgementTypes ==
    \A judgement \in Judgements : judgement.triggered \in BOOLEAN /\ judgement.fidelity \in Fidelity
<1>1. \A inferred \in Events : inferred.fidelity \in Fidelity
  <2> SUFFICES ASSUME NEW branch, NEW explicit, NEW pulls,
                      NEW inferred \in Infer(branch, explicit, pulls)
               PROVE  inferred.fidelity \in Fidelity
    BY DEF Events
  <2>1. CASE \E name : inferred = Synthesize(branch, name)
    BY <2>1 DEF Synthesize, Fidelity
  <2>2. CASE \E base : inferred = [name |-> "pull_request", fidelity |-> "exact", head |-> branch, base |-> base]
    BY <2>2 DEF Fidelity
  <2> QED
    BY <2>1, <2>2 DEF Infer
<1>2. \A declared, inferred, files : MatchesEvent(declared, inferred, files) \in BOOLEAN
  BY DEF MatchesEvent
<1> QED
  BY <1>1, <1>2 DEF Judgements

(* Before the marking every eligible job is pending.                       *)
LEMMA PlanInitInv == PlanInit => PlanInv
<1> SUFFICES ASSUME PlanInit PROVE PlanInv
  OBVIOUS
<1>1. \A j \in Job : kind[j] \in Kind
  BY PlanningAssumption DEF PlanInit
<1>2. kind \in [Job -> Kind]
  BY PlanningAssumption DEF PlanInit
<1>3. PlanTypeOK
  <2>1. status \in [Job -> {"pending", "blocked", "remote_only", "skip", "pass", "fail", "cancelled"}]
    BY <1>1, ClassTypes DEF PlanInit
  <2>2. fidelity \in [Job -> Fidelity]
    BY <1>1, ClassTypes DEF PlanInit
  <2>3. triggered \in BOOLEAN /\ event \in Fidelity
    BY JudgementTypes DEF PlanInit
  <2> QED
    BY <1>2, <2>1, <2>2, <2>3 DEF PlanInit, PlanTypeOK, Fidelity
<1>4. Scheduled = Eligible
  BY DEF PlanInit, Scheduled, Eligible
<1>5. OnlyEligible
  <2>1. triggered => \A j \in Job \ Eligible : status[j] \in {"blocked", "remote_only"}
    BY <1>1, ClassTypes DEF PlanInit, Eligible
  <2> QED
    BY <1>4, <2>1 DEF OnlyEligible
<1>6. RunnableKept
  BY <1>4, RunnableClosed DEF RunnableKept
<1>7. VisitedOpen /\ QueueClosed /\ UnsupportedIsNeverPass
  BY DEF PlanInit, VisitedOpen, QueueClosed, UnsupportedIsNeverPass, Scheduled
<1> QED
  BY <1>3, <1>5, <1>6, <1>7 DEF PlanInv

(* A visit blocks a job only if something it needs is not pending, which   *)
(* no runnable job does.                                                   *)
LEMMA VisitKeeps ==
    ASSUME PlanInv, NEW j \in Job, Visit(j)
    PROVE  PlanInv'
<1> DEFINE gates == {i \in DOMAIN Needs[j] : status[Needs[j][i]] # "pending"}
<1>1. /\ phase = "mark" /\ phase' = "mark"
      /\ unvisited' = unvisited \ {j}
      /\ UNCHANGED <<triggered, event, kind, runStatus, runFidelity>>
  BY DEF Visit
<1>2. Eligible' = Eligible /\ Runnable' = Runnable
  BY <1>1 DEF Eligible, Runnable
<1>3. CASE status[j] = "pending" /\ gates # {}
  <2>1. PICK first \in gates :
            /\ status' = [status EXCEPT ![j] = "blocked"]
            /\ fidelity' = [fidelity EXCEPT ![j] = fidelity[Needs[j][first]]]
            /\ reason' = [reason EXCEPT ![j] = Needs[j][first]]
            /\ changed' = TRUE
    BY <1>3 DEF Visit
  <2>2. Needs[j][first] \in Job /\ Needs[j][first] \in Range(Needs[j]) \ Scheduled
    BY NeedsAreJobs DEF Scheduled
  <2>3. PlanTypeOK'
    BY <1>1, <2>1, <2>2 DEF PlanInv, PlanTypeOK
  <2>4. Scheduled' = Scheduled \ {j}
    BY <2>1 DEF Scheduled, PlanInv, PlanTypeOK
  <2>5. j \notin Runnable
    BY <1>1, <2>2, RunnableClosed DEF PlanInv, RunnableKept, Marking
  <2>6. OnlyEligible'
    BY <1>1, <1>2, <2>1, <2>4 DEF PlanInv, PlanTypeOK, OnlyEligible, Marking
  <2>7. RunnableKept'
    BY <1>1, <1>2, <2>4, <2>5 DEF PlanInv, RunnableKept, Marking
  <2>8. VisitedOpen' /\ QueueClosed' /\ UnsupportedIsNeverPass'
    BY <1>1, <2>1 DEF VisitedOpen, QueueClosed, UnsupportedIsNeverPass
  <2> QED
    BY <2>3, <2>6, <2>7, <2>8 DEF PlanInv
<1>4. CASE ~(status[j] = "pending" /\ gates # {})
  <2>1. UNCHANGED <<status, fidelity, reason, changed>>
    BY <1>4 DEF Visit
  <2>2. Scheduled' = Scheduled
    BY <2>1 DEF Scheduled
  <2>3. PlanTypeOK'
    BY <1>1, <2>1 DEF PlanInv, PlanTypeOK
  <2>4. OnlyEligible' /\ RunnableKept'
    BY <1>1, <1>2, <2>1, <2>2 DEF PlanInv, OnlyEligible, RunnableKept, Marking
  <2>5. j \in Scheduled => Range(Needs[j]) \subseteq Scheduled
    BY <1>4, NeedsAreJobs DEF Scheduled
  <2>6. VisitedOpen'
    BY <1>1, <2>1, <2>2, <2>5 DEF PlanInv, VisitedOpen
  <2>7. QueueClosed' /\ UnsupportedIsNeverPass'
    BY <1>1 DEF QueueClosed, UnsupportedIsNeverPass
  <2> QED
    BY <2>3, <2>4, <2>6, <2>7 DEF PlanInv
<1> QED
  BY <1>3, <1>4

(* A pass that blocked nothing looked at every job.                        *)
LEMMA EndPassKeeps == PlanInv /\ EndPass => PlanInv'
<1> SUFFICES ASSUME PlanInv, EndPass PROVE PlanInv'
  OBVIOUS
<1>1. /\ phase = "mark" /\ unvisited = {} /\ changed' = FALSE
      /\ UNCHANGED <<triggered, event, kind, status, fidelity, reason, runStatus, runFidelity>>
      /\ \/ changed /\ unvisited' = Job /\ phase' = "mark"
         \/ ~changed /\ unvisited' = {} /\ phase' = "queue"
  BY DEF EndPass, PlanInv, PlanTypeOK
<1>2. Eligible' = Eligible /\ Runnable' = Runnable /\ Scheduled' = Scheduled
  BY <1>1 DEF Eligible, Runnable, Scheduled
<1>3. PlanTypeOK'
  BY <1>1 DEF PlanInv, PlanTypeOK
<1>4. OnlyEligible' /\ RunnableKept'
  BY <1>1, <1>2 DEF PlanInv, OnlyEligible, RunnableKept, Marking
<1>5. VisitedOpen'
  BY <1>1 DEF VisitedOpen, Scheduled
<1>6. QueueClosed'
  BY <1>1, <1>2 DEF PlanInv, VisitedOpen, QueueClosed
<1>7. UnsupportedIsNeverPass'
  BY <1>1 DEF UnsupportedIsNeverPass
<1> QED
  BY <1>3, <1>4, <1>5, <1>6, <1>7 DEF PlanInv

(* Running the scheduled jobs touches no other job.                        *)
LEMMA RunJobsKeeps == PlanInv /\ RunJobs => PlanInv'
<1> SUFFICES ASSUME PlanInv, RunJobs PROVE PlanInv'
  OBVIOUS
<1>1. /\ phase = "queue" /\ phase' = "run"
      /\ UNCHANGED <<unvisited, changed, triggered, event, kind, fidelity, reason, runStatus, runFidelity>>
  BY DEF RunJobs
<1>2. PICK outcome \in [Scheduled -> {"pass", "fail", "skip", "cancelled"}] :
          status' = [j \in Job |-> IF j \in Scheduled THEN outcome[j] ELSE status[j]]
  BY DEF RunJobs
<1>3. Eligible' = Eligible
  BY <1>1 DEF Eligible
<1>4. PlanTypeOK'
  BY <1>1, <1>2 DEF PlanInv, PlanTypeOK
<1>5. OnlyEligible'
  BY <1>1, <1>2, <1>3 DEF PlanInv, OnlyEligible, Marking, Scheduled
<1> QED
  BY <1>1, <1>4, <1>5 DEF PlanInv, RunnableKept, VisitedOpen, QueueClosed, UnsupportedIsNeverPass, Marking

(* A job that was classified out is still blocked or remote at the end.    *)
LEMMA SettleKeeps == PlanInv /\ Settle => PlanInv'
<1> SUFFICES ASSUME PlanInv, Settle PROVE PlanInv'
  OBVIOUS
<1>1. /\ phase = "run" /\ phase' = "settled" /\ runStatus' = ResultStatus
      /\ UNCHANGED <<unvisited, changed, triggered, event, kind, status, fidelity, reason>>
  BY DEF Settle
<1>2. Eligible' = Eligible
  BY <1>1 DEF Eligible
<1>3. PlanTypeOK'
  BY <1>1 DEF PlanInv, PlanTypeOK
<1>4. OnlyEligible'
  BY <1>1, <1>2 DEF PlanInv, OnlyEligible, Marking
<1>5. UnsupportedIsNeverPass'
  <2>1. SUFFICES ASSUME triggered, Eligible # Job
                 PROVE  ResultStatus \in {"partial", "fail"}
    BY <1>1, <1>2 DEF UnsupportedIsNeverPass
  <2>2. PICK j \in Job : j \notin Eligible
    BY <2>1 DEF Eligible
  <2>3. status[j] \in {"blocked", "remote_only"}
    BY <2>1, <2>2 DEF PlanInv, OnlyEligible
  <2> QED
    BY <2>3 DEF ResultStatus
<1> QED
  BY <1>1, <1>3, <1>4, <1>5 DEF PlanInv, RunnableKept, VisitedOpen, QueueClosed, Marking

(* Every step of the planning keeps the invariant.                         *)
LEMMA PlanNextKeeps == PlanInv /\ [PlanNext]_planVars => PlanInv'
<1> SUFFICES ASSUME PlanInv, [PlanNext]_planVars PROVE PlanInv'
  OBVIOUS
<1>1. CASE \E j \in Job : Visit(j)
  BY <1>1, VisitKeeps
<1>2. CASE EndPass
  BY <1>2, EndPassKeeps
<1>3. CASE RunJobs
  BY <1>3, RunJobsKeeps
<1>4. CASE Settle
  BY <1>4, SettleKeeps
<1>5. CASE UNCHANGED planVars
  BY <1>5 DEF PlanInv, planVars, PlanTypeOK, OnlyEligible, RunnableKept, VisitedOpen, QueueClosed,
              UnsupportedIsNeverPass, Marking, Scheduled, Eligible, Runnable
<1> QED
  BY <1>1, <1>2, <1>3, <1>4, <1>5 DEF PlanNext, Settled

(* The planning keeps its inductive invariant, whatever the order of the   *)
(* map in each pass.                                                       *)
THEOREM PlanInvariance == PlanSafety => []PlanInv
BY PlanInitInv, PlanNextKeeps, PTL DEF PlanSafety

(* Whatever the jobs, what they need and the order of the map, exactly the *)
(* runnable jobs are scheduled.                                            *)
THEOREM MarkingIsExact == PlanSafety => []ExactlyRunnableScheduled
<1>1. PlanInv => ExactlyRunnableScheduled
  <2> SUFFICES ASSUME PlanInv, phase = "queue" PROVE Scheduled = Runnable
    BY DEF ExactlyRunnableScheduled
  <2>1. Runnable \subseteq Scheduled
    BY DEF PlanInv, RunnableKept, Marking
  <2>2. Scheduled \subseteq Eligible /\ \A j \in Scheduled : Range(Needs[j]) \subseteq Scheduled
    BY DEF PlanInv, OnlyEligible, QueueClosed, Marking
  <2>3. Scheduled \subseteq Runnable
    BY <2>2, ClosedIsRunnable
  <2> QED
    BY <2>1, <2>3
<1> QED
  BY <1>1, PlanInvariance, PTL

(* A triggered workflow with a job that was classified out never makes a   *)
(* run that passes.                                                        *)
THEOREM UnsupportedIsReported == PlanSafety => []UnsupportedIsNeverPass
<1>1. PlanInv => UnsupportedIsNeverPass
  BY DEF PlanInv
<1> QED
  BY <1>1, PlanInvariance, PTL

(* What the fidelities are made of: a job that was classified out and a    *)
(* runnable job keep theirs; another eligible job is blocked before the    *)
(* queue, with the fidelity of a job that was classified out.              *)
OutsideFidelities == {ClassFidelity(kind[i]) : i \in Job \ Eligible}

OwnFidelity ==
    triggered => \A j \in (Job \ Eligible) \cup Runnable : fidelity[j] = ClassFidelity(kind[j])

GatedFidelity ==
    triggered =>
        \A j \in Eligible \ Runnable :
            \/ Marking /\ status[j] = "pending"
            \/ status[j] = "blocked" /\ fidelity[j] \in OutsideFidelities

FidelityInv == OwnFidelity /\ GatedFidelity /\ RunFidelityIsWorst

(* While the workflow and its event stay, so do these sets.                *)
LEMMA SetsStay ==
    ASSUME UNCHANGED <<triggered, kind>>
    PROVE  /\ Eligible' = Eligible /\ Runnable' = Runnable
           /\ OutsideFidelities' = OutsideFidelities
BY DEF Eligible, Runnable, OutsideFidelities

LEMMA InitFidelity == PlanInit => FidelityInv
<1> SUFFICES ASSUME PlanInit PROVE FidelityInv
  OBVIOUS
<1>1. Runnable \subseteq Job /\ Eligible \subseteq Job
  BY DEF Runnable, Eligible
<1>2. OwnFidelity
  BY <1>1 DEF PlanInit, OwnFidelity
<1>3. GatedFidelity
  BY DEF PlanInit, GatedFidelity, Marking, Eligible
<1> QED
  BY <1>2, <1>3 DEF FidelityInv, RunFidelityIsWorst, PlanInit

(* The gate that blocks a job was classified out, or is itself blocked.    *)
LEMMA VisitFidelity ==
    ASSUME PlanInv, FidelityInv, NEW j \in Job, Visit(j)
    PROVE  FidelityInv'
<1> DEFINE gates == {i \in DOMAIN Needs[j] : status[Needs[j][i]] # "pending"}
<1>1. /\ phase = "mark" /\ phase' = "mark"
      /\ UNCHANGED <<triggered, event, kind, runStatus, runFidelity>>
  BY DEF Visit
<1>2. /\ Eligible' = Eligible /\ Runnable' = Runnable
      /\ OutsideFidelities' = OutsideFidelities
  BY <1>1, SetsStay
<1>3. RunFidelityIsWorst'
  BY <1>1 DEF RunFidelityIsWorst
<1>4. CASE status[j] = "pending" /\ gates # {}
  <2>1. PICK first \in gates :
            /\ status' = [status EXCEPT ![j] = "blocked"]
            /\ fidelity' = [fidelity EXCEPT ![j] = fidelity[Needs[j][first]]]
    BY <1>4 DEF Visit
  <2>2. PICK gate \in Range(Needs[j]) \ Scheduled : gate = Needs[j][first] /\ gate \in Job
    BY NeedsAreJobs DEF Scheduled
  <2>3. j \in Eligible \ Runnable /\ gate \notin Runnable
    BY <1>1, <1>4, <2>2, RunnableClosed DEF PlanInv, OnlyEligible, RunnableKept, Marking, Scheduled
  <2>4. triggered => fidelity[gate] \in OutsideFidelities
    <3>1. CASE gate \in Eligible
      BY <2>2, <2>3, <3>1 DEF FidelityInv, GatedFidelity, Scheduled
    <3>2. CASE gate \notin Eligible
      BY <2>2, <3>2 DEF FidelityInv, OwnFidelity, OutsideFidelities
    <3> QED
      BY <3>1, <3>2
  <2>5. /\ status'[j] = "blocked" /\ fidelity'[j] = fidelity[gate]
        /\ \A i \in Job \ {j} : status'[i] = status[i] /\ fidelity'[i] = fidelity[i]
    BY <2>1, <2>2 DEF PlanInv, PlanTypeOK
  <2>6. Runnable \subseteq Job /\ Eligible \subseteq Job
    BY DEF Runnable, Eligible
  <2>7. OwnFidelity'
    BY <1>1, <1>2, <2>3, <2>5, <2>6 DEF FidelityInv, OwnFidelity
  <2>8. GatedFidelity'
    BY <1>1, <1>2, <2>4, <2>5, <2>6 DEF FidelityInv, GatedFidelity, Marking
  <2> QED
    BY <1>3, <2>7, <2>8 DEF FidelityInv
<1>5. CASE ~(status[j] = "pending" /\ gates # {})
  <2>1. UNCHANGED <<status, fidelity>>
    BY <1>5 DEF Visit
  <2> QED
    BY <1>1, <1>2, <1>3, <2>1 DEF FidelityInv, OwnFidelity, GatedFidelity, Marking
<1> QED
  BY <1>4, <1>5

(* What enters the queue is runnable, so that no gated job is pending.     *)
LEMMA RunJobsFidelity == PlanInv /\ ExactlyRunnableScheduled /\ FidelityInv /\ RunJobs => FidelityInv'
<1> SUFFICES ASSUME PlanInv, ExactlyRunnableScheduled, FidelityInv, RunJobs PROVE FidelityInv'
  OBVIOUS
<1>1. /\ phase = "queue" /\ phase' = "run"
      /\ UNCHANGED <<triggered, event, kind, fidelity, runStatus, runFidelity>>
      /\ \A j \in Job \ Scheduled : status'[j] = status[j]
  BY DEF RunJobs
<1>2. /\ Eligible' = Eligible /\ Runnable' = Runnable
      /\ OutsideFidelities' = OutsideFidelities
  BY <1>1, SetsStay
<1>3. Scheduled = Runnable
  BY <1>1 DEF ExactlyRunnableScheduled
<1>4. GatedFidelity'
  <2> SUFFICES ASSUME triggered, NEW j \in Eligible \ Runnable
               PROVE  status'[j] = "blocked" /\ fidelity'[j] \in OutsideFidelities
    BY <1>1, <1>2 DEF GatedFidelity
  <2>1. j \in Job \ Scheduled
    BY <1>3 DEF Eligible
  <2> QED
    BY <1>1, <2>1 DEF FidelityInv, GatedFidelity, Scheduled
<1>5. OwnFidelity'
  BY <1>1, <1>2 DEF FidelityInv, OwnFidelity
<1> QED
  BY <1>1, <1>4, <1>5 DEF FidelityInv, RunFidelityIsWorst

(* The fidelities of the jobs that count are the same set, whatever gates  *)
(* the marking met.                                                        *)
LEMMA SettleFidelity == PlanInv /\ FidelityInv /\ Settle => FidelityInv'
<1> SUFFICES ASSUME PlanInv, FidelityInv, Settle PROVE FidelityInv'
  OBVIOUS
<1>1. /\ phase = "run" /\ phase' = "settled" /\ runFidelity' = ResultFidelity
      /\ UNCHANGED <<triggered, event, kind, status, fidelity>>
  BY DEF Settle
<1>2. /\ Eligible' = Eligible /\ Runnable' = Runnable
      /\ OutsideFidelities' = OutsideFidelities
  BY <1>1, SetsStay
<1>3. OwnFidelity' /\ GatedFidelity'
  BY <1>1, <1>2 DEF FidelityInv, OwnFidelity, GatedFidelity, Marking
<1>4. RunFidelityIsWorst'
  <2> DEFINE counted == (Job \ Eligible) \cup {j \in Runnable : status[j] # "skip"}
             summed == {fidelity[j] : j \in {i \in Job : status[i] # "skip"}}
             worst == {ClassFidelity(kind[j]) : j \in counted}
  <2>1. SUFFICES ASSUME triggered PROVE summed = worst
    BY <1>1, <1>2 DEF RunFidelityIsWorst, ResultFidelity
  <2>2. Runnable \subseteq Eligible /\ Eligible \subseteq Job
    BY DEF Runnable, Eligible
  <2>3. \A j \in counted : status[j] # "skip" /\ fidelity[j] = ClassFidelity(kind[j])
    BY <2>1, <2>2 DEF PlanInv, OnlyEligible, FidelityInv, OwnFidelity
  <2>4. \A j \in Job \ counted : status[j] = "skip" \/ fidelity[j] \in OutsideFidelities
    BY <1>1, <2>1, <2>2 DEF FidelityInv, GatedFidelity, Marking
  <2>5. OutsideFidelities \subseteq worst
    BY DEF OutsideFidelities
  <2>6. worst \subseteq summed
    BY <2>2, <2>3
  <2>7. summed \subseteq worst
    BY <2>3, <2>4, <2>5
  <2> QED
    BY <2>6, <2>7
<1> QED
  BY <1>3, <1>4 DEF FidelityInv

LEMMA FidelityNextKeeps ==
    PlanInv /\ ExactlyRunnableScheduled /\ FidelityInv /\ [PlanNext]_planVars => FidelityInv'
<1> SUFFICES ASSUME PlanInv, ExactlyRunnableScheduled, FidelityInv, [PlanNext]_planVars
             PROVE  FidelityInv'
  OBVIOUS
<1>1. CASE \E j \in Job : Visit(j)
  BY <1>1, VisitFidelity
<1>2. CASE EndPass
  <2>1. /\ phase = "mark" /\ phase' \in {"mark", "queue"}
        /\ UNCHANGED <<triggered, event, kind, status, fidelity, runStatus, runFidelity>>
    BY <1>2 DEF EndPass
  <2>2. /\ Eligible' = Eligible /\ Runnable' = Runnable
        /\ OutsideFidelities' = OutsideFidelities
    BY <2>1, SetsStay
  <2> QED
    BY <2>1, <2>2 DEF FidelityInv, OwnFidelity, GatedFidelity, RunFidelityIsWorst, Marking
<1>3. CASE RunJobs
  BY <1>3, RunJobsFidelity
<1>4. CASE Settle
  BY <1>4, SettleFidelity
<1>5. CASE UNCHANGED planVars
  <2>1. UNCHANGED <<phase, triggered, event, kind, status, fidelity, runFidelity>>
    BY <1>5 DEF planVars
  <2>2. /\ Eligible' = Eligible /\ Runnable' = Runnable
        /\ OutsideFidelities' = OutsideFidelities
    BY <2>1, SetsStay
  <2>3. OwnFidelity' /\ GatedFidelity'
    BY <2>1, <2>2 DEF FidelityInv, OwnFidelity, GatedFidelity, Marking
  <2>4. RunFidelityIsWorst'
    BY <2>1, <2>2 DEF FidelityInv, RunFidelityIsWorst, Lowest, FidelityWeight
  <2> QED
    BY <2>3, <2>4 DEF FidelityInv
<1> QED
  BY <1>1, <1>2, <1>3, <1>4, <1>5 DEF PlanNext, Settled

(* The fidelity of a run does not depend on the order of the map, although *)
(* the fidelity of a blocked job does.                                     *)
THEOREM FidelityIsDetermined == PlanSafety => []RunFidelityIsWorst
<1>1. FidelityInv => RunFidelityIsWorst
  BY DEF FidelityInv
<1> QED
  BY <1>1, InitFidelity, FidelityNextKeeps, PlanInvariance, MarkingIsExact, PTL DEF PlanSafety

----------------------------------------------------------------------------
(* The fidelity of a run is told, not overstated.                          *)

(* A finite order has a worst element: what Lowest chooses is one of the   *)
(* fidelities, and none of them is worse.                                  *)
LEMMA LowestIsWorst ==
    ASSUME NEW S \in SUBSET Fidelity, S # {}
    PROVE  /\ Lowest(S) \in S
           /\ \A g \in S : FidelityWeight[g] <= FidelityWeight[Lowest(S)]
<1>1. \E f \in S : \A g \in S : FidelityWeight[g] <= FidelityWeight[f]
  <2>1. CASE "remote_only" \in S
    BY <2>1 DEF Fidelity, FidelityWeight
  <2>2. CASE "remote_only" \notin S /\ "approximate" \in S
    BY <2>2 DEF Fidelity, FidelityWeight
  <2>3. CASE S \subseteq {"exact", "compatible"} /\ "compatible" \in S
    BY <2>3 DEF Fidelity, FidelityWeight
  <2>4. CASE S = {"exact"}
    BY <2>4 DEF Fidelity, FidelityWeight
  <2> QED
    BY <2>1, <2>2, <2>3, <2>4 DEF Fidelity
<1> QED
  BY <1>1 DEF Lowest

(* The fidelity of a run of a triggered workflow is that of its event or   *)
(* of a job that was not skipped, and none of these is worse: a run that   *)
(* is told as exact has nothing approximate behind it.                     *)
NothingIsOverstated ==
    phase = "settled" /\ triggered =>
        /\ FidelityWeight[event] <= FidelityWeight[runFidelity]
        /\ \A j \in Job : status[j] # "skip" => FidelityWeight[fidelity[j]] <= FidelityWeight[runFidelity]
        /\ runFidelity = event \/ \E j \in Job : status[j] # "skip" /\ fidelity[j] = runFidelity

LEMMA SettleTells == PlanInv /\ Settle => NothingIsOverstated'
<1> SUFFICES ASSUME PlanInv, Settle, triggered PROVE NothingIsOverstated'
  BY DEF Settle, NothingIsOverstated
<1> DEFINE told == {event} \cup {fidelity[j] : j \in {i \in Job : status[i] # "skip"}}
<1>1. /\ UNCHANGED <<triggered, event, status, fidelity>>
      /\ runFidelity' = Lowest(told)
  BY DEF Settle, ResultFidelity
<1>2. told \in SUBSET Fidelity /\ told # {}
  BY DEF PlanInv, PlanTypeOK
<1>3. /\ runFidelity' \in told
      /\ \A g \in told : FidelityWeight[g] <= FidelityWeight[runFidelity']
  <2> HIDE DEF told
  <2> QED
    BY <1>1, <1>2, LowestIsWorst
<1>4. FidelityWeight' = FidelityWeight
  BY DEF FidelityWeight
<1> QED
  BY <1>1, <1>3, <1>4 DEF NothingIsOverstated

(* Whatever the jobs, their declarations and the order of the map, the     *)
(* fidelity that a run reports is attained and is the worst one.           *)
THEOREM FidelityIsTold == PlanSafety => []NothingIsOverstated
<1>1. PlanInit => NothingIsOverstated
  BY DEF PlanInit, NothingIsOverstated
<1>2. PlanInv /\ NothingIsOverstated /\ [PlanNext]_planVars => NothingIsOverstated'
  <2> SUFFICES ASSUME PlanInv, NothingIsOverstated, [PlanNext]_planVars PROVE NothingIsOverstated'
    OBVIOUS
  <2>1. CASE \E j \in Job : Visit(j)
    BY <2>1 DEF Visit, NothingIsOverstated
  <2>2. CASE EndPass
    BY <2>2 DEF EndPass, NothingIsOverstated
  <2>3. CASE RunJobs
    BY <2>3 DEF RunJobs, NothingIsOverstated
  <2>4. CASE Settle
    BY <2>4, SettleTells
  <2>5. CASE UNCHANGED planVars
    <3>1. UNCHANGED <<phase, triggered, event, status, fidelity, runFidelity>>
      BY <2>5 DEF planVars
    <3> QED
      BY <3>1 DEF NothingIsOverstated, FidelityWeight
  <2> QED
    BY <2>1, <2>2, <2>3, <2>4, <2>5 DEF PlanNext, Settled
<1> QED
  BY <1>1, <1>2, PlanInvariance, PTL DEF PlanSafety

----------------------------------------------------------------------------
(* `for changed` ends, whatever the order of the map.                      *)

(* Each step of the marking leaves it, blocks a job that was scheduled,    *)
(* starts the pass that follows a pass that blocked one, or looks at a     *)
(* job that the pass has not looked at yet.  As a job is never scheduled   *)
(* again, there are at most as many passes as jobs, and one more.          *)
MarkingAdvances ==
    phase = "mark" =>
        \/ phase' = "queue"
        \/ Scheduled' \subseteq Scheduled /\ Scheduled' # Scheduled
        \/ Scheduled' = Scheduled /\ changed /\ ~changed'
        \/ /\ Scheduled' = Scheduled /\ changed' = changed
           /\ unvisited' \subseteq unvisited /\ unvisited' # unvisited

(* A visit blocks the job, or takes it off the pass.                       *)
LEMMA VisitAdvances ==
    ASSUME PlanTypeOK, NEW j \in Job, Visit(j)
    PROVE  MarkingAdvances
<1> DEFINE gates == {i \in DOMAIN Needs[j] : status[Needs[j][i]] # "pending"}
<1>1. CASE status[j] = "pending" /\ gates # {}
  <2>1. status' = [status EXCEPT ![j] = "blocked"]
    BY <1>1 DEF Visit
  <2>2. Scheduled' = Scheduled \ {j} /\ j \in Scheduled
    BY <1>1, <2>1 DEF Scheduled, PlanTypeOK
  <2> QED
    BY <2>2 DEF MarkingAdvances
<1>2. CASE ~(status[j] = "pending" /\ gates # {})
  <2>1. UNCHANGED <<status, changed>> /\ unvisited' = unvisited \ {j} /\ j \in unvisited
    BY <1>2 DEF Visit
  <2>2. Scheduled' = Scheduled
    BY <2>1 DEF Scheduled
  <2> QED
    BY <2>1, <2>2 DEF MarkingAdvances
<1> QED
  BY <1>1, <1>2

(* Whatever the jobs, what they need (cycles included) and the order of    *)
(* the map in each pass, markDependencyBlocks makes progress at each step. *)
THEOREM MarkingEnds == PlanSafety => [][MarkingAdvances]_planVars
<1>1. PlanInv /\ [PlanNext]_planVars => [MarkingAdvances]_planVars
  <2> SUFFICES ASSUME PlanInv, PlanNext PROVE MarkingAdvances \/ UNCHANGED planVars
    OBVIOUS
  <2>1. CASE \E j \in Job : Visit(j)
    BY <2>1, VisitAdvances DEF PlanInv
  <2>2. CASE EndPass
    <3>1. Scheduled' = Scheduled
      BY <2>2 DEF EndPass, Scheduled
    <3> QED
      BY <2>2, <3>1 DEF EndPass, MarkingAdvances
  <2>3. CASE RunJobs \/ Settle \/ Settled
    BY <2>3 DEF RunJobs, Settle, Settled, MarkingAdvances
  <2> QED
    BY <2>1, <2>2, <2>3 DEF PlanNext
<1> QED
  BY <1>1, PlanInvariance, PTL DEF PlanSafety
=============================================================================
