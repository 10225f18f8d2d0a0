--------------------------- MODULE HistoryProofs ----------------------------
(***************************************************************************)
(* The statistics of a job stay consistent, and the rank orders jobs as    *)
(* the evidence says, for any jobs, names, durations and bounds; imports   *)
(* train the statistics by the same rules, and for the jobs that ran.      *)
(***************************************************************************)
EXTENDS GitHubRun, FiniteSetTheorems, WellFoundedInduction, TLAPS

HistoryInv == HistoryTypeOK /\ RecordsAgree

(* A list of durations stays a list of known durations, within its bound,  *)
(* and grows by at most one.                                               *)
LEMMA AppendDurationBounds ==
    ASSUME NEW s \in Seq(Nat \ {0}), NEW ms \in Nat, Len(s) <= MaxDurations
    PROVE  /\ AppendDuration(s, ms) \in Seq(Nat \ {0})
           /\ Len(AppendDuration(s, ms)) <= MaxDurations
           /\ Len(AppendDuration(s, ms)) <= Len(s) + 1
<1> USE HistoryAssumption
<1>1. CASE ms = 0
  BY <1>1 DEF AppendDuration
<1>2. CASE ms # 0 /\ Len(s) < MaxDurations
  BY <1>2 DEF AppendDuration
<1>3. CASE ms # 0 /\ ~(Len(s) < MaxDurations)
  <2>1. s # <<>> /\ Len(s) = MaxDurations
    BY <1>3
  <2>2. Tail(s) \in Seq(Nat \ {0}) /\ Len(Tail(s)) = Len(s) - 1
    BY <2>1
  <2> QED
    BY <1>3, <2>1, <2>2 DEF AppendDuration
<1> QED
  BY <1>1, <1>2, <1>3

(* Counting a run keeps the statistics of its job consistent.              *)
LEMMA HistoryStep == HistoryInv /\ [HistoryNext]_record => HistoryInv'
<1> SUFFICES ASSUME HistoryInv, [HistoryNext]_record PROVE HistoryInv'
  OBVIOUS
<1>1. ASSUME NEW j \in Job, NEW failed \in BOOLEAN, NEW ms \in Durations, Learn(j, failed, ms)
      PROVE  HistoryInv'
  <2>0. ms \in Nat
    BY HistoryAssumption
  <2> DEFINE r == record[j]
  <2>1. /\ r \in JobStats
        /\ Len(r.fail) <= MaxDurations /\ Len(r.pass) <= MaxDurations
    BY DEF HistoryInv, HistoryTypeOK, RecordsAgree
  <2>2. record' = [record EXCEPT ![j] = Count(r, failed, ms)]
    BY <1>1 DEF Learn
  <2>3. r.fail \in Seq(Nat \ {0}) /\ r.pass \in Seq(Nat \ {0}) /\ r.runs \in Nat /\ r.failures \in Nat
    BY <2>1 DEF JobStats
  <2>4. CASE failed
    <3> DEFINE fail2 == AppendDuration(r.fail, ms)
    <3>1. /\ fail2 \in Seq(Nat \ {0}) /\ Len(fail2) <= MaxDurations /\ Len(fail2) <= Len(r.fail) + 1
      BY <2>0, <2>1, <2>3, AppendDurationBounds
    <3>2. Count(r, failed, ms) =
            [runs |-> r.runs + 1, failures |-> r.failures + 1, pass |-> r.pass, fail |-> fail2, last |-> "fail"]
      BY <2>4, <2>1 DEF Count, JobStats
    <3> HIDE DEF fail2
    <3>3. HistoryTypeOK'
      BY <2>1, <2>2, <2>3, <3>1, <3>2 DEF HistoryInv, HistoryTypeOK, JobStats
    <3>4. Len(fail2) \in Nat /\ Len(r.fail) \in Nat /\ Len(r.pass) \in Nat
      BY <2>3, <3>1
    <3>5. RecordsAgree'
      BY <2>1, <2>2, <2>3, <3>1, <3>2, <3>4 DEF HistoryInv, HistoryTypeOK, RecordsAgree
    <3> QED
      BY <3>3, <3>5 DEF HistoryInv
  <2>5. CASE ~failed
    <3> DEFINE pass2 == AppendDuration(r.pass, ms)
    <3>1. /\ pass2 \in Seq(Nat \ {0}) /\ Len(pass2) <= MaxDurations /\ Len(pass2) <= Len(r.pass) + 1
      BY <2>0, <2>1, <2>3, AppendDurationBounds
    <3>2. Count(r, failed, ms) =
            [runs |-> r.runs + 1, failures |-> r.failures, pass |-> pass2, fail |-> r.fail, last |-> "pass"]
      BY <2>5, <2>1 DEF Count, JobStats
    <3> HIDE DEF pass2
    <3>3. HistoryTypeOK'
      BY <2>1, <2>2, <2>3, <3>1, <3>2 DEF HistoryInv, HistoryTypeOK, JobStats
    <3>4. Len(pass2) \in Nat /\ Len(r.fail) \in Nat /\ Len(r.pass) \in Nat
      BY <2>3, <3>1
    <3>5. RecordsAgree'
      BY <2>1, <2>2, <2>3, <3>1, <3>2, <3>4 DEF HistoryInv, HistoryTypeOK, RecordsAgree
    <3> QED
      BY <3>3, <3>5 DEF HistoryInv
  <2> QED
    BY <2>4, <2>5
<1>2. CASE UNCHANGED record
  BY <1>2 DEF HistoryInv, HistoryTypeOK, RecordsAgree
<1> QED
  BY <1>1, <1>2 DEF HistoryNext

(* The statistics of every job are well formed and consistent, always.     *)
THEOREM StatisticsAgree == HistorySpec => [](HistoryTypeOK /\ RecordsAgree)
<1>1. HistoryInit => HistoryInv
  BY HistoryAssumption DEF HistoryInit, HistoryInv, HistoryTypeOK, RecordsAgree, JobStats, NoRecord
<1> QED
  BY <1>1, HistoryStep, PTL DEF HistorySpec, HistoryInv

----------------------------------------------------------------------------
(* The median.                                                             *)

(* Every nonempty set of numbers has a least one.                          *)
LEMMA LeastNumber ==
    ASSUME NEW N \in SUBSET Nat, N # {}
    PROVE  \E n \in N : \A m \in N : n <= m
<1> DEFINE R == OpToRel(<, Nat)
<1>1. PICK n \in N : \A m \in N : ~(<<m, n>> \in R)
  <2>1. IsWellFoundedOn(R, Nat)
    BY NatLessThanWellFounded
  <2> HIDE DEF R
  <2> QED
    BY <2>1, WFMin
<1>2. ASSUME NEW m \in N PROVE n <= m
  <2>1. ~(m < n)
    BY <1>1 DEF OpToRel
  <2> QED
    BY <2>1
<1> QED
  BY <1>2

(* Any of the values of a list have a greatest one.                        *)
LEMMA GreatestValue ==
    ASSUME NEW s \in Seq(Nat), NEW I \in SUBSET DOMAIN s, I # {}
    PROVE  \E i \in I : \A k \in I : s[k] <= s[i]
<1> DEFINE Above(i) == {k \in I : s[k] > s[i]}
           counts == {Cardinality(Above(i)) : i \in I}
<1>1. ASSUME NEW i \in I PROVE IsFiniteSet(Above(i)) /\ Cardinality(Above(i)) \in Nat
  <2>1. Above(i) \in SUBSET (1 .. Len(s)) /\ Len(s) \in Nat
    OBVIOUS
  <2>2. IsFiniteSet(1 .. Len(s))
    BY <2>1, FS_Interval
  <2> HIDE DEF Above
  <2> QED
    BY <2>1, <2>2, FS_Subset, FS_CardinalityType
<1>2. PICK i \in I : \A k \in I : Cardinality(Above(i)) <= Cardinality(Above(k))
  <2>1. counts \in SUBSET Nat /\ counts # {}
    BY <1>1
  <2>2. PICK n \in counts : \A m \in counts : n <= m
    <3> HIDE DEF counts
    <3> QED
      BY <2>1, LeastNumber
  <2> QED
    BY <2>2
<1>3. ASSUME NEW k \in I, s[k] > s[i] PROVE FALSE
  <2>1. Above(k) \in SUBSET Above(i) /\ k \in Above(i) /\ k \notin Above(k)
    <3>1. \A j \in I : s[j] \in Nat
      OBVIOUS
    <3> QED
      BY <1>3, <3>1
  <2>2. /\ Cardinality(Above(k)) <= Cardinality(Above(i))
        /\ Cardinality(Above(i)) = Cardinality(Above(k)) => Above(i) = Above(k)
    BY <1>1, <2>1, FS_Subset
  <2>3. Cardinality(Above(k)) \in Nat /\ Cardinality(Above(i)) \in Nat
    BY <1>1
  <2>4. Cardinality(Above(i)) <= Cardinality(Above(k))
    BY <1>2
  <2> HIDE DEF Above
  <2> QED
    BY <2>1, <2>2, <2>3, <2>4
<1> QED
  <2>1. \A k \in I : s[k] \in Nat /\ s[i] \in Nat
    OBVIOUS
  <2> QED
    BY <1>3, <2>1

(* The median of a list is one of its values, the only one with at most    *)
(* half of the list below it and more than half of it not above it.        *)
LEMMA MedianIsTheMiddle ==
    ASSUME NEW s \in Seq(Nat), s # <<>>
    PROVE  LET Below(v) == Cardinality({i \in DOMAIN s : s[i] < v})
               UpTo(v) == Cardinality({i \in DOMAIN s : s[i] <= v})
               half == Len(s) \div 2
           IN  /\ Median(s) \in Range(s)
               /\ Below(Median(s)) <= half /\ UpTo(Median(s)) > half
               /\ \A v \in Range(s) : Below(v) <= half /\ UpTo(v) > half => v = Median(s)
<1> DEFINE less(v) == {i \in DOMAIN s : s[i] < v}
           upTo(v) == {i \in DOMAIN s : s[i] <= v}
           half == Len(s) \div 2
           middle == {v \in Range(s) : Cardinality(less(v)) <= half /\ Cardinality(upTo(v)) > half}
<1>0. /\ DOMAIN s = 1 .. Len(s) /\ Len(s) \in Nat /\ Len(s) > 0
      /\ half \in Nat /\ half < Len(s) /\ \A i \in DOMAIN s : s[i] \in Nat
  OBVIOUS
<1>1. /\ \A T \in SUBSET (DOMAIN s) : IsFiniteSet(T) /\ Cardinality(T) \in Nat
      /\ Cardinality(DOMAIN s) = Len(s)
  <2>1. ASSUME NEW n \in Nat, n > 0 PROVE IsFiniteSet(1 .. n) /\ Cardinality(1 .. n) = n
    BY FS_Interval
  <2>2. IsFiniteSet(DOMAIN s) /\ Cardinality(DOMAIN s) = Len(s)
    BY <1>0, <2>1
  <2> QED
    BY <2>2, FS_Subset, FS_CardinalityType
<1>2. \A T \in SUBSET (DOMAIN s) : \A S \in SUBSET T : Cardinality(S) <= Cardinality(T)
  BY <1>1, FS_Subset
<1>3. Range(s) = {s[i] : i \in DOMAIN s} /\ Range(s) \subseteq Nat
  BY <1>0 DEF Range
<1> DEFINE high == {v \in Range(s) : Cardinality(upTo(v)) > half}
<1>4. high # {}
  <2>0. DOMAIN s # {}
    BY <1>0
  <2>1. PICK i \in DOMAIN s : \A k \in DOMAIN s : s[k] <= s[i]
    BY <2>0, GreatestValue
  <2>2. upTo(s[i]) = DOMAIN s
    BY <2>1
  <2> QED
    BY <1>0, <1>1, <1>3, <2>2
<1>5. PICK v \in high : \A w \in high : v <= w
  <2> HIDE DEF high
  <2>1. high \in SUBSET Nat
    BY <1>3 DEF high
  <2> QED
    BY <1>4, <2>1, LeastNumber
<1>6. Cardinality(less(v)) <= half
  <2> SUFFICES ASSUME Cardinality(less(v)) > half PROVE FALSE
    BY <1>0, <1>1
  <2>1. less(v) # {}
    <3> DEFINE L == less(v)
    <3> SUFFICES ASSUME L = {} PROVE FALSE
      OBVIOUS
    <3>1. Cardinality(L) > half
      OBVIOUS
    <3> HIDE DEF L, half
    <3>2. Cardinality(L) = 0
      BY FS_EmptySet
    <3> QED
      BY <1>0, <3>1, <3>2
  <2>2. PICK i \in less(v) : \A k \in less(v) : s[k] <= s[i]
    BY <2>1, GreatestValue
  <2>3. upTo(s[i]) = less(v)
    <3>1. v \in Nat /\ s[i] \in Nat /\ s[i] < v
      BY <1>0, <1>3, <2>2
    <3> QED
      BY <1>0, <2>2, <3>1
  <2>4. s[i] \in high
    BY <1>3, <2>2, <2>3
  <2>5. v <= s[i]
    <3> HIDE DEF high
    <3> QED
      BY <1>5, <2>4
  <2>6. s[i] < v /\ s[i] \in Nat /\ v \in Nat
    BY <1>0, <1>3, <2>2
  <2> QED
    BY <2>5, <2>6
<1>7. v \in middle
  BY <1>5, <1>6
<1>8. ASSUME NEW x \in middle, NEW y \in middle, x < y PROVE FALSE
  <2>1. upTo(x) \in SUBSET less(y) /\ less(y) \in SUBSET (DOMAIN s)
    BY <1>0, <1>3, <1>8
  <2>2. Cardinality(upTo(x)) <= Cardinality(less(y))
    BY <1>2, <2>1
  <2>3. /\ Cardinality(upTo(x)) \in Nat /\ Cardinality(less(y)) \in Nat
        /\ Cardinality(upTo(x)) > half /\ Cardinality(less(y)) <= half
    BY <1>1
  <2> HIDE DEF less, upTo, half
  <2> QED
    BY <1>0, <2>2, <2>3
<1>9. \A x, y \in middle : x = y
  <2>1. middle \subseteq Nat
    BY <1>3
  <2> HIDE DEF middle
  <2> QED
    BY <1>8, <2>1
<1>10. Median(s) = CHOOSE x \in middle : TRUE
  BY <1>7 DEF Median
<1>11. Median(s) \in middle
  <2> HIDE DEF middle
  <2> QED
    BY <1>7, <1>10
<1> QED
  <2>1. \A x \in middle : x = Median(s)
    <3> HIDE DEF middle
    <3> QED
      BY <1>9, <1>11
  <2> QED
    BY <1>11, <2>1

(* The time to detection of a job is that of one of its runs: of a failed   *)
(* one if the time of any is known, otherwise of one that passed, raised to *)
(* a second; a minute is assumed only where no time is known.               *)
Observed(r) ==
    DetectionMS(r) \in
        IF r.fail # <<>> THEN {AtLeast(v, 1000) : v \in Range(r.fail)}
        ELSE IF r.pass # <<>> THEN {AtLeast(v, 1000) : v \in Range(r.pass)}
        ELSE {60000}

(* The median of a list is positive unless the list is empty.              *)
LEMMA MedianIsPositive ==
    ASSUME NEW s \in Seq(Nat \ {0})
    PROVE  /\ s = <<>> => Median(s) = 0
           /\ s # <<>> => Median(s) \in Range(s) /\ Median(s) > 0
<1>1. ASSUME s = <<>> PROVE Median(s) = 0
  <2>1. Range(s) = {}
    BY <1>1 DEF Range
  <2> QED
    BY <2>1 DEF Median
<1>2. ASSUME s # <<>> PROVE Median(s) \in Range(s) /\ Median(s) > 0
  <2>1. s \in Seq(Nat) /\ Range(s) \subseteq Nat \ {0}
    BY DEF Range
  <2>2. Median(s) \in Range(s)
    BY <1>2, <2>1, MedianIsTheMiddle
  <2> QED
    BY <2>1, <2>2
<1> QED
  BY <1>1, <1>2

(* Every rank rests on a time that was observed, while one is known: the   *)
(* upper median never invents one, nor falls back with failures at hand.   *)
THEOREM DetectionIsObserved == HistorySpec => [](\A j \in Job : Observed(record[j]))
<1>1. HistoryInv => \A j \in Job : Observed(record[j])
  <2> SUFFICES ASSUME HistoryInv, NEW j \in Job PROVE Observed(record[j])
    OBVIOUS
  <2> DEFINE fail == record[j].fail
             pass == record[j].pass
  <2>1. fail \in Seq(Nat \ {0}) /\ pass \in Seq(Nat \ {0})
    BY DEF HistoryInv, HistoryTypeOK, JobStats
  <2>2. CASE fail # <<>>
    <3>1. Median(fail) \in Range(fail) /\ Median(fail) > 0
      BY <2>1, <2>2, MedianIsPositive
    <3> QED
      BY <2>2, <3>1 DEF Observed, DetectionMS
  <2>3. CASE fail = <<>> /\ pass # <<>>
    <3>1. Median(fail) = 0 /\ Median(pass) \in Range(pass) /\ Median(pass) > 0
      BY <2>1, <2>3, MedianIsPositive
    <3> QED
      BY <2>3, <3>1 DEF Observed, DetectionMS
  <2>4. CASE fail = <<>> /\ pass = <<>>
    <3>1. Median(fail) = 0 /\ Median(pass) = 0
      BY <2>1, <2>4, MedianIsPositive
    <3> QED
      BY <2>4, <3>1 DEF Observed, DetectionMS
  <2> QED
    BY <2>2, <2>3, <2>4
<1> QED
  BY <1>1, StatisticsAgree, PTL DEF HistoryInv

----------------------------------------------------------------------------
(* The rank.                                                               *)

(* The counters of a record are numbers.                                   *)
LEMMA Counters ==
    ASSUME NEW r \in JobStats
    PROVE  r.runs \in Nat /\ r.failures \in Nat
BY DEF JobStats

(* The time to detection is at least a second.                             *)
LEMMA DetectionBounds ==
    ASSUME NEW r \in JobStats
    PROVE  DetectionMS(r) \in Nat /\ DetectionMS(r) >= 1000
<1>1. ASSUME NEW s \in Seq(Nat \ {0}) PROVE Median(s) \in Nat
  <2>1. Range(s) \subseteq Nat
    BY DEF Range
  <2> QED
    BY <2>1 DEF Median
<1>2. r.fail \in Seq(Nat \ {0}) /\ r.pass \in Seq(Nat \ {0})
  BY DEF JobStats
<1>3. Median(r.fail) \in Nat /\ Median(r.pass) \in Nat
  BY <1>1, <1>2
<1> QED
  BY <1>3 DEF DetectionMS, AtLeast

(* The factors of a rank.                                                  *)
LEMMA RankFactors ==
    ASSUME NEW r \in JobStats, NEW j \in Job
    PROVE  /\ Smoothed(r, Heuristic[j]) \in Nat /\ Smoothed(r, Heuristic[j]) > 0
           /\ Boost(r) \in {1, 3}
           /\ (r.runs + 2) * DetectionMS(r) \in Nat /\ (r.runs + 2) * DetectionMS(r) > 0
<1>1. Heuristic[j] \in 0..100 /\ r.runs \in Nat /\ r.failures \in Nat
  BY HistoryAssumption DEF JobStats
<1>2. DetectionMS(r) \in Nat /\ DetectionMS(r) > 0
  BY DetectionBounds
<1>3. (r.runs + 2) * DetectionMS(r) \in Nat /\ (r.runs + 2) * DetectionMS(r) > 0
  <2>1. \A a, b \in Nat : a > 0 /\ b > 0 => a * b \in Nat /\ a * b > 0
    OBVIOUS
  <2> QED
    BY <1>1, <1>2, <2>1
<1> QED
  BY <1>1, <1>3 DEF Smoothed, Boost

(* Evidence decides before names do.                                       *)
THEOREM EvidenceDecides == HistorySpec => []EvidenceBeforeNames
<1>1. HistoryInv => EvidenceBeforeNames
  <2> SUFFICES ASSUME HistoryInv, NEW j \in Job, NEW k \in Job,
                      record[j].runs = record[k].runs,
                      DetectionMS(record[j]) = DetectionMS(record[k]),
                      Boost(record[j]) = Boost(record[k])
               PROVE  /\ record[j].failures > record[k].failures => Ahead(j, k)
                      /\ record[j].failures = record[k].failures => (Ahead(j, k) <=> Heuristic[j] > Heuristic[k])
    BY DEF EvidenceBeforeNames
  <2> DEFINE b == Boost(record[j])
             e == (record[j].runs + 2) * DetectionMS(record[j])
             x == Smoothed(record[j], Heuristic[j])
             y == Smoothed(record[k], Heuristic[k])
  <2>1. record[j] \in JobStats /\ record[k] \in JobStats
    BY DEF HistoryInv, HistoryTypeOK
  <2>2. x \in Nat /\ y \in Nat /\ b \in {1, 3} /\ e \in Nat /\ e > 0
    BY <2>1, RankFactors
  <2>3. Ahead(j, k) <=> (b * x) * e > (b * y) * e
    BY DEF Ahead, Yield, Effort
  <2>4. \A u, v, w \in Nat : w > 0 => (u * w > v * w <=> u > v)
    OBVIOUS
  <2>5. Ahead(j, k) <=> x > y
    <3> HIDE DEF b, e, x, y
    <3>1. b * x \in Nat /\ b * y \in Nat /\ (b * x > b * y <=> x > y)
      BY <2>2
    <3> QED
      BY <2>2, <2>3, <2>4, <3>1
  <2>6. /\ record[j].failures \in Nat /\ record[k].failures \in Nat
        /\ Heuristic[j] \in 0..100 /\ Heuristic[k] \in 0..100
    BY <2>1, Counters, HistoryAssumption
  <2>7. /\ record[j].failures > record[k].failures => x > y
        /\ record[j].failures = record[k].failures => (x > y <=> Heuristic[j] > Heuristic[k])
    <3> DEFINE f == record[j].failures
               g == record[k].failures
               n == Heuristic[j]
               i == Heuristic[k]
    <3>1. x = 200 * f + 40 + n /\ y = 200 * g + 40 + i
      BY DEF Smoothed
    <3>2. f \in Nat /\ g \in Nat /\ n \in 0..100 /\ i \in 0..100
      BY <2>6
    <3> HIDE DEF b, e, x, y, f, g, n, i
    <3>3. f > g => x > y
      BY <3>1, <3>2
    <3>4. f = g => (x > y <=> n > i)
      BY <3>1, <3>2
    <3> QED
      BY <3>3, <3>4 DEF f, g, n, i
  <2> QED
    BY <2>5, <2>7
<1> QED
  BY <1>1, StatisticsAgree, PTL DEF HistoryInv

(* A job that failed last is ahead of the others, whatever the names, if   *)
(* these ran as often, failed no more often and are not twice as fast, or  *)
(* five times as fast where they have never failed.                        *)
THEOREM FailedJobsLead == HistorySpec => []FailedLastLeads
<1>1. HistoryInv => FailedLastLeads
  <2> SUFFICES ASSUME HistoryInv, NEW j \in Job, NEW k \in Job,
                      record[j].last = "fail", record[k].last # "fail",
                      record[k].failures <= record[j].failures,
                      record[j].runs <= record[k].runs,
                      DetectionMS(record[j]) <= (IF record[k].failures = 0 THEN 5 ELSE 2) * DetectionMS(record[k])
               PROVE  Ahead(j, k)
    BY DEF FailedLastLeads
  <2> DEFINE dj == DetectionMS(record[j])
             dk == DetectionMS(record[k])
             rj == record[j].runs + 2
             rk == record[k].runs + 2
             sj == Smoothed(record[j], Heuristic[j])
             sk == Smoothed(record[k], Heuristic[k])
             factor == IF record[k].failures = 0 THEN 5 ELSE 2
  <2>1. record[j] \in JobStats /\ record[k] \in JobStats
    BY DEF HistoryInv, HistoryTypeOK
  <2>2. dj \in Nat /\ dj >= 1000 /\ dk \in Nat /\ dk >= 1000 /\ dj <= factor * dk
    BY <2>1, DetectionBounds
  <2>3. rj \in Nat /\ rk \in Nat /\ rj > 0 /\ rj <= rk
    BY <2>1, Counters
  <2>4. /\ record[j].failures \in Nat /\ record[j].failures > 0
        /\ record[k].failures \in Nat
        /\ Heuristic[j] \in 0..100 /\ Heuristic[k] \in 0..100
    <3>1. record[j].failures > 0
      BY DEF HistoryInv, RecordsAgree
    <3> QED
      BY <2>1, <3>1, Counters, HistoryAssumption
  <2>5. sj \in Nat /\ sk \in Nat /\ factor \in Nat /\ factor * sk < 3 * sj
    <3> DEFINE f == record[j].failures
               g == record[k].failures
               n == Heuristic[j]
               i == Heuristic[k]
    <3>1. sj = 200 * f + 40 + n /\ sk = 200 * g + 40 + i /\ factor = IF g = 0 THEN 5 ELSE 2
      BY DEF Smoothed
    <3>2. f \in Nat /\ f > 0 /\ g \in Nat /\ g <= f /\ n \in 0..100 /\ i \in 0..100
      BY <2>4
    <3> HIDE DEF f, g, n, i, sj, sk, factor
    <3>3. CASE g = 0
      BY <3>1, <3>2, <3>3
    <3>4. CASE g # 0
      BY <3>1, <3>2, <3>4
    <3> QED
      BY <3>3, <3>4
  <2>6. Boost(record[j]) = 3 /\ Boost(record[k]) = 1
    BY DEF Boost
  <2>7. Ahead(j, k) <=> (3 * sj) * (rk * dk) > (1 * sk) * (rj * dj)
    BY <2>6 DEF Ahead, Yield, Effort
  <2> HIDE DEF dj, dk, rj, rk, sj, sk, factor
  <2>8. rj * dj <= factor * (rk * dk) /\ rk * dk > 0 /\ rj * dj \in Nat /\ rk * dk \in Nat
    <3>1. rj * dj <= rk * dj /\ rk * dj <= rk * (factor * dk) /\ rk * (factor * dk) = factor * (rk * dk)
      BY <2>2, <2>3, <2>5
    <3>2. rj * dj \in Nat /\ rk * dj \in Nat /\ rk * dk \in Nat /\ rk * dk > 0
      BY <2>2, <2>3
    <3> QED
      BY <2>5, <3>1, <3>2
  <2> DEFINE ej == rj * dj
             ek == rk * dk
  <2> HIDE DEF ej, ek
  <2>9. ej \in Nat /\ ek \in Nat /\ ek > 0 /\ ej <= factor * ek
    BY <2>8 DEF ej, ek
  <2>10. sk * ej <= (factor * sk) * ek
    <3>1. sk * ej <= sk * (factor * ek)
      BY <2>5, <2>9
    <3> QED
      BY <2>5, <2>9, <3>1
  <2>11. (factor * sk) * ek < (3 * sj) * ek
    <3> DEFINE a == factor * sk
               b == 3 * sj
    <3>1. a \in Nat /\ b \in Nat /\ a < b
      BY <2>5
    <3> HIDE DEF a, b
    <3>2. a * ek < b * ek
      BY <2>9, <3>1
    <3> QED
      BY <3>2 DEF a, b
  <2>12. (3 * sj) * ek > (1 * sk) * ej
    BY <2>5, <2>9, <2>10, <2>11
  <2> QED
    BY <2>7, <2>12 DEF ej, ek
<1> QED
  BY <1>1, StatisticsAgree, PTL DEF HistoryInv

(* Multiplying by a positive number keeps an order.                        *)
LEMMA Scaling == \A u, v, w \in Nat : w > 0 => (u * w > v * w <=> u > v)
OBVIOUS

(* To be ahead is a strict weak order, as the stable sort of the queue      *)
(* needs it: no two jobs are ahead of each other, and neither being ahead   *)
(* nor not being ahead stops along a chain.                                 *)
RankOrders ==
    /\ \A j, k \in Job : Ahead(j, k) => ~Ahead(k, j)
    /\ \A i, j, k \in Job : Ahead(i, j) /\ Ahead(j, k) => Ahead(i, k)
    /\ \A i, j, k \in Job : ~Ahead(i, j) /\ ~Ahead(j, k) => ~Ahead(i, k)

(* Fractions with positive denominators compare transitively.              *)
LEMMA FractionsCompare ==
    ASSUME NEW a \in Nat, NEW b \in Nat, NEW c \in Nat,
           NEW x \in Nat, NEW y \in Nat, NEW z \in Nat, x > 0, y > 0, z > 0,
           a * y <= b * x, b * z <= c * y
    PROVE  a * z <= c * x
<1>1. (a * y) * z <= (b * x) * z /\ (b * z) * x <= (c * y) * x
  <2>1. \A u, v, w \in Nat : u <= v => u * w <= v * w
    OBVIOUS
  <2>2. a * y \in Nat /\ b * x \in Nat /\ b * z \in Nat /\ c * y \in Nat
    OBVIOUS
  <2> QED
    BY <2>1, <2>2
<1>2. (a * y) * z = (a * z) * y /\ (b * x) * z = (b * z) * x /\ (c * y) * x = (c * x) * y
  OBVIOUS
<1> DEFINE u == a * z
           v == c * x
<1>3. u \in Nat /\ v \in Nat /\ (b * z) * x \in Nat /\ u * y \in Nat /\ v * y \in Nat
  OBVIOUS
<1>4. u * y <= v * y
  BY <1>1, <1>2, <1>3
<1> HIDE DEF u, v
<1>5. u <= v
  <2>1. u > v => u * y > v * y
    BY <1>3, Scaling
  <2> QED
    BY <1>3, <1>4, <2>1
<1> QED
  BY <1>5 DEF u, v

(* The ranks put the jobs in one order, whatever their statistics: jobs of *)
(* equal rank form classes, and the stable sort leaves them as they were.  *)
THEOREM RankIsAnOrder == HistorySpec => []RankOrders
<1>1. HistoryInv => RankOrders
  <2> SUFFICES ASSUME HistoryInv PROVE RankOrders
    OBVIOUS
  <2>1. ASSUME NEW j \in Job
        PROVE  Yield(j) \in Nat /\ Effort(j) \in Nat /\ Effort(j) > 0
    <3>1. record[j] \in JobStats
      BY DEF HistoryInv, HistoryTypeOK
    <3>2. \A u, v \in Nat : u * v \in Nat
      OBVIOUS
    <3> QED
      BY <3>1, <3>2, RankFactors DEF Yield, Effort
  <2>2. ASSUME NEW j \in Job, NEW k \in Job
        PROVE  /\ Yield(j) * Effort(k) \in Nat
               /\ Ahead(j, k) <=> ~(Yield(j) * Effort(k) <= Yield(k) * Effort(j))
    <3>1. \A u, v \in Nat : u * v \in Nat
      OBVIOUS
    <3>2. Yield(j) * Effort(k) \in Nat /\ Yield(k) * Effort(j) \in Nat
      BY <2>1, <3>1
    <3> QED
      BY <3>2 DEF Ahead
  <2>3. ASSUME NEW j \in Job, NEW k \in Job, Ahead(j, k) PROVE ~Ahead(k, j)
    BY <2>2, <2>3 DEF Ahead
  <2>4. ASSUME NEW i \in Job, NEW j \in Job, NEW k \in Job, ~Ahead(i, j), ~Ahead(j, k)
        PROVE  ~Ahead(i, k)
    BY <2>1, <2>2, <2>4, FractionsCompare
  <2>5. ASSUME NEW i \in Job, NEW j \in Job, NEW k \in Job, Ahead(i, j), Ahead(j, k)
        PROVE  Ahead(i, k)
    <3> SUFFICES ASSUME ~Ahead(i, k) PROVE FALSE
      OBVIOUS
    <3>1. ~Ahead(k, j)
      BY <2>3, <2>5
    <3>2. ~Ahead(i, j)
      BY <2>4, <3>1
    <3> QED
      BY <2>5, <3>2
  <2> QED
    BY <2>3, <2>4, <2>5 DEF RankOrders
<1> QED
  BY <1>1, StatisticsAgree, PTL DEF HistoryInv

(* A failure weighs more than the run it came with.                        *)
LEMMA FailureOutweighsRun ==
    ASSUME NEW s \in Nat, NEW r \in Nat, NEW b \in {1, 3}, s < 200 * (r + 2)
    PROVE  (3 * (s + 200)) * (r + 2) > (b * s) * (r + 3)
<1> DEFINE p == s * (r + 2)
<1>1. (3 * (s + 200)) * (r + 2) = 3 * p + 600 * (r + 2)
  OBVIOUS
<1>2. s * (r + 3) = p + s /\ p \in Nat
  OBVIOUS
<1>3. (b * s) * (r + 3) = b * (s * (r + 3))
  OBVIOUS
<1> HIDE DEF p
<1> QED
  BY <1>1, <1>2, <1>3

(* While the time to detection stays, a failure raises a rank and a pass   *)
(* lowers it.                                                              *)
THEOREM EvidenceMoves == HistorySpec => EvidenceMovesRank
<1> DEFINE Moved(j) ==
             /\ record'[j].runs # record[j].runs \/ record'[j].last # record[j].last
             /\ DetectionMS(record'[j]) = DetectionMS(record[j])
             => IF record'[j].last = "fail"
                THEN Yield(j)' * Effort(j) > Yield(j) * Effort(j)'
                ELSE Yield(j)' * Effort(j) < Yield(j) * Effort(j)'
<1>1. HistoryInv /\ [HistoryNext]_record => [\A j \in Job : Moved(j)]_record
  <2> SUFFICES ASSUME HistoryInv, NEW i \in Job, NEW failed \in BOOLEAN, NEW ms \in Durations,
                      Learn(i, failed, ms), NEW j \in Job
               PROVE  Moved(j)
    BY DEF HistoryNext
  <2>1. record[j] \in JobStats /\ record \in [Job -> JobStats]
    BY DEF HistoryInv, HistoryTypeOK
  <2>2. CASE j # i
    BY <2>1, <2>2 DEF Learn
  <2>3. CASE j = i
    <3> DEFINE S == Smoothed(record[j], Heuristic[j])
               R == record[j].runs
               b == Boost(record[j])
               d == DetectionMS(record[j])
    <3>1. record'[j] = Count(record[j], failed, ms)
      BY <2>1, <2>3 DEF Learn
    <3>2. R \in Nat /\ record[j].failures \in Nat /\ record[j].failures <= R /\ Heuristic[j] \in 0..100
      BY <2>1, Counters, HistoryAssumption DEF HistoryInv, RecordsAgree
    <3>3. S = 200 * record[j].failures + 40 + Heuristic[j]
      BY DEF Smoothed
    <3>4. S \in Nat /\ S > 0 /\ S < 200 * (R + 2)
      BY <3>2, <3>3
    <3>5. d \in Nat /\ d > 0 /\ b \in {1, 3}
      BY <2>1, DetectionBounds, RankFactors
    <3>6. Yield(j) = b * S /\ Effort(j) = (R + 2) * d
      BY DEF Yield, Effort
    <3> SUFFICES ASSUME DetectionMS(record'[j]) = d
                 PROVE  IF record'[j].last = "fail"
                        THEN Yield(j)' * Effort(j) > Yield(j) * Effort(j)'
                        ELSE Yield(j)' * Effort(j) < Yield(j) * Effort(j)'
      OBVIOUS
    <3>7. CASE failed
      <4>1. record'[j].last = "fail" /\ record'[j].runs = R + 1 /\ record'[j].failures = record[j].failures + 1
        BY <2>1, <3>1, <3>7 DEF Count, JobStats
      <4>2. Smoothed(record'[j], Heuristic[j]) = S + 200
        BY <3>2, <3>3, <4>1 DEF Smoothed
      <4>3. Yield(j)' = 3 * (S + 200) /\ Effort(j)' = ((R + 1) + 2) * d
        BY <4>1, <4>2 DEF Yield, Effort, Boost
      <4> HIDE DEF S, R, b, d
      <4>4. (3 * (S + 200)) * (R + 2) > (b * S) * (R + 3)
        BY <3>2, <3>4, <3>5, FailureOutweighsRun
      <4>5. ((3 * (S + 200)) * (R + 2)) * d > ((b * S) * (R + 3)) * d
        BY <3>2, <3>4, <3>5, <4>4, Scaling
      <4>6. /\ (3 * (S + 200)) * ((R + 2) * d) = ((3 * (S + 200)) * (R + 2)) * d
            /\ (b * S) * (((R + 1) + 2) * d) = ((b * S) * (R + 3)) * d
        BY <3>2, <3>4, <3>5
      <4> QED
        BY <3>6, <4>1, <4>3, <4>5, <4>6
    <3>8. CASE ~failed
      <4>1. record'[j].last = "pass" /\ record'[j].runs = R + 1 /\ record'[j].failures = record[j].failures
        BY <2>1, <3>1, <3>8 DEF Count, JobStats
      <4>2. Smoothed(record'[j], Heuristic[j]) = S
        BY <4>1 DEF Smoothed
      <4>3. Yield(j)' = 1 * S /\ Effort(j)' = ((R + 1) + 2) * d
        BY <4>1, <4>2 DEF Yield, Effort, Boost
      <4> HIDE DEF S, R, b, d
      <4>4. (b * S) * (R + 3) > S * (R + 2)
        <5>1. S * (R + 3) = S * (R + 2) + S /\ S * (R + 2) \in Nat
          BY <3>2, <3>4
        <5>2. (b * S) * (R + 3) = b * (S * (R + 3))
          BY <3>2, <3>4, <3>5
        <5> QED
          BY <3>4, <3>5, <5>1, <5>2
      <4>5. ((b * S) * (R + 3)) * d > (S * (R + 2)) * d
        BY <3>2, <3>4, <3>5, <4>4, Scaling
      <4>6. /\ (1 * S) * ((R + 2) * d) = (S * (R + 2)) * d
            /\ (b * S) * (((R + 1) + 2) * d) = ((b * S) * (R + 3)) * d
        BY <3>2, <3>4, <3>5
      <4>7. record'[j].last # "fail"
        BY <4>1
      <4>8. (1 * S) * ((R + 2) * d) < (b * S) * (((R + 1) + 2) * d)
        <5>1. ((b * S) * (R + 3)) * d \in Nat /\ (S * (R + 2)) * d \in Nat
          BY <3>2, <3>4, <3>5
        <5> QED
          BY <4>5, <4>6, <5>1
      <4> QED
        BY <3>6, <4>3, <4>7, <4>8
    <3> QED
      BY <3>7, <3>8
  <2> QED
    BY <2>2, <2>3
<1> QED
  BY <1>1, StatisticsAgree, PTL DEF HistorySpec, HistoryInv, EvidenceMovesRank
----------------------------------------------------------------------------
(* Imported runs.                                                          *)

(* An import goes on with one index from its beginning to its end.         *)
Indexed == index = NoIndex \/ index \in Indexes

GitHubInv ==
    /\ record \in [Job -> JobStats]
    /\ ran \in [Job -> Nat]
    /\ Indexed
    /\ EvidenceIsCounted

(* An index leads to jobs, and to the job that has the name.               *)
LEMMA IndexLeads ==
    ASSUME NEW f \in Indexes, NEW name \in DOMAIN f
    PROVE  f[name] \in Job /\ name \in Variants[f[name]]
BY DEF Indexes

(* Every name that is made of a job is in the index.                       *)
LEMMA IndexKnows ==
    ASSUME NEW f \in Indexes, NEW j \in Job, NEW name \in Variants[j]
    PROVE  name \in DOMAIN f
<1>1. DOMAIN f = UNION Range(Variants)
  BY DEF Indexes
<1>2. Variants[j] \in Range(Variants)
  BY GitHubAssumption DEF Range
<1> QED
  BY <1>1, <1>2

(* A recognisable job is found under its names, and under no other.        *)
LEMMA IndexRecognises ==
    ASSUME NEW f \in Indexes, NEW j \in Job, Recognisable(j)
    PROVE  /\ \A name \in Shown[j] : name \in DOMAIN f /\ f[name] = j
           /\ \A k \in Job \ {j} : \A name \in Shown[k] : name \in DOMAIN f => f[name] # j
<1>1. ASSUME NEW name \in Shown[j]
      PROVE  name \in DOMAIN f /\ f[name] = j
  <2>1. name \in Variants[j]
    BY DEF Recognisable
  <2>2. name \in DOMAIN f
    BY <2>1, IndexKnows
  <2> QED
    BY <2>2, IndexLeads DEF Recognisable
<1>2. ASSUME NEW k \in Job \ {j}, NEW name \in Shown[k], name \in DOMAIN f
      PROVE  f[name] # j
  BY <1>2, IndexLeads DEF Recognisable
<1> QED
  BY <1>1, <1>2

(* A report has a status of evidence when the job ran to an outcome.       *)
LEMMA EvidenceStatus ==
    ASSUME NEW report \in Reports
    PROVE  Status(report) \in {"pass", "fail"} <=> Concluded(report)
<1>1. report \in Report
  BY GitHubAssumption
<1> QED
  BY <1>1 DEF Report, Status, Concluded

(* Counting a run makes one run more of it.                                *)
LEMMA CountsOne ==
    ASSUME record \in [Job -> JobStats], NEW j \in Job, NEW failed \in BOOLEAN, NEW ms,
           Learn(j, failed, ms)
    PROVE  \A k \in Job : record'[k].runs = record[k].runs + IF k = j THEN 1 ELSE 0
<1>1. record' = [record EXCEPT ![j] = Count(record[j], failed, ms)]
  BY DEF Learn
<1>2. Count(record[j], failed, ms).runs = record[j].runs + 1
  BY DEF Count, JobStats
<1>3. \A k \in Job : record[k].runs \in Nat
  BY DEF JobStats
<1> QED
  BY <1>1, <1>2, <1>3

(* A step of an import or of a local run counts one job or none.           *)
LEMMA GitHubStep == Indexed /\ [GitHubNext]_gitHubVars => [HistoryNext]_record
<1> SUFFICES ASSUME Indexed, [GitHubNext]_gitHubVars PROVE HistoryNext \/ UNCHANGED record
  OBVIOUS
<1>1. CASE \E j \in Job, failed \in BOOLEAN, ms \in Durations : CountLocal(j, failed, ms)
  BY <1>1 DEF CountLocal, HistoryNext
<1>2. ASSUME NEW j \in Job, NEW report \in Reports, NEW ms \in Durations, NEW name,
             CountRemote(j, name, report, ms)
      PROVE  HistoryNext \/ UNCHANGED record
  <2>1. CASE Status(report) \in {"pass", "fail"} /\ name \in DOMAIN index
    <3>1. Learn(index[name], Status(report) = "fail", ms)
      BY <1>2, <2>1 DEF CountRemote
    <3>2. index[name] \in Job
      BY <1>2, <2>1, IndexLeads DEF Indexed, CountRemote
    <3> QED
      BY <3>1, <3>2 DEF HistoryNext
  <2>2. CASE ~(Status(report) \in {"pass", "fail"} /\ name \in DOMAIN index)
    BY <1>2, <2>2 DEF CountRemote
  <2> QED
    BY <2>1, <2>2
<1>3. CASE BeginImport \/ EndImport \/ UNCHANGED gitHubVars
  BY <1>3 DEF BeginImport, EndImport, gitHubVars
<1> QED
  BY <1>1, <1>2, <1>3 DEF GitHubNext

(* A leg of a remote job keeps the counts.                                 *)
LEMMA RemoteKeeps ==
    ASSUME GitHubInv, NEW j \in Job, NEW report \in Reports, NEW ms \in Durations,
           NEW name \in Shown[j], CountRemote(j, name, report, ms),
           record' \in [Job -> JobStats]
    PROVE  ran' \in [Job -> Nat] /\ Indexed' /\ EvidenceIsCounted'
<1>1. index \in Indexes /\ index' = index
  BY DEF GitHubInv, Indexed, CountRemote
<1>2. ran' = IF Concluded(report) THEN [ran EXCEPT ![j] = @ + 1] ELSE ran
  BY DEF CountRemote
<1>3. ran' \in [Job -> Nat]
  BY <1>2 DEF GitHubInv
<1>4. ASSUME NEW k \in Job, Recognisable(k)
      PROVE  record'[k].runs = ran'[k]
  <2>1. record[k].runs = ran[k] /\ ran[k] \in Nat
    BY <1>4 DEF GitHubInv, EvidenceIsCounted
  <2>2. CASE Concluded(report) /\ name \in DOMAIN index
    <3>1. Learn(index[name], Status(report) = "fail", ms)
      BY <2>2, EvidenceStatus DEF CountRemote
    <3>2. index[name] \in Job
      BY <1>1, <2>2, IndexLeads
    <3>3. record'[k].runs = record[k].runs + IF k = index[name] THEN 1 ELSE 0
      BY <3>1, <3>2, CountsOne DEF GitHubInv
    <3>4. k = index[name] <=> k = j
      BY <1>1, <1>4, <2>2, IndexRecognises
    <3>5. ran'[k] = ran[k] + IF k = j THEN 1 ELSE 0
      BY <1>2, <2>1, <2>2 DEF GitHubInv
    <3> QED
      BY <2>1, <3>3, <3>4, <3>5
  <2>3. CASE Concluded(report) /\ name \notin DOMAIN index
    <3>1. k # j
      BY <1>1, <1>4, <2>3, IndexRecognises
    <3>2. record' = record
      BY <2>3 DEF CountRemote
    <3> QED
      BY <1>2, <2>1, <2>3, <3>1, <3>2 DEF GitHubInv
  <2>4. CASE ~Concluded(report)
    <3>1. record' = record /\ ran' = ran
      BY <1>2, <2>4, EvidenceStatus DEF CountRemote
    <3> QED
      BY <2>1, <3>1
  <2> QED
    BY <2>2, <2>3, <2>4
<1> QED
  BY <1>1, <1>3, <1>4 DEF Indexed, EvidenceIsCounted, Recognisable

(* Every step keeps the invariant.                                         *)
LEMMA GitHubInvStep ==
    HistoryInv' /\ GitHubInv /\ [GitHubNext]_gitHubVars => GitHubInv'
<1> SUFFICES ASSUME HistoryInv', GitHubInv, [GitHubNext]_gitHubVars PROVE GitHubInv'
  OBVIOUS
<1>0. record' \in [Job -> JobStats]
  BY DEF HistoryInv, HistoryTypeOK
<1>1. ASSUME NEW j \in Job, NEW failed \in BOOLEAN, NEW ms \in Durations, CountLocal(j, failed, ms)
      PROVE  GitHubInv'
  <2>1. /\ Learn(j, failed, ms)
        /\ ran' = [ran EXCEPT ![j] = @ + 1]
        /\ index' = index
    BY <1>1 DEF CountLocal
  <2>2. \A k \in Job : record'[k].runs = record[k].runs + IF k = j THEN 1 ELSE 0
    BY <2>1, CountsOne DEF GitHubInv
  <2>3. \A k \in Job : ran'[k] = ran[k] + IF k = j THEN 1 ELSE 0
    BY <2>1 DEF GitHubInv
  <2>4. ran' \in [Job -> Nat]
    BY <2>1 DEF GitHubInv
  <2>5. EvidenceIsCounted'
    BY <2>2, <2>3 DEF GitHubInv, EvidenceIsCounted, Recognisable
  <2> QED
    BY <1>0, <2>1, <2>4, <2>5 DEF GitHubInv, Indexed
<1>2. ASSUME NEW j \in Job, NEW report \in Reports, NEW ms \in Durations, NEW name \in Shown[j],
             CountRemote(j, name, report, ms)
      PROVE  GitHubInv'
  BY <1>0, <1>2, RemoteKeeps DEF GitHubInv
<1>3. CASE BeginImport \/ EndImport \/ UNCHANGED gitHubVars
  <2>1. UNCHANGED <<record, ran>> /\ Indexed'
    BY <1>3 DEF BeginImport, EndImport, gitHubVars, Indexed, GitHubInv
  <2> QED
    BY <2>1 DEF GitHubInv, EvidenceIsCounted, Recognisable
<1> QED
  BY <1>1, <1>2, <1>3 DEF GitHubNext

(* The initial statistics are those of History, and nothing has run.       *)
LEMMA GitHubInitInv == GitHubInit => GitHubInv /\ HistoryInv
<1>1. HistoryInit => HistoryInv
  BY HistoryAssumption DEF HistoryInit, HistoryInv, HistoryTypeOK, RecordsAgree, JobStats, NoRecord
<1> QED
  BY <1>1 DEF GitHubInit, GitHubInv, HistoryInv, HistoryTypeOK, Indexed, EvidenceIsCounted, HistoryInit, NoRecord

(* An import with its index, and the counts of the jobs it recognises.     *)
LEMMA GitHubInvariance == GitHubSpec => [](GitHubInv /\ HistoryInv)
<1>1. GitHubInv /\ HistoryInv /\ [GitHubNext]_gitHubVars => (GitHubInv /\ HistoryInv)'
  BY GitHubStep, HistoryStep, GitHubInvStep DEF GitHubInv
<1> QED
  BY <1>1, GitHubInitInv, PTL DEF GitHubSpec

(* Imports and local runs together do what History allows, so that its     *)
(* theorems about statistics and ranks hold of both ("update the same      *)
(* statistics").                                                           *)
THEOREM ImportsTrainHistory == GitHubSpec => HistorySpec
<1>1. GitHubInit => HistoryInit
  BY DEF GitHubInit
<1>2. GitHubInv /\ [GitHubNext]_gitHubVars => [HistoryNext]_record
  BY GitHubStep DEF GitHubInv
<1> QED
  BY <1>1, <1>2, GitHubInvariance, PTL DEF GitHubSpec, HistorySpec

(* The legs of a job that is recognised are counted, each once.            *)
THEOREM EveryLegCounts == GitHubSpec => []EvidenceIsCounted
<1>1. GitHubInv => EvidenceIsCounted
  BY DEF GitHubInv
<1> QED
  BY <1>1, GitHubInvariance, PTL
=============================================================================
