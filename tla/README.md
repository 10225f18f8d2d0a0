# A verification of greenrun

greenrun runs the GitHub Actions workflows of a checkout on the developer's
machine. It plans which jobs an event triggers, takes an isolated snapshot of
the checkout, runs the jobs with act in one global queue, cancels everything at
the first failure, writes the results beside those of other runs, and learns
from them which job to run first next time.

This directory holds TLA+ models of the parts of it where the order of events,
a failure, a cancellation or another process decides what the developer is
told; TLC configurations that check them on small instances; and proofs, checked
by TLAPS, that hold for every size.

1. [Inventory](#1-inventory) of the system: parts, state, operations, what is hard
2. [Modules](#2-modules): which module models what, and how it corresponds to the code
3. [Runs](#3-runs): what TLC checks, within which bounds, and what it shows
4. [Fairness](#4-fairness)
5. [Proofs](#5-proofs): what is proved, from what, and along which argument
6. [Divergences](#6-divergences) between the code and what the repository says of it
7. [Not modelled](#7-not-modelled)
8. [Plan](#8-plan)

Paths are relative to the repository. `PROJECT.json` maps every definition to
the lines it models, lists every hazard at its line with the properties that
watch it, and gives a mutant for every property: a plausible bug that the
property catches.

## 1. Inventory

### A local run, from end to end

`runLocal` (`internal/cli/cli.go`) does, in one process:

1. `repo.Discover`: HEAD, the merge base with the default branch, the changed
   files; `snapshot.Create`: an isolated copy of the checkout with a synthetic
   commit.
2. `store.Start`: the directories of the run.
3. `event.Infer`: the event to verify; `workflow.BuildPlan`: which workflows it
   triggers, which of their jobs can run here; the rank of each job comes from
   `history`.
4. `Engine.Execute`: marks the jobs whose needs cannot run, schedules the
   others, runs the queue, maps what act left to statuses.
5. `store.Complete`: result files, `latest`, the index;
   `history.UpdateWithKeys`: the statistics; the exit code.

`importGitHub` fetches a remote run instead of 1-4 and ends like 5. Several
greenrun processes of one repository may be at work at once; they share the
store and the statistics and take no lock. The developer and git work in the
checkout meanwhile. `show`, `logs` and `path` read the store at any moment. The
pre-push hook runs greenrun and lets the exit code decide.

### Components

| component | state it keeps | operations | what is hard about it | what makes it correct |
|---|---|---|---|---|
| job queue, `internal/engine/scheduler.go` | ready list, missing needs, free slots, jobs in flight, results; a goroutine per job; a channel | dispatch, launch, complete, return | jobs complete in any order; cancellation lands in the middle of a scan; jobs wider than the pool; the list is changed while it is scanned | best rank first among what fits, needs before dependents, capacity, no idle capacity, nothing starts once closed, everything drains |
| run engine, `internal/engine/engine.go` | first failure, two contexts, statuses, the error, the watchdog's timer | schedule, run a job, record a failure, cancel, clean up, map outcomes | the collector, the jobs' goroutines, the user and a timer race for the first failure; act may leave no result, or hang | exactly the first failure fails, a pass is earned, an error is genuine, a cancelled run ends |
| log collector, `internal/engine/logging.go` | aliases, jobs seen, buffers, step records | file a line, record a step, report a failure, put the evidence on the model | called from all jobs; aliases depend on the order of a Go map; the legs of a matrix share the records of their steps; a log may not be writable | a line is filed under the job that logged it; what is shown of a step is what happened to it |
| event inference, `internal/event/event.go` | none | infer, synthesize | | branch and fidelity fit the event |
| triggers, `internal/workflow/workflow.go` | none | match event, branches, paths | the last pattern decides; include and ignore lists mix | more changes trigger more |
| planning, `internal/workflow`, `internal/engine` | status, fidelity and reason of each job | classify, mark dependency blocks, sum up | the marking ranges over a Go map until nothing changes | exactly the runnable jobs run; unsupported work is never a pass |
| run store, `internal/store/store.go` | result files, `latest`, index | start, complete, resolve | four files written one by one, by several processes; crashes and I/O errors in between | who is led to a run finds it complete; a told verdict is on disk |
| statistics, `internal/history/history.go` | `stats.json` | load, update, rank | load and save with others in between; truncate, then write; counters and bounded lists that must agree; one quotient weighs evidence against names | only recorded runs are learned, evidence outweighs names, every outcome moves the rank the right way |
| GitHub import, `internal/githubrun/githubrun.go` | none of its own | judge, find the local key, count | an index by displayed names in which the last writer wins; legs of a matrix fold into one key | every leg is counted once, for its job |
| repository discovery, `internal/repo/repo.go` | none | five git commands | the checkout moves between the commands | path filters see what runs |
| snapshot, `internal/snapshot/snapshot.go` | clone, diff, list, copy, commit | create | the same | a file is captured as the checkout held it |
| pre-push hook, `internal/hook/hook.go` | the hook file | install, uninstall, status | look, decide, write, in processes of their own; a write truncates first; other programs own the file too | what the user was told holds; another program's hook is kept; greenrun knows its own |
| command line, `internal/cli/cli.go` | the exit code | run, github, show, logs, path | reads the interrupted context a second time | the code says what the result says |
| masking, output, artifact server, process execution, installer, images | none that other parts decide on | | pure data transformation or I/O | |

They interact by calls within one process, by the callback `onFailure` from the
collector into the engine, by the context that cancels the queue, by act's
results in the shared parsed workflow, and between processes only by files.

## 2. Modules

```
JobShape ─ JobPool (abstract)                 Triggers ─ Planning ─ PlanningProofs
    │          ▲ implements
    ├────── Scheduler ─ SchedulerProofs       Ledger (abstract)
    │          │                                  ▲ implements
    └ Filing ─ Engine ─ EngineProofs          Records ─ RecordsProofs
                 │           │
             Execution ─ ExecutionProofs      Snapshot ─ Selection ─ SnapshotProofs

History ─ GitHubRun ─ HistoryProofs           HookFile ─ HookFileProofs
```

A line stands for EXTENDS; `MC*` modules (not drawn) give the constants their
values for TLC. The modules are joined where one part relies on another:
`Engine` is `Scheduler` and `Filing` plus act, the collector and the user, so
that the queue in it is *the* queue (the theorem `EngineRunsTheQueue`);
`Execution` is `Engine` with what goes on inside its jobs, and nothing that
`Engine` would not allow (the theorem `ExecutionIsARun`); `Planning` takes its trigger from `Triggers`;
`Selection` puts `Triggers` behind `Snapshot` by INSTANCE; `GitHubRun` takes its
steps from `History`.

### The queue: `JobShape`, `JobPool`, `Scheduler`

`JobShape` declares a run's jobs: weights, ranks, needs. `JobPool` is what the
comment of `runQueue` promises: weighted slots, the best-ranked job that fits
starts first, needs come before dependents, nothing starts once the pool is
closed, running jobs drain.

`Scheduler` is `runQueue`. Its dispatcher is a goroutine whose program counter
`pc` separates what another goroutine may come between: the test at the entry of
`dispatch` (`Dispatch`), each round of the scan (`PassOver`, `Launch`, until
`EndScan`), the receipt of a completion (`Receive`) and the return (`Return`).
`worker[n]` is the goroutine of job `n`: not started, inside `exec`, blocked on
the channel, gone; the channel is unbuffered, so a receipt is one step of both.
`Cancel` may happen between any two steps. `sort.SliceStable` is the set of
sequences with its postcondition (a singleton).

### A run: `Filing`, `Engine`

`Filing` says under which job the collector files a line: `reusableJobAliases`
over every order of the Go map, `reusableFallback`, and the precedence in
`Fire`. Job ids are numbers, and the jobs belong to one workflow; a job that
calls a reusable workflow logs under the ids of that workflow's jobs.

`Engine` adds what happens around the queue:

- `StartFails`, `StartQueue`: the early returns of `Execute` and of `runLocal`;
- `StepLogs`, `StepFails`, `ActEnds`: what act does inside a job, and the job
  under which the collector files it (`LogsAs`, `FailsAs`). A failing step is
  reported by the collector before anyone knows whether the job tolerates it.
  act may end a job with any of the results that `applyOutcomes` tells apart and,
  whatever the result, with an error or none, or never (`OwnEndings`,
  `TeardownEndings`). Assumed of act is only that a failure is an error too
  (`Failure`), that a job with a failed step that nobody cancels is a failure, that
  it leaves "failure" otherwise only in a job that is being torn down, and that
  nobody sees `context.Canceled` who was not cancelled;
- `Record`, `CancelExec`: the first failure wins; whoever recorded it goes on to
  cancel, which is a step of its own because others may come between;
- `NodeReturns`: `executeNode` hands its outcome to the queue: of an error it
  drops `context.Canceled` and that of a failure and keeps any other (`Kept`);
- `Interrupt`: the user's signal, at any moment;
- `WatchdogWakes`, `ForceCleanup`, `WatchdogStops`: the goroutine that removes
  the containers five seconds after a cancellation;
- `ApplyOutcomes`: the statuses of all jobs and the error of `Execute`, by the
  cases of `applyOutcomes` in their order;
- `Finish`: `ResultStatus`, after the context was read again;
- `ExitCode`: `model.ExitCode`.

### Inside the jobs: `Execution`

`Execution` gives each job its legs, one per combination of its matrix, and each
leg its steps. `at[n][l]` is how far leg `l` has come: even between two steps, odd
within one. The first line of a step (`StepBegins`) makes a record of it, unless
another leg has, and its last line (`StepEnds`) the result; a step whose condition
does not hold leaves no line (`StepIsSkipped`). A leg may only start while fewer
than the weight of its job are under way (`MayStart`): `singleJobPlan` pins the
parallelism to what `jobWeight` counted (`JobWeight`). `begun` is history: the
steps that really began, against which the report is held.

`Apply` is the end of `Execute` in its order: the collectors put their records on
the model, up to the first log that cannot be written (`Unwritten`, `Collected`);
the planned steps that are missing are added as skipped (`Reconciled`); then
`applyOutcomes` settles the jobs and rewrites the steps of those it reports
cancelled (`Marked`). All other actions are those of `Engine`.

### Before the run: `Triggers`, `Planning`

`Triggers` holds the pure functions that decide whether a workflow handles an
event: `matchesEvent`, `matchFilter`, `matchPaths`, `orderedMatch`, `Infer`. A
pattern is its sign and the set of names that its glob matches.

`Planning` follows the jobs of one workflow: `readWorkflow` classifies them, the
passes of `markDependencyBlocks` visit them in any order (`Visit`, `EndPass`),
the queue gives the remaining ones their outcome (`RunJobs`, an abstraction of
`Engine`), `ResultStatus` and `lowestFidelity` sum up (`Settle`).

### After the run: `Ledger`, `Records`

`Ledger` is what a store of runs promises: a run is published by one step, which
also makes it the latest, and tells its verdict only afterwards.

`Records` is what the processes of one repository do to the shared files. A step
is one file operation: `atomicWrite` renames a complete file into place and is
one step; `os.WriteFile`, with which `stats.json` is written, truncates first and
writes then and is two. A process may be killed between any two steps (`Crash`),
and every operation may fail (`GiveUp`, `SaveFails`). `stats.json` stands for the
set of runs that it counts: what is in it is the subject of `History`. `Resolve`
is another command that reads `latest`.

### Between runs: `History`, `GitHubRun`

`History` keeps the statistics of each job: `UpdateWithKeys` counts one job at a
time (`Learn`), and `Rank` turns a record into a rank. The code computes ranks in
floating point; here they are exact fractions, multiplied out (`Yield`,
`Effort`), so that what is said of ranks is said up to rounding.

`GitHubRun` counts remote jobs too: `Status` judges what GitHub reports,
`Indexes` is the set of maps that `RemoteStatsKeys` may return, given the order
of the directory and of Go's maps, and `CountRemote` looks a displayed name up in
it. A name is what `RemoteKey` makes of it. Processes take turns in this module;
`Records` is about those that do not.

### The checkout: `Snapshot`, `Selection`

`head`, `index` and `work` are the trees of git. `Discover` and `Create` are one
step per git command and one per copied file; the developer edits, stages,
untracks and commits between any two of them (`Developer`). A git command itself
is atomic. `git apply` changes all files or none; `git diff HEAD`, `git ls-files`
and `git add -A` are modelled by what they do to a path with and without an index
entry, ignored or not. A command of `Create` that fails ends the capture
(`CommandFails`). A command of `Discover` that fails does not: it is taken for one
that prints nothing, and the run goes on with fewer changed files (`Lists`), but for
`git diff HEAD`, which has a substitute (`FindTracked`, `FindCached`). The history
variable `missed` keeps the files that only a listing that failed would have named.

`Selection` asks of both what neither can say alone: `runLocal` first discovers the
changed files, then captures the checkout, and `readWorkflow` selects workflows by
the files found before. A developer who keeps working meanwhile must not make it
pass a workflow over that what runs would trigger, nor may a command that fails,
but for the files of `missed`.

### The hook: `HookFile`

`install` and `uninstall` run in processes of their own. Each looks at the file
(`LookToInstall`, `LookToUninstall`) and acts in a later step: `os.WriteFile` is
`Open`, which truncates, and `Write`; `os.Remove` is `Remove`. A process that is
killed or fails in between leaves an empty file (`LeavesBlank`). `linked` are the
processes whose open file is still the one in place: another program may have put
its own there. `runnable` is the mode bit, without which git ignores the hook.
`Meddle` is everyone else. The history variables say since when nobody worked
against a process, and who could not have seen what is there.

## 3. Runs

The states are distinct states, the times those of two workers.

| run | states, time | what it asks |
|---|---|---|
| `queue` | 1,918, 1 s | Does the queue implement the pool, whatever the order of completions, failures and cancellation? |
| `engine_failfast` | 465,323, 45 s | Is what a fail-fast run reports true, and does it end when act hangs? |
| `execution` | 5,068,708, 108 s | Does `--complete` report every job and every step as it was, and do the legs fit the pool? |
| `planning` | 92,740, 2 s | Do exactly the runnable jobs run, in every order of the map, and is unsupported work never a pass? |
| `records` | 564,364, 22 s | Are the shared files consistent, whatever is killed or fails? |
| `history` | 181,202, 20 s | Do statistics and ranks follow the evidence, local and imported? |
| `snapshot` | 10,820,799, 124 s | Does what runs match what the developer had, and are the workflows selected that it triggers? |
| `hook_file` | 18,908, 2 s | Does what `install` and `uninstall` say hold, and whose hooks do they touch? |
| `tolerated_step`, `shared_child`, `failed_last`, `reinstalled_hook` | a violation | See [Divergences](#6-divergences). |

**`queue`** checks `ImplementsPool` (the refinement, with the pool's fairness),
`TypeOK`, `SlotAccounting`, `ReadyIsExact`, `NoIdleCapacity`, `ReturnsDrained`,
`Terminates`. *Bounds*: five jobs on three slots. Job 2 is
wider than the pool, so it must be passed over while anything runs; jobs 1 and 2
tie in rank; job 4 needs two others, takes two slots and outranks everything once
it is ready; job 5 depends on it. With these a job is dispatched past a better
one, a list grows while others wait, a chain of needs is three jobs long, and
every counter reaches both ends. The theorems carry the result to any number.

**`engine_failfast`** checks `OnlyFirstFailureFails`, `FirstFailureReported`,
`CancelledHasCause`, `PassMeansAllRan`, `ErrorIsGenuine` (a run that was not
interrupted ends in an error exactly if one was kept), `FailureIsReal` (a run
that started and fails, without tolerated steps, has met a step that failed on its
own), and the liveness property `CancelledRunFinishes`: once a failure is on
record, or the context is done for another reason, the run finishes, although act
may never return. *Bounds*: three jobs
on two slots, the third needs the first: two jobs race for the first failure
while another is not dispatched yet, and one is launched under a context that has
just been cancelled. Jobs 1 and 2 call reusable workflows with child ids of their
own. The constants exclude what the violation runs show: no tolerated step, no
shared child. Errors are not restricted: any job, torn down or not, may return one.

**`execution`** allows a tolerated step where it does no
harm, without fail-fast, and looks into the jobs: `CompleteCollectsAll`
(every failure is its job's, every error the run's),
`TornStepsCancelled`, `StepsTold`, `WithinSlots`. *Bounds*: two jobs on two slots.
One is a matrix of two legs with two steps each, declared to run one leg at a time,
so that a leg waits while a slot is free; one of its steps has a name that the plan
does not know. The other calls a reusable workflow, so that its lines come under
another id and no step of it is planned. The user may interrupt at any point, and
a log may not be writable. Two jobs suffice because each property speaks of one job,
but for the slots, for which each count of containers from none to two occurs; the
theorems are for any number.

**`planning`** checks `ExactlyRunnableScheduled`, `UnsupportedIsNeverPass`,
`RunFidelityIsWorst`, over all triggers and events. *Bounds*: four jobs, of which one needs two others in
an order and one of those needs a third, under five declarations each, that is
one for each outcome of the classification: blocking travels two needs far, so
that a second pass is needed in unfavourable orders, and two gates compete for
the fidelity of one job. Six declarations of triggers over two branches and two
files have every kind of filter and a negative pattern.

**`records`** checks `PublishedIsComplete`, `LatestIsFresh`, `IndexIsExact`,
`TrainedIsRecorded`, `LearnsUnlessSpoilt` and `ImplementsLedger`. *Bounds*: two
processes with every status, killed or failing at any step, and a reader. Each
file is written once per process, so two processes already meet in every pair of
steps; the theorems are for any number.

**`history`** checks `RecordsAgree`, `EvidenceBeforeNames`, `FailedLastLeads`,
`EvidenceMovesRank`, `EvidenceIsCounted`. *Bounds*: two jobs at the ends of the
name heuristic, three runs each (`MaxRuns`), lists of two durations, so that the
third is trimmed; durations are unknown, below the floor of one second, and two
others more than a factor of five apart, the larger factor of `FailedLastLeads`. A
report is a success, a failure that is not called one, a skip, or still running.
GitHub shows the jobs under names that `RemoteStatsKeys` makes of one job only,
and another name is made of both.

**`snapshot`** checks `CapturedAsSeen`, `CommitHoldsSnapshot`,
`ChangesAreKnown`, `QuietCaptureSucceeds`, `NoWorkflowMissed`. *Bounds*: an ignored and another file,
every combination of committed, staged and present contents, every command of git
failing or not, two steps of the
developer (`MaxMoves`): enough for an edit and its undoing, or for staging and
committing, on both sides of a command. Three workflows filter the two files: by a
pattern, by a pattern and its exception, and by what to ignore.

**`hook_file`** checks `ToldHolds`, `OwnIsRecognised` and the action property
`ForeignKept`. *Bounds*: three processes with one command each, so that two agree
and one works against them, and two steps of others (`MaxMoves`): one between a
look and a write and one after it are what the properties tell apart. The
processes are symmetric.

`CHECK_DEADLOCK FALSE` is set where a system may stop: the processes of `records`
end or are killed, the capture of `snapshot` and the commands of `hook_file` end,
`history` reaches its bound.

## 4. Fairness

- `Scheduler`: the Go runtime runs the dispatcher and every job's goroutine. That
  `exec` returns is what the queue expects of its caller and is assumed here
  only; the engine does not assume it. Nobody has to cancel.
- `Engine`: the runtime runs each goroutine and the timer: weak fairness of the
  dispatcher, the goroutine that calls `cancelExec`, the return of `executeNode`,
  the two steps of the watchdog, and the end of the run. act is *not* trusted to
  end a job, except one whose containers were removed or which was launched under
  a context already done. `CancelledRunFinishes` is therefore a statement about
  the watchdog. Under `--complete` there is none, and it is not claimed. Docker is
  trusted to remove what `forceCleanup` lists.
- `JobPool`, as the abstract side of a refinement, starts jobs while it is open
  and ends running ones.
- `Execution`, `Planning`, `Ledger`, `Records`, `History`, `GitHubRun`, `Snapshot`,
  `HookFile`: none. Processes may be
  killed and developers may pause; only safety is claimed.

## 5. Proofs

The theorems hold for every value of the constants that the named assumptions
allow. `PROJECT.json` lists them; the modules `*Proofs` hold them. Each proof of
an invariant has one lemma, or one step, per action.

| module | assumed | proved |
|---|---|---|
| `SchedulerProofs` | `ShapeAssumption`, `AcyclicAssumption` | every invariant of the `queue` run, and the safety half of `ImplementsPool`; that every step of the queue advances it (`QueueAdvances`) and that it is stuck only on `exec` (`QueueGoesOn`) |
| `EngineProofs` | those, `FilingAssumption`, `EngineAssumption` | that the engine runs the queue, `EngineTypeOK`, `CancelledHasCause`, `OnlyFirstFailureFails`, `CompleteCollectsAll`, `ErrorIsGenuine`, `FailureIsReal`, `OutcomesAsPlanned`; that every step advances the run and that it is stuck only on act (`OnlyWaitsForAct`); under `Clean` also `FirstFailureReported`, `PassMeansAllRan` |
| `ExecutionProofs` | those, `ExecutionAssumption` | that a run with steps is a run of the engine and, through the queue, implements the pool; `WithinSlots`; under `OwnChildren` also `ExecutionTypeOK`, `TornStepsCancelled` and, with distinct names of steps, `StepsTold` |
| `PlanningProofs` | `TriggersAssumption`, `PlanningAssumption` | `ExactlyRunnableScheduled`, `UnsupportedIsNeverPass`, `RunFidelityIsWorst`, `NothingIsOverstated`; that every visit advances the marking (`MarkingAdvances`) |
| `RecordsProofs` | `RecordsAssumption` | every property of the `records` run |
| `HistoryProofs` | `HistoryAssumption`, `GitHubAssumption` | every property of the `history` run, that a rank rests on an observed time (`Observed`), that ranks order the jobs (`RankOrders`), and that imports do what `History` allows |
| `SnapshotProofs` | `SnapshotAssumption` | every property of the `snapshot` run |
| `HookFileProofs` | `HookAssumption` | every property of the `hook_file` run |

The assumptions say what the code before the modelled part ensures (weights of
at least one, needs without cycles, ids of scheduled jobs) and that the constants
have the types their comments give. `AcyclicAssumption` is needed for
`ReturnsDrained` only: actionlint rejects cycles before planning. `Planning`
does without it.

**The queue** (`Inv`). No property is inductive alone. That a dispatch never
makes `free` negative needs the slot accounting; that a full scan leaves only
what does not fit needs the invariant of the scan; that `runQueue` returns with
every job run needs an exact ready list, the idle-capacity property with all
slots free, and a job of the remaining ones that needs none of them. Slots are
counted as pairs of a job and a number, so that cardinalities of finite sets do
the arithmetic. The refinement follows with `Inv`: a `Launch` is a `Start` of the
pool, because what the scan has passed over does not fit and what it has yet to
see ranks no better; a `Receive` is a `Stop`; everything else is a stutter or
closes the pool.

**The engine** (`EInv`, `CleanInv`). Every step of the engine is a step of the
queue or leaves it alone, so `Inv` comes for free. `Linked` ties what act left to
what the queue knows of a job, `OnRecord` says that every failure, and every
cancellation but the user's, is on record. `RealInv` leads a failed run
back to its cause: until `applyOutcomes` every job is pending, a job it reports failed
has put a failure on record, and unless the user interrupted, a failure on record goes
back to a step that failed where nobody tolerates failures.
`CleanInv` adds that the first failure
on record is really that of a job that ran, which holds only under
`Clean`: no step is tolerated, and the callers of reusable workflows keep their
lines to themselves (`OwnChildren`). That `OwnChildren` implies that a line is
filed under its job, in every order of the map, is the lemma `OwnLines`. Without
`Clean` both properties fail, as two of the violation runs show. `EndInv` adds to
`EInv` how jobs may end (`Endings`) and what an error of `Execute` goes back to
(`ErrorHasCause`): what the queue was told of a job's error is exactly `Kept`, whatever
the result beside it. From it `ErrorIsGenuine` and `CompleteCollectsAll` follow for any
attribution and any errors.

**Inside the jobs** (`LegInv`, `StepInv`, `ToldInv`). Since every step is one of
the engine or hidden from it, `EInv` holds. `LegInv`: the legs under way never
outnumber the weight; with the slot accounting of the queue, the containers of all
jobs are mapped one to one to the slots held, so they fit the pool. `StepInv`: there
is a record of exactly the steps that began (`Filed`), a leg within a step has begun
it, and a job that was not dispatched has begun nothing, so that `markCancelled`
need not touch it. `ToldInv`: a job without a matrix that a step made fail still has
the record of a failed step, behind the place where its leg is; it needs distinct
names, since a later step of the same name would overwrite the record. All but
`LegInv` need `OwnChildren`: otherwise a record may be another job's.

**The plan** (`PlanInv`). The greatest fixpoint from both sides: no runnable job
is ever blocked, and what a pass has visited without a change is not gated;
when a whole pass changes nothing, the pending jobs need only each other.
No order and no acyclicity is assumed. `FidelityInv` adds what the fidelities are
made of: a job that was classified out and a runnable one keep their own, and
every other job is blocked with the fidelity of some job that was classified out.
So the fidelities that are summed up at the end are always the same set, whichever
gate each job met first.

`NothingIsOverstated` says what that is worth to a reader of the result: no job that
was not skipped is worse than the run is told to be, and neither is the event.

`Planning` stands for a whole run by one step, `RunJobs`. `OutcomesAsPlanned`, proved
of `Engine`, says that this is allowed: a run without an engine error gives the
scheduled jobs statuses among those that `RunJobs` chooses from.

**The records** (`RecordsInv`, `UpdateInv`). What each stage of a process has
behind it: its files, its entry in the index, the statistics it may hold in
memory. The verdict of a run that began after another was over cannot be told
before `latest` has moved on. `UpdateInv` says that, as long as no two updates have
overlapped and none was broken off, at most one process is updating, it holds all that
was saved from the moment it has loaded the statistics, and the file is empty only
while that process is between truncating and writing. It is not inductive without
`RecordsInv`, which says that a process that is over was not idle.

**The statistics** (`HistoryInv`, `GitHubInv`). The invariant is typing and
`RecordsAgree`; the ranks are inequalities between products, each split
into small lemmas on naturals. `GitHubInv` adds that an index, once built, leads
every displayed name of a recognisable job to that job and no other. That the
upper median exists needs no induction: among any values of a list, one that the
fewest others exceed is the greatest (`GreatestValue`, from the well-foundedness of
the naturals); the least value that more than half of the list does not exceed has
at most half of the list below it, because the greatest one below it would have
been less. So a list of known durations always has one median, and it is one of them
(`MedianIsTheMiddle`): a job whose durations are known is never ranked by the default
minute, nor by its passes while it has failures (`DetectionIsObserved`).
`RankIsAnOrder` is what the comparison passed to `sort.SliceStable` has to be for the
result to be sorted at all, and what `Scheduler` presupposes of `Rank`.

**The snapshot** (`SnapshotInv`). For a path that was not staged or committed
meanwhile, each command leaves it in a state that the checkout had; for a path
that was not touched at all, whatever differs has been found, is still to be looked
for, or was lost with a listing that failed. The third part,
for a checkout in which nothing moves, shows that no command fails.
`EveryWorkflowIsSelected` adds that path filters are monotone: a workflow that some
files trigger is triggered by more of them too, whatever the order of its patterns
(`MoreFilesSelectMore`). The files found may be too many and are never too few.

**The hook** (`HookInv`). What the file holds is tied to who has it open, who was
told what, and what happened since each process looked; a process that opened the
file for writing has everybody who removes it against it, and the other way round.

**Termination**, up to fairness. What a terminating program needs besides a fair
scheduler is proved. `QueueAlwaysAdvances` and `RunAlwaysAdvances`: no step leads back
(statuses, completions, program counters and the lists only move on), so that a run
consists of finitely many steps but for the lines that act logs.
`QueueNeverStuck` and `RunNeverStuck`: in every reachable state that is not final some
step of the program can be taken, its guard stated in full, unless everything that
is left waits for act; and under fail-fast, once the context is done or a failure is
on record, there is not even that exception, since the watchdog can go on. The same
order for the loop `for changed` of `markDependencyBlocks` (`MarkingEnds`): each
visit blocks a job for good or takes it off the pass, and a pass in which none was
blocked is the last.

Only model-checked, because fairness, ENABLED and the induction over a well-founded
order that joins those halves are beyond the prover: `Terminates`, the fairness half
of `ImplementsPool`, `CancelledRunFinishes`. Everything else that the passing runs
check is also proved.

## 6. Divergences

Four runs show where the code does not do what the repository says. In each, TLC
finds a behaviour of the code that violates the quoted statement.

- **`tolerated_step`**: a failed step under `continue-on-error` is recorded as
  the first failure and cancels the run, although its job goes on to succeed. No
  job is reported failed, while the comment at
  `internal/engine/engine.go:449` says that the failure is reported.
- **`shared_child`**: two callers of reusable workflows share a child id. The
  alias is dropped, the failure is recorded under an id that is no scheduled job,
  all jobs torn down are "cancelled", and the run passes. The comment at
  `internal/engine/engine.go:405` says that the statuses are honest.
- **`failed_last`**: a job failed slowly in the last run, another passed quickly, and
  the latter is ranked first. `README.md:48` and `docs/ARCHITECTURE.md:37` say that the
  job that failed last is probed first; `internal/history/history.go:104` only triples
  its rank. `FailedLastLeads` is a condition under which the claim holds: no other job
  has failed more often or run less often, and none is seen to fail in less than half
  the time (a fifth, if it has never failed).
- **`reinstalled_hook`**: installing over greenrun's own hook, whose mode somebody
  has changed, reports success and leaves it not executable, because the mode
  given to `os.WriteFile` is that of a new file only; git ignores such a hook. The
  test at `internal/hook/hook_test.go:36` says that an installed hook must be
  executable. `ToldHolds` has the exception in it.

Others were met while modelling and have no run of their own.

- *Lost updates.* Two processes that end together load the same `stats.json`, and the
  later one overwrites what the earlier one learned
  (`internal/history/history.go:133-169`); one that is killed, or fails, between truncating and
  writing the file loses everything. `README.md:52` says that local runs train the
  ranking. `LearnsUnlessSpoilt` says that these two are the only ways to lose anything.
- *Errors beside results.* act may return an error together with a success, for
  instance when a container does not stop: the job reads `pass` and the run ends in
  `error` (`internal/engine/engine.go:441`, `465`). An error that act
  returns from a job torn down by the first failure's cancellation likewise makes the
  run end in `error` instead of `fail`, and the hook lets the push pass, although
  the comment at line 405 speaks of *genuine* errors. The code tests for
  `context.Canceled` only. `ErrorIsGenuine` and `CompleteCollectsAll` say exactly what
  becomes of an error.
- *Listings that fail.* `Discover` ignores the errors of git
  (`internal/repo/repo.go:31`, `92`, `96`, `98`): after one that failed, a changed file
  may be unknown to the path filters and a workflow is passed over silently. When
  `git diff HEAD` fails although there is a commit, its substitute does not name deleted files
  that are untracked. `ChangesAreKnown` and `NoWorkflowMissed` leave out what only the
  failed listing would have named (`missed`).
- A plan that cannot be built or has an error diagnostic ends in `fail` before any job
  runs (`internal/engine/engine.go:116`), and the hook blocks the push, which
  `internal/hook/hook.go:20` reserves for real failures and cancellations.
- An imported run that GitHub concluded as skipped gets the status `skip`
  (`internal/githubrun/githubrun.go:339`), which no local run has.

Some properties carry a hypothesis without which they fail, which is a limit of
the code worth knowing although no text was found that denies it: a file that is
*staged, untracked or committed during the capture* may be missing from the snapshot
(`CapturedAsSeen`); a commit of the snapshot that *fails goes unnoticed*, and the
event then names a commit without the changes (`CommitHoldsSnapshot`); a job whose
displayed names are *not its own* trains another job (`EvidenceIsCounted`); steps of
jobs whose *log could not be written* read skipped although they ran, and in a
*matrix* a later leg that passes hides the failed step of an earlier one
(`StepsTold`); a hook that another program wrote *after the process had looked* is
overwritten or deleted (`ForeignKept`); after a write of the hook that *broke off*,
the empty file is foreign (`OwnIsRecognised`). `PROJECT.json` says the same at each
hazard: the property does not cover what its hypothesis leaves out.

## 7. Not modelled

- Text: parsing of workflows, actionlint, masking, formatting, log contents,
  `events.jsonl`, log files, what the JSON files say.
- act, Docker, git and gh, beyond what the code distinguishes of their answers.
- The start and stop of the services of a run, beyond their failure; the artifact
  server; process execution; the installer; the images.
- The collector's buffers, timestamps and annotations. No status depends on them.
- What runs inside a caller of a reusable workflow, beyond its lines: it counts as
  one container, as in `jobWeight`.
- That `forceCleanup` lists containers and removes them by a second command: a job
  whose container comes in between ends because its context is done.
- The migration of statistics of version 1.
- `plan`, `doctor`, `warm`, `update` and the secrets: they keep no state that
  another command reads.

Hazards that no property covers yet are in `PROJECT.json` with the reason.

## 8. Plan

Done, in the order of what matters most to the developer: the queue and its
proofs, the engine on top of it, planning, the store and the statistics file, the
ranks, the snapshot, the import, the triggers and log filing that feed the others,
the hook file, and the legs and steps inside the jobs.

Next:

1. What a run still promises when callers of reusable workflows share a child id:
   `Filing` has every order and number of callers, the properties need `OwnChildren`.
2. Timestamps of the collector, taken before its lock: what holds of durations.
3. Services: their start in order, the failure of each, and that every one
   started is stopped.
4. Proofs: that `Planning` and `Engine` compose to one specification of a run, of
   which `OutcomesAsPlanned` is the interface; that the history of an import with
   processes that do not take turns keeps what `LearnsUnlessSpoilt` allows.
