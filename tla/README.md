# Blackline, specified

TLA+ modules, TLC models and TLAPS proofs for Blackline (`src/blackline`), an
interactive shell that runs network reconnaissance as plans of steps with
dependencies, decides adaptively what to run next, and records results in jobs.
The definitions are translated from the code; where code and documentation
disagree the model follows the code and a run shows the difference (*Findings*).

## The system

| Component | State it keeps | Operations | Talks to |
|---|---|---|---|
| Plan graph validation (`engine/graph.py`) | the steps not yet in a wave, the identities placed | `validate_plan_graph`, `dependency_waves` | called by the scheduler before a run |
| Scheduler (`engine/scheduler.py`, `executor.py`, `core/artifacts.py`) | waves, futures in flight, result slots, artifact store, cancellation, event sequence | `schedule_plan`, `_run_wave`, `_execute_with_retries`, `ExecutionControl.cancel` | a thread pool, step handlers, event and progress callbacks |
| Step handlers (`engine/handlers/`) | none | one handler per tool: run it, interpret its output, return result and artifacts | external programs (`utils/exec.py`), the evidence of earlier waves |
| Adaptive loop (`engine/runner.py`) | round, aggregate of plans and results | run the essential plan, then observe, decide, follow up | scheduler, Vector, recon planner |
| Vector (`vector/`) | facts, services by protocol and port, completed actions | `ingest`, candidates, policy, ranking, `mark_completed` | fed by `core/recon/vector_adapter.py` |
| Recon planner (`engine/planner.py`, `core/recon/`) | none | target to pipeline to plan; follow-up plan from a decision | hands plans to the scheduler |
| Job records and repository (`core/jobs.py`, `storage/job_store.py`, `jobs_cmd.py`) | a JSON file per job | new, enter, leave, append a result, delete; aggregation; upgrade of old files | files that other shells write as well |
| Recon command (`recon_cmd.py`) | none beyond one command | run, record in the active job, report | engine, job repository, rendering |
| Shell session (`cli/core_shell.py`, `dispatcher.py`, `auth.py`) | elevation and its expiry, active job, active template | prompt loop, `exit` unwinding, authentication, `reset` | all commands |
| Templates (`templates/`, `template_cmd.py`) | registry in memory and on disk, last valid compilation | load, refresh, get, remove, run | CLT compiler, files edited by the user |
| CLT language and runtime (`clt/`) | stacks of blocks, variables of one execution | lex, parse, validate, compile, run | shell, templates |
| Execution events (`engine/events.py`, `storage/event_journal.py`) | sequence number, journal file | emit, append, replay | scheduler, observers of those who embed the engine |
| Evidence correlation (`core/recon/evidence.py`) | the claims of one run | `build_evidence_graph` | fed by the recon command |
| Tool installer (`tools/installer.py`, `tools install`, `tools uninstall`) | what is installed, source trees, executables in `~/.local/bin` | install, uninstall, one tool or all | package managers, git, build commands |
| Pathfinder (`pathfinder/`) | none | find, validate and require an executable | file system, installer, adapters |
| Tool preferences (`core/recon/tool_registry.py`, `config/tool_loader.py`) | a user file | default, enable, disable | recon planner |
| Adapters, parsers, UI, history | - | external tools, rendering | - |

### What is hard, and what must hold

* **Plan graph.** Identities, references and cycles may be wrong together. A
  plan is accepted only if it can be executed, and its waves are in order.
* **Scheduler.** A main thread, a pool of workers with retries and backoff, and
  a canceller that may be another thread, a handler or Ctrl-C. Nothing runs
  before what it needs; what handlers see does not depend on which worker was
  faster; a cancellation stops new work; every step that got a result is in the
  results; the event stream tells the story once and ends with the run.
* **Adaptive loop.** Evidence overturns evidence. Within its budget the loop
  leaves nothing undone that its evidence enables, does nothing twice, and
  never forgets what it has identified.
* **Recon plans.** A request in many forms, tools that may be disabled, missing,
  failing or timing out, and evidence that one tool leaves for another. Plans
  are valid and nothing comes after what needs it; the quick scan of naabu never
  hides ports from the thorough one of nmap; nobody is asked for a password
  halfway; "not found" is never said of what failed, timed out or was found.
* **Jobs.** A process may die between any two steps of a save or a delete, and
  other shells use the same files. Acknowledged results survive; a job's status
  and summary tell of all its results.
* **Session.** Contexts are entered and left in any order while the elevation
  expires. A run is recorded where the user is, what is reported is what the
  job says, and `exit` leads out.
* **Templates.** Sources change while they are read, memory and disk diverge
  when a write fails, and compilations die with the shell. What runs is the
  newest that compiled, and registrations survive.
* **CLT.** Blocks are known by indentation alone, `else` is a word like any
  other until the block of an `if` ends before it, and variables are looked up
  while the run goes on. What the lexer, the parser and the validator accept
  together is exactly what is well laid out, and a run does what the layout says.
* **Installer.** Every route is external commands that fail, hang or are
  interrupted with half of the work on disk, and the next command starts from
  there. What is reported as installed can be found and used, routes are tried in
  their order until one works, and what is reported as removed is gone.
* **Records of a run.** Writes to the journal fail unseen, or are cut off, and the
  next one goes on in the same line; results of one tool replace each other
  before they become evidence. A failure costs little, nothing of a tool's last
  result is lost, and no fact names a source that does not state it, or one twice.

`PROJECT.json` lists every hazard at its line, with the properties for it.

## Modules

```
PlanGraph ----+-- PlanValidation -- MCPlanValidation
              |        +----------+
              |                   +-- SchedulerProofs
              |        +----------+
              +-- Scheduler ------- MCScheduler      Scheduler ...implements...> PlanRun
              +-- PlanRun
ReconPlan (EXTENDS PlanGraph) -- ReconRun -- MCReconRun
                                     +------ ReconRunProofs
Vector ---------- Investigation -- MCInvestigation
                       +---------- InvestigationProofs
JobRecord ---+--- JobStore -- MCJobStore      JobStore ...implements...> JobLog
             |        +------ JobStoreProofs
             +--- Session --- MCSession
                      +------ SessionProofs
Templates ---+--- MCTemplates
             +--- TemplatesProofs
Clt ---------+--- MCClt
Pathfinder --+- Installer -- MCInstaller
             |      +------- InstallerProofs
Selection ---+-- EventJournal --+
             +-- Evidence ------+-- RunRecords -- MCRecords
JobRecord ----------------------+       +-------- RunRecordsProofs
```

Definitions that begin with the name of another definition and an underscore
(`Merge_AnyOrder`) are faulty variants of it: with the variant in
its place some property fails, which shows that the property says something
about that code. No specification uses them.

**PlanGraph** - the shape of a plan and the two ways to group its steps:
dependency waves, and, for legacy plans without dependencies, execution groups
inferred from the tools.

**PlanValidation** - `validate_plan_graph`; an action for each check and one
(`PeelWave`) for each iteration of the loop of `dependency_waves`. Cycles are
stated without the algorithm: a set of steps each of which waits for another.
Its names (`graph`, `Validation`) differ from the scheduler's, so that one
theorem can speak of both.

**PlanRun** - what executing a plan promises: no threads, waves or logs.

**Scheduler** - `schedule_plan` on a valid plan. `pc` is the position of the
main thread, `w[s]` that of the worker of step `s`, `cancel` how far
`ExecutionControl.cancel` has got (flag, reason, event). An action extends to
the next access of state that another thread uses, so that, for instance, the
cancellation check of a worker and the start of its attempt are two actions.
`Escape` is a Ctrl-C outside the `try` of `_run_wave`, or a second one while
the first is handled: the run is gone, threads may live on. A handler may give
any outcome with any artifacts, raise an `Exception`, raise
`KeyboardInterrupt` (as `tests/test_engine_runner.py:574-586` has it do), or break
its contract and return no `StepResult`: then the worker trips over it
(`ExecuteBroken`), its future holds the `Exception`, and `Collect` makes a failure
of it, of which the events tell nothing.
Left out: progress callbacks, timestamps and texts, `artifact.created` events
(they follow from the result merged).

**Vector** and **Investigation** - the planner's state and the loop around it.
Running a plan is one step here; what justifies it is `ResultsAreComplete` of
the scheduler and the fact that results come back in plan order. A scan of
naabu or nmap finds anything it can find; what HTTP probes add, at which
endpoints, likewise; other follow-ups only add tags, which nothing in the
catalogue requires. Only the strategy `auto` uses the loop; its limits (three
rounds, three actions, cost weight one) are the constants of the model.

**ReconPlan** and **ReconRun** - from a request to a plan, and the plan carried
out. A request is what `recon[...]` was given; a port is known by its rank in
the list of common ports, which naabu and nmap are taken to share. `Pipeline` is
the planner's list of steps in its order, `Selected` what disabled tools and the
strategy leave of it, `ExecutionPlan` adds identities and dependencies. In
`ReconRun` there is one action for each handler, with the evidence it sees, the
replies its command or lookups may give, and the verdict its adapter makes of
them; `Classify` makes the outcome. Steps of a wave run in the order of the plan:
the scheduler merges evidence in that order whatever the threads do, and hands
handlers the evidence of earlier waves only (`EvidenceIsDeterministic`).
`FollowUp` is the plan of a round of Vector's, any sequence of capabilities that
the request allows; each has an execution and evidence of its own, so that one
round stands for all. nmap gives each port a state, `open|filtered` for UDP among
them, or does not list it. Of evidence the ports, the addresses and the state of
discovery are modelled. Overrides that `scan_policy.py:49-62` would know, of profile,
operating system detection, scripts and timing, are none of a request's parameters:
`validate_recon_expression` refuses one that has them (`recon_cmd.py:503`).

**JobRecord**, **JobStore**, **JobLog** - a record and its aggregation; the
repository with several shells as processes, the steps of `save` (temporary
file, `os.replace`), deletes of several jobs, and crashes between any two of
them; and what a repository promises to the one shell that uses it. The
refinement is shown with several shells at once: a job that a second shell has
written or deleted is `Shared` in `JobLog`, and nothing is promised of it any
more; of every other job everything is, whatever happens beside it.

**Session** - one interactive shell. Commands are atomic except a recon run,
which is taken apart: elevation, making a job, running, recording result by
result, and the closing entry with the reported state. An entry carries the
outcome of its step: `StepResult` writes it into the payload, from where
`append_result` classifies it again. Jobs here are simply there; how they reach
the disk is JobStore's matter.

**Templates** - the registry of one shell and its file, with sources that the
user may change at any time. A command is taken apart where a source is read
(`Refresh`, and `Hash` for one that did not compile), where the registry is
written, and where the editor runs; `End` is what each command makes of the
refreshed template. A content stands for its hash and its compilation. Left
out: `TemplateRegistry.remove`, which no command calls; the parsing of `run`'s
inputs; which template is active, which matters only as a default and to
`exit` (`Session`). What no command catches, a source that is not UTF-8 or a
refresh that cannot write, ends the shell: `Stop`, which may come any time.

**Pathfinder** and **Installer** - the search for an executable, over what each
directory on `PATH` and `~/.local/bin` hold under its name (`Holds`: nothing,
the program that is meant, or another one); and the two commands, an action for
each external command of a route, which may fail with or without having done
its work, or end with the shell. `call` is the command with the tools it still
has to see to, `queue` the routes left for the first of them, `tree` its
source directory: none, a checkout, something else, or a file. What was there
before Blackline came may be anything. `outcome` remembers what was reported.

**Clt** - a source of lines, and four phases: `LexLine` and `LexEnd` with the
stack of indentations, the recursive descent of the parser with `open` for the
calls it is in, `Validate`, and the run with `frames` for the blocks it is in.
A line is an indentation and a kind; the last part of the module says what a
source means by its layout alone, without any stack. `NormalizationError` counts
as `ValidationError`. Its names (`text`, `phase`, `CltNext`) differ from those of
`Templates`, so that one module has the theorems of both.

**EventJournal**, **Evidence** and **RunRecords** - the journal as a file of
lines that hold whole events or pieces of them; the rows of
`build_evidence_graph` as a table (`Rows`) of which field of a tool's findings
says what of whom, and the merging of claims; and runs of several steps that use
both. Steps complete in any order, results are gone through in that of the plan.
The loops of `build_evidence_graph` go from `Places` to place, in the order
`Before`, each a tool, a finding, a row and a value; `place` is how far they have
come, and `AddNextClaim` makes the claim of the next one.

**Selection** - what a sequence has at some of its places, for the comprehensions
with a condition of the code.

## Runs

| Run | Instance | Distinct states | Shows |
|---|---|---|---|
| `plan_validation` | all plans of three steps, with any of three names and any dependencies on these and on an unknown one | 250 k | `ValidPlansAreLayered`, `VerdictIsRight`, `Decides` |
| `scheduler` | six plans of three steps, two threads, three outcomes, one artifact kind | 972 k | eight safety invariants of the scheduler, `RecordsAreFinal`, `Terminates`, and `ImplementsPlanRun` |
| `investigation` | two endpoints, the catalogue of `config/vector/recon.json`, three rounds of three actions | 12.6 k | index, completeness, no repetition, identification |
| `jobs` | two shells, two ids, one old file, one crash | 675 k | `JobsAddUp`, `AcknowledgedResultsStay`, `ActiveJobIsThere`, `ImplementsJobLog` |
| `session` | two ids, two runs of up to two results of four outcomes | 1.7 M | `ReportMatchesJob`, `RunIsRecorded`, `ExitsUnwind` |
| `templates` | three sources, two with one name; two contents that compile and one that does not; two edits, one failure, two shells in turn | 2.4 M | `RunIsCurrent`, `RegistrationsSurvive`, `FileIsCurrent` |
| `recon_run` | every target and strategy, over TCP and UDP; lists of ports, numbers of ports, probes and disabled tools with a domain; all pairs of capabilities | 159 k | `PlansAreValid`, `NothingComesLate`, `CoverageIsKept`, `ElevationIsForeseen`, `NegativeIsConclusive` |
| `installer` | two tools, three package managers, one build of two commands, two `PATH`s, four sets of routes, three commands | 696 k | `InstalledIsFound`, `RoutesAreTriedInOrder`, `RemovedMeansGone` |
| `clt` | every source of up to four lines, of four indentations and two conditions | 1.2 M | `VerdictIsRight`, `RunFollowsSource` |
| `records` | ten kinds of run of two to four steps, two runs or one, two failed writes, crashes | 330 k | `ReplayLosesLittle`, `ClaimsCarryTheirSources` |
| `root_exit` | `session`, as root | - | finding 1 |
| `udp_scanned` | the same as `recon_run` | - | finding 2 |

The type invariants are proved, each for every instance: of `PlanValidation`,
`Scheduler`, `Investigation`, `ReconRun`, `JobStore`, `Session`, `Templates`,
`Installer`, `RunRecords` and `Clt`.

Why these bounds are enough:

* *Plans.* Three steps are the least with which a step can be behind two
  others, two waves can precede one, and more work than threads (two) is
  queued. The six plans tell required from optional dependencies, an artifact
  requirement from an order, a plan listed against its order, retries with and
  without backoff, and the inferred groups of legacy plans apart. Three steps
  also give cycles of every length up to three, beside a duplicate or an
  unknown name.
* *Outcomes.* "skipped" and "failed" block dependents, "done" stands for the
  rest; the status of jobs depends on every outcome: `session` has those that make
  a difference, and the old file of `jobs` all that do not fail, to which results
  that fail are added.
* *Investigation.* Two endpoints compete for a budget of three with up to three
  actions each, so that rounds overflow; `RoundsLeft` ends runs at the third.
* *Jobs.* With two jobs a shell deletes its own, another, or both. A second
  crash would meet the same files as the first: nothing but files survives one.
* *Session.* The second run meets a job that has a past, made by a run or not.
* *Recon runs.* One port is among the 100 most common, one among the 5000 but not
  the 1000, and one beyond; no policy draws another line, except that 100 and
  1000 are told apart only by the theorems. Two capabilities in a round give a
  tool two uses, for one action or two.
* *Installer.* One tool has every kind of route: a package manager with an
  inverse and one without, a build whose first command leaves nothing and whose
  second writes the executable. The other has the one route that links into
  `~/.local/bin`, and no identity check. Three commands are an install that is
  cut off, an uninstall that is, and one more that meets what both have left.
* *CLT.* Four lines close two blocks at once, nest an `if` in a branch of another,
  and assign, copy, assign and call. The indentations have a wrong one (2) and a leap
  (0 to 8). An `else` that comes after two blocks end at once takes five lines to
  compile: of it TLC sees nothing, and the theorems `SourcesJudged` and `RunsFollow`,
  for sources of any length, everything.
* *Records.* The runs have facts stated by one, two and three tools, by one
  tool twice, by a tool that ran twice, by one that then failed, by a finding that
  names its source twice, and by nobody. Events are whole, torn or
  without end; with two failures one spoils the line that the other began. A
  third run would meet a file like the second.
* *Templates.* Two edits break a source and mend it, or change it and change it
  back; before the first, sources may be anything. A third shell would find a
  file like the second.

`MaxEntries`, `MaxCreated`, `MaxCrashes`, `MaxResults`, `MaxRuns`, `MaxEdits`,
`MaxFailures`, `MaxStarts`, `MaxCalls`, `MaxEvents`, `MaxFaults`, `MaxLines` and
`Indents` are bounds of the models, not of the program. Symmetry is over job
ids, shells, conditions and contents that compile, in runs that check invariants
and, for jobs, a refinement without fairness, which treats ids alike.
`CHECK_DEADLOCK FALSE` is used where the system ends: validation never does
without stuttering at its verdict, an investigation is over, a shell has ended,
templates are out of shells, the installer out of commands and records out of
runs. In the scheduler, the repository, CLT and recon runs deadlock is checked:
`Settled` and `Finished` are the only ways for the scheduler, a source and a
recon run to rest, so that the parser is shown never to be without a next step.

**Fairness** is assumed in two places. `PlanValidation` is a sequential loop:
it goes on while it can. In `Scheduler` the main thread is scheduled, each
worker makes progress (handlers return, as every command they run has a
timeout; a backoff ends), and a `cancel()` that was begun comes to its end.
Nobody has to cancel, interrupt, or raise.

## Findings

1. `root_exit`: in a shell of root, `exit` closes an elevation that is back at
   once and never gets any further (`core_shell.py:103`), against
   `README.md:67`.
2. `udp_scanned`: with `transport=udp`, naabu, which scans TCP, is planned
   beside an nmap scan of UDP, and then narrows it to the numbers of open TCP
   ports or skips it (`network.py:124`), against `docs/recon-design.md:1101`.

Further disagreements met while modelling, without a run:

* Ctrl-C in a wave drops the results of the whole wave, also of steps that were
  reported completed (`scheduler.py:191`), against `docs/recon-timeline.md:582`;
  `ResultsAreComplete` leaves this case out.
* Parameters are split at every comma, so that of `ports=80,443` nmap scans 80
  (`runner.py:220`), against `README.md:39`.
* `uninstall` deletes whatever `~/.local/bin` has under the name of the tool's
  executable, and any directory at the place of its sources, where the docstring
  says "only the exact source checkout and binary owned by Blackline"
  (`installer.py:446`). `RemovedMeansGone` is about what is left, not about whose
  it was.
* The package is removed by the first manager that has a command for it and
  succeeds (`installer.py:364`), which for one that does not complain of
  packages it does not have need not be the one that installed it.
* A template that is run gets no facts, so that every condition in it is false
  (`template_cmd.py`); the vocabulary of CLT takes words with a hyphen that the
  lexer cannot read.
* A run cancelled before it has a result warns of nothing and leaves its job
  initialized (`recon_cmd.py:77`); compare `docs/recon-timeline.md:583`.
* Who leaves an invalid source in the editor is told that its "last valid
  compilation remains available" (`template_cmd.py:120`), also if there is none
  because the shell was restarted since; `docs/templates.md:17` promises only
  "the in-memory last valid compilation".
* Given `ports` and `top_ports`, naabu scans the ports, nmap the most common
  ones. `CoverageIsKept` leaves this case out.
* `README.md:48` says that `surface` does no port scan; the code and
  `docs/recon-design.md` plan an nmap scan of the 100 most common ports.
* A missing nmap is a failure, where other missing tools are skipped.
* A later step of a tool, even one that failed, takes the place of an earlier one
  before the evidence graph is made (`recon_cmd.py:92`): what only the earlier one
  found is in the job, not in the graph or the report. `docs/recon-timeline.md:529`
  says that "one failing step does not erase successful earlier steps".
  `ClaimsCarryTheirSources` promises nothing of such a step; the run `records` has
  one (httpx, then httpx failing).
* A scan of nmap's is shown as "not found" unless a port is listed as exactly `open`
  or `filtered` (`network.py:176`): ports that never answered, `open|filtered` over
  UDP, or filtered and not listed, count as nothing. `NegativeIsConclusive` does not
  claim more.
* The step of a handler that breaks its contract is recorded as failed, but its
  last event is "started" (`scheduler.py:182`); `EventLifecycle` says so.

## Proofs

All theorems hold for every value of the constants that satisfies the named
assumptions of the modules.

**SchedulerProofs** - `TypeCorrect`, `DependencySafety` (`RunsOnlyWhenReady`),
`RecordsFinal` (`RecordsAreFinal`), `CompleteResults` (`ResultsAreComplete`),
`QuietEnd` (`QuietAtTheEnd`) and `LossesReported` (`LossesAreReported`). They
assume that plans are valid (`PlansOK`, which `PlanValidation` establishes),
that the pool has a thread, and that handlers answer with outcomes. The
invariant is `TypeOK` with four parts. `Books` relates the sets of steps to
each other and to the workers: what is recorded was placed and has no live
worker, evidence comes from recorded steps, and, until an interruption, a step
with a result or a live worker is in flight, collected or recorded. `Position`
says what is known at each position of the main thread, above all that no
worker lives between waves. `Prerequisites` says of every pending step that it
may run with the evidence of the store, and of every live worker that it may
run with what it was given: it is preserved because records are final
(`Final`, which is `RecordsAreFinal`) and evidence only grows. `Announced`
relates the events of the plan to all this.

The second half of the module proves `PoolFits` (`InFlightFitsPool`),
`CancellationStops` (`CancelStopsWork`), `EvidenceDeterministic`
(`EvidenceIsDeterministic`), `EventsTellTheStory` (`EventLifecycle`) and `Implements`
(`ImplementsPlanRun`) from the same assumptions. None of these is inductive, and
`More` is what they need on top of `IInv`. `InFlight`: while futures are submitted
or awaited every live worker is one of them, so that the pool is never short of a
thread. `Lateness`: who is past the check for a cancellation, or has started since,
is one of as many workers as there are threads; only who is past it can become
late, and only once. `Snapshots`: the steps of a wave are given the store as it was
when the wave began, which is only added to between waves, in plan order. `Told`:
what the last event of a step is at each position of its worker, which makes the
shape of its story inductive. For `Implements` a step waits in `PlanRun` until its
"started" event and runs until its answer, retries and backoffs included
(`PhaseOf`): the start of an attempt is `Launch`, and that there is room is
`InFlight` again; an answer, or an end without one, is `Conclude`; what the main
thread skips is `PassOver`; the end of the run is `Close` or `Abandon`, and every
other step is `Cancel` or a stutter.

Its last part is about validation, and about both. `VerdictCorrect`
(`VerdictIsRight`) and `WavesRespectDependencies` (`ValidPlansAreLayered`) hold for
plans of any size; assumed is only that plans are sequences (`SubmittedAreSequences`).
`VerdictIsRight` is not inductive: that no set of steps waits on
itself is known at the end only because it was kept up wave by wave, and that no
wave of `ValidPlansAreLayered` is later than necessary only because the steps that
could be placed next wait for the wave before. `ValidationInv` says that waves partition
what is placed (`Partition`), that each placed step has its dependencies in earlier
waves (`Layered`), that each step of a wave, and each that is ready, waits for the
wave before (`Tight`), that no set of placed steps waits on itself (`NoKnot`: such
a set would have to reach into the newest wave, whose steps wait for older ones
only), and why a stage was reached (`Reasons`).

`ExecutionAdvances` is what `execute_plan` rests on: `Execution` is a plan that is
validated and, once it is valid, scheduled, and then the loop of `schedule_plan`
places at least one step with every group it takes. Nothing in that loop would end
it otherwise; that it does not spin depends on a verdict reached in another module.
The theorem goes from "valid" by `NoKnot` to `Acyclic`, and from there by
`GroupsGoOn` to a group that is not empty: a step with all its dependencies placed
if the plan has any, or else one of the lowest group that is left.

**InvestigationProofs** - `TypeCorrect`, `IndexCorrect` (`IndexAgrees`),
`WorkDoneOnce` (`NoActionTwice`), `IdentificationKept`
(`ProtocolsOnlyImprove`) and `InvestigationComplete` (`NothingOverlooked`), for
every catalogue, policy, budget and set of endpoints. `WorkDoneOnce` rests on
`Carried`: what was selected is completed. `IdentificationKept` needs
`VagueFirst`: evidence without a protocol waits only where nothing is
identified, and behind nothing that identifies. `InvestigationComplete` needs
`NothingLeft`: what is completed was run or is about to be, and a loop that
ended for want of steps had nothing to consider. For this the catalogue may
only have capabilities with a tool (`CatalogHasTools`: otherwise a selected
action would be dropped from the plan and never done), that ask for what tools
report (`CatalogAsksOfThese`), and finitely many actions (`ActionsAreFinite`:
of a nonempty set a best one is chosen). TLC evaluates all of them for the
shipped catalogue.

**ReconRunProofs** - `PlansValid` (`PlansAreValid`), `CoverageKept`
(`CoverageIsKept`), `ElevationForeseen` (`ElevationIsForeseen`),
`NegativeConclusive` (`NegativeIsConclusive`), `EvidenceInTime`
(`NothingComesLate`) and `TypeCorrect`, for every set of
ports (`PortsAreRanks`), of requests (`SituationsOK`) and of sequences of
capabilities (`IntentsOK`). That a plan is valid follows from how
identities count the uses of a tool (`OccurrencesDiffer`) and from dependencies
on the nearest lower group (`ExecutionPlanValid`), whatever steps were selected.
`CoverageIsKept` is not inductive: nmap, when it runs, trusts what evidence says
of a naabu that ran waves before. `PlanFits` keeps what the scans of the plan
were asked to cover, `Discovered` that a complete discovery was made by a naabu
of this very plan; `ScansCover` then compares the two scopes.
`ElevationIsForeseen` needs `PlanFits` as well: nmap's settings are those of the
plan that `requires_elevation` builds for the question, and follow-ups have no
nmap.

`EvidenceInTime` rests on `InTime`: whoever makes evidence of a kind is in a lower
group than whoever looks at it (`FirstPlanLinked`; of addresses, which are not
looked up, because no plan for them has a `dns`), so that it has ended when the
wave is placed; from then on nobody changes what the tool was given. This holds
from the moment a tool runs, not only of a finished run.

**JobStoreProofs** - `TypeCorrect`, `RecordsAddUp` (`JobsAddUp`),
`AcknowledgedKept` (`AcknowledgedResultsStay`), `ActiveJobExists`
(`ActiveJobIsThere`) and `Implements` (`ImplementsJobLog`), for any number of
shells, jobs, results and crashes. Assumed is what older versions leave in a file
(`OldFilesAreOld`: no result of the present shells, and a status and summary that
are missing or right), that outcomes are outcomes, and that the absence of a job
is no job. In the invariant, `Shapes` says that a file is an old one or the one
record that tells of its results (`JobOf`), and a draft always such a record;
`Numbered` that no result has the number of one to come, so that none is there
twice; `Entered` why a shell's job may be gone; `Basis` that the draft of the only
user of a job is the file and one result more until it is renamed, and the file
afterwards; `Kept` that acknowledged results are part of the file's. Part of it
means by places and their ranks (`IsPartOf`), without recursion; a result more keeps it
(`PartOfLonger`), and one that is acknowledged (`PartOfBoth`). In the refinement the log of
a job is the results in its file: what a rename brings about is one step of `JobLog`,
and the writing of a draft before it none. A job that two shells have used is
`Shared`, of which nothing is promised.

**SessionProofs** - `TypeCorrect`, `RunsRecorded` (`RunIsRecorded`), `ReportsTrue`
(`ReportMatchesJob`) and `ExitsLeadOut` (`ExitsUnwind`, of a shell that root does
not run; for root the run `root_exit` refutes it). The invariant follows a run
through the shell: that it is in the active job from its start to its report
(`InTurn`), that what is recorded of it ends that job, in a job made for it is all
there is, and nothing else in the job has its number (`Progress`, `Reported`, both
by `Ends`). `ReportsTrue` then compares two computations of one state: that of the
run from its results, that of the job from its entries, among them the closing one,
which changes no status but "failed" (`DoneChangesNothing`), where none is written.
`ExitsLeadOut` counts: exits in a row and contexts left are never more than three.

**TemplatesProofs** - `TypeCorrect`, `RegistrationsKept` (`RegistrationsSurvive`),
`FileCurrent` (`FileIsCurrent`) and `RunCurrent` (`RunIsCurrent`), for any sources,
contents, edits, failures and restarts; assumed is that contents that compile and
that do not are different, that both differ from nothing, and so do templates. The
invariant says what a command's position tells of its template (`AtWork`), that a
compilation in memory is of the newest content that compiled and that a template
which is "loaded" has the hash of it (`Compilations`), when memory and file agree
(`InStep`), and that what was acknowledged is in both (`Kept`).

The rest of the module is about CLT: `SourcesJudged` (`VerdictIsRight`), `RunsFollow`
(`RunFollowsSource`) and `CltTypeCorrect`, for sources of any length and depth, any
number of conditions, and whatever facts and variables a run is given. Assumed is that
`MaxLines` is a number (any), that indentations are, and that conditions are none of
the other words. No property here is inductive; each compares two readings of one
source, by the stacks of the code and by the layout.

* *Lexer.* `Lexing`: the stack is 0, 4, 8, ... up to the indentation of the last line,
  and the tokens are the layout (`LaidOut`: where each line is among them, behind one
  INDENT, or as many DEDENTs as its indentation is less by fours).
* *Parser.* `Parsed`: `open` has the blocks that the layout has around the line to come,
  one for each step of four, a line or its `else` begins each (`Begins`), and every line
  read is in the block of its layout (`Placed`). That a DEDENT is followed by an `else`
  of the very "if" whose block ends is `ElseOfEnded`; that an `else` taken for an
  operation is none by its layout is the last conjunct. What was read is well formed, so
  that what is refused is so for the line at hand.
* *Validator.* In a tree that was built the labels are the `else` lines of the layout
  (`LabelIs`), so that to know operations by name is to know them by layout.
* *Run.* A line runs where its block does and its branch is taken (`BlockIs`). `Running`
  says of some place in the source that the frames are what is left, from there on, of
  the blocks entered (`Entered`), that whatever is still to run is in one of these or
  in a block that begins later (`Complete`), and that calls and variables are those of
  the lines before (`Behind`). Between one statement and the next there is nothing that
  runs (`GapIs`), so that calls and variables are still right at the next
  (`QuietKeeps`). That a block has a list of its statements is proved by counting
  (`Ordered`).

**InstallerProofs** - `TypeCorrect`, `ReportsAreFound` (`InstalledIsFound`),
`RoutesInOrder` (`RoutesAreTriedInOrder`) and `RemovalsAreTrue` (`RemovedMeansGone`),
for any tools, routes, managers, search paths and commands that fail or are ended.
Assumed is that the tools of a command for all are different (they are the sorted keys
of a dictionary), that the directories are (`PlacesDiffer`), and that building is no
package manager. The invariant says that tools to come have no report yet
(`Reported`), so that what is done to a tool never follows its report within one
command; that the routes that failed and those to come are the routes there are
(`Trying`); and what is gone when (`Removing`). `TruthStays` keeps a report true while
other tools are at hand. That the selection of the usable routes is a sequence
of routes (`KeepingType`) is proved by counting: the ranks of the places that are
kept are as many numbers as there are places, so that each number is a rank.

**RunRecordsProofs** - `Typed` (`TypeOK`), `JournalReplays` (`ReplayLosesLittle`)
and `GraphIsSourced` (`ClaimsCarryTheirSources`), for runs of any length, any tools
and findings, and any number of failed writes and ends of the program. Assumed is
that runs are sequences (`RunsAreSequences`) and that the target is some text
(`TargetIsText`). Of the journal, `Lines` says to which line each write went: they
come in the order of the writes, a whole write is the last of its line (`Ordered`,
`Ended`), a line holds what was written to it (`Kept`, `Sourced`), and nothing twice
(`Once`), as no event is emitted twice (`Fresh`). A lost event is then one whose line
another, broken write went to, and no line has two whole ones, which is what
`ReplayLosesLittle` counts. Of the graph, `Gathered` says whose payloads were
collected, and `Graph` that the claims are those of the places `Behind` the loops:
one for each fact, with the sources of all the places that state it (`Supported`),
in the order of the tools (`ByTools`), and none twice unless one of these places has
it so (`NoneTwice`). What the code makes of a run, exactly what the last step of each
tool says, is `SaidLast`; `LastSuffices` draws the property from it, which says
less: that earlier steps are forgotten is what the code does, not what it should.
That a selection has the selected, in order, is `Selected`, proved by
counting as in the installer.

The assumptions `NothingIsNoJob` of `Session`, `NothingIsNoTemplate` of `Templates` and
`NoJobIsNothing` of `JobStore` say that the value that stands for "nothing" is neither
a job nor a template: in the code it is Python's `None`, or that there is no file.

**Only model-checked:** liveness (`Decides`, `Terminates`), which is out of the
prover's reach.

## Not modelled

* Parsers, adapters and rendering are functions of text, or I/O, without state
  that could go wrong over time.
* Tool preferences: the functions that change the user file are called by no
  command. What is enabled is an input of `ReconRun`.
* In `Clt`: blank lines, comments, words and strings, the vocabulary and its
  registration. The registry of capabilities that is shipped is empty, so that
  what a capability does is not Blackline's.
* In `Installer`: the output of commands, groups of tools (shorter lists), and
  the way in which adapters look for executables that the user names by path or
  through `BLACKLINE_TOOL_BIN`.
* In `RunRecords`: what an event holds besides its identity; payloads of a shape
  that no handler makes. The journal is an observer that those who embed the
  engine attach; the shell itself does not.
* How a tool's output is parsed: `ReconRun` starts from what was found in it,
  and in `Scheduler` a handler may answer anything.
* Temporary files a crash leaves behind, and the history file.
* In `Vector`: provenance, confidence, deltas, reasons, the index by port and
  rules. No decision of recon depends on them.
* In `Session`: the one-shot mode and commands that change no context; the
  loop that asks for a password again is one step with its possible ends.

## Plan

Every component that keeps state over more than one step is modelled, but for those
under *Not modelled*, and every safety and action property that a passing run checks,
and both refinements, are theorems as well. What stays with the runs is liveness. A
change of the code begins at the lines in `map` of `PROJECT.json`: the action, then its
run, then the step of that action in the proofs.
