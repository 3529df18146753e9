# TLA+ models of tradingchassis-ops-lab

`tc` is a command line tool that runs one command per process. Commands never
talk to each other: they meet in the files of a `run_id`, which they read,
append to and rewrite without locks, renames or deletions. What can go wrong
here is what happens when two commands run at once, when a command dies between
two writes, and when the pieces of evidence that a run leaves behind disagree.
These modules model the commands at that grain: one step per file operation.

## Inventory

| Component | State it keeps | Operations | Interacts through | Correct when |
|---|---|---|---|---|
| Kill switch (`safety/`) | `runtime/kill_switch/<id>.state.json`, `<id>.events.jsonl` | `kill activate`, `clear`, `status` | mirrors events in the run's `journal.jsonl`, patches `metadata.json` | nothing takes effect that was not logged first; a completed activation stays in force until a clear |
| Run lifecycles (`runs/`) | the run directory: `run_spec.yaml`, `metadata.json`, `journal.jsonl`, `metrics.json`, `report.md` | `run init`, `backtest`, `paper` | paper reads the kill switch state; everybody else patches what the lifecycle writes | one lifecycle owns a run; a status is backed by the other files; the journal is closed |
| Connectivity (`connectivity/`) | `connectivity_readiness.json`, `connectivity_probe.json` | `connectivity readiness`, `probe` | patch `metadata.json` and `report.md`, append to the journal | a section or line never precedes its artifact; no update is lost when commands take turns |
| Reconciliation (`reconciliation/`) | `reconciliation_result.json` | `reconcile check` | appends to the journal; called by two drills | the verdict is about values, not spellings; exit code, status and pass flag agree |
| Drills (`drills/`) | `drills/<name>.json` | `drill stale-market-data`, `reconciliation-mismatch`, `restart-recovery` | rewrite the reconciliation result, append to the journal | a fault that was injected is reported as detected |
| Evidence (`evidence/`) | `artifacts/evidence/<a>__<b>/` | `evidence compare` | reads the files of two runs | what it wrote fits together although it was read at different moments; pairs of runs do not share a directory |
| Metrics (`observability/`) | none | `metrics export`, `serve` | read all files of all runs, one thread per scrape | gauges fit together; one bad run does not take down a scrape; counters never fall |
| Run spec (`runs/spec.py`, `hashing.py`) | none | `spec validate`, loading | every lifecycle and connectivity command | a bad spec stops a command before it touches a file; the hash does not depend on spelling |
| Data (`data/`) | `data/datasets`, `data/fingerprints` | `data prepare`, `fingerprint` | the backtest reads the dataset | a fingerprint is of one version of the files |
| Engine (`engines/nautilus/`) | none of its own | called by `run backtest` | reads the dataset, returns a result or raises | a result is about a whole dataset; an exception ends the run as failed |

The hard behaviours are interleavings of commands on shared files, torn files
(`write_text` truncates when it opens and writes when it closes), stale copies
written back (four commands read, change and rewrite `metadata.json`), crashes
between any two writes, verdicts computed in several places, and readers that put one
answer together from files read at different moments. There are no threads
inside a command (the server has one per scrape, which share nothing), no
retries and no messages; the only timeout is that of the probe. `PROJECT.json` lists each
hazard at its line with the properties aimed at it.

## Modules

| Module | Models |
|---|---|
| `Files` | what a file holds: absent, truncated, garbled, or a value; what a write leaves behind |
| `Workspace` | the files of one `run_id`, the invocations, and their types |
| `KillSwitch` | `safety/kill_switch.py` with the two commands of `cli.py` |
| `Lifecycle` | `runs/artifacts.py`, `metadata.py`, `journal.py`, `paper.py`, `backtest.py` |
| `Connectivity` | the writing half of `connectivity/readiness.py` and `probe.py` |
| `RunPhases` | abstract: the life of a run as its journal tells it |
| `OpsLab` | composes `KillSwitch`, `Lifecycle` and `Connectivity` over one workspace |
| `Reconciliation` | `reconciliation/checks.py` as operators on payloads |
| `ReconcileAlgorithm` | the verdict over enumerated payloads against reference definitions |
| `ReconcileCommands` | `reconcile check` and the three drills on one run directory |
| `DrillScrape` | the part of a `metrics export` about reconciliation and drills, next to `ReconcileCommands` |
| `RunScrape` | `metrics export` and `serve` next to the commands of `OpsLab`: one run file by file, its neighbours |
| `EvidenceGauges` | the evidence sums of a server while comparisons rewrite their files |
| `Numbers` | powers of ten, for the digits of decimals and of metric values |
| `MetricValue` | timestamps, durations and the text of a float in `metrics.py` |
| `EvidenceCompare` | `evidence/compare.py` and `write.py` next to the commands of `OpsLab` |
| `PairId` | the pair directory of `evidence/write.py`, on strings |
| `Probe` | the GET of `connectivity/probe.py`: its redirections, waits, exceptions and the recorded state |
| `RunSpec` | `runs/spec.py`, `hashing.py` and what readiness evaluates |
| `Datasets` | `data/prepare.py`, `fingerprint.py`, the engine's reading of the data and its strategy |
| `KillSwitchProofs` | theorems: the kill switch commands |
| `OpsLabProofs` | theorems: types, ownership, the safety gate and serial histories of `OpsLab` |
| `LifecycleProofs` | theorems: what `metadata.json`, `report.md` and the journal may claim; the refinement of `RunPhases`; what a reader may rely on |
| `ReconciliationLemmas` | lemmas about the verdict of a reconciliation, and about powers of ten |
| `DrillProofs` | theorems: checks, drills and the export next to them |
| `EvidenceProofs` | theorems: a comparison next to the commands whose runs it compares |
| `RunScrapeProofs` | theorems: the metrics of a run next to the commands that write it |
| `StandaloneProofs` | theorems: the probe, the data commands, the evidence gauges; reconciliation verdicts, metric values, pair directories, run specs, for inputs of any size |
| `MC*` | constants for TLC |

`RunScrape` and `EvidenceCompare` extend `OpsLab`, and `DrillScrape` extends
`ReconcileCommands`: the readers run next to the unchanged writers. `Probe` and
`RunSpec` refine data that `Connectivity` leaves open (the outcome of a probe, the
state of readiness) and have no files. `MCAlgorithms` and `MCStandalone` bring
components that share nothing into one model: in each behaviour one of them gets
inputs, or is awake, and the others stay as they began.

An invocation is an element of `Proc`, with a program counter `pc[p]` that names
its next file operation, the command `op[p]` and the values in its memory
(`seen`: the kill switch status it read, `held`: its metadata dict, `text`: its
report). One action is one operation: `OpenState` truncates the state file,
`FlushState` writes it, `PatchRead` reads `metadata.json`, and so on; the order
of the actions is the order of the calls. Conditions and early returns are the
targets of `Goto`. `Crash` ends an invocation anywhere and leaves the files as
they are; it stands for a kill, a power cut, and an `OSError` that ends the
command, handled or not. `before[p]`, a history variable, is the set of
invocations that had ended when `p` began; nothing in the model reads it except
properties.

What is data and what is not:

- Timestamps and event ids are named by the invocation that took them, so
  `stateFile.since = p` reads "`active_since_utc` is the time at which p ran".
- `metadata.json` is its status, the recorded kill switch state, the
  `lifecycle_outcome`, and which connectivity keys it has. `report.md` is its
  status and its sections. Other fields are constant for a run or only shown.
- A writer that closes a file after another one has truncated or written it
  leaves its own text or, when the other's text was longer, a garbled file
  (`Flush`).
- One journal line is one write. An `OSError` in the middle of a line is left out.
- The spec is valid and of the right mode; a bad one exits before anything happens.
- Decimals are sign, coefficient and exponent, as `Decimal` parses them; NaN and
  infinities are left out. Everything `_validate_payload` can reject is one
  nondeterministic rejection (`InvalidInputs`).

Readers add to this:

- A request or comparison holds what it has loaded so far (`took`, `payload`);
  each file is one action, in the order of the code. What it renders or writes is
  made from that memory only.
- The other runs of a scrape (`Neighbour`) are finished and healthy; the other
  run of a comparison is finished or missing, and settled at the first look.
- An evidence payload keeps the values that commands can change; journal events
  are compared by name, as the code does.
- In `Probe` time is counted in ticks, and only while the program waits on a
  socket: one `connect` per address, a handshake, a `send`, one `recv` per piece of
  an answer's head or of a redirection's body. Each gets the whole timeout, or ends
  earlier when the system gives up (`SystemTimeout`). Looking up a name has no limit.
- `urlopen` follows redirections, at most 37 (`Redirects`), to `http`, `https` or
  `ftp`. Each starts another hop of `Probe`, and only there are handshakes and ftp
  servers met: the URL of the command is `http` on loopback. `reached` says how far
  the last hop came. What raises before a hop contacts anybody (a path with a space
  or a character beyond ASCII passes the validation) is `NotARequest`.
- A dataset file is its number of rows, which stands for content and size.

`OpsLab` takes `Scenarios`: which commands each invocation may run together, which
of them have ended before the others begin, and how many may crash. `RunScrape`, `EvidenceCompare` and `DrillScrape` add
to a scenario how many requests or comparisons it has. A step is taken when some
scenario still allows it. Scenarios are bounds for TLC, not part of the program,
as are `MaxCrashes`, `MaxDeadWriters`, `MaxAnswers`, `Addresses` and `Pieces`;
`Redirects` is urllib's own limit, lower in the run.
`ReconcileCommands` keeps its own workspace: its commands share with the
lifecycle only the existence of artifacts (`LifecycleCreates`) and the journal,
whose other lines it ignores.

## What the runs check

Each property is stated where it is defined; each has a mutant, a plausible slip
in the code, that violates it.

| Run | Bounds | Shows |
|---|---|---|
| `kill_switch` | 3 invocations, activate or clear, unlimited crashes, with and without a run | `AuditBeforeState`, `JournalMirrorsAudit`, `NoLostActivation`, `SerialAuditChain`, and `WedgeIsPermanent`: a torn state file is never repaired |
| `patch` | a paper run beside an activation, and after one beside a clear or another, 1 crash; a paper run, a readiness and an activation, 1 crash; a paper run, a readiness and a probe, no crash; a readiness beside a probe or an activation, 1 crash | `GateHonoured`: a paper run that begins after a completed activation does not start its session unless a clear ran; `OutcomeTellsBranch`, `SectionsBacked`, `StatusBacked`, `SerialKeepsUpdates` |
| `race` | two lifecycles of any kind, 1 crash; a paper run, another run and an activation, no crash; a lifecycle and a probe, or a paper run and an activation, 1 crash | `OneOwner`; `JournalImplementsPhases`: the journal refines `RunPhases`; `CommandsEnd`, `OwnerClosesJournal` under fairness |
| `algorithms` | 18 spellings of numbers, books of up to two orders, ages around the limit in half seconds; run ids of up to 2 characters of 6 kinds, and 4 of 2 kinds; 165 numbers; specs with up to two names per list, all environments | `PositionByValue`, `OrdersByContent`, `StaleBeyondLimit`, `VerdictsAgree`; `PairsApart`; `GaugesOfTime`; `ReadinessByEnvironment`, `HashIgnoresSpelling` |
| `drills` | a check, a stale or restart drill, a stale or mismatch drill; two commands and an export; unlimited crashes | `DrillsPass`, `RerunRepairs`, `LinesBacked`, `CountedLinesShown` |
| `scrape` | a backtest or paper run beside a probe or readiness, 1 request; a backtest and an activation, 1 crash, 1 request; the same without a crash, 2 requests | `GaugesAgree`, `NothingHidden`, `CountersNeverFall` |
| `evidence` | a backtest and a probe or an activation, or a run of any mode with 1 crash, beside 1 comparison; a backtest and 2 comparisons, one of which may crash | `EvidenceFits`, `MissingOnlyIfMissing`, `PairAgrees` |
| `standalone` | 2 addresses, 3 pieces, 2 redirections, timeout of 3 ticks, a system that gives up after 2; 3 data commands, 1 crash; 3 comparisons about 2 pairs, 2 answers, 1 crash | `StateTellsExchange`, `ProbeBounded`, `AwakeProbeEnds`; `FingerprintOfFixture`, `BacktestSeesAll`; `EveryPairAccounted` |
| `rerun`, `recovery`, `scrape_active`, `timestamp_second` | violations | see findings |

Three invocations are enough for the patterns that matter: two that overlap and
one that comes before, between or after. In `patch` the third writer lets two
stale copies cross. A reader needs only two writers beside it: it takes each file
once, so what it can mix is what two commands did between its steps. One crash is
enough to leave each file torn once; the kill switch and drill runs crash without
limit. The full mix of commands per invocation exceeds a few minutes of TLC, so
each scenario has the commands that its properties relate: a paper run meets an
activation, or what follows one that has ended, but not an activation and a clear
that overlap each other, which meet only in `kill_switch`. Deadlock is not checked,
because every command ends and then nothing is left to do.

`kill_switch` uses symmetry over invocations and `evidence` over the two
comparisons; neither checks a liveness property. `race` and `standalone` have no
symmetry.

Fairness is `WF_vars(Step(p))` per invocation: the operating system runs every
process that was started. Nobody has to start a command, nothing has to crash,
and no branch is favoured: a probe may time out or the engine may raise every
time. Weak fairness suffices, since a step that is enabled stays enabled: no
command waits for another one. `ProbeFairness` is weak fairness of look-ups, of
the probe's own steps and of the timeouts: a wait that lasts long enough is ended by the
operating system. Nothing is assumed of any host, which may never answer.

What the program does *not* guarantee, and the models show on the way:

- Updates of `metadata.json` by overlapping commands can be lost, which is why
  `SerialKeepsUpdates` speaks of commands that take turns. `StatusBacked` is
  what survives: a lost update can make the status older, never wrong.
- Overlapping kill commands can break the `previous_state` chain of the audit
  log, and a clear that overlaps an activation may win. `NoLostActivation` is
  the guarantee that is left.
- After a kill command has patched `metadata.json`, the `lifecycle_outcome` is
  gone; `OutcomeTellsBranch` speaks of the outcomes that are still there.
- A run is shown by a scrape, and compared, while its status is still `running`:
  `metrics.json` is written before the final status. `GaugesAgree` and
  `EvidenceFits` say what holds then.
- Pair directories of run ids with adjacent underscores can coincide; `PairsApart`
  says exactly for which ids they cannot.
- Operations after a crash: the state file and the run directory are never
  repaired; result and drill files are, by the next command (`RerunRepairs`).

### Findings

- `rerun`: `docs/runbooks/artifact-health.md` says that re-running a lifecycle
  command overwrites the artifact directory. `initialize_run_artifacts` refuses
  an existing directory, so none of the runbook's "Re-run" recoveries works for
  the same `run_id`.
- `recovery`: a comment in `observability/metrics.py` reads
  `simulated_recovery_ok` as "artifact check passes". The restart drill writes
  that outcome and `pass: true` without looking at its check.
- `scrape_active`: `docs/runbooks/safety-gate.md` expects the gauge to show 2 when
  the switch is active. The gauge comes from `metadata.json`. An activation patches
  the snapshot into it and ends; a lifecycle that is still running then ends with a
  `write_metadata` of the dict it built at its start, which has no snapshot, and the
  gauge shows 0. `GaugeShowsActive` is about activations that have patched the file,
  so that nothing else than such a write can violate it.
- `timestamp_second`: `format(value, "g")` keeps six digits, and timestamps have
  ten. A start time with microseconds is exported as `1.78e+09` or the like: in
  the run wrong by more than a second, in general by up to 5000. Durations are subtracted before that and lose only what is
  behind their sixth digit.

Noted while reading, without a run: `docs/failure-modes.md` has `probe_timeout` for
endpoints slower than `--timeout-ms`, but the timeout limits each wait, and an endpoint
that answers in pieces, or redirects, is `probe_ok` after longer (`ProbeBounded` has
the bound that holds); `probe_unknown` is also the state of a path that cannot be
requested, with nothing sent; the same page lists exit 0 and an artifact for an invalid
readiness block, which `load_run_spec` turns into exit 1 without one; and
`backtest_safety_evaluated` becomes true when a kill command has patched a backtest's
metadata, next to a note that the gate applies to paper runs only.

## What is proved

TLC checks three invocations or so; the theorems are about every set `Proc`, every
set of scenarios, any number of crashes, and inputs of any length. Each states a
property of the table above, and nearly all rest on an inductive invariant that TLC
had checked on the run's instance before it was proved.

### Assumptions

| Assumption | Says | Why the code justifies it |
|---|---|---|
| `ProcAssumption`, `FileAssumption` (`Workspace`) | the null author is no invocation, and no marker for an unreadable file is a file content or an invocation | the markers are model values that stand for "no file", "empty", "does not parse" |
| `ScenarioAssumption`, `PlanAssumption`, `ExportAssumption` | a scenario has the shape of a scenario | they bound TLC only |
| `TickAssumption`, `PayloadAssumption` | a second has ticks; times are whole ticks and limits positive or null; quantities are strings, averages and prices strings or null, and a string parses to a decimal or not at all | `_validate_payload` rejects the others; NaN and infinities are left out |
| `DecimalAssumption` (`ReconcileAlgorithm`) | null and the marker for a string that does not parse are apart, and neither is a decimal | `_normalize_position` keeps `None` apart, `_parse_decimal` raises |
| `FixtureAssumption` (`ReconcileCommands`) | the clock is at least 61 seconds past the stale fixture's timestamp; null is no number | that timestamp is the beginning of 2020 and its limit 60 seconds |
| `TextAssumption` (`ReconcileCommands`, `RunSpec`) | a JSON text is not "no file"; null, a non-string and a non-list are apart from strings, lists and blocks; environment names are not empty | YAML and JSON types are apart; the name pattern wants one character |
| `RawAssumption`, `ProbeAssumption`, `RowAssumption` | run ids are sequences of characters; timeout, addresses and pieces are positive, the limit of redirections and the system's timeout numbers; the fixture has rows | types and checks of the command line; the committed fixture |
| `ApartAssumption` (`EvidenceCompare`) | no invocation is both a comparison and another command | an invocation of `tc` runs one command |
| `SideAssumption`, `ComparerAssumption` (`EvidenceCompare`), `RunAssumption`, `RequestAssumption` (`RunScrape`) | the run is a backtest or a paper run; finitely many neighbours, the run itself not among them; a scenario's counts of comparisons, crashes and requests are numbers | they name the shape of the instance |
| `ValueAssumption` (`MetricValue`) | a moment is whole seconds since 1970 and microseconds | `datetime.timestamp()` of the times that the commands record |
| `EvidenceAssumption` (`EvidenceGauges`) | finitely many pair directories, and markers that are no status | they are listed from a disk |

### Kill switch (`KillSwitchProofs`)

- `KillTypeCorrect` (`TypeOK`). Not inductive alone: a kill program counter must
  belong to a kill command (`KillOpsFit`).
- `AuditComesFirst` (`AuditBeforeState`). The state that a command is going to write
  was announced, and the `active_since` it carries over from its early read names a
  logged activation (`AnnouncedInv`); the log only grows, so both still hold when the
  write happens.
- `NoActivationLost` (`NoLostActivation`). With `HistoryInv`: what had ended before a
  command began is ended still. Every write of the state file is then by the
  activation itself, by another activation, or by a clear that it does not precede.
- `WedgesLast` (`WedgeIsPermanent`, an action property). A command reads the state
  file before it writes it, so a writer would have to be past its read already.
- `JournalIsMirror` (`JournalMirrorsAudit`). `MirrorInv`: a command is in the audit log
  when it comes to its journal line, and only commands past that line have one.
- `ChainUnbroken` (`SerialAuditChain`). `ChainInv` says what the file, the log and the
  metadata are like while nobody or exactly one command is under way, step by step
  (what it read, announced, and has written).

### Runs (`OpsLabProofs`, `LifecycleProofs`)

The theorems are about `Spec` of `OpsLab`: kill switch, lifecycles and connectivity
together. Steps of the kill switch carry over from `KillSwitchProofs`, whose lemmas
are stated for actions.

- `OpsTypeCorrect` (`OpsTypeOK`). With `PresentInv`: nothing is deleted, so what a
  command found or made is there when it goes on.
- `OneOwnerAlways` (`OneOwner`). `OwnerInv`: one lifecycle at most is past its
  `mkdir`, and the lifecycle lines are its own.
- `GateIsHonoured` (`GateHonoured`). While an activation is over and no clear can
  interfere, the state file blocks (`DurableInv`); so a paper run that began later
  has seen it active or not looked yet (`GateInv`), one that has not passed the gate
  has written nothing (`SilentInv`), and only one that read no active switch
  executes (`ExecInv`).
- `ActivationsOutlastRuns`: `NoLostActivation` again, next to all other commands.
- `SerialUpdatesKept` (`SerialKeepsUpdates`): commands that do not overlap and do not
  fail lose none of each other's updates. `SerialInv`: nobody is under way but the
  one that moves; at rest, everything that ended is in `metadata.json` (`Settled`);
  and on the way there, a kill command changes the switch before the file follows
  (`KillKeeps`), a connectivity command's key is in its copy and then in the file
  (`SectionKeeps`), and a lifecycle that got past `mkdir` is the first command of all,
  so that between two of its saves the file is what it holds (`RunKeeps`).
- `SectionsAreBacked` (`SectionsBacked`). `CopiesBacked`: every copy of
  `metadata.json` or `report.md` in a command's memory is backed too, so writing it
  back is harmless.
- `StatusIsBacked` and `OutcomeTells` (`StatusBacked`, `OutcomeTellsBranch`).
  `StatusInv`: the status in any file or memory claims no more than journal, metrics
  and report hold already; until the owner has copied the spec there is nothing to
  copy (`FreshInv`); and each step of the owner has its progress (`OwnerStates`).
- `JournalImplements` (`JournalImplementsPhases`): the refinement. The mapping takes
  the journal to the phase that its lifecycle lines spell and to the number of
  heartbeats. `PhaseInv` ties the phase to the owner's program counter, so that each
  line the owner appends is a step of `RunPhases`, and every other step a stutter.

### Readers of a live run (`EvidenceProofs`, `RunScrapeProofs`)

A comparison or a scrape takes a file at a time while commands go on writing. What it
puts together is right because of two things that `LifecycleProofs` states for all
readers (`ReaderInv`): the order in which the writers leave their files (`WriterInv`:
who has closed `metrics.json` has appended the lines that it reports, and not yet the
final status), and what only grows once it is there, so that a file read early bounds
those read later (`CountLogged`, `MetricsStay`, `EndedStays`).

- `EvidenceAlwaysFits`, `MissingMeansMissing` (`EvidenceFits`, `MissingOnlyIfMissing`).
  `EvidenceInv` follows a comparison through its steps: at each one, what it has taken
  is what the files still hold, or tells no more than they do; and a run whose report
  was complete when it began is complete at every later look.
- `LastPairAgrees` (`PairAgrees`): a comparison that began after all others finds
  nobody who could write between its two files.
- `GaugesAlwaysAgree` (`GaugesAgree`). `GaugesInv`: the queue of a request holds every
  run once, what has been loaded is bounded by the files (`TookInv`), and a run is moved
  to the body only from a sample that fits (`SampleFits`).
- `CountersOnlyRise` (`CountersNeverFall`, an action property). What an answer counted
  is the beginning of what any later one read (`CountersInv`), because the journal only
  grows; the property itself sees only the last answer.
- `NothingIsHidden` (`NothingHidden`). `NeighboursInv`: each neighbour is in the queue
  or in the body, whatever became of the run before it. For a run at rest, `QuietInv`:
  as long as nothing has begun since an answer was asked for, its sample is what the
  files hold. `WholeInv`: commands that took turns leave those files whole and
  the switch as the last kill command set it, on top of `SerialInv`.

### Reconciliation and drills (`ReconciliationLemmas`, `StandaloneProofs`, `DrillProofs`)

- `VerdictsAlwaysAgree` (`VerdictsAgree`). Every comparison returns one of four
  severities (`SeveritiesOfChecks`), the status is the worst of them
  (`RollupIsWorst`), and on every such set exit code and pass flag agree
  (`ExitCodeMatchesPass`).
- `StalenessIsExact` (`StaleBeyondLimit`), for every limit, time and timestamp.
- `PositionIsByValue` (`PositionByValue`), for decimals of any number of digits and any
  exponent. What `_render_decimal` leaves has no zero to strip, and two such texts with
  the same value are the same (`CanonNormal`, `NormalUnique`); so comparing texts is
  comparing values (`CanonDecides`). The zeros that are stripped are the largest power
  of ten that divides the digits, and an equation between values becomes one between
  digits by cancelling powers of ten. The facts about powers of ten (`TenToIs`,
  `TenToGrows`, `TenToAdds`) need an induction, which is made here by the least number
  that fails (`LeastMember`, from `WFMin`), because the library's induction theorems
  cannot be instantiated.
- `OrdersAreByContent` (`OrdersByContent`), for books of any length: once both
  canonicalise, ids are distinct on each side, and `SameIds` with agreement id by id is
  the same as agreement of the two sets of orders in both directions.
- `DrillsAlwaysPass`, `LinesAreBacked`, `RerunsRepair` (`DrillsPass`, `LinesBacked`,
  `RerunRepairs`), for the commands next to any number of exports. `SharedInv` has
  what each command carries from its own comparison, which the fixtures decide
  (`CommandInv`); that readable reports of a fixture drill passed, although
  several commands write them (`FileInv`); whose line is last (`LineInv`); and what
  the last reconciliation has done to its file while it is alone (`RepairInv`).
- `CountedLinesAreShown` (`CountedLinesShown`). `ScrapeInv`: what the exporter has
  read, or will read, is there for every line that it counted.

### Run specs and pair directories (`StandaloneProofs`)

- `HashIsOfContent` (`HashIgnoresSpelling`) for specs with lists of any length: the
  stripped spec passes and fails the same validators, field by field, and has the
  same normal form (`PlainSpec`).
- `ReadinessIsOfEnvironment` (`ReadinessByEnvironment`). A loaded block has distinct
  names (`LoadedBlock`), so counting list items counts names (`AsManyValues`), and
  present and missing ones add up to all (`PartsCountUp`).
- `PairsStayApart` (`PairsApart`). In the joined name of an id that cannot hide the
  separator, the first double underscore is the separator (`SeparatorComesFirst`), so
  two equal names have equal parts (`JoinSeparates`).

### Probe, data, gauges (`StandaloneProofs`)

- `TimeIsBounded`, `StatesTellExchange` (`ProbeBounded`, `StateTellsExchange`), from one
  invariant: what each phase says about the hop (`PhaseInv`), and the budget
  `waited <= Waits * Timeout` (`BudgetInv`), where `Waits` counts the addresses and
  pieces of the hop that are used up, and `PastHops` for the hops behind it. The bound
  has a handshake per redirection, which is counted when the hop begins and spent, or
  not, when it connects. `ProbeBounded` alone does not see how many waits are left.
- `FingerprintsTell`, `BacktestsSeeAll` (`FingerprintOfFixture`, `BacktestSeesAll`).
  A prepare that is alone finds its file empty and leaves the fixture
  (`PrepareInv`); a command that began after it takes the fixture (`PrintInv`),
  because whoever could disturb it had ended before.
- `PairsAreAccounted` (`EveryPairAccounted`). Reading a file moves its pair from the
  list to a count or to the comments, which keeps the sum (`KeptInv`); and as long as
  nobody writes, counts and remaining files make up the files, status by status
  (`PartsInv`).
- `TimesAreShown` (`GaugesOfTime`), for moments with up to ten digits of seconds.
  Rounding to a unit is monotone and keeps its multiples (`Rounding`), so a rounded
  number stays between the powers of ten that enclose it (`RangeIsKept`): two moments
  of different lengths are kept apart by the power between them, and two of one length
  are rounded to the same unit (`OrderIsKept`).

The theorems on verdicts, specs, pair directories, metric values, the probe, data and
evidence gauges are about the component's own specification (`AlgSpec`, `PairIdSpec`,
`ValueSpec`, `RunSpecSpec`, `ProbeSpec`, `DataSpec`, `GaugesSpec`); the runs
`algorithms` and `standalone` check the same properties on models that contain those
behaviours.

### Only model-checked

- `CommandsEnd`, `OwnerClosesJournal`, `AwakeProbeEnds`: liveness, fairness and
  ENABLED are beyond the prover.

## Plan

Modelled: every component of the inventory, as described above; proved: every
safety and action property of the passing runs. Nothing is left but the liveness
properties, which stay with TLC.

## Not modelled

- Wording and layout: report templates beyond status and sections, labels and HELP
  lines of metrics, the evidence markdown beyond which comparison it tells of.
- NautilusTrader and pandas: the engine returns a result or raises; of its input
  the rows are counted. The strategy's order counters stay zero, since it never
  submits an order.
- The other fields of a run spec: they repeat the kinds of field in `RunSpec`.
- urllib's proxies, and the HTTP server around a scrape.
- Floating point: a difference of two timestamps is exact in `MetricValue`.
- Option parsing, logging (an empty placeholder), dashboards and deployment files.
