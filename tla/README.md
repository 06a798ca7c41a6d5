# ScanIt in TLA+

ScanIt audits the security posture of an Arch Linux workstation: a command line
selects checks, a runner calls them one after the other, each check reads files
or asks programs of a system that keeps changing, and a report, a score, a
baseline delta and an exit status follow from the findings.  This directory
holds TLA+ specifications of that program, the TLC configurations that check
them on small instances, and proofs for TLAPS of what holds for every instance.

## 1. The system

| Component | State it keeps | Operations | Interacts with |
|---|---|---|---|
| Findings and reports (`models.py`) | the list of findings | `risk_score`, `coverage`, `as_dict` | produced by the checks, read by everything after them |
| Audit runner (`runner.py`) | the report under construction, the position in the list of checks | `run_checks` | calls every check; turns exceptions into error findings |
| Command line (`cli.py`, `__main__.py`) | arguments, selection, report, delta, exit status | `main`, `report_fails_at` | registry, runner, comparison, renderers |
| Comparison (`comparison.py`) | none of its own; the baseline file lives between invocations | `compare_with_baseline` | the report of an earlier invocation |
| Renderers (`reporters.py`) | none | `render_json`, `render_sarif`, `render_text` | report and delta |
| Registry, context (`registry.py`, `context.py`) | the list of checks; home, root, executor | `builtin_checks`, `ScanContext.local` | command line, checks |
| Command executor (`commands.py`) | none | `LocalCommandExecutor.run` | every check that asks a program |
| Permission checks (`checks/filesystem.py`, `ssh_keys.py`, `accounts.py`) | lists of unsafe and of unreadable paths | nine `run` methods | the file system |
| Tree walks (`checks/filesystem.py`) | the metadata collected, the errors, the number of inspected paths | `_inspect_etc_tree`, three `run` methods | the file system, through `rglob` |
| Command checks (`firewall.py`, `ssh.py`, `package_trust.py`, `packages.py`, `vulnerabilities.py`, `listeners.py`, `systemd_services.py`, `time_sync.py`) | the results of their commands | nine `run` methods | executor |
| Sudo policy checks (`sudo_policy.py`) | the texts read, matches, errors | four `run` methods | `/etc/sudoers`, `/etc/sudoers.d`, visudo |
| Systemd execution paths (`systemd_execution.py`) | the inventory, the properties of each service, unsafe paths, errors | one `run` method | systemctl, the file system |
| Single controls (`kernel.py`, `network.py`, `boot.py`, `security_modules.py`, `storage.py`, `accounts.py`, `packages.py`) | the values read | ten `run` methods | `/proc`, `/sys`, `/etc`, lsblk |
| Browser checks (`browser_*.py`, `firefox_preferences.py`) | profiles found, extensions, preferences | five `run` methods | home directory, ps |

What is hard in it is not parallelism inside the program, which is sequential,
but the world outside.  Every look at a path is a system call, and other
processes run between any two of them; directories are listed first (or
lazily) and read later; a command may be missing, refused or time out, and its
diagnostics look like its output; a check may raise in the middle; the baseline
is read after the scan; the file that one invocation prints under a filter is
the baseline of the next.  What has to be right is the relation between what
was observed and what is claimed: no exposure in reach is overlooked, no pass
is claimed without evidence, no failure is claimed that was never seen, and
nothing is lost between a check and the reader of the report.

`PROJECT.json` lists the components with their files, and the hazards with the
line where each bites and the properties that would show it.

## 2. Modules

The vocabulary is shared; each component has a module of its own; an `MC`
module gives the constants their values for TLC and nothing else.

    Findings ── Runner ──────────── Cli ── MCCli, CliProofs
        │          └── RunnerProofs ────────────┘
        └────── Comparison ── Cli
                   └── BaselineCycle ── MCBaselineCycle, BaselineProofs

    CheckContract  <═ implemented by ═  PathScan ── MCPathScan, PathScanProofs
                   <═ implemented by ═  EvidenceScan
    EtcTree ── MCEtcTree, EtcTreeProofs

    Lists ── Cli, CommandScan
        └── ListProofs ── CliProofs, CommandProofs, EvidenceProofs

    Evidence ── CommandScan ── MCCommandScan, CommandProofs
        ├── SudoPolicy ────┐
        ├── ServicePaths ──┤
        ├── Browser ───────┼── EvidenceScan ── MCEvidenceScan, EvidenceProofs
        └── Controls ──────┘

**Lists**.  `ItemsAt` is a Python list comprehension with a condition: the items
of a list at a set of positions, in their order.  It is written with the k-th
smallest position (`Ascending`) instead of a recursion, so that it can be proved
about.

**Findings** (`models.py`).  A finding is a record of identifier, area, status,
severity and confidence.  The score is computed exactly, in tenths; where the
exact total is half way between two integers both are allowed, since the code
rounds a sum of binary fractions.

**Runner** (`runner.py`).  One action per turn of the loop: `CheckReturns`,
`CheckRaises`, and `Finish`; `Interrupt` is a Ctrl-C, which is no `Exception`
and loses the report.  `author` and `raised` record which check produced which
finding; the code does not keep them.

**Comparison** (`comparison.py`).  Pure operators: what the baseline document
maps identifiers to (the last item wins), and the four lists of the delta.

**Cli** (`cli.py`, `reporters.py`).  One action per step of `main`, in the order
of the code: the rejection of `--baseline --sarif`, the scope with its root
warning, the selection errors in the order of their tests, `--list-checks`, the
scan (the actions of Runner), the baseline, the rendering, the exit.  `stage` is
the place in `main`; `stdout`, `stderr` and `exit` are what an observer sees.
Ctrl-C (`CliInterrupt`) is possible at every stage; no KeyboardInterrupt is caught
anywhere, so it leaves `main` from where it is.
`SarifRules` and `SarifLevel` are the loops of `render_sarif`.  `Invocations` are
the argument records argparse accepts.

**BaselineCycle**.  The workflow of the README, `scanit --json > baseline.json`
followed by `scanit --baseline baseline.json`, with one invocation per step:
`Establish` saves a report, `Peek` compares, `Roll` compares and replaces the
file.  `ledger` is what somebody believes to fail who only reads the deltas, and
`untracked` which of these a filtered or narrowed file had left out.  A report
is the map from its identifiers to statuses, the only thing the comparison
reads.

**CheckContract** is the abstract specification of a check: each path is
observed once, as safe, unsafe, blind (not readable) or gone, and the status
follows from the observations.  It says nothing about listings, stages or
changes of the file system.  `Violation` is the set of statuses in which the
check speaks of a violation (fail alone, or also review), and `MayAbort` whether
exceptions may end it.  PathScan implements it path by path, EvidenceScan look
by look.

**PathScan** is nine checks at the granularity of system calls: `Gate` (stat or
lstat of the starting path), `List` (iterdir or glob), `Visit` (one turn of the
loop), `Close` (the findings after the loop), and `Change`, by which any path
may be created, removed or altered between any two of them.  `check` is the
check under test and never changes.  `Inspect` has the loop bodies, which differ
in whether links are followed, and in what counts as an error; `GateFinding`,
`ListFinding` and `ClosingFinding` have every return.  `always` and `ever` record
what the file system was like all along and at some moment, the directory itself
included, which the drop-in check judges by metadata it read before the listing.
Where `etc/ssh` itself cannot be reached, `glob` raises up to Python 3.12 and finds
nothing from 3.13 on; scanit supports both, so `ListStops` and `ListGoesOn` are both
possible there.

**EtcTree** is `_inspect_etc_tree` with its two users and the unit check.  For
the first two, opening directories and reading metadata interleave, since
`rglob` is a generator; the unit check takes its roots one after the other
(`NextRoot`) and lists everything under one before it reads any metadata there.
Listing a directory and telling which entries are directories is one step, since
the type of an entry comes with the listing.  What `rglob`
does with a directory that cannot be read (skips it without an exception) or
has vanished (skips it from Python 3.13 on, raises before) is external to the
repository and part of the model, because the checks rely on it.  An exception
ends the unit check whatever it found under an earlier root, since its `rglob`
is in no try (`WalkAborts`).

**CommandScan** is nine checks over `LocalCommandExecutor.run`.  `plan` holds the
commands still to be run and `NextQueries` how results decide about the next
ones (the early returns).  A command gives its answer or one of the codes 124,
126, 127 with a message; `RunRaises` is everything else that `subprocess.run` may
raise.  Output is a set of lines, and a diagnostic is a line like any other,
since the executor merges standard error into the output.  `Change` alters what
a program would answer.

**Evidence** has what the checks share that are modelled look by look: findings,
results of commands, and `obs`, the map from the looks taken so far (a system
call or a command, its object, and what it is done for) to what they showed.
`Collected` is the order in which most checks decide: matches first, with a
confidence that errors lower, then errors, then the clean result.

Four modules say, as pure operators over `obs`, where a check looks next
(`...Ready`) and what it concludes (`...Finding`).

- **SudoPolicy** (`sudo_policy.py`): the main file before the files of the
  directory, an lstat before each read, logical lines joined from continued
  physical ones (`LineStarts`, `LineEnd`), comments, includes that are not followed,
  the directories above each component of `secure_path`, and visudo with its exit
  codes.  A text is a sequence of lines, a line a sequence of tokens.
- **ServicePaths** (`systemd_execution.py`): two inventories, `systemctl show`,
  which may break off after any of its blocks, then each program resolved and
  the directories above it looked at; privileges per command.
- **Browser** (`browser_profiles.py`, `browser_permissions.py`,
  `browser_extensions.py`, `firefox_preferences.py`): discovery directory by
  directory, then the permissions, preferences or manifests of each profile.
- **Controls** (`kernel.py`, `network.py`, `boot.py`, `security_modules.py`,
  `accounts.py`, `packages.py`, `storage.py`, `browser_processes.py`): checks of
  one value or a few, some of which stop at the first they cannot read.

**EvidenceScan** runs one of these twenty checks: `Take` is one look, `LookRaises`
an exception that no check catches and the runner reports, `Conclude` the
finding, and `Change` alters one object between any two looks.  `Outcomes` says
what a look may show: the object as it is now, or, for commands and listings,
one of several answers.  `ever` records the values each object has had.  What
violates a policy is defined a second time for the properties, `Violates`,
without the checks' own way of reading.  For the sudo policy, `Grants` speaks of
positions in physical lines where the code joins lines, and `Readings` puts a
rule together from the places of its tokens in the physical lines, without the
check's joined lines, its cutting of comments or its rules; which rule is too
broad (`Broad`) and which directories a `secure_path` names (`Components`) are the
policy itself and are the code's in both.  `LastSays` speaks of the last line about
a preference where the code overwrites a dictionary.

Definitions marked *Mutant* are plausible mistakes, kept beside the definition
they are a mistake of; `PROJECT.json` names the property each of them breaks.

## 3. What the runs check

| Run | States | Bounds | What it shows |
|---|---|---|---|
| `cli` | 38 000 | 3 checks with 2 or 3 results each; every combination of filters, every combination of outputs; 4 baseline files; an interrupt at every stage | `FaultIsolated`: what checks raise harms no other; `ExitStatusExplained`: what each exit status lets a caller conclude about the audit, the selected checks and the output, for every way out of `main`, those that print nothing included; `ScoreAgreesWithExit` and `SarifErrorsAreHighFailures` relate score, exit status and SARIF levels, which three pieces of code derive from the same findings; `ScanIsWhatWasAsked`, `PrintedReportIsComplete`; `Exits` |
| `baseline` | 15 000 | 2 checks, one with two identifiers of its own; 3 selections, 3 filters; scans without bound | `FailuresNeverMissed` and `LedgerExact`: following the deltas neither misses a failure nor keeps a fixed one, unless a saved file had left it out; `QuietWhenUnchanged`, `DroppedIsAccountedFor` |
| `path_scan` | 540 000 | a directory and 2 names, 6 and 7 kinds of metadata, 2 changes | `PersistentExposureFails`; `FailureWasReal`: all evidence of a failure, the directory included, was unsafe or unreadable; `PassWasEarned`; `HiddenPathShows`: a listed path nobody could read shows in the result; `ImplementsContract`; `Concludes` |
| `etc_tree` | 790 000 | a directory, a file beside it, two files in it, and for the unit check a second root with a file, walked first; a limit of 2 paths, evidence of 1; 1 change | `PlainSightNeverPasses`, `TruncationIsVisible` (the limit is named exactly when it cut something off), `FindingsAreBounded`; `BrokenWalkIsVisible`: a walk that broke off under one root never looks complete, and what was found under the other is lost to the runner's error at worst; `Ends` |
| `commands` | 180 000 | 2 firewall services, 2 repositories, 2 changes | `NoEvidenceNoVerdict`, `OverrideNeverMasked`, `PassIsEarned`; `ActiveFirewallPasses`: a firewall that is up all along and answers makes the check pass, whatever the other queries give; `SettingsNeedAServer`: settings are judged, all five, only after a server was seen running that ran; `Concludes` |
| `evidence` | 440 000 | 20 checks, each with a machine of its own: 2 policy files and a backup, 2 services with 2 programs and 2 places, 3 profiles in 2 directories, 2 controls of each kind; 2 changes for the cheap checks, 1 for the others | `ExposureIsReported`: what violates the policy all along and is in reach is reported, whatever else changes or fails; `PrivilegeDecides`: an exposed program that runs with privileges is a failure, and only such a program is; `VerdictWasReal`: what is reported was there; `BlindSpotShows`: what could not be seen leaves no pass; `ImplementsContract`; `Concludes` |

Each passing run also checks the type invariant of its module.

*Why the bounds are enough.*  The loops treat their elements alike and keep only
lists of them, so two paths, services or repositories are the fewest where one
can hide the other, and one can be unsafe while another is unreadable.  Two
changes are the fewest that can undo each other (appear and vanish, safe and
unsafe again) between two system calls; in the tree one change beside four paths
already separates what was seen before it from what was seen after it, and the
limit of two lies in the middle of the tree, so that trees below, at and above it
occur.  In `evidence` every object takes each kind of value in some initial world,
so that all mixtures of clean, violating, unreadable and missing neighbours occur
without a change; the change then falls between any two looks.  Two changes are
given to the checks with few looks (`MCMaxChanges`), where a value can be replaced
and put back.  The command line has no counters; its three checks cover the browser
area, every severity and confidence that matters to the score, and a check with
two findings.  The bounds are `MaxChanges` (guards of `Change`) and the
constants of the `MC` modules; `maximum_paths` and `evidence_limit` are the
code's own (5000 and 50), made small.

*Fairness.*  The program is sequential and takes its next step whenever it has
one: every command has a timeout, the path lists are finite, and nothing waits.
So each `Fair...` specification has weak fairness of the program's own steps, and
none of anything outside: no fairness for the interrupt or for changes.
Liveness says that a scan ends, and it has substance where the loop could come
back to a path or a command.  Deadlock checking is off
in the runs whose program stops, which is every run but `baseline`, `resolved`
and `identifiers`, where the next scan can always follow.

### Where code and documentation disagree

Six runs show a sentence of the documentation violated by the code.

| Run | Sentence | What the code does |
|---|---|---|
| `unreadable_tree` | README.md:63-64, no silent pass | `rglob` skips an unreadable directory without an exception, and the tree walks pass with high confidence |
| `not_applicable` | README.md:63-64 | `glob` yields nothing in an unreadable directory, and the host-key check says not_applicable |
| `foreign_diagnostics` | README.md:63-64 | a diagnostic of a failed `pacman -Qm` (exit code 1, standard error merged) is counted as a package |
| `firewall_failure` | ROADMAP.md:29, failures are demonstrated | one stopped service and an undetermined one are a failure |
| `resolved` | ROADMAP.md:28, preserve unknown and error | a failure whose check loses its evidence is announced as resolved |
| `identifiers` | README.md:87, identifiers are stable | the SSH check reports under one identifier or five others |

Smaller ones seen on the way have no run: the warning for root is printed before
it is known whether a browser check is selected (`cli.py:67-71`); a file name
that standard output cannot encode ends a text report with a traceback and exit
status 1 (`Cli.RenderCrashes`), which `ExitStatusExplained` has to allow beside
the failure of a policy; the SSH path checks drop the paths they could
not inspect once they have found an exposed one, which is why
`HiddenPathShows` asks no more of them than not to pass; the writable-path check does not cut
its error list (`filesystem.py:394`, against 441); the drop-in check reports
unknown for a directory it may not list although the metadata it has read is
unsafe (`filesystem.py:107`).

## 4. What is proved

The theorems hold for every value of the constants that meets the named
assumptions: any number of checks, paths, findings, changes and scans.

**RunnerProofs**, from `RunnerAssumption` (checks return non-empty lists of
findings, as every `run` does).  `RunnerInv` is not inductive: that a contribution
leaves the earlier ones alone needs every author, and every raised position, to
lie strictly before the position of the loop, and the report to be empty before
the loop starts (`AuthorsPassed`, `RaisedPassed`, `IdleIsEmpty`).
`ContributeLemma` states once how the two parallel lists grow.  From
`InductiveInvariant` follow `TypeCorrect`, `FaultIsolation` (with `RegistryOrder`:
the findings stay in the order of the registry) and `ReportGrows`.

**ListProofs** has what the others need about lists.  `AscendingEnumerates` and
`ItemsAtKeeps`: a comprehension has exactly the chosen items, in their order.
`SumOfNaturals`: a fold that adds naturals is at least each of its terms, and zero
only if all of them are.  `FlattenedItems`: each item of a concatenation comes from
one place of one part, and the order is kept.  The library's induction theorems
take an operator as a parameter and cannot be used, so an induction is written as
a contradiction: the counterexamples form a set of naturals, this has a least
element (`LeastElement`, `SetInduction`), and the one before it is no
counterexample.

**CliProofs**, from `CliAssumption` (selecting from the registry gives a list of
checks the runner can be started with), `UnsetAssumption`, `RegistryNotEmpty` (the
code registers 41 checks) and `InconclusiveIsInfo` (every check gives an unknown or
error finding the severity info, as the runner does).  `CliImplementsRunner` is a
refinement: every step of `main` is a step of the runner or leaves the report
alone, so `CliIsolatesFaults` follows from `FaultIsolation` for the whole
invocation.  `MainInv` is an invariant about every stage: no stage before the last
has a status, and a report, once complete, is the one the status is computed from;
`CliTypeCorrect` follows.  `FlowInv` adds what each stage
hands to the next: the selection is the one the arguments ask for
(`SelectionInv`), the delta is about the finished report (`DeltaInv`), and what is
printed was made from that report and that delta (`PrintInv`).  From it follow
`ScanMatchesArguments` and `NothingIsLost` (an unfiltered report shows a finding of
every selected check, and its delta is about this report).  `StatusIsExplained`
takes both together with the runner's invariant: a status of 0 or 1 needs a
complete scan, of which every selected check is an author, and each way out that
prints nothing has left its word on standard error.  `SarifMatchesPolicy`,
that SARIF says error exactly where `--fail-on high` would fail, also needs
`InconclusiveInv`: a finding that establishes nothing is never severe.
`ScoreMatchesExit`, that a score of zero and a passing exit status agree, rests on
`SumOfNaturals` and on `RiskOfFinding`: every failure of severity low or more adds
at least 1.2 to the score, which no rounding makes zero, and nothing else adds to it.

**BaselineProofs**, from `DistinctIdentifiers` (two checks share no identifier, so
that a report is a map) and `OutcomesAreStatuses`.  Everything rests on two facts
about `Delta` (`DeltaFacts`): a current failure is new or was a failure of the
baseline, and a baseline failure that is present and no failure is resolved.  The
invariant, `CycleIInv`, adds `FileBelieved` to the two checked properties and so
relates ledger, file and report: the file's failures are in the ledger, what is in
the ledger and not failing in the file is untracked, and after a comparison the
reader's belief contains the report's failures.  `NoFailureMissed` and
`LedgerIsExact` follow.
`DeltaOfRecord` adds that the delta shown is the one between two known reports,
from which `UnchangedIsQuiet` and `DroppedAccounted` follow.  `CycleTypeCorrect` is
the type invariant: the delta is always a well-formed one, whatever two documents
it compares.

**PathScanProofs**, from `PathScanAssumption`.  The invariant has five parts: the
types; `Shape`, which stage has which variables set; `History`, that `always` lies
within what holds now and `ever` contains it; `Observed`, which ties every
observation to the history (an unsafe observation was unsafe at some moment, a
path that was unsafe all along and has been visited was observed unsafe, and
likewise for unreadable ones); and `Ended`, which ties the finding to the
observations.  `Observed` is the heart: the properties speak of the file system,
the finding depends on the observations only, and other processes act between
the two.  From it follow `ExposureIsReported`, `FailuresAreReal`,
`PassesAreEarned`, `NoEvidenceIsUnknown`, `HiddenPathsShow`, and
`Implementation`, the refinement of CheckContract: `Visit` and `Gate` map to
`Observe`, an early return to `Withdraw`, `Close` to `Conclude`, `Change` to
stuttering.

**EtcTreeProofs**, from `EtcTreeAssumption`.  `Inductive` says what the walk owes: a
path that has not changed is still queued, or was inspected as it is, or an error
was noted (`Owed`); a directory that was readable throughout is still to be listed
or all of its children are owed (`Listed`, `Known`); whatever is left out has an
error to show for it (`Accounted`); the limit is never exceeded and named only
when it was met (`Limited`).  A root waits for its walk or is known (`RootKnown`),
and the walk of the next one starts when nothing is owed under the last.
`TruncationVisible`, `BrokenWalkVisible`, `FindingsBounded` and `PlainSight` follow,
for any number of roots, every tree and every pair of limits; a path in plain sight
lies at most two levels below its root, since deeper paths would need an induction
over the depth.

**CommandProofs**, from `CommandScanAssumption`: services and repositories are
lists of names, the repositories distinct (pacman does not accept one twice), none
of them a name the model gives to another query, and every answer has an integer
code and finite output.  `Inductive` ties every result to the answers the program
has had (`Genuine`) and says that nothing the results call for is forgotten: it is
answered or still in `plan`, and the finding is the verdict of the results
(`Concluded`).  This needs the queries that decide about others to be made one by
one (`OneByOne`).  `SettingsJudgedWithServer`, `PassesAreEarned`,
`MessagesAreNoEvidence` and `TypeCorrect` follow.  `ActiveFirewallRecognised`, that an
active firewall makes the check pass, needs `ServicesInOrder`: each service is asked
once, and when all were asked the finding is the verdict of their answers.
`OverridesShow`, that a repository which turns verification off is not masked by
what goes wrong with others, needs a second invariant, `SignaturesInOrder`: each
repository is asked once, only the listed ones are, and none before the global
policy and the list are known, so that a check that was cut short has left one out.

**EvidenceProofs**, the twenty checks that look at the system.  Its assumptions say
which worlds the checks can meet.

- `SudoPolicyAssumption`: the directories of a `secure_path` are no policy files;
  `ServicePathsAssumption`: the names in Exec lines are no paths yet resolved, and no
  service has the name of a diagnostic;
  `BrowserAssumption`: profiles and extensions lie in directories of their own.
  These keep the names of different kinds of objects apart, as paths do.
- `ControlsAssumption`: the tables of expected values are tables of naturals, and
  there are finitely many databases.
- `WorldAssumption`: the world has every object a check may look at and no other;
  resolving leads to paths of it; a control file shows one of the kinds the code
  tells apart (`ShowsControl`, `KindsOf`); a text that can be read is a list of lines; the
  output of lsblk describes one tree of devices.

`Inductive` is small: the types, `Genuine` (each look shows a value its object has
had), `InPlace` (a look is at an object that this kind of look is for) and
`Concluded` (a finding is the verdict of the looks taken, with none left to take,
or the runner's error).  `ReadyIsFresh` shows for all twenty checks that no look is
ever taken twice, and with it `ObservationsStand`, an action property: what a look
showed is never overwritten.  `EvidenceIsGenuine` is `Genuine`.

From these, check by check, follow the properties that relate a finding to the
system: `VerdictsAreReal` (what is reported was there), `ExposuresAreReported` (what
violates the policy all along and is in reach is reported), `BlindSpotsShow` (what
could not be seen leaves no pass), `PrivilegeIsDecisive` (an exposed program that
runs with privileges is a failure, and only such a program is) and
`EvidenceTypeCorrect`.  Each has one lemma per
family of checks (`...Real`, `...Reported`, `...Blind`, `...Sound`).

The sudo checks read rules from joined lines, the properties define them over
physical lines (`Grants`, `Readings`).  `GrantsAgree` and `ReadingsAreRules` prove that
the two agree for every text: `LinePlaces` finds the logical line a physical line
belongs to, `JoinedIs` and the library lemma `FlattenedItems` find a token of the one
in the other and keep the order, `PolicyPlaces` does so for what precedes a comment,
and `FirstToken` says which physical line the first token of a rule is on.  A reading
takes its tokens by counting the places before them (`CountedBy`), which gives each
token the position that the check's rule gives it (`LaidInOrder`, `PlacesLaid`).
`LastCounts` proves the same of
preferences: overwriting a dictionary line by line leaves the last line's value.

`CollectingImplements` is the refinement of CheckContract, step by step, by the
checks that collect from several places (the sudo policies, the service paths, the
browser profiles); the contract says nothing of the others.  A look at one of the
`Looks` of the contract maps to `Observe`, any other to stuttering; an exception to
`Abort`; a finding that is positive or a pass to `Conclude`, one that leaves things
open to `Withdraw`; a change of the system to stuttering.  It needs one more
invariant, `Shaped`: nothing is resolved before systemctl has named it, and nothing
is read in a profile before one was found.  This matters because what a look shows
is judged in the light of the others (whether a path belongs to a program, whether
a profile is relevant): with `Shaped`, a later look never changes what an earlier
one was taken for (`SeenStands`).  `Justified` then says that the finding is the one
the contract demands: positive exactly if a violation was observed, a pass only if
every look showed what it was to show.

So every invariant and every step property of the passing runs, and both
refinements, are stated by a theorem.  Only model-checked: the liveness properties
(`Exits`, the three `Concludes`, `Ends`), since fairness and ENABLED are out of the
prover's reach, and the six violations.  There are no RECURSIVE operators.

## 5. What is not modelled, and what is abstracted

- Texts: titles, summaries, remediations and the layout of reports; argparse
  itself (the set of accepted argument records) and JSON syntax.
- The parsing of single lines is taken as its result, except where a property is
  about it: policy files are sequences of tokens, preference files of lines, the
  output of a command is a set of lines.
- The table of the 41 built-in checks (`registry.py`) is not spelled out; the runner
  and the command line are parameterised by the registry, and each entry's check
  is modelled by itself.  `ScanContext` is the world that a check looks at.
- Resolving a program is one look, although the system follows several links.
- `exists`, `is_dir` and `resolve` differ between Python versions where a directory
  may not be searched or links form a loop: both an answer and an exception are
  possible (`MayRaise`).  A damaged extension archive or manifest may raise what
  `browser_extensions.py:132` and `151` do not catch, or be reported as an error.
- Tags and the run-as part of a sudo rule: run-as first, then tags, as the code takes
  them (`SudoPolicy.Broad`).  Which rules count as broad, and how a `secure_path` falls
  into its components, is the code's own idea of the policy; the properties do not
  define it a second time.
- The directories above a `secure_path` component end below the root of the file
  system, where the loop of the code stops (`sudo_policy.py:312-315`).
- Some gaps leave no trace in a report, and the properties leave them out by name:
  an extension directory that may not be searched (`browser_extensions.py:125`),
  the paths the SSH checks drop after a failure (`ssh_keys.py:57`), and a firewall
  handed over from one service to another between two queries (`firewall.py:18`),
  which no sequence of queries can exclude; a main sudoers file that is refused or
  dangling where `exists` says no, and profiles of which no permissions may be read
  (`EvidenceScan.Hidden`).
- The unit check loses what it found under one root when `rglob` raises under the
  other: `BrokenWalkIsVisible` shows that an error remains of it, no more.
- One sensitive file at a time.
- Packaging, and the unit tests, which were read as a statement of intent.

## 6. What could follow

The registry as data, composed with Runner and Cli, to check that identifiers of
different checks never meet (`DistinctIdentifiers` assumes it); paths in plain
sight at any depth of the tree; a refinement of CheckContract by the checks that
ask programs.
