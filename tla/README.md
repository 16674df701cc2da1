# Verification of the payment-risk decision-reliability repository

TLA+ models of the release-hardening layer, of the feature and evaluation
algorithms and of the experiment runs of this repository, the TLC
configurations that check them and the TLAPS proofs of what matters most.
Every definition is translated from the Python source; `PROJECT.json` ("map")
names the lines each one stands for.

## 1. The system

The repository trains and evaluates a payment-risk model and *hardens* the
resulting release: it binds the artifacts of a release root to an inventory of
digests, the inventory to a manifest, the manifest to an HMAC signature, and
gives serving code a loader that hands out verified bytes only.

| component | source (in `src/payment_ops_hardening/` unless given) | state it keeps | operations |
|---|---|---|---|
| release finalization and its journal | `release_security.py`, `atomic_io.py` | the control files (manifest, inventory, signature); a transaction journal and a lock file beside the root | `finalize_release_security`, `_recover_pending_transaction`, `_restore`, `atomic_write_bytes`, `fsync_directory` |
| release verification | `release_security.py` | none of its own; it recovers first | `verify_release_security` |
| verified loader | `verified_loader.py` | bytes read so far | `read_verified_artifacts` |
| bundle inventory | `bundle_inventory.py` | the inventory | `build_inventory`, `verify_inventory`, content contracts |
| stable reads | `secure_io.py` | a descriptor and metadata snapshots | `read_stable_file` |
| manifest authentication | `manifest_auth.py` | none | sign, verify |
| semantic invariants | `semantic_invariants.py` | none | equality of values in the manifest and in reports |
| feature preparation | `modeling.py` | deques and counters of one pass | `prepare_leakage_safe_frame` |
| chronological split | `modeling.py` | partition ends | `split_chronologically`, `split_validation_for_tuning_and_calibration` |
| transaction-mass bootstrap | `scripts/run_champion_challenger_v094.py` | blocks, selected rows | `_build_transaction_mass_blocks`, `_transaction_mass_bootstrap` |
| training runs, frozen transfers | `scripts/run_champion_challenger_v094.py`, `scripts/run_frozen_hi_to_li_v094.py`, and those of v0.9.2 and v0.9.3: `modeling.py`, `scripts/run_champion_challenger.py`, `scripts/run_frozen_hi_to_li_v093.py` | files of an evidence directory | the `main` programs |
| source patcher | `scripts/apply_v093_hardening.py` | the text of `modeling.py` | `patch_modeling` |
| decision and metrics | `modeling.py` | none | `_metrics`, `_bootstrap_capture_delta`, `_promotion_decision` |
| release contract, template, command line | `release_contract.py`, `contract_template.py`, `strict_json.py`, `cli.py`, `scripts/render_v04_contract.py` | a contract file | `load_release_contract`, `render_release_contract_template`, `main` |
| qualification runner, profiler, generator | `scripts/` | logs, one file each | sequences of external tools; one-shot programs |

How they interact:

- finalization and verification share the control files and the journal, and
  exclude each other with an OS file lock that is freed when its owner dies;
- the loader takes the same lock and calls the verifier inside it; artifacts
  themselves are written by pipelines that are not in the repository and that
  take no lock;
- the inventory's build and check digest files through stable reads, and open
  each file once more to parse it;
- a renderer writes the trusted contract to the file that the command reads, once,
  before it calls the verifier; the two share that file and nothing else;
- a frozen transfer reads the evidence directory of a training run, file after
  file, with nothing between the two but the files; runs and transfers of three
  versions use the same names in the same directories;
- the patcher rewrites the `modeling.py` that all of these programs import;
- split, bootstrap, diagnostic and decision follow one another in one program.

What is hard: three files that must change as one, across errors, interrupts,
process deaths and power loss; reads of several files, or of one file several
times, while others write; policies that finalizer and verifier implement
separately over a long history of a root; windows, ties and fractions of seconds
in a single online pass; ends of partitions and blocks among equal timestamps;
evidence directories used twice, or read while they are written; a contract file
that is written before it is validated; a source file edited in place;
a promotion that rests on ranks with ties and a quantile. `PROJECT.json`
("hazards") lists each at its line with the properties aimed at it.

What makes each component correct, in a sentence: a release is one value that
changes in one step and is never lost once acknowledged; what verifies was
committed; what is loaded is what was verified; what is read from a file was in
it; a root never loses its signature or its sequence; a feature depends on no
later row; no timestamp is in two partitions; blocks tile the stream; a
candidate that is promoted has the evidence for it; a transfer uses one run; a
source is patched as a whole; what the command accepts meets its contract.

## 2. Modules

Each component is a module that states its constants (with named assumptions),
state, actions and properties; `MC<module>` gives the constants that a `.cfg`
cannot write, and `<module>Proofs` holds the theorems (`EvaluationProofs` those of
the three modules from split to decision, `VerifiedLoadProofs` and
`ExperimentRunsProofs` those of the modules that extend theirs as well).

### AtomicRelease, ControlTransaction

`AtomicRelease` is what callers are promised: `committed`, one value, replaced in
one step; `durable`, what a power loss may bring back; calls that return `ok`,
`error` or `rejected`. A finalization that returned `ok` is durable.

`ControlTransaction` is the protocol of `release_security.py`, one file-system
step per action. Each file exists twice, as processes see it (`controls`,
`journal`) and as the disk would return it (`diskControls`, `diskJournal`). A
replace changes the first, the following `fsync_directory` copies it to the
second; the root and its parent (where the journal is) are two directories. `pc`
walks the function bodies: `Acquire`/`LockTimeout`; recovery (`restore`,
`restoreSync`, `dropSync`); finalization (snapshot, policy, journal, inventory,
re-verification, signature, manifest, equalities, journal unlink); the `except`
clause with its rollback (`undo`, ...); verification (three reads and an answer).
Faults: `Abort` is an error at any statement that can raise, `Kill` a process
death (the lock is freed, a temporary file may stay: `litter`), `PowerLoss` keeps
an arbitrary subset of the entries that were not fsynced.

The source calls the manifest the commit marker, written last. In the model, as in
the code, a release is committed by the *unlink of the journal*: until then
recovery puts the old controls back. `Committed` and `Durable` are that reading
of the files, and with `CallState` they are the refinement mapping of
`ImplementsAtomicRelease`.

### VerifiedLoad

One call of `verify_release_security` or `read_verified_artifacts`, its reads one
at a time and its exceptions with their classes, against writers. A file is the
version of the bundle it belongs to. Writers that take the lock may replace
anything under it; the constant `Unlocked` names the files that are also
replaced without it.

### CommandLine

EXTENDS VerifiedLoad with the trusted contract. Renderers write a rendered
contract over the file (`Render`), load it back and return (`RenderReturns`), or
are refused and remove *the file as it then is* (`RenderRefused`,
`RemoveRendered`); each may die in between. `Invoke` is `main` of `cli.py` up to the
call: it loads the file, refuses a conflicting `--expected-key-id`, and keeps
contract, flags and the key id of the environment in `command`. `Verify` is any
step of the call that VerifiedLoad models; the one that judges the manifest's
fields passes exactly the manifests that `Meets` the command. Every step is one
of VerifiedLoad or leaves it alone (`CommandImplementsLoad`), so that the properties
of VerifiedLoad are checked here, with the caller that has the most to ask.
Which fields decide is kept (signing, key id, minimum sequence, states); the
contract's paths, content contracts and equalities belong to the modules below.

### ReleaseLifecycle

The policy over the life of a root: pipeline runs rewrite artifacts and manifest
(at any time, without the lock), finalizations with every combination of key, key
id, sequence, signing requirement and state policy, crashes, and verifications
with every contract. The three files are written in one step here and recovered in
one step: that they may be is what ControlTransaction shows. The finalizer
reads the root many times, and each read is a step of its own: the snapshot
(`Start`), the manifest that the policy judges and the finalization edits
(`ReadManifest`), the manifest and then the reports for the equalities
(`CompareManifest`, `CompareReports`), the digests of the inventory (`Journal`; the
transaction file written next depends on nothing the pipeline writes), their
verification (`Write`), and manifest and reports once more (`CompareManifest`,
`Commit`). `manifest` and `compared` carry what was read until it is used. A
verification is one step: files that are replaced during one are VerifiedLoad's
subject. The artifacts are one report here, which tells the run that wrote it; a
pipeline run that is half way through several reports is not told apart from
one that has finished. `PreviouslySigned`, `ResolvedSequence`, `Verified` are the policies.

### StableRead

`read_stable_file`: stat, open, fstat, reads, fstat, stat and every refusal,
against writes in place, renames, unlinks, new files in freed inodes, symbolic
and hard links. `held` collects what the path has held since the read began.

### InventoryContracts

`build_inventory` and `verify_inventory` over all artifacts: digest, parse, digest
again, per artifact; the resolution of `content_contracts` and
`csv_contract_paths`; the set comparisons of a verification, with its special
case for an empty `expected_contracts`.

### FeatureHistory

The sort and the single pass of `prepare_leakage_safe_frame`: per window and entity
a deque from which old rows are dropped for good, and counters for the prior mean.
Time is in ticks, several to a second, since the code compares whole seconds.

### ChronologicalSplit, TransactionMassBlocks, PromotionDecision

The two splitting functions with all their refusals, over every sorted frame.
`TransactionMassBlocks` EXTENDS the split and composes it with the bootstrap, in
the order of the two programs: `Call` hands the test part of an accepted split
(of one that goes on to split its validation part, once that is done) to the
blocking loop (target, minimum tail, merge) and the draws.

`PromotionDecision` EXTENDS both with labels and probabilities (the latter as
places in a ranking) and goes on to the champion: `Reviewed` is the stable sort at
the review budget with its ties, `Delta` the difference of the two models'
captures on the *same* rows, `Measure` one replicate, `QuantilePositive` the
interpolated `np.quantile` against zero, `Diagnose` the calendar-block bootstrap
that only reports but may raise, `Decide` the guards of `_promotion_decision`. All
quotients are pairs of integers. What calibration did to the Brier score is left
open at the decision.

### ExperimentRuns, SourcePatch

Training runs and frozen transfers as sequences of file writes and reads, with
torn files and deaths. A run is of one of three versions of the program, which
write the same names in orders of their own (`Steps`); v0.9.2 saves every challenger
under the ExtraTrees name (`CandidateFile`). A transfer of v0.9.4 needs the protocol
that only v0.9.4 records, one of v0.9.3 knows no fields but its own (`Understands`).
`Reuse` says whether a run may be given the directory of an earlier one: the runner
(`mkdir(parents=True, exist_ok=True)`) checks nothing, the runbook
(`docs/operations.md`) tells operators not to.

`SourcePatch` EXTENDS it with `apply_v093_hardening.py`: the text of `modeling.py` is
the sequence of its eleven edited stretches and the marker, each old, new, edited
twice or unknown; `Edited` says what each of the four kinds of edit makes of them
(`Kinds`). The text is written in place, a stretch at a time, so that a patcher
that dies leaves a part. `Imports` says what each program needs of the file when it
starts.

## 3. Runs

Passing runs:

| run | question | properties |
|---|---|---|
| `transaction` | two processes, two deaths, one power loss: is a release one value, and what changes it? | `TypeOK` `LockExclusion` `PowerLossSafe` `ControlInv` `ImplementsAtomicRelease` `OnlyCommitChangesTheRelease` `RejectsOnlyNonReleases` |
| `late_interrupt` | an interrupt anywhere in the try block, after the journal unlink included, and a death, without directory fsync: does the rollback restore everything, does each call end, is a pending transaction resolved? | `RollbackRestoresEverything` `EveryCallReturns` `PendingTransactionResolved` |
| `verified_load` | renderers rewrite the contract, the manifest and one artifact are replaced without the lock, a writer may keep the lock: does what is accepted meet the contract and the flags, are loaded bytes the verified ones, is what is locked whole, does the call return? | `LoadedIsVerifiedRelease` `AcceptedBundleIsWhole` `WholeInv` `AcceptedUnderContract` `InvalidContractIsRemoved` `EveryCallReturns` |
| `lifecycle` | do signature, sequence and provenance survive any history, pipeline runs between any two reads of a finalization included? | `FinalizedReleaseVerifies` `AcceptedWasCommitted` `AcceptedIsOneRun` `LifecycleInv` `NeverDowngraded` `SequenceNeverDecreases` |
| `stable_read` | are returned bytes what the path held? | `StableInv` `ReturnsTheFileAsItWas` |
| `inventory` | is what is accepted true, and does a build pass its own check? | `InventoryInv` `AcceptedContentHolds` `OwnInventoryVerifies` |
| `feature_history` | does the single pass compute what a fresh look would? | `CountsAreExact` `WindowsAreHonest` `MeanOfEarlierRows` |
| `evaluation` | is a timestamp ever in two partitions, do the blocks tile the test part, does a replicate have its rows, what does a promoted candidate have to show? | `NeverLeaks` `BlocksTileTheStream` `NoSmallBlock` `ReplicateHasTargetMass` `EvidenceForPromotion` `SameRankingNeverPromoted` |
| `experiment_runs` | does a transfer use one run, whatever versions share the directories and while the source is patched; is a source ever half patched? | `TransferIsOfOneRun` `MetricsHaveTheirModels` `RunsInv` `PatchIsAllOrNothing` |

Each of these properties has a mutant in `PROJECT.json`: a change of one mapped
definition, as a plausible bug would make it, under which the run's own
configuration finds the property violated.

Runs that end in a counterexample, each against a sentence of the repository:

| run | what the code does | what is said |
|---|---|---|
| `strict_file_set` | a temporary file left by a killed process makes a recovered release unverifiable under `reject_untracked_files` | a recovered release verifies (`tests/test_release_security.py:490`) |
| `strictly_earlier` | rows of the same timestamp that precede a row in the file are its history | "events strictly earlier than each row" (`modeling.py:5`) |
| `mixed_contracts` | a finalization whose `csv_contract_paths` adds a contract to `content_contracts` refuses its own inventory (when those list every CSV path already, `setdefault` adds nothing and it passes) | the re-verification is of payload bytes (`release_security.py:472`) |

Further configurations that end in a counterexample, kept beside the runs for
whoever changes that code; each checks one property of the module it is for:

| configuration (module) | property | what the code does | what is said |
|---|---|---|---|
| `InventoryReread.cfg` (`MCVerifiedLoad`) | `LoadedIsVerifiedRelease` | the inventory is digested and then read again | checks "still protect against non-cooperating mutation" (`verified_loader.py:44`) |
| `RacedFinalization.cfg` (`MCReleaseLifecycle`) | `AcceptedIsOneRunAlways` | artifacts of another run are inventoried, replaced by those of the manifest's run while they are compared for the commit, and put back: the release verifies | nothing is said of pipelines that write during a finalization |
| `ErrorClasses.cfg` (`MCVerifiedLoad`) | `ErrorsAreUnified` | the loader lets `BundleInventoryError` and `ManifestAuthenticationError` out | "Unified release-hardening error" (`release_security.py:66`) |
| `NegativeTimeout.cfg` (`MCVerifiedLoad`) | `NegativeTimeoutRefused` | the loader waits for the lock before it validates the timeout | "must be a non-negative number" (`verified_loader.py:53`) |
| `TimestampGroups.cfg` (`MCChronologicalSplit`) | `WholeTimestampGroups` | validation is cut at a row | "partitions use whole timestamp groups" (`docs/v094_confirmatory_protocol.md:13`) |
| `ParseRace.cfg` (`MCInventoryContracts`) | `ObservedIsDigested` | a file replaced during the parse and put back goes unnoticed | "prove the bytes remained stable through it" (`bundle_inventory.py:387`) |
| `ReusedDirectory.cfg` (`MCSourcePatch`) | `TransferIsOfOneRun` | a run may write into the directory of an earlier one: a transfer mixes their models | no code says otherwise; the runbook asks operators not to (`operations.md:19`) |
| `LostContract.cfg` (`MCCommandLine`) | `ValidContractSurvives` | a rendering that turns out invalid has already replaced the valid contract, and removes it | "Render, validate, and atomically write" (`contract_template.py:54`) |
| `RemovedContract.cfg` (`MCCommandLine`) | `RemovesOnlyInvalid` | a refused renderer removes the file although another has put a valid contract there | the same |
| `PromoteFlag.cfg` (`MCCommandLine`) | `ContractStatesHold` | `--require-promote` takes the place of the contract's states | nothing is said of a contract that allows other states only |
| `DiagnosticVeto.cfg` (`MCPromotionDecision`) | `DiagnosticNeverVetoes` | the calendar-block bootstrap raises when most of its replicates have no positives, and no decision is made | "cannot override the primary confirmatory promotion decision" (`docs/v094_confirmatory_protocol.md:26`) |
| `UpliftOfZero.cfg` (`MCPromotionDecision`) | `PromotedCapturesMore` | with `min_capture_delta` 0.0, as in all configurations, a candidate that captures as much as the baseline on the test part is promoted when its replicates capture more | "candidate improved capture" (`modeling.py:827`) |

### Bounds, and why they are enough

- *ControlTransaction*: two processes, since the lock admits one and the other
  stands for whoever comes next. `transaction` has two contents and two releases
  that share no control, one unsigned, so that a mixture is always visible and the
  signature is both written and removed; two deaths (one during the recovery from
  the other) and a power loss at any point among them. `late_interrupt` only asks
  whether each control is back as it was: one content, with and without a
  signature, and one death. More faults repeat states.
- *VerifiedLoad*: two versions tell "the same" from "another"; two artifacts, one
  of them missing from the newer version; of the controls and of the artifacts
  some are replaced without the lock and some are not; any number of changes.
- *CommandLine*: the instance of VerifiedLoad, with two versions that differ in
  state, sequence and key id, so that every clause of a contract refuses one of
  them; a lax handwritten contract, one valid and one invalid rendering, two
  renderers, since a third adds no file.
- *ReleaseLifecycle*: two runs with different states, one key, a named and a
  default key id, sequences 0 and 1; any number of runs, calls and crashes. Two
  runs are enough for artifacts to be replaced and put back between two reads. With
  one key a wrong key is a missing or a needless one.
- *StableRead*: two inodes and two names, up to two chunks, three changes: enough
  to replace a file, remove it, and reuse its inode. `NoFollow` is FALSE, the
  weaker platform; the theorem covers both.
- *InventoryContracts*: two artifacts, two contracts that overlap, three contents
  (one neither accepts), two changes: away and back.
- *FeatureHistory*: three rows, two entities, five half-second ticks, windows of
  zero and one second: ties, rows in one second, rows at both edges of a window.
- *PromotionDecision*: frames of up to nine rows over five times, with the
  thresholds scaled down in the same order as the code's (200 > 100 > 50; target
  >= minimum tail), so that each refusal and each merge happens; three replicates, a
  quartile for the 2.5th percentile, so that it falls between two of them; three
  candidates: one that ranks all positives first, one that is better on a late row
  only, one that ranks as the baseline does, ties included.
- *SourcePatch*: four runs (CatBoost of each version, ExtraTrees of v0.9.4), two
  directories, one transfer; a source of v0.9.2, one that has an insertion already,
  one with an unknown stretch, and a patched one. That `modeling.py` is patched
  any number of times needs no bound: a patched file is left alone.

`CHECK_DEADLOCK FALSE` stands where the program ends: `FeatureHistory`,
`PromotionDecision`, `SourcePatch`. Symmetry is used
on processes, directories, inodes and chunks, in runs without liveness properties.

### Fairness

`late_interrupt` assumes weak fairness of `Work(p)` and `Begin(p)` of each process:
running processes are scheduled by the operating system, and callers keep
calling (a pending transaction is only resolved by the next call). Nothing is
assumed of errors, deaths or who gets the lock, and a waiting process may time out.
`PendingTransactionResolved` is conditional: from some time on no recovery fails.
`verified_load` assumes weak fairness of the call's own steps (`Verify`) only: other lock
holders need never let go, and renderers may stop anywhere.

## 4. Theorems

For all values of the constants that meet the named assumptions:

| module | theorem | statement | rests on |
|---|---|---|---|
| `ControlTransactionProofs` | `TypeCorrect`, `LockExclusive` | `[]TypeOK`, `[]LockExclusion` | |
| | `ControlInvariant`, `PowerLossIsSafe` | `[]ControlInv`, `[]PowerLossSafe` | `DirectorySync`, `~LateInterrupt` |
| | `Implementation` | `Spec => ImplementsAtomicRelease` | the same |
| | `ReleaseChangesAtCommit` | `OnlyCommitChangesTheRelease` | `~LateInterrupt` |
| | `RejectionIsJust` | `RejectsOnlyNonReleases` | `~StrictFileSet` |
| | `OkIsDurable` | `FinalizedIsDurable` | `DirectorySync`, `~LateInterrupt` |
| | `RollbackRestores`, `OkIsTheRelease` | `RollbackRestoresEverything`, `AnswersAreTheRelease` | |
| `VerifiedLoadProofs` | `LoadInvariant`, `LoadIsVerified` | `[]LoadInv`, `[]LoadedIsVerifiedRelease` | `"inventory" \notin Unlocked` |
| | `WholeInvariant`, `AcceptedIsWhole` | `[]WholeInv`, `[]AcceptedBundleIsWhole` | the same |
| | `CommandImplementsLoad`, `AcceptedByCommandIsWhole` | `CommandSpec => Spec`, and so `[]AcceptedBundleIsWhole` of commands | the latter: the same |
| | `CommandInvariant`, `CommandMeetsContract`, `InvalidContractsGo` | `[]CommandInv`, `[]AcceptedUnderContract`, `[]InvalidContractIsRemoved` | |
| `ReleaseLifecycleProofs` | `LifecycleInvariant`, `AcceptedWasFinalized`, `OneRun` | `[]LifecycleInv`, `[]AcceptedWasCommitted`, `[]AcceptedIsOneRun` | |
| | `StaysSigned`, `SequenceKept` | `NeverDowngraded`, `SequenceNeverDecreases` | |
| | `FinalizedVerifies` | `[]FinalizedReleaseVerifies` | |
| `StableReadProofs` | `StableInvariant`, `ReadIsStable` | `[]StableInv`, `ReturnsTheFileAsItWas` | |
| `InventoryContractsProofs` | `InventoryInvariant`, `AcceptedContent` | `[]InventoryInv`, `[]AcceptedContentHolds` | |
| | `OwnInventory` | `[]OwnInventoryVerifies` | `~MixedArguments`: CSV paths add nothing to contracts that are given |
| `FeatureHistoryProofs` | `HistoryInvariant`, `ExactCounts`, `HonestWindows` | `[]HistoryInv`, `[]CountsAreExact`, `[]WindowsAreHonest` | |
| | `HonestMeans` | `[]MeanOfEarlierRows` | |
| | `SortLosesNothing` | `SortRearranges` | |
| `EvaluationProofs` | `SplitInvariant`, `LeakCheckNeverFails` | `[]SplitInv`, `[]NeverLeaks` | |
| | `BlocksInvariant`, `BlocksTile`, `BlocksAreLarge`, `ReplicatesHaveMass` | `[]BlocksInv`, `[]BlocksTileTheStream`, `[]NoSmallBlock`, `[]ReplicateHasTargetMass` | |
| | `PromotionEvaluates` | `PromotionSpec => EvaluationSpec` | |
| | `PromotionInvariant`, `NoPromotionForSameRanking` | `[]PromotionInv`, `[]SameRankingNeverPromoted` | |
| | `PromotionHasEvidence`, `ComparedAtOneCapacity` | `[]EvidenceForPromotion`, `[]SameCapacity` | |
| `ExperimentRunsProofs` | `RunsInvariant`, `OneRunPerTransfer`, `MetricsAreEvidence` | `[]RunsInv`, `[]TransferIsOfOneRun`, `[]MetricsHaveTheirModels` | `~Reuse` |
| | `PatchedRunsAreRuns`, `RunsUnderPatch` | `PatchSpec => Spec`, and so the last two while the source is patched | the latter: `~Reuse` |
| | `PatchInvariant`, `NeverHalfEdited` | `[]PatchInv`, `[]PatchIsAllOrNothing` | |

`LoadInv`, `CommandInv`, `HistoryInv`, `SplitInv`, `BlocksInv` and `PromotionInv` are the
strengthenings by which the properties beside them are proved. They are invariants
of the same instances, but what a run would add to their proofs is little, so no
run lists them. `AnswersAreTheRelease`, `FinalizedIsDurable`, `SameCapacity` and
`SortRearranges` are stated in the modules that prove them, and no run has them.

How the arguments go:

- *ControlTransaction*. `PowerLossSafe` is not inductive: whether a mixture of old
  and new entries is harmless depends on which journal is on disk. `ControlInv`
  adds it. `DiskInv`: without a journal nothing in the root is unsynced, and a
  journal that differs from the one on disk says what the controls say.
  `WriteInv`: the journal is on disk before a control is touched, and all three
  controls before it is unlinked. `RestoreInv`: what has been restored is back.
  `ReadInv` and `SettledInv`: a verifier reads the controls with no transaction
  pending. `Implementation` maps each step to one of `AtomicRelease` or to a
  stutter; the unlink is `Commit`, the last fsync is `Finish`, every restore, error
  and death before the unlink leaves `Committed` alone. The two assumptions are
  the real limits: without directory fsync nothing is promised for power loss,
  and an interrupt after the unlink rolls a committed release back (completely,
  `RollbackRestores`, though it is no longer atomic).
- *ControlTransaction*, what processes see. `ViewInv` is the part of `ControlInv` that
  is about the page cache. It holds with or without directory fsync and wherever an
  interrupt arrives, so that what rests on it needs neither assumption: a
  rollback that ends has put everything back, and a rejection is of what is no
  release, on the platforms where power loss is not survived as well. For
  `ReleaseChangesAtCommit` the step lemmas show that every control that is
  written is overridden by a journal. A late interrupt is excluded there because
  the rollback it starts has no journal. For `OkIsTheRelease`, `NewInv` follows what a
  finalization has put in place: the release that a caller is told is in force,
  and one that a finalization was asked to write, never a mixture. That a release
  told by a finalization is on disk (`OkIsDurable`) does need `ControlInv`.
- *VerifiedLoad*. `LoadInv` says that from the digest check on the inventory in the
  root, then the one in memory, is the manifest's, and that each read artifact
  matches it. `WholeInv` adds that a file that is replaced under the lock only stays,
  once checked, as it was. The assumption is a real one: `InventoryReread.cfg`.
- *CommandLine*. The contract is a copy in the command, so that nothing that
  happens to the file matters once it is loaded; from the check of the fields on,
  the manifest in memory meets it (`CommandInv`), and the manifest is what the call
  returns. An invalid contract is always the last renderer's to write, and that
  renderer is not idle or has died; another that removes the file removes it.
- *ReleaseLifecycle*. Only a commit puts a manifest with a security contract where
  readers find it: `Declares(Recovered) => Recovered = committed`. The rest relates
  snapshot, journal and new controls at each program point. That the equalities held
  before the journal says nothing of the inventory, which is read later; what
  `OneRun` rests on is the comparison at the commit (`OfOneRun`): if the manifest in the
  root is still the one just written, it is the one compared, and if the artifacts
  compared are those inventoried (`matched`), manifest and inventory are of one
  run. Of a commit for which they are not, `AcceptedIsOneRun` says nothing, and
  `RacedFinalization.cfg` shows why. `FinalizedVerifies` strengthens the invariant with
  what the policy has established of the manifest that is about to be
  committed, and needs that a verification asks no more.
- *StableRead*. While the first file seen keeps its stamp it keeps its place at the
  path and its content, so that what was read is a prefix of it; equal stamps at
  the end close the argument. It rests on every change giving a new stamp: two
  changes within one tick of the clock are outside the model.
- *FeatureHistory*. Each deque is the set of rows processed so far in the window of
  the last row of its entity; dropping a row for one row is harmless to later
  ones because times do not decrease. `HonestWindows` compares that set with the
  windows one whole second apart, by the cardinality of subsets. For `HonestMeans` the
  totals are sums over the rows passed (`TotalsInv`); a sum is a fold in an order
  that `CHOOSE` picks, which exists (`SumsUpExists`), is unique (`SumsUpUnique`) and
  is indifferent to the order (`SumAdds`). Sorting is a strict total order, in which
  no two rows have as many before them (`RanksAreAll`): the row at a place is
  the one with so many before it, so that the step that sorts loses no row and has
  one outcome (`SortedIsUnique`).
- *InventoryContracts*. An entry that nobody wrote under is true when a build makes
  it, and when a verification has passed it; `touched` and `stale` say whether
  anyone did. When CSV paths add nothing to the contracts given, the sets that
  a verification compares are the ones that the build embedded.
- *ChronologicalSplit*, *TransactionMassBlocks*. Ends separate timestamps as soon as
  they are known; the blocks closed so far and the open one tile the rows read.
  The theorems about blocks are of the composed specification, which implements
  that of the split (`EvaluationSplits`), so that those about the split hold of it.
- *PromotionDecision*. Rows that are in the same order under both models have the
  same number of rows before them, ties by position included, so that both review
  the same positions of any sample: every difference is zero, and so is any
  quantile of them, between two of them as well. Ranking is a strict total order of
  positions, so that both models review the same number of them, the budget's
  share rounded up (`RanksAreAll`, `FirstPlaces`). For `PromotionHasEvidence`: among
  finitely many quotients there is a k-th smallest (`SmallestExists`); if all up to
  the place of the quantile were at or below zero, so would be the value interpolated
  there (`PlaceOfQuantile`); hence fewer than that many are.
- *ExperimentRuns*. A directory belongs to the one run it was given to, and holds
  what that run wrote before its current step, the metrics after the models. The
  assumption is the runbook's, not the code's: `ReusedDirectory.cfg`.
- *SourcePatch*. Edits are complete before the file is opened, and what they make of
  a recognized text is always the same text; of a part of it at least one edit finds
  nothing, since a stretch that is not there fails, and so does one that is new.
  Programs keep what they imported, so the patch only restricts when they start
  (`PatchedRunsAreRuns`).

## 5. Model-checked only

- Liveness (`EveryCallReturns`, `PendingTransactionResolved`): out of the prover's
  reach.

Every other property of a passing run is a theorem. Induction over data (a sum over
a set, the k-th smallest of a sequence) is done without the library's induction
theorems, which take an operator as a parameter: a set of natural numbers that
is not empty has a least one (`LeastNatural`, from `WFMin`, whose parameters are
sets), and each such argument takes a least counterexample. `LeastNatural` and the
lemmas on ranks stand in the two modules that need them, since those are about
different variables.

## 6. Not modelled

Cryptography, canonical JSON and key strength; path normalization and link
rejection of inventory paths; the parsers of CSV and JSON; JSON pointers; template
tokens; row-local features and label checks; fitting and scoring, average
precision, AUC, lift and the value of the Brier score (floating-point arithmetic
that no state depends on); the IID bootstrap; reports that no program reads, the
audit reports of a transfer among them.

The qualification runner, the overlay's validation, benchmark and distribution
check are sequences of external tools (pytest, ruff, pip, build): each outcome is
the tool's, and nothing in the repository reads what they log. The profiler and the
generator read or write one file and end.

## 7. Plan

Written, in this order: ControlTransaction with AtomicRelease; VerifiedLoad;
ReleaseLifecycle; FeatureHistory; ChronologicalSplit; TransactionMassBlocks;
ExperimentRuns; StableRead; InventoryContracts; CommandLine; SourcePatch;
PromotionDecision. What could follow:

1. Composition: VerifiedLoad with each artifact read refined to a StableRead, and
   InventoryContracts inside a finalization.
2. The inventory's path rules: duplicate and colliding names, links.
3. Proofs: that the passes of FeatureHistory implement the features as functions of
   the sorted file; what a late interrupt leaves before its rollback ends.
