# A TLA+ model of signalledger (ecl_trainer)

`ecl_trainer` records metadata about training runs as hash-chained events in a
local JSONL file, checks that metadata in CI, scores its risk, and writes
passports, governance packs and manifests that others are meant to trust. All
of it is plain files: a ledger that several processes append to without a
lock, a reports directory that successive runs overwrite, and a DuckDB file
(the Atlas) that patches modify in place. What can go wrong is what happens
between two file operations, and that is what these modules are about.

Paths below are relative to `src/`. `core/` stands for `src/ecl_trainer/core/`,
and so on for the other packages of `ecl_trainer`.

## 1. Inventory

| Component | State it keeps | Operations | Talks to | What is hard | Correct when |
|---|---|---|---|---|---|
| Append-only event log, `core/ledger.py:27-73` | the ledger file | `append` = `prepare` (read the tail, link, hash) then `write` | every producer of events | no lock, no fsync: races, torn lines, lost tails | an event links to an event that exists; acknowledged events stay |
| Verifier and replay, `core/ledger.py:76-144` | none | `verify`, `raise_if_invalid`, `iter_events` | CI run, passport, pack | off-by-one in the report; what the chain cannot detect | damage is found and located |
| CI run, `ci/artifacts.py`, `ci/scanner.py`, `ci/github_action.py`, `ci/gitlab_ci.py` | the reports directory | `generate` (7 events, 10 files, in a fixed order), the scan alone | ledger, scores, pack, passport | kills half-way, stale files of the run before, other writers in between, exit codes decided twice | a run leaves a prefix of its evidence; a broken chain stops a release |
| Shield, scores and gate, `oracle/shield.py`, `governance.py` | none | alerts to counts, counts to scores and gate; simulate | CI run | thresholds and clamps; which event is the latest | the gate follows the worst alert |
| Human approvals, `governance.py:182-249` | none of their own | append one event, list, filter | ledger | none beyond one append | |
| Governance pack and drift, `mlops_pack.py` | the pack file | build, compare with the pack before | reports directory, ledger | evidence that is missing or of another run; drift one step at a time | a pass vouches for its evidence; no decline goes unreported |
| Metadata scan, `ci/scanner.py`, `ci/path_filters.py`, `compliance/risk.py` | none | filter paths, parse, validate, flag | working tree, policy, ledger | files change under the scan; exceptions cut it short | it vouches for what it read; the worst file decides |
| Passport, `compliance/reports.py`, `oracle/passport.py` | none | replay and verify, compile | ledger | two reads of a file that grows | it says what the verified chain says |
| Atlas, `oracle/atlas.py` | a DuckDB file at one of two paths | build, fall back, read, fingerprint | blueprint, selection, freshness | processes that remove, create and open one path; every start rebuilds the fallback | nobody reads an Atlas that is being built |
| Offline patches, `lifecycle/sync.py` | the same file | `apply_patch` | Atlas | no transaction: crash or error between statements; check and use over two connections | an applied patch is there as a whole |
| Freshness, `lifecycle/freshness.py` | none | age of the Atlas to CURRENT, STALE, MUTED | Atlas, CI run | reads between the statements of a patch | it reports a version that was applied |
| Domain selection, blueprint, `oracle/selection.py`, `oracle/domains.py`, `oracle/blueprint.py` | none | manifest keys to a domain, its curriculum | Atlas, CI run | statuses and hash are read over two connections | the hash tells the domains |
| No-payload policy, `core/policy.py`, schemas, `core/models.py` | none | walk every key and value, refuse payloads | every writer | depth, safe keys, JSON inside text | nothing that looks like a payload is written |
| Clients and billing, `core/client.py`, `core/engine.py` | none; the server counts | one POST per call, raise on an error | control plane (not in the repository) | lost answers, repeated deliveries, a new idempotency key for each call | what returned is recorded; a copy is a call that raised |
| Training callbacks, `integrations/` | hash of the registered dataset | register, save, evaluate: one append each | ledger | ranks that race, callbacks that raise, restarts; a save before the registration | an exposure leads to the dataset of its run |
| Pull-request comment, `ci/github_comment.py` | a comment on the server | list, then update or create | GitHub | racing jobs, pagination, answers that come late | one comment, with the latest report |
| Reports, cards, badges, `ci/reporting.py`, `hub/`, `distribution/` | none | render | | | |
| Supply chain, registries, path filters, `security/`, `compliance/registries.py` | none | lists and hashes | CI run | | |
| Atlas pipeline, `atlas_pipeline/` | its output files | offline batch build | | | |

The flow of one CI run: the scan appends `ci_scan`; if there is a manifest, the
blueprint and the shield append an event each; the passport is compiled from
the replayed ledger, the chain is verified, the passport's event appended, and the
run raises if that verification found the chain broken; the
scores and the gate come from the latest shield event of the whole ledger, and
are appended; the reports are written, with a diff-free-evidence event; the
ledger is verified; the pack is scored from what is in the reports directory;
the comment is written; an export event attests the hashes of the files; the
ledger is verified again and `manifest.json` is written last.

The hazards this exposes, each at its line, are listed in `PROJECT.json`.

## 2. Modules

**LedgerFile** is the pure part of `core/ledger.py`: the file as a sequence of
lines, the tail's hash (`PreviousHash`), appending bytes after a tail with or
without its newline (`AppendLine`), and what `verify` returns (`Verify`). A
SHA-256 is the tuple it is computed from, which assumes it is injective; it covers
all of an event but the hash itself and the signature (`core/ledger.py:23`). A line
that does not parse is `Malformed`. A torn write that stops one byte short
leaves a line that parses and no newline; the next event is then glued to it.

**HashChain** is the abstract specification: events, each linking to the one
before. `Spec` only extends it; `LossySpec` may also lose a suffix.

**Ledger** is the concurrent part. `Prepare` and `Write` are the two halves of
`HashChainWriter.write`; `phase`, `seen` and `pending` are the locals between
them. `TornWrite`, `Kill` and `PowerLoss` are enabled by the constant `Faults`,
and `failures` remembers which have happened, so that a property can say what holds
until one does.
`Exclusive` says that callers take turns, as the steps of one CI job do. An
append that raises before writing changes nothing, so it is a stuttering step.

**TrainingRun** is the Hugging Face and Ray callbacks over Ledger. A callback is
a `Prepare` of an event made from what the process keeps (`last`, the attribute
`last_dataset_hash` or `dataset_hash`) and, where `append` returns,
`CallbackReturns`, which is where a registration sets it. `life` tells the starts
of a process apart and stands for `training_run_id`. A callback that raises may
end the process or not; a power loss ends all. Nothing in the Hugging Face callback
looks at the rank, so every rank of a distributed run registers, saves and
evaluates, on the same path. A dataset reference is the part
`SourceUriPolicy.strip` keeps and the part it takes off, so that two datasets in one
bucket have one content hash (`core/engine.py` fingerprints the stripped one) and
two reference hashes.

**LedgerVerify** writes a ledger of signed and unsigned events, damages it by any
combination of changes, deletions, insertions (of blank lines too) and swaps, and runs
the loop of `verify` line by line (`index`, `previous` and `count` are its locals). A
blank line is skipped and numbered (`core/ledger.py:83-84`), so `index` and `count`
part; `Rank` is the number of a line without the blank ones. The damage has only the
hashes that are written already; an editor who recomputes every later hash makes a
chain that is as valid as the original, with which no check of the file alone can
help, and which is outside the model.

**RiskScore** holds the arithmetic of `score_events`, the thresholds of the
gate, what the shield raises for two kinds of manifest, how a run counts it,
and the policy simulator's prediction. **RiskGate** counts alerts one by one,
any `ShieldRiskAlert` and not only those the checks of today can raise.

**Readiness** holds the score, status and comparisons of `mlops_pack.py`;
**ReadinessDrift** builds a series of packs whose evidence changes a piece at
a time, each compared with the one before.

**CIRun** composes RiskScore and Readiness with a ledger and a reports directory. An
action is a step of `generate`, in its order: an append, a read of the ledger, or a
set of files written together. An append is one step here (Ledger covers what it
consists of) and a line is sound, unlinked or malformed. A run that ends keeps nothing
but an entry of `history`: input, gate, exit code. The passport takes four steps, as
in the code: `CountEvents` replays the ledger, `VerifyForPassport` reads it again for
the report, `VerifyForEvent` a third time (`ci/artifacts.py:501`), and
`AppendPassport` appends the event and acts on what the third reading found, so that
others may get in between any two of them. All events are of one project namespace:
without a manifest the generator filters by it (`ci/artifacts.py:77-89`), and the
count is then of the events that match. `Disturb` is other processes appending (a
human approval, or the event of `oracle shield`, which leaves three counts at zero),
racing or tearing a line; `Kill` is the runner cancelling the job anywhere.
`BuildPackAlone` is `mlops-pack build`.

**MetadataScan** is what a scan does before its event: the loop over the files that
`PathFilter` lets through (`Find`, then `Load` or `LoadRaises`, as the file is asked
for in one call and read in another; `Skip` where it is not to be read, also when the
filter did not let it through), the walk of `NoPayloadValidator` over one document
(`Visit`, `VisitRaises`), and the flags of `RiskGatekeeper` (`Evaluate`;
`EvaluateRaises` where a value cannot be hashed). Only a mapping is walked: a JSON
array is read and passed over (`ci/scanner.py:139`). A document is a tree of nodes
with a class of key and a class of value; a text that is JSON is a node whose child is
what it decodes to. Nodes are numbered in document order, so that of the nodes still
to visit (`todo`) the recursion takes the least. `Edit` is anyone writing to the
working tree meanwhile. Its outcome is the `metadata` of a job in CIRun, where
"raised" is "unparsable".

**AtlasPatch** is `apply_patch`, one action per SQL statement, as DuckDB commits each
by itself when no transaction is open. One process at a time holds a connection that
writes. `base`, `attempted` and `last` are history variables: what the last applied
patch left, and which patches have started since. A version of a record is a
`Content`, and `Reference` gives the source it refers to: the fingerprint has only the
references (`oracle/atlas.py:77-80`), counted as the code lists repetitions, and two
contents may share one. The Atlas starts as `build_option_b_atlas` leaves it, without
source records, or as the pipeline does, with them.

**AtlasReaders** adds a CI run that reads the Atlas, each read over a connection
of its own: the shield's domain statuses and hash, the blueprint's, the
patterns, the source summary and the birthmark, in the order of
`_oracle_outputs` and the freshness check after it. DuckDB refuses a connection
while a process has the file open to write, which ends the run (`Leave`). A
result that a patch overtook between two of its reads is dropped: nothing holds
of it, and the properties say so.

**FallbackAtlas** is which Atlas a process works with: `ensure_atlas`, the removal and
construction of the fallback statement by statement, the readers' connections, the
path a process is given (`asked`; `--atlas-path` may name the fallback, which is then
taken as it is), and the path the patch manager checks a version on and the one it
patches. A file is apart from its name, as removing it takes away the name only. What
DuckDB does with a file another process has open, with one that is missing and with
one a dead process left are facts about the library (a lock, creation, what was
committed). The statements of a patch are one step here.

**RemoteCalls** is the two HTTP clients against servers outside the repository:
the pull-request comment (`StartPost`, `List`, `SendReport`, `PostReturns`) and the
control plane (`Submit`, `SubmitReturns`). The report is read at `StartPost`, before
the listing: its age is the number of the run. A request that was sent is executed now,
late or never, or twice in the case of an event; its answer may be lost; a client
may give it up (`TimesOut`), and need not: httpx's timeout is per operation, which a
server that sends a byte now and then never runs into. Other people may quote the
marker, and `post` takes their comment for its own. `missed` says that a listing came
too early or did not show a comment, or that somebody else wrote the marker;
`overtaken` that a job listed after one that had read a newer report. That the control
plane records an idempotency key once is an assumption on the server.

**MCLedger, MCTraining, MCLedgerVerify, MCReadinessDrift, MCCIRun, MCMetadataScan,
MCAtlasPatch, MCFallbackAtlas, MCRemoteCalls** give the constants their values.
**LedgerProofs, TrainingProofs, VerifyProofs, GovernanceProofs, FallbackProofs, CIProofs,
AtlasProofs, RemoteProofs** hold the proofs.

An operator whose comment begins "A plausible bug" or "A plausible change" is
not part of any specification: put in the place of the definition after it, it
makes a property fail, which shows that the property depends on that code.

## 3. Runs

| Run | Instance | Shows |
|---|---|---|
| `training_runs` | 2 writers, one on Ray, 2 events and 2 lives each, one bucket, each failure at most once | forks are never wider than the number of writers; an event never links to one that is not there; an acknowledged event stays until storage fails; no append mends a defect; every append returns; an exposure leads to the dataset of its run |
| `ledger_turns` | 2 writers, 2 events each, taking turns, any failures | the readable part of the ledger implements the lossy chain |
| `ledger_fork` | 2 writers, 1 event each | fails: two writers that read the same tail fork the chain (finding 1) |
| `verify_damage` | 3 events, 2 signatures, 2 edits | signatures and blank lines aside, only a missing tail verifies, and the report points at the first line that differs; the loop computes `Verify` |
| `risk_gate` | 4 alerts of any kind, a passport that comes and goes | the gate follows the worst alert; one more alert improves no score and relaxes no gate |
| `readiness_drift` | every series over all evidence, two gaps, one file | a decline over a series was reported by some snapshot; a pass vouches for a valid chain and passport, no reported payload and no gate that blocks, and for little else |
| `ci_runs` | 2 runs of 8 kinds of job, one disturbance, kills | evidence is a prefix in order; a pack vouches for a prefix of the ledger that was verified; exports attest; the gate is the simulated one; broken chains stop a release; a passport counts no more than it vouches for; every run ends |
| `ci_high_risk` | every policy and kind of scanned metadata, undisturbed | fails: a `block_on_high_risk` run exits 0 (finding 2) |
| `metadata_scan` | every document of up to 4 nodes, and lists, loops, broken and missing files, beside four other kinds of path; one edit | a refusal is of the first mapping read that has one; the status is of the worst |
| `atlas_patch` | 2 processes, 3 overlapping patches, 2 records with one source in some versions, 2 domains, deaths, and a reader with 2 kinds of request | no record is mixed from two patches; an applied patch is whole; nothing shows that was not attempted; the birthmark describes the Atlas as far as references go; a hash tells the domains it was computed with; a reported version was applied |
| `fallback_atlas` | 2 processes, 3 starts of any kind with either path, with and without a configured Atlas, deaths | a reader that sees a part of an Atlas sees what a dead builder left; every start that asks for the configured Atlas mends the fallback; a patch goes to the file its version was checked on |
| `remote_calls` | 2 jobs, 1 caller with 2 events, 3 calls in all, pages of one comment, one comment of another person | one comment, with the latest report, unless `missed` or `overtaken`; what returned is recorded; copies are calls that raised |

Why the bounds are enough. A fork needs two writers; wider ones are a matter of the
theorem `TrainingForksAreBounded`, for any number. A line glued to a torn one needs
two appends after each other. An exposure can go astray in the run that registered its
dataset or in the next one of the same process, which is `MaxLives` = 2 with
`MaxEvents` = 2 over both; `MaxFailures` = 3 lets each kind of failure happen once, in
every order. Verification looks at a line and the one before, and any pair of edits
meets within three lines. Every weight of the gate saturates within four alerts.
`generate` depends on earlier runs only through the files of the last one and through
the latest shield event, so two runs show every dependence and one disturbance every
place where another process can get in. The patches overlap on a record and on the
domains, one writes a record twice and one fails half-way; what holds of them is
proved for any number of processes, records and patches, and the two processes are
symmetric (the run has no liveness property). Of the reader's three requests the third
names an unknown domain and so is never started. In `metadata_scan` a node needs an
ancestor that could hide it (a safe key, a list, a JSON text), one above that, and a
sibling; `IntRun` = 2 and `FloatRun` = 1 stand for the 8 integers and 4 floats of
`core/policy.py:366-369`, and small lists are on either side of both. The safety
properties of every passing run are proved for all values of their constants (section
5). In `fallback_atlas` two starts race for one file, and the third meets what they
left of it, with either path: it mends it, or takes it as it is. In `remote_calls` a
page of one comment stands for the 100 of the code, so that one comment of another
person pushes the report off it, and three calls are a race of two and the run after
it.

Deadlock is checked only for `risk_gate`, `readiness_drift` and `atlas_patch`:
the others stop when their bounded number of appends, runs or verifications has
been made.

Fairness. `FairTrainingSpec` and `FairSpec` of CIRun assume only that a process that
is still running executes its next step (weak fairness of `CallbackReturns`, of the
steps of a run). The code has no lock, retry or wait, so nothing else is needed. Of
the HTTP clients no fairness is assumed, not even that a timeout strikes, and nothing
is promised to end. There is no fairness for starting appends or runs, for edits or
for failures. An append that is killed or torn ends without returning, so
`AppendReturns` promises the event's return only where nothing has failed. In
`ci_runs` a killed run enters `history` like one that ended, and `RunsEnd` says that
any other ends by itself.

## 4. What the runs found

1. `core/ledger.py:44`: `prepare` reads the tail, `write` opens the file
   afterwards. Two processes that read the same tail link to the same event, and
   every later verification reports the ledger broken. `docs/SCHEMA.md:33`:
   "Every event links to the previous event hash."
2. `ci/artifacts.py:200`: the exit code is decided on the manifest, which has no
   `risk_summary`, so `block_on_high_risk` never fails a report run.
   `docs/GITHUB_ACTION.md:55`: "`block_on_high_risk`: fail on high-risk metadata
   findings."

Behaviour that is in the models, in whose properties it appears as an exception
or a choice, and that a reader of the documents may not expect:

- Under `report_only` a run still exits 1 if the chain is broken or metadata cannot be
  parsed or must be refused (`ci/artifacts.py:515`), where `docs/GITHUB_ACTION.md:53`
  says "`report_only`: produce report without failing."
- A torn write without a newline swallows the next event, whose append is acknowledged
  (`core/ledger.py:52`; `AckedEventsStay` says: until storage fails), and the ledger
  is unreadable from then on.
- A ledger that lost its tail verifies (`core/ledger.py:93`), and so does one whose
  signatures were changed or stripped, as no hash covers them (`core/ledger.py:23`);
  `UndetectedOnlyTruncation` says nothing else escapes.
- Blank lines count in `first_broken_link` and not in `event_count`
  (`core/ledger.py:83-84`).
- A pass does not vouch for what deducts nothing: a gate or payload status that is
  unknown, evidence files that are absent (`mlops_pack.py:311-360`;
  `PassVouchesForEvidence` says what it does vouch for).
- A pack that a run builds is scored on the gate of the run before, as `manifest.json`
  is written last (`ci/artifacts.py:149`; `PackGateLagsOneRun`).
- A pack built by hand trusts an older `verification.json` (`mlops_pack.py:41`) and
  does not look at the ledger, so it may pass after the ledger broke. What it vouches
  for is then a prefix of the ledger, the one that was verified
  (`PackVouchesForAPrefix`).
- A save or an evaluation of a Hugging Face run that has registered nothing, or whose
  registration raised, records the hash of the whole reference, which no data_ingest
  event has (`integrations/huggingface.py:43`; `ExposuresNameAnIngest` says this is
  the only case). Ray's callback raises.
- Datasets below one bucket have one dataset hash (`SourceUriPolicy.strip`,
  `core/engine.py`), so a query by it yields the events of all of them.
- Two jobs that list the comments at the same time create two reports, and one report
  beyond the first 100 comments is not found (`ci/github_comment.py:39`; `missed`).
  Anyone's comment with the marker is taken for the report (line 42).
- The report is read (`ci/github_comment.py:29`) before the listing (line 39), so a
  job that is slow in between puts an older report in the place of a newer one
  (`overtaken`), and so may a delayed update.
- A caller that repeats a call that timed out has its event recorded twice
  (`core/client.py:116`; `CopiesAreRaisedCalls` bounds the copies).
- Where the configured Atlas is missing, every start rebuilds the fallback, and every
  patch of it is gone at the next start (`oracle/atlas.py:247`;
  `StartMendsTheFallback`), except of a process whose `--atlas-path` names the
  fallback, which takes it as it is, patched or half built. Where the configured one
  is there and empty, as a patch of a path that was removed meanwhile leaves it, it is
  used for ever and every read raises.
- A passport event that says the chain is invalid is appended before the run raises
  (`ci/artifacts.py:492-516`). A chain that breaks after line 501, before the event of
  line 513 is appended, does not stop the run there; what `BrokenChainStopsRelease`
  says is that the passport of a run that completes counts sound events only, and that
  the strict policy stops the run later.
- The recorded fingerprint is of the references of the sources
  (`oracle/atlas.py:77-80`): two versions of a record from one source, or two records
  with one source, leave it the same. `BirthmarkDescribesAtlas` promises no more.
- A file that vanishes after it was found, and a value that cannot be looked up in a
  set (`compliance/registries.py:47`, `compliance/risk.py:52`), end a scan with an
  exception; a JSON array is not looked into (`ci/scanner.py:139`).
- `apply_patch` can apply a patch to a version it is not for: the version is read over
  another connection (`lifecycle/sync.py:119`), so another patch may be applied in
  between, or the path may name another file by then; and a death between lines 296
  and 297 leaves no metadata row, with which the check is skipped (lines 120-125).
  AtlasPatch and FallbackAtlas have these behaviours, and state only what holds in
  spite of them.
- A patch that died leaves an Atlas without a birthmark or with the old one, that can
  be read: the freshness check then reports "unknown" or the version before
  (`lifecycle/freshness.py:43`), and the hash covers what is there.
- A scan in which git fails, or a shallow clone, has no files to look at and records a
  pass (`ci/scanner.py:62`).

## 5. Proofs

Everything below is checked by TLAPS for every number of writers, events,
failures, edits, alerts, packs, runs, disturbances, patches, jobs and calls. The
inductive invariants are in the modules they are about, after the properties, and
TLC finds each of them true of the instance of its run.

**LedgerProofs.** `IInv` (in Ledger) is the inductive invariant. The safety
properties speak of the file alone, and a step can break them through what a
writer holds between its two halves; so `IInv` adds that the hash a writer has
seen is still in the file while the file parses (`SeenIsPresent`, for
`ParentsPrecede`), that the writer has no event with that parent yet
(`SeenIsUnusedByWriter`, for `SiblingsHaveDistinctWriters`), that no content is
there twice (`ContentsAreFresh`), that storage that never tears leaves every line
terminated (`NoTornTail`, for `AckedEventsStay`), and that writers taking turns
see the tail they write after (`TurnsKeepTheChain`, for `ExclusiveNeverBroken`
and both refinements). Each part has a lemma `...Step`. From it follow
`TypeCorrect`, `ParentsAlwaysPrecede`, `ForksAreBounded`, `AcksAreKept`,
`TurnsNeverBreak`, the action property `DefectsAreForever`, and the refinements
`TurnsImplementChain` and `TurnsImplementLossyChain`.

**TrainingProofs.** `TrainingIsALedger` shows that every step of a training run is
a step of Ledger or leaves it alone, so the theorems above hold of training runs
(`TrainingParentsPrecede` and the like restate those that `training_runs` checks).
What is not trivial in it is that the contents a callback makes are contents of the
ledger, which needs the types of the callback's memory. `ExposuresLeadToAnIngest`
needs the invariant `TrainingInv` (in TrainingRun): events name their writer's
dataset and a run that has begun (`EventsNameTheirDataset`), a process that
remembers a dataset has its data_ingest event in the file while the file parses
(`RememberedIsIngested`), one that remembers none has none there unless the last line is
unterminated (`ForgottenIsNotIngested`, the exception being a registration whose
write lost its newline, and which the next write destroys), and what is pending agrees
with the memory it was made from (`PendingIsOfThisRun`).

**VerifyProofs.** The invariant says that damage makes every line out of hashes
and contents that existed (`TypeOK`), that the original is a chain of different
contents, and that the lines the loop has accepted are the original's events
(`ScannedIsOriginal`), signatures aside and by their `Rank`, as blank lines are
numbered. The step that matters is the lemma `SoundLineIsOriginal`:
a line that links to the original's line and has its own hash right, made of
known hashes, is the next event of the original. `OnlyTruncationEscapes` and
`ReportsLocate` follow. `LoopIsVerify` relates the file to the one without its blank
lines (`Written`), and needs that the loop carries the hash of the
last line it accepted, and that every line it accepted was sound, so that the line
it stops at is the least defect (`FirstDefectIs`), which is how `Verify` is defined.

**GovernanceProofs.** Of MetadataScan: `ScanInvariant` says what the walk of a
document has established (`WalksWhatItRead`): there is a set of visited nodes none of
which is refused, and whose children are each visited or to visit. When nothing is
left to visit that set is closed, and the lemma `ClosedIsAll` makes it the whole
document: the least node outside it would have its parent, which comes before it,
inside (`WalkedIsClean`). So the mappings that are finished with have no payload
(`FinishedHaveNoPayload`, for `FirstOffenderStops` and `NothingRecordedOnAPayload`),
and the flags so far are theirs (`FlagsAreOfFinished`, for `StatusIsTheWorst`).
Nothing is said of files not read yet, which is why edits do not disturb it. Of
RiskGate: `Thresholds` and `Clamps` turn the weights into linear arithmetic over
natural numbers, and no gate is relaxed as the counts grow; `GateFollowsWorstAlert`,
`ScoresStayPercentages` and `AlertsOnlyHurt` follow from type correctness. Of
ReadinessDrift: that a series cannot hide a decline needs the invariant
`NothingHidden` (nothing reported so far implies no regression from the first pack)
and the lemma that not regressing composes. `ImprovementsAreDirected` and
`PassIsEarned` follow from the types of the evidence, the second by what each piece of
it deducts of 100.

**CIProofs.** `CIInvariant` (in CIRun) says what `generate` may rely on at each
of its stages, although it shares the ledger with everyone and the directory with
every earlier run. The lines of the ledger never change, so whatever was read of it
stays true of a beginning of it: the passport's count and verdict
(`PassportWasRead`, for `PassportCountsWhatItVouchesFor`), what the verification
before its event found (`PassportWasOnASoundChain`, for `BrokenChainStopsRelease`,
whatever others append until the event is there), the verification a pack
is built on (`VerificationHolds`, for `PackVouchesForAPrefix`), the scores of the last
oracle event (`GateIsOfThisRun`, for `GateMatchesSimulation`, whose part about the
policy simulator is the lemma that its prediction is the gate of the shield's
counts). A report may be of an earlier run until the stage at which this one writes
it (`ReportsOfThisRun`, `ExportIsCurrent`, for `ExportAttestsReports` and
`BrokenChainStopsRelease`), and the manifest is of the last run that completed
(`ManifestIsTheLast`, for `PackGateLagsOneRun`). `EvidenceIsAPrefix` is about order:
a run has appended exactly as many events as its stage says (`Appended`,
`EvidenceIsCounted`), so that the next one has the next place of the pipeline, with
other processes' lines in between. The sets `FromScore` to `FromFinalVerify` are the
stages from one on.

**AtlasProofs.** `PatchInvariant` (in AtlasPatch) follows the one process that
writes (`OneWriter`): it is at a statement of the operation its patch is at
(`AtItsOperation`), the record under way is deleted or half inserted as the
statement says (`RecordUnderWay`), and each operation that is done had the last
word on its record or domain, unless the one under way, or a later one, is about the
same (`WrittenSoFar`). At the end of the patch nothing is under way, and
`WrittenSoFar` is `AppliedPatchIsWhole`. No step of it depends on how the attempts
before ended, which is why repeating a patch mends it. `ReadersOnlyRead` shows that a
run that reads the Atlas takes no step of the patchers, and so `PatchInvariant` holds
in AtlasReaders. `ReaderInvariant` then adds that between the two reads a result is
made from nobody writes unless `overtaken` says so (`ChoiceIsOfTheAtlas`,
`ReportIsOfTheAtlas`); the lemma `QuietStep` is what makes it inductive: a patcher's
step before and after which nobody writes does not touch the Atlas.

**FallbackProofs.** `FallbackInvariant` (in FallbackAtlas) is about files and what
processes know of them. A file that nobody has open to write is whole or was left by a
builder that has gone (`HeldUntilWhole`, for `HalfBuiltIsAbandoned`), which needs that
what a process has open has it as its writer (`HoldsItsFile`). A process nobody
overtook is at the path its manager is for, and the fallback it is to read, if it was
not given that path itself, is as its builder left it (`Mended` in `KnowsItsPath`, for
`StartMendsTheFallback` and `PatchedAsChecked`). The lemma `OthersAreFine` is the
interleaving: a step of one process changes no file another has open, as files differ
by name (`NamesDiffer`) and by writer, and no name another relies on unless it
overtakes it.

**RemoteProofs.** `RemoteInvariant` (in RemoteCalls) is about requests that are
under way. A key is of one call and of one event, whether it is in a request or in a
record (`KeysAreOfCalls`), so a set of keys, in the net or recorded, can be counted
against the calls that raised, returned or wait (`KeysAreCounted`, for
`CopiesAreRaisedCalls`); an answer is for the call that waits and is true
(`AnswersAreAwaited`, `AnswersAreTrue`, for `ReturnedMeansRecorded`). Until a listing
missed something, one job at most is between its listing and the execution of its
request, and it creates only where there is no report (`OneChange`, for
`OneReportUnlessMissed`). Until a job was overtaken as well, what it has in hand is the
newest report of those that listed (`NewestIsPosted`), so that what it posts is shown
or a newer one is (`PostsAreShown`, for `LatestReportStays`).

Assumptions: those named in the modules (`LedgerAssumption`,
`TrainingAssumption`, `VerifyAssumption`, `GateAssumption`, `DriftAssumption`,
`CIAssumption`, `PatchAssumption`, `ReaderAssumption`, `RemoteAssumption`,
`FallbackAssumption`, `ScanAssumption`), which TLC
evaluates on every run, and, in the two refinement theorems, that callers take turns.

`TypeCorrect`, `TurnsNeverBreak`, `TurnsImplementChain`, `ScoresStayPercentages`,
`ImprovementsAreDirected`, `NothingRecordedOnAPayload`, `ReadersOnlyRead` and the
invariants themselves are proved and not among the properties of a run.

Only model-checked: liveness under fairness (`AppendReturns`, `RunsEnd`), which TLAPS
cannot prove, as it cannot ENABLED. No module here uses RECURSIVE. What SelectSeq
returns cannot be proved, as it takes an operator, which is why the lists of domains
in AtlasReaders are sets and nothing is proved of the paths in a scan's event. The
walk of a document, and the least defect of a file, need the least number of a set and
no induction over data.

## 6. Not modelled

- The patterns and wording of the no-payload policy, of the schemas and of the
  rendered reports: text, with no state. Which class a key or value has is an
  input of MetadataScan; what the walk does with it is modelled.
- What the control plane and GitHub do beyond the answers RemoteCalls lets them
  give; the VPC client, the signer and the billing hooks, which keep no state.
- The Atlas pipeline: offline, in one process, into a new file.
- The PyTorch and Axolotl entry points: the same appends as TrainingRun's, with no
  memory between them. The scalars of an evaluation.
- The Atlas hash that the passport carries, which goes with no domains, and the
  Atlas summary of a run without a manifest.
- The blueprint's mixtures and the domain patterns: functions of rows no patch
  changes.
- Tags of a record are one row in AtlasPatch, so that a death between two tags
  of the same record is not told apart from one before the first.
- Several CI runs at once: they share the ledger through `Disturb` only.

## 7. Plan

Done, in this order: LedgerFile, HashChain, Ledger, LedgerProofs; LedgerVerify,
VerifyProofs; RiskScore, RiskGate; Readiness, ReadinessDrift, GovernanceProofs;
CIRun; AtlasPatch, AtlasReaders; MetadataScan; TrainingRun, TrainingProofs;
RemoteCalls; FallbackAtlas; RemoteProofs, CIProofs, AtlasProofs, FallbackProofs.

Left to model: several CI runs on one reports directory at once, which would need
the appends of CIRun to be Ledger's two steps.

Every safety property that a passing run checks is a theorem; what is left to prove would
come with that model.
