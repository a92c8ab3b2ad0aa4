# Verification of the Amiga Antivirus Appliance

TLA+ modules of the parts of the appliance that are hard to test: what happens
when goroutines, commands, network users, crashes and failing disks meet. TLC
checks them on small instances; TLAPS proves their safety properties, action properties and the
refinement for any number of jobs, workers, commands and faults, any archive and any disk. Source paths are relative to `src/`;
`PROJECT.json` maps every definition to the lines it stands for, and lists the
runs, the bugs each property is tested with, the hazards and the theorems.

1. [The system](#the-system)
2. [The modules and the code](#the-modules-and-the-code)
3. [Runs, bounds and what they show](#runs-bounds-and-what-they-show)
4. [What the code does not do](#what-the-code-does-not-do)
5. [Proofs](#proofs)
6. [Not modelled](#not-modelled)
7. [Plan](#plan)

## The system

One Go program, `aaa`, that is a daemon (`aaa daemon`) and a set of commands run
by operators. They share directories, not memory; no database is involved, and
every promise the appliance makes to a reader rests on the order of `link`,
`rename`, `fsync` and `flock`.

| Component | State it keeps | Operations | Talks to |
|---|---|---|---|
| **Scan daemon** `internal/daemon`, `cmd/aaa/daemon.go` | jobs in memory, bounded queue, worker pool, one error | Submit, worker loop, Run, shutdown, start | journal (writes), scanner (call), HTTP and drop folder (call it) |
| **Scan history** `internal/scanhistory` | an append-only JSON-lines journal | Record, LoadLatest, RecoverInterrupted | read by the next start and by the API |
| **Drop folder** `internal/dropfolder` | observations (memory), receipts file, incoming directory | poll, Observe, Stage, record, prune | network users write the source directory; Submit |
| **HTTP API and web UI** `internal/api`, `internal/webui` | incoming directory | upload, list, status | Submit, journal |
| **Scanner core** `internal/scanner`, `internal/archive`, `internal/adf`, `internal/hunk`, `internal/preservation`, `internal/signatures` | none; one budget per scan | recursive scan of files, archives, disks, executables | external unpackers |
| **Signature candidate store** `internal/signaturefactory` | `candidates/`, `promoted/`, `rejected/`, exported databases | record, promote, reject, export | scans write it, operators decide |
| **Signature distribution** `internal/signaturefactory/distribution_*.go` | bundle directory, release archives, `distributions/<version>/`, `current.json` | build, sign, archive; check, download, install, verify | candidate store (exports), release server |
| **Trust store installation** `cmd/aaa/trust_update_install.go`, `..._checkpoint_trust_update.go` | `trust-store-<seq>.json`, `trust-update-state.json` | install, status, verify | pinned root key, evidence ledger |
| **Evidence ledger** `internal/evidenceledger`, `cmd/aaa/evidence_ledger*.go` | a hash-chained file, signed checkpoints | append, verify, sign, verify against a checkpoint | locked by every append |
| **Evidence replica** `internal/evidencereplica`, `cmd/aaa/evidence_replica*.go` | content-addressed copies, receipts, sessions | replicate, verify, session | source files |
| **Evidence bundles**, **checkpoint trust**, **historical scanners**, **acquisition**, **support** | one output file per command, or none | one-shot | files, external programs |

What is hard in each, and what makes it correct:

- **Daemon.** A transition changes memory under `Manager.mu` and the journal
  under `Store.mu`, in two steps; between them fall other workers, a shutdown, a
  full queue, a failing write or a crash. Correct when journal and memory never
  contradict each other, a job that was accepted is found again after every
  restart and is closed some time, and a shutdown ends.
- **Drop folder.** Users write, move and remove files between any two system
  calls of the watcher, and it may die between the submission and the receipt.
  Correct when a receipt is never ahead of the submission, files still being
  written are left alone, nothing is submitted twice in one life, and every
  file left in peace is submitted in the end.
- **Trust installation.** Two files must become durable in the right order, and
  a retry meets what an interrupted run left. Correct when an update that was
  reported or recorded is not taken back by a later command or a failure and the pointer
  names a store that is there.
- **Ledger.** Concurrent appends, a restored older copy, records in the page
  cache, incomplete last records. Correct when the ledger only ever grows by
  verified records, acknowledged ones survive, and a signed checkpoint accepts
  exactly the history that was signed.
- **Candidate store.** No locks: scans, operators and exports race to names.
  Correct when no candidate is lost or rewritten, what an operator was told
  stays true, and a published signature is not withdrawn by accident.
- **Distribution.** Releasers share a bundle directory and archive names without
  a lock; archives travel over a server nobody vouches for; installed releases are
  activated by a rename. Correct when a client only ever installs what the trusted
  key signed, a reported archive stays what it is, and a reported installation is not
  rolled back.
- **Replica.** Sources change between hashing and copying, commands meet under the
  same names, the storage is not to be relied on. Correct when a name never shows
  other bytes than its digest and a document claims only what is there.
- **Scanner and parsers.** Sequential, over data that may be archives holding
  themselves and disks whose pointers run in circles. Correct when one budget bounds
  the work of a scan, every scan ends, no verdict is lost on the way up, and a
  listing that is not the whole disk says so.

`PROJECT.json` has the hazards, each at its line.

## The modules and the code

`MCx` modules instantiate module `x` for TLC; they hold symmetry sets and
constant values (files, disks, answers of a server) only. In each module a section *The plausible bugs* holds the
mutated forms its properties were tested with; nothing in `Next` refers to them.

### ScanHistory and ScanDaemon

`ScanHistory` is what readers of the journal are promised: per job a last
snapshot that moves from pending to running to an outcome or is canceled, and
whether a replay works at all. It knows nothing of workers or restarts.
`ScanDaemon` implements it (`History`, `HistoryRefined`).

| ScanDaemon | code |
|---|---|
| `jobs`, `queue`, `errors` | `Manager.jobs`, `.queue` (channel), `.errors` (channel of one) |
| `spc`, `sjob` / `wpc`, `wjob` | where a goroutine is in `Submit` / in `worker`, `execute`, and the job it holds |
| `latest`, `tail` | what `LoadLatest` makes of the file; how the file ends |
| `phase`, `toCancel`, `toRecover`, `runErr` | `Run`, `cancelPending`, `RecoverInterrupted`, the exit of `runDaemon` |
| `issued`, `accepted`, `failed` | history variables for the properties |

Every section under `Manager.mu` is one action and every `Record` is another.
`Record` succeeds or fails in one of three ways: nothing written, a part of the
line, or the line without its newline (or without a successful fsync). A later record is
then appended to that tail and reports success, which is what the file really
does. So does a scan result of more than the 16 MiB a replay reads as one line (`WriteTooLong`). A crash
loses memory and keeps the journal; `Start` replays it or refuses.

### TrustInstall

A file exists twice: as processes see it (`store`, `state`) and as the set of
contents a power loss may leave of it (`diskStore`, `diskState`). Writing adds
to that set, fsync of the file or of the directory narrows it. There is one action
per system call of `writeImmutableOrConfirm`, `atomicReplaceFile` and `installVerifiedTrustStore`,
the deferred removal after a failing write included. Kills lose the process;
power losses pick one survivor per name, independently. `directory` is the installation
directory: `MakeDirectory` is the code's `os.MkdirAll`, whose parent nothing fsyncs, so until a power
loss has left it there the next one may take it with all it holds. What was confirmed then is `taken`.
A directory that was there before the first command is durable. The second command of
`cmd/aaa/evidence_ledger_checkpoint_trust_update.go` is the same algorithm on
another directory.

### EvidenceLedger

`lines` is the file at the ledger path, `inode` which file that is; commands
that hold an older file open keep working on it. The steps of an append are
open, lock, read and verify, recheck of the path (the same file, of the size that was read), write,
fsync, fsync of the directory. `Open` makes the ledger's directory where there is none; its own entry is
never fsynced, so a power loss may take it with the ledger (`LedgerVanishes`), and the next
file is another `inode`. Acknowledgements and checkpoints name the file they are about. The command
reads and verifies the ledger once more after it reported the append to its callers
(`evidence_ledger.go:62`): that changes nothing and is left out. `Digest` is injective: a digest stands for the bytes. `Restore` puts
another file in place: an older copy, one with a record removed, or one with a
record replaced by another statement.

### DropWatcher

`file` is the users' directory: creating or moving a file gives a new inode,
writing in place a new modification time. Users act between any two steps of
`Poll … Open, Revalidate, Copy, Matches/Differs, Submit, Record, Prune`. `observed` is the
map of `Watcher.Run`, `receipts` the file `drop-ingest.json`. Time is counted in ticks of the poll
interval: `elapsed` ticks were sent since the poll began, of which the channel keeps the first; the
next poll reckons with that tick's time and is `late` by the rest. `age` is what the code
computes, the poll's time less the one of the poll that first saw the version. A file of more than `MaxBytes`
(`Large`) fails its staging with an error `poll` does not retry: the daemon ends, and ends again
after every start. A copy of a
file changed in place during the copy may be a mixture (`Mixed`), which is what `Stage`
can miss when the length stays. `quiet` counts the ticks a version has
really been left alone since it was first looked at, and is there for `OnlyQuietFilesAreStaged` only.

### SignatureStore

`records[dir][id]` is the `created_at` of the record, which is what tells two
records of one candidate apart. Scans run `RecordScanResult` over what they
detected; operators run `Store.transition`: read the candidate, link
the decision (the look at the destination before it decides nothing the link would not), remove; exporters list what is promoted and rename a new
database over the old one. Each step is an action, anything may run in between,
and any command may be killed anywhere. `recorded` has every record a scan linked, with its time,
and `contended` the candidates two operators have worked on at once. A pattern candidate goes through the
same transition after a gate that is a pure function of a corpus.

### DistributionInstall

`release[v]` is what `distributions/<v>` holds, file by file the bundle it comes
from: manifest, signature, payloads. `state` is `current.json`. A command
compares its bundle's version with the active one once (`Start`), then looks at the
directory of its version, stages and verifies a copy, renames it, fsyncs
`distributions/`, renames `current.json` and fsyncs the store. Every step is an action,
and no lock is taken. What a power loss may take: a release whose name was not fsynced
(`settled`), the payloads of one placed since the last loss (`fragile`: they lie in
subdirectories nobody fsyncs), all of `distributions/` until the store directory was fsynced
(`rooted`), the newest `current.json` (`diskState`), and the whole `store` where a command made it:
its parent is never fsynced, and what had been reported in it is `taken`. Signatures are membership
of `Bundles`. The copy of a source that changes does not verify and is refused; that a
copy which verifies is of one bundle is `Verifies`, whose digests are injective.

### DistributionRelease

Everything before the installation. `generated` is what `SignatureStore` exports;
`bundle` is the bundle directory, file by file; `archive[v]` and `checksum[v]` are what
lies under the release names of a version. A content stands for its digest, so a manifest
is `[version, signer, sums]` and a signature `[key, of]`. `Build` copies and hashes the
payloads one by one; `Sign` reads the manifest, compares the payloads, replaces manifest and
signature; `Archive` verifies, looks at the name, packs the four files one by one, renames,
digests and writes the checksum file, where `--checksum` asks for one. Each of these is one action, any two commands may be under
way, a failing build or archive command removes what the code removes, and kills, power
losses and the operator's removals fall anywhere. A kill in the middle of an `os.WriteFile` leaves a torn manifest
or checksum. The archives' directory may be one a command made (`anchored` says that it outlives
a power loss); checksum files are never fsynced (`unsynced`), and a power loss may take or tear them.

The client has one command at a time: `Check` goes through an answer of the releases API with
the loop of `DiscoverDistributionRelease`, `Download` and `Fetch` get any archive the server has (or a torn one)
under any version's name, with or without the checksum, and `Install` extracts and
verifies. `InstalledWasSigned` is the contract between the two modules: what
`DistributionInstall` calls a member of `Bundles` is a release in `signed`.

| DistributionRelease | code |
|---|---|
| `pc`, `job` | where a command is in `BuildDistributionBundle`, `SignDistributionBundle`, `BuildDistributionReleaseArchive`, and what it has read |
| `client`, `download`, `active` | `signatures update check/download/install`, the file downloaded to, the release `current.json` names |
| `alone`, `signed`, `fresh`, `reported` | history variables for the properties |

### ReplicaSession

`object[c]` is what the replica holds under the digest of content `c`; `source` is what the
operators' files hold now. `replicate` and `replicate-session` are one sequence of actions
that follows the code: hash all sources (`HashSource`), and per object ask
(`FindPresent`), look again (`Look`), copy to a temporary file and compare (`Copy`), fsync,
link, verify what lies under the name, fsync the directory (`SettleObject`), and at the
end write the document. `Record` is what the two differ in: the single command ends with the first
error, the session notes it and goes on. `anchored` are the names whose
directories are durable: the code syncs the directory an object lies in, but not those above.
A document is written under a name that must be free (`WriteDocument`): one that is there, or the `scrap` a
killed command left of one, makes the command fail. `VerifySession` has the three exits of the verifying
command, an error, `incomplete` and `verified`. `damaged`, `intact` and
`excused` are history variables: which objects the storage spoilt, whether a document's
objects were harmed since, and whether something happened that may make an object fail.

### Scanner and DiskWalk

A file is a content; an archive's members are contents again and nothing makes that
a tree. `Scanner` makes the recursion of `scanMemberPayload` an explicit `stack` of the archives
under way, with `at` the member at hand, `results` by path, and `budget` what
`archiveBudget` has been charged. A decoder is what it accepts within the limits it
is given (`Decodes`); external unpackers and helpers (`Tools`, preservation formats) may
also fail for no reason. An error ends the scan of the submitted file and is noted at a member, as in the code (`Fail`).

`DiskWalk` is the walk of a DOS disk, one action per block the loops of `walkDirectory` and
`analyzeFilePayload` look at: `frames` are the directories under way with their remaining hash
slots and the chain so far, `file` the file whose extensions are followed. Blocks hold
arbitrary pointers. `Scanner` extends `DiskWalk` and runs it for each disk it meets.
`Reachable` is the reference definition the listing is compared with: the smallest set that holds what the
root lists and is closed under the pointers of its members.

## Runs, bounds and what they show

| Run | Instance | Shows |
|---|---|---|
| `scan_daemon` | 2 jobs, 2 submitters, 2 workers, queue 1, 2 failing writes, 2 crashes, fairness | memory and journal never contradict each other; accepted jobs are durable and settled; nothing the history shows as open is orphaned; the daemon implements `ScanHistory`; a shutdown ends |
| `scan_daemon_replayable` | 2 jobs, 1 failing write | *violation*, see below |
| `trust_install` | one command at a time, 4 signed updates, 2 kills, 2 power losses, 2 failing calls; a directory that was there or that the command makes | confirmed updates are not rolled back or lost, short of the loss of a directory the command made; one interruption leaves the old or the new installation |
| `evidence_ledger` | 2 appenders, 2 entries, 3 records, 1 checkpoint, any 2 incidents (kills and failing calls, power losses, at most 1 restored copy) | growth by verified records, binding checkpoints, durable acknowledgements per file |
| `drop_watcher` | 2 names, 2 contents and one too large, 2 user writes, 1 crash, a stability window of 2 ticks, polls up to 2 ticks apart, fairness | receipts are earned and follow the files; files are staged after the window less the lateness of the tick; no source is submitted twice between two failures |
| `drop_watcher_replaced` | 1 name, 2 writes | *violation* |
| `signature_store` | 2 candidates of one sample, 2 scans, 2 operators, 1 exporter, 1 kill | no record vanishes, except under two operators at once, and none is rewritten; reports stay true; exports only add |
| `signature_store_members` | 2 members of one archive, 2 scans | *violation* |
| `distribution_install` | 2 commands, 3 bundles, 2 of them of one version, 2 kills, 2 power losses, 1 failing call; a store that was there or that a command makes | the active release is whole; what was reported is not rolled back and survives |
| `distribution_release` | 2 releasers, 4 commands, 2 keys, 2 versions, 1 re-export of each database, 1 mishap; one client | only signed releases are installed; a signed bundle verifies; a reported archive stays, short of the loss of its directory; the newest usable release is offered |
| `replica_session` | 2 commands, 2 sources, 2 kinds, 2 contents; 1 each of changes, harms, kills and failing calls | names show their digests; documents verify; failures have causes |
| `scanner` | 3 contents in some ten thousand nestings, depth 2, 6 units and 5 entries per scan; disks of 4 blocks whose pointers chain, circle and leave the image, depth 1 | one budget per scan; verdicts agree with the disks below; listings are honest; every scan ends |

**Why the bounds are enough.** Two actors of each kind suffice for every race in
the code: its locks and names are per object, and a third actor only repeats
one of the two roles. A queue of one is full with the second job while no worker has taken the first, so
rejection, waiting and shutdown with a non-empty queue all happen. Two failing writes let the second meet the tail
the first one left. Two crashes let the second fall into the recovery from the
first. In `TrustInstall` two updates share a sequence (the conflict), one is
later (the advance) and one has another root key (the refusal); two kills and two power losses allow
every interruption of a retry. Three ledger records are the shortest
chain in which a record has a predecessor and a successor; two incidents let an append be
stopped before or after a power loss or a restored copy. Two writes let a user create a file and change
or replace it, or use both names, one of them for a file that is too large; polls that start up to two ticks
apart let the tick in the channel be old. Two scans give one candidate two possible records,
which is what every conflict in the store is about. Three bundles give a later version and
another build of the same version, so both refusals and the take-over of a placed release happen. Four release commands are
the shortest story with a competitor: build, sign, archive, and one more of any kind in between; two
versions let an archive arrive under another version's name, two keys a bundle signed anew by
the wrong one. A replica session on two sources has an object before and one after a failure;
two kinds let it list one object twice. Three contents give an archive in an archive with
siblings, one that holds itself, and the same one twice; with depth 2 the third level is
refused, and 6 units and 5 entries are less than what the larger cases would unpack, so the
limits are reached and exceeded at every level. Four blocks hold two directories that point at each
other, a file reached twice, a chain that loops and, with depth 1, a directory first
found at the limit. Symmetry is used only
in runs without liveness properties, on sets the module never orders.

`CHECK_DEADLOCK FALSE` is said where the commands may all have run: an
installation without a later update or bundle to install, a store whose scans are used
up, releasers and replica commands that were all started, a scan that has ended.

**Fairness.** `ScanDaemon`: weak fairness of each submitter's and worker's
steps, of the manager and of the start. Goroutines blocked on nothing run; a
scan returns, because scanner and unpackers have limits and timeouts; a daemon that is down
is started again (`Restart=on-failure` in `systemd/`, the administrator, or the next
boot). Nobody is obliged to submit, to stop or to crash. `DropWatcher`: the
watcher's own steps, the ticker and the start are weakly fair, and `Submit` strongly: it is
attempted again every poll, and a queue that workers drain does not refuse for ever.
Crashes, user writes and refusals are never forced. `Scanner`: weak fairness of
`ScanNext`, since a scan is one sequential call whose external programs run under timeouts; that
it ends is then a matter of the budget, the depth limit and the visited sets. The other modules state no
liveness: their commands are run by operators who may stop at any time.

Liveness rests on bounded crashes and faults: "in the end" means after the last
of them. This is the usual reading, and no property assumes when it is.

## What the code does not do

The first three are runs whose counterexamples are short scenarios of the code; the
findings in `PROJECT.json` quote the documents.

- **A partial journal line goes unreported** (`scan_daemon_replayable`). When the
  first record of a job fails, `Submit` returns an error but does not report it
  to `Run`. If the write left a part of a line, later jobs are accepted and
  their records appended behind it, and no start can replay the file.
  `AcceptedIsDurable` and the other daemon properties except a journal whose
  tail is torn for this reason; the exception is written in each.
- **A replaced source stops the daemon** (`drop_watcher_replaced`). One of the
  errors of `Stage` for a file that changed is missing from those `poll` retries.
- **A known member hides the ones after it** (`signature_store_members`). The
  second scan of a known sample never produces equal bytes, because they hold
  the time; the conflict ends the loop over an archive's members.

More limits are stated where they bite:

- **Two installs at once can go back.** Neither install command takes a lock; each compares its update
  or bundle with what was active when it began. With two of them TLC finds a confirmed trust store and a reported
  distribution replaced by an older one, although docs/M7_4_SPEC.md:81 promises that downgrades are refused.
  `trust_install` has one installer, and `ConfirmedSurvives` is about commands that ran one after the
  other. No document says that they must. For one command after the other the refusal is the
  comparison itself, so no property is spent on it. `PublishedOnlyGrows` is checked with one
  exporter; with two TLC finds an older listing renamed over a newer database.
- **Directories that are made are not durable.** The trust commands, the ledger's append, the distribution
  store and the archive command call `os.MkdirAll` and fsync inside the new directory, never its parent. One power
  loss after the first success may take all of it: confirmed updates (and an older one is then accepted),
  acknowledged records, reported releases and archives. The models have these losses; the properties hold for what
  was not taken and say so.
- **The stability window can be short.** A poll reckons with the time its tick was sent. After a slow poll the
  next tick has waited in the channel, a file first seen then counts as seen earlier, and it is staged less than `StableFor`
  after it was first looked at; docs/M11_1_SPEC.md:23 promises the whole window. `OnlyQuietFilesAreStaged`
  bounds the cut by the lateness of that tick.
- **A file that is too large ends the daemon.** Its staging fails with an error outside the ones `poll` retries, after
  every restart again, and the names sorted after it are never staged. `ReceiptsFollowFiles` excepts those names.
- **Two operators can lose a record.** Both read a candidate; the first decides and removes it, a scan records it anew, and the second
  removes that record, which nobody decided. docs/M7_0_SPEC.md:40 calls the records immutable evidence.
  `NothingVanishes` asks for every single record, except of candidates two operators worked on at once.
- **Checksum files are not fsynced.** A power loss can tear or take one that was reported with its archive;
  the archive itself stays.
- A scan result of more than 16 MiB is recorded with success and makes every replay of the journal fail. It is
  one of the tails the daemon's properties except.
- `TrustInstall`: the store file is created under its final name and then written, so a kill in
  between leaves an incomplete file and every retry is refused until it is removed. A
  whole file with the right bytes is accepted without an fsync: a kill before that fsync and a power
  loss after the retry leave a pointer without its store. `OneInterruptionIsSurvived` says
  that it takes both.
- A power loss can take the payloads of an active release, because their
  subdirectories are not fsynced; the installation of the same version then refuses the damaged
  directory. `ActiveVerifies` therefore excepts power losses, and `ConfirmedSurvives`
  claims the manifest and signature, not the payloads.
- A command killed after the rename of its release leaves a name that is not
  durable, and the next command activates it as it is. `ConfirmedSurvives` excepts a
  power loss together with such an interruption.
- Two `sign` commands at once can leave one's manifest under the other's signature and both
  report success; two `archive` commands can replace or remove each other's archive.
  `SignedVerifies` and `ReportedArchiveStays` are about commands that ran alone
  (`alone`); `InstalledWasSigned` has no such condition.
- A power loss can take replica objects whose directories were new. `DocumentsHold`
  excepts them (`intact`); `NamesAreDigests` has no exception but damaged storage.
- A candidate that is recorded again after its promotion can be rejected, and then lies in both
  directories and goes on being published: no code looks at the other directory.
- `Scanner` lets a file stay as it is while it is scanned. The daemon scans private copies;
  the `scan` command does not. Helpers end with their timeout in the model; the commands set no
  `WaitDelay`, so a process a helper started that keeps the output open can hold a scan longer.

## Proofs

`tlapm` checks one module per component: `ScanDaemonProofs`, `SignatureStoreProofs`,
`DistributionInstallProofs`, `DistributionReleaseProofs`, `TrustInstallProofs`,
`EvidenceLedgerProofs`, `DropWatcherProofs`, `ReplicaSessionProofs`. The constants are
arbitrary; the assumptions are the named ones of the modules. They say that marks such as
`NoJob` and `None` are not data, that bounds are numbers, that records have their
fields, that there is a worker, a queue and a window of at least one tick, that jobs and paths are
finitely many, that trust stores are numbered and versions ordered, that an answer of the
releases API is a list, and that files and disks are lists of members and blocks (`CasesAssumption`).
`ScanDaemonProofs` has a second half, on the scans the daemon's workers run (`Scanner`, `DiskWalk`); the
specifications of the two halves share no variable.

The pattern is the same everywhere: the run's properties are not inductive, so `IInv` adds what
each goroutine or command knows between its steps; one lemma per action (or per group of
actions that touch the same state) keeps each conjunct, and the theorems follow by `PTL`.

**ScanDaemonProofs.** `TypeCorrect`, `JournalFollowsMemory`, `ScansAreJournaled` and
`SubmissionsAreDurable` hold for any number of jobs, submitters, workers, faults and
crashes. None of the properties is inductive alone. `HistoryNeverAhead`, for instance,
breaks if two goroutines could hold one job, or if a submitter still held a job
that a worker has taken. The invariant `IInv` therefore adds

- `HandsOK`: a goroutine holds a job exactly while it works on one;
- `SubmitterInv`: a submitter's job is its own, not in the queue, and pending or
  canceled; after its record it is in the journal;
- `WorkerInv`: a worker's job is its own, and its state is the one its step implies;
- `IssuedInv`: what is in memory, queue or journal was drawn before, so that a
  new id is fresh;
- `PhaseInv`: what start, shutdown and crash leave behind.

Each action keeps each conjunct; lemmas say what one `Record` can do to the
journal (`RecordEffect`), so that every recording step is argued once.

`HistoryImplemented` is the refinement: initial states map to initial states, and every step
of the daemon is a step of `ScanHistory` or a stutter. It needs to know what the
journal shows of a job whose next line is under way (`LinesInv`: a worker about to write
"running" finds "pending" or a torn tail), and of those a shutdown or a start is about to close
(`ClosingInv`). `OpenJobsAreHeld` states `NoOrphanInHistory`: what the journal shows as open
is still held by a goroutine, by the queue or by the recovery, unless a reported error is stopping the
daemon. It adds that the recovery has every open job before it (`RecoveryInv`), that a
queued job is queued once and pending (`WaitingInv`), and that a job is withdrawn only
after a failure (`WithdrawInv`).

**SignatureStoreProofs.** `TypeCorrect`, `RecordsSurvive`, `ReportsStayTrue`,
`NothingIsOverwritten` for any number of candidates, scans, operators,
exporters and kills, and `PublicationsStay` for one exporter (`OneExporter`).
The strengthening is what an operator knows between its steps: at the removal
its decision is on disk (`JobInv`), and if it is alone on the candidate, the record it read is
still the one under the name (`AloneInv`). That is why killing operators loses nothing,
and why interleaving them can lose only a record linked in between. `DecisionsStay` (no step takes a decision
away) carries `ReportsAreTrue` and, with `ExportInv` (a database in preparation
contains the published one and only promoted records), `PublishedOnlyGrows`.

**DistributionInstallProofs.** Type correctness and both properties of the run, for any bundles and
any number of commands, kills, failures and power losses. `ActiveIsWhole` holds with
any number of commands at once; it needs that a copy is whole before its rename (`HoldInv`)
and that a release once placed stays as it is (`PlacedInv`, `ReleaseStays`: only a free
name is taken). A lone command's bundle stays newer than the active one until the rename
(`AloneInv`), which is why `ReportsSurvive` has no rollback. That theorem adds what is
durable when: only a command at its fsync has a name that is not
(`UnsettledInv`), `current.json` is unsettled only during the last step (`QuietInv`), and
whatever a power loss leaves of it is signed and not older than any report (`OnDisk`). A loss of the whole
store takes the reports with it (`Owed`).

**DistributionReleaseProofs.** `TypeCorrect`, `OnlySignedIsInstalled`, `ReportedSignatureVerifies`,
`ArchiveStays` for any versions, keys and number of releasers, and `NewestIsOffered`.
`InstalledWasSigned` rests on one sentence about every place a release lies in or passes
through: if it holds a signature by the trusted key, what that signature is of has been signed
(`Sound`). It is kept by copies that mix two bundles, because a mixture has one signature. The two
about lone commands need what such a command knows at each step: that its
manifest describes the directory (`SignsAlone`), that what it packed so far is what it verified
(`PacksAlone`), and that no other command holds the name of a reported archive (`ReportInv`).
`OfferIsNewest` compares the loop of `DiscoverDistributionRelease` with its meaning: the best of the first n
releases is kept through every n (`KeptIsNewest`, `DiscoveryIsNewest`), by the least n for which it fails.

**TrustInstallProofs.** Type correctness and the three properties of the run, for any updates and any
number of kills, power losses and failures, with the directory there or made by the commands. Hypothesis: one installer (`OneInstaller`),
as in the run. `DiskInv` and `PointerInv` say that what a power loss may leave includes what processes see, and
that no pointer on disk is ahead of it; `JobInv` that an installer past its gate stays ahead
of every pointer until it renames; `DurableInv` which stores have no content on disk but their own.
`OneInterruptionIsSurvived` is where they meet: a pointer on disk always names a store whose bytes are.

**EvidenceLedgerProofs.** Type correctness and the five properties of the run, for any number of appenders, entries, checkpoints and incidents.
Locks are per file, not per path: `LockInv` keeps two commands apart only on one file, so
whatever a command has verified (`ReadyInv`) or written (`WrittenInv`) holds only while the path
names its file. `AckedInv`, `OwnInv` and `KeptInv` say what is durable of the file a record was
acknowledged in or a checkpoint signed over, as long as the path names that file; `SignedInv` that a checkpoint was signed over a chain.
`CheckpointBinds` holds after any restore: if the record a checkpoint names has the digest
that was signed, all records before it are those that were signed. `ChainBinds` proves it by going back
along the links from the last record on which the two histories agree.

**DropWatcherProofs.** `TypeCorrect`, `ReceiptsEarned`, `QuietIsStaged`, `SubmissionsAreNotRepeated`
for any names, contents, writes, crashes and any stability window. The watcher knows a file only by what it
last saw of it, so the invariant relates that to what lies there: modification
times tell versions apart (`VersionInv`), the copy of a file nobody wrote to is its content (`CopyInv`),
the age of an observation is covered by the ticks without a change and the lateness of the first look (`ClockInv`, `QuietInv`), and a submission of
the version that lies there is in the receipts or about to be (`OnceInv`). The proof found that
`SubmittedOnce` was too strong: with four writes, two more than the run has, a file overwritten while it is
copied can be submitted as a mixture, and again after the watcher ended and was started.
The property now speaks of sources that are not written while they are staged (`dirty`).

**ReplicaSessionProofs.** `TypeCorrect`, `NamesStayDigests`, `DocumentsKeepHolding`,
`NobodyFailsAnother` for any number of commands, sources, kinds and contents. A temporary file holds the bytes of
the digest it is linked under, and they are on disk (`TempInv`); what a command has recorded is in place
until harm comes to it (`HeldInv`); and a failure, or a source that is no longer what was hashed, has an excuse
(`ExcuseInv`). Commands meet only under the names of contents, and a name once linked is
never given other bytes (`Grows`): one lemma says what this means for every command that did not take the step.

**ScanDaemonProofs, second half: the scanner.** Three properties for any nesting of contents, any tools
that fail, any disk and any limits; contents may hold themselves and pointers lead anywhere.

- `ListingsAreHonest`: what the root lists, and whatever a listed entry leads to, is listed or still to be
  looked at (`WalkInv`: in a frame's remaining slots, in its chain, or the file under way), unless the walk has
  warned or noted an incomplete entry. When no frame is left the listing is closed under pointers, so it contains
  the smallest such set, `Reachable`.
- `OneBudgetPerScan`: the results are a tree of paths, and nothing lies below or behind the member at hand or the
  next members of the archives under way (`StackInv`, `AtInv`), so that a path is charged once; what is charged is what
  the decoder was allowed (`DecodedInv`). The property compares the budget with sums over sets of paths; that
  such a sum does not depend on the order in which `CHOOSE` takes the elements (`SumLoops`) goes by the smallest
  set for which it would.
- `FinishedVerdictsAgree`: what is infected has a source at or below it (`SourceInv`), a malicious content is marked
  or about to be (`FoundInv`), and an archive that was left has its members' verdict (`HandedOnInv`). A verdict
  then reaches every level above its disk: the shortest infected part of a path, if longer than the level asked for,
  would have a parent that is infected too (`HandedUp`). `UnscannedInv` and `ReasonInv` say what a member that could not be unpacked looks like.

**Only model-checked:** the liveness properties `AcceptedIsSettled`, `ShutdownCompletes`,
`ReceiptsFollowFiles` and `ScanEnds`, which are out of the prover's reach with their fairness.
Inductions over numbers and sets go by the least counterexample of a concrete statement, since the library's
induction theorems cannot be used here.
Hash functions are taken as injective and signatures as membership, in the models and so in every proof.

## Not modelled

- Wording, JSON and ZIP layouts, HTML, wall-clock values, file modes.
- The result of a scan, to the daemon: there it is one value. How it comes about is `Scanner`.
- The decoding of formats: what a ZIP, LHA, LZX, DMS, IPF or FDI decoder accepts is a predicate
  of a content; disk checksums and names; `internal/hunk`, whose result is a note in the report.
- Uploads over HTTP (in the plan), and the web pages, which only read.
- Evidence bundles and their signing: one command writes one new file; the data it
  encodes is left out, and what is installed from it is `TrustInstall`.
- Checkpoint trust and corpus validation: pure decisions, in the plan.
- External programs (ClamAV, unpackers, Greaseweazle, emulators), what they print and
  how long they take; historical scanners and acquisition are drivers of such programs.
- `internal/testvirus`, the AmiGuard bridge, support artefacts, the replica
  catalogue: checkers and one-shot writers without state.
- Scripts and workflows.

## Plan

In this order; the first modules are done (✓).

1. ✓ `ScanHistory`, `ScanDaemon`, their proofs.
2. ✓ `TrustInstall`; ✓ `EvidenceLedger`; ✓ `DropWatcher`; ✓ `SignatureStore` with proofs.
3. ✓ `DistributionInstall` with proofs; ✓ `DistributionRelease`.
4. ✓ `ReplicaSession`. ✓ `DiskWalk` and `Scanner`.
5. ✓ Proofs of the daemon's refinement, `TrustInstall`, `EvidenceLedger`, `DropWatcher`,
   `DistributionRelease`, `ReplicaSession`, and of `Scanner` with `DiskWalk`.
6. `Ingest`: the upload handler and `DropWatcher` as the two producers of the
   incoming directory, with `ScanDaemon`'s `Submit` behind them: a file that
   was receipted is scanned or its job is visibly canceled.
7. Pure algorithms against reference definitions: checkpoint trust windows, the
   aggregation of historical verdicts, hunk lengths.
