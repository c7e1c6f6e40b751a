# Reference Library in TLA+

A verification project for Reference Library 0.3.1: a local visual-reference
browser with a Rust core process, an Electron shell for Linux, a SwiftUI shell
for macOS and a React workspace shown by both. Paths below are relative to
`src/`; `core/` abbreviates `crates/reference-core/src/`.

The project models the part of the system where order, failure and scheduling
decide what happens to the user's library: the core process, from its command
loop to the files it leaves on the disk, and the pager through which a person
sees it. Seven detailed modules, two abstract specifications that two of them
implement, twelve TLC runs and 44 theorems. Every safety property that a run checks
is also proved for all values of the constants; what remains to TLC alone is
liveness.

## 1. Inventory

### The system's parts

| Part | State it keeps | Operations | Talks to |
|---|---|---|---|
| Command engine, `core/server.rs` | sessions, `jobs` (controls with cancellation flag and thread), `resource_inflight`, event queue, work queue, response queue | 40 or so commands, `next_event_frame`, `take_async_response`, `stop_jobs_for_session`, `run_server` | shell over stdin/stdout and a descriptor socket; sessions by calls; threads by queues and flags |
| Sessions, `core/session.rs` | SQLite connection, held writer lock, root authorities (memory) | create, open, recover, add/bind/scan root, authorise, close | database, manifest, lock file |
| Root scan, `core/discovery.rs` | its own connection; locations, sources, assets, root and job rows | walk, inspect, flush a batch, mark unseen, mark completed/failed | event queue; cancellation flag |
| Renditions, `core/rendition.rs` | cache files, integrity records, key gate; job rows | authorise, generate, publish, update a job | response queue; event queue |
| Schema and manifest, `core/schema.rs`, `core/manifest.rs`, `migrations/` | schema version, migration history, manifest file | create, migrate, verify, replace the manifest | opening and closing a session |
| Editorial, `core/editorial.rs` | asset metadata, revisions, collections | update, batch, collections, queries | database (competes with scans) |
| Canonical digest, `core/canonical.rs` | none (snapshots of a query) | digest, pages | editorial and queries |
| Wire protocol, `crates/reference-protocol` | none | encode, decode | both ends |
| Core supervisor, `apps/linux/src/core-supervisor.mjs` | pending requests by id, generation, timers | start, request, handle frames and descriptors, stop | core process; shell |
| Linux shell, `apps/linux/src` | open library, open queue, resource leases, preferences | open, recover, serve resources | supervisor, workspace |
| macOS shell, `apps/macos` | the same, plus security-scoped grants | the same | core process, workspace |
| Workspace, `packages/workspace/src` | pages, selection, edit drafts | page, select, edit, compare | shell bridge |
| Bridge contract, scripts, packaging | none | type declarations, release receipts | - |

### How they interact

The shell starts the helper and writes requests. One thread of the helper runs
`run_server`: it drains the event queue, drains the response queue, and then
looks for one input frame; with nothing to do it sleeps 4 ms. Commands run on
that thread. `AddRoot` and `ScanRoot` spawn a thread that walks the folder on a
database connection of its own. `AuthorizeResource` puts a job on a bounded
queue that two workers serve. Both kinds of job write their row (`jobs.state`),
send events with `try_send` into a queue of 1024 places, and end by signalling
a `JobCompletion`; a rendition job also sends a response with a descriptor. The
main loop waits for jobs only in `stop_jobs_for_session`, for 35 s at most.
Everything a job may still do to a package after its session was closed, after
a crash or after a second opening is decided by rows, flags and controls, which
different threads change.

### What is hard here, and what makes each part correct

* **Command engine.** Interleavings of the main loop with scan threads and
  workers; queues at their bound; stops that time out; responses that are older
  than the session they reach. *Correct*: no job outlives its session or its
  control; limits of scans and requests are exact; every request has one reply;
  a stop ends; a cancelled job ends.
* **Sessions.** Recovery in several statements, crash between them, and a lock
  file that is unlocked and unlinked in two steps. *Correct*: one writer; no two
  scans of one root; a root that says "scanning" is scanned; the rows of jobs
  follow their life cycle.
* **Root scan.** The folder changes while it is read; identity of files across
  renames, links, swaps and reused inodes; scans that stop after any transaction.
  *Correct*: a path has one location; what stands is not reported missing and
  keeps its asset; a pure rename keeps its asset; a completed scan of a quiet
  folder says what is there.
* **Renditions.** Two renames publish one cache entry; waiters on a key; two
  helpers in one cache folder. *Correct*: a descriptor names an image of the
  revision; one generation per key; an entry that was described is valid.
* **Schema and manifest.** Processes of different releases, migrations that
  commit one by one, a manifest beside the database, kills and power cuts.
  *Correct*: every prefix of the commits is openable; an open session, its
  database and its manifest agree; a package keeps its identity; what validation
  refuses is left alone.
* **Editorial, digest.** Checks before a transaction, scans that commit between the
  pages of a reader, one cached snapshot for all readers of a session. *Correct*:
  no lost update; the pages of one query, and of one digest, are one snapshot;
  collections can be listed; readers reach the end.
* **Workspace.** Requests of earlier generations, evicted pages, restarts.
  *Correct*: the sheet shows one snapshot; it never stays without its first page.
* **Supervisor, shells.** Late answers, generations of the core, descriptors apart
  from their frames. *Correct*: every request settles once; nothing of an old
  generation reaches the new one. Not modelled (section 7).

`PROJECT.json` lists every hazard at its line, with the properties that cover it
or the reason why none does.

## 2. Modules

| Module | Models |
|---|---|
| `CoreEngine` | the command engine, session life, scan threads, rendition workers, job and root rows, crashes |
| `JobLedger` | abstract: what the rows of the `jobs` table promise |
| `WriterLock` | the lock file of one package between several sessions |
| `RootScan` | one root's scan: the walk, the batches, the identity decision and the ends, over a changing folder |
| `Catalogue` | abstract: what scans promise to the readers of the catalogue |
| `RenditionCache` | `authorize`: key gate, validation, generation and publication in a shared cache folder |
| `LibraryPackage` | creating, opening, migrating and closing a package, with failures, kills and power cuts |
| `Curation` | asset and collection commands, paged queries, the canonical digest and its pages |
| `AssetPager` | the pager of the contact sheet, with the core that answers it |
| `...Proofs` | the theorems about a module: `CoreEngine` (and `CoreEngineCountProofs`, what is counted and how it ends), `WriterLock`, `RootScan`, `RenditionCache`, `LibraryPackage`, `Curation`, `AssetPager` |
| `MC...` | the instances for TLC: maps, small packages, symmetry sets |

The modules meet where one takes for granted what another examines.
`CoreEngine` gives a scan its thread and its flag and `RootScan` lets it walk:
`OneScanPerRoot` of the first is why the second has one scan. It hands a request
to a worker, and `RenditionCache` is what that worker does; there, several
helpers share the folder, since a restart of the core overlaps with the end of
the old one. `LibraryPackage` takes `Exclusive`, whether the writer lock
excludes, as a constant, because `WriterLock` shows that it need not; `raced`
carries the same distinction in both. `Curation` sees scans as commits between
its own, and sessions as one or, after a lock race, two. `AssetPager` sees the
core as answers in order at a revision that advances, which is what
`PagesShowOneSnapshot` is for.

An operator whose name ends in `_` and a word (`Verdict_NextFolder`) is the form of
the definition after it that a plausible mistake in the code would give. No
specification uses it: each stands for a mistake under which a property breaks.

### CoreEngine and the code

| Variable | Code |
|---|---|
| `ledger`, `rootState` | `jobs.state`, `roots.state`; `"absent"` where no row exists; `"offline"` stands for `needs_permission`, `offline_volume` and `unavailable` |
| `open`, `epoch`, `bound` | `CommandEngine.sessions`, which opening a session is, `LibrarySession`'s root authorities |
| `controls`, `cancelled`, `sessionOf` | `CommandEngine.jobs`: keys, `JobControl.cancelled`, the session that started it |
| `stage`, `outbox` | where the thread or work item stands; the events it has still to emit |
| `channel`, `responses`, `inflight` | the work queue, the response queue, `resource_inflight` |
| `events` | the `sync_channel` of `EventSink` |
| `mode`, `stop`, `eof` | the phase of `run_server` or `stop_jobs_for_session` |
| `asked`, `answered`, `granted`, `announced` | what the client has seen (history) |

Each handler is one action, since nothing else reads memory of the main thread
and each database change is one transaction: `OpenLibrary`, `CloseLibrary`
(which begins a wait that ends in `Closed` or `StopTimeout`), `AddRoot`,
`ScanRoot`, `BindRoot`, `AuthorizeResource` (with its refusals when a queue is
full or the refusal itself cannot be written), `CancelJob`, `Shutdown` and
`EndOfInput` (which go through the sessions that own controls, in any order, as a
hash set does). All other commands leave this state alone and are one action,
`OtherRequest`, which still reaps finished scans. Recovery on opening is the
exception to atomicity: its three statements commit apart, so `OpenFails` and
`CrashWhileOpening` may stop between them.

A scan thread runs `ScanProgress`, `BeginProbe`, `EndProbe`, `RefuseProbe`,
`FinishScan`; a worker `TakeWork`, `StartRendition`, `FinishRendition`; both end
with `EmitNext` and `Complete`. Every write about an outcome may fail, and then
the job goes on as the code does (`"abort"`: announce a restart, answer with an
error, signal). `update_job` prunes old rows after it wrote one and may fail in
between, so a rendition may abort with a row that is terminal already.

Merged or left out, and why it is sound for the properties here:

* A worker sends its response and then signals completion. Nothing reads one
  without being correct for the other, so they are one step.
* Job rows beyond the newest 128 rendition outcomes are pruned. A pruned row was
  terminal and no property needs it again; job identifiers are never reused.
* Panics of threads, frames that are too large, and event sequence numbers do
  not appear. A response that cannot be framed is answered with an error.
* Files, locations and assets belong to `RootScan` and `RenditionCache`.
* Identifiers are fresh UUIDs; the root and library of a job are functions of
  the identifier, and which identifiers are used, and when, is free.

### JobLedger

The rows of the `jobs` table seen alone: a scan starts running, on a root without an
active job; a rendition is queued or fails at once, begins, ends; an opening fails
what was active. `CoreEngine` implements it (`LedgerSpec`; the refinement mapping is
the identity on `ledger`): checked in two runs and proved.

### WriterLock and the code

`linked` is what the name `.writer.lock` links to; `file[p]` the inode whose
descriptor a session keeps; `pc[p]` its place in `open_writer_lock`, `open` and
`close`; `raced` remembers that a removal hit a file someone had found safe.
`OpenLockFile` is `openat` with `O_CREAT`, `CheckLinks` the test of
`metadata.nlink()`, `TryLock` the non-blocking `flock`, `Unlock` and `Unlink` the two
last statements of `close`. `GiveUp` is a crash, a failed opening or a close that
could not write the manifest: the kernel drops the lock, the file stays.
`CoreEngine` assumes what this module examines, one process per package.

### RootScan, Catalogue and the code

| Variable | Code |
|---|---|
| `disk`, `data`, `denied` | the linked folder: directory entries, inodes with their contents, permissions; `life` counts the files an inode number was given to |
| `rows`, `draft` | `locations` with source, revision and asset, as committed and inside the transaction of `flush_batch`; a row's position stands for its identifiers |
| `job`, `root` | `jobs.state`, `roots.state` of the scan |
| `pc`, `stack`, `names`, `batch` | where `run_scan` stands, its stack of folders, the sorted entries of the current one, the candidates not written |
| `seen`, `excused` | the temporary table `scan_seen`; `unreadable_directories` and `per_entry_states` |
| `cancelled` | the flag shared with the engine |
| `quiet`, `standing`, `steady`, `renamed`, `late` | history: what the folder did since the scan began, what was evident then, and the paths whose probe of this scan ran out of time |

`ReadDirectory`, `EnterDirectory`, `EntryDenied`, `EntryIgnored`, `Inspect` and
`InspectTorn` are the turns of the walk, each over the folder as it is at that moment.
A file's state is what its header probe comes to (`ProbeMayFind`): a sound image is
unreadable too when the probe passes its two seconds (`core/discovery.rs:1170`). A
cancellation inside a probe is `CancelInProbe`, from where the thread returns only if
its decoder gives up (`GiveUpProbe`; finding 1). `Dropped` is the end of `run_scan`'s
locals. A flush takes one step per candidate, since the code looks at the folder
(`stored_path_is_absent`) between them, and a commit: `RefreshKnown`, `FollowRename`,
`InsertNew`, `Commit`. `MarkUnseen`, `MarkCompleted`, `MarkCancelled`, `MarkFailed`
are transactions of their own; `Fails` and `MarkFails` are their failures, `Restart` a
crash with the recovery of the next opening. `DiskChange` is what other programs do
between any two steps: new files on used inodes, renames, links, removals, edits and
permissions.

`Catalogue` is the promise: no entry disappears or shares a path; entries are
recorded in transactions, lost at once after the whole folder was read, or all
put in one state by a failure that is never "missing". `KeepsCatalogue` maps
`entries` to the rows' paths and states, `phase` to the stage of the scan and
`outcome` to the job row.

Abstracted: names and bytes (numbers; `Media`, those whose header is `Probed`, and
`Damaged`), limits of entries and depth (a failure like any other, `Fails`), the
pictures' dimensions. Folders lie in folders to any depth (`Above`) but do not come,
go or move themselves: what does is files. A folder that vanishes before it is read
fails the scan, which then calls the root offline, by `Fails`.

### RenditionCache and the code

`target` and `record` are the image and the integrity file of an entry,
`temporary` and `note` a worker's temporaries, `gate` the active keys of a
process's `KeyGate`, `source` the picture. `at` goes through `authorize` stage by
stage: evidence, `acquire_key`, `validate_cached`, the two removals, generation,
second fingerprint, integrity record, the two renames, the directory's fsync,
the descriptor. `Refused` is any error or the deadline, at any stage that can
end with one; `PublishRecordFails` and `SyncFails` are failed calls; `Kill` ends a
helper anywhere. `Init` allows any cache folder that earlier versions or damage
may have left.

### LibraryPackage and the code

`log` is the database as the contents it was committed with since its last
checkpoint: in WAL mode with `synchronous = NORMAL` a power cut keeps a prefix.
`manifest` is the file, `stable` what a power cut leaves of it, `rooted` whether it
leaves the package. `at[p]` goes through `create`, `open` and `close`:
`Stage`, `CheckpointStaging`, `Publish`, `SyncParent`; `ReadManifest` (before
the lock), `TryLock`, `ValidateReadOnly`, `ValidateWritable`, `Configure`,
`RunScript` and `CheckLedger` per migration, `ReconcileMeta`, `PostChecks`,
`RewriteManifest`, `SyncPackage`, `Reread`; `CloseCheckpoint`, `CloseManifest`,
`Unlock`. Processes run releases with different `Supports`. `GiveUp` is a failed
call or a kill at any stage, `AutoCheckpoint` SQLite's own, `PowerCut` stops all
and loses what was not synced. Contents are what validation tells apart:
identity, `user_version`, ledger rows, tables, the marker in `library_meta`,
journal mode, and a flaw of bytes or of references.

### Curation and the code

`assets`, `collections`, `revision` are the rows and `library_revision`; `cached` is
`CanonicalCache` of a session; `doing` the command a session is in the middle of,
where the code reads in one transaction and writes in the next (`create_collection`,
`rename_collection`, `canonical_page`). `pages`, `proof` and `detail` are what clients
hold. A transaction is one step: a reader has a snapshot, and a writer whose snapshot
is old is refused by SQLite (`WriteFails`). A scan's commits (`ScanInserts`,
`ScanFinds`, `ScanGoesOn`) come between any two. `Reopen` is the end of all sessions
and the opening after it: `mark_linked_roots_unbound` takes every root from view,
which queries show and filter by, and leaves `library_revision` as it is
(`core/session.rs:1091`). Within a session every change of a listing advances it;
across an opening pages are kept apart only because they are asked for by session. An
opening beside a session that stands, as the race of `WriterLock` admits, is not
modelled here. Page sizes are nondeterministic up to the limit, because
`byte_bound_asset_page` cuts at bytes.

Abstracted: rules for texts, filters other than collection and availability,
sorting other than by name, notes and ratings (a title stands for the patch). A
relocation, which changes the path that an asset without a title is sorted by, is a
commit that advances the revision like the others and has no action of its own.

### AssetPager and the code

`pager` is the refs of `useAssetPager` (generation, access order, loaded pages,
snapshot revision), what the sheet shows, and the requests in flight with the
continuations that wait for page 0. `Loading` is `loadPage`, `Loaded` the handling of
an answer with the pages it retains (`retainedPageOffsets`), `Restarted` is
`restartSnapshot`, `Cleared` the reset that `refresh` shares. `NewQuery` is a change
of the query: `Turned` runs the effects in React's order, the pager's clean-up, that
of the sheet (which may ask for a page in a generation that is about to end) and the
pager's reset. `RefreshOlder` is a call of `refresh` that was waiting for the core
since the query was another (`app.tsx:562`, `601`, `654`); it asks for that one's page
0, and `older` remembers that. `announced` says that an event has made the pager
refresh before, since that effect runs again with each query. A new session or
projection resets the pager as a new query does; `refreshSummary`, which exchanges one
loaded item and asks for nothing, is left out. `visible` is the window of
`contact-sheet.tsx`, whose effect runs when the window changes (`Scroll`) or the sheet
mounts again after an error.

## 3. Runs

| Run (`.cfg`) | Question | Bounds | Shows |
|---|---|---|---|
| `rescan` (`MCEngineRescan`) | May two threads walk one root, a job outlive its session, a scan exceed the limit? | 2 libraries with a root each, 3 scans (2 of one root), 2 slots, 2 openings of one library, 1 event place; 3 847 650 states | `TypeOK`, `OneScanPerRoot`, `WritersHaveSession`, `WorkIsReachable`, `ScanningIsExplained`, `ScanLimit`, `CleanExit` |
| `renditions` (`MCEngineRenditions`) | Does a slot leak or a reply double? | 1 scan, 2 requests, 1 worker, 1 queue place, 1 event place, 1 opening; 2 146 549 | `InflightIsExact`, `OneReplyEach` |
| `live` (`MCEngineLive`) | Does everything end, and meet the right session? | 1 scan, 1 request, 2 openings, 1 event place; 210 547 | `GrantsAreCurrent`, `LedgerSpec`, `StopEnds`, `CancelledEnds`, `RequestsAnswered` |
| `probe` (`MCEngineProbe`) | Does a cancelled scan end? | 1 scan | violated: finding 1 |
| `lock_race` (`MCLockRace`) | Is an unlink at a bad moment the only danger? | 3 sessions, 4 inodes; 319 | `OneWriterUnlessRaced` |
| `lock_one_writer` (`MCLockOneWriter`) | Is there one writer? | 2 sessions, 3 inodes | violated: finding 2 |
| `scan` (`MCScan`) | Is the catalogue right, whatever happens to the folder and the scan? | 3 paths, one of them in a folder of a folder, 2 inodes, 3 contents (one damaged, one no media), probes that may run out of time, all kinds of change, 2 changes, 2 scans, batches of 2; 1 063 273 | `OneRowPerPath`, `EvidentRenamesAreFollowed`, `CompletedScanMirrorsFolder`, `KeepsCatalogue`, `MissingIsEarned`, `StandingPathsKeepAssets`, `ScanEnds` |
| `cache` (`MCCache`) | Is what is served right, and does everybody get an answer? | 1 grid entry, 1 preview, 2 helpers with 2 and 1 workers, 2 requests, 1 edit; 128 118 | `OnePermitPerKey`, `DescribedEntriesAreValid`, `ServedIsRevision`, `AuthorizationsEnd` |
| `package` (`MCPackage`) | Does a package survive what its processes and the machine do? | 2 processes of releases 3 and 4, no exclusion, 11 packages (3 of older releases, 8 damaged) or none, 2 faults; 316 036 | `OpenIsCurrent`, `AnyStopIsOpenable`, `OneLibrary`, `RefusedStaysAsItWas`, `OpensInTheEnd` |
| `curation_readers` (`MCCurationReaders`) | Are pages one snapshot, and do readers finish? | 1 session, 1 reader who is also a prover, 1 prover who is also a curator, 2 assets, 1 collection, pages of 1, 2 commits, an opening between them; 405 332 | `PagesShowOneSnapshot`, `ProofPagesMatchDigest`, `ReadersFinish`, `ProversFinish` |
| `curation_writers` (`MCCurationWriters`) | Is anything overwritten unseen, or left that cannot be listed? | 2 sessions with an editor and curator each, 3 collections at a limit of 2, 4 names of which 2 differ in case, 3 commits; 2 227 408 | `CollectionsStayListable`, `EqualRevisionsEqualTitle`, `NamesChangeWithRevisions` |
| `pager` (`MCPagerFits`) | Does the sheet show one snapshot, and always come back? | 3 pages, cache of 3, 2 revisions, 1 change of the query, 2 generations by hand, 1 failure; 834 012 | `OneSnapshotShown`, `SheetComesBack` |

### Bounds

* **Engine.** `MaxOpens` is the only bound that is not a parameter of the program:
  two openings are what it takes for a job, a response or a row of one session to
  meet the next, and a crash between them needs no more; `renditions` asks about
  counts within one session and needs one. Queues of one place reach the refusals
  and drops that 1024 places reach rarely. With one worker and one place
  (`MaxWork` 2) a second request is refused while the first is queued and waits
  otherwise. Two slots and three scans reach the scan limit. Scans of one root and
  requests are interchangeable, hence the symmetry sets, used in no run with
  liveness.
* **Lock.** An inode is free again when no name or descriptor holds it, so one more
  inode than sessions always leaves one to create.
* **Scan.** Two inodes and three paths are the smallest folder with a rename, a link,
  a swap through the free name and a reused inode; a folder in a folder lets a denied
  ancestor excuse a file it does not hold itself. Two changes (a rename and an edit, a
  link and a rename over the original) placed anywhere in two scans make every
  decision of `relocated_location` go both ways; a batch of two splits a scan of three
  files between two transactions. `MaxScans` 2 lets a scan find what one that failed,
  was cancelled or was cut off has left.
* **Cache.** Two workers of one helper contend for a gate, the third does not know of
  it. Two requests meet or follow each other; the first folder may hold anything.
* **Package.** Release 3 and 4 against packages of versions 1 to 4 with markers and
  manifests behind give migrations of several scripts, refusals of newer packages
  and manifests rewritten by the other release. Two faults are one to make a mess
  and one while it is repaired. `Exclusive = FALSE` is the weaker assumption: all
  safety properties hold with and without the lock, `OpenIsCurrent` up to `raced`.
* **Curation.** Pages of one item make every listing of two a continuation. Two
  commits put one before and one between the pages; three let a create, a delete
  and a rename interleave with another session's checks. Openings find revision 1, the
  one between the commits (`OpenedAt`).
* **Pager.** As many pages as the cache holds: with more, `OneSnapshotShown` fails
  (section 6). One change of the query puts answers, waiting calls and refreshes of
  the older one after it.

The safety properties that are proved do not rest on these bounds at all.

Deadlock is checked in all runs but `package` (nobody goes on with a package whose
manifest is newer than both releases), `curation_readers`, `curation_writers` and
`pager` (at `MaxRevision` with nothing left to read).

### Fairness

Nothing is assumed of people, of other programs, of faults, crashes and restarts,
nor of timers that only guard.

* `CoreEngine`: weak fairness of the main loop as a whole, of workers and of the ends
  of jobs: the operating system schedules every thread. `FinishScan` has strong
  fairness: entries are bounded, but between two the scan is in a probe, so finishing
  is enabled again and again rather than always. `EndProbe` has weak fairness and is
  enabled only while the job is not cancelled: bytes and seconds bound a probe that
  nobody cancels. `RefuseProbe`, whose repetition is finding 1, has none; the
  liveness properties of `live` are therefore stated up to this case (`Caught`).
* `RootScan`: weak fairness of the scan thread, except for one caught in a probe
  (`GiveUpProbe`), which nothing makes return: `ScanEnds` is stated up to that, and to a
  failure that could not be written.
* `RenditionCache`: weak fairness of each worker, and of giving up for one that
  waits for a gate: it polls its deadline on every turn of its loop.
* `LibraryPackage`: weak fairness of `Proceed`: a host that wants its library opens
  it again after a failure, and a close that has begun goes on. `MaxFaults` bounds
  the faults: the property speaks of the time after the last.
* `Curation`: sessions answer (weak); a reader and a prover go on reading (strong,
  since another client's command makes the session busy again and again). Commits
  are bounded, so the property speaks of the time after the last: under a scan that
  commits without end a reader is refused without end.
* `AssetPager`: the core answers, promises are settled, events are delivered.

## 4. Theorems

Proved with TLAPS for every value of the constants that the named assumptions allow.

From `JobsAssumption` (the two kinds of identifiers are disjoint; every root has a
library, every job a root) and `BoundsAssumption` (limits are positive, and
`MaxWork` exceeds `Workers`, as in the code: 10 and 2):

`CoreEngineProofs`:

* `TypeCorrect`, `Invariance`: `Spec => []IInv`. None of the safety properties is
  inductive. `WritersHaveSession` fails from a state in which a live job has no
  control, since a close waits only for controls: hence `WorkIsReachable`.
  `WorkIsReachable` fails when a queue holds a job twice, or one that has ended:
  hence `ChannelMatchesStage`. `OneScanPerRoot` fails when a thread runs on a row that
  is not active, since `RootBusy` reads rows only: hence `StageMatchesRow` and
  `OneActiveScan`; these survive recovery only because recovery touches
  libraries without a session, in which `WritersHaveSession` leaves no live job.
  The circle closes: the conjunction `JobInv` is inductive with `TypeOK`, one step
  of the proof per action, one below it per conjunct the action can disturb.
* `WritersKeepTheirSession`, `WorkStaysReachable`, `ScansAreExclusive`: its
  consequences.
* `ImplementsLedger`: `Spec => LedgerSpec`. Every action maps to the ledger
  action of the same job or leaves the rows alone.
* `OutcomesAreFinal`: `TerminalIsFinal`, although the statements that write rows
  test no old state. It holds because only a live job's own row is written, and a live
  job's row is active.

`CoreEngineCountProofs`, what rests on `IInv`:

* `PoolInvariance`, `PoolIsCounted` (`InflightIsExact`), `RepliesAreUnique`
  (`OneReplyEach`). The requests in the pool are a set that no action enumerates: a
  step adds one job to it, takes one out or leaves it, and `resource_inflight`
  follows with the theorems on finite cardinalities. `PoolInv` needs that it is
  finite, that the response queue holds a job once (`OneResponseEach`), since
  delivery takes one away, and that whatever was asked has a row (`AskedHaveRows`), so
  that a new request is not one of the pool.
* `ScanInvariance`, `ScansAreLimited` (`ScanLimit`), `RootsSayWhatTheirScansDo`
  (`ScanningIsExplained`). The limit is tested against the control map, not against
  the threads; it bounds them because every thread at work has a control, which is
  `WritersHaveSession` and `WorkIsReachable` again.
* `EndInvariance`, `GrantsAreForTheAsker` (`GrantsAreCurrent`), `ExitLeavesNoWriter`
  (`CleanExit`). A session that is open keeps the authority of the roots of its jobs
  (`SessionsKeepRoots`), a descriptor is of a job that completed, and a process about
  to end has still to stop the session of every job that runs (`StopCoversWork`).

`WriterLockProofs`: `LockInvariant` (until a removal races with an opening, whoever
relies on a lock file relies on the one that the name links to, and no lock is held
twice) and `WritersApartUnlessRaced`, for any number of sessions and inodes.

`RootScanProofs`, from `FolderAssumption` and `TreeAssumption` (a tree of folders of any
depth with any number of files, folders and inodes; the names are numbers in their
order) and `ScanBoundsAssumption` (a batch holds at least one candidate):

* `TypeCorrect`; `PathsStayUnique`: `[]OneRowPerPath`. The invariant `TableInv` adds
  that the draft only extends and rewrites the committed rows during a flush and
  equals them otherwise: a row is inserted or moved only where the draft has none.
* `ScanImplementsCatalogue`: `Spec => KeepsCatalogue`, the refinement. A commit is
  `Record`, because every row of the draft is the committed one or was written with a
  found state; `MarkUnseen` is `Settle`; the rest of the walk stutters.
* `LossIsEarned`: `Spec => MissingIsEarned`. A state alone cannot tell why a row is
  not seen, so `WalkInv` follows every path that has held media since the scan
  began: it is met (seen, or in the batch), barred (excused by itself or a folder
  above it) or ahead (its name, or its folder, is still to be read).
* `StandingKeepsItsAsset`: `Spec => StandingPathsKeepAssets`. `SteadyInv`: such a
  path is occupied, so it is not absent when a flush looks, and no open transaction
  has moved a row away from it, so no later commit does.
* `QuietInvariance`, `QuietScansMirrorTheFolder` (`CompletedScanMirrorsFolder`),
  `EvidentRenamesKeepTheirAssets` (`EvidentRenamesAreFollowed`): a whole scan compared
  with the folder. While nobody touches the folder and the scan counts, `Charted` says
  of each path that the walk has met or left behind what the draft and the batch tell
  of it: every wanted path is met or ahead (`Covered`), what is seen has an exact row
  (`Recorded`), what is in the batch is as the folder has it (`Carrying`), what is
  excused cannot be read (`Excusing`), what is called unreadable is damaged or was
  probed too long by this scan (`late`), and an evident rename is followed or its
  evidence still stands (`Following`). The last mark and the commit turn this into
  `Mirrored`. Rows of earlier scans, whatever ended these, come in as a table of which
  nothing but `TableInv` and `OnlyMedia` is known.

`RenditionCacheProofs`, from `CacheAssumption` (grid and preview keys differ; every
worker has a process):

* `TypeCorrect`; `PermitsAreExclusive`: the gate of a process is exactly the keys of
  its workers inside, each once; `Returns` must not open a gate its worker never had.
* `RevisionsAreServed`: `[]ServedIsRevision`. Without reverts every file that could
  be renamed into place after `Recheck` is of the revision: the invariant follows
  the temporary from its second fingerprint to the rename and says what may lie in
  the shared folder; it needs no gate, since other helpers have their own.
* `DescribedEntriesPassAgain`: with one process at a key, image and record belong
  together from the rename of the record on; this one does need the gate.

`LibraryPackageProofs`, from `PackageAssumption` (one of the releases is the newest)
and `FirstAssumption` (the first packages are contents the model can tell apart):

* `TypeCorrect`; `LibraryStaysItself`: `OneLibrary`. All commits in `log`, both
  manifests and the copies of the processes that read one have one identity
  (`OneIdentity`, `Readers`), since only `Publish` brings in another and only where
  nothing is.
* `EveryStopIsOpenable`: `AnyStopIsOpenable`. Steps are `Gentle` - they append a
  `Successor` that validation accepts when it accepted the last, or replace the
  manifest by one of the same Library and no newer version - or create the package.
  `Sound`: whoever is past validation works on contents that would pass again,
  although without a lock another release may migrate under it.
* `RefusedIsLeftAlone`: `RefusedStaysAsItWas`, from `Sound`.
* `OpenSessionsAreCurrent`: `[]OpenIsCurrent`. The manifest is read before the lock is
  taken and may be old when it is. `StageInv` says what a process has established at
  each stage, with `Latest` for the old copy: it is the manifest on the disk, or its
  version and that one's are not ahead of the database. Steps of others keep
  `Latest` (`Grows`), and touch nothing once the lock is held.

`CurationProofs`, from `CurationAssumption` (first names differ in lower case and
do not exceed the limit; every client has a session; the first assets are finitely
many):

* `RevisionsNameTitles`: `[]EqualRevisionsEqualTitle`.
* `NamesFollowRevisions`: `NamesChangeWithRevisions`.
* `CollectionsListable`: `[]CollectionsStayListable`. Unless checks of two sessions
  crossed, the check of the one session between check and commit (`Checked`) still
  holds when it commits: scans, edits and failures do not touch names or numbers.

* `PagesAreOfOneSnapshot`: `[]PagesShowOneSnapshot`. Every commit that changes what a
  query selects advances `library_revision`, or is an opening, which nobody's pages
  survive (`CommitsAreSeen`); so while the Library has the revision of
  a reader's first page the query still selects what it did (`PagesInv`), and what
  the reader has is a prefix of it, which the next page extends (`BegunGrows`).
* `ProofPagesAreOfTheirDigest`: `[]ProofPagesMatchDigest`. Under a session's snapshot
  lies the projection as long as the revision stands (`SnapshotInv`), and `digest`
  names contents, so a page cut from another snapshot of the same digest continues
  the prover's prefix (`ProofInv`).
  Both use of the sorted listing only that it depends on the selection alone:
  `InOrder` numbers the items by their names, which needs no `CHOOSE` over sequences.

`AssetPagerProofs`, from `AssetPagerAssumption` (at least one page, one place and one
revision):

* `PagerInvariance`, `PagerTypeCorrect`. `Called`, for any cache: no page is twice in
  the order of access nor on its way twice in a generation, and an answer is a page
  of the revision that was asked for.
* `PagerShowsOneSnapshot`: `[]OneSnapshotShown` if `LastPage < MaxCached`. Loaded pages
  and requests of the present generation are of the first page's snapshot and, unless
  an older call has refreshed, of the present query, and
  there is a snapshot exactly while the first page is loaded; hence page 0 is never
  asked for again in a generation, and its answer finds nothing else loaded. The
  condition is needed: a cache that drops page 0 breaks this (section 6). Continuations
  after page 0 are a chain of calls, each on what the last one left; the property
  passes along it by the least call after which it would not hold.
* `MissingFirstPageIsAsked`, under the same condition: the safety side of
  `SheetComesBack`. `Promised` (the first page is loaded or on its way) survives every
  call, every late answer and every restart; only an error ends it, and then shows.

Model-checked only: the liveness properties (`StopEnds`, `CancelledEnds`,
`RequestsAnswered`, `ScanEnds`, `AuthorizationsEnd`, `OpensInTheEnd`, `ReadersFinish`,
`ProversFinish`, `SheetComesBack`), which are out of the prover's reach. That
canonical bytes and SHA-256 give equal digests only to equal contents is taken for
granted by the model, and so by the proofs.

## 5. Findings

1. **A cancelled header probe does not end** (`probe`). `InspectionReader::check`
   answers a cancelled read with `Interrupted` before it looks at its deadline
   (`core/discovery.rs:1164`); readers built on `read_exact` repeat such a read. The
   scan keeps its slot and its row, and closing the library times out.
2. **Unlocking and then unlinking the lock file admits two writers**
   (`lock_one_writer`). An opener that has inspected the file before the removal locks
   an inode that has no name; the next opener creates a new file
   (`core/session.rs:1054`). The theorem shows that there is no other way.

## 6. Divergences

Further statements that the code does not keep, each with a property in its
module and a configuration beside the twelve runs that shows it violated:

| Configuration | Property | What happens |
|---|---|---|
| `MCEngineAnnounce` (module `MCCoreEngine`) | `StuckScanIsAnnounced` | `EventSink::emit` drops any event that finds 1024 others queued, `CoreNeedsRestart` among them (`core/discovery.rs:75`). The row of a scan whose outcome could not be written stays active and blocks its root, and nothing tells the client, as `core/server.rs:662-665` relies on. |
| `MCScanCopy` (`MCRootScan`) | `DeletePlusCopyIsNotIdentity` | A file that is removed and copied back under another name may get the inode it had left; size, fingerprint and inode agree, and the old asset moves along (`core/discovery.rs:513`). `docs/specs/TRACER_T02.md:42` says that delete-plus-copy never infers identity. |
| `MCPackageDangling` (`MCLibraryPackage`) | `PreservedMeansUntouched` | `foreign_key_check` runs after the migrations were committed (`core/schema.rs:387`): a package with a dangling reference is migrated and then refused as "preserved". `docs/specs/V1_EXECUTION_CONTRACT.md:37` says that an integrity failure never overwrites the Library. |
| `MCPagerEvicts` (`MCAssetPager`) | `OneSnapshotShown`, with more pages than the cache holds | Page 0 is always asked for without a revision, also when it comes back after an eviction; its answer replaces the snapshot revision while pages of the older one stay (`packages/workspace/src/use-asset-pager.ts:60`). |
| `MCPagerOlder` (`MCAssetPager`) | `OneQueryShown` | A command calls `refresh` after it has waited for the core, by the function it was started with; the toolbar meanwhile lets the query change. The call asks for page 0 of the older query in the present generation, and its answer stands under the new one until the next refresh (`packages/workspace/src/app.tsx:562`, `601`, `654`). `docs/specs/V1_EXECUTION_CONTRACT.md:121` has queries page deterministically. |
| `MCPagerBytes` (`MCAssetPager`) | `NoSkippedIds` | The pager asks for windows of a fixed size and does not look at `nextOffset`; what `byte_bound_asset_page` cut off is never asked for (`use-asset-pager.ts:94`). |
| `MCPagerBlank` (`MCAssetPager`) | `VisiblePageComes` | `refresh` drops all pages and asks for page 0; the effect that asks for the visible window depends on the window alone, so a sheet that is scrolled further stays blank until somebody scrolls (`contact-sheet.tsx:85`). |

Two limits of the code that no document excludes are constants of the models. An
edit that is taken back between the two fingerprints of a source goes unnoticed
(`Reverts`, `RenditionCache`). Two sessions that the lock race lets in can exceed
the limit of collections or create names that differ in case only (`crossed`,
`Curation`).

## 7. Not modelled, and the plan

* **Wire protocol, errors, entry points, bridge contract**: types, names and
  framing without state; their messages are the actions and events of the models.
* **Root binding** (`core/session.rs`): the evidence that a folder the user picks is
  the root that was linked (device, inode, volume) is a pure decision on
  attributes; binding itself is an action of `CoreEngine`. This is why the
  component is only partly modelled.
* **Core supervisor** (`apps/linux/src/core-supervisor.mjs`): the next module worth
  writing, `CoreSupervisor`: correlation, timeouts, generations and stop, composed
  with an abstract core; two hazards wait for it (an error frame that overtakes a
  queued event; its 30 s against the 35 s a close may take).
* **Linux shell**: open queue, recovery and resource leases, after the supervisor.
* **macOS shell**: the same duties in Swift; worth a module where it differs
  (security-scoped grants, streaming).
* **Workspace editor, selection and event invalidator**: drafts and selections are
  local to one component; only the pager races with the core.
* **Hardening, packaging, release scripts**: static policy and sequential scripts over
  files.

Next for the proofs: the safety side of progress, which needs no fairness, as
`MissingFirstPageIsAsked` and `OnePermitPerKey` give it for the pager and the cache. For
the engine, that a stop which waits has a job that can still end; for readers and
provers, that what was refused is asked for again from the beginning. With the
liveness properties these say why the waits end, for every number of jobs and clients.
