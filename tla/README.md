# NSFWTrack: TLA+ models, model checks and proofs

NSFWTrack is a single-user media tracker: one FastAPI process, SQLAlchemy over
one SQLite file, a media directory beside it. This directory holds TLA+ models of the
parts of `app/` whose correctness depends on the order of steps, the TLC
configurations that check them on small instances, and proofs about the task service,
the download executor, both signed confirmations, schema, import, restore and
catalogue, the provider runtime, the media lock, and the egress services.

To repeat a check: `tlc -config Tasks.cfg MCTasks` (the module of every
configuration is in `PROJECT.json`); `tlapm TaskServiceProofs.tla`.

## How the program runs, and what that means for a model

* **One process.** `async def` routes run on the event loop and
  interleave with each other only at an `await`; `def` routes run in the thread
  pool and interleave with everything.
* **SQLite through pysqlite.** A SELECT is not part of a transaction; the first
  UPDATE, INSERT or DELETE takes the write lock, which is held until commit or
  rollback. A handler that loads a row and then updates it is two steps in
  the models; what it does from its first write to its commit is one.
* **Crash.** The process may stop between any two steps. Committed rows and
  files stay; sessions, executors and in-memory state vanish. The lifespan
  of `app/main.py` then runs restart recovery.

## Inventory

| Part | State it keeps | Operations | Hard behaviour | What makes it correct |
|---|---|---|---|---|
| Task service (`tasks/`, `routers/tasks.py`) | `operation_tasks`, `task_events` rows: state, version, stage, lease, cancel flag | create, transition, acquire_lease, heartbeat, mark_verification_unknown, request_cancel, retry, recover_interrupted, delete_history | requests racing on one row, stale counts, expiring leases, restart | history is a faithful chain of legal moves; limit holds; cancel sticks; leases belong to the newest claim |
| Download executor (`acquisition/`) | fact row, temp file, published file, `item_local_assets`, media index | execute, fenced chunk writes, publish, link, index, verify, error path; plan confirm; asset discovery | pause, resume, cancel during awaits, old executors beside new ones, crash between file and row | success means a complete, linked, indexed file; no published file is overwritten or lost sight of |
| Local workflow (`local_workflow/`) | the same task and asset rows, the media index | preview, confirm, integrity, index and recovery tasks, execute | the file changes under a task, cancel and crash during execution | no success without proof read back after the write |
| Media file operations (`services/media_*`, `local_media.py`) | files, item references, index | rename, move, alias normalisation, duplicate and damaged cleanup, restore, delete | file step and reference commit cannot be atomic; commits that raise | no content lost, no reference dangling, no wrong index called valid |
| Media page forms (`routers/pages.py`, the same services) | signed snapshots in forms | preview and confirmation of each operation, batches, matches | forms that are stale, other tabs | only what was shown is done |
| Media directories, uploads, residue | directories, hidden temporaries, final names | create, rename, delete; upload, rollback; residue cleanup | no transaction over file system and database; files of others under the same names | answer, references and index agree with the disk; an upload takes back what it linked, or what came under that name before it looked again |
| Media lock, index, audit, root (`media_operation_lock.py`, `media_write_coordination.py`, `media_index.py`, `media_health.py`, `media_root_diagnostics.py`) | two flocks, signed index rows and state, the root directory | lock, verify, refresh, reuse, invalidate, read, audit, make the root | lock replaced under its holder, rows lost or forged, refresh failing | operations exclude each other or say unknown; pages see what a refresh committed |
| Source update, provider apply (`source_update/`, `provider_apply/`) | items, sources, task rows, signed tokens | check, plan, sign, confirm transaction, proof of the outcome | a commit whose answer is lost, replayed confirmation, stale plan, another login | applied at most once; the answer agrees with the database |
| Schema (`migrations.py`, `schema_version.py`) | tables, `schema_migrations` | create, judge, dry run, upgrade | several starts, a step that fails, a commit that raises, a crash | recorded versions and tables agree |
| Backup, restore, import (`services/backup*.py`, `exporter.py`, `importer.py`) | the whole library | export, validate, preview, merge; dry run, import | torn exports, id clashes, edits meanwhile, lost commits | a restore clears nothing and repeats to nothing; all rows of an import or none |
| Provider runtime, CookieCloud (`provider_runtime/`, `cookiecloud/`) | one versioned row per provider, the cookie file | configure, enable, disable, clear, health check, import and delete a session | answers of probes and imports out of order | what is offered rests on the newest probe and session |
| Egress pool, outbound HTTP (`egress/`, `services/outbound_http.py`) | pool file, permits of a client | check, save, choose; fetch | overlapping checks; cancellation at every await; another peer answering | no result lost; no permit lost; nothing sent to an unapproved peer |
| Catalogue (`services/catalog.py`, `duplicates.py`, `metadata_cleanup.py`, `bulk_actions.py`, `collections.py`) | items, tags, their relations | create, update, bulk edits, merges, deletes | rows loaded before another request's commit | a merge keeps what it had seen; no relation without its rows |
| Search, adapters, playback, queries, pages, templates, i18n, authentication, configuration | none that lasts between requests | | | unit tests cover them |

## Modules

| Module | Models | Composes |
|---|---|---|
| `TaskContracts` | states, transition matrix, and what one UPDATE writes into an `operation_tasks` row | |
| `TaskService` | every web request, leased executor, source check and restart as steps on the rows | `TaskContracts` |
| `TaskLifecycle` | abstract specification: what a task's status may do, seen from outside | `TaskContracts` |
| `TaskRefinement` | the refinement mapping from `TaskService` to `TaskLifecycle` | both |
| `TaskServiceProofs` | theorems | `TaskService`, `TaskRefinement` |
| `DownloadExecutorProofs`, `ProviderApplyProofs` | theorems | the module each is named after |
| `ConfirmProofs` | theorems on `ManualUpdate`, `MediaConfirmations` and on `MCConfirm` | `ProviderApplyProofs` |
| `MediaProofs` | theorems | `MediaMutations` |
| `LibraryProofs` | theorems on `MCLibrary` and the five modules it puts together | |
| `DatabaseProofs` | theorems | `SchemaMigrations`, `ImportRows`, `BackupRestore`, `CatalogueEdits` |
| `ServicesProofs` | theorems on `ProviderRuntime`, `EgressPool`, `OutboundHttp` and on `MCServices` | `DatabaseProofs` |
| `DownloadExecutor` | `SafeDownloadExecutor.execute` on one task, several executions at once, with files, asset link and index | `TaskContracts` |
| `LocalWorkflow` | imports, checks and upkeep tasks on one media path | `TaskContracts` |
| `MediaMutations` | rename/move, alias normalisation, duplicate cleanup, anchor restore, deletions, reference edits, index synchronisation, step by step | |
| `MediaConfirmations` | the forms of those operations, batches and matches, and what their confirmation compares | |
| `MediaDirectories`, `MediaUploads`, `MediaLock`, `MediaIndexing` | the parts of that name | |
| `ConfirmOutcome` | abstract specification: at most one standing write per authority, an answer never says more than is true | |
| `CatalogRows` | items and sources with their page edits, shared by the next two | |
| `ProviderApply`, `ManualUpdate` | the two signed confirmations; each implements `ConfirmOutcome` | `CatalogRows`, `ConfirmOutcome` |
| `SchemaMigrations`, `BackupRestore`, `ImportRows`, `ProviderRuntime`, `EgressPool`, `OutboundHttp`, `CatalogueEdits` | the parts of that name | |
| `MCTasks`, `MCDownloadExecutor`, `MCMediaMutations`, `MCMediaFailures`, `MCMediaOutsiders` | instances, bounds and symmetry for one module | |
| `MCConfirm`, `MCLibrary`, `MCServices` | several modules on one state, one running per behaviour: `live` says which one a behaviour runs, the others stay in one state | |

Definitions named "Mutant" and a few others marked as such are deliberately wrong
versions of the definition that follows them; they are used only to confirm that a
property can fail.

### TaskService

`task` is the `operation_tasks` table (a row or `NoRow` per intent key), `events`
the `task_events` of each row, `linked` the tasks an `item_local_assets` row
refers to, `req` what each request is doing, `app` whether the process is up. A row
keeps state, version, stage, cancel flag and lease (owner, generation, live);
a lease expires in a step of its own (`ExpireLease`) instead of by a clock.

A request is `Load` (its SELECT, with the count of running tasks that `transition`
makes before it writes) and then one step for its first UPDATE up to the commit:
`Pause`, `Cancel`, `Retry`, `DeleteHistory`, `Claim` (start or resume: transition
and `acquire_lease` in one transaction), or `Refuse`. A claimed request is an
executor: `Heartbeat`, `Succeed`, `Stop`, `Abandon`, `Verify`
(`mark_verification_unknown`). `StartCheck`/`FinishCheck` are the handlers that
run a task without a lease around one await. `Crash` and `Startup` are the
process stopping and the lifespan with `recover_interrupted`.

### DownloadExecutor

One row, its fact row (`temp` name and `offset`), inodes with their content, the
published `target`, the asset link, the index flag. An executor is a program counter
and the locals of `execute()`. `loop` is the executor that holds the event loop:
others run only while it awaits. `writing` is SQLite's write lock, held from the
fenced UPDATE of a chunk to its commit, across `os.write`. Every lease check is
`Fenced`: a step that goes on or raises what `_assert_lease` raises. An error of the
operating system at opening the temp file, or at linking it, fails the task without a
proof; what raises elsewhere is proved first. The except block is the proof
(`ProveOutcome`), the SELECT (`ReadTask`), the conditional UPDATE (`StopTask`),
`RemoveTemp` and `ClearFact`: other requests commit between any two of them.

### MediaMutations

A name maps to an inode (SHA-256 and number): hard links are equal inodes,
duplicates differ in the number only. `refs` is the cover or avatar of every
object. `op` is the operation that holds the media lock, with its locals. Assigning a
reference needs no media lock; SQLite's write lock excludes it only where an
operation holds it across a file step (`Locked`). Commits may fail, or be durable
and raise (`FailingCommits`, `LosingCommits`); unlinks, links and index writes
may fail (`FileFaults`); another program may remove or replace any file, the hidden
anchors included (`Outsider`); the process may stop at any step.

History variables: `meant` (the digest an object was given), `strikes` (how often
another program changed a file), `unseen` (a change that no index step followed because
of a crash, an outsider, a reported invalidation failure, or a restore that left its
link behind).

Three places where the code does not look are in the model and named by a property.
Nothing looks at an anchor between the commit that moves the references to it and the
unlink of a member (`AnchorIntact` in `ContentSurvives`), although `README.md` of the
repository (line 836) says that it "remains a valid same-SHA-256 copy throughout every
deletion". A roll-back looks only at the name it takes back (`TakesBack`). And the
publication of a recovered name swallows a failing unlink of the link it has just made
(`LeaveRecovered`): the restore raises `publish_failed`, which counts as no change of
files, so that the index stays valid beside a file it does not list.

What is simplified: an identity check and the system call right after it are one
step, in roll-backs too; one reference per object; a batch is a sequence of renames; a
scan is the set of files it shows; `CheckMember`'s two counts are one. The link that a
duplicate cleanup may leave behind in the same way is left out: that operation refreshes
the index whatever happened.

### LocalWorkflow

One media path whose file is a number (a replacement takes the next one). `ltask`
holds state and stage of every task by its intent key, `plans` what previews showed,
`fact` what a confirmation stored, `link` the asset row, `lindex` the index, `exec`
the one execution that blocks the event loop, with the thread-pool routes between
its commits: `Beat`, `LinkFile`, `VerifyLink` or `RefreshFails`, `SucceedLocal`,
`Unwind`. `proved` remembers the imports for which link, file and index agreed.

### MediaConfirmations

`page` is a form with the files and owners as they were displayed; `Post...` is the
confirmation route of one kind of form. `CanX` says whether a preview can be built, and
`SeenX` what the confirmation compares: each operation compares other things, which
is why there are so many. `carried` records who acted in the last step. A confirmation
is one step: the race that `duplicate_race` finds inside one is `MediaMutations`' subject.

### MediaDirectories, MediaUploads, MediaLock, MediaIndexing

Directories: two names of one parent, `dop` the operation under the media lock,
`pend` references that were validated and not committed yet, `dbLock` the write lock
across the rename. `doubted` says that an outcome was told as unknown or the process
stopped; `raced` names the objects whose path a page had validated when a move,
take-back or deletion took it away, of which nothing is told. Uploads: inodes with the
content they hold, final names by digest, `temps` the hidden names. Their history: `mine`
are the inodes the upload linked, `late` the names others changed during the operation,
`unseen` the inodes others put under the name it had just linked, before the stat that
records it as its own; the code unlinks that name on failure, or rolls it back later,
without having compared it.
Lock: directories and files are object numbers, so that a replaced one is a new
number; `Verifies` compares what is open with what the path leads to. Index: files are
versions of a path; a row is a version, the content found in it and whether its
signature holds; `scan` is a refresh at work, `resigned` says that a failed refresh
signed rows it had not written. The audit is a function of the references, the files and
the state of the root (missing, a symlink, no directory, unreadable, or a scan that fails).

### ProviderApply and ManualUpdate

A detail is the number of its fetch, a plan is what the detail changes in an item
and a source. Everything from `BEGIN IMMEDIATE` to the commit is one step with three
outcomes: done, failed, done but raising. The looks at the database that follow are
steps of their own, with page edits between. The refinement mapping takes `standing`
(requests whose write is still there) and the answer of each request; the answers
"not verified" count as unknown. The manual update has one answer that is false: when the
success transition did not take and the request reads fields and task back as written, it
says `write_failed` (`service.py:803`), which `tests/test_phase6_source_update.py` (line
371) takes to mean that nothing was written. `seen` records that the request has read
this, and `ConfirmOutcome` calls the answer "misled": allowed for what was written only,
and never the answer of any other failure.

### SchemaMigrations, BackupRestore, ImportRows

Schema: a set of parts and the recorded versions; creation adds parts one by one,
because the driver commits each CREATE TABLE by itself, an upgrade is one transaction.
Each step checks what its own code checks: the first looks for items only, the second
for every table before it, so a schema 1 damaged by hand may pass the dry run and be
refused at the second step.
Backup: a library is a record of functions from ids to titles or names, of links, marks
and sources; an export reads it table by table; a restore is digest, merge, commit,
inspection; its digest is one step, where the code takes it table by table. `form` says
whether marks are states, which a restore overwrites, or counts. Import: rows staged by
the holder of the write lock, the URLs it knew before it had the lock (`gone` are those a
page deleted since), and the pages that delete sources, items and names.

### ProviderRuntime, EgressPool, OutboundHttp, CatalogueEdits

Runtime: the versioned row, checks with the version they were prepared for, imports
with the row they read. Egress: the pool file and the copies checks work on.
Outbound: a request is where it stands, with the permits that follow from that; `sent`
is to whom and with which certificate anything was sent; permits are those of one
client object. Catalogue: a request loads, works out a plan of rows to insert, delete and
touch, and commits it later; `into` is the row a merge keeps, known by its id, which
SQLite may give to an item created later.

## Runs

| Run | Instance | What it shows |
|---|---|---|
| `task_histories` | 1 task, 2 requests, version up to 6; and 2 tasks, 1 running slot, version up to 3 | the event history is an unbroken chain of legal moves that ends in the row's state, history a link needs is kept, the live lease is the newest (`RowFactsAgree`); a cancel sticks until a requeue; dead leases are not renewed; the limit holds whatever stale counts were made; `TaskLifecycle` is implemented |
| `download_races` | 2 executions, 2 chunks, 3 inodes, with and without a declared size, 2 crashes, failing database | what is published is a prefix (with a declared size: all) of the asset and what is linked is published; a resume cannot skip bytes; success means published, linked and indexed |
| `download_liveness` | 2 executions, fair, no crash | every execution ends; a cancel its executor can still notice ends the task |
| `media_failures` | 2 names, 2 objects; all operations with failing commits, unlinks, links, index writes and lost commits where they are inspected; or four of them with references assigned at every step | no reference loses its content while no other program interferes; a valid index shows the files there are |
| `media_outsiders` | 3 visible names, 1 anchor, 1 object, 2 strikes of another program on any of them; duplicate cleanups and restores, or renames (with failing commits) and alias normalisations | no step takes away the last name of a content, but for those that do not look at what they count on: a roll-back, which checks the name it takes back and nothing else, and an unlink that counts on an anchor another program took just before; the anchor goes only when what leaves it is safe |
| `confirmations` | 2 confirmations of each kind, 2 details, 2 logins, 1 edit; 4 names, 1 anchor, 1 object, 1 change by others | both confirmations implement `ConfirmOutcome`; a new item is clean, writes stay in their login; only what a preview showed is replaced; a media form acts only on what it showed, and references follow |
| `library` | 2 items or objects, 2 to 3 files, 2 directories, 2 processes with 5 lock objects, 3 refreshes | success of an import was proved; directories, uploads and index agree with what is told of them; an upload removes only what it linked, or what was put there before it looked again; a shared lock is never called known |
| `services` | 2 processes and 2 upgrades; libraries of 2 rows, files of 3; 2 imports of 2 rows; 1 probe with 2 imports, version 5; 2 checks of 2 proxies; 3 requests on 2 permits; 2 editors on 2 items and 2 tags | see the next paragraph |

`services` asks: recorded versions and tables agree (`RecordTruthful`); dry run, result
page and start say what is so (`UpgradesTruthful`); a restore says what it did
(`RestoreTruthful`); whatever its file it clears nothing, where it renames nothing it is
a union, states being overwritten, that repeats to nothing, and it inverts the export
(`RestoreIsUnion`); an import is whole and says so (`ImportTruthful`); the catalogue
rests on the newest probe and session (`CatalogCurrent`); failures are counted
however checks overlap (`FailuresCounted`); permits balance and only approved peers
are spoken to (`OutboundSafe`); a merge keeps what it had seen (`MergeKeepsSeen`).

The bounds: two executors, requests or objects are the least in which one can act
between the check and the use of another; version bounds let a row be claimed, paused or
failed, requeued and claimed again; two chunks and a crash reach every
relation of file length and offset; three media names allow a group with a keeper,
a hard link and a duplicate; two upgrades allow one after a failed one; a restore
file of three rows has more rows than the library has ids; three outbound requests
are more than the permits; five lock objects allow each of directory and file to be
replaced while held. A behaviour of `MCConfirm`, `MCLibrary` or `MCServices` runs one
part: these runs, and the theorems on their specifications, check no interaction between
parts. What a part meets of the others is what its own module models as other writers
(pages that edit and delete, other tabs, other programs).

Deadlock is checked for the task and file operations. It is off where behaviours end:
downloads, confirmations, library and services rest once every request is over and
every bound is reached.

Fairness: only `download_liveness` assumes any, weak fairness of an executor's
next step. The event loop schedules every ready coroutine, every await of
`execute()` carries a timeout, and database and file calls return.

### Runs that find a disagreement

| Run | What TLC finds |
|---|---|
| `startup_after_cancel` | a row left `cancelling` makes restart recovery raise, and the application does not start |
| `stale_executor` | an old execution whose provider wait fails after a pause and resume moves the newer claim's row to failed and removes the shared temp file |
| `paused_download` | a crash between `os.write` and the commit of the offset leaves a paused task that can never be resumed |
| `duplicate_race` | a reference assigned between the count and the unlink of a duplicate dangles |

The lines of code and of documentation that disagree are quoted in `PROJECT.json`
under "findings". Further disagreements are recorded as notes of the hazards and have no
run of their own. Where a passing property leaves such a case out, a history variable or
a definition names it:

| Disagreement | Named by |
|---|---|
| an anchor replaced by another program is not noticed before the members go | `AnchorIntact` |
| a restore leaves a link behind and reports no change | `unseen` (`MediaMutations`) |
| a restore of an anchor whose commit raised | hypothesis `NothingLost` |
| the keeper of a group with hard links is judged replaced | `StillValid` (no property) |
| an upload that fails takes a file put under its name before it looked again | `unseen` (`MediaUploads`) |
| a failed refresh signs a corrupt index | `resigned` |
| a manual update answers `write_failed` of what is written | `seen`, "misled" |
| an import told as failed is in the library, and is repeated | `doubtful` |
| an imported row lacks a URL that a page deleted meanwhile | `gone` |
| states, titles and names of a restore replace the local ones (`README.md` lines 2641 and 2717 of the repository: append, merge) | `MarksJoin`, `NothingCleared` |
| a restore that renames items is refused though its preview allowed it | `KeepsTitles` |
| a damaged schema 1 passes the dry run and is refused at step 2 | `PreviewKeepsWord` |
| a session import writes back an older status | `staleStatus` |
| a merge gives up a relation both items had and the primary lost since | `MergeKeepsSeen` |
| history deletion against a concurrent retry; a partly created schema no start accepts; two client objects passing the documented concurrency | no property |

## Proofs

The theorems hold for every value of the constants that the named assumptions of the
modules allow. For the task service: any finite set of tasks, any set of sessions, any
`MaxConcurrency` above zero and any set of stages. For the others: any sets of
executions, requests, processes, checks, imports, editors, proxies, paths, digests and
references, and any value of the bounds.

* `TypeCorrect` (`TaskServiceProofs`): `Spec => []TypeOK`. `TypeOK` is inductive as
  it stands; the proof has one step per action and lemmas for what the row
  operators and `Commit` return. The theorems that follow rest on one lemma,
  `EveryStepIsRowStep`: from a well-typed state, a step either changes every row
  quietly (kept, deleted, created, moved by one legal transition that does not run
  it, touched by a heartbeat or an expiry, downgraded to unknown), or lets exactly
  one row enter RUNNING, through a check or a claim that had room. It is proved
  once, action by action; each theorem then looks only at these shapes.
  * `FactsAgree`: `[]RowFactsAgree`. A row and its events change together, by one
    transition or not at all, so the history stays a chain that ends in the row.
  * `CancelHolds`: `[]CancelSticks`. Inductive given `TypeOK`: the cancel flag is set
    only together with a move to a cancelling or closed state, and a move back to
    `queued` clears it.
  * `DeadLeases`: the action property `DeadLeaseStaysDead`.
  * `ConcurrencyBounded`: `[]ConcurrencyBound`, from the recount in the claiming
    UPDATE and cardinalities of finite sets.
  * `Refinement`: `Spec => ImplementsLifecycle`, initial states to initial states
    and every step to a lifecycle step or a stutter.
* `DownloadTyped`, `PublicationsAreFaithful`, `OffsetsAreNeverAhead` and
  `SuccessesAreProved` (`DownloadExecutorProofs`) share one inductive invariant,
  `DownloadInv`. Executions overlap only at the await of the provider (`LoopOK`), a
  lease generation belongs to one execution and only the newest may write
  (`GenerationsOK`), the temp file of that one holds a beginning of the asset as long
  as what it has counted (`DataOK`, `FilesOK`), what it publishes and links is that
  file (`ProofOK`), and a row that says succeeded leaves no execution with a lease
  that could still undo it (`SuccessOK`). None of the four properties is inductive
  without the others: a success rests on the link, the link on the file, and the file
  on nobody else writing under the same name. TLC had found the invariant to hold
  on the instance of `download_races` before it was proved.
* `ConfirmationKeepsPromise` (`ProviderApplyProofs`): `ApplySpec => ApplyKeepsPromise`,
  the refinement of `ConfirmOutcome`. A plan carries its detail's number and, for an
  update, was made from a source row with a smaller one (`TokensOK`), and the write
  puts that number into the row (`SourcesOK`). So while a request's write stands
  (`Stands`) there is a row whose hash is at least its own: no plan of the same or an
  older detail meets its pre-state again, and the look cannot take the state for the
  one before. A row that carries the number, in turn, shows that the plan was written.
  `ConfirmationSound`: `[]ApplySound`, with what a request in flight knows of its
  login (`LoginOK`) and of the item it created (`LeftClean`).
* `UpdateKeepsItsPromise` (`ConfirmProofs`): the same refinement for the manual
  update. Its plan comes from a finished source check; checks are numbered as they
  start, so what a check has seen in a row is older than itself (`ChecksOK`), and while
  fields stand the row carries the check's number or a later one, and the item the
  provided summary (`URequestsOK`); the misled answer is given only by a request that
  finds both there. `UpdatesAreShown`: the action property
  `OnlyWhatWasShown`.
* `DoneAsShown` and `ReferencesAreFollowed` (`ConfirmProofs`): the action properties
  `ConfirmedAsShown` and `ReferencesFollow` of the media forms, from `FormInv`. Names
  of one inode hold one content (`MediaOK`), a form and the items of a batch are
  requests whose preview could be built, and a match was offered only for an object
  without a reference (`PageOK`). What an operation does is described once for each
  shape (`DoMoves`, `DoMerges`, `DoRemoves`, `DoRefers`); the comparison of the form
  then covers what goes, but for the references of a duplicate cleanup and of a
  restore, which follow the content instead.
* `ConfirmationsTyped`, `ConfirmationsAreSound` and `ConfirmationsKeepTheirPromises`
  (`ConfirmProofs`): the same for `ConfirmSpec`, which the run checks. What does not run
  stays as it started and what runs takes steps of its own specification
  (`ConfirmInv`, `StepOfOne`). That an item keeps a title and a summary it may have
  needs that plans carry such texts (`Texts`), and that tasks keep to five shapes
  needs that a running one is always the one the transaction wrote (`UpdateShape`).
* `ImportsAreTruthful` (`DatabaseProofs`): the action property `ImportTruthful`. One
  request holds the write lock (`OneWriter`), it stages only its own valid rows
  (`StagedOK`), and a URL it takes for known is in the tables, staged by itself, or was
  deleted before it had the lock (`KnownOK`).
* `RecordsAreTruthful` and `UpgradesAreTruthful` (`DatabaseProofs`) share `SchemaInv`:
  the recorded versions are a chain with the structure of the newest (`RecordOK`),
  starts only add parts of what they found missing (`BootOK`), and an upgrade under
  way holds the chain from the version it found to the step it is at (`UpgradeOK`).
  That no later check refuses an undamaged database follows from the first because a
  step's needs are in the structure of the version before it.
* `RestoresAreTruthful` (`DatabaseProofs`): the action property `RestoreTruthful`. A
  merge marks the media index invalid, so the digests tell the library after it
  from the one before (`RestoreInv`).
* `LibrariesStaySound` and `RestoresAreUnions` (`DatabaseProofs`): `[]BackupTypeOK` and
  the action property `RestoreIsUnion`, for libraries and files of any size. What was
  checked before the lock and under it still holds at the commit (`BackupInv`), so that
  all depends on what one merge does. It goes over the rows of the file one by one
  (`MergeUpTo`): whatever the rows are, nothing is lost and each row of the file has
  its place (`Placed`); where the file renames no row, a row is found under its word or
  is new under its id (`Agreed`). Either is shown of the first step and of the next
  one, and `EachUpTo` makes it all of them: the least step at which it failed would be
  neither. Links, marks and sources follow the rows to their places
  (`ContentsJoin`, `MarksJoined`, `MergeClearsNothing`); a second merge finds every row
  under the id the first gave it (`RowsAgain`, `MergedAgain`); the preview finds the
  place of every item that has one already (`PreviewOfItems`).
* `RelationsHaveBoth` and `MergesLoseNothingSeen` (`DatabaseProofs`): `CatalogueTypeOK`,
  which `ServicesTypeOK` contains, and the action property `MergeKeepsSeen`. A plan
  names only rows its request had loaded, and a merge's plan gives the primary (`into`)
  every row it takes from the duplicate or skips as there already (`MergeOK`).
* `LibraryProofs` holds an inductive invariant for each part of the library.
  * `OperationsExclude`: `LockSpec => ExclusiveOrUnknown`, an action property: every
    object is flocked by one process, and an operation holds its directory's flock
    until it is over (`LockInv`).
  * `ImportsAreProved`: `[]LinksAreProved`. The one execution knows at each step the
    file, then the link, then the proof of its import (`KnowsFile`, `KnowsLink`,
    `KnowsProof`), and no other import can be about its path meanwhile (`LocalInv`).
  * `IndexIsHonest`: `[]IndexHonest`. A row tells what the version it was made from
    held, unless it has no signature (`IndexedOK`), the copy a refresh works on too
    (`ScanOK`), and only its commit replaces the rows and the root they are of
    (`StateOK`). `AuditIsExact` is a fact about the state alone.
  * `UploadsAreFaithful` and the action property `UploadsSpareOthers`: what an upload
    takes for known lies under its name and its temporary holds what is wanted, but for
    names others changed since (`KnownIsThere`, `TemporaryOK`); an index that is left
    behind is one that a running upload will answer for (`IndexFollows`). What
    an upload holds for its own it linked itself (`mine`), or it came under the name
    before the upload looked again (`unseen`).
  * `DirectoriesAreFaithful`: `[]DirectoriesFaithful`. At each step of a rename it is
    known at which name the directory is (`WhereItIs`) and where a reference that
    nobody assigned across the move may lead (`LeadsOn`): in the end to a file, or
    the answer is "unknown". The answers rest on what was at the names before
    (`WasThere`, `MovedOK`), the index on the same (`NamesOK`).
  * `LibraryTyped` and `LibraryKeepsItsPromises`: `LibrarySpec`, which the run checks,
    behaves as each of its parts (`LibraryIsItsParts`) and so keeps what they keep.
* `CatalogIsAlwaysCurrent` (`ServicesProofs`): `RuntimeSpec => []CatalogCurrent`,
  from two facts: a check that still holds the row's version has seen every change of
  the operator (`PlansAreFenced`), and an import that nothing overlapped is the only
  one under way and has stored its cookie (`AloneIsAlone`).
* `FailuresAreCounted` (`ServicesProofs`): `EgressSpec => []FailuresCounted`, from the
  update lock (`OneCheck`) and what the checker's copy says of the proxies it has and
  has not probed yet (`CopyCounts`).
* `RequestsAreSafe` (`ServicesProofs`): `[]OutboundSafe`. The permits taken are the
  cardinality of the requests at places that hold one (`GlobalBalanced`,
  `ProviderBalanced`), and what was sent went to the address the request holds
  (`CallOK`).
* `PoolTyped`, `ServicesTyped` and `ServicesKeepTheirPromises` (`ServicesProofs`):
  `EgressTypeOK` needs that no proxy has counted more failures than there were checks
  (`FailsBounded`) and that a proxy counted as good does not rest (`GoodRests`). `ServiceSpec`, which
  the run checks, behaves as each of its parts (`ServicesAreTheirParts`), so the
  services keep there what each keeps alone.
* `MediaProofs` proves four properties of the media operations from two invariants.
  * `MediaInv` says what an operation holds at each of its steps (`Shapes`), that the
    index is behind the names only where the operation will say so (`IndexTold`) and
    that a name just linked is still the link (`LinkIsOurs`). It holds without a
    hypothesis, so `MediaTyped` (`[]TypeOK`), `IndexIsFaithful` (`[]IndexFaithful`) and
    the action property `ContentStays` (`ContentSurvives`) hold whatever fails, crashes
    or is changed by other programs, up to the exceptions these properties name.
  * `ReferencesAreKept`: `[]ReferencesKeepContent`, from `MeantInv`, which holds until
    another program changes a file (`Undisturbed`): nobody who was
    given a file refers to a name that may go, and a name references are moved to has
    the content of the one they come from. It assumes `NothingLost` (no commit is
    durable and raises where nothing inspects it:
    renames and normalisations inspect, restores do not) and `NobodyInterferes` (no
    assignment beside an operation that may still take back a name it offered, or
    beside the counts of a duplicate cleanup). Both settings of `media_failures`
    satisfy them. They cannot be dropped: the run `duplicate_race` shows the
    reference that a cleanup loses to an assignment, and the others are as real.

The proofs made some definitions of the models sharper. In TLA+ a CASE whose guards
overlap may take either arm; TLC takes the first, so runs had not shown that
`StatusOf`, `Verdict`, `IndependentOutcome` and `Inspection` said less than the code,
which takes the first. They are written with IF now. `BuiltPlansValid`, a part of
`ApplySound`, had spoken only of the last detail and speaks of every one.
`RowsAssumption` asks for two row ids, which `RowsInit` had taken for granted. The merges
of `BackupRestore` were folds, of which nothing could be proved; they are a recursive
function over the row ids now (`MergeUpTo`) and, for the marks, a closed form. TLC finds
the same states as before.

Only model-checked:

* liveness (`ExecutorsFinish`, `CancelEnds`), which needs fairness, and is out of the
  prover's reach;
* `ReferencesKeepContent` where the hypotheses of `ReferencesAreKept` do not hold.

Every other safety invariant and action property of the passing runs is stated by a
theorem with no hypothesis but the assumptions on the constants.

No module declares a RECURSIVE operator, so that every one of them can be proved about.
The one recursive function that matters, the merge of a backup, is bounded by the ids of
the rows, which is why an induction over those numbers, made with a set and its least
element, is enough for it.

## Plan

Every safety invariant and action property of the passing runs is stated by a theorem.
What is left are models of the CookieCloud client and of source search, should they come
to keep state.

## Not modelled, and why

Rendering, translation, queries and statistics keep no state. Parsing of provider
pages and import files, image and PNG validation, decryption and HLS rewriting are data
conversions without interleaving. Authentication and configuration are checks of one
request. State, rating and saved views are single-row writes. `cleanup_history` and
`cleanup_stale_download_temps` have no caller outside the tests. Splitting an identity
check from the system call right after it is left out throughout; so are two
instances of the application on one database, except for starts (`SchemaMigrations`)
and the media lock.
