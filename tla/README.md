# TLA+ models of ai-kits

ai-kits is a collection of small tools around one product, the **Personal
Observatory**: a companion on each of the owner's machines reads what AI coding
tools leave on disk, a site stores and shows it, and some agents do work the
site asks for. This directory holds TLA+ specifications of the parts where the
order of steps matters, the TLC configurations that check them on small
instances, and proofs, checked by TLAPS, that hold for every instance.

Paths below are relative to the repository; `core/` stands for
`kit-board/companion/crates/observatory-core/src/`.

## 1. The system

### Parts, their state and their operations

| part | code | state | operations |
|---|---|---|---|
| Companion run | `core/run.rs`, `lock.rs`, `effective.rs` | run lock, configuration of the run | prepare, collect, rebuild the outbox, upload |
| Companion outbox | `core/outbox.rs`, `http.rs` | queued bodies | build, post, acknowledge, split, defer, isolate |
| Companion state | `core/state.rs` | SQLite: records, published buckets, outbox, cached configuration, cursors, side records, slots, emission marks | transactions over those |
| Adapters | `observatory-adapters/` | file checkpoints, emission marks | read transcripts and logs, emit revisions |
| Allowances | `core/state.rs`, `core/inbox.rs`, `claude_account.rs` | slots, quarantine, part files | hold a reading until its account is proved, release or drop it |
| Usage ingest | `kit-board/lib/usage-store.ts` | ledger, buckets, coverage, installs, bindings | ingest an envelope, pair, confirm an identity, change settings, disable and reset a binding |
| Projections | `kit-board/lib/usage-canonical.ts` | canonical request and tool rows | upsert the winner of the touched keys |
| Side records | `kit-board/lib/usage-side-records.ts`, `core/labels.rs`, `projects.rs` | session names, projects, memberships | forward-only upsert, deferral, weekly resync |
| Pull-request watch | `kit-board/lib/pr-watch-store.ts`, `kit-pr-watch/` | watches on the site, the runner's launched sessions | add, stop, review now, tick, report |
| Database gate | `kit-board/lib/database-queue.ts`, `database-budget.ts` | a chain of jobs, a pending count | run, time out, reset |
| Usage read | `kit-board/lib/usage-query.ts` | none of its own; caches of answers | one query: which rows, in which cards |
| Pages that read and edit | `kit-board/components/registry.tsx`, `companion-installs.tsx`, `tokens-overview.tsx` | what is shown, requests on their way, a client cache | refresh, poll, filter, submit |
| Reports and readings | `kit-board/lib/db.ts`, `readings.ts` | documents | insert once, read |
| Reset feeds | `kit-board/lib/reset-feed-store.ts` | cached feeds | fetch with backoff |
| Browser quota collector | `kit-board/browser/claude-quota/` | the extension's storage: install, binding, pin, two queues | collect, upload, pair, bind, pin, import |
| Rendering | `kit-board/app/`, other components | none | render |
| agentlint, agent-surface | `agentlint/`, `agent-surface/` | none (offline) | lint transcripts, compare permissions |
| kit-readings, kit-daily-tasks | contracts and fixtures | none | - |

### How they interact

The schedule of the operating system starts a companion run; one lock file lets
one run at a time through. The run fetches its configuration from the site over
HTTP (or falls back to the cached one), has each adapter store revisions in
SQLite, rebuilds the outbox from the rows that are pending under the settings of
*this* run, and posts the queued bodies one by one. The site handles each post
in one Postgres transaction, and its receipt makes the companion mark rows. The
owner changes settings and bindings on the site at any moment. So three actors
share no clock and no transaction: the run, the site and the owner; SQLite and
Postgres are each atomic, and everything between them is a message that may be
lost, or arrive when its sender is gone.

The pull-request runner is the other distributed part: the site's rows, a
runner that ticks every five minutes, GitHub, which changes between two reads,
and background sessions nobody waits for.

### What is hard, and what makes each part right

* **Delivery** (companion, outbox, ingest). Lost receipts, posts that land after
  their run is dead, crashes between the marks and the deletion of a row,
  refusals of a body for one entry of it, a budget of splits, outboxes built
  under settings that have since changed. Right means: a mark never names what
  the server did not take; nothing is lost, nothing blocks the rest; nothing
  leaves that the settings in use keep home; the evidence of an offline run
  survives until it is recorded.
* **Projections.** Two ingest transactions overlap, revisions arrive late or
  again. Right means: the projected row is the winner of the whole ledger once
  the transactions are over.
* **Side records.** One refused row must not undo an envelope, nor an older row
  replace a newer one.
* **Identity of bindings.** The account signed in on a machine changes; two
  bindings confirm the same identity. Right means: no usage is filed under an
  account it was not proved for, and one parent has one binding per identity.
* **Allowances.** A reading waits for its account; it must reach the right one
  or none.
* **Transcripts and emission.** Files that grow while they are read, forks that
  copy a history, evidence in any order; a mark written before its record would
  lose a revision, after it a crash repeats one. Right means: the rows do not
  depend on where the scans cut, and a mark passes over nothing without a record.
* **Pull-request watch.** Stop against launch, push against read, crash between
  the launch and its record, timeouts. Right means: one session per watch and
  head, no start after a stop, and every push of the author in the end reviewed.
* **Database gate.** Jobs that outlive their budget. Right means: never two jobs
  on the driver, and no caller left waiting for ever.
* **Reads and pages.** Caches with a generation, loads joined by later callers,
  requests that overlap edits and filters. Right means: who was told that an
  edit is saved sees it, and a page never goes back.
* **Usage read.** Hours, provider buckets and months cut by days of a zone with
  daylight saving, rows that one card counts and another hides. Right means: the
  cards add up, and a row, clicked, selects what it counted.
* **Quota collector.** A worker the browser ends at any await, a tab whose
  account changes, an owner who resets bindings. Right means: readings of one
  install are of one account, none is lost, and "ok" is true.
* **agent-surface.** Two sides read file by file while branches move and git may
  fail for one of them; a verdict per pair of neighbours. Right means: a verdict
  is about two commits, silence means equality, and a chain of admitted merges
  adds up to nothing new.

`PROJECT.json` lists these hazards at their lines, with the property that covers
each or the reason why none does.

## 2. Plan

| order | module | composes / refines | questions |
|---|---|---|---|
| 1 (done) | `UsageDelivery` | refines `Publication` | delivery end to end |
| 2 (done: review watches; left: address watches) | `PrWatch` | site rows, runner, GitHub, sessions | double launch, start after stop, missed push |
| 3 (done) | `UsageLedger` | the ledgers, the projections, side records | overlapping ingests, replays, refused rows, late revisions |
| 4 (done) | `Installs` | installs, codes, settings, mappings | two confirmations at once, guesses, versions, lock order |
| 5 (done) | `UsageRead` | reads what `UsageLedger` writes | sums, filters, snapshots |
| 6 (done) | `ReadPath` | queue, caches and pages | timeouts, stale loads, overtaken answers |
| 7 (done) | `QuotaCollector` | worker, tab, server | a killed worker, a changed account |
| 8 (done) | `AgentSurface`, `SurfaceCheck` | git under a check | mixed commits, chains of merges |
| 9 | `AllowanceQuarantine` | with the statusline inbox | readings of an unproved account |
| 10 (done) | `Transcripts`, `Collection` | what gives `UsageDelivery` its revisions | cut scans, late evidence, crash between records and marks |
| 11 | address watches in `PrWatch` | - | the comment watermark |

Proved: delivery with its refinement, the ledger (projections, receipts, spans,
the counts of the run rows), what the locks of `Installs` promise, the review
watches, the read path with its pages, the quota collector, what the mark of a
collection passes over, that the answer to a usage query adds up and counts no
month twice, and of agent-surface that a check reads commits, that a chain of
admitted merges is as strict as one check, and that "no-change" means no change.
Worth proving next: that a scan cut anywhere gives the rows of one reading
(`RowsAgreeWithFiles`), for the lines the clients write.

## 3. What is modelled

### `UsageDelivery`

One companion with its rows, the run that holds the lock, the network, the
ingest transaction and the owner.

| variables | code |
|---|---|
| `content`, `published`, `rejected`, `superseded` | tables `records` (content hash, published hash, rejection reason) and `published` buckets |
| `outbox` | table `outbox`; a row is a run id, its coverage or none, and a set of entries |
| `cached` | the configuration kept in `meta` |
| `phase`, `run`, `ctx` | the run under the lock, its id and the configuration `prepare` fixed |
| `carried`, `queue`, `halves`, `budget` | the work list of `upload`: coverage of earlier runs, bodies of this one, halves of the row being posted, `budgets[origin]` |
| `call`, `late` | the request in flight with its answer, and requests whose sender is gone |
| `ledger`, `live` | the server's revisions; the settings and bindings in force |
| `observed`, `dropped`, `isolated`, `owed` | history, read by properties only |

| action | handler |
|---|---|
| `StartRun` | `prepare`: fetched configuration, cached one, or defaults |
| `Collect` | an adapter's revision stored by `execute` |
| `Rebuild` | `pending_records_for_agent_setting_with_limit` (redaction and stale stamps written row by row), `build_bodies`, and the transaction that replaces the outbox and carries coverage over |
| `Post` | the pop and the request of `upload` |
| `Acknowledge`, `DeleteAcknowledged` | the two transactions after a receipt |
| `Split`, `Defer`, `Isolate` | the three answers to a refused body |
| `EndRun`, `RequestFails`, `Crash`, `CrashWhileRevising` | the ways a run is over |
| `ServerAccepts`, `ServerRefuses`, `LateArrival` | `ingestUsage` and the contract check in front of it |
| `OwnerChanges` | `updateInstall` and the resets |

A body is refused as a whole for what is in it (`Poison`); a receipt rejects
single records (`Rejections`); the buckets of a binding that is disabled or
waits for a confirmation are passed over without a word. All three are in the
code, and how the companion reads them is the heart of the model.

Abstractions, each chosen so that it allows what the code allows:

* A hash of a record or the digest of a bucket is its `Content`; what changes a
  bucket because a setting changes is a revision like any other.
* `build_bodies` packs rows by size in bytes. Sizes are not modelled: any layout
  within the caps is possible, so whatever the packing is, it is covered.
* A resource's settings and the deny list on the machine are one record per
  configuration: what they hold back, what they redact, which revisions carry a
  stamp of an older one. A record a deny list holds is neither rewritten nor
  stamped, as in the code, which skips it first.
* The carried coverage is posted in any order; a run id is used again once no
  body carries it, which a fresh uuid permits.
* `Defer` and `Isolate` never meet a body with coverage and nothing else that is
  refused: coverage alone passes the contract check.
* The lock is `phase`: a run that finds it taken ends at once and changes nothing.

Not in this module: side records (which travel in the same bodies and have marks of their own), dry
runs, detailed reports, pages of 50,000 rows, repeated 401 answers, and rows of
the outbox that cannot be parsed, which the code that writes them never makes.

### `Publication`

The abstract specification: revisions are observed, the server stores observed
revisions for good, some are waived, and the machine marks only what is stored
or waived and never marks what was refused. `UsageDelivery` implements it with
`stored <- ledger`, `waived <- dropped \cup isolated`, `mark <- published`,
`refused <- rejected`.

### `UsageDeliveryMC`

Values for the constants: two records and a bucket, two bindings, two
revisions each of which the bare one is what redaction makes of the full one,
and the three configurations Open, Private and Reconfigured.

### `PrWatch`, `PrWatchMC`

Review watches: the owner on the page, the rows on the site, the runner, GitHub
and the sessions, each an actor of its own.

| variables | code |
|---|---|
| `rows` | `personal_hub.pr_watches`; merged and closed are one status |
| `launched` | `pr-watch-state.json`, the only thing of the runner that outlives a tick |
| `step`, `todo`, `listed`, `slots`, `agents`, `current`, `seen`, `plan` | the locals of `tick`: the list as read at its start, the memo of `claude agents`, the pull request as `pull()` returned it, the decision |
| `pushes`, `reviews`, `open` | GitHub, modelled from what the runner reads of it |
| `sessions` | `claude --bg` sessions, modelled from what the runner starts, reads and stops |
| `strays` | history: sessions whose launch was never written down, or whose stop failed |

| action | code |
|---|---|
| `Add`, `Stop`, `ReviewNow` | `add`, `act` |
| `StartTick` | the list, the pruning of the state file, the slots |
| `ReportAgain`, `Look` | a launch the site has not confirmed; else `pull()` |
| `ReadAgents`, `Decide` | the later reads and `decide`, one operator per part of it |
| `StopAction`, `Launch`, `LaunchFails`, `Record`, `Report` | what `tick` does with the decision, call by call |
| `ReadFails`, `EndTick`, `Crash` | the ways on from there |
| `Push`, `Close`, `PostReview`, `EndSession`, `Overdue` | what goes on meanwhile |

The two reads of one decision are two steps because the code has no way to take
them at once: the head comes with `pull()`, the diff and the reviews come later.
The reads after the first are one step: nothing a push changes is read twice
among them, and commits are compared by name. A report is taken, refused or
lost, and an answer may be lost when the report was taken; a request that
arrives minutes later than its tick is not modelled, since ticks are five
minutes apart and a request lives a minute. Not modelled either: the minute of
slack with which a review from just before the start counts as the session's
own, reopened pull requests, a compare that GitHub refuses, which the code
treats as a push of the author, and two ticks that take over one stale lock.

### `UsageLedger`

`ingestUsage` statement by statement: several READ COMMITTED transactions, each
with an envelope of an install, over tables that others commit to meanwhile.

| variables | code |
|---|---|
| `requests`, `events`, `others` | `activity_requests`, `tool_events` and the ledgers without a projection |
| `canonical`, `invocations` | the projections, by semantic and invocation key |
| `identities`, `side`, `runs` | project identities, the three tables of names, `companion_runs` |
| `bindings` | the switches the owner moves |
| `tx`, `receipts` | what each open transaction has read and written so far; the answers |

| action | code |
|---|---|
| `Begin`, `ObserveIdentities`, `InsertRequests`, `InsertLedgers` | the statements of `ingestUsage` in their order; the bindings are read once, at the start |
| `StartProjection`, `UpsertCanonical` | the projection of requests: a snapshot for all keys, then one row lock after the other, each guarded against the row as last committed |
| `StartRegisters`, `UpsertRegisters` | the same for tool calls, two registers under one lock |
| `ApplySide` | the savepoints of the side records, and what is deferred |
| `Commit`, `Abort` | the run row with its sums, then everything at once; `lock_timeout`, a lost connection, a dead server |
| `ChangeBinding` | the owner |

A statement that meets a row another open transaction wrote is disabled until
that one ends: the wait; that it may end in `lock_timeout` is `Abort`, at any
point. A row is what the rules compare: its key, channel, times, project
evidence, the facts its content hash covers, and whether the producer stamped
its own clock into it. Replayed run ids, capability rows and kept coverage are
left out.

### `UsageRead`

`usageQuery` as a function of the tables, the query and the clock: one step.
Zones say at which instant each date begins, so a day may be short or long.
Kept: presets and their alignment, the canonical choice among revised buckets,
every filter, the project and agent of a request with the order of precedence of
their sources, the headline and what it says is left out, periods, the card of
each kind, monthly snapshots with what excludes them, and the nesting of tool
calls. Tokens stand for the whole composition of a row. Left out: prices, cost,
sorting, paging and the wording of coverage notes.

`ReadAssumption` says what the constants are like: dates and months follow one
another, the range of a query lies in the calendar, tables are finite, rows have
ids of their own, a bucket begins on the hour (`telemetry-contract.ts:9`), the
days of a snapshot add up to its total, and no tool is called "exec (outside
range)", the name of the synthetic row.

### `Installs`

The rows owner and machine change from two sides; each call is a process, a
step is one SQL statement or the last ones of a transaction with its commit.

| action | code |
|---|---|
| `BeginPairing`, `ConsumeAttempt`, `PairInstall`, `WindowEnds`, `CodeExpires` | `consumeAttempt`, `pairInstall`; the install is paid for by the claim, in one transaction |
| `BeginIdentity`, `LockInstall`, `CheckIdentity`, `AssignIdentity` | `createBinding` and `confirmIdentity` under the install row |
| `PauseInstall`, `DisableInstall`, `UpdateBinding`, `UpdateSettings`, `BumpSettingsVersion` | `updateInstall`, `updateCollectionSettings`: a setting, then its version |
| `BeginConfig`, `CompanionConfig` | `companionInstall`, then `companionConfig`, without a transaction |
| `BeginMapping`, `LockIdentity`, `DrawRevision`, `CommitMapping` | `updateKnowledgeSources`, map and unmap |

Of the three budgets of attempts, address, prefix and global, the one of the
prefix is modelled; the other two count the same way. Binding rows for usage of
one identity elsewhere and the companion's `decide_identity` are not.

### `ReadPath`

One read from a page to the database and back, in one server process.

| variables | code |
|---|---|
| `jobs`, `stage`, `open` | `DatabaseQueue`: the chain, what its head is at, the work that has a connection |
| `registry`, `answers` | `readCache` with its generation and its pending load; the Map of `createUsageQueryCache`, which keeps promises |
| `requests`, `shown`, `tokens`, `clientCache` | the requests of two pages, the registry page, the Tokens page and its sections |
| `data`, `results`, `acked` | the registry writes committed, what became of each job, the newest write that was answered |

`StartJob`, `Execute`, `FinishJob`, `FailJob`, `RefuseJob`, `TimeOut` and
`ResetDone` are the queue; `Arrive` a route (from its cache, a load others wait
for, or a job); `ExpireRegistry`, `ExpireAnswer` and `ExpirePart` the times to
live and the room of the caches; the rest are the effects of the pages, which
abort, send again once, and drop what arrives for a filter that is gone. What is
read is the number of writes committed. One job stands for the several
statements of a usage query, and a registry load has two, as in
`loadKnowledgeSources`. The cache of usage metadata, and the difference between
the two ways an entry of the client's cache goes, are left out.

### `QuotaCollector`

The extension's worker, step by step between its awaits, with the storage it
leaves behind, the tab and the server.

| variables | code |
|---|---|
| `store` | `chrome.storage.local`: install, binding, pin, both queues, the last configuration, error and read |
| `worker` | what `collect` has in memory, gone when the browser ends the worker |
| `tab`, `server`, `ledger` | the account signed in, the installs with their switches, the records taken |
| `fate`, `reads`, `forgot` | history, read by properties only |

`BeginCollect` to `Finish` are `collect` in order: settings gate, identity,
tab, one write of both queues, both uploads answer by answer, the outcome.
`Pair`, `Bind`, `Unpair`, `RemoveLegacy`, `Import` and `Pin` are the set-up
calls, under the same lock; `Kill`, `SwitchAccount` and `Owner` are the
environment. The coverage-only body of a failed read is the one thing of
`collect` left out.

### `AgentSurface`, `SurfaceCheck`

`AgentSurface` is the pure core of agent-surface as operators: the entries of a
file with their normal form and credentials, the keyed difference of two sides,
what a difference means (direction table, interpretations I1 to I5, I7 and I8),
the verdict and its exit code. Digests are the raw text, since equal digests
mean equal texts; parsing JSONC and URLs is a choice of unusable values.
`SurfaceCheck` runs it: `ResolveBase`, `ResolveHead` and `GuardInRepo` fix the
two sides, `ReadBase` and `ReadHead` read them one file at a time while
`ResetBranch` and `Checkout` move what is read, `Conclude` gives the verdict,
and `Merge` takes what exits 0 as the base of the next check. A commit is its
tree; a saved snapshot is carried through as it was saved, without what git
lost when it was taken.

Git may fail for any file of a ref (`ReadRef`). Not started, or failing once it
has found the file, it makes the file unreadable and the scan incomplete. But a
lookup that ends with any other status than 0 is taken for a missing file
(`git.ts:175`), whatever the reason: the side then goes on without the file, and
`lost` remembers which. `Seen` is what is left of the commit.

An entry of a hook keeps event, matcher, type, command, prompt and timeout
(`entries.ts:431`). Other members of the hook or of its group (`rest`) are in no
entry; only a literal in them that is taken for a credential is reported.

A mode or a flag has one key for every file, and the comparison reads the first
file of a key (`diff.ts:83`). What stands below that in another file (`Doubled`)
is as unseen as what stood in a lost one; `overlooked` collects what such items
say in the merges that were admitted.

A literal that is taken for a credential has an entry of its own, with the digest
of the whole string it was found in: for a permission rule that is the rule, not
the literal (`WrittenAround`). So two rules that hide one literal and swap what
stands around it are told apart.

### `Transcripts`, `Collection`, `CompanionMC`

`Transcripts` is the reader of Claude Code and Codex files, line by line, with
the rows it writes.

| variables | code |
|---|---|
| `corpus`, `disk` | what the clients' files will hold and what of it is written: complete lines, a cut-off one, the inode, the sidecar |
| `key`, `files` | the scan generation and the checkpoints: size, time, inode, offset, parser context |
| `rows`, `gaps` | `request_events`, `tool_events`, `agent_profiles`, `agent_events`, quota slots; files with a malformed line |
| `scan`, `conf`, `left` | the scan between two transactions, the owner's settings, the bounds |

`StartScan`, `StatFile`, `ReadFile` and `EndScan` are `scan`: the look at a file
(skip, resume or start again) and the transaction that reads it are two steps,
since the file may grow between them. `ReadFile` folds `ProcessLine` over the
complete lines: counts of a message, running totals, forks, turns, nested calls,
and `MergeProfile`, `CompleteSpawn`, `PropagateDepths` for the lineage of
agents. `FileUnavailable` and `ScanStops` are the faults; `AppendLines`,
`Replace`, `WriteSidecar` and `OwnerStep` the client and the owner.

`Collection` puts a run around it: `StartRun` (a new change generation, the
purge of a changed scan key), `Scan` with the stamps of the triggers,
`EmitDetail` or `ReaderFails`, `Persist`, `SetMark`, `Advance`, `Review` (what
waits is cut to the settings), `Upload`, `RunDies` at any point. `Content` is
the record of a row under some settings, `Due` what a mark lets be emitted.

The fields of a line depend on its type: `Legible` says that a corpus has no line
in a file of the other provider and that its lists are lists, and `CollectionSpec`
begins with any legible corpus; the instances are tested for it
(`FilesAssumption`). With subagents hidden a row's call count leaves theirs out,
and calls become theirs later, so what the mark passes over is said of a record
up to that count (`Says`): a run that dies between `Persist` and `SetMark` leaves
the smaller count under the old mark, and the next one writes it again.

Left out: tool coverage marks and inspections, branch names, the names of tools,
the parser version inside a record, truncation in place, the age below which a
file is not opened, other adapters and several bindings at once, rejections by
the server. `Persist` stores every record it is given: the code checks each one
first and passes over one that fails (`run.rs:1163-1182`), while the mark still
moves. The builders of the local adapters make no such record within the time
window both use, so nothing here depends on it, but `MarksCoverTheirRecords` says
nothing of a reader whose records could fail. A sidecar that tells no depth leaves a child with a depth inferred
from what was known when it was read; the corpora give the depth or none at all.

### `BoardMC`, `SurfaceMC`

`BoardMC` extends the five modules of kit-board and puts small instances of them
into one run. They share no row that both sides of a property would read, so a
behaviour keeps to one `scope` and its bounds are spent on one question: the
ledger, a read, pairing, identities, settings, mappings, pages, the collector.
The modules outside the scope stand still in an initial state of their own.
`SurfaceMC` does the same with themes, families of settings that interact.

## 4. What is checked

| run | bounds | checks |
|---|---|---|
| `delivery` | 2 bindings, 3 configurations, 3 run ids, one record always rejected, 3 revisions or owner changes, or 2 and 1 fault | the type invariant, five safety invariants, the refinement, `RunsEnd`, `EverythingIsDelivered` |
| `dropped_bucket` | 2 bindings, 2 configurations, 3 run ids, 3 changes, 1 fault | finds `MarkedBucketsAreStored` violated |
| `pr_watch` | 2 watches of one pull request, 3 acts of the owner, 1 push or closing, 1 fault | the type invariant and three safety invariants |
| `pr_watch_live` | 1 watch, 2 acts, 1 push or closing, 1 fault; or 2 pull requests, 1 slot, 3 acts, 1 push or closing | `RunningEnds`, `RequestsAreAnswered`, `PushesAreTaken` |
| `push_between_reads` | 1 watch, 2 pushes, no fault | finds `EveryPushIsReviewed` violated |
| `stop_before_launch` | 1 watch, 1 push, no fault | finds `NothingStartsAfterStop` violated |
| `surface` | fifteen themes, one item in the first tree, 2 merges, one file git may fail on after its lookup, any it may lose | three safety invariants |
| `git_failure` | as `surface`, 1 merge | finds `CleanScansAreWhole` violated |
| `board` | by scope: 3 transactions in 2 slots with 3 bodies; 3 table contents with 560 queries; 4 calls of 2 processes; three mixes of page events; three profiles of the collector | seventeen invariants and an action property |
| `evidence_overlap` | as `board` | finds `EvidenceFresh` violated |
| `companion` | 3 files of a main agent, child and grandchild, or two with a broken line, or two Codex sessions of which one is a fork; 2 or 3 scans, 3 or 4 writes, 1 fault or change | three safety invariants |
| `loosened_settings` | 1 file, 3 runs, 2 changes of settings, no fault | finds `LooseningRestores` violated |

* `MarkedIsSettled`: a mark names a revision that is stored or, for a bucket,
  passed over or isolated.
* `PostsAreAdmitted`: nothing leaves that this run's settings keep home.
* `RejectedIsNeverRetried`: a rejected record is in no body still to be posted.
* `NothingFallsOut`: what a run owes is in the outbox all through its upload.
* `CoverageIsKept`: the evidence of a run is queued until the server has it.
* `ImplementsPublication`: the refinement above.
* `RunsEnd`, `EverythingIsDelivered`: runs end, and once the user, the owner and
  the network rest, everything admitted is stored or refused on its own.
* `OneSessionPerWatch`, `SessionsAreTracked`: a watch has one session at work,
  and its row or the state file names it, apart from strays and from watches
  stopped before it began.
* `HeadsReviewedOnce`: no head is reviewed twice for a watch unless asked for.
* `RunningEnds`, `RequestsAreAnswered`: a running row is finished, a request of
  the owner starts a review or the watch ends.
* `PushesAreTaken`: an edit of the author is reviewed or a review of it is
  started, unless it fell between the two reads (`Torn`).
* `WinnersStand`, `RegistersStand`: after every commit a projection holds the
  best row of the whole ledger, each register on its own.
* `AcknowledgedIsStored`: what a receipt neither rejects nor defers is in a
  ledger or is shown at least as new.
* `RunsCountRows`, `IdentitiesSpan`: run rows count each stored row once; an
  identity spans its sightings.
* `CardsAddUp`, `RowsSelectThemselves`, `SnapshotsNeverDouble`: the answer to a
  usage query adds up, its rows are filters, and no month counts twice.
* `IdentityHeldOnce`, `PairingIsBounded`, `VersionsCarrySettings`,
  `MappingsAgree`: one holder per identity; one install per code, and guesses
  within the budget; a version never answered with settings from before it;
  overlapping mappings in one order, and no circle of waits.
* `AloneOnTheConnection`, `OwnWritesShown`, `PagesKeepTheirPlace`: one piece of
  work per connection; a saved edit is seen; no page goes back or mixes filters.
* `ReadingsDoNotMix`, `KeptUntilAnswered`, `OkMeansDelivered`: one account per
  install; a queued reading survives the worker; "ok" is said of a reading taken,
  unless an error since was lost with the worker or cleared by a set-up call. The
  second exception came from the proof: a read is refused, `Bind` clears the error
  while the gate is shut, and `Unpair` after an `Import` removes the gate. That
  takes some twenty steps, beyond the bounds of `board`, and clearing an error on
  a set-up call is what the code means to do.
* `RowsAgreeWithFiles`: once all is read, messages, totals, calls and gaps are
  what the files say, wherever the scans cut them.
* `LineageAgrees`: rows say what the profile of their agent says, and an agent
  whose evidence is all read has its true parent and depth.
* `MarksCoverTheirRecords`: what a mark passes over has a record that says what
  the row and the rows it is made of say.
* `ReviewedSidesAreCommits`, `NoChangeMeansSame`, `AdmittedStepsAddUp`: a
  verdict compares whole commits but for lost files, "no-change" is equality of
  meaning of what was seen, and merges that exit 0 grant nothing a single check
  would have stopped, but for what the checks overlooked.

Why the bounds of `UsageDelivery` are enough. Three items give a body with two
kinds of parts and coverage; two poisoned ones of them give a refused half next
to a good one, and a split budget of 2 is smaller than three items and coverage
need, so `Defer` happens (in the code 24 against 1000 records and 400 buckets).
Three run ids let a late request of one run meet the outbox of the next and the
queue of a third. Three changes allow collect, reconfigure, collect again and
also collect, close a binding, open it again. One fault is enough for each
single failure between two steps; two in one behaviour add states and no new
pair of adjacent steps, since a run after a fault starts from rows alone.
Without a bound on faults nothing holds for liveness: the network may fail for
ever. The symmetry of run ids is used in `dropped_bucket` only, which has no
liveness. Safety and liveness are one run with one bound on changes and faults
together (`FewEvents`); the safety properties are also proved without bounds.

And those of `PrWatch`. Two watches of one pull request are what stop and add
again give: the session of the first may still post while the second is
watched. One push next to the initial commit and an optional initial review
reach every branch of `decide`; one fault reaches each lost call once. A cap of
one slot and two pull requests make the second wait. Deadlock is not checked:
with every watch ended and the bounds used up there is nothing left to do.

Those of `board`. Three transactions in two slots are an overlap and one more
that comes late or replays; the three bodies, two of them of one run, hold for
one request a revision that is better and one that is later, for another the
same facts under two clocks, for one tool call events of both registers, and for
one side row two records. Two processes with four calls are every pair of overlapping
statements and one call that finds what they left; three machines and two codes
exhaust a code and a budget of two. The contents of a read have revised buckets,
an hour across a month's end, requests with every project and agent state and
snapshots that compete. Pages and collector get one fault (a failed or timed-out
job or request, a killed worker) with two or three events of each kind. Deadlock
is not checked: a behaviour ends where its bounds do.

Those of `companion`. Three files in any order are the orders of a child, its
parent and its own child; pauses put a cut after a first count of a message,
before an answer, inside a turn and inside a fork's copied history. One fault or
one change of settings falls at every step of a run; three runs are one before,
one that is hit and one after.

Those of `surface`. A theme holds every value the rules in question tell apart
and a tree changes by at most one item going and one coming, so two merges are
the shortest chain that can add up to something new. Which file git loses is
free; on which it fails after the lookup is one file (`Unreadable`), since that
makes any scan incomplete. Nothing is pushed after the last merge. A worktree is
compared, and a branch reset under a check, before the first merge only
(`MaxMoves`): a check of a worktree admits no merge, and what a check reads does
not depend on the merges before it.

Fairness of `UsageDelivery`. `WF_vars(RunStep)`: the service starts a run on a schedule for as long
as the machine is on, and a run takes its next step. `WF_vars(ServerStep)`: a
request in flight is answered; one that never is, is `RequestFails`, which the
client's timeout makes sure of and which the bound allows finitely often.
Nothing is assumed of the user (`Collect`), the owner or late requests.

Fairness of `PrWatch`. `WF_vars(TickStep)`: launchd starts a tick every five
minutes and a tick goes on. `WF_vars(OverdueStep)`: time passes, so a session
that works long enough is overdue. Sessions are not assumed to post or to end.

In `pr_watch_live` the fault and the full queue are two families of initial
states of one run; `FewEvents` says which bounds go together.

The other modules are checked for safety only, and no fairness is stated.

Every property is paired with a fault, an operator marked `\* Fault:` or
`\* Mutant:` next to the definition it stands in for, that a plausible mistake in that code would
be; with the fault put in, TLC finds the property violated.

**Findings.** `dropped_bucket` shows a difference between what `upload` is
documented to do, mark "what the server acknowledged" (`core/outbox.rs:227`),
and what it does: when a binding is disabled or reset between the fetch of the
configuration and the post, `ingestUsage` leaves its buckets out
(`usage-store.ts:404`), the receipt does not say so, and `acknowledge` marks
every bucket of the body published. The bucket is not sent again until its
totals change.

`push_between_reads`: `decide` stores the head of the earlier read with the
fingerprint of the later one (`pr-watch-core.mjs:195`); the next tick finds the
fingerprint unchanged and takes the push for a rebase. The edit is never
reviewed, against the first paragraph of `docs/pr-watch.md`. `PushesAreTaken`
shows that nothing else loses one.

`stop_before_launch`: a tick acts on the list it read at its start, so a watch
stopped meanwhile gets a session, though "nothing new starts"
(`pr-watch-store.ts:98`). The started report is refused, and the launch is
dropped from the state file once the watch has left the list.

`evidence_overlap`: the second arm of `CANONICAL_GUARD` keeps "the evidence
fresh" (`usage-canonical.ts:104`) by writing whenever the chosen row is the same
and the evidence differs. Of two overlapping ingests of one request, the later
statement has the same winner but a snapshot without the other's row, so it
writes older evidence over better, and nothing brings it back until the key is
touched again. `WinnersStand` shows that the first arm has no such gap.

`loosened_settings`: "a parser, settings, or resource configuration change
re-emits everything once" (`companion/README.md:96`), and what was stripped
before an upload comes back "from saved events" (`core/run.rs:2126`). A run
under buckets only strips the waiting requests and stores them so, but leaves
`emit_detail` before the fingerprint and moves no mark (`emission.rs:204`). When
the owner turns the detail back on, the old mark matches, and the requests stay
stripped until a row of theirs changes. With the mark moved in that run too the
property holds in the bounds of this run.

`git_failure`: agent-surface "never renders an incomplete scan as clean"
(`agent-surface/README.md:12`). `readBlobAtRef` takes every status of its first
git call but 0 for a missing path (`git.ts:175`), that of a git killed by a signal
or stopped by a damaged object too. A head that adds a directory is compared
without the file it stands in: "no-change", exit 0. Every later call of the same
file is checked; `ReviewedSidesAreCommits` shows that this lookup is the only gap.

Two more differences between text and code were met there, in which the model
follows the code and the properties except them by name. `entries.ts:39` and
`agent-surface/README.md:262` say that unknown keys are never dropped; those of a
hook are (`entries.ts:431`), so a change of one alone is "no-change". And a change
that turns a flag or widens the mode in a tracked `settings.local.json`, where
`settings.json` has the key too, is classified by the entry of `settings.json`
(`diff.ts:83`), and so passes as neutral, though the default categories name it
(`agent-surface/README.md:122-131`).

## 5. What is proved

`UsageDelivery_proofs`, for every value of the constants under two assumptions, `SetsAssumption` (records and buckets are
disjoint, redaction is idempotent, no revision that a configuration calls stale
is of a record it redacts, items and contents are finite sets) and
`BoundsAssumption` (caps and split budget are positive). TLC evaluates both in
every run.

| theorem | states | inductive invariant |
|---|---|---|
| `TypeCorrect` | `[]TypeOK` | itself |
| `MarksAreSettled` | `[]MarkedIsSettled` | `MarkInv`: with what a receipt says of its body (`ReceiptIsTrue`), since the mark is made from the receipt steps after the server spoke |
| `PostsAdmitted` | `[]PostsAreAdmitted` | itself with `TypeOK`; the bodies still to post only ever shrink or split (`PostingShrinks`) between rebuilds |
| `CoverageKept` | `[]CoverageIsKept` | `CoverageInv`: also, an answered body that carries coverage no longer owes its run, and one not yet accepted that carries coverage and entries can still be split, so that isolation never takes coverage with it |
| `RejectedNeverRetried` | `[]RejectedIsNeverRetried` | `DisjointInv`: no item is in two bodies of a run, else a rejection would leave one behind |
| `NothingIsLost` | `[]NothingFallsOut` | `OwingInv`: the bodies to post hold the rows as they are now, and an acknowledged body holds nothing that is still outgoing, so that its row may go |
| `Implements` | `Spec => ImplementsPublication` | `HeldInv`: everything queued, in flight or late was once a row; each action is mapped to one of `Observe`, `Store`, `Settle` or a stutter |

`UsageStore_proofs`, for every set of envelopes, bindings and slots, every
bound, and any bindings at the start, under `RecordsAssumption` (an envelope is
finite and names no record twice; times and ids are integers, keys numbers).

| theorem | states | inductive invariant |
|---|---|---|
| `WinnersProjected` | `[]WinnersStand` | `WinnersInv`: what an open transaction is about to write for a key is at least as good as its own rows (`Holds`) and as what stands, and no two open transactions wrote one key (the row lock), so that the later commit was compared with the earlier one |
| `RegistersProjected` | `[]RegistersStand` | `RegistersInv`, the same for both registers: a merge of registers is at least as late as each of its sources |
| `IdentitiesSpanned` | `[]IdentitiesSpan` | `SpansInv`: the span an open ingest has written covers what was committed and what it has still to insert, and no two open ingests hold one identity |
| `AcknowledgedStored` | `[]AcknowledgedIsStored` | `StoredInv`: each record an open ingest keeps is, from the statement that handles it on, in a ledger or in what the ingest has written; names an open ingest holds no other holds, and they only move forward |
| `RunsCounted` | `[]RunsCountRows` | `CountInv`: ledgers are finite and hold a revision once; the rows an open ingest inserted share no revision with a ledger nor with those of another open ingest, and what it is to count is their number |
| `RevisionsStoredOnce` | each ledger holds a revision at most once | `CountInv` |

That ranks never tie (start and id tell rows apart) and that a finite set of
rows has a latest one is the heart of the first three: `AboveTotal` takes the
least column in which two rows differ, and the latest row is the one with the
fewest above it, a least number again. `RunsCounted` needs that a sum over a set
does not depend on the order it is taken in: `SumIs`, from `Folds_proofs`.

The same module has the proofs about `Installs`, for every set of machines,
accounts, codes, identities and processes and every bound, under
`InstallsAssumption` (finitely many processes, identities are numbers) and any
bindings at the start that hold no identity twice.

| theorem | states | inductive invariant |
|---|---|---|
| `IdentityOnce` | `[]IdentityHeldOnce` | `IdentityInv`: one call at most holds an install row, and what it checked stands until it assigns, since only resets happen without the lock |
| `PairingBounded` | `[]PairingIsBounded` | `PairInv`: guesses made and those admitted but not yet compared are together within the count of their window |
| `VersionsCarry` | `[]VersionsCarrySettings` | `VersionInv`: no version was raised after settings newer than the present ones |
| `MappingsInOrder` | `[]MappingsAgree` | `MapInv`: locks are taken in ascending order, a revision is drawn under all of them, and a later holder of a lock draws later numbers |

`Folds_proofs` is about folds alone. The library's induction theorems take the
induction hypothesis as an operator, which no prover here can instantiate; so the
operation, the item, the picking order and what is to be kept are constant
operators of that module, and other modules instantiate it with theirs. The
argument is the smallest counterexample: of the finite sets on which a claim
fails, one with least cardinality, from which the picked element is taken away.

| lemma | says |
|---|---|
| `FoldUnfolds`, `FoldEmpty` | the fold over a set is the operation on the picked element and the fold over the rest; the recursive function in the definition exists (`TableExists`) |
| `FoldKeeps` | what the base has and each application keeps, the fold has |
| `FoldAny`, `FoldSame` | for an operation whose applications commute, any element may come last; equal items give equal folds |

`Collection_proofs`, for every corpus of legible lines, all settings and all
bounds, under `SettingsAssumption` (a setting for subagents is on or off).

| theorem | states | inductive invariant |
|---|---|---|
| `RunInvariant` | `[]RunInv` | itself: `ReaderInv` (checkpoints lie within their files, rows are formed as the reader forms them), `CountersInv` (stamps and mark are no newer than the generation), `PhaseInv` (what a run has in hand at each of its steps) and the property below |
| `MarksCover` | `[]MarksCoverTheirRecords` | `RunInv` |
| `CallsOnlyGain` | no step loses a tool call, changes the request it has, or withdraws that a subagent made it (`CallsKept`) | `RunInv` |

The step that carries `MarksCover` is a scan. What it changes it stamps with its
generation, which is newer than the mark; a row it leaves alone may still give
another record if rows joined to it changed, and those are stamped too. That the
rows a record is made of are all reached by `ChangedSince` is `ScanPasses`, and it
holds because a reader only adds to the tables of calls (`LineGrows` for each type
of line, `FileGrows` for any number of them, by `FoldKeeps`).

`PrWatch_proofs`, for every set of watches and pull requests, every cap and any
number of pushes, acts and faults, under `WatchAssumption` (watches are finitely
many numbers, caps are positive, and `None` is no number, watch, launch or
event).

| theorem | states | inductive invariant |
|---|---|---|
| `WatchTypes` | `[]TypeOK` | `TypeInv`: also what the plan of a step may hold, the shape of the rows as listed, and that sessions the agent list called finished have ended |
| `OneSession` | `[]OneSessionPerWatch` | `TrackInv`: a running row, a launch in the state file and a launch about to be written are each of the one session at work; from the list to its turn a row changes only by the owner; and no session is at work when one is launched, or when the row is said to have finished |
| `NoSessionIsLost` | `[]SessionsAreTracked` | `TrackInv` |
| `NoHeadTwice` | `[]HeadsReviewedOnce` | `HeadInv`: every session is for a head no later than its row's, or is the one whose start the site does not know, or of a watch no tick lists again; no head runs ahead of the pull request |

The three invariants are layered: each step lemma of `HeadInv` uses `TrackInv`
and `TypeInv`. `Sensible` states once what `decide` may come to for a row, and
`Delivered` what a report may do to the rows; the step lemmas use only those.

`ReadPath_proofs`, for every set of queries and sections and every bound, under
`PathAssumption` (no query is the missing one, finitely many later sections).

| theorem | states | inductive invariant |
|---|---|---|
| `Alone` | `[]AloneOnTheConnection` | `QueueInv`: what is open is the job at the head and nothing else, also through a time-out and its reset; every job awaits its result and only the head has begun to read |
| `OwnWrites` | `[]OwnWritesShown` | `AckInv` and `LoadsInv`: registry loads are ordered by their generation, the pending load is the one of the present generation, and a load of a generation reads every write acknowledged before it; so does what is cached |
| `PagesKeepPlace` | `PagesKeepTheirPlace` | `PathInv`: the above with `ShownInv` (answers on their way are no older than what is shown) and `WholeInv` (each section of the filter is there, on its way, or an error says it is not) |

The same module has the proofs about `UsageRead`, for every calendar, every
content of the tables and every query, under `ReadAssumption`. One step answers,
so the invariants are short (`Asked`: the tables and the query stay) and the work
is in sums and in the calendar.

| theorem | states | argument |
|---|---|---|
| `CardsHold` | `[]CardsAddUp` | every row of the range has one boundary that meets it (`MetIs`), and the days of a snapshot are at a boundary or left out (`SnapshotIsPlaced`); sums by key, then over the keys, are the sum (`TotalByKey`), and sums of sums may be swapped (`TotalSwap`) |
| `RowsSelect` | `[]RowsSelectThemselves` | a narrowed query selects the rows of its card row (`ProjectRow`, `AgentRow`, `RoleRows`); the filter value of a project row says the state of its requests and is never the one that stands for all unreported ones (`FilterSaysState`); under any such filter snapshots stay out (`NarrowedHeadline`) |
| `NeverDouble` | `[]SnapshotsNeverDouble`, when months begin on the hour (`MonthsOnTheHour`) | a bucket that is counted lies within the months looked up (`CountedIsCovered`): it ends by the first full hour after the range (`Ceiling`), and the month after the last begins on such an hour |

`MonthsOnTheHour` is needed: in a zone half an hour off, the bucket of the hour
in which a month ends reaches past the end of the month, and for its account the
month is then looked up as not covered.

`QuotaCollector_proofs`, for every set of accounts, every set of answers of
Claude and every limit of the queues, under `CollectorAssumption` (the words for
nobody and nothing are no accounts, rows have their fields, the limit is a
number), from any profile that is well formed, has nothing queued or read yet,
and, when it is bound, is pinned to the account of its binding (`SoundProfile`).

| theorem | states | inductive invariant |
|---|---|---|
| `ReadingsApart` | `[]ReadingsDoNotMix` | `MixInv`: queued bodies and the reading of the collection are of the pinned account, an install with records is bound and pinned to theirs for as long as it is the profile's, and two copies of a reading agree |
| `KeptQueued` | `[]KeptUntilAnswered` | `HoldInv`, `KeptInv`: what the storage holds of a queue the running collection holds too, or has an answer for; outside the upload of a route its two queues are the same |
| `OkDelivered` | `[]OkMeansDelivered` | `ToldInv`: at every step of a collection and at rest, the last reading is delivered, queued or told of by an error no older than it, noted in the collection or stored |

All rest on `BaseInv`: the shape of the state, the binding, and that the set-up
stands still while a collection runs. Each action is first shown to be one of
eight kinds of step (`StepIs`), which say what it does to the fields the
invariants read; the invariants are proved over those kinds.

`SurfaceCheck_proofs`, for every set of files, every set of literals taken for
credentials and any number of merges, under three assumptions. `CheckBounds`: the
bounds are numbers. `ThemesAssumption`: a theme is finite, its items have the
fields of their section, servers stand in `.mcp.json` alone (`entries.ts:260`),
and no variable or header of a server has one of the labels the model gives to its
target, arguments and rest, which in the code are other pointers.
`SecretAssumption`: what redaction writes is not itself taken for a credential.

| theorem | states | inductive invariant |
|---|---|---|
| `ReviewedSides` | `[]ReviewedSidesAreCommits` | `ReviewInv`: what a side has read so far is all of its commit but the lost files, or something is on record as unreadable; the base is the commit merged last |
| `MergesAreReviewed` | every merge admits the difference of what was found of its two commits by the rules and nothing else (`MergedAsReviewed`) | `ReviewInv` |
| `SurfaceTypes` | shape of branches, sides, verdict and exit code | `ShapeInv` |
| `AdmittedStepsHold` | `[]AdmittedStepsAddUp` | `ChainInv` (the property) with `TreesInv`: a place of a file holds one value, and an unusable file holds none |
| `NoChangeIsSame` | `[]NoChangeMeansSame` | `ReviewInv`, `TreesInv` and `BaseInv`: a base is what main names or the saved tree as it was saved, lost files left out |

One merge is `AdmittedIsAsStrict`, for what the check was shown of the two trees;
`LostTells` adds what the lost files may have said, so that only `overlooked`
grows. A key whose values differ is noticed
(`Noticed`), a delta that widens or that no rule decides is refused (`Refused`),
and so each kind of grant and limit stays: hooks by their place and raw text,
servers by target, arguments and sensitive variables, directories, modes, flags,
whole tools, denials (`HooksStay` to `WholeToolsStay`). Where only the redacted
text is compared, the credential entry says which literal it was (`SecretsStay`).

"No change" is counting in both directions. Entries are counted by file, key and
value (`Named`), items by what they mean (`Sense`). An item is loose when it is a
hook, or a rule or directory without a credential: its index and spelling do not
count, and its sense is its class (`SenseTells`). Every other item is the only one of its
sense. Equal counts of entries give equal credential entries (`TagCounts`), these
with the classes give the same items that are not loose (`FixedStay`) and the same
literals in hooks, dropped members included (`HookSecretsAre`), and what
is left of each class is then equally many loose ones (`ClassSplits`,
`NamesMean`); `MeaningIs` and `DeltasMean` tie both ends to the property and the
verdict.

The proofs found two things. The model kept only the literal in a credential
entry, too little for a permission rule; with that, two rules that swap what
stands around their literals gave "no-change", which the code does not say. And
a directory that is really named `<redacted>` has the key of every redacted one
(`entries.ts:372`), so that adding it next to such a one is told as a move:
`Grants` leaves that name out, and says so.

Only model-checked:

* liveness (`RunsEnd`, `EverythingIsDelivered`, `RunningEnds`,
  `RequestsAreAnswered`, `PushesAreTaken`), which needs fairness and ENABLED;
* `RowsAgreeWithFiles` and `LineageAgrees`: they compare what scans left with a
  reading of all lines at once, and hold of the lines the clients write (one id
  per message, ascending counts, one parent per agent), not of any legible ones.

## 6. What is not modelled

The parts of section 2 not built yet (allowance slots and their quarantine, the
address watches, and the companion's `decide_identity`), the parts listed as `not_modelled` in
`PROJECT.json` with their reasons (rendering, argument parsing, file formats,
generated contracts, insert-once stores), and everything in a module's "not in
this module" list.

## 7. Running

```
tlc -workers 2 -config Delivery.cfg UsageDeliveryMC.tla
tlc -workers 2 -config Board.cfg BoardMC.tla
tlapm UsageDelivery_proofs.tla
tlapm UsageStore_proofs.tla
tlapm Collection_proofs.tla
tlapm Folds_proofs.tla
tlapm PrWatch_proofs.tla
tlapm ReadPath_proofs.tla
tlapm QuotaCollector_proofs.tla
tlapm SurfaceCheck_proofs.tla
```
