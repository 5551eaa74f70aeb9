# A verification development of Symbiosis Brain

Symbiosis Brain keeps a vault of Markdown notes for coding agents. Python MCP
servers, one for each open session, write notes and keep an SQLite index of
them (rows, a graph of wikilinks, vectors). Session hooks, a Codex adapter and
an OpenCode plugin read the same index, and a shell script synchronises the
vault with git. What makes the program hard is that all of these are separate
processes on one directory and one database, without a transaction that spans
the two, and that any of them may be killed at any time.

This directory holds TLA+ modules translated from the code, configurations
under which TLC checks them on small instances, and theorems that TLAPS checks
for every value of the constants. `PROJECT.json` maps each definition to the
source lines it stands for. Paths below are relative to the repository; Python
modules are in `src/symbiosis_brain/`.

To run a check: `tlc -config MCNoteEdit.cfg MCNoteEdit.tla`; a proof:
`tlapm RefactorProofs.tla`.

## 1. Inventory

### Modelled

**Per-note write lock** (`write_lock.py`). State: one file per note, created
with `O_EXCL`; its age. Operations: poll and create, give up at the deadline,
unlink a file twice as old as the timeout, release. Hard: the test for
staleness and the unlink are two steps, and the unlink is by name; a holder may
die; a holder may overstay. Correct when two writers of a note are never inside
together and nobody polls for ever.

**Note tools** (`server.py`: brain_write, brain_append, brain_patch; `sections.py`,
`atomic_write.py`). State: the file, the row, the vector, and each call's text.
Interacts with the lock, `sync_one` and `index_note`. Hard: a read, a change and
four commits in a row, any of which may fail. Correct when no edit is written
over unread and when file, row and vector agree between calls.

**Vault sync and index** (`sync.py`, `storage.py`, `search.py`). State: tables
`notes` (with content hash), `relations`, `notes_vec`, the rebuild marker, the
reindex lock file. Operations: `sync_all` in three passes, `sync_one`,
`repair_index`, purge and rebuild. Hard: autocommit, so any two statements may
be cut apart; several processes sync at once; people edit, move and break files
meanwhile; an equal hash skips a file. Correct when a quiet sync mirrors the
vault, graph and vectors follow the rows, a rebuild is complete once marked, and
everything settles once people stop.

**Startup of server and hooks** (`__main__.py`, `server.py`). Who runs which of
the above, in which order: a server syncs and repairs, a hook only syncs.

**Rename and delete** (`refactor.py`). State: as above, for many notes. Find the
inbound links, rewrite each source under its own lock, then move or remove the
note in five commits. Hard: a long operation over several locks taken one after
the other, next to other writers of the same notes. Correct when no answered
edit is lost, the notes in passing stay indexed as they are, links still lead.

**OpenCode worker pool** (`opencode/src/worker-pool.ts`) and **worker**
(`adapters/opencode/worker.py`). State: per slot the child, its greeting, a
queue, the request in hand, counters, restart and kill timers; a disposal.
Hard: deadlines, aborts, late frames, late close events and a disposal, in any
order. Correct when each request is settled once and counted, children of a
slot never overlap, no recall goes to a cold worker, and the slot comes back.

**OpenCode coordinator** (`coordinator.ts`, `action-matcher.ts`). State: per session a
generation, capability revision, subject, location, blocks, pending jobs, a
prepared text. Hard: answers of workers, of the matcher and of the host arrive
after a newer message, after a change of place or of tools, or after the session
was dropped; the list of jobs is bounded. Correct when a prompt gets blocks of
its own subject only, nothing asked for is forgotten, and no prompt waits for
good.

**OpenCode save reminder** (`save-checkpoint.ts`, `server-hooks.ts`). State: per
session a count of activities, the writes under way, the milestone. Hard:
results come late, twice, out of order, and the coordinator may forget the
session and count anew. Correct when a reminder comes only for work no write covers.

**Codex hook supervisor** (`adapters/codex/supervisor.py`). Two threads, one
deadline, a worker process. Hard: starting a process cannot be cancelled.
Correct when a process that starts is used, terminated or ends by itself.

**Codex session state and recall** (`session_state.py`, `recall_dedup.py`,
`adapter.py`). State: a file of counters and one of hits shown, under a flock.
Hard: hooks are killed inside; others collect files by age without the lock.
Correct when no update is lost and each reminder comes once.

**Model migration** (`server.py: _init, _apply_targeted_index`, `search.py`). State:
the name of the model in the database, the width of the vector table, the
engine each server built. Hard: several servers start, one changes the model
while another has already built its engine. Correct when the vectors are of the model
the database names.

**Locks broken by age** (`onboard_lock.py`, `search.py: with_reindex_lock`). State: a
file, its age. Hard: judged and unlinked in two steps, by name. Correct when two
are at work together only for a known reason.

**Card rotation** (`rotation.py`). State: the card, its archive notes, what of them
is indexed. Hard: the card is read before its lock; each note and the card
are separate writes. Correct when a handoff is in its card or can be found.

**Git synchronisation** (`hooks/brain-sync.sh`). State: tree, commits, stash, remote,
lock directory, alarm. Hard: the owner edits, merges and rebases at any moment;
kills and network failures fall between any two commands. Correct when no edit
is dropped, and one that did not get out raises an alarm.

**Retrieval log** (`retrieval_log.py`). State: events and hits, the persisted and
the pending count of skipped ones. Hard: a busy database, rotation, a process
that ends with a count in memory. Correct when each skip is counted once.

**Conditional replacement** (`adapters/opencode/conditional_replace.py`) and
**OpenCode installer** (`opencode/install/*`). State: target, capture, intent, seal;
above it the receipt, the journal, the entries. Hard: editors write at any
moment, helper and commands may be killed, the next command settles what the
last one left. Correct when an exchange is one step for all who watch and a
transaction is done or undone.

**Claude Code setup** (`install_cli.py`, `install_lib.py`). State: `settings.json`,
`CLAUDE.md`, scripts, the server's registration, backups. Hard: four things
put back by four means. Correct when a setup is whole or put back.

**Shell hooks** (`hooks/brain-save-trigger.sh`, `sb-export.sh`, `brain-session-start.sh`,
`brain-save-marker.sh`). State: small files of one session. Hard: the status line
runs beside them, and SessionStart also follows a compaction. Correct when a
reminder is silent only for a reason.

**Shared roster** (`mcp_roster.py`), **action rules** (`action_rules.py`,
`brain-pre-action-trigger.sh`), **what was shown** (`recall_dedup.py`,
`pre_action_recall.py`). State: pairs of files that must fit each other, written
without a lock by hooks that overlap and die. Correct when an older answer does
not pass under a newer key, a rule keeps warning, nothing is shown twice or
withheld without a cause.

### Not modelled, or in part

* **Link resolution, lint, validation** (`resolver.py`, `lint.py`, ...): functions of
  one text or of the rows, without state; VaultSync and Refactor use the
  resolver as a fixed function of the texts. Out of reach of a useful check:
  what they compute depends on the characters of a link.
* **Parent watchdog** (`parent_watchdog.py`): ends a process; `Die`, `EndServer` and
  `Exit` in the modules are what the others see of it.
* **Codex bootstrap and sync launcher, migration scripts, `manual.py`**: one process
  edits files once, or starts `brain-sync.sh`, which GitSync covers.
* **OpenCode status view and user interface, `tools/`**: rendering and evaluation.
* `opencode/dist/server.ts` is generated.
* Inside modelled parts: ranking, gist extraction, embeddings, argument parsing,
  the text of a prompt, of a snapshot and of a report, scopes and rate limits of
  hooks, Windows access lists, the probe of the SQLite file, discovery of a legacy
  installation.

### How the components meet

    sessions --> servers --brain_write/append/patch--> NoteEdit --\
                    |                                              note lock --> file, row, edges, vector
                    |----- brain_rename/delete -------> Refactor --/                    ^
                    |----- brain_rotate_handoffs -----> Rotation --/                    |
                    |----- start, brain_sync ---------> VaultSync (sync, rebuild, repair)
                    |----- start with a model --------> ModelMigration, under the reindex lock (AgedLock)
                    |----- every search --------------> RetrievalLog
    Claude hooks ---|----- before each recall --------> VaultSync (sync only)
                    |----- HookRecall, ActionRules, RosterCache, SaveTrigger
                    |----- at the end of a session ---> GitSync --> remote
    Codex hooks ----> CodexSupervisor --> worker --> CodexSession
    OpenCode plugin -> SaveCheckpoint, Coordinator --> WorkerPool --frames--> worker.py --> recall
    commands --------> ClaudeSetup; Installer --> ConditionalCommit
    editor, git ----------- edits, moves, deletes ----> the files

The note lock joins NoteEdit, Refactor and Rotation; `sync_all` takes no note lock
and meets them in the tables only. The reindex lock keeps rebuilds and
migrations apart.

## 2. Plan

Done, in this order: NoteWriteLock, NoteEdit (extends it, implements AtomicNote);
VaultSync; WorkerPool; Refactor; then the parts around them, each a module of its
own: Coordinator, SaveCheckpoint, CodexSupervisor; Rotation, GitSync, AgedLock,
RetrievalLog, ConditionalCommit, Installer, ClaudeSetup; ModelMigration,
SaveTrigger, RosterCache, ActionRules, HookRecall, CodexSession.

Composition. NoteEdit contains the lock it runs under. The parts added later share
no variable with each other, so three modules (`MCAdapters`, `MCUpkeep`, `MCServerAndHooks`)
hold them side by side: `subject`, chosen at the start, says which one moves, so
the states of a run are the union and not the product of theirs.

Abstract specifications: `AtomicNote`, which NoteEdit refines. `ConditionalCommit`
carries its own: `truth` is the file for one who sees a commit as one step.

Next would come Coordinator over WorkerPool instead of over an arbitrary worker, and Rotation
over the note lock with NoteEdit's tools as the other writers.

## 3. The modules

### NoteWriteLock

| TLA+ | code (`write_lock.py`) |
|---|---|
| `lock`, `age` | the lock file and now minus its mtime |
| `pc`, `waited`, `held` | where a caller is; time since the call and since it got in |
| `Create`, `CreateFails` | `os.open(O_CREAT \| O_EXCL)`, `FileExistsError` |
| `GiveUp`, `BeforeDeadline` | the deadline test, before the test for staleness |
| `Stat`, `Reclaim`, `Wake` | the age, the unlink, the sleep and the next round |
| `Release`, `Crash` | the unlink in `finally`; a process that ends inside |

Time passes in `Tick`s as differences, each capped where the code compares it no
further, so no bound on a clock is needed. `HoldLimit` is the longest a live
writer stays in the block. `misfired` is history: a waiter removed the lock of a
live holder.

### NoteEdit and AtomicNote

NoteEdit extends the lock with what a tool does inside: `Read`, `WriteFile`
(the atomic rename), `SyncRead`, `Upsert`, `Unlink` and `Link` (`sync_one`: the read,
the row, the old relations out, the new ones in), `Index` (`index_note`), `Leave`; `Refuse`
is the early return of a patch whose section is missing, `Fail` an exception at any
step, `Die` the end of the process. A text is who last wrote the note whole and which
calls have added to it; `row`, `edges` and `vec` are the texts they were made from. `cut` is
history: which of the three the last call that wrote the file did not come to.
AtomicNote is one variable and one action: the tool takes effect at once.

### VaultSync

| TLA+ | code |
|---|---|
| `disk`; `rows`, `edges`, `vec`, `marker` | the vault; `notes`, `relations`, `notes_vec`, the marker in `schema_version` |
| `relock`, `TakeLock`, `GiveUpLock` | `_reindex_lock`, which proceeds unguarded after its wait |
| `StartSync`, `Recheck`, `Purge` | `needs_full_reindex`, before and inside the lock |
| `Walk`, `Snapshot`, `Pair`, `MoveRow`, `DropMovedEdges` | the walk, the rows, and Pass 0: moves by equal hash |
| `Skip`, `Ingest`, `Reject`, `Upsert`, `SweepEdges`, `DeleteRow` | Pass 1 and the removal loop |
| `Unlink`, `AddEdge`, `Mark`, `Unlock` | Pass 2 and the end of a rebuild |
| `DropVector`, `MoveVector`, `ReadRow`, `StoreVector` | the vectors after a server's sync |
| `NoDelta`, `ListDrift` | `repair_index` |
| `Write`, `WriteFile`, `Resync`, `Reresolve`, `IndexWritten` | brain_write as the sync sees it |
| `Edit`, `Rename` | people and git |
| `Die`, `Abort` | the end of a process; an exception |

A text is a model value with the notes it links to; equal texts have equal
hashes. `alone` is history: nothing overlapped this run. `InitWith` is the vault at the
start, with an index that mirrors it or with a rebuild due.

### Refactor

| TLA+ | code (`refactor.py`) |
|---|---|
| `Rename`, `Delete`, `FindInbound` | the checks at the top and `find_inbound_refs` |
| `PickSource`, `TakeLock`, `Read`, `Write`, `Sync`, `Index` | the loop over the sources, each under its lock |
| `MoveFile`, `MoveRow`, `DropMovedEdges`, `MoveVector`, `Resync` | the rename of the note itself |
| `Unlink`, `DeleteRow`, `DropEdges`, `DropVector` | the delete |
| `Append` and the same `Read` to `Index` | brain_append (`server.py`) |
| `CutShort` | an exception, a `TimeoutError`, or the end of the process |

A text is the edits it carries and its links, by path or by basename. `answered`,
`gone`, `named` and `overlapped` are history.

### WorkerPool

One callback of the plugin is one step, with the promise reactions it causes;
`Settle`, `Drop`, `Restart`, `Lose` and `Schedule` are the private functions that
the callbacks call, written as functions from state to state so that a callback
composes them in the code's order. `Ask`, `Timeout`, `Abort` are the caller's
side; `Hello`, `Answer`, `Ignore`, `Misread` the frames; `Start`, `StartFails`,
`KillTimer`, `HandshakeTimeout`, `StreamError`, `WriteFails`, `Close` the child's
life as the pool sees it; `SayHello`, `Serve`, `Babble`, `Exit` the child itself;
`Dispose`, `DisposeKills`, `DisposeStopsWaiting` the disposal.

### Coordinator and SaveCheckpoint

| TLA+ | code (`coordinator.ts`, `action-matcher.ts`) |
|---|---|
| `session`, `live` | the state object of one id and whether it is still in `sessions` |
| `prep` | calls of `prepareSession` under way: deadline, jobs waited for |
| `Begin`, `Drop`, `Evict`, `Dispose` | `beginGeneration`, `dropSession`, the bound on sessions, `dispose` |
| `ObserveAction`, `SetCapabilities`, `RefreshBootstrap` | the observation, the tools, the bootstrap |
| `SettleJob`, `BootAnswer`, `CapsAnswer`, `GrepClose` | answers of workers and host; the close of a grep child |
| `PrepareStart`, `PrepareStep`, `PrepareDeadline` | the loop of `prepareSession` and its timer |

Generations are never compared but for equality with the present one, so a job
carries an `Era` (now, earlier in the subject, another subject, elsewhere) instead of a
number. New tools come with a new revision or under the present one (`ApplyCaps`,
`NextRevision`); a question for them is the latest, overtaken, or behind what has been
applied since (`asking`, `AskedSince`), and `back` is history: an older answer replaced a
newer one. SaveCheckpoint has a step for each callback of `server-hooks.ts` that
reaches `save-checkpoint.ts`: `Prompt`, `Activity`, `BrainStart`, `BrainResult`, `Todo`,
`Remind`, `Forget`, `ForgetCheckpoint`; and `Move`, the coordinator's next generation of a
session that is elsewhere now, of which the checkpoint does not hear.

### CodexSupervisor and CodexSession

`main` and `launcher` are the program counters of the two threads, `offer` the queue
of one, `cancelled` and `claimed` the events. `Main` and `Launcher` are the statements between
two points where the other thread can be seen; `Late` is the clock, `HostKills` the host.

| TLA+ | code (`session_state.py`, `adapter.py`) |
|---|---|
| `state`, `seen` | the session's file of counters, its file of hits shown |
| `Call`, `Enter`, `Update`, `End`, `GiveUp` | a hook: wait for the flock, read (a file that cannot be read is a fresh one, `MayBeBlind`), replace, leave; the flock's timeout, a failed write and a kill |
| `Remind`, `PassCheckpoint`, `PassStop` | the decisions of the Stop hook |
| `Recall`, `Failed` | the hits chosen, recorded if the write succeeds, and shown in any case; what a failing file costs |
| `SweepFinds`, `SweepUnlinks`, `Reap`, `StateAges`, `HitExpires` | the two collectors, time |

### Rotation, GitSync, AgedLock, RetrievalLog

`Rotate`, `ReadCard`, `CheckNote`, `WriteNote`, `CutCard`, `IndexFile`, `Report` follow
`rotation.py` from the plan to the answer; `Handoff` is any other writer of the
card. A section is its date, the slugs its heading suggests and its text. Where a card's
notes go (`Filing`) is its scope's, so `ArchivePath` is shared by the cards of a scope;
`FoundCards` are the cards a call finds for the scope it was given, or all of them. `met` is
history: cards two rotations held at once.

GitSync's `Arrive` to `Finish` are the commands of `brain-sync.sh` in order. An edit is a
value; `work`, `auto`, `head`, `stash`, `remote` say where it is. `Pull` is one step for
each outcome git documents: done, stopped at a conflict, stopped after the autostash
failed, failed. The owner's own half-finished work is a rebase, a merge with unmerged
paths, or one that is only to be committed (`OwnerStarts`, `OwnerAdds`, `OwnerEnds`); the guard
sees the first two.

AgedLock holds both lock files (`which`): `Look`, `Want`, `Judge`, `JudgeAgain` (the
reindex lock only), `Break`, `Create`, `Release`, `EndUnguarded`, `GrowOld`.

RetrievalLog: `Record` begins an event, `Begin` and `Commit` are the transaction with its retry,
`Disable`, `Close`, `Flush`, `Exit` the ends; `RotateLog` deletes by age.

### ConditionalCommit, Installer, ClaudeSetup

ConditionalCommit: a step for each file-system call of a commit (`Open`,
`CreateJournal`, `WriteIntent`, `Capture`, `Publish`, `CreateMarker`, `Seal`) and of the settling of an
intent (`ReadBoth`, `Resolve`, `DropCapture`, `DropMarker`, `DropJournal`); `EditorWrites` and
`EditorDeletes` between any two. Installer takes such an exchange as one step
(`Swap`) and models what is above it: `Plan`, `LockInstall`, `SettleJournal`, `Mark`, `Swap`,
`WriteReceipt`, `CommitJournal`, the reversal (`ReverseNext` to `Forget`), removal and `Doctor`.
ClaudeSetup: `MergeReads`, `MergeWrites`, `AppendBlock`, `CopyScript`, `ListServers`,
`RemoveServer`, `AddServer`, then `Rollback` when one raised; `RestoreFiles`,
`DeleteScripts`, `Unregister` for uninstall. `MergeWrites` sets hooks and interpreter and
leaves the paths under `env` that are there already.

### ModelMigration

| TLA+ | code (`server.py`, `search.py`) |
|---|---|
| `tag`, `width`, `vecs` | `schema_version.embedding_model`, the width of `notes_vec`, its rows |
| `StartServer`, `Decide`, `TakeRebuild` | the engine built with the name in the database; the request |
| `Boot`, `BootIndexes`, `BootRegisters` | the first registration |
| `Change`, `Recreate`, `NameModel`, `ReembedAll` | the migration |
| `DropVectors`, `EndDiff`, `ListRepairs`, `EndRepair`, `IndexOne` | `_apply_targeted_index`, `repair_index` |
| `Query`, `EndServer`, `BreakRebuild` | a search, the end, an orphan broken |

A vector is the model that made it and how its writer stood to the lock.

### SaveTrigger, RosterCache, ActionRules, HookRecall

SaveTrigger: one step for each write of a file of the session, levels instead of
percentages; `AskPrompt` counts the rules as shown also on a turn when a route took the
place of their tools part, and `instead` remembers how often. RosterCache: `ReadKey`, `CompareKey`, `Adopt` against `Poll`, `PublishOwn`,
`PublishShared`, `BreakPublish`. ActionRules: `StartCompile`, `KeepTable`, `WriteTable`,
`WriteFast` against `CheckFast`, `FindRow`. HookRecall: a run goes through the stores
its kind names (`LoadSeen`, `PassStore`, `RecordSeen`) and prints at its end (`Speak`).

## 4. The runs

A run marked *refuted* states what a comment or document of the repository says
and ends in a counterexample (section 7).

| Run | Instance | Shows |
|---|---|---|
| `edit` | 2 writers, all three tools, timeout 2, hold at most 3, 1 failure | the tools implement AtomicNote; between calls row, links and vector are the file's, but for what the last call that wrote it did not come to |
| `edit_crash` | 2 writers, timeout 1, hold at most 2 (the stale age), 1 death | an overlap or a lost edit needs a lock removed under a live writer; every wait ends |
| `lock_overlap` | 3 writers, 1 death | *refuted*: mutual exclusion |
| `sync` | 1 server, 3 notes, 3 texts (one with two links, a stub, one that cannot be parsed), 2 edits, 1 write | a quiet sync mirrors the vault; graph and vectors follow the rows through moves, removals, broken files |
| `sync_mixed` | server and hook, 2 notes, 3 texts (one with a link, a stub, one that cannot be parsed), any vault with its index, or 2 notes with a rebuild due, 1 edit, 1 fault | once marked the graph is whole, whoever died; a quiet repair leaves no drift; after the last edit, of whichever kind, all settles |
| `sync_cut` | 1 server, 1 edit, 1 death | *refuted*: the graph settles; in the trace a link that was edited away stays |
| `pool` | 3 requests, limit 2, 5 children, 1 fault, both roles | settled once and counted; one child; warm before recall; recovery |
| `adapters` | Coordinator: 1 prepare, 2 pending jobs, 2 blocks; SaveCheckpoint: 2 calls, 3 activities, 2 turns; CodexSupervisor: both platforms | a prompt gets its own blocks, all of them unless its time ran out, and never waits for good; reminders are due; no worker is left or killed in use |
| `upkeep` | Rotation: 1 card, 3 sections, or 2 cards of one scope, 2 sections each, 2 rotations; GitSync: 2 windows, 2 edits here, 1 elsewhere; AgedLock: 3 processes; RetrievalLog: 2 writers, 3 searches; ConditionalCommit: 3 texts; Installer: 2 targets, 2 versions, 3 transactions; ClaudeSetup: 2 packages, 2 vaults, 2 setups, 1 edit | no handoff, edit, event count or foreign text is lost without the cause the property names; transactions are whole or undone |
| `server_and_hooks` | Refactor: 3 paths, 2 taken, 2 servers, 2 calls, 1 cut; ModelMigration: 2 servers, 3 models, 1 note; SaveTrigger: 3 thresholds, 1 compaction, 1 route in place of the rules (`MaxInstead`); RosterCache: 2 sessions, 2 polls; ActionRules: 2 rules, 2 compilers; HookRecall: 2 hooks, 3 runs; CodexSession: 2 hooks, 4 turns | no answered append is lost, bystanders stay indexed, links lead; no mixed index; reminders, rules and recalls come once and when due |
| `model_late` | 2 servers, 1 note | *refuted*: vectors of another model are never written under the lock |
| `refactor_short` | 1 rename, a link by basename | *refuted*: all links lead |

`edit` has about 1.6M states, `sync` 900k, `sync_mixed` 1.4M, `pool` 740k, `adapters`
530k, `upkeep` 3.1M, `server_and_hooks` 1.2M;
the longest takes two to three minutes.

**Why the bounds are enough to meet the cases.** *Lock:* two writers meet in every
step, a third is only needed for the overlap after a death, where two waiters judge
one orphan. `HoldLimit` 3 lies between the timeout and the stale age of 4, so that
waiters time out on a live holder; `HoldLimit` 2 equals the stale age of 2 in
`edit_crash`, so that a live holder can be reclaimed. *Sync:* three notes and two
edits make every kind of move: one to one, ambiguous on either side, of a stub, and
onto a path that brain_write gives a row meanwhile; with two processes the question
is who comes when, and a source and a target suffice: the one edit changes a text, takes
it to a stub or breaks it, mends it, moves it, makes a note or removes one, while a run dies, fails
or waits too long (`MixedSpec`). *Pool:* a limit of 2 with 3 requests reaches the
full queue; five children allow a restart after each fault, deadline and failed
start. *Coordinator:* two pending jobs with a matcher and a route fill the list, so a
job is pushed out; a second prepare adds only the busy matcher, which `grep`
gives the first as well. *Supervisor:* nothing is bounded. *Rotation:* two sections of
one date whose headings suggest one slug, and one of a date without a slug; two rotations
and a handoff at any moment; and two cards of one scope, each with a section of either date, so
that their notes want one name. *Git:* two edits here, of which one conflicts with the one made
elsewhere; two windows meet at the lock. *AgedLock:* two waiters at one orphan and a
third who made the file in between. *Installer:* a long life with one
command at a time; two at once for one transaction less; or setups of one version, of another
and of the first again, two at once and without edits, which meets a plan made from another
setup's half-written targets (`InstallBounded`).
*Refactor:* a rename goes to a free path, is met there by another's, and rewrites a note
that is itself being renamed; losing an edit takes one edit and one writer over it.
*Migration:* two models of one width and one of another, and each server may
start twice. *Hooks:* two at once and a third
after them; a cap of one hit per store so that something is held back.

Symmetry is used only where the members are interchangeable and in runs whose
properties are safety properties: writers in `edit` and `lock_overlap`, servers,
sessions, compilers and hooks in `server_and_hooks` and `refactor_short`.

`CHECK_DEADLOCK FALSE` is set where the bounded calls run out or a part comes to
rest when all is answered: the pool, the refactorings, the migration and the
three modules that hold parts side by side.

**Fairness.** `NoteEdit!FairSpec`: the operating system schedules a live writer,
its `with` block ends, and time passes. Nobody has to call a tool and nobody has to
die. `VaultSync!FairSpec`: whoever has started goes on, and a sync starts again and
again, as a hook runs before each recall and a server at each start.
`WorkerPool!FairSpec`: timers fire, events and frames are delivered, a healthy
worker answers and `SIGKILL` kills. It is weak fairness of the disjunction: each
step uses up a request, a fault, a child or a frame, so no step can be put off for
ever by the others. `CoordinatorFairness`: a timer fires and a continuation runs,
however busy the event loop is (strong, for other callbacks may come in between and move what
a continuation waits for); what was aborted settles; no worker has to answer.
CodexSupervisor: the deadline passes, the main thread runs, and a worker that reads its input
ends; nothing is assumed of the launcher thread. Abort, dispose, kills and faults are free everywhere.

## 5. What is proved

All proofs are for any finite or infinite sets and any values of the bounds that
the named assumptions of the modules allow. The assumptions are of three kinds:
types (`LockConstants`, `EditConstants`, `PoolConstants`, `VaultConstants`,
`RefactorConstants`, `SessionAssumption`, `OwnAreRules`, `PlansAreSequences`,
`SaveAssumption`, `ThresholdsAreLevels`, `LevelsAreNumbers`, `CoordinatorAssumption`,
`SetupAssumption`); that a mark such as "none" is not one of the things it stands
apart from (`NamesApart`, `NobodyIsNone`, `NoStateIsApart`, `NotThereIsApart`,
`CommitAssumption`, parts of `DefaultIsKnown` and `RefactorConstants`); and two facts of
the shipped program: the default model is a known one (`DefaultIsKnown`), and the guard
of the save reminder lies below its first threshold (`GuardBelowSoft`).

| Theorem | Statement |
|---|---|
| `LockTypeCorrect` | `LockSpec => []LockTypeOK` |
| `OverlapOnlyByMisfire` | `LockSpec => []OverlapNeedsMisfire` |
| `OrderlyExclusion` | if `Orderly`, `LockSpec => []MutualExclusion` |
| `TypeCorrect` | `Spec => []TypeOK` of NoteEdit |
| `EditsAreAtomic` | `Spec => LinearizableUntilMisfire` |
| `ToolsImplementAtomicNote` | if `Orderly`, `Spec => Linearizable`: the refinement of AtomicNote |
| `IndexAgreesAlways` | `Spec => []IndexAgrees` |
| `SyncMirrors` | `Spec => []QuietSyncMirrors` of VaultSync |
| `RebuildIsWhole` | `Spec => []MarkedIsRebuilt` |
| `RepairsLeaveNoDrift` | `Spec => RepairLeavesNoDrift`, an action property |
| `IndexAlwaysFollows` | if `Procs = {s}`, `s \in Servers` and `MaxFaults = 0`, `Spec => []IndexFollowsRows` |
| `SlotOwnsOneChild` | `Spec => []OneChild` of WorkerPool |
| `InHandIsAccounted`, `RecallsAreWarm` | `Spec => []Accounted`, `Spec => []WarmBeforeRecall` |
| `NoAppendIsLost` | `Spec => []NothingLost` of Refactor |
| `BystandersAlwaysAgree` | `Spec => []BystandersAgree` |
| `QuietAlwaysMirrors` | `Spec => []QuietMirrors` |
| `PathLinksAlwaysLead` | if `VaultsLead`, `Spec => []PathLinksLead` |
| `OneAtWorkAlways` | `AgedSpec => []OneAtWork` |
| `TagIsHonestAlways` | `MigrationSpec => []TagIsHonest` |
| `NothingIsLostInSilence` | `GitSpec => []NothingLostInSilence` |
| `OwnersWorkIsLeft` | `GitSpec => OwnersWorkStands`, an action property |
| `SkipsAreCounted` | `LogSpec => []SkipsAreCountedOnce` |
| `RotationKeepsHandoffs` | `RotationSpec => []RotationKeeps` |
| `ExchangesAreExact` | `CommitSpec => []ExchangeIsExact` |
| `SetupsAreWhole` | `SetupSpec => []DoneOrUndone` |
| `InstallsAreWhole` | `InstallerSpec => []AllOrNothing` |
| `PromptsAreCurrent` | `CoordinatorSpec => []PromptIsCurrent` |
| `PreparesAreComplete` | `CoordinatorSpec => PreparedIsComplete`, an action property |
| `WorkerIsOwnedAlways` | `SupervisorSpec => []WorkerIsOwned` |
| `UpdatesAreNotLost` | `SessionSpec => NoUpdateLost`, an action property |
| `RemindersAreDueAlways` | `SessionSpec => ReminderIsDue`, an action property |
| `ShownIsRecordedAlways` | `SessionSpec => []ShownIsRecorded` |
| `RulesKeepWarning` | `RulesSpec => []RulesStand` |
| `AdoptedRosterBelongs` | `RosterSpec => []RosterBelongs` |
| `RecallShowsOnce` | `RecallSpec => []RecallIsOnce` |
| `SaveRemindersAreDue` | `SaveSpec => RemindersAreDue`, an action property |
| `SessionsAreReminded` | `TriggerSpec => SessionIsReminded`, an action property |

| Proof module | Of |
|---|---|
| `NoteEditProofs` | NoteWriteLock, NoteEdit, AtomicNote |
| `VaultSyncProofs` | VaultSync |
| `RefactorProofs` | Refactor |
| `WorkerPoolProofs` | WorkerPool |
| `UpkeepProofs` | AgedLock, ModelMigration, GitSync, RetrievalLog, Rotation |
| `InstallProofs` | ConditionalCommit, ClaudeSetup, Installer |
| `AdapterProofs` | Coordinator, CodexSupervisor, CodexSession |
| `HookProofs` | ActionRules, RosterCache, HookRecall, SaveCheckpoint, SaveTrigger |

A specification named after its part (`AgedSpec`, `GitSpec`, ...) is that of one module
by itself; its actions are the ones the composed runs take for that subject.

`Orderly` is `MaxCrashes = 0 /\ HoldLimit < StaleAge`: no writer dies and none stays
inside as long as the stale age. `VaultsLead`: the vault begins without a broken link by
path. A vault with one keeps it, whatever the tools do.

*The lock.* Mutual exclusion is not inductive: it says nothing of the lock file.
`InsideOwns` adds it: until a misfire, whoever is inside made the file that is
there. Every step that could break it either creates a file where there was none
or removes the file of somebody inside, which sets `misfired`. For orderly runs
`FilesAreYoung` shows that there is no misfire: a file is no older than its
holder has been inside, so no waiter ever finds a stale one, and none is ever
about to unlink.

*The edits.* `FreshText`: until a misfire, a writer between its read and its write
holds a text made from the file as it still is, since only the one inside writes.
So each write is one step of AtomicNote. `IndexFollows` says at each step inside the block
which of row, links and vector are the file's already, and outside it (`Agreed`) that the
others are the ones in `cut`; deaths and failures only cut a call off at one of these steps. NoteEdit's steps are lock steps
(`StepIsLockStep`), so the lock's theorems carry over.

*The sync.* `QuietInv` follows a run of `sync_all` that nothing overlaps through its
passes. The key is that the snapshot of hashes is the table, moves included, until Pass 1
reaches a note, for moves change both: so a note is passed over only when its row has
the text of its file, and a row without a file is in what the removal loop sweeps. Nothing is
asked of what earlier runs left, crashed or overlapping, but `Vouches`: a row's hash is
that of its body or none, and no body failed to parse. `Pairs` is a one-to-one relation
(`PairsAreApart`), or two moves could use one row. `RebuildInv` needs the vault at rest and
nobody to have gone on without the lock (`Calm`): before the marker only the process that
has the lock is past it, and `Rebuilding` says for each label what it has done; after the
marker rows, edges and files agree and no run finds anything to do. That a killed rebuild
starts again is in it, since a process that dies leaves no marker. `DriftInv`
says of a lone repair that what it has listed and not yet done covers what is left of the drift.
`RestInv` is for one server that is never cut short: overlapping syncs and crashes do leave
other edges (section 7). `LinksLate` and `Unindexed` say for each label which notes may have
edges and vectors that are not their rows', and the rest of it that the run still holds each of
them: a body it stored waits in `queue` until its links are made, a moved note is ingested again
although its hash has not changed (or it would keep the edges Pass 0 dropped), and what has
another vector is in `touched`, `removed` or `moved` until the vectors are done.

*The pool.* `Ownership` adds to `OneChild` that the slot's record and the life of
the children keep their domains. Each private function is shown once to keep it (`RestartKeeps`,
`LoseKeeps`, `ScheduleKeeps`), each callback composes these. `PoolInv` does the same for
the requests: `Counted` (busy, queue and the count outside are the pending ones, each
once), `Orderly` (no work before the hello, none during a restart) and `Warmed`, which needs
`WarmIsTold`: whatever frame says that a warm-up went well was sent by a warm child.

*The refactorings.* `IInv` is `Typed`, `Aimed` (a job names the notes its step
needs), `Guarded` (whoever is past a lock still holds it), `Fresh` (a text that is
about to be written carries every edit its file has) and that every edit written
is kept in a file or in `gone`. `Fresh` needs `Guarded`: only the holder of a
note's lock changes its file, and a rename or delete takes the target's lock too.
`Rewrite` keeps the edits of a text (`RewriteKeeps`), and a rename carries the text along.
`ByInv` says of each note no rename or delete is about how far the holder of its lock is
with it. `AloneInv` and `LinkInv` say it of the whole vault while one call follows the
other: for each label, what the one call has left to do to row, vector and links, and
that the links to the note of the call are in the sources it has still to rewrite.

*The lock broken by age.* `HoldersOwn` is the counterpart of `InsideOwns`: unless
somebody misfired, outlived the age or gave up waiting, whoever is at work made the
file that is there, and it is fresh. All three are needed: each is a step
after which the file no longer says who is at work.

*The migration.* `HeldIsNamed` is the property; it is kept because no vector written under
the lock is left when the name changes (`NothingHeldBeforeTheName`) and because
the lock excludes as long as nobody gives up (`LockGuards`). A server that starts without a
name builds the default engine, which the first registration names (`NamelessIsDefault`,
`BootIsFirst`).

*Git.* `Kept` says where an edit can be. What makes it inductive is who left a half-finished merge or
rebase: a sync of its own at work (`LeftIsAtHand`), or the owner, and then, if it is something
the guard sees, after the guard (`OwnerIsLate`). A merge it does not see can be changed by
one command only, the commit, which takes the whole tree. `CameIsAccounted`: what a sync found is in its commit, then in
the remote, or counted as missed.

*The retrieval log.* The sets `persisted`, `held` and `forgotten` are history: the
numbers the code keeps are the cardinalities of the first two (`CountsAreExact`), and the sets are
disjoint and apart from what is stored (`EventsApart`, `CountsApart`), so adding one to the other
counts nothing twice.

*The exchange of a file.* The files of a transaction come and go in one order
(`FilesInOrder`), so seal, capture and target together tell how far it was when the helper
died, and recovery goes the right way (`Progress`). `NobodyIsForgotten`: a text that is
dropped is one the name no longer stands for. What the helper answers depends on nobody
having written meanwhile, the rest does not.

*The setup.* For each step, what settings, memory, scripts and registration are to what was
found (`FilesFollow`, `ScriptsFollow`, `ServerFollows`), and that rollback still knows what is
new (`NewIsKnown`).

*The installer.* While a journal waits, what a target should be is what it was when the
transaction began (`Origin`). Each target of an unsettled transaction is still that or is
what its operation writes (`TargetsAreWhole`), so settling it either way ends whole. A
transaction has a number of its own (`NumbersAreNew`), or a journal could be taken for the one
the receipt certifies (`ReceiptIsKept`); a reversal is planned from that receipt
(`ReversalFits`), and the writing under way is the journal's (`WritingFits`).

*Rotation.* Two facts about texts come first: no two sections of a card get one archive path
(`PathsDiffer`, from `SlugsDiffer`), and what stays of a text has nothing more to archive
(`StaysStay`). Both are about functions defined by recursion along the sections; that such
a function exists and what it returns is shown by looking at the least place where it would fail
(`ChosenStepwise`, `SlugsStepwise`). Then `OneText`: as long as no handoff came in between, all
calls on a card hold one text, for a second one that reads it after the cut finds nothing to do.
So one path means one section for all of them, and as long as no two rotations are on two
cards that share names (`MayBeOverwritten`) a note is never written over with another
(`WritesFit`, `EntriesLead`), and what the cut takes out has its note. `SinceRead`: what the
card has and the text does not is a handoff of the race.

*The coordinator.* `Sound`: a session holds no block or text of another subject, place or
revision of the tools, and tracks no job of another generation; an overtaken question for
tools is never taken for the latest. Each helper keeps it, whatever answers
come and in whatever order. A tool call that is to be matched is `Attended` by a job, or
`Owed` to a prepare that will ask.

*The supervisor.* `GivenUpIsOver`: whoever gave up does not wait any more, and only then does
the launcher take a worker back. `OfferIsLaunched` says what the queue of one can hold at each
pair of places of the two threads, `FedIsHeard` that a worker which was fed has ended
when the supervisor answers.

*The Codex session.* The two properties of steps follow from what a hook inside
the flock knows. `CopyIsCurrent`: its copy is the file, or the file was new, or a
collector unlinked it. `Tells`: the zone of the last reminder and "a save since
the last checkpoint", which are history, can be read off the counters, so the test
in `_stop` decides what the property asks. A hook that could not read the file has a fresh
copy, at no checkpoint, and begins the history anew with the counters.

*The action rules.* A rule is `Held` when it has stood in both files, is still wanted
and was missed by no compile. `HeldStand`: held rules stand in both files now, and no
compile is blind (without grep, having found no table), the one kind that would
overwrite a table with less. Every compile under way with grep carries all rules that are
wanted and not excused.

*The roster.* `Fits` is the property of one pair of answer and key. The invariant
says it of the two files, of the roster and each key a session is checking, and of each
adopted pair; `Newest` says that a publisher whose poll nobody overlapped has the
newest poll, so what it writes fits whatever is there.

*Recall.* `RecallInv`: what is on the screen or about to be is recorded, or its record was
taken; what two hooks are about to show, or one shows again, had its record taken.
`RecordingKeeps` is the step that matters: a hook writes the store back from what it had
loaded, and a pick that another recorded in between is taken by that very write.

*The save reminders.* OpenCode: a confirmed write of another generation lies before the
milestone (`WritesInOrder`, `SavesInOrder`), unless the generation came without an activity
(`moved`), and a checkpoint that is behind the coordinator is a new one or one of a session that
moved. Claude Code: what is on its way to the Stop hook has been reached
(`LevelsReached`), and the thresholds told of are closed downwards, so one zone told
covers those below it.

**Only model-checked.** Liveness (`WaitEnds`, `Settles`, `Recovers`, `PrepareReturns`,
`WorkersEnd`) and the refutations, for the prover does neither fairness nor `ENABLED`.
Every invariant and every safety property of steps that a passing run checks is also
proved. No module uses a RECURSIVE operator.

## 6. What is abstracted

* **Note lock in VaultSync and Refactor.** Taken to exclude. NoteWriteLock says
  when it does, and what it takes for it not to.
* **VaultSync.** Resolving a link and inserting its edge is one step, the two
  selects of `repair_index` are one, and Pass 0 reads all new files at once.
  Relation ids and the uniqueness of (from, to, type) are left out, so an edge is
  its source, target and broken flag. Both tasks of a server, its start and its
  tools, run in turn. Age is not modelled: an orphaned reindex lock is broken, a live one
  never (AgedLock says what that takes).
* **NoteEdit.** The note exists; creation is the lock and one write. The grammar of
  sections is reduced to "adds to" and "replaces". What a failure leaves behind is named in
  `cut` and not repaired until the note is written again or a sync comes (VaultSync).
* **Refactor.** An edge is kept by its source, its link and its target, where
  `storage.py:462` has one row for a source, target and type: two links of a note to one
  target are two edges here. `sync_one` is one step and so are the index and the release after it;
  sources come in any order. A file at the new path is replaced (POSIX) or the move
  is refused (Windows), by choice. brain_write is not called there: it replaces a
  text by design.
* **WorkerPool.** One slot; the two share the disposal only. A timer may fire at any
  time once set, so backoff delays have no values. Repeated request ids and the
  worker's memory of 4096 of them are left out, since the pool never repeats one.
* **Coordinator.** One session; another appears only through the bound on sessions. The
  contents of route descriptors are left out, one action is observed, identical recalls
  count as one, and several observations that supersede each other are one. The map of
  session locations in `server.ts` is not modelled. `PromptIsCurrent` asks for the revision a
  block was asked under, not for the tools: other tools under an equal revision leave
  blocks and attempts as they are, in the code and here.
* **SaveCheckpoint.** Counts the generation itself; `Forget` is the coordinator that
  has dropped the session. `RemindersAreDue` leaves out what a session costs that moved, or was
  forgotten (section 7).
* **CodexSession.** Taking the flock and reading is one step. A hit is one value. A file that
  cannot be read (an error, bad JSON, a bad schema) is one case, and losing what it held is
  what the code does (`session_state.py:615`, `recall_dedup.py:74`), so the properties allow it.
* **Rotation.** The note lock is taken to exclude; the index of sections is a set. The body of
  an archive note is its section, whichever card it came from.
* **RetrievalLog.** One thread per process, so what further threads of a server skip
  between the read of the count and its reset is not exercised.
* **GitSync.** All notes are tracked. A lock is reaped only when its holder was
  killed: a live run ends within the hook's budget, which is shorter than the
  five minutes.
* **ConditionalCommit.** One helper at a time (the installer's lock); temporary files a killed
  helper leaves are not modelled.
* **ClaudeSetup.** Settings are the owner's part, ours, and the paths of tools and vault, not
  their JSON.
* **ModelMigration.** Texts are left out; a dead holder's lock is broken, a live one's never.
* **SaveTrigger.** Percentages are levels; the guard lies below the first threshold, as shipped.
  Which prompt a route takes over is open. `RulesComeBack` counts prompts without the rules in
  full, and allows another interval for each route that took their place.
* **ActionRules, HookRecall, RosterCache.** What matches and how it ranks is open: any choice.
  A store of HookRecall that cannot be read counts, like one that cannot be written, as a
  record that was taken.

## 7. What the runs found

Each is in `PROJECT.json` under "findings" with the text it disagrees with.

1. **`lock_overlap`** (`write_lock.py:65`). Two waiters judge the file of a dead
   holder stale; one unlinks it, creates its own and enters; the other then unlinks that one
   and enters too.
2. **`sync_cut`** (`sync.py:259`). A process that ends between a row and its edges
   leaves a row whose hash says all is done, with the edges of the text before: in the
   trace a note that linked to itself is given a text without links, and the old edge stays
   through every later sync.
3. **`refactor_short`** (`refactor.py:68`). A link by basename is found, counted as
   rewritten, and not rewritten.
4. **`model_late`** (`server.py:211`). A server whose engine was built before another changed the
   model reads the name after it, finds nothing to do, and writes vectors of the
   old model into the new table, under the lock.

Seen while modelling, without a run of their own:

* *Notes and index.* An edit by hand between a tool's write and `sync_one`'s read leaves
  vector and row of different texts. Overlapping syncs leave edges of notes that are
  gone. Inbound broken edges are re-resolved by brain_write and not by `sync_all`, which
  also walks the files before it reads the rows and so can drop the row of a note another
  server has just written, until the next sync. A caller that gave up the reindex lock
  (`search.py:474`, "worst case: duplicated work" at `:428`) can purge next to a rebuild and die. A
  changed note first seen by a hook keeps the vector of its old text (`search.py:930`;
  README.md:301). A rename tests that its new path is free long before it moves the
  file; links written after `find_inbound_refs` are not rewritten.
* *Migration.* A migration's pinned engine (`search.py:782`) never checks drift. Waiters that give
  up after 180 s let models mix. The bootstrap returns before the changed notes are
  indexed (`server.py:225-242`). A crash between `:268` and `:276` leaves width and
  name disagreeing.
* *Rotation.* A later handoff under a date that is already archived, or a slug that shifts
  after a crash, ends every further rotation in a conflict, and a conflict skips
  the indexing of what was written. Two rotations at once on two cards of one scope can
  both find a name free (`rotation.py:463`, `:466`), and the second writes its note over the
  first's under the lock (`:477`).
* *Git.* A merge or rebase the owner begins after the guard can be ended by the sync
  (comment at `brain-sync.sh:126`). The guard looks for a rebase and for unmerged paths
  (`:78`), so a merge whose conflicts are added, or begun with `--no-commit`, is concluded by the
  commit at `:88`, which the comment at `:69` says must not happen. Edits made during a stopped rebase are
  dropped; a refused commit (`:88`) and stashed edits leave no alarm
  (`hooks/README.md:148`, `:157`).
* *Retrieval log.* Once switched off, events are neither stored nor counted; pending
  counts die with a killed process.
* *OpenCode.* After a short acknowledgement an aborted request for routes is not repeated until the next
  prompt or change of tools; a recall that was pushed out stays out for the generation; an
  idle session the coordinator forgot counts from one again while the checkpoint
  remembers larger generations (`save-checkpoint.ts:124`). A session that moved has a new
  generation without an activity (`coordinator.ts:203`); if a Brain call is the first to tell the
  checkpoint, it drops the confirmed save it knew (`save-checkpoint.ts:123`) and reminds of work
  that is saved. Tools that change under an equal revision, as `server.ts:229` gives none at the
  present one, leave blocks and attempts of the old ones (`coordinator.ts:404`, `:523`, `:310`),
  and `setCapabilities` knows no order but the revision.
* *Codex.* The collector of another process unlinks by path without the lock
  (`session_state.py:534`), and the seen-file of a session idle for an hour is reaped although its
  entries live a day; a file of counters or of hits that cannot be read once is begun anew
  and written over (`session_state.py:615`, `recall_dedup.py:74`, as the tests have it); a hook killed between recording and answering uses up the
  reminder; a late process may be terminated by both threads (`supervisor.py:388`).
* *Conditional replacement.* A file an editor deletes between publish and seal comes back
  after a crash (`conditional_replace.py:222`); a crash after the seal's removal with an
  editor's change, or a torn journal, is a conflict for good; an unreadable
  target counts as absent (`:126`).
* *Installer.* A removal completed by another command's recovery leaves the receipt:
  doctor then reports "installed" and repair is refused (`cli.ts:784`, `:810`;
  `opencode/README.md:124`).
* *Claude Code setup.* A `claude` command that runs out of time during a move of the
  registration is not caught, so the old one is not put back (docstring at `install_cli.py:264`).
  `SYMBIOSIS_BRAIN_TOOLS` is never overwritten (`install_lib.py:352`), so after a setup from
  another path the PreToolUse hook (`install_lib.py:243`) runs from the old package, against the
  comment at `install_cli.py:196` ("cannot go stale").
  Rollback leaves overwritten scripts at the new version. What others write to `settings.json` between read and
  replace, or before the rollback, is lost. Uninstall restores the newest backup, which a
  later setup or `--repair` took of files that already held our hooks
  (`install_cli.py:1009`), although README.md:293 says "`uninstall` restores everything."
* *Hooks.* A status line in flight across a compaction publishes the old level again; the kept
  mark of the last save silences reminders after it (both as `hooks/README.md:43` has it).
  Overlapping publishers can leave an older roster under a newer key until it expires
  (`mcp_roster.py:289`). A compile of action rules without grep that found no table can
  overwrite a good one of an overlapping compile; a grep that times out drops rules
  until the next compile. Routes are recorded before the memory search, so a hook that
  times out in it loses them for a day; the idle sweep (one hour) forgets them
  before their day is over.
