# gitsheets in TLA+

gitsheets keeps records as files in a git repository and offers transactions,
indexes, queries and freshness of reads on top. This directory holds models of
it, the TLC configurations that check them, and proofs for TLAPS.

Source names below are short for

| short | file |
|---|---|
| `transaction.rs`, `sheet.rs`, ... | `rust/gitsheets-core/src/` |
| `repository.ts`, `transaction.ts`, `sheet.ts`, `push-daemon.ts`, ... | `packages/gitsheets/src/` |
| the Node binding | `rust/gitsheets-napi/src/lib.rs` |
| the Python binding, the facade | `rust/gitsheets-py/src/lib.rs`, `rust/gitsheets-py/python/gitsheets/__init__.py` |

`PROJECT.json` ties every definition to the lines it models ("map"), every
property to a mutation of the code that breaks it ("mutants"), and lists the
hazards of the code with the properties that guard them.

## 1. The system

```
 client code (async contexts, threads)      other processes, git itself
   |            |            |                       |
   v            v            v                       |
 Sheet ----> Repository ---> PushDaemon --git push--> remote
   |   transact | withLock      ^                    |
   |            v               | post-commit hook   |
   |         Mutex (one per Repository)              |
   v            v                                    |
 CoreTransaction of a binding (napi, PyO3):          |
 opened sheets, one pending candidate per name       |
   |            |                                    |
   v            v                                    v
 core Sheet -- Transaction (core, Rust) ---> refs and objects of the git directory
 template, query, schema, codec, index, diff   one slot per git directory and process
```

| component | state | operations | what is hard | what makes it correct |
|---|---|---|---|---|
| transaction core (`transaction.rs`) | the registry of open git directories; per transaction its parent, tree, `mutated` | begin, staging, finalize, discard, Drop | several processes commit to the same branch; the slot has to be given back on every path; Drop releases a second time | a branch only grows; what is reported committed stays; no slot without an owner; publication is one step |
| write lock (`transaction.ts`, `repository.ts`) | `#locked`, `#queue`; two AsyncLocalStorage contexts | withLock, transact | nested and detached calls; hand-over of the lock between promises | one holder; no lost wake-up; no call waits for itself; order of arrival |
| live sheets (`repository.ts`, `sheet.ts`) | each sheet's read tree and memoized config; the weak set of live sheets | openSheet, refresh, transact's rebind, clone | HEAD is read in a child process and used later | read-your-writes; commits do not undo each other's rebinding; config and tree belong together |
| Sheet of the JS binding (`sheet.ts`) | index maps, `built`, the tree hash of the build | defineIndex, findByIndex, query, upsert, patch, delete, clear, attachments | a build awaits between rows; bound and standalone Sheets differ | lookups answer for the tree read; conflicts are real; unique keys stay unique |
| push daemon (`push-daemon.ts`) | commits pending, handled, last; the push in flight, timer, stop | start, start-up check, notifyCommit, drain, retry, stop | notifications, the start-up check, pushes and stop overlap; restarts | quiet means pushed; pending work drains; a backlog is picked up; stop returns |
| bindings (Node, Python) | the opened sheets and the pending candidate of each name | conversion of values; begin, prepare, stage, the other writes, finalize, discard; batch calls | validators run between prepare and stage; two hosts with other numbers and dates | what was accepted is what is written; both hosts read and write the same |
| sheet core (`sheet.rs`, `record.rs`) | the tree of a transaction, the opened sheets, an index cache | prepare and stage of an upsert, delete, clear, attachments, listing | renames, cascades, one of several writes failing | an operation touches what it names and what lies in that directory |
| core indexes (`index.rs`) | maps cached under a tree hash | build, lookup, unique check | what the check compares with | unique keys stay unique; a lookup finds all |
| path templates, query | none (pure) | parse, render, plan, prune, walk | buckets, recursion, pruning by rendered paths | a record stays at its path; pruning hides nothing |
| canonical form, codecs (`canonical.rs`, `codec.rs`) | none (pure) | print, parse, normalize, derive titles | what is derived after validation | what is written reads back |
| diff, merge patch (`diff.rs`, `record.rs`) | none (pure) | compare values and trees, merge | an edit script whose places move, a memo, renames | the patch leads from one to the other |
| validation and contracts (`validation.rs`, `contract.rs`, `cli/contracts.ts`) | vendored contract documents in the tree | compose, verify, adopt, prune | definition, contracts and records change in different commits | records conform to every contract the sheet declares |
| configuration, stores, errors, expression engine | none of their own | parse, discover, evaluate | - | - |
| other command line tools, blob handles | none | conversion, I/O | - | - |

The Repository, its Mutex and the daemon interact by calls: `transact` waits for
the Mutex, begins a core transaction, runs the handler, finalizes, rebinds the
live sheets and calls the post-commit hooks, of which the daemon is one; then it
releases. Shared state between processes is only the git directory.

## 2. The modules

| module | models | kind |
|---|---|---|
| `RecordStore` | what the transaction layer promises, without git | abstract |
| `CoreTransaction` | `transaction.rs` | detailed; implements `RecordStore` |
| `FairLock` | a first-come-first-served lock | abstract |
| `WriteLock` | the Mutex, `withLock`, `transact` | detailed; implements `FairLock` |
| `Freshness` | read snapshots of standing sheets | detailed |
| `PushDaemon` | the push daemon with its remote | detailed |
| `SheetIndex` | a unique index of a JavaScript Sheet | detailed |
| `SheetStore` | records and attachments without trees and files | abstract |
| `SheetTree` | the core Sheet's operations on a tree | operators |
| `Session` | the CoreTransaction objects of both bindings | detailed; implements `SheetStore` |
| `Values`, `Hosts`, `Codec`, `Templates`, `Pruning`, `Query`, `Filters`, `CoreIndexes`, `Schemas`, `Sheets`, `Diffs`, `Bindings` | the pure part of the core and of the bindings | operators |
| `Readers` | a sheet's files as readers see them, and what queries and lookups promise | operators and properties |
| `Upserts` | the core's writes to one sheet | operators and steps |
| `SheetFiles` | what may become of a sheet's files, whoever writes | abstract |
| `Records` | one sheet over its life, across commits | detailed, on the operators; implements `SheetFiles` |
| `*Proofs` | | proofs |
| `MC*` | small instances for TLC | |

### CoreTransaction

A commit hash fixes all of a commit's ancestry, so a commit is the sequence of
its ancestors' trees (with their authors), and "is an ancestor of" is "is a
prefix of". `refs` maps branches to commits, `registry` is the set of processes
in whose registry the directory is, `pc` and `tx` hold each thread's place and
Transaction value. `acked` is history: what `finalize` has reported.

`Begin`, `Resolve` and `ResolveFails` are the constructor; `Stage` is any of the
mutating methods; `FinalizeUnmutated`, `Recheck`, `ParentMoved`,
`FinalizeUnchanged`, `Commit`, `CasFails` and `CommitFails` are the ways through
`finalize`, in the order of the code; `Discard`, `Drop` and `Leak` the other
ends. They are split where another thread or process can get in between: at
every access to the registry, every read of a ref, and the update of the ref.
`Crash`, `GitCommit` and `GitCheckout` are the world. What a record contains is
a value; what is written is any change of one record at a time. Session and
Records say what the writes are.

`ForceUnborn` stands for something the code takes from outside (holo-tree's
`update_ref`, a git dependency): whether an update with no expected value,
which `finalize` issues when the branch had no commit, overwrites a branch that
has got one meanwhile. The runs and the three theorems about histories assume
that it does not (`ForceUnborn = FALSE`). If it does, the first commits of two
processes in an empty repository race and one is lost.

### WriteLock

The actions are the synchronous stretches between awaits. `WithLock` and
`Transact` are the calls with their guards, `AuthorKnown` the await of
`resolveAuthor`, `Enter`, `Begin` and `BeginFails` what resumes with the lock,
`Leave`, `Discard`, `Finalize` and `Close` the ends. A call records the
AsyncLocalStorage values its handler will see (`inner`) and the handlers that
wait for it (`awaitedBy`). A client may leave a call running: it then keeps its
handler's contexts after the handler has settled, which the model allows.
`open` is the core's registry, seen from one process.

### Freshness

Trees of HEAD are numbered by commit, so "newer" is "larger". Each operation
that resolves HEAD is split into the resolution and the use of its result.
`ConfigAfterRebind` is the one place where the memoized config is dropped.
`query`, `count` and `getAttachment` await the config and take the snapshot
afterwards: `BeginRead` and `FinishRead`, with `read` holding what a reader has so
far and, as history, whether its sheet was rebound to another tree meanwhile.
Commits on another branch (`OtherTree`) and commits of others (`MoveHead`) are
included. Opening and cloning sheets, and the weak set of sheets to rebind, are
`OpenSheet`, `Construct`, `Clone` and `Issued`. Sheets are never collected in
the model; a collected sheet is one that nobody reads.

### PushDaemon

The daemon's fields are the fields of a record per daemon; its synchronous
stretches (`Drain`, `Attempt`, `Finished`, `Handled`, `Notified`, `Primed`) are
functions from such a record to the next, and the actions apply them. A child
process reads the repository in one step and is answered in a later one: a push
sends the branch as it was when git read it (`GitPushReads`), which may hold
commits newer than the one the daemon pushes for. `heard` is history.
Each git call of the start-up check may fail: `CountAhead` then ends the check
(`rev-list`), `ParseHead` leaves it without a head (`rev-parse`), so that `Primed`
counts the commits ahead but sets no last commit.
Backoff delays are left out: a sleeping loop may wake at any time.

### SheetIndex

`tree` is what the Sheet reads: the transaction's private tree for a bound
Sheet, its snapshot for a standalone one. `map`, `built` and `hash` are the
fields of `IndexState`. Of a record only its index key is kept, and trees stand
for their own hashes. `Find`, `ReadRows`, `TakeRow`, `BuildConflict`,
`FinishBuild` and `Answer` are the stretches of a lookup; an eager `defineIndex`
takes the same way. `Upsert` and then `Stage` or `Refuse` are an upsert, before
and after its awaits; `Delete`, `Clear` and `Refresh` the rest. A standalone
Sheet hands its writes to a fresh bound Sheet, which has no indexes: so nothing
is checked and nothing invalidated there (`Refused`, `BuiltAfterWrite`), and the
commit moves the snapshot in the same step. (That commit and rebind are several
steps, is Freshness's matter.) `failed` is history: a build has met a conflict.

### SheetTree, SheetStore and Session

In `SheetTree` a path is a sequence of names, a name a stem and an extension,
and a tree maps the paths of its files to what they hold. Its operators are the
core Sheet's methods: where a record and its attachments lie, what listing
reads, and the tree after each write. Deleting a record deletes the directory of
its name as well, where its attachments are, and under a recursive template
other records.

`Session` is one transaction through a binding. `pending` is the map of the
binding's CoreTransaction from sheet names to candidates, `sheets` the sheets
opened under names, `mutated` and `inner` the core transaction's own state.
Node validates first and runs prepare and stage in one go (`NodeUpsert`);
`willChange` and a refused upsert end after prepare (`NodePrepareOnly`). The
Python facade calls the validator between the two: `frames` is the stack of
upserts whose validators run, and all other operations may run there
(`PyPrepare`, `PyStage`, `PyStageFails`, `PyReject`). `verdict`, `wrote`,
`shadowed` and `cut` are history. The other writes are one action per method
and binding. `SheetStore` states the same transaction as two maps, of records
and of attachments, and what each operation may take along; the refinement
mapping reads both out of the tree. That only works where a path is one thing:
no sheet lies in the directory of another, and no attachment has the name of a
record's file or directory (`Apart`, which `MCSession` assumes and TLC
evaluates). Where it fails the code has no records and attachments to speak of,
only files that are both.

### The pure modules and Records

| module | code | contents |
|---|---|---|
| `Values` | `value.rs`, `error.rs` | tagged values, errors, instants |
| `Hosts` | the marshalling of both bindings | host values of JavaScript and Python, conversions with what they lose, merge patches as handed in |
| `Codec` | `canonical.rs`, `codec.rs` | TOML and markdown as lines; key order, multi-line strings, frontmatter, body normalization, titles |
| `Templates` | `path_template.rs` | parsing of templates, rendering with buckets and recursion, query plans |
| `Pruning` | `query.rs` | what a filter says of a record, the pruning record, the walk over the tree, candidates |
| `Query` | `query.rs` | the query that reads and judges the candidates |
| `Filters` | the filters of both bindings | the filter that a host value is |
| `CoreIndexes` | `index.rs`, `sheet.rs`, `record.rs` | what a sheet lists, keys, unique and multi indexes, lookups, the check of an upsert |
| `Schemas` | `validation.rs`, `contract.rs` | schemas, issues, contract names and documents, composition, the three rungs |
| `Sheets` | `config.rs`, `sheet.rs`, `store.rs` | definitions, opening a sheet, discovery |
| `Upserts` | `sheet.rs`, `collator.rs` | sorting, normalization, prepare, stage, delete |
| `Diffs` | `diff.rs`, `record.rs` | the edit script with its memo, patches, merge patches, changes of trees |
| `Bindings` | `record.rs` and the exports of both bindings | the batch calls in the two ways of carrying values |

`Values`, `Codec`, `Templates`, `Pruning`, `Query`, `CoreIndexes` and `Upserts`
hold no recursive operator, so that they can be proved about. What would be recursive or
belongs to another module is a constant of theirs: `MatchesNested` judges a
filter within a filter (the runs give it `Matches` itself), `KeyText` is what
a script prints of a key's value (`JsString`), and `Valid` whether a sheet's
schema accepts a record (`Conforms`). A walk is the directories that all
components but the last lead to (`Reached`), and the records that the last one
finds there (`Leaves`).

A text is a sequence of symbols, and a symbol is a word, a sign, a space or a
line break, whatever the rules tell apart. A template is the sequence of its
parsed tokens' sources. Times are numbers of half-milliseconds in a calendar
with short days and months (`Day`, `DaysPerMonth`, ...), so that an offset can
cross the end of a day, a month and a year. Integers have the width of `MaxInt`
and `MaxSafe`. Expressions (templates, predicates, comparators, keys) are a few
forms, of which some throw; boa's own semantics are external.

`Records` composes them. Its state is the definition and the contracts in
`.gitsheets`, the text of each file, the files at the commit clients compare
with (`since`) and who wrote each file. Each step is one call that ends in a
commit: upserts of the three clients, a patch, a delete, a batch of raw writes
or deletes past the sheet, an edit by hand, a new definition, adoption of a
contract with or without its gate, pruning. `opened` is the sheet as the
definition and the contracts open it, kept so that it is compiled once per step
that changes them. `author` is history; it is what the
properties' premises are about: a file written under another definition, or
past the sheet, is promised nothing.

`Readers` holds what of this state readers see (`opened`, `files`, `author`) and
the two promises made to them, `QueryFindsAll` and `UniqueKeysHold`. `Upserts`
adds what the core's own writes do to it: `StageUpsert` of what `Prepared` has let
through, and `DeleteAtPath`; the actions of `Records` are these with the clients'
conversions around them. `SheetFiles`
says of the steps only what they do to the files: `Write` puts a record that can
be read at the path it renders to, and if the client is one of the core its keys
are free; `Delete` keeps the rest as it was; `WritePast` and `Redefine` are what
the sheet has no say in. Of values, sorting, schemas, contracts and hosts it knows
nothing. `Records` implements it (`ImplementsFiles`; the mapping forgets all of a
definition but the template's source), and from it the promises are proved.

## 3. What the runs check

Passing runs:

| run | instance | shows |
|---|---|---|
| `core` | 2 threads in 2 processes, 1 branch, 1 path, 1 value, 2 commits; every kind of parent and branch option | `NoOrphanedSlot`, `AckedCommitStays`, `HistoryOnlyGrows`, and that the lifecycle implements `RecordStore` (`ImplementsStore`) |
| `writelock` | 4 calls on one Repository, fair | `OneHolder`, `NoLostWakeup`, `SlotIsFree`, `NoSelfDeadlock`, `FirstComeFirstServed`, `Served` |
| `freshness` | 2 sheets, 1 reader, 3 operations at a time, HEAD moving 3 times | `ReadsUseOneTree`, `ReadYourWrites`, `CommitsKeepSheetsFresh` |
| `push` | 1 daemon that is restarted, 2 commits, 2 attempts, fair | `QuietMeansPushed`, `StoppedMeansIdle`, `BacklogDrains`, `BacklogIsPushed`, `StopReturns` |
| `index` | 1 client, 3 paths, 2 keys, bound and standalone | `CheckedIndexIsCurrent`, `LookupIsCurrent`, `ConflictIsReal`, `RefusalIsReal`, `CheckedUpsertKeepsUnique` |
| `session` | 2 sheet names on one base, 2 records of which one lies in the other's directory, 1 attachment name, 2 upserts, both bindings | `OnlyAcceptedIsWritten`, `OutcomeTellsTheChange`, and that a session implements `SheetStore` (`ImplementsSheets`) |
| `records` | 8 definitions, 11 records of 3 clients, 6 patches, 5 documents, 11 filters, 3 index definitions of which one takes the name of another, 2 steps | `ReadsBackAsWritten`, `StaysAtItsPath`, `QueryFindsAll`, `UniqueKeysHold`, `DiffRebuilds`, `ContractsHold`, `BindingsAgree`, and that `Records` implements `SheetFiles` (`ImplementsFiles`) |

All but `records` check `TypeOK` too.

What the seven invariants of `records` say:

- `ReadsBackAsWritten`: an accepted record can be read, and has every field it
  was handed in with, arrays with a rule in the rule's order and stable, the
  body's content, the title the stored body has, and nothing else.
- `StaysAtItsPath`: a stored record, read and written back by either binding,
  passes its schema again and renders to the path it is at; where the binding
  carries its values without loss its text stays too.
- `QueryFindsAll`: a query through either binding finds exactly the matching
  records, although it walks only where the known fields lead.
- `UniqueKeysHold`: no two records of core clients share a unique key; lookups
  find all that has a key, in the index that counts under its name.
- `DiffRebuilds`: for every pairing of files as renames, the patches applied as
  RFC 6902 says (`Applied`, the reference) rebuild the new records.
- `ContractsHold`: managed records conform to each declared contract and to the
  schema, each taken alone; the declared rung of verification never says more
  than the structural one; an adoption past the gate leaves a sheet that opens.
- `BindingsAgree`: the two hosts read, list, diff, merge, validate and hash the
  same, and write the same text.

Runs that show a disagreement between the code and what is written about it:

| run | the code | what is written | where it does hold |
|---|---|---|---|
| `core_slot` | `Drop` releases the slot a second time, after `finalize` or `discard` has: between the two another thread may have taken it, and a third begin gets in | `transaction.rs:26-27`: one open transaction per git directory at a time | `OneOpenOtherwise` |
| `freshness_stale` | `openSheet` and `refresh` use a tree resolved before a commit after that commit's rebind | `specs/behaviors/freshness.md:11-13`: a commit is immediately visible to every standing Sheet | `SheetsAreFreshOtherwise`, `AwaitedSheetsAreFresh` |
| `push_lost` | the start-up check overwrites `#lastCommit` with an older head; the newer commit is coalesced away | `specs/behaviors/push-sync.md:23-25`: each new commit is pushed | `EveryCommitIsPushedOtherwise` |
| `index_overlap` | two first lookups clear and fill one map: a record conflicts with itself | `specs/behaviors/indexing.md:104`: the error names both conflicting paths | `ConflictsNameTwo` |
| `session_reentry` | a Python validator that upserts into its own sheet replaces the pending candidate; the outer upsert stages a record that was rejected | `sheet.rs:23-25`: a rejection throws before phase 3, so no bytes are written | `RejectedOnlyByReentry` |

Each of the five is paired with a theorem (last column; section 4) that names
what the counterexample takes: under its hypothesis the documented claim is
proved, so the run shows the only way in which it fails.

Disagreements without a run of their own, each with the property that states how
far the code does go and the theorem that proves it:

| the code | what is written | what holds |
|---|---|---|
| `query`, `count` and `getAttachment` await `readConfig` and read `#readRef` only then (`sheet.ts:1006` and 1036, 1104 and 1106): after a rebind in between they read the records of the new tree with the config of the old | `specs/behaviors/freshness.md:84-88`: a query captures the snapshot when iteration starts, a rebind never affects one in flight | `ReadsUseOneTree` (`UnreboundReadsAreOfOneTree`): only such a rebind mixes two trees |
| the unique check skips an index that is not built (`sheet.ts:1849`), and each write unbuilds it: of two upserts after a lookup the second is not checked | `specs/behaviors/indexing.md:106`: an upsert that would create a conflict throws before writing | `CheckedUpsertKeepsUnique` (`ChecksKeepKeysUnique`): an upsert that meets a built index keeps keys unique; `CheckedIndexIsCurrent`: that index is the tree's |
| a rename that keeps its key is refused: the record's own old path counts as another record (`sheet.ts:1855-1856`; `sheet.rs:747` for the core) | the same passage: an upsert that *would create a conflict* throws | `RefusalIsReal` (`RefusalsAreReal`): every other refusal is of a key that two records would share |

### Bounds, and why they are enough

- `core`: an update is lost, and a slot orphaned or freed twice, by two
  transactions (three for `core_slot`, whose third begins in a thread that has
  ended its first) and git; two commits let the branch move twice under an open
  transaction. One path with one value or none gives two trees, so a
  transaction can change, undo and repeat a change. The proofs remove the bound.
- `writelock`: with four calls there is a holder, two that queue and a late
  arrival, or nesting of depth four. Two Repositories on one directory are left
  to the core: there its slot throws (`BeginFails`).
- `freshness`: two operations overlap and a third starts afresh; three moves of
  HEAD separate the base, the result and the resolved tree of a transaction.
  Readers do not change what sheets show, so one is enough to meet every rebind.
- `push`: one commit in flight, one more notified meanwhile; two attempts are
  the first number with a backoff between them. `push_lost` needs three commits.
  `MaxRetries` is a number here, while the code's default is `Infinity`
  (`push-sync.md:71`): `BacklogDrains` and `BacklogIsPushed`, whose "refused" counts
  a push given up, are claims about a daemon with a limit. Without one, a push that
  never succeeds is retried for ever and pending work stays pending.
- `index`: three records and two keys give two owners of one key and a third
  record beside them, and a rename with a bystander.
- `session`: two upserts nest, follow each other under one name or two, and
  rename; a record beneath another shows what a delete takes along. A transaction
  that starts with one record can delete, write and move it.
- `records`: two steps are a write and what follows it: a rename by a patch, a
  second owner of a key, a query over two records, a write and a new definition,
  an adoption over records, a hand edit under a query. Every state is checked
  against all patches, filters, documents, pairings and both bindings, so the
  second step is rarely needed for reading. The values are chosen so that each
  rule meets its edges: an offset that crosses midnight and a year, integers
  beside floats, keys equal but for case, a title from a setext heading, a
  closing line inside a body, a definition that does not parse, a contract that
  an older record breaks, a directory beneath a record. A filter's clauses are
  taken in the order of `ClauseOrder`, one for the whole run: a predicate that
  throws stands before a clause that fails in one filter and after one in another.

`Refresh` of `SheetIndex` moves the snapshot to any tree, so that a Sheet can
come back to a tree it has an index of. The client of `index` awaits every call.
With two clients a lookup and a write can overlap, which `index_overlap` shows
to break an index even between two lookups.

No run uses a state constraint: bounds are in the guards (`MaxCommits`,
`MaxHead`, `MaxCalls`, `MaxDepth`, `MaxSteps`). Symmetry is used in `freshness`
and `freshness_stale`, which check no liveness. Deadlock is not checked where a
system may stop: when all calls are made (`WriteLock`), the transaction has
ended (`Session`), or the bound on commits or steps is reached.

### Fairness

- `WriteLock`: the event loop resumes every promise that has resolved, and a
  handler ends once all it awaits has (weak fairness of `Resume` and `Settle`
  for each call). The second is the client's part: a handler that never ends
  keeps the lock. No call has to be made.
- `PushDaemon`: the loop runs what is due, git ends and timers fire (weak
  fairness of `Runtime` and `CallHooks`). Nothing makes a push succeed, and
  nothing makes a client start or stop a daemon. `BacklogIsPushed` therefore
  excuses a push that was refused, `BacklogDrains` counts a refused push as
  dealt with, as the code does. `BacklogIsPushed` starts where `rev-list` has
  counted: if it fails (`push-daemon.ts:166-171`), the backlog waits for the next
  commit or restart. So it may if `rev-parse` fails after it (180-182): the
  commits are counted then, but may be coalesced with the commit pushed last.

The other modules have no part that must go on by itself: each call is one step
or is driven by its client.

## 4. What is proved

TLAPS checks the proofs of the `*Proofs` modules, for every value of the
constants.

`CoreTransactionProofs`, from `ConstantsOK`:

- `TypeCorrect`: the type invariant.
- `SlotsAreOwned`: `NoOrphanedSlot`, which is inductive once the types are
  given: every way into the registry leaves an owner, every way on keeps one.
- `HistoryIsAppendOnly`, `AckedCommitsAreDurable` and `RefinesStore`, assuming
  `~ForceUnborn`. Only `Commit` and `GitCommit` move refs (`OnlyTwoMoveRefs`);
  each appends to the commit the ref holds, the first because its
  compare-and-swap expects the parent. The rest is lemmas about prefixes, and
  the step of the abstract store that each action maps to: `Commit` publishes,
  all others stutter or are the world's.
- `OneOpenOtherwise`: what `core_slot` violates holds as long as the value of an
  ended transaction is dropped before the process begins the next one
  (`DropsBeforeTheNext`). Then every owner of a slot is registered, and `Begin`
  finds a registered directory taken.

`WriteLockProofs`:

- `LockInvariant`: `TypeOK`, `OneHolder`, `NoLostWakeup`, and that whoever
  queues is waiting and queues once. `OneHolder` alone is not inductive: the
  hand-over of the lock to the head of the queue makes a second holder unless
  whoever is in the queue holds nothing.
- `TypeCorrect`, `MutualExclusion`, `WakeUpsAreKept` follow.
- `MutexIsFair`: the lock implements `FairLock`, the holder mapped by `HolderOf`.
- `QueueHidesSlot`: behind the lock the registry is free when a transaction
  begins.
- `NoSelfDeadlockOnOneRepo`: no call waits for itself, if there is one
  Repository. With two it is false, and the assumption is in the theorem.

`FreshnessProofs`:

- `TypeCorrect`, `SnapshotsStayOnHead` (standing sheets never leave HEAD's
  history, `SnapshotsAreHeads`), and `UnreboundReadsAreOfOneTree`
  (`ReadsUseOneTree`): a reader's config is that of its sheet's snapshot until the
  sheet is rebound. It rests on `ConfigIsTheSnapshots`, that the memo never
  outlives its tree. Both `ConfigIsTheSnapshots` and `SnapshotsAreHeads` are parts
  of the inductive invariant that no run repeats; they are kept by every action
  once `OpenedOnce` is known: a sheet under construction is not issued yet and has
  one builder, so `Construct` never meets a sheet somebody else has rebound.
- `WritesAreRead` (`ReadYourWrites`): rests on `ResolvedAfterCommit`. The tree a
  transact rebinds to is resolved after its own commit and after all earlier
  ones, because whoever is in a transact holds the lock (`UnderLock`).
- `CommitsNeverGoBack` (`CommitsKeepSheetsFresh`): the same, with `acked`.
  Refreshes and openings have no such guarantee: `freshness_stale`.
- `SheetsAreFreshOtherwise`: with `NoReadOutlivesACommit` every standing sheet is
  as new as the last commit, because every tree still to be used is
  (`ReadsAreFresh`). `AwaitedSheetsAreFresh`: so it is when operations do not
  overlap.

`PushDaemonProofs`, for any number of daemons, commits and attempts:

- `TypeCorrect`, `QuietIsPushed` (`QuietMeansPushed`), `StopLeavesNoPush`
  (`StoppedMeansIdle`).
- The invariant has two parts per daemon. `Counted`: a loop that runs is for
  something not handled yet, and what was not counted since it began is what it
  pushes. `Knows`: what git read for the push contains the commit the push is
  for. It needs that a branch that grows keeps what it had (`HasStays`), and that
  a bounded set of commits has a latest one (`MaxIsIn`).
- `EveryCommitIsPushedOtherwise`: with `HeadIsNotOvertaken`, the daemon's last
  commit contains all it was notified of (`LastFollows`), and what is quiet has
  pushed its last commit.

`SheetIndexProofs`, assuming `Alone`: every call is awaited before the next is
made.

- `TypeCorrect`, `ChecksAreCurrent`, `LookupsAreCurrent`, `ConflictsAreReal`,
  `RefusalsAreReal`, `ChecksKeepKeysUnique`. `RefusalsAreReal` says that what is
  refused would share its key with another record, or is a rename that keeps its
  key; in the first case the owner that the map names is a record that the write
  would leave in place.
- `Filled` says of a build under way that the map has all listed rows but those
  still to come, and nothing else; `BuiltIndex` that a built index, with nobody
  rebuilding it, is that of the tree it is labelled with. For a bound
  Sheet `BuiltIndex` also has that no two records share a key (`OneEach`), as a
  build without a conflict has shown.
- `ConflictsNameTwo`: the claim of `index_overlap`. Without `Alone` these are
  false, which is what that run shows.

`SessionProofs`, for any sheets, records and depth of nesting:

- `TypeCorrect`, `OnlyAcceptedRecords` (`OnlyAcceptedIsWritten`),
  `OutcomesTellTheChange` (`OutcomeTellsTheChange`).
- `OnlyAcceptedIsWritten` needs that calls are numbered in order (`InOrder`), that
  what is pending under a name has not been written and is pending under no other
  (`PendingIsNew`), and that each validator that runs belongs to a call of its own,
  whose pending candidate is its own unless somebody has upserted into its sheet
  meanwhile (`FramesAreRunning`). That exception is the `session_reentry` finding.
- `RejectedOnlyByReentry`: and it is the only one. Through Node, or when no
  upsert ran in a validator of its sheet, no rejected record is written.

The second half of `SessionProofs`, assuming `Apart`:

- `SessionImplementsSheets` (`ImplementsSheets`): each operation on files is the
  operation of `SheetStore` on records and attachments. The keys of both are read
  from paths (`RecordKeys`, `AttachmentKeys`), so the work is in lemmas that say
  which paths belong to whom: with `Apart` a record's file has one reading, what
  lies in the directory of a name is that record's attachments and the records
  beneath it, and no other file starts with that directory. From them follows what
  `Put`, `Without` and `Restrict` on the tree do to the two views, and then one
  lemma per operation in either binding.

`PruningProofs`, for any template source, values, filter and tree:

- `PruningHidesNothing`: the part of `QueryFindsAll` that is hard to get right. A
  query plans its walk with a record that has the filter's scalars only, and
  visits only the directories these render to. If the filter holds of a record,
  that record lies at its path, and no other record's file lies above it (asked
  of a template that ends in a recursive field only), then planning succeeds and
  the record is a candidate.
- The argument: the partial record `Agrees` with the record, field by field it
  says the same or nothing. So a component renders to the same text from both, or
  is left open (`ComponentAgrees`). By induction on the components the directory
  that the record lies in is among those reached; what is left open expands to
  every directory, of which the record's is one. It needs that a parsed template
  has only nonempty components and none but the last recursive
  (`CompiledIsParsed`): a component that rendered to several names would make the
  walk lose its place.
- `PathDependsOnFieldNames`: two records that agree on the fields that
  `get_field_names` lists for a template lie at the same path.
- `RecordsLieApart`: without a recursive field all records lie equally deep, so
  none lies where another one's attachments do. `PathNamesAreLegal`: no name in a
  path has a slash or another symbol that files cannot have. `CandidatesAreFiles`:
  a query never reads a file that is not there. `CandidatesAreRecords`: nor one
  that listing the sheet would not take for a record.
- The hypotheses on records are on their form: a record is a table whose texts are
  sequences of symbols (`Value`). `Token` says the same of a template's source.
- Folds and recursive functions are unfolded by `Induction`, which takes the set
  of the numbers that a claim holds of instead of the claim as an operator.

`SheetFilesProofs`, for any templates, filters, indexes, texts and readings of
keys and nested filters:

- `RecordsStayInPlace`: while nothing but the sheet's own methods has written,
  each file of a sheet holds a record that lies where it renders to. This
  (`InOrder`) is inductive: a write puts its file in place and keeps the others, a
  definition that changes the template makes every file nobody's.
- `QueriesFindAll` (`QueryFindsAll`, assuming what the core's types give of a
  filter, `IsFilter`): follows from it. By `PruningHidesNothing` each record that
  the filter holds of is a candidate of the walk, by `CandidatesAreRecords` each
  candidate is one of the records listed, and what the query reads and judges is
  what listing gives; so it finds exactly the matching ones. It fails only where
  the template cannot be rendered with what is asked for, and then no record in
  place can match.
- `KeysStayApart` adds `KeysApart` to the invariant: two records of core clients
  under one key of a definition that counts are one. A write that passes
  `CheckUniqueConflicts` has read all records and built all indexes, so the index
  of the definition's name has the key of every record (`KeyAt`), and the check has
  found it free or its own. Assumed is `AreIndexes`, the form of index definitions.
- `KeysAreUnique` (`UniqueKeysHold`) follows, together with what a lookup returns:
  a built index holds under a key exactly the records that have it.
- `UpsertsAreWrites` and `DeletionsAreDeletes`: what the sheet's own methods do is
  what `SheetFiles` allows. An upsert that is not refused, of any client, new or
  moved or of a record rewritten, leaves every other file as it was or gone and
  writes one that is readable, lies where its record renders to, and has free keys
  if they were checked. With the theorems above this says of the code's own upsert
  and delete that records stay in place, queries find all and keys stay unique.
  That the other actions of `Records` (the clients' conversions, writes past the
  sheet, definitions, contracts) implement `SheetFiles`, and so `ImplementsFiles` as
  a whole, the run `records` checks: their operators are recursive. It checks the
  promises on `Records` itself as well.

The second part of `SheetFilesProofs` is about what an upsert stores:

- `TomlReadsBack`: the canonical TOML of a record parses to that record, for any
  keys and values. The lines of each field (`HasLines`) take the parser from a
  state between fields back to one, with that field added (`LinesAndBack`,
  `EntryMakes`); no line of a multi-line string ends it early, because none reads
  like the mark that closes it. So after the fields in `KeyOrder` the parser has
  them all, and each once.
- `ArraysAreSorted`: `SortArray`, unless it throws, gives a stable rearrangement
  in the rule's order. It holds of any rule that is a strict weak order on the
  items (`Orders`); `RulesOrder` proves that of the rules the code has, from
  lemmas on the comparison of collation keys and strings (`LexicallyOrders`), on
  directives that are tried in turn (`DirectedOrders`), and on numbers. The
  invariant of the insertion sort is `Sorts`: there is a permutation (`Places`)
  under which what comes later is after, or alike and was later.
- `UpsertsReadBack`: after an upsert into a TOML sheet, the record's file is its
  client's and parses to the fields handed in, each as it was or as a sorted,
  stable rearrangement (`KeptField`). This is what `ReadsBackAsWritten` asks of a
  core record in TOML.
- `RewritesChangeNothing`: preparing a record again after `NormalizeRecord` gives
  the same path and text, in every format: a sorted array is left as it is
  (`SortedStays`), so normalizing twice is normalizing once (`NormalizesOnce`).
  This is the core's part of `StaysAtItsPath`.
- The hypotheses are on what is handed in. `IsTableOf`: the keys are among those
  that `KeyOrder` orders, none is empty, and strings are of symbols of which none
  is the mark that ends a multi-line string. (`IsKey`, `OfSymbols`.) `Sortable`: in a
  field with a rule, the rule can compare the items (`Comparable`): under
  each directive's key all items have numbers, or all strings, or none has either;
  a numeric script meets numbers. Where only some items have a directive's field,
  JavaScript's comparison is no order (what is missing is alike to everything),
  and what the sort then returns is only model-checked. `MCRecords` has TLC evaluate the
  first, and the assumptions on `KeyOrder`, `Weight` and `CodeUnit`, for all records
  that the run hands in (`MCHandedIn`).
- The provers cannot instantiate the fold of the community modules for an
  operator, so each fold is first shown to be a recursive function on the
  prefixes of its sequence (`UnlinesIsFold`, `SortedIsFold`, `TextIsFold`,
  `ParsedIsFold`, `SortingIsFold`, `KeyIsFold`), and the inductions are on these.

Only checked, not proved:

- `BacklogDrains`, `BacklogIsPushed`, `StopReturns` and `Served`: liveness under
  fairness is beyond the prover, as is `ENABLED`.
- `Records` as a whole: that its clients' steps implement `SheetFiles`, and of its
  invariants the markdown part of `ReadsBackAsWritten`, the bindings' part of
  `StaysAtItsPath`, `DiffRebuilds`, `ContractsHold` and `BindingsAgree`. The modules
  with host values, schemas, definitions and edit scripts (`Hosts`, `Filters`,
  `Schemas`, `Sheets`, `Diffs`, `Bindings`) go down trees, so their operators are
  `RECURSIVE`, about which the prover can say nothing; what they compute is checked
  against references (`Applied`, `SheetFiles`) on the instance's inputs.

## 5. What the models found beside the runs

Behaviour that no document contradicts, so that no run refutes anything, but a
reader should know; most of it appears as a premise of a property.

- `set_attachments` that fails half-way leaves its first files in the tree but
  does not mark the transaction: finalize then drops them as "nothing mutated"
  (`cut` in `OutcomeTellsTheChange`).
- A rename leaves the attachments at the old path, and `delete` of a record
  deletes records beneath its name (`SheetStore!Move`, `SheetStore!Delete`).
- A query whose known fields the template cannot be rendered with (a slash in a
  name, say) fails instead of finding nothing (`QueryFindsAll`).
- Of two unique indexes of one name the earlier one is not enforced: its keys are
  looked up in the index that the later one has left under the name
  (`sheet.rs:730`; `Current` in `UniqueKeysHold`).
- A record beneath another one's name is found by a query that knows its path
  and skipped by the walk that does not (`NoneBeneath` in `QueryFindsAll`).
- `will_change` compares with the file at the new path only: a pure move over an
  equal file is no change.
- The core's unique check refuses a rename that keeps its key, as that of the
  JavaScript Sheet does (section 3), and one doubled key written past it makes
  every later upsert fail.
- When `rev-list` fails in the start-up check, for whatever reason, the daemon
  takes the backlog of an earlier process for none (`BacklogIsPushed`).
- A filter is judged clause by clause in the order it was written in: whether a
  predicate that throws fails the query depends on the clauses before it.
- A record that was written before a contract was declared, or past the sheet,
  is never validated again; the declared rung of verification does not look
  (`AllManaged` in `ContractsHold`). The gate of an adoption looks at the
  records of that moment.
- A `+++` line inside a string of the frontmatter makes the file unreadable
  (`CutShort` in `ReadsBackAsWritten`); verbatim bodies lose their outer blank
  lines; body and title are added after validation (`StaysAtItsPath` leaves out
  markdown with a schema).
- A read and write through Node turns 1.0 into 1 and local datetimes into
  instants (`Plain`).
- The memo of the edit script is keyed by `i * max_length + j`, which two
  entries can share. It costs edits, never correctness: `DiffRebuilds` holds
  with the collision in the model.
- The `sort` rules of a table come back in alphabetical order of the fields.

## 6. What is not modelled, and why

- The byte layout of TOML and markdown, ICU's tables, boa's language, most JSON
  Schema keywords, git's similarity heuristic: other people's semantics. The
  models keep what the code does with their results, and leave the rest a choice
  of the environment or a bounded table.
- The core's index cache under the data tree's hash: a memo of a pure build.
- Streams and abort signals, blob handles, raw object access, the command line
  tools but for `contracts adopt` and `contracts prune`: conversion and I/O.
- Post-commit hooks and event listeners that throw; two daemons in one process;
  a second caller of stop.
- The records of a query one by one: once it has taken its snapshot
  (`FinishRead`) it reads immutable objects. Two patches of one record that overlap: the second wins with what it
  read (`sheet.ts:1416`); nothing is promised.
- Non-unique indexes of a JavaScript Sheet as lazily built state: the same
  stretches as `SheetIndex` without its conflicts.
- `willChange` opens a core transaction outside the lock, and closes it within
  one synchronous stretch.
