# Specifications of the iTwin.js native engine

TLA+ modules, TLC configurations and TLAPS proofs about the C++ engine below
iTwin.js (`imodel-native`). The engine opens *briefcases*: SQLite files that
hold an iModel, can be edited while disconnected, and exchange *changesets*
with iModelHub. This directory starts where the engine's own state machine is
richest: the transaction manager of a briefcase, what pulling, merging and
rebasing do to it, the files it keeps beside the database, the threads that
answer queries beside it, and the scheduler of the presentation manager.

Paths below are relative to the repository; `TxnManager.cpp`, `TxnManager.h`
and `ChangesetTxns.cpp` are in `iModelCore/iModelPlatform/DgnCore/` and
`iModelCore/iModelPlatform/PublicAPI/DgnPlatform/`, `BeSQLite.cpp` in
`iModelCore/BeSQLite/`, `ConcurrentQueryManagerImpl.cpp`, `SchemaManagerDispatcher.cpp` and
`SchemaSync.cpp` in `iModelCore/ECDb/ECDb/`, `TaskScheduler.cpp`,
`Connection.cpp` and `ECPresentationManager.cpp` in
`iModelCore/ECPresentation/Source/`, `IModelJsNative.cpp` in
`iModelJsNodeAddon/`.

## 1. The system

### 1.1 Inventory

| Component | State it keeps | Operations | What is hard | What makes it correct |
|---|---|---|---|---|
| **Txn table** `dgn_Txns` (TxnManager.cpp) | rows (id, Deleted, Grouped, type, changeset) in the briefcase file | first/next/previous row, insert, mark reversed, delete reversed, delete up to an id | ids are used again; reversed rows stay in the queries; an id is a session and a counter in one integer | an insert never meets a row that is wanted; the order of ids is the order of changes |
| **Transaction manager** (TxnManager.cpp) | `m_curr`, `m_reversedTxn`, `m_multiTxnOp`, the SQLite session that tracks edits, `m_ddlChanges`, `m_changesetInProgress` | SaveChanges, AbandonChanges, multi-Txn operations, ReverseTxns, ReverseTo, ReverseAll, CancelTo, ReinstateTxn, Start/Finish/StopCreateChangeset, DiscardLocalChanges | calls that commit more than once or not at all; failure in the middle of a range; crash between commits; a push that lasts while the user goes on | whatever is committed is in a Txn; undo and redo are exact; what is pushed is what is deleted |
| **Pull, merge, rebase** (TxnManager.cpp, ChangesetTxns.cpp) | `PullMergeConf` (stage, end id, id in progress) in `be_Local`; the position of the caller in its loop | PullMergeReverseLocalChanges, MergeChangeset, ReverseChangeset, PullMergeRebaseBegin/Next/ReinstateTxn/UpdateTxn/AbortTxn/End, PullMergeResume | a loop of separate calls, each with its own commit; conflict handlers; erasing rows while walking over them; resuming after a crash | each Txn rebased once, in order, none lost; parent and content agree |
| **Savepoints and COMMIT** (BeSQLite.cpp) | stack of savepoints, transaction listeners, cached `be_Prop` values | StopSavepoint, Commit, Cancel, `_OnCommit` | the listener decides between COMMIT, nothing, and error; busy retries; nested savepoints | an error leaves either the old file or the new one |
| **File-based Txns** (TxnManager.cpp) | `.txn` files beside the briefcase, their checksums in `be_Local` | write, replace, delete, open with check | files change at once, rows at the COMMIT; a failure, a rollback or a crash falls between | a Txn that is still needed has the file its row describes |
| **Stash and restore** (TxnManager.cpp) | a stash file with Txns and the parent | Stash, StashRestore, Initialize(Resume) | the briefcase moves to another parent and back | restore gives the Txns and the state that were stashed |
| **Changeset files** (ChangesetFile.cpp, ChangesetTxns.cpp) | compressed changesets with id and parent id | read, write, validate, compute ids | none of state | data layout |
| **Element dependency graph** (ElementDependency.cpp) | a table of relationships with status, an in-memory table of changed elements | InvokeAffectedDependencyHandlers | topological order on a changing graph, cycles | each handler once, after its inputs |
| **Concurrent queries** (ConcurrentQueryManagerImpl.cpp) | request queue, executor threads, cached connections, monitor thread | Enqueue, WaitForDequeue, SetResponse, CancelRequest, RemoveIf, Stop, Shutdown | many threads; time limits; cancellation against completion; shutdown | each request answered exactly once; every shutdown ends |
| **Presentation task scheduler** (TaskScheduler.cpp) | task queue, pending list, running tasks, blockers, thread allocations | Schedule, Cancel, CheckTasks, completion, block and unblock | a filter taken once and used for several tasks; tasks that block each other; cancellation of tasks on the move; destruction | every task runs or is cancelled; no two rivals run together; nothing runs on a suspended iModel |
| **Presentation connections and caches** (Connection.cpp, ECPresentationManager.cpp, UpdateHandler.cpp) | primary and proxy connections, suspensions, caches keyed by rules | open, suspend, resume, close, invalidate | events that nest or are left out; closing against requests; stale proxies | a suspended iModel resumes; a closed one answers or cancels what was asked |
| **Cloud SQLite containers** (CloudSqlite.cpp) | attached containers, write lock, dirty blocks | connect, acquire lock, upload, release, disconnect | lock lost or expired; partial upload | only the lock's holder uploads |
| **Briefcase-based id sequences** (BeBriefcaseBasedIdSequence.cpp) | a cached block of ids and the stored last id | GetNextValue, reload after rollback | rollback after ids were handed out | no id twice |
| **Schema synchronisation** (SchemaSync.cpp) | versions in the sync db and locally | Init, Push, Pull | two files committed separately | local schema is never newer than its version says |
| **ECDb schema and mapping**, **ECSql** | schema tables, mapping, prepared statements | import, map, prepare | size, not concurrency | translation |
| **Elements, models, domains** | object caches above the tables | insert, update, delete, handlers | cache against rollback | cache equals table |
| **DgnDb open, close, upgrade** | open database, profile versions | open, upgrade, close | crash in an upgrade | one version at a time |
| **Background workers of an iModel** (DgnDbWorker.cpp) | per-iModel throttle, current workers | queue, execute, cancel, complete | completion on the main thread after close | no worker outlives its iModel |
| **N-API glue** (IModelJsNative.cpp, JsInterop*.cpp) | handles to native objects | one native call per client call | order of calls chosen in JavaScript | what the client is told |
| **Bentley foundations, geometry, geo-coordinates, units, EC objects, SQLite, other vendored code** | – | – | – | not part of this work |

### 1.2 How the parts of the core interact

* The application edits tables through SQLite. The session extension
  (`TxnManager` is a `ChangeTracker`) records, for every row of a tracked table,
  the value it had when it was first touched; DDL statements are collected beside it.
* `SaveChanges` is `Db::SaveChanges -> Savepoint::Commit -> StopSavepoint`
  (BeSQLite.cpp). Before COMMIT it asks the listener, `TxnManager::_OnCommit`
  (TxnManager.cpp:1209). `_OnCommit` empties the tracker, deletes reversed
  rows, runs the dependency handlers, and inserts a row in `dgn_Txns` with the
  changeset, in the same SQLite transaction. It answers with one of *commit*,
  *nothing to do* (COMMIT anyway), *PropagateChangesFailed* or
  *RebaseInProgress* (no COMMIT and no ROLLBACK).
* Undo and redo apply the stored changesets of a range of rows, set `Deleted`
  and commit with tracking off. The changeset of a Txn is never rewritten,
  except by a rebase.
* Pushing is three calls with an upload, in the client, between them: the Txns
  are grouped into a file and a new session starts; later
  `FinishCreateChangeset` deletes rows by comparing ids and advances the parent.
* Pulling is a loop of calls, made by `PullMergeEnd` in C++ or by JavaScript
  with the same calls: reverse all local Txns, apply the changesets of the hub,
  each with a commit, then reinstate the local Txns one by one, rewriting the
  changeset of each.
* Concurrent queries run beside all this, on read-only connections of their own
  (requests for the primary connection run on the thread of their caller). They
  share with the rest only the open file, whose app data holds the
  `ConcurrentQueryMgr`; dropping that app data is its shutdown.
* A briefcase may keep the changesets of its Txns in `.txn` files. Every insert,
  rebase and deletion of a row then also writes, replaces or deletes a file,
  which no rollback undoes; opening the briefcase compares each file with the
  checksum in its row, and refuses to open when one differs.
* Presentation requests are tasks of a scheduler with a thread pool of its own.
  The ECDb tells it, by events on the thread that changes schemas, when an
  iModel's tasks must stop: they are cancelled, kept from starting and waited
  for; clients make the cancelled requests again.
* After a crash the file is opened again: SQLite rolls back, memory is lost, and
  `TxnManager::Initialize` starts a session one past the highest id found.
  `PullMergeConf` is in the file and says how far a pull had got.

## 2. Plan

The order is by importance to a user's data; each step adds to the previous
ones.

| # | Module | Models | State |
|---|---|---|---|
| 1 | `TxnTable` | ids, rows, queries, replay | done |
| 2 | `TxnManager` | one briefcase: edits, saves, undo/redo, push, discard, crashes | done but for the operations named in 2.1 |
| 3 | `PullMerge` | extends `TxnManager` with pull, merge and rebase | done |
| 4 | `TxnTableProofs`, `TxnManagerProofs` | lemmas; `Spec => []TypeOK`; `Spec => []NextIdIsFree` | done |
| 4a | `RecordProofs` | `DiskRecorded`, `WorkRecorded`, `TxnsChain`, `RedoStackSound`, `PackagedTxnsKept`, `UndoStaysInSession` of `Spec` | done |
| 5 | `UndoHistory`, `TxnHistory` | abstract specification: a line of recorded states, undo and redo; `TxnManager` implements it | done |
| 5a | `RecordProofs`, second part | that it does, for every briefcase and history | done |
| 6 | `TxnFiles` | `.txn` files against rows and checksums, with failures and crashes | done |
| 7 | `QueryQueue` | requests, executors, monitor, cancel, shutdown | done |
| 8 | `TaskScheduler`, `Presentation` | tasks, allocations, blocking, cancellation; composed with suspensions, closing and destruction | done |
| 9 | `Subsequences`, `SubsequenceProofs` | what erasing elements of a queue leaves, and the lemmas about it, for 9a and 11 | done |
| 9a | `PresentationProofs` | every safety property of `Presentation`, for all requests, operations and allocations | done |
| 10 | `TxnFilesProofs` | `LocalTxnsKeepFiles`, `UndoRedoFindFiles`, `FilesTypeOK` for all changesets and bounds | done |
| 11 | `QueryQueueProofs` | every safety property of `QueryQueue`, for all requests, executors and limits | done |
| 11a | `PullMergeProofs` | `PullTypeOK`, `RebasedInOrder`, `NextIdIsFreeAfterPull`, `RebaseLeavesNoneReversed`, `OnlyRebasedTxnLeaves` of `PullSpec` | done |
| 11b | `PullMergeProofs`, second part | `DiskRecorded`, `PullWorkRecorded`, `PulledCleanly`, `TxnsChain`, `RedoStackSound`, `PackagedTxnsKept` of `PullSpec` | done |
| 12 | stash and restore, `RevertTimelineChanges`, id sequences, schema synchronisation, cloud containers, dependency graph | | as time allows |

`PullMerge` composes with `TxnManager` by extension: its next-state relation
takes the actions of `TxnManager` as they are and adds its own; the hub is a
shared variable, which another briefcase also appends to. `Presentation`
composes with `TaskScheduler` the same way: each of its actions is one of the
scheduler joined with what happens to a connection. `TxnFiles` stands beside
`TxnManager` instead of extending it: it looks at the same calls, but for the
rows and the files only, so that every file operation can be a step.

### 2.1 Operations of the modelled part still to come

`RevertTimelineChanges` (TxnManager.cpp:2052-2167), stash and restore,
`ReplayExternalTxns`, nested savepoints, and a second briefcase with a whole
state of its own (the present one is an environment that pushes any single-row
change).

### 2.2 Theorems worth proving next

* That undo and redo are exact in a briefcase that pulls: `UndoHistory` with a step
  that replaces its whole line when a rebase ends.  TLC would have to check the
  mapping first, with ids that a rebase has erased standing for states of the line.

## 3. The modules and the code

### 3.1 `TxnTable`

A value, not a state machine. The tracked tables are a function from `Keys` to
`Values`: a key is a row of a tracked table, and a value may stand for "no such
row", so inserts, updates and deletes are alike. A changeset gives for each
touched key the old and the new value; applying it for undo or redo skips a key
that does not hold the old value, as `UndoChangeSet::_OnConflict` does
(TxnManager.cpp:543). A `TxnId` is a pair compared lexicographically, which is
how the code compares the 64-bit number made of session and counter; `NoTxn`
stands for the invalid id. A *table* maps ids to rows; the queries see reversed
rows, as those of the code do. `StateAt(table, base, id)` says what the rows
before `id` make of `base`: per key, the value of its last writer.

### 3.2 `TxnManager`

| Variable | In the code |
|---|---|
| `db`, `txns`, `conf`, `parent` | tracked tables, `dgn_Txns`, `PullMergeConf` and the parent changeset as the open SQLite transaction sees them |
| `disk` | the same four as of the last COMMIT |
| `curr`, `reversed`, `multi` | `m_curr`, `m_reversedTxn`, `m_multiTxnOp` |
| `tracked`, `ddl` | the changes of the SQLite session (keys with their old values), `m_ddlChanges` not empty |
| `lastSave` | what the last SaveChanges returned |
| `creating` | `m_changesetInProgress`, with the file's content |
| `job` | how far a call that loops over Txns has got |
| `hub` | the versions iModelHub holds; external |

One action is one native call, except for the calls that loop over rows:
undo, redo, discarding and the reversal that begins a pull are a first action
(guards, what is abandoned first), one step per Txn, and a last action with the
COMMIT, so that a failing Txn or a crash falls anywhere between. The application
thread owns the `TxnManager` and its calls do not overlap: every action of the
client requires `job.op = "None"`.

| Actions | Code |
|---|---|
| `Edit`, `EditDdl`, `AbandonChanges` | the change tracker; `AbandonChanges` |
| `SaveChanges` = `SaveUntracked`, `SaveTracked`, `SaveFails`, `SaveRefused` | the four outcomes of `_OnCommit` and `StopSavepoint` |
| `BeginMultiTxnOperation`, `EndMultiTxnOperation`, `RestartTxnSession` | the same calls |
| `ReverseTxns`, `ReverseTo`, `ReverseAll`, `CancelTo`, `CancelNothing`, then `ReverseStep`, `ReverseDone`, `ReverseFails` | undo, `ReverseTxnRange`, `ReverseActions` |
| `ReinstateTxn`, then `ReinstateStep`, `ReinstateDone`, `ReinstateFails` | redo, `ReinstateActions` |
| `StartCreateChangeset`, `StartCreateChangesetFails`, `Upload`, `FinishCreateChangeset`, `StopCreateChangeset` | pushing; `Upload` is the hub's side |
| `DiscardLocalChanges`, then `DiscardStep`, `DiscardReversed`, `DeleteAllTxns`, `DiscardFails` | `DiscardLocalChanges` with its two commits |
| `Crash` | the process dies, or the file is closed unsaved, and `Initialize` runs on what was committed |

Propagation by dependency handlers is any change of one data key
(`Propagated`). An abort inside `_OnCommit` that throws, after which the
application must end, is a `Crash`.

### 3.3 `UndoHistory` and `TxnHistory`

`UndoHistory` is what a user of undo is promised, without Txns, ids or files:
a recorded state, a list of states before it, and a stack of what was undone.
Undo goes back to an earlier state, redo returns to exactly the states the undo
left, discarding gives the version the briefcase started from; each takes effect
at once or not at all; a save ends what can be redone, a new session also what
can be undone.

`TxnHistory` maps `TxnManager` to it. The recorded state is the content of the
file (`disk.db`); the states before it are what `StateAt` says the rows before
each Txn of the session make of the version; an element of the stack of undone
states stands for one range of `m_reversedTxn`; the command is the operation of
`job`. So the loops of `TxnManager`, their failures, edits and everything else
that is not committed are stuttering steps, and the step with the COMMIT is the
one that takes effect. The run `undo` checks the refinement, `RecordProofs` proves
it (section 5).

### 3.4 `PullMerge`

`driver` says which call of the rebase loop comes next. The loop
(`PullMergeEnd`, or JavaScript making the same calls) is
`RebaseNext, RebaseReinstateTxn, RebaseUpdateTxn`, repeated, then `RebaseEnd`;
an exception leaves it (`"Failed"`) and its caller calls `RebaseAbortTxn`. While
`driver = "Update"` the client's own rebase handlers may edit. Merging a
changeset takes any outcome of the conflict handler (`Merged(change, replaced)`):
its choice depends on causes a state does not show, and which the client may
override. Outside the loop the client's calls are those of `TxnManager`; a rebase may
have erased Txns of the present session, so undo and cancel (`UndoTo`) go to an id
without a row only as a mishap (3.8).

### 3.5 `TxnFiles`

A briefcase that keeps its Txns in files, seen through rows and files alone.
Tracked tables are left out: a changeset is one of a few, and the changeset of a
row stands for the checksum stored with it, so a row and its file belong
together when the two are equal.

| Variable | In the code |
|---|---|
| `files` | the `.txn` files and what is in each: a changeset, or `Torn` after a write that did not end |
| `txns`, `pull`, `disk` | `dgn_Txns` and `PullMergeConf` as the open transaction sees them, and as of the last COMMIT |
| `curr`, `redo`, `pushing` | `m_curr`, `m_reversedTxn`, `m_changesetInProgress` with its end |
| `call` | how far the call that changes files has got, the rows it is at, and the file moved aside |
| `released` | ghost: the committed rows nobody needs any more, because they were uploaded or given up |

A call that changes files is cut at every file operation, so that a failure or a
crash comes between any two; calls that only read files, and commit once (undo
and redo), are one step.

| Actions | Code |
|---|---|
| `SaveChanges`, `SaveFails`, `WriteTxnToFile`, `WriteTxnToFileFails`, `InsertTxn`, `InsertTxnFails`, `CommitSave` | `_OnCommit` and `SaveTxn`: the file is written, then the row inserted, then COMMIT |
| `DeleteTxnFile`, `DeleteRows` | the loops of `DeleteReversedTxns`, `DeleteFromStartTo`, `DeleteAllTxns`, and `PullMergeEraseTxn` |
| `ReverseTxnRange`, `ReinstateTxn`, `CancelTo`, `CancelNothing` | undo, redo, cancel |
| `StartCreateChangeset`, `PackTxns`, `PackTxnsFails`, `StopCreateChangeset`, `FinishCreateChangeset`, `CommitFinish` | pushing |
| `DiscardLocalChanges`, `DiscardReverse`, `DiscardFails`, `DeleteAllTxns`, `CommitDeleteAll` | discarding |
| `PullMergeReverseLocalChanges`, `MergeChangeset`, `PullFails` | the beginning of a pull |
| `PullMergeUpdateTxn`, `MoveAside`, `MoveIn`, `ReplacingFails`, `PullMergeEraseTxn`, `PullMergeSetTxnActive`, `CommitRebase`, `RebaseFails`, `PullMergeRebaseAbortTxn`, `PullMergeRebaseEnd` | the rebase of each Txn, with its file moved aside, the new one moved in, and the old one put back when a move fails |
| `Crash`, `Open` | rollback, and `ValidateFileBasedTxns` on opening |

`TxnFilesProofs` (section 5) proves that local Txns keep their files and that undo
and redo find them.

A DDL Txn is not read by undo, but its file is there like those of the others,
so `Readable` asks for all. After an error behind propagation the application
must end: `Aborted` leaves only `Crash`.

### 3.6 `QueryQueue`

Stands by itself. An action is what one thread does between two points where
another may come in: a critical section of `RunnableRequestQueue::m_mutex`, or
one of the reads `Enqueue` makes without it.

| Variable | In the code |
|---|---|
| `req[r]` | a request (priority, restart token, whether its delay and time limit have passed, `m_cancelled`, its answer) and how far its caller is in `Enqueue` |
| `requests`, `state`, `lastDelayed` | `m_requests`, taken from the end; `m_state`; `m_lastDelayedQueryId` |
| `exec[e]` | each executor thread and the request it holds |
| `pool` | how many connections `m_conns` holds, and how many null pointers |
| `monitor`, `manager` | the monitor thread; the life of the `ConcurrentQueryMgr` and the steps of its destruction |
| `thrown` | the thread in which `SetResponse` threw "already responded" |

| Actions | Code |
|---|---|
| `CountQueue`, `RejectStopped`, `Admit`, `ExecuteSynchronously`, `InsertSorted`, `NotifyOne` | `Enqueue`, from the unlocked reads of size and state to `notify_one` |
| `CancelRequest` | `Future::Cancel` |
| `DelayEnds`, `TimeExceeded` | the clock, as `IsReady` and `IsTimeExceeded` see it |
| `WaitInQueue`, `Dequeue`, `GetConnection`, `OpenFails`, `Execute`, `Exit` | the loop of an executor |
| `RemoveTimedOut`, `StayUp`, `ShutdownWhenIdle`, `WakeMonitor` | the loop of the monitor |
| `Shutdown`, `BeginStop`, `StopRequests`, `JoinMonitor`, `JoinExecutors` | `DropAppData`, then `~Impl`, `~QueryMonitor`, `~QueryExecutor` in the order C++ destroys them |

A caller inside `Enqueue` holds a reference to the manager's app data
(`WithInstance`), so destruction waits for it: `BeginStop` requires that no caller
is inside. Finding the manager and reading the size of the queue are one
step, as nothing can tell them apart. The unlocked read of the
size, while another thread inserts, may see the begin and the end of the vector
from different moments; it can then only be too large. The kinds of answers a
query computes (rows, some rows, an error) are one, `"Result"`. `State::Paused` is
in the code and never set. Delays are ignored unless configured
(`Delays = {FALSE}`); the passing runs have both.

### 3.7 `TaskScheduler` and `Presentation`

`TaskScheduler` is `ECPresentationTasksScheduler`. All its state is protected by
one mutex, so an action is one critical section; but `CheckTasks`, with which
nearly every section ends, is cut into the tasks it starts, because tasks execute,
locks of hierarchy levels change and waiting threads go on while the mutex is
held. `MutexFree` is the guard of every other section.

| Variable | In the code |
|---|---|
| `queue`, `pending`, `running`, `blockers` | `m_prioritizedQueue`, `m_pendingTasks`, `m_runningTasks`, `m_blockers` |
| `promise` | the promise of each task: open, resolved, cancelled, or cancelled with the request to ask again |
| `awaited` | the completions a suspending, closing or destroying thread waits for |
| `check` | the `CheckTasks` under way: its filter, which is the tasks that hold threads and may block others, looked up once when it begins, and those it has taken from the queue since; how many threads are left. The free slots are those both leave |
| `locked` | the hierarchy levels locked in the cache, maybe by another process |
| `phase`, `suspended` | of each connection: open, closing, closed; `m_isSuspended` |
| `script` | the schema events the operation under way has yet to raise |
| `manager` | how far the destruction of the manager has come |

| Actions | Code |
|---|---|
| `Schedule` | `_Schedule`: the task is added in one section and checked in the next; they are one action, because a section that comes between finds the task in the queue, as it does when it comes first |
| `RunPending`, `RunQueued`, `EndCheck` | `CheckTasks` |
| `Finish`, `Abort` | the completion of a task; the client giving it up |
| `BlockInterruptTasks`, `Unblock` | `ECPresentationTasksBlocker`: cancel, block, wait; and its destruction |
| `Issue`, `Reissue` | a request; the same request after a suspension cancelled it |
| `BeginOperation`, `SchemaEvent` | `OnBeforeSchemaChanges`, `OnAfterSchemaChanges` |
| `BeginClose`, `EndClose`, `BeginDestruction`, `CloseConnections`, `CancelAll`, `AwaitAll`, `Delete` | closing an iModel; `~ECPresentationTasksManager` |

A request is of a level of a hierarchy or of content, or it is one of the
manager's own tasks, which handle a change of an iModel or of a setting. `Blocks`
is what each kind says it keeps from starting. Thread allocations map a priority
to a number of threads; a task takes one of the highest slot its priority may
use. `EventsOf` lists the events each schema operation of the ECDb raises, those
of the operations inside it included: importing schemas raises the pair twice,
one inside the other. `DropSchemasFails`, `PullFails` and
`ApplySchemaChangesFails` are their early returns, and the finding of
`suspended_forever`; the passing run is without them.

Not in the model, and seen while reading: when one `CheckTasks` starts several
tasks, a task that blocks another, without being blocked by it, may start together
with it, as the filter was taken before (TaskScheduler.cpp:175-205, comment at
192); a cancelled task that should have told the caches of a change is not run
again (ECPresentationManager.cpp:51 and 253; a client's request is,
IModelJsNative.cpp:6985-7000); no ping task runs while any blocker exists, of
whatever iModel (TaskScheduler.cpp:320-322), so tasks that wait for a level locked
by another process then wait for the blocker as well.

### 3.8 What the client is taken to do

The engine relies on its caller, which is JavaScript and outside `src/`. The
client in the model

* calls `AbandonChanges` after a save that failed to propagate;
* does not edit, save, push or discard between the start of a pull and the end
  of its rebase;
* merges a changeset outside a pull only when it has no local Txns or asks for
  `fastForward`, and not over rows its own reversed or live Txns touch;
* does not discard, or start a pull, while it uploads a changeset;
* starts a rebase that failed again only if no Txn had been rebased;
* does not undo to the id of a Txn that a rebase has erased;
* ends every schema operation, opened iModel and request on the thread it began
  it on, and destroys the presentation manager when it is in no other call of it.

The code enforces none of the first six. Those of the transaction manager are
lifted by putting a name in the constant `Mishaps`: `SaveAfterFailure`,
`SaveWhileMerging`, `MergeOverTxns`, `MergeOverRedo`, `DiscardWhilePushing`,
`PullWhilePushing`, `RestartRebase`, `UndoPastErased`, and in `TxnFiles`
`DiscardWhilePulling`.
Other mishaps are not the client's doing: they are states of the engine, left out
of the passing runs because the properties do not hold through them.

| Mishap | What happens | Violates |
|---|---|---|
| `SaveAfterFailure` | run `save_after_failure` | DiskRecorded |
| `SessionGoesBack` | run `session_goes_back` | DiskRecorded |
| `RestartRebase` | run `restart_rebase` | DiskRecorded |
| `SaveWhileMerging` | a save while changesets are merged deletes the local Txns that wait for the rebase (TxnManager.cpp:1266) | OnlyRebasedTxnLeaves |
| `CrashInRebase` | a crash between the commit that names the next Txn and the one that rebases it: PullMergeResume goes on with the one after it, and the Txn stays reversed (TxnManager.cpp:4640) | RebaseLeavesNoneReversed, DiskRecorded |
| `MergeOverRedo`, `MergeOverTxns` | a changeset applied over rows of reversed or live Txns | DiskRecorded |
| `DiscardWhilePushing`, `PullWhilePushing` | the packaged Txns change or go | PackagedTxnsKept |
| `UndoPastErased` | an undo, or cancel, to the id of a Txn of the session that a rebase has erased as empty: `ReverseTo` checks only that the id lies between the start of the session and `m_curr` (TxnManager.cpp:2997-3003), and the range it pushes begins at no row, so that `ReinstateTxn` fails each time (3132-3139, `ReadChanges` 2847-2853) | RedoStackSound |
| `CrashWhileReplacing` | a crash after the file of a rebased Txn was replaced and before the COMMIT of its row: the file is that of the rebased Txn, the row that of the old one (comment TxnManager.cpp:4170) | LocalTxnsKeepFiles |
| `FailWhileReplacing` | the same when a file operation, the DELETE or the COMMIT fails there | LocalTxnsKeepFiles |
| `DiscardWhilePulling` | discarding in a rebase deletes the files of Txns that wait and rolls their rows back | LocalTxnsKeepFiles |
| `DeleteFails` | a `.txn` file cannot be deleted and stays behind | none |
| `OpenFails` | a connection for queries cannot be opened: in `queries`, and in `connection_lost` | EveryRequestAnswered |
| `LateInsert` | an idle manager stops itself after a caller has read `m_state` and before it inserts; the later `~Impl` finds it stopped and answers nobody | EveryRequestAnswered |
| `LateAtStop` | a request answered by `Stop`, still in the queue, exceeds its time before the monitor's next scan, which answers it again and throws on the monitor thread | AnsweredOnce |
| `CancelAfterStop` | a client cancels such a request | AnsweredOnce |

## 4. The runs

| Run | Result | Instance | Distinct states |
|---|---|---|---|
| `undo` | passes | a data key and a schema key with two values, 2 sessions, 3 Txns, multi-Txn operations | 349 418 |
| `pull` | passes | one key with three values, 2 Txns, one version pushed, fairness | 174 603 |
| `txn_files` | passes | two changesets, 2 sessions of 2 Txns | 2 016 468 |
| `queries` | passes | 4 requests, 2 priorities, with and without delay, a queue of 2, 2 callers at a time, 1 executor, `OpenFails` | 1 865 418 |
| `shutdown` | passes | 2 requests, a restart token, with and without delay, a queue of 1, 2 executors, automatic shutdown, fairness | 181 748 |
| `presentation` | passes | 2 iModels, 3 requests made up to twice, 2 threads, one import of schemas, 2 events, fairness | 197 541 |
| `save_after_failure` | violated | `undo` and `SaveAfterFailure` | |
| `session_goes_back` | violated | `undo` with 3 sessions and `SessionGoesBack` | |
| `restart_rebase` | violated | `pull` and `RestartRebase` | |
| `refused` | violated | `txn_files` | |
| `connection_lost` | violated | `shutdown` without delays and with `OpenFails` | |
| `suspended_forever` | violated | `presentation` with the operations that fail, and no events | |

The bounds. Undo over three rows has a range in the middle, a grouped row, and a
row outside of the range; two sessions have Txns that cannot be undone. (With
three sessions and a single data key, for a Txn of a session that is neither
the first nor the present one, all properties of `undo` hold as well: set
`MaxSession = 3`, `Keys = {element}` and `SchemaKeys = {}`.) Three values are needed for a true
conflict in a rebase: a row that holds neither what a Txn expects nor what it
writes. `MaxTimeline = 2` lets another briefcase push, or this one, or one after
the other has been refused. `MaxTxns` bounds the rows and the counter of an
id, `MaxSession` the sessions; a call that would exceed them does not happen,
which is why deadlock cannot be met: `Crash` is always possible.

Of requests, a queue limit of two with two callers gives a queue of three, the
least in which putting a delayed request back differs from leaving it at the
end, and a fourth request that must be refused. One executor is enough for the
order of the queue; lost wake-ups, interruption of a running request and joining
need the two of `shutdown`. `queries` uses the symmetry of requests, `shutdown`,
which checks liveness, does not. `queries` and `connection_lost` do not check
deadlock: when the only connection cannot be opened, the executor never goes on,
which is what `connection_lost` shows; `shutdown`, without that mishap, does
check it.

Of files, two sessions of two Txns have a range of two on the redo stack, a DDL
Txn followed by a data Txn, and Txns saved while others are uploaded; two
changesets tell a file from its replacement. `txn_files` does not check
deadlock: a briefcase that is refused, or was aborted, goes no further.

Of presentation, two requests for one level with a task that blocks all of its
iModel, and a second iModel, are what the filter, the pending list and the
rivals need; two threads let two tasks run at once. One import raises nested
pairs of events. The events bound what clients and other processes do at will:
giving a request up, locking a level, closing an iModel. `presentation` does not
check deadlock: when the manager is deleted nothing is left to do.

### 4.1 What the passing runs show

* **DiskRecorded** — what the file holds is its parent version plus what its live
  Txns say, after every commit, through undo, redo, push, discard, pull and
  crashes. This is the claim of the comment on `_OnCommit`
  (TxnManager.cpp:1207).
* **WorkRecorded**, **PullWorkRecorded** — the same for the open database
  between calls.
* **TxnsChain** — each Txn starts from the state its predecessors lead to, so
  undo never skips a row by accident.
* **RedoStackSound**, **NextIdIsFree**, **NextIdIsFreeAfterPull** — the redo
  stack describes rows that exist and joins at `m_curr`; every row from `m_curr`
  on is reversed, so ids can be used again.
* **PackagedTxnsKept** — while a changeset is uploaded, undo, edits, saves and
  failures leave the file's copy of its Txns as they were written to it.
* **UndoStaysInSession** — no undo or redo reaches schema or DDL Txns, packaged
  Txns or earlier sessions.
* **UndoIsExact** — `TxnManager` implements `UndoHistory`: undo, redo, cancel,
  discarding, saves, pushes, failures of any of them and crashes do to the
  recorded states exactly what the abstract specification says; what redo brings
  back is what undo left, whatever was used, deleted or numbered again between.
* **PulledCleanly**, **RebasedInOrder**, **RebaseLeavesNoneReversed**,
  **OnlyRebasedTxnLeaves** — a pull never meets a conflict while merging, rebases
  in order, leaves nothing reversed, and removes nothing but what it erased.
* **RebaseLoopEnds** — every rebase ends, is aborted, or dies with the process.
  Fairness: `WF(RebaseStep)`. The loop is synchronous code; the only thing that
  can keep it from the next call is a failure, an abort or a crash, and those are
  where the property lets it end.
* **LocalTxnsKeepFiles** — whatever step of a save, undo, cancel, push or rebase
  fails or is cut off by a crash, each committed Txn that was neither undone,
  uploaded nor given up has its file, with the checksum of its row.
* **UndoRedoFindFiles** — between calls, each Txn that undo or redo may be asked
  for can be read: no deletion takes the file of a range on the redo stack.
* **AnsweredOnce**, **HeldInOnePlace** — through dequeuing, delays, cancellation,
  restart tokens, time limits and shutdown, a request without an answer is in one
  place and nobody answers twice.
* **QueueBounded** — the unlocked check of the limit is wrong by no more than the
  other callers inside `Enqueue`.
* **HighestFirst** — as long as no delayed request was put back, an executor takes
  a request of the highest priority. (Among equals it takes the newest: the queue
  is sorted upwards, new requests go to the end of their equals, and the end is
  taken.)
* **OneWaitsPerToken** — of the requests with one restart token at most one waits.
* **NoLostWakeup** — no request waits while all executors sleep, unless its caller
  is about to notify.
* **EveryRequestAnswered**, **ShutdownEnds** — every request is answered, and a
  manager that is dropped is destroyed. Fairness: threads run and the mutex passes
  none over for ever; a delay ends, because the clock goes on; a query ends,
  because its progress handler interrupts it when its time is over; the detached
  thread of an automatic shutdown runs. Nothing makes a client enqueue, cancel or
  shut down.
* **TaskInOnePlace** — through cancellation, suspension and `CheckTasks`, a task is
  in one place; while its result is open it will complete; and who awaits a task
  awaits one that will complete.
* **QuietWhileBlocked** — once the thread that suspends or closes an iModel has
  waited for its tasks, none of them runs until it is done. The wait and the
  blocker are two sections; tasks that were pending may try to start between.
* **RivalsApart** — two tasks that keep each other from starting, like requests
  for one level of a hierarchy, never run together, though the filter of
  `CheckTasks` does not know of the tasks it has just started.
* **DeletedAtRest** — when the scheduler is deleted no task and no blocker uses it
  any more, though the wait before leaves the pending list out.
* **RequestsAnswered**, **ClosingEnds** — a client's request gets a result, is given
  up, or is cancelled because its iModel is closed, whatever suspends it
  meanwhile; closing an iModel and destroying the manager end. Fairness:
  `WF(Scheduling)`, threads that hold the mutex go on, those that want it get it,
  and tasks end; `WF` of `Reissue`, which the native addon does by itself; of
  `Unlock`, as a lock is released by who creates the level and expires if that
  process is gone; of `SchemaEvent` and `EndClose`, which are the next statements of
  a thread that has been let go; of `Destruction`, likewise. Nothing says that a
  client asks, gives up, changes schemas or closes.

### 4.2 What the violated runs show

| Run | The engine | The text it contradicts |
|---|---|---|
| `save_after_failure` | after PropagateChangesFailed the tracker is empty and the transaction open; the next SaveChanges commits edits no Txn holds | TxnManager.cpp:1207 "impossible to make changes to the database that aren't also saved in the dgn_Txn table" |
| `session_goes_back` | `StartCreateChangeset` may restart at a lower session than the one it remembers in `m_endTxnId`; `FinishCreateChangeset` then deletes Txns saved during the upload | ChangesetTxns.cpp:1125 "we can allow further changes to this briefcase that will be included in the *next* changeset" |
| `restart_rebase` | after an abort the rebase starts from the first Txn again, finds it applied, and erases it as empty | TxnManager.cpp:1207 |
| `connection_lost` | a connection that cannot be opened leaves a null pointer in the pool, which takes a place for ever; with no place left the executors ask again every second without end, and neither the requests nor the join are ever done | ConcurrentQueryManagerImpl.cpp:294-296 "callers blocked in Future::Get()/Wait() would hang forever. Convert any failure into an error response." |
| `refused` | a cancel deletes the files of reversed Txns and commits nothing; a save that fails to propagate rolls their rows back: closed then, the briefcase has rows without files, and `ValidateFileBasedTxns` keeps it from opening (TxnManager.cpp:3245, 3018, 494-536, DgnDb.cpp:186-190) | TxnManager.cpp:1264 "That's OK, just leave them reversed and they'll get thrown away on the next commit (or reinstated.)" |
| `suspended_forever` | `DropSchemas`, the Pull of a schema synchronisation and the application of schema changes return early on an error, between OnBeforeSchemaChanges and OnAfterSchemaChanges (SchemaManagerDispatcher.cpp:1129, SchemaSync.cpp:923-955, TxnManager.cpp:2517-2583): the iModel stays suspended and its requests wait for ever | SchemaManager.h:673 "Called after any schema changes are applied or if apply process failed" |

The mishaps of 3.8 without a run are reproduced by naming them in `Mishaps`. With
a schema key in `pull` UndoStaysInSession does not hold: a rebase that erased the
newest Txns makes the next session take a number that had been closed, and undo
reaches its Txns.

### 4.3 Faults

An operator whose name begins with `Faulty`, or which a comment calls a fault, is
a plausible bug next to the definition it is a bug of. `PROJECT.json` pairs each
property of each passing run with one of them; with the fault in place TLC finds
the property violated in that run.

## 5. The proofs

`TxnTableProofs` holds lemmas about `TxnTable`: the order of ids is irreflexive,
transitive and total; a finite, non-empty set of ids has a first and a last
element; inserting, keeping, marking and filtering rows gives a table; the
difference of two states, its inverse and the grouped change are changesets;
applying a changeset gives a state. A second part is about what a table says
(`StateAt`, `Replay`, `Chained`): the state before a Txn depends only on the rows
before it; marking, dropping or adding rows at or after a cut leaves the state at
the cut alone; undoing or redoing the row at the cut of a chained table gives the
state at the cut before or after it. `StateAt` takes each key from its last writer,
so none of this needs an induction.

`TxnManagerProofs` proves **`TypeCorrect`: `Spec => []TypeOK`**, for every set of
keys and values and all bounds. `TypeOK` is not inductive as it stands:

* the id of a new session and the rows the loops visit are the last, previous
  or next of a set of ids, which exist only when the table is finite
  (`FileOK`, `DiskOK`);
* `curr` is set from the range of the undo or redo under way, so while one runs
  `job` must hold ids of rows and not the invalid id (`JobOK`);
* the version uploaded is made from the last one, so the hub must hold one
  (`HubOK`).

`TypeInv` is the conjunction of these; `TypeInvInit` and `TypeInvStep` show it
inductive, with one lemma per group of actions, and the theorem combines them.
Assumptions: `SchemaKeysAssumption`, `InitialStateAssumption`,
`BoundsAssumption`. Nothing is assumed of `Mishaps`: the types hold through every
mishap.

Its second part proves **`NextIdIsAlwaysFree`: `Spec => []NextIdIsFree`**: undo
hands the ids of the Txns it reverses out again, and the INSERT of `SaveTxn` never
meets a row that is wanted. `NextIdIsFree` speaks of the moments between calls;
`IdInv` adds what leads there:

* the file, too, has nothing live from `curr` on, at all times (`FileFreed`),
  for a crash or a failed save falls back on it;
* while undo runs, everything from the row it is at is reversed and its range
  ends at `curr` (`ReverseFreed`): `ReverseStep` leaves no row between the one it
  reverses and the last;
* while redo runs, everything from the end of the top range is reversed, and that
  end is the next `curr` (`ReinstateFreed`); the ranges of the redo stack end later
  the deeper they lie, and none before `curr` (`Stacked`);
* a Txn that is live in the file is live in the open table (`FileKept`): a new
  session is found past the rows of the open table, and a crash brings those
  of the file back.

The last is what a save after a failed propagation breaks, the finding of
`save_after_failure`; the theorem assumes `AbandonsFailure`, that the client abandons
such a save (`"SaveAfterFailure" \notin Mishaps`), and excludes no other mishap:
crashes and failing steps are in it. `IdInvInit` and `IdInvStep`, with the
`TypeInv` above, show `IdInv` inductive.

`RecordProofs` proves what a client of the briefcase relies on, all of it from one
inductive invariant, `RecordInv`, on top of `TypeInv` and `IdInv`:
**`FileIsAlwaysRecorded`** (`DiskRecorded`), **`WorkIsAlwaysRecorded`**
(`WorkRecorded`), **`TxnsAlwaysChain`** (`TxnsChain`), **`RedoStackIsAlwaysSound`**
(`RedoStackSound`) and **`PackagedTxnsAreAlwaysKept`** (`PackagedTxnsKept`), each as
`Spec => []P`. None of the five is inductive alone: a step of undo keeps the
database recorded only because the Txn chains, a save keeps the chain only because
the database is recorded, and both only because the reversed Txns are the newest
ones. `RecordInv` says

* of the open table and of the file, that they are `Sound`: the Txns chain from the
  parent version, the live ones come before the reversed ones, and the database is
  the state at the cut between the two;
* that the present session is `Complete`: below `curr` no id of it is missing. An
  undo may then take a range off `curr` and the next save still finds the id free and
  the range above it whole;
* that the redo stack `IsStack`: ranges that meet, begin at rows, and start at `curr`;
* that what was packaged is still there (`Packaged`), and the file stands at the
  version the changeset was made from until the push is over;
* where a call that loops over Txns is between two steps (`Reversing`,
  `Reinstating`, `Discarding`, `Deleting`), what the open table says up to the row the
  loop has come to, and that the file still says what it did when the call began.

`RecordInv` takes a parameter, the briefcase's past. `"Whole"` is one in which only
`TxnManager` has been at work, and all of the above holds. In one that is `"Rebased"`
pulls have erased Txns, so a session need not be `Complete` below `curr` (undo and redo
still find the Txns their ranges begin at), and a changeset may have been merged that
is not committed yet. The lemmas about single calls are proved for both, which is
what `PullMergeProofs` needs.

The assumption is `Careful`: three of the mishaps of 3.8 do not happen.
`SaveAfterFailure` and `DiscardWhilePushing` break the properties in the model;
`SessionGoesBack` breaks the chain, because ids after it no longer follow the order
in which the Txns were made. Crashes, failing steps, failing saves that are abandoned
and pushes given up are included.

**`UndoAlwaysStaysInSession`: `Spec => UndoStaysInSession`** is an action property
and needs one more invariant, `SessionInv`: a Txn that is not pure data lies in a
session below `curr[1]`, or is a reversed Txn at the start of a present session that
is empty (an uncommitted deletion that was abandoned brings it back) with nothing on the
redo stack; ranges and the call under way lie in the session of `curr`.
`ReverseTxns` walks back over the rows it finds and compares each with the start of
the session; it stops there only because that row exists, which is `Complete`.

The second part of `RecordProofs` proves the refinement, **`UndoIsAlwaysExact`: `Spec => UndoIsExact`**,
under `Careful`, with the mapping TLC uses. A session is taken as one *line* of states:
the `k`-th is what the rows before counter `k` make of the version (`Line`). What undo can
go back to is the line up to `curr`, the recorded state is the line at `curr`, and each
range on the redo stack is a piece of the line from its first counter to its last. The
first part proves about lines what undo (`UndoOnLine`), redo (`RedoOnLine`) and a save
(`SaveOnLine`) mean for the sequences `UndoHistory` speaks of. Then every action is one
of three things: it leaves the line alone where something can be reached, it moves
`curr` along it, or it starts a new one. What that needs beyond `RecordInv` and
`SessionInv` is `HistoryInv`:

* `SameLine`: the open table leads to the same states of the session as the file, up
  to `curr` and, when there is something to redo, beyond it. They differ only by rows
  that a call has marked or that were deleted as reversed; marking changes no
  `StateAt`, because the Txns chain, and deleting changes none that can still be
  reached. At the COMMIT of an undo, a redo or a save the line is therefore what it was;
* `OnlyEdits`: between calls the open database is the file and the tracked edits, so a
  save puts exactly the state that was recorded before on the line;
* `RangesAhead`: no range on the redo stack is empty, so redo returns to a state.

A push deletes the rows the line begins after and moves the version to the state they led
to (`DeletingPushedAgrees`): the line is the same from another base.
`ReverseDoneIsUndo`, `ReinstateDoneIsRedo`, `SaveTrackedIsPush`, `FinishIsPush`,
`DiscardIsHistory` and `CrashIsRestart` are the steps that change something; all others
stutter, begin a command, end one or forget what could be redone (`StepStutters`,
`StepBegins`, `StepEnds`, `StepForgets`).

`TxnFilesProofs` proves **`LocalTxnsAlwaysKeepFiles`: `Spec => []LocalTxnsKeepFiles`**
**`UndoRedoAlwaysFindFiles`: `Spec => []UndoRedoFindFiles`** and
**`FilesAreTyped`: `Spec => []FilesTypeOK`** of `TxnFiles`, under the assumption
`Safe`: none of `CrashWhileReplacing`, `FailWhileReplacing` and
`DiscardWhilePulling`, the three mishaps of 3.8 that break the property.
Everything else that can go wrong is in it: a crash between any two file
operations, a write that is torn, a file that cannot be deleted (`DeleteFails`),
an INSERT, DELETE or COMMIT that fails. The property compares files with the rows
of the last COMMIT, while each call looks at the rows of the open transaction;
the inductive invariant `FilesInv` says how far the two may differ, in five parts:

* `PullInv`: which calls run in a rebase and which outside, that its end is
  committed with it and lies after every row, and that a closed briefcase holds
  what was committed;
* `RowsInv`: while a call works in the open transaction, its rows have the
  checksums of the file, but for the row it has just written; rows that are gone
  were reversed, or are those a finished push or `DeleteAllTxns` drops. So the
  COMMIT of any call makes no row local that the call did not look at;
* `IdsInv`: from `curr` on nothing is live, in the open rows and in the committed
  ones. So the file a save writes, whole or torn, and the file a failed save
  leaves behind, are at the id of no local Txn. It rests on the redo stack being
  in order, which redo takes `curr` from;
* `CallInv`: a call that deletes files names reversed Txns only, a call that
  has come to its COMMIT has valid files for the rows it names, and a rebase
  replaces one file and keeps what was in it;
* `KeepInv`: the property, and that no file about to be deleted belongs to a
  local Txn, at each step of the loop.

There is one lemma per action (`SaveChangesStep`, ..., `OpenStep`), with one step
per part; undo, cancel and redo share `Replayed`, what they do to the rows.

`UndoRedoFindFiles` speaks of live Txns, whose files `FilesInv` keeps, and of the ranges
on the redo stack, which are reversed: the files of such Txns are what saves, cancels
and discards delete. `RedoKept` adds that there is a redo stack only between calls, with
the rows that are committed, or in the two calls that delete nothing but released Txns
(`Finish`, `DeleteAll`), and that each of its Txns has its file or was released.

`PresentationProofs` proves every safety property the run `presentation` checks, of
`SafetySpec`, for every set of requests, iModels, schema operations and allocations
of threads; nothing is assumed beyond `TaskSchedulerAssumption` and
`PresentationAssumption`, but for `DeletedIsAtRest`.

* **`RivalsNeverMeet`: `SafetySpec => []RivalsApart`.** It is inductive as it
  stands, and rests on one lemma, `CheckStarts`: a task that begins to run was
  looked at by `CanExecute`, which asks every running task. The filter taken at the
  beginning of `CheckTasks`, which is stale by then, is not needed.
* **`BlockedIsQuiet`: `SafetySpec => []QuietWhileBlocked`.** The strengthening is
  `BlockedAreAwaited`: while a blocker of an iModel exists, each task of it that
  runs is awaited by the thread that put the blocker there. Blocking establishes
  it, because cancelling and blocking are one section (`BlockInterruptTasksBlocks`);
  no task joins the running ones past a blocker (`CheckStarts`); one that ends
  leaves both sets. `StepEffects` says what each action does to running tasks,
  blockers and awaited tasks, so that the inductive step is about four cases and
  not about all actions.
* **`PresentationTypeCorrect`: `SafetySpec => []PresentationTypeOK`.** That
  `m_isSuspended` is never taken below zero is not inductive as a type: it needs
  that a connection is suspended at least as deep as the events still to come will
  resume it. `Depths` lists the pairs of a depth and the events that remain, the nested
  suspensions of importing schemas included; each event leads from one to another
  (`EventsLeadOn`), and `ScriptInv` says every connection is at least at one of them. Of the
  scheduler, `ThreadsAreFinite` and the finiteness of the running tasks give the
  number of threads left.
* **`TaskIsInOnePlace`: `SafetySpec => []TaskInOnePlace`.** `TaskInv` says the same
  with sequences that have no repetition (`Apart`), and needs one more fact, `ShutInv`:
  once the manager has cancelled everything, both queues are empty, nothing is
  scheduled any more and what runs is what it awaits. `RunQueued` takes a task out of
  the middle of the queue (`RemoveAtProperties`), cancelling erases many (`Without`).
* **`DeletedIsAtRest`: `SafetySpec => []DeletedAtRest`**, if `Operations` holds only
  `BalancedOperations`, those whose every way out ends the suspension they began. The
  rest of it is `ShutInv`; that no blocker is left needs `BlockInv`, that a
  blocker belongs to a connection being closed or suspended, and `BalanceInv`, that a
  connection is suspended exactly as deep as its events say. With
  `DropSchemasFails` TLC finds it violated: the blocker of the suspension nobody ends
  is still there when the scheduler goes, which is another face of
  `suspended_forever`.

`QueryQueueProofs` proves every safety property the runs check of `QueryQueue`, of
`SafetySpec`, for every set of requests, executors, priorities and tokens and every
limit; `QueryQueueAssumption` is assumed of them throughout. Its first part says that
an insertion where `Sorted` finds the first higher priority keeps an ascending queue
ascending (`SortedProperties`). What erasing requests leaves, in order and once, is
`WithoutElements` and `WithoutKeepsOrder` of `SubsequenceProofs`: an enumeration of a
finite set of numbers exists and `InOrder` is one. The scheduler's queues use the
same lemmas. Then

| Theorem | Property | Excluded mishaps | Invariants beside `TypeInv` |
|---|---|---|---|
| `TypeCorrect` | QueueTypeOK | none | an executor has a request exactly while it is at work on one |
| `RequestsInOnePlace` | HeldInOnePlace | `LateInsert` | `PlacesInv`, `AnswersInv` |
| `NoSecondAnswer` | AnsweredOnce | `LateAtStop`, `CancelAfterStop` | `PlacesInv`, `OnceInv` |
| `WakeUpsAreNotLost` | NoLostWakeup | none | `PlacesInv` |
| `NewestOfTokenWaits` | OneWaitsPerToken | none | `PlacesInv` |
| `HighestPriorityFirst` | HighestFirst | none | `PlacesInv`, `OrderInv` |
| `QueueNeverFarOverLimit` | QueueBounded | none | `PlacesInv`, `BoundInv` |

* `PlacesInv`: no request is twice in the queue, with two executors, or with one and
  in the queue; what is in either was inserted. Everything else rests on it, because
  the code finds a request in the queue by comparing, and removes or moves it alone.
* `AnswersInv`: a request between its insertion and its answer is in the queue or
  held; a held one has no answer; what waits has one exactly when `Stop` has gone
  through the queue; and once `Stop` has set the state no caller is left that has
  read it before. The last is what `LateInsert` breaks.
* `OnceInv`: answered requests wait only after `Stop`, when no caller is inside, and
  none of them is late, so neither the insertion of a request with their token nor
  the monitor meets one.
* `OrderInv`: until a delay puts a request back the queue ascends by priority.
* `BoundInv`: each caller between its count and its insertion is one of at most
  `MaxCallers`, and the queue and those callers together stay below the limit plus
  that number. `QueueBounded` follows; the queue alone would not be inductive.

Most actions touch neither the queue nor priorities and tokens; `StepIsQuiet` says
so once, and the proofs of the last three split only the others.

`PullMergeProofs` proves every safety property that `pull` checks of `PullSpec`, which
is `TxnManager` with pulls in it: those of the rebase first, then those of what the
Txns record.

**`PullTypeCorrect`: `PullSpec => []PullTypeOK`** assumes nothing of `Mishaps`. Its
invariant is `TypeInv` with three conjuncts about what a pull is at: the hub has the
version the open transaction is at, the file's, and the one a push that has been
uploaded leads to (`Versions`); the id to return to is one whenever a pull is under
way, in memory or in the file (`Ends`); and the position of the loop fits the Txn
`conf` names (`Driving`). The actions of `TxnManager` are not
gone through again: `SaveMoves` and `TxnStepMoves` say what they may do to `conf`, the
parent and the hub, and `TypeInvStep` of `TxnManagerProofs` the rest.

The four after it share one inductive invariant, `PullInv`, which says at each moment of a
pull how far the open transaction and the file have got, since the calls between
them commit at different places:

* `FileStage`: a pull that the file says is merging has every local Txn reversed; one
  it says is rebasing has reinstated those up to the Txn it names;
* `WorkStage`: when the open transaction may differ from the file: until the first
  changeset is committed a rollback forgets the pull, afterwards it returns to it;
* `LoopStage`: before each call of the loop, that the Txns up to, or below, the one
  `conf` names are live and the rest reversed, and that a loop that fails, or is entered
  with edits, has not reinstated any Txn yet;
* `IdStage`: with no pull under way, `IdInv` of `TxnManagerProofs`; in one, every local
  Txn is before the recorded end, and until it is committed the file a rollback falls
  back on still has room from `curr` on;
* `DdlRows`: a DDL Txn has no data, so reinstating it leaves nothing tracked that
  would make the next call of the loop throw.

The assumption is `Steady`: `AbandonsFailure`, and none of `SaveWhileMerging`,
`RestartRebase` and `CrashInRebase`. Each of these breaks one of the properties (3.8
and the findings). Included are crashes everywhere else (a pull that dies while
it merges, or with a Txn under way, is resumed), failing steps, rollbacks, pulls given
up, discarding in the middle of one, and merges over local Txns.
`PullInvStep` has one lemma per call of the pull and of the loop (`PullReverseIsStaged`,
`MergeIsStaged`, `RebaseBeginIsStaged`, `RebaseNextIsStaged`, `UpdatedIsStaged`, ...)
and one for all calls outside (`LocalStep`, `MergingStep`, `RebasingStep`, by the stage
they come in).

* **`RebaseIsInOrder`** (`RebasedInOrder`) is a part of `LoopStage`;
* **`NextIdIsFreeOncePulled`** (`NextIdIsFreeAfterPull`) is `IdStage` when no pull is
  under way; that `RebaseEnd` brings `IdInv` back is the point;
* **`NoneIsLeftReversed`** (`RebaseLeavesNoneReversed`) and **`NoOtherTxnLeaves`**
  (`OnlyRebasedTxnLeaves`) are action properties; the second needs `FileKeepsTxns`, that
  what a COMMIT writes has the Txns the file had.

The second part of `PullMergeProofs` is about what the Txns record through pulls. A
pull takes the database apart and puts it together again: the local Txns are reversed,
changesets are applied to the version beneath them, and each Txn is reinstated, may
be edited by the client, and is written again from what is tracked then, or erased
when nothing is. It commits at some of these points only, so a crash or rollback may
come between any two. `PullRecordInv`, on top of `PullInv`, says what is true on the way:

* `FileRecord`: the file is recorded at every moment, and its live Txns chain. Outside
  a pull it is as `RecordInv` says of a file; while a rebase is under way nothing from
  `curr` on is live in it;
* `CallRecord`: with no pull under way, `RecordInv` with past `"Rebased"`, or, while a
  changeset is being pushed, `"Whole"`: one is not packaged from a session that has
  lost Txns, as the push begins a session of its own;
* `PullingRecord`: in a pull nothing is being pushed or redone, and no failed save is
  left: what an undo had left on the stack is gone before a Txn is given a new meaning;
* `ReversalRecord`: while the Txns are reversed, for a pull or to discard them in one,
  the table chains and the database is the state at the row the loop has come to;
* `MergeRecord`: while changesets are merged, the database is the version of the hub
  that was merged last. That is why the next one finds each row as it expects it;
* `LoopRecord`: before each call of the loop the database, less the tracked edits, is
  what the version and the Txns rebased so far lead to, and these chain. The Txns still
  reversed need not chain; each is made to when its turn comes (`OneMoreLeadsOn`).

`PullRecordStep` has again one lemma per call (`PullBeginsRecorded`, `MergeIsRecorded`,
`ReinstatedIsRecorded`, `UpdatedIsRecorded`, `RebaseEndIsRecorded`, ...). The calls outside
a pull are those of `RecordProofs` (`LocalCallIsRecorded`), and a crash in one
(`CrashIsRecorded`) falls back on `FileRecord`. Merging over rows no local Txn has touched
leaves what the Txns say of other rows alone (`UntouchedLeadAlike`,
`UntouchedStayChained`).

* **`PulledFileIsRecorded`** (`DiskRecorded`) and **`PulledWorkIsRecorded`**
  (`PullWorkRecorded`): through undo, push, pull and rebase the database is the parent
  version and what the live Txns say, in the file always, in memory whenever the
  client may read it;
* **`PullsAreClean`** (`PulledCleanly`): no changeset of the hub can conflict with what a
  pull merges it into;
* **`PulledTxnsChain`** (`TxnsChain`), **`PulledRedoStackIsSound`** (`RedoStackSound`) and
  **`PulledTxnsAreKept`** (`PackagedTxnsKept`): undo, redo and push find after a pull what
  they need.

The assumption is `NoMishap`, `Mishaps = {}`, which is also what `pull.cfg` says. Each
name in `MishapKinds`, put there alone, makes TLC find one of the eleven properties
violated on the instance of `pull`, so none of them can be left out. The mishap
`UndoPastErased` came to light in this proof: `RedoStackSound` of `PullSpec` could not be
proved with undo to any id, and TLC showed why.

Only model-checked: the liveness properties (`RebaseLoopEnds`,
`EveryRequestAnswered` and the others that need fairness), which are beyond the prover.
Every other property of a passing run is stated by a theorem.

## 6. What is not modelled, and what the model leaves out

* The operations of 2.1.
* `m_allowSaveChangesDuringRebase`: it is set just before, and reset by, the save
  it allows.
* Schema changes are changes of schema keys; DDL has no effect on keys.
* The causes of conflicts, and the client's override of the handler: any subset
  of the conflicting rows may be replaced.
* Of `.txn` files: their paths and format; rows that hold their changes
  themselves, as older versions wrote them; the `.tmp` and `.bak` files a crash in a
  rebase leaves behind. Stash and restore, which the code refuses for such
  briefcases. `ReverseTxnRange` ignores what its SaveChanges returns
  (TxnManager.cpp:2980); the model's COMMIT does not fail there.
* Of presentation: `SetThreadAllocationsMap`, which only tests call; the disposal of
  rulesets; proxy connections; the content of the caches and the update handler; a
  blocker that outlives the scheduler (its owner would have to destroy the manager
  during its own call).
* Of concurrent queries: the caches of prepared statements and schemas, attached
  files, quotas of memory, the configuration; a callback that enqueues from within
  `SetResponse`; a request between `Dequeue` and `SetRequest` is in the model
  (`"Taken"`), and a newer one with its restart token passes it over, as in the
  code; use of the queue after the manager is gone, by a future that outlives it
  or by the detached thread of an automatic shutdown, has no defined outcome and is
  left out.
* `GetPendingTxnsSha256HashString` (TxnManager.cpp:1456) reads only, and names a
  column, `IsDeleted`, that the table does not have.
* The data that makes up most of the repository: geometry, coordinate systems,
  EC schemas and their mapping, ECSql, elements, and vendored code. It is
  translation from one form to another, with no protocol between actors.
* The components of 1.1 with status *not_modelled* in `PROJECT.json`, each with
  its reason there; those of the plan come in its order, the others are
  translation, data layout or vendored code.
