# A formal model of the Worktable server

Worktable (`src/`) is a local-first workspace that people and agents share: documents,
spaces, threads, records and interactive tools kept as files, served by one Bun process
to browsers, MCP clients and chat connectors. This directory holds TLA+ models of the
parts of the server whose correctness rests on the *order* of file writes, locks and
calls, the TLC runs that check them, and TLAPS proofs about them.

All source paths below are relative to `src/packages/server/src/` unless they say
otherwise. Line numbers are in `PROJECT.json`, which maps every definition to its code.

## 1. Inventory

### The programs

| part | what it is | modelled |
|---|---|---|
| `packages/server` | the server: all state, all rules | the subject of this project |
| `apps/web`, `packages/ui`, `packages/types` | the browser client, shared components and schemas | no: presentation and types |
| `apps/cli`, `apps/desktop`, `apps/skill-installer`, `apps/docs` | installer, launcher, desktop shell, documentation site | no: process management and text |
| `packages/openclaw-plugin`, `packages/hermes-plugin`, `packages/mcp`, `packages/mcp-connect` | adapters that carry deliveries and MCP calls to agents | only as the environment of the delivery model |
| `packages/hosted-contract`, `packages/public-analytics` | schemas of the hosted service, analytics | no |

### The server's components

**Cross-process lock** (`cross-process-lock.ts`). State: one lock file per protected
directory, naming its owner (pid, birth token, random id), and a quarantine file per
recoverer. Operations: acquire (create a candidate, `link` it into place, otherwise look
at the age and the owner and recover a stale lock), release. Used by the delivery store,
the thread files, the share lifecycle and others, by separate server and worker
processes. Hard: check and act are different system calls, processes die anywhere, pids
are reused. Correct when holders exclude each other, recovery deletes nobody's live lock,
and no acquisition hangs.

**Thread files** (`thread-store.ts`). State: one JSON file per conversation: members,
identities, messages with their response requests, a revision. Operations: create,
append, reply, reassign, edit, scan all files into digests. The files are portable: they
are synced, restored and deleted from outside.

**Delivery store** (`thread-delivery-store.ts`). State: one machine-local file with a
record per (thread, message, identity): its participant, state, attempts, lease, backoff;
and per participant and thread the newest revision reconciled (a watermark). Operations:
queue, claim, accept, progress, fail, reply, retry, expire, reconcile with what a scan of
the thread files saw.

**Thread service** (`thread-service.ts`, `routes/grok-bot.ts`, `routes/threads.ts`).
No state of its own: every request is a *sequence* of locked sections on the two files
above. Hard: other requests run between the sections, the server may die between them,
scans are applied in another order than they were taken, leases expire under an answer.
Correct when "replied" is told only of what the thread holds, every open request is
finally settled, attempts are bounded and leases fence.

**Thread waiters and signals** (`thread-waiters.ts`). Revision counters and one-shot
promises; correct when no wake-up is lost between reading a revision and waiting on it.

**GrokBot runtime and wakes** (`grok-bot-store.ts`, `grok-bot-runtime.ts`,
`agent-wake.ts`). Connections, probes, routines, deadlines and hourly wake budgets;
correct when at most one remote execution of a bot is in flight.

**Document lifecycle journal** (`document-lifecycle-journal.ts`, with
`document-folder-move.ts`, `document-delete-adapter.ts` and others as callers). State: at
most one journal directory in `active/`, at most one settled journal awaiting
reconciliation, and the files of the documents: sources, history, annotation files,
aliases, hidden items. Operations: exact rename, folder rename, exact and folder delete,
folder archive, format change, startup recovery. Hard: a move is dozens of disk writes,
any of which may be the last before a crash or may throw; recovery crashes too; editors
outside the server write the same files meanwhile. Correct when a move is atomic, recovery
recognizes every state it can meet and ends, and shares and collaboration state follow.

**Workspace safety and requests** (`workspace-safety.ts`,
`workspace-request-lifecycle.ts`, `workspace-export-coordinator.ts`,
`workspace-replacement-coordinator.ts`, the executor in `index.ts`). Two admission gates
(reads, writes), drains and reopen; export leases, a queue of captures, one scheduled
replacement; the recovery fence. Correct when a drain sees no admitted request left, refuses new ones,
always reopens, and no request waits for the drain that waits for it.

**Workspace replacement and transfer** (`workspace-replacement.ts`,
`workspace-replacement-recovery.ts`, `workspace-transfer-jobs.ts`,
`workspace-clear-jobs.ts`, `workspace-snapshot-restore.ts`, `workspace-transfer-v2.ts`,
the executor and the boot in `index.ts`). State: the live root, and per job a staging
tree, a backup, a committed, a failed and an interrupted tree, a rollback marker and a
record (`job.json`). Operations: prepare, confirm, swap (two renames), commit (a third),
roll back, discard, expire, and recovery at every start. Hard: the process may die or a
call may throw at every rename, removal and record write, in rollback and recovery too;
deleting a tree is many steps; two jobs leave artifacts beside the same root; derived
files and private stores must be refreshed for the tree that won. Correct when the
workspace is always the whole old or the whole new tree, is never served undecided, and
is served again in the end.

**V2 document data** (`document-data-lifecycle-v2.ts`, `document-create-recovery-v2.ts`).
A second journal around the first.

**Document writes and collaboration** (`document-write-service.ts`, `store.ts`,
`yjs-manager.ts`, `document-collaboration-state.ts`, `ws.ts`, the editor's
`doc-document.tsx`). State: a live room per open document (content, generation counters,
timers, a persist slot, the signal that a person typed), per socket the frames that are
held back, the stored Yjs state, the file and the record of its latest version.
Operations: join, receive, debounced save, sync from disk, agent write, unload, and two
barriers that drain rooms (a path move, a workspace capture). Hard: a save is seven
awaits and a disk sync three, and between any two of them a person types, an agent
commits, another program writes the file, the document moves, the socket drops or the
server dies. Correct when nothing written is overwritten, an edit is acknowledged only
when it was written, a capture holds what was accepted, no accepted edit is flushed to a
path the document has left, and nobody waits for ever.

**Share links** (`share-links-store.ts`, `share-store.ts`, `share-lifecycle.ts`).
Links, passwords, expiry, view limits, revocation with the document.

**Records, search, catalog** (`record-store.ts`, `record-index.ts`, `search-index.ts`,
`document-catalog.ts`). Derived from files, rebuilt on doubt.

**Versions, annotations, deleted items** (`version-store.ts`, `version-retention.ts`,
`annotation-store.ts`, `deleted-items.ts`). Retention and purge.

**Authentication, pairing, sessions** (`auth.ts`, `pairing-store.ts`, `token-store.ts`).
One-time codes, expiring tokens.

**MCP, backups, updates, cloud tasks** (`mcp-events.ts`, `workspace-backup-worker.ts`,
`update-runner.ts`, `cloud-task-runtime.ts`). Request and response, child processes,
network.

### How they interact

```
browser, MCP client, connector
        |  requests (admitted by workspace-request-lifecycle, fenced by workspace-safety)
        v
thread service ----- thread files  (portable; lock per thread)
   |    ^  \________ delivery store (machine-local; cross-process lock)
   |    | wake-ups        ^ policy
   v    |                 |
thread waiters      GrokBot runtime
document routes --- lifecycle journal --- sources, history, annotations, hidden items
                        |        \------- share store (revoked before the first change)
                        \---------------- Yjs manager (frozen, drained, re-keyed after the commit)
export jobs ------- capture: drains writes, drains the Yjs rooms, reads the tree
import, clear and snapshot jobs --- executor: drains everything, stops the server, swaps
                                    trees, restarts; boot recovery finishes what it left
```

The hazards in `PROJECT.json` list, at its line, each thing in this code that is hard to
test, and the properties aimed at it.

## 2. Modules

| module | models | extends or instantiates |
|---|---|---|
| `CrossProcessLock` | acquire, recover, release; crash and restart of processes | |
| `MCCrossProcessLock` | its constants for TLC | `CrossProcessLock` |
| `CrossProcessLockProofs` | theorems | `CrossProcessLock` |
| `ThreadDeliveryStore` | the delivery file and each of its mutations, as operators on the file | |
| `ThreadDelivery` | the thread file, and the service's requests as sequences of locked sections over both files | `ThreadDeliveryStore` |
| `MCThreadDelivery` | its constants for TLC | `ThreadDelivery` |
| `ThreadDeliveryProofs` | theorems | `ThreadDelivery` |
| `WorkspaceReplacement` | the jobs, the executor's swap, commit and rollback, boot recovery | `AtomicReplacement` as the specification it implements |
| `AtomicReplacement` | the promise: the workspace changes by an edit or, whole, at one instant | |
| `MCWorkspaceReplacement` | kinds of jobs for TLC | `WorkspaceReplacement` |
| `WorkspaceReplacementProofs` | theorems | `WorkspaceReplacement` |
| `CollaborationRooms` | one document's room, its clients, saves, disk syncs, agent writes, unloading, moves and captures | |
| `MCCollaborationRooms` | its constants for TLC | `CollaborationRooms` |
| `CollaborationRoomsSteps` | lemmas: what each operator and each action does to a room, its slot and its syncs | `CollaborationRooms` |
| `CollaborationRoomsTypes` | lemmas: each action keeps the types and the shape of the parts | `CollaborationRoomsSteps` |
| `CollaborationRoomsProofs` | theorems | `CollaborationRoomsTypes` |
| `DocumentLifecycle` | exact and folder renames with journal, error handler, startup recovery, reconciliation | `AtomicMove` as the specification it implements |
| `AtomicMove` | the promise: a move happens in one step, or not at all | |
| `MCDocumentLifecycle` | two plans for TLC | `DocumentLifecycle` |
| `DocumentLifecycleProofs` | theorems | `DocumentLifecycle` |
| `WorkspaceRequests` | admission, drains, captures, replacements and long polls of one server process | |
| `MCWorkspaceRequests` | its constants for TLC | `WorkspaceRequests` |
| `WorkspaceRequestsProofs` | theorems | `WorkspaceRequests` |

Operators called `<Definition>_<Word>` are slips: the form a plausible bug would give the
definition below them. No action uses one; `PROJECT.json` pairs each with the property
that breaks when it takes the definition's place.

### CrossProcessLock

`lock` is the file at the lock's path, `quarantine[p]` the file process `p` renamed away,
`pc[p]` the system call it makes next, `observed[p]` the owner it judged stale. Each
action is one system call with the decision after it: `Link` (`linkSync`), `Stat`,
`Read` (`readOwner`), `CheckAlive` (`ownerProcessIsCurrent`), `Recheck`, `Rename`,
`Remove` or `Restore` (`quarantineStaleLock`), `ReleaseRead`, `ReleaseRemove`. Time is two
facts: a lock file is older than the stale age (`aged`), a deadline has passed
(`expired`). `Crash` and `Restart` give a pid a new incarnation, which is what the birth
token tells apart. `displaced` is a history variable: a rename has carried off a file
other than the one judged. Left out: the read of a half-written owner (the candidate is
complete before it is linked) and file systems without birth tokens.

### ThreadDeliveryStore and ThreadDelivery

One thread is modelled; the delivery file's locks make threads independent of each other
except for Grok Bots, which `TwoMessages` brings in. The delivery file is a record:
`deliveries` by key (message and identity), `ahead` (which records stand before a key in
the array, all that a claim's loop tells apart), `canonicalRevisions` (the watermarks). A
record keeps `live` for "its lease has not run out" and `waiting` for "its backoff has
not run out". `Fence` is `Number.MAX_SAFE_INTEGER`.

The pure operators of the store (`claimThreadDelivery`, `failThreadDelivery`,
`reconcileThreadDeliveries` and the rest) map a file to a file, each named after the
function it is the effect of. `ThreadDelivery` puts them in order:

* `Post` publishes the message; `QueuePost` queues its delivery, or `LosePost` (the
  server died in between).
* `BeginScan` reads the thread files, completely or not; `ApplyScan` reconciles later
  under the delivery lock; `DropScan` if the server died or the stamp said that nothing
  changed.
* `Claim` leases; `ReadClaim` reads the thread and hands the work out; `ReadRefused`
  (access is gone: the attempt is refunded), `FailClaim` (thread or message gone, or no
  longer assigned).
* `BeginReply` decides whether the reply needs a lease; `CheckLease` and `AppendReply`
  are separate sections, while `CommitReply` (managed replies) is one section whose save
  may be lost; `MarkReplied` follows.
* `Accept`, `Progress`, `Fail` are adapter calls with the current lease; with another one
  the code throws and changes nothing.
* `LeaseExpires`, `BackoffElapses`, `ExpireDeadlines` are the clock; `Retry`,
  `SetPolicy`, `WorkspaceReset` the owner; `Edit`, `Assign`, `DeleteThread`,
  `RestoreThread` everyone who writes thread files.

Left out: titles, participants' lists, search, idempotent creation, the waiters (a claim
that waits is one that is made later), the version-1 file upgrade, the activity views.

### DocumentLifecycle

A move's **plan** is a sequence of items in the order the code moves them, with the
stride at which its cursor is saved and whether it is an exact rename; `plan` is chosen
from `Plans` once, so one run covers a folder and a document. `at[i]` counts
the disk writes item `i` has had: `n * Length(i)` is endpoint `n`, what lies between are
the states the code calls linked, parked or intermediate. `active` and `marker` are the
two directories the journal may be in; `mem` is the operation's copy of it, which may be
ahead of the disk: a folder's cursor is saved once in `Stride` documents. Each action is
one disk write or one decision of `executePrepared`; `Throw` lets any call throw and
`Crash` lets the server die before any of them. `Recover` reads the journal from disk (in
the error handler and at `Boot` alike), goes forward after a commit (`Redo`) and back
before it (`Undo`). `Touch` is another program that edits a file or creates one at the
other endpoint; edits from before the plan are what `Prepare` captures. `shared` and
`collab` are what a move must do to links and collaboration state.

`Share` and `OpenDocument` need an idle, unfenced server: the share lifecycle lock and
the frozen collaboration paths hold them off during a move, and requests wait for startup
recovery (`index.ts:2010`). Left out: delete, archive, format change (the same engine
over other items), a rename that changes letter case only, the hash comparison itself
(`touched` is its verdict).

### WorkspaceRequests

One process with one event loop, so an action is what runs between two awaits.
`accepting` are the two gates. `request[r]` is where handler `r` stands: it is refused,
waits for admission or is admitted (`Arrive`, `Readmit`, `Finish`), and an admitted one may
be a long poll (`Look`, `Reconcile`, `Wait`, then `Signal`, a drain or `PollTimesOut`).
`export[e]` and `turn` are export jobs: a lease, a place in `snapshotQueue`, the drain of
writes, the capture. `replacement` is the executor: scheduled, waiting for exports, the
250 ms timer, the drain of everything, then stop, swap, restart and commit, any of which
may throw (`Replace`), and `Reopen`, `RollBack` or `Exit`. A drain that found requests is
"parked" until a `Finish` makes it look again, as `drainWaiters` does. `after[r]` is
`signalRevision`, `seen[r]` (history) the last signal the poll's reconciliation included.

Taken as one step: `release()` and the resumption in the failure path, which a few
microtasks separate and no I/O; the process's exit and the start its supervisor makes.
Captures queue in any order. No admitted request awaits a capture: the operator's routes
are not workspace requests and the other jobs run detached from theirs
(`workspace-clear-jobs.ts:60`). Left out: pausing Yjs, flushing writers before the
capture, requests that are no workspace requests.

### WorkspaceReplacement

`fs` is the file system beside the root: per path nothing, a whole tree (its source and
the edits made since), a half-deleted one (`Partial`) or a marker. `job` are the records,
`derived` and `policy` the trees for which derived files, private stores and team
policies were last made. All of these survive a crash; `server`, `exec` (the executor's
or the boot's next step), `cur`, `pending`, `todo`, `owed` and `script` do not. `script`
is the list of file operations the running function has still to make, so that every
rename, every removal (two steps for a tree) and every record write is a step of its own.

* `PrepareStart`, `PrepareDone`, `PrepareFail`, `Confirm`, `SnapshotBegin`, `Schedule`,
  `Refuse`, `Expire`, `MaintainClear`: the jobs. A failed import may be prepared again.
* `Drain`, `Stop`, `SwapOut`, `SwapIn`, `SwapBack`, `Reset`, `Restart`, `Commit`,
  `OnCommitted`, `OnSucceeded`, `Release`: `beginPreparedWorkspaceReplacement` and the
  executor around it.
* `MarkRollback`, `Unseat`, `Restore`, `ResetBack`, `Relaunch`, `OnFailed`, `Terminate`:
  the failure path, whose rename may itself fail, so that the new tree is deleted file by
  file.
* `Boot`, `Recover`, `Recovered`, `BootReset`, `BootFinalize`, `BootAcknowledge`: the next
  process. `Recovery(j)` is the table of what the artifacts on disk and the record mean.
* `ScriptThrows`, the failing disjunct of each step and `Crash` are the faults.

`done` and `reviewed` are history: the jobs past their commit point, the tree a clear or a
snapshot restore was confirmed for. Left out: the records and the retained receipt of the
document-storage migration, uploads, chunk hashes, downloads, the archive format; what
preparing extracts and validates is one tree. Admission is in `WorkspaceRequests`, whose
`Replace` this module details: `Drain` is its drain, already shown to leave no request.

### CollaborationRooms

A document's content is the set of edits it shows (the CRDT is a library: merging is
union, and what a room has removed stays removed), so a lost edit is a missing element.
An action is what runs between two awaits. `slot` is the room's persist slot: who holds
it (a save, an agent's write, the disk sync a write asks for) and what it read so far.
`sync` are the slot's and the watcher's disk sync, `load` a cold load, `barrier` the move or capture.
A client is `off`, in its HTTP `upgrade`, `pending` or `joining` until `Attach`, `on`, or
an `orphan` of a destroyed room; its frames travel in `out` and wait in `queue` with the
marks `early` and `before`, which say that a barrier or an agent's commit does not hold
them.

* `LocalEdit`, `Upgrade`, `Connect`, `Attach`, `Drop`, `Receive`: the editor and its
  socket, with the signal `marker` that it sends again until acknowledged.
* `LoadRead`, `LoadImport`; `PersistTimer`, then `PersistStat`, `PersistExport`,
  `PersistCompare`, `PersistSettle`, `PersistWrite`, `PersistRecord`, `PersistState`,
  `PersistLand`; `PersistFails`.
* `WatcherEvent`, `SyncRead`, `SyncApply`, `SyncCache`, `SyncFails`; `ExternalWrite`,
  `Echo` (a watcher event for the server's own write).
* `AgentBegin`, `AgentCheck`, `AgentTyped`, `AgentHold`, `AgentCommit`, `AgentAdopt`,
  `AgentStore`, `AgentRelease`, `AgentFails`; `AgentCold` (no room) is one step.
* `UnloadBegin`, `UnloadEnd`; `BarrierBegin`, `BarrierDrain`, `BarrierDrained`, then
  `Captured` or `MoveFile` and `Rekey`, and `BarrierEnd`; `Crash`.

`Awaited` says that a promise's continuation runs before timers and sockets: between the
end of a save and what awaited it no other save starts and no client comes or goes.
History variables: `told` (edits signalled to the room), `wiped` (taken out of the room by
a disk sync or an agent's write), `kept` (everything the file was given), `collided` and `crossed` (an outside write
or a disk sync came where the code has no guard), `forgotten`, `faulted`, `shot` (what the
capture must hold, and may hold: `Accepted`). Left out: format and generation transitions, `deleteState`,
the REST replacement of content, pending versions, quarantine and shutdown, awareness,
pings, analytics and the revocation of access.

## 3. Runs

| run | constants | shows |
|---|---|---|
| `lock` | 2 processes, 2 calls and 2 restarts each | `ExclusiveUnlessDisplaced`, `RecoveryDeletesOnlyDead`, `AcquireEnds` |
| `delivery` | 1 request, 2 participants, revisions to 3 | `RepliedIsCanonical`, `NoStaleRevival` |
| `delivery_managed` | 2 requests to one Grok Bot, 3 leases | `OneManagedExecution`, `LeaseFencing`, `AttemptsBounded` |
| `delivery_settles` | 1 request, 2 attempts, fairness | `RequestSettles` |
| `delivery_in_line` | 1 request | `InLineWithThread` fails |
| `move` | a folder of 3 documents, a hidden item, 2 metadata files, stride 2; or one document of 5 items, 2 renames; fairness | `AllOrNothing`, `StrandedOnlyByEdits`, `SharesRevokedFirst`, `CollaborationFollows`, `MoveSettles`, and that it implements `AtomicMove` (`MoveIsAtomic`) |
| `move_stranded` | the document, 1 rename | `NeverStranded` fails |
| `requests` | a reader, a writer, 2 export jobs, 2 signals, fairness | `CaptureSeesNoWriter`, `ReplacementIsAlone`, `WaitsForCapture`, `NoLostWakeUp`, `AdmissionReopens`, `ReplacementEnds` |
| `replacement` | a clear beside an import (2 attempts) or a snapshot restore, 1 edit per tree, 3 faults, fairness | `ServesSettledTree`, `BackupIsNamed`, `CompleteWasCommitted`, `ReplacesWhatWasReviewed`, `FirstAttemptsRefresh`, `ServesAgain`, and that it implements `AtomicReplacement` (`ReplacementIsAtomic`) |
| `replacement_reset` | one import, 2 attempts, 2 faults | `ServesRefreshedState` fails |
| `collaboration` | 1 client, 2 edits, 1 outside and 1 agent write, moves and captures, queues of 3, 3 events, fairness | `CacheIsTrue`, `WrittenStays`, `AckMeansKept`, `NothingStranded`, `CaptureHoldsAccepted`, `EverythingSettles` |
| `collaboration_unload` | the same without agents, other programs and barriers | `UnloadForgetsNothing` fails |

**Why these bounds are enough to be worth something.** *Lock:* displacement needs a dead
owner, a recoverer that has rechecked and a process that acquires in between; two
processes reach it when the dead one comes back, and the theorem covers every number.
*Delivery:* revision 3 allows a request to be withdrawn and assigned again after a scan
was read; two participants allow rebinding; one attempt makes the last attempt frequent,
and `delivery_settles` has a real retry. Two leases suffice where one delivery is leased
again while the first lease is still quoted; three where two deliveries are.
*Moves:* three documents and a stride of two make the saved cursor stay behind by one and
skip the last stride; every kind of item occurs, the bundle with its parked state last.
The second exact rename meets the remains of the first.
*Requests:* two jobs let a capture follow another's finally block and a replacement wait
for both; two signals let one fall into a scan and one after it; every handler serves
requests without end, and replacements follow each other.
*Replacement:* two jobs let one meet the other's committed or failed trees at the same
root; two attempts let an import meet the remains of its first; an edit tells the
reviewed tree from the live one; three faults are a failed swap, a death during its
rollback and one more during the boot that recovers it.
*Collaboration:* every save, sync, load and agent write is cut at each await, so three
events (an edit, an outside or agent write, a barrier, a dropped socket, a fault, a
crash, in any combination) are already every race of three parties; a second edit lets
one fall before a save's export and one after it; its frames and signals overflow a
queue of three, which closes the socket.

Bounds are guards: `MaxCalls`, `MaxRestarts`, `MaxRevision`, a plan's `moves`, `MaxSignals`,
`MaxAttempts`, `MaxEdits`, `MaxTroubles`, `MaxEvents`. Lease ids are random in the code and
drawn from a finite pool in the model, where a lease is fresh if no record carries it.
`CHECK_DEADLOCK FALSE` is set where an idle system is a legal end: all calls made, every
delivery settled, every job ended, the bounded events used up. `DocumentLifecycle` can
always crash or boot, requests can always arrive, and both are checked for deadlock.

### Fairness

* Lock: weak fairness of each process's own next step and of its deadline. A critical
  section ends and a live process runs; nothing says that a dead one returns.
* Delivery: handlers that run go on (weak). Agents keep polling: each poll reconciles and
  claims, so complete scans, their application, claims and the reads after them are strong
  for each participant; the service's tests and connectors poll in this way. Leases and
  backoffs run out. Agents need not accept, work or answer, authors need not do anything,
  and handlers may die again and again. The workspace is not reset for ever.
* Move: the operation, a boot of a stopped server and the restart a fenced one asks for are
  weakly fair. From some point on nothing crashes, throws or interferes, without which no
  recovery could ever be said to end. Reconciliation that may succeed does so in the end
  (strong, as each restart tries it again).
* Requests: an admitted handler that is not held up ends and a woken one is looked at; the
  executor's next step is taken; a drain that was woken looks again and a capture ends
  (weak). Captures and leases are strong: the queue is first come, first served, and an
  export job makes finitely many captures. Polls need not time out, no signal need come, a
  client need send nothing.
* Replacement: the running process takes its next step and makes its next file operation,
  and a confirmed job is scheduled or refused (weak). A supervisor starts a process that
  ended. Nobody need prepare, confirm or edit anything.
* Collaboration: the server's pending promises, timers and watcher events run, and an
  accepted socket is opened (weak). Nobody need type, connect, write or move.

## 4. Proofs

TLAPS checks the theorems for every value of the constants, under the named assumptions
of the modules (`LockConstants`, `UndefinedIsNothing`, `StoreConstants`,
`NoneIsNoRecord`, `ServiceConstants`, `RequestConstants`, `PlansAssumption`,
`NoneAssumption`, `CollaborationAssumption`, `KindsAssumption`, `BoundsAssumption`, `ValuesAssumption`): bounds are
numbers, a null value is not a value, attempts are at least one, a marker and a
half-deleted tree are not trees. `PlanOrder` is the one that says something of the code:
a folder's plan holds its documents in order, numbered from 1 and each with its files
together, then hidden items and metadata that belong to no document
(`applyPortableRuntime`, `document-lifecycle-journal.ts:8093`). Nothing is assumed of the
sets of processes, messages, identities, participants, leases, scanners, workers,
handlers, exports, plans or jobs, which may be infinite. Each module also proves its
`TypeOK` (`LockTypes`, `DeliveryTypes`, `RequestTypes`, `LifecycleTypes`,
`ReplacementTypes`, `RoomsTypeCorrect`).

**Lock** (`Exclusion`, `RecoveryIsSafe`). `ExclusiveUnlessDisplaced` is not inductive: it
does not know why a recoverer that renames a file has the right to. The invariant adds
`PastOwners` (no record carries a birth token its pid has not had), `OwnRecord` (a call's
record names its own live process), `JudgedDead` (a verdict "dead" stays true until it is
acted on, since incarnations only grow) and `InPlace` (while nothing was displaced, each
holder's own file is at the path and each quarantined file is the observed one). Together
they say that a stale rename and a holder's file are different files.

**Delivery** (`Attempts`, `Leases`, `ManagedExecutions`, `Replies`, `Revival`). The first three
speak of the delivery file alone: each operator of the store preserves `FileOK` from any
file that satisfies it, by one lemma per operator, so the sequence of requests does not
matter. `Quiet` says that a step starts no execution; only a claim does, and it finds none
in flight, in `ClaimStep`. `Replies` relates the two files and needs the
handlers' memory: `ScansPast` (a scan shows as responded only what the thread still shows
so), `MarksAppended` (a handler about to mark has seen the answer in the thread) and
`WorkersKeyed`. That answers are never taken back (`RespondedStays`) ties them together.
`Revival` is the action property `NoStaleRevival`: every operator but the reconciliation
leaves a retired delivery as it is, drops it or finds it answered (`KeepsRetired`), and
`ReconcileRevivesFresh` shows that a requeue for the same participant comes with a
watermark that rises, whether or not the scan retires other deliveries with it.

**Requests** (`ConsistentCapture`, `ReplacementIsolation`, `Waiting`, `Polling`). The gates
are two booleans with several writers, so the invariant `Gates` says who owns them: the job
whose turn it is, and only that one, is past its drain's start (`TurnHolds`); from
`Execute` on there is no export (`ExportsDoneFirst`), since a scheduled replacement refuses
leases; a gate is closed exactly while an owner needs it (`ClosedForCapture`,
`ClosedForReplacement`, `ClosedForAReason`). A drain's verdict then stays true because
nobody is admitted through a closed gate. `PollKnows` bounds what a poll has seen by the
revision it waits past, which gives `NoLostWakeUp`.

**Documents** (`MovesAreWhole`, `RecoveryGoesOn`, `SharesStayRevoked`,
`CollaborationMoves`, `Atomicity`), for every plan, stride and number of moves.
`AllOrNothing` speaks of the moments between moves; the invariant says where each item is
during one. `Placed` is what the journal on disk promises whoever reads it: before the
commit each item is between its two endpoints, after it all have arrived. `InOrder` is
what the running operation knows beyond that: what lies before its place in the plan has
moved and what lies after has not. `Counted` and `WithinStride` tie the cursor to the
items: the saved cursor is a multiple of the stride, less than a stride behind the one in
memory, so no document further than a stride past it has moved; that is why
`prefixCompensationEnd` looks far enough, and why recovery finds every item in a state
`classifySource` knows. `Recovering` makes a recovery, in the error handler or at boot,
rely on the disk alone, so a crash during it changes nothing. `Atomicity` maps a move to
`AtomicMove`: the one abstract step is the commit, and every write before it, its undoing
and its repetition are stutters.

**Replacement** (`CommitPrecedesReport`, `BackupsAreNamed`, `OpenOnSettledTree`,
`ReviewedIsReplaced`, `AtomicityOfReplacement`, `FirstAttemptsAreRefreshed`), for any
number of jobs of any kinds, and any number of attempts, edits and faults. `Files` says that there is at most one backup,
that it is whole, and that without one the root is whole: so `Content` always is a tree.
`Named` adds that the backup's record says `replacing` and names it, and that nothing but
a committed tree lies in a commit artifact. To keep these the invariant must know what
every outstanding file operation may still do, whoever scheduled it and however often
processes died since: `Scripted` says that a script either only tidies up after a job
without a backup, and records no success that was not committed (`Tidying`), or puts a
backup back before anything else (`Reinstating`), or clears the root while the backup is
kept; and that a recovery has each backup still before it. `Serving`, `Stepping` and
`Waiting` say where the executor can be, which artifact each of its steps finds, and when
confirmed jobs may wait. One lemma per variable group (`FilesStep`, `NamedStep`,
`WaitingStep`, `PhasesStep`, `ScriptedStep`) shows that each step keeps its part; the
first two go through `FileForms` and `RecordForms`, the dozen shapes a step's effect on
files and records can have. `ContentStep` then reads the refinement off the same shapes:
the content changes by an edit or by `Commit`, and every other rename and deletion is a
stutter.

`FirstAttemptsRefresh` needs a second invariant on top of that one, `RInv`, about what is
derived from the tree. `Source` is the job whose tree the workspace consists of, a backup
counting as the tree it will be again. `Running` says that a process past its start has
derived files and policies of `Source`, except between the swap and the end of the commit
or the rollback, where the record in flight still asks a boot for the reset (`InFlight`).
Once that process is gone the records are all there is: `DerivedOwed` and `PolicyOwed` say
that either nothing is out of date or some record owes it (`Owing`, `Finishing`), and that
no other record has a backup that recovery would put back afterwards. `Booting` carries
the debt through recovery: from the records still to be visited to the jobs whose reset
the boot has collected (`owed`), where a record written last still shows it (`Visited`,
`Announced`), so that a boot which dies anywhere leaves it to the next one. `RecoveryForms`
lists what recovery may do with a record, and `ScriptBootFresh` goes through its file
operations one at a time. `Unreset` is why the property is stated while no job was prepared
twice: a second preparation carries its first attempt's `resetPending` over, so the record
in flight does not ask for the reset (finding 3).

**Collaboration** (`RoomsTypeCorrect`, `RoomsCacheTrue`, `RoomsAcknowledgeKept`,
`RoomsWrittenStays`, `RoomsStrandNothing`, `RoomsLoseNothing`, `RoomsCaptureHolds`), for
any number of clients, edits, agents and outside writes. Five layers of invariant, each
inductive on top of those above it in this list:

* `Sound` is `TypeOK` with `Shape`: which task the slot's holder has at which await, whose
  item and path it carries, and that its generations are not ahead of the room's.
* `Origins` says where contents come from. All but people's edits come from the file
  (`Origin`); an agent's item is in no file until it is committed, and then in no set of
  removed edits (`Item`), so the room can take it.
* `Truth` gives `CacheIsTrue` and `AckMeansKept`. `Told` adds to the latter the one window
  where it could break: between a save's export and the spending of its signal, where what
  the room was told is in the exported blocks unless a newer signal came. `Matched` says
  that a state marked equal to its version's document was made when the room's generation
  was still the save's.
* `Kept` gives `WrittenStays`. A save writes what it exported, not what the file holds, so
  `Standing` says for each await of a save and of an agent's write that what it will write
  covers the file (`Covered`): a save that found no newer file than the room's base, an
  agent's write because the room saw the disk before it held (`Seen`), a disk sync and a
  cold load because they read it (`Fresh`). `Times` says that no base and no stat is ahead
  of the file's, and `Paths` that room, file and agent name the same path unless a move is
  between its file and its room. `collided` and `crossed` are exactly the steps at which
  the code has no guard; until one happens the layer is inductive.
* `Caught` gives `CaptureHoldsAccepted`, also where `collided` or `crossed` holds. What a
  person wrote and the file was ever given stays in the file, in the room, in what a save
  is about to write, in a load and in every stored state, but for what is `wiped` or
  `forgotten` (`Preserved`, which is `RoomsLoseNothing`); a room that counts as saved
  shows only what the file was given (`Clean`); no agent holds the slot during a capture
  (`Alone`). `Lines` says where a capture's cutoff runs: the `early` frames are the front
  of each queue, and once the drain begins none is left. `Due` follows what the capture
  owes: while connections settle it is in the file, the room or the early frames; while
  rooms drain it is in the file or the room, and then a save that will write it is under
  way or asked for, or the drain's save has failed (`Hand`), so the drain cannot end
  early; when the capture reads, the file has it. `Allowed` is the other half: nothing
  accepted after the cutoff is in the room, in a save, in a stored state or in the file.
  `shot.allowed` (`Accepted`) is all that the server held at the cutoff, in rooms, queues,
  saves and stored states: an edit that was in none of these cannot get into the capture.

Most steps disturb few of these: `QuietStep` shows that every step is quiet (it reads,
writes and stores nothing new) or one of some twenty named ones, and each layer has one
lemma for the quiet steps and one for each of the others. `NothingStranded` needs only
`Sound`: frames wait for a pause, the pauses end in `AgentRelease` and `BarrierEnd`, and
both replay every queue. `NoneAssumption` says here that the null value
is no room, no version and no stored state. `RoomsLoseNothing` speaks of files to which
other programs only add: what `ExternalWrite` models.

**Only model-checked:** everything temporal with fairness (`AcquireEnds`,
`RequestSettles`, `MoveSettles`, `AdmissionReopens`, `ReplacementEnds`, `ServesAgain`,
`EverythingSettles`), which is out of the prover's reach. Every invariant and every action
property that a passing run checks is a theorem; what the four violating runs refute is
none. `FirstAttemptsRefresh` is proved as it is checked, for imports prepared once
(finding 3), and `AckMeansKept`, `WrittenStays` and `CaptureHoldsAccepted` with the
exceptions that they name.

## 5. Findings

Each is a run that TLC shows violated, with the sentence of the repository it contradicts
in `PROJECT.json`.

1. **`delivery_in_line`.** A complete scan taken before a thread existed, applied after its
   first delivery was queued, retires the delivery and leaves the watermark at the largest
   integer: no scan of the thread queues it again.
2. **`move_stranded`.** An exact rename that dies after the source moved and before the
   journal says so cannot be recovered once the moved file has been edited: startup throws
   on every start.
3. **`replacement_reset`.** An import that failed and is prepared again keeps the record's
   `resetPending: false` from the recovery of its first attempt. If the process dies during
   the second swap, the boot restores the tree and skips the reset of derived state.
4. **`collaboration_unload`.** An empty room's final save ends in `unloadDoc`, which looks
   only at the clients that are attached. One that is joining, or an edit whose author has
   left again, goes with the room.

Met while modelling, without a run of its own:

* *Lock.* Between the second look at a stale lock and the rename, another process may
  recover the lock and a third acquire it; the rename then carries off a live lock.
  `Restore` puts it back, but in the window another process can acquire. This is the
  exception `displaced` in `ExclusiveUnlessDisplaced`.
* *Delivery.* A claim is held up only by earlier records; an earlier turn that is queued
  again (a retry, a new assignment, a backoff that ends) is leased beside a later one.
* *Replacement.* If job A was committed and its status write failed, and job B dies in its
  swap, a boot that visits A first renames A's old tree to the root and records A as
  failed, although a committed swap "must never be presented as a rollback"
  (`index.ts:2657`). B's recovery then puts the right tree back, so only A's report is
  wrong. After a recovery in the same process
  whose restart fails, an import's record says "replacing" without paths until it expires.
  `.interrupted-<pid>` trees and what an earlier attempt left are never removed.
* *Collaboration.* A watcher's disk sync that read before a save or an agent's write and
  applies after it leaves the room without a saved edit, and the next save drops it from
  the file (`crossed`). An acknowledgement can answer an older signal than the one the
  editor last set (`doc-document.tsx:1269`). The guard on the file's mtime discards
  signalled edits of people. A room restored ahead of its file, loaded by an upgrade that
  passed the gate before a capture, may save during the capture.

## 6. Plan

In this order, each with its properties, run and mutants:

1. Deletion and archive in `DocumentLifecycle`, as plans whose items leave; the second
   journal of `document-data-lifecycle-v2.ts` around them.
2. `GrokBotRuntime` and wake budgets, composed with the policy in `ThreadDelivery`;
   share-link expiry and view limits.

Not planned: user interfaces, adapters' own code, record queries, rendering, network
clients and installers. They hold no protocol of the server, or are pure functions and I/O.
