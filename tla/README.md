# Formal verification of the bot's concurrent core

TLA+ models of the concurrent core of this repository, model-checked with TLC on
small instances, and theorems about them proved with TLAPS for every instance.
`PROJECT.json` lists the components, runs, theorems, hazards and, for each
definition, the source lines it models. Paths below are relative to
`src/src/` of the repository unless they start with `src/`.

1. [What the system is](#1-what-the-system-is)
2. [Inventory](#2-inventory-of-components)
3. [Modules and how they follow the code](#3-modules-and-how-they-follow-the-code)
4. [Runs](#4-runs-bounds-and-what-they-show)
5. [Where code and comments disagree](#5-where-code-and-comments-disagree)
6. [Proofs](#6-proofs)
7. [What is not covered](#7-what-is-not-covered)
8. [Plan](#8-plan)
9. [Running it](#9-running-it)

## 1. What the system is

A Telegram bot lets one user drive OpenCode coding sessions. Each chat Topic has
one session. In *local* mode the sessions live in an `opencode` server that the
bot starts and supervises. In *distributed* mode every Topic has a remote
**Worker** (a Railway service with a volume) that runs its own OpenCode; the bot
is the **control plane**. It consists of two processes: the application, which
talks to Telegram, and its privileged parent (`infrastructure/`), which alone
holds the Railway token and the identity seeds, and obeys six fixed operations
over inherited IPC.

    Telegram --updates--> bot (handlers, menus)
                           |  New Chat / Delete
                           v
      createRemoteTopicSession / retire  ---transactions---> node-bindings.json
                           |                                 (Worker table, receipts)
                           |  provision, rebind, recycle,          |
                           v  retire, reconcile, inspect           | read only
               infrastructure controller <-------------------------+
                           |
                           v                    signed RPC
                    Railway API / Worker  <--------------------- topic authority
                                                                 (routes, runs)

What is hard in it is that all state is shared by asynchronous flights of one
Node.js event loop. A handler that awaits a Railway deployment for minutes
resumes with a record that three other flights may have rewritten; a Telegram
update is delivered again after a restart; an answer is lost although the call
took effect; a deletion overlaps the creation it deletes. Tests exercise each
function alone or one prepared race; the models explore all orders.

## 2. Inventory of components

State, operations, interactions, what is hard, and the properties that make it
right. **Bold** components have a module.

| Component | State | Operations | What is hard | Right when |
|---|---|---|---|---|
| **Worker binding table** `control-plane/node-bindings.ts` | the bindings of `node-bindings.json`, cluster id | `ensurePoolSlots`, `reserve`, `reservePrepared`, `beginAvailableReconciliation`, `update`, `beginRecycle`, `completeRecycle`, `fence`, `list`, `find` | callers use bindings that are minutes or a restart old; one bad record makes `read()` refuse the whole file | the file is always readable, an old identity does nothing, a Worker changes hands only with a new generation, no slot above four is allocated |
| **Topic Worker lifecycle** `control-plane/topic-node-lifecycle.ts` | `poolFlight`, the continuation of every flight | `preparePool`, `bootstrapPool`, `verifyAvailableWorker`, `prepare`, `waitReady`, `syncGlobal`, `retire` | two flights want one Worker, lost answers, failures between two writes, restarts | a ready Topic is alone on its Worker's volume, an allocatable Worker is clean and runs the current image, every flight ends |
| **Topic creation and deletion** `createRemoteTopicSession`, receipts, `app/services/telegram-topic-delete-service.ts` | durable receipts, product bindings, `chatCreations`, Telegram | deliver, begin, create the forum Topic, prepare, save, complete, clean up; delete | redelivery, crash between an external effect and its receipt, deletion beside a redelivery | at most one Topic per request, a failed request leaves nothing, a finished one is never revived |
| Infrastructure controller `infrastructure/node-controller.ts`, registry, grants | identity seeds, registry, `verifiedUnbound`, request queue | the six operations; bootstrap grants | rotation takes effect and the answer is lost; the table moves on while a request queues | modelled by its effects on a Worker, in the lifecycle; its files: see the plan |
| Railway driver `infrastructure/railway-provisioning-driver.ts` | journal of operations, pools | provision, handoff, reconcile, sanitize, retire | unknown results of non-idempotent calls | modelled as a call with four outcomes |
| **Process budget** `runtime/process-budget.ts` | leases, pending counters | `acquire`, `budgetedExec`, `budgetedExecFile`, `budgetedSpawn`, `release`, timers | requests suspended between check and entry, clamped counters, children that ignore SIGTERM | limits hold for what really runs, counters never drift, memory is not overbooked |
| **Global mutations** `control-plane/mutations.ts` | ledger, `activeCommits`, Skill files | prepare, bind, answer, claim, apply, commit, settle, recover | a file outside the transaction, crashes anywhere, duplicate commits, a user editing beside it | executed at most once, ledger and receipts agree, failures leave nothing or ask for repair, accepted bytes are never undone |
| **Canonical state** `app/stores/app-state-store.ts`, `control-plane/global-state.ts` | `app-state.json`, its backup and temporary file, `writeQueue`, `knownSnapshots` | `transactAppState`, `readAppState`, `updateAppState`, `resetAppStateForFactory`, `revisionAppState`, broadcast | a write may be durable and still throw; a read may fall back to an older file; the removals of a reset run outside the queue | callers see one durable register, one fault leaves a readable state, the broadcast revision only advances, a reset that succeeds leaves nothing |
| **Topic authority** `control-plane/remote-topic-authority.ts`, admission in `core/native-core-service.ts` | durable authority file, routes, owners, tasks, doubts about Workers | register, rotate, revoke, admit, begin, finish, dispatch, stop | a rotation during an admission, a stop nobody confirmed, a failed write | a generation names one owner, what serves is recorded, a doubted Worker is trusted again only when idle |
| Transport, protocol, gateway `infrastructure/node-transport.ts`, `node-gateway.ts`, `control-plane/node-*.ts` | outstanding requests, replay window | signed calls, streams, cancel | limits, replay, deadline against a late answer | at most 8 outbound calls, none answered twice, no nonce accepted twice |
| OpenCode server supervision `opencode/auto-restart.ts`, `ready-lifecycle.ts`, `process.ts` | child, failure count, `ready` flag | periodic check, restart on request, exit of the child | an exit during a planned restart, a check already in progress | one server at a time, `ready` only while healthy, an exit is eventually repaired |
| Run state `app/managers/assistant-run-state-manager.ts`, `foreground-session-state-manager.ts`, `attach-manager.ts`, `app/services/busy-reconciliation-service.ts`, `current-run-cancellation-service.ts` | busy sessions, active run ids, generation | start, finish, status poll, cancel | a status read before a new run clears that run; stop of an old draft | a stop never ends another run, nothing stays busy for ever |
| Session supervision `session-stall-watchdog.ts`, `session-error-recovery-service.ts`, `topic-session-rotation-service.ts` | timers per session | watch, abort, retry, rotate | timer against a late event | one recovery per failure |
| Prompt intake `bot/handlers/message-merger.ts`, `media-group-handler.ts`, `prompt-queue-dispatch.ts`, `app/managers/prompt-queue-manager.ts` | pending parts, bounded queue of 5 | merge, flush on a timer, queue, take | timer against the next part, dispatch while busy | each part reaches one prompt, in order |
| Events and aggregation `bot/services/event-subscription-service.ts`, `app/managers/summary-aggregation-manager.ts` | parts and tools of each message | one handler per event kind | duplicates, events after the end | final text delivered once |
| **Streaming** `bot/streaming/*`, completion in `bot/services/event-subscription-service.ts` | stream states, chained flushes, throttles | enqueue, flush, complete, clear; finalize | an edit in flight at completion, rate limits, lost answers, deletions that fail, drafts that must be persisted part by part | the finished answer is in the chat once, the latest partial text is shown |
| Interactions `app/managers/{interaction,question,permission}-manager.ts` | pending question or permission | ask, answer, expire, restore | answer of an old message | each is answered at most once |
| **Scheduled tasks** `app/services/scheduled-task-*.ts`, `app/stores/scheduled-task-store.ts` | tasks in memory and on disk, timers, `runningTaskIds`, `deliveryQueue` | create, schedule, run, record, deliver, delete, reset, recover | deletion or reset while an execution or a write is under way, a failed write, a reset that fails half-way, restart | executions of a task do not overlap, a deleted task stays deleted, a task with a next run is armed |
| Topic store, settings `app/services/telegram-topic-store.ts`, `app/stores/*` | JSON files | read, update, remove | distributed refresh that fails silently | mirrors the bindings |
| Models, MCP, extensions, integrations, menus, rendering, i18n, CLI | caches and files | HTTP, forms, formatting | little control | left out, see 7 |

External: Telegram, Railway, the Worker's OpenCode, the package
`@opencode-telegram/native-runtime` (run registry). They are modelled by what the
code in `src/` relies on.

## 3. Modules and how they follow the code

An action is the code between two awaits that matter: one transaction of a
promise queue with its atomic file replacement, one remote call, or the
synchronous run of a continuation. Guards are the code's conditions and early
returns. What an operation does when it throws or finds nothing to do is a
stuttering step, unless its caller reacts. Names ending in a suffix, such as
`Bind_SameGeneration`, are deliberately wrong variants of the definition that
follows them; they show that a property notices the mistake and are used nowhere
in the models.

**NodeBindings** is the table. `bindings` is a function from node ids to
records (generation, slot, status, Topic, resources, revision, session);
`clustered` says that `clusterId` was minted. Each method of the store is one
action. The variable `granted` is a history: every identity (node, generation,
Topic) ever recorded. Operations that take a caller's binding are enabled for
*any* granted identity, so the module contains the worst caller imaginable; what
it proves holds for all of them.

**TopicNodeLifecycle** EXTENDS the table and adds `worker` (what runs at a node:
installed generation, whose data is on the volume, outdated image, sleep policy with
the deployment that switches it, verified generation) and `flight`, one program
counter per pool flight, creation and deletion. A reconcile (`Reconciled`) reports a
policy deployment that is under way, or replaces an outdated image and applies the
policy, or verifies the isolation; it answers the first two alike, as an update, and
both void the verification. `waitReady()` waits for a deployment only if its flight
was told of one (`Awaited`), and a deployment may fail (`RolloutFails`). The look-up
before a demotion and the demotion are two transactions (`LookUp`, `Demote`). A
flight keeps the binding its last transaction returned, as the code's local
variables do. Each boundary call (`Call`) is refused, fails, takes effect, or takes
effect and loses the answer. `Restart` interrupts all flights at once; a redelivered
request resumes where its receipt says. The property `TableDiscipline == Spec` is
the refinement: the lifecycle implements the table.

**TopicCreation** EXTENDS the table too and models the layer above: receipts,
the forum Topic, the product binding, the queue per chat and the deletion. Here
preparing a Worker is a single transaction that succeeds or fails, since the
module above has looked inside. `owner` is a history variable (for which request
a Topic was created, also when its id was lost). `TableUsed` is the same
refinement for this layer.

**ProcessBudget** splits `acquire()` at its only await: before it the limits of
kind and service, after it the memory. The counters are modelled with the
clamping the code uses (`Less` is `Math.max(0, ..)`). Children start small, grow
to what they reserved, die, and may ignore SIGTERM.

**GlobalMutations** has the durable `ledger`, `receipts` and `accepted` Skill,
the Skill on the disk (`file`), and the memory of the process. Each durable write
is done, lost, or late (durable although it threw). `Crash` clears the memory at
any step; the startup recovery then runs entry by entry and writes its results in
one transaction. `Someone` is a user who edits the disk or uses the UI.

**TopicAuthority** has, for one Topic, the table as the authority sees it, the
durable entry, the installed route and its Worker, the registration and the
admission in progress, and for each run its dispatched task and what the Worker
does of it. Time appears as `aged`: thirty seconds have passed since the last
stop that nobody confirmed, after which the Worker has started or dropped what it
had reserved.

**AppStateStore** is the file beneath the mutations, with a step for each await of
`writeAppStateAtomically`: open, write and sync the temporary file, copy the primary
over the backup, rename, sync the directory. A state is the set of changes it holds
and its Global revision; `After` is what a call makes of a state, `Content` the part
of it a Global snapshot shows. Faults are failures of a step, a primary that is
damaged or cannot be read for once, and crashes, after which the last rename may be
undone and a copy that was not synced may be half a file. The removals of a factory
reset are steps of their own, since they run when the queue is already given up;
they follow every reset whose transaction succeeds, also one that found nothing to
erase and so wrote nothing. **DurableRegister** is the promise: one value that each
call replaces by what it makes of that very value, success reported only once no
crash can take it back. The mapping takes `ReadState`, what a reader gets of primary
and backup, for the value, and `SafeState`, what a power failure would leave, for
its safe copy.

**ScheduledTasks** has the tasks twice, in memory and in the file, because
`setScheduledTasks` changes the memory at once and awaits the write: a failed
write leaves them different. `exec` is where each execution stands, with a phase
for each write it may wait for, and whether the task was still stored when it was
asked for. `timers`, `running`, `queue`, `flushing` are the fields of the runtime
service; `loop` holds, for each flush in progress, the delivery in its send.
`startExecution` and `scheduleTask` are synchronous, so they are operators that
describe a part of the step that calls them. The factory reset is four steps: it
takes all timers (`ClearAll`), what comes between may throw (`ResetFails`), it
erases the tasks in memory (`Erase`), and the awaited write, or a later step,
succeeds or not (`Purge`). `swept` holds the tasks whose timers it took, then
those it erased, and the history variable `stranded` the tasks that have lost what
would run them next.

**ResponseStream** is one answer. A stream state has the signatures it believes
delivered (`sigs`) and what its messages really show (`shown`), which a lost
answer makes different. `Loop` and `Advance` compute the state at the next await
of a flush; a call to Telegram settles in a step of its own, with one of five
results. `pending` and `awaited` are the chain of flushes of a state. The
finalizer runs beside it: `complete()` waits, flushes, persists a draft part by
part, rolls back, deletes what is visible, and then the answer is sent directly.
The version number of a text stands for its contents. A reply (`Replies`) is a
streaming mode and a range of versions: partial texts, the completed one, and
partial texts of the next message that reach the stream of this one. A version is
`Native` (rich blocks, with a plain form for when Telegram refuses them) or raw
text; a reply in mode "edit" keeps one format, a draft may begin with a native
thinking block and go on with raw text. Deletions, of a broken stream's messages
and of a draft's persisted parts, may fail (`Deletion`); the code logs that and
goes on, and `left` counts the messages that stay.

Composition: TopicNodeLifecycle and TopicCreation share NodeBindings' variables
and use its actions as they are; AppStateStore implements DurableRegister, the
detailed form of the single write GlobalMutations takes for granted; the others
stand alone, as in the code, where they meet the rest through a function call.

## 4. Runs, bounds and what they show

| Run | Instance | Distinct states | Question |
|---|---|---|---|
| `bindings` | 2 nodes, 2 Topics, capacity 1, 4 generations, 3 slots | 225 k | can any order of calls with stale identities spoil the table or exceed the capacity? |
| `lifecycle` | 2 nodes, 2 Topics, warm target 0 or 1, 7 generations, within `Scope` | 778 k | do two Topics that compete for a Worker stay apart? is a reported success usable? does the pool flight, working from an old list, leave claimed Workers alone and publish only what runs the current image? is the table used properly? |
| `lifecycle_deletions` | 1 node, 1 Topic, 2 overlapping deletions, 1 restart, fair, within `DeletionScope` | 324 k | is an allocatable Worker clean? does every flight end? |
| `creation` | 1 node, 2 requests of one chat or of two, 2 Topics, restarts, deletions, fair, within `Scope` | 470 k | one Topic per request, nothing left by a failure, no revival, success is usable, every delivery is answered |
| `budget` | 3 requests, 4 kinds, 2 normal children, fair | 60 k | limits, counters, memory, return of leases |
| `mutations` | a Skill write and a toggle, 2 calls, 2 attempts, fair | 134 k | once at most, clean failures, nothing accepted is undone, end of attempts |
| `authority` | 2 directories of a session, 2 successive Workers, 2 runs | 1.3 M | owners of generations, doubts about Workers |
| `appstate` | a Global approved change, another change, a reset, 2 revisions, 2 faults, fair | 336 k | is the store a durable register? does one fault leave a readable state? does the broadcast revision advance? does a reset that succeeds, or its retry, leave nothing? is every call answered? |
| `tasks` | a recurring task and a single run, 2 starts of each per life, failed writes or resets, a restart and a busy foreground, 2 at a time | 2.4 M | no overlap, a single run is single, deleted stays deleted, armed or being executed unless lost in a named way |
| `stream` | 4 replies over 9 versions, 2 streams, 1 retry, 2 lost or failed calls, fair | 351 k | the answer once, skips are sound, the latest text is shown, the finalizer ends |
| `lifecycle_sleep`, `lifecycle_rollout` | small | - | the two disagreements of section 5 |

Why the bounds are enough.

* `MaxGeneration` counts changes of hand. Four let a Worker be bound, recycled,
  bound and recycled again while identities of the first generation are held; two
  uses are what an ABA mistake needs. The seven of the lifecycle let every flight
  of the run complete.
* Capacity 1 stands for four. What matters is whether a slot is the last one, and
  `bindings` uses more node ids and slots than the capacity so that the overflow
  slot of a Worker from before slots existed occurs. `MaxSlot` exceeds the highest
  slot a recycled Worker can be given.
* Two Topics, two chats or two callers are what a conflict needs; a third Topic
  would only wait behind one of them. The budget has three callers because
  a request pending beside one that is active and one of another kind is its
  smallest interesting case.
* A restart clears all memory, and what a second one meets is a state the first
  can also produce, except for what happened in between: `creation` puts no bound
  on restarts, `lifecycle` and `tasks` allow one in order to stay small.
* `lifecycle` has the constraint `Scope`, a union of two instances in one state
  space. `OneWorker`: two Topics compete for one Worker, one after the other and
  up to the end of the second use, over a restart; while two Topics are involved
  no deployment of the sleep policy is under way, and the pool flight runs beside
  both only before a restart and while no retirement is at its last steps.
  `TwoWorkers`: one Topic uses two Workers under a warm target that moves; policy
  deployments are under way only beside the pool flight, which runs beside a
  creation or a retirement, not both (with one Worker it meets both). Two Topics on two
  Workers would add only that the two conflicts happen side by side: a flight
  works with one Worker at a time and the table's transactions are per record.
* `lifecycle_deletions` has `DeletionScope`: two deletions are in progress
  together only before a restart and while no policy deployment is under way; one
  deletion meets both. `FlightsEnd` is checked among the states within it. The
  theorems of section 6 need neither constraint.
* `creation` has `Scope` too: two requests, which either wait for one another in
  one chat or run side by side in two. Topics are created in order of their
  numbers, which loses nothing because no definition looks at a number.
* `MaxFaults` 2 in `appstate`: `OneFaultSurvived` is about one, and the second
  shows what the other properties promise beyond it; `MaxRevision` 2 stops new
  calls, not those under way. Two failed writes in `tasks` are the write of an
  outcome and that of its second attempt; `MaxRuns` 2 is a run and its repetition.
  Its `Scope` takes the disturbances (a failed write or reset, the restart, a busy
  foreground) two at a time.
* `stream`: two streams, since a stream that is cleared may be followed by a new
  one of the same answer and then never by a third that differs from it.
  `MaxRetries` 1 stands for three: what matters is that the last is counted. Two
  faults are an edit that loses its answer and another call that fails later;
  deletions may fail at any time. The four replies are a native text that shrinks
  from two messages to one, has a final version equal to its first one, and is
  chunked otherwise as plain text, in either mode; a draft with a thinking block
  before raw text, a second one between two equal texts, and the next message's
  text; and raw text in mode "edit".
* `MaxAttempts` 2: the code never starts an approval twice, so two approvals need
  two attempts. `MaxStamps` 2: a Worker whose stop failed twice, which is the case
  the comparison of times exists for.

Symmetry (permutations of node ids, Topics, chats or runs) is used in runs of
invariants and action properties, never with a liveness property. Nothing in the
code orders these ids.

Deadlock is checked in `budget`, `authority` and `tasks`. It is off for `bindings`,
`lifecycle*`, `creation`, `mutations`, `appstate` and `stream`, where the system may
really stop: the generations or attempts of the bound are used up, all requests are
answered, every approval is decided, the answer has been delivered.

Fairness. The event loop runs every continuation that is ready, and each remote
call has a timeout and so returns or throws: hence weak fairness for each flight
(`PoolStep`, `CreatorStep`, `DeleterStep`), for each delivery (`Serve`) and for
the two sides of `acquire`. Nothing is assumed of users, of restarts, or of a
call's success. A lease returns only if the child ends; that is assumed for the
kind that the code itself kills with SIGKILL (`Forced`), and `LeasesReturn` is
claimed for this kind only. Transactions of the canonical state wait in a FIFO
promise queue that may be taken by somebody else again and again, so their turn
is strongly fair (`Advances`); work in progress is weakly fair (`Works`), which
assumes that an applied change returns: the code has no timeout for it. AppStateStore
makes the same assumption for the transaction at the head of its own queue, which
is one FIFO there, so weak fairness of `Transaction` is enough. In ResponseStream
calls to Telegram settle, timers fire and chained promises go on (`Sync`, `Tick`,
`Finalize`); nothing says that a message is completed or that Telegram stops
limiting the rate: `AnswerSettles` holds because the code counts its retries.

Every property has a mutant in `PROJECT.json`: a wrong variant of a definition,
as a slip in that code would make it, under which TLC finds the property violated.

## 5. Where code and comments disagree

Each is a run that TLC refutes, with a short counterexample.

* `FailedRetirementFenced` (`lifecycle_sleep`). `retire()` says of a failed
  sleep-policy rollout that "a failed/pending rollout keeps this slot fenced"
  (`control-plane/topic-node-lifecycle.ts:275`). `completeRecycle` at line 266 has
  made the Worker available before the rollout is asked for.
* `PublishedIsVerified` (`lifecycle_rollout`). "... verify the new runtime boundary
  while still fenced, then expose the slot as available"
  (`control-plane/topic-node-lifecycle.ts:119`), says the comment about a Worker
  that its reconcile updated. But the boundary answers `imageUpdated: true` also
  when it only found a deployment of the sleep policy under way and left an
  outdated image in place (`infrastructure/node-controller.ts:182-197`). The second
  reconcile then starts the image rollout and drops the verification (line 194);
  its answer is ignored (`topic-node-lifecycle.ts:121`, also 156 and 205) and the
  Worker is published unverified, with the rollout under way. What holds is
  `PublishedIsCurrent`: the image that is being rolled out is the current one.

What the models show besides, and no run is kept for:

* "Compare-and-set the slot out of allocation before touching its image"
  (`control-plane/topic-node-lifecycle.ts:109`) does not hold for the bootstrap
  branch at line 137, which takes a Worker that is already `pool-provisioning`,
  claimed perhaps by `verifyAvailableWorker`; the first flight to finish publishes
  it while the other still reconciles. `TopicIsolation` and `PublishedIsCurrent`
  hold nevertheless in `lifecycle`.
* A stored task may lose what would run it next, until a restart arms it again, in
  three ways; `stranded` records them and `AlwaysArmed` says there is no fourth. Its
  timer fires while the outcome of its last run is still being written, so
  `startExecution` refuses it as running
  (`app/services/scheduled-task-runtime-service.ts:328`). A write of its record
  fails (among them line 365). A factory reset takes all timers
  (`app/services/telegram-reset-service.ts:239`) and then throws at line 244, 192,
  202 or 204 with the tasks still stored, which then no longer run.
* A flush of the deliveries drops the head of the queue when its send returns
  (`app/services/scheduled-task-runtime-service.ts:186`). A deletion or a reset may
  have replaced the queue during the send (lines 133, 154); then another task's
  delivery is dropped unsent. The code promises nothing of a delivery, which is a
  notification, so no property states it; the outcome of the task is recorded.
* A factory reset removes backup and temporary file whatever its transaction did
  (`app/stores/app-state-store.ts:145-150`). If the primary is damaged and the
  backup, from which it read, is already empty, nothing is written and the last
  good copy is deleted. A reset may also remove the temporary file of the
  transaction behind it. `exposed` records both, and `OneFaultSurvived` excepts them.
* A deletion that fails is logged and forgotten, for the messages of a broken stream
  (`bot/streaming/response-streamer.ts:583`) and for the persisted parts of a draft
  (line 312): the partial text stays in the chat beside the answer that is sent
  next, where the comment says that the partial messages are deleted "so the
  finalize path can resend the complete answer exactly once" (lines 324-326).
  `AnswerOnce` counts these messages in `left` and claims that there are no others.
* In draft mode the messages of a run share one generation draft. Between
  `complete()` and the moment its payload is taken to be persisted
  (`bot/streaming/response-streamer.ts:280`) a partial text of the next message
  replaces the payload, and the next message's text is persisted for this one.
  `AnswerOnce` states how far this goes: the persisted version is the final one
  or a later one.
* In a draft with the raw format, an edit from raw text to a native thinking block
  that takes effect and loses its answer turns the stream to plain text; if the next
  text is the raw text of before, it is skipped as unchanged under a message that
  shows the block. It goes with the next change or with the draft. `Shows` names
  this case, and `SkipIsSound` that it is the only one.
* A crash after the route of a new Topic is saved and before its receipt is
  completed makes the redelivery answer "reused", and the command skips the first
  messages of the Topic (`bot/commands/new-command.ts:57`).

## 6. Proofs

Eight modules hold proofs, for any number of nodes, Topics, chats, callers,
approvals, runs, changes and tasks and for any bounds. They assume what the modules'
`ASSUME`s say: `NoTopic`, `NoResources`, `NoRequest`, `NoFile` and the like are not
members of the sets they complement, no deletion has the name of a creation,
capacities and limits are natural numbers, callers of the budget are finitely many,
a text is a nonempty sequence of parts, no native part looks like a plain one, and
the texts of an answer that is edited in place are all native or all raw. TLC
evaluates all of them. The budget and the store, the two services all Topics share,
have their proofs in one module; neither cites the other's assumptions.

**NodeBindings_proofs.** `Invariant: Spec => []IInv`, with

    IInv == TypeOK /\ Readable /\ IdentityFenced /\ MintedOnce /\ ClusterMinted

`Readable` alone is not inductive: that two live Workers have different slots
after a write needs the write to choose an unused one, and an operation on an old
identity needs `IdentityFenced` to know that the record it meets is the one the
caller means. `MintedOnce` (an absent node is in no identity) and `ClusterMinted`
(slots appear only with the cluster) complete it. Nearly every operation rewrites
a single record, so the lemma `WriteKeepsInvariant` says which records may be
written, and an operation's lemma shows that it writes such a one. Consequences:
`TypeCorrect`, `AlwaysReadable`, `IdentitiesFenced`; and the action properties
`MovesForward` and `CapacityNeverExceeded`.

**TopicNodeLifecycle_proofs** EXTENDS it. Its theorems rest on three layers.

1. `LInv`: every flight in progress holds an identity the table recorded, of the
   kind its program counter needs (`At`: a claim of the pool names no Topic, a
   creation's own identity names its Topic), and the pool flight keeps at most one
   snapshot of a node (`Pending`). So every step is one the table allows:
   `FlightsConsistent` and `TableImplemented`, the step refinement.
2. Effects. `Effects` says that a step moves one flight (`Alone`: others are left
   as they are, or woken into waiting) and changes one record or one Worker, in one
   of thirteen ways (`Wrote`, `WorkerChange`) that name what the code had checked.
   All that follows is reasoned about these ways and no longer about thirty
   actions. `PoolNeverDisturbs` is the first consequence.
3. `PInv` adds what holds between the flights. `Matches`: the record of a Worker and
   the Worker go together, e.g. an unbound record that is not being retired has an
   empty volume, and a bound one nobody else's data. `Lineage`: two generations in a
   row never serve two Topics, without which a Worker handed over unsanitized might
   carry another Topic's data. `Promise`: what a flight learned before an await
   (that the image is current, that no policy deployment hides an outdated one from
   its second reconcile, the session adopted, the record not being retired) still
   holds after it, or its identity has lost its generation. It promises no
   verification: that may be lost, see section 5. The proof has one lemma for what
   the mover relies on afterwards (`...Moved`) and one for everybody else
   (`OthersKeepPromise`); `Sole` says why two flights with one identity do not spoil
   each other's work.

Theorems `TopicsIsolated`, `IdleWorkersAreClean`, `AllocationIsCurrent` and
`CreationsEndReady` follow. The last one needs in addition that a creation becomes
"done" by `Confirm` alone (`OnlyConfirmed`). That two flights may reconcile one
Worker at a time (section 5) is covered: the promises of both survive.

**TopicCreation_proofs** EXTENDS NodeBindings_proofs. `StepOnTable` shows that every
step of a creation or deletion is a step of the table or leaves it alone; with
`IdentitiesGranted` this gives the step refinement `TableIsUsed`, and all invariants
of the table carry over (`CreationKeepsTableReadable`). The invariant `CInv` then
says, per request, what its receipt implies about the delivery in progress
(`Consistent`) and that a request that owns a Topic is past the point of creating
one (`Owned`). From it follow `AtMostOneTopic` and `NeverResurrected`.
`FailedIsClean` and `SuccessIsReal` need the converse, what is there because of a
receipt: `UInv` ties, for every Topic, its route, the Worker that is bound to it and
its existence in the chat to its receipt, its delivery and its deletion
(`EveryTopicAccounted`). What makes it inductive is `Closed`: the receipt names a
Worker and a generation, and once the Topic was given it, no redelivery can give it
a Worker again.

**SharedServices_proofs, the budget.** The guards read counters; `LimitsHeld` speaks of
requests and children. `BInv == BudgetTypeOK /\ RequestsCounted /\ Within` ties
them together: the clamped counters equal the number of pending requests, so a
guard means what it says. Theorems `LimitsAlwaysHold`, `BudgetTypeCorrect`. For
`CountersAreExact` and `MemoryNeverOverbooked` bytes are summed over sets of
leases. The sum is a fold; what the proofs use of it, that one lease more or less
changes it by its reservation, is proved by induction over the subsets of a finite
set (`SubsetInduction`, stated for a set `Q` in place of a predicate, since the
library's own theorems take an operator, which the provers cannot instantiate).

**GlobalMutations_proofs.** What `RunsAtMostOnce` needs is that a call under way
owns its approval: the ledger and `activeCommits` name its attempt
(`WorkersOwn`), no two calls share one (`WorkersApart`), and the recovery runs
alone (`RecoveryAlone`). Theorems `NeverRunsTwice`, `LedgerTellsTheTruth`,
`AttemptsAreReal`, `MutationTypeCorrect`, and `AcceptedIsKept` for the action
property. `FailuresLeaveNothing` follows the traces a change leaves (`Traces`): only
an approval whose change was journalled has written the Skill, and a call or a
recovery that is about to settle it without the change has already brought back the
bytes from before (`Clean`), whoever else wrote the Skill since. The theorem is
about the Skill file and the canonical snapshot, and about failures without
`recoveryRequired`; a failure with it asks the user for a repair, and the image
of the Skill from before stays in the ledger entry of any failed attempt.

**TopicAuthority_proofs.** `Recorded`: every route ever installed is the recorded
one or of a lower generation, and a registration records a higher generation or
leaves the record alone; hence `GenerationsAreUnique` and `ServingIsRecorded`. For
`DoubtsLiftedRightly`, `Stopping` says that once the thirty seconds are over a
task whose stop was not confirmed is not merely reserved, and `Proving` what an
admission that asked for proof knows; a later failure changes the time the
admission remembers.

**SharedServices_proofs, the store.** `SInv` ties the transaction at work to the
files: while nothing has damaged them, what it read is still what a reader would get
when it renames, its temporary file holds what it makes of that (or was removed by a
reset), and the file it replaces is kept in `undo` until the directory is synced
(`Sound`, `AtWork`); each queued call waits and is queued once (`QueueWaits`). One
lemma per action shows that it keeps `SInv` and simulates a step of the register,
hence `ImplementsRegister`. A reset that removes the temporary file of the
transaction behind it makes that one fail: the mapping shows that this is the only
thing it can do to it. `RevisionsAdvance` rests on `WritableStep`: `known` changes
only to a state computed from a base that was not superseded. `SurvivesOneFault`
strengthens the invariant by what a single fault has left (`OneFault`): before it no
file is damaged, and after it the primary is good, or the backup is good or just
being replaced by a good one, unless the fault or a reset's removals took the only
good copy (`exposed`). `ResetErases` needs to know where an erased change may still
be while the removals go on (`Purging`): in the backup for as long as its removal is
due, and nowhere else once the reset's own write is settled. So it holds of a retry
too, which finds an empty primary, writes nothing and still has the removals before
it.

**ScheduledTasks_proofs.** `TaskInv`: a stored task that is executed is marked
(`Marks`), ids are given out once (`Known`), what is being deleted is not in memory
(`Leaving`), a single run that has started has nothing left that could start it
(`Spent`), and an execution's own flush is its end (`Sending`). `Armed`: a stored
task with a next run that is not being executed has its timer, or is being created,
or is among those whose timers a reset has taken (`swept`) or that are `stranded`.
With `DeletedStaysDeleted` itself this is inductive. `RunsDoNotOverlap` needs that a
deleted task, whose mark is dropped during its execution, is not stored:
`startExecution` then finds none.

**ResponseStream_proofs.** A flush walks over one stream record, so its steps are
lemmas about records: `StreamOK` says what the record means at each await, and
`Outcome` what a step may change and what the flush returns when it ends. The
heart of `SkippedIsShown` is `Kept`: an edit that took effect and lost its answer
leaves a signature that differs from the message, but only that of a part as it
was first rendered, because the failure turned the stream to plain text, and a
second one breaks it. Where all parts are native (`Turned`) a plain payload has
none of these signatures, so it is never skipped over such a message. A raw part
is its own plain form (`RawPart`); in mode "edit" all texts are then raw and a
first failure already breaks the stream, and in a draft only an edit to a native
block can have turned it (`Replaced`), which is the exception `Shows` names.
For `AnsweredOnce` the invariant counts (`Awaiting`): in mode "edit" the flushes
the finalizer awaits are exactly those in the chain, so the one whose result it
reads is that of the final text, and afterwards the stream is quiet, whatever is
cleared meanwhile. In mode "draft" partial texts of the next message still
arrive and a flush may outlive its stream; there `Answered` follows the parts as
they are persisted, and `Numbered` says which version they are of: the completed
one or one enqueued after it. While nothing was rolled back or cleaned up `left`
is 0, so a streamed answer is the only one; a sent one has beside it what `left`
counts.

Model-checked only: liveness (`FlightsEnd`, `DeliveriesEnd`, `LeasesReturn`,
`AttemptsEnd`, `CallsEnd`, `AnswerSettles`, `LatestShown`), for the prover handles
neither fairness nor ENABLED.

Type invariants and a few others (`CommittedIffReceipt`, `ActiveIffWorking`,
`RouteIsRecorded`) are proved and no longer part of a run: the provers cover every
instance, the runs are kept for what they do not cover or for what a reader
should see fail under a mutant.

## 7. What is not covered

* Failures of the store's own file writes inside a lifecycle flight; a failed
  transaction changes nothing and the flight's `catch` is that of any other error.
* Corruption of files other than the canonical state; of that, a backup damaged
  from outside (what the store itself does to it is modelled).
* What a Global snapshot contains, and its listeners, which are told after the
  queue is released and read the state again.
* The execution of a task in its temporary session, which is one step that
  succeeds or fails after any time (`executeScheduledTask` has a deadline); the
  computation of next runs from cron expressions.
* The streams of thinking text, tool calls and compact progress. A part whose
  transport degrades it to plain text reports so only for thinking text, so
  `degradedToPlain` is not in the model. A user who switches the message format in
  the middle of an answer that is edited in place: the format is read for each
  version, and then a message may keep the other form of the same text
  (`FormsAssumption`). Messages the user deletes by hand. A sent
  message whose answer was lost stays in the chat unknown to the program.
* Children started with `exec` that ignore SIGTERM: outside the program.
* Edits of a Skill file within the milliseconds between the reads of one function.
* Several Topics in TopicAuthority: routes of different Topics share only a queue.
  `events.resolve` reads only. The in-process Core of the native runtime.
* The contents of a Topic (first messages, workspace files).
* The components marked not modelled: presentation, formatting and localisation
  hold no state worth a model; catalogues and integrations are data processing and
  I/O; the launcher and service manager are sequential start-up code; leases of
  credentials are cryptography. The others are in the plan.

`PROJECT.json` lists under "hazards" what in this code is hard to test, with the
properties that would notice; those without one say why.

## 8. Plan

Done: the table, the lifecycle over it, creation above it; the budget; the
mutations and the store beneath them; the authority; scheduled tasks; the stream
of an answer. The twelve runs are what is checked in a reasonable time, so a new
module takes the place of a question whose theorem is proved. Next, in this order:

1. **PromptRuns**: `bot/handlers/prompt.ts` with the run state, the handler of
   `session.idle`, status reconciliation, cancellation and the stall watchdog.
   The reading so far: the busy check is followed by awaits before the run is
   marked; a late idle event ends whatever run is recorded; a status read before a
   new prompt is applied after it. Property: nothing ends a run but its own end or
   stop, and nothing stays busy for ever.
2. **InfrastructureController**: the request queue, seeds, registry and one-use
   grants, with crashes between the files; it should implement what
   TopicNodeLifecycle assumes of a boundary call. Theorem: a consumed grant or a
   superseded generation is never accepted.
3. **ServerSupervision**: `auto-restart` with `ready-lifecycle`. One server at a
   time; an exit is repaired also when it happens during a check; `ready` implies
   the handlers of this start ran.
4. **PromptIntake**: merger, media groups, queue and dispatch; each part in one
   prompt, in order, also when a timer races the next part.
5. **Gateway**: limits on outstanding calls, replay window, late answers.

Proofs: every safety property of the passing runs has its theorem; each module above
brings its own.

## 9. Running it

    tlc -workers 2 -config MCNodeBindings.cfg MCNodeBindings.tla
    tlapm NodeBindings_proofs.tla

Every `MC*.cfg` is checked with the MC module of the same stem. The passing runs
take from a few seconds to four minutes each; so do the proofs of a module.
Refuted on purpose: `MCTopicNodeLifecycle_sleep.cfg` and
`MCTopicNodeLifecycle_rollout.cfg`.
