# Formal model of actias

actias runs Lua scripts on a fleet of workers. Its own core is the object
runtime: named objects, each with one SQLite file, one pinned task, one alarm
and a lease that says which worker hosts it. Queues, crons, databases and
workflows are platform classes built on those objects. Around them stand a
script service (revisions, contracts, the placement store), a key-value service,
a secret service, an api and a cli.

This directory holds TLA+ modules of those parts, the TLC configurations that
check them on small instances, and TLAPS proofs of what matters most. Every
definition is translated from the source; `PROJECT.json` maps each one to its
lines, and lists the hazards the properties are about.

## Inventory

| Component | State | Operations | Hard part | What makes it correct |
|---|---|---|---|---|
| Placement store (`node_registry.rs`, `heartbeat.rs`) | tables `nodes`, `leases`, `object_epochs`, `object_instances`; each worker's identity | register, heartbeat, deregister, list, get/acquire/release lease | a claim is four or five statements outside any transaction; nodes are reaped between them | leases of registered nodes only; epochs that tell holders apart; no resurrection |
| Object hosting (`routing.rs`, `object_store.rs`, `worker-core/objects.rs`) | resident tasks, files and WALs, snapshot and manifest in the blob store | resolve, claim, restore, spawn, commit, checkpoint, ship, hibernate | a lease lost behind a running task's back; ships racing; crashes and lost disks | one home; nothing shipped is lost; the fence |
| Calls between objects (`routing.rs`, `data_plane.rs`, `objects.rs`) | calls on their way, mailboxes, the chain a call carries | route, forward, spawn, queue, run, answer | nested calls with shut mailboxes; tasks and nodes that end under a caller | cycles refused; one task; every call ends |
| Object task (`objects.rs`, `storage.rs`, `extensions/objects.rs`, `sweeper.rs`) | alarm row, alarm cell, registry mirror, open transaction, init mark | call, fire alarm, set alarm, commit, roll back, hibernate, sweep, boot scan | three copies of one alarm; an alarm cleared before its handler; failed commits | the copies agree; init once; alarms fire; failures leave nothing |
| Queue class (`platform/queue.rs`) | message and dead-letter tables, alarm | send, deliver, retry, dead-letter, requeue, drop | a delivery awaits per message and may be undone; one budget per batch | no message lost or resurrected; every message settles |
| Cron class (`platform/cron.rs`, `server.rs`) | alarm per event; the revisions a worker has armed | ensure, fire | arming that fails half way; re-arm inside the alarm's transaction | a schedule never stops by itself |
| Workflow class (`platform/workflow.rs`, `extensions/determinism.rs`) | journal, alarm, children | start, step, sleep, signal, await, race, spawn, resume, cancel, replay | replay against a journal signals may shift; a step retried over crashes; parent and child in two files | replay is faithful; a kept step never reruns; every run settles |
| Database class (`platform/database.rs`, `storage.rs`) | user tables, applied migrations, shipped snapshot, replicas | open, migrate, query, exec, batch, read beside the mailbox | two tasks on one file after a republish; an output gate | migrations once; answered is shipped; reads see what was answered |
| Script service (`script_service.rs`) | scripts, revisions, current pointer, contracts, aliases, blobs | create/delete script, publish, delete revision, set current, alias, delete project | contract check before write; pointers chosen on earlier reads | pointers resolve; one owner per identity |
| Declarations analyser and Lua runtime (`actias-declarations`, `runtime/mod.rs`) | what a vm declared and loaded | extract, boot, require, dofile, declare, call | the same code run twice, once among stubs | the stored contract is the code; nothing declared after boot |
| Live sessions (`live_script.rs`) | redis keys with a ttl | put, get, delete session, delete script | several keys, no transaction | every served session is deletable |
| Worker http server (`server.rs`, `routing.rs`, `blob_cache.rs`) | pointer, alias, owner and revision caches | resolve, load, serve, evict | shared, slow and failing loads beside publishes | fresh within a bound; a script serves its own code |
| Key-value service (`actias-kv`, `extensions/kv.rs`) | pairs per namespace, registry of namespaces | set, get, list, delete, delete namespace/project | several statements without a transaction | no orphans; complete listings |
| Secret service (`actias-secret-service`, `extensions/secrets.rs`) | versions per name, master keys, a run's pins | set, delete, list, resolve | decisions on a head read earlier; vms rebuilt after a rotation | a run keeps its versions; a delete hides only what it saw |
| Api, cli, web | users, projects, acl, tokens; developer tooling | CRUD | | not modelled |

Interactions. A worker registers with the placement store and beats. A request
is resolved through the worker's caches to a revision, whose vm calls objects. A
call for an object claims its lease; the winner restores the file from the blob
store, spawns the task and ships a snapshot after each write, the loser
forwards. A task mirrors its alarm to the registry, whose due rows every
worker's sweep reads to wake objects nobody touches. Platform classes are
objects: their calls and alarms run inside the object task's transaction, a
queue's delivery and a cron's firing call a script's listener, and a workflow's
child calls its parent.

## Modules

| Module | Models | Grain |
|---|---|---|
| `Placement` | node registry, heartbeat loop, shutdown | one action per SQL statement of `acquire_lease`, one per other handler |
| `ObjectHosting` | where one object lives: claims, registry lock, restore, task, ship, crashes | one action per await of `resolve_handle`, the factory and `ship` |
| `Calls` | calls between objects on several nodes | one action per step of a call between which others may come |
| `ObjectTask` | one task on one node: dispatch, transaction, init, alarm, mirror, sweep | one action per step between which a failure or a crash leaves a different state |
| `Queue`, `QueueContract` | the `__queue` class, and what it promises of each message | a call is one action; a delivery is one per message |
| `Workflow` | one run of the `__workflow` class | one action per verb, per attempt of a step, per commit |
| `Database` | the `__database` class on one file, its tasks, store and replica | one action per statement of a call, per ship, per read |
| `Declarations` | a bundle run by the extraction vm and by the worker's vm | one action per vm: derive, boot, call |
| `ScriptService` | the script service's rpcs | one action per SQL statement or transaction |
| `LiveSessions` | a script's sessions in redis | one action per command |
| `Serving` (extends `LiveSessions`) | a worker's http surface, caches and crons | one action per cache hit, load and answer |
| `KeyValue` | the key-value service, scripts and the api on it | one action per CQL statement |
| `Secrets` | the secret service and a run's pins | one action per SQL statement |
| `ScriptServiceProofs` (the script service and its placement store), `HostingProofs`, `RuntimeProofs` (`Calls` and `ObjectTask`), `QueueProofs`, `RunProofs` (`Workflow` and `Secrets`), `DatabaseProofs`, `ServingProofs`, `KeyValueProofs` | theorems | |
| `MC*` | instances for TLC | |

**Placement.** `nodes`, `leases`, `epochs` and `directory` are the tables, `claim[c]`
the locals of a running handler. Every statement of a claim is an action, since
each runs on a pool by itself: a reap, a release or another claim may come in
between, and the handler may be dropped with what it did so far left done
(`ClaimAbort`). Time is `age`, ticks since the last beat, capped at `Ttl`.
`release_lease` has no caller in the workers today; it is in the model because the
service offers it, under `MaxReleaseEpoch`. `grants` is a history of the answers.

**ObjectHosting.** One object, because objects share only the registry lock.
The claim of `Placement` is here again with a worker for its current registration:
`Lapse` is the deletion of a live worker's node row (age-out, goodbye), `Ghost`
the row of a dead process. A file is the set of writes it has absorbed, so losing
or resurrecting one shows. The task's epoch is fixed at spawn, as in the code. A
worker has one or more `Slots`, since a republish changes the marker and
`get_or_spawn` starts a second task on the same file while the first still serves
its handle; each has its own `ship_mark`. A restore writes in place: a
write that fails or a handler dropped in it (`RequestFails`), like a crash, leaves a
file with part of the snapshot that the next spawn takes as it is. (A dropped
`tokio::fs::write` may still finish in its blocking pool; what a file then holds is
outside `HomeHasShipped`, which says nothing after a torn restore.) `KeepsVolume` chooses between disks
that survive a restart and disks that do not.

**ObjectTask.** `file` is what is committed and `tx` what the open transaction
sees. Alarms are numbered in the order they are set; an armed one may come due at
any moment, so no clock is needed. `sending` is the bag of mirror writes in
flight, which land in any order. `CommitFails` follows the code: no rollback, no
resync, and SQLite may or may not have closed the transaction. The failures that the
code only logs or ignores are outcomes of their actions, counted as `slips`: of the
DELETE when an alarm fires, of the read at spawn and after a rollback, of the ROLLBACK
itself. A boot scan may miss the file, and a dispatch may hang (`Hang`): the call
budget is an interrupt of the vm's instructions (`runtime/mod.rs:708`) and ends no await.

**Queue.** Messages are numbered by sending. Times count down (`next`, `alarm`).
`Undo` is a delivery that ends without COMMIT, by a crash or an SQLite error, and
`CommitFails` one whose COMMIT fails: nothing of it is in the file, but the loop waits
on the alarm it re-armed in memory. `Hang` is a listener that never returns.
`late` is the batch's shared call budget, used up. Ids follow AUTOINCREMENT.
`Status` reads each message's fate off the committed file, and
`KeepsContract` says that under this mapping the queue implements
`QueueContract`: a message leaves the queue only accepted, dead-lettered or
dropped, and one that was delivered or dropped never comes back.

**Calls.** A call's id is its place in `calls`; its state says where it is (routing,
forwarded, waiting for a mailbox slot, queued, running, answered). What a method
computes is left out: a body is the calls it makes. `Stack` is the history the
chain should stand for: the calls `Reached` from a call through those that made it. Deaths, lapsed leases and republishes share one bound.

**Workflow.** The journal is a sequence and a cursor the positions an attempt has
not consumed. A verb commits and begins again where the code does, so a crash
keeps a prefix (`durable`). `said` collects what an attempt's verbs answered and
`kept` what the journal grew from; `mishap` names what happened that the code does
not protect against: a signal where no gate waits, a read of the clock inside a
step, a lost notification, an error outside a step, a hung call, a crash between a
commit and its alarm. A cancel tells one child after the other and commits last
(`Cancel`, `CancelChild`, `CancelEnds`); it, like every call, may fail, hang or be
crashed at each await (`CallFails`, `Hang`, `Crash`). A child that runs need not end.

**Declarations, ScriptService.** A program is the declarations and loads it comes
to; a statement may run on one side only, since a stub is not the value it stands
for. A behaviour of `Declarations` puts one bundle on trial: derive, boot, call. `Portable`
names the statements both vms treat alike: not among them is a `secret` the worker
cannot resolve at boot, because it is not set or no service answers (`Unresolved`), nor
an `on` whose listener is no function, which the stub takes and the worker refuses;
the rest is listed under the disagreements below. To `ScriptService` a published bundle is the contract derived
from it (a member of `Contracts`) and the hash of its files; `MCScriptService` puts the
two side by side, a behaviour being the service's or one bundle's.

**LiveSessions, Serving.** Time is a clock, keys and cache entries carry when they
end. `scene` is a bound: each behaviour plays one of a few combinations of
targets, moves, evictions and faults side by side, chosen in `MCServing` so that
each pair of them meets in some scene. A request's own loads end by its deadline;
an owner's load has none, since the sweeper, the data plane, a cron's arming and
pinned tasks start it outside any handler and others join it. Cron schedules are here because arming them is part of
serving; their alarm is `ObjectTask`'s, seen from outside: set, firing, lost, over.

**Database.** SQLite's deferred transactions, its one writer and the refusal of a
stale snapshot are modelled, because a republish puts two connections on a file.
`main` is what a checkpoint has moved out of the WAL, and what a ship reads: a reader
beside the mailbox may hold one up. A COMMIT may fail, with the vm's flag left set. A
migration is its place in path order and an effect the pair of call and statement.

**KeyValue, Secrets.** A handler's remaining statements are a sequence
(`KeyValue.todo`) or a program counter with what it read (`Secrets.rpc`). `torn`
and `since` name what an interrupted or overtaken rpc may leave. The statements of a
batch, and the namespaces a project's delete read, come in any order (`Orders`). A
listing records how often it answered each key, so that a key answered twice and
one never answered are both seen.

A definition `X_Something` stands before `X` where a plausible bug of `X` is
kept: the mutants of `PROJECT.json` replace `X` by it and name the property that
then fails.

## Runs

| Run | Instance | Shows |
|---|---|---|
| `placement` | 2 workers, 2 ids, 1 object, Ttl 1; two claims at once, or one with shutdowns, restarts and releases below epoch 1 | fresh epochs distinct; no resurrection; no lease taken; a dead holder's lease is freed while someone keeps asking |
| `hosting` | 2 workers of 1 slot, 2 requests, 2 writes, 1 lapse, 1 crash, 1 failed upload, 1 torn restore | one home until a lapse; nothing shipped lost; the fence's only hole |
| `hosting_one_node` | 1 worker of 2 slots with a lasting disk, 2 writes, 1 republish, 1 each of the rest | answered writes are served; ships catch up |
| `calls` | 3 objects (2 workflows, 1 database), of which 2 can be called, 2 nodes, 3 calls, mailbox of 1, 1 upset | cycles refused; one task until a republish; no call stranded |
| `task` | 2 alarms, 2 calls, 1 crash, 1 failed commit, 1 lost mirror write, 1 swallowed failure, 1 missed boot scan, 1 mirror write in flight, 1 call of `init` | row, cell and mirror agree; init once; failed calls set nothing; alarms fire |
| `queue` | 3 messages, batch 2, 2 attempts, 1 requeue, 1 undo or failed COMMIT, hung listeners | contract, ids, settling |
| `workflow` | 5 bodies that use every verb, 2 outside calls, 2 failed steps, 1 each of the rest | faithful replay; steps not repeated; truthful status; runs settle |
| `database` | 3 task lives, 3 revisions, 2 calls of 2 statements, failed commits, 1 failed upload, 1 held-up checkpoint, 1 failover | migrations once and before use; answered is shipped; reads see it |
| `scripts` | 2 scripts, 3 revisions, 5 rpcs, 2 at once, 1 failed statement; 40 000 bundles | pointers resolve; one owner; contract equals code; sealed after boot |
| `serving` | 2 scripts, 3 revisions, 2 requests at once, 7 scenes | freshness within pointer ttl and deadline, or since the owner's load; own code; crons armed; sessions indexed |
| `keyvalue` | 2 namespaces, 2 keys, 2 handlers, 3 rpcs, 1 failed statement, pages of 1 | answered pairs are listed; listings complete; project delete |
| `secrets` | 1 name, 3 versions, 2 handlers, 2 changes of the master key, 3 vm builds | a run keeps its secrets; a rotation outlives a delete |

Several properties hold only until a particular fault happens, and say so:
`LivesWhereLeased` until a lapse, `HomeHasShipped` where disks go with their process
until a lapse, a republish, a checkpoint held up by a reader or a torn restore,
`HomeHasAcked` until the volume is lost, `ShipCatchesUp` until then, a held-up checkpoint
or a republish, `CellMatchesRow` until a COMMIT fails or a failure of the alarm's delete
or read or of a ROLLBACK is swallowed, `AlarmFires` until one of these, a missed boot scan
or a dispatch that hangs for good, `Settles` until a delivery is undone or a
listener hangs, `ReplayFaithful` and `StepsNotRepeated` until a stray signal or a clock read
inside a step (and what a verb answers stays so where no two gates of a body wait for one
name), `RunSettles` until a crash, an error, a hung call or a lost notification,
`CurrentResolves` and `OneOwner` but for pointers written on overtaken reads or
without a look at contracts, `MigratedUnlessUndone` but for the vm whose own call or
COMMIT failed, `AckedIsShipped` until an upload fails, a checkpoint is held up or two
tasks ship one file, `SessionsIndexed` until a put is cut short or overlaps a delete,
`CronsArmed` but for a firing lost with its process. In each case the model contains
the fault and TLC finds the property broken when the condition is taken away; the
condition is the statement of how far the code's protection reaches.

**Bounds.** Each counter stops one kind of event, and is chosen so that the event
can fall between any two steps of everything else: two claims suffice for
a race, one lapse for two homes, three messages with batches of two for a batch
that leaves one behind, two attempts for a retry before the dead letter, three
versions for a set that loses three times, three calls for a cycle back to the first
of two objects (a cycle through a third is covered by `NoCyclesRun`). `placement` plays two
scenes, because two claims beside everything else are too many for its liveness property:
two claims at once while nodes register, beat and age out, or one claim with
shutdowns, deaths, restarts and releases; any number of handlers beside all of these
is covered by the theorems. Epochs, ids and histories are unbounded in the modules and bounded only
through these events. Symmetry is used in safety runs over interchangeable
workers, handlers, requests, tasks and sessions. Modules whose bounds can be used up
do not check deadlock; `Placement` and `ObjectHosting` do.

**Fairness.** `Placement`: the clock runs, a running handler reaches its next
statement, and callers keep asking (the property is about that case; leases are
freed only by a reaping handler). `ObjectTask`: the loop's timer fires; a spawned
mirror write lands unless its three tries are lost, which is bounded; a dead process
is restarted and its sweep runs on an interval. `Queue`: the clock and the loop.
`Workflow`: time passes, armed alarms ring (`ObjectTask` shows when), a child that has
ended sends its one notification. Of a dispatch, a listener or a run's call the code
bounds only the vm's own instructions: the call budget is a Luau interrupt
(`runtime/mod.rs:708-720`) and nothing ends an await. So each of them may `Hang` in the
model, fairness is only that one which has not hung goes on, and the properties allow
for the hung one. Children are not assumed to end. No fairness is assumed of callers,
crashes or faults.

## Disagreements met while modelling

Places where a comment, a doc or a test says more than the code does. Those with a
configuration have a counterexample TLC finds when it is run by hand
(`tlc -config X.cfg MCModule`); the others are described from the model.

- `MCPlacementEpoch.cfg`, `EpochPerHolder`: a claim dropped between its INSERT and its
  epoch statement holds the lease without a bump, and is later answered the
  previous holder's epoch (`node_registry.rs:219`; migration `epochs.up.sql:1`:
  "bumped on every lease acquisition").
- `MCHostingZombie.cfg`, `NewerEpochStays`: the fence is checked once per ship; an
  ex-owner past its check overwrites the successor's snapshot and takes the
  manifest back to its older epoch (`object_store.rs:47`; its line 13: "a zombie ex-owner's
  uploads lose to any newer epoch here").
- `MCHostingStaleFile.cfg`, `SpawnSeesShipped`: a worker that kept its file starts from
  it, without the writes its successor shipped (`routing.rs:279`;
  `object_store.rs:3`: "restore-on-spawn brings it back wherever the object is next resident").
- `MCTaskCrash.cfg`, `DeadNodesTimersKept`: the alarm is deleted from row, cell and
  mirror before its handler's transaction opens, so a crash in between loses it
  (`objects.rs:419`; `sweeper.rs:7`: "a dead node's timers fire from a survivor").
- `MCTaskInit.cfg`, `FailedInitRetries`: a vm whose init failed already has its state
  table, so the next call skips init (`extensions/objects.rs:606`; its line 603: "a failed init
  retries next call").
- `MCQueueBudget.cfg`, `DeadWereTried`: one call budget covers a batch, and messages
  behind a slow listener burn attempts untried (`queue.rs:309`; its line 26: "Deliveries attempted
  before a message dead-letters").
- `MCWorkflowReads.cfg`, `ResultsReplay`: a clock or generator read inside a step journals
  an entry between the step's rows, and the replay runs the body of a kept step
  again (`workflow.rs:1758`, `determinism.rs:105`; `EntryKind::Result`: "replay returns
  this value instead of running the body again").
- `MCWorkflowGates.cfg`, `GatesDeterministic`: a gate looks for its signal before it looks
  at the clock. One that timed out is answered, at a later replay, by the signal that
  came for a later gate of the same name: the body is told something else than
  before, and the later gate waits on without its signal (`workflow.rs:1634`; its line 1559:
  "which is deterministic").
- `MCCallsSelf.cfg`, `ReentrancyRefused`: an object that calls itself directly looks like
  a forwarded call, is let through, and waits on its own mailbox
  (`routing.rs:525`; `objects.rs:510`: "refused loudly instead").
- `MCDatabaseMigrations.cfg`, `MigrationsRetried`: migrations are marked checked before the
  call's statements; one that fails rolls them back, the flag stays, and the vm
  never applies them (`database.rs:32`; its lines 21-24).
- `MCScriptsOwner.cfg`, `SingleOwnerAlways`: `set_script_revision` and `delete_revision` move
  the pointer without looking at contracts, and two publishes may overlap
  (`script_service.rs:143`, 172).
- `MCScriptsClean.cfg`, `CleanExtractsRun`: a reserved class name, an unknown event, a
  queue with a blank name and a cron schedule with no occurrence left pass
  publish and are refused by the worker (`actias-declarations/src/lib.rs:66`: "so a
  bundle that extracts cleanly also runs"). A schedule that ends makes a revision
  that has been running stop booting.
- `MCScriptsRequire.cfg`, `BodiesRunOnce`: a module that returns nothing is not in the
  registry, and its body runs again at the next require (`runtime/mod.rs:594`; its line 573: "A
  module body runs once per runtime").
- `delete_revision` names `newest_revision` what its query orders oldest first
  (`script_service.rs:603`); two deletes at once, or one beside
  `set_script_revision`, leave a pointer to a revision that is gone.
- A cron's `fire` computes the next occurrence first, so the last occurrence of a
  schedule that ends is an error and its listener does not run
  (`cron.rs:46`); and an alarm lost with the process that fired it is not armed
  again by a worker that counts the revision as armed (`server.rs:770`: "re-arms
  itself forever after").
- `server.rs:50-51` says that a publish "propagates within the ttl". A pointer loaded just
  before the publish may be stored up to a deadline later and then live its ttl, so
  `ServedFresh` bounds it by both; an object's code comes through an owner's load that
  has no timeout outside http handlers (`sweeper.rs:153`, `data_plane.rs:233`,
  `server.rs:783`), and has no bound in time at all.
- `cancel` tells its children before its own row commits (`workflow.rs:2307`: "Cancellation
  is structured: every spawned child gets the same verdict, best effort"): a crash, a hung child
  or a failed COMMIT in between leaves cancelled children under a run that goes on
  and, since a cancelled child tells nobody, may wait for one for ever.
- A foreign preview is refused on a load but served from the cache, and its refusal
  is shared with requests of the revision's own script (`routing.rs:47`).
- After a lapse two workers may host the object at once; a checkpoint held up by a
  reader (`storage.rs:489`) lets a ship succeed without the write; a failing write, a
  dropped handler or a crash while a file is restored (`object_store.rs:105`) leaves a
  file the next spawn takes as it is; two tasks of a republish may overwrite each
  other's snapshots with older ones; a failed COMMIT leaves the cell armed with an alarm
  that is not on disk, and a failed delete (`objects.rs:197`) a row without its cell; an
  alarm whose file the boot scan missed waits for someone to touch its object; an undone
  delivery leaves messages without an alarm until
  the next send.

## Proofs

All are for every value of the constants; the assumptions are the named ASSUMEs of
the modules (bounds are naturals, the special values are distinct from the
values they stand beside, the sets a statement ranges over are finite).

- `ScriptServiceProofs`, the service's rpcs: `PointersResolve` (`CurrentResolves`) and
  `OwnersUnique` (`OneOwner`). A revision's script and its files are there for as long as its
  row is, so a pointer fails to resolve only if its row has gone, and each handler that
  is about to write one either reads it again in that statement or is among the
  `stale` when another has deleted what it chose. That owners are unique needs, of
  every publish that has passed its check, that what it declares is declared by
  nobody else as long as nobody has overtaken it.
- `ScriptServiceProofs`, the placement store: `TypeCorrect`; `LeasesOfRegistered`; `EpochsBounded` and
  `FenceAdvances` rest on the fact that a fresh grant's epoch is at most
  the stored one, so that the next fresh grant, one more than what is stored,
  differs from all of them, and that a handler past its SELECT read
  a registered id; `DeadStaysDead` and `LeasesNotTaken` are action
  properties, step by step from the type invariant.
- `HostingProofs`. `TypeCorrect`; `Fence`; and `OneHome`, that until a lapse an
  object lives only where its lease is held. That a resident object's
  worker holds the lease is not inductive: the invariant adds that every request that
  believes in the lease (it inserted the row, read itself back as the holder, or
  is past the grant in the factory) is of the worker that holds it, and that a claim
  before its INSERT has inserted nothing. `ShippedSurvives`: what was
  ever shipped is in the store and in every home (`HomeHasShipped`) where no
  live worker's row is deleted, nothing is republished, no checkpoint is held up, no
  restore fails over the file it writes and a disk goes with its
  process, from what is in the file of a worker at each stage between restore and
  install. `OneNodeKeepsAcked` and
  `OneNodeCatchesUp` prove `HomeHasAcked` and `ShipCatchesUp` where the runs
  check them, on one worker that keeps its volume, for any number of slots and
  republishes: the tasks of one worker share its file, so what one answered the
  other serves, but which ship lands last is settled only while one ships. With two workers, or a lost volume,
  an acknowledged write not yet shipped may be gone, as the docs say.
- `RuntimeProofs`, calls: `NoCyclesRun` (`CyclesRefused`), `OneTaskPerObject`
  (`OneTaskUntilRepublish`) and `NobodyStranded` (`NeverStranded`), from one invariant. A
  call was made before the calls it makes, so a stack is finite and the chain a call carries
  names the objects on it, however it was forwarded. What a call's state says is so: a task
  that runs it, a mailbox it is in at one place, a reply its caller waits for. A
  pending call that waits follows the calls it waits for; those it can reach are finite, so
  either one of them can be driven on or there is a ring among them.
- `RuntimeProofs`, the object task: `TypeCorrect`; `InitRunsOnce`, from an invariant that ties the
  mark to the number of inits in the file and in the transaction alike;
  `CellFollowsRow`, from what the cell is at each program counter, where no storage
  failure was swallowed (the counters of such failures only grow, `SpentMoves`);
  `FailedCallsSetNothing`, from alarm numbers never being reused; and
  `ColdAlarmsFound`, the safety half of `AlarmFires`: an alarm row of a cold
  object is in the registry for the sweep to find, as long as no COMMIT failed, no
  storage failure was swallowed and no boot scan missed it. A task
  that ends leaves no alarm, so such an object has come through a boot, whose
  scan wrote the registry row when no earlier mirror write was in flight any more.
- `QueueProofs`. `TypeCorrect` (the backoff and the re-armed alarm are
  natural numbers: the latter needs a least element, from well-founded induction on
  the naturals), `IdsUnique` and `AttemptsBounded` hold of the committed file and of
  the transaction's view alike, since a COMMIT or an undone delivery makes one the
  other. `AcceptedOnce` needs that each message has one row in the two tables, and that a
  message which still has a row was accepted only by deliveries that were
  undone, failed COMMITs among them. `StaysArmed` follows action by action, with `Rearmed` choosing the earliest message.
  `ImplementsContract` is the refinement `KeepsContract`: each step of the queue is
  a step of `QueueContract` or leaves its variables alone. A delivery's COMMIT maps to
  the contract's step that settles its messages, which needs what an open delivery
  may have done to the rows of the file (a message that left both tables was
  heard, no row appears from nowhere) and that what was dropped has no row.
- `RunProofs`, a workflow run: `FaithfulAlways` (`ReplayFaithful`), `NotRepeatedAlways`
  (`StepsNotRepeated`) and `TruthfulAlways` (`StatusTruthful`), for any set of bodies
  whose gates name a signal and whose sleeps do not (`ProgramsAssumption`). What
  the code compares an attempt with is the next row of the journal; that this row is
  of the attempt's own verb says something of the whole past. `WorkflowInv` (`AlwaysPlaced`)
  states it without recursion over the body: there is an assignment `own` of the journal's
  rows to the verbs they belong to (a signal to the gate it answers) such that each
  row fits its verb, rows other than signals come in the order of the verbs, no row comes
  before every earlier verb can be passed, and a signal belongs to the first gate that
  wanted it. The cursor then lists exactly the rows of the verb the attempt is at and of
  those after it, and a failed or parked run's last row is of the verb it stopped
  at, which is what `at_step` and `run_status` read. Each action extends or cuts the assignment:
  a verb appends a row of its own, a signal is given a gate, a cancel's row is the
  last, a crash or a failed commit leaves the durable rows theirs. That answers stay needs the values that the
  rows of each verb give and, of gates, that none with a timeout shares a name with a later
  one (`GatesApart`): without it the claim is false, see `GatesDeterministic`.
- `RunProofs`, secrets: `RotationsWin` and `PinsHold`, from one invariant: the versions of
  a name are numbered from 1 without a gap, what a handler read is at most
  the head, a delete about to write read some version, and a run's pins are rows,
  the same in memory as in its table while a vm is there. An insert adds one past the
  head it read, so either the primary key refuses it or that head is the head
  still; a delete marks a row that was there, and hides the name only if no version
  has come since. A pin's row opens while its key is the active or the previous one.
- `DatabaseProofs`. `TypeCorrect`; `MigrationsOnce`, `MigrationsStay`, `GateHolds`
  (an acknowledged write is shipped) and `ReadsFresh`. Their common invariant
  compares each transaction with the file: it is ahead of it if it wrote, behind if its
  snapshot is stale, equal otherwise, and only one wrote (the writer lock). A COMMIT is
  then the file going forward (a failed one leaves it, and the vm is marked `undone`),
  and a stale transaction never gets to one, so
  no migration recorded in the file is run a second time; the same is said of the store's
  copy, since a restore makes it the file. The gate needs that, until one is held up,
  a checkpoint has moved all that is committed to where a ship reads it.
- `ServingProofs`. `PublishPropagates` (`ServedFresh`: what is served by pointer or alias
  by the clock, an object's code by when its load began), `OwnCode` (`ServesOwn`),
  `CronsStayArmed` (`CronsArmed`) and `SessionsFound` (`SessionsIndexed`). That an answer is at most
  `POINTER_TTL + DEADLINE` old needs, of every request under way and every cached pointer,
  when what it holds was current; that it is the script's own code needs the
  same of live sessions and of loads under way. A cron stays armed since
  what the arming task of a revision has left behind is armed, unless the task knows of a
  failure and will take the revision off the armed ones, to be armed again.
- `KeyValueProofs`. `TypeCorrect`, `PairsFindable` (`AnsweredIsListed`),
  `ListingsComplete` and `ProjectDeleted`. For the first: a pair's row without its
  listing row is either a rpc's that has yet to insert it, or one that an interrupted
  or overtaken rpc left (`torn`, `since`). For the listing: the keys up
  to the cursor that stayed throughout were each answered once, those past
  it never. For the delete: what a
  rpc is about to unregister has pairs only where it still drops them, or where they were
  written since it began or torn off.

Model-checked only:

- liveness under fairness, which is outside the prover's reach: `DeadHolderFreed`,
  `AlarmFires`, `Settles`, `RunSettles`;
- `Declarations` (`ContractIsCode`, `SealedAfterBoot`), which runs bundles by recursive
  operators: the prover takes no module that reaches one.

## Not modelled

The api (users, projects, acl, service tokens, the gateway): a thin http surface
over one relational database and the services modelled here. The cli and the web
dashboard: tooling and user interface. Within the modelled parts: the listing of
the object directory; the queue's event ring and files of schema version 1 (whose
rebuild may reuse the id of a dead letter); overflow of the queue's backoff shift,
which needs more than fifty attempts; Lua execution beyond declarations, modules and
calls, where a dispatch succeeds, fails, runs out of budget or hangs; http extension
and egress policy; log streams, metrics and wire formats; cryptography; the
key-value migration tool.

## Plan

1. An abstract specification of a workflow run (each step's result is decided
   once) that `Workflow` implements where it is undisturbed; the assignment of
   rows to verbs in `WorkflowInv` is what its refinement mapping needs.
2. `Declarations` with its evaluator as a relation between a bundle's steps rather
   than a recursive operator, so that `ContractIsCode` can be proved.
3. The queue's files of schema version 1 and the rebuild that may reuse an id.

Runs stay few: one passing run per component that asks all its questions.
