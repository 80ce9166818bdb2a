----------------------------- MODULE ObjectHosting -----------------------------
(* Where one object lives: the lease its host claims, the task that serves it, *)
(* the file on the host's disk and the snapshot shipped to the blob store.     *)
(*                                                                             *)
(* The registry's claim is the one of module Placement seen from the workers:  *)
(* a holder is a worker's current registration, Ghost stands for the row of a  *)
(* process that died, and the deletion of a node row, whatever caused it       *)
(* (age-out, goodbye, registering anew), is one step.  Its statements stay     *)
(* separate.  Objects share nothing but the registry lock, so one is modelled; *)
(* the content of a file is the set of writes it has absorbed.  A worker may   *)
(* have several tasks of the object: a republish replaces the one the registry *)
(* hands out and leaves the old one to the callers that hold it.               *)
EXTENDS Naturals

CONSTANTS
  Workers,
  Requests,         \* concurrent touches of the object
  Slots,            \* bound: tasks of the object alive on a worker at once
  Nobody, Ghost,    \* lease values that are no live worker
  NoFile,           \* the object has no file on this disk
  MaxWrites,        \* bound: calls that write
  MaxLapses,        \* bound: node rows of live workers deleted
  MaxCrashes,       \* bound: processes that die
  MaxShipFailures,  \* bound: uploads that fail
  MaxVolumeLosses,  \* bound: disks lost
  MaxBlocked,       \* bound: checkpoints a reader of the file holds up
  MaxTorn,          \* bound: restores that fail while they write the file
  MaxRepublishes,   \* bound: touches that find a live task of another revision
  KeepsVolume       \* does a worker's disk survive its restart?

ASSUME HostingAssumption ==
  /\ Nobody \notin Workers /\ Ghost \notin Workers /\ Nobody # Ghost
  /\ {MaxWrites, MaxLapses, MaxCrashes, MaxShipFailures, MaxVolumeLosses, MaxBlocked,
      MaxTorn, MaxRepublishes} \subseteq Nat
  /\ Slots # {}
  /\ KeepsVolume \in BOOLEAN
  /\ \A content \in SUBSET (1..MaxWrites) : content # NoFile

VARIABLES
  lease,     \* the leases row: a worker, Ghost or Nobody
  epoch,     \* the object_epochs row, 0 when there is none
  req,       \* request -> where it stands in resolve_handle / resolve_local
  running,   \* the worker processes alive
  task,      \* worker and slot -> a task; epoch 0: none
  entry,     \* worker -> the task its registry holds a handle of
  file,      \* worker -> the object's file on its disk, WAL included
  wal,       \* worker -> the writes of it that are in the WAL only
  snapshot,  \* blob store: snapshot.db
  manifest,  \* blob store: the epoch in manifest.json, 0 when there is none
  acked,     \* history: writes whose caller was answered
  shipped,   \* history: of those, the ones whose ship succeeded
  spent      \* what is left of the bounds

registry == <<lease, epoch>>
disk == <<file, wal>>
blobs == <<snapshot, manifest>>
history == <<acked, shipped>>
tasks == <<task, entry>>
vars == <<registry, req, running, tasks, disk, blobs, history, spent>>

Writes == 1..MaxWrites

\* pc: the statement of acquire_lease to come, asked by resolve_handle (factory
\* FALSE) or by the factory; "lock": waiting for get_or_spawn's registry lock;
\* "restore"/"writing": bringing the snapshot back.  stale: the node row this
\* claim speaks as is gone.
Request == [pc : {"idle", "insert", "select", "epoch", "lock", "restore", "writing"},
            w : Workers, factory : BOOLEAN, fresh : BOOLEAN, mine : BOOLEAN,
            stale : BOOLEAN, epoch : Nat, bytes : SUBSET Writes]

\* pc: the step of its ship a task is at, "idle" between calls; bytes: what it read.
Task == [epoch : Nat, pc : {"idle", "check", "read", "put", "manifest"},
         write : 0..MaxWrites, bytes : SUBSET Writes]

NoTask == [epoch |-> 0, pc |-> "idle", write |-> 0, bytes |-> {}]

Tasks == Workers \X Slots
Host(t) == t[1]
Live(t) == task[t].epoch > 0

IdleRequest(w) == [pc |-> "idle", w |-> w, factory |-> FALSE, fresh |-> FALSE,
                   mine |-> FALSE, stale |-> FALSE, epoch |-> 0, bytes |-> {}]

\* is_resident: the handle the registry holds leads to a live task.
Resident(w) == Live(entry[w])

Init ==
  /\ lease = Nobody /\ epoch = 0
  /\ \E w \in Workers : req = [r \in Requests |-> IdleRequest(w)]
  /\ running = Workers
  /\ task = [t \in Tasks |-> NoTask]
  /\ \E k \in Slots : entry = [w \in Workers |-> <<w, k>>]
  /\ file = [w \in Workers |-> NoFile] /\ wal = [w \in Workers |-> {}]
  /\ snapshot = {} /\ manifest = 0
  /\ acked = {} /\ shipped = {}
  /\ spent = [writes |-> 0, lapses |-> 0, crashes |-> 0, ships |-> 0, volumes |-> 0,
              blocked |-> 0, torn |-> 0, republished |-> 0]

Spend(what) == spent' = [spent EXCEPT ![what] = @ + 1]

--------------------------------------------------------------------------------
(* Touching the object: resolve_handle, then get_or_spawn and its factory.     *)

\* The call's request ends, with a handle or an error.
Done(r) == req' = [req EXCEPT ![r] = IdleRequest(req[r].w)]

\* resolve_handle: where the object is not resident, the first claim; "a resident
\* one already holds it" and goes straight for the registry lock.
Touch(r, w) ==
  /\ req[r].pc = "idle" /\ w \in running
  /\ req' = [req EXCEPT ![r] =
               [IdleRequest(w) EXCEPT !.pc = IF Resident(w) THEN "lock" ELSE "insert"]]
  /\ UNCHANGED <<registry, running, tasks, disk, blobs, history, spent>>

\* INSERT ... ON CONFLICT DO NOTHING; the foreign key refuses a deleted row's id.
ClaimInsert(r) ==
  LET q == req[r] IN
  /\ q.pc = "insert"
  /\ \/ /\ lease # Nobody
        /\ req' = [req EXCEPT ![r].pc = "select"]
        /\ UNCHANGED lease
     \/ /\ lease = Nobody /\ ~q.stale
        /\ lease' = q.w
        /\ req' = [req EXCEPT ![r].pc = "select", ![r].fresh = TRUE]
  /\ UNCHANGED <<epoch, running, tasks, disk, blobs, history, spent>>

\* The holder, read back; a row freed meanwhile aborts the claim.
ClaimSelect(r) ==
  LET q == req[r] IN
  /\ q.pc = "select" /\ lease # Nobody
  /\ req' = [req EXCEPT ![r].pc = "epoch", ![r].mine = lease = q.w /\ ~q.stale]
  /\ UNCHANGED <<registry, running, tasks, disk, blobs, history, spent>>

\* acquired
Granted_Always(q) == TRUE

Granted(q) == q.fresh \/ q.mine

\* The epoch, and the answer: resolve_handle goes for the registry lock, the
\* factory goes on to the file; refused, the call is forwarded or fails.
ClaimEpoch(r) ==
  LET q == req[r]
      e == IF q.fresh THEN epoch + 1 ELSE IF epoch = 0 THEN 1 ELSE epoch
      won == [IdleRequest(q.w) EXCEPT !.pc = IF q.factory THEN "restore" ELSE "lock",
                                      !.epoch = IF q.factory THEN e ELSE 0] IN
  /\ q.pc = "epoch"
  /\ epoch' = IF q.fresh THEN e ELSE epoch
  /\ req' = [req EXCEPT ![r] = IF Granted(q) THEN won ELSE IdleRequest(q.w)]
  /\ UNCHANGED <<lease, running, tasks, disk, blobs, history, spent>>

\* The claim fails (foreign key, ClaimRaced, a dropped connection or statement)
\* or the snapshot cannot be fetched, or the caller is dropped at an await; what the
\* registry did stays done.
RequestFails(r) ==
  /\ req[r].pc \in {"insert", "select", "epoch", "lock", "restore"}
  /\ Done(r)
  /\ UNCHANGED <<registry, running, tasks, disk, blobs, history, spent>>

InFactory(r) ==
  \/ req[r].pc \in {"insert", "select", "epoch"} /\ req[r].factory
  \/ req[r].pc \in {"restore", "writing"}

\* The registry lock is free of this worker's other factories.
LockTaken(r) ==
  /\ req[r].pc = "lock"
  /\ \A other \in Requests : req[other].w = req[r].w => ~InFactory(other)

\* The factory claims again before it builds anything.
EnterFactory(r) ==
  req' = [req EXCEPT ![r] = [IdleRequest(req[r].w) EXCEPT !.pc = "insert", !.factory = TRUE]]

\* get_or_spawn: a live task of the revision asked for is handed out, else the
\* factory runs.
EnterRegistry(r) ==
  /\ LockTaken(r)
  /\ IF Resident(req[r].w) THEN Done(r) ELSE EnterFactory(r)
  /\ UNCHANGED <<registry, running, tasks, disk, blobs, history, spent>>

\* The marker of the live task is another revision's: the factory runs beside it.
EnterRepublished(r) ==
  /\ LockTaken(r) /\ Resident(req[r].w) /\ spent.republished < MaxRepublishes
  /\ EnterFactory(r)
  /\ Spend("republished")
  /\ UNCHANGED <<registry, running, tasks, disk, blobs, history>>

\* The factory's end: storage opens (creating the file if there is none) and the
\* task starts, holding the epoch of the factory's claim for its whole life, and
\* takes the registry's entry.  A replaced task goes on for those who hold it.
Spawn(r, content) ==
  LET w == req[r].w IN
  /\ file' = [file EXCEPT ![w] = content]
  /\ \E t \in Tasks :
       /\ Host(t) = w /\ ~Live(t)
       /\ task' = [task EXCEPT ![t] = [NoTask EXCEPT !.epoch = req[r].epoch]]
       /\ entry' = [entry EXCEPT ![w] = t]
  /\ Done(r)
  /\ UNCHANGED <<registry, running, wal, blobs, history, spent>>

OpenLocal_RestoreErrorIgnored(r) ==
  /\ req[r].pc = "restore"
  /\ Spawn(r, IF file[req[r].w] = NoFile THEN {} ELSE file[req[r].w])

\* A file on this disk is taken as it is; no manifest means a new object.
OpenLocal(r) ==
  /\ req[r].pc = "restore"
  /\ \/ file[req[r].w] # NoFile /\ Spawn(r, file[req[r].w])
     \/ file[req[r].w] = NoFile /\ manifest = 0 /\ Spawn(r, {})

FetchSnapshot_Always(r) ==
  LET w == req[r].w IN
  /\ req[r].pc = "restore" /\ manifest > 0
  /\ req' = [req EXCEPT ![r].pc = "writing", ![r].bytes = snapshot]
  /\ file' = [file EXCEPT ![w] = {}]
  /\ UNCHANGED <<registry, running, tasks, wal, blobs, history, spent>>

\* restore: the snapshot is fetched and the file created, still empty ...
FetchSnapshot(r) ==
  LET w == req[r].w IN
  /\ req[r].pc = "restore" /\ file[w] = NoFile /\ manifest > 0
  /\ req' = [req EXCEPT ![r].pc = "writing", ![r].bytes = snapshot]
  /\ file' = [file EXCEPT ![w] = {}]
  /\ UNCHANGED <<registry, running, tasks, wal, blobs, history, spent>>

\* ... and then filled.
WriteRestored(r) == req[r].pc = "writing" /\ Spawn(r, req[r].bytes)

\* The write fails, or its caller is dropped: a torn file stays, and nothing will
\* tell it from the object's own.
RestoreTorn(r) ==
  /\ req[r].pc = "writing" /\ spent.torn < MaxTorn
  /\ Done(r)
  /\ Spend("torn")
  /\ UNCHANGED <<registry, running, tasks, disk, blobs, history>>

--------------------------------------------------------------------------------
(* The task: one call at a time, the output gate before its answer.            *)

\* A call commits a write to the local file, then checkpoints: the WAL moves into
\* the main file, unless another connection to it, a read beside the mailbox or a
\* second task, holds it up (which the pragma reports as a row, not as an error).
Commit(t) ==
  LET w == Host(t)
      k == spent.writes + 1 IN
  /\ Live(t) /\ task[t].pc = "idle" /\ spent.writes < MaxWrites
  /\ file' = [file EXCEPT ![w] = @ \cup {k}]
  /\ task' = [task EXCEPT ![t].pc = "check", ![t].write = k]
  /\ \/ /\ wal' = [wal EXCEPT ![w] = {}]
        /\ Spend("writes")
     \/ /\ spent.blocked < MaxBlocked
        /\ wal' = [wal EXCEPT ![w] = @ \cup {k}]
        /\ spent' = [spent EXCEPT !.writes = @ + 1, !.blocked = @ + 1]
  /\ UNCHANGED <<registry, req, running, entry, blobs, history>>

\* The caller hears the result, whatever became of the ship.
Reply(t, ok) ==
  /\ task' = [task EXCEPT ![t].pc = "idle", ![t].write = 0, ![t].bytes = {}]
  /\ acked' = acked \cup {task[t].write}
  /\ shipped' = IF ok THEN shipped \cup {task[t].write} ELSE shipped

ShipCheck_Unfenced(t) ==
  /\ task[t].pc = "check"
  /\ task' = [task EXCEPT ![t].pc = "read"]
  /\ UNCHANGED <<registry, req, running, entry, disk, blobs, history, spent>>

\* ship reads the manifest: a newer epoch fences it.
ShipCheck(t) ==
  /\ task[t].pc = "check"
  /\ \/ /\ manifest > task[t].epoch
        /\ Reply(t, FALSE)
     \/ /\ manifest <= task[t].epoch
        /\ task' = [task EXCEPT ![t].pc = "read"]
        /\ UNCHANGED history
  /\ UNCHANGED <<registry, req, running, entry, disk, blobs, spent>>

ShipRead_DeltaOnly(t) ==
  /\ task[t].pc = "read"
  /\ task' = [task EXCEPT ![t].pc = "put", ![t].bytes = {task[t].write}]
  /\ UNCHANGED <<registry, req, running, entry, disk, blobs, history, spent>>

\* The main file is read as it is now ...
ShipRead(t) ==
  /\ task[t].pc = "read"
  /\ task' = [task EXCEPT ![t].pc = "put", ![t].bytes = file[Host(t)] \ wal[Host(t)]]
  /\ UNCHANGED <<registry, req, running, entry, disk, blobs, history, spent>>

\* ... and goes up.
ShipSnapshot(t) ==
  /\ task[t].pc = "put"
  /\ snapshot' = task[t].bytes
  /\ task' = [task EXCEPT ![t].pc = "manifest"]
  /\ UNCHANGED <<registry, req, running, entry, disk, manifest, history, spent>>

ShipManifest(t) ==
  /\ task[t].pc = "manifest"
  /\ manifest' = task[t].epoch
  /\ Reply(t, TRUE)
  /\ UNCHANGED <<registry, req, running, entry, disk, snapshot, spent>>

\* A failed upload is only logged.
ShipFails(t) ==
  /\ task[t].pc # "idle" /\ spent.ships < MaxShipFailures
  /\ Spend("ships")
  /\ Reply(t, FALSE)
  /\ UNCHANGED <<registry, req, running, entry, disk, blobs>>

\* Idle with no alarm pending, or replaced and its callers done: the task just ends,
\* and closing the file's last connection checkpoints.
Hibernate(t) ==
  /\ Live(t) /\ task[t].pc = "idle"
  /\ task' = [task EXCEPT ![t] = NoTask]
  /\ wal' = IF \E u \in Tasks \ {t} : Live(u) /\ Host(u) = Host(t)
            THEN wal ELSE [wal EXCEPT ![Host(t)] = {}]
  /\ UNCHANGED <<registry, req, running, entry, file, blobs, history, spent>>

--------------------------------------------------------------------------------
(* Membership and failures.                                                    *)

\* The node row of a live worker goes (it stalled past the ttl, or said goodbye
\* and drains): its lease goes with it and it registers under a new id.  Nothing
\* on the worker notices.
Lapse(w) ==
  /\ w \in running /\ spent.lapses < MaxLapses
  /\ lease' = IF lease = w THEN Nobody ELSE lease
  /\ req' = [r \in Requests |-> IF req[r].w = w /\ req[r].pc \in {"insert", "select", "epoch"}
                                THEN [req[r] EXCEPT !.stale = TRUE] ELSE req[r]]
  /\ Spend("lapses")
  /\ UNCHANGED <<epoch, running, tasks, disk, blobs, history>>

WipeDisk(w) ==
  /\ file' = [file EXCEPT ![w] = NoFile]
  /\ wal' = [wal EXCEPT ![w] = {}]

\* The process dies, and with it its task, its requests and their claims.
Crash(w) ==
  /\ w \in running /\ spent.crashes < MaxCrashes
  /\ running' = running \ {w}
  /\ lease' = IF lease = w THEN Ghost ELSE lease
  /\ task' = [t \in Tasks |-> IF Host(t) = w THEN NoTask ELSE task[t]]
  /\ req' = [r \in Requests |-> IF req[r].w = w THEN IdleRequest(w) ELSE req[r]]
  /\ IF KeepsVolume THEN UNCHANGED disk ELSE WipeDisk(w)
  /\ Spend("crashes")
  /\ UNCHANGED <<epoch, entry, blobs, history>>

\* The dead process's node row ages out.
AgeOut ==
  /\ lease = Ghost
  /\ lease' = Nobody
  /\ UNCHANGED <<epoch, req, running, tasks, disk, blobs, history, spent>>

Restart(w) ==
  /\ w \notin running
  /\ running' = running \cup {w}
  /\ UNCHANGED <<registry, req, tasks, disk, blobs, history, spent>>

LoseVolume(w) ==
  /\ w \notin running /\ file[w] # NoFile /\ spent.volumes < MaxVolumeLosses
  /\ WipeDisk(w)
  /\ Spend("volumes")
  /\ UNCHANGED <<registry, req, running, tasks, blobs, history>>

Next ==
  \/ \E r \in Requests :
       \/ \E w \in Workers : Touch(r, w)
       \/ ClaimInsert(r) \/ ClaimSelect(r) \/ ClaimEpoch(r) \/ RequestFails(r)
       \/ EnterRegistry(r) \/ EnterRepublished(r)
       \/ OpenLocal(r) \/ FetchSnapshot(r) \/ WriteRestored(r) \/ RestoreTorn(r)
  \/ \E t \in Tasks :
       \/ Commit(t) \/ ShipCheck(t) \/ ShipRead(t) \/ ShipSnapshot(t) \/ ShipManifest(t)
       \/ ShipFails(t) \/ Hibernate(t)
  \/ \E w \in Workers : Lapse(w) \/ Crash(w) \/ Restart(w) \/ LoseVolume(w)
  \/ AgeOut

Spec == Init /\ [][Next]_vars

--------------------------------------------------------------------------------
(* Properties.                                                                 *)

\* Types of the registry rows, the requests, the tasks, the files and the store.
TypeOK ==
  /\ lease \in Workers \cup {Nobody, Ghost} /\ epoch \in Nat
  /\ req \in [Requests -> Request]
  /\ running \subseteq Workers
  /\ task \in [Tasks -> Task]
  /\ entry \in [Workers -> Tasks] /\ \A w \in Workers : Host(entry[w]) = w
  /\ file \in [Workers -> (SUBSET Writes) \cup {NoFile}]
  /\ wal \in [Workers -> SUBSET Writes]
  /\ snapshot \subseteq Writes /\ manifest \in Nat
  /\ acked \subseteq Writes /\ shipped \subseteq acked

\* No node row of a live worker was deleted so far.
NoLapse == spent.lapses = 0

\* An object only lives where its lease is held, and so on one worker, its replaced
\* tasks included: until the row of a live worker goes, which nothing tells the
\* task it hosts.
LivesWhereLeased == NoLapse => \A t \in Tasks : Live(t) => lease = Host(t)

\* One task at a time: no touch so far found a live task of another revision.
NoRepublish == spent.republished = 0

\* What the store's promise rests on: no live worker's row was deleted, no reader
\* kept a write in the WAL, no restore failed over the file it was writing, no second
\* task ships beside the first, and no disk outlives its process to bring an old or
\* half-restored file back.
Sheltered == NoLapse /\ NoRepublish /\ spent.blocked = 0 /\ spent.torn = 0 /\ ~KeepsVolume

\* The blob store holds every write whose ship succeeded: a lost disk or node
\* costs nothing that was shipped.
StoreHasShipped == Sheltered => shipped \subseteq snapshot

\* Whoever is home answers from every write that was shipped, across failover,
\* restore and restart on other disks.
HomeHasShipped ==
  Sheltered => \A t \in Tasks : Live(t) => shipped \subseteq file[Host(t)]

\* Where there is one worker and its disk lasts, its tasks answer from every write a
\* caller was ever told of, shipped or not, before and after a republish.
HomeHasAcked ==
  spent.volumes = 0 => \A t \in Tasks : Live(t) => acked \subseteq file[Host(t)]

\* There, until a checkpoint is held up or a republish lets two tasks ship at once, a
\* successful ship carries every write answered before it, the ones whose own upload
\* failed included: "the next write retries".
ShipCatchesUp ==
  [][(shipped' # shipped /\ NoRepublish /\ spent.blocked = 0 /\ spent.volumes = 0)
       => acked \subseteq snapshot']_vars

\* A ship past its check whose epoch the manifest has meanwhile overtaken.
Straggler ==
  \E t \in Tasks : task[t].pc \in {"read", "put", "manifest"} /\ task[t].epoch < manifest

\* The fence has one hole only: with no such ship in flight, no step takes the
\* manifest back to an older epoch, and none but the arrival of a newer manifest
\* makes one.  An ex-owner that starts a ship after it was overtaken is refused.
FenceHolds ==
  [][(~Straggler /\ manifest' <= manifest) => (~Straggler' /\ manifest' = manifest)]_vars

\* object_store.rs: "restore-on-spawn brings it back wherever the object is next
\* resident": a task starts from everything that was shipped.  A worker that
\* hosted the object before starts from the file it kept instead.
SpawnSeesShipped ==
  [][\A t \in Tasks : (~Live(t) /\ Live(t)') => shipped \subseteq file'[Host(t)]]_vars

\* object_store.rs: "a zombie ex-owner's uploads lose to any newer epoch".  The
\* manifest would then never go back to an older epoch.
NewerEpochStays == [][manifest' >= manifest]_vars
====
