-------------------------------- MODULE Database -------------------------------
(* The `__database` platform class: migrations of the vm's revision applied at *)
(* the vm's first touch, then the caller's statements, all inside the          *)
(* dispatched call's one transaction; the output gate that ships what a call   *)
(* wrote; and the reads that bypass the mailbox.                               *)
(*                                                                             *)
(* A republish makes get_or_spawn start a second task on the same file while   *)
(* the first still serves its callers, so two connections meet in SQLite:      *)
(* deferred transactions, one writer at a time, and a snapshot that is refused *)
(* the write lock once another transaction has committed after it.             *)
(*                                                                             *)
(* A migration is its place in path order, a call its number, an effect of     *)
(* user SQL the pair of a call and a statement of it.                          *)
EXTENDS Naturals, Sequences, SequencesExt, FiniteSets, FiniteSetsExt

CONSTANTS
  Tasks,           \* the lives of the database's task
  Nobody,          \* no task
  Nothing,         \* no file, no snapshot
  Bundles,         \* revision -> the migrations its bundle holds
  MaxCalls,        \* bound: calls dispatched
  MaxBatch,        \* bound: statements of a call
  MaxShipFailures, \* bound: uploads that fail
  MaxHeldUp,       \* bound: checkpoints a reader holds up
  MaxFailovers     \* bound: nodes lost with their disks

Calls == 1..MaxCalls
Effects == Calls \X (1..MaxBatch)
Migrations == UNION Range(Bundles)
Kinds == {"rows", "schema", "reserved", "pragma", "transaction", "attach"}

\* The migrations in the order they were run, the tracking rows, the user's data.
Content == [ran : Seq(Migrations), tracked : SUBSET Migrations, data : SUBSET Effects]

ASSUME DatabaseAssumption ==
  /\ Bundles \in Seq(SUBSET Nat) /\ Bundles # <<>>
  /\ {MaxCalls, MaxBatch, MaxShipFailures, MaxHeldUp, MaxFailovers} \subseteq Nat
  /\ Nobody \notin Tasks /\ Nothing \notin Content

VARIABLES
  current,    \* the script's current revision
  registered, \* ObjectHost: the task calls are handed to
  vm,         \* the tasks with their vm, connection and call
  file,       \* what the database holds, committed: its main file and its WAL
  main,       \* what its main file holds, as of the last checkpoint
  lock,       \* the task holding SQLite's write lock
  store,      \* the shipped snapshot, or Nothing
  replica,    \* a worker's replica file, or Nothing once past its ttl
  spent,      \* what is used up of the bounds
  acked,      \* history: effects, row changes only, of calls answered as done
  overlapped, \* history: have two tasks been alive at once?
  answer      \* history: the last bypassed read: acked effects it did not show

history == <<acked, overlapped, answer>>
vars == <<current, registered, vm, file, lock, main, store, replica, spent, history>>

NewFile == [ran |-> <<>>, tracked |-> {}, data |-> {}]

Unborn ==
  [life |-> "unborn", rev |-> 1, checked |-> FALSE, pc |-> "idle", call |-> 0, left |-> 0,
   tx |-> Nothing, stale |-> FALSE, rows |-> {}, dirty |-> FALSE, undone |-> FALSE]

Init ==
  /\ current = 1 /\ registered = Nobody
  /\ vm = [t \in Tasks |-> Unborn]
  /\ file = NewFile /\ main = NewFile /\ lock = Nobody
  /\ store = Nothing /\ replica = Nothing
  /\ spent = [calls |-> 0, ships |-> 0, held |-> 0, failovers |-> 0]
  /\ acked = {} /\ overlapped = FALSE /\ answer = {}

Spend(what) == spent' = [spent EXCEPT ![what] = @ + 1]
Bundle(t) == Bundles[vm[t].rev]
Live(t) == vm[t].life = "live"
IsResident == registered \in {t \in Tasks : Live(t)}

--------------------------------------------------------------------------------
(* Tasks.                                                                      *)

Publish ==
  /\ current < Len(Bundles)
  /\ current' = current + 1
  /\ UNCHANGED <<registered, vm, file, lock, main, store, replica, spent, history>>

\* get_or_spawn: the registered task serves if it is alive and of the current
\* revision; otherwise a new one takes its place, and the old one is left to its
\* callers.
Spawn(t) ==
  /\ vm[t].life = "unborn" /\ spent.calls < MaxCalls
  /\ ~(IsResident /\ vm[registered].rev = current)
  /\ vm' = [vm EXCEPT ![t] = [Unborn EXCEPT !.life = "live", !.rev = current]]
  /\ registered' = t
  /\ overlapped' = (overlapped \/ \E u \in Tasks : Live(u))
  /\ UNCHANGED <<current, file, lock, main, store, replica, spent, acked, answer>>

\* The idle task hibernates, or its last handle is dropped; a transaction its
\* connection still has open goes with it.
End(t) ==
  /\ Live(t) /\ vm[t].pc \in {"idle", "wedged"}
  /\ vm' = [vm EXCEPT ![t] = [Unborn EXCEPT !.life = "ended"]]
  /\ lock' = IF lock = t THEN Nobody ELSE lock
  /\ UNCHANGED <<current, registered, file, main, store, replica, spent, history>>

\* The node goes with its disk; the next home restores the last snapshot.
Failover ==
  /\ spent.failovers < MaxFailovers
  /\ vm' = [t \in Tasks |-> IF Live(t) THEN [Unborn EXCEPT !.life = "ended"] ELSE vm[t]]
  /\ file' = IF store = Nothing THEN NewFile ELSE store
  /\ main' = file'
  /\ acked' = acked \cap file'.data
  /\ registered' = Nobody
  /\ lock' = Nobody
  /\ Spend("failovers")
  /\ UNCHANGED <<current, store, replica, overlapped, answer>>

--------------------------------------------------------------------------------
(* SQLite under a call's deferred transaction.                                 *)

\* The transaction sees the file as of its first statement.
View(t) == IF vm[t].tx = Nothing THEN file ELSE vm[t].tx
CanWrite(t) == lock \in {Nobody, t} /\ ~vm[t].stale

--------------------------------------------------------------------------------
(* One call.                                                                   *)

\* guarded_dispatch: BEGIN, then Database::open.
Receive(t, n) ==
  /\ Live(t) /\ vm[t].pc = "idle" /\ spent.calls < MaxCalls
  /\ Spend("calls")
  /\ vm' = [vm EXCEPT ![t].pc = IF vm[t].checked THEN "run" ELSE "open", ![t].call = spent.calls + 1,
                      ![t].left = n, ![t].rows = {}]
  /\ UNCHANGED <<current, registered, file, lock, main, store, replica, history>>

\* A bundle without migrations for this database has nothing to apply.
NoMigrations(t) ==
  /\ vm[t].pc = "open" /\ Bundle(t) = {}
  /\ vm' = [vm EXCEPT ![t].pc = "run", ![t].checked = TRUE]
  /\ UNCHANGED <<current, registered, file, lock, main, store, replica, spent, history>>

AppliedMigrations_MarksFirst(t) ==
  /\ vm[t].pc = "open" /\ Bundle(t) # {}
  /\ View(t).tracked = {} => CanWrite(t)
  /\ lock' = IF View(t).tracked = {} THEN t ELSE lock
  /\ vm' = [vm EXCEPT ![t].pc = "migrate", ![t].tx = View(t),
                      ![t].checked = TRUE]
  /\ UNCHANGED <<current, registered, file, main, store, replica, spent, history>>

\* applied_migrations: creates the tracking table, a write where it is missing,
\* and reads the names.
AppliedMigrations(t) ==
  /\ vm[t].pc = "open" /\ Bundle(t) # {}
  /\ View(t).tracked = {} => CanWrite(t)
  /\ lock' = IF View(t).tracked = {} THEN t ELSE lock
  /\ vm' = [vm EXCEPT ![t].pc = "migrate", ![t].tx = View(t)]
  /\ UNCHANGED <<current, registered, file, main, store, replica, spent, history>>

Pending(t) == Bundle(t) \ vm[t].tx.tracked

\* exec_script, then record_migration, whose row is a row change.
Migrated(tx, m) == [tx EXCEPT !.ran = Append(@, m), !.tracked = @ \cup {m}]

Migrate(t) ==
  /\ vm[t].pc = "migrate" /\ Pending(t) # {} /\ CanWrite(t)
  /\ vm' = [vm EXCEPT ![t].tx = Migrated(@, Min(Pending(t))), ![t].dirty = TRUE]
  /\ lock' = t
  /\ UNCHANGED <<current, registered, file, main, store, replica, spent, history>>

\* Database::open marks the vm once every migration ran.
MarkChecked(t) ==
  /\ vm[t].pc = "migrate" /\ Pending(t) = {}
  /\ vm' = [vm EXCEPT ![t].pc = "run", ![t].checked = TRUE]
  /\ UNCHANGED <<current, registered, file, lock, main, store, replica, spent, history>>

\* query, query_one: a read in the transaction.
Query(t) ==
  /\ vm[t].pc = "run" /\ vm[t].left > 0
  /\ vm' = [vm EXCEPT ![t].tx = View(t), ![t].left = @ - 1]
  /\ UNCHANGED <<current, registered, file, lock, main, store, replica, spent, history>>

Authorized_ButReserved(kind) == kind \notin {"attach", "transaction", "pragma"}

\* script_authorizer: what user SQL may do.
Authorized(kind) == kind \notin {"attach", "transaction", "pragma", "reserved"}

\* A statement on the platform's own tables would take the tracking rows.
Written(tx, effect, kind) ==
  IF kind = "reserved" THEN [tx EXCEPT !.tracked = {}] ELSE [tx EXCEPT !.data = @ \cup {effect}]

\* exec, or one statement of a batch: it changes rows, or only the schema, which
\* total_changes() does not count.
Exec(t, kind) ==
  /\ vm[t].pc = "run" /\ vm[t].left > 0 /\ Authorized(kind) /\ CanWrite(t)
  /\ LET effect == <<vm[t].call, vm[t].left>>
         rows == kind = "rows"
     IN vm' = [vm EXCEPT ![t].tx = Written(View(t), effect, kind), ![t].left = @ - 1,
                         ![t].dirty = @ \/ rows,
                         ![t].rows = IF rows THEN @ \cup {effect} ELSE @]
  /\ lock' = t
  /\ UNCHANGED <<current, registered, file, main, store, replica, spent, history>>

\* COMMIT: the transaction's view becomes the file, if it wrote at all, and the
\* snapshots of other transactions fall behind.
Commit(t) ==
  /\ vm[t].pc = "run" /\ vm[t].left = 0
  /\ IF lock = t
     THEN file' = vm[t].tx /\ lock' = Nobody
     ELSE UNCHANGED <<file, lock>>
  /\ vm' = [u \in Tasks |->
              IF u = t THEN [vm[t] EXCEPT !.pc = "gate", !.tx = Nothing, !.stale = FALSE]
              ELSE [vm[u] EXCEPT !.stale = @ \/ (lock = t /\ vm[u].pc \in {"migrate", "run"}
                                                     /\ vm[u].tx # Nothing)]]
  /\ UNCHANGED <<current, registered, main, store, replica, spent, history>>

\* COMMIT fails and SQLite undoes the transaction: the caller hears an error at
\* once, without a ROLLBACK, a checkpoint or a ship, and the vm's checked mark stays.
CommitFails(t) ==
  /\ vm[t].pc = "run" /\ vm[t].left = 0 /\ lock = t
  /\ lock' = Nobody
  /\ vm' = [vm EXCEPT ![t].pc = "idle", ![t].call = 0, ![t].tx = Nothing, ![t].rows = {},
                      ![t].undone = @ \/ ~(Bundle(t) \subseteq file.tracked)]
  /\ UNCHANGED <<current, registered, file, main, store, replica, spent, history>>

\* COMMIT is refused, say by a deferred constraint, and SQLite keeps the
\* transaction: nothing rolls it back, so every later call fails at its BEGIN.
CommitRefused(t) ==
  /\ vm[t].pc = "run" /\ vm[t].left = 0 /\ lock = t
  /\ vm' = [vm EXCEPT ![t].pc = "wedged", ![t].call = 0, ![t].rows = {}]
  /\ UNCHANGED <<current, registered, file, lock, main, store, replica, spent, history>>

\* A migration or a statement fails: user SQL, the size limit, a conflict with the
\* other task's transaction, the lock not granted in time.  ROLLBACK; the vm's
\* checked mark is memory and stays.
Fail(t) ==
  /\ vm[t].pc \in {"open", "migrate"} \/ (vm[t].pc = "run" /\ vm[t].left > 0)
  /\ lock' = IF lock = t THEN Nobody ELSE lock
  /\ vm' = [vm EXCEPT ![t].pc = "gate", ![t].left = 0, ![t].tx = Nothing,
                      ![t].stale = FALSE, ![t].rows = {},
                      ![t].undone = @ \/ (vm[t].pc = "run" /\ ~(Bundle(t) \subseteq file.tracked))]
  /\ UNCHANGED <<current, registered, file, main, store, replica, spent, history>>

\* The caller hears the result.
Replied(t) ==
  /\ vm' = [vm EXCEPT ![t].pc = "idle", ![t].call = 0, ![t].tx = Nothing, ![t].rows = {},
                      ![t].dirty = FALSE]
  /\ acked' = acked \cup vm[t].rows

\* The WAL is copied into the main file, unless a reader on an older snapshot
\* holds that up; nobody looks at the outcome.
Checkpoint ==
  \/ main' = file /\ UNCHANGED spent
  \/ main # file /\ UNCHANGED main /\ spent.held < MaxHeldUp /\ Spend("held")

Gate_AcksFirst(t) ==
  /\ vm[t].pc = "gate" /\ Checkpoint
  /\ IF vm[t].dirty
     THEN vm' = [vm EXCEPT ![t].pc = "ship", ![t].tx = main'] /\ acked' = acked \cup vm[t].rows
     ELSE Replied(t)
  /\ UNCHANGED <<current, registered, file, lock, store, replica, overlapped, answer>>

\* writes_advanced: total_changes() is past the mark, which counts the rows a
\* rolled-back call changed too; the ship then reads the main file, and no WAL.
Gate(t) ==
  /\ vm[t].pc = "gate" /\ Checkpoint
  /\ IF vm[t].dirty
     THEN vm' = [vm EXCEPT ![t].pc = "ship", ![t].tx = main'] /\ UNCHANGED acked
     ELSE Replied(t)
  /\ UNCHANGED <<current, registered, file, lock, store, replica, overlapped, answer>>

Ship(t) ==
  /\ vm[t].pc = "ship"
  /\ store' = vm[t].tx
  /\ Replied(t)
  /\ UNCHANGED <<current, registered, file, lock, main, replica, spent, overlapped, answer>>

\* A failed upload is logged; the caller hears its result all the same.
ShipFails(t) ==
  /\ vm[t].pc = "ship" /\ spent.ships < MaxShipFailures
  /\ Spend("ships")
  /\ Replied(t)
  /\ UNCHANGED <<current, registered, file, lock, main, store, replica, overlapped, answer>>

--------------------------------------------------------------------------------
(* Reads beside the mailbox.                                                   *)

Source_ReplicaFirst(here) ==
  IF replica # Nothing THEN replica ELSE IF here /\ IsResident THEN file ELSE store

\* The file a read goes to: where the object is resident its own, as committed;
\* elsewhere the replica within its ttl, or the last snapshot restored afresh.
Source(here) ==
  IF here /\ IsResident THEN file ELSE IF replica # Nothing THEN replica ELSE store

\* `read` and `read_one`.  A database nothing has shipped yet is read through the
\* owner, a call like any.
Read(here) ==
  /\ Source(here) # Nothing
  /\ IF here /\ IsResident
     THEN answer' = acked \ Source(here).data /\ UNCHANGED replica
     ELSE replica' = Source(here) /\ UNCHANGED answer
  /\ UNCHANGED <<current, registered, vm, file, lock, main, store, spent, acked, overlapped>>

\* The data plane's reads, the dashboard's: a worker with the file answers, without
\* one it asks the lease's holder, and where that one is out of reach the replica
\* or the last snapshot answers; a database with neither reads as empty.
ReadRouted(here, reached) ==
  /\ IF registered # Nobody /\ (here \/ reached)
     THEN answer' = acked \ file.data /\ UNCHANGED replica
     ELSE replica' = Source(FALSE) /\ UNCHANGED answer
  /\ UNCHANGED <<current, registered, vm, file, lock, main, store, spent, acked, overlapped>>

ReplicaAges ==
  /\ replica # Nothing
  /\ replica' = Nothing
  /\ UNCHANGED <<current, registered, vm, file, lock, main, store, spent, history>>

--------------------------------------------------------------------------------
Next ==
  \/ Publish \/ Failover \/ ReplicaAges \/ \E here, reached \in BOOLEAN : Read(here) \/ ReadRouted(here, reached)
  \/ \E t \in Tasks :
       \/ Spawn(t) \/ End(t) \/ \E n \in 1..MaxBatch : Receive(t, n)
       \/ NoMigrations(t) \/ AppliedMigrations(t) \/ Migrate(t) \/ MarkChecked(t)
       \/ Query(t) \/ \E kind \in Kinds : Exec(t, kind)
       \/ Commit(t) \/ CommitFails(t) \/ CommitRefused(t) \/ Fail(t) \/ Gate(t) \/ Ship(t) \/ ShipFails(t)

Spec == Init /\ [][Next]_vars

--------------------------------------------------------------------------------
(* What the class promises.                                                    *)

\* Types of the file, the store and the tasks' calls.
TypeOK ==
  /\ file \in Content /\ store \in Content \cup {Nothing}
  /\ lock \in Tasks \cup {Nobody} /\ registered \in Tasks \cup {Nobody}
  /\ \A t \in Tasks : vm[t].tx \in Content \cup {Nothing} /\ vm[t].rows \subseteq Effects

\* Database::apply_migrations: a migration is in the file once, and with its
\* tracking row, whatever calls fail and although the vms of two revisions race to
\* apply the same ones.
MigratedOnce == IsInjective(file.ran) /\ Range(file.ran) = file.tracked

\* Database::open: a vm that takes its migrations for applied has them in the file,
\* unless the very call that applied them failed after it, in a statement of its own
\* or at its COMMIT.
MigratedUnlessUndone ==
  \A t \in Tasks :
    Live(t) /\ vm[t].pc = "idle" /\ vm[t].checked /\ ~vm[t].undone => Bundle(t) \subseteq file.tracked

\* The output gate: no caller hears of a row that has not left the node, until an
\* upload fails, a reader holds up a checkpoint or a republish lets two tasks ship
\* the same file.
AckedIsShipped ==
  spent.ships = 0 /\ spent.held = 0 /\ ~overlapped =>
    acked \subseteq (IF store = Nothing THEN {} ELSE store.data)

\* route_inner's bypass and read_routed: a read beside the mailbox that the object's
\* own worker answers shows every row change a caller was told of.
ReadsSeeAcked == answer = {}

\* What database.rs says of a failed call, and does not hold: "a failed migration
\* applies nothing, records nothing, and retries on the next touch".
MigrationsRetried ==
  \A t \in Tasks :
    Live(t) /\ vm[t].pc = "idle" /\ vm[t].checked => Bundle(t) \subseteq file.tracked
====
