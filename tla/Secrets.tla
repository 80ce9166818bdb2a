-------------------------------- MODULE Secrets --------------------------------
(* The secret service of one project, and a workflow run that declares secrets *)
(*                                                                             *)
(* Versions of a name are rows that are only ever inserted or tombstoned.  An  *)
(* rpc reads the head of a name and writes by what it read; other rpcs write   *)
(* in between, and the table's primary key is what tells.  A value is sealed   *)
(* under the master key of the process and opens while that key is held.  A    *)
(* workflow run pins each name to the version it first resolved.               *)
EXTENDS Naturals, FiniteSets, FiniteSetsExt

CONSTANTS
  Names,
  Handlers,     \* rpcs that may be under way at once
  MaxVersions,  \* bound: versions of a name
  MaxRotations, \* bound: changes of the master key
  MaxDeletes,   \* bound: delete rpcs
  MaxBuilds     \* bound: times the run's vm is built

Attempts == 3 \* inserts set_secret tries

ASSUME SecretsAssumption ==
  Names # {} /\ {MaxVersions, MaxRotations, MaxDeletes, MaxBuilds} \subseteq Nat

VARIABLES
  rows,      \* name -> version -> [kek, deleted]
  envelope,  \* the master keys held: [active, previous], numbered from 1; 0 is none
  rpc,       \* handler -> what it does
  deletes,   \* delete rpcs begun
  pins,      \* the run's __actias_wf_secrets table: name -> version, 0 is none
  known,     \* SecretPins in memory, of the vm being built or running
  vm,        \* the vm: [pc, name, version]
  builds,
  used       \* history: <<name, version>> whose value the run's body has seen

vars == <<rows, envelope, rpc, deletes, pins, known, vm, builds, used>>
table == <<rows, envelope>>
run == <<pins, known, vm, builds, used>>

--------------------------------------------------------------------------------
(* Rows and keys.                                                              *)

HeadOf(name) == IF DOMAIN rows[name] = {} THEN 0 ELSE Max(DOMAIN rows[name])
Live(name) == HeadOf(name) # 0 /\ ~rows[name][HeadOf(name)].deleted

\* Envelope::seal, under the active key; Envelope::open, with any key held.
Seal == [kek |-> envelope.active, deleted |-> FALSE]
Held == {envelope.active, envelope.previous} \ {0}
Opens(row) == row.kek \in Held

Answer(name, version) ==
  [version |-> version,
   status |-> CASE version \notin DOMAIN rows[name] -> "not found"
                [] ~Opens(rows[name][version]) -> "decryption failed"
                [] OTHER -> "ok"]

Resolve_LiveOnly(name, version) ==
  Answer(name, IF Live(name) THEN IF version # 0 THEN version ELSE HeadOf(name) ELSE 0)

\* resolve_secret: 0 asks for the head, unless it is tombstoned; a version is
\* a pin, tombstoned or not.
Resolve(name, version) ==
  Answer(name, IF version # 0 THEN version ELSE IF Live(name) THEN HeadOf(name) ELSE 0)

ListSecrets == {name \in Names : Live(name)}
ListSecretVersions(name) == {[version |-> v, deleted |-> rows[name][v].deleted] :
                             v \in DOMAIN rows[name]}

Idle == [op |-> "idle", name |-> CHOOSE n \in Names : TRUE, saw |-> 0, left |-> 0,
         status |-> "ok"]

Init ==
  /\ rows = [name \in Names |-> <<>>]
  /\ envelope = [active |-> 1, previous |-> 0]
  /\ rpc = [h \in Handlers |-> Idle]
  /\ deletes = 0
  /\ pins = [name \in Names |-> 0] /\ known = pins
  /\ vm = [pc |-> "down", name |-> CHOOSE n \in Names : TRUE, version |-> 0]
  /\ builds = 0 /\ used = {}

--------------------------------------------------------------------------------
(* The rpcs that write.                                                        *)

Becomes(h, op, name, saw, left, status) ==
  rpc' = [rpc EXCEPT ![h] = [op |-> op, name |-> name, saw |-> saw, left |-> left,
                             status |-> status]]

Ends(h, status) == Becomes(h, "idle", rpc[h].name, 0, 0, status)

SetSecret(h, name) ==
  /\ rpc[h].op = "idle"
  /\ HeadOf(name) < MaxVersions
  /\ Becomes(h, "set", name, 0, Attempts, "ok")
  /\ UNCHANGED <<table, deletes, run>>

\* The next version is one past the head, tombstoned or not.
SetReadsHead(h) ==
  /\ rpc[h].op = "set"
  /\ Becomes(h, "insert", rpc[h].name, HeadOf(rpc[h].name), rpc[h].left, "ok")
  /\ UNCHANGED <<table, deletes, run>>

\* The row is there already: read the head again, three times in all.
Conflict(h) ==
  IF rpc[h].left = 1 THEN Ends(h, "aborted")
  ELSE Becomes(h, "set", rpc[h].name, rpc[h].saw, rpc[h].left - 1, "ok")

Insert(h) ==
  LET name == rpc[h].name  version == rpc[h].saw + 1 IN
  /\ rpc[h].op = "insert"
  /\ version <= MaxVersions
  /\ IF version \in DOMAIN rows[name]
     THEN Conflict(h) /\ UNCHANGED rows
     ELSE /\ rows' = [rows EXCEPT ![name] = [v \in DOMAIN @ \cup {version} |->
                                               IF v = version THEN Seal ELSE @[v]]]
          /\ Ends(h, "ok")
  /\ UNCHANGED <<envelope, deletes, run>>

DeleteSecret(h, name) ==
  /\ rpc[h].op = "idle" /\ deletes < MaxDeletes
  /\ deletes' = deletes + 1
  /\ Becomes(h, "delete", name, 0, 0, "ok")
  /\ UNCHANGED <<table, run>>

DeleteReadsHead(h) ==
  /\ rpc[h].op = "delete"
  /\ IF Live(rpc[h].name)
     THEN Becomes(h, "tombstone", rpc[h].name, HeadOf(rpc[h].name), 0, "ok")
     ELSE Ends(h, "not found")
  /\ UNCHANGED <<table, deletes, run>>

Tombstone_Name(h) ==
  LET name == rpc[h].name IN
  /\ rpc[h].op = "tombstone"
  /\ rows' = [rows EXCEPT ![name] = [v \in DOMAIN @ |-> [@[v] EXCEPT !.deleted = TRUE]]]
  /\ Ends(h, "ok")
  /\ UNCHANGED <<envelope, deletes, run>>

\* The head that was read, unless another delete was first.
Tombstone(h) ==
  LET name == rpc[h].name  version == rpc[h].saw IN
  /\ rpc[h].op = "tombstone"
  /\ IF rows[name][version].deleted
     THEN Ends(h, "not found") /\ UNCHANGED rows
     ELSE rows' = [rows EXCEPT ![name][version].deleted = TRUE] /\ Ends(h, "ok")
  /\ UNCHANGED <<envelope, deletes, run>>

\* The database fails, or the caller goes away.
RpcFails(h) ==
  /\ rpc[h].op # "idle"
  /\ Ends(h, "error")
  /\ UNCHANGED <<table, deletes, run>>

\* The process starts again, with a new master key or the one it had; a previous
\* one is kept readable only if it is configured.  Nothing rewraps the rows that
\* are there.
RotateMaster ==
  /\ \/ /\ envelope.active <= MaxRotations
        /\ \E previous \in {0, envelope.active} :
             envelope' = [active |-> envelope.active + 1, previous |-> previous]
     \/ envelope' = [envelope EXCEPT !.previous = 0]
  /\ rpc' = [h \in Handlers |-> Idle]
  /\ UNCHANGED <<rows, deletes, run>>

--------------------------------------------------------------------------------
(* The workflow run.  Its vm is built anew after hibernation or a crash; each  *)
(* build declares the run's secrets.                                           *)

LoadPins ==
  /\ vm.pc = "down" /\ builds < MaxBuilds
  /\ known' = pins
  /\ vm' = [vm EXCEPT !.pc = "built"]
  /\ builds' = builds + 1
  /\ UNCHANGED <<table, rpc, deletes, pins, used>>

\* secret "name": by the pin where there is one, else the head, to be pinned.
Declare(name) ==
  /\ vm.pc = "built"
  /\ LET resolved == Resolve(name, known[name]) IN
     \/ /\ resolved.status # "ok"
        /\ vm' = [vm EXCEPT !.pc = "down"]
        /\ UNCHANGED used
     \/ /\ resolved.status = "ok" /\ known[name] # 0
        /\ used' = used \cup {<<name, resolved.version>>}
        /\ UNCHANGED vm
     \/ /\ resolved.status = "ok" /\ known[name] = 0
        /\ vm' = [pc |-> "record", name |-> name, version |-> resolved.version]
        /\ UNCHANGED used
  /\ UNCHANGED <<table, rpc, deletes, pins, known, builds>>

\* INSERT OR IGNORE, then the map, and only then the value.
RecordPin ==
  /\ vm.pc = "record"
  /\ pins' = [pins EXCEPT ![vm.name] = IF @ = 0 THEN vm.version ELSE @]
  /\ known' = [known EXCEPT ![vm.name] = vm.version]
  /\ used' = used \cup {<<vm.name, vm.version>>}
  /\ vm' = [vm EXCEPT !.pc = "built"]
  /\ UNCHANGED <<table, rpc, deletes, builds>>

\* The vm hibernates, its build fails, or the process dies.
VmGone ==
  /\ vm.pc # "down"
  /\ vm' = [vm EXCEPT !.pc = "down"]
  /\ UNCHANGED <<table, rpc, deletes, pins, known, builds, used>>

Next ==
  \/ \E h \in Handlers, name \in Names : SetSecret(h, name) \/ DeleteSecret(h, name)
  \/ \E h \in Handlers :
       SetReadsHead(h) \/ Insert(h) \/ DeleteReadsHead(h) \/ Tombstone(h) \/ RpcFails(h)
  \/ RotateMaster
  \/ LoadPins \/ (\E name \in Names : Declare(name)) \/ RecordPin \/ VmGone

Spec == Init /\ [][Next]_vars

--------------------------------------------------------------------------------
(* Properties.                                                                 *)

\* A run sees one version of each name from its first vm to its last, and goes
\* on resolving it after the name was rotated or deleted, as long as the master
\* key that its row was sealed under is the active or the configured previous one.
RunKeepsSecrets ==
  /\ \A a, b \in used : a[1] = b[1] => a[2] = b[2]
  /\ \A u \in used : rows[u[1]][u[2]].kek \in Held =>
       Resolve(u[1], pins[u[1]]) = [version |-> u[2], status |-> "ok"]

\* A delete that answered ok hides a version that was the head when it began or
\* later: a name stops resolving only by a delete that saw its head, so a
\* rotation that overtakes a delete wins.
RotationOutlivesDelete ==
  [][\A name \in Names : name \in ListSecrets /\ name \notin ListSecrets' =>
       \E h \in Handlers : /\ rpc[h].op = "tombstone" /\ rpc[h].name = name
                           /\ rpc[h].saw = HeadOf(name)
                           /\ [version |-> rpc[h].saw, deleted |-> FALSE]
                                \in ListSecretVersions(name)]_vars
================================================================================
