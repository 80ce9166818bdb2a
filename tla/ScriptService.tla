----------------------------- MODULE ScriptService -----------------------------
(* The script service of one project: scripts, revisions with the contracts    *)
(* derived from them, the pointers to revisions, and who owns an identity.     *)
(*                                                                             *)
(* A handler reads, decides, and writes in later statements; the statements of *)
(* other handlers come in between.  Statements are atomic, a transaction's     *)
(* writes show when it commits, and a row it has deleted is locked until then. *)
EXTENDS Naturals, FiniteSets, FiniteSetsExt

CONSTANTS
  Scripts,       \* ids, numbers: an owner is picked in their order
  Names,         \* instance names
  Contracts,     \* contracts of the bundles published: sets of <<form, name>>, see
                 \* Contract of module Declarations
  Hashes,        \* contents of bundles
  Handlers,      \* rpcs that may be under way at once
  MaxRevisions,  \* bound: revisions ever created
  MaxCalls,      \* bound: rpcs that write
  MaxFailures    \* bound: statements that fail

\* The forms whose declarations have one owner in a project.
SingleOwner == {"on queue", "workflow", "object"}

ASSUME ScriptsAssumption ==
  /\ Scripts \subseteq Nat \ {0}
  /\ {MaxRevisions, MaxCalls, MaxFailures} \subseteq Nat

VARIABLES
  scripts,    \* id -> [state: "new", "live" or "gone", current: revision or 0]
  revisions,  \* the revisions there are: id -> [script, contract, hash]; ids in order of creation
  aliases,    \* script -> revision of its alias, or 0
  blobs,      \* the hashes stored
  instances,  \* object_instances: name -> script it was placed under, or 0
  rpc,        \* handler -> what it does
  created,    \* revisions ever created
  calls, failures,
  stale,      \* history: handlers whose reads others have overtaken
  raced,      \* history: scripts whose pointer was written on such reads
  unchecked   \* history: scripts whose pointer moved without a look at contracts

tables == <<scripts, revisions, aliases, blobs, instances, created>>
history == <<raced, unchecked>>
service == <<tables, rpc, calls, failures, stale, history>>

--------------------------------------------------------------------------------
(* Reads.                                                                      *)

\* What a handler is about to do, for which script, with which revision deleted
\* or pointed to, and the bundle published.
Rpc(op, s, rev, target, bundle) ==
  [op |-> op, script |-> s, rev |-> rev, target |-> target, bundle |-> bundle]

Idle == Rpc("idle", 0, 0, 0, <<>>)

ServiceInit ==
  /\ scripts = [s \in Scripts |-> [state |-> "new", current |-> 0]]
  /\ revisions = <<>>
  /\ aliases = [s \in Scripts |-> 0]
  /\ blobs = {}
  /\ instances = [name \in Names |-> 0]
  /\ rpc = [h \in Handlers |-> Idle]
  /\ created = 0 /\ calls = 0 /\ failures = 0
  /\ stale = {} /\ raced = {} /\ unchecked = {}

GetScriptInfo(s) == scripts[s].state = "live"
GetDbRevision(r) == r \in DOMAIN revisions
Current(s) == scripts[s].current
\* The blobs not stored of those asked for.
MissingBlobs(hashes) == hashes \ blobs
\* A revision is handed out with the bytes of its files.
GetRevision(r) == GetDbRevision(r) /\ MissingBlobs({revisions[r].hash}) = {}
GetAlias(s) == aliases[s]
ListRevisions(s) == {r \in DOMAIN revisions : revisions[r].script = s}

\* What a script declares: the contract of its current revision, if that is there.
Declared(s) == IF Current(s) \in DOMAIN revisions THEN revisions[Current(s)].contract ELSE {}
ListScripts == {s \in Scripts : GetScriptInfo(s)}

Declarers(form, name) == {s \in ListScripts : <<form, name>> \in Declared(s)}
ContractOwner(form, name) ==
  IF Declarers(form, name) = {} THEN 0 ELSE Min(Declarers(form, name))

\* A queue's consumer outranks its producers.
ForClass(class) ==
  CASE class = "queue" -> <<"on queue", "queue">>
    [] class = "database" -> <<"database">>
    [] class = "workflow" -> <<"workflow">>
    [] OTHER -> <<"object">>

\* The owner by the contracts, else the script the instance remembers.
ResolveClassOwner(class, name) ==
  LET reads == ForClass(class)
      found == {i \in DOMAIN reads : ContractOwner(reads[i], name) # 0}
  IN IF found = {} THEN instances[name] ELSE ContractOwner(reads[Min(found)], name)

--------------------------------------------------------------------------------
(* Handlers.                                                                   *)

Free(h) == rpc[h].op = "idle" /\ calls < MaxCalls

Begin(h, call) ==
  /\ Free(h)
  /\ rpc' = [rpc EXCEPT ![h] = call]
  /\ calls' = calls + 1
  /\ stale' = stale \ {h}
  /\ UNCHANGED <<tables, failures, history>>

Turn(h, op) == rpc' = [rpc EXCEPT ![h].op = op]
Ends(h) == rpc' = [rpc EXCEPT ![h] = Idle]

\* What h commits overtakes the reads of every other handler under way.
Overtakes(h) == stale' = stale \cup {g \in Handlers \ {h} : rpc[g].op # "idle"}

\* h points script s to a revision; on reads that are stale, the pointer is raced.
Pointed(h, s) == raced' = IF h \in stale THEN raced \cup {s} ELSE raced \ {s}

\* Rows deleted by a transaction that is still open.
Locked == {r \in DOMAIN revisions : \E h \in Handlers :
             rpc[h].rev = r /\ rpc[h].op \in {"oldest", "repoint"}}

Fails(h) ==
  /\ rpc[h].op # "idle" /\ failures < MaxFailures
  /\ failures' = failures + 1
  /\ Ends(h)
  /\ UNCHANGED <<tables, calls, stale, history>>

CreateScript(h, s) ==
  /\ scripts[s].state = "new"
  /\ Begin(h, Rpc("insert script", s, 0, 0, <<>>))

\* The identifier is unique: of two that found it free, one fails.
InsertScript(h) ==
  LET s == rpc[h].script IN
  /\ rpc[h].op = "insert script"
  /\ scripts' = IF scripts[s].state = "new" THEN [scripts EXCEPT ![s].state = "live"] ELSE scripts
  /\ Ends(h)
  /\ UNCHANGED <<revisions, aliases, blobs, instances, created, calls, failures, stale, history>>

\* delete_script and delete_project: one statement and what it cascades to.
Remove(h, gone) ==
  /\ Free(h) /\ gone # {}
  /\ \A r \in Locked : revisions[r].script \notin gone
  /\ scripts' = [s \in Scripts |-> IF s \in gone THEN [state |-> "gone", current |-> 0]
                                   ELSE scripts[s]]
  /\ revisions' = [r \in {q \in DOMAIN revisions : revisions[q].script \notin gone} |-> revisions[r]]
  /\ aliases' = [s \in Scripts |-> IF s \in gone THEN 0 ELSE aliases[s]]
  /\ calls' = calls + 1
  /\ Overtakes(h)
  /\ raced' = raced \ gone /\ unchecked' = unchecked \ gone
  /\ UNCHANGED <<blobs, instances, created, rpc, failures>>

DeleteScript(h, s) == GetScriptInfo(s) /\ Remove(h, {s})
DeleteProject(h) == Remove(h, ListScripts)

--------------------------------------------------------------------------------
(* Publishing.                                                                 *)

\* A bundle brings its bytes (inline) or names a blob that must be stored; the
\* contract is derived from the sources, so the bytes are read first.  One whose
\* declaration pass fails is refused.
Publish(h, s, contract, hash, inline) ==
  /\ GetScriptInfo(s) /\ created < MaxRevisions
  /\ inline \/ MissingBlobs({hash}) = {}
  /\ Begin(h, Rpc("contract", s, 0, 0, [contract |-> contract, hash |-> hash, inline |-> inline]))

Conflicts_OwnRevision(s, contract) ==
  \E decl \in contract : decl[1] \in SingleOwner /\ decl \in Declared(s)

\* A sibling's current contract declares what has one owner.
Conflicts(s, contract) ==
  \E decl \in contract, t \in ListScripts \ {s} :
    decl[1] \in SingleOwner /\ decl \in Declared(t)

RefuseContractConflicts(h) ==
  /\ rpc[h].op = "contract"
  /\ IF Conflicts(rpc[h].script, rpc[h].bundle.contract) THEN Ends(h) ELSE Turn(h, "blobs")
  /\ UNCHANGED <<tables, calls, failures, stale, history>>

StoreBlobs(h) ==
  LET bundle == rpc[h].bundle IN
  /\ rpc[h].op = "blobs"
  /\ \/ /\ bundle.inline
        /\ blobs' = blobs \cup {bundle.hash}
        /\ Turn(h, "insert")
     \/ /\ ~bundle.inline
        /\ IF MissingBlobs({bundle.hash}) = {} THEN Turn(h, "insert") ELSE Ends(h)
        /\ UNCHANGED blobs
  /\ UNCHANGED <<scripts, revisions, aliases, instances, created, calls, failures, stale, history>>

\* The transaction: revision, files, pointer.  The script must still be there.
InsertRevision(h) ==
  LET s == rpc[h].script  r == created + 1 IN
  /\ rpc[h].op = "insert" /\ created < MaxRevisions
  /\ Ends(h)
  /\ \/ /\ ~GetScriptInfo(s)
        /\ UNCHANGED <<scripts, revisions, created, stale, history>>
     \/ /\ GetScriptInfo(s)
        /\ created' = r
        /\ revisions' = [q \in DOMAIN revisions \cup {r} |->
             IF q = r THEN [script |-> s, contract |-> rpc[h].bundle.contract,
                            hash |-> rpc[h].bundle.hash]
             ELSE revisions[q]]
        /\ scripts' = [scripts EXCEPT ![s].current = r]
        /\ Overtakes(h)
        /\ raced' = raced \ {s}
        /\ unchecked' = IF h \in stale THEN unchecked \cup {s} ELSE unchecked \ {s}
  /\ UNCHANGED <<aliases, blobs, instances, calls, failures>>

--------------------------------------------------------------------------------
(* Moving pointers.                                                            *)

SetScriptRevision(h, s, r) ==
  /\ GetScriptInfo(s) /\ GetDbRevision(r) /\ revisions[r].script = s
  /\ Begin(h, Rpc("point", s, 0, r, <<>>))

PointScript(h) ==
  LET s == rpc[h].script IN
  /\ rpc[h].op = "point"
  /\ scripts' = IF GetScriptInfo(s) THEN [scripts EXCEPT ![s].current = rpc[h].target] ELSE scripts
  /\ Ends(h)
  /\ Overtakes(h) /\ Pointed(h, s)
  /\ unchecked' = unchecked \cup {s}
  /\ UNCHANGED <<revisions, aliases, blobs, instances, created, calls, failures>>

DeleteRevision(h, r) ==
  /\ GetDbRevision(r)
  /\ Begin(h, Rpc("delete", revisions[r].script, r, 0, <<>>))

\* The row is gone for this transaction and locked for the others.
DeleteRow(h) ==
  /\ rpc[h].op = "delete" /\ rpc[h].rev \notin Locked
  /\ Turn(h, "oldest")
  /\ UNCHANGED <<tables, calls, failures, stale, history>>

\* The revision created first of those left, as this transaction sees them.
SelectOldest(h) ==
  LET left == ListRevisions(rpc[h].script) \ {rpc[h].rev} IN
  /\ rpc[h].op = "oldest"
  /\ rpc' = [rpc EXCEPT ![h] = Rpc("repoint", @.script, @.rev, IF left = {} THEN 0 ELSE Min(left), <<>>)]
  /\ UNCHANGED <<tables, calls, failures, stale, history>>

Repoint_DeletesOnly(h) ==
  /\ rpc[h].op = "repoint"
  /\ revisions' = [q \in DOMAIN revisions \ {rpc[h].rev} |-> revisions[q]]
  /\ aliases' = [t \in Scripts |-> IF aliases[t] = rpc[h].rev THEN 0 ELSE aliases[t]]
  /\ Ends(h)
  /\ Overtakes(h)
  /\ UNCHANGED <<scripts, blobs, instances, created, calls, failures, history>>

\* The pointer moves there, whatever it was; commit.  Aliases of the revision go.
Repoint(h) ==
  LET s == rpc[h].script IN
  /\ rpc[h].op = "repoint"
  /\ Ends(h)
  /\ \/ /\ ~GetScriptInfo(s)
        /\ UNCHANGED <<scripts, revisions, aliases, stale, history>>
     \/ /\ GetScriptInfo(s)
        /\ scripts' = [scripts EXCEPT ![s].current = rpc[h].target]
        /\ revisions' = [q \in DOMAIN revisions \ {rpc[h].rev} |-> revisions[q]]
        /\ aliases' = [t \in Scripts |-> IF aliases[t] = rpc[h].rev THEN 0 ELSE aliases[t]]
        /\ Overtakes(h) /\ Pointed(h, s)
        /\ unchecked' = unchecked \cup {s}
  /\ UNCHANGED <<blobs, instances, created, calls, failures>>

SetAlias(h, s, r) ==
  /\ GetDbRevision(r) /\ revisions[r].script = s
  /\ Begin(h, Rpc("alias", s, 0, r, <<>>))

\* The foreign keys refuse a revision or a script that is gone meanwhile.
UpsertAlias(h) ==
  /\ rpc[h].op = "alias" /\ rpc[h].target \notin Locked
  /\ aliases' = IF GetDbRevision(rpc[h].target)
                THEN [aliases EXCEPT ![rpc[h].script] = rpc[h].target] ELSE aliases
  /\ Ends(h)
  /\ UNCHANGED <<scripts, revisions, blobs, instances, created, calls, failures, stale, history>>

--------------------------------------------------------------------------------
\* A worker places an instance under the owner it resolved; the first stays.
RecordInstance(class, name) ==
  /\ instances[name] = 0 /\ ResolveClassOwner(class, name) # 0
  /\ instances' = [instances EXCEPT ![name] = ResolveClassOwner(class, name)]
  /\ UNCHANGED <<scripts, revisions, aliases, blobs, created, rpc, calls, failures, stale, history>>

ServiceNext ==
  \/ \E h \in Handlers, s \in Scripts :
       \/ CreateScript(h, s) \/ DeleteScript(h, s)
       \/ \E contract \in Contracts, hash \in Hashes, inline \in BOOLEAN :
            Publish(h, s, contract, hash, inline)
       \/ \E r \in 1..created : SetScriptRevision(h, s, r) \/ SetAlias(h, s, r)
  \/ \E h \in Handlers :
       \/ InsertScript(h) \/ DeleteProject(h)
       \/ RefuseContractConflicts(h) \/ StoreBlobs(h) \/ InsertRevision(h)
       \/ PointScript(h)
       \/ (\E r \in 1..created : DeleteRevision(h, r))
       \/ DeleteRow(h) \/ SelectOldest(h) \/ Repoint(h)
       \/ UpsertAlias(h) \/ Fails(h)
  \/ \E name \in Names : RecordInstance("queue", name)

ServiceSpec == ServiceInit /\ [][ServiceNext]_service

--------------------------------------------------------------------------------
(* Properties.                                                                 *)

\* What a script's pointer and its alias name is a revision of its own whose
\* files are all stored, whatever is deleted while it is written.  The only hole:
\* set_script_revision and delete_revision write a pointer they chose on an
\* earlier read, and no foreign key refuses one whose revision has gone since.
CurrentResolves ==
  LET Resolves(s, r) == r # 0 => GetRevision(r) /\ revisions[r].script = s IN
  /\ \A s \in ListScripts \ raced : Resolves(s, Current(s))
  /\ \A s \in ListScripts : Resolves(s, GetAlias(s))

\* A queue has one consumer and a class one declarer.  Publishing sees to it;
\* the holes are two publishes that overlap and pointers moved by
\* set_script_revision and delete_revision, which look at no contract.
OneOwner ==
  \A form \in SingleOwner, name \in Names :
    Cardinality(Declarers(form, name) \ unchecked) <= 1

\* The comment on contract_owner without its holes: publish-time uniqueness
\* keeps queues and user classes single-owner.
SingleOwnerAlways ==
  \A form \in SingleOwner, name \in Names : Cardinality(Declarers(form, name)) <= 1
================================================================================
