-------------------------- MODULE ScriptServiceProofs --------------------------
(* What the script service guarantees for any number of nodes, objects,        *)
(* scripts, names and handlers: module ScriptService first, then module        *)
(* Placement, the tables of the same service that nodes and leases are kept in. *)
EXTENDS Placement, ScriptService, FiniteSetTheorems, WellFoundedInduction, NaturalsInduction, TLAPS

--------------------------------------------------------------------------------
(* Scripts, revisions and the pointers to them.                                *)

Ops == {"idle", "insert script", "contract", "blobs", "insert", "point", "delete", "oldest",
        "repoint", "alias"}

Payload == [contract : Contracts, hash : Hashes, inline : BOOLEAN]

RpcRecord ==
  [op : Ops, script : Scripts \cup {0}, rev : Nat, target : Nat, bundle : Payload \cup {<<>>}]

ScriptRecord == [state : {"new", "live", "gone"}, current : Nat]
RevisionRecord == [script : Scripts, contract : Contracts, hash : Hashes]

TablesType ==
  /\ scripts \in [Scripts -> ScriptRecord]
  /\ created \in Nat
  /\ DOMAIN revisions \subseteq 1..created
  /\ revisions \in [DOMAIN revisions -> RevisionRecord]
  /\ aliases \in [Scripts -> Nat]
  /\ rpc \in [Handlers -> RpcRecord]

\* r is a revision that s has, or had.
OfScript(r, s) == r \in 1..created /\ (r \in DOMAIN revisions => revisions[r].script = s)

\* What a handler knows of what it read, and what it still knows while it is
\* fresh: no other handler has committed since it began.
Knows(v, fresh) ==
  /\ v.op # "idle" => v.script \in Scripts
  /\ v.op \in {"contract", "blobs", "insert"} => v.bundle \in Payload
  /\ v.op = "insert" => v.bundle.hash \in blobs
  /\ v.op \in {"point", "alias"} => OfScript(v.target, v.script)
  /\ v.op \in {"delete", "oldest", "repoint"} => OfScript(v.rev, v.script)
  /\ v.op = "repoint" /\ v.target # 0 => OfScript(v.target, v.script) /\ v.target # v.rev
  /\ v.op \in {"point", "repoint"} /\ fresh /\ v.target # 0 => v.target \in DOMAIN revisions
  /\ v.op \in {"blobs", "insert"} /\ fresh => ~Conflicts(v.script, v.bundle.contract)

RpcInv == \A h \in Handlers : Knows(rpc[h], h \notin stale)

\* The files of a revision are stored.
FilesInv == \A r \in DOMAIN revisions : revisions[r].hash \in blobs

\* A pointer that was not raced, and an alias, is to a revision of the script.
PointerOK(s) ==
  /\ scripts[s].current <= created
  /\ scripts[s].state = "new" => scripts[s].current = 0
  /\ scripts[s].state = "live" /\ s \notin raced /\ scripts[s].current # 0 =>
       scripts[s].current \in DOMAIN revisions /\ revisions[scripts[s].current].script = s
  /\ aliases[s] # 0 => aliases[s] \in DOMAIN revisions /\ revisions[aliases[s]].script = s

PointerInv == \A s \in Scripts : PointerOK(s)

\* Two scripts whose contracts were looked at declare no single-owner identity both.
Apart(s, t) == \A d \in Declared(s) : d[1] \in SingleOwner => d \notin Declared(t)

OwnerInv == \A s, t \in ListScripts \ unchecked : s # t => Apart(s, t)

ServiceInv == TablesType /\ RpcInv /\ FilesInv /\ PointerInv /\ OwnerInv

--------------------------------------------------------------------------------
(* Handlers.                                                                   *)

\* The record that a handler begins with, or goes on with, in one of its steps.
LEMMA IdleRecord ==
  /\ Idle \in RpcRecord /\ Idle.op = "idle" /\ Idle.rev = 0 /\ Idle.target = 0
  /\ \A fresh : Knows(Idle, fresh)
<1> PICK e : e = <<>>
  OBVIOUS
<1>1. Idle = [op |-> "idle", script |-> 0, rev |-> 0, target |-> 0, bundle |-> e]
  BY DEF Idle, Rpc
<1>2. RpcRecord = [op : Ops, script : Scripts \cup {0}, rev : Nat, target : Nat,
                   bundle : Payload \cup {e}]
  BY DEF RpcRecord
<1>3. /\ Idle \in RpcRecord /\ Idle.op = "idle" /\ Idle.rev = 0 /\ Idle.target = 0
  BY <1>1, <1>2 DEF Ops
<1> QED
  BY <1>3 DEF Knows

\* No row that a pointer or a contract is read from is touched.
SameTables == UNCHANGED <<scripts, revisions, aliases, created, raced, unchecked>>

\* What is known is known as long as the rows are there.
LEMMA KnowsStill ==
  ASSUME UNCHANGED <<scripts, revisions, created>>, blobs \subseteq blobs', NEW v, NEW fresh,
         Knows(v, fresh)
  PROVE  Knows(v, fresh)' /\ Knows(v, FALSE)'
<1>1. /\ \A r, s : OfScript(r, s)' <=> OfScript(r, s)
      /\ Conflicts(v.script, v.bundle.contract)' <=> Conflicts(v.script, v.bundle.contract)
  BY DEF OfScript, Conflicts, Declared, Current, ListScripts, GetScriptInfo
<1> QED
  BY <1>1 DEF Knows

\* A handler makes a step without a commit.
LEMMA TurnKeeps ==
  ASSUME ServiceInv, SameTables, blobs \subseteq blobs', NEW h \in Handlers, NEW v \in RpcRecord,
         rpc' = [rpc EXCEPT ![h] = v], stale' \in {stale, stale \ {h}},
         NEW fresh, fresh = (h \notin stale'), Knows(v, fresh)'
  PROVE  ServiceInv'
<1> USE DEF ServiceInv
<1>1. rpc' \in [Handlers -> RpcRecord] /\ rpc'[h] = v /\ \A g \in Handlers \ {h} : rpc'[g] = rpc[g]
  BY DEF TablesType
<1>2. TablesType'
  BY <1>1 DEF TablesType, SameTables
<1>3. RpcInv'
  <2>1. ASSUME NEW g \in Handlers \ {h} PROVE Knows(rpc[g], g \notin stale)'
    <3>1. PICK w, f : w = rpc[g] /\ f = (g \notin stale)
      OBVIOUS
    <3>2. Knows(w, f)
      BY <3>1 DEF RpcInv
    <3>3. Knows(w, f)'
      BY <3>2, KnowsStill DEF SameTables
    <3>4. rpc'[g] = w /\ f = (g \notin stale')
      BY <1>1, <3>1
    <3> QED
      BY <3>3, <3>4
  <2>2. Knows(rpc[h], h \notin stale)'
    BY <1>1
  <2> QED
    BY <2>1, <2>2 DEF RpcInv
<1>4. FilesInv' /\ PointerInv' /\ OwnerInv'
  BY DEF FilesInv, PointerInv, PointerOK, OwnerInv, Apart, SameTables, Declared, Current,
         ListScripts, GetScriptInfo
<1> QED
  BY <1>2, <1>3, <1>4

\* A handler's record in another state, and the record it begins with.
LEMMA WithOp ==
  ASSUME NEW v \in RpcRecord, NEW op \in Ops, NEW w, w = [v EXCEPT !.op = op]
  PROVE  /\ w \in RpcRecord /\ w.op = op /\ w.script = v.script /\ w.rev = v.rev
         /\ w.target = v.target /\ w.bundle = v.bundle
<1> PICK B : B = Payload \cup {<<>>}
  OBVIOUS
<1>1. RpcRecord = [op : Ops, script : Scripts \cup {0}, rev : Nat, target : Nat, bundle : B]
  BY DEF RpcRecord
<1> QED
  BY <1>1

LEMMA RpcFields ==
  ASSUME NEW v \in RpcRecord
  PROVE  v.rev \in Nat /\ v.target \in Nat
<1> PICK B : B = Payload \cup {<<>>}
  OBVIOUS
<1>1. RpcRecord = [op : Ops, script : Scripts \cup {0}, rev : Nat, target : Nat, bundle : B]
  BY DEF RpcRecord
<1> QED
  BY <1>1

LEMMA Begun ==
  ASSUME NEW op \in Ops, NEW s \in Scripts \cup {0}, NEW rev \in Nat, NEW target \in Nat,
         NEW bundle \in Payload \cup {<<>>}, NEW w, w = Rpc(op, s, rev, target, bundle)
  PROVE  /\ w \in RpcRecord /\ w.op = op /\ w.script = s /\ w.rev = rev /\ w.target = target
         /\ w.bundle = bundle
<1> PICK B : B = Payload \cup {<<>>} /\ bundle \in B
  OBVIOUS
<1>1. RpcRecord = [op : Ops, script : Scripts \cup {0}, rev : Nat, target : Nat, bundle : B]
  BY DEF RpcRecord
<1> QED
  BY <1>1 DEF Rpc

\* Most handlers carry no bundle.
LEMMA BegunBare ==
  ASSUME NEW op \in Ops, NEW s \in Scripts, NEW rev \in Nat, NEW target \in Nat,
         NEW w, w = Rpc(op, s, rev, target, <<>>)
  PROVE  /\ w \in RpcRecord /\ w.op = op /\ w.script = s /\ w.rev = rev /\ w.target = target
<1>1. PICK e : e = <<>>
  OBVIOUS
<1>2. e \in Payload \cup {<<>>} /\ w = Rpc(op, s, rev, target, e)
  BY <1>1
<1> QED
  BY <1>2, Begun

LEMMA OpsOf ==
  /\ {"idle", "insert script", "contract", "blobs", "insert"} \subseteq Ops
  /\ {"point", "delete", "oldest", "repoint", "alias"} \subseteq Ops
  BY DEF Ops

LEMMA BeginKeeps ==
  ASSUME ServiceInv, NEW h \in Handlers, NEW v \in RpcRecord, Begin(h, v), Knows(v, TRUE)
  PROVE  ServiceInv'
<1>1. SameTables /\ blobs' = blobs /\ stale' = stale \ {h} /\ rpc' = [rpc EXCEPT ![h] = v]
  BY DEF Begin, SameTables, tables, history
<1>2. Knows(v, TRUE)'
  BY <1>1, KnowsStill DEF SameTables
<1>3. TRUE = (h \notin stale')
  BY <1>1
<1> QED
  BY <1>1, <1>2, <1>3, TurnKeeps

LEMMA CreateScriptInv ==
  ASSUME ServiceInv, NEW h \in Handlers, NEW s \in Scripts, CreateScript(h, s)
  PROVE  ServiceInv'
<1>0. PICK op, z : op = "insert script" /\ z = 0
  OBVIOUS
<1>1. PICK v : v = Rpc(op, s, z, z, <<>>)
  OBVIOUS
<1>2. v \in RpcRecord /\ v.op = "insert script" /\ v.script = s
  <2>1. op \in Ops /\ z \in Nat
    BY <1>0, OpsOf
  <2>2. v \in RpcRecord /\ v.op = op /\ v.script = s
    BY <1>1, <2>1, BegunBare
  <2> QED
    BY <1>0, <2>2
<1>3. Knows(v, TRUE)
  BY <1>2 DEF Knows
<1>4. Begin(h, v)
  BY <1>0, <1>1 DEF CreateScript
<1> QED
  BY <1>2, <1>3, <1>4, BeginKeeps

LEMMA PublishInv ==
  ASSUME ServiceInv, NEW h \in Handlers, NEW s \in Scripts, NEW contract \in Contracts,
         NEW hash \in Hashes, NEW inline \in BOOLEAN, Publish(h, s, contract, hash, inline)
  PROVE  ServiceInv'
<1>1. PICK b : b = [contract |-> contract, hash |-> hash, inline |-> inline]
  OBVIOUS
<1>2. b \in Payload
  BY <1>1 DEF Payload
<1>0. PICK op, z : op = "contract" /\ z = 0
  OBVIOUS
<1>3. PICK v : v = Rpc(op, s, z, z, b)
  OBVIOUS
<1>4. v \in RpcRecord /\ v.op = "contract" /\ v.script = s /\ v.bundle = b
  <2>1. op \in Ops /\ z \in Nat
    BY <1>0, OpsOf
  <2>2. v \in RpcRecord /\ v.op = op /\ v.script = s /\ v.bundle = b
    BY <1>2, <1>3, <2>1, Begun
  <2> QED
    BY <1>0, <2>2
<1>5. Knows(v, TRUE)
  BY <1>2, <1>4 DEF Knows
<1>6. Begin(h, v)
  BY <1>0, <1>1, <1>3 DEF Publish
<1> QED
  BY <1>4, <1>5, <1>6, BeginKeeps

LEMMA TargetInv ==
  ASSUME ServiceInv, NEW h \in Handlers, NEW s \in Scripts, NEW r \in 1..created,
         SetScriptRevision(h, s, r) \/ SetAlias(h, s, r)
  PROVE  ServiceInv'
<1>1. PICK op \in {"point", "alias"} :
        /\ GetDbRevision(r) /\ revisions[r].script = s
        /\ Begin(h, Rpc(op, s, 0, r, <<>>))
  BY DEF SetScriptRevision, SetAlias
<1>2. op \in Ops /\ r \in Nat
  <2>1. r \in Nat
    BY DEF ServiceInv, TablesType
  <2> QED
    BY <1>1, <2>1, OpsOf
<1>0. PICK z : z = 0
  OBVIOUS
<1>3. PICK v : v = Rpc(op, s, z, r, <<>>)
  OBVIOUS
<1>4. v \in RpcRecord /\ v.op = op /\ v.script = s /\ v.target = r
  <2>1. z \in Nat
    BY <1>0
  <2> QED
    BY <1>2, <1>3, <2>1, BegunBare
<1>5. Knows(v, TRUE)
  BY <1>1, <1>4 DEF Knows, OfScript, GetDbRevision
<1>6. Begin(h, v)
  BY <1>0, <1>1, <1>3
<1> QED
  BY <1>4, <1>5, <1>6, BeginKeeps

LEMMA DeleteRevisionInv ==
  ASSUME ServiceInv, NEW h \in Handlers, NEW r \in 1..created, DeleteRevision(h, r)
  PROVE  ServiceInv'
<1>1. PICK s : s = revisions[r].script
  OBVIOUS
<1>2. s \in Scripts /\ r \in Nat /\ r \in DOMAIN revisions
  BY <1>1 DEF ServiceInv, TablesType, RevisionRecord, DeleteRevision, GetDbRevision
<1>0. PICK op, z : op = "delete" /\ z = 0
  OBVIOUS
<1>3. PICK v : v = Rpc(op, s, r, z, <<>>)
  OBVIOUS
<1>4. v \in RpcRecord /\ v.op = "delete" /\ v.script = s /\ v.rev = r
  <2>1. op \in Ops /\ z \in Nat
    BY <1>0, OpsOf
  <2>2. v \in RpcRecord /\ v.op = op /\ v.script = s /\ v.rev = r
    BY <1>2, <1>3, <2>1, BegunBare
  <2> QED
    BY <1>0, <2>2
<1>5. Knows(v, TRUE)
  BY <1>1, <1>2, <1>4 DEF Knows, OfScript
<1>6. Begin(h, v)
  BY <1>0, <1>1, <1>3 DEF DeleteRevision
<1> QED
  BY <1>4, <1>5, <1>6, BeginKeeps

--------------------------------------------------------------------------------
(* Steps before the commit.                                                    *)

\* A handler ends with nothing written.
LEMMA EndKeeps ==
  ASSUME ServiceInv, SameTables, blobs' = blobs, stale' = stale, NEW h \in Handlers, Ends(h)
  PROVE  ServiceInv'
<1>1. PICK v, fresh : v = Idle /\ fresh = (h \notin stale')
  OBVIOUS
<1>2. v \in RpcRecord /\ Knows(v, fresh)
  BY <1>1, IdleRecord
<1>3. Knows(v, fresh)'
  BY <1>2, KnowsStill DEF SameTables
<1>4. rpc' = [rpc EXCEPT ![h] = v]
  BY <1>1 DEF Ends
<1> QED
  BY <1>1, <1>2, <1>3, <1>4, TurnKeeps

LEMMA RefuseInv ==
  ASSUME ServiceInv, NEW h \in Handlers, RefuseContractConflicts(h)
  PROVE  ServiceInv'
<1>1. rpc[h] \in RpcRecord /\ Knows(rpc[h], h \notin stale) /\ rpc[h].op = "contract"
  BY DEF ServiceInv, TablesType, RpcInv, RefuseContractConflicts
<1>2. SameTables /\ blobs' = blobs /\ stale' = stale
  BY DEF RefuseContractConflicts, SameTables, tables, history
<1>3. CASE Conflicts(rpc[h].script, rpc[h].bundle.contract)
  BY <1>2, <1>3, EndKeeps DEF RefuseContractConflicts
<1>4. CASE ~Conflicts(rpc[h].script, rpc[h].bundle.contract)
  <2>1. PICK v, op, fresh : v = [rpc[h] EXCEPT !.op = op] /\ op = "blobs" /\ fresh = (h \notin stale)
    OBVIOUS
  <2>2. v \in RpcRecord /\ v.op = "blobs" /\ v.script = rpc[h].script /\ v.bundle = rpc[h].bundle
    <3>1. op \in Ops
      BY <2>1, OpsOf
    <3> QED
      BY <1>1, <2>1, <3>1, WithOp
  <2>3. Knows(v, fresh)
    BY <1>1, <1>4, <2>2 DEF Knows
  <2>4. Knows(v, fresh)'
    BY <1>2, <2>3, KnowsStill DEF SameTables
  <2>5. rpc' = [rpc EXCEPT ![h] = v]
    BY <1>4, <2>1 DEF RefuseContractConflicts, Turn
  <2>6. fresh = (h \notin stale')
    BY <1>2, <2>1
  <2> QED
    BY <1>2, <2>2, <2>4, <2>5, <2>6, TurnKeeps
<1> QED
  BY <1>3, <1>4

LEMMA StoreBlobsInv ==
  ASSUME ServiceInv, NEW h \in Handlers, StoreBlobs(h)
  PROVE  ServiceInv'
<1>1. rpc[h] \in RpcRecord /\ Knows(rpc[h], h \notin stale) /\ rpc[h].op = "blobs"
  BY DEF ServiceInv, TablesType, RpcInv, StoreBlobs
<1>2. SameTables /\ blobs \subseteq blobs' /\ stale' = stale
  BY DEF StoreBlobs, SameTables, history
<1>3. CASE Ends(h) /\ blobs' = blobs
  BY <1>2, <1>3, EndKeeps
<1>4. CASE Turn(h, "insert") /\ rpc[h].bundle.hash \in blobs'
  <2>1. PICK v, op, fresh : v = [rpc[h] EXCEPT !.op = op] /\ op = "insert" /\ fresh = (h \notin stale)
    OBVIOUS
  <2>2. v \in RpcRecord /\ v.op = "insert" /\ v.script = rpc[h].script /\ v.bundle = rpc[h].bundle
    <3>1. op \in Ops
      BY <2>1, OpsOf
    <3> QED
      BY <1>1, <2>1, <3>1, WithOp
  <2>3. PICK w : w = rpc[h]
    OBVIOUS
  <2>4. Knows(w, fresh)'
    <3>1. Knows(w, fresh)
      BY <1>1, <2>1, <2>3
    <3> QED
      BY <1>2, <3>1, KnowsStill DEF SameTables
  <2>5. Knows(v, fresh)'
    BY <1>1, <1>4, <2>2, <2>3, <2>4 DEF Knows
  <2>6. rpc' = [rpc EXCEPT ![h] = v]
    BY <1>4, <2>1 DEF Turn
  <2>7. fresh = (h \notin stale')
    BY <1>2, <2>1
  <2> QED
    BY <1>2, <2>2, <2>5, <2>6, <2>7, TurnKeeps
<1> QED
  BY <1>3, <1>4 DEF StoreBlobs, MissingBlobs

LEMMA DeleteRowInv ==
  ASSUME ServiceInv, NEW h \in Handlers, DeleteRow(h)
  PROVE  ServiceInv'
<1>1. rpc[h] \in RpcRecord /\ Knows(rpc[h], h \notin stale) /\ rpc[h].op = "delete"
  BY DEF ServiceInv, TablesType, RpcInv, DeleteRow
<1>2. SameTables /\ blobs' = blobs /\ stale' = stale
  BY DEF DeleteRow, SameTables, tables, history
<1>3. PICK v, op, fresh : v = [rpc[h] EXCEPT !.op = op] /\ op = "oldest" /\ fresh = (h \notin stale)
  OBVIOUS
<1>4. v \in RpcRecord /\ v.op = "oldest" /\ v.script = rpc[h].script /\ v.rev = rpc[h].rev
  <2>1. op \in Ops
    BY <1>3, OpsOf
  <2> QED
    BY <1>1, <1>3, <2>1, WithOp
<1>5. Knows(v, fresh)
  BY <1>1, <1>4 DEF Knows
<1>6. Knows(v, fresh)'
  BY <1>2, <1>5, KnowsStill DEF SameTables
<1>7. rpc' = [rpc EXCEPT ![h] = v]
  BY <1>3 DEF DeleteRow, Turn
<1>8. fresh = (h \notin stale')
  BY <1>2, <1>3
<1> QED
  BY <1>2, <1>4, <1>6, <1>7, <1>8, TurnKeeps

\* The first of a set of revisions is one of them.
LEMMA MinIn ==
  ASSUME NEW S \in SUBSET Nat, S # {}
  PROVE  Min(S) \in S
<1>1. PICK x \in S : \A y \in S : ~(<<y, x>> \in OpToRel(<, Nat))
  BY NatLessThanWellFounded, WFMin
<1>2. ASSUME NEW y \in S PROVE x =< y
  <2>1. x \in Nat /\ y \in Nat
    OBVIOUS
  <2>2. ~(y < x)
    BY <1>1, <2>1 DEF OpToRel
  <2> QED
    BY <2>1, <2>2
<1> QED
  BY <1>2 DEF Min

LEMMA SelectOldestInv ==
  ASSUME ServiceInv, NEW h \in Handlers, SelectOldest(h)
  PROVE  ServiceInv'
<1>1. rpc[h] \in RpcRecord /\ Knows(rpc[h], h \notin stale) /\ rpc[h].op = "oldest"
  BY DEF ServiceInv, TablesType, RpcInv, SelectOldest
<1>2. SameTables /\ blobs' = blobs /\ stale' = stale
  BY DEF SelectOldest, SameTables, tables, history
<1>3. PICK s, rev : s = rpc[h].script /\ rev = rpc[h].rev
  OBVIOUS
<1>4. s \in Scripts /\ rev \in Nat /\ OfScript(rev, s)
  <2>1. rev \in Nat
    BY <1>1, <1>3, RpcFields
  <2>2. PICK w, f : w = rpc[h] /\ f = (h \notin stale)
    OBVIOUS
  <2>3. Knows(w, f) /\ w.op = "oldest" /\ s = w.script /\ rev = w.rev
    BY <1>1, <1>3, <2>2
  <2> QED
    BY <2>1, <2>3 DEF Knows
<1>5. PICK left : left = ListRevisions(s) \ {rev}
  OBVIOUS
<1>6. PICK target : target = IF left = {} THEN 0 ELSE Min(left)
  OBVIOUS
<1>7. left \subseteq 1..created /\ \A r \in left : r \in DOMAIN revisions /\ revisions[r].script = s
                                                   /\ r # rev
  BY <1>5 DEF ListRevisions, ServiceInv, TablesType
<1>8. target = 0 \/ target \in left
  <2>1. left \in SUBSET Nat
    BY <1>7 DEF ServiceInv, TablesType
  <2> QED
    BY <1>6, <2>1, MinIn
<1>9. PICK op, fresh : op = "repoint" /\ fresh = (h \notin stale)
  OBVIOUS
<1>10. PICK v : v = Rpc(op, s, rev, target, <<>>)
  OBVIOUS
<1>11. v \in RpcRecord /\ v.op = "repoint" /\ v.script = s /\ v.rev = rev /\ v.target = target
  <2>0. target \in Nat
    BY <1>7, <1>8 DEF ServiceInv, TablesType
  <2>1. op \in Ops /\ target \in Nat
    BY <1>9, <2>0, OpsOf
  <2>2. v \in RpcRecord /\ v.op = op /\ v.script = s /\ v.rev = rev /\ v.target = target
    BY <1>4, <1>10, <2>1, BegunBare
  <2> QED
    BY <1>9, <2>2
<1>12. Knows(v, fresh)
  BY <1>4, <1>7, <1>8, <1>11 DEF Knows, OfScript
<1>13. Knows(v, fresh)'
  BY <1>2, <1>12, KnowsStill DEF SameTables
<1>14. rpc' = [rpc EXCEPT ![h] = v]
  BY <1>3, <1>5, <1>6, <1>9, <1>10 DEF SelectOldest
<1>15. fresh = (h \notin stale')
  BY <1>2, <1>9
<1> QED
  BY <1>2, <1>11, <1>13, <1>14, <1>15, TurnKeeps

--------------------------------------------------------------------------------
(* Commits.                                                                    *)

\* A commit makes what the handlers under way know stale; revisions stay who they are.
LEMMA OvertakenKeep ==
  ASSUME ServiceInv, rpc' \in [Handlers -> RpcRecord],
         \A g \in Handlers : rpc'[g] = Idle \/ (rpc'[g] = rpc[g] /\ (rpc[g].op # "idle" => g \in stale')),
         blobs \subseteq blobs', created' \in Nat, created <= created',
         \A r \in DOMAIN revisions' :
           r > created \/ (r \in DOMAIN revisions /\ revisions'[r].script = revisions[r].script)
  PROVE  RpcInv'
<1> SUFFICES ASSUME NEW g \in Handlers PROVE Knows(rpc[g], g \notin stale)'
  BY DEF RpcInv
<1>0. created \in Nat
  BY DEF ServiceInv, TablesType
<1>1. \A r, s : OfScript(r, s) => OfScript(r, s)'
  BY <1>0 DEF OfScript
<1>2. PICK v, fresh : v = rpc'[g] /\ fresh = (g \notin stale')
  OBVIOUS
<1>3. CASE v.op = "idle"
  <2>1. Knows(v, fresh)'
    BY <1>3 DEF Knows
  <2> QED
    BY <1>2, <2>1
<1>4. CASE v.op # "idle"
  <2>1. v = rpc[g] /\ ~fresh
    BY <1>2, <1>4, IdleRecord
  <2>2. Knows(v, g \notin stale)
    BY <2>1 DEF ServiceInv, RpcInv
  <2>3. Knows(v, fresh)'
    BY <1>1, <2>1, <2>2 DEF Knows
  <2> QED
    BY <1>2, <2>3
<1> QED
  BY <1>3, <1>4

\* The handler that commits ends, and the others are overtaken.
LEMMA CommitKeeps ==
  ASSUME ServiceInv, NEW h \in Handlers, Ends(h), Overtakes(h),
         blobs \subseteq blobs', created' \in Nat, created <= created',
         \A r \in DOMAIN revisions' :
           r > created \/ (r \in DOMAIN revisions /\ revisions'[r].script = revisions[r].script)
  PROVE  rpc' \in [Handlers -> RpcRecord] /\ RpcInv'
<1>1. rpc' \in [Handlers -> RpcRecord] /\ rpc'[h] = Idle /\ \A g \in Handlers \ {h} : rpc'[g] = rpc[g]
  BY IdleRecord DEF ServiceInv, TablesType, Ends
<1>2. \A g \in Handlers :
        rpc'[g] = Idle \/ (rpc'[g] = rpc[g] /\ (rpc[g].op # "idle" => g \in stale'))
  BY <1>1 DEF Overtakes
<1> QED
  BY <1>1, <1>2, OvertakenKeep

\* Declaring less disturbs nobody.
LEMMA OwnersKeep ==
  ASSUME OwnerInv,
         \A t \in ListScripts' \ unchecked' :
           Declared(t)' = {} \/ (t \in ListScripts \ unchecked /\ Declared(t)' \subseteq Declared(t))
  PROVE  OwnerInv'
<1> SUFFICES ASSUME NEW s \in ListScripts' \ unchecked', NEW t \in ListScripts' \ unchecked', s # t,
                    NEW d \in Declared(s)', d[1] \in SingleOwner
             PROVE  d \notin Declared(t)'
  BY DEF OwnerInv, Apart
<1> QED
  BY DEF OwnerInv, Apart

\* What is declared is read from the pointer and the revisions.
LEMMA DeclaredBy ==
  ASSUME NEW t, Current(t)' = Current(t),
         \A r \in DOMAIN revisions' : r = Current(t) => r \in DOMAIN revisions
                                                        /\ revisions'[r] = revisions[r]
  PROVE  Declared(t)' \subseteq Declared(t)
  BY DEF Declared

LEMMA InsertScriptInv ==
  ASSUME ServiceInv, NEW h \in Handlers, InsertScript(h)
  PROVE  ServiceInv'
<1> USE DEF ServiceInv
<1>1. PICK s : s = rpc[h].script
  OBVIOUS
<1>2. rpc[h].op = "insert script" /\ Ends(h)
      /\ UNCHANGED <<revisions, aliases, blobs, created, stale, raced, unchecked>>
  BY DEF InsertScript, history
<1>3. s \in Scripts
  BY <1>1, <1>2 DEF RpcInv, Knows
<1>4. CASE scripts[s].state # "new"
  BY <1>1, <1>2, <1>4, EndKeeps DEF InsertScript, SameTables
<1>5. CASE scripts[s].state = "new"
  <2>1. scripts' = [scripts EXCEPT ![s].state = "live"]
    BY <1>1, <1>5 DEF InsertScript
  <2>2. scripts[s] \in ScriptRecord /\ scripts[s].current = 0
    BY <1>3, <1>5 DEF TablesType, PointerInv, PointerOK
  <2>3. /\ scripts' \in [Scripts -> ScriptRecord] /\ scripts'[s].current = 0
        /\ \A t \in Scripts \ {s} : scripts'[t] = scripts[t]
    BY <1>3, <2>1, <2>2 DEF TablesType, ScriptRecord
  <2>4. 0 \notin DOMAIN revisions
    BY DEF TablesType
  <2>5. Declared(s)' = {}
    BY <1>2, <2>3, <2>4 DEF Declared, Current
  <2>6. \A t \in Scripts \ {s} : Declared(t)' = Declared(t) /\ (t \in ListScripts' <=> t \in ListScripts)
    BY <1>2, <2>3 DEF Declared, Current, ListScripts, GetScriptInfo
  <2>7. ListScripts' \subseteq Scripts
    BY DEF ListScripts
  <2>8. OwnerInv'
    BY <1>2, <2>5, <2>6, <2>7, OwnersKeep
  <2>9. PointerInv' /\ FilesInv'
    <3>1. ASSUME NEW t \in Scripts \ {s} PROVE PointerOK(t)'
      BY <1>2, <2>3 DEF PointerInv, PointerOK
    <3>2. PointerOK(s)'
      BY <1>2, <1>3, <2>2, <2>3 DEF PointerInv, PointerOK, TablesType
    <3> QED
      BY <1>2, <3>1, <3>2 DEF PointerInv, FilesInv
  <2>10. rpc' \in [Handlers -> RpcRecord] /\ rpc'[h] = Idle
         /\ \A g \in Handlers \ {h} : rpc'[g] = rpc[g]
    BY <1>2, IdleRecord DEF TablesType, Ends
  <2>11. \A t, contract : Conflicts(t, contract)' => Conflicts(t, contract)
    BY <2>5, <2>6, <2>7 DEF Conflicts
  <2>12. RpcInv'
    <3> SUFFICES ASSUME NEW g \in Handlers PROVE Knows(rpc[g], g \notin stale)'
      BY DEF RpcInv
    <3>1. PICK v, fresh : v = rpc'[g] /\ fresh = (g \notin stale')
      OBVIOUS
    <3>2. Knows(v, fresh)
      BY <1>2, <2>10, <3>1, IdleRecord DEF RpcInv
    <3>3. Knows(v, fresh)'
      BY <1>2, <2>11, <3>2 DEF Knows, OfScript
    <3> QED
      BY <3>1, <3>3
  <2>13. TablesType'
    BY <1>2, <2>3, <2>10 DEF TablesType
  <2> QED
    BY <2>8, <2>9, <2>12, <2>13
<1> QED
  BY <1>4, <1>5

LEMMA RemoveInv ==
  ASSUME ServiceInv, NEW h \in Handlers, NEW gone \in SUBSET Scripts, Remove(h, gone)
  PROVE  ServiceInv'
<1> USE DEF ServiceInv
<1>1. /\ rpc[h].op = "idle" /\ Overtakes(h) /\ UNCHANGED <<blobs, created, rpc>>
      /\ raced' = raced \ gone /\ unchecked' = unchecked \ gone
  BY DEF Remove, Free
<1>2. /\ DOMAIN revisions' = {q \in DOMAIN revisions : revisions[q].script \notin gone}
      /\ \A r \in DOMAIN revisions' : revisions'[r] = revisions[r]
      /\ revisions' \in [DOMAIN revisions' -> RevisionRecord]
  BY DEF Remove, TablesType
<1>3. /\ scripts' \in [Scripts -> ScriptRecord]
      /\ \A s \in gone : scripts'[s].state = "gone" /\ scripts'[s].current = 0
      /\ \A s \in Scripts \ gone : scripts'[s] = scripts[s]
  BY DEF Remove, TablesType, ScriptRecord
<1>4. /\ aliases' \in [Scripts -> Nat] /\ \A s \in gone : aliases'[s] = 0
      /\ \A s \in Scripts \ gone : aliases'[s] = aliases[s]
  BY DEF Remove, TablesType
<1>5. TablesType'
  BY <1>1, <1>2, <1>3, <1>4 DEF TablesType
<1>6. RpcInv'
  <2>1. \A g \in Handlers : rpc'[g] = rpc[g] /\ (rpc[g].op # "idle" => g \in stale')
    BY <1>1 DEF Overtakes
  <2>2. created \in Nat /\ created <= created'
    BY <1>1 DEF TablesType
  <2> QED
    BY <1>1, <1>2, <1>5, <2>1, <2>2, OvertakenKeep DEF TablesType
<1>7. FilesInv'
  BY <1>1, <1>2 DEF FilesInv
<1>8. PointerInv'
  <2>1. ASSUME NEW s \in gone PROVE PointerOK(s)'
    BY <1>1, <1>3, <1>4, <2>1 DEF PointerOK, TablesType
  <2>2. ASSUME NEW s \in Scripts \ gone PROVE PointerOK(s)'
    <3>1. PointerOK(s)
      BY DEF PointerInv
    <3> QED
      BY <1>1, <1>2, <1>3, <1>4, <3>1 DEF PointerOK
  <2> QED
    BY <2>1, <2>2 DEF PointerInv
<1>9. OwnerInv'
  <2>1. ASSUME NEW t \in ListScripts' \ unchecked'
        PROVE  t \in ListScripts \ unchecked /\ Declared(t)' \subseteq Declared(t)
    <3>1. t \in Scripts \ gone
      BY <1>3 DEF ListScripts, GetScriptInfo
    <3>2. t \in ListScripts \ unchecked /\ Current(t)' = Current(t)
      BY <1>1, <1>3, <3>1 DEF ListScripts, GetScriptInfo, Current
    <3> QED
      BY <1>2, <3>2, DeclaredBy
  <2> QED
    BY <2>1, OwnersKeep
<1> QED
  BY <1>5, <1>6, <1>7, <1>8, <1>9

\* A revision is published: its id is new, so no pointer was to it, and unless
\* others have overtaken the handler no sibling declares what it declares.
LEMMA InsertRevisionInv ==
  ASSUME ServiceInv, NEW h \in Handlers, InsertRevision(h)
  PROVE  ServiceInv'
<1> USE DEF ServiceInv
<1>1. PICK s, r, b, v, f : /\ v = rpc[h] /\ f = (h \notin stale) /\ s = v.script /\ b = v.bundle
                           /\ r = created + 1
  OBVIOUS
<1>2. v.op = "insert" /\ Ends(h) /\ UNCHANGED <<aliases, blobs>>
  BY <1>1 DEF InsertRevision
<1>3. Knows(v, f)
  BY <1>1 DEF RpcInv
<1>4. s \in Scripts /\ b \in Payload /\ b.hash \in blobs /\ (f => ~Conflicts(s, b.contract))
  BY <1>1, <1>2, <1>3 DEF Knows
<1>5. CASE UNCHANGED <<scripts, revisions, created, stale, history>>
  BY <1>2, <1>5, EndKeeps DEF SameTables, history
<1>6. CASE ~UNCHANGED <<scripts, revisions, created, stale, history>>
  <2>1. /\ created' = r
        /\ revisions' = [q \in DOMAIN revisions \cup {r} |->
             IF q = r THEN [script |-> s, contract |-> b.contract, hash |-> b.hash]
             ELSE revisions[q]]
        /\ scripts' = [scripts EXCEPT ![s].current = r]
        /\ Overtakes(h) /\ raced' = raced \ {s}
        /\ unchecked' = IF h \in stale THEN unchecked \cup {s} ELSE unchecked \ {s}
    BY <1>1, <1>6 DEF InsertRevision
  <2>2. created \in Nat /\ created' \in Nat /\ r \in Nat /\ r > created /\ r \in 1..r /\ r # 0
    BY <1>1, <2>1 DEF TablesType
  <2>3. PICK rec : rec = [script |-> s, contract |-> b.contract, hash |-> b.hash]
    OBVIOUS
  <2>4. rec \in RevisionRecord /\ rec.script = s /\ rec.contract = b.contract /\ rec.hash = b.hash
    BY <1>4, <2>3 DEF RevisionRecord, Payload
  <2>5. /\ DOMAIN revisions' = DOMAIN revisions \cup {r} /\ revisions'[r] = rec
        /\ \A q \in DOMAIN revisions \ {r} : revisions'[q] = revisions[q]
        /\ revisions' = [q \in DOMAIN revisions' |-> revisions'[q]]
    BY <2>1, <2>3
  <2>6. r \notin DOMAIN revisions
    BY <2>2 DEF TablesType
  <2>7. /\ scripts' \in [Scripts -> ScriptRecord] /\ scripts'[s].current = r
        /\ scripts'[s].state = scripts[s].state
        /\ \A t \in Scripts \ {s} : scripts'[t] = scripts[t]
    BY <1>4, <2>1, <2>2 DEF TablesType, ScriptRecord
  <2>8. GetScriptInfo(s)
    BY <1>1, <1>6 DEF InsertRevision
  <2>9. rpc' \in [Handlers -> RpcRecord] /\ RpcInv'
    BY <1>2, <2>1, <2>2, <2>5, CommitKeeps
  <2>10. TablesType'
    <3>1. DOMAIN revisions' \subseteq 1..created'
      BY <2>1, <2>2, <2>5 DEF TablesType
    <3>2. \A q \in DOMAIN revisions' : revisions'[q] \in RevisionRecord
      BY <2>4, <2>5 DEF TablesType
    <3>3. revisions' \in [DOMAIN revisions' -> RevisionRecord]
      BY <2>5, <3>2
    <3> QED
      BY <1>2, <2>2, <2>7, <2>9, <3>1, <3>3 DEF TablesType
  <2>11. FilesInv'
    BY <1>2, <1>4, <2>4, <2>5 DEF FilesInv
  <2>12. PointerInv'
    <3>1. ASSUME NEW t \in Scripts \ {s} PROVE PointerOK(t)'
      <4>1. PointerOK(t) /\ scripts[t] \in ScriptRecord
        BY DEF PointerInv, TablesType
      <4>2. scripts[t].current <= r
        BY <2>2, <4>1, <1>1 DEF PointerOK, ScriptRecord
      <4> QED
        BY <1>2, <2>1, <2>5, <2>6, <2>7, <4>1, <4>2 DEF PointerOK
    <3>2. PointerOK(s)'
      <4>1. PointerOK(s)
        BY <1>4 DEF PointerInv
      <4>2. r <= created' /\ scripts[s].state # "new"
        BY <2>1, <2>2, <2>8 DEF GetScriptInfo
      <4> QED
        BY <1>2, <2>4, <2>5, <2>6, <2>7, <4>1, <4>2 DEF PointerOK
    <3> QED
      BY <3>1, <3>2 DEF PointerInv
  <2>13. \A t \in Scripts \ {s} : Declared(t)' = Declared(t) /\ (t \in ListScripts' <=> t \in ListScripts)
    <3>1. ASSUME NEW t \in Scripts \ {s} PROVE Current(t) # r /\ Current(t)' = Current(t)
      <4>1. PointerOK(t) /\ scripts[t] \in ScriptRecord
        BY DEF PointerInv, TablesType
      <4> QED
        BY <2>2, <2>7, <4>1 DEF PointerOK, Current, ScriptRecord
    <3> QED
      BY <2>5, <2>7, <3>1 DEF Declared, ListScripts, GetScriptInfo
  <2>14. Declared(s)' = b.contract
    BY <2>4, <2>5, <2>7 DEF Declared, Current
  <2>15. OwnerInv'
    <3> SUFFICES ASSUME NEW x \in ListScripts' \ unchecked', NEW y \in ListScripts' \ unchecked', x # y,
                        NEW d \in Declared(x)', d \in Declared(y)', d[1] \in SingleOwner
                 PROVE  FALSE
      BY DEF OwnerInv, Apart
    <3>1. x \in Scripts /\ y \in Scripts
      BY DEF ListScripts
    <3>2. CASE x # s /\ y # s
      <4>1. x \in ListScripts \ unchecked /\ y \in ListScripts \ unchecked
        BY <2>1, <2>13, <3>1, <3>2
      <4> QED
        BY <2>13, <3>1, <3>2, <4>1 DEF OwnerInv, Apart
    <3>3. ASSUME s \notin unchecked', NEW t \in ListScripts' \ {s}, t \in Scripts,
                 d \in b.contract, d \in Declared(t)'
          PROVE  FALSE
      <4>1. ~Conflicts(s, b.contract)
        BY <1>1, <1>4, <2>1, <3>3
      <4>2. t \in ListScripts \ {s} /\ d \in Declared(t)
        BY <2>13, <3>3
      <4> QED
        BY <3>3, <4>1, <4>2 DEF Conflicts
    <3> QED
      BY <2>14, <3>1, <3>2, <3>3
  <2> QED
    BY <2>9, <2>10, <2>11, <2>12, <2>15
<1> QED
  BY <1>5, <1>6

\* The pointer of s moves, on reads that may be stale, and revisions of s may go.
LEMMA MoveKeeps ==
  ASSUME ServiceInv, NEW h \in Handlers, NEW s \in Scripts, NEW D,
         Ends(h), Overtakes(h), Pointed(h, s), unchecked' = unchecked \cup {s},
         UNCHANGED <<blobs, created>>,
         scripts' \in [Scripts -> ScriptRecord], \A t \in Scripts \ {s} : scripts'[t] = scripts[t],
         DOMAIN revisions' = DOMAIN revisions \ D,
         \A q \in DOMAIN revisions' : revisions'[q] = revisions[q],
         revisions' = [q \in DOMAIN revisions' |-> revisions'[q]],
         \A q \in DOMAIN revisions : q \in D => revisions[q].script = s,
         aliases' \in [Scripts -> Nat],
         \A t \in Scripts : aliases'[t] = 0 \/ (aliases'[t] = aliases[t] /\ aliases[t] \notin D),
         scripts'[s].current <= created,
         scripts'[s].state = "new" => scripts'[s].current = 0,
         /\ scripts'[s].state = "live" /\ h \notin stale /\ scripts'[s].current # 0 =>
              scripts'[s].current \in DOMAIN revisions' /\ revisions'[scripts'[s].current].script = s
  PROVE  ServiceInv'
<1> USE DEF ServiceInv
<1>0. created \in Nat /\ created <= created' /\ created' \in Nat
  BY DEF TablesType
<1>1. rpc' \in [Handlers -> RpcRecord] /\ RpcInv'
  BY <1>0, CommitKeeps
<1>2. TablesType'
  <2>1. \A q \in DOMAIN revisions' : revisions'[q] \in RevisionRecord
    BY DEF TablesType
  <2>2. revisions' \in [DOMAIN revisions' -> RevisionRecord]
    BY <2>1
  <2> QED
    BY <1>1, <2>2 DEF TablesType
<1>3. FilesInv'
  BY DEF FilesInv
<1>4. PointerInv'
  <2>1. ASSUME NEW t \in Scripts
        PROVE  aliases'[t] # 0 => aliases'[t] \in DOMAIN revisions' /\ revisions'[aliases'[t]].script = t
    <3>1. PointerOK(t)
      BY DEF PointerInv
    <3> QED
      BY <2>1, <3>1 DEF PointerOK
  <2>2. ASSUME NEW t \in Scripts \ {s} PROVE PointerOK(t)'
    <3>1. PointerOK(t) /\ scripts'[t] = scripts[t] /\ (t \in raced <=> t \in raced')
      BY DEF PointerInv, Pointed
    <3> QED
      BY <2>1, <3>1 DEF PointerOK
  <2>3. PointerOK(s)'
    <3>1. s \in raced' <=> h \in stale
      BY DEF Pointed
    <3> QED
      BY <2>1, <3>1 DEF PointerOK
  <2> QED
    BY <2>2, <2>3 DEF PointerInv
<1>5. OwnerInv'
  <2>1. ASSUME NEW t \in ListScripts' \ unchecked'
        PROVE  t \in ListScripts \ unchecked /\ Declared(t)' \subseteq Declared(t)
    <3>1. t \in Scripts \ {s}
      BY DEF ListScripts
    <3>2. t \in ListScripts \ unchecked /\ Current(t)' = Current(t)
      BY <3>1 DEF ListScripts, GetScriptInfo, Current
    <3> QED
      BY <3>2, DeclaredBy
  <2> QED
    BY <2>1, OwnersKeep
<1> QED
  BY <1>1, <1>2, <1>3, <1>4, <1>5

LEMMA PointScriptInv ==
  ASSUME ServiceInv, NEW h \in Handlers, PointScript(h)
  PROVE  ServiceInv'
<1> USE DEF ServiceInv
<1>1. PICK s, r, v, f : v = rpc[h] /\ f = (h \notin stale) /\ s = v.script /\ r = v.target
  OBVIOUS
<1>2. /\ v.op = "point" /\ Ends(h) /\ Overtakes(h) /\ Pointed(h, s)
      /\ unchecked' = unchecked \cup {s} /\ UNCHANGED <<revisions, aliases, blobs, created>>
      /\ scripts' = IF GetScriptInfo(s) THEN [scripts EXCEPT ![s].current = r] ELSE scripts
  BY <1>1 DEF PointScript
<1>3. Knows(v, f)
  BY <1>1 DEF RpcInv
<1>4. s \in Scripts /\ OfScript(r, s) /\ (f /\ r # 0 => r \in DOMAIN revisions)
  BY <1>1, <1>2, <1>3 DEF Knows
<1>5. r \in Nat /\ r <= created /\ (r \in DOMAIN revisions => revisions[r].script = s)
  BY <1>4 DEF OfScript, TablesType
<1>6. PointerOK(s) /\ scripts[s] \in ScriptRecord
  BY <1>4 DEF PointerInv, TablesType
<1>7. /\ scripts' \in [Scripts -> ScriptRecord] /\ \A t \in Scripts \ {s} : scripts'[t] = scripts[t]
      /\ GetScriptInfo(s) => scripts'[s].current = r /\ scripts'[s].state = "live"
      /\ ~GetScriptInfo(s) => scripts'[s] = scripts[s] /\ scripts'[s].state # "live"
  <2>1. CASE ~GetScriptInfo(s)
    BY <1>2, <2>1 DEF TablesType, GetScriptInfo
  <2>2. CASE GetScriptInfo(s)
    <3>1. scripts' = [scripts EXCEPT ![s].current = r]
      BY <1>2, <2>2
    <3> QED
      BY <1>4, <1>5, <1>6, <2>2, <3>1 DEF TablesType, ScriptRecord, GetScriptInfo
  <2> QED
    BY <2>1, <2>2
<1>8. PICK D : D = {}
  OBVIOUS
<1>9. /\ DOMAIN revisions' = DOMAIN revisions \ D
      /\ \A q \in DOMAIN revisions' : revisions'[q] = revisions[q]
      /\ revisions' = [q \in DOMAIN revisions' |-> revisions'[q]]
      /\ \A q \in DOMAIN revisions : q \in D => revisions[q].script = s
      /\ aliases' \in [Scripts -> Nat]
      /\ \A t \in Scripts : aliases'[t] = 0 \/ (aliases'[t] = aliases[t] /\ aliases[t] \notin D)
  BY <1>2, <1>8 DEF TablesType
<1>10. /\ scripts'[s].current <= created
       /\ scripts'[s].state = "new" => scripts'[s].current = 0
  BY <1>5, <1>6, <1>7 DEF PointerOK
<1>11. scripts'[s].state = "live" /\ h \notin stale /\ scripts'[s].current # 0 =>
          scripts'[s].current \in DOMAIN revisions' /\ revisions'[scripts'[s].current].script = s
  BY <1>1, <1>2, <1>4, <1>5, <1>7
<1> QED
  BY <1>2, <1>4, <1>7, <1>9, <1>10, <1>11, MoveKeeps

LEMMA RepointInv ==
  ASSUME ServiceInv, NEW h \in Handlers, Repoint(h)
  PROVE  ServiceInv'
<1> USE DEF ServiceInv
<1>1. PICK s, r, rev, v, f :
        v = rpc[h] /\ f = (h \notin stale) /\ s = v.script /\ r = v.target /\ rev = v.rev
  OBVIOUS
<1>2. v.op = "repoint" /\ Ends(h) /\ UNCHANGED <<blobs, created>>
  BY <1>1 DEF Repoint
<1>3. Knows(v, f)
  BY <1>1 DEF RpcInv
<1>4. /\ s \in Scripts /\ OfScript(rev, s) /\ (r # 0 => OfScript(r, s) /\ r # rev)
      /\ f /\ r # 0 => r \in DOMAIN revisions
  BY <1>1, <1>2, <1>3 DEF Knows
<1>5. CASE ~GetScriptInfo(s)
  <2>1. UNCHANGED <<scripts, revisions, aliases, stale, raced, unchecked>>
    BY <1>1, <1>5 DEF Repoint, history
  <2> QED
    BY <1>2, <2>1, EndKeeps DEF SameTables
<1>6. CASE GetScriptInfo(s)
  <2>1. /\ scripts' = [scripts EXCEPT ![s].current = r]
        /\ revisions' = [q \in DOMAIN revisions \ {rev} |-> revisions[q]]
        /\ aliases' = [t \in Scripts |-> IF aliases[t] = rev THEN 0 ELSE aliases[t]]
        /\ Overtakes(h) /\ Pointed(h, s) /\ unchecked' = unchecked \cup {s}
    BY <1>1, <1>6 DEF Repoint
  <2>2. r \in Nat
    <3>1. v \in RpcRecord
      BY <1>1 DEF TablesType
    <3> QED
      BY <1>1, <3>1, RpcFields
  <2>3. r <= created /\ (r \in DOMAIN revisions => revisions[r].script = s)
    <3>1. created \in Nat /\ DOMAIN revisions \subseteq 1..created
      BY DEF TablesType
    <3> QED
      BY <1>4, <2>2, <3>1 DEF OfScript
  <2>4. /\ scripts' \in [Scripts -> ScriptRecord] /\ \A t \in Scripts \ {s} : scripts'[t] = scripts[t]
        /\ scripts'[s].current = r /\ scripts'[s].state = "live"
    BY <1>4, <1>6, <2>1, <2>2 DEF TablesType, ScriptRecord, GetScriptInfo
  <2>5. PICK D : D = {rev}
    OBVIOUS
  <2>6. /\ DOMAIN revisions' = DOMAIN revisions \ D
        /\ \A q \in DOMAIN revisions' : revisions'[q] = revisions[q]
        /\ revisions' = [q \in DOMAIN revisions' |-> revisions'[q]]
        /\ \A q \in DOMAIN revisions : q \in D => revisions[q].script = s
    BY <1>4, <2>1, <2>5 DEF OfScript
  <2>7. /\ aliases' \in [Scripts -> Nat]
        /\ \A t \in Scripts : aliases'[t] = 0 \/ (aliases'[t] = aliases[t] /\ aliases[t] \notin D)
    BY <2>1, <2>5 DEF TablesType
  <2>8. /\ scripts'[s].current <= created
        /\ scripts'[s].state = "new" => scripts'[s].current = 0
    BY <2>3, <2>4
  <2>9. scripts'[s].state = "live" /\ h \notin stale /\ scripts'[s].current # 0 =>
          scripts'[s].current \in DOMAIN revisions' /\ revisions'[scripts'[s].current].script = s
    BY <1>1, <1>4, <2>3, <2>4, <2>5, <2>6, ZenonT(60)
  <2> QED
    BY <1>2, <1>4, <2>1, <2>4, <2>6, <2>7, <2>8, <2>9, MoveKeeps
<1> QED
  BY <1>5, <1>6

LEMMA UpsertAliasInv ==
  ASSUME ServiceInv, NEW h \in Handlers, UpsertAlias(h)
  PROVE  ServiceInv'
<1> USE DEF ServiceInv
<1>1. PICK s, r, v, f : v = rpc[h] /\ f = (h \notin stale) /\ s = v.script /\ r = v.target
  OBVIOUS
<1>2. /\ v.op = "alias" /\ Ends(h)
      /\ UNCHANGED <<scripts, revisions, blobs, created, stale, raced, unchecked>>
      /\ aliases' = IF r \in DOMAIN revisions THEN [aliases EXCEPT ![s] = r] ELSE aliases
  BY <1>1 DEF UpsertAlias, history, GetDbRevision
<1>3. Knows(v, f)
  BY <1>1 DEF RpcInv
<1>4. s \in Scripts /\ OfScript(r, s)
  BY <1>1, <1>2, <1>3 DEF Knows
<1>5. CASE r \notin DOMAIN revisions
  BY <1>2, <1>5, EndKeeps DEF SameTables
<1>6. CASE r \in DOMAIN revisions
  <2>1. aliases' = [aliases EXCEPT ![s] = r] /\ r \in Nat /\ revisions[r].script = s
    BY <1>2, <1>4, <1>6 DEF OfScript, TablesType
  <2>2. rpc' \in [Handlers -> RpcRecord] /\ rpc'[h] = Idle
        /\ \A g \in Handlers \ {h} : rpc'[g] = rpc[g]
    BY <1>2, IdleRecord DEF TablesType, Ends
  <2>3. TablesType'
    BY <1>2, <2>1, <2>2 DEF TablesType
  <2>4. RpcInv'
    <3> SUFFICES ASSUME NEW g \in Handlers PROVE Knows(rpc[g], g \notin stale)'
      BY DEF RpcInv
    <3>1. PICK w, fresh : w = rpc'[g] /\ fresh = (g \notin stale')
      OBVIOUS
    <3>2. Knows(w, fresh)
      BY <1>2, <2>2, <3>1, IdleRecord DEF RpcInv
    <3>3. Knows(w, fresh)'
      BY <1>2, <3>2, KnowsStill
    <3> QED
      BY <3>1, <3>3
  <2>5. PointerInv'
    BY <1>2, <1>6, <2>1 DEF PointerInv, PointerOK, TablesType
  <2>6. FilesInv' /\ OwnerInv'
    BY <1>2 DEF FilesInv, OwnerInv, Apart, Declared, Current, ListScripts, GetScriptInfo
  <2> QED
    BY <2>3, <2>4, <2>5, <2>6
<1> QED
  BY <1>5, <1>6

LEMMA FailsInv ==
  ASSUME ServiceInv, NEW h \in Handlers, Fails(h)
  PROVE  ServiceInv'
<1>1. SameTables /\ blobs' = blobs /\ stale' = stale /\ Ends(h)
  BY DEF Fails, SameTables, tables, history
<1> QED
  BY <1>1, EndKeeps

\* Where instances are placed is read by no pointer and no contract.
LEMMA SameService ==
  ASSUME ServiceInv, UNCHANGED <<scripts, revisions, aliases, blobs, created, rpc, stale, history>>
  PROVE  ServiceInv'
<1> USE DEF ServiceInv, history
<1>1. TablesType' /\ FilesInv' /\ PointerInv'
  BY DEF TablesType, FilesInv, PointerInv, PointerOK
<1>2. OwnerInv'
  BY DEF OwnerInv, Apart, Declared, Current, ListScripts, GetScriptInfo
<1>3. RpcInv'
  <2> SUFFICES ASSUME NEW g \in Handlers PROVE Knows(rpc[g], g \notin stale)'
    BY DEF RpcInv
  <2>1. PICK w, fresh : w = rpc[g] /\ fresh = (g \notin stale)
    OBVIOUS
  <2>2. Knows(w, fresh)
    BY <2>1 DEF RpcInv
  <2>3. Knows(w, fresh)'
    BY <2>2, KnowsStill
  <2>4. w = rpc'[g] /\ fresh = (g \notin stale')
    BY <2>1
  <2> QED
    BY <2>3, <2>4
<1> QED
  BY <1>1, <1>2, <1>3

LEMMA InitService ==
  ASSUME ServiceInit PROVE ServiceInv
<1> USE DEF ServiceInit
<1>1. rpc \in [Handlers -> RpcRecord] /\ \A h \in Handlers : rpc[h] = Idle
  BY IdleRecord
<1>2. DOMAIN revisions = {}
  <2>1. revisions = <<>> /\ DOMAIN <<>> = {}
    OBVIOUS
  <2> QED
    BY <2>1
<1>3. TablesType
  <2>1. scripts \in [Scripts -> ScriptRecord] /\ aliases \in [Scripts -> Nat] /\ created \in Nat
    BY DEF ScriptRecord
  <2>2. revisions \in [DOMAIN revisions -> RevisionRecord]
    BY <1>2
  <2> QED
    BY <1>1, <1>2, <2>1, <2>2 DEF TablesType
<1>4. RpcInv
  BY <1>1, IdleRecord DEF RpcInv
<1>5. FilesInv
  BY <1>2 DEF FilesInv
<1>6. PointerInv
  BY DEF PointerInv, PointerOK
<1>7. OwnerInv
  BY DEF OwnerInv, ListScripts, GetScriptInfo
<1> QED
  BY <1>3, <1>4, <1>5, <1>6, <1>7 DEF ServiceInv

LEMMA ServiceStep ==
  ASSUME ServiceInv, [ServiceNext]_service
  PROVE  ServiceInv'
<1>1. CASE UNCHANGED service
  BY <1>1, SameService DEF service, tables
<1>2. ASSUME NEW h \in Handlers, NEW s \in Scripts,
             \/ CreateScript(h, s) \/ DeleteScript(h, s)
             \/ \E contract \in Contracts, hash \in Hashes, inline \in BOOLEAN :
                  Publish(h, s, contract, hash, inline)
             \/ \E r \in 1..created : SetScriptRevision(h, s, r) \/ SetAlias(h, s, r)
      PROVE  ServiceInv'
  <2>1. CASE CreateScript(h, s)
    BY <2>1, CreateScriptInv
  <2>2. CASE DeleteScript(h, s)
    BY <2>2, RemoveInv DEF DeleteScript
  <2>3. CASE \E contract \in Contracts, hash \in Hashes, inline \in BOOLEAN :
               Publish(h, s, contract, hash, inline)
    BY <2>3, PublishInv
  <2>4. CASE \E r \in 1..created : SetScriptRevision(h, s, r) \/ SetAlias(h, s, r)
    BY <2>4, TargetInv
  <2> QED
    BY <1>2, <2>1, <2>2, <2>3, <2>4
<1>3. ASSUME NEW h \in Handlers, \/ InsertScript(h) \/ DeleteProject(h) \/ RefuseContractConflicts(h)
                                 \/ StoreBlobs(h) \/ InsertRevision(h) \/ PointScript(h)
      PROVE  ServiceInv'
  <2>1. CASE DeleteProject(h)
    <3>1. ListScripts \in SUBSET Scripts
      BY DEF ListScripts
    <3> QED
      BY <2>1, <3>1, RemoveInv DEF DeleteProject
  <2> QED
    BY <1>3, <2>1, InsertScriptInv, RefuseInv, StoreBlobsInv, InsertRevisionInv, PointScriptInv
<1>4. ASSUME NEW h \in Handlers, \/ (\E r \in 1..created : DeleteRevision(h, r))
                                 \/ DeleteRow(h) \/ SelectOldest(h) \/ Repoint(h)
                                 \/ UpsertAlias(h) \/ Fails(h)
      PROVE  ServiceInv'
  BY <1>4, DeleteRevisionInv, DeleteRowInv, SelectOldestInv, RepointInv, UpsertAliasInv, FailsInv
<1>5. ASSUME NEW name \in Names, RecordInstance("queue", name)
      PROVE  ServiceInv'
  BY <1>5, SameService DEF RecordInstance
<1> QED
  BY <1>1, <1>2, <1>3, <1>4, <1>5 DEF ServiceNext

--------------------------------------------------------------------------------
(* The theorems.                                                               *)

\* What each handler of the script service under way knows, and the tables: the
\* invariant that the two theorems below rest on.
THEOREM AlwaysService == ServiceSpec => []ServiceInv
  BY InitService, ServiceStep, PTL DEF ServiceSpec

\* Whatever handlers of script_service.rs overlap, a script's alias, and its
\* current revision unless the pointer was written on overtaken reads, is a
\* revision of its own, with every file stored.
THEOREM PointersResolve == ServiceSpec => []CurrentResolves
<1>1. ASSUME ServiceInv PROVE CurrentResolves
  <2>1. ASSUME NEW s \in ListScripts
        PROVE  /\ s \notin raced /\ Current(s) # 0 =>
                    GetRevision(Current(s)) /\ revisions[Current(s)].script = s
               /\ GetAlias(s) # 0 => GetRevision(GetAlias(s)) /\ revisions[GetAlias(s)].script = s
    <3>1. PointerOK(s) /\ scripts[s].state = "live"
      BY <1>1 DEF ServiceInv, PointerInv, ListScripts, GetScriptInfo
    <3>2. \A r \in DOMAIN revisions : GetRevision(r)
      BY <1>1 DEF ServiceInv, FilesInv, GetRevision, GetDbRevision, MissingBlobs
    <3> QED
      BY <3>1, <3>2 DEF PointerOK, Current, GetAlias
  <2> QED
    BY <2>1 DEF CurrentResolves
<1> QED
  BY <1>1, AlwaysService, PTL

\* Publishing (refuse_contract_conflicts) keeps a queue's consumer, a workflow and
\* a class with one script of the project each, except where a pointer moved with
\* no look at the contracts of others, or on a look that was overtaken.
THEOREM OwnersUnique == ServiceSpec => []OneOwner
<1>1. ASSUME ServiceInv PROVE OneOwner
  <2> SUFFICES ASSUME NEW form \in SingleOwner, NEW name \in Names
               PROVE  Cardinality(Declarers(form, name) \ unchecked) <= 1
    BY DEF OneOwner
  <2>1. PICK S : S = Declarers(form, name) \ unchecked
    OBVIOUS
  <2>2. ASSUME NEW s \in S, NEW t \in S PROVE s = t
    <3>1. s \in ListScripts \ unchecked /\ t \in ListScripts \ unchecked
          /\ <<form, name>> \in Declared(s) /\ <<form, name>> \in Declared(t)
      BY <2>1 DEF Declarers
    <3>2. s # t => Apart(s, t)
      BY <1>1, <3>1 DEF ServiceInv, OwnerInv
    <3>3. <<form, name>>[1] \in SingleOwner
      OBVIOUS
    <3> QED
      BY <3>1, <3>2, <3>3 DEF Apart
  <2>3. CASE S = {}
    BY <2>1, <2>3, FS_EmptySet
  <2>4. CASE S # {}
    <3>1. PICK s : s \in S
      BY <2>4
    <3>2. S = {s}
      BY <2>2, <3>1
    <3>3. Cardinality({s}) = 1
      BY FS_Singleton, Zenon
    <3> QED
      BY <2>1, <3>2, <3>3
  <2> QED
    BY <2>3, <2>4
<1> QED
  BY <1>1, AlwaysService, PTL

--------------------------------------------------------------------------------
(* Nodes, leases and epochs.                                                    *)

\* A running handler speaks as a real id, and has read a real holder by the time
\* it reaches the epoch.
ClaimOK ==
  \A c \in Calls :
    /\ claim[c].pc # "idle" => claim[c].node \in NodeIds
    /\ claim[c].pc = "epoch" => claim[c].holder \in NodeIds

\* The strengthening under which every invariant of the module is inductive: the
\* types need ClaimOK (a grant copies a handler's locals), and the distinctness
\* of fresh epochs needs the bound of GrantsBehindEpoch.
IInv ==
  TypeOK /\ ClaimOK /\ HolderRegistered /\ GrantsBehindEpoch /\ FreshEpochsDistinct

USE PlacementAssumption

\* Deleting node rows, with its cascade, keeps the three tables typed and leaves
\* no lease of a deleted node.
LEMMA DeleteKeeps ==
  ASSUME TypeOK, HolderRegistered, NEW gone \in SUBSET NodeIds, DeleteNodes(gone)
  PROVE  /\ nodes' \subseteq nodes
         /\ age' \in [NodeIds -> 0..Ttl]
         /\ leases' \in [Objects -> NodeIds \cup {NoNode}]
         /\ \A o \in Objects : leases'[o] # NoNode => leases'[o] \in nodes'
  BY DEF TypeOK, HolderRegistered, DeleteNodes

\* An idle claim is a claim.
LEMMA IdleIsClaim ==
  ASSUME NEW o \in Objects
  PROVE  IdleClaim(o) \in Claim /\ IdleClaim(o).pc = "idle"
  BY DEF IdleClaim, Claim

\* Init establishes the inductive invariant.
LEMMA InitIInv == Init => IInv
<1> SUFFICES ASSUME Init PROVE IInv
  OBVIOUS
<1>1. \A c \in Calls : claim[c] \in Claim /\ claim[c].pc = "idle"
  BY IdleIsClaim DEF Init
<1>2. claim \in [Calls -> Claim]
  BY <1>1 DEF Init
<1>3. TypeOK
  BY <1>2 DEF Init, TypeOK
<1>4. ClaimOK
  BY <1>1 DEF ClaimOK
<1>5. HolderRegistered /\ GrantsBehindEpoch /\ FreshEpochsDistinct
  BY DEF Init, HolderRegistered, GrantsBehindEpoch, FreshEpochsDistinct
<1> QED
  BY <1>3, <1>4, <1>5 DEF IInv

\* A handler that ends keeps the handlers typed.
LEMMA ClaimEnds ==
  ASSUME TypeOK, ClaimOK, NEW c \in Calls, NEW o \in Objects,
         claim' = [claim EXCEPT ![c] = IdleClaim(o)]
  PROVE  claim' \in [Calls -> Claim] /\ ClaimOK'
  BY IdleIsClaim DEF TypeOK, ClaimOK

\* What a step that answers no claim leaves alone.
LEMMA QuietKeeps ==
  ASSUME IInv, UNCHANGED <<epochs, claim, grants>>
  PROVE  /\ claim' \in [Calls -> Claim] /\ ClaimOK'
         /\ GrantsBehindEpoch' /\ FreshEpochsDistinct'
  BY DEF IInv, TypeOK, ClaimOK, GrantsBehindEpoch, FreshEpochsDistinct

\* Reaping deletes registered rows only.
LEMMA ReapKeeps ==
  ASSUME TypeOK, HolderRegistered, Reap
  PROVE  /\ nodes' \subseteq nodes
         /\ age' \in [NodeIds -> 0..Ttl]
         /\ leases' \in [Objects -> NodeIds \cup {NoNode}]
         /\ HolderRegistered'
<1> DEFINE gone == {n \in nodes : age[n] >= Ttl}
<1>1. gone \in SUBSET NodeIds
  BY DEF TypeOK
<1>2. DeleteNodes(gone)
  BY DEF Reap
<1> HIDE DEF gone
<1> QED
  BY <1>1, <1>2, DeleteKeeps DEF HolderRegistered

\* The steps of membership preserve the inductive invariant.
LEMMA MembershipIInv ==
  ASSUME IInv, Membership
  PROVE  IInv'
<1> USE DEF IInv
<1>1. CASE Tick
  <2>1. age' \in [NodeIds -> 0..Ttl]
    BY <1>1 DEF Tick, TypeOK
  <2>2. TypeOK' /\ HolderRegistered'
    BY <1>1, <2>1, QuietKeeps DEF Tick, TypeOK, HolderRegistered, membership
  <2> QED
    BY <1>1, <2>2, QuietKeeps DEF Tick
<1>2. CASE ReapingRead
  <2>1. UNCHANGED <<epochs, claim, grants, directory, issued, up, identity, beating>> /\ Reap
    BY <1>2 DEF ReapingRead, membership
  <2>2. TypeOK' /\ HolderRegistered'
    BY <2>1, ReapKeeps, QuietKeeps DEF TypeOK
  <2> QED
    BY <2>1, <2>2, QuietKeeps
<1>3. ASSUME NEW w \in Workers, Register(w) \/ RegisterLost(w)
      PROVE  IInv'
  <2>1. PICK n \in NodeIds \ issued :
          /\ nodes' = nodes \cup {n} /\ issued' = issued \cup {n}
          /\ age' = [age EXCEPT ![n] = 0]
          /\ \/ identity' = [identity EXCEPT ![w] = n] /\ beating' = [beating EXCEPT ![w] = TRUE]
             \/ UNCHANGED <<identity, beating>>
    BY <1>3 DEF Register, RegisterLost, membership
  <2>2. UNCHANGED <<leases, epochs, directory, up, claim, grants>>
    BY <1>3 DEF Register, RegisterLost, membership
  <2>3. age' \in [NodeIds -> 0..Ttl] /\ issued' \subseteq NodeIds /\ nodes' \subseteq issued'
    BY <2>1 DEF TypeOK
  <2>4. identity' \in [Workers -> issued' \cup {NoNode}] /\ beating' \in [Workers -> BOOLEAN]
    BY <2>1 DEF TypeOK
  <2>5. TypeOK' /\ HolderRegistered'
    BY <2>1, <2>2, <2>3, <2>4 DEF TypeOK, HolderRegistered
  <2> QED
    BY <2>2, <2>5, QuietKeeps
<1>4. ASSUME NEW w \in Workers, Heartbeat(w) \/ HeartbeatRefused(w)
      PROVE  IInv'
  <2>1. UNCHANGED <<nodes, leases, epochs, directory, issued, up, identity, claim, grants>>
    BY <1>4 DEF Heartbeat, HeartbeatRefused, membership
  <2>2. age' = [age EXCEPT ![identity[w]] = 0] \/ age' = age
    BY <1>4 DEF Heartbeat, HeartbeatRefused
  <2>3. age \in [NodeIds -> 0..Ttl] /\ 0 \in 0..Ttl
    BY DEF TypeOK
  <2>4. age' \in [NodeIds -> 0..Ttl]
    BY <2>2, <2>3
  <2>5. beating' \in [Workers -> BOOLEAN]
    BY <1>4 DEF Heartbeat, HeartbeatRefused, membership, TypeOK
  <2>6. TypeOK' /\ HolderRegistered'
    BY <2>1, <2>4, <2>5 DEF TypeOK, HolderRegistered
  <2> QED
    BY <2>1, <2>6, QuietKeeps
<1>5. ASSUME NEW w \in Workers, Shutdown(w)
      PROVE  IInv'
  <2>1. UNCHANGED <<epochs, directory, issued, identity, beating, claim, grants>>
    BY <1>5 DEF Shutdown
  <2>2. up' \in [Workers -> {"up", "draining", "down"}]
    BY <1>5 DEF Shutdown, TypeOK
  <2>3. /\ nodes' \subseteq nodes /\ age' \in [NodeIds -> 0..Ttl]
        /\ leases' \in [Objects -> NodeIds \cup {NoNode}] /\ HolderRegistered'
    <3>1. CASE DeleteNodes({identity[w]} \cap NodeIds)
      <4> DEFINE gone == {identity[w]} \cap NodeIds
      <4>1. gone \in SUBSET NodeIds /\ DeleteNodes(gone)
        BY <3>1
      <4> HIDE DEF gone
      <4> QED
        BY <4>1, DeleteKeeps DEF HolderRegistered
    <3>2. CASE UNCHANGED <<nodes, age, leases>>
      BY <3>2 DEF TypeOK, HolderRegistered
    <3> QED
      BY <1>5, <3>1, <3>2 DEF Shutdown
  <2>4. TypeOK'
    BY <2>1, <2>2, <2>3 DEF TypeOK
  <2> QED
    BY <2>1, <2>3, <2>4, QuietKeeps
<1>6. ASSUME NEW w \in Workers, Exit(w) \/ Restart(w)
      PROVE  IInv'
  <2>1. UNCHANGED <<nodes, age, leases, epochs, directory, issued, claim, grants>>
    BY <1>6 DEF Exit, Restart
  <2>2. /\ up' \in [Workers -> {"up", "draining", "down"}]
        /\ identity' \in [Workers -> issued \cup {NoNode}]
        /\ beating' \in [Workers -> BOOLEAN]
    BY <1>6 DEF Exit, Restart, TypeOK
  <2>3. TypeOK' /\ HolderRegistered'
    BY <2>1, <2>2 DEF TypeOK, HolderRegistered
  <2> QED
    BY <2>1, <2>3, QuietKeeps
<1> QED
  BY <1>1, <1>2, <1>3, <1>4, <1>5, <1>6 DEF Membership

\* The statements of a claim preserve the inductive invariant.
LEMMA ClaimIInv ==
  ASSUME IInv, NEW c \in Calls,
         \/ \E w \in Workers, o \in Objects : AcquireLease(c, w, o)
         \/ ClaimStatement(c)
         \/ ClaimAbort(c)
  PROVE  IInv'
<1> USE DEF IInv
<1>0. claim[c] \in Claim /\ claim[c].obj \in Objects
  BY DEF TypeOK, Claim
<1>1. ASSUME NEW w \in Workers, NEW o \in Objects, AcquireLease(c, w, o)
      PROVE  IInv'
  <2>1. /\ UNCHANGED <<epochs, directory, issued, up, identity, beating, grants>>
        /\ Reap
    BY <1>1 DEF AcquireLease, membership
  <2> DEFINE k == [IdleClaim(o) EXCEPT !.pc = "insert", !.node = identity[w]]
  <2>2. k \in Claim /\ k.pc = "insert" /\ k.node \in NodeIds
    BY <1>1 DEF AcquireLease, IdleClaim, Claim, TypeOK
  <2>3. claim' = [claim EXCEPT ![c] = k]
    BY <1>1 DEF AcquireLease
  <2> HIDE DEF k
  <2>4. claim' \in [Calls -> Claim] /\ ClaimOK'
    BY <2>2, <2>3 DEF TypeOK, ClaimOK
  <2>5. TypeOK' /\ HolderRegistered'
    BY <2>1, <2>4, ReapKeeps DEF TypeOK
  <2>6. GrantsBehindEpoch' /\ FreshEpochsDistinct'
    BY <2>1 DEF GrantsBehindEpoch, FreshEpochsDistinct
  <2> QED
    BY <2>4, <2>5, <2>6
<1>2. CASE ClaimInsert(c)
  <2>1. UNCHANGED <<nodes, age, epochs, directory, issued, up, identity, beating, grants>>
    BY <1>2 DEF ClaimInsert, membership
  <2>2. claim' \in [Calls -> Claim] /\ ClaimOK'
    BY <1>0, <1>2 DEF ClaimInsert, TypeOK, ClaimOK, Claim
  <2>3. leases' \in [Objects -> NodeIds \cup {NoNode}] /\ HolderRegistered'
    BY <1>0, <1>2 DEF ClaimInsert, TypeOK, HolderRegistered
  <2>4. TypeOK'
    BY <2>1, <2>2, <2>3 DEF TypeOK
  <2>5. GrantsBehindEpoch' /\ FreshEpochsDistinct'
    BY <2>1 DEF GrantsBehindEpoch, FreshEpochsDistinct
  <2> QED
    BY <2>2, <2>3, <2>4, <2>5
<1>3. CASE ClaimSelect(c)
  <2>1. UNCHANGED <<nodes, age, leases, epochs, issued, up, identity, beating, grants>>
    BY <1>3 DEF ClaimSelect, membership
  <2>2. leases[claim[c].obj] \in NodeIds
    BY <1>0, <1>3 DEF ClaimSelect, TypeOK
  <2>3. claim' \in [Calls -> Claim] /\ ClaimOK'
    BY <1>0, <1>3, <2>2 DEF ClaimSelect, TypeOK, ClaimOK, Claim
  <2>4. directory' \subseteq Objects
    BY <1>0, <1>3 DEF ClaimSelect, TypeOK
  <2>5. TypeOK' /\ HolderRegistered'
    BY <2>1, <2>3, <2>4 DEF TypeOK, HolderRegistered
  <2>6. GrantsBehindEpoch' /\ FreshEpochsDistinct'
    BY <2>1 DEF GrantsBehindEpoch, FreshEpochsDistinct
  <2> QED
    BY <2>3, <2>5, <2>6
<1>4. CASE ClaimEpoch(c)
  <2> DEFINE k == claim[c]
             e == AnsweredEpoch(k)
             g == [obj |-> k.obj, node |-> k.node, holder |-> k.holder,
                   epoch |-> e, fresh |-> k.fresh]
  <2>1. UNCHANGED <<nodes, age, leases, directory, issued, up, identity, beating>>
    BY <1>4 DEF ClaimEpoch, membership
  <2>2. claim' \in [Calls -> Claim] /\ ClaimOK'
    BY <1>0, <1>4, ClaimEnds DEF ClaimEpoch
  <2>3. epochs[k.obj] \in Nat /\ k.fresh \in BOOLEAN
    BY <1>0 DEF TypeOK, Claim
  <2>4. /\ e \in Nat
        /\ k.fresh => e = epochs[k.obj] + 1
        /\ ~k.fresh => e <= epochs[k.obj] \/ e = 1
    BY <2>3 DEF AnsweredEpoch
  <2>5. k.node \in NodeIds /\ k.holder \in NodeIds
    BY <1>4 DEF ClaimEpoch, ClaimOK
  <2>6. g \in [obj : Objects, node : NodeIds, holder : NodeIds, epoch : Nat, fresh : BOOLEAN]
    BY <1>0, <2>3, <2>4, <2>5
  <2>7. grants' \subseteq grants \cup {g}
    BY <1>4 DEF ClaimEpoch
  <2>8. epochs' = IF k.fresh THEN [epochs EXCEPT ![k.obj] = e] ELSE epochs
    BY <1>4 DEF ClaimEpoch
  <2> HIDE DEF e
  <2>9. /\ epochs' \in [Objects -> Nat]
        /\ \A o \in Objects : epochs[o] <= epochs'[o]
        /\ k.fresh => epochs'[k.obj] = epochs[k.obj] + 1
    BY <1>0, <2>3, <2>4, <2>8 DEF TypeOK
  <2>10. TypeOK' /\ HolderRegistered'
    BY <2>1, <2>2, <2>6, <2>7, <2>9 DEF TypeOK, HolderRegistered
  <2>11. g.obj = k.obj /\ g.node = k.node /\ g.epoch = e /\ g.fresh = k.fresh
    OBVIOUS
  <2> HIDE DEF g
  <2>12. GrantsBehindEpoch'
    <3> SUFFICES ASSUME NEW h \in grants'
                 PROVE  h.epoch <= epochs'[h.obj] \/ (h.epoch = 1 /\ ~h.fresh)
      BY DEF GrantsBehindEpoch
    <3>1. CASE h \in grants
      <4>1. h.obj \in Objects /\ h.epoch \in Nat
        BY <3>1 DEF TypeOK
      <4>2. epochs[h.obj] \in Nat /\ epochs'[h.obj] \in Nat /\ epochs[h.obj] <= epochs'[h.obj]
        BY <4>1, <2>9 DEF TypeOK
      <4>3. h.epoch <= epochs[h.obj] \/ (h.epoch = 1 /\ ~h.fresh)
        BY <3>1 DEF GrantsBehindEpoch
      <4> QED
        BY <4>1, <4>2, <4>3
    <3>2. CASE h = g
      <4>1. epochs'[k.obj] \in Nat /\ epochs[k.obj] <= epochs'[k.obj]
        BY <1>0, <2>9
      <4>2. CASE k.fresh
        BY <3>2, <4>2, <2>4, <2>3, <2>9, <2>11
      <4>3. CASE ~k.fresh
        BY <3>2, <4>1, <4>3, <2>3, <2>4, <2>11
      <4> QED
        BY <4>2, <4>3
    <3> QED
      BY <2>7, <3>1, <3>2
  <2>13. \A h \in grants : (h.fresh /\ g.fresh /\ h.obj = g.obj) => h.epoch # g.epoch
    <3> SUFFICES ASSUME NEW h \in grants, h.fresh, g.fresh, h.obj = g.obj
                 PROVE  h.epoch # g.epoch
      OBVIOUS
    <3>1. h.epoch \in Nat /\ h.epoch <= epochs[k.obj]
      BY <2>11 DEF TypeOK, GrantsBehindEpoch
    <3>2. g.epoch = epochs[k.obj] + 1
      BY <2>4, <2>11
    <3> QED
      BY <3>1, <3>2, <2>3
  <2>14. FreshEpochsDistinct'
    BY <2>7, <2>13 DEF FreshEpochsDistinct
  <2> QED
    BY <2>2, <2>10, <2>12, <2>14
<1>5. CASE ClaimUnregistered(c) \/ ClaimRaced(c) \/ ClaimAbort(c)
  <2>1. UNCHANGED <<nodes, age, leases, epochs, issued, up, identity, beating, grants>>
    BY <1>5 DEF ClaimUnregistered, ClaimRaced, ClaimAbort, membership
  <2>2. claim' \in [Calls -> Claim] /\ ClaimOK'
    BY <1>0, <1>5, ClaimEnds DEF ClaimUnregistered, ClaimRaced, ClaimAbort, Fail
  <2>3. directory' \subseteq Objects
    BY <1>0, <1>5 DEF ClaimUnregistered, ClaimRaced, ClaimAbort, TypeOK
  <2>4. TypeOK' /\ HolderRegistered'
    BY <2>1, <2>2, <2>3 DEF TypeOK, HolderRegistered
  <2>5. GrantsBehindEpoch' /\ FreshEpochsDistinct'
    BY <2>1 DEF GrantsBehindEpoch, FreshEpochsDistinct
  <2> QED
    BY <2>2, <2>4, <2>5
<1> QED
  BY <1>1, <1>2, <1>3, <1>4, <1>5 DEF ClaimStatement

\* Every step preserves the inductive invariant.
LEMMA NextIInv == IInv /\ [Next]_vars => IInv'
<1> SUFFICES ASSUME IInv, [Next]_vars PROVE IInv'
  OBVIOUS
<1>1. CASE Membership
  BY <1>1, MembershipIInv
<1>2. ASSUME NEW n \in NodeIds, NEW o \in Objects, ReleaseLease(n, o)
      PROVE  IInv'
  <2>1. UNCHANGED <<nodes, age, epochs, directory, issued, up, identity, beating, claim, grants>>
    BY <1>2 DEF ReleaseLease, membership
  <2>2. leases' = [leases EXCEPT ![o] = NoNode]
    BY <1>2 DEF ReleaseLease
  <2>3. TypeOK' /\ HolderRegistered'
    BY <2>1, <2>2 DEF IInv, TypeOK, HolderRegistered
  <2> QED
    BY <2>1, <2>3, QuietKeeps DEF IInv
<1>3. ASSUME NEW c \in Calls,
             \/ \E w \in Workers, o \in Objects : AcquireLease(c, w, o)
             \/ ClaimStatement(c)
             \/ ClaimAbort(c)
      PROVE  IInv'
  BY <1>3, ClaimIInv
<1>4. CASE UNCHANGED vars
  <2>1. UNCHANGED <<nodes, age, leases, epochs, directory, issued, up, identity, beating, claim, grants>>
    BY <1>4 DEF vars, membership
  <2>2. TypeOK' /\ HolderRegistered'
    BY <2>1 DEF IInv, TypeOK, HolderRegistered
  <2> QED
    BY <2>1, <2>2, QuietKeeps DEF IInv
<1> QED
  BY <1>1, <1>2, <1>3, <1>4 DEF Next

\* The inductive invariant holds always.
LEMMA AlwaysIInv == Spec => []IInv
  BY InitIInv, NextIInv, PTL DEF Spec

\* Every table, the workers' membership state and the handlers' locals keep their
\* types, through every interleaving of the registry's handlers.
THEOREM TypeCorrect == Spec => []TypeOK
<1>1. IInv => TypeOK
  BY DEF IInv
<1> QED
  BY <1>1, AlwaysIInv, PTL

\* No lease outlives its holder's node row (claim's INSERT under its foreign key
\* against reap, deregister and their cascade).
THEOREM LeasesOfRegistered == Spec => []HolderRegistered
<1>1. IInv => HolderRegistered
  BY DEF IInv
<1> QED
  BY <1>1, AlwaysIInv, PTL

\* The fence advances: fresh claims of one object are answered distinct epochs,
\* though `claim` bumps the epoch statements after it inserted the lease.
THEOREM FenceAdvances == Spec => []FreshEpochsDistinct
<1>1. IInv => FreshEpochsDistinct
  BY DEF IInv
<1> QED
  BY <1>1, AlwaysIInv, PTL

\* No epoch in use lies ahead of the stored one.
THEOREM EpochsBounded == Spec => []GrantsBehindEpoch
<1>1. IInv => GrantsBehindEpoch
  BY DEF IInv
<1> QED
  BY <1>1, AlwaysIInv, PTL

\* A node that is not alive stays so: heartbeat revives nothing, and register
\* never hands out an id again.
THEOREM DeadStaysDead == Spec => NoResurrection
<1>1. ASSUME IInv, [Next]_vars
      PROVE  [\A n \in issued : (~Alive(n)) => (~Alive(n))']_vars
  <2> SUFFICES ASSUME Next, NEW n \in issued, ~Alive(n)
               PROVE  (~Alive(n))'
    BY <1>1
  <2>0. n \in NodeIds /\ age \in [NodeIds -> 0..Ttl]
    BY <1>1 DEF IInv, TypeOK
  <2>1. ASSUME NEW gone \in SUBSET NodeIds, DeleteNodes(gone)
        PROVE  (~Alive(n))'
    BY <2>0, <2>1 DEF DeleteNodes, Alive
  <2>2. CASE Reap
    <3> DEFINE gone == {m \in nodes : age[m] >= Ttl}
    <3>1. gone \in SUBSET NodeIds /\ DeleteNodes(gone)
      BY <1>1, <2>2 DEF Reap, IInv, TypeOK
    <3> HIDE DEF gone
    <3> QED
      BY <2>1, <3>1
  <2>3. CASE UNCHANGED <<nodes, age>>
    BY <2>3 DEF Alive
  <2>4. CASE Tick
    BY <2>0, <2>4 DEF Tick, Alive
  <2>5. ASSUME NEW w \in Workers, Register(w) \/ RegisterLost(w)
        PROVE  (~Alive(n))'
    <3>1. PICK m \in NodeIds \ issued : nodes' = nodes \cup {m} /\ age' = [age EXCEPT ![m] = 0]
      BY <2>5 DEF Register, RegisterLost
    <3> QED
      BY <2>0, <3>1 DEF Alive
  <2>6. ASSUME NEW w \in Workers, Heartbeat(w)
        PROVE  (~Alive(n))'
    BY <2>0, <2>6 DEF Heartbeat, Alive
  <2>7. ASSUME NEW w \in Workers, Shutdown(w)
        PROVE  (~Alive(n))'
    <3> DEFINE gone == {identity[w]} \cap NodeIds
    <3>1. gone \in SUBSET NodeIds /\ (DeleteNodes(gone) \/ UNCHANGED <<nodes, age>>)
      BY <2>7 DEF Shutdown
    <3> HIDE DEF gone
    <3> QED
      BY <2>1, <2>3, <3>1
  <2>8. CASE Membership
    BY <2>8, <2>2, <2>3, <2>4, <2>5, <2>6, <2>7
       DEF Membership, ReapingRead, HeartbeatRefused, Exit, Restart
  <2>9. CASE \E m \in NodeIds, o \in Objects : ReleaseLease(m, o)
    BY <2>3, <2>9 DEF ReleaseLease
  <2>10. ASSUME NEW c \in Calls, ClaimStatement(c) \/ ClaimAbort(c)
         PROVE  (~Alive(n))'
    BY <2>3, <2>10 DEF ClaimStatement, ClaimInsert, ClaimSelect, ClaimEpoch,
                       ClaimUnregistered, ClaimRaced, ClaimAbort
  <2>11. CASE \E c \in Calls, w \in Workers, o \in Objects : AcquireLease(c, w, o)
    BY <2>2, <2>11 DEF AcquireLease
  <2> QED
    BY <2>8, <2>9, <2>10, <2>11 DEF Next
<1> QED
  BY <1>1, AlwaysIInv, PTL DEF Spec, NoResurrection

\* A lease is lost only by its holder's release or with its holder's row, and
\* never passes from one node to another in one step.
THEOREM LeasesNotTaken == Spec => LeaseKept
<1>1. ASSUME IInv, [Next]_vars
      PROVE  [\A o \in Objects :
                leases[o] # NoNode /\ leases'[o] # leases[o] =>
                  leases'[o] = NoNode /\ (leases[o] \notin nodes' \/ ReleaseLease(leases[o], o))]_vars
  <2> SUFFICES ASSUME Next, NEW o \in Objects, leases[o] # NoNode, leases'[o] # leases[o]
               PROVE  leases'[o] = NoNode /\ (leases[o] \notin nodes' \/ ReleaseLease(leases[o], o))
    BY <1>1
  <2> DEFINE Goal == leases'[o] = NoNode /\ (leases[o] \notin nodes' \/ ReleaseLease(leases[o], o))
  <2>0. leases \in [Objects -> NodeIds \cup {NoNode}]
    BY <1>1 DEF IInv, TypeOK
  <2>1. ASSUME NEW gone, DeleteNodes(gone) PROVE Goal
    BY <2>1 DEF DeleteNodes
  <2>2. CASE Reap
    BY <2>1, <2>2 DEF Reap
  <2>3. CASE UNCHANGED leases
    BY <2>3
  <2>4. CASE Membership
    <3>1. ASSUME NEW w \in Workers, Shutdown(w) PROVE Goal
      BY <2>1, <2>3, <3>1 DEF Shutdown
    <3> QED
      BY <2>2, <2>3, <2>4, <3>1 DEF Membership, Tick, ReapingRead, Register, RegisterLost,
           Heartbeat, HeartbeatRefused, Exit, Restart
  <2>5. ASSUME NEW n \in NodeIds, NEW p \in Objects, ReleaseLease(n, p) PROVE Goal
    <3>1. leases' = [leases EXCEPT ![p] = NoNode] /\ leases[p] = n
      BY <2>5 DEF ReleaseLease
    <3>2. p = o /\ leases'[o] = NoNode
      BY <2>0, <3>1
    <3>3. n = leases[o]
      BY <3>1, <3>2
    <3>4. ReleaseLease(leases[o], o)
      BY <2>5, <3>2, <3>3
    <3> QED
      BY <3>2, <3>4
  <2>6. ASSUME NEW c \in Calls, ClaimInsert(c) PROVE Goal
    BY <2>0, <2>6 DEF ClaimInsert
  <2>7. ASSUME NEW c \in Calls, ClaimStatement(c) \/ ClaimAbort(c) PROVE Goal
    BY <2>3, <2>6, <2>7 DEF ClaimStatement, ClaimSelect, ClaimEpoch, ClaimUnregistered,
         ClaimRaced, ClaimAbort
  <2>8. CASE \E c \in Calls, w \in Workers, p \in Objects : AcquireLease(c, w, p)
    BY <2>2, <2>8 DEF AcquireLease
  <2> QED
    BY <2>4, <2>5, <2>7, <2>8 DEF Next
<1> QED
  BY <1>1, AlwaysIInv, PTL DEF Spec, LeaseKept
================================================================================
