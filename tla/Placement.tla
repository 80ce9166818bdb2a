------------------------------- MODULE Placement -------------------------------
(* The placement store: which nodes are alive, which node holds each object's  *)
(* lease, and the epoch that fences one holder from the next.                  *)
(*                                                                             *)
(* Every handler of NodeRegistry runs its SQL statements one by one on a pool, *)
(* outside any transaction, so `acquire_lease` is an interleaving of its       *)
(* statements with every other handler's: one action per statement, the        *)
(* handler's locals in claim[c].  The other handlers are one statement each.   *)
(* The worker's side of membership (heartbeat.rs, the goodbye in main.rs) is   *)
(* here too: it decides who may speak as which node.                           *)
EXTENDS Naturals

CONSTANTS
  Workers,         \* worker processes
  NodeIds,         \* the uuids registration may hand out
  Objects,         \* object ids
  Calls,           \* concurrent acquire_lease handlers
  NoNode,          \* no row, or no identity yet
  Ttl,             \* ticks of silence after which a node is past the cutoff
  MaxReleaseEpoch  \* bound: release_lease is only called below this epoch

ASSUME PlacementAssumption ==
  /\ NoNode \notin NodeIds
  /\ Ttl \in Nat \ {0}
  /\ MaxReleaseEpoch \in Nat

VARIABLES
  nodes,      \* table nodes: the registered ids
  age,        \* ticks since last_heartbeat, capped at Ttl
  leases,     \* table leases: object -> holder, NoNode when there is no row
  epochs,     \* table object_epochs: object -> epoch, 0 when there is no row
  directory,  \* table object_instances: the objects with a row
  issued,     \* ids registration has handed out (a uuid is never drawn twice)
  up,         \* worker -> "up", "draining" (told to stop) or "down"
  identity,   \* worker -> the id its claims speak as
  beating,    \* worker -> is its loop beating (or registering)?
  claim,      \* call -> locals of one acquire_lease handler
  grants      \* history: every answer with acquired = true

membership == <<up, identity, beating>>
vars == <<nodes, age, leases, epochs, directory, issued, membership, claim, grants>>

\* A running handler is about to execute the statement pc names; fresh is
\* rows_affected() == 1 of its INSERT and holder what its SELECT returned.
Claim == [pc : {"idle", "insert", "select", "epoch"}, node : NodeIds \cup {NoNode},
          obj : Objects, fresh : BOOLEAN, holder : NodeIds \cup {NoNode}]

IdleClaim(o) == [pc |-> "idle", node |-> NoNode, obj |-> o, fresh |-> FALSE, holder |-> NoNode]

Acquired(k) == k.fresh \/ k.holder = k.node

Alive(n) == n \in nodes /\ age[n] < Ttl

Init ==
  /\ nodes = {} /\ age = [n \in NodeIds |-> 0]
  /\ leases = [o \in Objects |-> NoNode]
  /\ epochs = [o \in Objects |-> 0]
  /\ directory = {} /\ issued = {}
  /\ up = [w \in Workers |-> "up"]
  /\ identity = [w \in Workers |-> NoNode]
  /\ beating = [w \in Workers |-> FALSE]
  /\ claim \in [Calls -> {IdleClaim(o) : o \in Objects}]
  /\ grants = {}

--------------------------------------------------------------------------------
(* Node rows.  Deleting one cascades to its leases; the epochs stay.           *)

DeleteNodes(gone) ==
  /\ nodes' = nodes \ gone
  /\ age' = [n \in NodeIds |-> IF n \in gone THEN 0 ELSE age[n]]
  /\ leases' = [o \in Objects |-> IF leases[o] \in gone THEN NoNode ELSE leases[o]]

\* The node cutoff: every row whose last heartbeat is too old goes.
Reap == DeleteNodes({n \in nodes : age[n] >= Ttl})

\* register, answered: the loop publishes the new identity and starts beating.
\* Until then a re-registering worker keeps speaking as its old id.
Register(w) ==
  /\ up[w] # "down" /\ ~beating[w]
  /\ \E n \in NodeIds \ issued :
       /\ nodes' = nodes \cup {n}
       /\ age' = [age EXCEPT ![n] = 0]
       /\ issued' = issued \cup {n}
       /\ identity' = [identity EXCEPT ![w] = n]
       /\ beating' = [beating EXCEPT ![w] = TRUE]
  /\ UNCHANGED <<leases, epochs, directory, up, claim, grants>>

\* register whose answer is lost: the row stays behind, the loop retries.
RegisterLost(w) ==
  /\ up[w] # "down" /\ ~beating[w]
  /\ \E n \in NodeIds \ issued :
       /\ nodes' = nodes \cup {n}
       /\ age' = [age EXCEPT ![n] = 0]
       /\ issued' = issued \cup {n}
  /\ UNCHANGED <<leases, epochs, directory, membership, claim, grants>>

Heartbeat_Resurrects(w) ==
  /\ beating[w] /\ identity[w] \in nodes
  /\ age' = [age EXCEPT ![identity[w]] = 0]
  /\ UNCHANGED <<nodes, leases, epochs, directory, issued, membership, claim, grants>>

Heartbeat(w) ==
  /\ beating[w] /\ Alive(identity[w])
  /\ age' = [age EXCEPT ![identity[w]] = 0]
  /\ UNCHANGED <<nodes, leases, epochs, directory, issued, membership, claim, grants>>

\* NOT_FOUND: the loop leaves to register again; nothing else on the worker moves.
HeartbeatRefused(w) ==
  /\ beating[w] /\ ~Alive(identity[w])
  /\ beating' = [beating EXCEPT ![w] = FALSE]
  /\ UNCHANGED <<nodes, age, leases, epochs, directory, issued, up, identity, claim, grants>>

\* Time passes for every row alike; beats may be late by any number of ticks.
Tick ==
  /\ \E n \in nodes : age[n] < Ttl
  /\ age' = [n \in NodeIds |-> IF n \in nodes /\ age[n] < Ttl THEN age[n] + 1 ELSE age[n]]
  /\ UNCHANGED <<nodes, leases, epochs, directory, issued, membership, claim, grants>>

\* list_nodes and get_lease: both reap before they read.
ReapingRead ==
  /\ Reap
  /\ UNCHANGED <<epochs, directory, issued, membership, claim, grants>>

\* release_lease by a holder (anyone else's deletes nothing).
ReleaseLease(n, o) ==
  /\ leases[o] = n /\ epochs[o] < MaxReleaseEpoch
  /\ leases' = [leases EXCEPT ![o] = NoNode]
  /\ UNCHANGED <<nodes, age, epochs, directory, issued, membership, claim, grants>>

--------------------------------------------------------------------------------
(* The worker process.                                                         *)

\* The shutdown signal: a best-effort goodbye that deletes the node row, then
\* the drain.  The heartbeat loop is not told.
Shutdown(w) ==
  /\ up[w] = "up"
  /\ up' = [up EXCEPT ![w] = "draining"]
  /\ \/ DeleteNodes({identity[w]} \cap NodeIds)
     \/ UNCHANGED <<nodes, age, leases>>
  /\ UNCHANGED <<epochs, directory, issued, identity, beating, claim, grants>>

\* The process ends, by finishing its drain or by a crash.
Exit(w) ==
  /\ up[w] # "down"
  /\ up' = [up EXCEPT ![w] = "down"]
  /\ identity' = [identity EXCEPT ![w] = NoNode]
  /\ beating' = [beating EXCEPT ![w] = FALSE]
  /\ UNCHANGED <<nodes, age, leases, epochs, directory, issued, claim, grants>>

Restart(w) ==
  /\ up[w] = "down"
  /\ up' = [up EXCEPT ![w] = "up"]
  /\ UNCHANGED <<nodes, age, leases, epochs, directory, issued, identity, beating, claim, grants>>

--------------------------------------------------------------------------------
(* acquire_lease.  A handler that ends, with an answer or an error, is idle.   *)

AcquireLease_NoReap(c, w, o) ==
  /\ claim[c].pc = "idle"
  /\ up[w] # "down" /\ identity[w] # NoNode
  /\ claim' = [claim EXCEPT ![c] =
                 [IdleClaim(o) EXCEPT !.pc = "insert", !.node = identity[w]]]
  /\ UNCHANGED <<nodes, age, leases, epochs, directory, issued, membership, grants>>

\* A worker with an identity calls; the handler parses the request and reaps.
AcquireLease(c, w, o) ==
  /\ claim[c].pc = "idle"
  /\ up[w] # "down" /\ identity[w] # NoNode
  /\ Reap
  /\ claim' = [claim EXCEPT ![c] =
                 [IdleClaim(o) EXCEPT !.pc = "insert", !.node = identity[w]]]
  /\ UNCHANGED <<epochs, directory, issued, membership, grants>>

\* The call ends in an error: what ran before stays done.
Fail(c) == claim' = [claim EXCEPT ![c] = IdleClaim(claim[c].obj)]

ClaimInsert_Upserts(c) ==
  LET k == claim[c] IN
  /\ k.pc = "insert" /\ k.node \in nodes
  /\ leases' = [leases EXCEPT ![k.obj] = k.node]
  /\ claim' = [claim EXCEPT ![c].pc = "select", ![c].fresh = TRUE]
  /\ UNCHANGED <<nodes, age, epochs, directory, issued, membership, grants>>

\* INSERT ... ON CONFLICT DO NOTHING: the first insert wins.
ClaimInsert(c) ==
  LET k == claim[c] IN
  /\ k.pc = "insert"
  /\ \/ /\ leases[k.obj] # NoNode
        /\ claim' = [claim EXCEPT ![c].pc = "select"]
        /\ UNCHANGED leases
     \/ /\ leases[k.obj] = NoNode /\ k.node \in nodes
        /\ leases' = [leases EXCEPT ![k.obj] = k.node]
        /\ claim' = [claim EXCEPT ![c].pc = "select", ![c].fresh = TRUE]
  /\ UNCHANGED <<nodes, age, epochs, directory, issued, membership, grants>>

\* The directory row (the first writer's stays) and the SELECT of the holder:
\* no handler reads the directory between them.
ClaimSelect(c) ==
  LET k == claim[c] IN
  /\ k.pc = "select" /\ leases[k.obj] # NoNode
  /\ directory' = directory \cup {k.obj}
  /\ claim' = [claim EXCEPT ![c].pc = "epoch", ![c].holder = leases[k.obj]]
  /\ UNCHANGED <<nodes, age, leases, epochs, issued, membership, grants>>

\* The epoch a claim is answered: one that inserted advances it, any other
\* reads it, 1 standing in for a row that is not there.
AnsweredEpoch_NoBump(k) == IF epochs[k.obj] = 0 THEN 1 ELSE epochs[k.obj]

AnsweredEpoch(k) ==
  IF k.fresh THEN epochs[k.obj] + 1
  ELSE IF epochs[k.obj] = 0 THEN 1 ELSE epochs[k.obj]

\* The last statement, and the answer.
ClaimEpoch(c) ==
  LET k == claim[c]
      e == AnsweredEpoch(k) IN
  /\ k.pc = "epoch"
  /\ epochs' = IF k.fresh THEN [epochs EXCEPT ![k.obj] = e] ELSE epochs
  /\ grants' = IF Acquired(k)
               THEN grants \cup {[obj |-> k.obj, node |-> k.node, holder |-> k.holder,
                                 epoch |-> e, fresh |-> k.fresh]}
               ELSE grants
  /\ claim' = [claim EXCEPT ![c] = IdleClaim(k.obj)]
  /\ UNCHANGED <<nodes, age, leases, directory, issued, membership>>

\* The INSERT breaks the foreign key: the claimant is no longer registered.
ClaimUnregistered(c) ==
  LET k == claim[c] IN
  /\ k.pc = "insert" /\ leases[k.obj] = NoNode /\ k.node \notin nodes
  /\ Fail(c)
  /\ UNCHANGED <<nodes, age, leases, epochs, directory, issued, membership, grants>>

\* ClaimRaced: the lease was freed mid-claim (its directory row is written).
ClaimRaced(c) ==
  LET k == claim[c] IN
  /\ k.pc = "select" /\ leases[k.obj] = NoNode
  /\ directory' = directory \cup {k.obj}
  /\ Fail(c)
  /\ UNCHANGED <<nodes, age, leases, epochs, issued, membership, grants>>

\* A statement fails, or the handler is dropped with its connection.
ClaimAbort(c) ==
  /\ claim[c].pc # "idle"
  /\ Fail(c)
  /\ UNCHANGED <<nodes, age, leases, epochs, directory, issued, membership, grants>>

ClaimStatement(c) ==
  ClaimInsert(c) \/ ClaimSelect(c) \/ ClaimEpoch(c) \/ ClaimUnregistered(c) \/ ClaimRaced(c)

Membership ==
  \/ Tick
  \/ ReapingRead
  \/ \E w \in Workers :
       \/ Register(w) \/ RegisterLost(w) \/ Heartbeat(w) \/ HeartbeatRefused(w)
       \/ Shutdown(w) \/ Exit(w) \/ Restart(w)

Next ==
  \/ Membership
  \/ \E n \in NodeIds, o \in Objects : ReleaseLease(n, o)
  \/ \E c \in Calls :
       \/ \E w \in Workers, o \in Objects : AcquireLease(c, w, o)
       \/ ClaimStatement(c)
       \/ ClaimAbort(c)

Spec == Init /\ [][Next]_vars

\* Fairness: the clock runs, a running handler goes on to its next statement,
\* and callers keep asking for the objects they use.
Demand(c) == \E w \in Workers, o \in Objects : AcquireLease(c, w, o)

FairSpec ==
  /\ Spec
  /\ WF_vars(Tick)
  /\ \A c \in Calls : WF_vars(ClaimStatement(c)) /\ WF_vars(Demand(c))

--------------------------------------------------------------------------------
(* Properties.                                                                 *)

\* Types of every table, of the workers' membership state and of the handlers.
TypeOK ==
  /\ nodes \subseteq issued /\ issued \subseteq NodeIds
  /\ age \in [NodeIds -> 0..Ttl]
  /\ leases \in [Objects -> NodeIds \cup {NoNode}]
  /\ epochs \in [Objects -> Nat]
  /\ directory \subseteq Objects
  /\ up \in [Workers -> {"up", "draining", "down"}]
  /\ identity \in [Workers -> issued \cup {NoNode}]
  /\ beating \in [Workers -> BOOLEAN]
  /\ claim \in [Calls -> Claim]
  /\ grants \subseteq [obj : Objects, node : NodeIds, holder : NodeIds, epoch : Nat, fresh : BOOLEAN]

\* A lease is held by a registered node or by nobody: node age-out, the goodbye
\* and every interleaving of a claim with them leave no lease of a deleted node
\* (the foreign key's check on insert and its cascade on delete).
HolderRegistered == \A o \in Objects : leases[o] # NoNode => leases[o] \in nodes

\* Two claims that each inserted the lease row were never answered the same
\* epoch, whatever interleaved with them: every fresh grant advances the fence.
FreshEpochsDistinct ==
  \A g, h \in grants :
    (g.fresh /\ h.fresh /\ g.obj = h.obj /\ g.epoch = h.epoch) => g.node = h.node

\* No epoch a holder was ever given lies ahead of the one stored, so the next
\* fresh claim's epoch is newer than any that can be in use (1 for a row that
\* was read before it existed).
GrantsBehindEpoch ==
  \A g \in grants : g.epoch <= epochs[g.obj] \/ (g.epoch = 1 /\ ~g.fresh)

\* An aged-out node never comes back to life by beating, and a deleted id is
\* never registered again: the holder of a lapsed lease must start over.
NoResurrection ==
  [][\A n \in issued : (~Alive(n)) => (~Alive(n))']_vars

\* Only its holder gives a lease up, and otherwise it is lost only with the
\* holder's node row: no step takes a lease from a registered node that did not
\* release it, and none replaces one holder by another.
LeaseKept ==
  [][\A o \in Objects :
       leases[o] # NoNode /\ leases'[o] # leases[o] =>
         leases'[o] = NoNode /\ (leases[o] \notin nodes' \/ ReleaseLease(leases[o], o))]_vars

\* A node that no live process speaks as any more.
Orphaned(n) == \A w \in Workers : identity[w] # n

CanClaim(w) == up[w] # "down" /\ identity[w] # NoNode

\* The lease of a dead node is freed: while callers on some live worker keep
\* asking, a lease whose holder's process is gone does not stay.
DeadHolderFreed ==
  \A n \in NodeIds, o \in Objects :
    (leases[o] = n /\ Orphaned(n)) ~> (leases[o] # n \/ \A w \in Workers : ~CanClaim(w))

\* What the epochs migration says: epochs are "bumped on every lease
\* acquisition".  Two nodes that both held the lease would then never have been
\* given the same epoch.
EpochPerHolder ==
  \A g, h \in grants : (g.obj = h.obj /\ g.epoch = h.epoch) => g.node = h.node
====
