--------------------------------- MODULE Calls ---------------------------------
(***************************************************************************)
(* Calls between objects: actias-worker/src/routing.rs (route,             *)
(* route_inner, resolve_handle, forward), actias-worker/src/data_plane.rs  *)
(* (dispatch) and the mailboxes of actias-worker-core/src/objects.rs.      *)
(*                                                                         *)
(* A call is routed on a node, perhaps forwarded once to the node that     *)
(* holds the object's lease, put in the mailbox of the object's task and   *)
(* run there, one at a time; a running body may call other objects and     *)
(* waits for each answer with its mailbox shut.  The chain a call carries  *)
(* (the objects on its stack) is what a cycle is refused by.  Faults: a    *)
(* node dies, a lease upsets under a live holder, a request gives up, a    *)
(* task hibernates, a republish replaces a task.                           *)
(*                                                                         *)
(* What a method computes is left out: a body is the calls it makes.       *)
(***************************************************************************)
EXTENDS Naturals, Sequences, SequencesExt, FiniteSets

CONSTANTS Nodes,         \* worker nodes
          Objects,       \* object keys
          Databases,     \* the objects of the class __database
          Workflows,     \* the objects of the class __workflow
          Homed,         \* the objects whose lease some node holds from before
          Nobody,        \* the holder of a free lease
          MailboxDepth,  \* MAILBOX_DEPTH
          MaxMade,       \* bound: calls ever made
          MaxUpsets      \* bound: node deaths, lapsed leases and republishes

ASSUME CallsAssumption ==
  /\ IsFiniteSet(Nodes) /\ IsFiniteSet(Objects)
  /\ Databases \subseteq Objects /\ Workflows \subseteq Objects
  /\ Databases \cap Workflows = {} /\ Homed \subseteq Objects
  /\ Nobody \notin Nodes
  /\ MailboxDepth \in Nat \ {0}
  /\ MaxMade \in Nat /\ MaxUpsets \in Nat

VARIABLES
  calls,     \* every call made so far; a call's id is its place
  tasks,     \* every object task spawned so far, likewise
  host,      \* per node, the registered task of each object, 0 for none
  lease,     \* the holder of each object's lease
  revision,  \* the owner script's current revision
  up,        \* the nodes that are alive
  shipped,   \* the databases a snapshot was ever shipped of
  upsets     \* node deaths, lapsed leases and republishes so far

callsVars == <<calls, tasks, host, lease, revision, up, shipped, upsets>>

Ids == 1 .. Len(calls)
TaskIds == 1 .. Len(tasks)

Pending == {"routing", "claimed", "resolved", "queued", "running"}

\* Nobody hears of a fired alarm or of a request's first call but the request.
NoCaller == 0

\* One call: the waiting call it is made from, the object, the objects on its
\* stack, whether it was handed that stack by its caller, the node that routes
\* it, whether it crossed to another node, the task it was resolved to, and
\* the revision its routing read.
Call(from, object, chain, chained, node, method) ==
  [from |-> from, object |-> object, chain |-> chain, chained |-> chained,
   node |-> node, method |-> method, forwarded |-> FALSE, task |-> 0,
   revision |-> 0, st |-> "routing"]

\* No object is resident; leases outlive the tasks they were claimed for.
CallsInit ==
  /\ calls = <<>> /\ tasks = <<>>
  /\ host = [n \in Nodes |-> [o \in Objects |-> 0]]
  /\ \E home \in [Homed -> Nodes] :
       lease = [o \in Objects |-> IF o \in Homed THEN home[o] ELSE Nobody]
  /\ revision = 1
  /\ up = Nodes
  /\ shipped = {}
  /\ upsets = 0

--------------------------------------------------------------------------------
\* A body waits while a call it made is pending.
WaitsFor(c, d) == calls[d].from = c /\ calls[d].st \in Pending
Busy(c) == \E d \in Ids : WaitsFor(c, d)

\* Whether the node has a live task for the object (ObjectHost::is_resident;
\* an entry whose task ended reads as absent, and host drops it).
Resident(n, o) == host[n][o] # 0

SetCall(c, value) == calls' = [calls EXCEPT ![c] = value]

\* A caller is told a result or an error, which the model does not tell apart;
\* what a settled call carried is forgotten, who made it, and of whom, is not.
Settled(c) ==
  [calls[c] EXCEPT !.st = "settled", !.chain = <<>>, !.node = Nobody, !.forwarded = FALSE,
                   !.task = 0, !.revision = 0]
Answer(c) == SetCall(c, Settled(c))

\* A task that ended.
Ended(t) == [tasks[t] EXCEPT !.live = FALSE, !.box = <<>>, !.run = 0,
                             !.node = Nobody, !.revision = 0]

\* An http request's vm, the dashboard, or a workflow's fire-and-forget
\* notify_parent: a call with an empty stack, from any node.
Request(n, o, method) ==
  /\ Len(calls) < MaxMade
  /\ n \in up
  /\ calls' = Append(calls, Call(NoCaller, o, <<>>, FALSE, n, method))
  /\ UNCHANGED <<tasks, host, lease, revision, up, shipped, upsets>>

\* A running body calls an object through its handle: the call carries the
\* body's own stack.  A database's methods are statements and call nobody.
CallOut(c, o, method) ==
  /\ Len(calls) < MaxMade /\ calls[c].object \notin Databases
  /\ calls[c].st = "running" /\ ~Busy(c)
  /\ calls' = Append(calls, Call(c, o, calls[c].chain, TRUE, calls[c].node, method))
  /\ UNCHANGED <<tasks, host, lease, revision, up, shipped, upsets>>

\* A workflow starts or cancels a child and waits for its answer, with an
\* empty stack.
CallChild(c, o) ==
  /\ Len(calls) < MaxMade
  /\ calls[c].st = "running" /\ ~Busy(c)
  /\ {calls[c].object, o} \subseteq Workflows /\ calls[c].object # o
  /\ calls' = Append(calls, Call(c, o, <<>>, FALSE, calls[c].node, "call"))
  /\ UNCHANGED <<tasks, host, lease, revision, up, shipped, upsets>>

--------------------------------------------------------------------------------
(* Routing: route_inner. *)

\* A forwarded call arrives with its stack already extended through this
\* target: a stack that ends in the target is left as it is.
OwnEnd(chain, o) == chain # <<>> /\ Last(chain) = o

\* extend_call_chain refuses a target that is on the stack.
Reentrant(chain, o) == ~OwnEnd(chain, o) /\ Contains(chain, o)

\* Mutant: the child chain starts over instead of growing.
Extended_StartsOver(chain, o) == <<o>>

Extended(chain, o) == IF OwnEnd(chain, o) THEN chain ELSE Append(chain, o)

Routing(c) == calls[c].st = "routing" /\ calls[c].node \in up

\* A database read that the node can serve from a file, its own or a replica,
\* skips the mailbox.  (One whose arguments do not fit is a call like another.)
Bypasses(c) ==
  /\ calls[c].object \in Databases /\ calls[c].method = "read"
  /\ Resident(calls[c].node, calls[c].object) \/ calls[c].object \in shipped

ReadBypass(c) ==
  /\ Routing(c) /\ Bypasses(c)
  /\ Answer(c)
  /\ UNCHANGED <<tasks, host, lease, revision, up, shipped, upsets>>

Refuse(c) ==
  /\ Routing(c) /\ ~Bypasses(c)
  /\ Reentrant(calls[c].chain, calls[c].object)
  /\ Answer(c)
  /\ UNCHANGED <<tasks, host, lease, revision, up, shipped, upsets>>

Routable(c) == Routing(c) /\ ~Reentrant(calls[c].chain, calls[c].object) /\ ~Bypasses(c)

\* The store refuses the lease while another node holds it.
Elsewhere(n, o) == ~Resident(n, o) /\ lease[o] \notin {Nobody, n}

\* resolve_handle: the owner's revision is read, and a node without the object
\* claims its lease.
Claim(c) ==
  LET n == calls[c].node
      o == calls[c].object
  IN /\ Routable(c) /\ ~Elsewhere(n, o)
     /\ lease' = IF Resident(n, o) THEN lease ELSE [lease EXCEPT ![o] = n]
     /\ SetCall(c, [calls[c] EXCEPT !.st = "claimed", !.revision = revision,
                                    !.chain = Extended(@, o)])
     /\ UNCHANGED <<tasks, host, revision, up, shipped, upsets>>

\* The incumbent lives: one hop to its data plane, the stack extended and the
\* hop spent.  A dead incumbent does not answer.
Forward(c) ==
  LET o == calls[c].object
  IN /\ Routable(c) /\ Elsewhere(calls[c].node, o) /\ ~calls[c].forwarded
     /\ IF lease[o] \in up
        THEN SetCall(c, [calls[c] EXCEPT !.node = lease[o], !.forwarded = TRUE,
                                         !.chain = Extended(@, o)])
        ELSE Answer(c)
     /\ UNCHANGED <<tasks, host, lease, revision, up, shipped, upsets>>

\* A call that already crossed may not forward again.
NotAgain(c) ==
  /\ Routable(c) /\ Elsewhere(calls[c].node, calls[c].object) /\ calls[c].forwarded
  /\ Answer(c)
  /\ UNCHANGED <<tasks, host, lease, revision, up, shipped, upsets>>

\* The owner, a revision, a replica or a peer cannot be reached.
Unroutable(c) ==
  /\ calls[c].st \in {"routing", "claimed"} /\ calls[c].node \in up
  /\ Answer(c)
  /\ UNCHANGED <<tasks, host, lease, revision, up, shipped, upsets>>

\* Mutant: the registry is not looked up again under the lock.
Registered_Never(c) == FALSE

\* get_or_spawn, under the registry's lock: the registered task when it lives
\* and embodies the revision the caller read (a send into a mailbox with room
\* follows at once) ...
Registered(c) ==
  LET t == host[calls[c].node][calls[c].object]
  IN t # 0 /\ tasks[t].revision = calls[c].revision

GetTask(c) ==
  /\ calls[c].st = "claimed" /\ calls[c].node \in up
  /\ Registered(c)
  /\ LET t == host[calls[c].node][calls[c].object]
         room == Len(tasks[t].box) < MailboxDepth
     IN /\ SetCall(c, [calls[c] EXCEPT !.task = t, !.st = IF room THEN "queued" ELSE "resolved"])
        /\ tasks' = IF room THEN [tasks EXCEPT ![t].box = Append(@, c)] ELSE tasks
  /\ UNCHANGED <<host, lease, revision, up, shipped, upsets>>

\* ... and otherwise a new one, once its lease is claimed again.  The task that
\* was registered keeps running what it was handed.
SpawnTask(c) ==
  LET n == calls[c].node
      o == calls[c].object
  IN /\ calls[c].st = "claimed" /\ n \in up
     /\ ~Registered(c)
     /\ IF lease[o] \in {Nobody, n}
        THEN /\ lease' = [lease EXCEPT ![o] = n]
             /\ tasks' = Append(tasks, [object |-> o, node |-> n, box |-> <<c>>, run |-> 0,
                                        revision |-> calls[c].revision, live |-> TRUE])
             /\ host' = [host EXCEPT ![n][o] = Len(tasks')]
             /\ SetCall(c, [calls[c] EXCEPT !.task = Len(tasks'), !.st = "queued"])
        ELSE /\ Answer(c)
             /\ UNCHANGED <<tasks, host, lease>>
     /\ UNCHANGED <<revision, up, shipped, upsets>>

--------------------------------------------------------------------------------
(* The mailbox and the task: ObjectHandle::call and spawn_object_task. *)

\* A send that had to wait for room goes through once there is some; a task
\* that ended answers Gone.
Send(c) ==
  LET t == calls[c].task
  IN /\ calls[c].st = "resolved"
     /\ IF tasks[t].live
        THEN /\ Len(tasks[t].box) < MailboxDepth
             /\ tasks' = [tasks EXCEPT ![t].box = Append(@, c)]
             /\ SetCall(c, [calls[c] EXCEPT !.st = "queued"])
        ELSE Answer(c) /\ UNCHANGED tasks
     /\ UNCHANGED <<host, lease, revision, up, shipped, upsets>>

Idle(t) == tasks[t].live /\ tasks[t].run = 0

\* The input gate: the next call is popped once the last one finished, and its
\* stack becomes the vm's.
Pop(t) ==
  /\ Idle(t) /\ tasks[t].box # <<>>
  /\ LET c == Head(tasks[t].box)
     IN /\ SetCall(c, [calls[c] EXCEPT !.st = "running"])
        /\ tasks' = [tasks EXCEPT ![t].box = Tail(@), ![t].run = c]
  /\ UNCHANGED <<host, lease, revision, up, shipped, upsets>>

\* A due alarm is one more message source; its stack is the object itself.
AlarmRuns(t) ==
  LET o == tasks[t].object
  IN /\ Idle(t) /\ o \notin Databases /\ Len(calls) < MaxMade
     /\ calls' = Append(calls, [Call(NoCaller, o, <<o>>, FALSE, tasks[t].node, "call")
                                  EXCEPT !.st = "running", !.task = t])
     /\ tasks' = [tasks EXCEPT ![t].run = Len(calls')]
     /\ UNCHANGED <<host, lease, revision, up, shipped, upsets>>

\* The body ends, well or not: the write ships, the caller is answered.
Return(t) ==
  /\ tasks[t].live /\ tasks[t].run # 0 /\ ~Busy(tasks[t].run)
  /\ LET c == tasks[t].run
     IN /\ Answer(c)
        /\ shipped' = shipped \cup ({calls[c].object} \cap Databases)
  /\ tasks' = [tasks EXCEPT ![t].run = 0]
  /\ UNCHANGED <<host, lease, revision, up, upsets>>

\* Mutant: a hibernating task keeps the replies of the calls in its mailbox.
Strand_KeepsReplies(gone, lost) ==
  /\ tasks' = [t \in TaskIds |-> IF t \in gone THEN Ended(t) ELSE tasks[t]]
  /\ calls' = [c \in Ids |-> IF c \in lost THEN Settled(c) ELSE calls[c]]
  /\ host' = [n \in Nodes |-> [o \in Objects |-> IF host[n][o] \in gone THEN 0 ELSE host[n][o]]]

\* The ends of tasks and what they strand: a call in a mailbox, or running, is
\* told the object is gone.
Strand(gone, lost) ==
  /\ tasks' = [t \in TaskIds |-> IF t \in gone THEN Ended(t) ELSE tasks[t]]
  /\ calls' = [c \in Ids |->
                 IF \/ c \in lost
                    \/ calls[c].st \in {"queued", "running"} /\ calls[c].task \in gone
                 THEN Settled(c) ELSE calls[c]]
  /\ host' = [n \in Nodes |-> [o \in Objects |-> IF host[n][o] \in gone THEN 0 ELSE host[n][o]]]

\* An idle task ends: the idle time passed (whatever raced into its mailbox),
\* or it is no longer registered and nobody holds a handle to it.
TaskEnds(t) ==
  /\ Idle(t)
  /\ Strand({t}, {})
  /\ UNCHANGED <<lease, revision, up, shipped, upsets>>

--------------------------------------------------------------------------------
(* Faults. *)

\* The http timeout drops the request: what has not reached a mailbox never will.
GiveUp(c) ==
  /\ calls[c].from = NoCaller /\ calls[c].st \in {"routing", "claimed", "resolved"}
  /\ Answer(c)
  /\ UNCHANGED <<tasks, host, lease, revision, up, shipped, upsets>>

\* A publish: later calls find a new revision.
Republish ==
  /\ upsets < MaxUpsets
  /\ upsets' = upsets + 1
  /\ revision' = revision + 1
  /\ UNCHANGED <<calls, tasks, host, lease, up, shipped>>

NodeDies(n) ==
  /\ n \in up /\ upsets < MaxUpsets
  /\ up' = up \ {n}
  /\ Strand({t \in TaskIds : tasks[t].node = n},
            {c \in Ids : calls[c].node = n
                         /\ calls[c].st \in {"routing", "claimed", "resolved"}})
  /\ upsets' = upsets + 1
  /\ UNCHANGED <<lease, revision, shipped>>

\* The store frees a dead node's lease, or one whose heartbeats were late.
LeaseFreed(o) ==
  /\ lease[o] # Nobody
  /\ lease[o] \in up => upsets < MaxUpsets
  /\ upsets' = IF lease[o] \in up THEN upsets + 1 ELSE upsets
  /\ lease' = [lease EXCEPT ![o] = Nobody]
  /\ UNCHANGED <<calls, tasks, host, revision, up, shipped>>

--------------------------------------------------------------------------------
Methods(o) == IF o \in Databases THEN {"call", "read"} ELSE {"call"}

Route(c) == ReadBypass(c) \/ Refuse(c) \/ Claim(c) \/ Forward(c) \/ NotAgain(c)
            \/ GetTask(c) \/ SpawnTask(c)

CallsNext ==
  \/ \E n \in Nodes, o \in Objects : \E m \in Methods(o) : Request(n, o, m)
  \/ \E c \in Ids, o \in Objects : \E m \in Methods(o) : CallOut(c, o, m)
  \/ \E c \in Ids, o \in Objects : CallChild(c, o)
  \/ \E c \in Ids : Route(c) \/ Unroutable(c) \/ Send(c) \/ GiveUp(c)
  \/ \E t \in TaskIds : Pop(t) \/ AlarmRuns(t) \/ Return(t) \/ TaskEnds(t)
  \/ Republish
  \/ \E n \in Nodes : NodeDies(n)
  \/ \E o \in Objects : LeaseFreed(o)

CallsSpec == CallsInit /\ [][CallsNext]_callsVars

--------------------------------------------------------------------------------
(* Properties. *)

\* The calls that are one or more steps of `next` away from c.
Reached(next, c) ==
  {d \in Ids : \A S \in SUBSET Ids :
                 next[c] \subseteq S /\ (\A e \in S : next[e] \subseteq S) => d \in S}

\* The calls on a call's stack: its callers, as far as each handed its stack on.
Callers == [c \in Ids |-> IF calls[c].chained THEN {calls[c].from} ELSE {}]
Stack(c) == Reached(Callers, c)

\* A call whose target is on its own stack never reaches a mailbox, through
\* forwards, dead callers and republished tasks, but for one case: an object
\* that calls itself directly, whose stack ends in the target as a forwarded
\* call's does (extend_call_chain, objects.rs:516; route_inner, routing.rs:525).
CyclesRefused ==
  \A c \in Ids :
    (calls[c].chained /\ calls[c].st \in {"queued", "running"}
       /\ calls[calls[c].from].object # calls[c].object)
    => \A a \in Stack(c) : calls[a].object # calls[c].object

\* Two callers that find an object absent at once get one task between them: as
\* long as nothing is republished, a node has one live task of an object
\* (get_or_spawn, objects.rs:568: the factory runs under the registry's lock).
OneTaskUntilRepublish ==
  revision = 1 =>
    \A s, t \in TaskIds :
      (tasks[s].live /\ tasks[t].live /\ s # t)
      => <<tasks[s].node, tasks[s].object>> # <<tasks[t].node, tasks[t].object>>

\* What a pending call waits for: the calls its body made, or the call that
\* runs in its task and those before it in the mailbox.
Ahead(c, d) ==
  /\ calls[c].st \in {"resolved", "queued"} /\ calls[d].task = calls[c].task /\ c # d
  /\ \/ calls[d].st = "running"
     \/ calls[d].st = "queued" /\ calls[c].st = "resolved"
     \/ /\ calls[d].st = "queued" /\ calls[c].st = "queued"
        /\ LET box == tasks[calls[c].task].box
           IN \E i, j \in 1 .. Len(box) : i < j /\ box[i] = d /\ box[j] = c

Blocks ==
  [c \in Ids |-> {d \in Ids : Ahead(c, d) \/ (calls[c].st = "running" /\ WaitsFor(c, d))}]

\* The calls a call waits for, directly or through others, and a ring of them.
WaitsOn(c) == Reached(Blocks, c)
Stuck(c) == \E d \in WaitsOn(c) \cup {c} : d \in WaitsOn(d)

\* The runtime has a step to take for the call: its routing, its send, or its
\* task's turn.
Ready(c) ==
  LET t == tasks[calls[c].task]
  IN \/ calls[c].st \in {"routing", "claimed"} /\ calls[c].node \in up
     \/ calls[c].st = "resolved" /\ (t.live => Len(t.box) < MailboxDepth)
     \/ calls[c].st = "queued" /\ Idle(calls[c].task)
     \/ calls[c].st = "running" /\ t.run = c /\ ~Busy(c)

\* Every pending call can be driven on by the runtime alone, whatever died,
\* unless it waits on a ring of calls that wait on each other (two chains that
\* cross, an object that calls itself, a workflow whose child calls back): no
\* lost reply, no full mailbox, no task that ended under its caller leaves a
\* call waiting for ever (ObjectHandle::call, objects.rs:64).
NeverStranded ==
  \A c \in Ids :
    calls[c].st \in Pending =>
      Ready(c) \/ Stuck(c) \/ \E d \in WaitsOn(c) : Ready(d)

\* What objects.rs:510 says of the chain: "a target that appears there would
\* deadlock on its own busy mailbox, so it is refused loudly instead".
ReentrancyRefused ==
  \A c \in Ids : calls[c].st = "queued" => \A a \in Stack(c) : calls[a].object # calls[c].object

\* What objects.rs:58 says of a handle: "calls from any number of tasks execute
\* one at a time in arrival order".
OneAtATime ==
  \A s, t \in TaskIds :
    (s # t /\ tasks[s].run # 0 /\ tasks[t].run # 0)
    => <<tasks[s].node, tasks[s].object>> # <<tasks[t].node, tasks[t].object>>

====
