-------------------------------- MODULE Serving --------------------------------
(* One worker's http surface: from a request's target to the code it runs.     *)
(*                                                                             *)
(* A request names a script by its identifier and is for its current revision  *)
(* (published), for one revision (preview), for an alias or for a live         *)
(* session; a running script reaches an object's code through the object's     *)
(* owner.  Pointers, aliases and owners are cached for a time, revisions until *)
(* they are evicted.  A miss is loaded once for all that wait for it, its error *)
(* included.  Publishes move the pointers meanwhile.                           *)
EXTENDS LiveSessions

CONSTANTS
  Scripts,
  Revisions,
  ScriptOf,    \* revision -> the script it belongs to
  Created,     \* revision -> when it was created
  CronEvents,  \* revision -> the cron events it declares
  Requests,    \* requests in flight at once
  None,        \* no revision, no script
  POINTER_TTL, \* how long a cached pointer is used
  DEADLINE,    \* how long an http request may take
  Scenes       \* bound: what happens side by side, see scene

Targets == {"published", "preview", "aliased", "live", "object"}

ASSUME ServingAssumption ==
  /\ ScriptOf \in [Revisions -> Scripts] /\ Scripts # {}
  /\ None \notin Revisions \cup Scripts \cup Sessions
  /\ Created \in [Revisions -> Nat]
  /\ POINTER_TTL \in Nat \ {0} /\ DEADLINE \in Nat
  /\ \A sc \in Scenes : sc.targets \subseteq Targets /\ sc.scripts \subseteq Scripts

VARIABLES
  scene,     \* the targets and scripts asked for in this behaviour, and its bounds:
             \* on time, requests, moves (publishes, deletes, alias and owner moves),
             \* evictions and faults (calls that fail, crons that cannot be armed)
  current,   \* script -> its current revision, at the script service
  alias,     \* script -> the revision its alias names
  stored,    \* the revisions that are stored
  owner,     \* the script that owns the object
  pointers,  \* script -> [rev, at]: its row as cached at `at`
  aliases,   \* script -> the same for its alias
  owners,    \* the same for the object's code; asked: when its load began
  revisions, \* revision -> the script it was prepared for, in the cache
  request,   \* request -> where it is, see Free
  armed,     \* armed_crons: revisions whose events are armed, or being armed
  arming,    \* revision -> the task arming its events
  alarms,    \* schedule -> the alarm of its __cron object, wherever that is homed
  used,      \* what is used up of the bounds
  last       \* history: when a revision was last current, last aliased, and a
             \* script last the owner

service == <<current, alias, stored, owner>>
caches == <<pointers, aliases, owners, revisions>>
crons == <<armed, arming, alarms>>
vars == <<clock, live, scene, service, caches, request, crons, used, last>>

\* Before anything a request could still be served by.
Never == 0 - POINTER_TTL - DEADLINE - 1
Uncached == [rev |-> None, at |-> Never]
NoOwner == [rev |-> None, at |-> Never, asked |-> 0]
\* A schedule is a script's cron event.  st: "none" never armed, "set", "firing",
\* "lost" with the process that fired it, "over".
Schedules == UNION {{ScriptOf[r]} \X CronEvents[r] : r \in Revisions}
Unarmed == [st |-> "none", due |-> 0]
NoTask == [on |-> FALSE, left |-> {}, all |-> TRUE]

\* pc: the lookup it is at; loading: it runs that lookup's load, and `got` is on its
\* way; session, floor: a live request's session, and the bundle put before it; for
\* an object's code, floor is when the load began that brings it.
Free == [pc |-> "free", target |-> "none", script |-> None, rev |-> None, session |-> None,
         loading |-> FALSE, got |-> None, start |-> 0, floor |-> 0, answer |-> "none"]

Init ==
  /\ LiveInit
  /\ scene \in Scenes
  /\ \E first \in [Scripts -> Revisions] :
       /\ \A s \in Scripts : ScriptOf[first[s]] = s
       /\ current = first /\ alias = first
  /\ stored = Revisions
  /\ owner = CHOOSE s \in Scripts : TRUE
  /\ pointers = [s \in Scripts |-> Uncached] /\ aliases = [s \in Scripts |-> Uncached]
  /\ owners = NoOwner /\ revisions = [r \in Revisions |-> None]
  /\ request = [q \in Requests |-> Free]
  /\ armed = {} /\ alarms = [k \in Schedules |-> Unarmed] /\ arming = [r \in Revisions |-> NoTask]
  /\ used = [requests |-> 0, moves |-> 0, evictions |-> 0, faults |-> 0]
  /\ last = [current |-> [r \in Revisions |-> Never], alias |-> [r \in Revisions |-> Never],
             owner |-> [s \in Scripts |-> Never]]

Use(what) == used[what] < scene[what] /\ used' = [used EXCEPT ![what] = @ + 1]

--------------------------------------------------------------------------------
(* The clock, and what happens at the script service meanwhile.                *)

Busy(q) == request[q].pc \notin {"free", "done"}

\* Time does not pass an http request's deadline: it is answered or times out first.
\* An object's code is loaded for the sweeper, the data plane, an arming task and the
\* objects' own tasks too, and those are under no deadline.
Tick ==
  /\ clock < scene.time
  /\ \A q \in Requests : Busy(q) /\ request[q].target # "object" => clock < request[q].start + DEADLINE
  /\ clock' = clock + 1
  /\ UNCHANGED <<live, scene, service, caches, request, crons, used, last>>

\* A pointer of the script service moves to r; what it named was named until now.
Moved(pointer, r) ==
  IF pointer[ScriptOf[r]] = None THEN [x \in Revisions |-> Never]
  ELSE [x \in Revisions |-> IF x = pointer[ScriptOf[r]] THEN clock ELSE Never]
Later(f, g) == [x \in DOMAIN f |-> IF f[x] > g[x] THEN f[x] ELSE g[x]]

PublishRevision(r) ==
  /\ r \in stored /\ current[ScriptOf[r]] # r /\ scene.targets \cap {"published", "object"} # {}
  /\ Use("moves")
  /\ last' = [last EXCEPT !.current = Later(@, Moved(current, r))]
  /\ current' = [current EXCEPT ![ScriptOf[r]] = r]
  /\ UNCHANGED <<clock, live, scene, alias, stored, owner, caches, request, crons>>

MoveAlias(r) ==
  /\ r \in stored /\ alias[ScriptOf[r]] # r /\ "aliased" \in scene.targets
  /\ Use("moves")
  /\ last' = [last EXCEPT !.alias = Later(@, Moved(alias, r))]
  /\ alias' = [alias EXCEPT ![ScriptOf[r]] = r]
  /\ UNCHANGED <<clock, live, scene, current, stored, owner, caches, request, crons>>

\* The object's class moves to another script of the project.
MoveOwner(s) ==
  /\ s # owner /\ "object" \in scene.targets
  /\ Use("moves")
  /\ last' = [last EXCEPT !.owner[owner] = clock]
  /\ owner' = s
  /\ UNCHANGED <<clock, live, scene, current, alias, stored, caches, request, crons>>

IsOldest(r, among) ==
  IF among = {} THEN r = None ELSE r \in among /\ \A x \in among : Created[r] =< Created[x]

\* delete_revision: the script is pointed at its oldest revision that is left, be it
\* the current one that goes or another, and the revision's aliases go with it.
DeleteRevision(r) ==
  /\ r \in stored /\ scene.targets \cap {"preview", "aliased"} # {}
  /\ Use("moves")
  /\ stored' = stored \ {r}
  /\ LET s == ScriptOf[r] IN
       /\ \E w \in Revisions \cup {None} :
            /\ IsOldest(w, {x \in stored \ {r} : ScriptOf[x] = s})
            /\ current' = [current EXCEPT ![s] = w]
       /\ alias' = [alias EXCEPT ![s] = IF @ = r THEN None ELSE @]
       /\ last' = [last EXCEPT !.current = Later(@, Moved(current, r)),
                               !.alias[r] = IF alias[s] = r THEN clock ELSE @]
  /\ UNCHANGED <<clock, live, scene, owner, caches, request, crons>>

--------------------------------------------------------------------------------
(* A request.                                                                  *)

Arrive(q, target, s, r, session_) ==
  /\ request[q].pc = "free"
  /\ Use("requests")
  /\ request' = [request EXCEPT ![q] =
       [Free EXCEPT !.pc = IF target = "object" THEN "owner" ELSE "pointer",
                    !.target = target, !.script = s, !.rev = r, !.session = session_,
                    !.start = clock, !.floor = IF session_ = None THEN 0 ELSE GetSession(session_)]]
  /\ UNCHANGED <<clock, live, scene, service, caches, crons, last>>

\* run_script begins with the route: an identifier and, in it, what of the script.
Ask(q) ==
  \E target \in scene.targets, s \in scene.scripts :
    \/ target \in {"published", "aliased"} /\ Arrive(q, target, s, None, None)
    \/ target = "object" /\ Arrive(q, target, None, None, None)
    \/ target = "preview" /\ \E r \in Revisions : Arrive(q, target, s, r, None)
    \/ target = "live" /\ \E t \in Sessions : Arrive(q, target, s, None, t)

\* The handler returns: the connection is free for the next request.
Leave(q) ==
  /\ request[q].pc = "done"
  /\ request' = [request EXCEPT ![q] = Free]
  /\ UNCHANGED <<clock, live, scene, service, caches, crons, used, last>>

\* tokio::time::timeout around the handler: the load it was running is dropped,
\* and one of those that waited for it starts over.  Who asks for an object's code
\* may be dropped at any time, with the request it does so for.
Timeout(q) ==
  /\ Busy(q) /\ (clock = request[q].start + DEADLINE \/ request[q].target = "object")
  /\ request' = [request EXCEPT ![q].pc = "done", ![q].answer = "timeout", ![q].loading = FALSE,
                                ![q].got = None]
  /\ UNCHANGED <<clock, live, scene, service, caches, crons, used, last>>

--------------------------------------------------------------------------------
(* Lookups through a cache.  moka's try_get_with runs one load per key.        *)

At(q, pc) == request[q].pc = pc
Fresh_Forever(entry) == entry.at # Never
Fresh(entry) == clock < entry.at + POINTER_TTL
SameKey(q, p) ==
  /\ request[p].pc = request[q].pc
  /\ IF request[q].pc = "revision" THEN request[p].rev = request[q].rev
     ELSE request[p].script = request[q].script
InFlight(q) == \E p \in Requests \ {q} : SameKey(q, p) /\ request[p].loading
Waiting(q) ==
  {p \in Requests \ {q} :
     /\ ~request[p].loading
     /\ SameKey(q, p) \/ (request[q].target = "object" /\ At(p, "owner"))}

\* This request runs the load; the service's answer is on its way.
Load(q, got) == request' = [request EXCEPT ![q].loading = TRUE, ![q].got = got]
Landed(old) == [old EXCEPT !.loading = FALSE, !.got = None]

\* The load fails, for this request and for those of the others that had joined it.
LoadFails(q, answers) ==
  \E joined \in SUBSET Waiting(q) :
    request' = [p \in Requests |->
      IF p \in joined \cup {q}
      THEN [Landed(request[p]) EXCEPT !.pc = "done", !.answer = answers[request[p].target]]
      ELSE request[p]]

Error == [t \in Targets |-> "error"]
Absent == [t \in Targets |-> "absent"]

\* A service does not answer.
ServiceFails(q) ==
  /\ request[q].loading \/ At(q, "row") \/ At(q, "session")
  /\ Use("faults")
  /\ LoadFails(q, Error)
  /\ UNCHANGED <<clock, live, scene, service, caches, crons, last>>

\* The script row `row` is there: a published request is for its revision.
WithRow(old, row) ==
  CASE old.target = "published" /\ row = None -> [old EXCEPT !.pc = "done", !.answer = "absent"]
    [] old.target = "published" /\ row # None -> [old EXCEPT !.pc = "revision", !.rev = row]
    [] old.target = "preview" -> [old EXCEPT !.pc = "revision"]
    [] old.target = "aliased" -> [old EXCEPT !.pc = "alias"]
    [] old.target = "live" -> [old EXCEPT !.pc = "session"]

ResolveScriptHit(q) ==
  /\ At(q, "pointer") /\ ~request[q].loading /\ Fresh(pointers[request[q].script])
  /\ request' = [request EXCEPT ![q] = WithRow(@, pointers[request[q].script].rev)]
  /\ UNCHANGED <<clock, live, scene, service, caches, crons, used, last>>

QueryScript(q) ==
  /\ At(q, "pointer") /\ ~request[q].loading /\ ~InFlight(q)
  /\ ~Fresh(pointers[request[q].script])
  /\ Load(q, current[request[q].script])
  /\ UNCHANGED <<clock, live, scene, service, caches, crons, used, last>>

ScriptArrives(q) ==
  /\ At(q, "pointer") /\ request[q].loading
  /\ pointers' = [pointers EXCEPT ![request[q].script] = [rev |-> request[q].got, at |-> clock]]
  /\ request' = [request EXCEPT ![q] = WithRow(Landed(@), request[q].got)]
  /\ UNCHANGED <<clock, live, scene, service, aliases, owners, revisions, crons, used, last>>

AliasHit(q) ==
  /\ At(q, "alias") /\ ~request[q].loading /\ Fresh(aliases[request[q].script])
  /\ request' = [request EXCEPT ![q].pc = "revision", ![q].rev = aliases[request[q].script].rev]
  /\ UNCHANGED <<clock, live, scene, service, caches, crons, used, last>>

GetAlias(q) ==
  /\ At(q, "alias") /\ ~request[q].loading /\ ~InFlight(q) /\ ~Fresh(aliases[request[q].script])
  /\ \/ alias[request[q].script] # None /\ Load(q, alias[request[q].script])
     \/ alias[request[q].script] = None /\ LoadFails(q, Absent)
  /\ UNCHANGED <<clock, live, scene, service, caches, crons, used, last>>

AliasArrives(q) ==
  /\ At(q, "alias") /\ request[q].loading
  /\ aliases' = [aliases EXCEPT ![request[q].script] = [rev |-> request[q].got, at |-> clock]]
  /\ request' = [request EXCEPT ![q] =
       [Landed(@) EXCEPT !.pc = "revision", !.rev = request[q].got]]
  /\ UNCHANGED <<clock, live, scene, service, pointers, owners, revisions, crons, used, last>>

\* A live session is never cached.
GetLiveSession(q) ==
  /\ At(q, "session")
  /\ LET bundle == GetSession(request[q].session) IN
       request' = [request EXCEPT ![q].pc = "done", ![q].floor = bundle - @,
                                  ![q].answer = IF bundle = 0 THEN "absent" ELSE "served"]
  /\ UNCHANGED <<clock, live, scene, service, caches, crons, used, last>>

\* owner_prepared: the owner's script, its row, then the revision, all in one load.
OwnerHit(q) ==
  /\ At(q, "owner") /\ Fresh(owners)
  /\ request' = [request EXCEPT ![q].pc = "done", ![q].answer = "served", ![q].rev = owners.rev,
                                ![q].script = ScriptOf[owners.rev], ![q].floor = owners.asked]
  /\ UNCHANGED <<clock, live, scene, service, caches, crons, used, last>>

LoadingOwner == \E p \in Requests : request[p].target = "object" /\ request[p].pc \in {"row", "revision"}

ResolveClassOwner(q) ==
  /\ At(q, "owner") /\ ~Fresh(owners) /\ ~LoadingOwner
  /\ request' = [request EXCEPT ![q].pc = "row", ![q].script = owner,
                                ![q].floor = clock]
  /\ UNCHANGED <<clock, live, scene, service, caches, crons, used, last>>

OwnerRow(q) ==
  /\ At(q, "row")
  /\ LET row == current[request[q].script] IN
       request' = [request EXCEPT ![q].rev = row, ![q].pc = IF row = None THEN "done" ELSE "revision",
                                  ![q].answer = IF row = None THEN "error" ELSE @]
  /\ UNCHANGED <<clock, live, scene, service, caches, crons, used, last>>

--------------------------------------------------------------------------------
(* cached_revision, and what follows.                                          *)

\* First touch of a revision arms its cron events, in a task of its own.
ArmCrons(r) ==
  IF CronEvents[r] # {} /\ r \notin armed
  THEN /\ armed' = armed \cup {r}
       /\ arming' = [arming EXCEPT ![r] = [on |-> TRUE, left |-> CronEvents[r], all |-> TRUE]]
       /\ UNCHANGED alarms
  ELSE UNCHANGED crons

\* The prepared revision answers: an asset by itself, any other path by running the
\* script; an object's code goes into the owners cache.
Served(q) ==
  /\ request' = [request EXCEPT ![q] = [Landed(@) EXCEPT !.pc = "done", !.answer = "served"]]
  /\ owners' = IF request[q].target = "object"
               THEN [rev |-> request[q].rev, at |-> clock, asked |-> request[q].floor] ELSE owners
  /\ \/ request[q].target # "object" /\ ArmCrons(request[q].rev)
     \/ UNCHANGED crons

RevisionHit(q) ==
  /\ At(q, "revision") /\ ~request[q].loading /\ revisions[request[q].rev] # None
  /\ Served(q)
  /\ UNCHANGED <<clock, live, scene, service, pointers, aliases, revisions, used, last>>

GetRevision_Unchecked(q) ==
  /\ At(q, "revision") /\ ~request[q].loading /\ ~InFlight(q) /\ revisions[request[q].rev] = None
  /\ \/ request[q].rev \in stored /\ Load(q, request[q].rev)
     \/ request[q].rev \notin stored /\ LoadFails(q, [Error EXCEPT !["preview"] = "absent"])
  /\ UNCHANGED <<clock, live, scene, service, caches, crons, used, last>>

\* get_revision, refused when it is another script's.  Those who wait share the
\* refusal, the revision's own script among them.
GetRevision(q) ==
  /\ At(q, "revision") /\ ~request[q].loading /\ ~InFlight(q) /\ revisions[request[q].rev] = None
  /\ LET own == request[q].rev \in stored /\ ScriptOf[request[q].rev] = request[q].script IN
       \/ own /\ Load(q, request[q].rev)
       \/ ~own /\ LoadFails(q, [Error EXCEPT !["preview"] = "absent"])
  /\ UNCHANGED <<clock, live, scene, service, caches, crons, used, last>>

\* The blobs are there and the revision is prepared, under the loader's script row.
RevisionPrepared(q) ==
  /\ At(q, "revision") /\ request[q].loading
  /\ revisions' = [revisions EXCEPT ![request[q].rev] = request[q].script]
  /\ Served(q)
  /\ UNCHANGED <<clock, live, scene, service, pointers, aliases, used, last>>

\* Byte pressure evicts a revision.
Evict(r) ==
  /\ revisions[r] # None
  /\ Use("evictions")
  /\ revisions' = [revisions EXCEPT ![r] = None]
  /\ UNCHANGED <<clock, live, scene, service, pointers, aliases, owners, request, crons, last>>

\* The __cron class.  Setting an alarm replaces the one there was; the next
\* occurrence is at least a second away.
SetCron(k) == alarms' = [alarms EXCEPT ![k] = [st |-> "set", due |-> clock + 1]]

\* One event of the arming task: its object resolves here and is told to ensure
\* its alarm, once no call of it is running; or it is homed elsewhere, or cannot be
\* reached.
ArmEvent(r, e) ==
  /\ arming[r].on /\ e \in arming[r].left
  /\ \/ /\ alarms[<<ScriptOf[r], e>>].st # "firing"
        /\ arming' = [arming EXCEPT ![r].left = @ \ {e}]
        /\ SetCron(<<ScriptOf[r], e>>)
        /\ UNCHANGED used
     \/ /\ Use("faults")
        /\ arming' = [arming EXCEPT ![r].left = @ \ {e}, ![r].all = FALSE]
        /\ UNCHANGED alarms
  /\ UNCHANGED <<clock, live, scene, service, caches, request, armed, last>>

\* The object's loop takes the alarm off before anything runs.
FireAlarm(k) ==
  /\ alarms[k].st = "set" /\ clock >= alarms[k].due
  /\ alarms' = [alarms EXCEPT ![k].st = "firing"]
  /\ UNCHANGED <<clock, live, scene, service, caches, request, armed, arming, used, last>>

FireCron_ListenerFirst(k) ==
  /\ alarms[k].st = "firing"
  /\ SetCron(k) \/ alarms' = [alarms EXCEPT ![k] = Unarmed]
  /\ UNCHANGED <<clock, live, scene, service, caches, request, armed, arming, used, last>>

\* The next occurrence is armed, then the listener runs, and whatever came of it is
\* logged.  A schedule with no occurrence left ends with an error instead, before
\* its listener ran for the last one.
FireCron(k) ==
  /\ alarms[k].st = "firing"
  /\ SetCron(k) \/ alarms' = [alarms EXCEPT ![k].st = "over"]
  /\ UNCHANGED <<clock, live, scene, service, caches, request, armed, arming, used, last>>

\* The process that fires it dies, or the next alarm cannot be set, and the
\* transaction with the new alarm goes with it.  The object may have been homed elsewhere: this worker still counts the
\* revision as armed.
FiringLost(k) ==
  /\ alarms[k].st = "firing"
  /\ Use("faults")
  /\ alarms' = [alarms EXCEPT ![k].st = "lost"]
  /\ UNCHANGED <<clock, live, scene, service, caches, request, armed, arming, last>>

ArmingEnds_Kept(r) ==
  /\ arming[r].on /\ arming[r].left = {}
  /\ arming' = [arming EXCEPT ![r] = NoTask]
  /\ UNCHANGED <<clock, live, scene, service, caches, request, armed, alarms, used, last>>

\* A revision not armed in full is forgotten, for the next request to try again.
ArmingEnds(r) ==
  /\ arming[r].on /\ arming[r].left = {}
  /\ arming' = [arming EXCEPT ![r] = NoTask]
  /\ armed' = IF arming[r].all THEN armed ELSE armed \ {r}
  /\ UNCHANGED <<clock, live, scene, service, caches, request, alarms, used, last>>

--------------------------------------------------------------------------------

SessionCalls ==
  /\ "live" \in scene.targets /\ LiveNext
  /\ UNCHANGED <<scene, service, caches, request, crons, used, last>>

Next ==
  \/ Tick \/ SessionCalls
  \/ \E r \in Revisions :
       \/ PublishRevision(r) \/ MoveAlias(r) \/ DeleteRevision(r) \/ Evict(r) \/ ArmingEnds(r)
       \/ \E e \in CronEvents[r] : ArmEvent(r, e)
  \/ \E k \in Schedules : FireAlarm(k) \/ FireCron(k) \/ FiringLost(k)
  \/ \E s \in Scripts : MoveOwner(s)
  \/ \E q \in Requests :
       \/ Ask(q) \/ Leave(q) \/ Timeout(q) \/ ServiceFails(q)
       \/ ResolveScriptHit(q) \/ QueryScript(q) \/ ScriptArrives(q)
       \/ AliasHit(q) \/ GetAlias(q) \/ AliasArrives(q) \/ GetLiveSession(q)
       \/ OwnerHit(q) \/ ResolveClassOwner(q) \/ OwnerRow(q)
       \/ RevisionHit(q) \/ GetRevision(q) \/ RevisionPrepared(q)

Spec == Init /\ [][Next]_vars

--------------------------------------------------------------------------------
(* Properties.                                                                 *)

ServedAs(q, target) ==
  request[q].pc = "done" /\ request[q].answer = "served" /\ request[q].target = target

\* The oldest a pointer may be that a request of this start time is served by: read
\* by a load that took a whole deadline, and used to the end of its time.
Horizon(q) == request[q].start - POINTER_TTL - DEADLINE

\* A publish propagates: what is served was current (aliased) less than the pointer
\* ttl and one deadline before the request came, although loads are shared, slow and
\* land after later publishes.  An object's code was its owner's since the load began
\* that brought it, however long that took; a live session serves no older bundle
\* than the one it had when the request came.
ServedFresh ==
  \A q \in Requests :
    LET s == request[q].script
        r == request[q].rev IN
    /\ ServedAs(q, "published") => current[s] = r \/ last.current[r] > Horizon(q)
    /\ ServedAs(q, "aliased") => alias[s] = r \/ last.alias[r] > Horizon(q)
    /\ ServedAs(q, "object") => /\ owner = s \/ last.owner[s] >= request[q].floor
                                /\ current[s] = r \/ last.current[r] >= request[q].floor
    /\ ServedAs(q, "live") => request[q].floor >= 0

\* A script is served its own code: a cached revision is prepared under the script
\* it belongs to, and no published, aliased or object request gets another
\* script's.  (A preview may: it names its revision, and a cached one is not
\* checked.)
ServesOwn ==
  /\ \A r \in Revisions : revisions[r] \in {None, ScriptOf[r]}
  /\ \A q \in Requests : \A target \in {"published", "aliased", "object"} :
       ServedAs(q, target) => ScriptOf[request[q].rev] = request[q].script

\* A schedule never stops by itself: once a revision counts as armed and its task
\* has ended, each of its events is armed or firing, through failed listeners and
\* arming that failed half way.  The holes are an alarm lost with the process that
\* was firing it, or because the next one could not be set, which nobody arms again
\* here, and a schedule that is over.
CronsArmed ==
  \A r \in armed : arming[r].on \/ \A e \in CronEvents[r] : alarms[<<ScriptOf[r], e>>].st # "none"
====
