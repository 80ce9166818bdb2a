----------------------------- MODULE ServingProofs -----------------------------
(* What Serving promises, for any scripts, revisions, requests and times.      *)
EXTENDS Serving, TLAPS

(* The live sessions: the types, then the index.                               *)

LiveCall == [op : {"none", "sadd", "expire", "srem", "dels"}, of : SUBSET Sessions, bundle : Nat,
             rest : SUBSET Sessions]

LiveInv ==
  /\ clock \in Nat /\ puts \in Nat /\ overtaken \in BOOLEAN
  /\ session \in [Sessions -> [bundle : Nat, until : Nat]]
  /\ index \in [members : SUBSET Sessions, until : Nat \cup {Persistent}]
  /\ call \in [Calls -> LiveCall]
  /\ \A s \in Sessions : session[s].until =< clock + SESSION_TTL /\ session[s].bundle =< puts
  /\ \A c \in Calls : call[c].op \in {"sadd", "expire"} => call[c].of # {}

\* A put of s is on its way.
PutOf(s) == \E c \in Calls : call[c].op \in {"sadd", "expire"} /\ s \in call[c].of

\* While no put has been overtaken: puts and deletes do not overlap, a session that
\* can be served is in the set and does not outlive it, and a delete leaves none
\* behind.
IndexInv ==
  ~overtaken =>
    /\ ~(Putting /\ Deleting)
    /\ \A s \in Sessions : GetSession(s) # 0 /\ ~PutOf(s) =>
         s \in index.members /\ (index.until = Persistent \/ session[s].until =< index.until)
    /\ \A c \in Calls, s \in Sessions :
         /\ call[c].op = "srem" /\ s \in call[c].of => session[s].bundle = 0
         /\ call[c].op = "dels" /\ GetSession(s) # 0 => s \in call[c].rest

(* The cron events.                                                            *)

Events == UNION {CronEvents[r] : r \in Revisions}

\* What the arming task of a revision has left behind is armed, unless it knows of
\* a failure.
CronInv ==
  /\ armed \subseteq Revisions
  /\ arming \in [Revisions -> [on : BOOLEAN, left : SUBSET Events, all : BOOLEAN]]
  /\ alarms \in [Schedules -> [st : {"none", "set", "firing", "lost", "over"}, due : Nat]]
  /\ \A r \in armed : \A e \in CronEvents[r] :
       \/ arming[r].on /\ (e \in arming[r].left \/ ~arming[r].all)
       \/ alarms[<<ScriptOf[r], e>>].st # "none"

(* The requests.                                                               *)

RevisionsOf(s) == {r \in Revisions : ScriptOf[r] = s}

Request ==
  [pc : {"free", "pointer", "alias", "session", "owner", "row", "revision", "done"},
   target : Targets \cup {"none"}, script : Scripts \cup {None}, rev : Revisions \cup {None},
   session : Sessions \cup {None}, loading : BOOLEAN, got : Revisions \cup {None},
   start : Nat, floor : Int, answer : {"none", "timeout", "error", "absent", "served"}]

\* The script service's state: a pointer is to a revision of its script.
ServiceInv ==
  /\ stored \subseteq Revisions /\ owner \in Scripts
  /\ current \in [Scripts -> Revisions \cup {None}] /\ alias \in [Scripts -> Revisions \cup {None}]
  /\ \A s \in Scripts : {current[s], alias[s]} \subseteq RevisionsOf(s) \cup {None}
  /\ last \in [current : [Revisions -> Int], alias : [Revisions -> Int], owner : [Scripts -> Int]]

\* p names r for s, or did so at `since` or later.
Named(p, l, s, r, since) == p[s] = r \/ l[r] >= since
Owned(o, l, s, since) == o = s \/ l[s] >= since

Entry == [rev : Revisions \cup {None}, at : Int]
OwnerEntry == [rev : Revisions \cup {None}, at : Int, asked : Int]

\* A cached pointer is to a revision of its script, and is at most a deadline older
\* than the time it was cached at; an object's code is as of its load.
CacheInv ==
  /\ pointers \in [Scripts -> Entry] /\ aliases \in [Scripts -> Entry] /\ owners \in OwnerEntry
  /\ revisions \in [Revisions -> Scripts \cup {None}]
  /\ \A r \in Revisions : revisions[r] \in {None, ScriptOf[r]}
  /\ \A s \in Scripts :
       LET e == pointers[s] IN
       /\ e.at =< clock /\ e.rev \in RevisionsOf(s) \cup {None}
       /\ e.rev # None => Named(current, last.current, s, e.rev, e.at - DEADLINE)
  /\ \A s \in Scripts :
       LET e == aliases[s] IN
       /\ e.at =< clock
       /\ e.at # Never => /\ e.rev \in RevisionsOf(s)
                          /\ Named(alias, last.alias, s, e.rev, e.at - DEADLINE)
  /\ owners.asked =< clock
  /\ owners.at # Never =>
       /\ owners.rev \in Revisions
       /\ Owned(owner, last.owner, ScriptOf[owners.rev], owners.asked)
       /\ Named(current, last.current, ScriptOf[owners.rev], owners.rev, owners.asked)

\* A request v asks for one script and gets that script's code.
Own(v) ==
  /\ v.pc \in {"pointer", "alias", "session", "row", "revision"} => v.script \in Scripts
  /\ v.pc = "pointer" => v.target \in {"published", "preview", "aliased", "live"}
  /\ v.pc = "alias" => v.target = "aliased"
  /\ v.pc = "session" => v.target = "live"
  /\ v.pc \in {"owner", "row"} => v.target = "object"
  /\ v.pc = "revision" => v.target \in {"published", "preview", "aliased", "object"} /\ v.rev \in Revisions
  /\ v.pc = "pointer" /\ v.target = "preview" => v.rev \in Revisions
  /\ v.pc \in {"pointer", "session"} /\ v.target = "live" => v.session \in Sessions
  /\ v.pc = "revision" /\ v.target # "preview" => ScriptOf[v.rev] = v.script
  /\ v.loading => v.pc \in {"pointer", "alias", "revision"}
  /\ v.loading /\ v.pc = "pointer" => v.got \in RevisionsOf(v.script) \cup {None}
  /\ v.loading /\ v.pc = "alias" => v.got \in RevisionsOf(v.script)
  /\ v.loading /\ v.pc = "revision" => ScriptOf[v.rev] = v.script
  /\ v.answer = "served" => v.pc = "done"
  /\ v.answer = "served" /\ v.target \in {"published", "aliased", "object"} =>
       v.rev \in Revisions /\ v.script \in Scripts /\ ScriptOf[v.rev] = v.script

Limit(v) == v.start - POINTER_TTL - DEADLINE + 1
Bound(v) == v.pc = "revision" \/ v.answer = "served"

\* Over the pointers c, a and o with their history l, at the time `now`, with the
\* sessions ss and p bundles put: the request is within its deadline, what it loads
\* was named since it came, and what it is bound to is not too old.
Timely(v, c, a, o, l, now, ss, p) ==
  /\ v.pc # "free" => v.start =< now
  /\ v.pc \notin {"free", "done"} /\ v.target # "object" => now =< v.start + DEADLINE
  /\ v.loading /\ v.pc = "pointer" /\ v.got # None => Named(c, l.current, v.script, v.got, v.start)
  /\ v.loading /\ v.pc = "alias" => Named(a, l.alias, v.script, v.got, v.start)
  /\ v.target = "published" /\ Bound(v) => Named(c, l.current, v.script, v.rev, Limit(v))
  /\ v.target = "aliased" /\ Bound(v) => Named(a, l.alias, v.script, v.rev, Limit(v))
  /\ v.target = "object" /\ (v.pc \in {"row", "revision"} \/ v.answer = "served") =>
       v.floor =< now /\ Owned(o, l.owner, v.script, v.floor)
  /\ v.target = "object" /\ Bound(v) => Named(c, l.current, v.script, v.rev, v.floor)
  /\ v.target = "live" /\ v.pc \in {"pointer", "session"} =>
       v.floor =< p /\ (ss[v.session].bundle = 0 \/ v.floor =< ss[v.session].bundle)
  /\ v.target = "live" /\ v.answer = "served" => v.floor >= 0

RequestInv ==
  /\ request \in [Requests -> Request]
  /\ \A q \in Requests : /\ Own(request[q])
                         /\ Timely(request[q], current, alias, owner, last, clock, session, puts)

SceneInv == scene.targets \subseteq Targets /\ scene.scripts \subseteq Scripts

ServeInv == SceneInv /\ LiveInv /\ ServiceInv /\ CacheInv /\ RequestInv

--------------------------------------------------------------------------------

(* The live sessions and the cron events, which no request disturbs.           *)

\* The constants are what the model takes them for.
LEMMA Constants ==
  /\ SESSION_TTL \in Nat /\ SESSION_TTL > 0
  /\ POINTER_TTL \in Nat /\ POINTER_TTL > 0 /\ DEADLINE \in Nat
  /\ Never \in Int /\ Never + POINTER_TTL < 0
  /\ ScriptOf \in [Revisions -> Scripts] /\ Scripts # {}
  /\ None \notin Revisions /\ None \notin Scripts /\ None \notin Sessions
<1>1. /\ SESSION_TTL \in Nat \ {0} /\ POINTER_TTL \in Nat \ {0} /\ DEADLINE \in Nat
  BY ServingAssumption, LiveAssumption
<1>2. /\ ScriptOf \in [Revisions -> Scripts] /\ Scripts # {}
      /\ None \notin Revisions /\ None \notin Scripts /\ None \notin Sessions
  BY ServingAssumption
<1>3. Never \in Int /\ Never + POINTER_TTL < 0
  BY <1>1 DEF Never
<1> QED
  BY <1>1, <1>2, <1>3

\* Every step is one of the requests', of the script service's, of the crons', or
\* of the session manager's, or time passes.
RequestStep(q) ==
  \/ Ask(q) \/ Leave(q) \/ Timeout(q) \/ ServiceFails(q)
  \/ ResolveScriptHit(q) \/ QueryScript(q) \/ ScriptArrives(q)
  \/ AliasHit(q) \/ GetAlias(q) \/ AliasArrives(q) \/ GetLiveSession(q)
  \/ OwnerHit(q) \/ ResolveClassOwner(q) \/ OwnerRow(q)
  \/ RevisionHit(q) \/ GetRevision(q) \/ RevisionPrepared(q)
ServiceStep ==
  \/ \E r \in Revisions : PublishRevision(r) \/ MoveAlias(r) \/ DeleteRevision(r)
  \/ \E s \in Scripts : MoveOwner(s)
CronStep ==
  \/ \E r \in Revisions : ArmingEnds(r) \/ \E e \in CronEvents[r] : ArmEvent(r, e)
  \/ \E k \in Schedules : FireAlarm(k) \/ FireCron(k) \/ FiringLost(k)

\* These are all the steps.
LEMMA Steps ==
  ASSUME Next
  PROVE  Tick \/ SessionCalls \/ ServiceStep \/ CronStep \/ (\E r \in Revisions : Evict(r))
         \/ \E q \in Requests : RequestStep(q)
BY DEF Next, ServiceStep, CronStep, RequestStep

\* What the requests' steps leave alone.
LEMMA RequestFrame ==
  ASSUME NEW q \in Requests, RequestStep(q)
  PROVE  /\ UNCHANGED <<clock, live, scene, service, last>>
         /\ UNCHANGED crons \/ (At(q, "revision") /\ ArmCrons(request[q].rev))
         /\ At(q, "revision") \/ UNCHANGED <<owners, revisions>>
<1>1. CASE Ask(q)
  BY <1>1 DEF Ask, Arrive, caches
<1>2. CASE Leave(q) \/ Timeout(q) \/ ServiceFails(q)
  BY <1>2 DEF Leave, Timeout, ServiceFails, caches
<1>3. CASE ResolveScriptHit(q) \/ QueryScript(q) \/ ScriptArrives(q)
  BY <1>3 DEF ResolveScriptHit, QueryScript, ScriptArrives, caches
<1>4. CASE AliasHit(q) \/ GetAlias(q) \/ AliasArrives(q) \/ GetLiveSession(q)
  BY <1>4 DEF AliasHit, GetAlias, AliasArrives, GetLiveSession, caches
<1>5. CASE OwnerHit(q) \/ ResolveClassOwner(q) \/ OwnerRow(q)
  BY <1>5 DEF OwnerHit, ResolveClassOwner, OwnerRow, caches
<1>6. CASE RevisionHit(q) \/ RevisionPrepared(q)
  BY <1>6 DEF RevisionHit, RevisionPrepared, Served, At
<1>7. CASE GetRevision(q)
  BY <1>7 DEF GetRevision, At
<1> QED
  BY <1>1, <1>2, <1>3, <1>4, <1>5, <1>6, <1>7 DEF RequestStep

\* The arming tasks.
LEMMA ArmEventCron ==
  ASSUME CronInv, clock \in Nat, NEW r \in Revisions, NEW e \in CronEvents[r], ArmEvent(r, e)
  PROVE  CronInv'
<1> DEFINE k == <<ScriptOf[r], e>>
<1>1. k \in Schedules /\ armed' = armed
  BY DEF Schedules, ArmEvent
<1>2. arming' \in [Revisions -> [on : BOOLEAN, left : SUBSET Events, all : BOOLEAN]]
      /\ \A x \in Revisions :
           /\ arming'[x].on = arming[x].on
           /\ x # r => arming'[x] = arming[x]
           /\ arming'[x].left \in {arming[x].left, arming[x].left \ {e}}
           /\ ~arming[x].all => ~arming'[x].all
  <2>1. arming' = [arming EXCEPT ![r].left = @ \ {e}]
        \/ arming' = [arming EXCEPT ![r].left = @ \ {e}, ![r].all = FALSE]
    BY DEF ArmEvent
  <2> QED
    BY <2>1 DEF CronInv
<1>3. CASE alarms' = alarms
  <2>1. arming' = [arming EXCEPT ![r].left = @ \ {e}, ![r].all = FALSE] \/ alarms' = [alarms EXCEPT ![k] = [st |-> "set", due |-> clock + 1]]
    BY DEF ArmEvent, SetCron
  <2>2. ~arming'[r].all \/ alarms[k].st = "set"
    BY <1>1, <1>3, <2>1 DEF CronInv
  <2> QED
    BY <1>1, <1>2, <1>3, <2>2, ZenonT(60) DEF CronInv
<1>4. CASE alarms' = [alarms EXCEPT ![k] = [st |-> "set", due |-> clock + 1]]
  <2>1. alarms' \in [Schedules -> [st : {"none", "set", "firing", "lost", "over"}, due : Nat]]
        /\ alarms'[k].st = "set" /\ \A j \in Schedules : j # k => alarms'[j] = alarms[j]
    BY <1>1, <1>4 DEF CronInv
  <2>2. \A x \in Revisions : \A y \in CronEvents[x] : <<ScriptOf[x], y>> \in Schedules
    BY DEF Schedules
  <2>3. ASSUME NEW x \in armed, NEW y \in CronEvents[x]
        PROVE  \/ arming'[x].on /\ (y \in arming'[x].left \/ ~arming'[x].all)
               \/ alarms'[<<ScriptOf[x], y>>].st # "none"
    <3>1. x \in Revisions /\ (\/ arming[x].on /\ (y \in arming[x].left \/ ~arming[x].all)
                              \/ alarms[<<ScriptOf[x], y>>].st # "none")
      BY DEF CronInv
    <3>2. CASE x = r /\ y = e
      BY <2>1, <3>2
    <3>3. CASE x # r \/ y # e
      BY <1>2, <2>1, <2>2, <3>1, <3>3
    <3> QED
      BY <3>2, <3>3
  <2> QED
    BY <1>1, <1>2, <2>1, <2>3 DEF CronInv
<1> QED
  BY <1>3, <1>4 DEF ArmEvent, SetCron

\* The alarms: an alarm that was set never goes back to none.
LEMMA AlarmCron ==
  ASSUME CronInv, clock \in Nat, NEW k \in Schedules, FireAlarm(k) \/ FireCron(k) \/ FiringLost(k)
  PROVE  CronInv'
<1>1. UNCHANGED <<armed, arming>>
  BY DEF FireAlarm, FireCron, FiringLost
<1>2. \/ alarms' = [alarms EXCEPT ![k] = [st |-> "set", due |-> clock + 1]]
      \/ \E x \in {"firing", "over", "lost"} : alarms' = [alarms EXCEPT ![k].st = x]
  BY DEF FireAlarm, FireCron, FiringLost, SetCron
<1>3. alarms' \in [Schedules -> [st : {"none", "set", "firing", "lost", "over"}, due : Nat]]
      /\ alarms'[k].st # "none" /\ \A j \in Schedules : j # k => alarms'[j] = alarms[j]
  BY <1>2 DEF CronInv
<1>4. \A x \in Revisions : \A y \in CronEvents[x] : <<ScriptOf[x], y>> \in Schedules
  BY DEF Schedules
<1> QED
  BY <1>1, <1>3, <1>4 DEF CronInv

\* The arming task ends: what it could not arm in full is forgotten.
LEMMA ArmingEndsCron ==
  ASSUME CronInv, NEW r \in Revisions, ArmingEnds(r)
  PROVE  CronInv'
<1>1. /\ arming[r].left = {} /\ arming' = [arming EXCEPT ![r] = NoTask] /\ alarms' = alarms
      /\ armed' = IF arming[r].all THEN armed ELSE armed \ {r}
  BY DEF ArmingEnds
<1>2. NoTask \in [on : BOOLEAN, left : SUBSET Events, all : BOOLEAN]
  BY DEF NoTask
<1>3. arming' \in [Revisions -> [on : BOOLEAN, left : SUBSET Events, all : BOOLEAN]]
      /\ \A x \in Revisions : x # r => arming'[x] = arming[x]
  BY <1>1, <1>2 DEF CronInv
<1>4. ASSUME NEW x \in armed', NEW y \in CronEvents[x]
      PROVE  \/ arming'[x].on /\ (y \in arming'[x].left \/ ~arming'[x].all)
             \/ alarms'[<<ScriptOf[x], y>>].st # "none"
  <2>1. x \in armed /\ (x = r => arming[r].all)
    BY <1>1
  <2>2. x \in Revisions /\ (\/ arming[x].on /\ (y \in arming[x].left \/ ~arming[x].all)
                            \/ alarms[<<ScriptOf[x], y>>].st # "none")
    BY <2>1 DEF CronInv
  <2> QED
    BY <1>1, <1>3, <2>1, <2>2
<1>5. armed' \subseteq Revisions
  BY <1>1 DEF CronInv
<1> QED
  BY <1>1, <1>3, <1>4, <1>5 DEF CronInv

\* First touch: all the events of the revision are left to arm.
LEMMA ArmCronsCron ==
  ASSUME CronInv, NEW r \in Revisions, ArmCrons(r)
  PROVE  CronInv'
<1>1. CASE UNCHANGED crons
  BY <1>1 DEF crons, CronInv
<1>2. CASE ~UNCHANGED crons
  <2> DEFINE task == [on |-> TRUE, left |-> CronEvents[r], all |-> TRUE]
  <2>1. /\ armed' = armed \cup {r} /\ arming' = [arming EXCEPT ![r] = task] /\ alarms' = alarms
    BY <1>2 DEF ArmCrons
  <2>2. task \in [on : BOOLEAN, left : SUBSET Events, all : BOOLEAN]
    BY DEF Events
  <2>3. task.on /\ task.left = CronEvents[r]
    OBVIOUS
  <2> HIDE DEF task
  <2>4. arming' \in [Revisions -> [on : BOOLEAN, left : SUBSET Events, all : BOOLEAN]]
        /\ arming'[r] = task /\ \A x \in Revisions : x # r => arming'[x] = arming[x]
    BY <2>1, <2>2 DEF CronInv
  <2>5. \A x \in armed' : x = r \/ x \in armed
    BY <2>1
  <2> QED
    BY <2>1, <2>3, <2>4, <2>5 DEF CronInv
<1> QED
  BY <1>1, <1>2

\* A session that can be served has a bundle and time left.
LEMMA Servable ==
  ASSUME LiveInv, NEW s \in Sessions
  PROVE  GetSession(s) # 0 <=> (session[s].bundle # 0 /\ clock < session[s].until)
BY DEF GetSession

\* One call of the session manager moves on.
LEMMA CallTypes ==
  ASSUME LiveInv, NEW c \in Calls, NEW x \in LiveCall, call' = [call EXCEPT ![c] = x],
         x.op \in {"sadd", "expire"} => x.of # {}
  PROVE  /\ call' \in [Calls -> LiveCall] /\ call'[c] = x
         /\ \A d \in Calls : d # c => call'[d] = call[d]
         /\ \A d \in Calls : call'[d].op \in {"sadd", "expire"} => call'[d].of # {}
BY DEF LiveInv

\* put_session begins.
LEMMA PutSessionLive ==
  ASSUME LiveInv, IndexInv, NEW c \in Calls, NEW s \in Sessions, PutSession(c, s)
  PROVE  LiveInv' /\ IndexInv'
<1> DEFINE x == [op |-> "sadd", of |-> {s}, bundle |-> puts + 1, rest |-> {}]
           e == [bundle |-> puts + 1, until |-> clock + SESSION_TTL]
<1>1. /\ call[c].op = "none" /\ puts' = puts + 1 /\ session' = [session EXCEPT ![s] = e]
      /\ call' = [call EXCEPT ![c] = x] /\ overtaken' = (overtaken \/ Deleting)
      /\ UNCHANGED <<clock, index>>
  BY DEF PutSession, Note
<1>2. clock \in Nat /\ puts \in Nat /\ SESSION_TTL \in Nat
  BY Constants DEF LiveInv
<1>3. x \in LiveCall /\ x.op = "sadd" /\ x.of = {s} /\ e \in [bundle : Nat, until : Nat]
      /\ e.bundle = puts + 1 /\ e.until = clock + SESSION_TTL
  BY <1>2 DEF LiveCall
<1> HIDE DEF x, e
<1>4. /\ call' \in [Calls -> LiveCall] /\ call'[c] = x
      /\ \A d \in Calls : d # c => call'[d] = call[d]
      /\ \A d \in Calls : call'[d].op \in {"sadd", "expire"} => call'[d].of # {}
  BY <1>1, <1>3, CallTypes
<1>5. session' \in [Sessions -> [bundle : Nat, until : Nat]] /\ session'[s] = e
      /\ \A u \in Sessions : u # s => session'[u] = session[u]
  BY <1>1, <1>3 DEF LiveInv
<1>6. \A u \in Sessions : session'[u].until =< clock' + SESSION_TTL /\ session'[u].bundle =< puts'
  <2> TAKE u \in Sessions
  <2>1. CASE u = s
    BY <1>1, <1>2, <1>3, <1>5, <2>1
  <2>2. CASE u # s
    <3>1. session'[u] = session[u] /\ session[u] \in [bundle : Nat, until : Nat]
          /\ session[u].until =< clock + SESSION_TTL /\ session[u].bundle =< puts
      BY <1>5, <2>2 DEF LiveInv
    <3> QED
      BY <1>1, <1>2, <3>1
  <2> QED
    BY <2>1, <2>2
<1>7. LiveInv'
  BY <1>1, <1>2, <1>4, <1>5, <1>6 DEF LiveInv
<1>8. IndexInv'
  <2> SUFFICES ASSUME ~overtaken' PROVE IndexInv'
    BY DEF IndexInv
  <2>1. ~overtaken /\ ~Deleting
    BY <1>1
  <2>2. \A d \in Calls : call'[d].op \notin {"srem", "dels"}
    BY <1>3, <1>4, <2>1 DEF Deleting
  <2>3. ASSUME NEW u \in Sessions, GetSession(u)' # 0, ~PutOf(u)'
        PROVE  u \in index'.members /\ (index'.until = Persistent \/ session'[u].until =< index'.until)
    <3>1. u # s
      BY <1>3, <1>4, <2>3 DEF PutOf
    <3>2. ~PutOf(u)
      BY <1>1, <1>4, <2>3 DEF PutOf
    <3>3. GetSession(u) # 0 /\ session'[u] = session[u]
      BY <1>1, <1>5, <2>3, <3>1 DEF GetSession
    <3> QED
      BY <1>1, <2>1, <3>2, <3>3 DEF IndexInv
  <2> QED
    BY <2>2, <2>3 DEF IndexInv, Deleting
<1> QED
  BY <1>7, <1>8

\* SADD, then EXPIRE.
LEMMA PutGoesOnLive ==
  ASSUME LiveInv, IndexInv, NEW c \in Calls, PutAdds(c) \/ PutExpires(c)
  PROVE  LiveInv' /\ IndexInv'
<1>0. /\ clock \in Nat /\ SESSION_TTL \in Nat /\ call[c] \in LiveCall /\ call[c].of \subseteq Sessions
      /\ index \in [members : SUBSET Sessions, until : Nat \cup {Persistent}]
      /\ Members \subseteq index.members /\ index.members \subseteq Sessions
  BY Constants DEF LiveInv, LiveCall, Members
<1>1. CASE PutAdds(c)
  <2> DEFINE x == [call[c] EXCEPT !.op = "expire"]
             m == Members \cup call[c].of
             n == IF Members = {} THEN Persistent ELSE index.until
  <2>1. /\ call[c].op = "sadd" /\ index' = [members |-> m, until |-> n]
        /\ call' = [call EXCEPT ![c] = x]
        /\ UNCHANGED <<clock, session, puts, overtaken>>
    BY <1>0, <1>1 DEF PutAdds, LiveCall, LiveInv
  <2>2. x \in LiveCall /\ x.op = "expire" /\ x.of = call[c].of /\ call[c].of # {}
    BY <1>0, <2>1 DEF LiveCall, LiveInv
  <2>3. m \in SUBSET Sessions /\ n \in Nat \cup {Persistent}
    BY <1>0
  <2> HIDE DEF x
  <2>4. /\ call' \in [Calls -> LiveCall] /\ call'[c] = x
        /\ \A d \in Calls : d # c => call'[d] = call[d]
        /\ \A d \in Calls : call'[d].op \in {"sadd", "expire"} => call'[d].of # {}
    BY <2>1, <2>2, CallTypes
  <2>5. index' \in [members : SUBSET Sessions, until : Nat \cup {Persistent}]
        /\ index'.members = m /\ index'.until = n
    BY <2>1, <2>3
  <2>6. LiveInv'
    BY <2>1, <2>4, <2>5 DEF LiveInv
  <2>7. IndexInv'
    <3> SUFFICES ASSUME ~overtaken PROVE IndexInv'
      BY <2>1 DEF IndexInv
    <3>1. Putting /\ ~Deleting
      BY <2>1 DEF Putting, IndexInv
    <3>2. \A d \in Calls : call'[d].op \notin {"srem", "dels"}
      BY <2>2, <2>4, <3>1 DEF Deleting
    <3>3. ASSUME NEW u \in Sessions, GetSession(u)' # 0, ~PutOf(u)'
          PROVE  u \in m /\ (n = Persistent \/ session'[u].until =< n)
      <4>1. ~PutOf(u)
        BY <2>1, <2>2, <2>4, <3>3 DEF PutOf
      <4>2. GetSession(u) # 0
        BY <2>1, <3>3 DEF GetSession
      <4>3. u \in index.members /\ (index.until = Persistent \/ session[u].until =< index.until)
        BY <4>1, <4>2 DEF IndexInv
      <4>4. clock < session[u].until /\ session[u].until \in Nat
        BY <4>2, Servable DEF LiveInv
      <4>5. index.until = Persistent \/ clock < index.until
        BY <1>0, <4>3, <4>4 DEF Persistent
      <4>6. u \in Members
        BY <4>3, <4>5 DEF Members
      <4> QED
        BY <2>1, <4>3, <4>6
    <3> QED
      BY <2>5, <3>2, <3>3 DEF IndexInv, Deleting
  <2> QED
    BY <2>6, <2>7
<1>2. CASE PutExpires(c)
  <2>1. /\ call[c].op = "expire" /\ call' = [call EXCEPT ![c] = Resting]
        /\ index' = IF Members = {} THEN index ELSE [index EXCEPT !.until = clock + SESSION_TTL]
        /\ overtaken' = (overtaken \/ ~(call[c].of \subseteq Members))
        /\ UNCHANGED <<clock, session, puts>>
    BY <1>2 DEF PutExpires
  <2>2. Resting \in LiveCall /\ Resting.op = "none" /\ call[c].of # {}
    BY <2>1 DEF LiveCall, LiveInv, Resting
  <2>4. /\ call' \in [Calls -> LiveCall] /\ call'[c] = Resting
        /\ \A d \in Calls : d # c => call'[d] = call[d]
        /\ \A d \in Calls : call'[d].op \in {"sadd", "expire"} => call'[d].of # {}
    BY <2>1, <2>2, CallTypes
  <2>5. index' \in [members : SUBSET Sessions, until : Nat \cup {Persistent}]
    BY <1>0, <2>1
  <2>6. LiveInv'
    BY <2>1, <2>4, <2>5 DEF LiveInv
  <2>7. IndexInv'
    <3> SUFFICES ASSUME ~overtaken' PROVE IndexInv'
      BY DEF IndexInv
    <3>1. ~overtaken /\ call[c].of \subseteq Members /\ Members # {}
      BY <2>1, <2>2
    <3>2. index'.members = index.members /\ index'.until = clock + SESSION_TTL
      BY <1>0, <2>1, <3>1
    <3>3. ~Deleting
      BY <2>1, <3>1 DEF Putting, IndexInv
    <3>4. \A d \in Calls : call'[d].op \notin {"srem", "dels"}
      BY <2>2, <2>4, <3>3 DEF Deleting
    <3>5. ASSUME NEW u \in Sessions, GetSession(u)' # 0, ~PutOf(u)'
          PROVE  u \in index'.members /\ session'[u].until =< index'.until
      <4>1. session'[u].until =< index'.until
        BY <2>1, <3>2 DEF LiveInv
      <4>2. CASE u \in call[c].of
        BY <1>0, <3>1, <3>2, <4>1, <4>2
      <4>3. CASE u \notin call[c].of
        <5>1. ~PutOf(u)
          BY <2>1, <2>4, <3>5, <4>3 DEF PutOf
        <5>2. GetSession(u) # 0
          BY <2>1, <3>5 DEF GetSession
        <5> QED
          BY <3>1, <3>2, <4>1, <5>1, <5>2 DEF IndexInv
      <4> QED
        BY <4>2, <4>3
    <3> QED
      BY <3>4, <3>5 DEF IndexInv, Deleting
  <2> QED
    BY <2>6, <2>7
<1> QED
  BY <1>1, <1>2

\* A delete begins: of one session, or of all the script's.
LEMMA DeleteLive ==
  ASSUME LiveInv, IndexInv, NEW c \in Calls,
         DeleteSessionsOfScript(c) \/ \E s \in Sessions : DeleteSession(c, s)
  PROVE  LiveInv' /\ IndexInv'
<1>0. /\ clock \in Nat /\ NoSession \in [bundle : Nat, until : Nat] /\ NoSession.bundle = 0
      /\ NoSession.until = 0 /\ Members \subseteq Sessions /\ Members \subseteq index.members
      /\ SESSION_TTL \in Nat /\ puts \in Nat
  BY Constants DEF LiveInv, NoSession, Members
<1>1. /\ call[c].op = "none" /\ overtaken' = (overtaken \/ Putting)
      /\ UNCHANGED <<clock, index, puts>>
  BY DEF DeleteSessionsOfScript, DeleteSession, Note
<1>2. PICK x \in LiveCall :
        /\ call' = [call EXCEPT ![c] = x]
        /\ \/ x.op = "dels" /\ x.rest = Members /\ session' = session
           \/ \E s \in Sessions : x.op = "srem" /\ x.of = {s} /\ session' = [session EXCEPT ![s] = NoSession]
  <2>1. CASE DeleteSessionsOfScript(c)
    <3> DEFINE y == [op |-> "dels", of |-> {}, bundle |-> 0, rest |-> Members]
    <3>1. y \in LiveCall /\ y.op = "dels" /\ y.rest = Members
      BY <1>0 DEF LiveCall
    <3>2. call' = [call EXCEPT ![c] = y] /\ session' = session
      BY <2>1 DEF DeleteSessionsOfScript
    <3> QED
      BY <3>1, <3>2
  <2>2. ASSUME NEW s \in Sessions, DeleteSession(c, s)
        PROVE  \E x \in LiveCall : /\ call' = [call EXCEPT ![c] = x] /\ x.op = "srem" /\ x.of = {s}
                                   /\ session' = [session EXCEPT ![s] = NoSession]
    <3> DEFINE y == [op |-> "srem", of |-> {s}, bundle |-> 0, rest |-> {}]
    <3>1. y \in LiveCall /\ y.op = "srem" /\ y.of = {s}
      BY <1>0 DEF LiveCall
    <3>2. call' = [call EXCEPT ![c] = y] /\ session' = [session EXCEPT ![s] = NoSession]
      BY <2>2 DEF DeleteSession
    <3> QED
      BY <3>1, <3>2
  <2> QED
    BY <2>1, <2>2
<1>3. /\ call' \in [Calls -> LiveCall] /\ call'[c] = x
      /\ \A d \in Calls : d # c => call'[d] = call[d]
      /\ \A d \in Calls : call'[d].op \in {"sadd", "expire"} => call'[d].of # {}
  BY <1>2, CallTypes
<1>4. session' \in [Sessions -> [bundle : Nat, until : Nat]]
      /\ \A u \in Sessions : session'[u] \in {session[u], NoSession}
  BY <1>0, <1>2 DEF LiveInv
<1>5. LiveInv'
  <2>1. \A u \in Sessions : session'[u].until =< clock + SESSION_TTL /\ session'[u].bundle =< puts
    BY <1>0, <1>4 DEF LiveInv
  <2> QED
    BY <1>1, <1>3, <1>4, <2>1 DEF LiveInv
<1>6. IndexInv'
  <2> SUFFICES ASSUME ~overtaken' PROVE IndexInv'
    BY DEF IndexInv
  <2>1. ~overtaken /\ ~Putting
    BY <1>1
  <2>2. \A d \in Calls : call[d].op \notin {"sadd", "expire"} /\ call'[d].op \notin {"sadd", "expire"}
    BY <1>2, <1>3, <2>1 DEF Putting
  <2>3. ASSUME NEW u \in Sessions, GetSession(u)' # 0
        PROVE  /\ session'[u] = session[u] /\ GetSession(u) # 0
               /\ u \in index.members /\ (index.until = Persistent \/ session[u].until =< index.until)
               /\ u \in Members
    <3>1. session'[u] = session[u]
      BY <1>0, <1>4, <2>3 DEF GetSession
    <3>2. GetSession(u) # 0
      BY <1>1, <2>3, <3>1 DEF GetSession
    <3>3. u \in index.members /\ (index.until = Persistent \/ session[u].until =< index.until)
      BY <2>1, <2>2, <3>2 DEF IndexInv, PutOf
    <3>4. clock < session[u].until /\ session[u].until \in Nat
          /\ index.until \in Nat \cup {Persistent}
      BY <3>2, Servable DEF LiveInv
    <3>5. index.until = Persistent \/ clock < index.until
      BY <1>0, <3>3, <3>4 DEF Persistent
    <3>6. u \in Members
      BY <3>3, <3>5 DEF Members
    <3> QED
      BY <3>1, <3>2, <3>3, <3>6
  <2>4. ASSUME NEW d \in Calls, NEW u \in Sessions
        PROVE  /\ call'[d].op = "srem" /\ u \in call'[d].of => session'[u].bundle = 0
               /\ call'[d].op = "dels" /\ GetSession(u)' # 0 => u \in call'[d].rest
    <3>1. CASE d # c
      BY <1>0, <1>3, <1>4, <2>1, <2>3, <3>1 DEF IndexInv
    <3>2. CASE d = c
      <4>1. x.op = "srem" /\ u \in x.of => session'[u].bundle = 0
        BY <1>0, <1>2 DEF LiveInv
      <4>2. x.op = "dels" => x.rest = Members
        BY <1>2
      <4> QED
        BY <1>3, <2>3, <3>2, <4>1, <4>2
    <3> QED
      BY <3>1, <3>2
  <2> QED
    BY <1>1, <2>2, <2>3, <2>4 DEF IndexInv, Putting
<1> QED
  BY <1>5, <1>6

\* The call is over, or dropped half way: a dropped put counts as overtaken.
LEMMA CallEndsLive ==
  ASSUME LiveInv, IndexInv, NEW c \in Calls, call' = [call EXCEPT ![c] = Resting],
         call[c].op \in {"sadd", "expire"} => overtaken', overtaken => overtaken', overtaken' \in BOOLEAN,
         UNCHANGED <<clock, session, puts>>,
         index' \in [members : SUBSET Sessions, until : Nat \cup {Persistent}],
         \/ index' = index
         \/ \A u \in Sessions : GetSession(u) # 0 /\ ~overtaken /\ ~PutOf(u) =>
              u \in index'.members /\ index'.until = index.until
  PROVE  LiveInv' /\ IndexInv'
<1>1. Resting \in LiveCall /\ Resting.op = "none"
  BY DEF LiveCall, Resting
<1>2. /\ call' \in [Calls -> LiveCall] /\ call'[c] = Resting
      /\ \A d \in Calls : d # c => call'[d] = call[d]
      /\ \A d \in Calls : call'[d].op \in {"sadd", "expire"} => call'[d].of # {}
  BY <1>1, CallTypes
<1>3. LiveInv'
  BY <1>2 DEF LiveInv
<1>4. IndexInv'
  <2> SUFFICES ASSUME ~overtaken' PROVE IndexInv'
    BY DEF IndexInv
  <2>1. ~overtaken /\ call[c].op \notin {"sadd", "expire"}
    OBVIOUS
  <2>2. ~(Putting /\ Deleting)'
    <3>1. Putting' => Putting
      BY <1>1, <1>2 DEF Putting
    <3>2. Deleting' => Deleting
      BY <1>1, <1>2 DEF Deleting
    <3> QED
      BY <2>1, <3>1, <3>2 DEF IndexInv
  <2>3. \A u \in Sessions : (GetSession(u)' # 0 <=> GetSession(u) # 0) /\ (~PutOf(u)' => ~PutOf(u))
    BY <1>2, <2>1 DEF GetSession, PutOf
  <2>4. \A u \in Sessions : GetSession(u)' # 0 /\ ~PutOf(u)' =>
          u \in index'.members /\ (index'.until = Persistent \/ session'[u].until =< index'.until)
    BY <2>1, <2>3 DEF IndexInv
  <2>5. \A d \in Calls, u \in Sessions :
          /\ call'[d].op = "srem" /\ u \in call'[d].of => session'[u].bundle = 0
          /\ call'[d].op = "dels" /\ GetSession(u)' # 0 => u \in call'[d].rest
    BY <1>1, <1>2, <2>1, <2>3 DEF IndexInv
  <2> QED
    BY <2>2, <2>4, <2>5 DEF IndexInv
<1> QED
  BY <1>3, <1>4

\* A session that can be served is in the set, as redis answers it.
LEMMA InMembers ==
  ASSUME LiveInv, IndexInv, ~overtaken, NEW u \in Sessions, GetSession(u) # 0, ~PutOf(u)
  PROVE  u \in Members
<1>1. u \in index.members /\ (index.until = Persistent \/ session[u].until =< index.until)
  BY DEF IndexInv
<1>2. clock < session[u].until /\ session[u].until \in Nat /\ clock \in Nat
      /\ index.until \in Nat \cup {Persistent}
  BY Servable DEF LiveInv
<1>3. index.until = Persistent \/ clock < index.until
  BY <1>1, <1>2 DEF Persistent
<1> QED
  BY <1>1, <1>3 DEF Members

\* Every call of the session manager.
LEMMA LiveNextLive ==
  ASSUME LiveInv, IndexInv, LiveNext
  PROVE  LiveInv' /\ IndexInv'
<1>0. PICK c \in Calls :
        \/ PutAdds(c) \/ PutExpires(c) \/ SessionRemoved(c) \/ DeleteMember(c) \/ CallLost(c)
        \/ DeleteSessionsOfScript(c)
        \/ \E s \in Sessions : PutSession(c, s) \/ DeleteSession(c, s)
  BY DEF LiveNext
<1>1. /\ index \in [members : SUBSET Sessions, until : Nat \cup {Persistent}]
      /\ NoIndex \in [members : SUBSET Sessions, until : Nat \cup {Persistent}]
      /\ Members \subseteq Sessions /\ overtaken \in BOOLEAN
  BY DEF LiveInv, NoIndex, Members
<1>2. CASE SessionRemoved(c)
  <2> DEFINE m == Members \ call[c].of
  <2>1. /\ call[c].op = "srem" /\ call' = [call EXCEPT ![c] = Resting]
        /\ index' = IF m = {} THEN NoIndex ELSE [index EXCEPT !.members = m]
        /\ UNCHANGED <<clock, session, puts, overtaken>>
    BY <1>2 DEF SessionRemoved
  <2>2. ASSUME NEW u \in Sessions, GetSession(u) # 0, ~overtaken, ~PutOf(u)
        PROVE  u \in m
    <3>1. u \in Members
      BY <2>2, InMembers
    <3>2. session[u].bundle # 0
      BY <2>2, Servable
    <3> QED
      BY <2>1, <2>2, <3>1, <3>2 DEF IndexInv
  <2>3. m \in SUBSET Sessions
    BY <1>1
  <2> HIDE DEF m
  <2>4. index' \in [members : SUBSET Sessions, until : Nat \cup {Persistent}]
        /\ (m # {} => index'.members = m /\ index'.until = index.until)
    BY <1>1, <2>1, <2>3
  <2>5. \A u \in Sessions : GetSession(u) # 0 /\ ~overtaken /\ ~PutOf(u) =>
          u \in index'.members /\ index'.until = index.until
    BY <2>2, <2>4
  <2>6. /\ call[c].op \notin {"sadd", "expire"} /\ (overtaken => overtaken')
        /\ overtaken' \in BOOLEAN
    BY <1>1, <2>1
  <2> QED
    BY <2>1, <2>4, <2>5, <2>6, CallEndsLive
<1>3. CASE DeleteMember(c)
  <2>0. call[c].op = "dels" /\ UNCHANGED <<clock, puts, overtaken>>
    BY <1>3 DEF DeleteMember
  <2>1. CASE call' = [call EXCEPT ![c] = Resting] /\ call[c].rest = {} /\ index' = NoIndex
             /\ UNCHANGED session
    <3>1. \A u \in Sessions : GetSession(u) # 0 /\ ~overtaken => u \in call[c].rest
      BY <2>0 DEF IndexInv
    <3>2. /\ call[c].op \notin {"sadd", "expire"} /\ (overtaken => overtaken')
          /\ overtaken' \in BOOLEAN
      BY <1>1, <2>0
    <3> QED
      BY <1>1, <2>0, <2>1, <3>1, <3>2, CallEndsLive
  <2>2. ASSUME NEW s \in call[c].rest, session' = [session EXCEPT ![s] = NoSession],
               call' = [call EXCEPT ![c].rest = @ \ {s}], UNCHANGED index
        PROVE  LiveInv' /\ IndexInv'
    <3> DEFINE x == [call[c] EXCEPT !.rest = @ \ {s}]
    <3>1. call[c] \in LiveCall /\ s \in Sessions /\ call' = [call EXCEPT ![c] = x]
      BY <2>2 DEF LiveInv, LiveCall
    <3>2. x \in LiveCall /\ x.op = "dels" /\ x.rest = call[c].rest \ {s}
      BY <2>0, <3>1 DEF LiveCall
    <3> HIDE DEF x
    <3>3. /\ call' \in [Calls -> LiveCall] /\ call'[c] = x
          /\ \A d \in Calls : d # c => call'[d] = call[d]
          /\ \A d \in Calls : call'[d].op \in {"sadd", "expire"} => call'[d].of # {}
      BY <3>1, <3>2, CallTypes
    <3>4. /\ NoSession \in [bundle : Nat, until : Nat] /\ NoSession.bundle = 0 /\ NoSession.until = 0
          /\ clock \in Nat /\ puts \in Nat /\ SESSION_TTL \in Nat
      BY Constants DEF LiveInv, NoSession
    <3>5. /\ session' \in [Sessions -> [bundle : Nat, until : Nat]] /\ session'[s] = NoSession
          /\ \A u \in Sessions : u # s => session'[u] = session[u]
      BY <2>2, <3>1, <3>4 DEF LiveInv
    <3>6. \A u \in Sessions : session'[u].until =< clock + SESSION_TTL /\ session'[u].bundle =< puts
      BY <3>4, <3>5 DEF LiveInv
    <3>7. LiveInv'
      BY <2>0, <2>2, <3>3, <3>5, <3>6 DEF LiveInv
    <3>8. \A u \in Sessions : GetSession(u)' # 0 => u # s /\ GetSession(u) # 0 /\ session'[u] = session[u]
      BY <2>0, <3>4, <3>5 DEF GetSession
    <3>9. (Putting' => Putting) /\ (Deleting' => Deleting) /\ \A u \in Sessions : PutOf(u) => PutOf(u)'
      BY <2>0, <3>2, <3>3 DEF Putting, Deleting, PutOf
    <3>10. ~overtaken => \A d \in Calls, u \in Sessions :
             /\ call'[d].op = "srem" /\ u \in call'[d].of => session'[u].bundle = 0
             /\ call'[d].op = "dels" /\ GetSession(u)' # 0 => u \in call'[d].rest
      BY <2>0, <3>2, <3>3, <3>4, <3>5, <3>8 DEF IndexInv
    <3>11. IndexInv'
      BY <2>0, <2>2, <3>8, <3>9, <3>10 DEF IndexInv
    <3> QED
      BY <3>7, <3>11
  <2> QED
    BY <1>3, <2>1, <2>2 DEF DeleteMember
<1>4. CASE CallLost(c)
  <2>1. /\ overtaken' = (overtaken \/ call[c].op \in {"sadd", "expire"})
        /\ call' = [call EXCEPT ![c] = Resting] /\ UNCHANGED <<clock, session, index, puts>>
    BY <1>4 DEF CallLost
  <2>2. /\ call[c].op \in {"sadd", "expire"} => overtaken'
        /\ overtaken => overtaken' /\ overtaken' \in BOOLEAN
    BY <1>1, <2>1
  <2> QED
    BY <1>1, <2>1, <2>2, CallEndsLive
<1> QED
  BY <1>0, <1>2, <1>3, <1>4, PutSessionLive, PutGoesOnLive, DeleteLive

\* Time passes: keys expire, the set never before its members.
LEMMA TickLive ==
  ASSUME LiveInv, IndexInv, clock' = clock + 1, UNCHANGED live
  PROVE  LiveInv' /\ IndexInv'
<1>1. clock \in Nat /\ clock' \in Nat /\ SESSION_TTL \in Nat /\ puts \in Nat
      /\ UNCHANGED <<session, index, call, puts, overtaken>>
  BY Constants DEF LiveInv, live
<1>2. \A s \in Sessions : session'[s].until =< clock' + SESSION_TTL /\ session'[s].bundle =< puts'
  <2> TAKE s \in Sessions
  <2>1. session[s].until \in Nat /\ session[s].until =< clock + SESSION_TTL /\ session[s].bundle =< puts
    BY DEF LiveInv
  <2> QED
    BY <1>1, <2>1
<1>3. LiveInv'
  BY <1>1, <1>2 DEF LiveInv
<1>4. \A s \in Sessions : GetSession(s)' # 0 => GetSession(s) # 0
  <2> TAKE s \in Sessions
  <2>1. session[s].until \in Nat
    BY DEF LiveInv
  <2> QED
    BY <1>1, <2>1 DEF GetSession
<1>5. IndexInv'
  BY <1>1, <1>4 DEF IndexInv, Putting, Deleting, PutOf
<1> QED
  BY <1>3, <1>5

\* The sessions' invariants hold in every step.
LEMMA NextLive ==
  ASSUME LiveInv, IndexInv, [Next]_vars
  PROVE  LiveInv' /\ IndexInv'
<1>1. CASE UNCHANGED <<clock, live>>
  <2>1. UNCHANGED <<clock, session, index, call, puts, overtaken>>
    BY <1>1 DEF live
  <2>2. LiveInv'
    BY <2>1 DEF LiveInv
  <2>3. IndexInv'
    BY <2>1 DEF IndexInv, Putting, Deleting, PutOf, GetSession
  <2> QED
    BY <2>2, <2>3
<1>2. CASE Tick
  BY <1>2, TickLive DEF Tick
<1>3. CASE SessionCalls
  BY <1>3, LiveNextLive DEF SessionCalls
<1>4. CASE ServiceStep \/ CronStep \/ (\E r \in Revisions : Evict(r)) \/ \E q \in Requests : RequestStep(q)
  <2>1. CASE ServiceStep
    BY <1>1, <2>1 DEF ServiceStep, PublishRevision, MoveAlias, DeleteRevision, MoveOwner
  <2>2. CASE CronStep
    BY <1>1, <2>2 DEF CronStep, ArmingEnds, ArmEvent, FireAlarm, FireCron, FiringLost
  <2>3. CASE \E r \in Revisions : Evict(r)
    BY <1>1, <2>3 DEF Evict
  <2>4. CASE \E q \in Requests : RequestStep(q)
    BY <1>1, <2>4, RequestFrame
  <2> QED
    BY <1>4, <2>1, <2>2, <2>3, <2>4, SMTT(60)
<1> QED
  BY <1>1, <1>2, <1>3, <1>4, Steps DEF vars

--------------------------------------------------------------------------------
(* The requests.  First what happens beside them: what a pointer named up to   *)
(* now it names still, or it is known to have named it now.                    *)

Keeps(p, l, p2, l2, now) ==
  \A s \in Scripts, r \in Revisions, since \in Int :
    since =< now /\ Named(p, l, s, r, since) => Named(p2, l2, s, r, since)
KeepsOwner(o, l, o2, l2, now) ==
  \A s \in Scripts, since \in Int :
    since =< now /\ Owned(o, l, s, since) => Owned(o2, l2, s, since)
KeepsBundles(ss, p, ss2, p2) ==
  \A s \in Sessions, f \in Int :
    f =< p /\ (ss[s].bundle = 0 \/ f =< ss[s].bundle) =>
      f =< p2 /\ (ss2[s].bundle = 0 \/ f =< ss2[s].bundle)

\* The pointer of r's script moves, to wherever, and its history is written.
LEMMA PointerMoves ==
  ASSUME NEW p, NEW l \in [Revisions -> Int], NEW r \in Revisions, clock \in Nat,
         p \in [Scripts -> Revisions \cup {None}],
         NEW l2, l2 = Later(l, Moved(p, r))
  PROVE  /\ l2 \in [Revisions -> Int]
         /\ \A w : Keeps(p, l, [p EXCEPT ![ScriptOf[r]] = w], l2, clock)
<1> DEFINE s == ScriptOf[r]
           m == Moved(p, r)
<1>1. s \in Scripts /\ Never \in Int
  BY Constants
<1>2. m \in [Revisions -> Int] /\ (p[s] # None => m[p[s]] = clock)
  BY <1>1, Constants DEF Moved
<1> HIDE DEF m
<1>3. l2 = [x \in Revisions |-> IF l[x] > m[x] THEN l[x] ELSE m[x]]
  BY DEF Later, m
<1>4. l2 \in [Revisions -> Int] /\ \A x \in Revisions : l2[x] >= l[x] /\ l2[x] >= m[x]
  BY <1>2, <1>3
<1>5. ASSUME NEW w, NEW t \in Scripts, NEW x \in Revisions, NEW since \in Int, since =< clock,
             Named(p, l, t, x, since)
      PROVE  Named([p EXCEPT ![s] = w], l2, t, x, since)
  <2>1. CASE l[x] >= since
    BY <1>4, <1>5, <2>1 DEF Named
  <2>2. CASE p[t] = x /\ t # s
    BY <1>1, <2>2 DEF Named
  <2>3. CASE p[t] = x /\ t = s
    <3>1. x # None
      BY Constants
    <3>2. m[x] = clock /\ l2[x] \in Int /\ l2[x] >= clock
      BY <1>2, <1>4, <2>3, <3>1
    <3> QED
      BY <1>5, <3>2 DEF Named
  <2> QED
    BY <1>5, <2>1, <2>2, <2>3 DEF Named
<1> QED
  BY <1>4, <1>5 DEF Keeps

\* The pointer is moved off r, if it named it.
LEMMA PointerCleared ==
  ASSUME NEW p, NEW l \in [Revisions -> Int], NEW r \in Revisions, clock \in Nat,
         p \in [Scripts -> Revisions \cup {None}], NEW s \in Scripts, s = ScriptOf[r],
         NEW w \in Revisions \cup {None}, p[s] # r => w = p[s],
         NEW l2 \in [Revisions -> Int], \A x \in Revisions : x # r => l2[x] = l[x],
         l2[r] = IF p[s] = r THEN clock ELSE l[r]
  PROVE  Keeps(p, l, [p EXCEPT ![s] = w], l2, clock)
<1>1. l2 \in [Revisions -> Int] /\ (\A x \in Revisions : x # r => l2[x] = l[x])
      /\ l2[r] = IF p[s] = r THEN clock ELSE l[r]
  OBVIOUS
<1>2. ASSUME NEW t \in Scripts, NEW x \in Revisions, NEW since \in Int, since =< clock,
             Named(p, l, t, x, since)
      PROVE  Named([p EXCEPT ![s] = w], l2, t, x, since)
  <2>1. CASE x = r /\ p[s] = r
    BY <1>1, <1>2, <2>1 DEF Named
  <2>2. CASE x # r \/ p[s] # r
    <3>1. l2[x] = l[x]
      BY <1>1, <2>2
    <3>2. p[t] = x => [p EXCEPT ![s] = w][t] = x
      BY <2>2
    <3> QED
      BY <1>2, <3>1, <3>2 DEF Named
  <2> QED
    BY <2>1, <2>2
<1> QED
  BY <1>1, <1>2 DEF Keeps

\* A step of the script service.
LEMMA ServiceMoves ==
  ASSUME ServiceInv, clock \in Nat, ServiceStep
  PROVE  /\ ServiceInv'
         /\ Keeps(current, last.current, current', last'.current, clock)
         /\ Keeps(alias, last.alias, alias', last'.alias, clock)
         /\ KeepsOwner(owner, last.owner, owner', last'.owner, clock)
<1>0. /\ stored \subseteq Revisions /\ owner \in Scripts
      /\ current \in [Scripts -> Revisions \cup {None}] /\ alias \in [Scripts -> Revisions \cup {None}]
      /\ \A s \in Scripts : current[s] \in RevisionsOf(s) \cup {None} /\ alias[s] \in RevisionsOf(s) \cup {None}
      /\ last \in [current : [Revisions -> Int], alias : [Revisions -> Int], owner : [Scripts -> Int]]
      /\ last.current \in [Revisions -> Int] /\ last.alias \in [Revisions -> Int]
      /\ last.owner \in [Scripts -> Int]
  BY DEF ServiceInv
<1>1. ASSUME NEW p, NEW l PROVE Keeps(p, l, p, l, clock)
  BY DEF Keeps
<1>2. ASSUME NEW o, NEW l PROVE KeepsOwner(o, l, o, l, clock)
  BY DEF KeepsOwner
<1>3. ASSUME NEW r \in Revisions, PublishRevision(r)
      PROVE  /\ ServiceInv'
             /\ Keeps(current, last.current, current', last'.current, clock)
             /\ Keeps(alias, last.alias, alias', last'.alias, clock)
             /\ KeepsOwner(owner, last.owner, owner', last'.owner, clock)
  <2> DEFINE n == Later(last.current, Moved(current, r))
  <2>1. /\ last' = [last EXCEPT !.current = n] /\ current' = [current EXCEPT ![ScriptOf[r]] = r]
        /\ UNCHANGED <<alias, stored, owner>>
    BY <1>3 DEF PublishRevision
  <2>2. n \in [Revisions -> Int] /\ Keeps(current, last.current, current', n, clock)
    BY <1>0, <2>1, PointerMoves
  <2> HIDE DEF n
  <2>3. /\ last'.current = n /\ last'.alias = last.alias /\ last'.owner = last.owner
        /\ last' \in [current : [Revisions -> Int], alias : [Revisions -> Int], owner : [Scripts -> Int]]
    BY <1>0, <2>1, <2>2
  <2>4. /\ current' \in [Scripts -> Revisions \cup {None}]
        /\ \A s \in Scripts : current'[s] \in RevisionsOf(s) \cup {None}
    BY <1>0, <2>1, Constants DEF RevisionsOf
  <2> QED
    BY <1>0, <1>1, <1>2, <2>1, <2>2, <2>3, <2>4 DEF ServiceInv
<1>4. ASSUME NEW r \in Revisions, MoveAlias(r)
      PROVE  /\ ServiceInv'
             /\ Keeps(current, last.current, current', last'.current, clock)
             /\ Keeps(alias, last.alias, alias', last'.alias, clock)
             /\ KeepsOwner(owner, last.owner, owner', last'.owner, clock)
  <2> DEFINE n == Later(last.alias, Moved(alias, r))
  <2>1. /\ last' = [last EXCEPT !.alias = n] /\ alias' = [alias EXCEPT ![ScriptOf[r]] = r]
        /\ UNCHANGED <<current, stored, owner>>
    BY <1>4 DEF MoveAlias
  <2>2. n \in [Revisions -> Int] /\ Keeps(alias, last.alias, alias', n, clock)
    BY <1>0, <2>1, PointerMoves
  <2> HIDE DEF n
  <2>3. /\ last'.alias = n /\ last'.current = last.current /\ last'.owner = last.owner
        /\ last' \in [current : [Revisions -> Int], alias : [Revisions -> Int], owner : [Scripts -> Int]]
    BY <1>0, <2>1, <2>2
  <2>4. /\ alias' \in [Scripts -> Revisions \cup {None}]
        /\ \A s \in Scripts : alias'[s] \in RevisionsOf(s) \cup {None}
    BY <1>0, <2>1, Constants DEF RevisionsOf
  <2> QED
    BY <1>0, <1>1, <1>2, <2>1, <2>2, <2>3, <2>4 DEF ServiceInv
<1>5. ASSUME NEW s \in Scripts, MoveOwner(s)
      PROVE  /\ ServiceInv'
             /\ Keeps(current, last.current, current', last'.current, clock)
             /\ Keeps(alias, last.alias, alias', last'.alias, clock)
             /\ KeepsOwner(owner, last.owner, owner', last'.owner, clock)
  <2> DEFINE n == [last.owner EXCEPT ![owner] = clock]
  <2>1. /\ last' = [last EXCEPT !.owner = n] /\ owner' = s /\ UNCHANGED <<current, alias, stored>>
    BY <1>0, <1>5 DEF MoveOwner
  <2>2. n \in [Scripts -> Int] /\ KeepsOwner(owner, last.owner, owner', n, clock)
    BY <1>0, <2>1 DEF KeepsOwner, Owned
  <2> HIDE DEF n
  <2>3. /\ last'.owner = n /\ last'.current = last.current /\ last'.alias = last.alias
        /\ last' \in [current : [Revisions -> Int], alias : [Revisions -> Int], owner : [Scripts -> Int]]
    BY <1>0, <2>1, <2>2
  <2> QED
    BY <1>0, <1>1, <2>1, <2>2, <2>3 DEF ServiceInv
<1>6. ASSUME NEW r \in Revisions, DeleteRevision(r)
      PROVE  /\ ServiceInv'
             /\ Keeps(current, last.current, current', last'.current, clock)
             /\ Keeps(alias, last.alias, alias', last'.alias, clock)
             /\ KeepsOwner(owner, last.owner, owner', last'.owner, clock)
  <2> DEFINE s == ScriptOf[r]
             others == {x \in stored \ {r} : ScriptOf[x] = s}
             y == IF alias[s] = r THEN None ELSE alias[s]
             n == Later(last.current, Moved(current, r))
             m == [last.alias EXCEPT ![r] = IF alias[s] = r THEN clock ELSE @]
  <2>0. PICK w \in Revisions \cup {None} : IsOldest(w, others) /\ current' = [current EXCEPT ![s] = w]
    BY <1>6 DEF DeleteRevision
  <2>1. /\ stored' = stored \ {r} /\ owner' = owner
        /\ current' = [current EXCEPT ![s] = w] /\ alias' = [alias EXCEPT ![s] = y]
        /\ last' = [last EXCEPT !.current = n, !.alias = m]
    BY <1>0, <1>6, <2>0 DEF DeleteRevision
  <2>2. s \in Scripts /\ w \in RevisionsOf(s) \cup {None} /\ y \in RevisionsOf(s) \cup {None}
    <3>1. s \in Scripts
      BY Constants
    <3>2. w \in others \cup {None}
      BY <2>0 DEF IsOldest
    <3>3. others \subseteq RevisionsOf(s)
      BY <1>0 DEF RevisionsOf
    <3> QED
      BY <1>0, <3>1, <3>2, <3>3
  <2>3. alias[s] # r => y = alias[s]
    OBVIOUS
  <2>4. RevisionsOf(s) \subseteq Revisions
    BY DEF RevisionsOf
  <2> HIDE DEF y, others
  <2>5. n \in [Revisions -> Int] /\ Keeps(current, last.current, [current EXCEPT ![s] = w], n, clock)
    BY <1>0, PointerMoves
  <2>10. m \in [Revisions -> Int] /\ (\A x \in Revisions : x # r => m[x] = last.alias[x])
        /\ m[r] = IF alias[s] = r THEN clock ELSE last.alias[r]
    BY <1>0
  <2>11. s = ScriptOf[r] /\ y \in Revisions \cup {None}
    BY <2>2, <2>4
  <2> HIDE DEF n, m, s
  <2>6. m \in [Revisions -> Int] /\ Keeps(alias, last.alias, [alias EXCEPT ![s] = y], m, clock)
    BY <1>0, <2>2, <2>3, <2>10, <2>11, PointerCleared
  <2>7. /\ last'.owner = last.owner /\ last'.current = n /\ last'.alias = m
        /\ last' \in [current : [Revisions -> Int], alias : [Revisions -> Int], owner : [Scripts -> Int]]
    BY <1>0, <2>1, <2>5, <2>6
  <2>8. /\ current' \in [Scripts -> Revisions \cup {None}] /\ alias' \in [Scripts -> Revisions \cup {None}]
        /\ \A t \in Scripts : current'[t] \in RevisionsOf(t) \cup {None} /\ alias'[t] \in RevisionsOf(t) \cup {None}
    BY <1>0, <2>1, <2>2, <2>4
  <2> QED
    BY <1>0, <1>2, <2>1, <2>5, <2>6, <2>7, <2>8 DEF ServiceInv
<1> QED
  BY <1>3, <1>4, <1>5, <1>6 DEF ServiceStep

InTime(v, now) == v.pc \notin {"free", "done"} /\ v.target # "object" => now =< v.start + DEADLINE

\* So a request stays within its bounds.
LEMMA TimelyKeeps ==
  ASSUME NEW v \in Request, Own(v),
         NEW c, NEW a, NEW o, NEW l, NEW now \in Nat, NEW ss, NEW p,
         NEW c2, NEW a2, NEW o2, NEW l2, NEW now2 \in {now, now + 1}, NEW ss2, NEW p2,
         Timely(v, c, a, o, l, now, ss, p),
         InTime(v, now2),
         Keeps(c, l.current, c2, l2.current, now), Keeps(a, l.alias, a2, l2.alias, now),
         KeepsOwner(o, l.owner, o2, l2.owner, now), KeepsBundles(ss, p, ss2, p2)
  PROVE  Timely(v, c2, a2, o2, l2, now2, ss2, p2)
<1>0. InTime(v, now2)
  OBVIOUS
<1>1. v.start \in Nat /\ Limit(v) \in Int /\ Limit(v) =< v.start /\ v.floor \in Int
  BY Constants DEF Request, Limit
<1>2. v.pc # "free" => v.start =< now /\ v.start =< now2 /\ Limit(v) =< now
  BY <1>1 DEF Timely
<1>3. /\ v.answer = "served" => v.pc = "done"
      /\ Bound(v) => v.pc # "free"
  BY DEF Own, Bound
<1>4. \A s \in Scripts : RevisionsOf(s) \subseteq Revisions
  BY DEF RevisionsOf
<1>5. v.loading /\ v.pc = "pointer" /\ v.got # None => Named(c2, l2.current, v.script, v.got, v.start)
  BY <1>1, <1>2, <1>4 DEF Own, Timely, Keeps
<1>6. v.loading /\ v.pc = "alias" => Named(a2, l2.alias, v.script, v.got, v.start)
  BY <1>1, <1>2, <1>4 DEF Own, Timely, Keeps
<1>7. Bound(v) /\ v.target \in {"published", "aliased", "object"} => v.script \in Scripts /\ v.rev \in Revisions
  BY DEF Own, Bound
<1>8. /\ v.target = "published" /\ Bound(v) => Named(c2, l2.current, v.script, v.rev, Limit(v))
      /\ v.target = "aliased" /\ Bound(v) => Named(a2, l2.alias, v.script, v.rev, Limit(v))
  BY <1>1, <1>2, <1>3, <1>7 DEF Timely, Keeps
<1>9. v.target = "object" /\ (v.pc \in {"row", "revision"} \/ v.answer = "served") =>
        v.floor =< now2 /\ Owned(o2, l2.owner, v.script, v.floor)
  <2>1. v.target = "object" /\ (v.pc \in {"row", "revision"} \/ v.answer = "served") =>
          v.script \in Scripts /\ v.floor =< now /\ Owned(o, l.owner, v.script, v.floor)
    BY DEF Own, Timely
  <2> QED
    BY <1>1, <2>1 DEF KeepsOwner
<1>10. v.target = "object" /\ Bound(v) => Named(c2, l2.current, v.script, v.rev, v.floor)
  <2>1. v.target = "object" /\ Bound(v) => v.floor =< now /\ Named(c, l.current, v.script, v.rev, v.floor)
    BY DEF Timely, Bound
  <2> QED
    BY <1>1, <1>7, <2>1 DEF Keeps
<1>12. v.target = "live" /\ v.pc \in {"pointer", "session"} =>
         v.floor =< p2 /\ (ss2[v.session].bundle = 0 \/ v.floor =< ss2[v.session].bundle)
  BY <1>1 DEF Own, Timely, KeepsBundles
<1>13. v.target = "live" /\ v.answer = "served" => v.floor >= 0
  BY DEF Timely
<1> QED
  BY <1>0, <1>2, <1>5, <1>6, <1>8, <1>9, <1>10, <1>12, <1>13 DEF Timely, InTime

\* And so does a cached pointer.
LEMMA CacheKeeps ==
  ASSUME CacheInv, clock \in Nat, clock' \in {clock, clock + 1}, UNCHANGED <<pointers, aliases, owners>>,
         revisions' \in [Revisions -> Scripts \cup {None}],
         \A r \in Revisions : revisions'[r] \in {None, ScriptOf[r]},
         Keeps(current, last.current, current', last'.current, clock),
         Keeps(alias, last.alias, alias', last'.alias, clock),
         KeepsOwner(owner, last.owner, owner', last'.owner, clock)
  PROVE  CacheInv'
<1>1. \A s \in Scripts : RevisionsOf(s) \subseteq Revisions
  BY DEF RevisionsOf
<1>2. DEADLINE \in Nat /\ \A r \in Revisions : ScriptOf[r] \in Scripts
  BY Constants
<1>3. ASSUME NEW s \in Scripts
      PROVE  LET e == pointers[s] IN
             /\ e.at =< clock' /\ e.rev \in RevisionsOf(s) \cup {None}
             /\ e.rev # None => Named(current', last'.current, s, e.rev, e.at - DEADLINE)
  <2>1. /\ pointers[s].at \in Int /\ pointers[s].at =< clock
        /\ pointers[s].rev \in RevisionsOf(s) \cup {None}
        /\ pointers[s].rev # None =>
             Named(current, last.current, s, pointers[s].rev, pointers[s].at - DEADLINE)
    BY DEF CacheInv, Entry
  <2>2. pointers[s].at - DEADLINE \in Int /\ pointers[s].at - DEADLINE =< clock /\ pointers[s].at =< clock'
    BY <1>2, <2>1
  <2> QED
    BY <1>1, <2>1, <2>2 DEF Keeps
<1>4. ASSUME NEW s \in Scripts
      PROVE  LET e == aliases[s] IN
             /\ e.at =< clock'
             /\ e.at # Never => /\ e.rev \in RevisionsOf(s)
                                /\ Named(alias', last'.alias, s, e.rev, e.at - DEADLINE)
  <2>1. /\ aliases[s].at \in Int /\ aliases[s].at =< clock
        /\ aliases[s].at # Never =>
             /\ aliases[s].rev \in RevisionsOf(s)
             /\ Named(alias, last.alias, s, aliases[s].rev, aliases[s].at - DEADLINE)
    BY DEF CacheInv, Entry
  <2>2. aliases[s].at - DEADLINE \in Int /\ aliases[s].at - DEADLINE =< clock /\ aliases[s].at =< clock'
    BY <1>2, <2>1
  <2> QED
    BY <1>1, <2>1, <2>2 DEF Keeps
<1>5. /\ owners.asked =< clock'
      /\ owners.at # Never =>
           /\ owners.rev \in Revisions
           /\ Owned(owner', last'.owner, ScriptOf[owners.rev], owners.asked)
           /\ Named(current', last'.current, ScriptOf[owners.rev], owners.rev, owners.asked)
  <2>1. /\ owners.asked \in Int /\ owners.asked =< clock
        /\ owners.at # Never =>
             /\ owners.rev \in Revisions
             /\ Owned(owner, last.owner, ScriptOf[owners.rev], owners.asked)
             /\ Named(current, last.current, ScriptOf[owners.rev], owners.rev, owners.asked)
    BY DEF CacheInv, OwnerEntry
  <2>2. owners.asked =< clock'
    BY <2>1
  <2> QED
    BY <1>2, <2>1, <2>2 DEF Keeps, KeepsOwner
<1> QED
  BY <1>3, <1>4, <1>5 DEF CacheInv

\* All steps beside the requests: the clock, the services, the crons, an eviction.
LEMMA BesideServe ==
  ASSUME ServeInv, IndexInv,
         Tick \/ SessionCalls \/ ServiceStep \/ CronStep \/ \E r \in Revisions : Evict(r)
  PROVE  ServeInv'
<1>0. clock \in Nat /\ puts \in Nat /\ LiveInv /\ ServiceInv
  BY SMTT(60) DEF ServeInv, LiveInv
<1>1. UNCHANGED <<scene, request, pointers, aliases, owners>>
  BY DEF Tick, SessionCalls, ServiceStep, PublishRevision, MoveAlias, DeleteRevision, MoveOwner,
         CronStep, ArmingEnds, ArmEvent, FireAlarm, FireCron, FiringLost, Evict, caches
<1>2. clock' \in {clock, clock + 1} /\ \A q \in Requests :
        Busy(q) /\ request[q].target # "object" => clock' = clock \/ clock < request[q].start + DEADLINE
  <2>1. CASE Tick
    BY <2>1 DEF Tick
  <2>2. CASE SessionCalls
    BY <2>2 DEF SessionCalls, LiveNext, PutSession, PutAdds, PutExpires, DeleteSession,
                SessionRemoved, DeleteSessionsOfScript, DeleteMember, CallLost
  <2>3. CASE ServiceStep
    BY <2>3 DEF ServiceStep, PublishRevision, MoveAlias, DeleteRevision, MoveOwner
  <2>4. CASE CronStep \/ \E r \in Revisions : Evict(r)
    BY <2>4 DEF CronStep, ArmingEnds, ArmEvent, FireAlarm, FireCron, FiringLost, Evict
  <2> QED
    BY <2>1, <2>2, <2>3, <2>4
<1>3. LiveInv'
  BY <1>0, NextLive DEF ServeInv, Next, ServiceStep, CronStep
<1>4. KeepsBundles(session, puts, session', puts')
  <2>1. CASE SessionCalls
    <3>1. /\ puts' \in {puts, puts + 1}
          /\ \A s \in Sessions : \/ session'[s] = session[s] \/ session'[s] = NoSession
                                 \/ session'[s].bundle = puts + 1 /\ puts' = puts + 1
      <4>1. PICK c \in Calls :
              \/ PutAdds(c) \/ PutExpires(c) \/ SessionRemoved(c) \/ DeleteMember(c) \/ CallLost(c)
              \/ DeleteSessionsOfScript(c)
              \/ \E s \in Sessions : PutSession(c, s) \/ DeleteSession(c, s)
        BY <2>1 DEF SessionCalls, LiveNext
      <4>2. CASE UNCHANGED <<session, puts>>
        BY <4>2
      <4>3. CASE DeleteMember(c)
        BY <1>0, <4>3 DEF DeleteMember, LiveInv
      <4>4. ASSUME NEW s \in Sessions, PutSession(c, s)
            PROVE  /\ puts' = puts + 1
                   /\ \A u \in Sessions : session'[u] = session[u] \/ session'[u].bundle = puts + 1
        BY <1>0, <4>4 DEF PutSession, LiveInv
      <4>5. ASSUME NEW s \in Sessions, DeleteSession(c, s)
            PROVE  /\ puts' = puts
                   /\ \A u \in Sessions : session'[u] = session[u] \/ session'[u] = NoSession
        BY <1>0, <4>5 DEF DeleteSession, LiveInv
      <4> QED
        BY <4>1, <4>2, <4>3, <4>4, <4>5 DEF PutAdds, PutExpires, SessionRemoved, CallLost, DeleteSessionsOfScript
    <3>2. NoSession.bundle = 0
      BY DEF NoSession
    <3> QED
      BY <1>0, <3>1, <3>2 DEF KeepsBundles
  <2>2. CASE UNCHANGED <<session, puts>>
    BY <2>2 DEF KeepsBundles
  <2> QED
    BY <2>1, <2>2 DEF Tick, ServiceStep, PublishRevision, MoveAlias, DeleteRevision, MoveOwner,
                      CronStep, ArmingEnds, ArmEvent, FireAlarm, FireCron, FiringLost, Evict, live
<1>5. /\ ServiceInv'
      /\ Keeps(current, last.current, current', last'.current, clock)
      /\ Keeps(alias, last.alias, alias', last'.alias, clock)
      /\ KeepsOwner(owner, last.owner, owner', last'.owner, clock)
  <2>1. CASE ServiceStep
    BY <1>0, <2>1, ServiceMoves
  <2>2. CASE UNCHANGED <<current, alias, stored, owner, last>>
    BY <1>0, <2>2 DEF ServiceInv, Keeps, KeepsOwner
  <2> QED
    BY <2>1, <2>2 DEF Tick, SessionCalls, CronStep, ArmingEnds, ArmEvent, FireAlarm, FireCron,
                      FiringLost, Evict, service
<1>6. /\ revisions' \in [Revisions -> Scripts \cup {None}]
      /\ \A r \in Revisions : revisions'[r] \in {None, ScriptOf[r]}
  <2>1. revisions' = revisions \/ \E r \in Revisions : revisions' = [revisions EXCEPT ![r] = None]
    BY DEF Tick, SessionCalls, ServiceStep, PublishRevision, MoveAlias, DeleteRevision, MoveOwner,
           CronStep, ArmingEnds, ArmEvent, FireAlarm, FireCron, FiringLost, Evict, caches
  <2> QED
    BY <2>1 DEF ServeInv, CacheInv
<1>7. CacheInv'
  BY <1>0, <1>1, <1>2, <1>5, <1>6, CacheKeeps DEF ServeInv
<1>8. ASSUME NEW q \in Requests
      PROVE  Own(request[q]) /\ Timely(request[q], current', alias', owner', last', clock', session', puts')
  <2>1. /\ request[q] \in Request /\ Own(request[q])
        /\ Timely(request[q], current, alias, owner, last, clock, session, puts)
    BY DEF ServeInv, RequestInv
  <2>2. InTime(request[q], clock')
    <3>1. request[q].start \in Nat /\ DEADLINE \in Nat
      BY <2>1, Constants DEF Request
    <3>2. request[q].pc \notin {"free", "done"} /\ request[q].target # "object" =>
            Busy(q) /\ clock =< request[q].start + DEADLINE
      BY <2>1 DEF Busy, Timely
    <3> QED
      BY <1>0, <1>2, <3>1, <3>2 DEF InTime
  <2>3. clock \in Nat /\ clock' \in {clock, clock + 1}
    BY <1>0, <1>2
  <2>4. Timely(request[q], current', alias', owner', last', clock', session', puts')
    BY <1>4, <1>5, <2>1, <2>2, <2>3, TimelyKeeps, SMTT(60)
  <2> QED
    BY <2>1, <2>4
<1>9. RequestInv'
  BY <1>1, <1>8 DEF ServeInv, RequestInv
<1> QED
  BY <1>1, <1>3, <1>5, <1>7, <1>9 DEF ServeInv, SceneInv

--------------------------------------------------------------------------------
(* A request's own steps.                                                      *)

SoundRequest(v) ==
  v \in Request /\ Own(v) /\ Timely(v, current, alias, owner, last, clock, session, puts)

\* One request moves.
LEMMA OneRequest ==
  ASSUME RequestInv, NEW q \in Requests, NEW v, SoundRequest(v), request' = [request EXCEPT ![q] = v],
         UNCHANGED <<clock, session, current, alias, owner, last, puts>>
  PROVE  RequestInv'
<1>1. request' \in [Requests -> Request] /\ request'[q] = v
      /\ \A p \in Requests : p # q => request'[p] = request[p]
  BY DEF RequestInv, SoundRequest
<1>2. \A p \in Requests : /\ Own(request'[p])
                          /\ Timely(request'[p], current', alias', owner', last', clock', session', puts')
  BY <1>1 DEF RequestInv, SoundRequest
<1> QED
  BY <1>1, <1>2 DEF RequestInv

\* A request that ends without being served.
LEMMA Finished ==
  ASSUME NEW v, SoundRequest(v), v.pc # "free", NEW w \in Request, w.pc = "done",
         w.loading = FALSE, w.answer # "served", w.start = v.start
  PROVE  SoundRequest(w)
<1>1. Own(w)
  BY DEF Own
<1>2. w.start =< clock
  BY DEF SoundRequest, Timely
<1>3. Timely(w, current, alias, owner, last, clock, session, puts)
  BY <1>2 DEF Timely, Bound
<1> QED
  BY <1>1, <1>3 DEF SoundRequest

\* A load fails, for all who wait for it.
LEMMA LoadFailsServe ==
  ASSUME RequestInv, NEW q \in Requests, NEW answers \in [Targets -> {"error", "absent"}],
         LoadFails(q, answers), request[q].pc \notin {"free", "done"},
         UNCHANGED <<clock, session, current, alias, owner, last, puts>>
  PROVE  RequestInv'
<1>1. PICK joined \in SUBSET Waiting(q) :
        request' = [p \in Requests |->
          IF p \in joined \cup {q}
          THEN [Landed(request[p]) EXCEPT !.pc = "done", !.answer = answers[request[p].target]]
          ELSE request[p]]
  BY DEF LoadFails
<1>2. ASSUME NEW p \in Requests PROVE SoundRequest(request'[p])
  <2>0. SoundRequest(request[p])
    BY DEF RequestInv, SoundRequest
  <2>1. CASE p \notin joined \cup {q}
    BY <1>1, <2>0, <2>1
  <2>2. CASE p \in joined \cup {q}
    <3>1. request[p].pc \notin {"free", "done"}
      BY <2>2 DEF Waiting, SameKey, At
    <3>2. request[p].target \in Targets
      BY <2>0, <3>1 DEF SoundRequest, Own, Request, Targets
    <3> DEFINE x == answers[request[p].target]
               w == [Landed(request[p]) EXCEPT !.pc = "done", !.answer = x]
    <3>3. x \in {"error", "absent"}
      BY <3>2
    <3> HIDE DEF x
    <3>4. Landed(request[p]) \in Request /\ Landed(request[p]).loading = FALSE
          /\ Landed(request[p]).start = request[p].start
      BY <2>0 DEF SoundRequest, Request, Landed
    <3>5. w \in Request /\ w.pc = "done" /\ w.loading = FALSE /\ w.answer = x /\ w.start = request[p].start
      BY <3>3, <3>4, ZenonT(60) DEF Request
    <3>6. request'[p] = w
      BY <1>1, <2>2 DEF x
    <3> HIDE DEF w
    <3>7. w.answer # "served"
      BY <3>3, <3>5
    <3> QED
      BY <2>0, <3>1, <3>5, <3>6, <3>7, Finished
  <2> QED
    BY <2>1, <2>2
<1>3. request' \in [Requests -> Request]
  <2>1. DOMAIN request' = Requests /\ request' = [p \in Requests |-> request'[p]]
    BY <1>1
  <2>2. \A p \in Requests : request'[p] \in Request
    BY <1>2 DEF SoundRequest
  <2> QED
    BY <2>1, <2>2
<1>4. \A p \in Requests : /\ Own(request'[p])
                          /\ Timely(request'[p], current', alias', owner', last', clock', session', puts')
  BY <1>2 DEF SoundRequest
<1> QED
  BY <1>3, <1>4 DEF RequestInv

\* The script row is there.
LEMMA WithRowServe ==
  ASSUME LiveInv, NEW v, SoundRequest(v), v.pc = "pointer", v.loading = FALSE,
         NEW row \in RevisionsOf(v.script) \cup {None},
         row # None => Named(current, last.current, v.script, row, Limit(v))
  PROVE  SoundRequest(WithRow(v, row))
<1>0. /\ v \in Request /\ Own(v) /\ Timely(v, current, alias, owner, last, clock, session, puts)
      /\ v.target \in {"published", "preview", "aliased", "live"} /\ v.answer # "served"
      /\ v.script \in Scripts
  BY DEF SoundRequest, Own
<1>1. CASE v.target = "published" /\ row = None
  <2> DEFINE w == [v EXCEPT !.pc = "done", !.answer = "absent"]
  <2>1. WithRow(v, row) = w
    BY <1>1 DEF WithRow
  <2>2. w \in Request /\ w.pc = "done" /\ w.loading = FALSE /\ w.answer # "served" /\ w.start = v.start
    BY <1>0 DEF Request
  <2> HIDE DEF w
  <2> QED
    BY <2>1, <2>2, Finished
<1>2. CASE v.target = "published" /\ row # None
  <2> DEFINE w == [v EXCEPT !.pc = "revision", !.rev = row]
  <2>1. WithRow(v, row) = w
    BY <1>2 DEF WithRow
  <2>2. row \in Revisions /\ ScriptOf[row] = v.script
    BY <1>2 DEF RevisionsOf
  <2>3. /\ w \in Request /\ w.pc = "revision" /\ w.target = "published" /\ w.script = v.script
        /\ w.rev = row /\ w.loading = FALSE /\ w.start = v.start /\ w.answer = v.answer
    BY <1>0, <1>2, <2>2 DEF Request
  <2> HIDE DEF w
  <2>4. Own(w)
    BY <1>0, <2>2, <2>3 DEF Own
  <2>5. Limit(w) = Limit(v)
    BY <2>3 DEF Limit
  <2>6. Timely(w, current, alias, owner, last, clock, session, puts)
    BY <1>0, <1>2, <2>3, <2>5 DEF Timely
  <2> QED
    BY <2>1, <2>3, <2>4, <2>6 DEF SoundRequest
<1>3. ASSUME NEW pc \in {"revision", "alias", "session"}, WithRow(v, row) = [v EXCEPT !.pc = pc],
             \/ pc = "revision" /\ v.target = "preview"
             \/ pc = "alias" /\ v.target = "aliased"
             \/ pc = "session" /\ v.target = "live"
      PROVE  SoundRequest(WithRow(v, row))
  <2> DEFINE w == [v EXCEPT !.pc = pc]
  <2>1. /\ w \in Request /\ w.pc = pc /\ w.target = v.target /\ w.script = v.script
        /\ w.rev = v.rev /\ w.loading = FALSE /\ w.start = v.start /\ w.answer = v.answer
        /\ w.session = v.session /\ w.floor = v.floor
    BY <1>0 DEF Request
  <2> HIDE DEF w
  <2>2. Own(w)
    BY <1>0, <1>3, <2>1 DEF Own
  <2>3. Timely(w, current, alias, owner, last, clock, session, puts)
    BY <1>0, <1>3, <2>1 DEF Timely, Bound
  <2> QED
    BY <1>3, <2>1, <2>2, <2>3 DEF SoundRequest, w
<1>4. CASE v.target = "preview"
  BY <1>3, <1>4 DEF WithRow
<1>5. CASE v.target = "aliased"
  BY <1>3, <1>5 DEF WithRow
<1>6. CASE v.target = "live"
  BY <1>3, <1>6 DEF WithRow
<1> QED
  BY <1>0, <1>1, <1>2, <1>4, <1>5, <1>6

\* What was named since a time was named since any earlier one.
LEMMA Earlier ==
  ASSUME NEW p, NEW l \in [Revisions -> Int], NEW s, NEW r \in Revisions,
         NEW since \in Int, NEW since2 \in Int, since2 =< since, Named(p, l, s, r, since)
  PROVE  Named(p, l, s, r, since2)
<1>1. l[r] \in Int
  OBVIOUS
<1> QED
  BY <1>1 DEF Named

\* The times of a request under way.
LEMMA Times ==
  ASSUME LiveInv, NEW v, SoundRequest(v), v.pc \notin {"free", "done"}
  PROVE  /\ v.start \in Nat /\ clock \in Nat /\ DEADLINE \in Nat /\ POINTER_TTL \in Nat
         /\ v.start =< clock /\ Limit(v) \in Int /\ Limit(v) =< v.start
         /\ v.target # "object" => clock =< v.start + DEADLINE /\ clock - DEADLINE =< v.start
         /\ \A at \in Int : clock < at + POINTER_TTL => Limit(v) =< at - DEADLINE
         /\ \A at \in Int : clock < at + POINTER_TTL => at # Never
<1>1. v.start \in Nat /\ clock \in Nat /\ DEADLINE \in Nat /\ POINTER_TTL \in Nat /\ POINTER_TTL > 0
  BY Constants DEF SoundRequest, Request, LiveInv
<1>2. v.start =< clock /\ (v.target # "object" => clock =< v.start + DEADLINE)
  BY DEF SoundRequest, Timely
<1>3. \A at \in Int : clock < at + POINTER_TTL => at # Never
  BY <1>1, Constants
<1> QED
  BY <1>1, <1>2, <1>3 DEF Limit

\* The result of its load is taken off a request.
LEMMA LandedServe ==
  ASSUME NEW v, SoundRequest(v)
  PROVE  LET w == Landed(v) IN
         /\ SoundRequest(w) /\ w.loading = FALSE /\ w.got = None /\ w.pc = v.pc /\ w.target = v.target
         /\ w.script = v.script /\ w.rev = v.rev /\ w.session = v.session /\ w.start = v.start
         /\ w.floor = v.floor /\ w.answer = v.answer
<1> DEFINE w == Landed(v)
<1>1. /\ w \in Request /\ w.loading = FALSE /\ w.got = None /\ w.pc = v.pc /\ w.target = v.target
      /\ w.script = v.script /\ w.rev = v.rev /\ w.session = v.session /\ w.start = v.start
      /\ w.floor = v.floor /\ w.answer = v.answer
  BY DEF SoundRequest, Request, Landed
<1> HIDE DEF w
<1>2. Own(w)
  BY <1>1 DEF SoundRequest, Own
<1>3. Limit(w) = Limit(v) /\ (Bound(w) <=> Bound(v))
  BY <1>1 DEF Limit, Bound
<1>4. Timely(w, current, alias, owner, last, clock, session, puts)
  BY <1>1, <1>3 DEF SoundRequest, Timely
<1> QED
  BY <1>1, <1>2, <1>4 DEF SoundRequest, w

\* A request comes.
LEMMA AskServe ==
  ASSUME ServeInv, NEW q \in Requests, Ask(q)
  PROVE  RequestInv'
<1>1. PICK target \in Targets, s \in Scripts \cup {None}, r \in Revisions \cup {None},
           t \in Sessions \cup {None} :
        /\ Arrive(q, target, s, r, t)
        /\ target # "object" => s \in Scripts
        /\ target = "preview" => r \in Revisions
        /\ target = "live" => t \in Sessions
  BY DEF Ask, ServeInv, SceneInv, Targets
<1> DEFINE g == IF t = None THEN 0 ELSE GetSession(t)
           pc == IF target = "object" THEN "owner" ELSE "pointer"
           v == [Free EXCEPT !.pc = pc, !.target = target, !.script = s, !.rev = r, !.session = t,
                             !.start = clock, !.floor = g]
<1>2. request' = [request EXCEPT ![q] = v] /\ UNCHANGED <<clock, session, current, alias, owner, last, puts>>
  BY <1>1 DEF Arrive, live, service
<1>3. clock \in Nat /\ DEADLINE \in Nat /\ puts \in Nat
  BY Constants DEF ServeInv, LiveInv
<1>4. g \in Int /\ (t \in Sessions => g =< puts /\ (session[t].bundle = 0 \/ g =< session[t].bundle))
  <2>1. t \in Sessions => session[t].bundle \in Nat /\ session[t].bundle =< puts
    BY DEF ServeInv, LiveInv
  <2>2. g = 0 \/ (t \in Sessions /\ g = session[t].bundle)
    BY DEF GetSession
  <2> QED
    BY <1>3, <2>1, <2>2
<1>5. pc \in {"owner", "pointer"} /\ (pc = "owner" <=> target = "object")
  OBVIOUS
<1> HIDE DEF g, pc
<1>6. Free \in Request
  BY DEF Free, Request
<1>7. /\ v \in Request /\ v.pc = pc /\ v.target = target /\ v.script = s /\ v.rev = r /\ v.session = t
      /\ v.loading = FALSE /\ v.start = clock /\ v.floor = g /\ v.answer = "none"
  <2>1. Free.loading = FALSE /\ Free.answer = "none"
    BY DEF Free
  <2> QED
    BY <1>3, <1>4, <1>5, <1>6, <2>1, ZenonT(60) DEF Request
<1> HIDE DEF v
<1>8. Own(v)
  BY <1>1, <1>5, <1>7 DEF Own, Targets
<1>9. Timely(v, current, alias, owner, last, clock, session, puts)
  BY <1>1, <1>3, <1>4, <1>5, <1>7 DEF Timely, Bound
<1> QED
  BY <1>2, <1>7, <1>8, <1>9, OneRequest DEF ServeInv, SoundRequest

\* A request leaves, or times out.
LEMMA EndsServe ==
  ASSUME ServeInv, NEW q \in Requests, Leave(q) \/ Timeout(q)
  PROVE  RequestInv'
<1>0. SoundRequest(request[q]) /\ RequestInv
  BY DEF ServeInv, RequestInv, SoundRequest
<1>1. CASE Leave(q)
  <2>1. request' = [request EXCEPT ![q] = Free] /\ UNCHANGED <<clock, session, current, alias, owner, last, puts>>
    BY <1>1 DEF Leave, live, service
  <2>2. Free \in Request /\ Free.pc = "free" /\ Free.loading = FALSE /\ Free.answer = "none"
        /\ Free.target = "none"
    BY DEF Free, Request
  <2>3. Own(Free) /\ Timely(Free, current, alias, owner, last, clock, session, puts)
    BY <2>2 DEF Own, Timely, Bound
  <2> QED
    BY <1>0, <2>1, <2>2, <2>3, OneRequest DEF SoundRequest
<1>2. CASE Timeout(q)
  <2> DEFINE v == [request[q] EXCEPT !.pc = "done", !.answer = "timeout", !.loading = FALSE, !.got = None]
  <2>1. request' = [request EXCEPT ![q] = v] /\ UNCHANGED <<clock, session, current, alias, owner, last, puts>>
        /\ request[q].pc # "free"
    BY <1>0, <1>2 DEF Timeout, live, service, Busy, RequestInv, Request
  <2>2. v \in Request /\ v.pc = "done" /\ v.loading = FALSE /\ v.answer # "served"
        /\ v.start = request[q].start
    BY <1>0, ZenonT(60) DEF SoundRequest, Request
  <2> HIDE DEF v
  <2>3. SoundRequest(v)
    BY <1>0, <2>1, <2>2, Finished
  <2> QED
    BY <1>0, <2>1, <2>3, OneRequest
<1> QED
  BY <1>1, <1>2

\* A request begins the load of a pointer.
LEMMA LoadServe ==
  ASSUME ServeInv, NEW q \in Requests, NEW got \in Revisions \cup {None}, Load(q, got),
         UNCHANGED <<clock, session, current, alias, owner, last, puts>>,
         \/ request[q].pc = "pointer" /\ got = current[request[q].script]
         \/ request[q].pc = "alias" /\ got = alias[request[q].script] /\ got # None
         \/ request[q].pc = "revision" /\ ScriptOf[request[q].rev] = request[q].script
  PROVE  RequestInv'
<1>0. SoundRequest(request[q]) /\ RequestInv /\ request[q] \in Request
  BY DEF ServeInv, RequestInv, SoundRequest
<1> DEFINE v == [request[q] EXCEPT !.loading = TRUE, !.got = got]
<1>1. request' = [request EXCEPT ![q] = v]
  BY <1>0 DEF Load, RequestInv, Request
<1>2. /\ v \in Request /\ v.pc = request[q].pc /\ v.target = request[q].target
      /\ v.script = request[q].script /\ v.rev = request[q].rev /\ v.session = request[q].session
      /\ v.start = request[q].start /\ v.floor = request[q].floor /\ v.answer = request[q].answer
      /\ v.loading = TRUE /\ v.got = got
  BY <1>0 DEF Request
<1> HIDE DEF v
<1>3. v.script \in Scripts
  BY <1>0, <1>2 DEF SoundRequest, Own
<1>4. /\ v.pc = "pointer" => got \in RevisionsOf(v.script) \cup {None}
      /\ v.pc = "alias" => got \in RevisionsOf(v.script)
  BY <1>2, <1>3 DEF ServeInv, ServiceInv
<1>5. Own(v)
  BY <1>0, <1>2, <1>4 DEF SoundRequest, Own
<1>6. Limit(v) = Limit(request[q]) /\ (Bound(v) <=> Bound(request[q]))
  BY <1>2 DEF Limit, Bound
<1>7. Timely(v, current, alias, owner, last, clock, session, puts)
  BY <1>0, <1>2, <1>6 DEF SoundRequest, Timely, Named
<1> QED
  BY <1>0, <1>1, <1>2, <1>5, <1>7, OneRequest DEF SoundRequest

\* The lookup of the script row.
LEMMA PointerServe ==
  ASSUME ServeInv, NEW q \in Requests, ResolveScriptHit(q) \/ QueryScript(q) \/ ScriptArrives(q)
  PROVE  RequestInv' /\ CacheInv'
<1> DEFINE v == request[q]
           s == v.script
<1>0. /\ SoundRequest(v) /\ RequestInv /\ LiveInv /\ v \in Request /\ ServiceInv /\ CacheInv
      /\ v.pc = "pointer" /\ s \in Scripts /\ v.target # "object"
      /\ UNCHANGED <<clock, session, current, alias, owner, last, puts>>
  <2>1. SoundRequest(v) /\ RequestInv /\ LiveInv /\ v \in Request /\ ServiceInv /\ CacheInv
    BY DEF ServeInv, RequestInv, SoundRequest
  <2>2. v.pc = "pointer" /\ UNCHANGED <<clock, session, current, alias, owner, last, puts>>
    BY DEF ResolveScriptHit, QueryScript, ScriptArrives, At, live, service
  <2> QED
    BY <2>1, <2>2 DEF SoundRequest, Own
<1>1. /\ v.start \in Nat /\ clock \in Nat /\ DEADLINE \in Nat
      /\ Limit(v) \in Int /\ Limit(v) =< v.start /\ clock - DEADLINE =< v.start
      /\ \A at \in Int : clock < at + POINTER_TTL => Limit(v) =< at - DEADLINE
  BY <1>0, Times
<1>2. last.current \in [Revisions -> Int] /\ \A u \in Scripts : RevisionsOf(u) \subseteq Revisions
  BY <1>0 DEF ServiceInv, RevisionsOf
<1>3. CASE ResolveScriptHit(q)
  <2> DEFINE e == pointers[s]
             w == WithRow(v, e.rev)
  <2>1. /\ v.loading = FALSE /\ clock < e.at + POINTER_TTL /\ request' = [request EXCEPT ![q] = w]
        /\ UNCHANGED <<pointers, aliases, owners, revisions>>
    BY <1>0, <1>3 DEF ResolveScriptHit, Fresh, caches, Request
  <2>2. /\ e.rev \in RevisionsOf(s) \cup {None} /\ e.at \in Int
        /\ e.rev # None => Named(current, last.current, s, e.rev, e.at - DEADLINE)
    BY <1>0 DEF CacheInv, Entry
  <2>3. Limit(v) =< e.at - DEADLINE /\ e.at - DEADLINE \in Int
    BY <1>1, <2>1, <2>2
  <2>4. e.rev # None => Named(current, last.current, s, e.rev, Limit(v))
    BY <1>0, <1>1, <1>2, <2>2, <2>3, Earlier
  <2>5. SoundRequest(w)
    BY <1>0, <2>1, <2>2, <2>4, WithRowServe
  <2> HIDE DEF w
  <2>6. RequestInv'
    BY <1>0, <2>1, <2>5, OneRequest
  <2>7. CacheInv'
    BY <1>0, <2>1 DEF CacheInv
  <2> QED
    BY <2>6, <2>7
<1>4. CASE QueryScript(q)
  <2>1. /\ Load(q, current[s]) /\ UNCHANGED <<pointers, aliases, owners, revisions>>
    BY <1>4 DEF QueryScript, caches
  <2>2. current[s] \in Revisions \cup {None}
    BY <1>0 DEF ServiceInv
  <2>3. RequestInv'
    BY <1>0, <2>1, <2>2, LoadServe
  <2>4. CacheInv'
    BY <1>0, <2>1 DEF CacheInv
  <2> QED
    BY <2>3, <2>4
<1>5. CASE ScriptArrives(q)
  <2> DEFINE e == [rev |-> v.got, at |-> clock]
             u == Landed(v)
             w == WithRow(u, v.got)
  <2>1. /\ v.loading /\ pointers' = [pointers EXCEPT ![s] = e] /\ request' = [request EXCEPT ![q] = w]
        /\ UNCHANGED <<aliases, owners, revisions>>
    BY <1>5 DEF ScriptArrives
  <2>2. /\ v.got \in RevisionsOf(s) \cup {None}
        /\ v.got # None => Named(current, last.current, s, v.got, v.start)
    BY <1>0, <2>1 DEF SoundRequest, Own, Timely
  <2>3. v.got # None => /\ Named(current, last.current, s, v.got, Limit(v))
                        /\ Named(current, last.current, s, v.got, clock - DEADLINE)
    <3>1. clock - DEADLINE \in Int /\ v.start \in Int
      BY <1>1
    <3> QED
      BY <1>0, <1>1, <1>2, <2>2, <3>1, Earlier
  <2>4. /\ SoundRequest(u) /\ u.loading = FALSE /\ u.pc = "pointer" /\ u.script = s /\ u.start = v.start
    BY <1>0, LandedServe
  <2>5. Limit(u) = Limit(v)
    BY <2>4 DEF Limit
  <2>6. SoundRequest(w)
    BY <1>0, <2>2, <2>3, <2>4, <2>5, WithRowServe
  <2> HIDE DEF w, u
  <2>7. RequestInv'
    BY <1>0, <2>1, <2>6, OneRequest
  <2>8. e \in Entry /\ e.rev = v.got /\ e.at = clock
    BY <1>0, <1>1 DEF Entry, Request
  <2> HIDE DEF e
  <2>9. /\ pointers' \in [Scripts -> Entry] /\ pointers'[s] = e
        /\ \A t \in Scripts : t # s => pointers'[t] = pointers[t]
    BY <1>0, <2>1, <2>8 DEF CacheInv
  <2>10. \A t \in Scripts :
           LET x == pointers'[t] IN
           /\ x.at =< clock /\ x.rev \in RevisionsOf(t) \cup {None}
           /\ x.rev # None => Named(current, last.current, t, x.rev, x.at - DEADLINE)
    BY <1>0, <1>1, <2>2, <2>3, <2>8, <2>9 DEF CacheInv
  <2>11. CacheInv'
    BY <1>0, <2>1, <2>9, <2>10 DEF CacheInv
  <2> QED
    BY <2>7, <2>11
<1> QED
  BY <1>3, <1>4, <1>5

\* A request is bound to the revision its alias names.
LEMMA AliasBound ==
  ASSUME NEW v, SoundRequest(v), v.pc = "alias", v.loading = FALSE, NEW r \in RevisionsOf(v.script),
         Named(alias, last.alias, v.script, r, Limit(v)),
         NEW w, w = [v EXCEPT !.pc = "revision", !.rev = r]
  PROVE  SoundRequest(w)
<1>1. r \in Revisions /\ ScriptOf[r] = v.script /\ v \in Request /\ v.target = "aliased"
      /\ v.script \in Scripts /\ v.answer # "served"
  BY DEF RevisionsOf, SoundRequest, Own
<1>2. /\ w \in Request /\ w.pc = "revision" /\ w.rev = r /\ w.target = "aliased" /\ w.script = v.script
      /\ w.loading = FALSE /\ w.start = v.start /\ w.answer = v.answer
  BY <1>1 DEF Request
<1>3. Own(w)
  BY <1>1, <1>2 DEF Own
<1>4. Limit(w) = Limit(v)
  BY <1>2 DEF Limit
<1>5. Timely(w, current, alias, owner, last, clock, session, puts)
  BY <1>1, <1>2, <1>4 DEF SoundRequest, Timely
<1> QED
  BY <1>2, <1>3, <1>5 DEF SoundRequest

\* The lookup of the alias.
LEMMA AliasServe ==
  ASSUME ServeInv, NEW q \in Requests, AliasHit(q) \/ GetAlias(q) \/ AliasArrives(q)
  PROVE  RequestInv' /\ CacheInv'
<1> DEFINE v == request[q]
           s == v.script
<1>0. /\ SoundRequest(v) /\ RequestInv /\ LiveInv /\ v \in Request /\ ServiceInv /\ CacheInv
      /\ v.pc = "alias" /\ s \in Scripts /\ v.target # "object"
      /\ UNCHANGED <<clock, session, current, alias, owner, last, puts>>
  <2>1. SoundRequest(v) /\ RequestInv /\ LiveInv /\ v \in Request /\ ServiceInv /\ CacheInv
    BY DEF ServeInv, RequestInv, SoundRequest
  <2>2. v.pc = "alias" /\ UNCHANGED <<clock, session, current, alias, owner, last, puts>>
    BY DEF AliasHit, GetAlias, AliasArrives, At, live, service
  <2> QED
    BY <2>1, <2>2 DEF SoundRequest, Own
<1>1. /\ v.start \in Nat /\ clock \in Nat /\ DEADLINE \in Nat
      /\ Limit(v) \in Int /\ Limit(v) =< v.start /\ clock - DEADLINE =< v.start
      /\ \A at \in Int : clock < at + POINTER_TTL => Limit(v) =< at - DEADLINE
      /\ \A at \in Int : clock < at + POINTER_TTL => at # Never
  BY <1>0, Times
<1>2. last.alias \in [Revisions -> Int] /\ \A u \in Scripts : RevisionsOf(u) \subseteq Revisions
  BY <1>0 DEF ServiceInv, RevisionsOf
<1>3. CASE AliasHit(q)
  <2> DEFINE e == aliases[s]
             w == [v EXCEPT !.pc = "revision", !.rev = e.rev]
  <2>1. /\ v.loading = FALSE /\ clock < e.at + POINTER_TTL /\ request' = [request EXCEPT ![q] = w]
        /\ UNCHANGED <<pointers, aliases, owners, revisions>>
    BY <1>0, <1>3 DEF AliasHit, Fresh, caches, Request, RequestInv
  <2>2. e.at \in Int
    BY <1>0 DEF CacheInv, Entry
  <2>3. e.rev \in RevisionsOf(s) /\ Named(alias, last.alias, s, e.rev, e.at - DEADLINE)
    BY <1>0, <1>1, <2>1, <2>2 DEF CacheInv
  <2>4. Limit(v) =< e.at - DEADLINE /\ e.at - DEADLINE \in Int
    BY <1>1, <2>1, <2>2
  <2>5. Named(alias, last.alias, s, e.rev, Limit(v))
    BY <1>0, <1>1, <1>2, <2>3, <2>4, Earlier
  <2>6. SoundRequest(w)
    BY <1>0, <2>1, <2>3, <2>5, AliasBound
  <2> HIDE DEF w
  <2>7. RequestInv'
    BY <1>0, <2>1, <2>6, OneRequest
  <2>8. CacheInv'
    BY <1>0, <2>1 DEF CacheInv
  <2> QED
    BY <2>7, <2>8
<1>4. CASE GetAlias(q)
  <2>1. UNCHANGED <<pointers, aliases, owners, revisions>>
    BY <1>4 DEF GetAlias, caches
  <2>2. CASE alias[s] # None /\ Load(q, alias[s])
    <3>1. alias[s] \in Revisions \cup {None}
      BY <1>0 DEF ServiceInv
    <3> QED
      BY <1>0, <2>1, <2>2, <3>1, LoadServe DEF CacheInv
  <2>3. CASE LoadFails(q, Absent)
    <3>1. Absent \in [Targets -> {"error", "absent"}]
      BY DEF Absent
    <3>2. RequestInv'
      BY <1>0, <2>3, <3>1, LoadFailsServe
    <3> QED
      BY <1>0, <2>1, <3>2 DEF CacheInv
  <2> QED
    BY <1>4, <2>2, <2>3 DEF GetAlias
<1>5. CASE AliasArrives(q)
  <2> DEFINE e == [rev |-> v.got, at |-> clock]
             u == Landed(v)
             w == [u EXCEPT !.pc = "revision", !.rev = v.got]
  <2>1. /\ v.loading /\ aliases' = [aliases EXCEPT ![s] = e] /\ request' = [request EXCEPT ![q] = w]
        /\ UNCHANGED <<pointers, owners, revisions>>
    BY <1>5 DEF AliasArrives
  <2>2. v.got \in RevisionsOf(s) /\ Named(alias, last.alias, s, v.got, v.start)
    BY <1>0, <2>1 DEF SoundRequest, Own, Timely
  <2>3. /\ Named(alias, last.alias, s, v.got, Limit(v))
        /\ Named(alias, last.alias, s, v.got, clock - DEADLINE)
    <3>1. clock - DEADLINE \in Int /\ v.start \in Int
      BY <1>1
    <3> QED
      BY <1>0, <1>1, <1>2, <2>2, <3>1, Earlier
  <2>4. /\ SoundRequest(u) /\ u.loading = FALSE /\ u.pc = "alias" /\ u.script = s /\ u.start = v.start
    BY <1>0, LandedServe
  <2>5. Limit(u) = Limit(v)
    BY <2>4 DEF Limit
  <2>6. SoundRequest(w)
    <3> HIDE DEF u
    <3> QED
      BY <2>2, <2>3, <2>4, <2>5, AliasBound
  <2> HIDE DEF w, u
  <2>7. RequestInv'
    BY <1>0, <2>1, <2>6, OneRequest
  <2>8. e \in Entry /\ e.rev = v.got /\ e.at = clock
    BY <1>0, <1>1 DEF Entry, Request
  <2> HIDE DEF e
  <2>9. /\ aliases' \in [Scripts -> Entry] /\ aliases'[s] = e
        /\ \A t \in Scripts : t # s => aliases'[t] = aliases[t]
    BY <1>0, <2>1, <2>8 DEF CacheInv
  <2>10. \A t \in Scripts :
           LET x == aliases'[t] IN
           /\ x.at =< clock
           /\ x.at # Never => /\ x.rev \in RevisionsOf(t)
                              /\ Named(alias, last.alias, t, x.rev, x.at - DEADLINE)
    BY <1>0, <1>1, <2>2, <2>3, <2>8, <2>9 DEF CacheInv
  <2>11. CacheInv'
    BY <1>0, <2>1, <2>9, <2>10 DEF CacheInv
  <2> QED
    BY <2>7, <2>11
<1> QED
  BY <1>3, <1>4, <1>5

\* A live session's bundle is read.
LEMMA LiveServe ==
  ASSUME ServeInv, NEW q \in Requests, GetLiveSession(q)
  PROVE  RequestInv' /\ CacheInv'
<1> DEFINE v == request[q]
           b == GetSession(v.session)
           f == b - v.floor
           a == IF b = 0 THEN "absent" ELSE "served"
           w == [v EXCEPT !.pc = "done", !.floor = f, !.answer = a]
<1>0. /\ SoundRequest(v) /\ RequestInv /\ LiveInv /\ v \in Request /\ CacheInv
  BY DEF ServeInv, RequestInv, SoundRequest
<1>1. /\ v.pc = "session" /\ request' = [request EXCEPT ![q] = w]
      /\ UNCHANGED <<clock, session, current, alias, owner, last, puts>>
      /\ UNCHANGED <<pointers, aliases, owners, revisions>>
  BY <1>0 DEF GetLiveSession, At, live, service, caches, RequestInv, Request
<1>2. v.target = "live" /\ v.session \in Sessions /\ v.loading = FALSE /\ v.floor \in Int
      /\ v.start =< clock
  BY <1>0, <1>1 DEF SoundRequest, Own, Timely, Request
<1>3. b \in Nat /\ (b # 0 => b = session[v.session].bundle)
  BY <1>0, <1>2 DEF GetSession, LiveInv
<1>4. b # 0 => v.floor =< b
  BY <1>0, <1>1, <1>2, <1>3 DEF SoundRequest, Timely
<1>5. f \in Int /\ (b # 0 => f >= 0)
  BY <1>2, <1>3, <1>4
<1>6. a \in {"absent", "served"} /\ (a = "served" => b # 0)
  OBVIOUS
<1> HIDE DEF f, a, b
<1>7. /\ w \in Request /\ w.pc = "done" /\ w.floor = f /\ w.answer = a /\ w.target = "live"
      /\ w.loading = FALSE /\ w.start = v.start
  BY <1>0, <1>2, <1>5, <1>6 DEF Request
<1> HIDE DEF w
<1>8. Own(w) /\ Timely(w, current, alias, owner, last, clock, session, puts)
  BY <1>2, <1>5, <1>6, <1>7 DEF Own, Timely
<1>9. RequestInv'
  BY <1>0, <1>1, <1>7, <1>8, OneRequest DEF SoundRequest
<1> QED
  BY <1>0, <1>1, <1>9 DEF CacheInv

\* The lookup of an object's owner.
LEMMA OwnerServe ==
  ASSUME ServeInv, NEW q \in Requests, OwnerHit(q) \/ ResolveClassOwner(q) \/ OwnerRow(q)
  PROVE  RequestInv' /\ CacheInv'
<1> DEFINE v == request[q]
<1>0. /\ SoundRequest(v) /\ RequestInv /\ LiveInv /\ v \in Request /\ ServiceInv /\ CacheInv
      /\ v.pc \in {"owner", "row"} /\ v.target = "object" /\ v.loading = FALSE /\ v.answer # "served"
      /\ UNCHANGED <<clock, session, current, alias, owner, last, puts>>
      /\ UNCHANGED <<pointers, aliases, owners, revisions>>
  <2>1. SoundRequest(v) /\ RequestInv /\ LiveInv /\ v \in Request /\ ServiceInv /\ CacheInv
    BY DEF ServeInv, RequestInv, SoundRequest
  <2>2. v.pc \in {"owner", "row"} /\ UNCHANGED <<clock, session, current, alias, owner, last, puts>>
        /\ UNCHANGED <<pointers, aliases, owners, revisions>>
    BY DEF OwnerHit, ResolveClassOwner, OwnerRow, At, live, service, caches
  <2> QED
    BY <2>1, <2>2 DEF SoundRequest, Own, Request
<1>1. /\ v.start \in Nat /\ clock \in Nat /\ v.start =< clock
      /\ \A at \in Int : clock < at + POINTER_TTL => at # Never
  BY <1>0, Times
<1>2. /\ last.current \in [Revisions -> Int] /\ last.owner \in [Scripts -> Int] /\ owner \in Scripts
      /\ \A r \in Revisions : ScriptOf[r] \in Scripts
      /\ CacheInv'
  BY <1>0, Constants DEF ServiceInv, CacheInv
<1>3. CASE OwnerHit(q)
  <2> DEFINE r == owners.rev
             s == ScriptOf[r]
             w == [v EXCEPT !.pc = "done", !.answer = "served", !.rev = r, !.script = s,
                            !.floor = owners.asked]
  <2>1. clock < owners.at + POINTER_TTL /\ request' = [request EXCEPT ![q] = w]
    BY <1>0, <1>3 DEF OwnerHit, Fresh, RequestInv, Request
  <2>2. owners.at \in Int /\ owners.asked \in Int
    BY <1>0 DEF CacheInv, OwnerEntry
  <2>3. /\ r \in Revisions /\ Owned(owner, last.owner, s, owners.asked)
        /\ Named(current, last.current, s, r, owners.asked) /\ owners.asked =< clock
    BY <1>0, <1>1, <2>1, <2>2 DEF CacheInv
  <2>4. s \in Scripts
    BY <1>2, <2>3
  <2>9. ScriptOf[r] = s
    OBVIOUS
  <2> HIDE DEF r, s
  <2>6. /\ w \in Request /\ w.pc = "done" /\ w.answer = "served" /\ w.rev = r /\ w.script = s
        /\ w.target = "object" /\ w.loading = FALSE /\ w.start = v.start /\ w.floor = owners.asked
    BY <1>0, <2>2, <2>3, <2>4 DEF Request
  <2> HIDE DEF w
  <2>7. Own(w)
    BY <2>3, <2>4, <2>6, <2>9 DEF Own
  <2>8. Timely(w, current, alias, owner, last, clock, session, puts)
    BY <1>1, <2>3, <2>6 DEF Timely, Bound
  <2> QED
    BY <1>0, <1>2, <2>1, <2>6, <2>7, <2>8, OneRequest DEF SoundRequest
<1>4. CASE ResolveClassOwner(q)
  <2> DEFINE w == [v EXCEPT !.pc = "row", !.script = owner, !.floor = clock]
  <2>1. request' = [request EXCEPT ![q] = w]
    BY <1>0, <1>4 DEF ResolveClassOwner, RequestInv, Request
  <2>2. /\ w \in Request /\ w.pc = "row" /\ w.script = owner /\ w.answer = v.answer
        /\ w.target = "object" /\ w.loading = FALSE /\ w.start = v.start /\ w.floor = clock
    <3>1. clock \in Int /\ owner \in Scripts \cup {None}
      BY <1>1, <1>2
    <3> QED
      BY <1>0, <3>1 DEF Request
  <2> HIDE DEF w
  <2>3. Own(w) /\ Timely(w, current, alias, owner, last, clock, session, puts)
    BY <1>0, <1>1, <1>2, <2>2 DEF Own, Timely, Owned, Bound
  <2> QED
    BY <1>0, <1>2, <2>1, <2>2, <2>3, OneRequest DEF SoundRequest
<1>5. CASE OwnerRow(q)
  <2> DEFINE r == current[v.script]
             pc == IF r = None THEN "done" ELSE "revision"
             a == IF r = None THEN "error" ELSE v.answer
             w == [v EXCEPT !.rev = r, !.pc = pc, !.answer = a]
  <2>1. v.pc = "row" /\ request' = [request EXCEPT ![q] = w]
    BY <1>0, <1>5 DEF OwnerRow, At, RequestInv, Request
  <2>2. v.script \in Scripts /\ v.floor =< clock /\ Owned(owner, last.owner, v.script, v.floor)
    BY <1>0, <2>1 DEF SoundRequest, Own, Timely
  <2>3. r \in RevisionsOf(v.script) \cup {None}
    BY <1>0, <2>2 DEF ServiceInv
  <2>4. /\ r # None => r \in Revisions /\ ScriptOf[r] = v.script
        /\ r \in Revisions \cup {None}
    BY <2>3 DEF RevisionsOf
  <2>5. /\ pc \in {"done", "revision"} /\ (pc = "revision" <=> r # None)
        /\ a # "served" /\ a \in {"none", "timeout", "error", "absent", "served"}
    BY <1>0 DEF Request
  <2>6. Named(current, last.current, v.script, r, v.floor)
    BY DEF Named
  <2> HIDE DEF r, pc, a
  <2>7. /\ w \in Request /\ w.pc = pc /\ w.rev = r /\ w.answer = a /\ w.script = v.script
        /\ w.target = "object" /\ w.loading = FALSE /\ w.start = v.start /\ w.floor = v.floor
    BY <1>0, <2>4, <2>5, ZenonT(60) DEF Request
  <2> HIDE DEF w
  <2>8. Own(w)
    BY <2>2, <2>4, <2>5, <2>7 DEF Own
  <2>9. Timely(w, current, alias, owner, last, clock, session, puts)
    BY <1>1, <2>2, <2>5, <2>6, <2>7 DEF Timely, Bound
  <2> QED
    BY <1>0, <1>2, <2>1, <2>7, <2>8, <2>9, OneRequest DEF SoundRequest
<1> QED
  BY <1>3, <1>4, <1>5

\* The revision: a hit, a load, what the load prepares.
LEMMA RevisionServe ==
  ASSUME ServeInv, NEW q \in Requests, RevisionHit(q) \/ GetRevision(q) \/ RevisionPrepared(q)
  PROVE  RequestInv' /\ CacheInv'
<1> DEFINE v == request[q]
<1>0. /\ SoundRequest(v) /\ RequestInv /\ LiveInv /\ v \in Request /\ ServiceInv /\ CacheInv
      /\ v.pc = "revision" /\ v.rev \in Revisions /\ v.script \in Scripts /\ v.answer # "served"
      /\ UNCHANGED <<clock, session, current, alias, owner, last, puts>>
      /\ UNCHANGED <<pointers, aliases>>
  <2>1. SoundRequest(v) /\ RequestInv /\ LiveInv /\ v \in Request /\ ServiceInv /\ CacheInv
    BY DEF ServeInv, RequestInv, SoundRequest
  <2>2. v.pc = "revision" /\ UNCHANGED <<clock, session, current, alias, owner, last, puts>>
        /\ UNCHANGED <<pointers, aliases>>
    BY DEF RevisionHit, GetRevision, RevisionPrepared, At, live, service, caches
  <2> QED
    BY <2>1, <2>2 DEF SoundRequest, Own
<1>1. CASE GetRevision(q)
  <2>1. UNCHANGED <<owners, revisions>>
    BY <1>1 DEF GetRevision, caches
  <2>2. CASE ScriptOf[v.rev] = v.script /\ Load(q, v.rev)
    BY <1>0, <2>1, <2>2, LoadServe DEF CacheInv
  <2>3. CASE LoadFails(q, [Error EXCEPT !["preview"] = "absent"])
    <3>1. [Error EXCEPT !["preview"] = "absent"] \in [Targets -> {"error", "absent"}]
      BY DEF Error, Targets
    <3>2. RequestInv'
      BY <1>0, <2>3, <3>1, LoadFailsServe
    <3> QED
      BY <1>0, <2>1, <3>2 DEF CacheInv
  <2> QED
    BY <1>1, <2>2, <2>3 DEF GetRevision
<1>2. CASE RevisionHit(q) \/ RevisionPrepared(q)
  <2> DEFINE u == Landed(v)
             w == [u EXCEPT !.pc = "done", !.answer = "served"]
             e == [rev |-> v.rev, at |-> clock, asked |-> v.floor]
  <2>1. /\ request' = [request EXCEPT ![q] = w]
        /\ owners' = IF v.target = "object" THEN e ELSE owners
    BY <1>2 DEF RevisionHit, RevisionPrepared, Served
  <2>2. v.start \in Nat /\ clock \in Nat /\ v.start =< clock /\ v.floor \in Int
    BY <1>0, Times DEF Request
  <2>3. /\ SoundRequest(u) /\ u \in Request /\ u.loading = FALSE /\ u.target = v.target
        /\ u.script = v.script /\ u.rev = v.rev /\ u.start = v.start /\ u.floor = v.floor
    BY <1>0, LandedServe DEF SoundRequest
  <2>5. v.target # "preview" => ScriptOf[v.rev] = v.script
    BY <1>0 DEF SoundRequest, Own
  <2>7. v.target = "object" =>
          /\ v.floor =< clock /\ Owned(owner, last.owner, v.script, v.floor)
          /\ Named(current, last.current, v.script, v.rev, v.floor)
    BY <1>0 DEF SoundRequest, Timely, Bound
  <2>8. /\ v.target = "published" => Named(current, last.current, v.script, v.rev, Limit(v))
        /\ v.target = "aliased" => Named(alias, last.alias, v.script, v.rev, Limit(v))
        /\ v.target # "live"
    BY <1>0 DEF SoundRequest, Own, Timely, Bound
  <2> HIDE DEF u
  <2>9. /\ w \in Request /\ w.pc = "done" /\ w.answer = "served" /\ w.rev = v.rev /\ w.script = v.script
        /\ w.target = v.target /\ w.loading = FALSE /\ w.start = v.start /\ w.floor = v.floor
    BY <2>3, ZenonT(60) DEF Request
  <2> HIDE DEF w
  <2>10. Limit(w) = Limit(v)
    BY <2>9 DEF Limit
  <2>11. Own(w) /\ Timely(w, current, alias, owner, last, clock, session, puts)
    BY <1>0, <2>2, <2>5, <2>7, <2>8, <2>9, <2>10 DEF Own, Timely
  <2>12. RequestInv'
    BY <1>0, <2>1, <2>9, <2>11, OneRequest DEF SoundRequest
  <2>13. e \in OwnerEntry /\ e.rev = v.rev /\ e.at = clock /\ e.asked = v.floor
    BY <1>0, <2>2 DEF OwnerEntry
  <2> HIDE DEF e
  <2>14. /\ owners' \in OwnerEntry /\ owners'.asked =< clock
         /\ owners'.at # Never =>
              /\ owners'.rev \in Revisions
              /\ Owned(owner, last.owner, ScriptOf[owners'.rev], owners'.asked)
              /\ Named(current, last.current, ScriptOf[owners'.rev], owners'.rev, owners'.asked)
    <3>1. CASE v.target = "object"
      BY <1>0, <2>1, <2>2, <2>5, <2>7, <2>13, <3>1
    <3>2. CASE v.target # "object"
      BY <1>0, <2>1, <3>2 DEF CacheInv
    <3> QED
      BY <3>1, <3>2
  <2>15. /\ revisions' \in [Revisions -> Scripts \cup {None}]
         /\ \A r \in Revisions : revisions'[r] \in {None, ScriptOf[r]}
    <3>1. CASE RevisionHit(q)
      BY <1>0, <3>1 DEF RevisionHit, CacheInv
    <3>2. CASE RevisionPrepared(q)
      <4>1. revisions' = [revisions EXCEPT ![v.rev] = v.script] /\ v.loading
        BY <3>2 DEF RevisionPrepared
      <4>2. ScriptOf[v.rev] = v.script
        BY <1>0, <4>1 DEF SoundRequest, Own
      <4> QED
        BY <1>0, <4>1, <4>2 DEF CacheInv
    <3> QED
      BY <1>2, <3>1, <3>2
  <2>16. CacheInv'
    BY <1>0, <2>14, <2>15 DEF CacheInv
  <2> QED
    BY <2>12, <2>16
<1> QED
  BY <1>1, <1>2

--------------------------------------------------------------------------------
(* The theorems.                                                               *)

ServingInv == ServeInv /\ IndexInv /\ CronInv

\* A step of a request keeps its bounds and those of the caches.
LEMMA RequestServe ==
  ASSUME ServeInv, NEW q \in Requests, RequestStep(q)
  PROVE  ServeInv'
<1>1. UNCHANGED <<clock, live, scene, service, last>>
  BY RequestFrame
<1>2. LiveInv' /\ ServiceInv' /\ SceneInv'
  <2>1. UNCHANGED <<clock, session, index, call, puts, overtaken, scene, current, alias, stored, owner, last>>
    BY <1>1 DEF live, service
  <2> QED
    BY <2>1 DEF ServeInv, LiveInv, ServiceInv, SceneInv
<1>3. CacheInv /\ UNCHANGED <<clock, current, alias, owner, last>>
  BY <1>1 DEF ServeInv, service
<1>4. CASE Ask(q) \/ Leave(q) \/ Timeout(q)
  <2>1. UNCHANGED <<pointers, aliases, owners, revisions>>
    BY <1>4 DEF Ask, Arrive, Leave, Timeout, caches
  <2>2. CacheInv'
    BY <1>3, <2>1 DEF CacheInv
  <2> QED
    BY <1>2, <1>4, <2>2, AskServe, EndsServe, SMTT(60) DEF ServeInv
<1>5. CASE ServiceFails(q)
  <2>1. UNCHANGED <<pointers, aliases, owners, revisions>> /\ LoadFails(q, Error)
        /\ (request[q].loading \/ request[q].pc \in {"row", "session"})
    BY <1>5 DEF ServiceFails, caches, At
  <2>2. RequestInv /\ request[q].pc \notin {"free", "done"}
    BY <2>1 DEF ServeInv, RequestInv, Own
  <2>3. Error \in [Targets -> {"error", "absent"}]
    BY DEF Error
  <2>4. RequestInv'
    BY <1>1, <2>1, <2>2, <2>3, LoadFailsServe DEF live, service
  <2>5. CacheInv'
    BY <1>3, <2>1 DEF CacheInv
  <2> QED
    BY <1>2, <2>4, <2>5 DEF ServeInv
<1>6. CASE ResolveScriptHit(q) \/ QueryScript(q) \/ ScriptArrives(q)
  BY <1>2, <1>6, PointerServe DEF ServeInv
<1>7. CASE AliasHit(q) \/ GetAlias(q) \/ AliasArrives(q)
  BY <1>2, <1>7, AliasServe DEF ServeInv
<1>8. CASE GetLiveSession(q)
  BY <1>2, <1>8, LiveServe DEF ServeInv
<1>9. CASE OwnerHit(q) \/ ResolveClassOwner(q) \/ OwnerRow(q)
  BY <1>2, <1>9, OwnerServe DEF ServeInv
<1>10. CASE RevisionHit(q) \/ GetRevision(q) \/ RevisionPrepared(q)
  BY <1>2, <1>10, RevisionServe DEF ServeInv
<1> QED
  BY <1>4, <1>5, <1>6, <1>7, <1>8, <1>9, <1>10 DEF RequestStep

\* The crons' invariant, in every step.
LEMMA NextCron ==
  ASSUME ServeInv, CronInv, Next
  PROVE  CronInv'
<1>0. clock \in Nat
  BY DEF ServeInv, LiveInv
<1>1. CASE UNCHANGED <<armed, arming, alarms>>
  BY <1>1 DEF CronInv
<1>2. CASE CronStep
  BY <1>0, <1>2, ArmEventCron, AlarmCron, ArmingEndsCron DEF CronStep
<1>3. ASSUME NEW q \in Requests, RequestStep(q) PROVE CronInv'
  <2>1. UNCHANGED crons \/ (At(q, "revision") /\ ArmCrons(request[q].rev))
    BY <1>3, RequestFrame
  <2>2. At(q, "revision") => request[q].rev \in Revisions
    BY SMTT(60) DEF At, ServeInv, RequestInv, Own
  <2> QED
    BY <1>1, <2>1, <2>2, ArmCronsCron DEF crons
<1>4. CASE Tick \/ SessionCalls \/ ServiceStep \/ \E r \in Revisions : Evict(r)
  BY <1>1, <1>4 DEF Tick, SessionCalls, ServiceStep, PublishRevision, MoveAlias, DeleteRevision,
                    MoveOwner, Evict, crons
<1> QED
  BY <1>2, <1>3, <1>4, Steps

\* All of it, in every step.
LEMMA NextServing == ServingInv /\ [Next]_vars => ServingInv'
<1> SUFFICES ASSUME ServingInv, [Next]_vars PROVE ServingInv'
  OBVIOUS
<1>1. LiveInv' /\ IndexInv'
  BY NextLive DEF ServingInv, ServeInv
<1>2. CASE Next
  <2>1. ServeInv'
    BY <1>2, Steps, BesideServe, RequestServe DEF ServingInv
  <2>2. CronInv'
    BY <1>2, NextCron DEF ServingInv
  <2> QED
    BY <1>1, <2>1, <2>2 DEF ServingInv
<1>3. CASE UNCHANGED vars
  <2>1. UNCHANGED <<clock, session, puts, scene, current, alias, stored, owner, last, pointers,
                    aliases, owners, revisions, request, armed, arming, alarms>>
    BY <1>3 DEF vars, live, service, caches, crons
  <2>2. SceneInv' /\ ServiceInv' /\ CronInv'
    BY <2>1 DEF ServingInv, ServeInv, SceneInv, ServiceInv, CronInv
  <2>3. CacheInv'
    BY <2>1 DEF ServingInv, ServeInv, CacheInv
  <2>4. RequestInv'
    BY <2>1 DEF ServingInv, ServeInv, RequestInv
  <2> QED
    BY <1>1, <2>2, <2>3, <2>4 DEF ServingInv, ServeInv
<1> QED
  BY <1>2, <1>3

\* And at the start.
LEMMA InitServing == Init => ServingInv
<1> SUFFICES ASSUME Init PROVE ServingInv
  OBVIOUS
<1>1. LiveInv /\ IndexInv
  <2>1. /\ clock = 0 /\ session = [s \in Sessions |-> NoSession] /\ index = NoIndex
        /\ call = [c \in Calls |-> Resting] /\ puts = 0 /\ overtaken = FALSE
    BY DEF Init, LiveInit
  <2>2. /\ NoSession \in [bundle : Nat, until : Nat] /\ NoSession.bundle = 0 /\ NoSession.until = 0
        /\ NoIndex \in [members : SUBSET Sessions, until : Nat \cup {Persistent}]
        /\ Resting \in LiveCall /\ Resting.op = "none" /\ SESSION_TTL \in Nat
    BY Constants DEF NoSession, NoIndex, Resting, LiveCall
  <2>3. LiveInv
    <3>1. session \in [Sessions -> [bundle : Nat, until : Nat]] /\ call \in [Calls -> LiveCall]
      BY <2>1, <2>2
    <3>2. index \in [members : SUBSET Sessions, until : Nat \cup {Persistent}]
      BY <2>1, <2>2
    <3>3. \A s \in Sessions : session[s].until = 0 /\ session[s].bundle = 0
      BY <2>1, <2>2
    <3>4. \A c \in Calls : call[c].op = "none"
      BY <2>1, <2>2
    <3>5. clock = 0 /\ puts = 0 /\ overtaken \in BOOLEAN
      BY <2>1
    <3>6. \A s \in Sessions : session[s].until =< clock + SESSION_TTL /\ session[s].bundle =< puts
      BY <3>3, <3>5, <2>2
    <3> QED
      BY <3>1, <3>2, <3>4, <3>5, <3>6 DEF LiveInv
  <2>4. \A s \in Sessions : GetSession(s) = 0
    BY <2>1, <2>2 DEF GetSession
  <2>5. \A c \in Calls : call[c].op = "none"
    BY <2>1, <2>2
  <2>6. IndexInv
    BY <2>4, <2>5 DEF IndexInv, Putting
  <2> QED
    BY <2>3, <2>6
<1>2. SceneInv
  BY ServingAssumption DEF Init, SceneInv
<1>3. ServiceInv
  <2>1. PICK first \in [Scripts -> Revisions] :
          (\A s \in Scripts : ScriptOf[first[s]] = s) /\ current = first /\ alias = first
    BY DEF Init
  <2>2. \A s \in Scripts : first[s] \in RevisionsOf(s)
    BY <2>1 DEF RevisionsOf
  <2>3. stored = Revisions /\ owner \in Scripts
    BY Constants DEF Init
  <2>4. last \in [current : [Revisions -> Int], alias : [Revisions -> Int], owner : [Scripts -> Int]]
    BY Constants DEF Init
  <2> QED
    BY <2>1, <2>2, <2>3, <2>4 DEF ServiceInv
<1>4. CacheInv
  <2>1. /\ pointers = [s \in Scripts |-> Uncached] /\ aliases = [s \in Scripts |-> Uncached]
        /\ owners = NoOwner /\ revisions = [r \in Revisions |-> None] /\ clock = 0
    BY DEF Init, LiveInit
  <2>2. Uncached \in Entry /\ Uncached.at = Never /\ Uncached.rev = None /\ Never =< 0
    BY Constants DEF Uncached, Entry
  <2>3. NoOwner \in OwnerEntry /\ NoOwner.at = Never /\ NoOwner.asked = 0
    BY Constants DEF NoOwner, OwnerEntry
  <2> QED
    BY <2>1, <2>2, <2>3 DEF CacheInv
<1>5. RequestInv
  <2>1. request = [q \in Requests |-> Free]
    BY DEF Init
  <2>2. /\ Free \in Request /\ Free.pc = "free" /\ Free.loading = FALSE /\ Free.answer = "none"
        /\ Free.target = "none"
    BY DEF Free, Request
  <2>3. Own(Free) /\ Timely(Free, current, alias, owner, last, clock, session, puts)
    BY <2>2 DEF Own, Timely, Bound
  <2> QED
    BY <2>1, <2>2, <2>3 DEF RequestInv
<1>6. CronInv
  <2>1. /\ armed = {} /\ alarms = [k \in Schedules |-> Unarmed] /\ arming = [r \in Revisions |-> NoTask]
    BY DEF Init
  <2>2. /\ NoTask \in [on : BOOLEAN, left : SUBSET Events, all : BOOLEAN]
        /\ Unarmed \in [st : {"none", "set", "firing", "lost", "over"}, due : Nat]
    BY DEF NoTask, Unarmed
  <2> QED
    BY <2>1, <2>2 DEF CronInv
<1> QED
  BY <1>1, <1>2, <1>3, <1>4, <1>5, <1>6 DEF ServingInv, ServeInv

\* In every state.
LEMMA AlwaysServing == Spec => []ServingInv
BY InitServing, NextServing, PTL DEF Spec

\* A publish propagates: for any pointer ttl and deadline, what is served was
\* current (aliased) less than the two together before the request came, an object's
\* code was its owner's since its load began, and a live session serves no older
\* bundle than it had when the request came.
THEOREM PublishPropagates == Spec => []ServedFresh
<1>1. ServingInv => ServedFresh
  <2> SUFFICES ASSUME ServingInv, NEW q \in Requests
               PROVE  LET s == request[q].script
                          r == request[q].rev IN
                      /\ ServedAs(q, "published") => current[s] = r \/ last.current[r] > Horizon(q)
                      /\ ServedAs(q, "aliased") => alias[s] = r \/ last.alias[r] > Horizon(q)
                      /\ ServedAs(q, "object") => /\ owner = s \/ last.owner[s] >= request[q].floor
                                                  /\ current[s] = r \/ last.current[r] >= request[q].floor
                      /\ ServedAs(q, "live") => request[q].floor >= 0
    BY DEF ServedFresh
  <2>1. /\ request[q] \in Request /\ Own(request[q])
        /\ Timely(request[q], current, alias, owner, last, clock, session, puts)
        /\ last.current \in [Revisions -> Int] /\ last.alias \in [Revisions -> Int]
        /\ last.owner \in [Scripts -> Int]
    BY DEF ServingInv, ServeInv, RequestInv, ServiceInv
  <2>2. Horizon(q) \in Int /\ Limit(request[q]) = Horizon(q) + 1
    BY <2>1, Constants DEF Horizon, Limit, Request
  <2>3. \A x \in Int : x >= Limit(request[q]) => x > Horizon(q)
    BY <2>2
  <2>4. ASSUME NEW target \in {"published", "aliased", "object"}, ServedAs(q, target)
        PROVE  request[q].rev \in Revisions /\ request[q].script \in Scripts
    BY <2>1, <2>4 DEF ServedAs, Own
  <2>5. ServedAs(q, "published") =>
          current[request[q].script] = request[q].rev \/ last.current[request[q].rev] > Horizon(q)
    BY <2>1, <2>3, <2>4 DEF ServedAs, Timely, Bound, Named
  <2>6. ServedAs(q, "aliased") =>
          alias[request[q].script] = request[q].rev \/ last.alias[request[q].rev] > Horizon(q)
    BY <2>1, <2>3, <2>4 DEF ServedAs, Timely, Bound, Named
  <2>7. ServedAs(q, "object") =>
          /\ owner = request[q].script \/ last.owner[request[q].script] >= request[q].floor
          /\ \/ current[request[q].script] = request[q].rev
             \/ last.current[request[q].rev] >= request[q].floor
    BY <2>1 DEF ServedAs, Timely, Bound, Named, Owned
  <2>8. ServedAs(q, "live") => request[q].floor >= 0
    BY <2>1 DEF ServedAs, Timely
  <2> QED
    BY <2>5, <2>6, <2>7, <2>8
<1> QED
  BY <1>1, AlwaysServing, PTL

\* No published, aliased or object request gets another script's code, however
\* loads are shared, time out or lose against an eviction.
THEOREM OwnCode == Spec => []ServesOwn
<1>1. ServingInv => ServesOwn
  BY DEF ServingInv, ServeInv, CacheInv, RequestInv, Own, ServesOwn, ServedAs
<1> QED
  BY <1>1, AlwaysServing, PTL

\* A revision that counts as armed has every event armed once its task has ended.
THEOREM CronsStayArmed == Spec => []CronsArmed
<1>1. ServingInv => CronsArmed
  BY DEF ServingInv, CronInv, CronsArmed
<1> QED
  BY <1>1, AlwaysServing, PTL

\* Until a put is overtaken, every session that can be served is in the set that
\* delete_script walks.
THEOREM SessionsFound == Spec => []SessionsIndexed
<1>1. ServingInv => SessionsIndexed
  <2> SUFFICES ASSUME ServingInv, ~overtaken, NEW s \in Sessions, GetSession(s) # 0, ~PutOf(s)
               PROVE  s \in Members
    BY DEF SessionsIndexed, PutOf
  <2> QED
    BY InMembers DEF ServingInv, ServeInv
<1> QED
  BY <1>1, AlwaysServing, PTL
====
