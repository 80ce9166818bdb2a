----------------------------- MODULE HostingProofs -----------------------------
(* What module ObjectHosting guarantees for any number of workers, requests,   *)
(* writes and failures.                                                        *)
EXTENDS ObjectHosting, TLAPS

\* The bounds are counted in natural numbers.
SpentOK ==
  spent \in [writes : Nat, lapses : Nat, crashes : Nat, ships : Nat, volumes : Nat,
             blocked : Nat, torn : Nat, republished : Nat]

\* A request that is under way runs on a live worker.
RequestOK == \A r \in Requests : req[r].pc # "idle" => req[r].w \in running

\* A task lives on a live worker that has the object's file, and only a live one
\* ships; it has a write to answer.
TaskOK ==
  \A u \in Tasks :
    /\ Live(u) => Host(u) \in running /\ file[Host(u)] \in SUBSET Writes
    /\ task[u].pc # "idle" => Live(u) /\ task[u].write \in Writes

\* The types are inductive together with these three: a commit adds to a file
\* that must exist, and an answer records the write of a ship under way.
IInv == TypeOK /\ SpentOK /\ RequestOK /\ TaskOK

USE HostingAssumption

\* The bound on writes is a natural number, so 0 stands for no write.
LEMMA WritesBound == MaxWrites \in Nat /\ 0 \in 0..MaxWrites /\ Writes \subseteq 0..MaxWrites
<1>1. MaxWrites \in Nat
  OBVIOUS
<1> QED
  BY <1>1 DEF Writes

\* An idle request is a request.
LEMMA IdleIsRequest ==
  ASSUME NEW w \in Workers
  PROVE  IdleRequest(w) \in Request /\ IdleRequest(w).pc = "idle" /\ IdleRequest(w).w = w
  BY DEF IdleRequest, Request

\* No task is a task.
LEMMA NoTaskIsTask == NoTask \in Task /\ NoTask.epoch = 0 /\ NoTask.pc = "idle"
  BY DEF NoTask, Task

\* A task is one of its worker's, and a worker has a slot for one.
LEMMA HostIsWorker ==
  /\ \A u \in Tasks : Host(u) \in Workers
  /\ \A w \in Workers, k \in Slots : <<w, k>> \in Tasks /\ Host(<<w, k>>) = w
  BY DEF Tasks, Host

\* Init establishes the inductive invariant.
LEMMA InitIInv == Init => IInv
<1> SUFFICES ASSUME Init PROVE IInv
  OBVIOUS
<1>1. req \in [Requests -> Request] /\ RequestOK
  BY IdleIsRequest DEF Init, RequestOK
<1>2. TypeOK
  <2>1. entry \in [Workers -> Tasks] /\ \A w \in Workers : Host(entry[w]) = w
    BY HostIsWorker DEF Init
  <2> QED
    BY <1>1, <2>1, NoTaskIsTask DEF Init, TypeOK
<1>3. SpentOK
  BY DEF Init, SpentOK
<1>4. \A u \in Tasks : task[u].epoch = 0 /\ task[u].pc = "idle"
  BY NoTaskIsTask DEF Init
<1>5. \A u \in Tasks : ~Live(u)
  <2> SUFFICES ASSUME NEW u \in Tasks PROVE ~(task[u].epoch > 0)
    BY DEF Live
  <2>1. task[u].epoch = 0
    BY <1>4
  <2> QED
    BY <2>1
<1>6. TaskOK
  BY <1>4, <1>5 DEF TaskOK
<1> QED
  BY <1>1, <1>2, <1>3, <1>6 DEF IInv

\* A step that only moves one request on keeps the invariant.
LEMMA RequestMoves ==
  ASSUME IInv, NEW r \in Requests, NEW q \in Request,
         req' = [req EXCEPT ![r] = q],
         q.pc # "idle" => q.w \in running,
         lease' \in Workers \cup {Nobody, Ghost}, epoch' \in Nat, SpentOK',
         UNCHANGED <<running, task, entry, file, wal, snapshot, manifest, acked, shipped>>
  PROVE  IInv'
<1>1. req' \in [Requests -> Request] /\ RequestOK'
  BY DEF IInv, TypeOK, RequestOK
<1>2. TypeOK'
  BY <1>1 DEF IInv, TypeOK
<1>3. TaskOK'
  BY DEF IInv, TaskOK, Live
<1> QED
  BY <1>1, <1>2, <1>3 DEF IInv

\* A request that ends.
LEMMA DoneKeeps ==
  ASSUME IInv, NEW r \in Requests, Done(r)
  PROVE  req' \in [Requests -> Request]
         /\ \A s \in Requests : req'[s].pc # "idle" => req'[s] = req[s]
  BY IdleIsRequest DEF IInv, TypeOK, Done, Request

\* Spending a bound keeps the counters natural.
LEMMA SpendKeeps ==
  ASSUME SpentOK,
         NEW what \in {"writes", "lapses", "crashes", "ships", "volumes", "blocked", "torn",
                       "republished"},
         Spend(what)
  PROVE  SpentOK'
  BY DEF SpentOK, Spend

\* The factory's end, given content it may have.
LEMMA SpawnIInv ==
  ASSUME IInv, NEW r \in Requests, req[r].pc # "idle",
         NEW content \in SUBSET Writes, Spawn(r, content)
  PROVE  IInv'
<1> DEFINE w == req[r].w
<1>1. req[r] \in Request /\ w \in Workers /\ req[r].epoch \in Nat /\ w \in running
  BY DEF IInv, TypeOK, RequestOK, Request
<1> DEFINE new == [NoTask EXCEPT !.epoch = req[r].epoch]
<1>2. new \in Task /\ new.pc = "idle"
  BY <1>1 DEF NoTask, Task
<1>3. PICK u \in Tasks :
        /\ Host(u) = w /\ task' = [task EXCEPT ![u] = new] /\ entry' = [entry EXCEPT ![w] = u]
        /\ UNCHANGED <<lease, epoch, running, wal, snapshot, manifest, acked, shipped, spent>>
        /\ file' = [file EXCEPT ![w] = content] /\ Done(r)
  BY DEF Spawn, registry, blobs, history
<1> HIDE DEF new
<1>4. req' \in [Requests -> Request] /\ RequestOK'
  BY <1>3, DoneKeeps DEF IInv, RequestOK
<1>5. TypeOK'
  BY <1>1, <1>2, <1>3, <1>4 DEF IInv, TypeOK
<1>6. ASSUME NEW x \in Tasks, Live(x)'
      PROVE  Host(x) \in running' /\ file'[Host(x)] \in SUBSET Writes
  <2>1. CASE Host(x) = w
    BY <1>1, <1>3, <2>1 DEF IInv, TypeOK
  <2>2. CASE Host(x) # w
    <3>1. task'[x] = task[x] /\ file'[Host(x)] = file[Host(x)]
      BY <1>1, <1>3, <2>2, HostIsWorker DEF IInv, TypeOK
    <3> QED
      BY <1>3, <1>6, <3>1 DEF IInv, TaskOK, Live
  <2> QED
    BY <2>1, <2>2
<1>7. ASSUME NEW x \in Tasks, task'[x].pc # "idle"
      PROVE  Live(x)' /\ task'[x].write \in Writes
  <2>1. task'[x] = task[x]
    BY <1>2, <1>3, <1>7 DEF IInv, TypeOK
  <2> QED
    BY <1>7, <2>1 DEF IInv, TaskOK, Live
<1>8. TaskOK'
  BY <1>6, <1>7 DEF TaskOK
<1>9. SpentOK'
  BY <1>3 DEF IInv, SpentOK
<1> QED
  BY <1>4, <1>5, <1>8, <1>9 DEF IInv

\* The steps of a request preserve the inductive invariant.
LEMMA RequestIInv ==
  ASSUME IInv, NEW r \in Requests,
         \/ \E w \in Workers : Touch(r, w)
         \/ ClaimInsert(r) \/ ClaimSelect(r) \/ ClaimEpoch(r) \/ RequestFails(r)
         \/ EnterRegistry(r) \/ EnterRepublished(r)
         \/ OpenLocal(r) \/ FetchSnapshot(r) \/ WriteRestored(r) \/ RestoreTorn(r)
  PROVE  IInv'
<1>0. /\ req[r] \in Request /\ req[r].w \in Workers
      /\ lease \in Workers \cup {Nobody, Ghost} /\ epoch \in Nat
      /\ req[r].pc # "idle" => req[r].w \in running
      /\ SpentOK /\ (spent' = spent => SpentOK')
  BY DEF IInv, TypeOK, RequestOK, Request, SpentOK
<1> USE DEF registry, tasks, disk, blobs, history
<1>1. ASSUME NEW w \in Workers, Touch(r, w) PROVE IInv'
  <2> DEFINE q == [IdleRequest(w) EXCEPT !.pc = IF Resident(w) THEN "lock" ELSE "insert"]
  <2>1. q \in Request /\ q.w = w
    BY DEF IdleRequest, Request
  <2>2. req' = [req EXCEPT ![r] = q] /\ w \in running
    BY <1>1 DEF Touch
  <2> HIDE DEF q
  <2> QED
    BY <1>0, <1>1, <2>1, <2>2, RequestMoves DEF Touch
<1>2. CASE ClaimInsert(r)
  <2>1. PICK q \in Request : req' = [req EXCEPT ![r] = q] /\ q.w = req[r].w
    <3> DEFINE kept == [req[r] EXCEPT !.pc = "select"]
               won == [req[r] EXCEPT !.pc = "select", !.fresh = TRUE]
    <3>1. kept \in Request /\ kept.w = req[r].w /\ won \in Request /\ won.w = req[r].w
      BY <1>0 DEF Request
    <3>2. req' = [req EXCEPT ![r] = kept] \/ req' = [req EXCEPT ![r] = won]
      BY <1>2 DEF ClaimInsert
    <3> HIDE DEF kept, won
    <3> QED
      BY <3>1, <3>2
  <2>2. req[r].pc # "idle" /\ lease' \in Workers \cup {Nobody, Ghost}
    BY <1>0, <1>2 DEF ClaimInsert
  <2> QED
    BY <1>0, <1>2, <2>1, <2>2, RequestMoves DEF ClaimInsert
<1>3. CASE ClaimSelect(r)
  <2> DEFINE q == [req[r] EXCEPT !.pc = "epoch", !.mine = lease = req[r].w /\ ~req[r].stale]
  <2>1. q \in Request /\ q.w = req[r].w
    BY <1>0 DEF Request
  <2>2. req' = [req EXCEPT ![r] = q] /\ req[r].pc # "idle"
    BY <1>3 DEF ClaimSelect
  <2> HIDE DEF q
  <2> QED
    BY <1>0, <1>3, <2>1, <2>2, RequestMoves DEF ClaimSelect
<1>4. CASE ClaimEpoch(r)
  <2> DEFINE e == IF req[r].fresh THEN epoch + 1 ELSE IF epoch = 0 THEN 1 ELSE epoch
             won == [IdleRequest(req[r].w) EXCEPT
                       !.pc = IF req[r].factory THEN "restore" ELSE "lock",
                       !.epoch = IF req[r].factory THEN e ELSE 0]
             q == IF Granted(req[r]) THEN won ELSE IdleRequest(req[r].w)
  <2>1. e \in Nat
    BY <1>0
  <2>2. req' = [req EXCEPT ![r] = q] /\ epoch' = (IF req[r].fresh THEN e ELSE epoch)
        /\ req[r].pc # "idle"
    BY <1>4 DEF ClaimEpoch
  <2> HIDE DEF e
  <2>3. won \in Request /\ won.w = req[r].w
    BY <1>0, <2>1 DEF IdleRequest, Request
  <2> HIDE DEF won
  <2>4. q \in Request /\ q.w = req[r].w
    BY <1>0, <2>3, IdleIsRequest
  <2>5. epoch' \in Nat
    BY <1>0, <2>1, <2>2
  <2> HIDE DEF q
  <2> QED
    BY <1>0, <1>4, <2>2, <2>4, <2>5, RequestMoves DEF ClaimEpoch
<1>5. CASE RequestFails(r)
  BY <1>0, <1>5, IdleIsRequest, RequestMoves DEF RequestFails, Done
<1>6. CASE EnterRegistry(r) \/ EnterRepublished(r)
  <2> DEFINE w == req[r].w
             again == [IdleRequest(w) EXCEPT !.pc = "insert", !.factory = TRUE]
  <2>1. again \in Request /\ again.w = w /\ IdleRequest(w) \in Request /\ IdleRequest(w).w = w
    BY <1>0, IdleIsRequest DEF IdleRequest, Request
  <2>2. req[r].pc # "idle"
        /\ (req' = [req EXCEPT ![r] = IdleRequest(w)] \/ req' = [req EXCEPT ![r] = again])
    BY <1>6 DEF EnterRegistry, EnterRepublished, LockTaken, EnterFactory, Done
  <2>3. /\ UNCHANGED <<lease, epoch, running, task, entry, file, wal, snapshot, manifest, acked,
                        shipped>>
        /\ Spend("republished") \/ spent' = spent
    BY <1>6 DEF EnterRegistry, EnterRepublished
  <2>4. SpentOK'
    BY <1>0, <2>3, SpendKeeps
  <2> HIDE DEF again
  <2> QED
    BY <1>0, <2>1, <2>2, <2>3, <2>4, RequestMoves
<1>7. CASE OpenLocal(r)
  <2>1. req[r].pc # "idle" /\ file[req[r].w] \in (SUBSET Writes) \cup {NoFile}
    BY <1>0, <1>7 DEF OpenLocal, IInv, TypeOK
  <2>2. PICK content \in SUBSET Writes : Spawn(r, content)
    BY <1>7, <2>1 DEF OpenLocal
  <2> QED
    BY <2>1, <2>2, SpawnIInv
<1>8. CASE FetchSnapshot(r)
  <2> DEFINE q == [req[r] EXCEPT !.pc = "writing", !.bytes = snapshot]
  <2>1. q \in Request /\ q.w = req[r].w
    BY <1>0 DEF Request, IInv, TypeOK
  <2>2. /\ req' = [req EXCEPT ![r] = q] /\ req[r].pc # "idle"
        /\ file' = [file EXCEPT ![req[r].w] = {}]
        /\ UNCHANGED <<lease, epoch, running, task, entry, wal, snapshot, manifest, acked,
                        shipped, spent>>
        /\ file[req[r].w] = NoFile
    BY <1>8 DEF FetchSnapshot
  <2> HIDE DEF q
  <2>3. req' \in [Requests -> Request] /\ RequestOK'
    BY <1>0, <2>1, <2>2 DEF IInv, TypeOK, RequestOK
  <2>4. file' \in [Workers -> (SUBSET Writes) \cup {NoFile}]
    BY <2>2 DEF IInv, TypeOK
  <2>5. TypeOK' /\ SpentOK'
    BY <2>2, <2>3, <2>4 DEF IInv, TypeOK, SpentOK
  <2>6. \A x \in Tasks : Live(x) => file'[Host(x)] \in SUBSET Writes
    BY <1>0, <2>2, HostIsWorker DEF IInv, TypeOK, TaskOK
  <2>7. TaskOK'
    BY <2>2, <2>6 DEF IInv, TaskOK, Live
  <2> QED
    BY <2>3, <2>5, <2>7 DEF IInv
<1>9. CASE WriteRestored(r)
  <2>1. req[r].bytes \in SUBSET Writes
    BY <1>0 DEF Request
  <2> QED
    BY <1>9, <2>1, SpawnIInv DEF WriteRestored
<1>10. CASE RestoreTorn(r)
  <2>1. SpentOK'
    BY <1>0, <1>10, SpendKeeps DEF RestoreTorn
  <2>2. /\ req' = [req EXCEPT ![r] = IdleRequest(req[r].w)]
        /\ UNCHANGED <<lease, epoch, running, task, entry, file, wal, snapshot, manifest, acked,
                        shipped>>
    BY <1>10 DEF RestoreTorn, Done
  <2> QED
    BY <1>0, <2>1, <2>2, IdleIsRequest, RequestMoves
<1> QED
  BY <1>1, <1>2, <1>3, <1>4, <1>5, <1>6, <1>7, <1>8, <1>9, <1>10

\* A task step: the record of one live task changes, nothing else the invariant
\* relates does but the files.
LEMMA TaskMoves ==
  ASSUME IInv, NEW u \in Tasks, NEW t \in Task,
         task' = [task EXCEPT ![u] = t],
         t.pc # "idle" => t.epoch > 0 /\ t.write \in Writes,
         t.epoch > 0 => Live(u),
         file' \in [Workers -> (SUBSET Writes) \cup {NoFile}],
         \A v \in Workers : file[v] \in SUBSET Writes => file'[v] \in SUBSET Writes,
         wal' \in [Workers -> SUBSET Writes],
         snapshot' \subseteq Writes, manifest' \in Nat,
         acked' \subseteq Writes, shipped' \subseteq acked',
         SpentOK', UNCHANGED <<lease, epoch, req, running, entry>>
  PROVE  IInv'
<1>1. TypeOK'
  BY DEF IInv, TypeOK
<1>2. RequestOK'
  BY DEF IInv, RequestOK
<1>3. ASSUME NEW x \in Tasks, Live(x)' PROVE Live(x)
  BY <1>3 DEF Live, IInv, TypeOK
<1>4. ASSUME NEW x \in Tasks, task'[x].pc # "idle"
      PROVE  Live(x)' /\ task'[x].write \in Writes
  BY <1>4 DEF IInv, TypeOK, TaskOK, Live
<1>5. TaskOK'
  BY <1>3, <1>4, HostIsWorker DEF IInv, TaskOK
<1> QED
  BY <1>1, <1>2, <1>5 DEF IInv

\* The steps of a task preserve the inductive invariant.
LEMMA TaskIInv ==
  ASSUME IInv, NEW u \in Tasks,
         \/ Commit(u) \/ ShipCheck(u) \/ ShipRead(u) \/ ShipSnapshot(u) \/ ShipManifest(u)
         \/ ShipFails(u) \/ Hibernate(u)
  PROVE  IInv'
<1> USE DEF registry, tasks, disk, blobs, history
<1> DEFINE w == Host(u)
<1>0. /\ task[u] \in Task /\ task[u].epoch \in Nat /\ SpentOK /\ w \in Workers
      /\ task[u].pc # "idle" => task[u].write \in Writes
      /\ file \in [Workers -> (SUBSET Writes) \cup {NoFile}] /\ wal \in [Workers -> SUBSET Writes]
      /\ snapshot \subseteq Writes /\ manifest \in Nat
      /\ acked \subseteq Writes /\ shipped \subseteq acked
      /\ task[u].bytes \in SUBSET Writes
      /\ spent' = spent => SpentOK'
  BY HostIsWorker DEF IInv, TypeOK, Task, TaskOK, SpentOK
<1> HIDE DEF w
<1>1. ASSUME Reply(u, TRUE) \/ Reply(u, FALSE), task[u].pc # "idle",
             UNCHANGED <<lease, epoch, req, running, entry, file, wal, snapshot>>,
             manifest' \in Nat, SpentOK'
      PROVE  IInv'
  <2> DEFINE t == [task[u] EXCEPT !.pc = "idle", !.write = 0, !.bytes = {}]
  <2>1. t \in Task /\ t.pc = "idle" /\ t.epoch = task[u].epoch
    BY <1>0, WritesBound DEF Task
  <2>2. task' = [task EXCEPT ![u] = t]
    BY <1>1 DEF Reply
  <2>3. acked' \subseteq Writes /\ shipped' \subseteq acked'
    BY <1>0, <1>1 DEF Reply
  <2> HIDE DEF t
  <2>4. t.epoch > 0 => Live(u)
    BY <2>1 DEF Live
  <2> QED
    BY <1>0, <1>1, <2>1, <2>2, <2>3, <2>4, TaskMoves
<1>2. ASSUME NEW pc \in {"read", "put", "manifest"}, NEW bytes \in SUBSET Writes,
             task[u].pc # "idle", task' = [task EXCEPT ![u].pc = pc, ![u].bytes = bytes],
             UNCHANGED <<lease, epoch, req, running, entry, file, wal, manifest, acked, shipped,
                         spent>>,
             snapshot' \subseteq Writes
      PROVE  IInv'
  <2> DEFINE t == [task[u] EXCEPT !.pc = pc, !.bytes = bytes]
  <2>1. t \in Task /\ t.write = task[u].write /\ t.epoch = task[u].epoch
    BY <1>0, WritesBound DEF Task
  <2>2. task' = [task EXCEPT ![u] = t]
    BY <1>2
  <2> HIDE DEF t
  <2>3. t.epoch > 0 /\ Live(u)
    BY <1>2, <2>1 DEF Live, IInv, TaskOK
  <2>4. SpentOK'
    BY <1>0, <1>2
  <2> QED
    BY <1>0, <1>2, <2>1, <2>2, <2>3, <2>4, TaskMoves
<1>9. ASSUME NEW pc, task' = [task EXCEPT ![u].pc = pc]
      PROVE  task' = [task EXCEPT ![u].pc = pc, ![u].bytes = task[u].bytes]
  <2>1. [task[u] EXCEPT !.pc = pc] = [task[u] EXCEPT !.pc = pc, !.bytes = task[u].bytes]
    BY <1>0 DEF Task
  <2> QED
    BY <1>9, <2>1
<1>3. CASE Commit(u)
  <2> DEFINE k == spent.writes + 1
             t == [task[u] EXCEPT !.pc = "check", !.write = k]
  <2>1. k \in Writes /\ SpentOK'
    <3>1. k \in Writes
      BY <1>0, <1>3 DEF Commit, SpentOK, Writes
    <3>2. CASE Spend("writes")
      BY <1>0, <3>1, <3>2, SpendKeeps
    <3>3. CASE spent' = [spent EXCEPT !.writes = @ + 1, !.blocked = @ + 1]
      <4> DEFINE once == [spent EXCEPT !.writes = @ + 1]
                 R == [writes : Nat, lapses : Nat, crashes : Nat, ships : Nat,
                       volumes : Nat, blocked : Nat, torn : Nat, republished : Nat]
      <4>1. once \in R
        BY <1>0 DEF SpentOK
      <4>2. spent' = [once EXCEPT !.blocked = @ + 1]
        BY <1>0, <3>3 DEF SpentOK
      <4> HIDE DEF once
      <4>3. spent' \in R
        BY <4>1, <4>2
      <4> QED
        BY <3>1, <4>3 DEF SpentOK
    <3> QED
      BY <1>3, <3>1, <3>2, <3>3 DEF Commit
  <2>2. /\ task' = [task EXCEPT ![u] = t] /\ Live(u)
        /\ file' = [file EXCEPT ![w] = @ \cup {k}]
        /\ wal' = [wal EXCEPT ![w] = {}] \/ wal' = [wal EXCEPT ![w] = @ \cup {k}]
        /\ UNCHANGED <<lease, epoch, req, running, entry, snapshot, manifest, acked, shipped>>
    BY <1>3 DEF Commit, w
  <2> HIDE DEF k
  <2>3. t \in Task /\ t.write = k /\ t.epoch = task[u].epoch
    BY <1>0, <2>1, WritesBound DEF Task
  <2> HIDE DEF t
  <2>7. t.epoch > 0
    BY <2>2, <2>3 DEF Live
  <2>4. file[w] \in SUBSET Writes
    BY <2>2 DEF IInv, TaskOK, w
  <2>5. file[w] \cup {k} \in SUBSET Writes /\ wal[w] \cup {k} \in SUBSET Writes
    BY <1>0, <2>1, <2>4
  <2>6. /\ file' \in [Workers -> (SUBSET Writes) \cup {NoFile}]
        /\ \A v \in Workers : file[v] \in SUBSET Writes => file'[v] \in SUBSET Writes
        /\ wal' \in [Workers -> SUBSET Writes]
    BY <1>0, <2>2, <2>5
  <2> QED
    BY <1>0, <2>1, <2>2, <2>3, <2>6, <2>7, TaskMoves
<1>4. CASE ShipCheck(u)
  <2>1. CASE Reply(u, FALSE)
    BY <1>0, <1>1, <1>4, <2>1 DEF ShipCheck
  <2>2. CASE task' = [task EXCEPT ![u].pc = "read"] /\ UNCHANGED history
    BY <1>0, <1>2, <1>4, <1>9, <2>2 DEF ShipCheck
  <2> QED
    BY <1>4, <2>1, <2>2 DEF ShipCheck
<1>5. CASE ShipRead(u)
  <2>1. Live(u)
    BY <1>5 DEF ShipRead, IInv, TaskOK
  <2>2. file[w] \ wal[w] \in SUBSET Writes
    BY <2>1 DEF IInv, TaskOK, w
  <2> QED
    BY <1>0, <1>2, <1>5, <2>2 DEF ShipRead, w
<1>10. CASE ShipSnapshot(u)
  BY <1>0, <1>2, <1>9, <1>10 DEF ShipSnapshot
<1>6. CASE ShipManifest(u)
  <2>1. SpentOK' /\ manifest' \in Nat
    BY <1>0, <1>6 DEF ShipManifest
  <2> QED
    BY <1>1, <1>6, <2>1 DEF ShipManifest
<1>7. CASE ShipFails(u)
  <2>1. SpentOK'
    BY <1>0, <1>7, SpendKeeps DEF ShipFails
  <2> QED
    BY <1>0, <1>1, <1>7, <2>1 DEF ShipFails
<1>8. CASE Hibernate(u)
  <2>1. SpentOK' /\ wal' \in [Workers -> SUBSET Writes]
    BY <1>0, <1>8 DEF Hibernate
  <2>2. NoTask \in Task /\ NoTask.pc = "idle" /\ (NoTask.epoch > 0 => Live(u))
    BY NoTaskIsTask, <1>8 DEF Hibernate
  <2> QED
    BY <1>0, <1>8, <2>1, <2>2, TaskMoves DEF Hibernate
<1> QED
  BY <1>3, <1>4, <1>5, <1>6, <1>7, <1>8, <1>10

\* A step of membership or a failure: what it may change of the workers.
LEMMA FailureMoves ==
  ASSUME IInv,
         lease' \in Workers \cup {Nobody, Ghost},
         req' \in [Requests -> Request], RequestOK',
         task' \in [Tasks -> Task],
         \A x \in Tasks : task'[x] = task[x] \/ task'[x] = NoTask,
         \A x \in Tasks :
           Live(x)' => Live(x) /\ Host(x) \in running' /\ file'[Host(x)] = file[Host(x)],
         running' \subseteq Workers,
         file' \in [Workers -> (SUBSET Writes) \cup {NoFile}], wal' \in [Workers -> SUBSET Writes],
         SpentOK', UNCHANGED <<epoch, entry, snapshot, manifest, acked, shipped>>
  PROVE  IInv'
<1>1. TypeOK'
  BY DEF IInv, TypeOK
<1>2. ASSUME NEW x \in Tasks, task'[x].pc # "idle"
      PROVE  Live(x)' /\ task'[x].write \in Writes
  <2>1. task'[x] = task[x]
    BY <1>2, NoTaskIsTask
  <2> QED
    BY <1>2, <2>1 DEF IInv, TaskOK, Live
<1>3. TaskOK'
  BY <1>2 DEF IInv, TaskOK
<1> QED
  BY <1>1, <1>3 DEF IInv

\* Membership and failures preserve the inductive invariant.
LEMMA FailureIInv ==
  ASSUME IInv, NEW w \in Workers,
         Lapse(w) \/ Crash(w) \/ Restart(w) \/ LoseVolume(w)
  PROVE  IInv'
<1> USE DEF registry, tasks, disk, blobs, history
<1>0. /\ TypeOK /\ SpentOK /\ RequestOK /\ TaskOK
      /\ \A r \in Requests : req[r] \in Request
  BY DEF IInv, TypeOK
<1>1. CASE Lapse(w)
  <2> DEFINE s(r) == [req[r] EXCEPT !.stale = TRUE]
  <2>1. \A r \in Requests : s(r) \in Request /\ s(r).pc = req[r].pc /\ s(r).w = req[r].w
    BY <1>0 DEF Request
  <2>2. /\ \A r \in Requests : req'[r] = req[r] \/ req'[r] = s(r)
        /\ req' = [r \in Requests |-> req'[r]]
    BY <1>1 DEF Lapse
  <2> HIDE DEF s
  <2>3. req' \in [Requests -> Request]
    BY <1>0, <2>1, <2>2
  <2>4. RequestOK'
    BY <1>0, <1>1, <2>1, <2>2 DEF RequestOK, Lapse
  <2>5. SpentOK'
    BY <1>0, <1>1, SpendKeeps DEF Lapse
  <2>6. lease' \in Workers \cup {Nobody, Ghost}
    BY <1>0, <1>1 DEF Lapse, TypeOK
  <2>7. UNCHANGED <<epoch, running, task, entry, file, wal, snapshot, manifest, acked, shipped>>
    BY <1>1 DEF Lapse
  <2>8. \A x \in Tasks : Live(x)' => Live(x) /\ Host(x) \in running'
    BY <1>0, <2>7 DEF Live, TaskOK
  <2> QED
    BY <1>0, <2>3, <2>4, <2>5, <2>6, <2>7, <2>8, FailureMoves DEF TypeOK
<1>2. CASE Crash(w)
  <2>1. /\ UNCHANGED <<epoch, entry, snapshot, manifest, acked, shipped>>
        /\ running' = running \ {w}
        /\ task' = [x \in Tasks |-> IF Host(x) = w THEN NoTask ELSE task[x]]
        /\ lease' = (IF lease = w THEN Ghost ELSE lease)
    BY <1>2 DEF Crash
  <2>2. req' \in [Requests -> Request] /\ RequestOK'
    BY <1>0, <1>2, IdleIsRequest DEF Crash, RequestOK, Request
  <2>3. SpentOK'
    BY <1>0, <1>2, SpendKeeps DEF Crash
  <2>4. task' \in [Tasks -> Task] /\ lease' \in Workers \cup {Nobody, Ghost} /\ running' \subseteq Workers
    BY <1>0, <2>1, NoTaskIsTask DEF TypeOK
  <2>5. /\ file' \in [Workers -> (SUBSET Writes) \cup {NoFile}] /\ wal' \in [Workers -> SUBSET Writes]
        /\ \A v \in Workers : v # w => file'[v] = file[v]
    BY <1>0, <1>2 DEF Crash, WipeDisk, TypeOK
  <2>6. \A x \in Tasks : task'[x] = task[x] \/ task'[x] = NoTask
    BY <2>1
  <2>7. \A x \in Tasks : Host(x) = w => ~Live(x)'
    <3> SUFFICES ASSUME NEW x \in Tasks, Host(x) = w PROVE ~(task'[x].epoch > 0)
      BY DEF Live
    <3>1. task'[x].epoch = 0
      BY <2>1, NoTaskIsTask
    <3> QED
      BY <3>1
  <2>8. \A x \in Tasks : Host(x) # w => task'[x] = task[x]
    BY <2>1
  <2>9. \A x \in Tasks :
          Live(x)' => Live(x) /\ Host(x) \in running' /\ file'[Host(x)] = file[Host(x)]
    BY <1>0, <2>1, <2>5, <2>7, <2>8, HostIsWorker DEF Live, TaskOK
  <2> QED
    BY <2>1, <2>2, <2>3, <2>4, <2>5, <2>6, <2>9, FailureMoves
<1>3. CASE Restart(w)
  <2>1. UNCHANGED <<lease, epoch, req, task, entry, file, wal, snapshot, manifest, acked, shipped, spent>>
        /\ running' = running \cup {w}
    BY <1>3 DEF Restart
  <2>2. SpentOK' /\ RequestOK' /\ running' \subseteq Workers
    BY <1>0, <2>1 DEF SpentOK, RequestOK, TypeOK
  <2>3. \A x \in Tasks : Live(x)' => Live(x) /\ Host(x) \in running'
    BY <1>0, <2>1 DEF Live, TaskOK
  <2> QED
    BY <1>0, <2>1, <2>2, <2>3, FailureMoves DEF TypeOK
<1>4. CASE LoseVolume(w)
  <2>1. UNCHANGED <<lease, epoch, req, running, task, entry, snapshot, manifest, acked, shipped>>
    BY <1>4 DEF LoseVolume
  <2>2. /\ file' \in [Workers -> (SUBSET Writes) \cup {NoFile}] /\ wal' \in [Workers -> SUBSET Writes]
        /\ \A v \in Workers : v # w => file'[v] = file[v]
    BY <1>0, <1>4 DEF LoseVolume, WipeDisk, TypeOK
  <2>3. SpentOK' /\ RequestOK'
    BY <1>0, <1>4, <2>1, SpendKeeps DEF LoseVolume, RequestOK
  <2>4. \A x \in Tasks : Host(x) = w => ~Live(x)
    BY <1>0, <1>4 DEF LoseVolume, TaskOK
  <2>5. \A x \in Tasks :
          Live(x)' => Live(x) /\ Host(x) \in running' /\ file'[Host(x)] = file[Host(x)]
    BY <1>0, <2>1, <2>2, <2>4, HostIsWorker DEF Live, TaskOK
  <2> QED
    BY <1>0, <2>1, <2>2, <2>3, <2>5, FailureMoves DEF TypeOK
<1> QED
  BY <1>1, <1>2, <1>3, <1>4

\* The age-out of a dead process's row preserves the inductive invariant.
LEMMA AgeOutIInv == ASSUME IInv, AgeOut PROVE IInv'
<1>1. /\ UNCHANGED <<epoch, req, running, task, entry, file, wal, snapshot, manifest, acked,
                      shipped, spent>>
      /\ lease' = Nobody
  BY DEF AgeOut, tasks, disk, blobs, history
<1>2. SpentOK' /\ RequestOK'
  BY <1>1 DEF IInv, SpentOK, RequestOK
<1>3. \A x \in Tasks : Live(x)' => Live(x) /\ Host(x) \in running'
  BY <1>1 DEF IInv, Live, TaskOK
<1> QED
  BY <1>1, <1>2, <1>3, FailureMoves DEF IInv, TypeOK

\* Every step preserves the inductive invariant.
LEMMA NextIInv == IInv /\ [Next]_vars => IInv'
<1> SUFFICES ASSUME IInv, [Next]_vars PROVE IInv'
  OBVIOUS
<1>1. CASE UNCHANGED vars
  <2>1. UNCHANGED <<lease, epoch, req, running, task, entry, file, wal, snapshot, manifest,
                    acked, shipped, spent>>
    BY <1>1 DEF vars, registry, tasks, disk, blobs, history
  <2>2. TypeOK' /\ SpentOK' /\ RequestOK'
    BY <2>1 DEF IInv, TypeOK, SpentOK, RequestOK
  <2>3. TaskOK'
    BY <2>1 DEF IInv, TaskOK, Live
  <2> QED
    BY <2>2, <2>3 DEF IInv
<1>2. CASE Next
  BY <1>2, RequestIInv, TaskIInv, FailureIInv, AgeOutIInv DEF Next
<1> QED
  BY <1>1, <1>2

\* The inductive invariant holds always.
LEMMA AlwaysIInv == Spec => []IInv
  BY InitIInv, NextIInv, PTL DEF Spec

\* Every registry row, request, task, file and blob keeps its type.
THEOREM TypeCorrect == Spec => []TypeOK
<1>1. IInv => TypeOK
  BY DEF IInv
<1> QED
  BY <1>1, AlwaysIInv, PTL

\* ship's fence, for every number of workers, tasks, lapses, crashes and republishes:
\* unless a ship that passed its check is overtaken, the manifest's epoch never goes
\* back, and only the arrival of a newer manifest overtakes one.
THEOREM Fence == Spec => FenceHolds
<1>1. ASSUME IInv, [Next]_vars
      PROVE  [(~Straggler /\ manifest' <= manifest) => (~Straggler' /\ manifest' = manifest)]_vars
  <2> SUFFICES ASSUME Next, ~Straggler, manifest' <= manifest
               PROVE  ~Straggler' /\ manifest' = manifest
    BY <1>1
  <2> DEFINE Behind(t) == t.pc \in {"read", "put", "manifest"} /\ t.epoch < manifest
  <2>0. /\ manifest \in Nat /\ task \in [Tasks -> Task]
        /\ \A u \in Tasks : task[u].epoch \in Nat /\ ~Behind(task[u])
    BY <1>1 DEF IInv, TypeOK, Task, Straggler
  <2>1. ASSUME manifest' = manifest, \A u \in Tasks : ~Behind(task'[u])
        PROVE  ~Straggler' /\ manifest' = manifest
    BY <2>1 DEF Straggler
  <2>2. ASSUME UNCHANGED <<manifest, task>>
        PROVE  ~Straggler' /\ manifest' = manifest
    BY <2>0, <2>1, <2>2
  <2>3. ASSUME NEW u \in Tasks, NEW t, ~Behind(t), task' = [task EXCEPT ![u] = t],
               manifest' = manifest
        PROVE  ~Straggler' /\ manifest' = manifest
    BY <2>0, <2>1, <2>3
  <2> USE DEF registry, tasks, disk, blobs, history
  <2>30. ~Behind(NoTask)
    BY NoTaskIsTask
  <2>4. ASSUME NEW u \in Tasks, Hibernate(u) PROVE ~Straggler' /\ manifest' = manifest
    <3> HIDE DEF Behind
    <3> QED
      BY <2>3, <2>4, <2>30 DEF Hibernate
  <2>31. ASSUME NEW w \in Workers, Crash(w) PROVE ~Straggler' /\ manifest' = manifest
    <3>1. manifest' = manifest /\ \A u \in Tasks : task'[u] = NoTask \/ task'[u] = task[u]
      BY <2>31 DEF Crash
    <3> HIDE DEF Behind
    <3>2. \A u \in Tasks : ~Behind(task'[u])
      BY <2>0, <2>30, <3>1
    <3> QED
      BY <2>1, <3>1, <3>2
  <2>5. ASSUME NEW r \in Requests, NEW content, Spawn(r, content)
        PROVE  ~Straggler' /\ manifest' = manifest
    <3> DEFINE t == [NoTask EXCEPT !.epoch = req[r].epoch]
    <3>1. t.pc = "idle"
      BY DEF NoTask
    <3>2. PICK u \in Tasks : task' = [task EXCEPT ![u] = t] /\ manifest' = manifest
      BY <2>5 DEF Spawn
    <3> HIDE DEF t
    <3>3. ~Behind(t)
      BY <3>1
    <3> HIDE DEF Behind
    <3> QED
      BY <2>3, <3>2, <3>3
  <2>6. ASSUME NEW u \in Tasks, NEW ok, Reply(u, ok), manifest' = manifest
        PROVE  ~Straggler' /\ manifest' = manifest
    <3> DEFINE t == [task[u] EXCEPT !.pc = "idle", !.write = 0, !.bytes = {}]
    <3>1. t.pc = "idle" /\ task' = [task EXCEPT ![u] = t]
      BY <2>0, <2>6 DEF Reply, Task
    <3> HIDE DEF t
    <3>2. ~Behind(t)
      BY <3>1
    <3> HIDE DEF Behind
    <3> QED
      BY <2>3, <2>6, <3>1, <3>2
  <2>7. ASSUME NEW u \in Tasks, ShipManifest(u)
        PROVE  ~Straggler' /\ manifest' = manifest
    <3>1. manifest' = task[u].epoch /\ task[u].pc = "manifest" /\ Reply(u, TRUE)
      BY <2>7 DEF ShipManifest
    <3>2. manifest' = manifest
      BY <2>0, <3>1
    <3> QED
      BY <2>6, <3>1, <3>2
  <2>8. ASSUME NEW u \in Tasks, NEW t, task' = [task EXCEPT ![u] = t],
               t.epoch = task[u].epoch, t.pc # "check" => manifest <= task[u].epoch,
               manifest' = manifest
        PROVE  ~Straggler' /\ manifest' = manifest
    <3>1. ~Behind(t)
      BY <2>0, <2>8
    <3> HIDE DEF Behind
    <3> QED
      BY <2>3, <2>8, <3>1
  <2>9. ASSUME NEW u \in Tasks, Commit(u)
        PROVE  ~Straggler' /\ manifest' = manifest
    <3> DEFINE t == [task[u] EXCEPT !.pc = "check", !.write = spent.writes + 1]
    <3>1. t.pc = "check" /\ t.epoch = task[u].epoch
      BY <2>0 DEF Task
    <3>2. task' = [task EXCEPT ![u] = t] /\ manifest' = manifest
      BY <2>9 DEF Commit
    <3> HIDE DEF t
    <3> QED
      BY <2>8, <3>1, <3>2
  <2>10. ASSUME NEW u \in Tasks, NEW pc,
                task' = [task EXCEPT ![u].pc = pc], manifest <= task[u].epoch,
                manifest' = manifest
         PROVE  ~Straggler' /\ manifest' = manifest
    <3> DEFINE t == [task[u] EXCEPT !.pc = pc]
    <3>1. t.epoch = task[u].epoch /\ task' = [task EXCEPT ![u] = t]
      BY <2>0, <2>10 DEF Task
    <3> HIDE DEF t
    <3> QED
      BY <2>8, <2>10, <3>1
  <2>11. ASSUME NEW u \in Tasks, ShipCheck(u) \/ ShipFails(u)
         PROVE  ~Straggler' /\ manifest' = manifest
    BY <2>6, <2>10, <2>11 DEF ShipCheck, ShipFails
  <2>12. ASSUME NEW u \in Tasks, ShipSnapshot(u)
         PROVE  ~Straggler' /\ manifest' = manifest
    <3>1. task[u].pc = "put" /\ manifest <= task[u].epoch
      BY <2>0, <2>12 DEF ShipSnapshot
    <3> QED
      BY <2>10, <2>12, <3>1 DEF ShipSnapshot
  <2>17. ASSUME NEW u \in Tasks, ShipRead(u)
         PROVE  ~Straggler' /\ manifest' = manifest
    <3> DEFINE t == [task[u] EXCEPT !.pc = "put", !.bytes = file[Host(u)] \ wal[Host(u)]]
    <3>1. t.epoch = task[u].epoch
      BY <2>0 DEF Task
    <3>2. manifest <= task[u].epoch
      BY <2>0, <2>17 DEF ShipRead
    <3>3. task' = [task EXCEPT ![u] = t]
      BY <2>0, <2>17 DEF ShipRead
    <3>4. manifest' = manifest
      BY <2>17 DEF ShipRead
    <3> HIDE DEF t
    <3> QED
      BY <2>8, <3>1, <3>2, <3>3, <3>4
  <2>13. ASSUME NEW w \in Workers, Lapse(w) \/ Restart(w) \/ LoseVolume(w)
         PROVE  ~Straggler' /\ manifest' = manifest
    BY <2>2, <2>13 DEF Lapse, Restart, LoseVolume
  <2>14. CASE AgeOut
    BY <2>2, <2>14 DEF AgeOut
  <2>15. ASSUME NEW r \in Requests, OpenLocal(r) \/ WriteRestored(r)
         PROVE  ~Straggler' /\ manifest' = manifest
    BY <2>5, <2>15 DEF OpenLocal, WriteRestored
  <2>16. ASSUME NEW r \in Requests,
                \/ \E w \in Workers : Touch(r, w)
                \/ ClaimInsert(r) \/ ClaimSelect(r) \/ ClaimEpoch(r) \/ RequestFails(r)
                \/ EnterRegistry(r) \/ EnterRepublished(r) \/ FetchSnapshot(r) \/ RestoreTorn(r)
         PROVE  ~Straggler' /\ manifest' = manifest
    <3>1. UNCHANGED <<manifest, task>>
      BY <2>16 DEF Touch, ClaimInsert, ClaimSelect, ClaimEpoch, RequestFails, EnterRegistry,
                   EnterRepublished, FetchSnapshot, RestoreTorn
    <3> QED
      BY <2>2, <3>1
  <2> QED
    BY <2>4, <2>7, <2>9, <2>11, <2>12, <2>13, <2>14, <2>15, <2>16, <2>17, <2>31 DEF Next
<1> QED
  BY <1>1, AlwaysIInv, PTL DEF Spec, FenceHolds

--------------------------------------------------------------------------------
(* One home, where a node row is deleted only once its process is dead.        *)

\* Who believes the lease is theirs, and is right: a task, a factory past its
\* claim, and a claim that inserted the row or has read it back as its own.
Believes(r) ==
  \/ req[r].pc \in {"restore", "writing"}
  \/ req[r].pc \in {"select", "epoch"} /\ req[r].fresh
  \/ req[r].pc = "epoch" /\ req[r].mine

HomeInv ==
  /\ \A u \in Tasks : Live(u) => lease = Host(u)
  /\ \A r \in Requests : Believes(r) => lease = req[r].w
  /\ \A r \in Requests : req[r].pc = "insert" => ~req[r].fresh

\* What a spawn does: one more task on the request's worker, in its registry entry.
LEMMA SpawnSteps ==
  ASSUME IInv, NEW r \in Requests, NEW content, Spawn(r, content)
  PROVE  /\ req[r].w \in Workers
         /\ \E u \in Tasks :
              /\ Host(u) = req[r].w /\ ~Live(u) /\ task'[u].pc = "idle"
              /\ \A v \in Tasks : v # u => task'[v] = task[v] /\ (Live(v)' <=> Live(v))
              /\ entry'[req[r].w] = u
              /\ \A v \in Workers : v # req[r].w => entry'[v] = entry[v]
         /\ file'[req[r].w] = content
         /\ \A v \in Workers : v # req[r].w => file'[v] = file[v]
         /\ req'[r].pc = "idle" /\ \A s \in Requests : s # r => req'[s] = req[s]
         /\ UNCHANGED <<lease, epoch, running, wal, snapshot, manifest, acked, shipped, spent>>
<1>1. req[r].w \in Workers
  BY DEF IInv, TypeOK, Request
<1> DEFINE w == req[r].w
           new == [NoTask EXCEPT !.epoch = req[r].epoch]
<1>2. new.pc = "idle"
  BY DEF NoTask
<1>3. PICK u \in Tasks : /\ Host(u) = w /\ ~Live(u) /\ task' = [task EXCEPT ![u] = new]
                         /\ entry' = [entry EXCEPT ![w] = u]
  BY DEF Spawn
<1> HIDE DEF new
<1>4. task'[u].pc = "idle" /\ \A v \in Tasks : v # u => task'[v] = task[v]
  BY <1>2, <1>3 DEF IInv, TypeOK
<1>5. \A v \in Tasks : v # u => (Live(v)' <=> Live(v))
  BY <1>4 DEF Live
<1>6. entry'[w] = u /\ \A v \in Workers : v # w => entry'[v] = entry[v]
  BY <1>1, <1>3 DEF IInv, TypeOK
<1>7. file'[w] = content /\ \A v \in Workers : v # w => file'[v] = file[v]
  BY <1>1 DEF Spawn, IInv, TypeOK
<1>8. req'[r].pc = "idle" /\ \A s \in Requests : s # r => req'[s] = req[s]
  BY <1>1, IdleIsRequest DEF Spawn, Done, IInv, TypeOK
<1>9. UNCHANGED <<lease, epoch, running, wal, snapshot, manifest, acked, shipped, spent>>
  BY DEF Spawn, registry, blobs, history
<1> QED
  BY <1>1, <1>3, <1>4, <1>5, <1>6, <1>7, <1>8, <1>9

\* A new task's worker believed in the lease.
LEMMA SpawnHome ==
  ASSUME IInv, HomeInv, NEW r \in Requests, Believes(r), NEW content, Spawn(r, content)
  PROVE  HomeInv'
<1>1. lease = req[r].w /\ lease' = lease
  BY SpawnSteps DEF HomeInv
<1>2. PICK u \in Tasks : Host(u) = req[r].w /\ \A v \in Tasks : v # u => (Live(v)' <=> Live(v))
  BY SpawnSteps
<1>3. \A s \in Requests : req'[s] = req[s] \/ req'[s].pc = "idle"
  BY SpawnSteps
<1>4. \A v \in Tasks : Live(v)' => lease' = Host(v)
  BY <1>1, <1>2 DEF HomeInv
<1>5. \A s \in Requests : Believes(s)' => lease' = req'[s].w
  BY <1>1, <1>3 DEF HomeInv, Believes
<1> QED
  BY <1>3, <1>4, <1>5 DEF HomeInv

\* A step of a request that leaves the tasks and a held lease alone.
LEMMA RequestHome ==
  ASSUME IInv, HomeInv, NEW r \in Requests, NEW q,
         req' = [req EXCEPT ![r] = q], UNCHANGED task,
         lease' = lease \/ lease = Nobody,
         \/ q.pc \notin {"restore", "writing", "select", "epoch"}
         \/ q.pc \in {"select", "epoch"} /\ ~q.fresh /\ (q.pc = "epoch" => ~q.mine)
         \/ lease' = q.w,
         q.pc = "insert" => ~q.fresh
  PROVE  HomeInv'
<1>1. \A u \in Tasks : Live(u)' => lease = Host(u)
  BY DEF HomeInv, Live
<1>2. (\A v \in Workers : v # Nobody) /\ \A u \in Tasks : Host(u) \in Workers
  BY HostIsWorker
<1>3. \A s \in Requests : req[s].w \in Workers
  BY DEF IInv, TypeOK, Request
<1>4. \A s \in Requests : s # r => req'[s] = req[s]
  BY DEF IInv, TypeOK
<1>5. req'[r] = q
  BY DEF IInv, TypeOK
<1>6. \A u \in Tasks : Live(u)' => lease' = Host(u)
  BY <1>1, <1>2
<1>7. \A s \in Requests : s # r => (Believes(s)' => lease' = req'[s].w)
  BY <1>2, <1>3, <1>4 DEF HomeInv, Believes
<1>8. Believes(r)' => lease' = req'[r].w
  BY <1>5 DEF Believes
<1>9. \A s \in Requests : req'[s].pc = "insert" => ~req'[s].fresh
  BY <1>4, <1>5 DEF HomeInv
<1> QED
  BY <1>6, <1>7, <1>8, <1>9 DEF HomeInv

\* A step that keeps the lease and the requests and starts no task.
LEMMA TaskHome ==
  ASSUME HomeInv, UNCHANGED <<lease, req>>,
         \A u \in Tasks : Live(u)' => Live(u)
  PROVE  HomeInv'
  BY DEF HomeInv, Believes

\* No step forgets a lapse, a republish, a torn restore, a checkpoint held up or a
\* lost disk.
LEMMA LossesCounted ==
  ASSUME IInv, [Next]_vars
  PROVE  /\ NoLapse' => NoLapse /\ \A w \in Workers : ~Lapse(w)
         /\ NoRepublish' => NoRepublish /\ \A r \in Requests : ~EnterRepublished(r)
         /\ spent'.torn = 0 => spent.torn = 0 /\ \A r \in Requests : ~RestoreTorn(r)
         /\ spent'.blocked = 0 => spent.blocked = 0
         /\ spent'.volumes = 0 => spent.volumes = 0 /\ \A w \in Workers : ~LoseVolume(w)
         /\ \A u \in Tasks : Commit(u) /\ spent'.blocked = 0 => wal' = [wal EXCEPT ![Host(u)] = {}]
<1> DEFINE Kept(f) == spent'[f] = 0 => spent[f] = 0
           Losses == {"lapses", "republished", "torn", "blocked", "volumes"}
<1>1. SpentOK
  BY DEF IInv
<1>2. ASSUME NEW what \in {"writes", "lapses", "crashes", "ships", "volumes", "torn",
                           "republished"}, Spend(what)
      PROVE  spent'[what] # 0 /\ \A f \in Losses : Kept(f)
  BY <1>1, <1>2 DEF Spend, SpentOK
<1>3. ASSUME NEW u \in Tasks, Commit(u)
      PROVE  /\ \A f \in Losses : Kept(f)
             /\ spent'.blocked = 0 => wal' = [wal EXCEPT ![Host(u)] = {}]
  <2>1. CASE spent' = [spent EXCEPT !.writes = @ + 1, !.blocked = @ + 1]
    <3>1. spent'.blocked = spent.blocked + 1 /\ spent.blocked \in Nat
      BY <1>1, <2>1 DEF SpentOK
    <3>2. spent'.blocked # 0
      BY <3>1
    <3>3. \A f \in Losses \ {"blocked"} : spent'[f] = spent[f]
      BY <1>1, <2>1 DEF SpentOK
    <3> QED
      BY <3>2, <3>3
  <2>2. CASE Spend("writes") /\ wal' = [wal EXCEPT ![Host(u)] = {}]
    BY <1>2, <2>2
  <2> QED
    BY <1>3, <2>1, <2>2 DEF Commit
<1>4. ASSUME NEW w \in Workers, Lapse(w)
      PROVE  spent'.lapses # 0 /\ \A f \in Losses : Kept(f)
  BY <1>2, <1>4 DEF Lapse
<1>5. ASSUME NEW w \in Workers, LoseVolume(w)
      PROVE  spent'.volumes # 0 /\ \A f \in Losses : Kept(f)
  BY <1>2, <1>5 DEF LoseVolume
<1>6. ASSUME NEW r \in Requests, RestoreTorn(r)
      PROVE  spent'.torn # 0 /\ \A f \in Losses : Kept(f)
  BY <1>2, <1>6 DEF RestoreTorn
<1>7. ASSUME NEW r \in Requests, EnterRepublished(r)
      PROVE  spent'.republished # 0 /\ \A f \in Losses : Kept(f)
  BY <1>2, <1>7 DEF EnterRepublished
<1>8. ASSUME (\E w \in Workers : Crash(w)) \/ (\E u \in Tasks : ShipFails(u))
      PROVE  \A f \in Losses : Kept(f)
  BY <1>2, <1>8 DEF Crash, ShipFails
<1>9. ASSUME spent' = spent PROVE \A f \in Losses : Kept(f)
  BY <1>9
<1>10. ASSUME NEW u \in Tasks,
             ShipCheck(u) \/ ShipRead(u) \/ ShipSnapshot(u) \/ ShipManifest(u) \/ Hibernate(u)
       PROVE  spent' = spent
  BY <1>10 DEF ShipCheck, ShipRead, ShipSnapshot, ShipManifest, Hibernate
<1>11. ASSUME NEW r \in Requests,
             \/ \E w \in Workers : Touch(r, w)
             \/ ClaimInsert(r) \/ ClaimSelect(r) \/ ClaimEpoch(r) \/ RequestFails(r)
             \/ EnterRegistry(r) \/ OpenLocal(r) \/ FetchSnapshot(r) \/ WriteRestored(r)
       PROVE  spent' = spent
  BY <1>11 DEF Touch, ClaimInsert, ClaimSelect, ClaimEpoch, RequestFails, EnterRegistry,
              OpenLocal, FetchSnapshot, WriteRestored, Spawn
<1>12. ASSUME UNCHANGED vars \/ AgeOut \/ \E w \in Workers : Restart(w) PROVE spent' = spent
  BY <1>12 DEF vars, AgeOut, Restart
<1> HIDE DEF Kept
<1>13. \A f \in Losses : Kept(f)
  BY <1>3, <1>4, <1>5, <1>6, <1>7, <1>8, <1>9, <1>10, <1>11, <1>12 DEF Next
<1>14. Kept("lapses") /\ Kept("republished") /\ Kept("torn") /\ Kept("blocked") /\ Kept("volumes")
  BY <1>13
<1> QED
  BY <1>3, <1>4, <1>5, <1>6, <1>7, <1>14 DEF Kept, NoLapse, NoRepublish

\* What a step of task u leaves alone.
LEMMA TaskSteps ==
  ASSUME IInv, NEW u \in Tasks,
         \/ Commit(u) \/ ShipCheck(u) \/ ShipRead(u) \/ ShipSnapshot(u) \/ ShipManifest(u)
         \/ ShipFails(u) \/ Hibernate(u)
  PROVE  /\ UNCHANGED <<lease, epoch, req, running, entry>> /\ Live(u)
         /\ \A v \in Tasks : v # u => task'[v] = task[v] /\ (Live(v)' <=> Live(v))
         /\ \A w \in Workers : w # Host(u) => file'[w] = file[w] /\ wal'[w] = wal[w]
<1> USE DEF registry, tasks, disk, blobs, history
<1>1. UNCHANGED <<lease, epoch, req, running, entry>>
  BY DEF Commit, ShipCheck, ShipRead, ShipSnapshot, ShipManifest, ShipFails, Hibernate
<1>2. task \in [Tasks -> Task] /\ file \in [Workers -> (SUBSET Writes) \cup {NoFile}]
      /\ wal \in [Workers -> SUBSET Writes]
  BY DEF IInv, TypeOK
<1>3. \A v \in Tasks : v # u => task'[v] = task[v]
  BY <1>2 DEF Commit, ShipCheck, ShipRead, ShipSnapshot, ShipManifest, ShipFails, Hibernate, Reply
<1>4. \A w \in Workers : w # Host(u) => file'[w] = file[w]
  BY <1>2 DEF Commit, ShipCheck, ShipRead, ShipSnapshot, ShipManifest, ShipFails, Hibernate
<1>5. \A w \in Workers : w # Host(u) => wal'[w] = wal[w]
  BY <1>2 DEF Commit, ShipCheck, ShipRead, ShipSnapshot, ShipManifest, ShipFails, Hibernate
<1>6. Live(u)
  BY DEF Commit, ShipCheck, ShipRead, ShipSnapshot, ShipManifest, ShipFails, Hibernate, IInv, TaskOK
<1>7. \A v \in Tasks : v # u => (Live(v)' <=> Live(v))
  BY <1>3 DEF Live
<1> QED
  BY <1>1, <1>3, <1>4, <1>5, <1>6, <1>7

\* What a crash of w leaves behind.
LEMMA CrashSteps ==
  ASSUME IInv, NEW w \in Workers, Crash(w)
  PROVE  /\ \A u \in Tasks : IF Host(u) = w THEN ~Live(u)' /\ task'[u].pc = "idle"
                             ELSE task'[u] = task[u] /\ (Live(u)' <=> Live(u))
         /\ \A v \in Workers : v # w => file'[v] = file[v] /\ wal'[v] = wal[v]
         /\ \A r \in Requests : req'[r].pc = "idle" \/ (req'[r] = req[r] /\ req[r].w # w)
         /\ \A r \in Requests : req[r].w # w => req'[r] = req[r]
         /\ lease' = (IF lease = w THEN Ghost ELSE lease)
         /\ IF KeepsVolume THEN UNCHANGED <<file, wal>> ELSE file'[w] = NoFile /\ wal'[w] = {}
         /\ UNCHANGED <<entry, snapshot, manifest, acked, shipped>>
<1>1. /\ lease' = (IF lease = w THEN Ghost ELSE lease)
      /\ task' = [u \in Tasks |-> IF Host(u) = w THEN NoTask ELSE task[u]]
      /\ req' = [r \in Requests |-> IF req[r].w = w THEN IdleRequest(w) ELSE req[r]]
      /\ IF KeepsVolume THEN UNCHANGED <<file, wal>>
         ELSE file' = [file EXCEPT ![w] = NoFile] /\ wal' = [wal EXCEPT ![w] = {}]
      /\ UNCHANGED <<entry, snapshot, manifest, acked, shipped>>
  BY DEF Crash, WipeDisk, disk, blobs, history
<1>2. file \in [Workers -> (SUBSET Writes) \cup {NoFile}] /\ wal \in [Workers -> SUBSET Writes]
  BY DEF IInv, TypeOK
<1>3. ASSUME NEW u \in Tasks, Host(u) = w PROVE ~Live(u)' /\ task'[u].pc = "idle"
  <2>1. task'[u].epoch = 0 /\ task'[u].pc = "idle"
    BY <1>1, <1>3, NoTaskIsTask
  <2>2. ~(task'[u].epoch > 0)
    BY <2>1
  <2> QED
    BY <2>1, <2>2 DEF Live
<1>4. \A u \in Tasks : Host(u) # w => task'[u] = task[u] /\ (Live(u)' <=> Live(u))
  BY <1>1 DEF Live
<1>5. \A r \in Requests : /\ req'[r].pc = "idle" \/ (req'[r] = req[r] /\ req[r].w # w)
                          /\ req[r].w # w => req'[r] = req[r]
  BY <1>1, IdleIsRequest
<1> QED
  BY <1>1, <1>2, <1>3, <1>4, <1>5

\* Without lapses every step keeps the beliefs about the lease true.
LEMMA NextHome ==
  ASSUME NoLapse', IInv, HomeInv, [Next]_vars
  PROVE  HomeInv'
<1> USE DEF registry, tasks, disk, blobs, history
<1>0. /\ \A r \in Requests : req[r] \in Request /\ req[r].w \in Workers
      /\ req \in [Requests -> Request]
  BY DEF IInv, TypeOK, Request
<1>1. CASE UNCHANGED vars
  <2>1. UNCHANGED <<lease, req, task>>
    BY <1>1 DEF vars
  <2> QED
    BY <2>1, TaskHome DEF Live
<1>2. ASSUME NEW r \in Requests, NEW w \in Workers, Touch(r, w) PROVE HomeInv'
  <2> DEFINE q == [IdleRequest(w) EXCEPT !.pc = IF Resident(w) THEN "lock" ELSE "insert"]
  <2>1. q.pc \notin {"restore", "writing", "select", "epoch"} /\ ~q.fresh
    BY DEF IdleRequest
  <2>2. req' = [req EXCEPT ![r] = q] /\ UNCHANGED <<task, lease>>
    BY <1>2 DEF Touch
  <2> HIDE DEF q
  <2> QED
    BY <2>1, <2>2, RequestHome
<1>3. ASSUME NEW r \in Requests, ClaimInsert(r) PROVE HomeInv'
  <2> DEFINE kept == [req[r] EXCEPT !.pc = "select"]
             won == [req[r] EXCEPT !.pc = "select", !.fresh = TRUE]
  <2>1. ~req[r].fresh /\ UNCHANGED task
    BY <1>3 DEF ClaimInsert, HomeInv
  <2>2. kept.pc = "select" /\ ~kept.fresh /\ won.pc = "select" /\ won.w = req[r].w
    BY <1>0, <2>1 DEF Request
  <2>3. \/ req' = [req EXCEPT ![r] = kept] /\ lease' = lease
        \/ req' = [req EXCEPT ![r] = won] /\ lease = Nobody /\ lease' = req[r].w
    BY <1>3 DEF ClaimInsert
  <2> HIDE DEF kept, won
  <2> QED
    BY <2>1, <2>2, <2>3, RequestHome
<1>4. ASSUME NEW r \in Requests, ClaimSelect(r) PROVE HomeInv'
  <2> DEFINE q == [req[r] EXCEPT !.pc = "epoch", !.mine = lease = req[r].w /\ ~req[r].stale]
  <2>1. /\ q.pc = "epoch" /\ q.fresh = req[r].fresh /\ q.w = req[r].w
        /\ q.mine => lease = req[r].w
    BY <1>0 DEF Request
  <2>2. req' = [req EXCEPT ![r] = q] /\ UNCHANGED <<task, lease>> /\ req[r].pc = "select"
    BY <1>4 DEF ClaimSelect
  <2> HIDE DEF q
  <2>3. q.fresh => lease = req[r].w
    BY <2>1, <2>2 DEF HomeInv, Believes
  <2> QED
    BY <2>1, <2>2, <2>3, RequestHome
<1>5. ASSUME NEW r \in Requests, ClaimEpoch(r) PROVE HomeInv'
  <2>1. PICK e : LET won == [IdleRequest(req[r].w) EXCEPT
                              !.pc = IF req[r].factory THEN "restore" ELSE "lock",
                              !.epoch = e] IN
                 req' = [req EXCEPT ![r] =
                           IF Granted(req[r]) THEN won ELSE IdleRequest(req[r].w)]
    BY <1>5 DEF ClaimEpoch
  <2> DEFINE won == [IdleRequest(req[r].w) EXCEPT
                       !.pc = IF req[r].factory THEN "restore" ELSE "lock", !.epoch = e]
             q == IF Granted(req[r]) THEN won ELSE IdleRequest(req[r].w)
  <2>2. won.w = req[r].w /\ won.pc \in {"restore", "lock"}
    BY DEF IdleRequest
  <2>3. req' = [req EXCEPT ![r] = q] /\ UNCHANGED <<task, lease>> /\ req[r].pc = "epoch"
    BY <1>5, <2>1 DEF ClaimEpoch
  <2> HIDE DEF won
  <2>4. /\ Granted(req[r]) => q = won /\ lease = req[r].w
        /\ ~Granted(req[r]) => q.pc = "idle"
    BY <1>0, <2>3, IdleIsRequest DEF Granted, HomeInv, Believes
  <2> HIDE DEF q
  <2> QED
    BY <2>2, <2>3, <2>4, RequestHome
<1>6. ASSUME NEW r \in Requests, RequestFails(r) \/ RestoreTorn(r) PROVE HomeInv'
  BY <1>0, <1>6, IdleIsRequest, RequestHome DEF RequestFails, RestoreTorn, Done
<1>7. ASSUME NEW r \in Requests, EnterRegistry(r) \/ EnterRepublished(r) PROVE HomeInv'
  <2> DEFINE w == req[r].w
             again == [IdleRequest(w) EXCEPT !.pc = "insert", !.factory = TRUE]
  <2>1. again.pc = "insert" /\ ~again.fresh
    BY DEF IdleRequest
  <2>2. UNCHANGED <<task, lease>>
    BY <1>7 DEF EnterRegistry, EnterRepublished
  <2>3. \/ req' = [req EXCEPT ![r] = IdleRequest(w)]
        \/ req' = [req EXCEPT ![r] = again]
    BY <1>7 DEF EnterRegistry, EnterRepublished, EnterFactory, Done
  <2> HIDE DEF again
  <2> QED
    BY <1>0, <2>1, <2>2, <2>3, IdleIsRequest, RequestHome
<1>8. ASSUME NEW r \in Requests, OpenLocal(r) \/ WriteRestored(r) PROVE HomeInv'
  <2>1. Believes(r)
    BY <1>8 DEF OpenLocal, WriteRestored, Believes
  <2> QED
    BY <1>8, <2>1, SpawnHome DEF OpenLocal, WriteRestored
<1>9. ASSUME NEW r \in Requests, FetchSnapshot(r) PROVE HomeInv'
  <2> DEFINE q == [req[r] EXCEPT !.pc = "writing", !.bytes = snapshot]
  <2>1. q.pc = "writing" /\ q.w = req[r].w
    BY <1>0 DEF Request
  <2>2. req' = [req EXCEPT ![r] = q] /\ UNCHANGED <<task, lease>> /\ lease = req[r].w
    BY <1>9 DEF FetchSnapshot, HomeInv, Believes
  <2> HIDE DEF q
  <2> QED
    BY <2>1, <2>2, RequestHome
<1>10. ASSUME NEW u \in Tasks,
              \/ Commit(u) \/ ShipCheck(u) \/ ShipRead(u) \/ ShipSnapshot(u) \/ ShipManifest(u)
              \/ ShipFails(u) \/ Hibernate(u)
       PROVE  HomeInv'
  <2>1. UNCHANGED <<lease, req>> /\ \A v \in Tasks : Live(v)' => Live(v)
    BY <1>10, TaskSteps
  <2> QED
    BY <2>1, TaskHome
<1>11. ASSUME NEW w \in Workers, Lapse(w) PROVE HomeInv'
  BY <1>11, LossesCounted
<1>12. ASSUME NEW w \in Workers, Crash(w) PROVE HomeInv'
  <2>1. lease' = (IF lease = w THEN Ghost ELSE lease)
    BY <1>12, CrashSteps
  <2>2. \A u \in Tasks : Live(u)' => Live(u) /\ Host(u) # w
    BY <1>12, CrashSteps
  <2>3. \A u \in Tasks : Live(u)' => lease' = Host(u)
    BY <2>1, <2>2 DEF HomeInv
  <2>4. \A r \in Requests : req'[r].pc = "idle" \/ (req'[r] = req[r] /\ req[r].w # w)
    BY <1>12, CrashSteps
  <2>5. \A r \in Requests : Believes(r)' => lease' = req'[r].w
    BY <2>1, <2>4 DEF HomeInv, Believes
  <2>6. \A r \in Requests : req'[r].pc = "insert" => ~req'[r].fresh
    BY <2>4 DEF HomeInv
  <2> QED
    BY <2>3, <2>5, <2>6 DEF HomeInv
<1>13. ASSUME NEW w \in Workers, Restart(w) \/ LoseVolume(w) PROVE HomeInv'
  BY <1>13, TaskHome DEF Restart, LoseVolume, Live
<1>14. CASE AgeOut
  <2>1. lease = Ghost /\ UNCHANGED <<task, req>>
    BY <1>14 DEF AgeOut
  <2>2. (\A u \in Tasks : ~Live(u)) /\ (\A r \in Requests : ~Believes(r))
    BY <1>0, <2>1, HostIsWorker DEF HomeInv
  <2> QED
    BY <2>1, <2>2 DEF HomeInv, Live, Believes
<1> QED
  BY <1>1, <1>2, <1>3, <1>4, <1>5, <1>6, <1>7, <1>8, <1>9, <1>10, <1>11, <1>12, <1>13, <1>14
     DEF Next

\* At first there is no task and no request.
LEMMA InitEmpty ==
  ASSUME Init
  PROVE  /\ \A u \in Tasks : ~Live(u) /\ task[u].pc = "idle"
         /\ \A r \in Requests : req[r].pc = "idle"
<1>1. \A u \in Tasks : task[u].epoch = 0 /\ task[u].pc = "idle"
  BY NoTaskIsTask DEF Init
<1>2. \A u \in Tasks : ~Live(u)
  <2> SUFFICES ASSUME NEW u \in Tasks PROVE ~(task[u].epoch > 0)
    BY DEF Live
  <2>1. task[u].epoch = 0
    BY <1>1
  <2> QED
    BY <2>1
<1>3. \A r \in Requests : req[r].pc = "idle"
  BY IdleIsRequest DEF Init
<1> QED
  BY <1>1, <1>2, <1>3

\* The factory's claim admits one home: for any number of workers, racing requests,
\* republishes, crashes, restarts and lost disks the object lives only where its lease
\* is held, and so never on two workers, as long as no live worker's node row is
\* deleted.
THEOREM OneHome == Spec => []LivesWhereLeased
<1>1. Init => HomeInv
  BY InitEmpty DEF HomeInv, Believes
<1>2. IInv /\ (NoLapse => HomeInv) /\ [Next]_vars => (NoLapse => HomeInv)'
  BY LossesCounted, NextHome
<1>3. (NoLapse => HomeInv) => LivesWhereLeased
  BY DEF HomeInv, LivesWhereLeased
<1> QED
  BY <1>1, <1>2, <1>3, AlwaysIInv, PTL DEF Spec

--------------------------------------------------------------------------------
(* What the store and the home have, where the disk goes with its process.     *)

\* A request inside get_or_spawn's factory, which InFactory says of its record.
Building(q) ==
  \/ q.pc \in {"insert", "select", "epoch"} /\ q.factory
  \/ q.pc \in {"restore", "writing"}

\* The registry lock: one factory at a time on a worker; it restores only where no
\* task lives; and until a republish it builds only there, so a worker's live task is
\* the one in its registry.
FactoryInv ==
  /\ \A r, s \in Requests : Building(req[r]) /\ Building(req[s]) /\ req[r].w = req[s].w => r = s
  /\ \A r \in Requests, u \in Tasks : req[r].pc = "writing" /\ Host(u) = req[r].w => ~Live(u)
  /\ NoRepublish => \A r \in Requests, u \in Tasks :
                      Building(req[r]) /\ Host(u) = req[r].w => ~Live(u)
  /\ NoRepublish => \A u \in Tasks : Live(u) => u = entry[Host(u)]

\* A step of a request up to the file: it becomes q, takes a free lease at most,
\* and enters the factory only through the registry lock.
RequestBecomes(r, q) ==
  /\ q \in Request /\ q.pc # "writing"
  /\ req' = [req EXCEPT ![r] = q]
  /\ Building(q) => /\ q.w = req[r].w
                    /\ \/ Building(req[r])
                       \/ /\ NoRepublish' => ~Resident(q.w)
                          /\ \A s \in Requests : req[s].w = q.w => ~Building(req[s])
  /\ lease' = lease \/ lease = Nobody
  /\ UNCHANGED <<running, task, entry, file, wal, snapshot, manifest, acked, shipped>>

\* InFactory is Building of the request's record.
LEMMA FactoryIsBuilding == \A r \in Requests : InFactory(r) <=> Building(req[r])
  BY DEF InFactory, Building

\* Every step of a request up to the file is of that shape.
LEMMA RequestSteps ==
  ASSUME IInv, [Next]_vars, NEW r \in Requests,
         \/ \E w \in Workers : Touch(r, w)
         \/ ClaimInsert(r) \/ ClaimSelect(r) \/ ClaimEpoch(r) \/ RequestFails(r)
         \/ EnterRegistry(r) \/ EnterRepublished(r) \/ RestoreTorn(r)
  PROVE  \E q : RequestBecomes(r, q)
<1> USE DEF registry, tasks, disk, blobs, history
<1>0. req[r] \in Request /\ req[r].w \in Workers /\ epoch \in Nat
  BY DEF IInv, TypeOK, Request
<1>1. ASSUME NEW w \in Workers, Touch(r, w) PROVE \E q : RequestBecomes(r, q)
  <2> DEFINE q == [IdleRequest(w) EXCEPT !.pc = IF Resident(w) THEN "lock" ELSE "insert"]
  <2>1. q \in Request /\ q.pc # "writing" /\ ~Building(q)
    BY DEF IdleRequest, Request, Building
  <2>2. req' = [req EXCEPT ![r] = q]
    BY <1>1 DEF Touch
  <2> HIDE DEF q
  <2>3. RequestBecomes(r, q)
    BY <1>1, <2>1, <2>2 DEF Touch, RequestBecomes
  <2> QED
    BY <2>3
<1>2. CASE ClaimInsert(r)
  <2> DEFINE kept == [req[r] EXCEPT !.pc = "select"]
             won == [req[r] EXCEPT !.pc = "select", !.fresh = TRUE]
  <2>1. /\ kept \in Request /\ kept.pc = "select" /\ kept.w = req[r].w
        /\ kept.factory = req[r].factory
        /\ won \in Request /\ won.pc = "select" /\ won.w = req[r].w
        /\ won.factory = req[r].factory
    BY <1>0 DEF Request
  <2>2. /\ req[r].pc = "insert"
        /\ req' = [req EXCEPT ![r] = kept] \/ req' = [req EXCEPT ![r] = won]
        /\ lease' = lease \/ lease = Nobody
    BY <1>2 DEF ClaimInsert
  <2> HIDE DEF kept, won
  <2>3. (Building(kept) => Building(req[r])) /\ (Building(won) => Building(req[r]))
    BY <2>1, <2>2 DEF Building
  <2>4. RequestBecomes(r, kept) \/ RequestBecomes(r, won)
    BY <1>2, <2>1, <2>2, <2>3 DEF ClaimInsert, RequestBecomes
  <2> QED
    BY <2>4
<1>3. CASE ClaimSelect(r)
  <2> DEFINE q == [req[r] EXCEPT !.pc = "epoch", !.mine = lease = req[r].w /\ ~req[r].stale]
  <2>1. q \in Request /\ q.w = req[r].w /\ q.pc = "epoch" /\ q.factory = req[r].factory
    BY <1>0 DEF Request
  <2>2. req' = [req EXCEPT ![r] = q] /\ req[r].pc = "select"
    BY <1>3 DEF ClaimSelect
  <2> HIDE DEF q
  <2>3. Building(q) => Building(req[r])
    BY <2>1, <2>2 DEF Building
  <2>4. RequestBecomes(r, q)
    BY <1>3, <2>1, <2>2, <2>3 DEF ClaimSelect, RequestBecomes
  <2> QED
    BY <2>4
<1>4. CASE ClaimEpoch(r)
  <2> DEFINE e == IF req[r].fresh THEN epoch + 1 ELSE IF epoch = 0 THEN 1 ELSE epoch
             won == [IdleRequest(req[r].w) EXCEPT
                       !.pc = IF req[r].factory THEN "restore" ELSE "lock",
                       !.epoch = IF req[r].factory THEN e ELSE 0]
             q == IF Granted(req[r]) THEN won ELSE IdleRequest(req[r].w)
  <2>1. e \in Nat
    BY <1>0
  <2>2. req' = [req EXCEPT ![r] = q] /\ req[r].pc = "epoch"
    BY <1>4 DEF ClaimEpoch
  <2> HIDE DEF e
  <2>3. won \in Request /\ won.w = req[r].w
        /\ won.pc = (IF req[r].factory THEN "restore" ELSE "lock")
    BY <1>0, <2>1 DEF IdleRequest, Request
  <2> HIDE DEF won
  <2>4. q \in Request /\ q.w = req[r].w
        /\ q.pc \in {"idle", "lock", "restore"} /\ (q.pc = "restore" => req[r].factory)
    BY <1>0, <2>3, IdleIsRequest
  <2> HIDE DEF q
  <2>5. Building(q) => Building(req[r])
    BY <2>2, <2>4 DEF Building
  <2>6. RequestBecomes(r, q)
    BY <1>4, <2>2, <2>4, <2>5 DEF ClaimEpoch, RequestBecomes
  <2> QED
    BY <2>6
<1>5. CASE RequestFails(r) \/ RestoreTorn(r)
  <2>1. RequestBecomes(r, IdleRequest(req[r].w))
    BY <1>0, <1>5, IdleIsRequest DEF RequestFails, RestoreTorn, Done, RequestBecomes, Building
  <2> QED
    BY <2>1
<1> DEFINE again == [IdleRequest(req[r].w) EXCEPT !.pc = "insert", !.factory = TRUE]
<1>7. again \in Request /\ again.w = req[r].w /\ again.pc = "insert"
  BY <1>0 DEF IdleRequest, Request
<1>8. ASSUME LockTaken(r), NoRepublish' => ~Resident(req[r].w), EnterFactory(r),
             lease' = lease \/ lease = Nobody,
             UNCHANGED <<running, task, entry, file, wal, snapshot, manifest, acked, shipped>>
      PROVE  \E q : RequestBecomes(r, q)
  <2>1. req' = [req EXCEPT ![r] = again]
    BY <1>8 DEF EnterFactory
  <2>2. \A s \in Requests : req[s].w = req[r].w => ~Building(req[s])
    BY <1>8, FactoryIsBuilding DEF LockTaken
  <2> HIDE DEF again
  <2>3. RequestBecomes(r, again)
    BY <1>7, <1>8, <2>1, <2>2 DEF RequestBecomes
  <2> QED
    BY <2>3
<1>6. CASE EnterRegistry(r)
  <2>1. CASE Resident(req[r].w)
    <3>1. RequestBecomes(r, IdleRequest(req[r].w))
      BY <1>0, <1>6, <2>1, IdleIsRequest DEF EnterRegistry, Done, RequestBecomes, Building
    <3> QED
      BY <3>1
  <2>2. CASE ~Resident(req[r].w)
    <3>1. LockTaken(r) /\ EnterFactory(r)
          /\ UNCHANGED <<lease, running, task, entry, file, wal, snapshot, manifest, acked, shipped>>
      BY <1>6, <2>2 DEF EnterRegistry
    <3> QED
      BY <1>8, <2>2, <3>1
  <2> QED
    BY <2>1, <2>2
<1>9. CASE EnterRepublished(r)
  <2>1. LockTaken(r) /\ EnterFactory(r)
        /\ UNCHANGED <<lease, running, task, entry, file, wal, snapshot, manifest, acked, shipped>>
    BY <1>9 DEF EnterRepublished
  <2>2. ~NoRepublish'
    BY <1>9, LossesCounted
  <2> QED
    BY <1>8, <2>1, <2>2
<1> QED
  BY <1>1, <1>2, <1>3, <1>4, <1>5, <1>6, <1>9

\* A live task has its file.
LEMMA LiveHasFile ==
  ASSUME IInv, NEW u \in Tasks, Live(u) PROVE file[Host(u)] # NoFile
<1>1. file[Host(u)] \in SUBSET (1..MaxWrites)
  BY DEF IInv, TaskOK, Writes
<1> QED
  BY <1>1

\* A spawn ends the one factory of its worker.
LEMMA SpawnFactory ==
  ASSUME IInv, FactoryInv, [Next]_vars, NEW r \in Requests, Building(req[r]),
         NEW content, Spawn(r, content)
  PROVE  FactoryInv'
<1>1. PICK u \in Tasks : /\ Host(u) = req[r].w
                         /\ \A v \in Tasks : v # u => (Live(v)' <=> Live(v))
                         /\ entry'[req[r].w] = u
                         /\ \A v \in Workers : v # req[r].w => entry'[v] = entry[v]
  BY SpawnSteps
<1>2. req'[r].pc = "idle" /\ \A s \in Requests : s # r => req'[s] = req[s]
  BY SpawnSteps
<1>3. \A s \in Requests : Building(req'[s]) => s # r /\ req'[s] = req[s]
  BY <1>2 DEF Building
<1>4. \A s \in Requests : Building(req'[s]) => req'[s].w # req[r].w
  BY <1>3 DEF FactoryInv
<1>5. \A s \in Requests, v \in Tasks :
        Building(req'[s]) /\ Host(v) = req'[s].w => v # u /\ (Live(v)' <=> Live(v))
  BY <1>1, <1>4
<1>6. NoRepublish' => NoRepublish
  BY LossesCounted
<1>7. \A s \in Requests, v \in Tasks : req'[s].pc = "writing" /\ Host(v) = req'[s].w => ~Live(v)'
  BY <1>3, <1>5 DEF FactoryInv, Building
<1>8. NoRepublish' => \A s \in Requests, v \in Tasks :
                        Building(req'[s]) /\ Host(v) = req'[s].w => ~Live(v)'
  BY <1>3, <1>5, <1>6 DEF FactoryInv
<1>9. ASSUME NoRepublish', NEW v \in Tasks, Live(v)' PROVE v = entry'[Host(v)]
  <2>1. CASE v = u
    BY <1>1, <2>1
  <2>2. CASE v # u
    <3>1. Live(v) /\ v = entry[Host(v)]
      BY <1>1, <1>6, <1>9, <2>2 DEF FactoryInv
    <3>2. Host(v) # req[r].w /\ Host(v) \in Workers
      BY <1>6, <1>9, <3>1, HostIsWorker DEF FactoryInv
    <3> QED
      BY <1>1, <3>1, <3>2
  <2> QED
    BY <2>1, <2>2
<1>10. \A s, t \in Requests :
         Building(req'[s]) /\ Building(req'[t]) /\ req'[s].w = req'[t].w => s = t
  BY <1>3 DEF FactoryInv
<1> QED
  BY <1>7, <1>8, <1>9, <1>10 DEF FactoryInv

\* A step that starts no task and leaves the requests alone, but for ended ones.
LEMMA QuietFactory ==
  ASSUME IInv, FactoryInv, [Next]_vars,
         \A r \in Requests : Building(req'[r]) => Building(req[r]) /\ req'[r].w = req[r].w,
         \A r \in Requests : req'[r].pc = "writing" => req[r].pc = "writing",
         entry' = entry,
         \A u \in Tasks : Live(u)' => Live(u)
  PROVE  FactoryInv'
<1>2. NoRepublish' => NoRepublish
  BY LossesCounted
<1>4. \A r \in Requests : req'[r].pc = "writing" => Building(req'[r])
  BY DEF Building
<1>6. \A r \in Requests, u \in Tasks : req'[r].pc = "writing" /\ Host(u) = req'[r].w => ~Live(u)'
  BY <1>4 DEF FactoryInv
<1>7. NoRepublish' => \A r \in Requests, u \in Tasks :
                        Building(req'[r]) /\ Host(u) = req'[r].w => ~Live(u)'
  BY <1>2 DEF FactoryInv
<1>8. NoRepublish' => \A u \in Tasks : Live(u)' => u = entry'[Host(u)]
  BY <1>2 DEF FactoryInv
<1>9. \A s, t \in Requests :
         Building(req'[s]) /\ Building(req'[t]) /\ req'[s].w = req'[t].w => s = t
  BY DEF FactoryInv
<1> QED
  BY <1>6, <1>7, <1>8, <1>9 DEF FactoryInv

\* Every step keeps the registry lock's promise.
LEMMA NextFactory ==
  ASSUME IInv, FactoryInv, [Next]_vars
  PROVE  FactoryInv'
<1> USE DEF registry, tasks, disk, blobs, history
<1>0. /\ \A r \in Requests : req[r] \in Request /\ req[r].w \in Workers
      /\ req \in [Requests -> Request]
  BY DEF IInv, TypeOK, Request
<1>1. ASSUME UNCHANGED <<req, task, entry>> PROVE FactoryInv'
  BY <1>1, QuietFactory DEF Live
<1>2. ASSUME NEW r \in Requests,
             \/ \E w \in Workers : Touch(r, w)
             \/ ClaimInsert(r) \/ ClaimSelect(r) \/ ClaimEpoch(r) \/ RequestFails(r)
             \/ EnterRegistry(r) \/ EnterRepublished(r) \/ RestoreTorn(r)
      PROVE  FactoryInv'
  <2>1. PICK q : RequestBecomes(r, q)
    BY <1>2, RequestSteps
  <2>2. /\ \A s \in Requests : s # r => req'[s] = req[s]
        /\ req'[r] = q /\ q.pc # "writing" /\ UNCHANGED <<task, entry>>
    BY <1>0, <2>1 DEF RequestBecomes
  <2>3. Building(q) => q.w = req[r].w
    BY <2>1 DEF RequestBecomes
  <2>4. Building(q) => \A s \in Requests : s # r /\ req[s].w = q.w => ~Building(req[s])
    BY <2>1, <2>3 DEF RequestBecomes, FactoryInv
  <2>5. \A u \in Tasks : Live(u)' <=> Live(u)
    BY <2>2 DEF Live
  <2>6. NoRepublish' => NoRepublish
    BY LossesCounted
  <2>7. ASSUME NoRepublish', Building(q), NEW u \in Tasks, Host(u) = q.w PROVE ~Live(u)
    <3>1. CASE Building(req[r])
      BY <2>3, <2>6, <2>7, <3>1 DEF FactoryInv
    <3>2. CASE ~Resident(q.w)
      BY <2>6, <2>7, <3>2 DEF FactoryInv, Resident
    <3> QED
      BY <2>1, <2>7, <3>1, <3>2 DEF RequestBecomes
  <2>8. NoRepublish' => \A s \in Requests, u \in Tasks :
                          Building(req'[s]) /\ Host(u) = req'[s].w => ~Live(u)'
    BY <2>2, <2>5, <2>6, <2>7 DEF FactoryInv
  <2>9. \A s \in Requests, u \in Tasks : req'[s].pc = "writing" /\ Host(u) = req'[s].w => ~Live(u)'
    BY <2>2, <2>5 DEF FactoryInv
  <2>10. \A s, t \in Requests :
           Building(req'[s]) /\ Building(req'[t]) /\ req'[s].w = req'[t].w => s = t
    BY <2>2, <2>4 DEF FactoryInv
  <2>11. NoRepublish' => \A u \in Tasks : Live(u)' => u = entry'[Host(u)]
    BY <2>2, <2>6 DEF FactoryInv, Live
  <2> QED
    BY <2>8, <2>9, <2>10, <2>11 DEF FactoryInv
<1>3. ASSUME NEW r \in Requests, OpenLocal(r) \/ WriteRestored(r) PROVE FactoryInv'
  <2>1. Building(req[r])
    BY <1>3 DEF OpenLocal, WriteRestored, Building
  <2> QED
    BY <1>3, <2>1, SpawnFactory DEF OpenLocal, WriteRestored
<1>4. ASSUME NEW r \in Requests, FetchSnapshot(r) PROVE FactoryInv'
  <2> DEFINE q == [req[r] EXCEPT !.pc = "writing", !.bytes = snapshot]
  <2>1. q.pc = "writing" /\ q.w = req[r].w
    BY <1>0 DEF Request
  <2>2. /\ req' = [req EXCEPT ![r] = q] /\ UNCHANGED <<task, entry>> /\ req[r].pc = "restore"
        /\ file[req[r].w] = NoFile
    BY <1>4 DEF FetchSnapshot
  <2> HIDE DEF q
  <2>3. \A s \in Requests : Building(req'[s]) => Building(req[s]) /\ req'[s].w = req[s].w
    BY <1>0, <2>1, <2>2 DEF Building
  <2>4. \A u \in Tasks : Live(u)' <=> Live(u)
    BY <2>2 DEF Live
  <2>5. \A u \in Tasks : Host(u) = req[r].w => ~Live(u)
    BY <2>2, LiveHasFile
  <2>6. req'[r].w = req[r].w /\ \A s \in Requests : s # r => req'[s] = req[s]
    BY <1>0, <2>1, <2>2
  <2>7. \A s \in Requests, u \in Tasks : req'[s].pc = "writing" /\ Host(u) = req'[s].w => ~Live(u)'
    BY <2>4, <2>5, <2>6 DEF FactoryInv
  <2>8. NoRepublish' => NoRepublish
    BY LossesCounted
  <2>9. NoRepublish' => \A s \in Requests, u \in Tasks :
                          Building(req'[s]) /\ Host(u) = req'[s].w => ~Live(u)'
    BY <2>3, <2>4, <2>8 DEF FactoryInv
  <2>10. \A s, t \in Requests :
           Building(req'[s]) /\ Building(req'[t]) /\ req'[s].w = req'[t].w => s = t
    BY <2>3 DEF FactoryInv
  <2>11. NoRepublish' => \A u \in Tasks : Live(u)' => u = entry'[Host(u)]
    BY <2>2, <2>8 DEF FactoryInv, Live
  <2> QED
    BY <2>7, <2>9, <2>10, <2>11 DEF FactoryInv
<1>5. ASSUME NEW u \in Tasks,
             \/ Commit(u) \/ ShipCheck(u) \/ ShipRead(u) \/ ShipSnapshot(u) \/ ShipManifest(u)
             \/ ShipFails(u) \/ Hibernate(u)
      PROVE  FactoryInv'
  <2>1. UNCHANGED <<req, entry>> /\ \A v \in Tasks : Live(v)' => Live(v)
    BY <1>5, TaskSteps
  <2> QED
    BY <2>1, QuietFactory
<1>6. ASSUME NEW w \in Workers, Lapse(w) PROVE FactoryInv'
  <2> DEFINE s(r) == [req[r] EXCEPT !.stale = TRUE]
  <2>1. \A r \in Requests : /\ s(r).pc = req[r].pc /\ s(r).w = req[r].w
                            /\ s(r).factory = req[r].factory
    BY <1>0 DEF Request
  <2>2. UNCHANGED <<task, entry>> /\ \A r \in Requests : req'[r] = req[r] \/ req'[r] = s(r)
    BY <1>6 DEF Lapse
  <2> HIDE DEF s
  <2>3. \A r \in Requests : Building(req'[r]) => Building(req[r]) /\ req'[r].w = req[r].w
    BY <2>1, <2>2 DEF Building
  <2>4. \A r \in Requests : req'[r].pc = "writing" => req[r].pc = "writing"
    BY <2>1, <2>2
  <2>5. \A u \in Tasks : Live(u)' => Live(u)
    BY <2>2 DEF Live
  <2> QED
    BY <2>2, <2>3, <2>4, <2>5, QuietFactory
<1>7. ASSUME NEW w \in Workers, Crash(w) PROVE FactoryInv'
  <2>1. \A r \in Requests : req'[r].pc = "idle" \/ (req'[r] = req[r] /\ req[r].w # w)
    BY <1>7, CrashSteps
  <2>2. \A r \in Requests : Building(req'[r]) => Building(req[r]) /\ req'[r].w = req[r].w
    BY <2>1 DEF Building
  <2>3. \A r \in Requests : req'[r].pc = "writing" => req[r].pc = "writing"
    BY <2>1
  <2>4. entry' = entry /\ \A u \in Tasks : Live(u)' => Live(u)
    BY <1>7, CrashSteps
  <2> QED
    BY <2>2, <2>3, <2>4, QuietFactory
<1>8. ASSUME NEW w \in Workers, Restart(w) \/ LoseVolume(w) PROVE FactoryInv'
  BY <1>1, <1>8 DEF Restart, LoseVolume
<1>9. CASE AgeOut
  BY <1>1, <1>9 DEF AgeOut
<1>10. CASE UNCHANGED vars
  BY <1>1, <1>10 DEF vars
<1> QED
  BY <1>2, <1>3, <1>4, <1>5, <1>6, <1>7, <1>8, <1>9, <1>10 DEF Next

\* At first no factory runs.
LEMMA InitFactory == Init => FactoryInv
  BY InitEmpty DEF FactoryInv, Building

\* A worker whose file a restore has emptied and not filled yet.
Rewriting(w) == \E r \in Requests : req[r].pc = "writing" /\ req[r].w = w

\* What a task on its way to the store carries, with this file and this snapshot.
Carries(t, content, stored) ==
  /\ t.pc # "idle" => t.write \in content
  /\ t.pc = "put" => t.write \in t.bytes /\ shipped \subseteq t.bytes
  /\ t.pc = "manifest" => t.write \in stored

\* The files and the store of a sheltered object.  A file lies only where the lease
\* is, so nobody ships but the home and nobody restores beside it; every file but a
\* half-restored one has what was shipped, and a restore or a ship carries it.
ShipInv ==
  /\ \A w \in Workers : wal[w] = {}
  /\ shipped \subseteq snapshot
  /\ shipped # {} => manifest > 0
  /\ \A w \in Workers : file[w] # NoFile => lease = w
  /\ \A w \in Workers : file[w] # NoFile => Rewriting(w) \/ shipped \subseteq file[w]
  /\ \A r \in Requests : req[r].pc = "writing" => shipped \subseteq req[r].bytes
  /\ \A u \in Tasks : Carries(task[u], file[Host(u)], snapshot)

\* At home there is no restore: the file has everything that was shipped.
LEMMA HomeIsWhole ==
  ASSUME IInv, FactoryInv, ShipInv, NEW u \in Tasks, Live(u)
  PROVE  ~Rewriting(Host(u)) /\ shipped \subseteq file[Host(u)]
<1>1. ~Rewriting(Host(u))
  BY DEF FactoryInv, Rewriting
<1> QED
  BY <1>1, LiveHasFile, HostIsWorker DEF ShipInv

\* A step of a request up to the file.
LEMMA RequestShip ==
  ASSUME IInv, ShipInv, NEW r \in Requests, req[r].pc # "writing", NEW q, RequestBecomes(r, q)
  PROVE  ShipInv'
<1>1. /\ \A s \in Requests : s # r => req'[s] = req[s]
      /\ req'[r] = q /\ q.pc # "writing"
      /\ lease' = lease \/ lease = Nobody
      /\ UNCHANGED <<task, file, wal, snapshot, manifest, shipped>>
  BY DEF RequestBecomes, IInv, TypeOK
<1>2. \A w \in Workers : Rewriting(w)' <=> Rewriting(w)
  BY <1>1 DEF Rewriting
<1>4. \A w \in Workers : file[w] # NoFile => lease' = w
  BY <1>1 DEF ShipInv
<1>5. \A s \in Requests : req'[s].pc = "writing" => shipped \subseteq req'[s].bytes
  BY <1>1 DEF ShipInv
<1> QED
  BY <1>1, <1>2, <1>4, <1>5 DEF ShipInv, Carries

\* A spawn on content that has what was shipped.
LEMMA SpawnShip ==
  ASSUME IInv, HomeInv, FactoryInv, ShipInv, NoRepublish, NEW r \in Requests,
         req[r].pc \in {"restore", "writing"}, NEW content,
         shipped \subseteq content, Spawn(r, content)
  PROVE  ShipInv'
<1>1. req[r].w \in Workers /\ lease = req[r].w
  BY SpawnSteps DEF HomeInv, Believes
<1>2. /\ file'[req[r].w] = content /\ \A v \in Workers : v # req[r].w => file'[v] = file[v]
      /\ UNCHANGED <<lease, wal, snapshot, manifest, shipped>>
      /\ req'[r].pc = "idle" /\ \A s \in Requests : s # r => req'[s] = req[s]
  BY SpawnSteps
<1>3. PICK u \in Tasks : /\ Host(u) = req[r].w /\ task'[u].pc = "idle"
                         /\ \A v \in Tasks : v # u => task'[v] = task[v]
  BY SpawnSteps
<1>4. \A v \in Tasks : Host(v) = req[r].w => ~Live(v)
  BY DEF FactoryInv, Building
<1>5. \A v \in Tasks : task'[v].pc = "idle" \/ (task'[v] = task[v] /\ Host(v) # req[r].w)
  BY <1>3, <1>4 DEF IInv, TaskOK
<1>6. \A v \in Tasks : Carries(task[v], file[Host(v)], snapshot)'
  BY <1>2, <1>5, HostIsWorker DEF ShipInv, Carries
<1>7. \A v \in Workers : v # req[r].w => (Rewriting(v) => Rewriting(v)')
  BY <1>2 DEF Rewriting
<1>8. \A v \in Workers : file'[v] # NoFile => lease' = v
  BY <1>1, <1>2 DEF ShipInv
<1>9. \A v \in Workers : file'[v] # NoFile => Rewriting(v)' \/ shipped \subseteq file'[v]
  BY <1>2, <1>7 DEF ShipInv
<1>10. \A s \in Requests : req'[s].pc = "writing" => shipped \subseteq req'[s].bytes
  BY <1>2 DEF ShipInv
<1> QED
  BY <1>2, <1>6, <1>8, <1>9, <1>10 DEF ShipInv

\* A step of the task at home, given what it makes of the home's file and the store.
LEMMA TaskShip ==
  ASSUME IInv, HomeInv, FactoryInv, ShipInv, NoRepublish, NEW u \in Tasks, Live(u),
         UNCHANGED <<lease, req>>,
         \A v \in Tasks : v # u => task'[v] = task[v],
         \A w \in Workers : w # Host(u) => file'[w] = file[w] /\ wal'[w] = wal[w],
         wal'[Host(u)] = {},
         shipped' \subseteq snapshot', shipped' \subseteq file'[Host(u)],
         shipped' # {} => manifest' > 0,
         Carries(task[u], file[Host(u)], snapshot)'
  PROVE  ShipInv'
<1>1. lease = Host(u) /\ Host(u) \in Workers
  BY HostIsWorker DEF HomeInv
<1>2. \A v \in Tasks : v # u => ~Live(v)
  BY <1>1 DEF HomeInv, FactoryInv
<1>3. \A v \in Tasks : v # u => task'[v].pc = "idle"
  BY <1>2 DEF IInv, TaskOK
<1>4. \A w \in Workers : w # Host(u) => file'[w] = NoFile
  BY <1>1 DEF ShipInv
<1>5. \A r \in Requests : req[r].pc # "writing"
  <2> SUFFICES ASSUME NEW r \in Requests, req[r].pc = "writing" PROVE FALSE
    OBVIOUS
  <2>1. req[r].w = Host(u)
    BY <1>1 DEF HomeInv, Believes
  <2> QED
    BY <2>1 DEF FactoryInv
<1>6. \A w \in Workers : wal'[w] = {}
  BY DEF ShipInv
<1>7. \A w \in Workers : file'[w] # NoFile => lease' = w /\ shipped' \subseteq file'[w]
  BY <1>1, <1>4
<1>8. \A r \in Requests : req'[r].pc = "writing" => shipped' \subseteq req'[r].bytes
  BY <1>5
<1>9. \A v \in Tasks : Carries(task[v], file[Host(v)], snapshot)'
  BY <1>3 DEF Carries
<1> QED
  BY <1>6, <1>7, <1>8, <1>9 DEF ShipInv

\* A sheltered object's steps keep every shipped write in the store and at home.
LEMMA NextShip ==
  ASSUME Sheltered', IInv, HomeInv, FactoryInv, ShipInv, [Next]_vars
  PROVE  ShipInv'
<1> USE DEF registry, tasks, disk, blobs, history
<1>0. /\ \A r \in Requests : req[r] \in Request /\ req[r].w \in Workers
      /\ task \in [Tasks -> Task] /\ req \in [Requests -> Request]
      /\ file \in [Workers -> (SUBSET Writes) \cup {NoFile}] /\ wal \in [Workers -> SUBSET Writes]
      /\ \A u \in Tasks : Host(u) \in Workers
      /\ NoLapse' /\ NoRepublish' /\ spent'.blocked = 0 /\ spent'.torn = 0 /\ ~KeepsVolume
  BY HostIsWorker DEF IInv, TypeOK, Request, Sheltered
<1>00. NoRepublish
  BY <1>0, LossesCounted
<1>1. ASSUME UNCHANGED <<lease, req, task, file, wal, snapshot, manifest, shipped>>
      PROVE  ShipInv'
  <2>1. \A w \in Workers : Rewriting(w)' <=> Rewriting(w)
    BY <1>1 DEF Rewriting
  <2> QED
    BY <1>1, <2>1 DEF ShipInv, Carries
<1>2. ASSUME NEW r \in Requests,
             \/ \E w \in Workers : Touch(r, w)
             \/ ClaimInsert(r) \/ ClaimSelect(r) \/ ClaimEpoch(r) \/ RequestFails(r)
             \/ EnterRegistry(r) \/ EnterRepublished(r)
      PROVE  ShipInv'
  <2>1. PICK q : RequestBecomes(r, q)
    BY <1>2, RequestSteps
  <2>2. req[r].pc # "writing"
    BY <1>2 DEF Touch, ClaimInsert, ClaimSelect, ClaimEpoch, RequestFails, EnterRegistry,
                EnterRepublished, LockTaken
  <2> QED
    BY <2>1, <2>2, RequestShip
<1>18. ASSUME NEW r \in Requests, RestoreTorn(r) PROVE ShipInv'
  BY <1>0, <1>18, LossesCounted
<1>3. ASSUME NEW r \in Requests, OpenLocal(r) PROVE ShipInv'
  <2>1. req[r].pc = "restore" /\ req[r].w \in Workers
    BY <1>0, <1>3 DEF OpenLocal
  <2>2. ~Rewriting(req[r].w)
    BY <2>1 DEF FactoryInv, Building, Rewriting
  <2>3. CASE file[req[r].w] # NoFile /\ Spawn(r, file[req[r].w])
    <3>1. shipped \subseteq file[req[r].w]
      BY <2>1, <2>2, <2>3 DEF ShipInv
    <3> QED
      BY <1>00, <2>1, <2>3, <3>1, SpawnShip
  <2>4. CASE manifest = 0 /\ Spawn(r, {})
    <3>1. ~(manifest > 0)
      BY <2>4
    <3>2. shipped \subseteq {}
      BY <3>1 DEF ShipInv
    <3> QED
      BY <1>00, <2>1, <2>4, <3>2, SpawnShip
  <2> QED
    BY <1>3, <2>3, <2>4 DEF OpenLocal
<1>4. ASSUME NEW r \in Requests, WriteRestored(r) PROVE ShipInv'
  <2>1. req[r].pc = "writing" /\ Spawn(r, req[r].bytes) /\ shipped \subseteq req[r].bytes
    BY <1>4 DEF WriteRestored, ShipInv
  <2> QED
    BY <1>00, <2>1, SpawnShip
<1>5. ASSUME NEW r \in Requests, FetchSnapshot(r) PROVE ShipInv'
  <2> DEFINE q == [req[r] EXCEPT !.pc = "writing", !.bytes = snapshot]
             w == req[r].w
  <2>1. q.pc = "writing" /\ q.w = w /\ q.bytes = snapshot
    BY <1>0 DEF Request
  <2>2. /\ req' = [req EXCEPT ![r] = q] /\ req[r].pc = "restore" /\ file[w] = NoFile
        /\ file' = [file EXCEPT ![w] = {}]
        /\ UNCHANGED <<lease, task, wal, snapshot, manifest, shipped>>
    BY <1>5 DEF FetchSnapshot
  <2> HIDE DEF q
  <2>3. /\ \A s \in Requests : s # r => req'[s] = req[s]
        /\ req'[r] = q /\ w \in Workers
        /\ \A v \in Workers : v # w => file'[v] = file[v]
    BY <1>0, <2>2
  <2>4. lease = w
    BY <2>2 DEF HomeInv, Believes
  <2>5. \A v \in Workers : v = w \/ Rewriting(v) => Rewriting(v)'
    BY <2>1, <2>2, <2>3 DEF Rewriting
  <2>7. \A v \in Workers : file'[v] # NoFile => lease' = v
    BY <2>2, <2>3, <2>4 DEF ShipInv
  <2>8. \A v \in Workers : file'[v] # NoFile => Rewriting(v)' \/ shipped \subseteq file'[v]
    BY <2>3, <2>5 DEF ShipInv
  <2>9. \A s \in Requests : req'[s].pc = "writing" => shipped \subseteq req'[s].bytes
    BY <2>1, <2>3 DEF ShipInv
  <2>10. \A u \in Tasks : Host(u) = w => task[u].pc = "idle"
    BY <2>2, LiveHasFile DEF IInv, TaskOK
  <2>11. \A u \in Tasks : Carries(task[u], file[Host(u)], snapshot)'
    BY <1>0, <2>2, <2>3, <2>10 DEF ShipInv, Carries
  <2> QED
    BY <2>2, <2>7, <2>8, <2>9, <2>11 DEF ShipInv
<1>6. ASSUME NEW u \in Tasks, Commit(u) PROVE ShipInv'
  <2> DEFINE k == spent.writes + 1
             t == [task[u] EXCEPT !.pc = "check", !.write = k]
             w == Host(u)
  <2>1. /\ task' = [task EXCEPT ![u] = t] /\ file' = [file EXCEPT ![w] = @ \cup {k}]
        /\ UNCHANGED <<snapshot, manifest, shipped>>
    BY <1>6 DEF Commit
  <2>2. t.pc = "check" /\ t.write = k
    BY <1>0 DEF Task
  <2> HIDE DEF t, k
  <2>3. wal'[w] = {}
    BY <1>0, <1>6, LossesCounted
  <2>4. task'[u] = t /\ file'[w] = file[w] \cup {k}
    BY <1>0, <2>1
  <2>5. shipped \subseteq file[w]
    BY <1>6, TaskSteps, HomeIsWhole
  <2>6. Carries(task[u], file[Host(u)], snapshot)' /\ shipped' \subseteq file'[w]
    BY <2>1, <2>2, <2>4, <2>5 DEF Carries
  <2>7. shipped' \subseteq snapshot' /\ (shipped' # {} => manifest' > 0)
    BY <2>1 DEF ShipInv
  <2> QED
    BY <1>00, <1>6, <2>3, <2>6, <2>7, TaskSteps, TaskShip
<1>7. ASSUME NEW u \in Tasks, NEW ok, Reply(u, ok), task[u].pc # "idle",
             ok => task[u].write \in snapshot /\ manifest' > 0,
             ~ok => manifest' = manifest,
             UNCHANGED <<lease, req, file, wal, snapshot>>
      PROVE  ShipInv'
  <2> DEFINE t == [task[u] EXCEPT !.pc = "idle", !.write = 0, !.bytes = {}]
             w == Host(u)
  <2>1. t.pc = "idle" /\ task' = [task EXCEPT ![u] = t]
    BY <1>0, <1>7, ZenonT(60) DEF Reply, Task
  <2> HIDE DEF t
  <2>2. task'[u].pc = "idle" /\ \A v \in Tasks : v # u => task'[v] = task[v]
    BY <1>0, <2>1
  <2>3. Live(u)
    BY <1>7 DEF IInv, TaskOK
  <2>4. shipped \subseteq file[w]
    BY <2>3, HomeIsWhole
  <2>5. task[u].write \in file[w] /\ wal[w] = {}
    BY <1>0, <1>7 DEF ShipInv, Carries
  <2>6. shipped' = (IF ok THEN shipped \cup {task[u].write} ELSE shipped)
    BY <1>7 DEF Reply
  <2>7. shipped' \subseteq file'[w] /\ shipped' \subseteq snapshot' /\ (shipped' # {} => manifest' > 0)
    BY <1>7, <2>4, <2>5, <2>6 DEF ShipInv
  <2>8. wal'[w] = {} /\ Carries(task[u], file[Host(u)], snapshot)'
    BY <1>7, <2>2, <2>5 DEF Carries
  <2> QED
    BY <1>00, <1>7, <2>2, <2>3, <2>7, <2>8, TaskShip
<1>19. ASSUME NEW u \in Tasks, task[u].pc # "idle",
              NEW pc \in {"read", "put", "manifest"}, NEW bytes,
              task' = [task EXCEPT ![u] = [task[u] EXCEPT !.pc = pc, !.bytes = bytes]],
              pc = "put" => task[u].write \in bytes /\ shipped \subseteq bytes,
              pc = "manifest" => task[u].write \in snapshot',
              shipped \subseteq snapshot',
              UNCHANGED <<lease, req, file, wal, manifest, shipped>>
       PROVE  ShipInv'
  <2> DEFINE t == [task[u] EXCEPT !.pc = pc, !.bytes = bytes]
  <2>1. t.pc = pc /\ t.bytes = bytes /\ t.write = task[u].write
    BY <1>0 DEF Task
  <2>2. task' = [task EXCEPT ![u] = t]
    BY <1>19
  <2> HIDE DEF t
  <2>3. task'[u] = t /\ \A v \in Tasks : v # u => task'[v] = task[v]
    BY <1>0, <2>2
  <2>4. Live(u)
    BY <1>19 DEF IInv, TaskOK
  <2>5. shipped \subseteq file[Host(u)]
    BY <2>4, HomeIsWhole
  <2>6. task[u].write \in file[Host(u)] /\ wal[Host(u)] = {}
    BY <1>0, <1>19 DEF ShipInv, Carries
  <2>7. Carries(task[u], file[Host(u)], snapshot)'
    BY <1>19, <2>1, <2>3, <2>6 DEF Carries
  <2>8. shipped' # {} => manifest' > 0
    BY <1>19 DEF ShipInv
  <2> QED
    BY <1>00, <1>19, <2>3, <2>4, <2>5, <2>6, <2>7, <2>8, TaskShip
<1>8. ASSUME NEW u \in Tasks, ShipCheck(u) PROVE ShipInv'
  <2>0. task[u].pc # "idle" /\ UNCHANGED <<lease, req, file, wal, snapshot, manifest>>
    BY <1>8 DEF ShipCheck
  <2>1. CASE Reply(u, FALSE)
    BY <1>7, <2>0, <2>1
  <2>2. CASE task' = [task EXCEPT ![u].pc = "read"] /\ UNCHANGED history
    <3>1. task' = [task EXCEPT ![u] = [task[u] EXCEPT !.pc = "read", !.bytes = task[u].bytes]]
      BY <1>0, <2>2 DEF Task
    <3>2. shipped \subseteq snapshot'
      BY <2>0 DEF ShipInv
    <3> QED
      BY <1>19, <2>0, <2>2, <3>1, <3>2
  <2> QED
    BY <1>8, <2>1, <2>2 DEF ShipCheck
<1>20. ASSUME NEW u \in Tasks, ShipRead(u) PROVE ShipInv'
  <2>1. /\ task[u].pc # "idle"
        /\ UNCHANGED <<lease, req, file, wal, snapshot, manifest, shipped>>
    BY <1>20 DEF ShipRead
  <2>2. wal[Host(u)] = {} /\ task[u].write \in file[Host(u)]
    BY <1>0, <2>1 DEF ShipInv, Carries
  <2>3. shipped \subseteq file[Host(u)]
    BY <1>20, TaskSteps, HomeIsWhole
  <2> DEFINE bytes == file[Host(u)] \ wal[Host(u)]
  <2>4. task[u].write \in bytes /\ shipped \subseteq bytes
    BY <2>2, <2>3
  <2>5. task' = [task EXCEPT ![u] = [task[u] EXCEPT !.pc = "put", !.bytes = bytes]]
    BY <1>0, <1>20 DEF ShipRead
  <2> HIDE DEF bytes
  <2>6. shipped \subseteq snapshot'
    BY <2>1 DEF ShipInv
  <2> QED
    BY <1>19, <2>1, <2>4, <2>5, <2>6
<1>9. ASSUME NEW u \in Tasks, ShipSnapshot(u) PROVE ShipInv'
  <2>1. /\ task[u].pc = "put" /\ snapshot' = task[u].bytes
        /\ UNCHANGED <<lease, req, file, wal, manifest, shipped>>
    BY <1>9 DEF ShipSnapshot
  <2>2. task[u].write \in snapshot' /\ shipped \subseteq snapshot'
    BY <2>1 DEF ShipInv, Carries
  <2>3. task' = [task EXCEPT ![u] = [task[u] EXCEPT !.pc = "manifest", !.bytes = task[u].bytes]]
    BY <1>0, <1>9 DEF ShipSnapshot, Task
  <2> QED
    BY <1>19, <2>1, <2>2, <2>3
<1>10. ASSUME NEW u \in Tasks, ShipManifest(u) PROVE ShipInv'
  <2>1. /\ task[u].pc = "manifest" /\ Reply(u, TRUE) /\ manifest' = task[u].epoch
        /\ UNCHANGED <<lease, req, file, wal, snapshot>>
    BY <1>10 DEF ShipManifest
  <2>2. task[u].pc # "idle" /\ task[u].write \in snapshot
    BY <2>1 DEF ShipInv, Carries
  <2>3. manifest' > 0
    BY <2>1 DEF IInv, TaskOK, Live
  <2> QED
    BY <1>7, <2>1, <2>2, <2>3
<1>11. ASSUME NEW u \in Tasks, ShipFails(u) PROVE ShipInv'
  BY <1>7, <1>11 DEF ShipFails
<1>12. ASSUME NEW u \in Tasks, Hibernate(u) PROVE ShipInv'
  <2>1. /\ task'[u] = NoTask /\ UNCHANGED <<file, snapshot, manifest, shipped>>
    BY <1>0, <1>12 DEF Hibernate
  <2>2. wal'[Host(u)] = {}
    BY <1>0, <1>12 DEF Hibernate, ShipInv
  <2>3. shipped' \subseteq file'[Host(u)]
    BY <1>12, <2>1, TaskSteps, HomeIsWhole
  <2>4. shipped' \subseteq snapshot' /\ (shipped' # {} => manifest' > 0)
    BY <2>1 DEF ShipInv
  <2>5. Carries(task[u], file[Host(u)], snapshot)'
    BY <2>1, NoTaskIsTask DEF Carries
  <2> QED
    BY <1>00, <1>12, <2>2, <2>3, <2>4, <2>5, TaskSteps, TaskShip
<1>13. ASSUME NEW w \in Workers, Lapse(w) PROVE ShipInv'
  BY <1>0, <1>13, LossesCounted
<1>14. ASSUME NEW w \in Workers, Crash(w) PROVE ShipInv'
  <2>1. /\ file'[w] = NoFile /\ wal'[w] = {}
        /\ \A v \in Workers : v # w => file'[v] = file[v] /\ wal'[v] = wal[v]
        /\ \A r \in Requests : req'[r].pc = "idle" \/ (req'[r] = req[r] /\ req[r].w # w)
        /\ \A r \in Requests : req[r].w # w => req'[r] = req[r]
        /\ lease' = (IF lease = w THEN Ghost ELSE lease)
        /\ UNCHANGED <<snapshot, manifest, shipped>>
    BY <1>0, <1>14, CrashSteps
  <2>2. \A u \in Tasks : IF Host(u) = w THEN task'[u].pc = "idle" ELSE task'[u] = task[u]
    BY <1>14, CrashSteps
  <2>4. \A v \in Workers : v # w => (Rewriting(v) => Rewriting(v)')
    BY <2>1 DEF Rewriting
  <2>5. \A v \in Workers : file'[v] # NoFile => lease' = v
    BY <2>1 DEF ShipInv
  <2>6. \A v \in Workers : file'[v] # NoFile => Rewriting(v)' \/ shipped \subseteq file'[v]
    BY <2>1, <2>4 DEF ShipInv
  <2>7. \A r \in Requests : req'[r].pc = "writing" => shipped \subseteq req'[r].bytes
    BY <2>1 DEF ShipInv
  <2>8. \A u \in Tasks : Carries(task[u], file[Host(u)], snapshot)'
    BY <1>0, <2>1, <2>2 DEF ShipInv, Carries
  <2>9. \A v \in Workers : wal'[v] = {}
    BY <2>1 DEF ShipInv
  <2> QED
    BY <2>1, <2>5, <2>6, <2>7, <2>8, <2>9 DEF ShipInv
<1>15. ASSUME NEW w \in Workers, Restart(w) PROVE ShipInv'
  BY <1>1, <1>15 DEF Restart
<1>16. ASSUME NEW w \in Workers, LoseVolume(w) PROVE ShipInv'
  <2>1. /\ file' = [file EXCEPT ![w] = NoFile] /\ wal' = [wal EXCEPT ![w] = {}]
        /\ UNCHANGED <<lease, req, task, snapshot, manifest, shipped>> /\ w \notin running
    BY <1>16 DEF LoseVolume, WipeDisk
  <2>2. \A v \in Workers : Rewriting(v)' <=> Rewriting(v)
    BY <2>1 DEF Rewriting
  <2>3. \A u \in Tasks : Host(u) = w => task[u].pc = "idle"
    BY <2>1 DEF IInv, TaskOK
  <2>4. /\ file'[w] = NoFile /\ wal'[w] = {}
        /\ \A v \in Workers : v # w => file'[v] = file[v] /\ wal'[v] = wal[v]
    BY <1>0, <2>1
  <2>5. \A u \in Tasks : Carries(task[u], file[Host(u)], snapshot)'
    BY <1>0, <2>1, <2>3, <2>4 DEF ShipInv, Carries
  <2> QED
    BY <2>1, <2>2, <2>4, <2>5 DEF ShipInv
<1>17. CASE AgeOut
  <2>1. lease = Ghost /\ UNCHANGED <<req, task, file, wal, snapshot, manifest, shipped>>
    BY <1>17 DEF AgeOut
  <2>2. \A v \in Workers : file[v] = NoFile
    BY <2>1 DEF ShipInv
  <2> QED
    BY <2>1, <2>2 DEF ShipInv, Carries
<1>21. CASE UNCHANGED vars
  BY <1>1, <1>21 DEF vars
<1> QED
  BY <1>2, <1>3, <1>4, <1>5, <1>6, <1>8, <1>9, <1>10, <1>11, <1>12, <1>13, <1>14,
     <1>15, <1>16, <1>17, <1>18, <1>20, <1>21 DEF Next

\* For any number of workers, requests, crashes, restarts and failed uploads: where no
\* live worker's row is deleted, no second task ships beside the first, no checkpoint
\* is held up, no restore fails over its file and a disk goes with its process, whoever
\* is home answers from every write that was shipped, and the store has them all.
THEOREM ShippedSurvives == Spec => [](HomeHasShipped /\ StoreHasShipped)
<1> DEFINE Inv == /\ FactoryInv
                  /\ NoLapse => HomeInv
                  /\ Sheltered => ShipInv
<1>1. Init => Inv
  <2> SUFFICES ASSUME Init PROVE Inv
    OBVIOUS
  <2>1. HomeInv
    BY InitEmpty DEF HomeInv, Believes
  <2>2. ShipInv
    BY InitEmpty DEF ShipInv, Init, Carries
  <2> QED
    BY <2>1, <2>2, InitFactory
<1>2. IInv /\ Inv /\ [Next]_vars => Inv'
  <2> SUFFICES ASSUME IInv, Inv, [Next]_vars PROVE Inv'
    OBVIOUS
  <2>1. FactoryInv'
    BY NextFactory
  <2>2. NoLapse' => NoLapse /\ HomeInv'
    BY LossesCounted, NextHome
  <2>3. Sheltered' => NoLapse' /\ NoRepublish' /\ spent'.blocked = 0 /\ spent'.torn = 0 /\ ~KeepsVolume
    BY DEF Sheltered
  <2>4. Sheltered' => Sheltered
    BY <2>2, <2>3, LossesCounted DEF Sheltered
  <2>5. Sheltered' => ShipInv'
    BY <2>2, <2>3, <2>4, NextShip
  <2> QED
    BY <2>1, <2>2, <2>5
<1>3. IInv /\ Inv => HomeHasShipped /\ StoreHasShipped
  <2> SUFFICES ASSUME IInv, Inv, Sheltered
               PROVE  /\ shipped \subseteq snapshot
                      /\ \A u \in Tasks : Live(u) => shipped \subseteq file[Host(u)]
    BY DEF HomeHasShipped, StoreHasShipped
  <2> QED
    BY HomeIsWhole DEF ShipInv
<1> HIDE DEF Inv
<1> QED
  BY <1>1, <1>2, <1>3, AlwaysIInv, PTL DEF Spec

--------------------------------------------------------------------------------
(* One worker whose disk lasts.                                                *)

\* What a ship under way carries, where one task ships and no checkpoint is held up.
CarriesAcked(t) ==
  /\ t.pc = "put" => acked \subseteq t.bytes
  /\ t.pc = "manifest" => acked \subseteq snapshot

\* Until the disk is lost the one file is never restored and holds every answered
\* write; what a lone ship carries holds those answered before it.
OneNodeInv ==
  /\ \A r \in Requests : req[r].pc # "writing"
  /\ \A w \in Workers : file[w] # NoFile => acked \subseteq file[w]
  /\ acked # {} \/ manifest > 0 => \A w \in Workers : file[w] # NoFile
  /\ \A u \in Tasks : task[u].pc # "idle" => task[u].write \in file[Host(u)]
  /\ spent.blocked = 0 /\ NoRepublish =>
       (\A w \in Workers : wal[w] = {}) /\ \A u \in Tasks : CarriesAcked(task[u])

\* One worker's tasks answer from every write a caller was told of.
LEMMA NextOneNode ==
  ASSUME NEW n, Workers = {n}, KeepsVolume,
         IInv, FactoryInv, OneNodeInv, [Next]_vars, spent'.volumes = 0
  PROVE  OneNodeInv'
<1> USE DEF registry, tasks, disk, blobs, history
<1>0. /\ \A r \in Requests : req[r] \in Request /\ req[r].w = n
      /\ task \in [Tasks -> Task] /\ req \in [Requests -> Request]
      /\ file \in [Workers -> (SUBSET Writes) \cup {NoFile}] /\ wal \in [Workers -> SUBSET Writes]
      /\ n \in Workers /\ \A u \in Tasks : Host(u) = n
  BY HostIsWorker DEF IInv, TypeOK, Request
<1> DEFINE Lone == spent.blocked = 0 /\ NoRepublish
<1>00. (spent'.blocked = 0 /\ NoRepublish') => Lone
  BY LossesCounted
<1>01. Lone => \A u, v \in Tasks : Live(u) /\ Live(v) => u = v
  BY <1>0 DEF FactoryInv
<1>1. ASSUME UNCHANGED <<file, wal, snapshot, manifest, acked>>,
             \A u \in Tasks : task'[u] = task[u] \/ task'[u].pc = "idle",
             \A r \in Requests : req'[r].pc # "writing"
      PROVE  OneNodeInv'
  BY <1>00, <1>1 DEF OneNodeInv, CarriesAcked
<1>2. ASSUME NEW r \in Requests,
             \/ \E w \in Workers : Touch(r, w)
             \/ ClaimInsert(r) \/ ClaimSelect(r) \/ ClaimEpoch(r) \/ RequestFails(r)
             \/ EnterRegistry(r) \/ EnterRepublished(r) \/ RestoreTorn(r)
      PROVE  OneNodeInv'
  <2>1. PICK q : RequestBecomes(r, q)
    BY <1>2, RequestSteps
  <2>2. /\ \A s \in Requests : req'[s].pc # "writing"
        /\ UNCHANGED <<task, file, wal, snapshot, manifest, acked>>
    BY <1>0, <2>1 DEF RequestBecomes, OneNodeInv
  <2> QED
    BY <1>1, <2>2
<1>3. ASSUME NEW r \in Requests, OpenLocal(r) PROVE OneNodeInv'
  <2>1. PICK content : /\ Spawn(r, content) /\ content # NoFile
                       /\ acked \subseteq content
                       /\ file[n] = NoFile \/ content = file[n]
    <3>1. {} \in SUBSET (1..MaxWrites)
      OBVIOUS
    <3>2. {} # NoFile
      BY <3>1
    <3>3. CASE file[n] # NoFile /\ Spawn(r, file[n])
      BY <1>0, <3>3 DEF OneNodeInv
    <3>4. CASE file[n] = NoFile /\ Spawn(r, {})
      BY <1>0, <3>2, <3>4 DEF OneNodeInv
    <3> QED
      BY <1>0, <1>3, <3>3, <3>4 DEF OpenLocal
  <2>2. /\ file'[n] = content /\ UNCHANGED <<wal, snapshot, manifest, acked, spent>>
        /\ req'[r].pc = "idle" /\ \A s \in Requests : s # r => req'[s] = req[s]
    BY <1>0, <2>1, SpawnSteps
  <2>3. \A u \in Tasks : task'[u] = task[u] \/ task'[u].pc = "idle"
    BY <2>1, SpawnSteps
  <2>4. \A s \in Requests : req'[s].pc # "writing"
    BY <2>2 DEF OneNodeInv
  <2>5. file[n] = NoFile => \A u \in Tasks : task[u].pc = "idle"
    BY <1>0, LiveHasFile DEF IInv, TaskOK
  <2>6. \A u \in Tasks : task'[u].pc # "idle" => task'[u].write \in file'[Host(u)]
    BY <1>0, <2>1, <2>2, <2>3, <2>5 DEF OneNodeInv
  <2>7. spent'.blocked = 0 /\ NoRepublish' =>
          (\A w \in Workers : wal'[w] = {}) /\ \A u \in Tasks : CarriesAcked(task[u])'
    BY <1>00, <2>2, <2>3 DEF OneNodeInv, CarriesAcked
  <2> QED
    BY <1>0, <2>1, <2>2, <2>4, <2>6, <2>7 DEF OneNodeInv
<1>4. ASSUME NEW r \in Requests, WriteRestored(r) PROVE FALSE
  BY <1>4 DEF WriteRestored, OneNodeInv
<1>19. ASSUME NEW r \in Requests, FetchSnapshot(r) PROVE FALSE
  BY <1>0, <1>19 DEF FetchSnapshot, OneNodeInv
<1>5. ASSUME NEW u \in Tasks, Commit(u) PROVE OneNodeInv'
  <2> DEFINE k == spent.writes + 1
             t == [task[u] EXCEPT !.pc = "check", !.write = k]
  <2>1. /\ task' = [task EXCEPT ![u] = t] /\ file' = [file EXCEPT ![n] = @ \cup {k}]
        /\ UNCHANGED <<req, snapshot, manifest, acked>> /\ Live(u)
    BY <1>0, <1>5 DEF Commit
  <2>2. t.pc = "check" /\ t.write = k
    BY <1>0 DEF Task
  <2> HIDE DEF t, k
  <2>3. task'[u] = t /\ file'[n] = file[n] \cup {k} /\ \A v \in Tasks : v # u => task'[v] = task[v]
    BY <1>0, <2>1
  <2>4. spent'.blocked = 0 => wal'[n] = {}
    BY <1>0, <1>5, LossesCounted
  <2>5. file[n] # NoFile /\ file'[n] # NoFile
    <3>1. file[n] \in SUBSET Writes /\ file[n] # NoFile
      BY <1>0, <2>1, LiveHasFile DEF IInv, TaskOK
    <3>2. IInv'
      BY NextIInv
    <3>3. file'[n] \in (SUBSET Writes) \cup {NoFile}
      BY <1>0, <3>2 DEF IInv, TypeOK
    <3>4. k \in Writes
      <4>1. spent.writes \in Nat /\ spent.writes < MaxWrites /\ MaxWrites \in Nat
        BY <1>5 DEF IInv, SpentOK, Commit
      <4> QED
        BY <4>1 DEF k, Writes
    <3>5. file'[n] \in SUBSET (1..MaxWrites)
      BY <2>3, <3>1, <3>4 DEF Writes
    <3> QED
      BY <3>1, <3>5
  <2>6. \A v \in Tasks : task'[v].pc # "idle" => task'[v].write \in file'[Host(v)]
    BY <1>0, <2>2, <2>3 DEF OneNodeInv
  <2>7. \A w \in Workers : file'[w] # NoFile /\ acked' \subseteq file'[w]
    BY <1>0, <2>1, <2>3, <2>5 DEF OneNodeInv
  <2>8. ASSUME spent'.blocked = 0, NoRepublish', NEW v \in Tasks PROVE CarriesAcked(task[v])'
    BY <1>00, <2>1, <2>2, <2>3, <2>8 DEF OneNodeInv, CarriesAcked
  <2>9. spent'.blocked = 0 => \A w \in Workers : wal'[w] = {}
    BY <1>0, <2>4
  <2> QED
    BY <2>1, <2>6, <2>7, <2>8, <2>9 DEF OneNodeInv
<1>6. ASSUME NEW u \in Tasks, NEW ok, Reply(u, ok), task[u].pc # "idle",
             UNCHANGED <<req, file, wal, snapshot>>
      PROVE  OneNodeInv'
  <2> DEFINE t == [task[u] EXCEPT !.pc = "idle", !.write = 0, !.bytes = {}]
  <2>0. t.pc = "idle"
    BY <1>0 DEF Task
  <2>1. task' = [task EXCEPT ![u] = t]
    BY <1>6 DEF Reply
  <2> HIDE DEF t
  <2>2. task'[u].pc = "idle" /\ \A v \in Tasks : v # u => task'[v] = task[v]
    BY <1>0, <2>0, <2>1
  <2>3. Live(u)
    BY <1>6 DEF IInv, TaskOK
  <2>4. file[n] # NoFile
    BY <1>0, <2>3, LiveHasFile
  <2>5. acked' \subseteq file[n]
    BY <1>0, <1>6, <2>4 DEF Reply, OneNodeInv
  <2>6. \A v \in Tasks : task'[v].pc # "idle" => task'[v].write \in file'[Host(v)]
    BY <1>6, <2>2 DEF OneNodeInv
  <2>7. ASSUME Lone, NEW v \in Tasks PROVE task'[v].pc = "idle"
    BY <1>01, <2>2, <2>3, <2>7 DEF IInv, TaskOK
  <2>9. Lone => \A v \in Tasks : CarriesAcked(task[v])'
    BY <2>7 DEF CarriesAcked
  <2>10. Lone => \A w \in Workers : wal'[w] = {}
    BY <1>6 DEF OneNodeInv
  <2>8. spent'.blocked = 0 /\ NoRepublish' =>
          (\A w \in Workers : wal'[w] = {}) /\ \A v \in Tasks : CarriesAcked(task[v])'
    BY <1>00, <2>9, <2>10
  <2> QED
    BY <1>0, <1>6, <2>4, <2>5, <2>6, <2>8 DEF OneNodeInv
<1>20. ASSUME NEW u \in Tasks, task[u].pc # "idle",
              NEW pc \in {"read", "put", "manifest"}, NEW bytes,
              task' = [task EXCEPT ![u] = [task[u] EXCEPT !.pc = pc, !.bytes = bytes]],
              Lone /\ pc = "put" => acked \subseteq bytes,
              Lone /\ pc = "manifest" => acked \subseteq snapshot',
              pc # "manifest" => snapshot' = snapshot,
              UNCHANGED <<req, file, wal, manifest, acked>>
       PROVE  OneNodeInv'
  <2> DEFINE t == [task[u] EXCEPT !.pc = pc, !.bytes = bytes]
  <2>1. t.pc = pc /\ t.bytes = bytes /\ t.write = task[u].write
    BY <1>0 DEF Task
  <2>2. task' = [task EXCEPT ![u] = t]
    BY <1>20
  <2> HIDE DEF t
  <2>3. task'[u] = t /\ \A v \in Tasks : v # u => task'[v] = task[v]
    BY <1>0, <2>2
  <2>4. Live(u)
    BY <1>20 DEF IInv, TaskOK
  <2>5. \A v \in Tasks : task'[v].pc # "idle" => task'[v].write \in file'[Host(v)]
    BY <1>20, <2>1, <2>3 DEF OneNodeInv
  <2>6. ASSUME Lone PROVE \A v \in Tasks : CarriesAcked(task[v])'
    <3>1. \A v \in Tasks : v # u => task'[v].pc = "idle"
      BY <1>01, <2>3, <2>4, <2>6 DEF IInv, TaskOK
    <3>2. CarriesAcked(task[u])'
      BY <1>20, <2>1, <2>3, <2>6 DEF CarriesAcked
    <3> QED
      BY <3>1, <3>2 DEF CarriesAcked
  <2>7. Lone => \A w \in Workers : wal'[w] = {}
    BY <1>20 DEF OneNodeInv
  <2> QED
    BY <1>00, <1>20, <2>5, <2>6, <2>7 DEF OneNodeInv
<1>7. ASSUME NEW u \in Tasks, ShipCheck(u) PROVE OneNodeInv'
  <2>0. task[u].pc # "idle" /\ UNCHANGED <<req, file, wal, snapshot, manifest>>
    BY <1>7 DEF ShipCheck
  <2>1. CASE Reply(u, FALSE)
    BY <1>6, <2>0, <2>1
  <2>2. CASE task' = [task EXCEPT ![u].pc = "read"] /\ UNCHANGED history
    <3>1. task' = [task EXCEPT ![u] = [task[u] EXCEPT !.pc = "read", !.bytes = task[u].bytes]]
      BY <1>0, <2>2 DEF Task
    <3> QED
      BY <1>20, <2>0, <2>2, <3>1
  <2> QED
    BY <1>7, <2>1, <2>2 DEF ShipCheck
<1>21. ASSUME NEW u \in Tasks, ShipRead(u) PROVE OneNodeInv'
  <2>1. /\ task[u].pc # "idle"
        /\ UNCHANGED <<req, file, wal, snapshot, manifest, acked>>
    BY <1>21 DEF ShipRead
  <2> DEFINE bytes == file[Host(u)] \ wal[Host(u)]
  <2>2. task' = [task EXCEPT ![u] = [task[u] EXCEPT !.pc = "put", !.bytes = bytes]]
    BY <1>0, <1>21 DEF ShipRead
  <2>3. file[n] # NoFile
    BY <1>0, <1>21, TaskSteps, LiveHasFile
  <2>4. Lone => acked \subseteq bytes
    BY <1>0, <2>3 DEF OneNodeInv
  <2> HIDE DEF bytes, Lone
  <2> QED
    BY <1>20, <2>1, <2>2, <2>4
<1>8. ASSUME NEW u \in Tasks, ShipSnapshot(u) PROVE OneNodeInv'
  <2>1. /\ task[u].pc = "put" /\ snapshot' = task[u].bytes
        /\ UNCHANGED <<req, file, wal, manifest, acked>>
    BY <1>8 DEF ShipSnapshot
  <2>2. Lone => acked \subseteq snapshot'
    BY <2>1 DEF OneNodeInv, CarriesAcked
  <2>3. task' = [task EXCEPT ![u] = [task[u] EXCEPT !.pc = "manifest", !.bytes = task[u].bytes]]
    BY <1>0, <1>8 DEF ShipSnapshot, Task
  <2> HIDE DEF Lone
  <2> QED
    BY <1>20, <2>1, <2>2, <2>3
<1>9. ASSUME NEW u \in Tasks, ShipManifest(u) PROVE OneNodeInv'
  BY <1>6, <1>9 DEF ShipManifest
<1>10. ASSUME NEW u \in Tasks, ShipFails(u) PROVE OneNodeInv'
  BY <1>6, <1>10 DEF ShipFails
<1>11. ASSUME NEW u \in Tasks, Hibernate(u) PROVE OneNodeInv'
  <2>1. /\ task'[u] = NoTask /\ \A v \in Tasks : v # u => task'[v] = task[v]
        /\ UNCHANGED <<req, file, snapshot, manifest, acked>>
    BY <1>0, <1>11 DEF Hibernate
  <2>2. wal'[n] = wal[n] \/ wal'[n] = {}
    BY <1>0, <1>11 DEF Hibernate
  <2>3. \A v \in Tasks : task'[v] = task[v] \/ task'[v].pc = "idle"
    BY <2>1, NoTaskIsTask
  <2>4. \A v \in Tasks : task'[v].pc # "idle" => task'[v].write \in file'[Host(v)]
    BY <2>1, <2>3 DEF OneNodeInv
  <2>5. spent'.blocked = 0 /\ NoRepublish' =>
          (\A w \in Workers : wal'[w] = {}) /\ \A v \in Tasks : CarriesAcked(task[v])'
    BY <1>0, <1>00, <2>1, <2>2, <2>3 DEF OneNodeInv, CarriesAcked
  <2> QED
    BY <2>1, <2>4, <2>5 DEF OneNodeInv
<1>12. ASSUME Lapse(n) PROVE OneNodeInv'
  <2> DEFINE s(r) == [req[r] EXCEPT !.stale = TRUE]
  <2>1. \A r \in Requests : s(r).pc = req[r].pc
    BY <1>0 DEF Request
  <2>2. /\ UNCHANGED <<task, file, wal, snapshot, manifest, acked>>
        /\ \A r \in Requests : req'[r] = req[r] \/ req'[r] = s(r)
    BY <1>12 DEF Lapse
  <2> HIDE DEF s
  <2> QED
    BY <1>1, <2>1, <2>2 DEF OneNodeInv
<1>13. ASSUME Crash(n) PROVE OneNodeInv'
  <2>1. /\ UNCHANGED <<file, wal, snapshot, manifest, acked>>
        /\ \A r \in Requests : req'[r].pc = "idle" \/ req'[r] = req[r]
    BY <1>0, <1>13, CrashSteps
  <2>2. \A u \in Tasks : task'[u] = task[u] \/ task'[u].pc = "idle"
    BY <1>0, <1>13, CrashSteps
  <2> QED
    BY <1>1, <2>1, <2>2 DEF OneNodeInv
<1>14. ASSUME Restart(n) PROVE OneNodeInv'
  BY <1>1, <1>14 DEF Restart, OneNodeInv
<1>15. ~LoseVolume(n)
  BY <1>0, LossesCounted
<1>16. CASE AgeOut
  BY <1>1, <1>16 DEF AgeOut, OneNodeInv
<1>17. CASE UNCHANGED vars
  BY <1>1, <1>17 DEF vars, OneNodeInv
<1>18. ASSUME NEW w \in Workers PROVE w = n
  OBVIOUS
<1> QED
  BY <1>2, <1>3, <1>4, <1>5, <1>7, <1>8, <1>9, <1>10, <1>11, <1>12, <1>13, <1>14,
     <1>15, <1>16, <1>17, <1>18, <1>19, <1>21 DEF Next

\* A fresh deployment satisfies the one-node invariant.
LEMMA InitOneNode == Init => OneNodeInv
<1> SUFFICES ASSUME Init PROVE OneNodeInv
  OBVIOUS
<1>1. \A w \in Workers : wal[w] = {}
  BY DEF Init
<1>2. ~(manifest > 0) /\ acked = {}
  BY DEF Init
<1> QED
  BY <1>1, <1>2, InitEmpty DEF OneNodeInv, CarriesAcked

\* On one worker that keeps its disk, the invariant lasts until the disk is lost.
LEMMA AlwaysOneNode ==
  ASSUME NEW n, Workers = {n}, KeepsVolume
  PROVE  Spec => [](FactoryInv /\ (spent.volumes = 0 => OneNodeInv))
<1>1. IInv /\ FactoryInv /\ (spent.volumes = 0 => OneNodeInv) /\ [Next]_vars
        => (spent.volumes = 0 => OneNodeInv)'
  BY LossesCounted, NextOneNode
<1>2. IInv /\ FactoryInv /\ [Next]_vars => FactoryInv'
  BY NextFactory
<1> QED
  BY <1>1, <1>2, InitFactory, InitOneNode, AlwaysIInv, PTL DEF Spec

\* One worker with a lasting disk: across lapses, crashes, restarts, failed uploads,
\* checkpoints held up and republishes, its tasks answer from every write any caller
\* was told of.
THEOREM OneNodeKeepsAcked ==
  ASSUME NEW n, Workers = {n}, KeepsVolume
  PROVE  Spec => []HomeHasAcked
<1>1. IInv /\ (spent.volumes = 0 => OneNodeInv) => HomeHasAcked
  BY LiveHasFile, HostIsWorker DEF HomeHasAcked, OneNodeInv
<1> QED
  BY <1>1, AlwaysOneNode, AlwaysIInv, PTL

\* There, "the next write retries": a ship that succeeds carries every write answered
\* before it, the failed ones included, until a reader holds a checkpoint up or a
\* republish starts a second task that ships the same file.
THEOREM OneNodeCatchesUp ==
  ASSUME NEW n, Workers = {n}, KeepsVolume
  PROVE  Spec => ShipCatchesUp
<1>1. ASSUME IInv, spent.volumes = 0 => OneNodeInv, [Next]_vars
      PROVE  [(shipped' # shipped /\ NoRepublish /\ spent.blocked = 0 /\ spent.volumes = 0)
                 => acked \subseteq snapshot']_vars
  <2> USE DEF registry, tasks, disk, blobs, history
  <2> SUFFICES ASSUME Next, shipped' # shipped, NoRepublish, spent.blocked = 0, spent.volumes = 0
               PROVE  acked \subseteq snapshot'
    BY <1>1
  <2>2. ASSUME NEW u \in Tasks, ShipManifest(u) PROVE acked \subseteq snapshot'
    BY <1>1, <2>2 DEF ShipManifest, OneNodeInv, CarriesAcked
  <2>3. ASSUME NEW u \in Tasks, ShipCheck(u) \/ ShipFails(u) PROVE shipped' = shipped
    BY <2>3 DEF ShipCheck, ShipFails, Reply
  <2>4. ASSUME \/ \E u \in Tasks : Commit(u) \/ ShipRead(u) \/ ShipSnapshot(u) \/ Hibernate(u)
               \/ \E w \in Workers : Lapse(w) \/ Crash(w) \/ Restart(w) \/ LoseVolume(w)
        PROVE  shipped' = shipped
    BY <2>4 DEF Commit, ShipRead, ShipSnapshot, Hibernate, Lapse, Crash, Restart, LoseVolume
  <2>5. ASSUME NEW r \in Requests,
               \/ \E w \in Workers : Touch(r, w)
               \/ ClaimInsert(r) \/ ClaimSelect(r) \/ ClaimEpoch(r) \/ RequestFails(r)
               \/ EnterRegistry(r) \/ EnterRepublished(r)
               \/ OpenLocal(r) \/ FetchSnapshot(r) \/ WriteRestored(r) \/ RestoreTorn(r)
        PROVE  shipped' = shipped
    BY <2>5 DEF Touch, ClaimInsert, ClaimSelect, ClaimEpoch, RequestFails, EnterRegistry,
                EnterRepublished, OpenLocal, FetchSnapshot, WriteRestored, RestoreTorn, Spawn
  <2>6. CASE AgeOut
    BY <2>6 DEF AgeOut
  <2> QED
    BY <2>2, <2>3, <2>4, <2>5, <2>6 DEF Next
<1> QED
  BY <1>1, AlwaysOneNode, AlwaysIInv, PTL DEF Spec, ShipCatchesUp
====
