----------------------------- MODULE DatabaseProofs ----------------------------
(* What Database promises, for any tasks, bundles, calls and failures.         *)
EXTENDS Database, WellFoundedInduction, NaturalsInduction, TLAPS

VM == [life : {"unborn", "live", "ended"}, rev : 1..Len(Bundles), checked : BOOLEAN,
       pc : {"idle", "open", "migrate", "run", "gate", "ship", "wedged"},
       call : 0..MaxCalls, left : 0..MaxBatch, tx : Content \cup {Nothing}, stale : BOOLEAN,
       rows : SUBSET Effects, dirty : BOOLEAN, undone : BOOLEAN]

(* The inductive invariant.                                                    *)

TypeInv ==
  /\ current \in 1..Len(Bundles) /\ registered \in Tasks \cup {Nobody}
  /\ vm \in [Tasks -> VM]
  /\ file \in Content /\ main \in Content /\ lock \in Tasks \cup {Nobody} /\ store \in Content \cup {Nothing}
  /\ spent \in [calls : 0..MaxCalls, ships : Nat, held : Nat, failovers : Nat]
  /\ overlapped \in BOOLEAN

\* A migration was run once, and is tracked if it was run.
Good(c) == IsInjective(c.ran) /\ Range(c.ran) = c.tracked

\* No migration and no effect of f is missing in g.
Within(f, g) == f.tracked \subseteq g.tracked /\ f.data \subseteq g.data

\* Task t, whose record is v, over the file f with the write lock at l.  Its
\* transaction is ahead of the file if it wrote, behind it if it is stale, and
\* otherwise equal: so a COMMIT never takes anything away from the file, and what
\* the vm takes for applied stays applied.
Sound(t, v, f, l) ==
  /\ v.tx # Nothing => Good(v.tx)
  /\ v.pc # "idle" \/ v.checked => v.life = "live"
  /\ v.pc \in {"open", "migrate", "run"} => v.call \in Calls
  /\ v.pc \in {"idle", "open", "gate"} => v.tx = Nothing
  /\ v.pc \in {"migrate", "ship", "wedged"} => v.tx # Nothing
  /\ v.pc \in {"open", "migrate"} => ~v.checked
  /\ v.pc \in {"run", "wedged"} => v.checked
  /\ v.pc \in {"idle", "open", "migrate", "wedged"} => v.rows = {}
  /\ v.pc = "wedged" => l = t
  /\ v.rows # {} => v.dirty
  /\ v.stale => v.pc \in {"migrate", "run"} /\ v.tx # Nothing
  /\ l = t => v.pc \in {"migrate", "run", "wedged"} /\ v.tx # Nothing /\ ~v.stale
  /\ v.pc \in {"migrate", "run", "wedged"} /\ v.tx # Nothing =>
       /\ ~v.stale => Within(f, v.tx)
       /\ l # t => Within(v.tx, f)
  /\ v.pc = "run" => v.rows \subseteq (IF l = t THEN v.tx.data ELSE {})
  /\ v.pc \in {"gate", "ship"} => v.rows \subseteq f.data
  /\ v.checked /\ ~v.undone =>
       Bundles[v.rev] \subseteq (IF l = t THEN v.tx.tracked ELSE f.tracked)

TasksSound == \A t \in Tasks : Sound(t, vm[t], file, lock)

\* Until two tasks meet on the file or a checkpoint is held up, what a task ships is
\* the whole file.
AloneInv ==
  ~overlapped => /\ \A t, u \in Tasks : Live(t) /\ Live(u) => t = u
                 /\ \A t \in Tasks : vm[t].pc = "ship" /\ spent.held = 0 => vm[t].tx = file

\* Every effect a caller was told of is in the file.
AckedInv == acked \subseteq file.data /\ answer = {}

IInv ==
  /\ TypeInv /\ TasksSound
  /\ Good(file) /\ Good(main) /\ (store # Nothing => Good(store))
  /\ AloneInv /\ AckedInv /\ AckedIsShipped

USE DatabaseAssumption

--------------------------------------------------------------------------------
(* The operators.                                                              *)

\* The bounds are numbers and there is a first revision.
LEMMA Bounds ==
  /\ MaxCalls \in Nat /\ MaxBatch \in Nat
  /\ Len(Bundles) \in Nat /\ 1 \in 1..Len(Bundles)
  /\ \A r \in 1..Len(Bundles) : Bundles[r] \subseteq Nat /\ Bundles[r] \subseteq Migrations
<1>1. MaxCalls \in Nat /\ MaxBatch \in Nat
  OBVIOUS
<1>2. Bundles \in Seq(SUBSET Nat) /\ Bundles # <<>>
  OBVIOUS
<1>3. Len(Bundles) \in Nat /\ DOMAIN Bundles = 1..Len(Bundles) /\ Len(Bundles) # 0
  BY <1>2
<1>4. \A r \in 1..Len(Bundles) : Bundles[r] \in SUBSET Nat /\ Bundles[r] \in Range(Bundles)
  BY <1>2, <1>3 DEF Range
<1> QED
  BY <1>1, <1>3, <1>4 DEF Migrations

\* The first migration in path order is one of them.
LEMMA MinIsIn ==
  ASSUME NEW S \in SUBSET Nat, S # {}
  PROVE  Min(S) \in S
<1>1. PICK x \in S : \A y \in S : ~(<<y, x>> \in OpToRel(<, Nat))
  BY NatLessThanWellFounded, WFMin
<1>2. \A y \in S : x =< y
  <2> TAKE y \in S
  <2>1. x \in Nat /\ y \in Nat
    OBVIOUS
  <2>2. ~(y < x)
    BY <1>1, <2>1 DEF OpToRel
  <2> QED
    BY <2>1, <2>2
<1> QED
  BY <1>2 DEF Min

\* A fresh file holds nothing.
LEMMA NewFileGood == NewFile \in Content /\ Good(NewFile) /\ NewFile.data = {}
<1>1. <<>> \in Seq(Migrations) /\ IsInjective(<<>>) /\ Range(<<>>) = {}
  BY DEF IsInjective, Range
<1> QED
  BY <1>1 DEF NewFile, Content, Good

\* Running a migration that is not tracked keeps each run once and tracked.
LEMMA MigratedGood ==
  ASSUME NEW c \in Content, Good(c), NEW m \in Migrations, m \notin c.tracked
  PROVE  /\ Migrated(c, m) \in Content /\ Good(Migrated(c, m))
         /\ Migrated(c, m).tracked = c.tracked \cup {m} /\ Migrated(c, m).data = c.data
<1> DEFINE s == Append(c.ran, m)
           T == c.tracked \cup {m}
<1>1. c.ran \in Seq(Migrations) /\ c.tracked \in SUBSET Migrations
  BY DEF Content
<1>2. s \in Seq(Migrations) /\ T \in SUBSET Migrations
  BY <1>1
<1>3. /\ DOMAIN s = 1..Len(c.ran) + 1 /\ DOMAIN c.ran = 1..Len(c.ran) /\ Len(c.ran) \in Nat
      /\ \A i \in 1..Len(c.ran) : s[i] = c.ran[i]
      /\ s[Len(c.ran) + 1] = m
  BY <1>1
<1>4. \A i \in 1..Len(c.ran) : c.ran[i] # m
  BY <1>3 DEF Good, Range
<1> HIDE DEF s
<1>9. /\ \A i, j \in 1..Len(c.ran) : c.ran[i] = c.ran[j] => i = j
      /\ c.tracked = {c.ran[i] : i \in 1..Len(c.ran)}
  BY <1>3 DEF Good, IsInjective, Range
<1>10. PICK n \in Nat : n = Len(c.ran)
  BY <1>3
<1>5. IsInjective(s)
  <2>1. \A i, j \in 1..n + 1 : s[i] = s[j] => i = j
    <3> TAKE i, j \in 1..n + 1
    <3>1. CASE i \in 1..n /\ j \in 1..n
      BY <1>3, <1>9, <1>10, <3>1
    <3>2. CASE i \in 1..n /\ j = n + 1
      BY <1>3, <1>4, <1>10, <3>2
    <3>3. CASE i = n + 1 /\ j \in 1..n
      BY <1>3, <1>4, <1>10, <3>3
    <3> QED
      BY <3>1, <3>2, <3>3
  <2> QED
    BY <1>3, <1>10, <2>1 DEF IsInjective
<1>6. Range(s) = T
  <2>1. 1..n + 1 = (1..n) \cup {n + 1}
    OBVIOUS
  <2>2. Range(s) = {s[i] : i \in (1..n) \cup {n + 1}}
    BY <1>3, <1>10, <2>1 DEF Range
  <2>3. \A i \in 1..n : s[i] = c.ran[i]
    BY <1>3, <1>10
  <2>4. s[n + 1] = m /\ c.tracked = {c.ran[i] : i \in 1..n}
    BY <1>3, <1>9, <1>10
  <2>5. ASSUME NEW x \in Range(s) PROVE x \in T
    BY <2>2, <2>3, <2>4, <2>5
  <2>6. ASSUME NEW x \in T PROVE x \in Range(s)
    BY <2>2, <2>3, <2>4, <2>6
  <2> QED
    BY <2>5, <2>6
<1> HIDE DEF T
<1>7. Migrated(c, m) = [c EXCEPT !.ran = s, !.tracked = T]
  BY DEF Migrated, s, T
<1>8. Migrated(c, m).ran = s /\ Migrated(c, m).tracked = T /\ Migrated(c, m).data = c.data
      /\ Migrated(c, m) \in Content
  BY <1>2, <1>7 DEF Content
<1> QED
  BY <1>5, <1>6, <1>8 DEF Good, T

\* User SQL the authorizer lets through adds its effect and nothing else.
LEMMA WrittenGood ==
  ASSUME NEW c \in Content, Good(c), NEW e \in Effects, NEW kind, Authorized(kind)
  PROVE  /\ Written(c, e, kind) \in Content /\ Good(Written(c, e, kind))
         /\ Written(c, e, kind).tracked = c.tracked
         /\ Written(c, e, kind).data = c.data \cup {e}
<1> DEFINE D == c.data \cup {e}
<1>1. D \in SUBSET Effects
  BY DEF Content
<1>2. Written(c, e, kind) = [c EXCEPT !.data = D]
  BY DEF Written, Authorized
<1> HIDE DEF D
<1>3. Written(c, e, kind).ran = c.ran /\ Written(c, e, kind).tracked = c.tracked
      /\ Written(c, e, kind).data = D /\ Written(c, e, kind) \in Content
  BY <1>1, <1>2 DEF Content
<1> QED
  BY <1>3 DEF Good, D

--------------------------------------------------------------------------------
(* The steps.                                                                  *)

\* A task that has not begun a call.
Blank(v) ==
  /\ v \in VM /\ v.pc = "idle" /\ v.checked = FALSE /\ v.tx = Nothing /\ v.stale = FALSE
  /\ v.rows = {} /\ v.undone = FALSE

\* The records a task begins with, is spawned with and ends with.
LEMMA BlankRecords ==
  /\ Blank(Unborn) /\ Unborn.life = "unborn"
  /\ LET v == [Unborn EXCEPT !.life = "ended"] IN Blank(v) /\ v.life = "ended"
  /\ \A r \in 1..Len(Bundles) :
       LET v == [Unborn EXCEPT !.life = "live", !.rev = r] IN Blank(v) /\ v.life = "live"
<1>1. Blank(Unborn) /\ Unborn.life = "unborn"
  BY Bounds DEF VM, Unborn, Blank
<1>2. LET v == [Unborn EXCEPT !.life = "ended"] IN Blank(v) /\ v.life = "ended"
  BY <1>1 DEF VM, Blank
<1>3. ASSUME NEW r \in 1..Len(Bundles)
      PROVE  LET v == [Unborn EXCEPT !.life = "live", !.rev = r] IN Blank(v) /\ v.life = "live"
  BY <1>1, <1>3 DEF VM, Blank
<1> QED
  BY <1>1, <1>2, <1>3

\* Such a task is sound over any file, as long as it does not hold the lock.
LEMMA BlankSound ==
  ASSUME NEW t \in Tasks, NEW v, Blank(v), NEW f, NEW l, l # t
  PROVE  Sound(t, v, f, l)
BY DEF Blank, Sound

\* A step of one task that leaves the file and every other task alone.
LEMMA TaskMoves ==
  ASSUME IInv, NEW t \in Tasks, NEW v \in VM, vm' = [vm EXCEPT ![t] = v],
         v.life = vm[t].life \/ v.life = "ended",
         v.pc = "ship" /\ spent'.held = 0 => v.tx = file,
         spent'.held = 0 => spent.held = 0,
         lock' = lock \/ (lock \in {Nobody, t} /\ lock' \in {Nobody, t}),
         Sound(t, v, file, lock'),
         UNCHANGED <<current, registered, file, overlapped, answer>>,
         main' \in Content, Good(main'),
         spent' \in [calls : 0..MaxCalls, ships : Nat, held : Nat, failovers : Nat],
         store' \in Content \cup {Nothing}, store' # Nothing => Good(store'),
         acked' \subseteq file.data, AckedIsShipped'
  PROVE  IInv'
<1>1. \A u \in Tasks : u # t => vm'[u] = vm[u]
  BY DEF IInv, TypeInv
<1>2. vm'[t] = v /\ vm' \in [Tasks -> VM]
  BY DEF IInv, TypeInv
<1>3. \A u \in Tasks : u # t => (lock' = u <=> lock = u)
  OBVIOUS
<1>4. \A u \in Tasks : u # t => Sound(u, vm'[u], file', lock')
  <2> TAKE u \in Tasks
  <2> HAVE u # t
  <2>1. Sound(u, vm[u], file, lock)
    BY DEF IInv, TasksSound
  <2>2. (lock' = u <=> lock = u) /\ vm'[u] = vm[u] /\ file' = file
    BY <1>1, <1>3
  <2> QED
    BY <2>1, <2>2 DEF Sound
<1>5. TasksSound'
  BY <1>2, <1>4 DEF TasksSound
<1>6. TypeInv'
  BY <1>2 DEF IInv, TypeInv
<1>7. AloneInv'
  <2>1. \A u \in Tasks : Live(u)' => Live(u)
    BY <1>1, <1>2 DEF Live
  <2>2. ~overlapped => \A u \in Tasks : vm'[u].pc = "ship" /\ spent'.held = 0 => vm'[u].tx = file
    BY <1>1, <1>2 DEF IInv, AloneInv
  <2> QED
    BY <2>1, <2>2 DEF IInv, AloneInv
<1>8. AckedInv'
  BY DEF IInv, AckedInv
<1> QED
  BY <1>5, <1>6, <1>7, <1>8 DEF IInv

\* The same, for a step that answers nobody and ships nothing.
LEMMA CallMoves ==
  ASSUME IInv, NEW t \in Tasks, NEW v \in VM, vm' = [vm EXCEPT ![t] = v],
         v.life = vm[t].life \/ v.life = "ended",
         v.pc # "ship",
         lock' = lock \/ (lock \in {Nobody, t} /\ lock' \in {Nobody, t}),
         Sound(t, v, file, lock'),
         UNCHANGED <<current, registered, file, overlapped, answer, main, store, acked>>,
         spent' \in [calls : 0..MaxCalls, ships : Nat, held : Nat, failovers : Nat],
         spent'.ships = spent.ships /\ spent'.held = spent.held
  PROVE  IInv'
<1>1. AckedIsShipped'
  BY DEF IInv, AckedIsShipped
<1>2. /\ store' \in Content \cup {Nothing} /\ (store' # Nothing => Good(store'))
      /\ acked' \subseteq file.data /\ main' \in Content /\ Good(main')
  BY DEF IInv, TypeInv, AckedInv
<1> QED
  BY <1>1, <1>2, TaskMoves

\* The view of a transaction is a content that holds the file's, unless it is stale.
LEMMA ViewGood ==
  ASSUME IInv, NEW t \in Tasks, vm[t].pc \in {"open", "migrate", "run"}
  PROVE  /\ View(t) \in Content /\ View(t) # Nothing /\ Good(View(t))
         /\ ~vm[t].stale => Within(file, View(t))
         /\ lock # t => Within(View(t), file)
<1>1. vm[t] \in VM /\ Sound(t, vm[t], file, lock) /\ file \in Content /\ Good(file)
  BY DEF IInv, TypeInv, TasksSound
<1>2. vm[t].tx \in Content \cup {Nothing}
  BY <1>1 DEF VM
<1>3. CASE vm[t].tx = Nothing
  BY <1>1, <1>3 DEF View, Within
<1>4. CASE vm[t].tx # Nothing
  BY <1>1, <1>2, <1>4 DEF View, Sound
<1> QED
  BY <1>3, <1>4

\* BEGIN, and a bundle without migrations.
LEMMA BeginIInv ==
  ASSUME IInv, NEW t \in Tasks, (\E n \in 1..MaxBatch : Receive(t, n)) \/ NoMigrations(t)
  PROVE  IInv'
<1>0. /\ vm[t] \in VM /\ Sound(t, vm[t], file, lock) /\ vm \in [Tasks -> VM]
      /\ spent \in [calls : 0..MaxCalls, ships : Nat, held : Nat, failovers : Nat]
  BY DEF IInv, TypeInv, TasksSound
<1>1. ASSUME NEW n \in 1..MaxBatch, Receive(t, n) PROVE IInv'
  <2> DEFINE k == spent.calls + 1
             v == [vm[t] EXCEPT !.pc = IF vm[t].checked THEN "run" ELSE "open", !.call = k,
                                !.left = n, !.rows = {}]
  <2>1. vm' = [vm EXCEPT ![t] = v] /\ Spend("calls") /\ Live(t) /\ vm[t].pc = "idle"
        /\ spent.calls < MaxCalls
        /\ UNCHANGED <<current, registered, file, lock, main, store, overlapped, answer, acked>>
    BY <1>0, <1>1 DEF Receive, history
  <2>2. k \in Calls /\ k \in 0..MaxCalls /\ n \in 0..MaxBatch
    BY <1>0, <2>1, Bounds DEF Calls
  <2>3. spent' \in [calls : 0..MaxCalls, ships : Nat, held : Nat, failovers : Nat] /\ spent'.ships = spent.ships /\ spent'.held = spent.held
    BY <1>0, <2>1, <2>2 DEF Spend
  <2> HIDE DEF k
  <2>4. /\ v \in VM /\ v.life = vm[t].life /\ v.rev = vm[t].rev /\ v.checked = vm[t].checked
        /\ v.pc = (IF vm[t].checked THEN "run" ELSE "open") /\ v.call = k /\ v.left = n
        /\ v.tx = vm[t].tx /\ v.stale = vm[t].stale /\ v.rows = {} /\ v.dirty = vm[t].dirty
        /\ v.undone = vm[t].undone
    BY <1>0, <2>2 DEF VM
  <2> HIDE DEF v
  <2>5. Sound(t, v, file, lock')
    BY <1>0, <2>1, <2>2, <2>4 DEF Sound, Live
  <2>6. v.pc # "ship"
    BY <2>4
  <2> QED
    BY <2>1, <2>3, <2>4, <2>5, <2>6, CallMoves
<1>2. CASE NoMigrations(t)
  <2> DEFINE v == [vm[t] EXCEPT !.pc = "run", !.checked = TRUE]
  <2>1. vm' = [vm EXCEPT ![t] = v] /\ vm[t].pc = "open" /\ Bundles[vm[t].rev] = {}
        /\ UNCHANGED <<current, registered, file, lock, main, store, overlapped, answer, acked, spent>>
    BY <1>0, <1>2 DEF NoMigrations, history, Bundle
  <2>2. /\ v \in VM /\ v.life = vm[t].life /\ v.rev = vm[t].rev /\ v.checked = TRUE
        /\ v.pc = "run" /\ v.call = vm[t].call /\ v.left = vm[t].left
        /\ v.tx = vm[t].tx /\ v.stale = vm[t].stale /\ v.rows = vm[t].rows /\ v.dirty = vm[t].dirty
        /\ v.undone = vm[t].undone
    BY <1>0 DEF VM
  <2> HIDE DEF v
  <2>3. Sound(t, v, file, lock')
    BY <1>0, <2>1, <2>2 DEF Sound
  <2>4. v.pc # "ship"
    BY <2>2
  <2> QED
    BY <1>0, <2>1, <2>2, <2>3, <2>4, CallMoves
<1> QED
  BY <1>1, <1>2

\* The migrations: read, applied one by one, marked.
LEMMA MigrateIInv ==
  ASSUME IInv, NEW t \in Tasks, AppliedMigrations(t) \/ Migrate(t) \/ MarkChecked(t)
  PROVE  IInv'
<1>0. /\ vm[t] \in VM /\ Sound(t, vm[t], file, lock) /\ vm \in [Tasks -> VM]
      /\ spent \in [calls : 0..MaxCalls, ships : Nat, held : Nat, failovers : Nat]
      /\ vm[t].tx \in Content \cup {Nothing} /\ vm[t].rev \in 1..Len(Bundles)
  BY DEF IInv, TypeInv, TasksSound, VM
<1>1. CASE AppliedMigrations(t)
  <2> DEFINE w == View(t)
             v == [vm[t] EXCEPT !.pc = "migrate", !.tx = w]
  <2>1. /\ vm' = [vm EXCEPT ![t] = v] /\ vm[t].pc = "open"
        /\ lock' = lock \/ (lock \in {Nobody, t} /\ lock' = t)
        /\ UNCHANGED <<current, registered, file, main, store, overlapped, answer, acked, spent>>
    BY <1>0, <1>1 DEF AppliedMigrations, history, CanWrite
  <2>2. w = file /\ w \in Content /\ w # Nothing /\ Good(w) /\ ~vm[t].stale /\ lock # t
    BY <1>0, <2>1, ViewGood DEF View, Sound
  <2> HIDE DEF w
  <2>3. /\ v \in VM /\ v.life = vm[t].life /\ v.rev = vm[t].rev /\ v.checked = vm[t].checked
        /\ v.pc = "migrate" /\ v.call = vm[t].call /\ v.left = vm[t].left
        /\ v.tx = w /\ v.stale = vm[t].stale /\ v.rows = vm[t].rows /\ v.dirty = vm[t].dirty
        /\ v.undone = vm[t].undone
    BY <1>0, <2>2 DEF VM
  <2> HIDE DEF v
  <2>4. Sound(t, v, file, lock')
    BY <1>0, <2>1, <2>2, <2>3 DEF Sound, Within
  <2>5. v.pc # "ship" /\ (lock' = lock \/ (lock \in {Nobody, t} /\ lock' \in {Nobody, t}))
    BY <2>1, <2>3
  <2> QED
    BY <1>0, <2>1, <2>3, <2>4, <2>5, CallMoves
<1>2. CASE Migrate(t)
  <2> DEFINE m == Min(Pending(t))
             w == Migrated(vm[t].tx, m)
             v == [vm[t] EXCEPT !.tx = w, !.dirty = TRUE]
  <2>1. /\ vm' = [vm EXCEPT ![t] = v] /\ vm[t].pc = "migrate" /\ Pending(t) # {}
        /\ lock \in {Nobody, t} /\ lock' = t /\ ~vm[t].stale
        /\ UNCHANGED <<current, registered, file, main, store, overlapped, answer, acked, spent>>
    BY <1>0, <1>2 DEF Migrate, history, CanWrite
  <2>2. Pending(t) \in SUBSET Nat /\ Pending(t) \subseteq Migrations
    BY <1>0, Bounds DEF Pending, Bundle
  <2>3. m \in Migrations /\ m \notin vm[t].tx.tracked
    BY <2>1, <2>2, MinIsIn DEF Pending
  <2>4. vm[t].tx \in Content /\ Good(vm[t].tx) /\ Within(file, vm[t].tx)
    BY <1>0, <2>1 DEF Sound
  <2> HIDE DEF m
  <2>5. /\ w \in Content /\ Good(w) /\ w # Nothing
        /\ w.tracked = vm[t].tx.tracked \cup {m} /\ w.data = vm[t].tx.data
    BY <2>3, <2>4, MigratedGood
  <2> HIDE DEF w
  <2>6. /\ v \in VM /\ v.life = vm[t].life /\ v.rev = vm[t].rev /\ v.checked = vm[t].checked
        /\ v.pc = vm[t].pc /\ v.call = vm[t].call /\ v.left = vm[t].left
        /\ v.tx = w /\ v.stale = vm[t].stale /\ v.rows = vm[t].rows /\ v.dirty = TRUE
        /\ v.undone = vm[t].undone
    BY <1>0, <2>5 DEF VM
  <2> HIDE DEF v
  <2>7. Within(file, w)
    BY <2>4, <2>5 DEF Within
  <2>8. Sound(t, v, file, lock')
    BY <1>0, <2>1, <2>5, <2>6, <2>7 DEF Sound
  <2>9. v.pc # "ship" /\ (lock' = lock \/ (lock \in {Nobody, t} /\ lock' \in {Nobody, t}))
    BY <2>1, <2>6
  <2> QED
    BY <1>0, <2>1, <2>6, <2>8, <2>9, CallMoves
<1>3. CASE MarkChecked(t)
  <2> DEFINE v == [vm[t] EXCEPT !.pc = "run", !.checked = TRUE]
  <2>1. /\ vm' = [vm EXCEPT ![t] = v] /\ vm[t].pc = "migrate" /\ Pending(t) = {}
        /\ UNCHANGED <<current, registered, file, lock, main, store, overlapped, answer, acked, spent>>
    BY <1>0, <1>3 DEF MarkChecked, history
  <2>2. Bundles[vm[t].rev] \subseteq vm[t].tx.tracked
    BY <2>1 DEF Pending, Bundle
  <2>3. /\ v \in VM /\ v.life = vm[t].life /\ v.rev = vm[t].rev /\ v.checked = TRUE
        /\ v.pc = "run" /\ v.call = vm[t].call /\ v.left = vm[t].left
        /\ v.tx = vm[t].tx /\ v.stale = vm[t].stale /\ v.rows = vm[t].rows /\ v.dirty = vm[t].dirty
        /\ v.undone = vm[t].undone
    BY <1>0 DEF VM
  <2> HIDE DEF v
  <2>4. lock # t => Bundles[vm[t].rev] \subseteq file.tracked
    BY <1>0, <2>1, <2>2 DEF Sound, Within
  <2>5. Sound(t, v, file, lock')
    BY <1>0, <2>1, <2>2, <2>3, <2>4 DEF Sound
  <2>6. v.pc # "ship"
    BY <2>3
  <2> QED
    BY <1>0, <2>1, <2>3, <2>5, <2>6, CallMoves
<1> QED
  BY <1>1, <1>2, <1>3

\* The call's own statements.
LEMMA StatementIInv ==
  ASSUME IInv, NEW t \in Tasks, Query(t) \/ \E kind \in Kinds : Exec(t, kind)
  PROVE  IInv'
<1>0. /\ vm[t] \in VM /\ Sound(t, vm[t], file, lock) /\ vm \in [Tasks -> VM]
      /\ spent \in [calls : 0..MaxCalls, ships : Nat, held : Nat, failovers : Nat]
      /\ vm[t].tx \in Content \cup {Nothing} /\ vm[t].rev \in 1..Len(Bundles)
      /\ vm[t].left \in 0..MaxBatch /\ vm[t].dirty \in BOOLEAN /\ vm[t].rows \subseteq Effects
  BY DEF IInv, TypeInv, TasksSound, VM
<1>1. vm[t].pc = "run" /\ vm[t].left - 1 \in 0..MaxBatch /\ vm[t].left \in 1..MaxBatch
  <2>1. vm[t].pc = "run" /\ vm[t].left > 0
    BY DEF Query, Exec
  <2>2. MaxBatch \in Nat /\ vm[t].left \in 0..MaxBatch
    BY <1>0, Bounds
  <2> QED
    BY <2>1, <2>2
<1> DEFINE w == View(t)
<1>2. /\ w \in Content /\ w # Nothing /\ Good(w)
      /\ ~vm[t].stale => Within(file, w)
      /\ lock # t => Within(w, file)
  BY <1>1, ViewGood
<1>3. lock = t => w = vm[t].tx
  BY <1>0 DEF View, Sound
<1>4. vm[t].tx # Nothing => w = vm[t].tx
  BY DEF View
<1> HIDE DEF w
<1>5. CASE Query(t)
  <2> DEFINE k == vm[t].left - 1
             v == [vm[t] EXCEPT !.tx = w, !.left = k]
  <2>1. /\ vm' = [vm EXCEPT ![t] = v]
        /\ UNCHANGED <<current, registered, file, lock, main, store, overlapped, answer, acked, spent>>
    BY <1>0, <1>5 DEF Query, history, w
  <2>2. k \in 0..MaxBatch
    BY <1>1
  <2> HIDE DEF k
  <2>3. /\ v \in VM /\ v.life = vm[t].life /\ v.rev = vm[t].rev /\ v.checked = vm[t].checked
        /\ v.pc = vm[t].pc /\ v.call = vm[t].call /\ v.left = k
        /\ v.tx = w /\ v.stale = vm[t].stale /\ v.rows = vm[t].rows /\ v.dirty = vm[t].dirty
        /\ v.undone = vm[t].undone
    BY <1>0, <1>2, <2>2 DEF VM
  <2> HIDE DEF v
  <2>4. Sound(t, v, file, lock')
    BY <1>0, <1>1, <1>2, <1>3, <1>4, <2>1, <2>3 DEF Sound
  <2>5. v.pc # "ship"
    BY <1>1, <2>3
  <2> QED
    BY <1>0, <2>1, <2>3, <2>4, <2>5, CallMoves
<1>6. ASSUME NEW kind \in Kinds, Exec(t, kind) PROVE IInv'
  <2> DEFINE k == vm[t].left - 1
             e == <<vm[t].call, vm[t].left>>
             x == Written(w, e, kind)
             d == vm[t].dirty \/ kind = "rows"
             r == IF kind = "rows" THEN vm[t].rows \cup {e} ELSE vm[t].rows
             v == [vm[t] EXCEPT !.tx = x, !.left = k, !.dirty = d, !.rows = r]
  <2>1. /\ Authorized(kind) /\ lock \in {Nobody, t} /\ lock' = t /\ ~vm[t].stale
        /\ UNCHANGED <<current, registered, file, main, store, overlapped, answer, acked, spent>>
    BY <1>6 DEF Exec, history, CanWrite
  <2>13. vm' = [vm EXCEPT ![t] = v]
    <3>1. vm' = [vm EXCEPT ![t].tx = x, ![t].left = k, ![t].dirty = @ \/ kind = "rows",
                           ![t].rows = IF kind = "rows" THEN @ \cup {e} ELSE @]
      BY <1>6 DEF Exec, w
    <3> HIDE DEF x, k, e
    <3>2. CASE kind = "rows"
      BY <1>0, <3>1, <3>2 DEF VM
    <3>3. CASE kind # "rows"
      BY <1>0, <3>1, <3>3 DEF VM
    <3> QED
      BY <3>2, <3>3
  <2>2. k \in 0..MaxBatch /\ d \in BOOLEAN
    BY <1>0, <1>1
  <2>3. e \in Effects
    BY <1>0, <1>1 DEF Sound, Effects
  <2>4. r \in SUBSET Effects /\ r \subseteq vm[t].rows \cup {e} /\ (r # {} => d)
    BY <1>0, <2>3 DEF Sound
  <2> HIDE DEF k, e, d, r
  <2>5. x \in Content /\ Good(x) /\ x.tracked = w.tracked /\ x.data = w.data \cup {e} /\ x # Nothing
    BY <1>2, <2>1, <2>3, WrittenGood
  <2> HIDE DEF x
  <2>6. /\ v \in VM /\ v.life = vm[t].life /\ v.rev = vm[t].rev /\ v.checked = vm[t].checked
        /\ v.pc = vm[t].pc /\ v.call = vm[t].call /\ v.left = k
        /\ v.tx = x /\ v.stale = vm[t].stale /\ v.rows = r /\ v.dirty = d
        /\ v.undone = vm[t].undone
    BY <1>0, <2>2, <2>4, <2>5 DEF VM
  <2> HIDE DEF v
  <2>7. Within(file, x)
    BY <1>2, <2>1, <2>5 DEF Within
  <2>8. vm[t].rows \subseteq w.data
    BY <1>0, <1>1, <1>3 DEF Sound
  <2>9. r \subseteq x.data
    BY <2>4, <2>5, <2>8
  <2>10. vm[t].checked /\ ~vm[t].undone => Bundles[vm[t].rev] \subseteq x.tracked
    <3>1. CASE lock = t
      BY <1>0, <1>3, <2>5, <3>1 DEF Sound
    <3>2. CASE lock # t
      BY <1>0, <1>2, <2>1, <2>5, <3>2 DEF Sound, Within
    <3> QED
      BY <3>1, <3>2
  <2>11. Sound(t, v, file, lock')
    BY <1>0, <1>1, <2>1, <2>4, <2>5, <2>6, <2>7, <2>9, <2>10 DEF Sound
  <2>12. v.pc # "ship" /\ (lock' = lock \/ (lock \in {Nobody, t} /\ lock' \in {Nobody, t}))
    BY <1>1, <2>1, <2>6
  <2> QED
    BY <1>0, <2>1, <2>6, <2>11, <2>12, <2>13, CallMoves
<1> QED
  BY <1>5, <1>6

\* ROLLBACK: the vm's mark stays, and the task counts as undone when the migrations
\* it marked went with the transaction.
LEMMA FailIInv ==
  ASSUME IInv, NEW t \in Tasks, Fail(t)
  PROVE  IInv'
<1>0. /\ vm[t] \in VM /\ Sound(t, vm[t], file, lock) /\ vm \in [Tasks -> VM]
      /\ spent \in [calls : 0..MaxCalls, ships : Nat, held : Nat, failovers : Nat]
      /\ vm[t].undone \in BOOLEAN /\ Nobody # t /\ 0 \in 0..MaxBatch
  <2>1. vm \in [Tasks -> VM] /\ Sound(t, vm[t], file, lock)
        /\ spent \in [calls : 0..MaxCalls, ships : Nat, held : Nat, failovers : Nat]
    BY DEF IInv, TypeInv, TasksSound
  <2>2. vm[t] \in VM /\ vm[t].undone \in BOOLEAN
    BY <2>1 DEF VM
  <2> QED
    BY <2>1, <2>2, Bounds
<1>1. /\ vm[t].pc \in {"open", "migrate", "run"}
      /\ lock' = IF lock = t THEN Nobody ELSE lock
      /\ UNCHANGED <<current, registered, file, main, store, overlapped, answer, acked, spent>>
  BY DEF Fail, history
<1> DEFINE gone == vm[t].pc = "run" /\ ~(Bundle(t) \subseteq file.tracked)
           u == IF gone THEN TRUE ELSE vm[t].undone
           v == [vm[t] EXCEPT !.pc = "gate", !.left = 0, !.tx = Nothing, !.stale = FALSE,
                              !.rows = {}, !.undone = u]
<1>2. vm' = [vm EXCEPT ![t] = v]
  <2>1. vm' = [vm EXCEPT ![t].pc = "gate", ![t].left = 0, ![t].tx = Nothing,
                         ![t].stale = FALSE, ![t].rows = {}, ![t].undone = @ \/ gone]
    BY DEF Fail
  <2> HIDE DEF gone
  <2>2. CASE gone
    BY <1>0, <2>1, <2>2 DEF VM
  <2>3. CASE ~gone
    BY <1>0, <2>1, <2>3 DEF VM
  <2> QED
    BY <2>2, <2>3
<1>3. u \in BOOLEAN /\ (~u => ~vm[t].undone /\ (vm[t].pc = "run" => Bundles[vm[t].rev] \subseteq file.tracked))
  BY <1>0 DEF Bundle
<1> HIDE DEF u
<1>4. /\ v \in VM /\ v.life = vm[t].life /\ v.rev = vm[t].rev /\ v.checked = vm[t].checked
      /\ v.pc = "gate" /\ v.call = vm[t].call /\ v.left = 0
      /\ v.tx = Nothing /\ v.stale = FALSE /\ v.rows = {} /\ v.dirty = vm[t].dirty
      /\ v.undone = u
  BY <1>0, <1>3 DEF VM
<1> HIDE DEF v
<1>5. lock' # t
  BY <1>0, <1>1
<1>6. Sound(t, v, file, lock')
  BY <1>0, <1>1, <1>3, <1>4, <1>5 DEF Sound
<1>7. v.pc # "ship" /\ (lock' = lock \/ (lock \in {Nobody, t} /\ lock' \in {Nobody, t}))
  BY <1>1, <1>4
<1> QED
  BY <1>0, <1>1, <1>2, <1>4, <1>6, <1>7, CallMoves

\* A COMMIT that fails and is undone: as a ROLLBACK, but the call is over.
LEMMA CommitFailsIInv ==
  ASSUME IInv, NEW t \in Tasks, CommitFails(t)
  PROVE  IInv'
<1>0. /\ vm[t] \in VM /\ Sound(t, vm[t], file, lock) /\ vm \in [Tasks -> VM]
      /\ spent \in [calls : 0..MaxCalls, ships : Nat, held : Nat, failovers : Nat]
      /\ vm[t].undone \in BOOLEAN /\ Nobody # t /\ 0 \in 0..MaxCalls
  <2>1. vm \in [Tasks -> VM] /\ Sound(t, vm[t], file, lock)
        /\ spent \in [calls : 0..MaxCalls, ships : Nat, held : Nat, failovers : Nat]
    BY DEF IInv, TypeInv, TasksSound
  <2>2. vm[t] \in VM /\ vm[t].undone \in BOOLEAN
    BY <2>1 DEF VM
  <2> QED
    BY <2>1, <2>2, Bounds
<1>1. /\ vm[t].pc = "run" /\ lock = t /\ lock' = Nobody
      /\ UNCHANGED <<current, registered, file, main, store, overlapped, answer, acked, spent>>
  BY DEF CommitFails, history
<1> DEFINE gone == ~(Bundle(t) \subseteq file.tracked)
           u == IF gone THEN TRUE ELSE vm[t].undone
           v == [vm[t] EXCEPT !.pc = "idle", !.call = 0, !.tx = Nothing, !.rows = {}, !.undone = u]
<1>2. vm' = [vm EXCEPT ![t] = v]
  <2>1. vm' = [vm EXCEPT ![t].pc = "idle", ![t].call = 0, ![t].tx = Nothing, ![t].rows = {},
                         ![t].undone = @ \/ gone]
    BY DEF CommitFails
  <2> HIDE DEF gone
  <2>2. CASE gone
    BY <1>0, <2>1, <2>2 DEF VM
  <2>3. CASE ~gone
    BY <1>0, <2>1, <2>3 DEF VM
  <2> QED
    BY <2>2, <2>3
<1>3. u \in BOOLEAN /\ (~u => ~vm[t].undone /\ Bundles[vm[t].rev] \subseteq file.tracked)
  BY <1>0 DEF Bundle
<1> HIDE DEF u
<1>4. /\ v \in VM /\ v.life = vm[t].life /\ v.rev = vm[t].rev /\ v.checked = vm[t].checked
      /\ v.pc = "idle" /\ v.call = 0 /\ v.left = vm[t].left
      /\ v.tx = Nothing /\ v.stale = vm[t].stale /\ v.rows = {} /\ v.dirty = vm[t].dirty
      /\ v.undone = u
  BY <1>0, <1>3 DEF VM
<1> HIDE DEF v
<1>5. lock' # t /\ ~vm[t].stale
  BY <1>0, <1>1 DEF Sound
<1>6. Sound(t, v, file, lock')
  BY <1>0, <1>1, <1>3, <1>4, <1>5 DEF Sound
<1>7. v.pc # "ship" /\ lock \in {Nobody, t} /\ lock' \in {Nobody, t}
  BY <1>1, <1>4
<1> QED
  BY <1>0, <1>1, <1>2, <1>4, <1>6, <1>7, CallMoves

\* A COMMIT that is refused leaves the transaction, ahead of the file, to the task.
LEMMA CommitRefusedIInv ==
  ASSUME IInv, NEW t \in Tasks, CommitRefused(t)
  PROVE  IInv'
<1>0. /\ vm[t] \in VM /\ Sound(t, vm[t], file, lock) /\ vm \in [Tasks -> VM]
      /\ spent \in [calls : 0..MaxCalls, ships : Nat, held : Nat, failovers : Nat]
      /\ 0 \in 0..MaxCalls
  BY Bounds DEF IInv, TypeInv, TasksSound
<1> DEFINE v == [vm[t] EXCEPT !.pc = "wedged", !.call = 0, !.rows = {}]
<1>1. /\ vm' = [vm EXCEPT ![t] = v] /\ vm[t].pc = "run" /\ lock = t
      /\ UNCHANGED <<current, registered, file, lock, main, store, overlapped, answer, acked, spent>>
  BY <1>0 DEF CommitRefused, history, VM
<1>2. /\ v \in VM /\ v.life = vm[t].life /\ v.rev = vm[t].rev /\ v.checked = vm[t].checked
      /\ v.pc = "wedged" /\ v.call = 0 /\ v.left = vm[t].left
      /\ v.tx = vm[t].tx /\ v.stale = vm[t].stale /\ v.rows = {} /\ v.dirty = vm[t].dirty
      /\ v.undone = vm[t].undone
  BY <1>0 DEF VM
<1> HIDE DEF v
<1>3. Sound(t, v, file, lock')
  BY <1>0, <1>1, <1>2 DEF Sound
<1>4. v.pc # "ship"
  BY <1>2
<1> QED
  BY <1>0, <1>1, <1>2, <1>3, <1>4, CallMoves

\* The caller hears the result of a call whose gate is passed.
LEMMA RepliedIInv ==
  ASSUME IInv, NEW t \in Tasks, vm[t].pc \in {"gate", "ship"}, Replied(t),
         UNCHANGED <<current, registered, file, lock, overlapped, answer>>,
         spent' \in [calls : 0..MaxCalls, ships : Nat, held : Nat, failovers : Nat],
         spent'.held = 0 => spent.held = 0, main' \in Content, Good(main'),
         store' \in Content \cup {Nothing}, store' # Nothing => Good(store'), AckedIsShipped'
  PROVE  IInv'
<1>0. /\ vm[t] \in VM /\ Sound(t, vm[t], file, lock) /\ vm \in [Tasks -> VM]
      /\ 0 \in 0..MaxCalls
  BY Bounds DEF IInv, TypeInv, TasksSound
<1> DEFINE v == [vm[t] EXCEPT !.pc = "idle", !.call = 0, !.tx = Nothing, !.rows = {}, !.dirty = FALSE]
<1>1. vm' = [vm EXCEPT ![t] = v] /\ acked' = acked \cup vm[t].rows
  BY <1>0 DEF Replied, VM
<1>2. acked' \subseteq file.data
  BY <1>0, <1>1 DEF Sound, IInv, AckedInv
<1>3. /\ v \in VM /\ v.life = vm[t].life /\ v.rev = vm[t].rev /\ v.checked = vm[t].checked
      /\ v.pc = "idle" /\ v.call = 0 /\ v.left = vm[t].left
      /\ v.tx = Nothing /\ v.stale = vm[t].stale /\ v.rows = {} /\ v.dirty = FALSE
      /\ v.undone = vm[t].undone
  BY <1>0 DEF VM
<1> HIDE DEF v
<1>4. lock' # t /\ lock' = lock /\ ~vm[t].stale
  BY <1>0 DEF Sound
<1>5. Sound(t, v, file, lock')
  BY <1>0, <1>3, <1>4 DEF Sound
<1>6. v.pc # "ship"
  BY <1>3
<1> QED
  BY <1>1, <1>2, <1>3, <1>4, <1>5, <1>6, TaskMoves

\* The output gate: it ships, and answers when that is done or has failed.
LEMMA GateIInv ==
  ASSUME IInv, NEW t \in Tasks, Gate(t) \/ Ship(t) \/ ShipFails(t)
  PROVE  IInv'
<1>0. /\ vm[t] \in VM /\ Sound(t, vm[t], file, lock) /\ vm \in [Tasks -> VM]
      /\ spent \in [calls : 0..MaxCalls, ships : Nat, held : Nat, failovers : Nat]
      /\ store \in Content \cup {Nothing} /\ (store # Nothing => Good(store)) /\ file \in Content
      /\ vm[t].tx \in Content \cup {Nothing} /\ Good(file) /\ AckedIsShipped
      /\ acked \subseteq file.data /\ main \in Content /\ Good(main)
  BY DEF IInv, TypeInv, TasksSound, VM, AckedInv
<1>5. ASSUME Checkpoint
      PROVE  /\ main' \in Content /\ Good(main') /\ (spent'.held = 0 => main' = file /\ spent.held = 0)
             /\ spent' \in [calls : 0..MaxCalls, ships : Nat, held : Nat, failovers : Nat]
             /\ spent'.ships = spent.ships
  <2>1. CASE main' = file /\ UNCHANGED spent
    <3>1. main' \in Content /\ Good(main')
      BY <1>0, <2>1
    <3>2. spent'.ships = spent.ships /\ (spent'.held = 0 => spent.held = 0)
      BY <2>1
    <3> QED
      BY <1>0, <2>1, <3>1, <3>2
  <2>2. CASE UNCHANGED main /\ spent' = [spent EXCEPT !["held"] = @ + 1]
    <3>1. main' \in Content /\ Good(main')
      BY <1>0, <2>2
    <3>2. /\ spent' \in [calls : 0..MaxCalls, ships : Nat, held : Nat, failovers : Nat]
          /\ spent'.ships = spent.ships /\ spent'.held # 0
      BY <1>0, <2>2
    <3> QED
      BY <3>1, <3>2
  <2> QED
    BY <1>5, <2>1, <2>2 DEF Checkpoint, Spend
<1>1. CASE Gate(t) /\ vm[t].dirty
  <2> DEFINE v == [vm[t] EXCEPT !.pc = "ship", !.tx = main']
  <2>0. Checkpoint
    BY <1>1 DEF Gate
  <2>1. vm' = [vm EXCEPT ![t] = v] /\ vm[t].pc = "gate"
        /\ UNCHANGED <<current, registered, file, lock, store, overlapped, answer, acked>>
    BY <1>0, <1>1 DEF Gate, VM
  <2>4. main' \in Content /\ Good(main')
    BY <1>5, <2>0
  <2>2. /\ v \in VM /\ v.life = vm[t].life /\ v.rev = vm[t].rev /\ v.checked = vm[t].checked
        /\ v.pc = "ship" /\ v.call = vm[t].call /\ v.left = vm[t].left
        /\ v.tx = main' /\ v.stale = vm[t].stale /\ v.rows = vm[t].rows /\ v.dirty = vm[t].dirty
        /\ v.undone = vm[t].undone /\ main' # Nothing
    BY <1>0, <2>4 DEF VM
  <2> HIDE DEF v
  <2>3. Sound(t, v, file, lock')
    BY <1>0, <2>1, <2>2, <2>4 DEF Sound
  <2>5. AckedIsShipped'
    BY <1>0, <1>5, <2>0, <2>1 DEF AckedIsShipped
  <2>6. /\ spent' \in [calls : 0..MaxCalls, ships : Nat, held : Nat, failovers : Nat]
        /\ spent'.held = 0 => spent.held = 0
        /\ v.pc = "ship" /\ spent'.held = 0 => v.tx = file
    BY <1>5, <2>0, <2>2
  <2>7. acked' \subseteq file.data /\ store' \in Content \cup {Nothing} /\ (store' # Nothing => Good(store'))
    BY <1>0, <2>1
  <2> QED
    BY <2>1, <2>2, <2>3, <2>4, <2>5, <2>6, <2>7, TaskMoves
<1>2. CASE Gate(t) /\ ~vm[t].dirty
  <2>1. /\ vm[t].pc = "gate" /\ Replied(t) /\ Checkpoint
        /\ UNCHANGED <<current, registered, file, lock, store, overlapped, answer>>
    BY <1>2 DEF Gate
  <2>2. acked' = acked
    BY <1>0, <1>2, <2>1 DEF Replied, Sound
  <2>3. AckedIsShipped'
    BY <1>0, <1>5, <2>1, <2>2 DEF AckedIsShipped
  <2> QED
    BY <1>0, <1>5, <2>1, <2>3, RepliedIInv
<1>3. CASE Ship(t)
  <2>1. /\ vm[t].pc = "ship" /\ Replied(t) /\ store' = vm[t].tx
        /\ UNCHANGED <<current, registered, file, lock, main, overlapped, answer, spent>>
    BY <1>3 DEF Ship
  <2>2. vm[t].tx # Nothing /\ Good(vm[t].tx) /\ vm[t].rows \subseteq file.data
    BY <1>0, <2>1 DEF Sound
  <2>3. ~overlapped /\ spent.held = 0 => vm[t].tx = file
    BY <2>1 DEF IInv, AloneInv
  <2>4. AckedIsShipped'
    BY <1>0, <2>1, <2>2, <2>3 DEF AckedIsShipped, Replied
  <2> QED
    BY <1>0, <2>1, <2>2, <2>4, RepliedIInv
<1>4. CASE ShipFails(t)
  <2>1. /\ vm[t].pc = "ship" /\ Replied(t) /\ spent' = [spent EXCEPT !["ships"] = @ + 1]
        /\ UNCHANGED <<current, registered, file, lock, main, store, overlapped, answer>>
    BY <1>4 DEF ShipFails, Spend
  <2>2. spent' \in [calls : 0..MaxCalls, ships : Nat, held : Nat, failovers : Nat] /\ spent'.ships # 0
        /\ spent'.held = spent.held
    BY <1>0, <2>1
  <2>3. AckedIsShipped'
    BY <2>2 DEF AckedIsShipped
  <2> QED
    BY <1>0, <2>1, <2>2, <2>3, RepliedIInv
<1> QED
  BY <1>1, <1>2, <1>3, <1>4

\* An idle task ends.
LEMMA EndIInv ==
  ASSUME IInv, NEW t \in Tasks, End(t)
  PROVE  IInv'
<1>0. /\ Sound(t, vm[t], file, lock) /\ Nobody # t /\ lock' = IF lock = t THEN Nobody ELSE lock
      /\ spent \in [calls : 0..MaxCalls, ships : Nat, held : Nat, failovers : Nat]
      /\ UNCHANGED <<current, registered, file, main, store, overlapped, answer, acked, spent>>
  BY DEF IInv, TypeInv, TasksSound, End, history
<1> DEFINE v == [Unborn EXCEPT !.life = "ended"]
<1>1. vm' = [vm EXCEPT ![t] = v]
  BY DEF End
<1>2. Blank(v) /\ v.life = "ended"
  BY BlankRecords
<1> HIDE DEF v
<1>3. lock' # t /\ (lock' = lock \/ (lock \in {Nobody, t} /\ lock' \in {Nobody, t}))
  BY <1>0
<1>4. v \in VM /\ Sound(t, v, file, lock') /\ v.pc # "ship"
  BY <1>0, <1>2, <1>3, BlankSound DEF Blank
<1> QED
  BY <1>0, <1>1, <1>2, <1>3, <1>4, CallMoves

\* A task is spawned over the file as it is.
LEMMA SpawnIInv ==
  ASSUME IInv, NEW t \in Tasks, Spawn(t)
  PROVE  IInv'
<1> DEFINE v == [Unborn EXCEPT !.life = "live", !.rev = current]
<1>1. /\ vm' = [vm EXCEPT ![t] = v] /\ vm[t].life = "unborn" /\ registered' = t
      /\ overlapped' = (overlapped \/ \E u \in Tasks : Live(u))
      /\ UNCHANGED <<current, file, lock, main, store, spent, acked, answer>>
  BY DEF Spawn
<1>2. Blank(v) /\ v.life = "live"
  BY BlankRecords DEF IInv, TypeInv
<1> HIDE DEF v
<1>3. lock # t
  BY <1>1 DEF IInv, TasksSound, Sound
<1>4. v \in VM /\ Sound(t, v, file, lock) /\ v.pc = "idle"
  BY <1>2, <1>3, BlankSound DEF Blank
<1>5. vm \in [Tasks -> VM] /\ vm' \in [Tasks -> VM] /\ vm'[t] = v /\ \A u \in Tasks : u # t => vm'[u] = vm[u]
  BY <1>1, <1>4 DEF IInv, TypeInv
<1>6. TypeInv'
  BY <1>1, <1>5 DEF IInv, TypeInv
<1>7. TasksSound'
  BY <1>1, <1>4, <1>5 DEF IInv, TasksSound
<1>8. AloneInv'
  <2> SUFFICES ASSUME ~overlapped' PROVE AloneInv'
    BY DEF AloneInv
  <2>1. ~overlapped /\ \A u \in Tasks : vm[u].life # "live"
    BY <1>1 DEF Live
  <2>2. \A u \in Tasks : Live(u)' => u = t
    BY <1>5, <2>1 DEF Live
  <2>3. \A u \in Tasks : vm'[u].pc = "ship" /\ spent.held = 0 => vm'[u].tx = file
    BY <1>4, <1>5, <2>1 DEF IInv, AloneInv
  <2> QED
    BY <1>1, <2>2, <2>3 DEF AloneInv
<1>9. AckedInv' /\ AckedIsShipped'
  <2>1. overlapped => overlapped'
    BY <1>1
  <2>2. AckedInv /\ AckedIsShipped
    BY DEF IInv
  <2> QED
    BY <1>1, <2>1, <2>2 DEF AckedInv, AckedIsShipped
<1> QED
  BY <1>1, <1>6, <1>7, <1>8, <1>9 DEF IInv

\* A failover: the tasks end and the file is the last snapshot.
LEMMA FailoverIInv ==
  ASSUME IInv, Failover
  PROVE  IInv'
<1> DEFINE v == [Unborn EXCEPT !.life = "ended"]
<1>1. /\ vm' = [t \in Tasks |-> IF vm[t].life = "live" THEN v ELSE vm[t]]
      /\ file' = (IF store = Nothing THEN NewFile ELSE store)
      /\ acked' = acked \cap file'.data /\ registered' = Nobody /\ lock' = Nobody
      /\ spent' = [spent EXCEPT !["failovers"] = @ + 1]
      /\ main' = file' /\ UNCHANGED <<current, store, overlapped, answer>>
  BY DEF Failover, Live, Spend
<1>2. Blank(v) /\ v.life = "ended"
  BY BlankRecords
<1> HIDE DEF v
<1>3. v \in VM /\ v.pc = "idle" /\ v.life # "live"
  BY <1>2 DEF Blank
<1>4. vm \in [Tasks -> VM] /\ store \in Content \cup {Nothing} /\ (store # Nothing => Good(store))
      /\ spent \in [calls : 0..MaxCalls, ships : Nat, held : Nat, failovers : Nat]
  BY DEF IInv, TypeInv
<1>5. \A t \in Tasks : vm'[t] = v \/ (vm'[t] = vm[t] /\ vm[t].life # "live")
  BY <1>1
<1>6. vm' \in [Tasks -> VM]
  BY <1>1, <1>3, <1>4
<1>7. file' \in Content /\ Good(file')
  BY <1>1, <1>4, NewFileGood
<1>8. spent' \in [calls : 0..MaxCalls, ships : Nat, held : Nat, failovers : Nat] /\ spent'.ships = spent.ships /\ spent'.held = spent.held
  BY <1>1, <1>4
<1>9. TypeInv'
  BY <1>1, <1>6, <1>7, <1>8 DEF IInv, TypeInv
<1>10. \A t \in Tasks : Sound(t, vm'[t], file', lock')
  <2> TAKE t \in Tasks
  <2>1. lock' # t
    BY <1>1
  <2>2. CASE vm'[t] = v
    BY <1>2, <2>1, <2>2, BlankSound
  <2>3. CASE vm'[t] = vm[t] /\ vm[t].life # "live"
    BY <2>1, <2>3 DEF IInv, TasksSound, Sound
  <2> QED
    BY <1>5, <2>2, <2>3
<1>11. \A t \in Tasks : vm'[t].life # "live" /\ vm'[t].pc = "idle"
  <2> TAKE t \in Tasks
  <2>1. Sound(t, vm[t], file, lock)
    BY DEF IInv, TasksSound
  <2> QED
    BY <1>3, <1>5, <2>1 DEF Sound
<1>12. AloneInv' /\ TasksSound'
  BY <1>10, <1>11 DEF AloneInv, TasksSound, Live
<1>13. AckedInv'
  BY <1>1 DEF IInv, AckedInv
<1>14. AckedIsShipped'
  BY <1>1, <1>4, NewFileGood DEF AckedIsShipped
<1> QED
  BY <1>1, <1>4, <1>7, <1>9, <1>12, <1>13, <1>14 DEF IInv

\* COMMIT: the file only grows, and the other transactions with a snapshot are
\* behind it.
LEMMA CommitIInv ==
  ASSUME IInv, NEW t \in Tasks, Commit(t)
  PROVE  IInv'
<1>0. /\ vm[t] \in VM /\ Sound(t, vm[t], file, lock) /\ vm \in [Tasks -> VM]
      /\ vm[t].tx \in Content \cup {Nothing} /\ file \in Content /\ Good(file) /\ Nobody # t
      /\ lock \in Tasks \cup {Nobody}
  BY DEF IInv, TypeInv, TasksSound, VM
<1> DEFINE v == [vm[t] EXCEPT !.pc = "gate", !.tx = Nothing, !.stale = FALSE]
           behind(u) == lock = t /\ vm[u].pc \in {"migrate", "run"} /\ vm[u].tx # Nothing
           s(u) == IF behind(u) THEN TRUE ELSE vm[u].stale
           w(u) == [vm[u] EXCEPT !.stale = s(u)]
<1>1. /\ vm[t].pc = "run"
      /\ lock = t => file' = vm[t].tx /\ lock' = Nobody
      /\ lock # t => file' = file /\ lock' = lock
      /\ UNCHANGED <<current, registered, main, store, spent, acked, overlapped, answer>>
  BY DEF Commit, history
<1>2. vm' = [u \in Tasks |-> IF u = t THEN v ELSE [vm[u] EXCEPT !.stale = @ \/ behind(u)]]
  BY DEF Commit
<1>3. \A u \in Tasks : s(u) \in BOOLEAN /\ (s(u) <=> vm[u].stale \/ behind(u))
  BY <1>0 DEF VM
<1>4. /\ v \in VM /\ v.life = vm[t].life /\ v.rev = vm[t].rev /\ v.checked = vm[t].checked
      /\ v.pc = "gate" /\ v.tx = Nothing /\ v.stale = FALSE /\ v.rows = vm[t].rows
      /\ v.dirty = vm[t].dirty /\ v.undone = vm[t].undone
  BY <1>0 DEF VM
<1>5. \A u \in Tasks : u # t => vm'[u] = w(u)
  <2> SUFFICES ASSUME NEW u \in Tasks, u # t PROVE vm'[u] = w(u)
    OBVIOUS
  <2>1. vm'[u] = [vm[u] EXCEPT !.stale = @ \/ behind(u)]
    BY <1>2
  <2>2. vm[u] \in VM /\ vm[u].stale \in BOOLEAN
    BY <1>0 DEF VM
  <2> HIDE DEF behind
  <2>3. CASE behind(u)
    BY <2>1, <2>2, <2>3 DEF VM
  <2>4. CASE ~behind(u)
    BY <2>1, <2>2, <2>4 DEF VM
  <2> QED
    BY <2>3, <2>4
<1>6. vm'[t] = v
  BY <1>2
<1> HIDE DEF v
<1>7. \A u \in Tasks :
        /\ w(u) \in VM /\ w(u).life = vm[u].life /\ w(u).rev = vm[u].rev
        /\ w(u).checked = vm[u].checked /\ w(u).pc = vm[u].pc /\ w(u).call = vm[u].call
        /\ w(u).tx = vm[u].tx /\ w(u).stale = s(u) /\ w(u).rows = vm[u].rows
        /\ w(u).dirty = vm[u].dirty /\ w(u).undone = vm[u].undone
  <2> HIDE DEF s
  <2> QED
    BY <1>0, <1>3, ZenonT(60) DEF VM
<1> HIDE DEF w, s
<1>8. file' \in Content /\ Good(file') /\ Within(file, file')
  BY <1>0, <1>1 DEF Sound, Within
<1>9. vm' \in [Tasks -> VM]
  <2>1. DOMAIN vm' = Tasks /\ \A u \in Tasks : vm'[u] \in VM
    BY <1>2, <1>4, <1>5, <1>6, <1>7
  <2>2. vm' = [u \in Tasks |-> vm'[u]]
    BY <1>2
  <2> QED
    BY <2>1, <2>2
<1>10. TypeInv'
  BY <1>0, <1>1, <1>8, <1>9 DEF IInv, TypeInv
<1>11. Sound(t, v, file', lock')
  <2>1. lock' # t
    BY <1>0, <1>1
  <2>2. vm[t].rows \subseteq file'.data
    BY <1>0, <1>1 DEF Sound
  <2>3. vm[t].checked /\ ~vm[t].undone => Bundles[vm[t].rev] \subseteq file'.tracked
    BY <1>0, <1>1 DEF Sound
  <2> QED
    BY <1>0, <1>1, <1>4, <2>1, <2>2, <2>3 DEF Sound
<1>12. ASSUME NEW u \in Tasks, u # t PROVE Sound(u, w(u), file', lock')
  <2>1. Sound(u, vm[u], file, lock)
    BY DEF IInv, TasksSound
  <2>2. CASE lock # t
    <3>1. ~behind(u) /\ file' = file /\ lock' = lock
      BY <1>1, <2>2
    <3>2. w(u).stale <=> vm[u].stale
      BY <1>3, <1>7, <3>1
    <3> QED
      BY <1>7, <2>1, <3>1, <3>2 DEF Sound
  <2>3. CASE lock = t
    <3>1. lock # u /\ lock' # u /\ lock' = Nobody
      BY <1>1, <1>12, <2>3
    <3>2. vm[u].pc \in {"migrate", "run"} /\ vm[u].tx # Nothing =>
            w(u).stale /\ Within(vm[u].tx, file')
      BY <1>3, <1>7, <1>8, <2>1, <2>3, <3>1 DEF Sound, Within
    <3>3. w(u).stale => vm[u].pc \in {"migrate", "run"} /\ vm[u].tx # Nothing
      BY <1>3, <1>7, <2>1 DEF Sound
    <3>4. file.data \subseteq file'.data /\ file.tracked \subseteq file'.tracked
      BY <1>8 DEF Within
    <3>5. /\ vm[u].pc \in {"gate", "ship"} => vm[u].rows \subseteq file'.data
          /\ vm[u].pc = "run" => vm[u].rows = {}
          /\ vm[u].checked /\ ~vm[u].undone => Bundles[vm[u].rev] \subseteq file'.tracked
      BY <2>1, <3>1, <3>4 DEF Sound
    <3> HIDE DEF behind
    <3> QED
      BY <1>7, <2>1, <3>1, <3>2, <3>3, <3>5 DEF Sound
  <2> QED
    BY <2>2, <2>3
<1>13. TasksSound'
  <2>1. \A u \in Tasks : Sound(u, vm'[u], file', lock')
    BY <1>5, <1>6, <1>11, <1>12
  <2> QED
    BY <2>1 DEF TasksSound
<1>14. AloneInv'
  <2> SUFFICES ASSUME ~overlapped PROVE AloneInv'
    BY <1>1 DEF AloneInv
  <2>1. \A u \in Tasks : vm'[u].life = vm[u].life
    BY <1>4, <1>5, <1>6, <1>7
  <2>2. \A u \in Tasks : vm'[u].pc # "ship"
    <3> TAKE u \in Tasks
    <3>1. CASE u = t
      BY <1>4, <1>6, <3>1
    <3>2. CASE u # t
      <4>1. Sound(u, vm[u], file, lock)
        BY DEF IInv, TasksSound
      <4>2. vm[t].life = "live"
        BY <1>0, <1>1 DEF Sound
      <4>3. vm[u].life # "live"
        BY <3>2, <4>2 DEF IInv, AloneInv, Live
      <4> QED
        BY <1>5, <1>7, <3>2, <4>1, <4>3 DEF Sound
    <3> QED
      BY <3>1, <3>2
  <2> QED
    BY <2>1, <2>2 DEF IInv, AloneInv, Live
<1>15. AckedInv' /\ AckedIsShipped'
  BY <1>1, <1>8 DEF IInv, AckedInv, AckedIsShipped, Within
<1> QED
  BY <1>1, <1>8, <1>10, <1>13, <1>14, <1>15 DEF IInv

\* Steps beside the tasks: a publish, a replica that ages, reads.
LEMMA BesideIInv ==
  ASSUME IInv, Publish \/ ReplicaAges
               \/ \E here, reached \in BOOLEAN : Read(here) \/ ReadRouted(here, reached)
  PROVE  IInv'
<1>1. /\ UNCHANGED <<registered, vm, file, lock, main, store, spent, acked, overlapped>>
      /\ current' = current \/ (current < Len(Bundles) /\ current' = current + 1)
  BY DEF Publish, ReplicaAges, Read, ReadRouted, history
<1>2. answer' = answer \/ answer' = acked \ file.data
  BY DEF Publish, ReplicaAges, Read, ReadRouted, Source, history
<1>3. AckedInv'
  BY <1>1, <1>2 DEF IInv, AckedInv
<1>4. current' \in 1..Len(Bundles)
  <2>1. current \in 1..Len(Bundles) /\ Len(Bundles) \in Nat
    BY Bounds DEF IInv, TypeInv
  <2> QED
    BY <1>1, <2>1
<1>5. TypeInv' /\ TasksSound'
  BY <1>1, <1>4 DEF IInv, TypeInv, TasksSound
<1>6. AloneInv' /\ AckedIsShipped'
  BY <1>1 DEF IInv, AloneInv, AckedIsShipped, Live
<1> QED
  BY <1>1, <1>3, <1>5, <1>6 DEF IInv

--------------------------------------------------------------------------------
(* The theorems.                                                               *)

\* The invariant holds at the start.
LEMMA InitIInv == Init => IInv
<1> SUFFICES ASSUME Init PROVE IInv
  OBVIOUS
<1>1. /\ current = 1 /\ registered = Nobody /\ vm = [t \in Tasks |-> Unborn] /\ file = NewFile
      /\ lock = Nobody /\ store = Nothing /\ main = NewFile
      /\ spent = [calls |-> 0, ships |-> 0, held |-> 0, failovers |-> 0]
      /\ acked = {} /\ overlapped = FALSE /\ answer = {}
  BY DEF Init
<1>2. Blank(Unborn) /\ Unborn.life = "unborn" /\ Unborn \in VM /\ Unborn.pc = "idle"
  BY BlankRecords DEF Blank
<1>3. \A t \in Tasks : vm[t] = Unborn /\ lock # t
  BY <1>1
<1>4. TasksSound
  BY <1>2, <1>3, BlankSound DEF TasksSound
<1>5. TypeInv
  <2>1. spent \in [calls : 0..MaxCalls, ships : Nat, held : Nat, failovers : Nat]
    BY <1>1, Bounds
  <2>2. vm \in [Tasks -> VM] /\ current \in 1..Len(Bundles) /\ file \in Content
    BY <1>1, <1>2, NewFileGood, Bounds
  <2> QED
    BY <1>1, <2>1, <2>2 DEF TypeInv
<1>6. AloneInv /\ AckedInv /\ AckedIsShipped
  BY <1>1, <1>2, <1>3 DEF AloneInv, AckedInv, AckedIsShipped, Live
<1> QED
  BY <1>1, <1>4, <1>5, <1>6, NewFileGood DEF IInv

\* Every step keeps it.
LEMMA NextIInv == IInv /\ [Next]_vars => IInv'
<1> SUFFICES ASSUME IInv, [Next]_vars PROVE IInv'
  OBVIOUS
<1>1. CASE UNCHANGED vars
  <2>1. UNCHANGED <<current, registered, vm, file, lock, main, store, spent, acked, overlapped, answer>>
    BY <1>1 DEF vars, history
  <2>2. TypeInv' /\ TasksSound' /\ AckedInv'
    BY <2>1 DEF IInv, TypeInv, TasksSound, AckedInv
  <2>3. AloneInv' /\ AckedIsShipped'
    BY <2>1 DEF IInv, AloneInv, AckedIsShipped, Live
  <2> QED
    BY <2>1, <2>2, <2>3 DEF IInv
<1>2. CASE Publish \/ ReplicaAges
           \/ \E here, reached \in BOOLEAN : Read(here) \/ ReadRouted(here, reached)
  BY <1>2, BesideIInv
<1>3. CASE Failover
  BY <1>3, FailoverIInv
<1>4. ASSUME NEW t \in Tasks,
             \/ Spawn(t) \/ End(t) \/ \E n \in 1..MaxBatch : Receive(t, n)
             \/ NoMigrations(t) \/ AppliedMigrations(t) \/ Migrate(t) \/ MarkChecked(t)
             \/ Query(t) \/ \E kind \in Kinds : Exec(t, kind)
             \/ Commit(t) \/ CommitFails(t) \/ CommitRefused(t) \/ Fail(t) \/ Gate(t) \/ Ship(t) \/ ShipFails(t)
      PROVE  IInv'
  <2>1. CASE Spawn(t)
    BY <2>1, SpawnIInv
  <2>2. CASE End(t)
    BY <2>2, EndIInv
  <2>3. CASE (\E n \in 1..MaxBatch : Receive(t, n)) \/ NoMigrations(t)
    BY <2>3, BeginIInv
  <2>4. CASE AppliedMigrations(t) \/ Migrate(t) \/ MarkChecked(t)
    BY <2>4, MigrateIInv
  <2>5. CASE Query(t) \/ \E kind \in Kinds : Exec(t, kind)
    BY <2>5, StatementIInv
  <2>6. CASE Commit(t)
    BY <2>6, CommitIInv
  <2>7. CASE Fail(t) \/ CommitFails(t)
    BY <2>7, FailIInv, CommitFailsIInv
  <2>9. CASE CommitRefused(t)
    BY <2>9, CommitRefusedIInv
  <2>8. CASE Gate(t) \/ Ship(t) \/ ShipFails(t)
    BY <2>8, GateIInv
  <2> QED
    BY <1>4, <2>1, <2>2, <2>3, <2>4, <2>5, <2>6, <2>7, <2>8, <2>9
<1> QED
  BY <1>1, <1>2, <1>3, <1>4 DEF Next

\* In every state.
LEMMA AlwaysIInv == Spec => []IInv
BY InitIInv, NextIInv, PTL DEF Spec

\* The file, the snapshot, the locks and the calls have their types.
THEOREM TypeCorrect == Spec => []TypeOK
<1>1. IInv => TypeOK
  BY DEF IInv, TypeInv, TypeOK, VM
<1> QED
  BY <1>1, AlwaysIInv, PTL

\* Database::apply_migrations: for any bundles and any number of tasks, a migration
\* is in the file at most once and with its tracking row, whatever calls fail, which
\* vms race and whichever snapshot a new home starts from.
THEOREM MigrationsOnce == Spec => []MigratedOnce
<1>1. IInv => MigratedOnce
  BY DEF IInv, Good, MigratedOnce
<1> QED
  BY <1>1, AlwaysIInv, PTL

\* Database::open: what an idle vm takes for applied is in the file, unless the call
\* that applied it failed after it, in its own statements or at its COMMIT.
THEOREM MigrationsStay == Spec => []MigratedUnlessUndone
<1>1. IInv => MigratedUnlessUndone
  <2> SUFFICES ASSUME IInv, NEW t \in Tasks, vm[t].pc = "idle", vm[t].checked, ~vm[t].undone
               PROVE  Bundle(t) \subseteq file.tracked
    BY DEF MigratedUnlessUndone
  <2>1. Sound(t, vm[t], file, lock)
    BY DEF IInv, TasksSound
  <2> QED
    BY <2>1 DEF Sound, Bundle
<1> QED
  BY <1>1, AlwaysIInv, PTL

\* The output gate: until an upload fails, a checkpoint is held up by a reader or
\* two tasks meet, every row change a caller was told of is in the shipped snapshot.
THEOREM GateHolds == Spec => []AckedIsShipped
<1>1. IInv => AckedIsShipped
  BY DEF IInv
<1> QED
  BY <1>1, AlwaysIInv, PTL

\* A read beside the mailbox that the object's own worker answers shows every row
\* change a caller was told of, through republishes, failed uploads and failovers.
THEOREM ReadsFresh == Spec => []ReadsSeeAcked
<1>1. IInv => ReadsSeeAcked
  BY DEF IInv, AckedInv, ReadsSeeAcked
<1> QED
  BY <1>1, AlwaysIInv, PTL
====
