-------------------------------- MODULE RunProofs -------------------------------
(* What a run is promised: by Workflow, for any programs of a workflow run, and  *)
(* by Secrets, for any names, handlers and bounds of the secrets a run pins.     *)
EXTENDS Workflow, Secrets, FiniteSetTheorems, WellFoundedInduction, NaturalsInduction, TLAPS

--------------------------------------------------------------------------------
(* Secrets.                                                                    *)

Ops == {"idle", "set", "insert", "delete", "tombstone"}
Statuses == {"ok", "aborted", "not found", "error"}
Rpc == [op : Ops, name : Names, saw : Nat, left : Int, status : Statuses]
Row == [kek : Nat \ {0}, deleted : BOOLEAN]

(* The inductive invariant.                                                    *)

\* The versions of a name are numbered without a gap: an insert follows a head
\* that was there, and the primary key refuses a number that has gone since.
RowsInv ==
  /\ DOMAIN rows = Names
  /\ \A name \in Names :
       /\ HeadOf(name) \in Nat /\ DOMAIN rows[name] = 1..HeadOf(name)
       /\ \A v \in 1..HeadOf(name) : rows[name][v] \in Row /\ rows[name][v].kek <= envelope.active

EnvelopeInv ==
  envelope \in [active : Nat \ {0}, previous : Nat]

\* What a handler read was there, and rows do not go.
RpcInv ==
  /\ rpc \in [Handlers -> Rpc]
  /\ \A h \in Handlers :
       /\ rpc[h].saw <= HeadOf(rpc[h].name)
       /\ rpc[h].op = "tombstone" => rpc[h].saw # 0

\* The run's pins are rows, memory follows the table while a vm is there, and the
\* body has seen what is pinned and nothing else.
RunInv ==
  /\ DOMAIN pins = Names /\ DOMAIN known = Names
  /\ \A name \in Names : pins[name] \in 0..HeadOf(name)
  /\ vm \in [pc : {"down", "built", "record"}, name : Names, version : Nat]
  /\ vm.pc # "down" => known = pins
  /\ vm.pc = "record" => vm.version \in 1..HeadOf(vm.name) /\ pins[vm.name] = 0
  /\ \A u \in used : u[1] \in Names /\ u[2] # 0 /\ pins[u[1]] = u[2]

Inv == RowsInv /\ EnvelopeInv /\ RpcInv /\ RunInv

--------------------------------------------------------------------------------
\* The head of versions numbered without a gap is their number.
LEMMA HeadIsLast ==
  ASSUME NEW n \in Nat
  PROVE  (IF 1..n = {} THEN 0 ELSE Max(1..n)) = n
<1>1. CASE n = 0
  BY <1>1
<1>2. CASE n # 0
  <2>1. n \in 1..n /\ \A y \in 1..n : n >= y
    BY <1>2
  <2>2. \A x \in 1..n : (\A y \in 1..n : x >= y) => x = n
    BY <2>1
  <2>3. Max(1..n) = n
    BY <2>1, <2>2 DEF Max
  <2> QED BY <2>1, <2>3
<1> QED BY <1>1, <1>2

\* The same of a name's rows before and after a step.
LEMMA HeadNow ==
  ASSUME NEW name, NEW n \in Nat, DOMAIN rows[name] = 1..n
  PROVE  HeadOf(name) = n
BY HeadIsLast DEF HeadOf

LEMMA HeadNext ==
  ASSUME NEW name, NEW n \in Nat, DOMAIN rows'[name] = 1..n
  PROVE  HeadOf(name)' = n
BY HeadIsLast DEF HeadOf

LEMMA IdleTyped == Idle \in Rpc /\ Idle.saw = 0 /\ Idle.op = "idle"
<1>1. (CHOOSE n \in Names : TRUE) \in Names
  BY SecretsAssumption
<1>2. \A n \in Names : [op |-> "idle", name |-> n, saw |-> 0, left |-> 0, status |-> "ok"] \in Rpc
  BY DEF Rpc, Ops, Statuses
<1>3. Idle \in Rpc
  BY <1>1, <1>2 DEF Idle
<1> QED BY <1>3 DEF Idle

LEMMA InitInv == Init => Inv
<1> SUFFICES ASSUME Init PROVE Inv
  OBVIOUS
<1> USE SecretsAssumption DEF Init
<1>0. (CHOOSE n \in Names : TRUE) \in Names
  OBVIOUS
<1>1. ASSUME NEW name \in Names PROVE DOMAIN rows[name] = 1..0 /\ HeadOf(name) = 0
  BY HeadNow
<1>2. RowsInv
  BY <1>1 DEF RowsInv
<1>3. EnvelopeInv
  BY DEF EnvelopeInv
<1>4. RpcInv
  <2>1. \A h \in Handlers : rpc[h] = Idle
    OBVIOUS
  <2>2. Idle \in Rpc /\ Idle.saw = 0 /\ Idle.op = "idle" /\ Idle.name \in Names
    BY IdleTyped DEF Rpc
  <2>3. HeadOf(Idle.name) = 0
    BY <2>2, <1>1
  <2>4. rpc \in [Handlers -> Rpc]
    BY <2>2
  <2> QED BY <2>1, <2>2, <2>3, <2>4 DEF RpcInv
<1>5. RunInv
  BY <1>0, <1>1 DEF RunInv
<1> QED BY <1>2, <1>3, <1>4, <1>5 DEF Inv

\* Where no row changes, no head does.
LEMMA HeadsStay ==
  ASSUME UNCHANGED rows
  PROVE  \A name : HeadOf(name)' = HeadOf(name)
BY DEF HeadOf

\* A step that leaves the rows and the master keys alone keeps what is said of them.
LEMMA TableKept ==
  ASSUME RowsInv, EnvelopeInv, UNCHANGED table
  PROVE  RowsInv' /\ EnvelopeInv' /\ (\A name : HeadOf(name)' = HeadOf(name))
<1>1. UNCHANGED rows /\ UNCHANGED envelope
  BY DEF table
<1> QED BY <1>1, HeadsStay DEF RowsInv, EnvelopeInv

\* A step that lets no head go back and does not touch the run.
LEMMA RunKept ==
  ASSUME RunInv, UNCHANGED run,
         \A name \in Names : HeadOf(name) \in Nat /\ HeadOf(name)' \in Nat /\ HeadOf(name) <= HeadOf(name)'
  PROVE  RunInv'
<1>1. UNCHANGED <<pins, known, vm, used>>
  BY DEF run
<1>2. \A name \in Names : pins'[name] \in 0..HeadOf(name)'
  BY <1>1 DEF RunInv
<1>3. (vm.pc = "record" => vm.version \in 1..HeadOf(vm.name) /\ pins[vm.name] = 0)'
  <2>1. vm.name \in Names /\ vm.version \in Nat
    BY DEF RunInv
  <2>2. (HeadOf(vm.name))' \in Nat /\ HeadOf(vm.name) \in Nat /\ HeadOf(vm.name) <= (HeadOf(vm.name))'
    BY <1>1, <2>1 DEF HeadOf
  <2> QED BY <1>1, <2>1, <2>2 DEF RunInv
<1> QED BY <1>1, <1>2, <1>3 DEF RunInv

\* A handler changes what it does without claiming more than it read.
LEMMA RpcStep ==
  ASSUME RpcInv, NEW h \in Handlers, NEW op \in Ops, NEW name \in Names, NEW saw \in Nat,
         NEW left \in Int, NEW outcome \in Statuses, Becomes(h, op, name, saw, left, outcome),
         saw <= HeadOf(name)', op = "tombstone" => saw # 0,
         \A n \in Names : HeadOf(n) \in Nat /\ HeadOf(n)' \in Nat /\ HeadOf(n) <= HeadOf(n)'
  PROVE  RpcInv'
<1> DEFINE r == [op |-> op, name |-> name, saw |-> saw, left |-> left, status |-> outcome]
<1>0. r \in Rpc /\ r.saw = saw /\ r.name = name /\ r.op = op
  BY DEF Rpc
<1>1. rpc' = [rpc EXCEPT ![h] = r]
  BY DEF Becomes
<1> HIDE DEF r
<1>2. rpc' \in [Handlers -> Rpc]
  BY <1>0, <1>1 DEF RpcInv
<1>3. ASSUME NEW g \in Handlers
      PROVE  (rpc[g].saw <= HeadOf(rpc[g].name) /\ (rpc[g].op = "tombstone" => rpc[g].saw # 0))'
  <2>1. CASE g = h
    <3>1. rpc'[g] = r
      BY <1>1, <2>1 DEF RpcInv
    <3>2. (HeadOf(rpc[g].name))' = HeadOf(name)'
      BY <3>1, <1>0 DEF HeadOf
    <3> QED BY <3>1, <3>2, <1>0
  <2>2. CASE g # h
    <3>1. rpc'[g] = rpc[g] /\ rpc[g].saw \in Nat /\ rpc[g].name \in Names
      BY <1>1, <2>2 DEF RpcInv, Rpc
    <3>2. PICK n \in Names : n = rpc[g].name
      BY <3>1
    <3>3. (HeadOf(rpc[g].name))' = HeadOf(n)' /\ HeadOf(rpc[g].name) = HeadOf(n)
      BY <3>1, <3>2 DEF HeadOf
    <3> QED BY <3>1, <3>2, <3>3 DEF RpcInv
  <2> QED BY <2>1, <2>2
<1> QED BY <1>2, <1>3 DEF RpcInv

\* So does one that answers.
LEMMA EndsStep ==
  ASSUME RpcInv, NEW h \in Handlers, NEW outcome \in Statuses, Ends(h, outcome),
         \A n \in Names : HeadOf(n) \in Nat /\ HeadOf(n)' \in Nat /\ HeadOf(n) <= HeadOf(n)'
  PROVE  RpcInv'
<1>1. PICK n \in Names : n = rpc[h].name
  BY DEF RpcInv, Rpc
<1>2. Becomes(h, "idle", n, 0, 0, outcome)
  BY <1>1 DEF Ends, Becomes
<1> QED BY <1>2, RpcStep DEF Ops

\* An rpc that only moves on: nothing else is touched.
LEMMA RpcOnly ==
  ASSUME Inv, UNCHANGED <<table, run>>, RpcInv'
  PROVE  Inv'
<1>1. RowsInv' /\ EnvelopeInv' /\ \A name : HeadOf(name)' = HeadOf(name)
  BY TableKept DEF Inv
<1>2. RunInv'
  BY <1>1, RunKept DEF Inv, RowsInv
<1> QED BY <1>1, <1>2 DEF Inv

--------------------------------------------------------------------------------
\* The rpcs' steps, up to the write.
LEMMA RpcSteps ==
  ASSUME Inv, NEW h \in Handlers, NEW name \in Names,
         SetSecret(h, name) \/ DeleteSecret(h, name) \/ SetReadsHead(h) \/ DeleteReadsHead(h)
           \/ RpcFails(h)
  PROVE  Inv'
<1>0. UNCHANGED <<table, run>>
  BY DEF SetSecret, DeleteSecret, SetReadsHead, DeleteReadsHead, RpcFails
<1>1. RpcInv /\ \A n \in Names : HeadOf(n) \in Nat /\ HeadOf(n)' = HeadOf(n)
  BY <1>0, TableKept DEF Inv, RowsInv
<1>h. \A n \in Names : HeadOf(n) \in Nat /\ HeadOf(n)' \in Nat /\ HeadOf(n) <= HeadOf(n)'
  BY <1>1
<1>z. 0 <= HeadOf(name)'
  BY <1>1
<1>2. PICK m \in Names : m = rpc[h].name
  BY DEF Inv, RpcInv, Rpc
<1>3. PICK k \in Nat : k = HeadOf(m)
  BY <1>1
<1>x. k <= HeadOf(m)'
  BY <1>1, <1>3
<1>4. PICK l \in Int : l = rpc[h].left
  BY DEF Inv, RpcInv, Rpc
<1>t. /\ "set" \in Ops /\ "insert" \in Ops /\ "delete" \in Ops /\ "tombstone" \in Ops
      /\ "ok" \in Statuses /\ "not found" \in Statuses /\ "error" \in Statuses
      /\ "set" # "tombstone" /\ "insert" # "tombstone" /\ "delete" # "tombstone"
      /\ 0 \in Nat /\ 0 \in Int /\ 3 \in Int
  BY DEF Ops, Statuses
<1>5. RpcInv'
  <2>1. CASE SetSecret(h, name)
    <3>1. Becomes(h, "set", name, 0, 3, "ok")
      BY <2>1 DEF SetSecret, Attempts
    <3> QED BY <3>1, <1>z, <1>1, <1>h, <1>t, RpcStep
  <2>2. CASE DeleteSecret(h, name)
    <3>1. Becomes(h, "delete", name, 0, 0, "ok")
      BY <2>2 DEF DeleteSecret
    <3> QED BY <3>1, <1>z, <1>1, <1>h, <1>t, RpcStep
  <2>3. CASE SetReadsHead(h)
    <3>1. Becomes(h, "insert", m, k, l, "ok")
      BY <2>3, <1>2, <1>3, <1>4 DEF SetReadsHead
    <3> QED BY <3>1, <1>1, <1>h, <1>x, <1>t, RpcStep
  <2>4. CASE DeleteReadsHead(h) /\ Live(rpc[h].name)
    <3>1. Becomes(h, "tombstone", m, k, 0, "ok") /\ k # 0
      BY <2>4, <1>2, <1>3 DEF DeleteReadsHead, Live
    <3> QED BY <3>1, <1>1, <1>h, <1>x, <1>t, RpcStep
  <2>5. CASE DeleteReadsHead(h) /\ ~Live(rpc[h].name)
    <3>1. Ends(h, "not found")
      BY <2>5 DEF DeleteReadsHead
    <3> QED BY <3>1, <1>1, <1>h, <1>t, EndsStep
  <2>6. CASE RpcFails(h)
    <3>1. Ends(h, "error")
      BY <2>6 DEF RpcFails
    <3> QED BY <3>1, <1>1, <1>h, <1>t, EndsStep
  <2> QED BY <2>1, <2>2, <2>3, <2>4, <2>5, <2>6
<1> QED BY <1>0, <1>5, RpcOnly

\* An insert either meets the primary key and reads again, or adds the version
\* past the head it read, which is then the head still.
LEMMA InsertStep ==
  ASSUME Inv, NEW h \in Handlers, Insert(h)
  PROVE  Inv' /\ \A name \in Names : Live(name) => Live(name)'
<1>1. PICK n \in Names : n = rpc[h].name
  BY DEF Inv, RpcInv, Rpc
<1>2. PICK saw \in Nat : saw = rpc[h].saw
  BY DEF Inv, RpcInv, Rpc
<1>3. PICK left \in Int : left = rpc[h].left
  BY DEF Inv, RpcInv, Rpc
<1>4. PICK k \in Nat : k = HeadOf(n)
  BY DEF Inv, RowsInv
<1>5. saw <= k /\ DOMAIN rows[n] = 1..k
  BY <1>1, <1>2, <1>4 DEF Inv, RowsInv, RpcInv
<1>6. RpcInv /\ RunInv /\ RowsInv /\ EnvelopeInv
  BY DEF Inv
<1>7. UNCHANGED run /\ UNCHANGED envelope
  BY DEF Insert
<1>t. /\ "set" \in Ops /\ "ok" \in Statuses /\ "aborted" \in Statuses
      /\ "set" # "tombstone" /\ 0 \in Nat
  BY DEF Ops, Statuses
<1>8. CASE saw + 1 \in DOMAIN rows[n]
  <2>1. UNCHANGED rows /\ Conflict(h)
    BY <1>8, <1>1, <1>2 DEF Insert
  <2>2. \A m \in Names : HeadOf(m) \in Nat /\ HeadOf(m)' \in Nat /\ HeadOf(m) <= HeadOf(m)'
    BY <2>1, HeadsStay, <1>6 DEF RowsInv
  <2>3. saw <= HeadOf(n)'
    BY <2>1, HeadsStay, <1>4, <1>5
  <2>4. RpcInv'
    <3>1. CASE rpc[h].left = 1
      <4>1. Ends(h, "aborted")
        BY <3>1, <2>1 DEF Conflict
      <4> QED BY <4>1, <2>2, <1>6, <1>t, EndsStep
    <3>2. CASE rpc[h].left # 1
      <4>1. left - 1 \in Int /\ Becomes(h, "set", n, saw, left - 1, "ok")
        BY <3>2, <2>1, <1>1, <1>2, <1>3 DEF Conflict
      <4> QED BY <4>1, <2>2, <2>3, <1>6, <1>t, RpcStep
    <3> QED BY <3>1, <3>2
  <2>5. Inv'
    BY <2>1, <2>4, <1>7, RpcOnly DEF table
  <2> QED BY <2>1, <2>5 DEF Live, HeadOf
<1>9. CASE saw + 1 \notin DOMAIN rows[n]
  <2>1. saw = k
    BY <1>9, <1>5
  <2>2. /\ rows' = [rows EXCEPT ![n] = [v \in DOMAIN rows[n] \cup {saw + 1} |->
                                          IF v = saw + 1 THEN Seal ELSE rows[n][v]]]
        /\ Ends(h, "ok")
    BY <1>9, <1>1, <1>2 DEF Insert
  <2>3. /\ DOMAIN rows' = Names
        /\ rows'[n] = [v \in DOMAIN rows[n] \cup {saw + 1} |-> IF v = saw + 1 THEN Seal ELSE rows[n][v]]
        /\ \A m \in Names \ {n} : rows'[m] = rows[m]
    BY <2>2, <1>6 DEF RowsInv
  <2>4. DOMAIN rows'[n] = 1..(k + 1)
    BY <2>1, <2>3, <1>5
  <2>5. HeadOf(n)' = k + 1
    BY <2>4, HeadNext
  <2>6. ASSUME NEW m \in Names \ {n} PROVE HeadOf(m)' = HeadOf(m)
    BY <2>3 DEF HeadOf
  <2>7. \A m \in Names : HeadOf(m) \in Nat /\ HeadOf(m)' \in Nat /\ HeadOf(m) <= HeadOf(m)'
    BY <2>5, <2>6, <1>4, <1>6 DEF RowsInv
  <2>8. Seal \in Row /\ Seal.kek <= envelope.active /\ ~Seal.deleted
    BY <1>6 DEF EnvelopeInv, Seal, Row
  <2>9. RowsInv'
    <3>1. ASSUME NEW m \in Names
          PROVE  /\ HeadOf(m)' \in Nat /\ DOMAIN rows'[m] = 1..HeadOf(m)'
                 /\ \A v \in 1..HeadOf(m)' : rows'[m][v] \in Row /\ rows'[m][v].kek <= envelope'.active
      <4>1. CASE m = n
        <5>1. ASSUME NEW v \in 1..(k + 1)
              PROVE  rows'[n][v] \in Row /\ rows'[n][v].kek <= envelope.active
          <6>1. CASE v = k + 1
            BY <6>1, <2>1, <2>3, <2>8
          <6>2. CASE v # k + 1
            <7>1. v \in 1..k /\ rows'[n][v] = rows[n][v]
              BY <6>2, <2>1, <2>3, <1>5
            <7> QED BY <7>1, <1>4, <1>6 DEF RowsInv
          <6> QED BY <6>1, <6>2
        <5> QED BY <5>1, <4>1, <2>4, <2>5, <1>7
      <4>2. CASE m # n
        BY <4>2, <2>3, <2>6, <1>6, <1>7 DEF RowsInv
      <4> QED BY <4>1, <4>2
    <3> QED BY <3>1, <2>3 DEF RowsInv
  <2>10. RpcInv'
    BY <2>2, <2>7, <1>6, <1>t, EndsStep
  <2>11. RunInv'
    BY <2>7, <1>6, <1>7, RunKept
  <2>12. EnvelopeInv'
    BY <1>6, <1>7 DEF EnvelopeInv
  <2>13. ASSUME NEW m \in Names, Live(m) PROVE Live(m)'
    <3>1. CASE m = n
      <4>1. rows'[n][k + 1] = Seal
        BY <2>1, <2>3
      <4> QED BY <3>1, <4>1, <2>5, <2>8 DEF Live
    <3>2. CASE m # n
      BY <3>2, <2>3, <2>6, <2>13 DEF Live
    <3> QED BY <3>1, <3>2
  <2> QED BY <2>9, <2>10, <2>11, <2>12, <2>13 DEF Inv
<1> QED BY <1>8, <1>9

\* A delete marks the row its handler read and no other: a name it hides had that
\* row for its head.
LEMMA TombstoneStep ==
  ASSUME Inv, NEW h \in Handlers, Tombstone(h)
  PROVE  /\ Inv'
         /\ \A name \in Names : Live(name) /\ ~Live(name)' =>
              /\ rpc[h].op = "tombstone" /\ rpc[h].name = name /\ rpc[h].saw = HeadOf(name)
              /\ rpc[h].saw \in DOMAIN rows[name]
<1>1. PICK n \in Names : n = rpc[h].name
  BY DEF Inv, RpcInv, Rpc
<1>2. PICK saw \in Nat : saw = rpc[h].saw
  BY DEF Inv, RpcInv, Rpc
<1>3. rpc[h].op = "tombstone" /\ UNCHANGED run /\ UNCHANGED envelope
  BY DEF Tombstone
<1>4. RpcInv /\ RunInv /\ RowsInv /\ EnvelopeInv
  BY DEF Inv
<1>5. saw \in 1..HeadOf(n) /\ HeadOf(n) \in Nat /\ DOMAIN rows[n] = 1..HeadOf(n)
  BY <1>1, <1>2, <1>3, <1>4 DEF RowsInv, RpcInv
<1>t. "ok" \in Statuses /\ "not found" \in Statuses
  BY DEF Statuses
<1>6. CASE rows[n][saw].deleted
  <2>1. UNCHANGED rows /\ Ends(h, "not found")
    BY <1>6, <1>1, <1>2 DEF Tombstone
  <2>2. \A m \in Names : HeadOf(m) \in Nat /\ HeadOf(m)' \in Nat /\ HeadOf(m) <= HeadOf(m)'
    <3>1. \A m \in Names : HeadOf(m) \in Nat
      BY <1>4 DEF RowsInv
    <3>2. \A m : HeadOf(m)' = HeadOf(m)
      BY <2>1, HeadsStay
    <3> QED BY <3>1, <3>2
  <2>3. RpcInv'
    BY <2>1, <2>2, <1>4, <1>t, EndsStep
  <2>4. Inv'
    BY <2>1, <2>3, <1>3, RpcOnly DEF table
  <2> QED BY <2>1, <2>4 DEF Live, HeadOf
<1>7. CASE ~rows[n][saw].deleted
  <2>1. rows' = [rows EXCEPT ![n][saw].deleted = TRUE] /\ Ends(h, "ok")
    BY <1>7, <1>1, <1>2 DEF Tombstone
  <2>2. /\ DOMAIN rows' = Names /\ \A m \in Names \ {n} : rows'[m] = rows[m]
        /\ rows'[n] = [rows[n] EXCEPT ![saw] = [rows[n][saw] EXCEPT !.deleted = TRUE]]
    BY <2>1, <1>4 DEF RowsInv
  <2>3. DOMAIN rows'[n] = DOMAIN rows[n] /\ \A v \in 1..HeadOf(n) : v # saw => rows'[n][v] = rows[n][v]
    BY <2>2, <1>5
  <2>4. ASSUME NEW m \in Names PROVE HeadOf(m)' = HeadOf(m)
    <3>1. DOMAIN rows'[m] = DOMAIN rows[m]
      BY <2>2, <2>3
    <3> QED BY <3>1 DEF HeadOf
  <2>5. \A m \in Names : HeadOf(m) \in Nat /\ HeadOf(m)' \in Nat /\ HeadOf(m) <= HeadOf(m)'
    BY <2>4, <1>4 DEF RowsInv
  <2>6. rows'[n][saw] \in Row /\ rows'[n][saw].kek <= envelope.active
    <3>1. rows[n][saw] \in Row /\ rows[n][saw].kek <= envelope.active
      BY <1>4, <1>5 DEF RowsInv
    <3>2. rows'[n][saw] = [rows[n][saw] EXCEPT !.deleted = TRUE]
      BY <2>2, <1>5
    <3> QED BY <3>1, <3>2 DEF Row
  <2>7. RowsInv'
    <3>1. ASSUME NEW m \in Names
          PROVE  /\ HeadOf(m)' \in Nat /\ DOMAIN rows'[m] = 1..HeadOf(m)'
                 /\ \A v \in 1..HeadOf(m)' : rows'[m][v] \in Row /\ rows'[m][v].kek <= envelope'.active
      <4>1. CASE m = n
        <5>1. ASSUME NEW v \in 1..HeadOf(n)
              PROVE  rows'[n][v] \in Row /\ rows'[n][v].kek <= envelope.active
          <6>1. CASE v = saw
            BY <6>1, <2>6
          <6>2. CASE v # saw
            BY <6>2, <2>3, <1>4 DEF RowsInv
          <6> QED BY <6>1, <6>2
        <5> QED BY <5>1, <4>1, <2>3, <2>4, <1>3, <1>5
      <4>2. CASE m # n
        BY <4>2, <2>2, <2>4, <1>3, <1>4 DEF RowsInv
      <4> QED BY <4>1, <4>2
    <3> QED BY <3>1, <2>2 DEF RowsInv
  <2>8. RpcInv'
    BY <2>1, <2>5, <1>4, <1>t, EndsStep
  <2>9. RunInv'
    BY <2>5, <1>3, <1>4, RunKept
  <2>10. EnvelopeInv'
    BY <1>3, <1>4 DEF EnvelopeInv
  <2>11. ASSUME NEW m \in Names, Live(m), ~Live(m)' PROVE m = n /\ saw = HeadOf(n)
    <3>1. m = n
      BY <2>2, <2>4, <2>11 DEF Live
    <3>2. saw = HeadOf(n)
      BY <3>1, <2>3, <2>4, <2>11, <1>5 DEF Live
    <3> QED BY <3>1, <3>2
  <2>12. Inv'
    BY <2>7, <2>8, <2>9, <2>10 DEF Inv
  <2> QED BY <2>11, <2>12, <1>1, <1>2, <1>3, <1>5
<1> QED BY <1>6, <1>7

\* A new master key: the last one stays held, and every row is under a key before it.
LEMMA RotateStep ==
  ASSUME Inv, RotateMaster
  PROVE  Inv'
<1>1. UNCHANGED rows /\ UNCHANGED run /\ \A m : HeadOf(m)' = HeadOf(m)
  BY HeadsStay DEF RotateMaster
<1>2. EnvelopeInv' /\ envelope.active \in Nat /\ envelope'.active \in {envelope.active, envelope.active + 1}
  BY DEF RotateMaster, Inv, EnvelopeInv
<1>3. \A m \in Names : HeadOf(m) \in Nat /\ HeadOf(m)' \in Nat /\ HeadOf(m) <= HeadOf(m)'
  BY <1>1 DEF Inv, RowsInv
<1>4. RowsInv'
  <2>1. ASSUME NEW m \in Names, NEW v \in 1..HeadOf(m)
        PROVE  rows[m][v] \in Row /\ rows[m][v].kek <= envelope'.active
    <3>1. rows[m][v] \in Row /\ rows[m][v].kek \in Nat /\ rows[m][v].kek <= envelope.active
      BY DEF Inv, RowsInv, Row
    <3> QED BY <3>1, <1>2
  <2> QED BY <2>1, <1>1 DEF Inv, RowsInv
<1>5. RpcInv'
  <2>1. PICK idle \in Rpc : idle = Idle /\ idle.saw = 0 /\ idle.op = "idle"
    BY IdleTyped
  <2>2. rpc' = [g \in Handlers |-> idle]
    BY <2>1 DEF RotateMaster
  <2>3. PICK n \in Names : n = idle.name
    BY <2>1 DEF Rpc
  <2>4. ASSUME NEW g \in Handlers
        PROVE  (rpc[g].saw <= HeadOf(rpc[g].name) /\ (rpc[g].op = "tombstone" => rpc[g].saw # 0))'
    <3>1. rpc'[g] = idle
      BY <2>2
    <3>2. (HeadOf(rpc[g].name))' = HeadOf(n)'
      BY <3>1, <2>3 DEF HeadOf
    <3> QED BY <3>1, <3>2, <2>1, <1>3
  <2> QED BY <2>2, <2>4 DEF RpcInv
<1>6. RunInv'
  BY <1>1, <1>3, RunKept DEF Inv
<1> QED BY <1>2, <1>4, <1>5, <1>6 DEF Inv

--------------------------------------------------------------------------------
\* What a resolution that answers ok returns: the pin, or else the head.
LEMMA Resolved ==
  ASSUME NEW name \in Names, NEW version, RowsInv, Resolve(name, version).status = "ok"
  PROVE  /\ Resolve(name, version).version \in 1..HeadOf(name)
         /\ version # 0 => Resolve(name, version).version = version
<1> DEFINE v == IF version # 0 THEN version ELSE IF Live(name) THEN HeadOf(name) ELSE 0
<1>1. Resolve(name, version) = Answer(name, v)
  BY DEF Resolve
<1> HIDE DEF v
<1>2. Answer(name, v).version = v /\ (Answer(name, v).status = "ok" => v \in DOMAIN rows[name])
  BY DEF Answer
<1>3. v \in 1..HeadOf(name)
  BY <1>1, <1>2 DEF RowsInv
<1>4. version # 0 => v = version
  BY DEF v
<1> QED BY <1>1, <1>2, <1>3, <1>4

\* The run's steps.
LEMMA RunSteps ==
  ASSUME Inv, NEW name \in Names, LoadPins \/ Declare(name) \/ RecordPin \/ VmGone
  PROVE  Inv' /\ UNCHANGED rows
<1>1. UNCHANGED table /\ UNCHANGED rpc
  BY DEF LoadPins, Declare, RecordPin, VmGone
<1>2. RowsInv' /\ EnvelopeInv' /\ \A m : HeadOf(m)' = HeadOf(m)
  BY <1>1, TableKept DEF Inv
<1>3. RpcInv'
  BY <1>1, <1>2 DEF Inv, RpcInv, HeadOf, table
<1>4. UNCHANGED rows
  BY <1>1 DEF table
<1>5. RunInv'
  <2>1. CASE LoadPins
    BY <2>1, <1>2, <1>4 DEF LoadPins, Inv, RunInv
  <2>2. CASE Declare(name)
    BY <2>2, <1>2, <1>4, Resolved DEF Declare, Inv, RunInv
  <2>3. CASE RecordPin
    BY <2>3, <1>2, <1>4 DEF RecordPin, Inv, RunInv
  <2>4. CASE VmGone
    BY <2>4, <1>2, <1>4 DEF VmGone, Inv, RunInv
  <2> QED BY <2>1, <2>2, <2>3, <2>4
<1> QED BY <1>2, <1>3, <1>4, <1>5 DEF Inv

\* What a step that hides a name must be: the delete of its head.
HidesHeads ==
  \A name \in Names : Live(name) /\ ~Live(name)' =>
    \E h \in Handlers : /\ rpc[h].op = "tombstone" /\ rpc[h].name = name
                        /\ rpc[h].saw = HeadOf(name) /\ rpc[h].saw \in DOMAIN rows[name]

\* Every step of the service and of the run keeps the invariant, and hides a name
\* only so.
LEMMA Steps ==
  ASSUME Inv, [Next]_vars
  PROVE  Inv' /\ HidesHeads
<1>0. ASSUME UNCHANGED rows PROVE HidesHeads
  BY <1>0 DEF HidesHeads, Live, HeadOf
<1>1. ASSUME NEW h \in Handlers, NEW name \in Names,
             SetSecret(h, name) \/ DeleteSecret(h, name) \/ SetReadsHead(h)
               \/ DeleteReadsHead(h) \/ RpcFails(h)
      PROVE  Inv' /\ HidesHeads
  <2>1. UNCHANGED rows
    BY <1>1 DEF SetSecret, DeleteSecret, SetReadsHead, DeleteReadsHead, RpcFails, table
  <2>2. Inv'
    BY <1>1, RpcSteps
  <2> QED BY <2>1, <2>2, <1>0
<1>2. ASSUME NEW h \in Handlers, Insert(h) PROVE Inv' /\ HidesHeads
  BY <1>2, InsertStep DEF HidesHeads
<1>3. ASSUME NEW h \in Handlers, Tombstone(h) PROVE Inv' /\ HidesHeads
  BY <1>3, TombstoneStep DEF HidesHeads
<1>4. CASE RotateMaster
  <2>1. UNCHANGED rows
    BY <1>4 DEF RotateMaster
  <2>2. Inv'
    BY <1>4, RotateStep
  <2> QED BY <2>1, <2>2, <1>0
<1>5. ASSUME NEW name \in Names, LoadPins \/ Declare(name) \/ RecordPin \/ VmGone
      PROVE  Inv' /\ HidesHeads
  <2>1. Inv' /\ UNCHANGED rows
    BY <1>5, RunSteps
  <2> QED BY <2>1, <1>0
<1>6. CASE UNCHANGED vars
  <2>1. UNCHANGED <<rows, envelope, rpc, pins, known, vm, builds, used>>
    BY <1>6 DEF vars
  <2>2. RpcInv'
    BY <2>1 DEF Inv, RpcInv, HeadOf
  <2>3. Inv'
    BY <2>1, <2>2, RpcOnly DEF table, run
  <2> QED BY <2>1, <2>3, <1>0
<1>7. \E name : name \in Names
  BY SecretsAssumption
<1>8. CASE Next
  <2>1. CASE \E h \in Handlers, name \in Names : SetSecret(h, name) \/ DeleteSecret(h, name)
    BY <2>1, <1>1
  <2>2. CASE \E h \in Handlers : SetReadsHead(h) \/ DeleteReadsHead(h) \/ RpcFails(h)
    BY <2>2, <1>1, <1>7
  <2>3. CASE LoadPins \/ (\E name \in Names : Declare(name)) \/ RecordPin \/ VmGone
    BY <2>3, <1>5, <1>7
  <2> QED BY <1>8, <2>1, <2>2, <2>3, <1>2, <1>3, <1>4 DEF Next
<1> QED BY <1>6, <1>8

\* Rows are numbered without a gap, a handler's read was a head, and a run's pins
\* are rows, in memory as in its table.
THEOREM SecretsInv == Spec => []Inv
<1>1. Init => Inv
  BY InitInv
<1>2. Inv /\ [Next]_vars => Inv'
  BY Steps
<1> QED BY <1>1, <1>2, PTL DEF Spec

\* A workflow run sees one version of each secret from its first vm to its last,
\* and resolves it whatever was rotated or deleted, while its master key is held.
THEOREM PinsHold == Spec => []RunKeepsSecrets
<1>1. Inv => RunKeepsSecrets
  <2> SUFFICES ASSUME Inv PROVE RunKeepsSecrets
    OBVIOUS
  <2>1. \A a, b \in used : a[1] = b[1] => a[2] = b[2]
    BY DEF Inv, RunInv
  <2>2. ASSUME NEW u \in used, rows[u[1]][u[2]].kek \in Held
        PROVE  Resolve(u[1], pins[u[1]]) = [version |-> u[2], status |-> "ok"]
    <3>1. u[1] \in Names /\ u[2] # 0 /\ pins[u[1]] = u[2] /\ u[2] \in 0..HeadOf(u[1])
      BY DEF Inv, RunInv
    <3>2. HeadOf(u[1]) \in Nat /\ DOMAIN rows[u[1]] = 1..HeadOf(u[1])
      BY <3>1 DEF Inv, RowsInv
    <3>3. u[2] \in 1..HeadOf(u[1])
      BY <3>1, <3>2
    <3>5. Opens(rows[u[1]][u[2]])
      BY <2>2 DEF Opens
    <3>6. Resolve(u[1], u[2]) = Answer(u[1], u[2])
      BY <3>1 DEF Resolve
    <3>7. Answer(u[1], u[2]) = [version |-> u[2], status |-> "ok"]
      BY <3>2, <3>3, <3>5 DEF Answer
    <3> QED BY <3>1, <3>6, <3>7
  <2> QED BY <2>1, <2>2 DEF RunKeepsSecrets
<1> QED BY <1>1, SecretsInv, PTL

\* A name stops resolving only by the delete of what was its head at that moment: a
\* rotation that overtakes a delete is never hidden by it.
THEOREM RotationsWin == Spec => RotationOutlivesDelete
<1> DEFINE A == \A name \in Names : name \in ListSecrets /\ name \notin ListSecrets' =>
                  \E h \in Handlers : /\ rpc[h].op = "tombstone" /\ rpc[h].name = name
                                      /\ rpc[h].saw = HeadOf(name)
                                      /\ [version |-> rpc[h].saw, deleted |-> FALSE]
                                           \in ListSecretVersions(name)
<1>1. Inv /\ [Next]_vars => A
  <2> SUFFICES ASSUME Inv, [Next]_vars, NEW name \in Names,
                      name \in ListSecrets, name \notin ListSecrets'
               PROVE  \E h \in Handlers :
                        /\ rpc[h].op = "tombstone" /\ rpc[h].name = name
                        /\ rpc[h].saw = HeadOf(name)
                        /\ [version |-> rpc[h].saw, deleted |-> FALSE] \in ListSecretVersions(name)
    OBVIOUS
  <2>1. Live(name) /\ ~Live(name)'
    BY DEF ListSecrets
  <2>2. PICK h \in Handlers : /\ rpc[h].op = "tombstone" /\ rpc[h].name = name
                              /\ rpc[h].saw = HeadOf(name) /\ rpc[h].saw \in DOMAIN rows[name]
    BY <2>1, Steps DEF HidesHeads
  <2>3. rows[name][rpc[h].saw].deleted = FALSE
    <3>1. rows[name][rpc[h].saw] \in Row
      BY <2>2 DEF Inv, RowsInv
    <3>2. rows[name][rpc[h].saw].deleted \in BOOLEAN
      BY <3>1 DEF Row
    <3> QED BY <3>2, <2>1, <2>2 DEF Live
  <2>4. [version |-> rpc[h].saw, deleted |-> FALSE] \in ListSecretVersions(name)
    BY <2>2, <2>3 DEF ListSecretVersions
  <2> QED BY <2>2, <2>4
<1>2. Spec => [][A]_vars
  BY <1>1, SecretsInv, PTL DEF Spec
<1> QED BY <1>2 DEF RotationOutlivesDelete

--------------------------------------------------------------------------------
(* Which verb each row of a journal belongs to.                                *)

\* Tags in a body, and of signals from outside and from children.
Tags == STRING \cup Signals \cup {"c0", "c1"}

JournalRow == [kind : Kinds, of : SUBSET Tags, val : Nat]

\* own[i] is the position of the verb that row i belongs to: the verb that wrote
\* it, the gate that a signal answers, one past the body for COMPLETED.
Fits(body, e, p) ==
  \/ p = Len(body) + 1 /\ e.kind = "COMPLETED"
  \/ /\ p \in 1..Len(body)
     /\ \/ body[p].verb = "time" /\ e.kind = "AMBIENT"
        \/ body[p].verb = "step" /\ e.kind \in {"INTENT", "FAILED", "RESULT"} /\ e.of = body[p].of
        \/ body[p].verb = "sleep" /\ e.kind = "TIMER" /\ e.of = {}
        \/ body[p].verb = "await" /\ e.kind = "TIMER" /\ e.of = body[p].of /\ e.val = body[p].wait
        \/ body[p].verb = "await" /\ e.kind = "SIGNAL" /\ e.of \subseteq body[p].of
        \/ body[p].verb = "spawn" /\ e.kind = "CHILD" /\ e.of = body[p].of

\* A row that lets a replay go past its verb.
Closes(log, late, i) == log[i].kind \in {"AMBIENT", "CHILD", "RESULT", "SIGNAL"} \/ i \in late

\* The rows before the i-th let a replay go past position p.
Passed(body, log, late, own, p, i) ==
  \/ body[p].verb = "random"
  \/ \E j \in 2..(i - 1) : own[j] = p /\ Closes(log, late, j)

\* A row other than a signal comes after every row of its own verb and of those
\* before.  The rows of a verb are one, a gate and its signal, or the attempts of a
\* step and their result.
Ordered(log, own) ==
  \A i, j \in 2..Len(log) : i < j =>
    /\ log[j].kind # "SIGNAL" => own[i] <= own[j]
    /\ own[i] = own[j] => \/ log[i].kind \in {"INTENT", "FAILED"} /\ log[j].kind # "SIGNAL"
                          \/ log[i].kind = "TIMER" /\ log[j].kind = "SIGNAL"

\* A row comes when the verbs before its own have been passed; a signal may come
\* during the sleep right before its gate.
InTurn(body, log, late, own) ==
  \A j \in 2..Len(log), p \in 1..Len(body) : p < own[j] =>
    \/ Passed(body, log, late, own, p, j)
    \/ /\ log[j].kind = "SIGNAL" /\ p + 1 = own[j] /\ body[p].verb = "sleep"
       /\ \E i \in 2..(j - 1) : own[i] = p

\* A signal answers the first gate that wants it and has no answer.
FirstServed(body, log, own) ==
  \A j \in 2..Len(log), p \in 1..Len(body) :
    (/\ p < own[j] /\ log[j].kind = "SIGNAL"
     /\ body[p].verb = "await" /\ log[j].of \subseteq body[p].of) =>
      \E i \in 2..(j - 1) : own[i] = p /\ log[i].kind = "SIGNAL"

\* A failure is that of an attempt.
Tried(log, own) ==
  \A j \in 2..Len(log) : log[j].kind = "FAILED" =>
    \E i \in 2..(j - 1) : own[i] = own[j] /\ log[i].kind = "INTENT"

Rows(body, log, own) ==
  /\ own \in [1..Len(log) -> Nat]
  /\ log # <<>> => log[1].kind = "STARTED"
  /\ \A i \in 2..Len(log) : own[i] \in 1..(Len(body) + 1) /\ Fits(body, log[i], own[i])

Placed(body, log, late, own) ==
  /\ Rows(body, log, own) /\ Ordered(log, own) /\ Tried(log, own)
  /\ InTurn(body, log, late, own) /\ FirstServed(body, log, own)

\* Rows 1..m are the same in two journals.
Same(log, own, log2, own2, m) == \A i \in 1..m : log2[i] = log[i] /\ own2[i] = own[i]

--------------------------------------------------------------------------------
(* Journals that grow and shrink.                                              *)

\* What a position is past, it stays past.
LEMMA PassedStill ==
  ASSUME NEW body, NEW log, NEW late, NEW own, NEW log2, NEW late2, NEW own2, NEW p,
         NEW i \in Nat, NEW k \in Nat, i <= k, late \subseteq late2,
         Same(log, own, log2, own2, i - 1), Passed(body, log, late, own, p, i)
  PROVE  Passed(body, log2, late2, own2, p, k)
  BY DEF Passed, Same, Closes

\* The journal grows by row e, which belongs to position p.
Grown(log, own, log2, own2, n, e, p) ==
  /\ n \in Nat /\ n > 0 /\ n = Len(log) /\ Len(log2) = n + 1 /\ log2 # <<>>
  /\ own2 \in [1..(n + 1) -> Nat] /\ Same(log, own, log2, own2, n)
  /\ log2[n + 1] = e /\ own2[n + 1] = p

LEMMA OldRow ==
  ASSUME NEW log, NEW own, NEW log2, NEW own2, NEW n, NEW e, NEW p,
         Grown(log, own, log2, own2, n, e, p), NEW j \in 2..(n + 1), j # n + 1
  PROVE  j \in 2..n /\ log2[j] = log[j] /\ own2[j] = own[j] /\ Same(log, own, log2, own2, j - 1)
  BY DEF Grown, Same

\* A row, other than a signal, of a verb that everything before has led to.
RowFits(body, log, late, own, e, p) ==
  /\ p \in 1..(Len(body) + 1) /\ e.kind # "SIGNAL" /\ Fits(body, e, p)
  /\ \A i \in 2..Len(log) : own[i] <= p /\ (own[i] = p => log[i].kind \in {"INTENT", "FAILED"})
  /\ \A q \in 1..(p - 1) : Passed(body, log, late, own, q, Len(log) + 1)
  /\ e.kind = "FAILED" => \E i \in 2..Len(log) : own[i] = p /\ log[i].kind = "INTENT"

\* A signal, for a gate that has no answer and that no gate before wants it from.
SignalFits(body, log, late, own, e, p) ==
  /\ p \in 1..Len(body) /\ e.kind = "SIGNAL" /\ body[p].verb = "await" /\ e.of \subseteq body[p].of
  /\ \A i \in 2..Len(log) : own[i] = p => log[i].kind = "TIMER"
  /\ \A q \in 1..(p - 1) :
       \/ Passed(body, log, late, own, q, Len(log) + 1)
       \/ q + 1 = p /\ body[q].verb = "sleep" /\ \E i \in 2..Len(log) : own[i] = q
  /\ \A q \in 1..(p - 1) :
       body[q].verb = "await" /\ e.of \subseteq body[q].of =>
         \E i \in 2..Len(log) : own[i] = q /\ log[i].kind = "SIGNAL"

LEMMA RowAdded ==
  ASSUME NEW body, NEW log, NEW late, NEW own, NEW log2, NEW own2, NEW n, NEW e, NEW p,
         Len(body) \in Nat, Placed(body, log, late, own), Grown(log, own, log2, own2, n, e, p),
         RowFits(body, log, late, own, e, p) \/ SignalFits(body, log, late, own, e, p)
  PROVE  Placed(body, log2, late, own2)
<1>0. n \in Nat /\ n > 0 /\ n = Len(log) /\ Len(log2) = n + 1 /\ log2 # <<>>
  BY DEF Grown
<1>1. log2[n + 1] = e /\ own2[n + 1] = p /\ own2 \in [1..(n + 1) -> Nat]
  BY DEF Grown
<1>2. p \in 1..(Len(body) + 1) /\ Fits(body, e, p)
  BY DEF RowFits, SignalFits, Fits
<1>3. ASSUME NEW j \in 2..(n + 1), j # n + 1
      PROVE  /\ j \in 2..Len(log) /\ log2[j] = log[j] /\ own2[j] = own[j]
             /\ Same(log, own, log2, own2, j - 1)
  BY <1>0, <1>3, OldRow
<1>4. Rows(body, log2, own2)
  <2>1. log2[1].kind = "STARTED"
    <3>1. log # <<>> /\ log2[1] = log[1]
      BY <1>0 DEF Grown, Same
    <3> QED
      BY <3>1 DEF Placed, Rows
  <2>2. ASSUME NEW i \in 2..(n + 1)
        PROVE  own2[i] \in 1..(Len(body) + 1) /\ Fits(body, log2[i], own2[i])
    <3>1. CASE i = n + 1
      BY <1>1, <1>2, <3>1
    <3>2. CASE i # n + 1
      BY <1>3, <3>2 DEF Placed, Rows
    <3> QED
      BY <3>1, <3>2
  <2> QED
    BY <1>0, <1>1, <2>1, <2>2 DEF Rows
<1>5. Ordered(log2, own2)
  <2>1. ASSUME NEW i \in 2..(n + 1), NEW j \in 2..(n + 1), i < j
        PROVE  /\ log2[j].kind # "SIGNAL" => own2[i] <= own2[j]
               /\ own2[i] = own2[j] =>
                    \/ log2[i].kind \in {"INTENT", "FAILED"} /\ log2[j].kind # "SIGNAL"
                    \/ log2[i].kind = "TIMER" /\ log2[j].kind = "SIGNAL"
    <3>1. i \in 2..Len(log) /\ log2[i] = log[i] /\ own2[i] = own[i]
      <4>1. i # n + 1
        BY <1>0, <2>1
      <4> QED
        BY <1>3, <4>1
    <3>2. CASE j = n + 1
      BY <1>1, <3>1, <3>2 DEF RowFits, SignalFits
    <3>3. CASE j # n + 1
      <4>1. j \in 2..Len(log) /\ log2[j] = log[j] /\ own2[j] = own[j]
        BY <1>3, <3>3
      <4> QED
        BY <2>1, <3>1, <4>1 DEF Placed, Ordered
    <3> QED
      BY <3>2, <3>3
  <2> QED
    BY <1>0, <2>1 DEF Ordered
<1>6. InTurn(body, log2, late, own2)
  <2>1. ASSUME NEW j \in 2..(n + 1), NEW q \in 1..Len(body), q < own2[j]
        PROVE  \/ Passed(body, log2, late, own2, q, j)
               \/ /\ log2[j].kind = "SIGNAL" /\ q + 1 = own2[j] /\ body[q].verb = "sleep"
                  /\ \E i \in 2..(j - 1) : own2[i] = q
    <3>1. CASE j = n + 1
      <4>1. q \in 1..(p - 1) /\ n + 1 \in Nat /\ (n + 1) - 1 = n
        BY <1>0, <1>1, <1>2, <2>1, <3>1
      <4>2. CASE Passed(body, log, late, own, q, n + 1)
        <5>1. Same(log, own, log2, own2, (n + 1) - 1) /\ n + 1 <= n + 1 /\ late \subseteq late
          BY <1>0, <4>1 DEF Grown
        <5>2. Passed(body, log2, late, own2, q, n + 1)
          BY <4>1, <4>2, <5>1, PassedStill
        <5> QED
          BY <3>1, <5>2
      <4>3. CASE ~Passed(body, log, late, own, q, n + 1)
        <5>1. q + 1 = p /\ body[q].verb = "sleep" /\ e.kind = "SIGNAL"
          BY <1>0, <4>1, <4>3 DEF RowFits, SignalFits
        <5>2. PICK i \in 2..n : own[i] = q
          BY <1>0, <4>1, <4>3 DEF RowFits, SignalFits
        <5>3. own2[i] = own[i] /\ i \in 2..((n + 1) - 1)
          BY <1>0, <4>1 DEF Grown, Same
        <5> QED
          BY <1>1, <3>1, <5>1, <5>2, <5>3
      <4> QED
        BY <4>2, <4>3
    <3>2. CASE j # n + 1
      <4>0. j \in 2..Len(log) /\ log2[j] = log[j] /\ own2[j] = own[j]
            /\ Same(log, own, log2, own2, j - 1)
        BY <1>3, <3>2
      <4>1. CASE Passed(body, log, late, own, q, j)
        <5>1. j \in Nat /\ j <= j /\ late \subseteq late
          OBVIOUS
        <5> QED
          BY <4>0, <4>1, <5>1, PassedStill
      <4>2. CASE /\ log[j].kind = "SIGNAL" /\ q + 1 = own[j] /\ body[q].verb = "sleep"
                 /\ \E i \in 2..(j - 1) : own[i] = q
        BY <4>0, <4>2 DEF Same
      <4> QED
        BY <2>1, <4>0, <4>1, <4>2 DEF Placed, InTurn
    <3> QED
      BY <3>1, <3>2
  <2> QED
    BY <1>0, <2>1 DEF InTurn
<1>7. FirstServed(body, log2, own2)
  <2>1. ASSUME NEW j \in 2..(n + 1), NEW q \in 1..Len(body), q < own2[j],
               log2[j].kind = "SIGNAL", body[q].verb = "await", log2[j].of \subseteq body[q].of
        PROVE  \E i \in 2..(j - 1) : own2[i] = q /\ log2[i].kind = "SIGNAL"
    <3>1. PICK i \in 2..(j - 1) : own[i] = q /\ log[i].kind = "SIGNAL"
      <4>1. CASE j = n + 1
        <5>1. q \in 1..(p - 1) /\ (n + 1) - 1 = n /\ e.kind = "SIGNAL" /\ e.of \subseteq body[q].of
          BY <1>0, <1>1, <1>2, <2>1, <4>1
        <5>2. \E i \in 2..n : own[i] = q /\ log[i].kind = "SIGNAL"
          BY <1>0, <2>1, <5>1 DEF RowFits, SignalFits
        <5> QED
          BY <4>1, <5>1, <5>2
      <4>2. CASE j # n + 1
        <5>1. j \in 2..Len(log) /\ log2[j] = log[j] /\ own2[j] = own[j]
          BY <1>3, <4>2
        <5> QED
          BY <2>1, <5>1 DEF Placed, FirstServed
      <4> QED
        BY <4>1, <4>2
    <3>2. log2[i] = log[i] /\ own2[i] = own[i]
      BY <1>0, SMTT(30) DEF Grown, Same
    <3> QED
      BY <3>1, <3>2
  <2> QED
    BY <1>0, <2>1 DEF FirstServed
<1>8. Tried(log2, own2)
  <2>1. ASSUME NEW j \in 2..(n + 1), log2[j].kind = "FAILED"
        PROVE  \E i \in 2..(j - 1) : own2[i] = own2[j] /\ log2[i].kind = "INTENT"
    <3>1. PICK i \in 2..(j - 1) : own[i] = own2[j] /\ log[i].kind = "INTENT"
      <4>1. CASE j = n + 1
        <5>1. e.kind = "FAILED" /\ own2[j] = p /\ (n + 1) - 1 = n
          BY <1>0, <1>1, <2>1, <4>1
        <5>2. \E i \in 2..n : own[i] = p /\ log[i].kind = "INTENT"
          BY <1>0, <5>1 DEF RowFits, SignalFits
        <5> QED
          BY <4>1, <5>1, <5>2
      <4>2. CASE j # n + 1
        <5>1. j \in 2..Len(log) /\ log2[j] = log[j] /\ own2[j] = own[j]
          BY <1>3, <4>2
        <5> QED
          BY <2>1, <5>1 DEF Placed, Tried
      <4> QED
        BY <4>1, <4>2
    <3>2. log2[i] = log[i] /\ own2[i] = own[i]
      BY <1>0 DEF Grown, Same
    <3> QED
      BY <3>1, <3>2
  <2> QED
    BY <1>0, <2>1 DEF Tried
<1> QED
  BY <1>4, <1>5, <1>6, <1>7, <1>8 DEF Placed

\* The journal loses its last rows.
LEMMA RowsLost ==
  ASSUME NEW body \in Seq(Verbs), NEW log \in Seq(JournalRow), NEW late, NEW own,
         Placed(body, log, late, own), NEW log2, NEW own2, NEW m \in 0..Len(log),
         Len(log2) = m, log2 # <<>> => m > 0, own2 \in [1..m -> Nat], Same(log, own, log2, own2, m)
  PROVE  Placed(body, log2, late, own2)
<1>0. Len(body) \in Nat /\ Len(log) \in Nat
  OBVIOUS
<1>1. Rows(body, log2, own2)
  <2>1. m > 0 => log # <<>>
    BY <1>0
  <2>2. Rows(body, log, own)
    BY DEF Placed
  <2>3. log2 # <<>> => log2[1].kind = "STARTED"
    <3> SUFFICES ASSUME log2 # <<>> PROVE log2[1].kind = "STARTED"
      OBVIOUS
    <3>1. 1 \in 1..m /\ log # <<>>
      BY <1>0, <2>1
    <3> QED
      BY <2>2, <3>1 DEF Rows, Same
  <2>4. ASSUME NEW i \in 2..m
        PROVE  own2[i] \in 1..(Len(body) + 1) /\ Fits(body, log2[i], own2[i])
    <3>1. i \in 1..m /\ i \in 2..Len(log)
      BY <1>0
    <3>2. log2[i] = log[i] /\ own2[i] = own[i]
      BY <3>1 DEF Same
    <3> QED
      BY <2>2, <3>1, <3>2 DEF Rows
  <2> QED
    BY <2>3, <2>4 DEF Rows
<1>2. Ordered(log2, own2)
  <2> SUFFICES ASSUME NEW i \in 2..m, NEW j \in 2..m, i < j
               PROVE  /\ log2[j].kind # "SIGNAL" => own2[i] <= own2[j]
                      /\ own2[i] = own2[j] => 
                           \/ log2[i].kind \in {"INTENT", "FAILED"} /\ log2[j].kind # "SIGNAL"
                           \/ log2[i].kind = "TIMER" /\ log2[j].kind = "SIGNAL"
    BY DEF Ordered
  <2>1. /\ i \in 2..Len(log) /\ log2[i] = log[i] /\ own2[i] = own[i]
        /\ j \in 2..Len(log) /\ log2[j] = log[j] /\ own2[j] = own[j]
    BY <1>0 DEF Same
  <2> QED
    BY <2>1 DEF Placed, Ordered
<1>3. ASSUME NEW j \in 2..m PROVE j \in 2..Len(log) /\ log2[j] = log[j] /\ own2[j] = own[j]
                                  /\ Same(log, own, log2, own2, j - 1)
  BY <1>0 DEF Same
<1>4. InTurn(body, log2, late, own2)
  <2> SUFFICES ASSUME NEW j \in 2..m, NEW q \in 1..Len(body), q < own2[j]
               PROVE  \/ Passed(body, log2, late, own2, q, j)
                      \/ /\ log2[j].kind = "SIGNAL" /\ q + 1 = own2[j] /\ body[q].verb = "sleep"
                         /\ \E i \in 2..(j - 1) : own2[i] = q
    BY DEF InTurn
  <2>1. CASE Passed(body, log, late, own, q, j)
    <3>1. j \in Nat /\ j <= j /\ late \subseteq late
      OBVIOUS
    <3> QED
      BY <1>3, <2>1, <3>1, PassedStill
  <2>2. CASE /\ log[j].kind = "SIGNAL" /\ q + 1 = own[j] /\ body[q].verb = "sleep"
             /\ \E i \in 2..(j - 1) : own[i] = q
    BY <1>3, <2>2, SMTT(30) DEF Same
  <2> QED
    BY <1>3, <2>1, <2>2 DEF Placed, InTurn
<1>5. FirstServed(body, log2, own2)
  <2> SUFFICES ASSUME NEW j \in 2..m, NEW q \in 1..Len(body), q < own2[j],
                      log2[j].kind = "SIGNAL", body[q].verb = "await",
                      log2[j].of \subseteq body[q].of
               PROVE  \E i \in 2..(j - 1) : own2[i] = q /\ log2[i].kind = "SIGNAL"
    BY DEF FirstServed
  <2>1. PICK i \in 2..(j - 1) : own[i] = q /\ log[i].kind = "SIGNAL"
    BY <1>3 DEF Placed, FirstServed
  <2> QED
    BY <1>3, <2>1 DEF Same
<1>6. Tried(log2, own2)
  <2> SUFFICES ASSUME NEW j \in 2..m, log2[j].kind = "FAILED"
               PROVE  \E i \in 2..(j - 1) : own2[i] = own2[j] /\ log2[i].kind = "INTENT"
    BY DEF Tried
  <2>1. PICK i \in 2..(j - 1) : own[i] = own[j] /\ log[i].kind = "INTENT"
    BY <1>3 DEF Placed, Tried
  <2>2. log2[i] = log[i] /\ own2[i] = own[i]
    BY <1>3 DEF Same
  <2> QED
    BY <1>3, <2>1, <2>2
<1> QED
  BY <1>1, <1>2, <1>4, <1>5, <1>6 DEF Placed

--------------------------------------------------------------------------------
(* Cursors.                                                                    *)

\* A cursor lists a set of rows in their order.
Lists(q, S) ==
  /\ q \in Seq(Nat)
  /\ \A i, j \in 1..Len(q) : i < j => q[i] < q[j]
  /\ \A i \in 1..Len(q) : q[i] \in S
  /\ \A x \in S : \E i \in 1..Len(q) : q[i] = x

\* The rows from position p on.
From(log, own, p) == {i \in 2..Len(log) : own[i] >= p}

LEMMA ListsTail ==
  ASSUME NEW q, NEW S, Lists(q, S), q # <<>>
  PROVE  /\ Lists(Tail(q), S \ {q[1]}) /\ q[1] \in S /\ \A x \in S : q[1] <= x
         /\ 1 \in 1..Len(q)
<1>1. q \in Seq(Nat) /\ Len(q) \in Nat /\ Len(q) >= 1
  BY DEF Lists
<1>2. /\ Tail(q) \in Seq(Nat) /\ Len(Tail(q)) = Len(q) - 1
      /\ \A i \in 1..(Len(q) - 1) : Tail(q)[i] = q[i + 1]
  BY <1>1
<1>3. q[1] \in S /\ \A x \in S : q[1] <= x
  <2>1. ASSUME NEW x \in S PROVE q[1] <= x
    <3>1. PICK i \in 1..Len(q) : q[i] = x
      BY DEF Lists
    <3>2. i = 1 \/ 1 < i
      BY <1>1
    <3> QED
      BY <1>1, <3>1, <3>2 DEF Lists
  <2> QED
    BY <1>1, <2>1 DEF Lists
<1>4. \A i, j \in 1..(Len(q) - 1) : i < j => Tail(q)[i] < Tail(q)[j]
  BY <1>1, <1>2 DEF Lists
<1>5. ASSUME NEW i \in 1..(Len(q) - 1) PROVE Tail(q)[i] \in S \ {q[1]}
  <2>1. i + 1 \in 1..Len(q) /\ 1 \in 1..Len(q) /\ 1 < i + 1
    BY <1>1
  <2>2. q[1] < q[i + 1] /\ q[i + 1] \in S /\ q[1] \in Nat /\ q[i + 1] \in Nat
    BY <1>1, <2>1 DEF Lists
  <2> QED
    BY <1>2, <2>2
<1>6. ASSUME NEW x \in S \ {q[1]} PROVE \E i \in 1..(Len(q) - 1) : Tail(q)[i] = x
  <2>1. PICK i \in 1..Len(q) : q[i] = x
    BY DEF Lists
  <2>2. i - 1 \in 1..(Len(q) - 1) /\ (i - 1) + 1 = i
    BY <1>1, <2>1
  <2> QED
    BY <1>2, <2>1, <2>2
<1> QED
  BY <1>1, <1>2, <1>3, <1>4, <1>5, <1>6 DEF Lists

LEMMA Joined ==
  ASSUME NEW a \in Seq(Nat), NEW b \in Seq(Nat)
  PROVE  /\ a \o b \in Seq(Nat) /\ Len(a \o b) = Len(a) + Len(b)
         /\ \A i \in 1..(Len(a) + Len(b)) : (a \o b)[i] = IF i <= Len(a) THEN a[i] ELSE b[i - Len(a)]
  OBVIOUS

LEMMA ListsRemove ==
  ASSUME NEW q, NEW S, Lists(q, S), NEW k \in 1..Len(q)
  PROVE  Lists(RemoveAt(q, k), S \ {q[k]}) /\ (k > 1 => RemoveAt(q, k) # <<>> /\ RemoveAt(q, k)[1] = q[1])
<1>1. PICK n : n = Len(q)
  OBVIOUS
<1>2. q \in Seq(Nat) /\ n \in Nat /\ k \in Nat /\ k >= 1 /\ k <= n /\ \A i \in 1..n : q[i] \in Nat
  BY <1>1 DEF Lists
<1>3. PICK a, b, r : a = SubSeq(q, 1, k - 1) /\ b = SubSeq(q, k + 1, n) /\ r = a \o b
  OBVIOUS
<1>4. a \in Seq(Nat) /\ Len(a) = k - 1 /\ \A i \in 1..(k - 1) : a[i] = q[i]
  BY <1>1, <1>2, <1>3
<1>5. b \in Seq(Nat) /\ Len(b) = n - k /\ \A i \in 1..(n - k) : b[i] = q[i + k]
  BY <1>1, <1>2, <1>3
<1>6. /\ r \in Seq(Nat) /\ Len(r) = n - 1
      /\ \A i \in 1..(n - 1) : r[i] = IF i < k THEN q[i] ELSE q[i + 1]
  <2>1. /\ r \in Seq(Nat) /\ Len(r) = Len(a) + Len(b)
        /\ \A i \in 1..(Len(a) + Len(b)) : r[i] = IF i <= Len(a) THEN a[i] ELSE b[i - Len(a)]
    BY <1>3, <1>4, <1>5, Joined
  <2>2. Len(r) = n - 1 /\ Len(a) + Len(b) = n - 1
    BY <1>2, <1>4, <1>5, <2>1
  <2>3. ASSUME NEW i \in 1..(n - 1) PROVE r[i] = IF i < k THEN q[i] ELSE q[i + 1]
    <3>0. r[i] = IF i <= k - 1 THEN a[i] ELSE b[i - (k - 1)]
      BY <1>4, <2>1, <2>2
    <3>1. CASE i < k
      BY <1>2, <1>4, <3>0, <3>1
    <3>2. CASE ~(i < k)
      <4>1. i - (k - 1) \in 1..(n - k) /\ (i - (k - 1)) + k = i + 1 /\ ~(i <= k - 1)
        BY <1>2, <3>2
      <4>2. b[i - (k - 1)] = q[(i - (k - 1)) + k]
        BY <1>5, <4>1
      <4> QED
        BY <3>0, <3>2, <4>1, <4>2
    <3> QED
      BY <3>1, <3>2
  <2> QED
    BY <2>1, <2>2, <2>3
<1>7. ASSUME NEW i \in 1..n, NEW j \in 1..n, i < j PROVE q[i] < q[j]
  BY <1>1, <1>7 DEF Lists
<1>8. ASSUME NEW i \in 1..(n - 1), NEW j \in 1..(n - 1), i < j PROVE r[i] < r[j]
  <2>1. PICK x \in 1..n, y \in 1..n : r[i] = q[x] /\ r[j] = q[y] /\ x < y
    <3>1. i \in 1..n /\ i + 1 \in 1..n /\ j \in 1..n /\ j + 1 \in 1..n /\ i < j + 1 /\ i + 1 < j + 1
      BY <1>2, <1>8
    <3>2. (i < k \/ ~(i < k)) /\ (j < k => i < k)
      BY <1>2, <1>8
    <3> QED
      BY <1>6, <1>8, <3>1, <3>2
  <2> QED
    BY <1>7, <2>1
<1>9. ASSUME NEW i \in 1..(n - 1) PROVE r[i] \in S \ {q[k]}
  <2>1. PICK m \in 1..n : r[i] = q[m] /\ m # k
    <3>1. i \in 1..n /\ i + 1 \in 1..n /\ (i < k => i # k) /\ (~(i < k) => i + 1 # k)
      BY <1>2
    <3>2. CASE i < k
      BY <1>6, <3>1, <3>2
    <3>3. CASE ~(i < k)
      BY <1>6, <3>1, <3>3
    <3> QED
      BY <3>2, <3>3
  <2>2. q[m] # q[k]
    <3>1. (m < k \/ k < m) /\ k \in 1..n
      BY <1>2, <2>1
    <3> QED
      BY <1>2, <1>7, <3>1
  <2> QED
    BY <1>1, <2>1, <2>2 DEF Lists
<1>10. ASSUME NEW x \in S \ {q[k]} PROVE \E i \in 1..(n - 1) : r[i] = x
  <2>1. PICK m \in 1..n : q[m] = x
    BY <1>1 DEF Lists
  <2>2. CASE m < k
    <3>1. m \in 1..(n - 1)
      BY <1>2, <2>2
    <3> QED
      BY <1>6, <2>1, <2>2, <3>1
  <2>3. CASE ~(m < k)
    <3>1. m - 1 \in 1..(n - 1) /\ ~(m - 1 < k) /\ (m - 1) + 1 = m
      BY <1>2, <2>1, <2>3
    <3> QED
      BY <1>6, <2>1, <3>1
  <2> QED
    BY <2>2, <2>3
<1>11. Lists(r, S \ {q[k]})
  BY <1>6, <1>8, <1>9, <1>10 DEF Lists
<1>12. k > 1 => r # <<>> /\ r[1] = q[1]
  <2> SUFFICES ASSUME k > 1 PROVE r # <<>> /\ r[1] = q[1]
    OBVIOUS
  <2>1. 1 \in 1..(n - 1) /\ 1 < k /\ n - 1 > 0
    BY <1>2
  <2>2. r # <<>>
    BY <1>6, <2>1
  <2> QED
    BY <1>6, <2>1, <2>2
<1> QED
  BY <1>1, <1>3, <1>11, <1>12 DEF RemoveAt

AtLeast(S, m) == {x \in S : x >= m}

\* A cursor from which the rows before the m-th are gone.
LEMMA ListsFrom ==
  ASSUME NEW q, NEW S, Lists(q, S), NEW m \in 1..Len(q), NEW r, r = SubSeq(q, m, Len(q))
  PROVE  r # <<>> /\ r[1] = q[m] /\ Lists(r, AtLeast(S, q[m]))
<1>1. PICK n : n = Len(q)
  OBVIOUS
<1>2. q \in Seq(Nat) /\ n \in Nat /\ m \in Nat /\ m >= 1 /\ m <= n /\ \A i \in 1..n : q[i] \in Nat
  BY <1>1 DEF Lists
<1>3. r = SubSeq(q, m, n)
  BY <1>1
<1>4. r \in Seq(Nat) /\ Len(r) = (n - m) + 1 /\ \A i \in 1..((n - m) + 1) : r[i] = q[i + (m - 1)]
  BY <1>1, <1>2, <1>3
<1>5. ASSUME NEW i \in 1..n, NEW j \in 1..n, i < j PROVE q[i] < q[j]
  BY <1>1, <1>5 DEF Lists
<1>6. ASSUME NEW i \in 1..((n - m) + 1), NEW j \in 1..((n - m) + 1), i < j PROVE r[i] < r[j]
  <2>1. i + (m - 1) \in 1..n /\ j + (m - 1) \in 1..n /\ i + (m - 1) < j + (m - 1)
    BY <1>2, <1>6
  <2> QED
    BY <1>4, <1>5, <2>1
<1>7. ASSUME NEW i \in 1..((n - m) + 1) PROVE r[i] \in {x \in S : x >= q[m]}
  <2>1. PICK k : k = i + (m - 1)
    OBVIOUS
  <2>2. k \in 1..n /\ m \in 1..n /\ (m < k \/ m = k) /\ r[i] = q[k]
    BY <1>2, <1>4, <2>1
  <2>3. q[k] \in S /\ q[m] \in Nat /\ q[k] \in Nat /\ (m < k => q[m] < q[k])
    BY <1>1, <1>2, <1>5, <2>2 DEF Lists
  <2> QED
    BY <2>2, <2>3
<1>8. ASSUME NEW x \in {y \in S : y >= q[m]} PROVE \E i \in 1..((n - m) + 1) : r[i] = x
  <2>1. PICK k \in 1..n : q[k] = x
    BY <1>1 DEF Lists
  <2>2. m <= k
    <3>1. m <= k \/ k < m
      BY <1>2
    <3>2. m \in 1..n /\ q[m] \in Nat /\ q[k] \in Nat /\ q[k] >= q[m]
      BY <1>2, <2>1
    <3>3. CASE k < m
      <4>1. q[k] < q[m]
        BY <1>5, <3>2, <3>3
      <4> QED
        BY <3>2, <4>1
    <3> QED
      BY <3>1, <3>3
  <2>3. (k - m) + 1 \in 1..((n - m) + 1) /\ ((k - m) + 1) + (m - 1) = k
    BY <1>2, <2>1, <2>2
  <2> QED
    BY <1>4, <2>1, <2>3
<1>9. Lists(r, {x \in S : x >= q[m]})
  BY <1>4, <1>6, <1>7, <1>8 DEF Lists
<1>10. r # <<>> /\ r[1] = q[m]
  <2>1. 1 \in 1..((n - m) + 1) /\ 1 + (m - 1) = m /\ (n - m) + 1 > 0
    BY <1>2
  <2>2. r[1] = q[m]
    BY <1>4, <2>1
  <2>3. r # <<>>
    BY <1>4, <2>1
  <2> QED
    BY <2>2, <2>3
<1> QED
  BY <1>9, <1>10 DEF AtLeast

LEMMA ListsNothing == \A S : Lists(<<>>, S) <=> S = {}
<1>1. <<>> \in Seq(Nat) /\ Len(<<>>) = 0 /\ 1..0 = {}
  OBVIOUS
<1> QED
  BY <1>1 DEF Lists

--------------------------------------------------------------------------------
(* A journal against its body.                                                 *)

\* The committed rows are 1..hard, the timers that came due `late`.
Sound(body, log, hard, late, own) ==
  /\ Len(body) \in Nat
  /\ log \in Seq(JournalRow) /\ hard \in 0..Len(log)
  /\ late \subseteq 1..hard /\ \A i \in late : log[i].kind = "TIMER" /\ log[i].val = Timed
  /\ Placed(body, log, late, own)

LEMMA RowsOwned ==
  ASSUME NEW body, NEW log, NEW hard, NEW late, NEW own, Sound(body, log, hard, late, own),
         NEW i \in 2..Len(log)
  PROVE  /\ own[i] \in 1..(Len(body) + 1) /\ Fits(body, log[i], own[i]) /\ log[i] \in JournalRow
         /\ Len(body) \in Nat /\ Len(log) \in Nat /\ own[i] \in Nat
  BY DEF Sound, Placed, Rows

LEMMA Pairs ==
  ASSUME NEW body, NEW log, NEW hard, NEW late, NEW own, Sound(body, log, hard, late, own),
         NEW i \in 2..Len(log), NEW j \in 2..Len(log), i < j
  PROVE  /\ log[j].kind # "SIGNAL" => own[i] <= own[j]
         /\ own[i] = own[j] => \/ log[i].kind \in {"INTENT", "FAILED"} /\ log[j].kind # "SIGNAL"
                               \/ log[i].kind = "TIMER" /\ log[j].kind = "SIGNAL"
  BY DEF Sound, Placed, Ordered

\* A row beyond a verb has that verb's closing row before it, but for a signal
\* that came during a sleep.
LEMMA Beyond ==
  ASSUME NEW body, NEW log, NEW hard, NEW late, NEW own, Sound(body, log, hard, late, own),
         NEW p \in 1..Len(body), body[p].verb # "random", NEW j \in 2..Len(log), own[j] > p
  PROVE  /\ \E i \in 2..(j - 1) : own[i] = p
         /\ \/ \E i \in 2..(j - 1) : own[i] = p /\ Closes(log, late, i)
            \/ log[j].kind = "SIGNAL" /\ body[p].verb = "sleep"
<1>1. p < own[j]
  BY RowsOwned
<1>2. \/ Passed(body, log, late, own, p, j)
      \/ /\ log[j].kind = "SIGNAL" /\ p + 1 = own[j] /\ body[p].verb = "sleep"
         /\ \E i \in 2..(j - 1) : own[i] = p
  BY <1>1 DEF Sound, Placed, InTurn
<1> QED
  BY <1>2 DEF Passed

\* The first row of the cursor is of the verb that is looking.
LEMMA FrontRow ==
  ASSUME NEW body, NEW log, NEW hard, NEW late, NEW own, Sound(body, log, hard, late, own),
         NEW p \in 1..Len(body), body[p].verb # "random", NEW q, Lists(q, From(log, own, p)),
         q # <<>>
  PROVE  /\ q[1] \in 2..Len(log) /\ own[q[1]] = p /\ Fits(body, log[q[1]], p)
         /\ \A j \in 2..Len(log) : own[j] >= p => q[1] <= j
         /\ 1 \in 1..Len(q)
<1>1. q[1] \in From(log, own, p) /\ (\A x \in From(log, own, p) : q[1] <= x) /\ 1 \in 1..Len(q)
  BY ListsTail
<1>2. PICK i : i = q[1]
  OBVIOUS
<1>3. i \in 2..Len(log) /\ own[i] >= p /\ \A j \in 2..Len(log) : own[j] >= p => i <= j
  BY <1>1, <1>2 DEF From
<1>4. own[i] = p
  <2> SUFFICES ASSUME own[i] # p PROVE FALSE
    OBVIOUS
  <2>1. own[i] > p
    BY <1>3, RowsOwned
  <2>2. PICK k \in 2..(i - 1) : own[k] = p
    BY <1>3, <2>1, Beyond
  <2>3. k \in 2..Len(log) /\ own[k] >= p /\ k < i
    BY <1>3, <2>2, RowsOwned
  <2> QED
    BY <1>3, <2>3
<1> QED
  BY <1>1, <1>2, <1>3, <1>4, RowsOwned

\* The cursor behind a verb's only row.
LEMMA BehindOne ==
  ASSUME NEW body, NEW log, NEW hard, NEW late, NEW own, Sound(body, log, hard, late, own),
         NEW p \in 1..Len(body), NEW q, Lists(q, From(log, own, p)), q # <<>>,
         own[q[1]] = p, \A j \in 2..Len(log) : own[j] = p => j = q[1]
  PROVE  Lists(Tail(q), From(log, own, p + 1))
<1>1. Lists(Tail(q), From(log, own, p) \ {q[1]})
  BY ListsTail
<1>2. From(log, own, p) \ {q[1]} = From(log, own, p + 1)
  <2>1. ASSUME NEW j \in 2..Len(log)
        PROVE  (own[j] >= p /\ j # q[1]) <=> own[j] >= p + 1
    BY RowsOwned
  <2> QED
    BY <2>1 DEF From
<1> QED
  BY <1>1, <1>2

LEMMA OnlyRow ==
  ASSUME NEW body, NEW log, NEW hard, NEW late, NEW own, Sound(body, log, hard, late, own),
         NEW p \in 1..Len(body), body[p].verb # "random", NEW q, Lists(q, From(log, own, p)),
         q # <<>>,
         \/ log[q[1]].kind \in {"AMBIENT", "CHILD", "SIGNAL"}
         \/ log[q[1]].kind = "TIMER" /\ \A j \in 2..Len(log) : own[j] = p => log[j].kind # "SIGNAL"
  PROVE  \A j \in 2..Len(log) : own[j] = p => j = q[1]
<1>1. PICK i : i = q[1]
  OBVIOUS
<1>2. /\ i \in 2..Len(log) /\ own[i] = p
      /\ \A j \in 2..Len(log) : own[j] >= p => i <= j
  BY <1>1, FrontRow
<1>3. ASSUME NEW j \in 2..Len(log), own[j] = p, j # i PROVE FALSE
  <2>1. i < j
    BY <1>2, <1>3, RowsOwned
  <2> QED
    BY <1>1, <1>2, <1>3, <2>1, Pairs, SMTT(30)
<1> QED
  BY <1>1, <1>3

\* Row i is the only one of position p.
Alone(log, own, p, i) == \A j \in 2..Len(log) : own[j] = p => j = i

LEMMA SleepAlone ==
  ASSUME NEW body, NEW log, NEW hard, NEW late, NEW own, Sound(body, log, hard, late, own),
         NEW p \in 1..Len(body), body[p].verb = "sleep", NEW q, Lists(q, From(log, own, p)),
         q # <<>>, log[q[1]].kind = "TIMER"
  PROVE  Alone(log, own, p, q[1])
<1>1. ASSUME NEW j \in 2..Len(log), own[j] = p PROVE log[j].kind # "SIGNAL"
  BY <1>1, RowsOwned, SMTT(30) DEF Fits
<1>2. body[p].verb # "random" /\ \A j \in 2..Len(log) : own[j] = p => log[j].kind # "SIGNAL"
  BY <1>1
<1> QED
  BY <1>2, OnlyRow DEF Alone

\* A step without its result: the rows of the cursor are all its own, and nothing
\* is beyond.
LEMMA Undecided ==
  ASSUME NEW body, NEW log, NEW hard, NEW late, NEW own, Sound(body, log, hard, late, own),
         NEW p \in 1..Len(body), body[p].verb = "step",
         \A j \in 2..Len(log) : own[j] = p => log[j].kind # "RESULT"
  PROVE  \A j \in 2..Len(log) :
           own[j] <= p /\ (own[j] = p => log[j].kind \in {"INTENT", "FAILED"} /\ log[j].of = body[p].of)
<1>1. ASSUME NEW j \in 2..Len(log), own[j] = p
      PROVE  log[j].kind \in {"INTENT", "FAILED"} /\ log[j].of = body[p].of
  BY <1>1, RowsOwned, SMTT(30) DEF Fits
<1>2. ASSUME NEW j \in 2..Len(log) PROVE own[j] <= p
  <2> SUFFICES ASSUME own[j] > p PROVE FALSE
    BY RowsOwned
  <2>1. PICK i \in 2..(j - 1) : own[i] = p /\ Closes(log, late, i)
    BY Beyond
  <2>2. i \in 2..Len(log)
    BY RowsOwned
  <2>3. log[i].kind \in {"INTENT", "FAILED"}
    BY <1>1, <2>1, <2>2
  <2> QED
    BY <2>1, <2>3 DEF Closes, Sound
<1> QED
  BY <1>1, <1>2

\* The result of a step lies behind its attempts in the cursor.
LEMMA ResultAt ==
  ASSUME NEW body, NEW log, NEW hard, NEW late, NEW own, Sound(body, log, hard, late, own),
         NEW p \in 1..Len(body), body[p].verb = "step", NEW q, Lists(q, From(log, own, p)),
         NEW r \in 2..Len(log), own[r] = p, log[r].kind = "RESULT"
  PROVE  \E k \in 1..Len(q) :
           /\ q[k] = r /\ log[r].of = body[p].of
           /\ \A i \in 1..(k - 1) : /\ log[q[i]].kind \in {"INTENT", "FAILED"}
                                    /\ log[q[i]].of = body[p].of
           /\ {x \in From(log, own, p) : x > r} = From(log, own, p + 1)
<1>0. r \in From(log, own, p) /\ log[r].of = body[p].of
  BY RowsOwned, SMTT(30) DEF From, Fits
<1>1. PICK k \in 1..Len(q) : q[k] = r
  BY <1>0 DEF Lists
<1>2. ASSUME NEW i \in 1..(k - 1)
      PROVE  log[q[i]].kind \in {"INTENT", "FAILED"} /\ log[q[i]].of = body[p].of
  <2>0. Len(q) \in Nat /\ i \in 1..Len(q) /\ i < k
    BY DEF Lists
  <2>1. PICK x : x = q[i]
    OBVIOUS
  <2>2. x \in 2..Len(log) /\ own[x] >= p /\ x < r
    BY <1>1, <2>0, <2>1 DEF Lists, From
  <2>3. own[x] = p
    BY <2>2, Pairs, RowsOwned
  <2>4. log[x].kind \in {"INTENT", "FAILED"}
    BY <2>2, <2>3, Pairs
  <2>5. log[x].of = body[p].of
    BY <2>2, <2>3, RowsOwned, SMTT(30) DEF Fits
  <2> QED
    BY <2>1, <2>4, <2>5
<1>3. ASSUME NEW j \in 2..Len(log) PROVE (own[j] >= p /\ j > r) <=> own[j] >= p + 1
  <2>1. own[j] \in Nat /\ p \in Nat /\ r \in Nat /\ j \in Nat
    BY RowsOwned
  <2>2. CASE j > r
    <3>1. own[j] # p
      BY <2>1, <2>2, Pairs, SMTT(30)
    <3> QED
      BY <2>1, <2>2, <3>1
  <2>3. CASE j <= r
    <3>1. own[j] <= p
      <4>1. j = r \/ j < r
        BY <2>1, <2>3
      <4> QED
        BY <2>1, <4>1, Pairs
    <3> QED
      BY <2>1, <2>3, <3>1
  <2> QED
    BY <2>1, <2>2, <2>3
<1>4. {x \in From(log, own, p) : x > r} = From(log, own, p + 1)
  BY <1>3 DEF From
<1> QED
  BY <1>0, <1>1, <1>2, <1>4

\* A signal that a waiting gate finds first is its own.
LEMMA SignalAt ==
  ASSUME NEW body, NEW log, NEW hard, NEW late, NEW own, Sound(body, log, hard, late, own),
         NEW p \in 1..Len(body), body[p].verb = "await", NEW j \in 2..Len(log), own[j] >= p,
         log[j].kind = "SIGNAL", log[j].of \subseteq body[p].of,
         \A i \in 2..Len(log) :
           own[i] >= p /\ i < j => ~(log[i].kind = "SIGNAL" /\ log[i].of \subseteq body[p].of)
  PROVE  own[j] = p
<1> SUFFICES ASSUME own[j] # p PROVE FALSE
  OBVIOUS
<1>1. p < own[j]
  BY RowsOwned
<1>2. PICK i \in 2..(j - 1) : own[i] = p /\ log[i].kind = "SIGNAL"
  BY <1>1 DEF Sound, Placed, FirstServed
<1>3. i \in 2..Len(log) /\ i < j /\ own[i] >= p
  BY <1>2, RowsOwned
<1>4. log[i].of \subseteq body[p].of
  BY <1>2, <1>3, RowsOwned DEF Fits
<1> QED
  BY <1>2, <1>3, <1>4

--------------------------------------------------------------------------------
(* What the verbs were told.                                                   *)

\* The draws of the generator before position p.
Draws(body, p) == Cardinality({q \in 1..(p - 1) : body[q].verb = "random"})

\* v is what the rows answer at position p, in rows 1..m or, for a gate that timed
\* out, in none at all.
Told(body, log, own, p, v, m) ==
  \/ body[p].verb = "random" /\ v = Draws(body, p)
  \/ body[p].verb = "sleep" /\ v = 0
  \/ /\ body[p].verb = "await"
     /\ \/ v \in 2..m /\ own[v] = p /\ log[v].kind = "SIGNAL"
        \/ v = 0 /\ \A j \in 2..Len(log) : own[j] = p => log[j].kind # "SIGNAL"
  \/ \E j \in 2..m :
       own[j] = p /\ log[j].kind \in {"AMBIENT", "CHILD", "RESULT"} /\ v = log[j].val

LEMMA DrawsNext ==
  ASSUME NEW body, NEW p \in Nat \ {0}
  PROVE  /\ Draws(body, p) \in Nat /\ Draws(body, 1) = 0
         /\ Draws(body, p + 1) = IF body[p].verb = "random" THEN Draws(body, p) + 1 ELSE Draws(body, p)
<1> DEFINE R(k) == {q \in 1..(k - 1) : body[q].verb = "random"}
<1>1. IsFiniteSet(R(p)) /\ Cardinality(R(p)) \in Nat
  <2>1. IsFiniteSet(1..(p - 1))
    BY FS_Interval
  <2>2. R(p) \subseteq 1..(p - 1)
    OBVIOUS
  <2> QED
    BY <2>1, <2>2, FS_Subset, FS_CardinalityType
<1>2. R(1) = {} /\ Cardinality({}) = 0
  BY FS_EmptySet
<1>3. CASE body[p].verb = "random"
  <2>1. R(p + 1) = R(p) \cup {p} /\ p \notin R(p)
    BY <1>3
  <2>2. Cardinality(R(p) \cup {p}) = Cardinality(R(p)) + 1
    BY <1>1, <2>1, FS_AddElement
  <2> QED
    BY <1>1, <1>2, <1>3, <2>1, <2>2 DEF Draws
<1>4. CASE body[p].verb # "random"
  <2>1. R(p + 1) = R(p)
    BY <1>4
  <2> QED
    BY <1>1, <1>2, <1>4, <2>1 DEF Draws
<1> QED
  BY <1>3, <1>4

\* What was told is told of a journal with the same rows and no new answer.
LEMMA ToldStays ==
  ASSUME NEW body, NEW log, NEW own, NEW log2, NEW own2, NEW p, NEW v,
         NEW m \in Nat, NEW m2 \in Nat, m <= m2, Same(log, own, log2, own2, m),
         \A j \in 2..Len(log2) : own2[j] = p /\ log2[j].kind = "SIGNAL" =>
           \E i \in 2..Len(log) : own[i] = p /\ log[i].kind = "SIGNAL",
         Told(body, log, own, p, v, m)
  PROVE  Told(body, log2, own2, p, v, m2)
<1>0. ASSUME NEW j \in 2..m PROVE j \in 2..m2 /\ log2[j] = log[j] /\ own2[j] = own[j]
  BY DEF Same
<1>1. CASE \E j \in 2..m :
             own[j] = p /\ log[j].kind \in {"AMBIENT", "CHILD", "RESULT"} /\ v = log[j].val
  BY <1>0, <1>1 DEF Told
<1>2. CASE body[p].verb = "await" /\ v \in 2..m /\ own[v] = p /\ log[v].kind = "SIGNAL"
  BY <1>0, <1>2 DEF Told
<1>3. CASE /\ body[p].verb = "await" /\ v = 0
           /\ \A j \in 2..Len(log) : own[j] = p => log[j].kind # "SIGNAL"
  BY <1>3 DEF Told
<1> QED
  BY <1>1, <1>2, <1>3 DEF Told

\* Two attempts are told the same.
LEMMA ToldOnce ==
  ASSUME NEW body, NEW log, NEW hard, NEW late, NEW own, Sound(body, log, hard, late, own),
         NEW p \in 1..Len(body), NEW v, NEW w, NEW m \in 0..Len(log), NEW k \in 0..Len(log),
         Told(body, log, own, p, v, m), Told(body, log, own, p, w, k)
  PROVE  v = w
<1>0. Len(log) \in Nat /\ \A i \in 2..m : i \in 2..Len(log)
  BY DEF Sound
<1>1. ASSUME NEW i \in 2..Len(log), NEW j \in 2..Len(log), own[i] = p, own[j] = p,
             \/ log[i].kind = "SIGNAL" /\ log[j].kind = "SIGNAL"
             \/ /\ log[i].kind \in {"AMBIENT", "CHILD", "RESULT"}
                /\ log[j].kind \in {"AMBIENT", "CHILD", "RESULT"}
      PROVE  i = j
  <2>1. i = j \/ i < j \/ j < i
    BY <1>0
  <2>2. CASE i < j
    BY <1>1, <2>2, Pairs
  <2>3. CASE j < i
    BY <1>1, <2>3, Pairs
  <2> QED
    BY <2>1, <2>2, <2>3
<1>2. ASSUME NEW i \in 2..Len(log), own[i] = p, log[i].kind \in {"AMBIENT", "CHILD", "RESULT"}
      PROVE  body[p].verb \in {"time", "spawn", "step"}
  BY <1>2, RowsOwned DEF Fits
<1>3. CASE body[p].verb = "await"
  BY <1>0, <1>1, <1>2, <1>3, SMTT(30) DEF Told
<1>4. CASE body[p].verb \in {"random", "sleep"}
  BY <1>0, <1>2, <1>4, SMTT(30) DEF Told
<1>5. CASE body[p].verb \notin {"random", "sleep", "await"}
  <2>1. PICK i \in 2..m : own[i] = p /\ log[i].kind \in {"AMBIENT", "CHILD", "RESULT"} /\ v = log[i].val
    BY <1>5 DEF Told
  <2>2. PICK j \in 2..k : own[j] = p /\ log[j].kind \in {"AMBIENT", "CHILD", "RESULT"} /\ w = log[j].val
    BY <1>5 DEF Told
  <2>3. i \in 2..Len(log) /\ j \in 2..Len(log)
    BY <1>0
  <2>4. i = j
    BY <1>1, <2>1, <2>2, <2>3
  <2> QED
    BY <2>1, <2>2, <2>4
<1> QED
  BY <1>3, <1>4, <1>5

--------------------------------------------------------------------------------
(* A run.                                                                      *)

\* An attempt has come to position p with these answers and n draws.
Going(body, log, late, own, p, answers, n) ==
  /\ log # <<>> /\ p \in 1..(Len(body) + 1) /\ answers \in Seq(Nat) /\ Len(answers) = p - 1
  /\ n = Draws(body, p)
  /\ \A q \in 1..(p - 1) : /\ Passed(body, log, late, own, q, Len(log) + 1)
                           /\ Told(body, log, own, q, answers[q], Len(log))

\* The steps have their results among the rows 1..hard.
Finished(log, hard, own, steps) ==
  \A p \in steps : \E j \in 2..hard : own[j] = p /\ log[j].kind = "RESULT"

\* The answers are what the rows 1..hard tell; the verb they led to has written.
Remembered(body, log, hard, own, answers) ==
  /\ answers \in Seq(Nat)
  /\ Len(answers) > 0 =>
       \E j \in 2..hard : own[j] = Len(answers) + 1 /\ log[j].kind # "SIGNAL"
  /\ \A p \in 1..Len(answers) : Told(body, log, own, p, answers[p], hard)

\* The run is parked at p, or has failed there: p wrote the last row, unless signals
\* have come since.
ParkedAt(body, log, own, p, how) ==
  /\ log # <<>> /\ p \in 1..Len(body)
  /\ \A i \in 2..Len(log) : own[i] <= p \/ log[i].kind = "SIGNAL"
  /\ \E i \in 2..Len(log) : own[i] = p /\ log[i].kind # "SIGNAL"
  /\ body[p].verb = "step" /\ Latest(log).kind # "SIGNAL" =>
       Latest(log).kind = "FAILED" /\ ((how = "failed") <=> (Latest(log).val = 1))
  /\ body[p].verb # "step" => body[p].verb \in {"sleep", "await"} /\ how = "parked"

\* The owners with one more.
Owned(own, n, p) == [i \in 1..(n + 1) |-> IF i <= n THEN own[i] ELSE p]

Wrote(log, own, log2, own2, e, p) ==
  /\ log # <<>> /\ e \in JournalRow /\ p \in Nat
  /\ log2 = Append(log, e) /\ own2 = Owned(own, Len(log), p)

LEMMA GrownBy ==
  ASSUME NEW body, NEW log, NEW hard, NEW late, NEW own, Sound(body, log, hard, late, own),
         NEW e, NEW p, NEW log2, NEW own2, Wrote(log, own, log2, own2, e, p)
  PROVE  /\ Grown(log, own, log2, own2, Len(log), e, p) /\ log2 \in Seq(JournalRow)
         /\ Len(log) \in Nat /\ Len(log) >= 1 /\ Len(log2) = Len(log) + 1 /\ log2 # <<>>
         /\ own2[Len(log) + 1] = p /\ log2[Len(log) + 1] = e
         /\ \A i \in 1..Len(log) : own2[i] = own[i] /\ log2[i] = log[i]
<1>1. PICK n : n = Len(log)
  OBVIOUS
<1>2. log \in Seq(JournalRow) /\ n \in Nat /\ n >= 1 /\ own \in [1..n -> Nat]
  BY <1>1 DEF Sound, Placed, Rows, Wrote
<1>3. /\ log2 \in Seq(JournalRow) /\ Len(log2) = n + 1 /\ log2 # <<>> /\ log2[n + 1] = e
      /\ \A i \in 1..n : log2[i] = log[i]
  BY <1>1, <1>2 DEF Wrote
<1>4. own2 \in [1..(n + 1) -> Nat] /\ own2[n + 1] = p /\ \A i \in 1..n : own2[i] = own[i]
  BY <1>1, <1>2 DEF Owned, Wrote
<1> QED
  BY <1>1, <1>2, <1>3, <1>4 DEF Grown, Same

LEMMA SoundGrows ==
  ASSUME NEW body, NEW log, NEW hard, NEW late, NEW own, Sound(body, log, hard, late, own),
         NEW e, NEW p, NEW log2, NEW own2, Wrote(log, own, log2, own2, e, p),
         RowFits(body, log, late, own, e, p) \/ SignalFits(body, log, late, own, e, p),
         NEW hard2, hard2 \in {hard, Len(log) + 1}
  PROVE  Sound(body, log2, hard2, late, own2)
<1>1. /\ Grown(log, own, log2, own2, Len(log), e, p) /\ log2 \in Seq(JournalRow)
      /\ Len(log) \in Nat /\ Len(log2) = Len(log) + 1
      /\ \A i \in 1..Len(log) : log2[i] = log[i]
  BY GrownBy
<1>2. Placed(body, log2, late, own2)
  BY <1>1, RowAdded DEF Sound
<1>3. /\ hard \in 0..Len(log) /\ late \subseteq 1..hard
      /\ \A i \in late : log[i].kind = "TIMER" /\ log[i].val = Timed
  BY DEF Sound
<1>4. /\ hard2 \in 0..Len(log2) /\ late \subseteq 1..hard2 /\ late \subseteq 1..Len(log)
  BY <1>1, <1>3
<1>5. \A i \in late : log2[i].kind = "TIMER" /\ log2[i].val = Timed
  BY <1>1, <1>3, <1>4
<1> QED
  BY <1>1, <1>2, <1>4, <1>5 DEF Sound

\* A row that is no signal leaves what was told as it was.
LEMMA TellsStill ==
  ASSUME NEW body, NEW log, NEW own, NEW log2, NEW own2, NEW n, NEW e, NEW p,
         Grown(log, own, log2, own2, n, e, p), e.kind # "SIGNAL"
  PROVE  \A q, v : \A m \in 0..n, m2 \in 0..(n + 1) :
           m <= m2 /\ Told(body, log, own, q, v, m) => Told(body, log2, own2, q, v, m2)
<1>0. n \in Nat /\ n = Len(log) /\ Len(log2) = n + 1 /\ log2[n + 1] = e
  BY DEF Grown
<1>1. ASSUME NEW q, NEW v, NEW m \in 0..n, NEW m2 \in 0..(n + 1), m <= m2,
             Told(body, log, own, q, v, m)
      PROVE  Told(body, log2, own2, q, v, m2)
  <2>1. m \in Nat /\ m2 \in Nat /\ Same(log, own, log2, own2, m)
    BY <1>0 DEF Grown, Same
  <2>2. ASSUME NEW j \in 2..Len(log2), own2[j] = q, log2[j].kind = "SIGNAL"
        PROVE  \E i \in 2..Len(log) : own[i] = q /\ log[i].kind = "SIGNAL"
    <3>1. j \in 2..(n + 1) /\ j # n + 1
      BY <1>0, <2>2
    <3>2. j \in 2..n /\ log2[j] = log[j] /\ own2[j] = own[j]
      BY <3>1, OldRow
    <3> QED
      BY <1>0, <2>2, <3>2
  <2> QED
    BY <1>1, <2>1, <2>2, ToldStays
<1> QED
  BY <1>1

LEMMA GoingGrows ==
  ASSUME NEW body, NEW log, NEW late, NEW own, NEW log2, NEW own2, NEW n, NEW e, NEW p,
         Grown(log, own, log2, own2, n, e, p), e.kind # "SIGNAL",
         NEW k, NEW answers, NEW d, Going(body, log, late, own, k, answers, d)
  PROVE  Going(body, log2, late, own2, k, answers, d)
<1>0. n \in Nat /\ n = Len(log) /\ Len(log2) = n + 1 /\ log2 # <<>>
  BY DEF Grown
<1>1. ASSUME NEW q \in 1..(k - 1)
      PROVE  /\ Passed(body, log2, late, own2, q, Len(log2) + 1)
             /\ Told(body, log2, own2, q, answers[q], Len(log2))
  <2>1. Passed(body, log, late, own, q, n + 1) /\ Told(body, log, own, q, answers[q], n)
    BY <1>0 DEF Going
  <2>2. /\ n + 1 \in Nat /\ (n + 1) + 1 \in Nat /\ n + 1 <= (n + 1) + 1 /\ (n + 1) - 1 = n
        /\ n \in 0..n /\ n + 1 \in 0..(n + 1) /\ n <= n + 1
    BY <1>0
  <2>3. Same(log, own, log2, own2, (n + 1) - 1) /\ late \subseteq late
    BY <2>2 DEF Grown
  <2>4. Passed(body, log2, late, own2, q, (n + 1) + 1)
    BY <2>1, <2>2, <2>3, PassedStill
  <2>5. Told(body, log2, own2, q, answers[q], n + 1)
    BY <2>1, <2>2, TellsStill
  <2> QED
    BY <1>0, <2>4, <2>5
<1> QED
  BY <1>0, <1>1 DEF Going

LEMMA FinishedGrows ==
  ASSUME NEW log, NEW own, NEW log2, NEW own2, NEW n, NEW e, NEW p,
         Grown(log, own, log2, own2, n, e, p), NEW hard \in 0..n, NEW hard2 \in {hard, n + 1},
         NEW steps, Finished(log, hard, own, steps)
  PROVE  Finished(log2, hard2, own2, steps)
<1>1. ASSUME NEW k \in steps PROVE \E j \in 2..hard2 : own2[j] = k /\ log2[j].kind = "RESULT"
  <2>1. PICK j \in 2..hard : own[j] = k /\ log[j].kind = "RESULT"
    BY DEF Finished
  <2>2. j \in 2..hard2 /\ own2[j] = own[j] /\ log2[j] = log[j]
    BY DEF Grown, Same
  <2> QED
    BY <2>1, <2>2
<1> QED
  BY <1>1 DEF Finished

LEMMA RememberedGrows ==
  ASSUME NEW body, NEW log, NEW own, NEW log2, NEW own2, NEW n, NEW e, NEW p,
         Grown(log, own, log2, own2, n, e, p), e.kind # "SIGNAL",
         NEW hard \in 0..n, NEW hard2 \in {hard, n + 1},
         NEW answers, Remembered(body, log, hard, own, answers)
  PROVE  Remembered(body, log2, hard2, own2, answers)
<1>0. n \in Nat /\ hard \in 0..n /\ hard2 \in 0..(n + 1) /\ hard <= hard2
  BY DEF Grown
<1>1. \A q \in 1..Len(answers) : Told(body, log2, own2, q, answers[q], hard2)
  BY <1>0, TellsStill DEF Remembered
<1>2. ASSUME Len(answers) > 0
      PROVE  \E j \in 2..hard2 : own2[j] = Len(answers) + 1 /\ log2[j].kind # "SIGNAL"
  <2>1. PICK j \in 2..hard : own[j] = Len(answers) + 1 /\ log[j].kind # "SIGNAL"
    BY <1>2 DEF Remembered
  <2>2. j \in 2..hard2 /\ own2[j] = own[j] /\ log2[j] = log[j]
    BY <1>0 DEF Grown, Same
  <2> QED
    BY <2>1, <2>2
<1> QED
  BY <1>1, <1>2 DEF Remembered

\* What an attempt was told is remembered when the verb it has come to writes.
LEMMA Remembers ==
  ASSUME NEW body, NEW log, NEW late, NEW own, NEW log2, NEW own2, NEW n, NEW e, NEW p,
         Grown(log, own, log2, own2, n, e, p), e.kind # "SIGNAL",
         NEW answers, NEW d, Going(body, log, late, own, p, answers, d)
  PROVE  Remembered(body, log2, n + 1, own2, answers)
<1>0. n \in Nat /\ n > 0 /\ n = Len(log) /\ own2[n + 1] = p /\ log2[n + 1] = e
  BY DEF Grown
<1>1. answers \in Seq(Nat) /\ Len(answers) = p - 1 /\ Len(answers) \in Nat
  BY DEF Going
<1>2. \A q \in 1..Len(answers) : Told(body, log2, own2, q, answers[q], n + 1)
  <2>1. n \in 0..n /\ n + 1 \in 0..(n + 1) /\ n <= n + 1
    BY <1>0
  <2>2. \A q \in 1..Len(answers) : Told(body, log, own, q, answers[q], n)
    BY <1>0, <1>1 DEF Going
  <2> QED
    BY <2>1, <2>2, TellsStill
<1>3. p \in Nat /\ n + 1 \in 2..(n + 1) /\ Len(answers) + 1 = p
  BY <1>0, <1>1 DEF Going, Grown
<1> QED
  BY <1>0, <1>1, <1>2, <1>3 DEF Remembered

--------------------------------------------------------------------------------
(* The invariant.                                                              *)

SpentType ==
  spent \in [calls : Nat, strays : Nat, reads : Nat, bodies : Nat, failures : Nat, errors : Nat,
             crashes : Nat]

\* Only a call about to end has COMPLETED, and has yet to commit it.
UnendedInv(own) ==
  \A i \in 2..Len(journal) :
    own[i] = Len(program) + 1 => pc = "end" /\ status = "completed" /\ i > durable

\* The cursor lists the rows of the verb that runs and of those after it; a step's
\* body and a child's launch are at the journal's last row.
CursorInv(own) ==
  /\ pc = "verb" => Lists(pending, From(journal, own, at))
  /\ pc \in {"body", "launch"} =>
       /\ pending = <<>> /\ at \in 1..Len(program) /\ Len(journal) >= 2 /\ own[Len(journal)] = at
       /\ Latest(journal).kind = IF pc = "body" THEN "INTENT" ELSE "CHILD"
  /\ pc = "end" => status \in {"parked", "failed", "completed"}
  /\ pc = "end" /\ status = "completed" => Len(journal) >= 2 /\ own[Len(journal)] = Len(program) + 1

AttemptInv(own) ==
  pc \in {"verb", "body", "launch", "end"} =>
    Going(program, journal, due, own, at, said, draws)

ParkInv(own) ==
  pc \in {"idle", "end"} /\ status \in {"parked", "failed"} =>
    ParkedAt(program, journal, own, at, status)

KeptInv(own) ==
  /\ Finished(journal, durable, own, done)
  /\ GatesApart => Remembered(program, journal, durable, own, kept)

LiveInv(own) ==
  /\ Sound(program, journal, durable, due, own)
  /\ pc \in {"idle", "verb", "body", "launch", "end", "cancel", "hung"}
  /\ pc \in {"idle", "cancel"} => durable = Len(journal)
  /\ UnendedInv(own) /\ AttemptInv(own) /\ CursorInv(own) /\ ParkInv(own) /\ KeptInv(own)

Underway == \E own : LiveInv(own)

\* A run that has ended.
Over ==
  /\ journal \in Seq(JournalRow) /\ Ended(journal) /\ durable = Len(journal)
  /\ pc \in {"idle", "cancel", "hung"}

WorkflowInv ==
  /\ program \in Programs /\ SpentType
  /\ Undisturbed => "diverged" \notin mishap /\ (Over \/ Underway)

LEMMA SameGates == ASSUME UNCHANGED program PROVE GatesApart' <=> GatesApart
  BY DEF GatesApart

--------------------------------------------------------------------------------
(* Verbs.                                                                      *)

\* A verb answers from the journal.
LEMMA AnswerKeeps ==
  ASSUME NEW own, LiveInv(own), pc \in {"verb", "launch"}, at \in 1..Len(program),
         NEW v \in Nat, Answers(v), UNCHANGED <<program, journal, durable, due, status, kept, done>>,
         Passed(program, journal, due, own, at, Len(journal) + 1),
         Told(program, journal, own, at, v, Len(journal)),
         draws' = Draws(program, at + 1), Lists(pending', From(journal, own, at + 1))
  PROVE  LiveInv(own)'
<1>1. Sound(program, journal, durable, due, own)'
  BY DEF LiveInv
<1>2. UnendedInv(own)'
  BY DEF LiveInv, UnendedInv, Answers
<1>3. AttemptInv(own)'
  <2>1. Going(program, journal, due, own, at, said, draws)
    BY DEF LiveInv, AttemptInv
  <2>2. /\ journal # <<>> /\ said \in Seq(Nat) /\ Len(said) = at - 1 /\ at \in Nat /\ at >= 1
        /\ Len(program) \in Nat
    BY <2>1 DEF Going, LiveInv, Sound
  <2>3. PICK s, k : s = Append(said, v) /\ k = at + 1
    OBVIOUS
  <2>4. /\ s \in Seq(Nat) /\ Len(s) = k - 1 /\ s[at] = v /\ \A q \in 1..(at - 1) : s[q] = said[q]
        /\ k \in 1..(Len(program) + 1) /\ k - 1 = at
    BY <2>2, <2>3
  <2>5. ASSUME NEW q \in 1..(k - 1)
        PROVE  /\ Passed(program, journal, due, own, q, Len(journal) + 1)
               /\ Told(program, journal, own, q, s[q], Len(journal))
    <3>1. CASE q = at
      BY <2>4, <3>1
    <3>2. CASE q # at
      <4>1. q \in 1..(at - 1) /\ s[q] = said[q]
        BY <2>2, <2>4, <3>2
      <4> QED
        BY <2>1, <4>1 DEF Going
    <3> QED
      BY <3>1, <3>2
  <2>6. Going(program, journal, due, own, k, s, Draws(program, k))
    BY <2>2, <2>4, <2>5 DEF Going
  <2>7. said' = s /\ at' = k /\ draws' = Draws(program, k)
    BY <2>3 DEF Answers
  <2> QED
    BY <2>6, <2>7 DEF AttemptInv
<1>4. CursorInv(own)'
  BY DEF CursorInv, Answers
<1>5. ParkInv(own)'
  BY DEF ParkInv, Answers
<1>6. KeptInv(own)'
  BY SameGates DEF KeptInv, LiveInv
<1> QED
  BY <1>1, <1>2, <1>3, <1>4, <1>5, <1>6 DEF LiveInv, Answers

\* What is known where a verb runs.
LEMMA AtVerbHas ==
  ASSUME NEW own, LiveInv(own), NEW verb, AtVerb(verb), program \in Seq(Verbs)
  PROVE  /\ Sound(program, journal, durable, due, own)
         /\ Going(program, journal, due, own, at, said, draws)
         /\ Lists(pending, From(journal, own, at))
         /\ at \in 1..Len(program) /\ program[at].verb = verb /\ pc = "verb" /\ Len(program) \in Nat
         /\ program[at] \in Verbs /\ at \in Nat \ {0}
         /\ Len(journal) \in Nat /\ journal # <<>> /\ journal \in Seq(JournalRow)
         /\ draws \in Nat
         /\ draws = Draws(program, at)
<1>1. pc = "verb" /\ at \in DOMAIN program /\ program[at].verb = verb
  BY DEF AtVerb, Verb
<1>2. at \in 1..Len(program) /\ program[at] \in Verbs /\ Len(program) \in Nat /\ at \in Nat \ {0}
  BY <1>1
<1>3. /\ Sound(program, journal, durable, due, own)
      /\ Going(program, journal, due, own, at, said, draws)
      /\ Lists(pending, From(journal, own, at))
  BY <1>1 DEF LiveInv, AttemptInv, CursorInv
<1>4. journal # <<>> /\ draws = Draws(program, at)
  BY <1>3 DEF Going
<1>5. journal \in Seq(JournalRow) /\ Len(journal) \in Nat
  BY <1>3 DEF Sound
<1>6. Draws(program, at) \in Nat
  BY <1>2, DrawsNext
<1> QED
  BY <1>1, <1>2, <1>3, <1>4, <1>5, <1>6

\* The row at the front answers: it is the only one of its verb.
LEMMA FrontAnswers ==
  ASSUME NEW own, LiveInv(own), NEW verb, AtVerb(verb), verb # "random", program \in Seq(Verbs),
         pending # <<>>, NEW v \in Nat, Answers(v), pending' = Tail(pending),
         UNCHANGED <<program, journal, durable, due, draws, status, kept, done>>,
         \A j \in 2..Len(journal) : own[j] = at => j = pending[1],
         Closes(journal, due, pending[1]), Told(program, journal, own, at, v, Len(journal))
  PROVE  Underway'
<1>1. /\ Sound(program, journal, durable, due, own) /\ Lists(pending, From(journal, own, at))
      /\ at \in 1..Len(program) /\ program[at].verb = verb /\ pc = "verb"
      /\ at \in Nat \ {0} /\ Len(journal) \in Nat /\ draws = Draws(program, at)
  BY AtVerbHas
<1>2. own[pending[1]] = at /\ pending[1] \in 2..Len(journal)
  BY <1>1, FrontRow
<1>3. Lists(pending', From(journal, own, at + 1))
  BY <1>1, <1>2, BehindOne
<1>4. Passed(program, journal, due, own, at, Len(journal) + 1)
  BY <1>1, <1>2 DEF Passed
<1>5. draws' = Draws(program, at + 1)
  BY <1>1, DrawsNext
<1> QED
  BY <1>1, <1>3, <1>4, <1>5, AnswerKeeps DEF Underway

LEMMA RandomInv ==
  ASSUME NEW own, LiveInv(own), program \in Seq(Verbs), Random
  PROVE  Underway'
<1>0. AtVerb("random") /\ Answers(draws) /\ draws' = draws + 1 /\ pending' = pending
      /\ UNCHANGED <<program, journal, durable, due, status, kept, done>>
  BY DEF Random, store, history
<1>1. /\ Sound(program, journal, durable, due, own) /\ Lists(pending, From(journal, own, at))
      /\ at \in 1..Len(program) /\ program[at].verb = "random" /\ pc = "verb"
      /\ at \in Nat \ {0} /\ Len(journal) \in Nat /\ draws = Draws(program, at) /\ draws \in Nat
  BY <1>0, AtVerbHas
<1>2. ASSUME NEW j \in 2..Len(journal) PROVE own[j] >= at <=> own[j] >= at + 1
  BY <1>1, RowsOwned DEF Fits
<1>3. From(journal, own, at) = From(journal, own, at + 1)
  BY <1>2 DEF From
<1>4. Lists(pending', From(journal, own, at + 1))
  BY <1>0, <1>1, <1>3
<1>5. draws' = Draws(program, at + 1)
  BY <1>0, <1>1, DrawsNext
<1>6. /\ Passed(program, journal, due, own, at, Len(journal) + 1)
      /\ Told(program, journal, own, at, draws, Len(journal))
  BY <1>1 DEF Passed, Told
<1> QED
  BY <1>0, <1>1, <1>4, <1>5, <1>6, AnswerKeeps DEF Underway

\* A clock read and a child answer from their row.
LEMMA ReplayInv ==
  ASSUME NEW own, LiveInv(own), program \in Seq(Verbs), NEW verb \in {"time", "spawn"},
         AtVerb(verb), pending # <<>>, Answers(Foremost.val), pending' = Tail(pending),
         UNCHANGED <<program, journal, durable, due, draws, status, kept, done>>
  PROVE  Underway'
<1>1. /\ Sound(program, journal, durable, due, own) /\ Lists(pending, From(journal, own, at))
      /\ at \in 1..Len(program) /\ program[at].verb = verb
  BY AtVerbHas
<1>2. PICK i : i = pending[1]
  OBVIOUS
<1>3. i \in 2..Len(journal) /\ own[i] = at /\ Fits(program, journal[i], at)
  BY <1>1, <1>2, FrontRow
<1>4. journal[i].kind \in {"AMBIENT", "CHILD"}
  BY <1>1, <1>3 DEF Fits
<1>5. \A j \in 2..Len(journal) : own[j] = at => j = pending[1]
  BY <1>1, <1>2, <1>4, OnlyRow
<1>6. journal[i].val \in Nat
  <2>1. journal[i] \in JournalRow
    BY <1>1, <1>3, RowsOwned
  <2> QED
    BY <2>1 DEF JournalRow
<1>7. Told(program, journal, own, at, journal[i].val, Len(journal))
  BY <1>3, <1>4 DEF Told
<1>8. Closes(journal, due, i)
  BY <1>4 DEF Closes
<1>9. Answers(journal[i].val)
  BY <1>2 DEF Foremost
<1> QED
  BY <1>2, <1>5, <1>6, <1>7, <1>8, <1>9, FrontAnswers

\* The front row fits the verb that meets it: no verb but the clock's and a gate
\* meets a row of another kind.
LEMMA FrontFits ==
  ASSUME NEW own, LiveInv(own), program \in Seq(Verbs), NEW verb, verb # "random",
         AtVerb(verb), pending # <<>>
  PROVE  /\ pending[1] \in 2..Len(journal) /\ own[pending[1]] = at
         /\ verb = "time" => Foremost.kind = "AMBIENT"
         /\ verb = "spawn" => Foremost.kind = "CHILD" /\ Foremost.of = Verb.of
         /\ verb = "sleep" => Foremost.kind = "TIMER" /\ Foremost.of = {}
         /\ verb = "await" => \/ Foremost.kind = "TIMER" /\ Foremost.of = Verb.of
                              \/ Foremost.kind = "SIGNAL" /\ Foremost.of \subseteq Verb.of
<1>1. /\ Sound(program, journal, durable, due, own) /\ Lists(pending, From(journal, own, at))
      /\ at \in 1..Len(program) /\ program[at].verb = verb
  BY AtVerbHas
<1>2. PICK i : i = pending[1]
  OBVIOUS
<1>3. i \in 2..Len(journal) /\ own[i] = at /\ Fits(program, journal[i], at)
  BY <1>1, <1>2, FrontRow
<1>4. Len(program) \in Nat
  BY <1>1 DEF Sound
<1> QED
  BY <1>1, <1>2, <1>3, <1>4 DEF Fits, Foremost, Verb

LEMMA SleepPasses ==
  ASSUME NEW own, LiveInv(own), program \in Seq(Verbs), AtVerb("sleep"), pending # <<>>,
         pending[1] \in due, Answers(0), pending' = Tail(pending),
         UNCHANGED <<program, journal, durable, due, draws, status, kept, done>>
  PROVE  Underway'
<1>1. /\ Sound(program, journal, durable, due, own) /\ Lists(pending, From(journal, own, at))
      /\ at \in 1..Len(program) /\ program[at].verb = "sleep"
  BY AtVerbHas
<1>2. journal[pending[1]].kind = "TIMER"
  BY FrontFits DEF Foremost
<1>3. Alone(journal, own, at, pending[1])
  BY <1>1, <1>2, SleepAlone, Zenon
<1>4. \A j \in 2..Len(journal) : own[j] = at => j = pending[1]
  BY <1>3 DEF Alone
<1>5. Closes(journal, due, pending[1]) /\ Told(program, journal, own, at, 0, Len(journal))
  BY <1>1 DEF Closes, Told
<1> QED
  BY <1>4, <1>5, FrontAnswers

--------------------------------------------------------------------------------
(* Steps.                                                                      *)

LEMMA WalkedIs ==
  ASSUME pending \in Seq(Nat), NEW k \in 0..Len(pending), \A i \in 1..k : Own(i),
         k < Len(pending) => ~Own(k + 1)
  PROVE  Walked = k
<1>1. Len(pending) \in Nat /\ k \in Nat /\ DOMAIN pending = 1..Len(pending)
  OBVIOUS
<1>2. ASSUME NEW i \in 1..Len(pending) PROVE (\A j \in 1..i : Own(j)) <=> i <= k
  <2>1. CASE i <= k
    BY <1>1, <2>1
  <2>2. CASE ~(i <= k)
    <3>1. k + 1 \in 1..i /\ k < Len(pending)
      BY <1>1, <2>2
    <3> QED
      BY <2>2, <3>1
  <2> QED
    BY <2>1, <2>2
<1>3. {i \in DOMAIN pending : \A j \in 1..i : Own(j)} = 1..k
  BY <1>1, <1>2
<1>4. Cardinality(1..k) = k
  BY <1>1, FS_Interval
<1> QED
  BY <1>3, <1>4 DEF Walked

\* A step that has no result: nothing lies beyond it, and its rows are walked.
StepOpen(own) ==
  /\ Walked = Len(pending) /\ Rest = <<>> /\ ~Decided
  /\ \A j \in 2..Len(journal) :
       own[j] <= at /\ (own[j] = at => journal[j].kind \in {"INTENT", "FAILED"})

\* One that has: the result is found behind the attempts.
StepClosed(own) ==
  /\ Decided /\ Rest[1] \in 2..Len(journal) /\ own[Rest[1]] = at
  /\ Lists(Tail(Rest), From(journal, own, at + 1))

LEMMA StepCases ==
  ASSUME NEW own, LiveInv(own), program \in Seq(Verbs), AtVerb("step")
  PROVE  StepOpen(own) \/ StepClosed(own)
<1>1. /\ Sound(program, journal, durable, due, own) /\ Lists(pending, From(journal, own, at))
      /\ at \in 1..Len(program) /\ program[at].verb = "step" /\ Len(journal) \in Nat
      /\ at \in Nat \ {0}
  BY AtVerbHas
<1>2. pending \in Seq(Nat) /\ Len(pending) \in Nat
  BY <1>1 DEF Lists
<1>3. CASE \A j \in 2..Len(journal) : own[j] = at => journal[j].kind # "RESULT"
  <2>1. ASSUME NEW j \in 2..Len(journal)
        PROVE  /\ own[j] <= at
               /\ own[j] = at => journal[j].kind \in {"INTENT", "FAILED"}
                                 /\ journal[j].of = program[at].of
    BY <1>1, <1>3, Undecided
  <2>2. ASSUME NEW i \in 1..Len(pending) PROVE Own(i)
    <3>1. pending[i] \in 2..Len(journal) /\ own[pending[i]] >= at
      BY <1>1 DEF Lists, From
    <3>2. own[pending[i]] = at
      BY <1>1, <2>1, <3>1, RowsOwned
    <3> QED
      BY <2>1, <3>1, <3>2 DEF Own, Verb
  <2>3. Walked = Len(pending)
    BY <1>2, <2>2, WalkedIs
  <2>4. Rest = <<>>
    <3>1. PICK r, n : r = SubSeq(pending, n + 1, n) /\ n = Len(pending)
      OBVIOUS
    <3>2. r \in Seq(Nat) /\ Len(r) = 0
      BY <1>2, <3>1
    <3>3. r = <<>>
      BY <3>2
    <3> QED
      BY <2>3, <3>1, <3>3 DEF Rest
  <2> QED
    BY <2>1, <2>3, <2>4 DEF StepOpen, Decided
<1>4. CASE ~(\A j \in 2..Len(journal) : own[j] = at => journal[j].kind # "RESULT")
  <2>1. PICK r \in 2..Len(journal) : own[r] = at /\ journal[r].kind = "RESULT"
    BY <1>4
  <2>2. PICK k \in 1..Len(pending) :
          /\ pending[k] = r /\ journal[r].of = program[at].of
          /\ \A i \in 1..(k - 1) : /\ journal[pending[i]].kind \in {"INTENT", "FAILED"}
                                   /\ journal[pending[i]].of = program[at].of
          /\ {x \in From(journal, own, at) : x > r} = From(journal, own, at + 1)
    BY <1>1, <2>1, ResultAt
  <2>3. Walked = k - 1
    <3>1. k - 1 \in 0..Len(pending) /\ (k - 1) + 1 = k
      BY <1>2
    <3>2. \A i \in 1..(k - 1) : Own(i)
      BY <2>2 DEF Own, Verb
    <3>3. ~Own(k)
      BY <2>1, <2>2 DEF Own
    <3> QED
      BY <1>2, <3>1, <3>2, <3>3, WalkedIs
  <2>4. Rest = SubSeq(pending, k, Len(pending))
    <3>1. Walked + 1 = k
      BY <1>2, <2>3
    <3> QED
      BY <3>1 DEF Rest
  <2>5. Rest # <<>> /\ Rest[1] = r /\ Lists(Rest, AtLeast(From(journal, own, at), r))
    <3>1. PICK S, c, m : S = From(journal, own, at) /\ c = pending /\ m = Len(pending)
      OBVIOUS
    <3>2. Lists(c, S) /\ k \in 1..Len(c) /\ Rest = SubSeq(c, k, Len(c)) /\ c[k] = r
      BY <1>1, <2>2, <2>4, <3>1
    <3>3. Rest # <<>> /\ Rest[1] = c[k] /\ Lists(Rest, AtLeast(S, c[k]))
      BY <3>2, ListsFrom
    <3> QED
      BY <3>1, <3>2, <3>3
  <2>6. Lists(Tail(Rest), AtLeast(From(journal, own, at), r) \ {r})
    BY <2>5, ListsTail
  <2>7. AtLeast(From(journal, own, at), r) \ {r} = From(journal, own, at + 1)
    <3>1. \A x \in From(journal, own, at) : (x >= r /\ x # r) <=> x > r
      BY <1>1 DEF From
    <3>2. AtLeast(From(journal, own, at), r) \ {r} = {x \in From(journal, own, at) : x > r}
      BY <3>1 DEF AtLeast
    <3> QED
      BY <2>2, <3>2
  <2>8. Decided
    BY <2>1, <2>2, <2>5 DEF Decided, Verb
  <2> QED
    BY <2>1, <2>5, <2>6, <2>7, <2>8 DEF StepClosed
<1> QED
  BY <1>3, <1>4

LEMMA StepReplaysInv ==
  ASSUME NEW own, LiveInv(own), program \in Seq(Verbs), StepReplays
  PROVE  Underway'
<1>0. /\ AtVerb("step") /\ Decided /\ Answers(journal[Rest[1]].val) /\ pending' = Tail(Rest)
      /\ UNCHANGED <<program, journal, durable, due, draws, status, kept, done>>
  BY DEF StepReplays, store, history
<1>1. /\ Sound(program, journal, durable, due, own) /\ at \in 1..Len(program) /\ pc = "verb"
      /\ program[at].verb = "step" /\ at \in Nat \ {0} /\ draws = Draws(program, at)
      /\ Len(journal) \in Nat
  BY <1>0, AtVerbHas
<1>2. StepClosed(own)
  BY <1>0, StepCases DEF StepOpen
<1>3. PICK r : r = Rest[1]
  OBVIOUS
<1>4. /\ r \in 2..Len(journal) /\ own[r] = at /\ journal[r].kind = "RESULT"
      /\ Lists(pending', From(journal, own, at + 1))
  BY <1>0, <1>2, <1>3 DEF StepClosed, Decided
<1>5. journal[r].val \in Nat
  <2>1. journal[r] \in JournalRow
    BY <1>1, <1>4, RowsOwned
  <2> QED
    BY <2>1 DEF JournalRow
<1>6. /\ Passed(program, journal, due, own, at, Len(journal) + 1)
      /\ Told(program, journal, own, at, journal[r].val, Len(journal))
  BY <1>1, <1>4 DEF Passed, Closes, Told
<1>7. draws' = Draws(program, at + 1)
  BY <1>0, <1>1, DrawsNext
<1> QED
  BY <1>0, <1>1, <1>3, <1>4, <1>5, <1>6, <1>7, AnswerKeeps DEF Underway

--------------------------------------------------------------------------------
(* Rows written by verbs.                                                      *)

LEMMA RowWritten ==
  ASSUME NEW own, LiveInv(own), pc \in {"verb", "body"}, NEW e \in JournalRow,
         RowFits(program, journal, due, own, e, at), journal' = Append(journal, e),
         durable' \in {durable, Len(journal) + 1},
         kept' = kept \/ (kept' = said /\ durable' = Len(journal) + 1)
  PROVE  \E own2 :
           /\ Wrote(journal, own, journal', own2, e, at)
           /\ Sound(program, journal', durable', due, own2)
           /\ Going(program, journal', due, own2, at, said, draws)
           /\ Finished(journal', durable', own2, done)
           /\ GatesApart => Remembered(program, journal', durable', own2, kept')
           /\ Len(journal) \in Nat /\ Len(journal) >= 1 /\ Len(journal') = Len(journal) + 1
           /\ Len(program) \in Nat /\ journal' # <<>>
           /\ own2[Len(journal')] = at /\ journal'[Len(journal')] = e
           /\ \A i \in 2..Len(journal) : own2[i] = own[i] /\ journal'[i] = journal[i]
           /\ \A i \in 2..Len(journal) : own[i] # Len(program) + 1
           /\ \A i \in 2..Len(journal') : own2[i] <= at
<1>1. /\ Sound(program, journal, durable, due, own)
      /\ Going(program, journal, due, own, at, said, draws)
      /\ Finished(journal, durable, own, done)
      /\ GatesApart => Remembered(program, journal, durable, own, kept)
      /\ \A i \in 2..Len(journal) : own[i] # Len(program) + 1
  BY DEF LiveInv, AttemptInv, KeptInv, UnendedInv
<1>2. /\ e.kind # "SIGNAL" /\ at \in Nat /\ journal # <<>>
      /\ \A i \in 2..Len(journal) : own[i] <= at
  BY <1>1 DEF RowFits, Going, Sound
<1>3. PICK own2 : own2 = Owned(own, Len(journal), at)
  OBVIOUS
<1>4. PICK log2, hard2, n : log2 = journal' /\ hard2 = durable' /\ n = Len(journal)
  OBVIOUS
<1>5. Wrote(journal, own, log2, own2, e, at)
  BY <1>2, <1>3, <1>4 DEF Wrote
<1>6. /\ Grown(journal, own, log2, own2, n, e, at)
      /\ n \in Nat /\ n >= 1 /\ Len(log2) = n + 1 /\ log2 # <<>>
      /\ own2[n + 1] = at /\ log2[n + 1] = e
      /\ \A i \in 1..n : own2[i] = own[i] /\ log2[i] = journal[i]
  BY <1>1, <1>4, <1>5, GrownBy
<1>7. hard2 \in {durable, n + 1} /\ durable \in 0..n
  BY <1>1, <1>4 DEF Sound
<1>8. Sound(program, log2, hard2, due, own2)
  BY <1>1, <1>4, <1>5, <1>7, SoundGrows
<1>9. Going(program, log2, due, own2, at, said, draws)
  BY <1>1, <1>2, <1>6, GoingGrows
<1>10. Finished(log2, hard2, own2, done)
  BY <1>1, <1>6, <1>7, FinishedGrows
<1>11. GatesApart => Remembered(program, log2, hard2, own2, kept')
  <2> SUFFICES ASSUME GatesApart PROVE Remembered(program, log2, hard2, own2, kept')
    OBVIOUS
  <2>1. Remembered(program, journal, durable, own, kept)
    BY <1>1
  <2>2. Remembered(program, log2, hard2, own2, kept)
    <3>1. Grown(journal, own, log2, own2, n, e, at) /\ e.kind # "SIGNAL"
      BY <1>2, <1>6
    <3>2. hard2 \in {durable, n + 1} /\ durable \in 0..n
      BY <1>7
    <3>3. ASSUME NEW hard, NEW answers, hard = durable, Remembered(program, journal, hard, own, answers)
          PROVE  Remembered(program, log2, hard2, own2, answers)
      <4>1. hard \in 0..n /\ hard2 \in {hard, n + 1}
        BY <3>2, <3>3
      <4> QED
        BY <3>1, <3>3, <4>1, RememberedGrows, SMTT(30)
    <3> QED
      BY <2>1, <3>3
  <2>3. Remembered(program, log2, n + 1, own2, said)
    BY <1>1, <1>2, <1>6, Remembers
  <2> QED
    BY <1>4, <2>2, <2>3
<1>12. \A i \in 2..(n + 1) : own2[i] <= at
  BY <1>2, <1>4, <1>6
<1>13. Len(program) \in Nat
  BY <1>1 DEF Sound
<1>14. \A i \in 2..n : own2[i] = own[i] /\ log2[i] = journal[i]
  BY <1>6
<1> QED
  BY <1>1, <1>4, <1>5, <1>6, <1>8, <1>9, <1>10, <1>11, <1>12, <1>13, <1>14

\* An attempt goes on past a verb that was answered.
LEMMA GoingOn ==
  ASSUME NEW body, NEW log, NEW late, NEW own, NEW p, NEW answers, NEW n, NEW v \in Nat,
         Len(body) \in Nat, p \in 1..Len(body), Going(body, log, late, own, p, answers, n),
         Passed(body, log, late, own, p, Len(log) + 1), Told(body, log, own, p, v, Len(log)),
         NEW n2, n2 = Draws(body, p + 1)
  PROVE  Going(body, log, late, own, p + 1, Append(answers, v), n2)
<1>1. log # <<>> /\ answers \in Seq(Nat) /\ Len(answers) = p - 1 /\ p \in Nat /\ p >= 1
  BY DEF Going
<1>2. PICK s, k : s = Append(answers, v) /\ k = p + 1
  OBVIOUS
<1>3. /\ s \in Seq(Nat) /\ Len(s) = k - 1 /\ s[p] = v /\ \A q \in 1..(p - 1) : s[q] = answers[q]
      /\ k \in 1..(Len(body) + 1) /\ k - 1 = p
  BY <1>1, <1>2
<1>4. ASSUME NEW q \in 1..(k - 1)
      PROVE  /\ Passed(body, log, late, own, q, Len(log) + 1)
             /\ Told(body, log, own, q, s[q], Len(log))
  <2>1. CASE q = p
    BY <1>3, <2>1
  <2>2. CASE q # p
    <3>1. q \in 1..(p - 1) /\ s[q] = answers[q]
      BY <1>1, <1>3, <2>2
    <3> QED
      BY <3>1 DEF Going
  <2> QED
    BY <2>1, <2>2
<1>5. n2 = Draws(body, k)
  BY <1>2
<1> QED
  BY <1>1, <1>2, <1>3, <1>4, <1>5 DEF Going

\* An empty cursor: the verb is met for the first time, and may write.
LEMMA MayWrite ==
  ASSUME NEW own, LiveInv(own), pc = "verb", pending = <<>>, NEW e, Fits(program, e, at),
         e.kind \notin {"SIGNAL", "FAILED"}
  PROVE  RowFits(program, journal, due, own, e, at)
<1>1. /\ Sound(program, journal, durable, due, own)
      /\ Going(program, journal, due, own, at, said, draws)
      /\ Lists(pending, From(journal, own, at))
  BY DEF LiveInv, AttemptInv, CursorInv
<1>2. From(journal, own, at) = {}
  BY <1>1, ListsNothing
<1>3. at \in 1..(Len(program) + 1) /\ Len(program) \in Nat /\ at \in Nat
  BY <1>1 DEF Going, Sound
<1>4. ASSUME NEW i \in 2..Len(journal) PROVE own[i] < at
  <2>1. ~(own[i] >= at)
    BY <1>2 DEF From
  <2>2. own[i] \in Nat
    BY <1>1, RowsOwned
  <2> QED
    BY <1>3, <2>1, <2>2
<1>5. \A i \in 2..Len(journal) : own[i] <= at /\ own[i] # at
  <2>1. \A i \in 2..Len(journal) : own[i] \in Nat
    BY <1>1, RowsOwned
  <2> QED
    BY <1>3, <1>4, <2>1
<1>6. \A q \in 1..(at - 1) : Passed(program, journal, due, own, q, Len(journal) + 1)
  BY <1>1 DEF Going
<1> QED
  BY <1>3, <1>5, <1>6 DEF RowFits

\* A verb writes its row and the call is over.
LEMMA WritesAndParks ==
  ASSUME NEW own, LiveInv(own), pc \in {"verb", "body"}, NEW e \in JournalRow,
         RowFits(program, journal, due, own, e, at), journal' = Append(journal, e),
         durable' = Len(journal) + 1, kept' = said, pc' = "end", at \in 1..Len(program),
         UNCHANGED <<program, due, at, said, draws, done>>, status' \in {"parked", "failed"},
         \/ program[at].verb \in {"sleep", "await"} /\ status' = "parked"
         \/ /\ program[at].verb = "step" /\ e.kind = "FAILED"
            /\ (status' = "failed") <=> (e.val = 1)
  PROVE  Underway'
<1>1. PICK own2 :
           /\ Wrote(journal, own, journal', own2, e, at)
           /\ Sound(program, journal', durable', due, own2)
           /\ Going(program, journal', due, own2, at, said, draws)
           /\ Finished(journal', durable', own2, done)
           /\ GatesApart => Remembered(program, journal', durable', own2, kept')
           /\ Len(journal) \in Nat /\ Len(journal) >= 1 /\ Len(journal') = Len(journal) + 1
           /\ Len(program) \in Nat /\ journal' # <<>>
           /\ own2[Len(journal')] = at /\ journal'[Len(journal')] = e
           /\ \A i \in 2..Len(journal) : own2[i] = own[i] /\ journal'[i] = journal[i]
           /\ \A i \in 2..Len(journal) : own[i] # Len(program) + 1
           /\ \A i \in 2..Len(journal') : own2[i] <= at
  BY RowWritten
<1>2. UnendedInv(own2)'
  <2>1. \A i \in 2..Len(journal') : own2[i] # Len(program) + 1
    <3>1. \A i \in 2..Len(journal') : own2[i] \in Nat
      BY <1>1, RowsOwned
    <3> QED
      BY <1>1, <3>1
  <2> QED
    BY <2>1 DEF UnendedInv
<1>3. AttemptInv(own2)'
  BY <1>1 DEF AttemptInv
<1>4. CursorInv(own2)'
  BY DEF CursorInv
<1>5. ParkInv(own2)'
  <2>1. e.kind # "SIGNAL"
    BY DEF RowFits
  <2>2. Len(journal') \in 2..Len(journal')
    BY <1>1
  <2>3. ParkedAt(program, journal', own2, at, status')
    BY <1>1, <2>1, <2>2 DEF ParkedAt, Latest
  <2> QED
    BY <2>3 DEF ParkInv
<1>6. KeptInv(own2)'
  BY <1>1, SameGates DEF KeptInv
<1> QED
  BY <1>1, <1>2, <1>3, <1>4, <1>5, <1>6 DEF LiveInv, Underway

\* A verb writes its row and answers with it.
LEMMA WritesAndAnswers ==
  ASSUME NEW own, LiveInv(own), pc \in {"verb", "body"}, NEW e \in JournalRow,
         RowFits(program, journal, due, own, e, at), journal' = Append(journal, e),
         at \in 1..Len(program), program[at].verb # "random", pending' = <<>>,
         Answers(e.val), UNCHANGED <<program, due, draws, status>>,
         \/ e.kind = "AMBIENT" /\ UNCHANGED <<durable, kept, done>>
         \/ /\ e.kind = "RESULT" /\ durable' = Len(journal) + 1 /\ kept' = said
            /\ done' = done \cup {at}
  PROVE  Underway'
<1>1. PICK own2 :
           /\ Wrote(journal, own, journal', own2, e, at)
           /\ Sound(program, journal', durable', due, own2)
           /\ Going(program, journal', due, own2, at, said, draws)
           /\ Finished(journal', durable', own2, done)
           /\ GatesApart => Remembered(program, journal', durable', own2, kept')
           /\ Len(journal) \in Nat /\ Len(journal) >= 1 /\ Len(journal') = Len(journal) + 1
           /\ Len(program) \in Nat /\ journal' # <<>>
           /\ own2[Len(journal')] = at /\ journal'[Len(journal')] = e
           /\ \A i \in 2..Len(journal) : own2[i] = own[i] /\ journal'[i] = journal[i]
           /\ \A i \in 2..Len(journal) : own[i] # Len(program) + 1
           /\ \A i \in 2..Len(journal') : own2[i] <= at
  BY RowWritten
<1>2. PICK log2, m : log2 = journal' /\ m = Len(journal')
  OBVIOUS
<1>3. /\ m \in Nat /\ m \in 2..m /\ own2[m] = at /\ log2[m] = e /\ Len(log2) = m /\ at \in Nat \ {0}
      /\ \A i \in 2..m : own2[i] <= at /\ own2[i] \in Nat
  <2>1. \A i \in 2..Len(journal') : own2[i] \in Nat
    BY <1>1, RowsOwned
  <2> QED
    BY <1>1, <1>2, <2>1
<1>4. UnendedInv(own2)'
  <2>1. \A i \in 2..Len(journal') : own2[i] # Len(program) + 1
    BY <1>1, <1>2, <1>3
  <2> QED
    BY <2>1 DEF UnendedInv
<1>5. AttemptInv(own2)'
  <2>1. Passed(program, log2, due, own2, at, m + 1)
    <3>1. m \in 2..((m + 1) - 1) /\ Closes(log2, due, m)
      BY <1>3 DEF Closes
    <3> QED
      BY <1>3, <3>1 DEF Passed
  <2>2. Told(program, log2, own2, at, e.val, m)
    BY <1>3 DEF Told
  <2>3. e.val \in Nat
    BY DEF JournalRow
  <2>4. draws = Draws(program, at + 1)
    BY <1>1, <1>3, DrawsNext DEF Going
  <2>5. Going(program, log2, due, own2, at + 1, Append(said, e.val), draws)
    <3>1. Going(program, log2, due, own2, at, said, draws)
      BY <1>1, <1>2
    <3>2. Passed(program, log2, due, own2, at, Len(log2) + 1)
      BY <1>3, <2>1
    <3>3. Told(program, log2, own2, at, e.val, Len(log2))
      BY <1>3, <2>2
    <3>4. Len(program) \in Nat
      BY <1>1
    <3> QED
      BY <2>3, <2>4, <3>1, <3>2, <3>3, <3>4, GoingOn
  <2>6. said' = Append(said, e.val) /\ at' = at + 1
    BY DEF Answers
  <2> QED
    BY <1>2, <2>5, <2>6 DEF AttemptInv
<1>6. CursorInv(own2)'
  <2>1. ASSUME NEW i \in 2..m PROVE ~(own2[i] >= at + 1)
    BY <1>3
  <2>2. From(log2, own2, at + 1) = {}
    BY <1>3, <2>1 DEF From
  <2>3. Lists(<<>>, From(log2, own2, at + 1))
    BY <2>2, ListsNothing
  <2>4. pc' = "verb" /\ at' = at + 1
    BY DEF Answers
  <2> QED
    BY <1>2, <2>3, <2>4 DEF CursorInv
<1>7. ParkInv(own2)'
  BY DEF ParkInv, Answers
<1>8. KeptInv(own2)'
  <2>1. Finished(log2, durable', own2, done')
    <3>1. CASE done' = done
      BY <1>1, <1>2, <3>1
    <3>2. CASE e.kind = "RESULT" /\ durable' = Len(journal) + 1 /\ done' = done \cup {at}
      <4>1. durable' = m
        BY <1>1, <1>2, <3>2
      <4> QED
        BY <1>1, <1>2, <1>3, <3>2, <4>1, SMTT(30) DEF Finished
    <3> QED
      BY <3>1, <3>2
  <2> QED
    BY <1>1, <1>2, <2>1, SameGates DEF KeptInv
<1> QED
  BY <1>1, <1>4, <1>5, <1>6, <1>7, <1>8 DEF LiveInv, Underway, Answers

\* A verb writes its row and waits for the body of a step or the start of a child.
LEMMA WritesAndWaits ==
  ASSUME NEW own, LiveInv(own), pc = "verb", NEW e \in JournalRow,
         RowFits(program, journal, due, own, e, at), journal' = Append(journal, e),
         durable' = Len(journal) + 1, kept' = said, at \in 1..Len(program), pending' = <<>>,
         UNCHANGED <<program, due, at, said, draws, status, done>>,
         (pc' = "body" /\ e.kind = "INTENT") \/ (pc' = "launch" /\ e.kind = "CHILD")
  PROVE  Underway'
<1>1. PICK own2 :
           /\ Wrote(journal, own, journal', own2, e, at)
           /\ Sound(program, journal', durable', due, own2)
           /\ Going(program, journal', due, own2, at, said, draws)
           /\ Finished(journal', durable', own2, done)
           /\ GatesApart => Remembered(program, journal', durable', own2, kept')
           /\ Len(journal) \in Nat /\ Len(journal) >= 1 /\ Len(journal') = Len(journal) + 1
           /\ Len(program) \in Nat /\ journal' # <<>>
           /\ own2[Len(journal')] = at /\ journal'[Len(journal')] = e
           /\ \A i \in 2..Len(journal) : own2[i] = own[i] /\ journal'[i] = journal[i]
           /\ \A i \in 2..Len(journal) : own[i] # Len(program) + 1
           /\ \A i \in 2..Len(journal') : own2[i] <= at
  BY RowWritten
<1>2. UnendedInv(own2)'
  <2>1. \A i \in 2..Len(journal') : own2[i] # Len(program) + 1
    <3>1. \A i \in 2..Len(journal') : own2[i] \in Nat
      BY <1>1, RowsOwned
    <3> QED
      BY <1>1, <3>1
  <2> QED
    BY <2>1 DEF UnendedInv
<1>3. AttemptInv(own2)'
  BY <1>1 DEF AttemptInv
<1>4. CursorInv(own2)'
  <2>1. Len(journal') >= 2 /\ Latest(journal') = e
    BY <1>1 DEF Latest
  <2> QED
    BY <1>1, <2>1 DEF CursorInv
<1>5. ParkInv(own2)'
  BY DEF ParkInv
<1>6. KeptInv(own2)'
  BY <1>1, SameGates DEF KeptInv
<1> QED
  BY <1>1, <1>2, <1>3, <1>4, <1>5, <1>6 DEF LiveInv, Underway

\* The body returns.
LEMMA CompleteInv ==
  ASSUME NEW own, LiveInv(own), program \in Seq(Verbs), Complete
  PROVE  Underway'
<1>0. /\ pc = "verb" /\ at > Len(program) /\ journal' = Append(journal, Entry("COMPLETED", {}, 0))
      /\ pc' = "end" /\ status' = "completed"
      /\ UNCHANGED <<program, durable, due, at, draws, said, kept, done>>
  BY DEF Complete, Unwind, attempt
<1>1. PICK e : e = Entry("COMPLETED", {}, 0)
  OBVIOUS
<1>2. e \in JournalRow /\ e.kind = "COMPLETED"
  BY <1>1 DEF JournalRow, Tags, Entry, Kinds
<1>3. Going(program, journal, due, own, at, said, draws)
  BY <1>0 DEF LiveInv, AttemptInv
<1>4. at = Len(program) + 1 /\ Len(program) \in Nat
  BY <1>0, <1>3 DEF Going
<1>5. Fits(program, e, at)
  BY <1>2, <1>4 DEF Fits
<1>6. RowFits(program, journal, due, own, e, at)
  <2>1. Sound(program, journal, durable, due, own) /\ Lists(pending, From(journal, own, at))
    BY <1>0 DEF LiveInv, CursorInv
  <2>2. ASSUME NEW i \in 2..Len(journal) PROVE ~(own[i] >= at)
    <3>1. own[i] # Len(program) + 1
      BY <1>0 DEF LiveInv, UnendedInv
    <3> QED
      BY <1>4, <2>1, <3>1, RowsOwned
  <2>3. From(journal, own, at) = {}
    BY <2>2 DEF From
  <2>4. pending = <<>>
    BY <2>1, <2>3, ListsTail
  <2> QED
    BY <1>0, <1>2, <1>5, <2>4, MayWrite
<1>7. PICK own2 :
           /\ Wrote(journal, own, journal', own2, e, at)
           /\ Sound(program, journal', durable', due, own2)
           /\ Going(program, journal', due, own2, at, said, draws)
           /\ Finished(journal', durable', own2, done)
           /\ GatesApart => Remembered(program, journal', durable', own2, kept')
           /\ Len(journal) \in Nat /\ Len(journal) >= 1 /\ Len(journal') = Len(journal) + 1
           /\ Len(program) \in Nat /\ journal' # <<>>
           /\ own2[Len(journal')] = at /\ journal'[Len(journal')] = e
           /\ \A i \in 2..Len(journal) : own2[i] = own[i] /\ journal'[i] = journal[i]
           /\ \A i \in 2..Len(journal) : own[i] # Len(program) + 1
           /\ \A i \in 2..Len(journal') : own2[i] <= at
  BY <1>0, <1>1, <1>2, <1>6, RowWritten
<1>8. UnendedInv(own2)'
  <2>1. ASSUME NEW i \in 2..Len(journal'), own2[i] = Len(program) + 1 PROVE i > durable
    <3>1. i = Len(journal')
      BY <1>7, <2>1
    <3>2. durable \in 0..Len(journal)
      BY DEF LiveInv, Sound
    <3> QED
      BY <1>7, <3>1, <3>2
  <2> QED
    BY <1>0, <2>1 DEF UnendedInv
<1>9. AttemptInv(own2)' /\ ParkInv(own2)'
  BY <1>0, <1>7 DEF AttemptInv, ParkInv
<1>10. CursorInv(own2)'
  BY <1>0, <1>4, <1>7 DEF CursorInv
<1>11. KeptInv(own2)'
  BY <1>0, <1>7, SameGates DEF KeptInv
<1> QED
  BY <1>0, <1>7, <1>8, <1>9, <1>10, <1>11 DEF LiveInv, Underway

LEMMA TimeInv ==
  ASSUME NEW own, LiveInv(own), program \in Seq(Verbs), NEW v \in Nat, Time(v)
  PROVE  Underway'
<1>0. /\ AtVerb("time") /\ Ambient(v)
      /\ UNCHANGED <<program, durable, due, draws, status, kept, done>>
  BY DEF Time, history
<1>1. /\ at \in 1..Len(program) /\ program[at].verb = "time" /\ pc = "verb"
  BY <1>0, AtVerbHas
<1>2. CASE pending # <<>>
  <2>1. Foremost.kind = "AMBIENT"
    BY <1>0, <1>2, FrontFits
  <2>2. Answers(Foremost.val) /\ pending' = Tail(pending) /\ UNCHANGED journal
    BY <1>0, <1>2, <2>1 DEF Ambient
  <2> QED
    BY <1>0, <1>2, <2>2, ReplayInv
<1>3. CASE pending = <<>>
  <2>1. PICK e : e = Entry("AMBIENT", {}, v)
    OBVIOUS
  <2>2. e \in JournalRow /\ e.kind = "AMBIENT" /\ e.val = v
    BY <2>1 DEF JournalRow, Tags, Entry, Kinds
  <2>3. Answers(e.val) /\ journal' = Append(journal, e) /\ pending' = <<>>
    BY <1>0, <1>3, <2>1, <2>2 DEF Ambient
  <2>4. Fits(program, e, at)
    BY <1>1, <2>2 DEF Fits
  <2>5. RowFits(program, journal, due, own, e, at)
    BY <1>1, <1>3, <2>2, <2>4, MayWrite
  <2> QED
    BY <1>0, <1>1, <2>2, <2>3, <2>5, WritesAndAnswers
<1> QED
  BY <1>2, <1>3

LEMMA SeenNat == ASSUME Walked \in Nat PROVE Seen \in Nat
<1>1. IsFiniteSet(1..Walked)
  BY FS_Interval
<1>2. {i \in 1..Walked : journal[pending[i]].kind = "INTENT"} \subseteq 1..Walked
  OBVIOUS
<1> QED
  BY <1>1, <1>2, FS_Subset, FS_CardinalityType DEF Seen

LEMMA StepRunsInv ==
  ASSUME NEW own, LiveInv(own), program \in Seq(Verbs), StepRuns
  PROVE  Underway'
<1>0. /\ AtVerb("step") /\ ~Decided /\ pending' = Rest
      /\ journal' = Append(journal, Entry("INTENT", Verb.of, IF Blocked THEN 1 ELSE Seen + 1))
      /\ durable' = Len(journal) + 1 /\ kept' = said /\ pc' = "body"
      /\ UNCHANGED <<program, due, at, draws, said, done, status>>
  BY DEF StepRuns, Journal
<1>1. /\ at \in 1..Len(program) /\ program[at].verb = "step" /\ pc = "verb"
      /\ Going(program, journal, due, own, at, said, draws) /\ program[at] \in Verbs
      /\ Lists(pending, From(journal, own, at)) /\ Len(program) \in Nat
  BY <1>0, AtVerbHas
<1>2. StepOpen(own)
  BY <1>0, StepCases DEF StepClosed
<1>3. PICK k : k = IF Blocked THEN 1 ELSE Seen + 1
  OBVIOUS
<1>4. k \in Nat
  <2>1. Walked \in Nat
    BY <1>1, <1>2 DEF StepOpen, Lists
  <2> QED
    BY <1>3, <2>1, SeenNat
<1>5. PICK e : e = Entry("INTENT", Verb.of, k)
  OBVIOUS
<1>6. e \in JournalRow /\ e.kind = "INTENT" /\ e.of = program[at].of
  BY <1>1, <1>4, <1>5 DEF JournalRow, Tags, Entry, Kinds, Verbs, Verb
<1>7. Fits(program, e, at)
  BY <1>1, <1>6 DEF Fits
<1>8. RowFits(program, journal, due, own, e, at)
  <2>1. \A q \in 1..(at - 1) : Passed(program, journal, due, own, q, Len(journal) + 1)
    BY <1>1 DEF Going
  <2>2. at \in 1..(Len(program) + 1)
    BY <1>1
  <2> QED
    BY <1>2, <1>6, <1>7, <2>1, <2>2 DEF RowFits, StepOpen
<1>9. journal' = Append(journal, e) /\ pending' = <<>>
  BY <1>0, <1>2, <1>3, <1>5 DEF StepOpen
<1> QED
  BY <1>0, <1>1, <1>6, <1>8, <1>9, WritesAndWaits

\* Inside a step, its row is the last.
LEMMA BodyHas ==
  ASSUME NEW own, LiveInv(own), program \in Seq(Verbs), pc = "body", NEW e \in JournalRow,
         e.kind \in {"RESULT", "FAILED"}, e.of = Verb.of
  PROVE  /\ at \in 1..Len(program) /\ program[at].verb = "step" /\ pending = <<>>
         /\ RowFits(program, journal, due, own, e, at)
         /\ journal \in Seq(JournalRow) /\ Len(journal) >= 2 /\ journal[Len(journal)].kind = "INTENT"
<1>0. /\ Sound(program, journal, durable, due, own)
      /\ Going(program, journal, due, own, at, said, draws)
  BY DEF LiveInv, AttemptInv
<1>1. PICK n : n = Len(journal)
  OBVIOUS
<1>2. /\ pending = <<>> /\ at \in 1..Len(program) /\ n >= 2 /\ own[n] = at
      /\ journal[n].kind = "INTENT"
  BY <1>1 DEF LiveInv, CursorInv, Latest
<1>3. n \in Nat /\ journal \in Seq(JournalRow) /\ Len(program) \in Nat /\ n \in 2..Len(journal)
  BY <1>0, <1>1, <1>2 DEF Sound
<1>4. program[at].verb = "step" /\ journal[n].of = program[at].of
  <2>1. Fits(program, journal[n], at)
    BY <1>0, <1>2, <1>3, RowsOwned
  <2> QED
    BY <1>2, <1>3, <2>1 DEF Fits
<1>5. ASSUME NEW i \in 2..Len(journal)
      PROVE  own[i] <= at /\ (own[i] = at => journal[i].kind \in {"INTENT", "FAILED"})
  <2>1. CASE i = n
    BY <1>2, <1>3, <2>1
  <2>2. CASE i # n
    <3>1. i < n
      BY <1>1, <1>3, <2>2
    <3> QED
      BY <1>0, <1>2, <1>3, <3>1, Pairs
  <2> QED
    BY <2>1, <2>2
<1>6. Fits(program, e, at)
  BY <1>2, <1>4 DEF Fits, Verb
<1>7. at \in 1..(Len(program) + 1)
  BY <1>2, <1>3
<1>8. \A q \in 1..(at - 1) : Passed(program, journal, due, own, q, Len(journal) + 1)
  BY <1>0 DEF Going
<1>9. \E i \in 2..Len(journal) : own[i] = at /\ journal[i].kind = "INTENT"
  BY <1>2, <1>3
<1>10. RowFits(program, journal, due, own, e, at)
  BY <1>5, <1>6, <1>7, <1>8, <1>9 DEF RowFits
<1> QED
  BY <1>1, <1>2, <1>3, <1>4, <1>10

LEMMA BodySucceedsInv ==
  ASSUME NEW own, LiveInv(own), program \in Seq(Verbs), SpentType, BodySucceeds
  PROVE  Underway'
<1>0. /\ pc = "body" /\ journal' = Append(journal, Entry("RESULT", Verb.of, spent.bodies))
      /\ durable' = Len(journal) + 1 /\ kept' = said /\ Answers(spent.bodies)
      /\ done' = done \cup {at}
      /\ UNCHANGED <<program, due, pending, draws, status>>
  BY DEF BodySucceeds, Journal
<1>1. at \in 1..Len(program) /\ program[at] \in Verbs
  BY <1>0 DEF LiveInv, CursorInv
<1>2. PICK e : e = Entry("RESULT", Verb.of, spent.bodies)
  OBVIOUS
<1>3. e \in JournalRow /\ e.kind = "RESULT" /\ e.of = Verb.of /\ e.val = spent.bodies
  BY <1>1, <1>2 DEF JournalRow, Tags, Entry, Kinds, Verbs, Verb, SpentType
<1>4. /\ program[at].verb = "step" /\ pending = <<>>
      /\ RowFits(program, journal, due, own, e, at)
  BY <1>0, <1>3, BodyHas
<1> QED
  BY <1>0, <1>1, <1>2, <1>3, <1>4, WritesAndAnswers

LEMMA BodyFailsInv ==
  ASSUME NEW own, LiveInv(own), program \in Seq(Verbs), BodyFails
  PROVE  Underway'
<1>0. /\ pc = "body"
      /\ journal' = Append(journal, Entry("FAILED", Verb.of, IF Attempt >= Verb.tries THEN 1 ELSE 0))
      /\ durable' = Len(journal) + 1 /\ kept' = said /\ pc' = "end"
      /\ \/ Attempt >= Verb.tries /\ status' = "failed"
         \/ Attempt < Verb.tries /\ status' = "parked"
      /\ UNCHANGED <<program, due, at, said, draws, done>>
  BY DEF BodyFails, Journal, Unwind, Arm, attempt
<1>1. at \in 1..Len(program) /\ program[at] \in Verbs
  BY <1>0 DEF LiveInv, CursorInv
<1>2. PICK k : k = IF Attempt >= Verb.tries THEN 1 ELSE 0
  OBVIOUS
<1>3. PICK e : e = Entry("FAILED", Verb.of, k)
  OBVIOUS
<1>4. e \in JournalRow /\ e.kind = "FAILED" /\ e.of = Verb.of /\ e.val = k
  BY <1>1, <1>2, <1>3 DEF JournalRow, Tags, Entry, Kinds, Verbs, Verb
<1>5. /\ program[at].verb = "step" /\ RowFits(program, journal, due, own, e, at)
      /\ journal \in Seq(JournalRow) /\ Len(journal) >= 2 /\ journal[Len(journal)].kind = "INTENT"
  BY <1>0, <1>4, BodyHas
<1>6. Attempt \in Nat /\ Verb.tries \in Nat
  <2>1. PICK S, n : S = {i \in DOMAIN journal : journal[i].kind = "INTENT"} /\ n = Len(journal)
    OBVIOUS
  <2>2. n \in S /\ S \subseteq Nat /\ \A y \in S : n >= y
    BY <1>5, <2>1
  <2>3. Max(S) \in S
    BY <2>2 DEF Max
  <2>4. journal[Max(S)] \in JournalRow
    BY <1>5, <2>1, <2>3
  <2> QED
    BY <1>1, <2>1, <2>4 DEF Attempt, JournalRow, Verbs, Verb
<1>7. (status' = "failed") <=> (e.val = 1)
  BY <1>0, <1>2, <1>4, <1>6
<1>8. journal' = Append(journal, e)
  BY <1>0, <1>2, <1>3
<1>9. status' \in {"parked", "failed"}
  BY <1>0
<1> QED
  BY <1>0, <1>1, <1>4, <1>5, <1>7, <1>8, <1>9, WritesAndParks

\* A verb parks again at the row it has written before.
LEMMA Reparks ==
  ASSUME NEW own, LiveInv(own), pc = "verb", pc' = "end", status' \in {"parked", "failed"},
         UNCHANGED <<program, journal, durable, due, at, said, draws, kept, done>>,
         ParkedAt(program, journal, own, at, status')
  PROVE  Underway'
<1>1. Sound(program, journal, durable, due, own)'
  BY DEF LiveInv
<1>2. UnendedInv(own)'
  BY DEF LiveInv, UnendedInv
<1>3. AttemptInv(own)'
  BY DEF LiveInv, AttemptInv
<1>4. CursorInv(own)' /\ ParkInv(own)'
  BY DEF CursorInv, ParkInv
<1>5. KeptInv(own)'
  BY SameGates DEF LiveInv, KeptInv
<1> QED
  BY <1>1, <1>2, <1>3, <1>4, <1>5 DEF LiveInv, Underway

LEMMA StepBlockedInv ==
  ASSUME NEW own, LiveInv(own), program \in Seq(Verbs), StepBlocked
  PROVE  Underway'
<1>0. /\ AtVerb("step") /\ Blocked /\ pc' = "end" /\ status' = "failed"
      /\ UNCHANGED <<program, journal, durable, due, at, said, draws, kept, done>>
  BY DEF StepBlocked, Unwind, store, attempt
<1>1. /\ Sound(program, journal, durable, due, own) /\ Lists(pending, From(journal, own, at))
      /\ at \in 1..Len(program) /\ program[at].verb = "step" /\ pc = "verb" /\ at \in Nat \ {0}
      /\ Len(journal) \in Nat /\ journal # <<>> /\ journal \in Seq(JournalRow)
  BY <1>0, AtVerbHas
<1>2. StepOpen(own)
  BY <1>0, StepCases DEF StepClosed, Blocked, Decided
<1>3. PICK k, n : k = Len(pending) /\ n = Len(journal)
  OBVIOUS
<1>4. k \in Nat /\ k > 0 /\ journal[pending[k]].kind = "FAILED" /\ journal[pending[k]].val = 1
  BY <1>0, <1>1, <1>2, <1>3 DEF Blocked, StepOpen, Lists
<1>5. PICK x : x = pending[k]
  OBVIOUS
<1>6. x \in 2..n /\ own[x] = at /\ x \in Nat
  <2>1. k \in 1..Len(pending)
    BY <1>3, <1>4
  <2>2. x \in 2..n /\ own[x] >= at
    BY <1>1, <1>3, <1>5, <2>1 DEF Lists, From
  <2>3. own[x] <= at /\ own[x] \in Nat
    BY <1>1, <1>2, <1>3, <2>2, RowsOwned DEF StepOpen
  <2> QED
    BY <1>1, <2>2, <2>3
<1>7. ASSUME journal[n].kind # "SIGNAL" PROVE x = n
  <2>1. n \in 2..Len(journal)
    BY <1>1, <1>3, <1>6
  <2>2. own[x] <= own[n]
    <3>1. x = n \/ x < n
      BY <1>1, <1>3, <1>6
    <3> QED
      BY <1>1, <1>3, <1>6, <1>7, <2>1, <3>1, Pairs, RowsOwned
  <2>3. n \in From(journal, own, at)
    BY <1>6, <2>1, <2>2, RowsOwned DEF From
  <2>4. PICK i \in 1..k : pending[i] = n
    BY <1>1, <1>3, <2>3 DEF Lists
  <2>5. i = k \/ i < k
    BY <1>4
  <2>6. CASE i < k
    <3>1. pending[i] < pending[k]
      BY <1>1, <1>3, <1>4, <2>6 DEF Lists
    <3> QED
      BY <1>1, <1>3, <1>5, <1>6, <2>4, <3>1
  <2> QED
    BY <1>5, <2>4, <2>5, <2>6
<1>8. ParkedAt(program, journal, own, at, status')
  <2>1. \A i \in 2..Len(journal) : own[i] <= at
    BY <1>2 DEF StepOpen
  <2>2. \E i \in 2..Len(journal) : own[i] = at /\ journal[i].kind # "SIGNAL"
    BY <1>3, <1>4, <1>5, <1>6
  <2>3. Latest(journal).kind # "SIGNAL" =>
          Latest(journal).kind = "FAILED" /\ ((status' = "failed") <=> (Latest(journal).val = 1))
    BY <1>0, <1>3, <1>4, <1>5, <1>7 DEF Latest
  <2> QED
    BY <1>1, <2>1, <2>2, <2>3 DEF ParkedAt
<1>9. status' \in {"parked", "failed"}
  BY <1>0
<1> QED
  BY <1>0, <1>1, <1>8, <1>9, Reparks

LEMMA SleepInv ==
  ASSUME NEW own, LiveInv(own), program \in Seq(Verbs), Sleep
  PROVE  Underway'
<1>0. AtVerb("sleep") /\ UNCHANGED <<program, due, done>>
  BY DEF Sleep
<1>1. /\ Sound(program, journal, durable, due, own) /\ Lists(pending, From(journal, own, at))
      /\ at \in 1..Len(program) /\ program[at].verb = "sleep" /\ pc = "verb" /\ at \in Nat \ {0}
      /\ Len(journal) \in Nat /\ journal # <<>>
  BY <1>0, AtVerbHas
<1>2. CASE /\ pending = <<>> /\ Journal(Entry("TIMER", {}, Timed)) /\ Unwind("parked")
           /\ UNCHANGED attempt
  <2>1. PICK e : e = Entry("TIMER", {}, Timed)
    OBVIOUS
  <2>2. e \in JournalRow /\ e.kind = "TIMER" /\ e.of = {}
    BY <2>1 DEF JournalRow, Tags, Entry, Kinds, Timed
  <2>3. Fits(program, e, at)
    BY <1>1, <2>2 DEF Fits
  <2>4. RowFits(program, journal, due, own, e, at)
    BY <1>1, <1>2, <2>2, <2>3, MayWrite
  <2>5. /\ journal' = Append(journal, e) /\ durable' = Len(journal) + 1 /\ kept' = said
        /\ pc' = "end" /\ status' = "parked" /\ UNCHANGED <<at, said, draws>>
    BY <1>2, <2>1 DEF Journal, Unwind, attempt
  <2>6. program[at].verb \in {"sleep", "await"} /\ status' \in {"parked", "failed"}
    BY <1>1, <2>5
  <2> QED
    BY <1>0, <1>1, <2>2, <2>4, <2>5, <2>6, WritesAndParks
<1>3. CASE /\ pending # <<>> /\ pending[1] \in due /\ Answers(0) /\ pending' = Tail(pending)
           /\ UNCHANGED <<store, draws, kept, status>>
  <2>1. UNCHANGED <<program, journal, durable, due, draws, status, kept, done>>
    BY <1>0, <1>3 DEF store
  <2> QED
    BY <1>0, <1>3, <2>1, SleepPasses
<1>4. CASE /\ pending # <<>> /\ pending[1] \notin due /\ Unwind("parked")
           /\ UNCHANGED <<journal, durable, attempt, kept>>
  <2>1. pending[1] \in 2..Len(journal) /\ own[pending[1]] = at /\ journal[pending[1]].kind = "TIMER"
    BY <1>0, <1>4, FrontFits DEF Foremost
  <2>2. ASSUME NEW j \in 2..Len(journal), own[j] = at PROVE journal[j].kind = "TIMER"
    BY <1>1, <2>2, RowsOwned DEF Fits
  <2>3. \A j \in 2..Len(journal) : own[j] = at => j = pending[1]
    <3>1. /\ Sound(program, journal, durable, due, own) /\ Lists(pending, From(journal, own, at))
          /\ at \in 1..Len(program) /\ program[at].verb = "sleep" /\ pending # <<>>
      BY <1>1, <1>4
    <3>2. Alone(journal, own, at, pending[1])
      BY <2>1, <3>1, SleepAlone, Zenon
    <3> QED
      BY <3>2 DEF Alone
  <2>4. ASSUME NEW i \in 2..Len(journal) PROVE own[i] <= at \/ journal[i].kind = "SIGNAL"
    <3> SUFFICES ASSUME ~(own[i] <= at), journal[i].kind # "SIGNAL" PROVE FALSE
      OBVIOUS
    <3>1. own[i] > at /\ program[at].verb # "random"
      BY <1>1, RowsOwned
    <3>2. PICK j \in 2..(i - 1) : own[j] = at /\ Closes(journal, due, j)
      BY <1>1, <3>1, Beyond
    <3>3. j \in 2..Len(journal)
      BY <1>1
    <3>4. journal[j].kind = "TIMER" /\ j = pending[1]
      BY <2>2, <2>3, <3>2, <3>3
    <3> QED
      BY <1>4, <3>2, <3>4 DEF Closes
  <2>5. pc' = "end" /\ status' = "parked" /\ UNCHANGED <<at, said, draws>>
    BY <1>4 DEF Unwind, attempt
  <2>6. \E i \in 2..Len(journal) : own[i] = at /\ journal[i].kind # "SIGNAL"
    BY <2>1
  <2>7. ParkedAt(program, journal, own, at, status')
    BY <1>1, <2>4, <2>5, <2>6 DEF ParkedAt
  <2>8. status' \in {"parked", "failed"}
    BY <2>5
  <2> QED
    BY <1>0, <1>1, <1>4, <2>5, <2>7, <2>8, Reparks
<1> QED
  BY <1>2, <1>3, <1>4 DEF Sleep

LEMMA SpawnInv ==
  ASSUME NEW own, LiveInv(own), program \in Seq(Verbs), SpawnReplays \/ SpawnLaunches
  PROVE  Underway'
<1>1. CASE SpawnReplays
  <2>1. /\ AtVerb("spawn") /\ pending # <<>> /\ Answers(Foremost.val) /\ pending' = Tail(pending)
        /\ UNCHANGED <<program, journal, durable, due, draws, status, kept, done>>
    BY <1>1 DEF SpawnReplays, store, history
  <2> QED
    BY <2>1, ReplayInv
<1>2. CASE SpawnLaunches
  <2>0. /\ AtVerb("spawn") /\ pending = <<>>
        /\ journal' = Append(journal, Entry("CHILD", Verb.of, Cardinality(Children(journal))))
        /\ durable' = Len(journal) + 1 /\ kept' = said /\ pc' = "launch" /\ pending' = <<>>
        /\ UNCHANGED <<program, due, at, said, draws, status, done>>
    BY <1>2 DEF SpawnLaunches, Journal, attempt
  <2>1. /\ at \in 1..Len(program) /\ program[at].verb = "spawn" /\ pc = "verb"
        /\ program[at] \in Verbs /\ Len(journal) \in Nat /\ journal \in Seq(JournalRow)
    BY <2>0, AtVerbHas
  <2>2. Cardinality(Children(journal)) \in Nat
    <3>1. DOMAIN journal = 1..Len(journal) /\ Children(journal) \subseteq DOMAIN journal
      BY <2>1 DEF Children
    <3>2. IsFiniteSet(1..Len(journal))
      BY <2>1, FS_Interval
    <3> QED
      BY <3>1, <3>2, FS_Subset, FS_CardinalityType
  <2>3. PICK e : e = Entry("CHILD", Verb.of, Cardinality(Children(journal)))
    OBVIOUS
  <2>4. e \in JournalRow /\ e.kind = "CHILD" /\ e.of = program[at].of
    BY <2>1, <2>2, <2>3 DEF JournalRow, Tags, Entry, Kinds, Verbs, Verb
  <2>5. Fits(program, e, at)
    BY <2>1, <2>4 DEF Fits
  <2>6. RowFits(program, journal, due, own, e, at)
    BY <2>0, <2>1, <2>4, <2>5, MayWrite
  <2>7. journal' = Append(journal, e)
    BY <2>0, <2>3
  <2> QED
    BY <2>0, <2>1, <2>4, <2>6, <2>7, WritesAndWaits
<1> QED
  BY <1>1, <1>2

LEMMA LaunchedInv ==
  ASSUME NEW own, LiveInv(own), program \in Seq(Verbs), Launched
  PROVE  Underway'
<1>0. /\ pc = "launch" /\ Answers(Latest(journal).val) /\ pending' = pending
      /\ UNCHANGED <<program, journal, durable, due, draws, status, kept, done>>
  BY DEF Launched, store, history
<1>1. PICK n : n = Len(journal)
  OBVIOUS
<1>2. /\ Sound(program, journal, durable, due, own)
      /\ Going(program, journal, due, own, at, said, draws)
      /\ pending = <<>> /\ at \in 1..Len(program) /\ n >= 2 /\ own[n] = at
      /\ journal[n].kind = "CHILD"
  BY <1>0, <1>1 DEF LiveInv, AttemptInv, CursorInv, Latest
<1>3. /\ n \in Nat /\ n \in 2..n /\ journal \in Seq(JournalRow) /\ Len(program) \in Nat
      /\ n \in 2..((n + 1) - 1) /\ at \in Nat \ {0}
  BY <1>1, <1>2 DEF Sound
<1>4. journal[n].val \in Nat /\ program[at].verb = "spawn"
  <2>1. journal[n] \in JournalRow /\ Fits(program, journal[n], at)
    BY <1>1, <1>2, <1>3, RowsOwned
  <2> QED
    BY <1>2, <1>3, <2>1 DEF JournalRow, Fits
<1>5. /\ Passed(program, journal, due, own, at, n + 1)
      /\ Told(program, journal, own, at, journal[n].val, n)
  BY <1>2, <1>3 DEF Passed, Closes, Told
<1>6. ASSUME NEW i \in 2..Len(journal) PROVE ~(own[i] >= at + 1)
  <2>1. i = n \/ i < n
    BY <1>1, <1>3
  <2>2. own[i] <= at
    <3>1. CASE i = n
      BY <1>2, <1>3, <3>1
    <3>2. CASE i < n
      BY <1>1, <1>2, <1>3, <3>2, Pairs
    <3> QED
      BY <2>1, <3>1, <3>2
  <2>3. own[i] \in Nat
    BY <1>2, RowsOwned
  <2> QED
    BY <1>3, <2>2, <2>3
<1>7. Lists(pending', From(journal, own, at + 1))
  <2>1. From(journal, own, at + 1) = {}
    BY <1>6 DEF From
  <2> QED
    BY <1>0, <1>2, <2>1, ListsNothing
<1>8. draws' = Draws(program, at + 1)
  BY <1>0, <1>2, <1>3, <1>4, DrawsNext DEF Going
<1>9. Answers(journal[n].val)
  BY <1>0, <1>1 DEF Latest
<1> QED
  BY <1>0, <1>1, <1>2, <1>4, <1>5, <1>7, <1>8, <1>9, AnswerKeeps DEF Underway

--------------------------------------------------------------------------------
(* Gates.                                                                      *)

\* A set of naturals that is not empty has a least element.
LEMMA MinIn ==
  ASSUME NEW S \in SUBSET Nat, S # {}
  PROVE  Min(S) \in S /\ \A y \in S : Min(S) <= y
<1>1. PICK x \in S : \A y \in S : ~(<<y, x>> \in OpToRel(<, Nat))
  BY NatLessThanWellFounded, WFMin
<1>2. ASSUME NEW y \in S PROVE x <= y
  <2>1. x \in Nat /\ y \in Nat
    OBVIOUS
  <2>2. ~(y < x)
    BY <1>1, <2>1 DEF OpToRel
  <2> QED
    BY <2>1, <2>2
<1>3. \E z \in S : \A y \in S : z <= y
  BY <1>2
<1> QED
  BY <1>3 DEF Min

\* The i-th row of the cursor is a signal the gate wants.
Wants(i) == journal[pending[i]].kind = "SIGNAL" /\ journal[pending[i]].of \subseteq Verb.of

LEMMA WantedIs ==
  ASSUME pending \in Seq(Nat), NEW from \in {1, 2}
  PROVE  /\ Wanted(from) = 0 => \A i \in from..Len(pending) : ~Wants(i)
         /\ Wanted(from) # 0 => /\ Wanted(from) \in from..Len(pending) /\ Wants(Wanted(from))
                                /\ \A i \in from..(Wanted(from) - 1) : ~Wants(i)
<1>1. PICK S : S = {i \in from..Len(pending) : Wants(i)}
  OBVIOUS
<1>2. Len(pending) \in Nat /\ from \in Nat /\ from > 0
  OBVIOUS
<1>3. Wanted(from) = IF S = {} THEN 0 ELSE Min(S)
  BY <1>1 DEF Wanted, Wants
<1>4. CASE S = {}
  BY <1>1, <1>3, <1>4
<1>5. CASE S # {}
  <2>1. S \in SUBSET Nat
    BY <1>1, <1>2
  <2>2. PICK m : m = Wanted(from)
    OBVIOUS
  <2>3. m \in S /\ \A y \in S : m <= y
    <3>1. Min(S) \in S /\ \A y \in S : Min(S) <= y
      BY <1>5, <2>1, MinIn
    <3>2. m = Min(S)
      BY <1>3, <1>5, <2>2
    <3> QED
      BY <3>1, <3>2
  <2>4. m \in from..Len(pending) /\ Wants(m) /\ m \in Nat
    BY <1>1, <1>2, <2>3
  <2>5. ASSUME NEW i \in from..(m - 1), Wants(i) PROVE FALSE
    <3>1. i \in S /\ i < m
      BY <1>1, <1>2, <2>4, <2>5
    <3> QED
      BY <2>1, <2>3, <2>4, <3>1
  <2> QED
    BY <1>2, <2>2, <2>4, <2>5
<1> QED
  BY <1>4, <1>5

\* What is known at a gate.
LEMMA AwaitHas ==
  ASSUME NEW own, LiveInv(own), program \in Seq(Verbs), AtVerb("await"), pending # <<>>
  PROVE  /\ Sound(program, journal, durable, due, own) /\ Lists(pending, From(journal, own, at))
         /\ at \in 1..Len(program) /\ program[at].verb = "await" /\ pc = "verb"
         /\ at \in Nat \ {0} /\ Len(journal) \in Nat /\ pending \in Seq(Nat)
         /\ Len(pending) \in Nat /\ Len(pending) >= 1
         /\ pending[1] \in 2..Len(journal) /\ own[pending[1]] = at
         /\ ~AtGate => Wants(1)
         /\ \A i \in 1..Len(pending) : pending[i] \in 2..Len(journal) /\ own[pending[i]] >= at
         /\ \A j \in 2..Len(journal) : own[j] = at =>
              /\ j \in From(journal, own, at)
              /\ \/ journal[j].kind = "TIMER"
                 \/ journal[j].kind = "SIGNAL" /\ journal[j].of \subseteq Verb.of
<1>1. /\ Sound(program, journal, durable, due, own) /\ Lists(pending, From(journal, own, at))
      /\ at \in 1..Len(program) /\ program[at].verb = "await" /\ pc = "verb"
      /\ at \in Nat \ {0} /\ Len(journal) \in Nat /\ Len(program) \in Nat
  BY AtVerbHas
<1>2. pending \in Seq(Nat) /\ Len(pending) \in Nat /\ Len(pending) >= 1
  BY <1>1 DEF Lists
<1>3. /\ pending[1] \in 2..Len(journal) /\ own[pending[1]] = at
      /\ \/ Foremost.kind = "TIMER" /\ Foremost.of = Verb.of
         \/ Foremost.kind = "SIGNAL" /\ Foremost.of \subseteq Verb.of
  BY FrontFits
<1>4. ~AtGate => Wants(1)
  BY <1>3 DEF AtGate, Wants, Foremost
<1>5. \A i \in 1..Len(pending) : pending[i] \in 2..Len(journal) /\ own[pending[i]] >= at
  BY <1>1 DEF Lists, From
<1>6. ASSUME NEW j \in 2..Len(journal), own[j] = at
      PROVE  /\ j \in From(journal, own, at)
             /\ \/ journal[j].kind = "TIMER"
                \/ journal[j].kind = "SIGNAL" /\ journal[j].of \subseteq Verb.of
  BY <1>1, <1>6, RowsOwned DEF Fits, From, Verb
<1> QED
  BY <1>1, <1>2, <1>3, <1>4, <1>5, <1>6

LEMMA AwaitFindsInv ==
  ASSUME NEW own, LiveInv(own), program \in Seq(Verbs), AwaitFinds
  PROVE  Underway'
<1>0. /\ AtVerb("await") /\ pending # <<>> /\ ~AtGate
      /\ Answers(pending[Wanted(1)]) /\ pending' = RemoveAt(pending, Wanted(1))
      /\ UNCHANGED <<program, journal, durable, due, draws, status, kept, done>>
  BY DEF AwaitFinds, store, history
<1>1. /\ Sound(program, journal, durable, due, own) /\ Lists(pending, From(journal, own, at))
      /\ at \in 1..Len(program) /\ program[at].verb = "await" /\ pc = "verb"
      /\ at \in Nat \ {0} /\ Len(journal) \in Nat /\ pending \in Seq(Nat)
      /\ Len(pending) \in Nat /\ Len(pending) >= 1
      /\ pending[1] \in 2..Len(journal) /\ own[pending[1]] = at /\ Wants(1)
  BY <1>0, AwaitHas
<1>2. Wanted(1) = 1
  <2>1. /\ Wanted(1) = 0 => \A i \in 1..Len(pending) : ~Wants(i)
        /\ Wanted(1) # 0 => /\ Wanted(1) \in 1..Len(pending)
                            /\ \A i \in 1..(Wanted(1) - 1) : ~Wants(i)
    BY <1>1, WantedIs
  <2>2. Wanted(1) # 0
    BY <1>1, <2>1
  <2>3. Wanted(1) = 1 \/ 1 \in 1..(Wanted(1) - 1)
    BY <1>1, <2>1, <2>2
  <2> QED
    BY <1>1, <2>1, <2>2, <2>3
<1>3. PICK x : x = pending[1]
  OBVIOUS
<1>4. x \in 2..Len(journal) /\ own[x] = at /\ journal[x].kind = "SIGNAL" /\ x \in Nat
  BY <1>1, <1>3 DEF Wants
<1>5. \A j \in 2..Len(journal) : own[j] = at => j = x
  <2>1. program[at].verb # "random" /\ journal[pending[1]].kind \in {"AMBIENT", "CHILD", "SIGNAL"}
    BY <1>1, <1>3, <1>4
  <2>2. /\ Sound(program, journal, durable, due, own) /\ Lists(pending, From(journal, own, at))
        /\ at \in 1..Len(program) /\ pending # <<>>
    BY <1>0, <1>1
  <2>3. \A j \in 2..Len(journal) : own[j] = at => j = pending[1]
    BY <2>1, <2>2, OnlyRow
  <2> QED
    BY <1>3, <2>3
<1>6. From(journal, own, at) \ {x} = From(journal, own, at + 1)
  <2>1. ASSUME NEW j \in 2..Len(journal)
        PROVE  (own[j] >= at /\ j # x) <=> own[j] >= at + 1
    BY <1>1, <1>4, <1>5, RowsOwned, SMTT(30)
  <2> QED
    BY <2>1 DEF From
<1>7. Lists(pending', From(journal, own, at + 1))
  <2>1. 1 \in 1..Len(pending)
    BY <1>1
  <2>2. Lists(RemoveAt(pending, 1), From(journal, own, at) \ {x})
    BY <1>1, <1>3, <2>1, ListsRemove
  <2> QED
    BY <1>0, <1>2, <1>6, <2>2
<1>8. /\ Passed(program, journal, due, own, at, Len(journal) + 1)
      /\ Told(program, journal, own, at, x, Len(journal))
  BY <1>1, <1>4 DEF Passed, Closes, Told
<1>9. draws' = Draws(program, at + 1)
  BY <1>0, <1>1, AtVerbHas, DrawsNext
<1>10. Answers(x)
  BY <1>0, <1>2, <1>3
<1> QED
  BY <1>0, <1>1, <1>4, <1>7, <1>8, <1>9, <1>10, AnswerKeeps DEF Underway

LEMMA AwaitAnsweredInv ==
  ASSUME NEW own, LiveInv(own), program \in Seq(Verbs), AwaitAnswered
  PROVE  Underway'
<1>0. /\ AtVerb("await") /\ pending # <<>> /\ AtGate /\ Wanted(2) # 0
      /\ Answers(pending[Wanted(2)]) /\ pending' = Tail(RemoveAt(pending, Wanted(2)))
      /\ UNCHANGED <<program, journal, durable, due, draws, status, kept, done>>
  BY DEF AwaitAnswered, AtGate, store, history
<1>1. /\ Sound(program, journal, durable, due, own) /\ Lists(pending, From(journal, own, at))
      /\ at \in 1..Len(program) /\ program[at].verb = "await" /\ pc = "verb"
      /\ at \in Nat \ {0} /\ Len(journal) \in Nat /\ pending \in Seq(Nat)
      /\ Len(pending) \in Nat /\ Len(pending) >= 1
      /\ pending[1] \in 2..Len(journal) /\ own[pending[1]] = at
      /\ \A i \in 1..Len(pending) : pending[i] \in 2..Len(journal) /\ own[pending[i]] >= at
  BY <1>0, AwaitHas
<1>2. PICK k : k = Wanted(2)
  OBVIOUS
<1>3. k \in 2..Len(pending) /\ Wants(k) /\ \A i \in 2..(k - 1) : ~Wants(i)
  BY <1>0, <1>1, <1>2, WantedIs
<1>4. PICK g, x : g = pending[1] /\ x = pending[k]
  OBVIOUS
<1>5. /\ g \in 2..Len(journal) /\ own[g] = at /\ journal[g].kind = "TIMER" /\ g \in Nat
      /\ x \in 2..Len(journal) /\ own[x] >= at /\ x \in Nat
      /\ journal[x].kind = "SIGNAL" /\ journal[x].of \subseteq program[at].of
  BY <1>0, <1>1, <1>3, <1>4, SMTT(30) DEF AtGate, Wants, Foremost, Verb
<1>6. own[x] = at
  <2>1. ASSUME NEW i \in 2..Len(journal), own[i] >= at, i < x, journal[i].kind = "SIGNAL",
               journal[i].of \subseteq program[at].of
        PROVE  FALSE
    <3>1. PICK m \in 1..Len(pending) : pending[m] = i
      BY <1>1, <2>1 DEF Lists, From
    <3>2. Wants(m) /\ m # 1
      BY <1>4, <1>5, <2>1, <3>1 DEF Wants, Verb
    <3>3. ~(k < m) /\ m # k
      <4>1. k < m => pending[k] < pending[m]
        BY <1>1, <1>3 DEF Lists
      <4> QED
        BY <1>4, <1>5, <2>1, <3>1, <4>1
    <3>4. m \in 2..(k - 1)
      BY <1>1, <1>3, <3>2, <3>3
    <3> QED
      BY <1>3, <3>2, <3>4
  <2>2. \A i \in 2..Len(journal) :
          own[i] >= at /\ i < x =>
            ~(journal[i].kind = "SIGNAL" /\ journal[i].of \subseteq program[at].of)
    BY <2>1
  <2>3. /\ Sound(program, journal, durable, due, own) /\ at \in 1..Len(program)
        /\ program[at].verb = "await"
    BY <1>1
  <2> QED
    BY <1>5, <2>2, <2>3, SignalAt
<1>7. g < x
  <2>1. 1 \in 1..Len(pending) /\ k \in 1..Len(pending) /\ 1 < k
    BY <1>1, <1>3
  <2> QED
    BY <1>1, <1>4, <2>1 DEF Lists
<1>8. ASSUME NEW j \in 2..Len(journal), own[j] = at PROVE j = g \/ j = x
  <2>0. Sound(program, journal, durable, due, own)
    BY <1>1
  <2>1. j < g \/ j = g \/ (g < j /\ j < x) \/ j = x \/ x < j
    BY <1>5, <1>7
  <2>2. CASE j < g
    <3>1. journal[j].kind \in {"TIMER", "SIGNAL"}
      BY <1>0, <1>8, AwaitHas
    <3> QED
      BY <1>5, <1>8, <2>0, <2>2, <3>1, Pairs
  <2>3. CASE g < j /\ j < x
    <3>1. journal[j].kind = "SIGNAL"
      BY <1>5, <1>8, <2>0, <2>3, Pairs
    <3> QED
      BY <1>5, <1>6, <1>8, <2>0, <2>3, <3>1, Pairs
  <2>4. CASE x < j
    BY <1>5, <1>6, <1>8, <2>0, <2>4, Pairs
  <2> QED
    BY <2>1, <2>2, <2>3, <2>4
<1>9. (From(journal, own, at) \ {x}) \ {g} = From(journal, own, at + 1)
  <2>1. ASSUME NEW j \in 2..Len(journal)
        PROVE  (own[j] >= at /\ j # x /\ j # g) <=> own[j] >= at + 1
    <3>1. own[j] \in Nat /\ at \in Nat
      BY <1>1, RowsOwned
    <3>2. own[j] = at => j = g \/ j = x
      BY <1>8
    <3>3. (j = g \/ j = x) => own[j] = at
      BY <1>5, <1>6
    <3> QED
      BY <3>1, <3>2, <3>3
  <2> QED
    BY <2>1 DEF From
<1>10. Lists(pending', From(journal, own, at + 1))
  <2>1. k \in 1..Len(pending) /\ k > 1
    BY <1>1, <1>3
  <2>2. PICK r : r = RemoveAt(pending, k)
    OBVIOUS
  <2>3. Lists(r, From(journal, own, at) \ {x}) /\ r # <<>> /\ r[1] = g
    BY <1>1, <1>4, <2>1, <2>2, ListsRemove
  <2>4. Lists(Tail(r), (From(journal, own, at) \ {x}) \ {g})
    BY <2>3, ListsTail
  <2> QED
    BY <1>0, <1>2, <1>9, <2>2, <2>4
<1>11. /\ Passed(program, journal, due, own, at, Len(journal) + 1)
       /\ Told(program, journal, own, at, x, Len(journal))
  BY <1>1, <1>5, <1>6 DEF Passed, Closes, Told
<1>12. draws' = Draws(program, at + 1)
  BY <1>0, <1>1, AtVerbHas, DrawsNext
<1>13. Answers(x)
  BY <1>0, <1>2, <1>4
<1> QED
  BY <1>0, <1>1, <1>5, <1>10, <1>11, <1>12, <1>13, AnswerKeeps DEF Underway

\* No signal that the gate wants lies behind it: none is its own.
LEMMA NoSignal ==
  ASSUME NEW own, LiveInv(own), program \in Seq(Verbs), AtVerb("await"), AtGate, Wanted(2) = 0
  PROVE  /\ \A j \in 2..Len(journal) : own[j] = at => journal[j].kind # "SIGNAL"
         /\ \A j \in 2..Len(journal) : own[j] = at => j = pending[1]
<1>0. pending # <<>>
  BY DEF AtGate
<1>1. /\ Sound(program, journal, durable, due, own) /\ Lists(pending, From(journal, own, at))
      /\ at \in 1..Len(program) /\ program[at].verb = "await"
      /\ pending \in Seq(Nat) /\ Len(pending) \in Nat
      /\ \A j \in 2..Len(journal) : own[j] = at =>
              /\ j \in From(journal, own, at)
              /\ \/ journal[j].kind = "TIMER"
                 \/ journal[j].kind = "SIGNAL" /\ journal[j].of \subseteq Verb.of
  BY <1>0, AwaitHas
<1>2. journal[pending[1]].kind = "TIMER"
  BY DEF AtGate, Foremost
<1>3. ASSUME NEW j \in 2..Len(journal), own[j] = at, journal[j].kind = "SIGNAL" PROVE FALSE
  <2>1. PICK m \in 1..Len(pending) : pending[m] = j
    BY <1>1, <1>3 DEF Lists
  <2>2. Wants(m) /\ m # 1
    BY <1>1, <1>2, <1>3, <2>1 DEF Wants
  <2>3. m \in 2..Len(pending)
    BY <1>1, <2>1, <2>2
  <2>4. \A i \in 2..Len(pending) : ~Wants(i)
    BY <1>1, WantedIs
  <2> QED
    BY <2>2, <2>3, <2>4
<1>4. \A j \in 2..Len(journal) : own[j] = at => journal[j].kind # "SIGNAL"
  BY <1>3
<1>5. program[at].verb # "random"
  BY <1>1
<1>6. \A j \in 2..Len(journal) : own[j] = at => j = pending[1]
  <2>1. /\ Sound(program, journal, durable, due, own) /\ Lists(pending, From(journal, own, at))
        /\ at \in 1..Len(program)
    BY <1>1
  <2> QED
    BY <1>0, <1>2, <1>4, <1>5, <2>1, OnlyRow
<1> QED
  BY <1>4, <1>6

LEMMA AwaitTimesOutInv ==
  ASSUME NEW own, LiveInv(own), program \in Seq(Verbs), AwaitTimesOut
  PROVE  Underway'
<1>0. /\ AtVerb("await") /\ AtGate /\ Wanted(2) = 0 /\ pending[1] \in due /\ pending # <<>>
      /\ Answers(0) /\ pending' = Tail(pending)
      /\ UNCHANGED <<program, journal, durable, due, draws, status, kept, done>>
  BY DEF AwaitTimesOut, AtGate, store, history
<1>1. program[at].verb = "await"
  BY <1>0, AtVerbHas
<1>2. /\ \A j \in 2..Len(journal) : own[j] = at => journal[j].kind # "SIGNAL"
      /\ \A j \in 2..Len(journal) : own[j] = at => j = pending[1]
  BY <1>0, NoSignal
<1>3. Closes(journal, due, pending[1]) /\ Told(program, journal, own, at, 0, Len(journal))
  BY <1>0, <1>1, <1>2 DEF Closes, Told
<1> QED
  BY <1>0, <1>2, <1>3, FrontAnswers

LEMMA AwaitParksInv ==
  ASSUME NEW own, LiveInv(own), program \in Seq(Verbs), AwaitParks \/ AwaitParksAgain
  PROVE  Underway'
<1>0. AtVerb("await")
  BY DEF AwaitParks, AwaitParksAgain
<1>1. /\ Sound(program, journal, durable, due, own) /\ Lists(pending, From(journal, own, at))
      /\ at \in 1..Len(program) /\ program[at].verb = "await" /\ pc = "verb" /\ at \in Nat \ {0}
      /\ Len(journal) \in Nat /\ journal # <<>> /\ program[at] \in Verbs
  BY <1>0, AtVerbHas
<1>2. CASE AwaitParks
  <2>0. /\ pending = <<>> /\ journal' = Append(journal, Entry("TIMER", Verb.of, Verb.wait))
        /\ durable' = Len(journal) + 1 /\ kept' = said /\ pc' = "end" /\ status' = "parked"
        /\ UNCHANGED <<program, due, at, said, draws, done>>
    BY <1>2 DEF AwaitParks, Journal, Unwind, attempt
  <2>1. PICK e : e = Entry("TIMER", Verb.of, Verb.wait)
    OBVIOUS
  <2>2. e \in JournalRow /\ e.kind = "TIMER" /\ e.of = program[at].of /\ e.val = program[at].wait
    BY <1>1, <2>1 DEF JournalRow, Tags, Entry, Kinds, Verbs, Verb, Forever, Timed, EndOfTime
  <2>3. Fits(program, e, at)
    BY <1>1, <2>2 DEF Fits
  <2>4. RowFits(program, journal, due, own, e, at)
    BY <1>1, <2>0, <2>2, <2>3, MayWrite
  <2>5. program[at].verb \in {"sleep", "await"} /\ status' \in {"parked", "failed"}
    BY <1>1, <2>0
  <2>6. journal' = Append(journal, e)
    BY <2>0, <2>1
  <2> QED
    BY <1>1, <2>0, <2>2, <2>4, <2>5, <2>6, WritesAndParks
<1>3. CASE AwaitParksAgain
  <2>0. /\ AtGate /\ Wanted(2) = 0 /\ pending[1] \notin due /\ pc' = "end" /\ status' = "parked"
        /\ UNCHANGED <<program, journal, durable, due, at, said, draws, kept, done>>
    BY <1>3 DEF AwaitParksAgain, Unwind, attempt
  <2>1. /\ \A j \in 2..Len(journal) : own[j] = at => journal[j].kind # "SIGNAL"
        /\ \A j \in 2..Len(journal) : own[j] = at => j = pending[1]
    BY <1>0, <2>0, NoSignal
  <2>2. pending[1] \in 2..Len(journal) /\ own[pending[1]] = at /\ journal[pending[1]].kind = "TIMER"
    BY <1>0, <2>0, AwaitHas DEF AtGate, Foremost
  <2>3. ASSUME NEW i \in 2..Len(journal) PROVE own[i] <= at \/ journal[i].kind = "SIGNAL"
    <3> SUFFICES ASSUME ~(own[i] <= at), journal[i].kind # "SIGNAL" PROVE FALSE
      OBVIOUS
    <3>1. own[i] > at /\ program[at].verb # "random"
      BY <1>1, RowsOwned
    <3>2. PICK j \in 2..(i - 1) : own[j] = at /\ Closes(journal, due, j)
      BY <1>1, <3>1, Beyond
    <3>3. j \in 2..Len(journal)
      BY <1>1
    <3>4. journal[j].kind = "TIMER" /\ j = pending[1]
      BY <2>1, <2>2, <3>2, <3>3
    <3> QED
      BY <2>0, <3>2, <3>4 DEF Closes
  <2>4. \E i \in 2..Len(journal) : own[i] = at /\ journal[i].kind # "SIGNAL"
    BY <2>2
  <2>5. ParkedAt(program, journal, own, at, status')
    BY <1>1, <2>0, <2>3, <2>4 DEF ParkedAt
  <2>6. status' \in {"parked", "failed"}
    BY <2>0
  <2> QED
    BY <1>1, <2>0, <2>5, <2>6, Reparks
<1> QED
  BY <1>2, <1>3

--------------------------------------------------------------------------------
(* Calls.                                                                      *)

\* No verb meets a row that is not its own.
LEMMA NoDivergence ==
  ASSUME NEW own, LiveInv(own), program \in Seq(Verbs)
  PROVE  ~StepDiverges /\ ~SleepDiverges /\ ~AwaitDiverges /\ ~SpawnDiverges
<1>1. ~StepDiverges
  BY StepCases DEF StepDiverges, StepOpen, StepClosed
<1>2. ~SleepDiverges
  BY FrontFits DEF SleepDiverges
<1>3. ~SpawnDiverges
  BY FrontFits DEF SpawnDiverges
<1>4. ASSUME AwaitDiverges PROVE FALSE
  <2>1. AtVerb("await") /\ pending # <<>> /\ ~AtGate /\ Wanted(1) = 0
    BY <1>4 DEF AwaitDiverges
  <2>2. Wants(1) /\ pending \in Seq(Nat) /\ Len(pending) \in Nat /\ Len(pending) >= 1
    BY <2>1, AwaitHas
  <2>3. \A i \in 1..Len(pending) : ~Wants(i)
    BY <2>1, <2>2, WantedIs
  <2> QED
    BY <2>2, <2>3
<1> QED
  BY <1>1, <1>2, <1>3, <1>4

\* More of the journal is committed.
LEMMA HardGrows ==
  ASSUME NEW body, NEW log, NEW hard, NEW late, NEW own, Sound(body, log, hard, late, own),
         NEW hard2 \in hard..Len(log)
  PROVE  /\ Sound(body, log, hard2, late, own)
         /\ \A steps : Finished(log, hard, own, steps) => Finished(log, hard2, own, steps)
         /\ \A answers : Remembered(body, log, hard, own, answers)
                           => Remembered(body, log, hard2, own, answers)
<1>1. hard \in Nat /\ hard2 \in Nat /\ hard <= hard2 /\ hard2 \in 0..Len(log) /\ Len(log) \in Nat
  BY DEF Sound
<1>2. Sound(body, log, hard2, late, own)
  BY <1>1 DEF Sound
<1>3. ASSUME NEW j \in 2..hard PROVE j \in 2..hard2
  BY <1>1
<1>4. ASSUME NEW steps, Finished(log, hard, own, steps) PROVE Finished(log, hard2, own, steps)
  BY <1>3, <1>4 DEF Finished
<1>5. ASSUME NEW answers, Remembered(body, log, hard, own, answers)
      PROVE  Remembered(body, log, hard2, own, answers)
  <2>1. ASSUME NEW p \in 1..Len(answers) PROVE Told(body, log, own, p, answers[p], hard2)
    <3>1. Told(body, log, own, p, answers[p], hard)
      BY <1>5 DEF Remembered
    <3>2. Same(log, own, log, own, hard)
      BY DEF Same
    <3>3. \A j \in 2..Len(log) : own[j] = p /\ log[j].kind = "SIGNAL" =>
            \E i \in 2..Len(log) : own[i] = p /\ log[i].kind = "SIGNAL"
      OBVIOUS
    <3> QED
      BY <1>1, <3>1, <3>2, <3>3, ToldStays
  <2> QED
    BY <1>3, <1>5, <2>1 DEF Remembered
<1> QED
  BY <1>2, <1>4, <1>5

LEMMA EndCallInv ==
  ASSUME NEW own, LiveInv(own), EndCall
  PROVE  Over' \/ Underway'
<1>0. /\ pc = "end" /\ durable' = Len(journal) /\ pc' = "idle"
      /\ kept' = IF status = "completed" THEN said ELSE kept
      /\ UNCHANGED <<program, journal, due, at, done, status>>
  BY DEF EndCall
<1>1. /\ Sound(program, journal, durable, due, own) /\ status \in {"parked", "failed", "completed"}
      /\ journal \in Seq(JournalRow) /\ Len(journal) \in Nat /\ Len(program) \in Nat
      /\ durable \in 0..Len(journal)
  BY <1>0 DEF LiveInv, CursorInv, Sound
<1>2. CASE status = "completed"
  <2>1. PICK n : n = Len(journal)
    OBVIOUS
  <2>2. n >= 2 /\ own[n] = Len(program) + 1
    BY <1>0, <1>2, <2>1 DEF LiveInv, CursorInv
  <2>3. n \in 2..Len(journal) /\ n \in DOMAIN journal
    BY <1>1, <2>1, <2>2
  <2>4. journal[n].kind = "COMPLETED"
    <3>1. Fits(program, journal[n], own[n])
      BY <1>1, <2>3, RowsOwned
    <3> QED
      BY <1>1, <2>2, <3>1 DEF Fits
  <2>5. Ended(journal)
    BY <2>3, <2>4 DEF Ended, Has
  <2> QED
    BY <1>0, <1>1, <2>5 DEF Over
<1>3. CASE status # "completed"
  <2>1. kept' = kept /\ Len(journal) \in durable..Len(journal)
    BY <1>0, <1>1, <1>3
  <2>2. /\ Sound(program, journal, Len(journal), due, own)
        /\ Finished(journal, Len(journal), own, done)
        /\ GatesApart => Remembered(program, journal, Len(journal), own, kept)
    BY <1>1, <2>1, HardGrows DEF LiveInv, KeptInv
  <2>3. Sound(program, journal, durable, due, own)'
    BY <1>0, <2>2
  <2>4. UnendedInv(own)'
    BY <1>0, <1>3 DEF LiveInv, UnendedInv
  <2>5. AttemptInv(own)' /\ CursorInv(own)'
    BY <1>0 DEF AttemptInv, CursorInv
  <2>6. ParkInv(own)'
    BY <1>0 DEF LiveInv, ParkInv
  <2>7. KeptInv(own)'
    BY <1>0, <2>1, <2>2, SameGates DEF KeptInv
  <2> QED
    BY <1>0, <2>3, <2>4, <2>5, <2>6, <2>7 DEF LiveInv, Underway
<1> QED
  BY <1>2, <1>3

\* The cursor of a new attempt lists all rows but the first.
LEMMA ListsAll ==
  ASSUME NEW body, NEW log, NEW hard, NEW late, NEW own, Sound(body, log, hard, late, own),
         log # <<>>
  PROVE  Lists(ReadFrom(log, 1), From(log, own, 1))
<1>1. PICK n : n = Len(log)
  OBVIOUS
<1>2. n \in Nat /\ n >= 1 /\ n - 1 \in Nat
  BY <1>1 DEF Sound
<1>3. PICK q : q = [i \in 1..(n - 1) |-> i + 1]
  OBVIOUS
<1>4. q \in Seq(Nat) /\ Len(q) = n - 1 /\ \A i \in 1..(n - 1) : q[i] = i + 1
  BY <1>2, <1>3
<1>5. From(log, own, 1) = 2..n
  <2>1. ASSUME NEW i \in 2..n PROVE own[i] >= 1
    BY <1>1, RowsOwned
  <2> QED
    BY <1>1, <2>1 DEF From
<1>6. \A i, j \in 1..(n - 1) : i < j => q[i] < q[j]
  BY <1>2, <1>4
<1>7. \A i \in 1..(n - 1) : q[i] \in 2..n
  BY <1>2, <1>4
<1>8. ASSUME NEW x \in 2..n PROVE \E i \in 1..(n - 1) : q[i] = x
  <2>1. x - 1 \in 1..(n - 1) /\ (x - 1) + 1 = x
    BY <1>2
  <2> QED
    BY <1>4, <2>1
<1>9. Lists(q, 2..n)
  BY <1>4, <1>6, <1>7, <1>8 DEF Lists
<1>10. ReadFrom(log, 1) = q
  BY <1>1, <1>3 DEF ReadFrom
<1> QED
  BY <1>5, <1>9, <1>10

\* A new attempt begins at the top.
Begins ==
  /\ pc' = "verb" /\ at' = 1 /\ draws' = 0 /\ said' = <<>> /\ status' = "running"
  /\ pending' = ReadFrom(journal', 1)

LEMMA BeginsInv ==
  ASSUME NEW own2, Begins, journal' # <<>>,
         Sound(program', journal', durable', due', own2), KeptInv(own2)',
         \A i \in 2..Len(journal') : own2[i] # Len(program') + 1
  PROVE  Underway'
<1>1. UnendedInv(own2)'
  BY DEF UnendedInv
<1>2. AttemptInv(own2)'
  <2>1. Draws(program', 1) = 0
    BY DrawsNext
  <2>2. Len(program') \in Nat
    BY DEF Sound
  <2>3. <<>> \in Seq(Nat) /\ Len(<<>>) = 1 - 1 /\ 1 \in 1..(Len(program') + 1) /\ 1..(1 - 1) = {}
    BY <2>2
  <2>4. Going(program', journal', due', own2, 1, <<>>, 0)
    BY <2>1, <2>3 DEF Going
  <2> QED
    BY <2>4 DEF AttemptInv, Begins
<1>3. CursorInv(own2)'
  <2>1. Lists(ReadFrom(journal', 1), From(journal', own2, 1))
    BY ListsAll
  <2> QED
    BY <2>1 DEF CursorInv, Begins
<1>4. ParkInv(own2)'
  BY DEF ParkInv, Begins
<1> QED
  BY <1>1, <1>2, <1>3, <1>4 DEF LiveInv, Underway, Begins

\* A journal whose rows all belong to verbs has not ended.
LEMMA NotEnded ==
  ASSUME NEW body, NEW log, NEW hard, NEW late, NEW own, Sound(body, log, hard, late, own),
         \A i \in 2..Len(log) : own[i] # Len(body) + 1
  PROVE  ~Ended(log) /\ (log # <<>> => log[1].kind = "STARTED")
<1>1. log \in Seq(JournalRow) /\ Len(log) \in Nat /\ (log # <<>> => log[1].kind = "STARTED")
  BY DEF Sound, Placed, Rows
<1>2. ASSUME NEW i \in DOMAIN log, log[i].kind \in {"COMPLETED", "CANCEL"} PROVE FALSE
  <2>1. i \in 1..Len(log) /\ log # <<>>
    BY <1>1
  <2>2. i \in 2..Len(log)
    BY <1>1, <1>2, <2>1
  <2>3. Fits(body, log[i], own[i])
    BY <2>2, RowsOwned
  <2> QED
    BY <1>2, <2>2, <2>3 DEF Fits
<1> QED
  BY <1>1, <1>2 DEF Ended, Has

LEMMA EmptyNotEnded == ~Ended(<<>>)
<1>1. DOMAIN <<>> = {}
  OBVIOUS
<1> QED
  BY <1>1 DEF Ended, Has

\* What is known between calls.
LEMMA IdleHas ==
  ASSUME NEW own, LiveInv(own), pc = "idle"
  PROVE  /\ Sound(program, journal, durable, due, own) /\ durable = Len(journal)
         /\ journal \in Seq(JournalRow) /\ Len(journal) \in Nat /\ Len(program) \in Nat
         /\ \A i \in 2..Len(journal) : own[i] # Len(program) + 1
         /\ ~Ended(journal) /\ (journal # <<>> => journal[1].kind = "STARTED")
         /\ KeptInv(own)
<1>1. /\ Sound(program, journal, durable, due, own) /\ durable = Len(journal) /\ KeptInv(own)
      /\ \A i \in 2..Len(journal) : own[i] # Len(program) + 1
  BY DEF LiveInv, UnendedInv
<1>2. journal \in Seq(JournalRow) /\ Len(journal) \in Nat /\ Len(program) \in Nat
  BY <1>1 DEF Sound
<1>3. ~Ended(journal) /\ (journal # <<>> => journal[1].kind = "STARTED")
  BY <1>1, NotEnded
<1> QED
  BY <1>1, <1>2, <1>3

\* A call that changes nothing but what it answers.
LEMMA AnsweredOnly ==
  ASSUME NEW own, LiveInv(own), pc = "idle", status' \notin {"parked", "failed"},
         UNCHANGED <<program, journal, durable, due, pc, kept, done>>
  PROVE  Underway'
<1>1. Sound(program, journal, durable, due, own)' /\ UnendedInv(own)'
  BY DEF LiveInv, UnendedInv
<1>2. AttemptInv(own)' /\ CursorInv(own)' /\ ParkInv(own)'
  BY DEF AttemptInv, CursorInv, ParkInv
<1>3. KeptInv(own)'
  BY SameGates DEF LiveInv, KeptInv
<1> QED
  BY <1>1, <1>2, <1>3 DEF LiveInv, Underway

LEMMA AttemptBegins ==
  ASSUME NEW own, LiveInv(own), pc = "idle", program \in Seq(Verbs), NEW input, NEW resuming,
         RunAttempt(journal, input, resuming), UNCHANGED <<program, due, kept, done>>
  PROVE  Underway'
<1>0. /\ Sound(program, journal, durable, due, own) /\ durable = Len(journal)
      /\ journal \in Seq(JournalRow) /\ Len(journal) \in Nat /\ Len(program) \in Nat
      /\ \A i \in 2..Len(journal) : own[i] # Len(program) + 1
      /\ ~Ended(journal) /\ (journal # <<>> => journal[1].kind = "STARTED")
      /\ KeptInv(own)
  BY IdleHas
<1>1. CASE /\ status' \in {"none", "error"}
           /\ UNCHANGED <<journal, durable, pc, attempt>>
  <2>1. status' \notin {"parked", "failed"}
    BY <1>1
  <2> QED
    BY <1>1, <2>1, AnsweredOnly
<1>2. CASE /\ journal # <<>> /\ journal' = journal /\ pending' = ReadFrom(journal, 1)
           /\ at' = 1 /\ draws' = 0 /\ said' = <<>> /\ pc' = "verb" /\ status' = "running"
           /\ UNCHANGED durable
  <2>1. Begins /\ journal' # <<>>
    BY <1>2 DEF Begins
  <2>2. Sound(program', journal', durable', due', own)
    BY <1>0, <1>2
  <2>3. KeptInv(own)'
    BY <1>0, <1>2, SameGates DEF KeptInv
  <2>4. \A i \in 2..Len(journal') : own[i] # Len(program') + 1
    BY <1>0, <1>2
  <2> QED
    BY <2>1, <2>2, <2>3, <2>4, BeginsInv
<1>3. CASE /\ journal = <<>> /\ journal' = <<Entry("STARTED", {}, 0)>> /\ pending' = <<>>
           /\ at' = 1 /\ draws' = 0 /\ said' = <<>> /\ pc' = "verb" /\ status' = "running"
           /\ UNCHANGED durable
  <2>1. PICK e, log2, own2 : /\ e = Entry("STARTED", {}, 0) /\ log2 = <<e>>
                             /\ own2 = [i \in 1..1 |-> 0]
    OBVIOUS
  <2>2. e \in JournalRow /\ e.kind = "STARTED"
    BY <2>1 DEF JournalRow, Tags, Entry, Kinds
  <2>3. log2 \in Seq(JournalRow) /\ Len(log2) = 1 /\ log2[1] = e /\ log2 # <<>> /\ 2..1 = {}
    BY <2>1, <2>2
  <2>4. Len(journal) = 0 /\ durable = 0 /\ 1..0 = {} /\ 2..0 = {}
    BY <1>0, <1>3
  <2>5. Placed(program, log2, due, own2)
    <3>1. own2 \in [1..1 -> Nat]
      BY <2>1
    <3>2. Rows(program, log2, own2)
      BY <2>2, <2>3, <3>1 DEF Rows
    <3>3. Ordered(log2, own2) /\ Tried(log2, own2) /\ InTurn(program, log2, due, own2)
          /\ FirstServed(program, log2, own2)
      BY <2>3 DEF Ordered, Tried, InTurn, FirstServed
    <3> QED
      BY <3>2, <3>3 DEF Placed
  <2>6. due = {}
    BY <1>0, <2>4 DEF Sound
  <2>7. Sound(program, log2, 0, due, own2)
    BY <1>0, <2>3, <2>5, <2>6 DEF Sound
  <2>8. log2 = journal' /\ durable' = 0 /\ program' = program /\ due' = due
    BY <1>3, <2>1, <2>4
  <2>9. KeptInv(own2)'
    <3>1. Finished(log2, 0, own2, done)
      BY <1>0, <2>4 DEF KeptInv, Finished
    <3>2. ASSUME GatesApart PROVE Remembered(program, log2, 0, own2, kept)
      <4>1. Remembered(program, journal, 0, own, kept)
        BY <1>0, <2>4, <3>2 DEF KeptInv
      <4>2. kept \in Seq(Nat) /\ ~(Len(kept) > 0)
        BY <2>4, <4>1 DEF Remembered
      <4>3. 1..Len(kept) = {}
        BY <4>2
      <4> QED
        BY <4>2, <4>3 DEF Remembered
    <3> QED
      BY <2>8, <3>1, <3>2, SameGates DEF KeptInv
  <2>10. ReadFrom(journal', 1) = <<>>
    <3>1. Len(log2) - 1 = 0
      BY <2>3
    <3>2. ReadFrom(log2, 1) = [i \in 1..0 |-> i + 1]
      BY <3>1 DEF ReadFrom
    <3>3. [i \in 1..0 |-> i + 1] = <<>>
      OBVIOUS
    <3> QED
      BY <2>8, <3>2, <3>3
  <2>11. Begins /\ journal' # <<>>
    BY <1>3, <2>3, <2>8, <2>10 DEF Begins
  <2>12. \A i \in 2..Len(journal') : own2[i] # Len(program') + 1
    BY <2>3, <2>8
  <2>13. Sound(program', journal', durable', due', own2)
    BY <2>7, <2>8
  <2> QED
    BY <2>9, <2>11, <2>12, <2>13, BeginsInv
<1> QED
  BY <1>0, <1>1, <1>2, <1>3 DEF RunAttempt

\* An ended run answers its verdict and stays as it is.
LEMMA OverStays ==
  ASSUME Over, NEW log, NEW input, NEW resuming, RunAttempt(log, input, resuming),
         log \in Seq(JournalRow), Ended(log)
  PROVE  Over'
<1>1. log # <<>>
  BY EmptyNotEnded
<1>2. journal' = log /\ durable' = Len(log) /\ pc' = pc
  BY <1>1 DEF RunAttempt
<1> QED
  BY <1>2 DEF Over

\* A row more does not undo an end.
LEMMA EndedStays ==
  ASSUME NEW log \in Seq(JournalRow), NEW e \in JournalRow, Ended(log) \/ e.kind = "CANCEL"
  PROVE  Append(log, e) \in Seq(JournalRow) /\ Ended(Append(log, e))
<1>1. PICK log2, n : log2 = Append(log, e) /\ n = Len(log)
  OBVIOUS
<1>2. /\ log2 \in Seq(JournalRow) /\ DOMAIN log = 1..n /\ DOMAIN log2 = 1..(n + 1) /\ n \in Nat
      /\ log2[n + 1] = e /\ n + 1 \in 1..(n + 1) /\ \A i \in 1..n : log2[i] = log[i] /\ i \in 1..(n + 1)
  BY <1>1
<1>3. Ended(log2)
  BY <1>2 DEF Ended, Has
<1> QED
  BY <1>1, <1>2, <1>3

\* A call that is cancelling, or that hangs, has changed nothing.
LEMMA WaitsInv ==
  ASSUME Over \/ Underway, Cancel \/ CancelChild \/ Hang
  PROVE  (Over => Over') /\ (Underway => Underway')
<1>1. /\ UNCHANGED <<program, journal, durable, due, kept, done>> /\ pc' \in {"cancel", "hung"}
      /\ pc' = "cancel" => pc \in {"idle", "cancel"}
      /\ pc \in {"idle", "verb", "body", "launch", "cancel"}
  BY DEF Cancel, CancelChild, Hang, store, history
<1>2. ASSUME Over PROVE Over'
  BY <1>1, <1>2 DEF Over
<1>3. ASSUME NEW own, LiveInv(own) PROVE Underway'
  <2>1. Sound(program, journal, durable, due, own)' /\ UnendedInv(own)'
    BY <1>1, <1>3 DEF LiveInv, UnendedInv
  <2>2. AttemptInv(own)' /\ CursorInv(own)' /\ ParkInv(own)'
    BY <1>1 DEF AttemptInv, CursorInv, ParkInv
  <2>3. KeptInv(own)'
    BY <1>1, <1>3, SameGates DEF LiveInv, KeptInv
  <2> QED
    BY <1>1, <1>3, <2>1, <2>2, <2>3 DEF LiveInv, Underway
<1> QED
  BY <1>2, <1>3 DEF Underway

LEMMA CancelInv ==
  ASSUME Over \/ Underway, CancelEnds
  PROVE  Over'
<1>1. /\ pc' = "idle" /\ journal' = Append(journal, Entry("CANCEL", {}, 0))
      /\ durable' = Len(journal) + 1
  BY DEF CancelEnds
<1>2. journal \in Seq(JournalRow)
  BY DEF Over, Underway, LiveInv, Sound
<1>3. PICK e : e = Entry("CANCEL", {}, 0)
  OBVIOUS
<1>4. e \in JournalRow /\ e.kind = "CANCEL"
  BY <1>3 DEF JournalRow, Tags, Entry, Kinds
<1>5. journal' \in Seq(JournalRow) /\ Ended(journal')
  BY <1>1, <1>2, <1>3, <1>4, EndedStays
<1>6. Len(journal') = Len(journal) + 1
  BY <1>1, <1>2, <1>3, <1>4
<1> QED
  BY <1>1, <1>5, <1>6 DEF Over

\* The attempt is dropped, with the rows it had not committed.
LEMMA DroppedInv ==
  ASSUME NEW own, LiveInv(own), program \in Seq(Verbs),
         journal' = SubSeq(journal, 1, durable), pc' = "idle", status' \notin {"parked", "failed"},
         UNCHANGED <<program, durable, due, kept, done>>
  PROVE  Underway'
<1>0. /\ Sound(program, journal, durable, due, own) /\ KeptInv(own) /\ UnendedInv(own)
  BY DEF LiveInv
<1>1. /\ journal \in Seq(JournalRow) /\ Len(journal) \in Nat /\ Len(program) \in Nat
      /\ durable \in 0..Len(journal) /\ Placed(program, journal, due, own)
      /\ own \in [1..Len(journal) -> Nat]
  BY <1>0 DEF Sound, Placed, Rows
<1>2. PICK m, log2, own2 : /\ m = durable /\ log2 = SubSeq(journal, 1, m)
                           /\ own2 = [i \in 1..m |-> own[i]]
  OBVIOUS
<1>3. /\ log2 \in Seq(JournalRow) /\ Len(log2) = m /\ m \in 0..Len(journal) /\ m \in Nat
      /\ \A i \in 1..m : log2[i] = journal[i]
  BY <1>1, <1>2
<1>4. own2 \in [1..m -> Nat] /\ \A i \in 1..m : own2[i] = own[i]
  BY <1>1, <1>2, <1>3
<1>5. Same(journal, own, log2, own2, m) /\ (log2 # <<>> => m > 0)
  <2>1. log2 # <<>> => m > 0
    BY <1>3
  <2> QED
    BY <1>3, <1>4, <2>1 DEF Same
<1>6. Placed(program, log2, due, own2)
  BY <1>1, <1>3, <1>4, <1>5, RowsLost
<1>7. Sound(program, log2, m, due, own2)
  <2>1. due \subseteq 1..m /\ \A i \in due : journal[i].kind = "TIMER" /\ journal[i].val = Timed
    BY <1>0, <1>2 DEF Sound
  <2>2. \A i \in due : log2[i].kind = "TIMER" /\ log2[i].val = Timed
    BY <1>3, <2>1
  <2>3. m \in 0..Len(log2)
    BY <1>3
  <2> QED
    BY <1>1, <1>3, <1>6, <2>1, <2>2, <2>3 DEF Sound
<1>8. log2 = journal' /\ m = durable' /\ program' = program /\ due' = due
  BY <1>2
<1>9. UnendedInv(own2)'
  <2>1. ASSUME NEW i \in 2..m PROVE own2[i] # Len(program) + 1
    <3>1. i \in 2..Len(journal) /\ ~(i > durable) /\ i \in 1..m
      BY <1>1, <1>2, <1>3
    <3>2. own[i] # Len(program) + 1
      BY <1>0, <3>1 DEF UnendedInv
    <3> QED
      BY <1>4, <3>1, <3>2
  <2> QED
    BY <1>3, <1>8, <2>1 DEF UnendedInv
<1>10. AttemptInv(own2)' /\ CursorInv(own2)' /\ ParkInv(own2)'
  BY DEF AttemptInv, CursorInv, ParkInv
<1>11. ASSUME NEW j \in 2..m PROVE log2[j] = journal[j] /\ own2[j] = own[j] /\ j \in 2..Len(journal)
  BY <1>3, <1>4
<1>12. KeptInv(own2)'
  <2>1. Finished(log2, m, own2, done)
    BY <1>0, <1>2, <1>11, ZenonT(30) DEF KeptInv, Finished
  <2>2. ASSUME GatesApart PROVE Remembered(program, log2, m, own2, kept)
    <3>1. Remembered(program, journal, m, own, kept)
      BY <1>0, <1>2, <2>2 DEF KeptInv
    <3>2. ASSUME NEW p \in 1..Len(kept) PROVE Told(program, log2, own2, p, kept[p], m)
      <4>1. Told(program, journal, own, p, kept[p], m)
        BY <3>1 DEF Remembered
      <4>2. \A j \in 2..Len(log2) : own2[j] = p /\ log2[j].kind = "SIGNAL" =>
              \E i \in 2..Len(journal) : own[i] = p /\ journal[i].kind = "SIGNAL"
        BY <1>3, <1>11
      <4>3. m <= m
        BY <1>3
      <4> QED
        BY <1>3, <1>5, <4>1, <4>2, <4>3, ToldStays
    <3>3. ASSUME Len(kept) > 0
          PROVE  \E j \in 2..m : own2[j] = Len(kept) + 1 /\ log2[j].kind # "SIGNAL"
      BY <1>11, <3>1, <3>3 DEF Remembered
    <3> QED
      BY <3>1, <3>2, <3>3 DEF Remembered
  <2> QED
    BY <1>8, <2>1, <2>2, SameGates DEF KeptInv
<1> QED
  BY <1>3, <1>7, <1>8, <1>9, <1>10, <1>12 DEF LiveInv, Underway

LEMMA ElapseInv ==
  ASSUME NEW own, LiveInv(own), NEW k, Elapse(k)
  PROVE  Underway'
<1>0. /\ k \in 1..durable /\ journal[k].kind = "TIMER" /\ journal[k].val = Timed
      /\ due' = due \cup {k}
      /\ UNCHANGED <<program, journal, durable, pc, at, pending, draws, said, kept, done, status>>
  BY DEF Elapse, store, attempt, history
<1>1. Sound(program, journal, durable, due, own)
  BY DEF LiveInv
<1>2. PICK late : late = due \cup {k}
  OBVIOUS
<1>3. ASSUME NEW q, NEW i \in Nat, Passed(program, journal, due, own, q, i)
      PROVE  Passed(program, journal, late, own, q, i)
  <2>1. due \subseteq late /\ i <= i /\ Same(journal, own, journal, own, i - 1)
    BY <1>2 DEF Same
  <2> QED
    BY <1>3, <2>1, PassedStill
<1>4. Placed(program, journal, late, own)
  <2>1. InTurn(program, journal, late, own)
    <3> SUFFICES ASSUME NEW j \in 2..Len(journal), NEW p \in 1..Len(program), p < own[j]
                 PROVE  \/ Passed(program, journal, late, own, p, j)
                        \/ /\ journal[j].kind = "SIGNAL" /\ p + 1 = own[j]
                           /\ program[p].verb = "sleep" /\ \E i \in 2..(j - 1) : own[i] = p
      BY DEF InTurn
    <3>1. j \in Nat
      OBVIOUS
    <3> QED
      BY <1>1, <1>3, <3>1 DEF Sound, Placed, InTurn
  <2> QED
    BY <1>1, <2>1 DEF Sound, Placed
<1>5. Sound(program, journal, durable, late, own)
  BY <1>0, <1>1, <1>2, <1>4 DEF Sound
<1>6. ASSUME NEW p, NEW answers, NEW n, Going(program, journal, due, own, p, answers, n)
      PROVE  Going(program, journal, late, own, p, answers, n)
  <2>1. Len(journal) + 1 \in Nat
    BY <1>1 DEF Sound
  <2> QED
    BY <1>3, <1>6, <2>1 DEF Going
<1>7. Sound(program, journal, durable, due, own)'
  BY <1>0, <1>2, <1>5
<1>8. AttemptInv(own)'
  BY <1>0, <1>2, <1>6 DEF LiveInv, AttemptInv
<1>9. UnendedInv(own)' /\ CursorInv(own)' /\ ParkInv(own)'
  BY <1>0 DEF LiveInv, UnendedInv, CursorInv, ParkInv
<1>10. KeptInv(own)'
  BY <1>0, SameGates DEF LiveInv, KeptInv
<1> QED
  BY <1>0, <1>7, <1>8, <1>9, <1>10 DEF LiveInv, Underway

\* A step of something else.
LEMMA ElsewhereInv ==
  ASSUME NEW own, LiveInv(own),
         UNCHANGED <<program, journal, durable, due, pc, at, pending, draws, said, kept, done, status>>
  PROVE  Underway'
<1>1. Sound(program, journal, durable, due, own)' /\ UnendedInv(own)'
  BY DEF LiveInv, UnendedInv
<1>2. AttemptInv(own)' /\ CursorInv(own)' /\ ParkInv(own)'
  BY DEF LiveInv, AttemptInv, CursorInv, ParkInv
<1>3. KeptInv(own)'
  BY SameGates DEF LiveInv, KeptInv
<1> QED
  BY <1>1, <1>2, <1>3 DEF LiveInv, Underway

--------------------------------------------------------------------------------
(* Signals.                                                                    *)

\* The last row is the timer of the gate that wants n, or of the sleep before it.
Trails(own, n, last, gate) ==
  /\ last = Len(journal) /\ last >= 2 /\ journal[last].kind = "TIMER"
  /\ gate \in 1..Len(program) /\ program[gate].verb = "await" /\ n \in program[gate].of
  /\ \/ gate = own[last]
     \/ gate = own[last] + 1 /\ program[own[last]].verb = "sleep"

\* A signal comes when a timer trails, at whose gate, or at the gate right behind
\* whose sleep, it is wanted: it belongs to the first gate that wants it and has
\* no answer, which is that one where the gates are apart.
LEMMA GateFor ==
  ASSUME NEW own, Sound(program, journal, durable, due, own), program \in Seq(Verbs),
         NEW n, NEW e, e.kind = "SIGNAL", e.of = {n}, NEW last, NEW gate, Trails(own, n, last, gate)
  PROVE  \E p \in 1..gate :
           /\ SignalFits(program, journal, due, own, e, p)
           /\ \A i \in 2..Len(journal) : own[i] = p => journal[i].kind # "SIGNAL"
           /\ GatesApart => p = gate
<1> USE DEF Trails
<1>0. /\ last \in 2..Len(journal) /\ Len(journal) \in Nat /\ Len(program) \in Nat
      /\ last \in Nat /\ gate \in Nat /\ own[last] \in Nat /\ own[last] <= gate
  <2>1. Len(journal) \in Nat /\ Len(program) \in Nat
    BY DEF Sound
  <2>2. last \in 2..Len(journal) /\ last \in Nat /\ gate \in Nat
    BY <2>1
  <2>3. own[last] \in Nat
    BY <2>2, RowsOwned
  <2> QED
    BY <2>1, <2>2, <2>3
<1>1. ASSUME NEW i \in 2..Len(journal)
      PROVE  own[i] <= own[last] /\ own[i] \in Nat /\ (own[i] = gate => journal[i].kind # "SIGNAL")
  <2>1. own[i] \in Nat
    BY RowsOwned
  <2>2. CASE i = last
    BY <1>0, <2>1, <2>2
  <2>3. CASE i # last
    <3>1. i < last
      BY <1>0, <2>3
    <3>2. own[i] <= own[last] /\ (own[i] = own[last] => journal[i].kind \in {"INTENT", "FAILED"})
      BY <1>0, <3>1, Pairs
    <3>3. own[i] = gate => own[i] = own[last]
      BY <1>0, <2>1, <3>2
    <3> QED
      BY <2>1, <3>2, <3>3
  <2> QED
    BY <2>2, <2>3
<1>2. PICK S : S = {q \in 1..gate :
                      /\ program[q].verb = "await" /\ n \in program[q].of
                      /\ \A i \in 2..Len(journal) : own[i] = q => journal[i].kind # "SIGNAL"}
  OBVIOUS
<1>3. gate \in S /\ S \in SUBSET Nat
  BY <1>0, <1>1, <1>2
<1>4. PICK p \in S : \A q \in S : p <= q
  BY <1>3, MinIn
<1>5. /\ p \in 1..gate /\ program[p].verb = "await" /\ n \in program[p].of /\ p \in Nat
      /\ \A i \in 2..Len(journal) : own[i] = p => journal[i].kind # "SIGNAL"
  BY <1>0, <1>2
<1>6. ASSUME NEW q \in 1..Len(program), q < own[last]
      PROVE  Passed(program, journal, due, own, q, last)
  BY <1>0, <1>6 DEF Sound, Placed, InTurn
<1>7. ASSUME NEW q \in 1..(p - 1)
      PROVE  /\ \/ Passed(program, journal, due, own, q, Len(journal) + 1)
                \/ q + 1 = p /\ program[q].verb = "sleep" /\ \E i \in 2..Len(journal) : own[i] = q
             /\ program[q].verb = "await" /\ e.of \subseteq program[q].of =>
                  \E i \in 2..Len(journal) : own[i] = q /\ journal[i].kind = "SIGNAL"
  <2>1. q \in 1..Len(program) /\ q \in 1..gate /\ q < p /\ q \in Nat /\ q < gate
    BY <1>0, <1>5
  <2>2. q \notin S
    BY <1>4, <1>5, <2>1
  <2>3. program[q].verb = "await" /\ e.of \subseteq program[q].of =>
          \E i \in 2..Len(journal) : own[i] = q /\ journal[i].kind = "SIGNAL"
    BY <1>2, <2>1, <2>2
  <2>4. CASE q < own[last]
    <3>1. Passed(program, journal, due, own, q, last)
      BY <1>6, <2>1, <2>4
    <3>2. /\ Len(journal) + 1 \in Nat /\ last <= Len(journal) + 1 /\ due \subseteq due
          /\ Same(journal, own, journal, own, last - 1)
      BY <1>0 DEF Same
    <3>3. Passed(program, journal, due, own, q, Len(journal) + 1)
      BY <1>0, <3>1, <3>2, PassedStill
    <3> QED
      BY <2>3, <3>3
  <2>5. CASE ~(q < own[last])
    <3>1. q = own[last] /\ gate = own[last] + 1 /\ q + 1 = p
      BY <1>0, <1>5, <2>1, <2>5
    <3>2. program[q].verb = "sleep"
      BY <1>0, <3>1
    <3> QED
      BY <1>0, <2>3, <3>1, <3>2
  <2> QED
    BY <2>4, <2>5
<1>8. ASSUME NEW i \in 2..Len(journal), own[i] = p PROVE journal[i].kind = "TIMER"
  <2>1. Fits(program, journal[i], p) /\ p # Len(program) + 1
    BY <1>0, <1>5, <1>8, RowsOwned
  <2> QED
    BY <1>5, <1>8, <2>1 DEF Fits
<1>9. SignalFits(program, journal, due, own, e, p)
  <2>1. p \in 1..Len(program) /\ e.of \subseteq program[p].of
    BY <1>0, <1>5
  <2> QED
    BY <1>5, <1>7, <1>8, <2>1 DEF SignalFits
<1>10. ASSUME GatesApart, p # gate PROVE FALSE
  <2>1. p < gate /\ p \in 1..Len(program)
    BY <1>0, <1>5, <1>10
  <2>2. p < own[last]
    <3>1. gate = own[last] \/ p < own[last] \/ (p = own[last] /\ program[own[last]].verb = "sleep")
      BY <1>0, <1>5, <2>1
    <3> QED
      BY <1>0, <1>5, <2>1, <3>1
  <2>3. Passed(program, journal, due, own, p, last)
    BY <1>6, <2>1, <2>2
  <2>4. PICK j \in 2..(last - 1) : own[j] = p /\ Closes(journal, due, j)
    BY <1>5, <2>3 DEF Passed
  <2>5. j \in 2..Len(journal)
    BY <1>0
  <2>6. journal[j].kind = "TIMER" /\ j \in due
    BY <1>8, <2>4, <2>5 DEF Closes
  <2>7. journal[j].val = Timed
    BY <2>6 DEF Sound
  <2>8. Fits(program, journal[j], p)
    BY <2>4, <2>5, RowsOwned
  <2>9. program[p].wait = Timed
    BY <1>5, <2>1, <2>6, <2>7, <2>8 DEF Fits
  <2>10. p \in DOMAIN program /\ gate \in DOMAIN program => program[p].of \cap program[gate].of = {}
    BY <1>5, <1>10, <2>1, <2>9 DEF GatesApart
  <2> QED
    BY <1>5, <2>1, <2>10
<1> QED
  BY <1>5, <1>9, <1>10

\* The gate that the signal is for.
LEMMA AwaitedGate ==
  ASSUME NEW own, LiveInv(own), pc = "idle", program \in Programs, NEW n, Awaited(n),
         NEW last, last = Len(journal)
  PROVE  /\ last >= 2 /\ journal[last].kind = "TIMER" /\ journal # <<>> /\ last \in 2..Len(journal)
         /\ \E gate : Trails(own, n, last, gate)
<1>0. /\ Sound(program, journal, durable, due, own)
      /\ journal \in Seq(JournalRow) /\ Len(journal) \in Nat /\ Len(program) \in Nat
      /\ \A i \in 2..Len(journal) : own[i] # Len(program) + 1
      /\ (journal # <<>> => journal[1].kind = "STARTED")
  BY IdleHas
<1>1. journal # <<>> /\ journal[last].kind = "TIMER"
  BY DEF Awaited, Latest
<1>2. last >= 2 /\ last \in 2..Len(journal)
  BY <1>0, <1>1
<1>3. PICK p : p = own[last]
  OBVIOUS
<1>4. p \in 1..Len(program) /\ Fits(program, journal[last], p)
  BY <1>0, <1>2, <1>3, RowsOwned
<1>5. /\ program \in Seq(Verbs)
      /\ program[p].verb = "sleep" => program[p].of = {}
      /\ program[p].verb = "await" => program[p].of # {}
  <2>1. program \in Seq(Verbs) /\ p \in DOMAIN program
    BY <1>4, ProgramsAssumption
  <2>2. \A q \in DOMAIN program :
          /\ program[q].verb = "sleep" => program[q].of = {}
          /\ program[q].verb = "await" => program[q].of # {}
    BY ProgramsAssumption, Zenon
  <2> QED
    BY <2>1, <2>2
<1>6. CASE n \in journal[last].of
  <2>1. program[p].verb = "await" /\ n \in program[p].of
    BY <1>1, <1>4, <1>6 DEF Fits
  <2> QED
    BY <1>1, <1>2, <1>3, <1>4, <2>1 DEF Trails
<1>7. CASE /\ journal[last].of = {} /\ status = "parked" /\ at + 1 \in DOMAIN program
           /\ program[at + 1].verb = "await" /\ n \in program[at + 1].of
  <2>1. program[p].verb = "sleep"
    BY <1>1, <1>4, <1>5, <1>7 DEF Fits
  <2>2. ParkedAt(program, journal, own, at, status)
    BY <1>7 DEF LiveInv, ParkInv
  <2>3. at \in 1..Len(program) /\ p <= at
    BY <1>1, <1>2, <1>3, <2>2 DEF ParkedAt
  <2>4. PICK i \in 2..Len(journal) : own[i] = at
    BY <2>2 DEF ParkedAt
  <2>5. at <= p
    <3>1. i = last \/ i < last
      BY <1>0
    <3> QED
      BY <1>0, <1>1, <1>2, <1>3, <2>3, <2>4, <3>1, Pairs
  <2>6. at = p /\ at + 1 \in 1..Len(program)
    BY <1>0, <1>4, <1>5, <1>7, <2>3, <2>5
  <2> QED
    BY <1>1, <1>2, <1>3, <1>7, <2>1, <2>6 DEF Trails
<1> QED
  BY <1>1, <1>6, <1>7 DEF Awaited, Latest

LEMMA SignalInv ==
  ASSUME NEW own, LiveInv(own), pc = "idle", program \in Programs, NEW n \in Tags,
         Awaited(n), RunAttempt(Append(journal, Entry("SIGNAL", {n}, 0)), FALSE, FALSE),
         UNCHANGED <<program, due, kept, done>>
  PROVE  Underway'
<1>0. /\ Sound(program, journal, durable, due, own) /\ durable = Len(journal)
      /\ journal \in Seq(JournalRow) /\ Len(journal) \in Nat /\ Len(program) \in Nat
      /\ \A i \in 2..Len(journal) : own[i] # Len(program) + 1
      /\ KeptInv(own)
  BY IdleHas
<1>1. PICK last, e, log2 : /\ last = Len(journal) /\ e = Entry("SIGNAL", {n}, 0)
                           /\ log2 = Append(journal, e)
  OBVIOUS
<1>2. e \in JournalRow /\ e.kind = "SIGNAL" /\ e.of = {n}
  BY <1>1 DEF JournalRow, Tags, Entry, Kinds
<1>3. /\ last >= 2 /\ journal[last].kind = "TIMER" /\ journal # <<>> /\ last \in 2..Len(journal)
      /\ \E gate : Trails(own, n, last, gate)
  BY <1>1, AwaitedGate
<1>4. PICK gate : Trails(own, n, last, gate)
  BY <1>3
<1>5. PICK p \in 1..gate :
           /\ SignalFits(program, journal, due, own, e, p)
           /\ \A i \in 2..Len(journal) : own[i] = p => journal[i].kind # "SIGNAL"
           /\ GatesApart => p = gate
  <2>1. program \in Seq(Verbs)
    BY ProgramsAssumption
  <2>2. Sound(program, journal, durable, due, own)
    BY <1>0
  <2> QED
    BY <1>2, <1>4, <2>1, <2>2, GateFor
<1>6. p \in Nat /\ p # Len(program) + 1
  BY <1>0, <1>4 DEF Trails
<1>7. PICK own2 : own2 = Owned(own, Len(journal), p)
  OBVIOUS
<1>8. Wrote(journal, own, log2, own2, e, p)
  BY <1>1, <1>2, <1>3, <1>6, <1>7 DEF Wrote
<1>9. /\ Grown(journal, own, log2, own2, last, e, p)
      /\ Len(log2) = last + 1 /\ log2 # <<>> /\ own2[last + 1] = p /\ log2[last + 1] = e
      /\ \A i \in 1..last : own2[i] = own[i] /\ log2[i] = journal[i]
  BY <1>0, <1>1, <1>8, GrownBy
<1>10. Sound(program, log2, durable, due, own2)
  <2>1. durable \in {durable, Len(journal) + 1}
    OBVIOUS
  <2> QED
    BY <1>0, <1>5, <1>8, <2>1, SoundGrows
<1>11. ASSUME NEW i \in 2..Len(log2) PROVE own2[i] # Len(program) + 1
  <2>1. CASE i = last + 1
    BY <1>6, <1>9, <2>1
  <2>2. CASE i # last + 1
    <3>1. i \in 2..Len(journal) /\ i \in 1..last
      BY <1>0, <1>1, <1>9, <2>2
    <3> QED
      BY <1>0, <1>9, <3>1
  <2> QED
    BY <2>1, <2>2
<1>12. ~Ended(log2) /\ log2[1].kind = "STARTED"
  BY <1>9, <1>10, <1>11, NotEnded
<1>13. /\ journal' = log2 /\ durable' = durable /\ Begins
  <2>1. RunAttempt(log2, FALSE, FALSE)
    BY <1>1
  <2> QED
    BY <1>9, <1>12, <2>1 DEF RunAttempt, Begins
<1>14. Finished(log2, durable, own2, done)
  <2>1. durable \in 0..last /\ durable \in {durable, last + 1}
    BY <1>0, <1>1
  <2> QED
    BY <1>0, <1>9, <2>1, FinishedGrows DEF KeptInv
<1>15. ASSUME GatesApart PROVE Remembered(program, log2, durable, own2, kept)
  <2>0. p = gate /\ durable = last /\ last \in Nat
    BY <1>0, <1>1, <1>5, <1>15
  <2>1. Remembered(program, journal, durable, own, kept) /\ kept \in Seq(Nat) /\ Len(kept) \in Nat
    BY <1>0, <1>15 DEF KeptInv, Remembered
  <2>2. Len(kept) < p
    <3>1. CASE ~(Len(kept) > 0)
      BY <1>6, <2>1, <3>1
    <3>2. CASE Len(kept) > 0
      <4>1. PICK j \in 2..durable : own[j] = Len(kept) + 1
        BY <2>1, <3>2 DEF Remembered
      <4>2. j \in 2..Len(journal) /\ (j = last \/ j < last)
        BY <1>0, <1>1
      <4>3. own[j] <= own[last] /\ own[last] \in Nat
        BY <1>0, <1>3, <4>2, Pairs, RowsOwned
      <4>4. own[last] <= gate
        BY <1>4, <4>3 DEF Trails
      <4> QED
        BY <2>0, <2>1, <4>1, <4>3, <4>4
    <3> QED
      BY <3>1, <3>2
  <2>3. ASSUME NEW q \in 1..Len(kept) PROVE Told(program, log2, own2, q, kept[q], durable)
    <3>1. Told(program, journal, own, q, kept[q], durable)
      BY <2>1 DEF Remembered
    <3>2. Same(journal, own, log2, own2, durable) /\ durable \in Nat /\ durable <= durable
      BY <1>9, <2>0 DEF Same
    <3>3. ASSUME NEW j \in 2..Len(log2), own2[j] = q, log2[j].kind = "SIGNAL"
          PROVE  \E i \in 2..Len(journal) : own[i] = q /\ journal[i].kind = "SIGNAL"
      <4>1. j # last + 1
        BY <1>6, <1>9, <2>1, <2>2, <3>3
      <4>2. j \in 1..last /\ j \in 2..Len(journal)
        BY <1>0, <1>1, <1>9, <4>1
      <4> QED
        BY <1>9, <3>3, <4>2
    <3>4. \A j \in 2..Len(log2) : own2[j] = q /\ log2[j].kind = "SIGNAL" =>
            \E i \in 2..Len(journal) : own[i] = q /\ journal[i].kind = "SIGNAL"
      BY <3>3
    <3> QED
      BY <3>1, <3>2, <3>4, ToldStays
  <2>4. ASSUME Len(kept) > 0
        PROVE  \E j \in 2..durable : own2[j] = Len(kept) + 1 /\ log2[j].kind # "SIGNAL"
    <3>1. PICK j \in 2..durable : own[j] = Len(kept) + 1 /\ journal[j].kind # "SIGNAL"
      BY <2>1, <2>4 DEF Remembered
    <3>2. j \in 1..last
      BY <2>0
    <3> QED
      BY <1>9, <3>1, <3>2
  <2> QED
    BY <2>1, <2>3, <2>4 DEF Remembered
<1>16. KeptInv(own2)'
  BY <1>13, <1>14, <1>15, SameGates DEF KeptInv
<1>17. Sound(program', journal', durable', due', own2) /\ journal' # <<>>
  BY <1>9, <1>10, <1>13
<1>18. \A i \in 2..Len(journal') : own2[i] # Len(program') + 1
  BY <1>11, <1>13
<1> QED
  BY <1>13, <1>16, <1>17, <1>18, BeginsInv

--------------------------------------------------------------------------------
(* Every step.                                                                 *)

\* What is used up of the bounds stays a number.
LEMMA SpendType ==
  ASSUME SpentType,
         \/ UNCHANGED spent
         \/ \E what \in {"calls", "strays", "reads", "bodies", "failures", "errors", "crashes"} :
              Spend(what)
  PROVE  SpentType'
  BY DEF SpentType, Spend

\* What every step leaves alone, and what it adds to.
Frame ==
  /\ UNCHANGED program /\ mishap \subseteq mishap'
  /\ \/ UNCHANGED spent
     \/ \E what \in {"calls", "strays", "reads", "bodies", "failures", "errors", "crashes"} :
          Spend(what)

Diverges == StepDiverges \/ SleepDiverges \/ AwaitDiverges \/ SpawnDiverges

LEMMA NextFrame ==
  ASSUME WorkflowNext
  PROVE  Frame /\ ("diverged" \in mishap' => "diverged" \in mishap \/ Diverges)
<1>1. CASE StepReplays \/ StepBlocked \/ AwaitParks \/ AwaitFinds \/ AwaitAnswered \/ AwaitTimesOut
  BY <1>1 DEF StepReplays, StepBlocked, AwaitParks, AwaitFinds, AwaitAnswered, AwaitTimesOut,
              Frame, history
<1>2. CASE AwaitParksAgain \/ SpawnReplays \/ SpawnLaunches \/ Launched \/ Random \/ Complete \/ EndCall
  BY <1>2 DEF AwaitParksAgain, SpawnReplays, SpawnLaunches, Launched, Random, Complete, EndCall,
              Frame, history
<1>9. CASE Cancel \/ CancelChild \/ CancelEnds \/ Hang
  BY <1>9 DEF Cancel, CancelChild, CancelEnds, Hang, Frame, history
<1>3. CASE Diverges
  BY <1>3 DEF Diverges, StepDiverges, SleepDiverges, AwaitDiverges, SpawnDiverges, Diverge, Frame
<1>4. CASE StepRuns \/ BodySucceeds \/ Sleep \/ \E v \in 1..2 : Time(v)
  BY <1>4 DEF StepRuns, BodySucceeds, Sleep, Time, Frame, history
<1>5. CASE BodyFails \/ CallFails \/ Crash \/ \E v \in 1..2 : BodyReads(v)
  BY <1>5 DEF BodyFails, CallFails, Crash, BodyReads, Frame
<1>6. CASE Start \/ Resume \/ FireAlarm
  BY <1>6 DEF Start, Resume, FireAlarm, Frame
<1>7. ASSUME NEW n, Signal(n) PROVE Frame /\ ("diverged" \in mishap' => "diverged" \in mishap)
  BY <1>7 DEF Signal, Frame
<1>8. CASE \/ \E o \in Ordinals : ChildEnds(o) \/ ChildSignalLost(o)
           \/ \E i \in DOMAIN journal : Elapse(i)
  BY <1>8 DEF ChildEnds, ChildSignalLost, Elapse, Frame, history
<1> QED
  BY <1>1, <1>2, <1>3, <1>4, <1>5, <1>6, <1>7, <1>8, <1>9
  DEF WorkflowNext, Running, SignalFromOutside, ChildSignals, Diverges

\* A call of an attempt that is under way.
LEMMA RunningInv ==
  ASSUME NEW own, LiveInv(own), program \in Seq(Verbs), SpentType, Running
  PROVE  Over' \/ Underway'
<1>1. CASE StepReplays \/ StepBlocked \/ StepRuns \/ BodySucceeds
  BY <1>1, StepReplaysInv, StepBlockedInv, StepRunsInv, BodySucceedsInv
<1>2. CASE Sleep \/ Random \/ Complete \/ EndCall
  BY <1>2, SleepInv, RandomInv, CompleteInv, EndCallInv
<1>3. CASE AwaitParks \/ AwaitFinds \/ AwaitAnswered \/ AwaitTimesOut \/ AwaitParksAgain
  BY <1>3, AwaitParksInv, AwaitFindsInv, AwaitAnsweredInv, AwaitTimesOutInv
<1>4. CASE SpawnReplays \/ SpawnLaunches \/ Launched
  BY <1>4, SpawnInv, LaunchedInv
<1>5. ASSUME NEW v \in 1..2, Time(v) PROVE Underway'
  BY <1>5, TimeInv
<1>6. ~StepDiverges /\ ~SleepDiverges /\ ~AwaitDiverges /\ ~SpawnDiverges
  BY NoDivergence
<1>7. CASE CancelChild \/ CancelEnds
  BY <1>7, WaitsInv, CancelInv DEF Underway
<1> QED
  BY <1>1, <1>2, <1>3, <1>4, <1>5, <1>6, <1>7 DEF Running

\* A signal that is provided for.
LEMMA SignalKeeps ==
  ASSUME Over \/ Underway, program \in Programs, NEW n \in Tags, Signal(n), Undisturbed'
  PROVE  Over' \/ Underway'
<1>1. /\ pc = "idle" /\ RunAttempt(Append(journal, Entry("SIGNAL", {n}, 0)), FALSE, FALSE)
      /\ UNCHANGED <<program, due, kept, done>> /\ Awaited(n)
  BY DEF Signal, Undisturbed
<1>2. CASE Over
  <2>1. PICK e : e = Entry("SIGNAL", {n}, 0)
    OBVIOUS
  <2>2. e \in JournalRow
    BY <2>1 DEF JournalRow, Tags, Entry, Kinds
  <2>3. Append(journal, e) \in Seq(JournalRow) /\ Ended(Append(journal, e))
    BY <1>2, <2>2, EndedStays DEF Over
  <2> QED
    BY <1>1, <1>2, <2>1, <2>3, OverStays
<1>3. ASSUME NEW own, LiveInv(own) PROVE Underway'
  BY <1>1, <1>3, SignalInv
<1> QED
  BY <1>2, <1>3 DEF Underway

LEMMA ChildSignalType == \A o \in Ordinals : ChildSignal(o) \in Tags
<1>1. ASSUME NEW o \in Ordinals PROVE ChildSignal(o) \in Tags
  <2>1. PICK s, k : s = <<"c0", "c1">> /\ k = o + 1
    OBVIOUS
  <2>2. s[1] = "c0" /\ s[2] = "c1" /\ (k = 1 \/ k = 2)
    BY <2>1 DEF Ordinals
  <2>3. s[k] \in {"c0", "c1"}
    BY <2>2
  <2> QED
    BY <2>1, <2>3 DEF ChildSignal, Tags
<1> QED
  BY <1>1

\* A run that has not ended.
LEMMA LiveStep ==
  ASSUME NEW own, LiveInv(own), program \in Programs, SpentType, WorkflowNext, Undisturbed'
  PROVE  Over' \/ Underway'
<1>0. program \in Seq(Verbs) /\ Underway
  BY ProgramsAssumption DEF Underway
<1>1. CASE Running
  BY <1>0, <1>1, RunningInv
<1>2. CASE BodyFails
  BY <1>0, <1>2, BodyFailsInv
<1>3. CASE CallFails \/ Crash
  <2>1. /\ journal' = SubSeq(journal, 1, durable) /\ pc' = "idle" /\ status' \in {"error", "none"}
        /\ UNCHANGED <<program, durable, due, kept, done>>
    BY <1>3 DEF CallFails, Crash, Rollback
  <2>2. status' \notin {"parked", "failed"}
    BY <2>1
  <2> QED
    BY <1>0, <2>1, <2>2, DroppedInv
<1>4. CASE Start \/ Resume \/ FireAlarm
  <2>1. /\ pc = "idle" /\ \E input, resuming : RunAttempt(journal, input, resuming)
        /\ UNCHANGED <<program, due, kept, done>>
    BY <1>4 DEF Start, Resume, FireAlarm
  <2> QED
    BY <1>0, <2>1, AttemptBegins
<1>5. CASE Cancel \/ Hang
  BY <1>0, <1>5, WaitsInv
<1>6. ASSUME NEW v \in 1..2, BodyReads(v) PROVE FALSE
  BY <1>6 DEF BodyReads, Undisturbed
<1>7. ASSUME NEW n \in Signals, SignalFromOutside(n) PROVE Over' \/ Underway'
  BY <1>0, <1>7, SignalKeeps DEF SignalFromOutside, Tags
<1>8. ASSUME NEW o \in Ordinals, ChildSignals(o) PROVE Over' \/ Underway'
  <2>1. Signal(ChildSignal(o)) /\ ChildSignal(o) \in Tags
    BY <1>8, ChildSignalType DEF ChildSignals
  <2> QED
    BY <1>0, <2>1, SignalKeeps
<1>9. ASSUME NEW o \in Ordinals, ChildEnds(o) \/ ChildSignalLost(o) PROVE Underway'
  <2>1. UNCHANGED <<program, journal, durable, due, pc, at, pending, draws, said, kept, done, status>>
    BY <1>9 DEF ChildEnds, ChildSignalLost, store, attempt, history
  <2> QED
    BY <2>1, ElsewhereInv
<1>10. ASSUME NEW i, Elapse(i) PROVE Underway'
  BY <1>10, ElapseInv
<1> QED
  BY <1>1, <1>2, <1>3, <1>4, <1>5, <1>6, <1>7, <1>8, <1>9, <1>10 DEF WorkflowNext

\* A run that has ended.
LEMMA OverStep ==
  ASSUME Over, program \in Programs, WorkflowNext, Undisturbed'
  PROVE  Over' /\ ~Diverges
<1>0. /\ journal \in Seq(JournalRow) /\ Ended(journal) /\ durable = Len(journal)
      /\ pc \in {"idle", "cancel", "hung"}
  BY DEF Over
<1>1. (Running => CancelChild \/ CancelEnds) /\ ~BodyFails /\ ~Diverges
  BY <1>0 DEF Running, BodyFails, Diverges, StepReplays, StepBlocked, StepDiverges,
     StepRuns, BodySucceeds, Sleep, SleepDiverges, AwaitParks, AwaitFinds, AwaitDiverges,
     AwaitAnswered, AwaitTimesOut, AwaitParksAgain, SpawnReplays, SpawnDiverges, SpawnLaunches,
     Launched, Random, Complete, EndCall, Time, AtVerb
<1>2. CASE CallFails \/ Crash
  <2>1. PICK r, n : r = SubSeq(journal, 1, durable) /\ n = Len(journal)
    OBVIOUS
  <2>2. /\ r \in Seq(JournalRow) /\ Len(r) = n /\ n \in Nat /\ \A i \in 1..n : r[i] = journal[i]
        /\ DOMAIN r = 1..n /\ DOMAIN journal = 1..n
    BY <1>0, <2>1
  <2>3. Ended(r)
    BY <1>0, <2>2 DEF Ended, Has
  <2> QED
    BY <1>0, <1>1, <1>2, <2>1, <2>2, <2>3 DEF CallFails, Rollback, Crash, Over
<1>3. CASE Start \/ Resume \/ FireAlarm
  <2>1. \E input, resuming : RunAttempt(journal, input, resuming)
    BY <1>3 DEF Start, Resume, FireAlarm
  <2>2. PICK input, resuming : RunAttempt(journal, input, resuming)
    BY <2>1
  <2> QED
    BY <1>0, <1>1, <2>2, OverStays
<1>4. CASE Cancel \/ CancelChild \/ CancelEnds \/ Hang
  <2>1. Over \/ Underway
    OBVIOUS
  <2> QED
    BY <1>1, <1>4, <2>1, CancelInv, WaitsInv
<1>5. ASSUME NEW v \in 1..2, BodyReads(v) PROVE FALSE
  BY <1>0, <1>5 DEF BodyReads
<1>6. ASSUME NEW n \in Tags, Signal(n) PROVE Over'
  <2>1. /\ pc = "idle" /\ RunAttempt(Append(journal, Entry("SIGNAL", {n}, 0)), FALSE, FALSE)
    BY <1>6 DEF Signal
  <2>2. PICK e : e = Entry("SIGNAL", {n}, 0)
    OBVIOUS
  <2>3. e \in JournalRow
    BY <2>2 DEF JournalRow, Tags, Entry, Kinds
  <2>4. Append(journal, e) \in Seq(JournalRow) /\ Ended(Append(journal, e))
    BY <1>0, <2>3, EndedStays
  <2> QED
    BY <2>1, <2>2, <2>4, OverStays
<1>7. ASSUME NEW o \in Ordinals, ChildSignals(o) PROVE Over'
  <2>1. Signal(ChildSignal(o)) /\ ChildSignal(o) \in Tags
    BY <1>7, ChildSignalType DEF ChildSignals
  <2> QED
    BY <1>6, <2>1
<1>8. ASSUME NEW o \in Ordinals, ChildEnds(o) \/ ChildSignalLost(o) PROVE Over'
  BY <1>0, <1>8 DEF ChildEnds, ChildSignalLost, store, Over
<1>9. ASSUME NEW i, Elapse(i) PROVE Over'
  BY <1>0, <1>9 DEF Elapse, store, Over
<1> QED
  BY <1>1, <1>2, <1>3, <1>4, <1>5, <1>6, <1>7, <1>8, <1>9 DEF WorkflowNext, SignalFromOutside, Tags

LEMMA WorkflowInitially == ASSUME WorkflowInit PROVE WorkflowInv
<1>1. /\ program \in Programs /\ journal = <<>> /\ durable = 0 /\ due = {} /\ pc = "idle"
      /\ kept = <<>> /\ done = {} /\ status = "none" /\ mishap = {}
  BY DEF WorkflowInit
<1>2. SpentType
  BY DEF WorkflowInit, SpentType
<1>3. PICK own : own = [i \in 1..0 |-> 0]
  OBVIOUS
<1>4. /\ program \in Seq(Verbs) /\ Len(program) \in Nat
      /\ <<>> \in Seq(JournalRow) /\ <<>> \in Seq(Nat) /\ Len(<<>>) = 0 /\ 2..0 = {} /\ 1..0 = {}
  BY <1>1, ProgramsAssumption
<1>5. Placed(program, <<>>, {}, own)
  <2>1. own \in [1..0 -> Nat]
    BY <1>3
  <2>2. Rows(program, <<>>, own)
    BY <1>4, <2>1 DEF Rows
  <2>3. Ordered(<<>>, own) /\ Tried(<<>>, own) /\ InTurn(program, <<>>, {}, own)
        /\ FirstServed(program, <<>>, own)
    BY <1>4 DEF Ordered, Tried, InTurn, FirstServed
  <2> QED
    BY <2>2, <2>3 DEF Placed
<1>6. Sound(program, <<>>, 0, {}, own)
  BY <1>4, <1>5 DEF Sound
<1>7. Sound(program, journal, durable, due, own)
  BY <1>1, <1>6
<1>8. UnendedInv(own) /\ AttemptInv(own) /\ CursorInv(own) /\ ParkInv(own)
  BY <1>1, <1>4 DEF UnendedInv, AttemptInv, CursorInv, ParkInv
<1>9. KeptInv(own)
  BY <1>1, <1>4 DEF KeptInv, Finished, Remembered
<1>10. LiveInv(own)
  BY <1>1, <1>4, <1>7, <1>8, <1>9 DEF LiveInv
<1> QED
  BY <1>1, <1>2, <1>10 DEF WorkflowInv, Underway

LEMMA WorkflowSteps == ASSUME WorkflowInv, [WorkflowNext]_workflow PROVE WorkflowInv'
<1>1. CASE WorkflowNext
  <2>1. Frame /\ ("diverged" \in mishap' => "diverged" \in mishap \/ Diverges)
    BY <1>1, NextFrame
  <2>2. program' \in Programs /\ program \in Programs /\ SpentType /\ SpentType'
    BY <2>1, SpendType DEF Frame, WorkflowInv
  <2>3. ASSUME Undisturbed' PROVE "diverged" \notin mishap' /\ (Over' \/ Underway')
    <3>1. Undisturbed
      BY <2>1, <2>3 DEF Frame, Undisturbed
    <3>2. "diverged" \notin mishap /\ (Over \/ Underway)
      BY <3>1 DEF WorkflowInv
    <3>3. CASE Over
      BY <1>1, <2>1, <2>2, <2>3, <3>2, <3>3, OverStep
    <3>4. ASSUME NEW own, LiveInv(own) PROVE "diverged" \notin mishap' /\ (Over' \/ Underway')
      <4>1. Over' \/ Underway'
        BY <1>1, <2>2, <2>3, <3>4, LiveStep
      <4>2. ~Diverges
        BY <2>2, <3>4, NoDivergence, ProgramsAssumption DEF Diverges
      <4> QED
        BY <2>1, <3>2, <4>1, <4>2
    <3> QED
      BY <3>2, <3>3, <3>4 DEF Underway
  <2> QED
    BY <2>2, <2>3 DEF WorkflowInv
<1>2. CASE UNCHANGED workflow
  <2>1. UNCHANGED <<program, journal, durable, due, pc, at, pending, draws, said, kept, done, status,
                    spent, mishap>>
    BY <1>2 DEF workflow, store, attempt, history
  <2>2. Over => Over'
    BY <2>1 DEF Over
  <2>3. Underway => Underway'
    BY <2>1, ElsewhereInv DEF Underway
  <2>4. SpentType => SpentType'
    BY <2>1 DEF SpentType
  <2> QED
    BY <2>1, <2>2, <2>3, <2>4 DEF WorkflowInv, Undisturbed
<1> QED
  BY <1>1, <1>2

\* The inductive invariant of a run: every row of an undisturbed journal has its
\* verb, and the attempt is at the rows of the verb it has come to.
THEOREM AlwaysPlaced == WorkflowSpec => []WorkflowInv
<1>1. WorkflowInit => WorkflowInv
  BY WorkflowInitially
<1>2. WorkflowInv /\ [WorkflowNext]_workflow => WorkflowInv'
  BY WorkflowSteps
<1> QED
  BY <1>1, <1>2, PTL DEF WorkflowSpec

LEMMA FaithfulIf == ASSUME WorkflowInv PROVE ReplayFaithful
<1> SUFFICES ASSUME Undisturbed PROVE "diverged" \notin mishap /\ (GatesApart => AnswersStay)
  BY DEF ReplayFaithful
<1>1. "diverged" \notin mishap /\ (Over \/ Underway)
  BY DEF WorkflowInv
<1>2. ASSUME GatesApart PROVE AnswersStay
  <2>1. CASE Over
    BY <2>1 DEF Over, AnswersStay
  <2>2. ASSUME NEW own, LiveInv(own), pc \in {"verb", "body", "launch", "end"},
               NEW k \in 1..(IF Len(said) < Len(kept) THEN Len(said) ELSE Len(kept))
        PROVE  said[k] = kept[k]
    <3>1. /\ Sound(program, journal, durable, due, own)
          /\ Going(program, journal, due, own, at, said, draws)
          /\ Remembered(program, journal, durable, own, kept)
      BY <1>2, <2>2 DEF LiveInv, AttemptInv, KeptInv
    <3>2. /\ said \in Seq(Nat) /\ Len(said) = at - 1 /\ at \in 1..(Len(program) + 1)
          /\ kept \in Seq(Nat) /\ Len(program) \in Nat
          /\ durable \in 0..Len(journal) /\ Len(journal) \in Nat
      BY <3>1 DEF Going, Remembered, Sound
    <3>3. k \in 1..(at - 1) /\ k \in 1..Len(kept) /\ k \in 1..Len(program)
      BY <3>2
    <3>4. Told(program, journal, own, k, said[k], Len(journal))
      BY <3>1, <3>3 DEF Going
    <3>5. Told(program, journal, own, k, kept[k], durable)
      BY <3>1, <3>3 DEF Remembered
    <3>6. Len(journal) \in 0..Len(journal)
      BY <3>2
    <3> QED
      BY <3>1, <3>2, <3>3, <3>4, <3>5, <3>6, ToldOnce
  <2> QED
    BY <1>1, <2>1, <2>2 DEF Underway, AnswersStay
<1> QED
  BY <1>1, <1>2

\* Replay is faithful: an attempt over a journal that only the run's own verbs and
\* signals at their gates wrote never diverges, over crashes, failures and retries,
\* and where no gate with a timeout shares a name with a later one, its verbs answer
\* what they answered when the journal grew (Journal::consume, the verbs of a body).
THEOREM FaithfulAlways == WorkflowSpec => []ReplayFaithful
<1>1. WorkflowInv => ReplayFaithful
  BY FaithfulIf
<1> QED
  BY <1>1, AlwaysPlaced, PTL

LEMMA NotRepeatedIf == ASSUME WorkflowInv PROVE StepsNotRepeated
<1> SUFFICES ASSUME Undisturbed, pc = "body", at \in done PROVE FALSE
  BY DEF StepsNotRepeated, ResultsReplay
<1>1. PICK own : LiveInv(own)
  BY DEF WorkflowInv, Over, Underway
<1>2. /\ Sound(program, journal, durable, due, own) /\ Finished(journal, durable, own, done)
      /\ Len(journal) >= 2 /\ own[Len(journal)] = at /\ Latest(journal).kind = "INTENT"
  BY <1>1 DEF LiveInv, KeptInv, CursorInv
<1>3. PICK n : n = Len(journal)
  OBVIOUS
<1>4. n \in 2..Len(journal) /\ n \in Nat /\ own[n] = at /\ journal[n].kind = "INTENT"
      /\ durable \in 0..n
  BY <1>2, <1>3 DEF Sound, Latest
<1>5. PICK j \in 2..durable : own[j] = at /\ journal[j].kind = "RESULT"
  BY <1>2 DEF Finished
<1>6. j \in 2..Len(journal) /\ j < n
  BY <1>3, <1>4, <1>5
<1> QED
  BY <1>2, <1>4, <1>5, <1>6, Pairs

\* A step whose result is committed is not run again by any later attempt
\* (Journal::step answers from the RESULT row).
THEOREM NotRepeatedAlways == WorkflowSpec => []StepsNotRepeated
<1>1. WorkflowInv => StepsNotRepeated
  BY NotRepeatedIf
<1> QED
  BY <1>1, AlwaysPlaced, PTL

\* The newest of some rows is one of them, and the last.
LEMMA NewestIs ==
  ASSUME NEW n \in Nat, NEW S \in SUBSET (1..n)
  PROVE  /\ Newest(S) \in Nat /\ \A x \in S : x <= Newest(S)
         /\ S = {} => Newest(S) = 0
         /\ S # {} => Newest(S) \in S
<1>1. CASE S = {}
  BY <1>1 DEF Newest
<1>2. CASE S # {}
  <2>1. PICK T : T = {n - x : x \in S}
    OBVIOUS
  <2>2. T \in SUBSET Nat /\ T # {}
    <3>1. \A x \in S : x \in 1..n
      OBVIOUS
    <3>2. ASSUME NEW t \in T PROVE t \in Nat
      <4>1. PICK x \in S : t = n - x
        BY <2>1
      <4>2. x \in 1..n
        BY <3>1
      <4> QED
        BY <4>1, <4>2
    <3>3. PICK x : x \in S
      BY <1>2
    <3>4. n - x \in T
      BY <2>1, <3>3
    <3> QED
      BY <3>2, <3>4
  <2>3. PICK m \in T : \A y \in T : m <= y
    BY <2>2, MinIn
  <2>4. PICK x \in S : m = n - x
    BY <2>1, <2>3
  <2>5. ASSUME NEW y \in S PROVE x >= y
    <3>1. n - y \in T /\ y \in Nat /\ x \in Nat
      BY <2>1
    <3> QED
      BY <2>3, <2>4, <3>1
  <2>6. Max(S) \in S /\ \A y \in S : Max(S) >= y
    <3>1. \E z \in S : \A y \in S : z >= y
      BY <2>5
    <3> QED
      BY <3>1, Zenon DEF Max
  <2>7. PICK k : k = Max(S)
    OBVIOUS
  <2>8. Newest(S) = k /\ k \in S /\ k \in Nat /\ \A y \in S : y <= k
    <3>1. Newest(S) = k
      BY <1>2, <2>7 DEF Newest
    <3>2. k \in S /\ \A y \in S : k >= y
      BY <2>6, <2>7, Zenon
    <3>3. \A y \in S : y \in Nat
      OBVIOUS
    <3>4. ASSUME NEW y \in S PROVE y <= k
      BY <3>2, <3>3
    <3> QED
      BY <3>1, <3>2, <3>3, <3>4
  <2> QED
    BY <1>2, <2>8
<1> QED
  BY <1>1, <1>2

\* The last row is of the verb that the run parked at.
LEMMA ParkedLast ==
  ASSUME NEW own, LiveInv(own), pc = "idle", status \in {"parked", "failed"}, NEW n,
         n = Len(journal), journal[n].kind # "SIGNAL"
  PROVE  /\ Sound(program, journal, durable, due, own) /\ n \in 2..Len(journal) /\ n \in Nat
         /\ at \in 1..Len(program) /\ own[n] = at /\ Fits(program, journal[n], at)
         /\ journal \in Seq(JournalRow) /\ journal # <<>>
         /\ program[at].verb = "step" =>
              journal[n].kind = "FAILED" /\ ((status = "failed") <=> (journal[n].val = 1))
         /\ program[at].verb # "step" => program[at].verb \in {"sleep", "await"} /\ status = "parked"
         /\ \A i \in 2..Len(journal) : own[i] <= at
<1>0. /\ Sound(program, journal, durable, due, own) /\ journal \in Seq(JournalRow) /\ Len(journal) \in Nat
  BY IdleHas
<1>1. ParkedAt(program, journal, own, at, status)
  BY DEF LiveInv, ParkInv
<1>2. PICK i \in 2..Len(journal) : own[i] = at
  BY <1>1 DEF ParkedAt
<1>3. n \in 2..Len(journal) /\ n \in Nat /\ (i = n \/ i < n)
  BY <1>0, <1>2
<1>4. at \in 1..Len(program) /\ own[n] <= at /\ journal # <<>>
  BY <1>1, <1>3 DEF ParkedAt
<1>5. at <= own[n]
  BY <1>0, <1>2, <1>3, <1>4, Pairs
<1>6. own[n] = at
  BY <1>0, <1>3, <1>4, <1>5, RowsOwned
<1>7. Fits(program, journal[n], at)
  BY <1>0, <1>3, <1>6, RowsOwned
<1>8. /\ program[at].verb = "step" =>
           journal[n].kind = "FAILED" /\ ((status = "failed") <=> (journal[n].val = 1))
      /\ program[at].verb # "step" => program[at].verb \in {"sleep", "await"} /\ status = "parked"
  BY <1>1 DEF ParkedAt, Latest
<1>9. ASSUME NEW j \in 2..Len(journal) PROVE own[j] <= at
  <2>1. j = n \/ j < n
    BY <1>0
  <2> QED
    BY <1>0, <1>3, <1>4, <1>6, <2>1, Pairs
<1> QED
  BY <1>0, <1>3, <1>4, <1>6, <1>7, <1>8, <1>9

\* A run parked at a step: its last INTENT comes after every RESULT.
LEMMA StepIsOpen ==
  ASSUME NEW own, LiveInv(own), pc = "idle", status \in {"parked", "failed"}, NEW n,
         n = Len(journal), journal[n].kind # "SIGNAL", program[at].verb = "step",
         NEW intent, intent = Newest(RowsOf(journal, {"INTENT"})),
         NEW result, result = Newest(RowsOf(journal, {"RESULT"}))
  PROVE  intent > result /\ journal[intent].of = program[at].of /\ result \in Nat /\ intent \in Nat
<1>1. /\ Sound(program, journal, durable, due, own) /\ n \in 2..Len(journal) /\ n \in Nat
      /\ at \in 1..Len(program) /\ own[n] = at /\ journal \in Seq(JournalRow) /\ journal # <<>>
      /\ journal[n].kind = "FAILED" /\ \A i \in 2..Len(journal) : own[i] <= at
  BY ParkedLast
<1>2. PICK S, T : S = RowsOf(journal, {"INTENT"}) /\ T = RowsOf(journal, {"RESULT"})
  OBVIOUS
<1>3. /\ S = {i \in 1..n : journal[i].kind = "INTENT"} /\ T = {i \in 1..n : journal[i].kind = "RESULT"}
      /\ journal[1].kind = "STARTED"
  BY <1>1, <1>2 DEF RowsOf, Sound, Placed, Rows
<1>4. /\ intent \in Nat /\ (\A x \in S : x <= intent) /\ (S # {} => intent \in S)
      /\ result \in Nat /\ (T = {} => result = 0) /\ (T # {} => result \in T)
  BY <1>1, <1>2, <1>3, NewestIs
<1>5. PICK j \in 2..(n - 1) : own[j] = at /\ journal[j].kind = "INTENT"
  BY <1>1 DEF Sound, Placed, Tried
<1>6. j \in S /\ intent \in S /\ j <= intent
  BY <1>1, <1>3, <1>4, <1>5
<1>7. intent \in 2..Len(journal) /\ journal[intent].kind = "INTENT" /\ intent >= 2
  <2>1. intent \in 1..n /\ journal[intent].kind = "INTENT" /\ intent # 1
    BY <1>3, <1>6
  <2> QED
    BY <1>1, <2>1
<1>8. own[intent] = at
  <2>1. own[intent] <= at /\ own[intent] \in Nat
    BY <1>1, <1>7, RowsOwned
  <2>2. intent = j \/ j < intent
    BY <1>4, <1>5, <1>6
  <2>3. at <= own[intent]
    <3>1. j \in 2..Len(journal)
      BY <1>1, <1>5
    <3> QED
      BY <1>1, <1>5, <1>7, <2>2, <3>1, Pairs
  <2> QED
    BY <1>1, <2>1, <2>3
<1>9. journal[intent].of = program[at].of
  <2>1. Fits(program, journal[intent], at) /\ Len(program) \in Nat
    BY <1>1, <1>7, <1>8, RowsOwned
  <2> QED
    BY <1>1, <1>7, <2>1 DEF Fits
<1>10. intent > result
  <2>1. CASE T = {}
    BY <1>4, <1>7, <2>1
  <2>2. CASE T # {}
    <3>1. result \in 1..n /\ journal[result].kind = "RESULT" /\ result # 1
      BY <1>3, <1>4, <2>2
    <3>2. result \in 2..Len(journal)
      BY <1>1, <3>1
    <3>3. CASE intent < result
      <4>1. own[result] = at
        <5>1. own[intent] <= own[result]
          BY <1>1, <1>7, <3>1, <3>2, <3>3, Pairs
        <5> QED
          BY <1>1, <1>8, <3>2, <5>1, RowsOwned
      <4>2. result < n
        BY <1>1, <3>1
      <4>3. journal[result].kind \in {"INTENT", "FAILED"}
        BY <1>1, <3>2, <4>1, <4>2, Pairs
      <4> QED
        BY <3>1, <4>3
    <3>4. intent # result
      BY <1>7, <3>1
    <3> QED
      BY <1>4, <3>3, <3>4
  <2> QED
    BY <2>1, <2>2
<1> QED
  BY <1>4, <1>9, <1>10

\* A run parked at a timer: every INTENT has a RESULT after it.
LEMMA StepsAreClosed ==
  ASSUME NEW own, LiveInv(own), pc = "idle", status \in {"parked", "failed"}, NEW n,
         n = Len(journal), journal[n].kind # "SIGNAL", program[at].verb # "step",
         NEW intent, intent = Newest(RowsOf(journal, {"INTENT"})),
         NEW result, result = Newest(RowsOf(journal, {"RESULT"}))
  PROVE  intent <= result /\ result \in Nat /\ intent \in Nat
<1>1. /\ Sound(program, journal, durable, due, own) /\ n \in 2..Len(journal) /\ n \in Nat
      /\ at \in 1..Len(program) /\ own[n] = at /\ journal \in Seq(JournalRow) /\ journal # <<>>
      /\ \A i \in 2..Len(journal) : own[i] <= at
  BY ParkedLast
<1>2. PICK S, T : S = RowsOf(journal, {"INTENT"}) /\ T = RowsOf(journal, {"RESULT"})
  OBVIOUS
<1>3. /\ S = {i \in 1..n : journal[i].kind = "INTENT"} /\ T = {i \in 1..n : journal[i].kind = "RESULT"}
      /\ journal[1].kind = "STARTED"
  BY <1>1, <1>2 DEF RowsOf, Sound, Placed, Rows
<1>4. /\ intent \in Nat /\ (S = {} => intent = 0) /\ (S # {} => intent \in S)
      /\ result \in Nat /\ (\A x \in T : x <= result)
  BY <1>1, <1>2, <1>3, NewestIs
<1>5. CASE S = {}
  BY <1>4, <1>5
<1>6. CASE S # {}
  <2>1. intent \in 1..n /\ journal[intent].kind = "INTENT" /\ intent # 1
    BY <1>3, <1>4, <1>6
  <2>2. intent \in 2..Len(journal)
    BY <1>1, <2>1
  <2>3. PICK p : p = own[intent]
    OBVIOUS
  <2>4. /\ p <= at /\ p \in Nat /\ Fits(program, journal[intent], p) /\ Len(program) \in Nat
        /\ p \in 1..(Len(program) + 1)
    BY <1>1, <2>2, <2>3, RowsOwned
  <2>5. p \in 1..Len(program) /\ program[p].verb = "step"
    BY <2>1, <2>4 DEF Fits
  <2>6. p < at
    BY <1>1, <2>4, <2>5
  <2>7. PICK r \in 2..(n - 1) : own[r] = p /\ Closes(journal, due, r)
    <3>1. Passed(program, journal, due, own, p, n)
      BY <1>1, <2>5, <2>6 DEF Sound, Placed, InTurn
    <3> QED
      BY <2>5, <3>1 DEF Passed
  <2>8. r \in 2..Len(journal) /\ r \in 1..n
    BY <1>1
  <2>9. journal[r].kind = "RESULT"
    <3>1. Fits(program, journal[r], p)
      BY <1>1, <2>7, <2>8, RowsOwned
    <3>2. journal[r].kind \in {"INTENT", "FAILED", "RESULT"}
      BY <2>4, <2>5, <3>1 DEF Fits
    <3> QED
      BY <1>1, <2>7, <3>2 DEF Closes, Sound
  <2>10. r <= result
    BY <1>3, <1>4, <2>8, <2>9
  <2>11. ~(r < intent)
    BY <1>1, <2>1, <2>2, <2>3, <2>7, <2>8, <2>9, Pairs, SMTT(30)
  <2> QED
    BY <1>1, <1>4, <2>8, <2>10, <2>11
<1> QED
  BY <1>5, <1>6

LEMMA TruthfulIf == ASSUME WorkflowInv PROVE StatusTruthful
<1> SUFFICES ASSUME Undisturbed, pc = "idle", status \in {"parked", "failed"}, ~Ended(journal),
                    Latest(journal).kind # "SIGNAL"
             PROVE  /\ AtStep(journal) = [verb |-> Verb.verb, of |-> Verb.of]
                    /\ (status = "failed") <=> (RunStatus(journal) = "failed")
  BY DEF StatusTruthful
<1>1. PICK own : LiveInv(own)
  BY DEF WorkflowInv, Over, Underway
<1>2. PICK n, intent, result : /\ n = Len(journal)
                               /\ intent = Newest(RowsOf(journal, {"INTENT"}))
                               /\ result = Newest(RowsOf(journal, {"RESULT"}))
  OBVIOUS
<1>3. journal[n].kind # "SIGNAL" /\ Latest(journal) = journal[n]
  BY <1>2 DEF Latest
<1>4. /\ n \in 2..Len(journal) /\ n \in Nat /\ journal # <<>>
      /\ at \in 1..Len(program) /\ own[n] = at /\ Fits(program, journal[n], at)
      /\ program[at].verb = "step" =>
              journal[n].kind = "FAILED" /\ ((status = "failed") <=> (journal[n].val = 1))
      /\ program[at].verb # "step" => program[at].verb \in {"sleep", "await"} /\ status = "parked"
      /\ Len(program) \in Nat
  BY <1>1, <1>2, <1>3, ParkedLast, IdleHas
<1>5. ~Has(journal, "CANCEL") /\ ~Has(journal, "COMPLETED")
  BY DEF Ended
<1>6. CASE program[at].verb = "step"
  <2>1. intent > result /\ journal[intent].of = program[at].of /\ intent \in Nat /\ result \in Nat
    BY <1>1, <1>2, <1>3, <1>6, StepIsOpen
  <2>2. AtStep(journal) = [verb |-> "step", of |-> journal[intent].of]
    BY <1>2, <2>1 DEF AtStep
  <2>3. RunStatus(journal) = IF journal[n].val = 1 THEN "failed" ELSE "running"
    BY <1>3, <1>4, <1>5, <1>6 DEF RunStatus
  <2> QED
    BY <1>4, <1>6, <2>1, <2>2, <2>3 DEF Verb
<1>7. CASE program[at].verb # "step"
  <2>1. intent <= result /\ intent \in Nat /\ result \in Nat
    BY <1>1, <1>2, <1>3, <1>7, StepsAreClosed
  <2>2. journal[n].kind = "TIMER" /\ journal[n].of = program[at].of
    <3>1. program \in Seq(Verbs) /\ at \in DOMAIN program /\ program \in Programs
      BY <1>4, ProgramsAssumption DEF WorkflowInv
    <3>2. \A q \in DOMAIN program :
            /\ program[q].verb = "sleep" => program[q].of = {}
            /\ program[q].verb = "await" => program[q].of # {}
      BY <3>1, ProgramsAssumption, Zenon
    <3>3. program[at].verb \in {"sleep", "await"} /\ Fits(program, journal[n], at)
      BY <1>4, <1>7
    <3>4. at # Len(program) + 1
      BY <1>4
    <3>5. program[at].verb = "sleep" => program[at].of = {}
      BY <3>1, <3>2
    <3> QED
      BY <1>3, <3>3, <3>4, <3>5 DEF Fits
  <2>3. program[at].verb = IF journal[n].of = {} THEN "sleep" ELSE "await"
    <3>1. at \in DOMAIN program /\ program \in Programs
      BY <1>4, ProgramsAssumption DEF WorkflowInv
    <3>2. \A q \in DOMAIN program :
            /\ program[q].verb = "sleep" => program[q].of = {}
            /\ program[q].verb = "await" => program[q].of # {}
      BY <3>1, ProgramsAssumption, Zenon
    <3> QED
      BY <1>4, <1>7, <2>2, <3>1, <3>2
  <2>4. AtStep(journal) =
          [verb |-> IF journal[n].of = {} THEN "sleep" ELSE "await", of |-> journal[n].of]
    BY <1>2, <1>3, <1>4, <2>1, <2>2 DEF AtStep
  <2>5. RunStatus(journal) = IF journal[n].of = {} THEN "sleeping" ELSE "awaiting"
    BY <1>3, <1>4, <1>5, <2>2 DEF RunStatus, Ended
  <2> QED
    BY <1>4, <1>7, <2>2, <2>3, <2>4, <2>5 DEF Verb
<1> QED
  BY <1>6, <1>7

\* What at_step and run_status read off the journal of a parked run names the verb
\* that it parked at, and calls it failed when it is.
THEOREM TruthfulAlways == WorkflowSpec => []StatusTruthful
<1>1. WorkflowInv => StatusTruthful
  BY TruthfulIf
<1> QED
  BY <1>1, AlwaysPlaced, PTL
================================================================================
