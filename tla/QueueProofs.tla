------------------------------ MODULE QueueProofs ------------------------------
(* What module Queue guarantees for any policy and any number of messages,     *)
(* requeues and undone deliveries.                                             *)
EXTENDS Queue, FiniteSetTheorems, WellFoundedInduction, NaturalsInduction, TLAPS

\* One table row per id, and no id to come is taken.
Ids(f) ==
  /\ \A m, k \in f.live : m.id = k.id => m = k
  /\ \A d, e \in f.dead : d.id = e.id => d = e
  /\ \A m \in f.live, d \in f.dead : m.id # d.id
  /\ \A r \in f.live \cup f.dead : r.id <= f.seq

\* Attempts are counted up to the policy's.
Tries(f) ==
  /\ \A m \in f.live : m.attempts < MaxAttempts
  /\ \A d \in f.dead : d.attempts = MaxAttempts

\* One table row per message, and none of a message not sent yet.
Once(f, n) ==
  /\ \A m, k \in f.live : m.payload = k.payload => m = k
  /\ \A d, e \in f.dead : d.payload = e.payload => d = e
  /\ \A m \in f.live, d \in f.dead : m.payload # d.payload
  /\ \A r \in f.live \cup f.dead : r.payload <= n

FileOK(f, n) ==
  /\ f \in File /\ IsFiniteSet(f.dead)
  /\ Ids(f) /\ Tries(f) /\ Once(f, n)

SpentOK == spent \in [sends : 0..MaxSends, requeues : Nat, undos : Nat]

\* A message still in a table was accepted only by deliveries that were undone.
HeardOK ==
  /\ \A m \in Messages : heard[m] <= 1 + spent.undos
  /\ \A m \in Messages : m > spent.sends => heard[m] = 0
  /\ \A r \in tx.live \cup tx.dead : heard[r.payload] <= spent.undos

\* The state outside the file.
Rest ==
  /\ pc \in {"idle", "fired", "deliver", "hung"}
  /\ batch \subseteq Nat /\ late \in BOOLEAN
  /\ heard \in [Messages -> Nat] /\ ran \subseteq Messages /\ dropped \subseteq Messages
  /\ (pc \notin {"deliver", "hung"} => tx = file)

IInv ==
  /\ FileOK(file, spent.sends) /\ FileOK(tx, spent.sends)
  /\ SpentOK /\ HeardOK /\ Rest

\* The constants as numbers.
LEMMA Bounds ==
  /\ MaxAttempts \in Nat /\ MaxAttempts > 0
  /\ BackoffBase \in Nat /\ BackoffCap \in Nat /\ MaxSends \in Nat
  /\ Messages = 1..MaxSends
<1>1. MaxAttempts \in Nat \ {0}
  BY QueueAssumption
<1>2. BackoffBase \in Nat /\ BackoffCap \in Nat /\ MaxSends \in Nat
  BY QueueAssumption
<1> QED
  BY <1>1, <1>2 DEF Messages

\* The delay of a retry is a natural number, however large the shift.
LEMMA BackoffNat == \A n : Backoff(n) \in Nat
<1> SUFFICES ASSUME NEW n PROVE Backoff(n) \in Nat
  OBVIOUS
<1> DEFINE d == BackoffBase * 2^n
<1>1. Backoff(n) = IF d \in 0..BackoffCap THEN d ELSE BackoffCap
  BY DEF Backoff
<1> HIDE DEF d
<1> QED
  BY <1>1, Bounds

\* Some message left is due first.
LEMMA Earliest ==
  ASSUME NEW L \in SUBSET Row, L # {}
  PROVE  \E m \in L : \A k \in L : m.next <= k.next
<1> DEFINE T == {m.next : m \in L}
<1>1. T \subseteq Nat /\ T # {}
  BY DEF Row
<1>2. PICK x \in T : \A y \in T : ~(<<y, x>> \in OpToRel(<, Nat))
  BY <1>1, NatLessThanWellFounded, WFMin
<1>3. PICK m \in L : x = m.next
  OBVIOUS
<1>4. \A k \in L : m.next <= k.next
  <2> TAKE k \in L
  <2>1. k.next \in T /\ k.next \in Nat /\ x \in Nat
    BY <1>1
  <2>2. ~(k.next < x)
    BY <1>2, <2>1 DEF OpToRel
  <2> QED
    BY <1>3, <2>1, <2>2
<1> QED
  BY <1>3, <1>4

\* Re-arming sets the alarm and nothing else, for the earliest message.
LEMMA RearmedArms ==
  ASSUME NEW f \in File
  PROVE  /\ Rearmed(f) \in File
         /\ Rearmed(f).live = f.live /\ Rearmed(f).dead = f.dead /\ Rearmed(f).seq = f.seq
         /\ f.live # {} => /\ Rearmed(f).alarm \in Nat
                           /\ \A m \in f.live : Rearmed(f).alarm <= m.next
<1>1. CASE f.live = {}
  BY <1>1 DEF Rearmed
<1>2. CASE f.live # {}
  <2> DEFINE P(m) == \A k \in f.live : m.next <= k.next
             c == CHOOSE m \in f.live : P(m)
  <2>0. f.live \in SUBSET Row
    BY DEF File
  <2>1. \E m \in f.live : P(m)
    BY <1>2, <2>0, Earliest
  <2>2. c \in f.live /\ P(c)
    BY <2>1
  <2>3. c.next \in Nat
    BY <2>0, <2>2 DEF Row
  <2>4. Rearmed(f) = [f EXCEPT !.alarm = c.next]
    BY <1>2 DEF Rearmed
  <2> HIDE DEF c
  <2> QED
    BY <2>2, <2>3, <2>4 DEF File
<1> QED
  BY <1>1, <1>2

\* What an operation leaves of the rows is as good as the rows were.
LEMMA SubsetOK ==
  ASSUME NEW f, NEW n, FileOK(f, n), NEW g \in File,
         g.live \subseteq f.live, g.dead \subseteq f.dead, g.seq = f.seq
  PROVE  FileOK(g, n)
<1>1. IsFiniteSet(g.dead)
  BY FS_Subset DEF FileOK
<1>2. Ids(g)
  BY DEF FileOK, Ids
<1>3. Tries(g) /\ Once(g, n)
  BY DEF FileOK, Tries, Once
<1> QED
  BY <1>1, <1>2, <1>3 DEF FileOK

\* The first dispatch only stamps the file.
LEMMA SchemaOK ==
  ASSUME NEW f, NEW n, FileOK(f, n)
  PROVE  /\ FileOK(Schema(f), n)
         /\ Schema(f).live = f.live /\ Schema(f).dead = f.dead
         /\ Schema(f).seq = f.seq /\ Schema(f).alarm = f.alarm
<1>1. /\ Schema(f) \in File
      /\ Schema(f).live = f.live /\ Schema(f).dead = f.dead
      /\ Schema(f).seq = f.seq /\ Schema(f).alarm = f.alarm
  BY DEF FileOK, File, Schema
<1> QED
  BY <1>1, SubsetOK

\* Time passes for every row alike.
LEMMA AgedOK ==
  ASSUME NEW f, NEW n, FileOK(f, n)
  PROVE  /\ FileOK(Aged(f), n)
         /\ Payloads(Aged(f).live) = Payloads(f.live)
         /\ Aged(f).dead = f.dead
<1> DEFINE Older(m) == [m EXCEPT !.next = IF @ > 0 THEN @ - 1 ELSE 0]
<1>1. f \in File /\ f.live \subseteq Row
  BY DEF FileOK, File
<1>2. /\ Aged(f).live = {Older(m) : m \in f.live}
      /\ Aged(f).dead = f.dead /\ Aged(f).seq = f.seq
      /\ Aged(f).version = f.version
      /\ Aged(f).alarm = IF f.alarm > 0 THEN f.alarm - 1 ELSE f.alarm
  BY <1>1 DEF Aged, File
<1>3. \A m \in f.live : /\ Older(m) \in Row /\ Older(m).id = m.id
                        /\ Older(m).payload = m.payload /\ Older(m).attempts = m.attempts
  BY <1>1 DEF Row
<1>4. f.alarm \in Nat \cup {NoAlarm}
  BY <1>1 DEF File
<1>4a. Aged(f).alarm \in Nat \cup {NoAlarm}
  BY <1>2, <1>4 DEF NoAlarm
<1> HIDE DEF Older
<1>5. Aged(f) \in File
  <2> DEFINE L == Aged(f).live
             a == Aged(f).alarm
  <2>1. Aged(f) = [f EXCEPT !.live = L, !.alarm = a]
    BY <1>1, <1>2 DEF Aged, Older
  <2>2. L \in SUBSET Row /\ a \in Nat \cup {NoAlarm}
    BY <1>2, <1>3, <1>4a
  <2> HIDE DEF L, a
  <2> QED
    BY <1>1, <2>1, <2>2 DEF File
<1>6. IsFiniteSet(Aged(f).dead)
  BY <1>2 DEF FileOK
<1>7. Ids(Aged(f))
  BY <1>2, <1>3 DEF FileOK, Ids
<1>8. Tries(Aged(f))
  BY <1>2, <1>3 DEF FileOK, Tries
<1>9. Once(Aged(f), n)
  BY <1>2, <1>3 DEF FileOK, Once
<1>10. Payloads(Aged(f).live) = Payloads(f.live)
  BY <1>2, <1>3 DEF Payloads
<1> QED
  BY <1>2, <1>5, <1>6, <1>7, <1>8, <1>9, <1>10 DEF FileOK

--------------------------------------------------------------------------------
\* A new queue's file is empty.
LEMMA InitIInv == Init => IInv
<1> SUFFICES ASSUME Init PROVE IInv
  OBVIOUS
<1> USE Bounds
<1>1. NewFile \in File /\ NewFile.live = {} /\ NewFile.dead = {}
  BY DEF NewFile, File
<1>2. FileOK(NewFile, 0)
  BY <1>1, FS_EmptySet DEF FileOK, Ids, Tries, Once
<1>3. spent.sends = 0 /\ spent.undos = 0 /\ SpentOK
  BY DEF Init, SpentOK
<1>4. HeardOK
  BY <1>1, <1>3 DEF Init, HeardOK
<1>5. Rest
  BY DEF Init, Rest
<1> QED
  BY <1>2, <1>3, <1>4, <1>5 DEF Init, IInv

\* A call that commits a good file while no delivery is open.
LEMMA CommitIInv ==
  ASSUME IInv, pc = "idle", NEW f, Committed(f), UNCHANGED heard, SpentOK',
         spent'.undos = spent.undos, spent'.sends >= spent.sends,
         FileOK(f, spent'.sends),
         \A r \in f.live \cup f.dead : heard[r.payload] <= spent.undos,
         ran' \subseteq Messages, dropped' \subseteq Messages
  PROVE  IInv'
<1>1. file' = f /\ tx' = f /\ pc' = pc /\ batch' = batch /\ late' = late
  BY DEF Committed
<1>2. HeardOK'
  <2>1. spent.sends \in Nat /\ spent'.sends \in Nat /\ spent.undos \in Nat
    BY Bounds DEF IInv, SpentOK
  <2> QED
    BY <1>1, <2>1, Bounds DEF IInv, HeardOK
<1>3. Rest'
  BY <1>1 DEF IInv, Rest
<1> QED
  BY <1>1, <1>2, <1>3 DEF IInv

\* send: a row above every id, of a message no table holds.
LEMMA SendIInv == ASSUME IInv, Send PROVE IInv'
<1> DEFINE f == Schema(file)
           p == spent.sends + 1
           m == [id |-> f.seq + 1, payload |-> p, attempts |-> 0, next |-> 0]
           g == [f EXCEPT !.live = @ \cup {m}, !.seq = @ + 1, !.alarm = 0]
<1>0. pc = "idle" /\ spent.sends < MaxSends /\ Committed(g) /\ Spend("sends")
      /\ UNCHANGED history
  BY DEF Send
<1>1. /\ spent'.sends = p /\ spent'.undos = spent.undos /\ SpentOK' /\ p \in Messages
      /\ spent.sends \in Nat /\ spent.undos \in Nat
  BY <1>0, Bounds DEF IInv, SpentOK, Spend
<1>2. FileOK(f, spent.sends)
  BY SchemaOK DEF IInv
<1>3. f \in File /\ f.live \subseteq Row /\ f.dead \subseteq DeadRow /\ f.seq \in Nat
  BY <1>2 DEF FileOK, File
<1>4. m \in Row /\ m.id = f.seq + 1 /\ m.payload = p /\ m.attempts = 0
  BY <1>1, <1>3 DEF Row
<1> HIDE DEF f, m
<1>5. g.live = f.live \cup {m} /\ g.dead = f.dead /\ g.seq = f.seq + 1 /\ g \in File
  <2> DEFINE L == f.live \cup {m}
             s == f.seq + 1
  <2>1. L \in SUBSET Row /\ s \in Nat
    BY <1>3, <1>4
  <2>2. g = [f EXCEPT !.live = L, !.seq = s, !.alarm = 0]
    OBVIOUS
  <2> HIDE DEF g, L, s
  <2>3. g.live = L /\ g.dead = f.dead /\ g.seq = s /\ g \in File
    BY <1>3, <2>1, <2>2 DEF File
  <2> QED
    BY <2>3 DEF L, s
<1> HIDE DEF g
<1>6. /\ \A r \in f.live : r.id \in Nat /\ r.id <= f.seq /\ r.payload \in Nat /\ r.payload <= spent.sends
      /\ \A d \in f.dead : d.id \in Nat /\ d.id <= f.seq /\ d.payload \in Nat /\ d.payload <= spent.sends
  BY <1>2, <1>3, Bounds DEF FileOK, Ids, Once, Row, DeadRow
<1>7. FileOK(g, p)
  <2>1. Ids(g)
    BY <1>2, <1>3, <1>4, <1>5, <1>6 DEF FileOK, Ids
  <2>2. Tries(g)
    BY <1>2, <1>4, <1>5, Bounds DEF FileOK, Tries
  <2>3. Once(g, p)
    BY <1>1, <1>2, <1>4, <1>5, <1>6 DEF FileOK, Once
  <2> QED
    BY <1>2, <1>5, <2>1, <2>2, <2>3 DEF FileOK
<1>8. \A r \in g.live \cup g.dead : heard[r.payload] <= spent.undos
  <2>1. tx = file /\ f.live = file.live /\ f.dead = file.dead
    BY <1>0, SchemaOK DEF IInv, Rest, f
  <2>2. heard[p] = 0
    BY <1>1 DEF IInv, HeardOK
  <2> QED
    BY <1>1, <1>4, <1>5, <2>1, <2>2 DEF IInv, HeardOK
<1>9. heard' = heard /\ ran' = ran /\ dropped' = dropped
      /\ ran \subseteq Messages /\ dropped \subseteq Messages
  BY <1>0 DEF history, IInv, Rest
<1>10. Committed(g)
  BY <1>0
<1> QED
  BY <1>0, <1>1, <1>7, <1>8, <1>9, <1>10, CommitIInv

\* retry_dead and retry_message: dead letters move under ids of their own.
LEMMA RetryIInv == ASSUME IInv, NEW chosen, RetryDead(chosen) PROVE IInv'
<1> DEFINE f == Schema(file)
           moved == {d \in f.dead : d.id \in chosen}
           n == Cardinality(moved)
<1>0. pc = "idle" /\ Spend("requeues") /\ UNCHANGED <<heard, dropped>>
      /\ ran' = ran \ Payloads(moved)
  BY DEF RetryDead
<1>1. FileOK(f, spent.sends)
  BY SchemaOK DEF IInv
<1>2. f \in File /\ f.live \subseteq Row /\ f.dead \subseteq DeadRow /\ f.seq \in Nat
      /\ IsFiniteSet(f.dead)
  BY <1>1 DEF FileOK, File
<1>3. IsFiniteSet(moved) /\ n \in Nat
  <2>1. moved \in SUBSET f.dead
    OBVIOUS
  <2>2. IsFiniteSet(moved)
    BY <1>2, <2>1, FS_Subset
  <2> QED
    BY <2>2, FS_CardinalityType
<1> DEFINE New(id) == {[id |-> id[d], payload |-> d.payload, attempts |-> 0, next |-> 0] : d \in moved}
           g(id) == [f EXCEPT !.live = @ \cup New(id), !.dead = @ \ moved,
                              !.seq = @ + n, !.alarm = 0]
<1>4. PICK id \in [moved -> f.seq + 1 .. f.seq + n] :
        /\ \A d, e \in moved : id[d] = id[e] => d = e
        /\ Committed(g(id))
  BY DEF RetryDead
<1>5. /\ spent'.sends = spent.sends /\ spent'.undos = spent.undos /\ SpentOK'
      /\ spent.sends \in Nat /\ spent.undos \in Nat
  BY <1>0, Bounds DEF IInv, SpentOK, Spend
<1> DEFINE row(d) == [id |-> id[d], payload |-> d.payload, attempts |-> 0, next |-> 0]
<1>6. \A d \in moved : /\ d \in f.dead /\ id[d] \in Nat /\ f.seq < id[d] /\ id[d] <= f.seq + n
                       /\ row(d) \in Row /\ row(d).id = id[d] /\ row(d).payload = d.payload
                       /\ row(d).attempts = 0
  BY <1>2, <1>3, <1>4 DEF Row, DeadRow
<1>7. New(id) = {row(d) : d \in moved} /\ New(id) \subseteq Row
  BY <1>6
<1> HIDE DEF f, n, row, New
<1>8. /\ g(id).live = f.live \cup New(id) /\ g(id).dead = f.dead \ moved
      /\ g(id).seq = f.seq + n /\ g(id) \in File
  <2> DEFINE L == f.live \cup New(id)
             D == f.dead \ moved
             s == f.seq + n
  <2>1. L \in SUBSET Row /\ D \in SUBSET DeadRow /\ s \in Nat
    BY <1>2, <1>3, <1>7
  <2>2. g(id) = [f EXCEPT !.live = L, !.dead = D, !.seq = s, !.alarm = 0]
    OBVIOUS
  <2> HIDE DEF g, L, D, s, moved
  <2>3. f \in File
    BY <1>2
  <2>4. g(id).live = L /\ g(id).dead = D /\ g(id).seq = s
    BY <2>2, <2>3 DEF File
  <2>5. g(id) = [live |-> L, dead |-> D, seq |-> s, alarm |-> 0, version |-> f.version]
    BY <2>2, <2>3 DEF File
  <2>6. g(id) \in File
    BY <2>1, <2>3, <2>5 DEF File
  <2> QED
    BY <2>4, <2>6 DEF L, D, s
<1> HIDE DEF g, moved
<1>9. /\ \A r \in f.live : r.id \in Nat /\ r.id <= f.seq
      /\ \A d \in f.dead : d.id \in Nat /\ d.id <= f.seq
  BY <1>1, <1>2 DEF FileOK, Ids, Row, DeadRow
<1>10. FileOK(g(id), spent.sends)
  <2>1. \A r \in New(id) : \E d \in moved : r = row(d)
    BY <1>7
  <2>2. Ids(g(id))
    <3>1. \A m, k \in g(id).live : m.id = k.id => m = k
      BY <1>1, <1>2, <1>3, <1>4, <1>6, <1>8, <1>9, <2>1 DEF FileOK, Ids
    <3>2. \A d, e \in g(id).dead : d.id = e.id => d = e
      BY <1>1, <1>8 DEF FileOK, Ids
    <3>3. \A m \in g(id).live, d \in g(id).dead : m.id # d.id
      BY <1>1, <1>2, <1>6, <1>8, <1>9, <2>1 DEF FileOK, Ids
    <3>4. \A r \in g(id).live \cup g(id).dead : r.id <= g(id).seq
      BY <1>2, <1>3, <1>6, <1>8, <1>9, <2>1
    <3> QED
      BY <3>1, <3>2, <3>3, <3>4 DEF Ids
  <2>3. Tries(g(id))
    BY <1>1, <1>6, <1>8, <2>1, Bounds DEF FileOK, Tries
  <2>4. Once(g(id), spent.sends)
    <3>1. \A m, k \in g(id).live : m.payload = k.payload => m = k
      BY <1>1, <1>6, <1>8, <2>1 DEF FileOK, Once
    <3>2. /\ \A d, e \in g(id).dead : d.payload = e.payload => d = e
          /\ \A r \in g(id).live \cup g(id).dead : r.payload <= spent.sends
      BY <1>1, <1>6, <1>8, <2>1 DEF FileOK, Once
    <3>3. \A m \in g(id).live, d \in g(id).dead : m.payload # d.payload
      BY <1>1, <1>6, <1>8, <2>1 DEF FileOK, Once
    <3> QED
      BY <3>1, <3>2, <3>3 DEF Once
  <2>5. IsFiniteSet(g(id).dead)
    <3>1. g(id).dead \in SUBSET f.dead
      BY <1>8
    <3> QED
      BY <1>2, <3>1, FS_Subset
  <2> QED
    BY <1>8, <2>2, <2>3, <2>4, <2>5 DEF FileOK
<1>11. \A r \in g(id).live \cup g(id).dead : heard[r.payload] <= spent.undos
  <2>1. tx = file /\ f.live = file.live /\ f.dead = file.dead
    BY <1>0, SchemaOK DEF IInv, Rest, f
  <2>2. \A r \in f.live \cup f.dead : heard[r.payload] <= spent.undos
    BY <2>1 DEF IInv, HeardOK
  <2>3. \A r \in New(id) : heard[r.payload] <= spent.undos
    BY <1>6, <1>7, <2>2
  <2> QED
    BY <1>8, <2>2, <2>3
<1>12. heard' = heard /\ ran' \subseteq Messages /\ dropped' \subseteq Messages
  BY <1>0 DEF IInv, Rest
<1>13. Committed(g(id))
  BY <1>4
<1> QED
  BY <1>0, <1>5, <1>10, <1>11, <1>12, <1>13, CommitIInv

\* drop_message and the reads take rows away or leave them.
LEMMA CallIInv ==
  ASSUME IInv, Read \/ \E id \in {r.id : r \in file.live \cup file.dead} : DropMessage(id)
  PROVE  IInv'
<1> DEFINE f == Schema(file)
<1>1. /\ FileOK(f, spent.sends) /\ f \in File /\ f.live = file.live /\ f.dead = file.dead
      /\ f.live \subseteq Row /\ f.dead \subseteq DeadRow /\ f.seq \in Nat
  BY SchemaOK DEF IInv, FileOK, File
<1>2. pc = "idle" /\ UNCHANGED <<spent, heard, ran>>
  BY DEF Read, DropMessage, history
<1>3. tx = file /\ ran \subseteq Messages /\ dropped \subseteq Messages /\ SpentOK'
      /\ spent.sends \in Nat
  BY <1>2, Bounds DEF IInv, Rest, SpentOK
<1>4. \A r \in f.live \cup f.dead : heard[r.payload] <= spent.undos
  BY <1>1, <1>3 DEF IInv, HeardOK
<1>5. CASE Read
  <2>1. Committed(f) /\ dropped' = dropped
    BY <1>5 DEF Read, history
  <2> HIDE DEF f
  <2> QED
    BY <1>1, <1>2, <1>3, <1>4, <2>1, CommitIInv
<1>6. CASE \E id \in {r.id : r \in file.live \cup file.dead} : DropMessage(id)
  <2>1. PICK id : DropMessage(id)
    BY <1>6
  <2> DEFINE live == {m \in f.live : m.id = id}
             dead == {d \in f.dead : d.id = id}
             L == f.live \ live
             D == f.dead \ dead
             g == [f EXCEPT !.live = L, !.dead = D]
  <2>2. Committed(g) /\ dropped' = dropped \cup Payloads(live) \cup Payloads(dead)
    BY <2>1 DEF DropMessage
  <2>3. L \in SUBSET Row /\ D \in SUBSET DeadRow
    BY <1>1
  <2>4. dropped' \subseteq Messages
    BY <1>1, <1>3, <2>2 DEF Payloads, Row, DeadRow
  <2>5. L \subseteq f.live /\ D \subseteq f.dead
    OBVIOUS
  <2> HIDE DEF f, live, dead, L, D
  <2>6. g \in File /\ g.live = L /\ g.dead = D /\ g.seq = f.seq
    BY <1>1, <2>3 DEF File
  <2> HIDE DEF g
  <2>7. FileOK(g, spent.sends)
    BY <1>1, <2>5, <2>6, SubsetOK
  <2>8. \A r \in g.live \cup g.dead : heard[r.payload] <= spent.undos
    BY <1>4, <2>5, <2>6
  <2> QED
    BY <1>2, <1>3, <2>2, <2>4, <2>7, <2>8, CommitIInv
<1> QED
  BY <1>5, <1>6

\* A delivery that is undone leaves the file's tables as they were.
LEMMA UndonePayloads ==
  ASSUME IInv, CommitFails \/ Undo
  PROVE  /\ file' \in File /\ file'.live = file.live /\ file'.dead = file.dead
         /\ file'.seq = file.seq /\ tx' = file'
         /\ UNCHANGED <<heard, dropped>> /\ spent'.sends = spent.sends
<1>1. file \in File /\ tx \in File /\ SpentOK
  BY DEF IInv, FileOK
<1>2. CASE CommitFails
  <2>1. PICK a : a = Rearmed(tx).alarm
    OBVIOUS
  <2>2. Rearmed(tx) \in File
    BY <1>1, RearmedArms
  <2>3. a \in Nat \cup {NoAlarm}
    BY <2>1, <2>2 DEF File
  <2>4. file' = [file EXCEPT !.alarm = a]
    BY <1>2, <2>1 DEF CommitFails
  <2>5. file' \in File /\ file'.live = file.live /\ file'.dead = file.dead /\ file'.seq = file.seq
    BY <1>1, <2>3, <2>4 DEF File
  <2> QED
    BY <1>1, <1>2, <2>5 DEF CommitFails, history, Spend, SpentOK
<1>3. CASE Undo
  BY <1>1, <1>3 DEF Undo, history, Spend, SpentOK
<1> QED
  BY <1>2, <1>3

\* The clock, the firing, the selection of a batch, its COMMIT, hanging and undoing
\* change no message.
LEMMA QuietIInv ==
  ASSUME IInv, Tick \/ FireAlarm \/ Select \/ Finish \/ CommitFails \/ Hang \/ Undo
  PROVE  IInv'
<1>0. /\ FileOK(file, spent.sends) /\ FileOK(tx, spent.sends) /\ SpentOK /\ HeardOK /\ Rest
      /\ file \in File /\ tx \in File
      /\ spent.sends \in Nat /\ spent.undos \in Nat
  BY Bounds DEF IInv, FileOK, SpentOK
<1>1. CASE Tick
  <2>1. file' = Aged(file) /\ tx' = Aged(tx) /\ UNCHANGED <<pc, batch, late, spent, heard, ran, dropped>>
    BY <1>1 DEF Tick, history
  <2>2. FileOK(file', spent.sends) /\ FileOK(tx', spent.sends)
    BY <1>0, <2>1, AgedOK
  <2>3. \A r \in tx'.live \cup tx'.dead : heard[r.payload] <= spent.undos
    <3>1. Payloads(tx'.live) = Payloads(tx.live) /\ tx'.dead = tx.dead
      BY <1>0, <2>1, AgedOK
    <3> QED
      BY <1>0, <3>1 DEF HeardOK, Payloads
  <2>4. HeardOK'
    BY <1>0, <2>1, <2>3 DEF HeardOK
  <2> QED
    BY <1>0, <2>1, <2>2, <2>4 DEF IInv, SpentOK, Rest
<1>2. CASE FireAlarm
  <2>1. /\ file' = [file EXCEPT !.alarm = NoAlarm] /\ tx' = file' /\ pc' = "fired" /\ tx = file
        /\ UNCHANGED <<batch, late, spent, heard, ran, dropped>>
    BY <1>0, <1>2 DEF FireAlarm, history, Rest
  <2>2. file' \in File /\ file'.live = file.live /\ file'.dead = file.dead /\ file'.seq = file.seq
    BY <1>0, <2>1 DEF File
  <2>3. FileOK(file', spent.sends)
    BY <1>0, <2>2, SubsetOK
  <2>4. HeardOK'
    BY <1>0, <2>1, <2>2 DEF HeardOK
  <2> QED
    BY <1>0, <2>1, <2>3, <2>4 DEF IInv, SpentOK, Rest
<1>3. CASE Select
  <2> DEFINE due == {m \in tx'.live : m.next = 0}
  <2>1. /\ tx' = Schema(file) /\ pc' = "deliver" /\ late' = FALSE /\ tx = file
        /\ UNCHANGED <<file, spent, heard, ran, dropped>>
        /\ batch' = {m.id : m \in {k \in due :
                        Cardinality({l \in due : l.id < k.id}) < DeliveryBatch}}
    BY <1>0, <1>3 DEF Select, history, Rest
  <2>2. FileOK(tx', spent.sends) /\ tx'.live = tx.live /\ tx'.dead = tx.dead
    BY <1>0, <2>1, SchemaOK
  <2>3. batch' \subseteq Nat
    <3>1. \A m \in tx'.live : m.id \in Nat
      BY <2>2 DEF FileOK, File, Row
    <3>2. \A x \in batch' : \E m \in tx'.live : x = m.id
      BY <2>1
    <3> QED
      BY <3>1, <3>2
  <2>4. HeardOK'
    BY <1>0, <2>1, <2>2 DEF HeardOK
  <2> QED
    BY <1>0, <2>1, <2>2, <2>3, <2>4 DEF IInv, SpentOK, Rest
<1>4. CASE Finish
  <2>1. /\ file' = Rearmed(tx) /\ tx' = file' /\ pc' = "idle" /\ late' = FALSE
        /\ UNCHANGED <<batch, spent, heard, ran, dropped>>
    BY <1>4 DEF Finish, history
  <2>2. file' \in File /\ file'.live = tx.live /\ file'.dead = tx.dead /\ file'.seq = tx.seq
    BY <1>0, <2>1, RearmedArms
  <2>3. FileOK(file', spent.sends)
    BY <1>0, <2>2, SubsetOK
  <2>4. HeardOK'
    BY <1>0, <2>1, <2>2 DEF HeardOK
  <2> QED
    BY <1>0, <2>1, <2>3, <2>4 DEF IInv, SpentOK, Rest
<1>6. CASE Hang
  <2>1. pc' = "hung" /\ UNCHANGED <<file, tx, batch, late, spent, heard, ran, dropped>>
    BY <1>6 DEF Hang, history
  <2>2. HeardOK'
    BY <1>0, <2>1 DEF HeardOK
  <2> QED
    BY <1>0, <2>1, <2>2 DEF IInv, SpentOK, Rest
<1>5. CASE CommitFails \/ Undo
  <2>1. /\ pc' = "idle" /\ tx' = file' /\ batch' \subseteq batch /\ late' = FALSE
        /\ UNCHANGED <<heard, ran, dropped>>
        /\ spent' = [spent EXCEPT !["undos"] = @ + 1]
    BY <1>5 DEF Undo, CommitFails, history, Spend
  <2>5. file' \in File /\ file'.live = file.live /\ file'.dead = file.dead /\ file'.seq = file.seq
    BY <1>0, <1>5, UndonePayloads DEF IInv
  <2>6. FileOK(file', spent.sends)
    BY <1>0, <2>5, SubsetOK
  <2>2. SpentOK' /\ spent'.sends = spent.sends /\ spent'.undos = spent.undos + 1
    BY <1>0, <2>1 DEF SpentOK
  <2>3. HeardOK'
    <3>1. \A r \in file.live \cup file.dead : r.payload \in Messages
      BY <1>0 DEF File, Row, DeadRow
    <3>2. \A m \in Messages : heard[m] \in Nat /\ heard[m] <= 1 + spent.undos
      BY <1>0 DEF HeardOK, Rest
    <3>3. \A m \in Messages : heard'[m] <= 1 + spent'.undos /\ heard'[m] <= spent'.undos
      BY <1>0, <2>1, <2>2, <3>2
    <3> QED
      BY <1>0, <2>1, <2>2, <2>5, <3>1, <3>3 DEF HeardOK
  <2>4. Rest'
    BY <1>0, <2>1 DEF Rest
  <2> QED
    BY <2>1, <2>2, <2>3, <2>4, <2>6 DEF IInv
<1> QED
  BY <1>1, <1>2, <1>3, <1>4, <1>5, <1>6

\* The listener accepts the message whose turn it is.
LEMMA AcceptIInv == ASSUME IInv, NEW m \in tx.live, Accept(m) PROVE IInv'
<1>0. /\ FileOK(tx, spent.sends) /\ tx \in File /\ m \in Row /\ m.payload \in Messages
      /\ heard \in [Messages -> Nat] /\ spent.sends \in Nat /\ spent.undos \in Nat
      /\ heard[m.payload] <= spent.undos /\ m.payload <= spent.sends
  <2>1. FileOK(tx, spent.sends) /\ SpentOK /\ HeardOK /\ Rest
    BY DEF IInv
  <2>2. tx \in File /\ m \in Row /\ m.payload \in Messages
    BY <2>1 DEF FileOK, File, Row
  <2>3. m.payload <= spent.sends
    BY <2>1 DEF FileOK, Once
  <2>4. heard[m.payload] <= spent.undos /\ heard \in [Messages -> Nat]
    BY <2>1 DEF HeardOK, Rest
  <2>5. spent.sends \in Nat /\ spent.undos \in Nat
    BY <2>1, Bounds DEF SpentOK
  <2> QED
    BY <2>1, <2>2, <2>3, <2>4, <2>5
<1>1. /\ tx' = [tx EXCEPT !.live = @ \ {m}] /\ heard' = [heard EXCEPT ![m.payload] = @ + 1]
      /\ ran' = ran \cup {m.payload} /\ batch' \subseteq batch /\ late' \in BOOLEAN
      /\ pc = "deliver" /\ UNCHANGED <<file, pc, spent, dropped>>
  BY DEF Accept, Turn
<1>2. tx' \in File /\ tx'.live = tx.live \ {m} /\ tx'.dead = tx.dead /\ tx'.seq = tx.seq
  BY <1>0, <1>1 DEF File
<1>3. FileOK(tx', spent.sends)
  BY <1>0, <1>2, SubsetOK
<1>4. HeardOK'
  <2>1. \A r \in tx'.live \cup tx'.dead : r.payload \in Messages /\ r.payload # m.payload
    BY <1>0, <1>2 DEF FileOK, File, Row, DeadRow, Once
  <2>2. \A p \in Messages : heard'[p] = IF p = m.payload THEN heard[p] + 1 ELSE heard[p]
    BY <1>0, <1>1
  <2>3. \A p \in Messages : p \in Nat /\ heard[p] \in Nat
    BY <1>0, Bounds
  <2>4. \A p \in Messages : heard'[p] <= 1 + spent.undos
    BY <1>0, <2>2, <2>3 DEF IInv, HeardOK
  <2>5. \A p \in Messages : p > spent.sends => heard'[p] = 0
    BY <1>0, <2>2, <2>3 DEF IInv, HeardOK
  <2>6. \A r \in tx'.live \cup tx'.dead : heard'[r.payload] <= spent.undos
    BY <1>2, <2>1, <2>2 DEF IInv, HeardOK
  <2> QED
    BY <1>1, <2>4, <2>5, <2>6 DEF HeardOK
<1>5. Rest'
  BY <1>0, <1>1 DEF IInv, Rest
<1> QED
  BY <1>1, <1>3, <1>4, <1>5 DEF IInv, SpentOK

\* A failed attempt keeps the message, in one table or the other.
LEMMA RefusedOK ==
  ASSUME FileOK(tx, spent.sends), NEW m \in tx.live
  PROVE  /\ FileOK(Refused(m), spent.sends)
         /\ \A r \in Refused(m).live \cup Refused(m).dead :
              \E q \in tx.live \cup tx.dead : q.payload = r.payload
<1> USE Bounds
<1> DEFINE d == [id |-> m.id, payload |-> m.payload, attempts |-> m.attempts + 1]
           k == [m EXCEPT !.attempts = @ + 1, !.next = Backoff(m.attempts)]
<1>0. /\ tx \in File /\ tx.live \subseteq Row /\ tx.dead \subseteq DeadRow /\ m \in Row
      /\ IsFiniteSet(tx.dead) /\ m.attempts \in Nat /\ m.attempts < MaxAttempts
  BY DEF FileOK, File, Row, Tries
<1>1. d \in DeadRow /\ d.id = m.id /\ d.payload = m.payload /\ d.attempts = m.attempts + 1
  BY <1>0 DEF Row, DeadRow
<1>2. k \in Row /\ k.id = m.id /\ k.payload = m.payload /\ k.attempts = m.attempts + 1
  <2> DEFINE b == Backoff(m.attempts)
             a == m.attempts + 1
  <2>1. a \in Nat /\ b \in Nat /\ k = [m EXCEPT !.attempts = a, !.next = b]
    BY <1>0, BackoffNat
  <2> HIDE DEF a, b, k
  <2>2. k \in Row /\ k.id = m.id /\ k.payload = m.payload /\ k.attempts = a
    BY <1>0, <2>1 DEF Row
  <2> QED
    BY <2>2 DEF a
<1>3. CASE m.attempts + 1 >= MaxAttempts
  <2> DEFINE L == tx.live \ {m}
             D == tx.dead \cup {d}
  <2>1. Refused(m) = [tx EXCEPT !.live = L, !.dead = D]
    BY <1>3 DEF Refused
  <2>2. L \in SUBSET Row /\ D \in SUBSET DeadRow /\ IsFiniteSet(D)
    BY <1>0, <1>1, FS_AddElement
  <2>3. \A x \in L : x \in tx.live /\ x # m
    OBVIOUS
  <2>4. \A x \in D : x \in tx.dead \/ x = d
    OBVIOUS
  <2>5. d.attempts = MaxAttempts
    BY <1>0, <1>1, <1>3
  <2> HIDE DEF L, D, d
  <2>6. /\ Refused(m) \in File /\ Refused(m).live = L /\ Refused(m).dead = D
        /\ Refused(m).seq = tx.seq
    BY <1>0, <2>1, <2>2 DEF File
  <2>7. Ids(Refused(m))
    BY <1>1, <2>3, <2>4, <2>6 DEF FileOK, Ids
  <2>8. Tries(Refused(m))
    BY <2>3, <2>4, <2>5, <2>6 DEF FileOK, Tries
  <2>9. Once(Refused(m), spent.sends)
    BY <1>1, <2>3, <2>4, <2>6 DEF FileOK, Once
  <2> QED
    BY <1>1, <2>2, <2>3, <2>4, <2>6, <2>7, <2>8, <2>9 DEF FileOK
<1>4. CASE ~(m.attempts + 1 >= MaxAttempts)
  <2> DEFINE L == (tx.live \ {m}) \cup {k}
  <2>1. Refused(m) = [tx EXCEPT !.live = L]
    BY <1>4 DEF Refused
  <2>2. L \in SUBSET Row
    BY <1>0, <1>2
  <2>3. \A x \in L : (x \in tx.live /\ x # m) \/ x = k
    OBVIOUS
  <2>5. k.attempts < MaxAttempts
    BY <1>0, <1>2, <1>4
  <2> HIDE DEF L, k
  <2>6. /\ Refused(m) \in File /\ Refused(m).live = L /\ Refused(m).dead = tx.dead
        /\ Refused(m).seq = tx.seq
    BY <1>0, <2>1, <2>2 DEF File
  <2>7. Ids(Refused(m))
    BY <1>2, <2>3, <2>6 DEF FileOK, Ids
  <2>8. Tries(Refused(m))
    BY <2>3, <2>5, <2>6 DEF FileOK, Tries
  <2>9. Once(Refused(m), spent.sends)
    BY <1>2, <2>3, <2>6 DEF FileOK, Once
  <2> QED
    BY <1>0, <1>2, <2>3, <2>6, <2>7, <2>8, <2>9 DEF FileOK
<1> QED
  BY <1>3, <1>4

\* The listener refuses it.
LEMMA RefuseIInv == ASSUME IInv, NEW m \in tx.live, Refuse(m) PROVE IInv'
<1>0. FileOK(tx, spent.sends) /\ m.payload \in Messages
  BY DEF IInv, FileOK, File, Row
<1>1. /\ tx' = Refused(m) /\ ran' \subseteq ran \cup {m.payload} /\ batch' \subseteq batch
      /\ late' \in {late, TRUE} /\ pc = "deliver" /\ UNCHANGED <<file, pc, spent, heard, dropped>>
  BY DEF Refuse, Turn
<1>2. HeardOK'
  BY <1>0, <1>1, RefusedOK DEF IInv, HeardOK
<1>3. Rest'
  BY <1>0, <1>1 DEF IInv, Rest
<1> QED
  BY <1>0, <1>1, <1>2, <1>3, RefusedOK DEF IInv, SpentOK

\* Every step preserves the invariant.
LEMMA NextIInv == IInv /\ [Next]_vars => IInv'
<1> SUFFICES ASSUME IInv, [Next]_vars PROVE IInv'
  OBVIOUS
<1>1. CASE Next
  BY <1>1, SendIInv, RetryIInv, CallIInv, QuietIInv, AcceptIInv, RefuseIInv DEF Next
<1>2. CASE UNCHANGED vars
  BY <1>2 DEF vars, delivery, history, IInv, SpentOK, HeardOK, Rest
<1> QED
  BY <1>1, <1>2

\* The invariant holds throughout.
LEMMA AlwaysIInv == Spec => []IInv
  BY InitIInv, NextIInv, PTL DEF Spec

--------------------------------------------------------------------------------
\* The file, the transaction's view and the delivery keep their types, the
\* backoff's shift and the re-armed alarm included.
THEOREM TypeCorrect == Spec => []TypeOK
<1>1. IInv => TypeOK
  BY DEF IInv, FileOK, Rest, TypeOK
<1> QED
  BY <1>1, AlwaysIInv, PTL

\* An id names one message for the file's whole life, across requeues, undone
\* deliveries and dead-lettering (queue.rs: AUTOINCREMENT and SCHEMA_VERSION).
THEOREM IdsUnique == Spec => []IdNamesOne
<1>1. IInv => IdNamesOne
  BY DEF IInv, FileOK, Ids, IdNamesOne
<1> QED
  BY <1>1, AlwaysIInv, PTL

\* No message is tried more often than the policy allows, and a dead letter was
\* counted exactly as often (queue.rs: deliver).
THEOREM AttemptsBounded == Spec => []AttemptsCounted
<1>1. IInv => AttemptsCounted
  BY DEF IInv, FileOK, Tries, AttemptsCounted
<1> QED
  BY <1>1, AlwaysIInv, PTL

\* A listener accepts a message at most once more than deliveries were undone.
THEOREM AcceptedOnce == Spec => []HeardOncePerUndo
<1>1. IInv => HeardOncePerUndo
  BY DEF IInv, HeardOK, HeardOncePerUndo
<1> QED
  BY <1>1, AlwaysIInv, PTL

\* Until a delivery is undone, a queue that holds messages is armed between calls,
\* early enough for every one of them (queue.rs: send and deliver re-arm).
THEOREM StaysArmed == Spec => []QueueArmed
<1>1. Init => QueueArmed
  BY DEF Init, QueueArmed, NewFile
<1>2. IInv /\ QueueArmed /\ [Next]_vars => QueueArmed'
  <2> SUFFICES ASSUME IInv, QueueArmed, [Next]_vars,
                      Undisturbed', pc' = "idle", file'.live # {}
               PROVE  file'.alarm # NoAlarm /\ \A m \in file'.live : file'.alarm <= m.next
    BY DEF QueueArmed
  <2>0. /\ FileOK(file, spent.sends) /\ file \in File /\ tx \in File /\ SpentOK
        /\ file.live \subseteq Row /\ spent.undos \in Nat
    BY DEF IInv, FileOK, File, SpentOK
  <2> DEFINE Armed(f) == f.alarm # NoAlarm /\ \A m \in f.live : f.alarm <= m.next
  <2>A. (Undisturbed /\ pc = "idle" /\ file.live # {}) => Armed(file)
    BY DEF QueueArmed
  <2>1. CASE Tick
    <3>1. file' = Aged(file) /\ pc = "idle" /\ spent' = spent
      BY <2>1 DEF Tick
    <3>2. file'.live = {[m EXCEPT !.next = IF @ > 0 THEN @ - 1 ELSE 0] : m \in file.live}
          /\ file'.alarm = IF file.alarm > 0 THEN file.alarm - 1 ELSE file.alarm
      BY <2>0, <3>1 DEF Aged, File
    <3>3. Armed(file)
      BY <2>A, <3>1, <3>2 DEF Undisturbed
    <3>4. file.alarm \in Nat
      BY <2>0, <3>3 DEF File
    <3>5. \A m \in file.live : m.next \in Nat /\ file.alarm <= m.next
      BY <2>0, <3>3 DEF Row
    <3>6. file'.alarm \in Nat
      BY <3>2, <3>4
    <3>7. \A m \in file'.live : file'.alarm <= m.next
      <4> TAKE r \in file'.live
      <4>1. PICK m \in file.live : r = [m EXCEPT !.next = IF @ > 0 THEN @ - 1 ELSE 0]
        BY <3>2
      <4>2. r.next = IF m.next > 0 THEN m.next - 1 ELSE 0
        BY <2>0, <4>1 DEF Row
      <4> QED
        BY <3>2, <3>4, <3>5, <4>2
    <3> QED
      BY <3>6, <3>7 DEF NoAlarm
  <2>2. CASE Send \/ \E chosen : RetryDead(chosen)
    <3>1. file'.alarm = 0
      <4>1. Schema(file) \in File
        BY <2>0, SchemaOK DEF FileOK
      <4> QED
        BY <2>2, <4>1 DEF Send, RetryDead, Committed, File
    <3>2. file'.live \subseteq Row
      BY SendIInv, RetryIInv, <2>2 DEF IInv, FileOK, File
    <3> QED
      BY <3>1, <3>2 DEF NoAlarm, Row
  <2>3. CASE Read \/ \E id : DropMessage(id)
    <3>1. pc = "idle" /\ spent' = spent
      BY <2>3 DEF Read, DropMessage
    <3>2. /\ Schema(file) \in File /\ Schema(file).live = file.live
          /\ Schema(file).alarm = file.alarm
      BY <2>0, SchemaOK DEF FileOK
    <3>3. file'.alarm = file.alarm /\ file'.live \subseteq file.live
      BY <2>3, <3>2, ZenonT(60) DEF Read, DropMessage, Committed, File
    <3> QED
      BY <2>A, <3>1, <3>3 DEF Undisturbed
  <2>4. CASE FireAlarm \/ Select \/ Hang \/ (\E m \in tx.live : Accept(m) \/ Refuse(m))
    BY <2>4 DEF FireAlarm, Select, Hang, Accept, Refuse, Turn
  <2>5. CASE Finish
    <3>1. file' = Rearmed(tx)
      BY <2>5 DEF Finish
    <3> QED
      BY <2>0, <3>1, RearmedArms DEF NoAlarm
  <2>6. CASE CommitFails \/ Undo
    <3>1. spent'.undos = spent.undos + 1
      BY <2>0, <2>6 DEF CommitFails, Undo, Spend, SpentOK
    <3> QED
      BY <2>0, <3>1 DEF Undisturbed
  <2>7. CASE UNCHANGED vars
    BY <2>7, <2>A DEF vars, delivery, Undisturbed
  <2> QED
    BY <2>1, <2>2, <2>3, <2>4, <2>5, <2>6, <2>7 DEF Next
<1> QED
  BY <1>1, <1>2, AlwaysIInv, PTL DEF Spec

--------------------------------------------------------------------------------
(* The class implements its contract.                                          *)

\* What an open delivery may have done to the rows of the file: a message that left
\* both tables was heard, and no row appears that the file does not account for.
DeliveryInv ==
  /\ Payloads(tx.live) \subseteq Payloads(file.live)
  /\ Payloads(file.dead) \subseteq Payloads(tx.dead)
  /\ Payloads(tx.dead) \subseteq Payloads(file.dead) \cup Payloads(file.live)
  /\ \A p \in Payloads(file.live) :
       p \in Payloads(tx.live) \cup Payloads(tx.dead) \/ heard[p] > 0

\* What was dropped was sent, and is in no table of the file.
DroppedInv ==
  \A p \in dropped :
    p <= spent.sends /\ p \notin Payloads(file.live) /\ p \notin Payloads(file.dead)

\* The messages in the tables were sent, and each is in one of them.
LEMMA TablesDisjoint ==
  ASSUME NEW f, NEW n, FileOK(f, n)
  PROVE  /\ Payloads(f.live) \subseteq Messages /\ Payloads(f.dead) \subseteq Messages
         /\ Payloads(f.live) \cap Payloads(f.dead) = {}
         /\ \A p \in Payloads(f.live) \cup Payloads(f.dead) : p <= n
<1>1. f.live \subseteq Row /\ f.dead \subseteq DeadRow
  BY DEF FileOK, File
<1> QED
  BY <1>1 DEF FileOK, Once, Payloads, Row, DeadRow

\* Taking the row of one message out of a table takes that message out.
LEMMA RowGone ==
  ASSUME NEW f, NEW n, FileOK(f, n)
  PROVE  /\ \A m \in f.live : Payloads(f.live \ {m}) = Payloads(f.live) \ {m.payload}
         /\ \A M \in SUBSET f.dead : Payloads(f.dead \ M) = Payloads(f.dead) \ Payloads(M)
  BY DEF FileOK, Once, Payloads

\* send queues the next message.
LEMMA SendPayloads ==
  ASSUME IInv, Send
  PROVE  /\ Payloads(file'.live) = Payloads(file.live) \cup {spent.sends + 1}
         /\ Payloads(file'.dead) = Payloads(file.dead) /\ tx' = file'
         /\ spent'.sends = spent.sends + 1 /\ spent.sends + 1 \in Messages
         /\ UNCHANGED <<heard, dropped>>
<1> DEFINE f == Schema(file)
           m == [id |-> f.seq + 1, payload |-> spent.sends + 1, attempts |-> 0, next |-> 0]
           L == f.live \cup {m}
           s == f.seq + 1
<1>1. f \in File /\ f.live = file.live /\ f.dead = file.dead
  BY SchemaOK DEF IInv, FileOK
<1>2. /\ file' = [f EXCEPT !.live = L, !.seq = s, !.alarm = 0] /\ tx' = file'
      /\ UNCHANGED <<heard, dropped>> /\ Spend("sends") /\ spent.sends < MaxSends
  BY DEF Send, Committed, history
<1>3. spent'.sends = spent.sends + 1 /\ spent.sends + 1 \in Messages
  BY <1>2, Bounds DEF IInv, SpentOK, Spend
<1>4. m.payload = spent.sends + 1
  OBVIOUS
<1> HIDE DEF f, m, s
<1>5. L = file.live \cup {m}
  BY <1>1
<1> HIDE DEF L
<1>6. file'.live = L /\ file'.dead = file.dead
  BY <1>1, <1>2 DEF File
<1>7. Payloads(file'.live) = Payloads(file.live) \cup {spent.sends + 1}
  BY <1>4, <1>5, <1>6 DEF Payloads
<1> QED
  BY <1>2, <1>3, <1>6, <1>7

\* retry_dead and retry_message queue dead letters anew.
LEMMA RetryPayloads ==
  ASSUME IInv, NEW chosen, RetryDead(chosen)
  PROVE  /\ \E M \in SUBSET Payloads(file.dead) :
              /\ Payloads(file'.live) = Payloads(file.live) \cup M
              /\ Payloads(file'.dead) = Payloads(file.dead) \ M
         /\ tx' = file' /\ spent'.sends = spent.sends /\ UNCHANGED <<heard, dropped>>
<1> DEFINE f == Schema(file)
           moved == {d \in f.dead : d.id \in chosen}
           n == Cardinality(moved)
           New(id) == {[id |-> id[d], payload |-> d.payload, attempts |-> 0, next |-> 0] : d \in moved}
           g(id) == [f EXCEPT !.live = @ \cup New(id), !.dead = @ \ moved,
                              !.seq = @ + n, !.alarm = 0]
<1>1. f \in File /\ f.live = file.live /\ f.dead = file.dead
  BY SchemaOK DEF IInv, FileOK
<1>2. PICK id \in [moved -> f.seq + 1 .. f.seq + n] : Committed(g(id))
  BY DEF RetryDead
<1>3. Spend("requeues") /\ UNCHANGED <<heard, dropped>>
  BY DEF RetryDead
<1>4. spent'.sends = spent.sends
  BY <1>3 DEF IInv, SpentOK, Spend
<1>5. moved \in SUBSET file.dead
  BY <1>1
<1>6. Payloads(New(id)) = Payloads(moved)
  <2> DEFINE row(d) == [id |-> id[d], payload |-> d.payload, attempts |-> 0, next |-> 0]
  <2>1. New(id) = {row(d) : d \in moved} /\ \A d \in moved : row(d).payload = d.payload
    OBVIOUS
  <2> HIDE DEF row, moved
  <2> QED
    BY <2>1 DEF Payloads
<1> DEFINE L == f.live \cup New(id)
           D == f.dead \ moved
           s == f.seq + n
<1>7. file' = [f EXCEPT !.live = L, !.dead = D, !.seq = s, !.alarm = 0] /\ tx' = file'
  BY <1>2 DEF Committed
<1>8. L = file.live \cup New(id) /\ D = file.dead \ moved
  BY <1>1
<1> HIDE DEF f, moved, New, L, D, s, n, g
<1>9. file'.live = L /\ file'.dead = D
  BY <1>1, <1>7 DEF File
<1>10. Payloads(file'.live) = Payloads(file.live) \cup Payloads(moved)
  BY <1>6, <1>8, <1>9 DEF Payloads
<1>11. Payloads(file'.dead) = Payloads(file.dead) \ Payloads(moved)
  BY <1>5, <1>8, <1>9, RowGone DEF IInv
<1>12. Payloads(moved) \in SUBSET Payloads(file.dead)
  BY <1>5 DEF Payloads
<1> QED
  BY <1>3, <1>4, <1>7, <1>10, <1>11, <1>12

\* drop_message takes one message out of the file.
LEMMA DropPayloads ==
  ASSUME IInv, NEW id, DropMessage(id)
  PROVE  /\ \E p \in Payloads(file.live) \cup Payloads(file.dead) :
              /\ Payloads(file'.live) = Payloads(file.live) \ {p}
              /\ Payloads(file'.dead) = Payloads(file.dead) \ {p}
              /\ dropped' = dropped \cup {p}
         /\ tx' = file' /\ UNCHANGED <<spent, heard>>
<1> DEFINE f == Schema(file)
           live == {m \in f.live : m.id = id}
           dead == {d \in f.dead : d.id = id}
           L == f.live \ live
           D == f.dead \ dead
<1>1. f \in File /\ f.live = file.live /\ f.dead = file.dead /\ FileOK(file, spent.sends)
  BY SchemaOK DEF IInv, FileOK
<1>2. /\ file' = [f EXCEPT !.live = L, !.dead = D] /\ tx' = file'
      /\ live # {} \/ dead # {}
      /\ dropped' = dropped \cup Payloads(live) \cup Payloads(dead)
      /\ UNCHANGED <<spent, heard>>
  BY DEF DropMessage, Committed
<1>3. PICK r \in file.live \cup file.dead : r.id = id
  BY <1>1, <1>2
<1>4. \/ r \in file.live /\ live = {r} /\ dead = {}
      \/ r \in file.dead /\ live = {} /\ dead = {r}
  BY <1>1, <1>3 DEF FileOK, Ids
<1>5. L = file.live \ live /\ D = file.dead \ dead
  BY <1>1
<1> HIDE DEF f, live, dead, L, D
<1>6. file'.live = L /\ file'.dead = D
  BY <1>1, <1>2 DEF File
<1>7. CASE r \in file.live /\ live = {r} /\ dead = {}
  <2>1. Payloads(live) = {r.payload} /\ Payloads(dead) = {} /\ r.payload \in Payloads(file.live)
    BY <1>7 DEF Payloads
  <2>2. Payloads(file'.live) = Payloads(file.live) \ {r.payload} /\ file'.dead = file.dead
    BY <1>1, <1>5, <1>6, <1>7, RowGone
  <2>3. r.payload \notin Payloads(file.dead)
    BY <1>1, <2>1, TablesDisjoint
  <2> QED
    BY <1>2, <2>1, <2>2, <2>3
<1>8. CASE r \in file.dead /\ live = {} /\ dead = {r}
  <2>1. Payloads(dead) = {r.payload} /\ Payloads(live) = {} /\ r.payload \in Payloads(file.dead)
    BY <1>8 DEF Payloads
  <2>2. dead \in SUBSET file.dead
    BY <1>8
  <2>3. Payloads(file'.dead) = Payloads(file.dead) \ {r.payload} /\ file'.live = file.live
    BY <1>1, <1>5, <1>6, <1>8, <2>1, <2>2, RowGone
  <2>4. r.payload \notin Payloads(file.live)
    BY <1>1, <2>1, TablesDisjoint
  <2> QED
    BY <1>2, <2>1, <2>3, <2>4
<1> QED
  BY <1>4, <1>7, <1>8

\* A refused attempt leaves its message live, or dead instead.
LEMMA RefusePayloads ==
  ASSUME IInv, NEW m \in tx.live
  PROVE  \/ /\ Payloads(Refused(m).live) = Payloads(tx.live)
            /\ Refused(m).dead = tx.dead
         \/ /\ Payloads(Refused(m).live) = Payloads(tx.live) \ {m.payload}
            /\ Payloads(Refused(m).dead) = Payloads(tx.dead) \cup {m.payload}
<1> DEFINE d == [id |-> m.id, payload |-> m.payload, attempts |-> m.attempts + 1]
           k == [m EXCEPT !.attempts = @ + 1, !.next = Backoff(m.attempts)]
<1>0. tx \in File /\ m \in Row /\ FileOK(tx, spent.sends)
  BY DEF IInv, FileOK, File
<1>1. CASE m.attempts + 1 >= MaxAttempts
  <2> DEFINE L == tx.live \ {m}
             D == tx.dead \cup {d}
  <2>1. Refused(m) = [tx EXCEPT !.live = L, !.dead = D]
    BY <1>1 DEF Refused
  <2>2. Payloads(D) = Payloads(tx.dead) \cup {m.payload}
    <3>1. d.payload = m.payload
      OBVIOUS
    <3> HIDE DEF d
    <3> QED
      BY <3>1 DEF Payloads
  <2>3. Payloads(L) = Payloads(tx.live) \ {m.payload}
    BY <1>0, RowGone
  <2> HIDE DEF L, D
  <2>4. Refused(m).live = L /\ Refused(m).dead = D
    BY <1>0, <2>1 DEF File
  <2> QED
    BY <2>2, <2>3, <2>4
<1>2. CASE ~(m.attempts + 1 >= MaxAttempts)
  <2> DEFINE L == (tx.live \ {m}) \cup {k}
  <2>1. Refused(m) = [tx EXCEPT !.live = L]
    BY <1>2 DEF Refused
  <2>2. k.payload = m.payload
    BY <1>0 DEF Row
  <2> HIDE DEF k
  <2>3. Payloads(L) = Payloads(tx.live)
    BY <2>2 DEF Payloads
  <2> HIDE DEF L
  <2>4. Refused(m).live = L /\ Refused(m).dead = tx.dead
    BY <1>0, <2>1 DEF File
  <2> QED
    BY <2>3, <2>4
<1> QED
  BY <1>1, <1>2

\* The steps that touch no message: the clock, the reads, the firing, the selection
\* and a listener that hangs.
LEMMA QuietPayloads ==
  ASSUME IInv, Tick \/ Read \/ FireAlarm \/ Select \/ Hang
  PROVE  /\ Payloads(file'.live) = Payloads(file.live) /\ file'.dead = file.dead
         /\ Payloads(tx'.live) = Payloads(tx.live) /\ tx'.dead = tx.dead
         /\ UNCHANGED <<spent, heard, dropped>>
<1>0. FileOK(file, spent.sends) /\ FileOK(tx, spent.sends) /\ file \in File /\ Rest
  BY DEF IInv, FileOK
<1>1. CASE Tick
  BY <1>0, <1>1, AgedOK DEF Tick, history
<1>2. CASE Read
  <2>1. file' = Schema(file) /\ tx' = Schema(file) /\ pc = "idle"
    BY <1>2 DEF Read, Committed
  <2> QED
    BY <1>0, <1>2, <2>1, SchemaOK DEF Read, history, Rest
<1>3. CASE FireAlarm
  <2>1. file' = [file EXCEPT !.alarm = NoAlarm] /\ tx' = file' /\ tx = file
    BY <1>0, <1>3 DEF FireAlarm, Rest
  <2>2. file'.live = file.live /\ file'.dead = file.dead
    BY <1>0, <2>1 DEF File
  <2> QED
    BY <1>3, <2>1, <2>2 DEF FireAlarm, history
<1>4. CASE Select
  <2>1. file' = file /\ tx' = Schema(file) /\ tx = file
    BY <1>0, <1>4 DEF Select, Rest
  <2> QED
    BY <1>0, <1>4, <2>1, SchemaOK DEF Select, history
<1>5. CASE Hang
  BY <1>5 DEF Hang, history
<1> QED
  BY <1>1, <1>2, <1>3, <1>4, <1>5

\* COMMIT: the file becomes the transaction's view.
LEMMA FinishPayloads ==
  ASSUME IInv, Finish
  PROVE  file'.live = tx.live /\ file'.dead = tx.dead /\ tx' = file'
         /\ UNCHANGED <<spent, heard, dropped>>
<1>1. file' = Rearmed(tx) /\ tx' = file' /\ tx \in File
  BY DEF Finish, IInv, FileOK
<1> QED
  BY <1>1, RearmedArms DEF Finish, history

\* Accepting a message takes it out of the transaction's view and marks it heard.
LEMMA AcceptPayloads ==
  ASSUME IInv, NEW m \in tx.live, Accept(m)
  PROVE  /\ Payloads(tx'.live) = Payloads(tx.live) \ {m.payload} /\ tx'.dead = tx.dead
         /\ m.payload \in Messages
         /\ \A p \in Messages : heard'[p] = IF p = m.payload THEN heard[p] + 1 ELSE heard[p]
         /\ UNCHANGED <<file, spent, dropped>>
<1>1. tx \in File /\ FileOK(tx, spent.sends) /\ m.payload \in Messages
      /\ heard \in [Messages -> Nat]
  BY DEF IInv, FileOK, File, Row, Rest
<1>2. /\ tx' = [tx EXCEPT !.live = @ \ {m}] /\ heard' = [heard EXCEPT ![m.payload] = @ + 1]
      /\ UNCHANGED <<file, spent, dropped>>
  BY DEF Accept
<1>3. tx'.live = tx.live \ {m} /\ tx'.dead = tx.dead
  BY <1>1, <1>2 DEF File
<1> QED
  BY <1>1, <1>2, <1>3, RowGone

\* A delivery always accounts for the file's messages.
LEMMA NextDelivery ==
  ASSUME IInv, DeliveryInv, DroppedInv, [Next]_vars
  PROVE  DeliveryInv' /\ DroppedInv'
<1>0. /\ heard \in [Messages -> Nat] /\ spent.sends \in Nat
      /\ Payloads(tx.live) \subseteq Messages /\ Payloads(tx.dead) \subseteq Messages
      /\ Payloads(file.live) \subseteq Messages /\ Payloads(file.dead) \subseteq Messages
      /\ \A p \in Payloads(file.live) \cup Payloads(file.dead) : p <= spent.sends
      /\ Messages \subseteq Nat
  BY TablesDisjoint, Bounds DEF IInv, Rest, SpentOK
<1>1. ASSUME tx' = file' PROVE DeliveryInv'
  BY <1>1 DEF DeliveryInv
<1>2. CASE Send
  <2>0. dropped' = dropped /\ spent'.sends = spent.sends + 1
    BY <1>2, SendPayloads
  <2>1. \A p \in dropped : p \in Nat /\ p <= spent.sends
    BY <1>0 DEF DroppedInv, IInv, Rest
  <2>2. \A p \in dropped' : p <= spent'.sends /\ p # spent.sends + 1
    BY <1>0, <2>0, <2>1
  <2> QED
    BY <1>1, <1>2, <2>0, <2>2, SendPayloads DEF DroppedInv
<1>3. ASSUME NEW chosen, RetryDead(chosen) PROVE DeliveryInv' /\ DroppedInv'
  BY <1>1, <1>3, RetryPayloads DEF DroppedInv
<1>4. ASSUME NEW id, DropMessage(id) PROVE DeliveryInv' /\ DroppedInv'
  BY <1>0, <1>1, <1>4, DropPayloads DEF DroppedInv
<1>5. CASE Tick \/ Read \/ FireAlarm \/ Select \/ Hang
  BY <1>5, QuietPayloads DEF DeliveryInv, DroppedInv
<1>6. CASE Finish
  <2>1. DeliveryInv'
    BY <1>1, <1>6, FinishPayloads
  <2>2. DroppedInv'
    BY <1>6, FinishPayloads DEF DroppedInv, DeliveryInv
  <2> QED
    BY <2>1, <2>2
<1>7. CASE CommitFails \/ Undo
  <2>1. /\ tx' = file' /\ file'.live = file.live /\ file'.dead = file.dead
        /\ dropped' = dropped /\ spent'.sends = spent.sends
    BY <1>7, UndonePayloads
  <2> QED
    BY <1>1, <2>1 DEF DroppedInv
<1>8. ASSUME NEW m \in tx.live, Accept(m) PROVE DeliveryInv' /\ DroppedInv'
  <2>1. DroppedInv'
    BY <1>8, AcceptPayloads DEF DroppedInv
  <2>2. \A p \in Payloads(file.live) :
          p \in Payloads(tx'.live) \cup Payloads(tx'.dead) \/ heard'[p] > 0
    <3> TAKE p \in Payloads(file.live)
    <3>1. p \in Messages /\ heard[p] \in Nat
      BY <1>0
    <3>2. CASE p = m.payload
      <4>1. heard'[p] = heard[p] + 1
        BY <1>8, <3>1, <3>2, AcceptPayloads
      <4> QED
        BY <3>1, <4>1
    <3>3. CASE p # m.payload
      BY <1>8, <3>1, <3>3, AcceptPayloads DEF DeliveryInv
    <3> QED
      BY <3>2, <3>3
  <2> QED
    BY <1>8, <2>1, <2>2, AcceptPayloads DEF DeliveryInv
<1>9. ASSUME NEW m \in tx.live, Refuse(m) PROVE DeliveryInv' /\ DroppedInv'
  <2>1. tx' = Refused(m) /\ UNCHANGED <<file, spent, heard, dropped>>
    BY <1>9 DEF Refuse
  <2>2. m.payload \in Payloads(tx.live)
    BY DEF Payloads
  <2> QED
    BY <2>1, <2>2, RefusePayloads DEF DeliveryInv, DroppedInv
<1>10. CASE UNCHANGED vars
  BY <1>10 DEF vars, delivery, history, DeliveryInv, DroppedInv
<1> QED
  BY <1>2, <1>3, <1>4, <1>5, <1>6, <1>7, <1>8, <1>9, <1>10 DEF Next

\* The status of each message, said of the sets of messages in the tables.
StatusOf(live, dead, sent, gone) ==
  [m \in Messages |->
     IF m > sent THEN "unsent"
     ELSE IF m \in live THEN "queued"
     ELSE IF m \in dead THEN "dead"
     ELSE IF m \in gone THEN "dropped" ELSE "delivered"]

\* Status is StatusOf the file's tables.
LEMMA StatusIs ==
  Status = StatusOf(Payloads(file.live), Payloads(file.dead), spent.sends, dropped)
  BY DEF Status, StatusOf

Heard == {m \in Messages : heard[m] > 0}

\* Every step is a step of the contract, or changes nothing it speaks of.
LEMMA NextContract ==
  ASSUME IInv, DeliveryInv, DroppedInv, [Next]_vars
  PROVE  Contract!Next \/ (Status' = Status /\ Heard' = Heard)
<1> DEFINE L == Payloads(file.live)
           D == Payloads(file.dead)
           n == spent.sends
<1>0. /\ heard \in [Messages -> Nat] /\ n \in Nat /\ Messages \subseteq Nat
      /\ L \subseteq Messages /\ D \subseteq Messages /\ L \cap D = {}
      /\ \A p \in L \cup D : p <= n
  BY TablesDisjoint, Bounds DEF IInv, Rest, SpentOK
<1>1. Status = StatusOf(L, D, n, dropped)
  BY StatusIs
<1>2. Status' = StatusOf(Payloads(file'.live), Payloads(file'.dead), spent'.sends, dropped')
  BY DEF Status, StatusOf
<1> HIDE DEF L, D, n
<1>3. ASSUME Payloads(file'.live) = L, Payloads(file'.dead) = D, UNCHANGED <<heard, dropped>>,
             spent'.sends = n
      PROVE  Status' = Status /\ Heard' = Heard
  BY <1>1, <1>2, <1>3 DEF Heard
<1>4. CASE Send
  <2> DEFINE p == n + 1
  <2>1. /\ Payloads(file'.live) = L \cup {p} /\ Payloads(file'.dead) = D
        /\ spent'.sends = p /\ p \in Messages /\ UNCHANGED <<heard, dropped>>
    BY <1>4, SendPayloads DEF L, D, n
  <2>2. Status[p] = "unsent"
    BY <1>0, <1>1, <2>1 DEF StatusOf
  <2>3. Status' = [m \in Messages |-> IF m \in {p} THEN "queued" ELSE Status[m]]
    BY <1>0, <1>1, <1>2, <2>1 DEF StatusOf
  <2>4. Contract!Send(p)
    BY <2>1, <2>2, <2>3 DEF Contract!Send, Contract!Move
  <2> QED
    BY <2>1, <2>4 DEF Contract!Next
<1>5. ASSUME NEW chosen, RetryDead(chosen) PROVE Contract!Next
  <2>1. PICK M \in SUBSET D : Payloads(file'.live) = L \cup M /\ Payloads(file'.dead) = D \ M
    BY <1>5, RetryPayloads DEF L, D
  <2>2. spent'.sends = n /\ UNCHANGED <<heard, dropped>>
    BY <1>5, RetryPayloads DEF n
  <2>3. M \subseteq Contract!In("dead") /\ M \in SUBSET Messages
    BY <1>0, <1>1, <2>1 DEF StatusOf, Contract!In
  <2>4. Status' = [m \in Messages |-> IF m \in M THEN "queued" ELSE Status[m]]
    BY <1>0, <1>1, <1>2, <2>1, <2>2 DEF StatusOf
  <2>5. Contract!Requeue(M)
    BY <2>2, <2>3, <2>4 DEF Contract!Requeue, Contract!Move
  <2> QED
    BY <2>3, <2>5 DEF Contract!Next
<1>6. ASSUME NEW id, DropMessage(id) PROVE Contract!Next
  <2>1. PICK p \in L \cup D : /\ Payloads(file'.live) = L \ {p} /\ Payloads(file'.dead) = D \ {p}
                              /\ dropped' = dropped \cup {p}
    BY <1>6, DropPayloads DEF L, D
  <2>2. spent'.sends = n /\ UNCHANGED heard
    BY <1>6, DropPayloads DEF n
  <2>3. Status[p] \in {"queued", "dead"} /\ p \in Messages
    BY <1>0, <1>1, <2>1 DEF StatusOf
  <2>4. Status' = [m \in Messages |-> IF m \in {p} THEN "dropped" ELSE Status[m]]
    BY <1>0, <1>1, <1>2, <2>1, <2>2 DEF StatusOf
  <2>5. Contract!Drop(p)
    BY <2>2, <2>3, <2>4 DEF Contract!Drop, Contract!Move
  <2> QED
    BY <2>3, <2>5 DEF Contract!Next
<1>7. CASE Tick \/ Read \/ FireAlarm \/ Select \/ Hang
  BY <1>3, <1>7, QuietPayloads DEF L, D, n
<1>8. CASE Finish
  <2> DEFINE TL == Payloads(tx.live)
             TD == Payloads(tx.dead)
             Done == L \ (TL \cup TD)
             Dead == L \cap TD
  <2>1. /\ Payloads(file'.live) = TL /\ Payloads(file'.dead) = TD
        /\ spent'.sends = n /\ UNCHANGED <<heard, dropped>>
    BY <1>8, FinishPayloads DEF n
  <2>2. /\ TL \subseteq L /\ D \subseteq TD /\ TD \subseteq D \cup L /\ TL \cap TD = {}
        /\ \A p \in Done : heard[p] > 0
    BY TablesDisjoint DEF DeliveryInv, IInv, L, D
  <2>3. \A p \in dropped : p \notin L
    BY DEF DroppedInv, L
  <2> HIDE DEF TL, TD
  <2>4. \A p \in L : Status[p] = "queued"
    BY <1>0, <1>1 DEF StatusOf
  <2>5. Done \in SUBSET Messages /\ Dead \in SUBSET Messages
    BY <1>0
  <2>6. Done \subseteq Contract!In("queued") \cap Heard /\ Dead \subseteq Contract!In("queued") \ Done
    BY <1>0, <2>2, <2>4 DEF Contract!In, Heard
  <2>7. Status' = [m \in Messages |->
                     IF m \in Done THEN "delivered" ELSE IF m \in Dead THEN "dead" ELSE Status[m]]
    BY <1>0, <1>1, <1>2, <2>1, <2>2, <2>3 DEF StatusOf
  <2> HIDE DEF Done, Dead
  <2>8. Contract!Settle(Done, Dead)
    BY <2>1, <2>6, <2>7 DEF Contract!Settle, Heard
  <2> QED
    BY <2>5, <2>8 DEF Contract!Next
<1>9. CASE CommitFails \/ Undo
  <2>1. /\ file'.live = file.live /\ file'.dead = file.dead
        /\ UNCHANGED <<heard, dropped>> /\ spent'.sends = spent.sends
    BY <1>9, UndonePayloads
  <2> QED
    BY <1>3, <2>1 DEF L, D, n
<1>10. ASSUME NEW m \in tx.live, Accept(m) PROVE Contract!Next
  <2>1. m.payload \in L /\ m.payload \in Messages
    BY <1>10, AcceptPayloads DEF DeliveryInv, Payloads, L
  <2>2. Status[m.payload] = "queued"
    <3>1. \A p \in L : Status[p] = "queued"
      BY <1>0, <1>1 DEF StatusOf
    <3> QED
      BY <2>1, <3>1
  <2>3. \A p \in Messages : heard'[p] > 0 <=> (heard[p] > 0 \/ p = m.payload)
    <3> TAKE p \in Messages
    <3>1. heard[p] \in Nat /\ heard'[p] = IF p = m.payload THEN heard[p] + 1 ELSE heard[p]
      BY <1>0, <1>10, AcceptPayloads
    <3> QED
      BY <3>1
  <2>4. {q \in Messages : heard'[q] > 0} = {q \in Messages : heard[q] > 0} \cup {m.payload}
    BY <2>1, <2>3
  <2>5. UNCHANGED <<file, spent, dropped>>
    BY <1>10, AcceptPayloads
  <2>6. Status' = Status
    BY <2>5 DEF Status
  <2>7. Contract!Hear(m.payload)
    BY <2>2, <2>4, <2>6 DEF Contract!Hear
  <2> QED
    BY <2>1, <2>7 DEF Contract!Next
<1>11. ASSUME NEW m \in tx.live, Refuse(m) PROVE Status' = Status /\ Heard' = Heard
  BY <1>3, <1>11 DEF Refuse, L, D, n
<1>12. CASE UNCHANGED vars
  BY <1>3, <1>12 DEF vars, delivery, history, L, D, n
<1> QED
  BY <1>4, <1>5, <1>6, <1>7, <1>8, <1>9, <1>10, <1>11, <1>12 DEF Next

\* The class implements QueueContract for any policy, batch size and number of
\* messages, requeues and undone deliveries: a message once queued leaves only by a
\* delivery its listener accepted, by dead-lettering or by a drop, and what was
\* delivered or dropped never comes back.
THEOREM ImplementsContract == Spec => KeepsContract
<1>1. Init => DeliveryInv /\ DroppedInv
  BY DEF Init, DeliveryInv, DroppedInv, Payloads, NewFile
<1>2. IInv /\ DeliveryInv /\ DroppedInv /\ [Next]_vars => DeliveryInv' /\ DroppedInv'
  BY NextDelivery
<1>3. Init => Contract!Init
  <2> SUFFICES ASSUME Init PROVE Contract!Init
    OBVIOUS
  <2>1. {m \in Messages : heard[m] > 0} = {}
    BY DEF Init
  <2>2. Payloads(file.live) = {} /\ Payloads(file.dead) = {} /\ spent.sends = 0
    BY DEF Init, NewFile, Payloads
  <2>3. \A m \in Messages : m > 0
    BY Bounds
  <2>4. Status = [m \in Messages |-> "unsent"]
    BY <2>2, <2>3 DEF Status
  <2> QED
    BY <2>1, <2>4 DEF Contract!Init
<1>4. IInv /\ DeliveryInv /\ DroppedInv /\ [Next]_vars => [Contract!Next]_(Contract!vars)
  BY NextContract DEF Contract!vars, Heard
<1> QED
  BY <1>1, <1>2, <1>3, <1>4, AlwaysIInv, PTL DEF Spec, KeepsContract, Contract!Spec
====
