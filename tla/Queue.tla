--------------------------------- MODULE Queue ---------------------------------
(* The `__queue` platform class: a message table, a dead-letter table and one  *)
(* alarm in one SQLite file.  Calls run one at a time, each in a transaction;  *)
(* the delivery the alarm starts is the only one that awaits (the listener,    *)
(* once per message), so only it can be cut in two by a crash or by time.      *)
(*                                                                             *)
(* Times are kept as what is left of them: `alarm` and `next` count down to 0. *)
(* A message's payload is its number in the order of sending.  The file is one *)
(* that schema version 2 created.                                              *)
EXTENDS Integers, FiniteSets

CONSTANTS
  MaxAttempts,    \* QueuePolicy.max_attempts
  BackoffBase,    \* QueuePolicy.backoff_base_ms
  BackoffCap,     \* the hour that caps the backoff
  DeliveryBatch,  \* due messages one firing works through
  MaxSends,       \* bound: messages sent
  MaxRequeues,    \* bound: retry_dead and retry_message calls
  MaxUndos        \* bound: deliveries that a crash or an SQLite error undoes

ASSUME QueueAssumption ==
  /\ {MaxAttempts, DeliveryBatch} \subseteq Nat \ {0}
  /\ {BackoffBase, BackoffCap, MaxSends, MaxRequeues, MaxUndos} \subseteq Nat

VARIABLES
  file,    \* the committed file; its alarm is the one the loop waits on
  tx,      \* the file as the open transaction sees it; the file itself when none is
  pc,      \* "idle"; "fired": alarm cleared, not yet in a transaction; "deliver";
           \* "hung": in a listener that awaits what never comes
  batch,   \* ids of this delivery not yet tried
  late,    \* has this delivery used up the call budget?
  spent,   \* what is used up of the bounds
  heard,   \* history: how often the listener accepted each message
  ran,     \* history: messages whose listener ran since they were (re)queued
  dropped  \* history: messages an operator dropped

delivery == <<pc, tx, batch, late>>
history == <<heard, ran, dropped>>
vars == <<file, delivery, spent, history>>

Messages == 1..MaxSends
NoAlarm == -1

Row == [id : Nat, payload : Messages, attempts : Nat, next : Nat]
DeadRow == [id : Nat, payload : Messages, attempts : Nat]
File == [live : SUBSET Row, dead : SUBSET DeadRow, seq : Nat,
         alarm : Nat \cup {NoAlarm}, version : {0, 2}]

NewFile == [live |-> {}, dead |-> {}, seq |-> 0, alarm |-> NoAlarm, version |-> 0]

Init ==
  /\ file = NewFile /\ tx = NewFile /\ pc = "idle" /\ batch = {} /\ late = FALSE
  /\ spent = [sends |-> 0, requeues |-> 0, undos |-> 0]
  /\ heard = [m \in Messages |-> 0] /\ ran = {} /\ dropped = {}

Spend(what) == spent' = [spent EXCEPT ![what] = @ + 1]

--------------------------------------------------------------------------------
(* The file.                                                                   *)

\* The first dispatch creates the tables and stamps the file.
Schema(f) == IF f.version >= 2 THEN f ELSE [f EXCEPT !.version = 2]

Payloads(rows) == {m.payload : m \in rows}

\* `backoff_base_ms << attempts`, at most the cap.
Backoff(attempts) ==
  LET d == BackoffBase * 2^attempts IN IF d \in 0..BackoffCap THEN d ELSE BackoffCap

\* A call that has committed: no transaction is open.
Committed(f) ==
  /\ file' = f /\ tx' = f
  /\ UNCHANGED <<pc, batch, late>>

Aged(f) ==
  [f EXCEPT !.live = {[m EXCEPT !.next = IF @ > 0 THEN @ - 1 ELSE 0] : m \in f.live},
            !.alarm = IF @ > 0 THEN @ - 1 ELSE @]

Tick ==
  /\ Aged(file) # file \/ Aged(tx) # tx
  /\ file' = Aged(file) /\ tx' = Aged(tx)
  /\ UNCHANGED <<pc, batch, late, spent, history>>

--------------------------------------------------------------------------------
(* Calls.  One that fails rolls back whole and re-reads the alarm, so it leaves *)
(* everything as it was; one whose COMMIT fails may leave the loop an alarm too *)
(* many, which delivers what is due early.  That cell and row agree otherwise, *)
(* and what a swallowed failure of the alarm's own statements does to them, is *)
(* module ObjectTask's subject.                                                *)

Send_RowidReused ==
  /\ pc = "idle" /\ spent.sends < MaxSends
  /\ LET f == Schema(file)
         p == spent.sends + 1
         m == [id |-> Cardinality(f.live) + 1, payload |-> p, attempts |-> 0, next |-> 0]
     IN Committed([f EXCEPT !.live = @ \cup {m}, !.seq = m.id, !.alarm = 0])
  /\ Spend("sends")
  /\ UNCHANGED history

Send ==
  /\ pc = "idle" /\ spent.sends < MaxSends
  /\ LET f == Schema(file)
         p == spent.sends + 1
         m == [id |-> f.seq + 1, payload |-> p, attempts |-> 0, next |-> 0]
     IN Committed([f EXCEPT !.live = @ \cup {m}, !.seq = @ + 1, !.alarm = 0])
  /\ Spend("sends")
  /\ UNCHANGED history

\* retry_dead (every id) and retry_message (one id): the dead letters become new
\* messages, in no particular order.
RetryDead(chosen) ==
  /\ pc = "idle" /\ spent.requeues < MaxRequeues
  /\ LET f == Schema(file)
         moved == {d \in f.dead : d.id \in chosen}
         n == Cardinality(moved)
     IN /\ moved # {}
        /\ \E id \in [moved -> f.seq + 1 .. f.seq + n] :
             /\ \A d, e \in moved : id[d] = id[e] => d = e
             /\ Committed([f EXCEPT
                  !.live = @ \cup {[id |-> id[d], payload |-> d.payload,
                                    attempts |-> 0, next |-> 0] : d \in moved},
                  !.dead = @ \ moved, !.seq = @ + n, !.alarm = 0])
        /\ ran' = ran \ Payloads(moved)
  /\ Spend("requeues")
  /\ UNCHANGED <<heard, dropped>>

\* stats, messages, events, and controls that find nothing: only the schema moves.
Read ==
  /\ pc = "idle" /\ file.version < 2
  /\ Committed(Schema(file))
  /\ UNCHANGED <<spent, history>>

\* The id may name a message in either table; no alarm is touched.
DropMessage(id) ==
  /\ pc = "idle"
  /\ LET f == Schema(file)
         live == {m \in f.live : m.id = id}
         dead == {d \in f.dead : d.id = id}
     IN /\ live # {} \/ dead # {}
        /\ Committed([f EXCEPT !.live = @ \ live, !.dead = @ \ dead])
        /\ dropped' = dropped \cup Payloads(live) \cup Payloads(dead)
  /\ UNCHANGED <<spent, heard, ran>>

--------------------------------------------------------------------------------
(* Delivery.                                                                   *)

\* fire_alarm deletes the row in a transaction of its own, before the delivery's.
FireAlarm ==
  /\ pc = "idle" /\ file.alarm = 0
  /\ file' = [file EXCEPT !.alarm = NoAlarm] /\ tx' = file'
  /\ pc' = "fired"
  /\ UNCHANGED <<batch, late, spent, history>>

\* BEGIN, then the due messages, lowest ids first, at most a batch of them.
Select ==
  /\ pc = "fired"
  /\ tx' = Schema(file)
  /\ LET due == {m \in tx'.live : m.next = 0} IN
       batch' = {m.id : m \in {k \in due :
                   Cardinality({l \in due : l.id < k.id}) < DeliveryBatch}}
  /\ late' = FALSE /\ pc' = "deliver"
  /\ UNCHANGED <<file, spent, history>>

\* The message whose turn it is.
Turn(m) ==
  /\ pc = "deliver" /\ m.id \in batch
  /\ \A id \in batch : m.id <= id

\* The listener ran to its end.
Accept(m) ==
  /\ Turn(m) /\ ~late
  /\ heard' = [heard EXCEPT ![m.payload] = @ + 1]
  /\ ran' = ran \cup {m.payload}
  /\ tx' = [tx EXCEPT !.live = @ \ {m}]
  /\ batch' = batch \ {m.id} /\ late' \in BOOLEAN
  /\ UNCHANGED <<file, pc, spent, dropped>>

Refused_LosesDead(m) ==
  IF m.attempts + 1 >= MaxAttempts
  THEN [tx EXCEPT !.live = @ \ {m}]
  ELSE [tx EXCEPT !.live = (@ \ {m}) \cup {[m EXCEPT !.attempts = @ + 1,
                                                     !.next = Backoff(m.attempts)]}]

\* A failed attempt: dead-lettered when it was the last, else retried later.
Refused(m) ==
  IF m.attempts + 1 >= MaxAttempts
  THEN [tx EXCEPT !.live = @ \ {m},
                  !.dead = @ \cup {[id |-> m.id, payload |-> m.payload,
                                    attempts |-> m.attempts + 1]}]
  ELSE [tx EXCEPT !.live = (@ \ {m}) \cup {[m EXCEPT !.attempts = @ + 1,
                                                     !.next = Backoff(m.attempts)]}]

\* The listener failed, or is missing; once the budget of the call is used up
\* the interrupt stops every further listener before it does anything.
Refuse(m) ==
  /\ Turn(m)
  /\ ran' = IF late THEN ran ELSE ran \cup {m.payload}
  /\ tx' = Refused(m)
  /\ batch' = batch \ {m.id} /\ late' \in {late, TRUE}
  /\ UNCHANGED <<file, pc, spent, heard, dropped>>

Rearmed_OnlyDue(f) ==
  IF \A m \in f.live : m.next > 0 THEN f ELSE [f EXCEPT !.alarm = 0]

\* Re-armed for the earliest message that is left, if one is.
Rearmed(f) ==
  IF f.live = {} THEN f
  ELSE [f EXCEPT !.alarm = (CHOOSE m \in f.live : \A k \in f.live : m.next <= k.next).next]

\* COMMIT.
Finish ==
  /\ pc = "deliver" /\ batch = {}
  /\ file' = Rearmed(tx) /\ tx' = file'
  /\ pc' = "idle" /\ late' = FALSE
  /\ UNCHANGED <<batch, spent, history>>

\* COMMIT failed: an error at once, no rollback and no re-reading.  Nothing of the
\* delivery is in the file, but the loop waits on the alarm it re-armed in memory
\* (one that a crash takes before it rings is Undo's case).
CommitFails ==
  /\ pc = "deliver" /\ batch = {} /\ spent.undos < MaxUndos
  /\ file' = [file EXCEPT !.alarm = Rearmed(tx).alarm] /\ tx' = file'
  /\ pc' = "idle" /\ late' = FALSE
  /\ Spend("undos")
  /\ UNCHANGED <<batch, history>>

\* Nothing bounds a listener's await: the call budget interrupts only the vm's own
\* instructions.
Hang ==
  /\ pc = "deliver" /\ batch # {} /\ ~late
  /\ pc' = "hung"
  /\ UNCHANGED <<file, tx, batch, late, spent, history>>

\* The delivery ends before its COMMIT: the process dies, and the object is resident
\* again here or elsewhere; or BEGIN or a statement (the quota, the disk) fails,
\* which rolls back and re-reads the alarm.  What it did to the file is gone, what
\* its listeners did is not; the alarm was cleared before and stays so.
Undo ==
  /\ pc # "idle" /\ spent.undos < MaxUndos
  /\ pc' = "idle" /\ tx' = file /\ batch' = {} /\ late' = FALSE
  /\ Spend("undos")
  /\ UNCHANGED <<file, history>>

Next ==
  \/ Tick \/ Send \/ Read \/ FireAlarm \/ Select \/ Finish \/ CommitFails \/ Hang \/ Undo
  \/ RetryDead({d.id : d \in file.dead})
  \/ \E id \in {d.id : d \in file.dead} : RetryDead({id})
  \/ \E id \in {r.id : r \in file.live \cup file.dead} : DropMessage(id)
  \/ \E m \in tx.live : Accept(m) \/ Refuse(m)

Spec == Init /\ [][Next]_vars

\* The clock runs, the task's loop waits on the alarm, and a listener that does not
\* hang ends (the budget interrupts a vm that spins).
FairSpec ==
  /\ Spec
  /\ WF_vars(Tick) /\ WF_vars(FireAlarm) /\ WF_vars(Select) /\ WF_vars(Finish)
  /\ WF_vars(\E m \in tx.live : Accept(m) \/ Refuse(m))

--------------------------------------------------------------------------------
(* Properties.                                                                 *)

\* Types of the file, the transaction's view and the delivery's state.
TypeOK ==
  /\ {file, tx} \subseteq File
  /\ pc \in {"idle", "fired", "deliver", "hung"}
  /\ batch \subseteq Nat /\ late \in BOOLEAN
  /\ heard \in [Messages -> Nat] /\ ran \subseteq Messages /\ dropped \subseteq Messages

\* An id names one message for the file's whole life (queue.rs: SCHEMA_VERSION),
\* which is what makes drop_message and retry_message mean one message: no two
\* rows of the two tables share an id, and no id to come is taken.
IdNamesOne ==
  \A v \in {file, tx} :
    /\ \A m, k \in v.live : m.id = k.id => m = k
    /\ \A d, e \in v.dead : d.id = e.id => d = e
    /\ \A m \in v.live, d \in v.dead : m.id # d.id
    /\ \A r \in v.live \cup v.dead : r.id <= v.seq

\* No delivery was undone so far.
Undisturbed == spent.undos = 0

\* Between calls a queue that holds messages is armed, and early enough for
\* every one of them: no message waits on a later call to be delivered.  It lasts
\* until a delivery is undone: the alarm that started it is not restored.
QueueArmed ==
  (Undisturbed /\ pc = "idle" /\ file.live # {}) =>
    file.alarm # NoAlarm /\ \A m \in file.live : file.alarm <= m.next

\* A message is tried at most MaxAttempts times each time it is queued, and is
\* dead exactly when it was: retries across batches never overrun the policy.
AttemptsCounted ==
  \A v \in {file, tx} :
    /\ \A m \in v.live : m.attempts < MaxAttempts
    /\ \A d \in v.dead : d.attempts = MaxAttempts

\* A listener accepts a message again only because a delivery that had accepted
\* it was undone: one acceptance more for each undone delivery, and no other.
HeardOncePerUndo ==
  \A m \in Messages : heard[m] <= 1 + spent.undos

\* What becomes of each message, read off the committed file.
Status ==
  [m \in Messages |->
     IF m > spent.sends THEN "unsent"
     ELSE IF m \in Payloads(file.live) THEN "queued"
     ELSE IF m \in Payloads(file.dead) THEN "dead"
     ELSE IF m \in dropped THEN "dropped" ELSE "delivered"]

Contract == INSTANCE QueueContract
  WITH status <- Status, heard <- {m \in Messages : heard[m] > 0}

\* The class keeps its contract: through batches, retries, requeues, crashes and
\* rollbacks no message is lost, resurrected or settled without its listener.
KeepsContract == Contract!Spec

\* Every message queued leaves the queue, delivered, dead or dropped, unless a
\* delivery is undone or a listener hangs: whatever the backoff, the batch and the
\* other messages.
Settles ==
  \A p \in Messages :
    (p \in Payloads(file.live)) ~>
      (p \notin Payloads(file.live) \/ ~Undisturbed \/ pc = "hung")

\* QueuePolicy.max_attempts: "Deliveries attempted before a message dead-letters":
\* a dead letter's listener has run.
DeadWereTried == \A d \in tx.dead : d.payload \in ran
====
