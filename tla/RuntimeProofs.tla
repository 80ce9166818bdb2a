----------------------------- MODULE RuntimeProofs -----------------------------
(***************************************************************************)
(* What the object runtime guarantees for every number of nodes, objects,  *)
(* calls and faults: module Calls, between objects, and module ObjectTask, *)
(* inside one.  The two specifications share no name.                      *)
(***************************************************************************)
EXTENDS Calls, ObjectTask, FiniteSetTheorems, WellFoundedInduction, NaturalsInduction, TLAPS

--------------------------------------------------------------------------------
(* Calls between objects: what the runtime keeps of calls and tasks.           *)

CallRecord ==
  [from : Nat, object : Objects, chain : Seq(Objects), chained : BOOLEAN,
   node : Nodes \cup {Nobody}, method : {"call", "read"}, forwarded : BOOLEAN,
   task : Nat, revision : Nat, st : Pending \cup {"settled"}]

TaskRecord ==
  [object : Objects, node : Nodes \cup {Nobody}, box : Seq(Nat), run : Nat,
   revision : Nat, live : BOOLEAN]

CallsType ==
  /\ calls \in Seq(CallRecord)
  /\ tasks \in Seq(TaskRecord)
  /\ host \in [Nodes -> [Objects -> Nat]]
  /\ lease \in [Objects -> Nodes \cup {Nobody}]
  /\ revision \in Nat \ {0}
  /\ up \subseteq Nodes

\* A call is made by an earlier one, and where it is routed is alive.
MadeInv == \A c \in Ids :
  /\ calls[c].from < c
  /\ calls[c].chained => calls[c].from # 0
  /\ calls[c].st \in {"routing", "claimed", "resolved", "running"} => calls[c].node \in up

\* A registered task lives where it is registered.
HostInv == \A n \in Nodes, o \in Objects :
  host[n][o] # 0 =>
    /\ host[n][o] \in TaskIds /\ tasks[host[n][o]].live
    /\ tasks[host[n][o]].node = n /\ tasks[host[n][o]].object = o

\* A call is in a mailbox, or runs in a task, when it says so ...
Placed(c) ==
  /\ calls[c].st \in {"resolved", "queued", "running"} => calls[c].task \in TaskIds
  /\ calls[c].st \in {"queued", "running"} => tasks[calls[c].task].live
  /\ calls[c].st \in {"resolved", "queued", "running"} /\ tasks[calls[c].task].live =>
       tasks[calls[c].task].node = calls[c].node
  /\ calls[c].st = "queued" =>
       \E i \in 1..Len(tasks[calls[c].task].box) : tasks[calls[c].task].box[i] = c
  /\ calls[c].st = "running" => tasks[calls[c].task].run = c

PlaceInv == \A c \in Ids : Placed(c)

\* ... and a mailbox holds each of its calls once.
Mailbox(t) ==
  /\ tasks[t].live => tasks[t].node \in up
  /\ \A i \in 1..Len(tasks[t].box) :
       /\ tasks[t].box[i] \in Ids
       /\ calls[tasks[t].box[i]].st = "queued" /\ calls[tasks[t].box[i]].task = t
       /\ \A j \in 1..Len(tasks[t].box) : tasks[t].box[j] = tasks[t].box[i] => i = j
  /\ tasks[t].run # 0 =>
       /\ tasks[t].run \in Ids
       /\ calls[tasks[t].run].st = "running" /\ calls[tasks[t].run].task = t

MailboxInv == \A t \in TaskIds : Mailbox(t)

\* Before any republish, the live tasks are the registered ones.
RevisionInv == revision = 1 =>
  /\ \A c \in Ids : calls[c].st = "claimed" => calls[c].revision = 1
  /\ \A t \in TaskIds : tasks[t].live =>
       tasks[t].revision = 1 /\ host[tasks[t].node][tasks[t].object] = t

\* The target has been put on the chain.
On(c) ==
  \/ calls[c].st \in {"claimed", "resolved", "queued", "running"}
  \/ calls[c].st = "routing" /\ calls[c].forwarded

Holds(chain, o) == \E i \in 1..Len(chain) : chain[i] = o

\* The chain holds the objects of the stack, the caller's last and then the
\* target's, which is none of theirs unless it is the caller's own.
ChainOK(c) ==
  /\ On(c) => OwnEnd(calls[c].chain, calls[c].object)
  /\ calls[c].st \in Pending /\ calls[c].chained =>
       /\ ~On(c) => OwnEnd(calls[c].chain, calls[calls[c].from].object)
       /\ \A a \in Stack(c) : Holds(calls[c].chain, calls[a].object)
       /\ On(c) /\ calls[calls[c].from].object # calls[c].object =>
            \A a \in Stack(c) : calls[a].object # calls[c].object

ChainInv == \A c \in Ids : ChainOK(c)

TaskInv == HostInv /\ PlaceInv /\ MailboxInv /\ RevisionInv

CallsInv == CallsType /\ MadeInv /\ TaskInv /\ ChainInv

--------------------------------------------------------------------------------
(* Calls that can be reached from a call.                                      *)

\* What is reached is closed.
LEMMA ReachedClosed ==
  ASSUME NEW next, NEW c \in Ids, \A d \in Ids : next[d] \subseteq Ids
  PROVE  /\ Reached(next, c) \subseteq Ids
         /\ next[c] \subseteq Reached(next, c)
         /\ \A d \in Reached(next, c) : next[d] \subseteq Reached(next, c)
  BY DEF Reached

\* It is in every closed set.
LEMMA ReachedLeast ==
  ASSUME NEW next, NEW c, NEW S \in SUBSET Ids,
         next[c] \subseteq S, \A d \in S : next[d] \subseteq S
  PROVE  Reached(next, c) \subseteq S
  BY DEF Reached

\* The callers of calls are calls.
LEMMA CallersAreCalls ==
  ASSUME CallsType, MadeInv
  PROVE  \A d \in Ids : Callers[d] \subseteq Ids
<1> SUFFICES ASSUME NEW d \in Ids, calls[d].chained PROVE calls[d].from \in Ids
  BY DEF Callers
<1>1. calls[d] \in CallRecord /\ d \in Nat /\ Len(calls) \in Nat
  BY DEF CallsType, Ids
<1>2. calls[d].from \in Nat /\ calls[d].from < d /\ calls[d].from # 0
  BY <1>1 DEF MadeInv, CallRecord
<1> QED
  BY <1>1, <1>2 DEF Ids

\* Nobody is on the stack of a call that was handed none.
LEMMA NoStack ==
  ASSUME NEW c \in Ids, ~calls[c].chained
  PROVE  Stack(c) = {}
<1>1. Callers[c] = {}
  BY DEF Callers
<1> QED
  BY <1>1, ReachedLeast DEF Stack

\* The calls stay, with who made them of whom.
SameCalls ==
  /\ calls' \in Seq(CallRecord)
  /\ Len(calls) <= Len(calls')
  /\ \A c \in Ids : /\ calls'[c].from = calls[c].from
                    /\ calls'[c].object = calls[c].object
                    /\ calls'[c].chained = calls[c].chained

LEMMA StackStays ==
  ASSUME CallsType, MadeInv, SameCalls, NEW c \in Ids
  PROVE  Stack(c)' \subseteq Stack(c)
<1>1. Ids \subseteq Ids'
  BY DEF CallsType, SameCalls, Ids
<1>2. \A d \in Ids : Callers'[d] = Callers[d]
  BY <1>1 DEF SameCalls, Callers
<1>3. /\ Stack(c) \subseteq Ids /\ Callers[c] \subseteq Stack(c)
      /\ \A d \in Stack(c) : Callers[d] \subseteq Stack(c)
  BY CallersAreCalls, ReachedClosed DEF Stack
<1> DEFINE S == Stack(c)
<1>4. /\ S \in SUBSET Ids' /\ Callers'[c] \subseteq S
      /\ \A d \in S : Callers'[d] \subseteq S
  BY <1>1, <1>2, <1>3
<1> HIDE DEF S
<1>5. Reached(Callers, c)' \subseteq S
  BY <1>4 DEF Reached
<1> QED
  BY <1>5 DEF Stack, S

--------------------------------------------------------------------------------
(* The chain.                                                                  *)

\* Answering calls, and moving calls that have their target on the chain.
LEMMA ChainKept ==
  ASSUME CallsType, MadeInv, ChainInv, SameCalls, Len(calls') = Len(calls),
         \A c \in Ids :
           \/ calls'[c].st = "settled"
           \/ /\ calls'[c].chain = calls[c].chain
              /\ calls[c].st \in Pending /\ calls'[c].st \in Pending
              /\ On(c)' <=> On(c)
  PROVE  ChainInv'
<1>0. Ids' = Ids
  BY DEF Ids
<1> SUFFICES ASSUME NEW c \in Ids PROVE ChainOK(c)'
  BY <1>0 DEF ChainInv
<1>1. CASE calls'[c].st = "settled"
  BY <1>1 DEF ChainOK, On, Pending
<1>2. CASE /\ calls'[c].chain = calls[c].chain
           /\ calls[c].st \in Pending /\ calls'[c].st \in Pending
           /\ On(c)' <=> On(c)
  <2>1. ChainOK(c)
    BY DEF ChainInv
  <2>2. \A d \in Ids : calls'[d].object = calls[d].object
    BY DEF SameCalls
  <2>3. calls[c].chained => calls[c].from \in Ids
    BY CallersAreCalls DEF Callers
  <2>4. Stack(c)' \subseteq Stack(c) /\ Stack(c) \subseteq Ids
    BY StackStays, CallersAreCalls, ReachedClosed DEF Stack
  <2>5. calls'[c].from = calls[c].from /\ calls'[c].chained = calls[c].chained
    BY DEF SameCalls
  <2>6. On(c)' => OwnEnd(calls'[c].chain, calls'[c].object)
    BY <1>2, <2>1, <2>2 DEF ChainOK
  <2>7. ASSUME calls'[c].chained
        PROVE  /\ ~On(c)' => OwnEnd(calls'[c].chain, calls'[calls'[c].from].object)
               /\ \A a \in Stack(c)' : Holds(calls'[c].chain, calls'[a].object)
               /\ On(c)' /\ calls'[calls'[c].from].object # calls'[c].object =>
                    \A a \in Stack(c)' : calls'[a].object # calls'[c].object
    BY <1>2, <2>1, <2>2, <2>3, <2>4, <2>5, <2>7 DEF ChainOK
  <2> QED
    BY <2>6, <2>7 DEF ChainOK
<1> QED
  BY <1>1, <1>2

\* The one call whose target is put on its chain is not reentrant.
LEMMA ChainGrows ==
  ASSUME CallsType, MadeInv, ChainInv, SameCalls, Len(calls') = Len(calls),
         NEW c \in Ids, calls[c].st = "routing", ~Reentrant(calls[c].chain, calls[c].object),
         \A d \in Ids \ {c} : calls'[d] = calls[d],
         calls'[c].chain = Extended(calls[c].chain, calls[c].object),
         calls'[c].st \in Pending, On(c)'
  PROVE  ChainInv'
<1>0. Ids' = Ids
  BY DEF Ids
<1>1. \A d \in Ids : calls'[d].object = calls[d].object
  BY DEF SameCalls
<1>2. \A d \in Ids : calls[d].chained => calls[d].from \in Ids
  BY CallersAreCalls DEF Callers
<1>3. \A d \in Ids : Stack(d)' \subseteq Stack(d) /\ Stack(d) \subseteq Ids
  BY StackStays, CallersAreCalls, ReachedClosed DEF Stack
<1>4. ASSUME NEW d \in Ids \ {c} PROVE ChainOK(d)'
  <2>1. ChainOK(d) /\ calls'[d] = calls[d] /\ (On(d)' <=> On(d))
    BY DEF ChainInv, On
  <2> QED
    BY <1>1, <1>2, <1>3, <2>1 DEF ChainOK
<1>5. ChainOK(c)'
  <2> DEFINE o == calls[c].object
             before == calls[c].chain
             after == calls'[c].chain
  <2>0. calls[c] \in CallRecord
    BY DEF CallsType, Ids
  <2>1. before \in Seq(Objects) /\ o \in Objects
    BY <2>0 DEF CallRecord
  <2>2. calls'[c].object = o /\ calls'[c].from = calls[c].from /\ calls'[c].chained = calls[c].chained
    BY DEF SameCalls
  <2>3. ChainOK(c)
    BY DEF ChainInv
  <2>4. OwnEnd(after, o)
    BY <2>1, SMTT(60) DEF OwnEnd, Extended, Last
  <2>5. \A x : Holds(before, x) => Holds(after, x)
    BY <2>1 DEF Holds, Extended
  <2>6. OwnEnd(before, o) \/ ~Holds(before, o)
    BY <2>1 DEF Reentrant, Contains, Holds
  <2>7. ASSUME calls[c].chained
        PROVE  /\ \A a \in Stack(c)' : Holds(after, calls'[a].object)
               /\ calls'[calls[c].from].object # o => \A a \in Stack(c)' : calls'[a].object # o
    <3>1. \A a \in Stack(c) : Holds(before, calls[a].object)
      BY <2>3, <2>7 DEF ChainOK, Pending
    <3>2. CASE ~Holds(before, o)
      BY <1>1, <1>3, <2>5, <3>1, <3>2
    <3>3. CASE OwnEnd(before, o) /\ On(c)
      BY <1>1, <1>2, <1>3, <2>3, <2>5, <2>7, <3>1, <3>3 DEF ChainOK, Pending
    <3>4. CASE OwnEnd(before, o) /\ ~On(c)
      <4>1. OwnEnd(before, calls[calls[c].from].object)
        BY <2>3, <2>7, <3>4 DEF ChainOK, Pending
      <4>2. calls'[calls[c].from].object = o
        BY <1>1, <1>2, <2>7, <3>4, <4>1 DEF OwnEnd
      <4> QED
        BY <1>1, <1>3, <2>5, <3>1, <4>2
    <3> QED
      BY <2>6, <3>2, <3>3, <3>4
  <2> HIDE DEF o, before, after
  <2>8. On(c)' => OwnEnd(after, calls'[c].object)
    BY <2>2, <2>4
  <2> QED
    BY <2>2, <2>7, <2>8 DEF ChainOK, after
<1> QED
  BY <1>0, <1>4, <1>5 DEF ChainInv

\* The next call is v.
Added(v) ==
  /\ v \in CallRecord /\ calls' \in Seq(CallRecord) /\ Len(calls') = Len(calls) + 1
  /\ calls'[Len(calls) + 1] = v /\ \A c \in Ids : calls'[c] = calls[c]

LEMMA Appended ==
  ASSUME CallsType, NEW v \in CallRecord, calls' = Append(calls, v)
  PROVE  Added(v)
  BY DEF CallsType, Added, Ids

\* A new call starts with no chain, or with that of the body that makes it.
LEMMA ChainStarts ==
  ASSUME CallsType, MadeInv, ChainInv, NEW v, Added(v),
         \/ /\ ~v.chained
            /\ (v.st = "routing" /\ ~v.forwarded) \/ OwnEnd(v.chain, v.object)
         \/ /\ v.chained /\ v.st = "routing" /\ ~v.forwarded
            /\ v.from \in Ids /\ calls[v.from].st = "running" /\ v.chain = calls[v.from].chain
  PROVE  SameCalls /\ ChainInv'
<1> PICK n : n = Len(calls) + 1
  OBVIOUS
<1>0. /\ calls \in Seq(CallRecord) /\ Len(calls) \in Nat
      /\ v \in CallRecord /\ calls' \in Seq(CallRecord) /\ Len(calls') = n
      /\ calls'[n] = v /\ \A c \in Ids : calls'[c] = calls[c]
  BY DEF CallsType, Added
<1>1. SameCalls
  BY <1>0 DEF SameCalls
<1>2. Ids' = Ids \cup {n} /\ n \notin Ids /\ n \in Ids'
  BY <1>0 DEF Ids
<1>3. \A d \in Ids : calls[d].chained => calls[d].from \in Ids
  BY CallersAreCalls DEF Callers
<1>4. \A d \in Ids : Stack(d)' \subseteq Stack(d) /\ Stack(d) \subseteq Ids
  BY <1>1, StackStays, CallersAreCalls, ReachedClosed DEF Stack
<1>5. ASSUME NEW d \in Ids PROVE ChainOK(d)'
  <2>1. ChainOK(d) /\ calls'[d] = calls[d] /\ (On(d)' <=> On(d))
    BY <1>0 DEF ChainInv, On
  <2> QED
    BY <1>0, <1>3, <1>4, <2>1 DEF ChainOK
<1>6. ChainOK(n)'
  <2>1. CASE ~v.chained
    <3>1. On(n)' => OwnEnd(v.chain, v.object)
      BY <1>0, <2>1 DEF On
    <3> QED
      BY <1>0, <2>1, <3>1 DEF ChainOK
  <2>2. CASE v.chained
    <3> DEFINE c == v.from
    <3>1. c \in Ids /\ calls[c].st = "running" /\ v.chain = calls[c].chain /\ v.st = "routing"
      BY <2>2
    <3>2. ~On(n)' /\ On(c) /\ ChainOK(c)
      BY <1>0, <2>2 DEF On, ChainInv
    <3>3. OwnEnd(v.chain, calls[c].object)
      BY <3>1, <3>2 DEF ChainOK
    <3>4. Stack(n)' \subseteq Stack(c) \cup {c}
      <4> DEFINE S == Stack(c) \cup {c}
      <4>1. Stack(c) \subseteq Ids /\ Callers[c] \subseteq Stack(c)
            /\ \A d \in Stack(c) : Callers[d] \subseteq Stack(c)
        BY <3>1, CallersAreCalls, ReachedClosed DEF Stack
      <4>2. Callers'[n] = {c} /\ \A d \in Ids : Callers'[d] = Callers[d]
        BY <1>0, <1>2, <2>2 DEF Callers
      <4>3. /\ S \in SUBSET Ids' /\ Callers'[n] \subseteq S
            /\ \A d \in S : Callers'[d] \subseteq S
        BY <1>2, <3>1, <4>1, <4>2
      <4> HIDE DEF S
      <4>4. Reached(Callers, n)' \subseteq S
        BY <4>3 DEF Reached
      <4> QED
        BY <4>4 DEF Stack, S
    <3>5. Holds(v.chain, calls[c].object)
      <4>1. v.chain \in Seq(Objects)
        BY <1>0 DEF CallRecord
      <4> QED
        BY <3>3, <4>1 DEF OwnEnd, Holds, Last
    <3>6. \A a \in Stack(c) : Holds(v.chain, calls[a].object)
      <4>1. CASE calls[c].chained
        BY <3>1, <3>2, <4>1 DEF ChainOK, Pending
      <4>2. CASE ~calls[c].chained
        BY <3>1, <4>2, NoStack
      <4> QED
        BY <4>1, <4>2
    <3>7. \A a \in Stack(n)' : Holds(v.chain, calls'[a].object)
      BY <1>0, <1>4, <3>1, <3>4, <3>5, <3>6
    <3> QED
      BY <1>0, <3>1, <3>2, <3>3, <3>7 DEF ChainOK
  <2> QED
    BY <2>1, <2>2
<1> QED
  BY <1>1, <1>2, <1>5, <1>6 DEF ChainInv

--------------------------------------------------------------------------------
(* Initially, and the answers.                                                 *)

LEMMA InitCalls == CallsInit => CallsInv
<1> SUFFICES ASSUME CallsInit PROVE CallsInv
  OBVIOUS
<1>1. Ids = {} /\ TaskIds = {}
  BY DEF CallsInit, Ids, TaskIds
<1>2. CallsType
  BY DEF CallsInit, CallsType
<1>3. HostInv
  BY DEF CallsInit, HostInv
<1> QED
  BY <1>1, <1>2, <1>3 DEF CallsInv, MadeInv, TaskInv, PlaceInv, MailboxInv, RevisionInv, ChainInv

\* A settled call is a call like before that waits for nothing.
LEMMA SettledCall ==
  ASSUME CallsType, NEW c \in Ids
  PROVE  /\ calls[c] \in CallRecord /\ Settled(c) \in CallRecord
         /\ Settled(c).st = "settled" /\ Settled(c).from = calls[c].from
         /\ Settled(c).object = calls[c].object /\ Settled(c).chained = calls[c].chained
<1>1. calls[c] \in CallRecord
  BY DEF CallsType, Ids
<1> DEFINE r1 == [calls[c] EXCEPT !.st = "settled"]
           r2 == [r1 EXCEPT !.chain = <<>>]
           r3 == [r2 EXCEPT !.node = Nobody]
           r4 == [r3 EXCEPT !.forwarded = FALSE]
           r5 == [r4 EXCEPT !.task = 0]
<1> HIDE DEF r1, r2, r3, r4, r5
<1>2. r1 \in CallRecord /\ r1.st = "settled" /\ r1.from = calls[c].from
      /\ r1.object = calls[c].object /\ r1.chained = calls[c].chained
  BY <1>1 DEF r1, CallRecord
<1>3. r2 \in CallRecord /\ r2.st = r1.st /\ r2.from = r1.from /\ r2.object = r1.object
      /\ r2.chained = r1.chained
  <2>0. <<>> \in Seq(Objects)
    OBVIOUS
  <2>1. PICK e : e = <<>> /\ e \in Seq(Objects)
    BY <2>0, Zenon
  <2>2. r2 = [r1 EXCEPT !.chain = e]
    BY <2>1 DEF r2
  <2> QED
    BY <1>2, <2>1, <2>2 DEF CallRecord
<1>4. r3 \in CallRecord /\ r3.st = r2.st /\ r3.from = r2.from /\ r3.object = r2.object
      /\ r3.chained = r2.chained
  BY <1>3 DEF r3, CallRecord
<1>5. r4 \in CallRecord /\ r4.st = r3.st /\ r4.from = r3.from /\ r4.object = r3.object
      /\ r4.chained = r3.chained
  BY <1>4 DEF r4, CallRecord
<1>6. r5 \in CallRecord /\ r5.st = r4.st /\ r5.from = r4.from /\ r5.object = r4.object
      /\ r5.chained = r4.chained
  BY <1>5 DEF r5, CallRecord
<1> DEFINE r6 == [r5 EXCEPT !.revision = 0]
<1>7. Settled(c) = r6
  BY DEF Settled, r1, r2, r3, r4, r5
<1>8. r6 \in CallRecord /\ r6.st = r5.st /\ r6.from = r5.from /\ r6.object = r5.object
      /\ r6.chained = r5.chained
  BY <1>6 DEF CallRecord
<1> HIDE DEF r6
<1> QED
  BY <1>1, <1>2, <1>3, <1>4, <1>5, <1>6, <1>7, <1>8

\* Only c is written.
LEMMA OneCall ==
  ASSUME CallsType, NEW c \in Ids, NEW v \in CallRecord, SetCall(c, v),
         v.from = calls[c].from, v.object = calls[c].object, v.chained = calls[c].chained
  PROVE  /\ calls' \in Seq(CallRecord) /\ Len(calls') = Len(calls) /\ Ids' = Ids
         /\ calls'[c] = v /\ \A d \in Ids \ {c} : calls'[d] = calls[d]
         /\ SameCalls
<1>1. /\ calls' \in Seq(CallRecord) /\ Len(calls') = Len(calls)
      /\ calls'[c] = v /\ \A d \in Ids \ {c} : calls'[d] = calls[d]
  BY DEF CallsType, Ids, SetCall
<1>2. Len(calls) <= Len(calls')
  BY <1>1
<1> QED
  BY <1>1, <1>2 DEF SameCalls, Ids

\* A call that has not reached a mailbox is answered.
LEMMA AnswerKeeps ==
  ASSUME CallsInv, NEW c \in Ids, calls[c].st \in {"routing", "claimed", "resolved"},
         Answer(c), UNCHANGED <<tasks, host, lease, revision, up>>
  PROVE  CallsInv'
<1> USE DEF CallsInv, TaskInv
<1>1. /\ Settled(c) \in CallRecord /\ Settled(c).st = "settled"
      /\ Settled(c).from = calls[c].from
      /\ Settled(c).object = calls[c].object /\ Settled(c).chained = calls[c].chained
  BY SettledCall
<1>2. /\ calls' \in Seq(CallRecord) /\ Len(calls') = Len(calls) /\ Ids' = Ids
      /\ calls'[c] = Settled(c) /\ \A d \in Ids \ {c} : calls'[d] = calls[d]
      /\ SameCalls
  BY <1>1, OneCall DEF Answer
<1>3. TaskIds' = TaskIds
  BY DEF TaskIds
<1>4. CallsType' /\ MadeInv'
  BY <1>1, <1>2 DEF CallsType, MadeInv
<1>5. HostInv'
  BY <1>3 DEF HostInv
<1>6. PlaceInv'
  BY <1>1, <1>2, <1>3 DEF PlaceInv, Placed
<1>7. MailboxInv'
  <2> SUFFICES ASSUME NEW t \in TaskIds PROVE Mailbox(t)'
    BY <1>3 DEF MailboxInv
  <2>1. Mailbox(t)
    BY DEF MailboxInv
  <2> QED
    BY <1>2, <2>1 DEF Mailbox
<1>8. RevisionInv'
  BY <1>1, <1>2, <1>3 DEF RevisionInv
<1>9. ChainInv'
  <2>1. \A d \in Ids : calls'[d].st \in Pending => calls'[d] = calls[d] /\ (On(d)' <=> On(d))
    BY <1>1, <1>2 DEF On, Pending
  <2>2. \A d \in Ids : calls'[d].st \in Pending \cup {"settled"}
    <3>1. \A d \in Ids : calls'[d] \in CallRecord
      BY <1>2 DEF Ids
    <3> QED
      BY <3>1 DEF CallRecord
  <2>3. \A d \in Ids : calls[d].st = "settled" => calls'[d].st = "settled"
    BY <1>1, <1>2
  <2> QED
    BY <1>2, <2>1, <2>2, <2>3, ChainKept
<1> QED
  BY <1>4, <1>5, <1>6, <1>7, <1>8, <1>9

--------------------------------------------------------------------------------
(* New calls.                                                                  *)

LEMMA MethodsOf == \A o \in Objects : Methods(o) \subseteq {"call", "read"}
  BY DEF Methods

\* A call that is to be routed joins the others.
LEMMA AddKeeps ==
  ASSUME CallsInv, NEW v, Added(v), UNCHANGED <<tasks, host, lease, revision, up>>,
         v.st = "routing", ~v.forwarded, v.node \in up,
         \/ v.from = NoCaller /\ ~v.chained
         \/ /\ v.from \in Ids /\ calls[v.from].st = "running"
            /\ v.chained => v.chain = calls[v.from].chain
  PROVE  CallsInv'
<1> USE DEF CallsInv, TaskInv
<1> PICK n : n = Len(calls) + 1
  OBVIOUS
<1>1. /\ calls \in Seq(CallRecord) /\ Len(calls) \in Nat
      /\ v \in CallRecord /\ calls' \in Seq(CallRecord) /\ Len(calls') = n
      /\ calls'[n] = v /\ \A c \in Ids : calls'[c] = calls[c]
  BY DEF CallsType, Added
<1>2. Ids' = Ids \cup {n} /\ n \notin Ids
  BY <1>1 DEF Ids
<1>3. TaskIds' = TaskIds
  BY DEF TaskIds
<1>4. CallsType'
  BY <1>1 DEF CallsType
<1>5. MadeInv'
  <2>1. v.from < n /\ (v.chained => v.from # 0)
    BY <1>1 DEF Ids, NoCaller
  <2> QED
    BY <1>1, <1>2, <2>1 DEF MadeInv
<1>6. HostInv'
  BY <1>3 DEF HostInv
<1>7. PlaceInv'
  BY <1>1, <1>2, <1>3 DEF PlaceInv, Placed
<1>8. MailboxInv'
  <2> SUFFICES ASSUME NEW t \in TaskIds PROVE Mailbox(t)'
    BY <1>3 DEF MailboxInv
  <2>1. Mailbox(t)
    BY DEF MailboxInv
  <2> QED
    BY <1>1, <1>2, <2>1 DEF Mailbox
<1>9. RevisionInv'
  BY <1>1, <1>2, <1>3 DEF RevisionInv
<1>10. ChainInv'
  BY ChainStarts DEF NoCaller
<1> QED
  BY <1>4, <1>5, <1>6, <1>7, <1>8, <1>9, <1>10

LEMMA RequestInv ==
  ASSUME CallsInv, NEW n \in Nodes, NEW o \in Objects, NEW m \in Methods(o), Request(n, o, m)
  PROVE  CallsInv'
<1>e. <<>> \in Seq(Objects)
  OBVIOUS
<1> PICK chain : chain = <<>> /\ chain \in Seq(Objects)
  BY <1>e, Zenon
<1> PICK v : v = Call(NoCaller, o, chain, FALSE, n, m)
  OBVIOUS
<1>0. m \in {"call", "read"}
  BY MethodsOf
<1>1. /\ v \in CallRecord /\ v.from = NoCaller /\ ~v.chained /\ v.node = n
      /\ ~v.forwarded /\ v.st = "routing"
  BY <1>0 DEF NoCaller, Call, CallRecord, Pending
<1>2. Added(v)
  BY <1>1, Appended DEF Request, CallsInv
<1> QED
  BY <1>1, <1>2, AddKeeps DEF Request

LEMMA CallOutInv ==
  ASSUME CallsInv, NEW c \in Ids, NEW o \in Objects, NEW m \in Methods(o), CallOut(c, o, m)
  PROVE  CallsInv'
<1> PICK v : v = Call(c, o, calls[c].chain, TRUE, calls[c].node, m)
  OBVIOUS
<1>0. calls[c] \in CallRecord /\ c \in Nat /\ m \in {"call", "read"}
  BY MethodsOf DEF CallsInv, CallsType, Ids
<1>1. calls[c].node \in up /\ calls[c].node \in Nodes /\ calls[c].chain \in Seq(Objects)
  BY <1>0 DEF CallOut, CallsInv, MadeInv, CallsType, CallRecord
<1>2. /\ v \in CallRecord /\ v.from = c /\ v.chain = calls[c].chain /\ v.node = calls[c].node
      /\ ~v.forwarded /\ v.st = "routing"
  BY <1>0, <1>1 DEF Call, CallRecord, Pending
<1>3. Added(v)
  BY <1>2, Appended DEF CallOut, CallsInv
<1> QED
  BY <1>1, <1>2, <1>3, AddKeeps DEF CallOut

LEMMA CallChildInv ==
  ASSUME CallsInv, NEW c \in Ids, NEW o \in Objects, CallChild(c, o)
  PROVE  CallsInv'
<1>e. <<>> \in Seq(Objects)
  OBVIOUS
<1> PICK chain : chain = <<>> /\ chain \in Seq(Objects)
  BY <1>e, Zenon
<1> PICK v : v = Call(c, o, chain, FALSE, calls[c].node, "call")
  OBVIOUS
<1>0. calls[c] \in CallRecord /\ c \in Nat
  BY DEF CallsInv, CallsType, Ids
<1>1. calls[c].node \in up /\ calls[c].node \in Nodes
  BY <1>0 DEF CallChild, CallsInv, MadeInv, CallsType, CallRecord
<1>2. /\ v \in CallRecord /\ v.from = c /\ ~v.chained /\ v.node = calls[c].node
      /\ ~v.forwarded /\ v.st = "routing"
  BY <1>0, <1>1 DEF Call, CallRecord, Pending
<1>3. Added(v)
  BY <1>2, Appended DEF CallChild, CallsInv
<1> QED
  BY <1>1, <1>2, <1>3, AddKeeps DEF CallChild

--------------------------------------------------------------------------------
(* Routing.                                                                    *)

\* A call moves on among those that have not reached a task.
LEMMA MoveKeeps ==
  ASSUME CallsInv, NEW c \in Ids, NEW v \in CallRecord, SetCall(c, v),
         calls[c].st = "routing", ~Reentrant(calls[c].chain, calls[c].object),
         v.from = calls[c].from, v.object = calls[c].object, v.chained = calls[c].chained,
         v.chain = Extended(calls[c].chain, calls[c].object), v.node \in up,
         (v.st = "claimed" /\ v.revision = revision) \/ (v.st = "routing" /\ v.forwarded),
         UNCHANGED <<tasks, host, revision, up>>, lease' \in [Objects -> Nodes \cup {Nobody}]
  PROVE  CallsInv'
<1> USE DEF CallsInv, TaskInv
<1>1. /\ calls' \in Seq(CallRecord) /\ Len(calls') = Len(calls) /\ Ids' = Ids
      /\ calls'[c] = v /\ \A d \in Ids \ {c} : calls'[d] = calls[d]
      /\ SameCalls
  BY OneCall
<1>2. TaskIds' = TaskIds
  BY DEF TaskIds
<1>3. CallsType' /\ MadeInv'
  BY <1>1 DEF CallsType, MadeInv
<1>4. HostInv'
  BY <1>2 DEF HostInv
<1>5. PlaceInv'
  BY <1>1, <1>2 DEF PlaceInv, Placed
<1>6. MailboxInv'
  <2> SUFFICES ASSUME NEW t \in TaskIds PROVE Mailbox(t)'
    BY <1>2 DEF MailboxInv
  <2>1. Mailbox(t)
    BY DEF MailboxInv
  <2> QED
    BY <1>1, <2>1, SMTT(60) DEF Mailbox
<1>7. RevisionInv'
  BY <1>1, <1>2 DEF RevisionInv
<1>8. On(c)' /\ calls'[c].st \in Pending
  BY <1>1 DEF On, Pending
<1>9. ChainInv'
  BY <1>1, <1>8, ChainGrows
<1> QED
  BY <1>3, <1>4, <1>5, <1>6, <1>7, <1>9

LEMMA ExtendedChain ==
  ASSUME NEW chain \in Seq(Objects), NEW o \in Objects
  PROVE  Extended(chain, o) \in Seq(Objects)
  BY DEF Extended

LEMMA ClaimInv ==
  ASSUME CallsInv, NEW c \in Ids, Claim(c)
  PROVE  CallsInv'
<1>1. calls[c] \in CallRecord /\ revision \in Nat
  BY DEF CallsInv, CallsType, Ids
<1>2. PICK chain : chain = Extended(calls[c].chain, calls[c].object)
  OBVIOUS
<1>3. chain \in Seq(Objects) /\ calls[c].object \in Objects
  BY <1>1, <1>2, ExtendedChain DEF CallRecord
<1>4. PICK v : v = [calls[c] EXCEPT !.st = "claimed", !.revision = revision, !.chain = chain]
  OBVIOUS
<1>5. SetCall(c, v)
  BY <1>2, <1>4 DEF Claim, SetCall
<1>6. /\ v \in CallRecord /\ v.st = "claimed" /\ v.revision = revision /\ v.chain = chain
      /\ v.from = calls[c].from /\ v.object = calls[c].object /\ v.chained = calls[c].chained
      /\ v.node = calls[c].node
  BY <1>1, <1>3, <1>4 DEF CallRecord, Pending
<1>7. calls[c].st = "routing" /\ calls[c].node \in up
      /\ ~Reentrant(calls[c].chain, calls[c].object)
  BY DEF Claim, Routable, Routing
<1>8. UNCHANGED <<tasks, host, revision, up>> /\ lease' \in [Objects -> Nodes \cup {Nobody}]
  BY <1>3, <1>7 DEF Claim, CallsInv, CallsType
<1>9. /\ v.chain = Extended(calls[c].chain, calls[c].object) /\ v.node \in up
      /\ (v.st = "claimed" /\ v.revision = revision) \/ (v.st = "routing" /\ v.forwarded)
  BY <1>2, <1>6, <1>7
<1> QED
  BY <1>5, <1>6, <1>7, <1>8, <1>9, MoveKeeps

LEMMA ForwardInv ==
  ASSUME CallsInv, NEW c \in Ids, Forward(c)
  PROVE  CallsInv'
<1> DEFINE o == calls[c].object
<1>1. calls[c] \in CallRecord
  BY DEF CallsInv, CallsType, Ids
<1>2. calls[c].st = "routing" /\ ~Reentrant(calls[c].chain, o)
      /\ UNCHANGED <<tasks, host, lease, revision, up>>
  BY DEF Forward, Routable, Routing
<1>3. CASE lease[o] \in up
  <2> PICK chain : chain = Extended(calls[c].chain, o)
    OBVIOUS
  <2> PICK v : v = [calls[c] EXCEPT !.node = lease[o], !.forwarded = TRUE, !.chain = chain]
    OBVIOUS
  <2>1. chain \in Seq(Objects) /\ o \in Objects
    BY <1>1, ExtendedChain DEF CallRecord
  <2>2. SetCall(c, v)
    BY <1>3 DEF Forward, SetCall
  <2>3. lease[o] \in Nodes \cup {Nobody} /\ lease' \in [Objects -> Nodes \cup {Nobody}]
    BY <1>2, <2>1 DEF CallsInv, CallsType
  <2>4. /\ v \in CallRecord /\ v.st = "routing" /\ v.forwarded /\ v.chain = chain
        /\ v.from = calls[c].from /\ v.object = calls[c].object /\ v.chained = calls[c].chained
        /\ v.node = lease[o]
    BY <1>1, <1>2, <2>1, <2>3 DEF CallRecord, Pending
  <2> QED
    BY <1>2, <1>3, <2>2, <2>3, <2>4, MoveKeeps
<1>4. CASE lease[o] \notin up
  BY <1>2, <1>4, AnswerKeeps DEF Forward
<1> QED
  BY <1>3, <1>4

--------------------------------------------------------------------------------
(* Mailboxes.                                                                  *)

\* Only the mailbox and the running call of t are written.
OneTask(t, box, run) ==
  /\ tasks' \in Seq(TaskRecord) /\ Len(tasks') = Len(tasks)
  /\ \A s \in TaskIds \ {t} : tasks'[s] = tasks[s]
  /\ tasks'[t].object = tasks[t].object /\ tasks'[t].node = tasks[t].node
  /\ tasks'[t].revision = tasks[t].revision /\ tasks'[t].live = tasks[t].live
  /\ tasks'[t].box = box /\ tasks'[t].run = run

LEMMA Written ==
  ASSUME CallsType, NEW t \in TaskIds, NEW w \in TaskRecord, tasks' = [tasks EXCEPT ![t] = w],
         w.object = tasks[t].object, w.node = tasks[t].node,
         w.revision = tasks[t].revision, w.live = tasks[t].live
  PROVE  OneTask(t, w.box, w.run)
<1>1. /\ tasks' \in Seq(TaskRecord) /\ Len(tasks') = Len(tasks)
      /\ tasks'[t] = w /\ \A s \in TaskIds \ {t} : tasks'[s] = tasks[s]
  BY DEF CallsType, TaskIds
<1> QED
  BY <1>1 DEF OneTask

\* The record of t with another mailbox, and with another running call.
LEMMA WithBox ==
  ASSUME CallsType, NEW t \in TaskIds, NEW box \in Seq(Nat)
  PROVE  \E w \in TaskRecord : /\ w = [tasks[t] EXCEPT !.box = box]
                              /\ w.object = tasks[t].object /\ w.node = tasks[t].node
                              /\ w.revision = tasks[t].revision /\ w.live = tasks[t].live
                              /\ w.box = box /\ w.run = tasks[t].run
<1> DEFINE w == [tasks[t] EXCEPT !.box = box]
<1>1. tasks[t] \in TaskRecord
  BY DEF CallsType, TaskIds
<1>2. /\ w \in TaskRecord /\ w.object = tasks[t].object /\ w.node = tasks[t].node
      /\ w.revision = tasks[t].revision /\ w.live = tasks[t].live
      /\ w.box = box /\ w.run = tasks[t].run
  BY <1>1 DEF TaskRecord
<1> USE <1>2
<1> WITNESS w \in TaskRecord
<1> QED
  OBVIOUS

LEMMA WithRun ==
  ASSUME NEW v \in TaskRecord, NEW run \in Nat
  PROVE  \E w \in TaskRecord : /\ w = [v EXCEPT !.run = run]
                              /\ w.object = v.object /\ w.node = v.node
                              /\ w.revision = v.revision /\ w.live = v.live
                              /\ w.box = v.box /\ w.run = run
<1> DEFINE w == [v EXCEPT !.run = run]
<1>1. /\ w \in TaskRecord /\ w.object = v.object /\ w.node = v.node
      /\ w.revision = v.revision /\ w.live = v.live /\ w.box = v.box /\ w.run = run
  BY DEF TaskRecord
<1> USE <1>1
<1> WITNESS w \in TaskRecord
<1> QED
  OBVIOUS

\* The tasks are the ones they were, where they were.
LEMMA TasksStay ==
  ASSUME CallsInv, NEW t \in TaskIds, NEW box, NEW run, OneTask(t, box, run), host' = host
  PROVE  /\ TaskIds' = TaskIds /\ HostInv'
         /\ revision = 1 =>
              \A s \in TaskIds : tasks'[s].live =>
                tasks'[s].revision = 1 /\ host'[tasks'[s].node][tasks'[s].object] = s
<1>1. TaskIds' = TaskIds
  BY DEF OneTask, TaskIds
<1>2. \A s \in TaskIds : /\ tasks'[s].object = tasks[s].object /\ tasks'[s].node = tasks[s].node
                         /\ tasks'[s].revision = tasks[s].revision
                         /\ tasks'[s].live = tasks[s].live
  BY DEF OneTask
<1> QED
  BY <1>1, <1>2 DEF CallsInv, TaskInv, HostInv, RevisionInv

\* A call that moves while it has its target on the chain leaves the chains alone.
LEMMA ChainMoves ==
  ASSUME CallsInv, NEW c \in Ids, NEW v, calls'[c] = v, Len(calls') = Len(calls), SameCalls,
         \A d \in Ids \ {c} : calls'[d] = calls[d],
         v.st = "settled" \/ /\ calls[c].st \in {"claimed", "resolved", "queued", "running"}
                             /\ v.st \in {"claimed", "resolved", "queued", "running"}
                             /\ v.chain = calls[c].chain
  PROVE  ChainInv'
<1>1. \A d \in Ids : calls[d] \in CallRecord
  BY DEF CallsInv, CallsType, Ids
<1>2. \A d \in Ids : calls[d].st \in Pending \cup {"settled"}
  BY <1>1 DEF CallRecord
<1>3. ASSUME NEW d \in Ids \ {c}
      PROVE  \/ calls'[d].st = "settled"
             \/ /\ calls'[d].chain = calls[d].chain
                /\ calls[d].st \in Pending /\ calls'[d].st \in Pending
                /\ On(d)' <=> On(d)
  BY <1>2, <1>3 DEF On
<1>4. \/ calls'[c].st = "settled"
      \/ /\ calls'[c].chain = calls[c].chain
         /\ calls[c].st \in Pending /\ calls'[c].st \in Pending
         /\ On(c)' <=> On(c)
  BY DEF On, Pending
<1> QED
  BY <1>3, <1>4, ChainKept DEF CallsInv

\* A call joins the mailbox of its task.
LEMMA QueueKeeps ==
  ASSUME CallsInv, NEW c \in Ids, NEW v \in CallRecord, SetCall(c, v), NEW t \in TaskIds,
         calls[c].st \in {"claimed", "resolved"}, tasks[t].live, tasks[t].node = calls[c].node,
         v.from = calls[c].from, v.object = calls[c].object, v.chained = calls[c].chained,
         v.chain = calls[c].chain, v.node = calls[c].node, v.st = "queued", v.task = t,
         OneTask(t, Append(tasks[t].box, c), tasks[t].run),
         UNCHANGED <<host, lease, revision, up>>
  PROVE  CallsInv'
<1> USE DEF CallsInv, TaskInv
<1>1. /\ calls' \in Seq(CallRecord) /\ Len(calls') = Len(calls) /\ Ids' = Ids
      /\ calls'[c] = v /\ \A d \in Ids \ {c} : calls'[d] = calls[d]
      /\ SameCalls
  BY OneCall
<1>2. TaskIds' = TaskIds /\ HostInv'
  BY TasksStay
<1>3. tasks[t] \in TaskRecord /\ tasks[t].box \in Seq(Nat)
  <2>1. tasks[t] \in TaskRecord
    BY DEF CallsType, TaskIds
  <2> QED
    BY <2>1 DEF TaskRecord
<1>4. PICK box : box = Append(tasks[t].box, c)
  OBVIOUS
<1>5. /\ Len(box) = Len(tasks[t].box) + 1 /\ box[Len(tasks[t].box) + 1] = c
      /\ Len(tasks[t].box) \in Nat /\ \A i \in 1..Len(tasks[t].box) : box[i] = tasks[t].box[i]
  BY <1>3, <1>4
<1>6. /\ tasks' \in Seq(TaskRecord) /\ \A s \in TaskIds \ {t} : tasks'[s] = tasks[s]
      /\ tasks'[t].box = box /\ tasks'[t].run = tasks[t].run /\ tasks'[t].node = tasks[t].node
      /\ tasks'[t].live = tasks[t].live
  BY <1>4 DEF OneTask
<1>7. CallsType' /\ MadeInv'
  BY <1>1, <1>6 DEF CallsType, MadeInv
<1>8. PlaceInv'
  <2>1. Placed(c)'
    <3>1. \E i \in 1..Len(box) : box[i] = c
      BY <1>5
    <3>2. calls'[c].st = "queued" /\ calls'[c].task = t /\ calls'[c].node = tasks[t].node
      BY <1>1
    <3> QED
      BY <1>2, <1>6, <3>1, <3>2 DEF Placed
  <2>2. ASSUME NEW d \in Ids \ {c} PROVE Placed(d)'
    <3>1. Placed(d) /\ calls'[d] = calls[d]
      BY <1>1 DEF PlaceInv
    <3>2. \A i \in 1..Len(tasks[t].box) : i \in 1..Len(box) /\ box[i] = tasks[t].box[i]
      BY <1>5
    <3>3. CASE calls[d].task = t
      <4>1. calls[d].st = "queued" => \E i \in 1..Len(box) : box[i] = d
        BY <3>1, <3>2, <3>3 DEF Placed
      <4>2. calls'[d].task = t
        BY <3>1, <3>3
      <4>3. tasks'[calls'[d].task].box = box
        BY <1>6, <4>2
      <4>4. calls'[d].st = "queued" => \E i \in 1..Len(tasks'[calls'[d].task].box) :
              tasks'[calls'[d].task].box[i] = d
        BY <3>1, <4>1, <4>3
      <4>5. /\ calls'[d].st \in {"resolved", "queued", "running"} => calls'[d].task \in TaskIds'
            /\ calls'[d].st \in {"queued", "running"} => tasks'[calls'[d].task].live
            /\ calls'[d].st \in {"resolved", "queued", "running"} /\ tasks'[calls'[d].task].live =>
                 tasks'[calls'[d].task].node = calls'[d].node
            /\ calls'[d].st = "running" => tasks'[calls'[d].task].run = d
        BY <1>2, <1>6, <3>1, <3>3, ZenonT(60) DEF Placed
      <4> QED
        BY <4>4, <4>5 DEF Placed
    <3>4. CASE calls[d].task # t
      BY <1>2, <1>6, <3>1, <3>4 DEF Placed
    <3> QED
      BY <3>3, <3>4
  <2> QED
    BY <1>1, <2>1, <2>2 DEF PlaceInv
<1>9. MailboxInv'
  <2>1. ASSUME NEW s \in TaskIds \ {t} PROVE Mailbox(s)'
    <3>1. Mailbox(s) /\ tasks'[s] = tasks[s] /\ up' = up
      BY <1>6 DEF MailboxInv
    <3>2. ASSUME NEW i \in 1..Len(tasks[s].box)
          PROVE  /\ tasks[s].box[i] \in Ids' /\ calls'[tasks[s].box[i]] = calls[tasks[s].box[i]]
                 /\ calls[tasks[s].box[i]].st = "queued" /\ calls[tasks[s].box[i]].task = s
                 /\ \A j \in 1..Len(tasks[s].box) : tasks[s].box[j] = tasks[s].box[i] => i = j
      <4>1. tasks[s].box[i] # c
        BY <3>1 DEF Mailbox
      <4> QED
        BY <1>1, <3>1, <4>1 DEF Mailbox
    <3>3. tasks[s].run # 0 =>
            /\ tasks[s].run \in Ids' /\ calls'[tasks[s].run].st = "running"
            /\ calls'[tasks[s].run].task = s
      BY <1>1, <3>1 DEF Mailbox
    <3> QED
      BY <3>1, <3>2, <3>3 DEF Mailbox
  <2>2. Mailbox(t)'
    <3>1. Mailbox(t)
      BY DEF MailboxInv
    <3>2. \A i \in 1..Len(tasks[t].box) : tasks[t].box[i] # c
      BY <3>1 DEF Mailbox
    <3>3. ASSUME NEW i \in 1..Len(box)
          PROVE  /\ box[i] \in Ids /\ calls'[box[i]].st = "queued" /\ calls'[box[i]].task = t
                 /\ \A j \in 1..Len(box) : box[j] = box[i] => i = j
      <4>1. i \in 1..Len(tasks[t].box) \/ i = Len(tasks[t].box) + 1
        BY <1>5
      <4>2. \A j \in 1..Len(box) : j \in 1..Len(tasks[t].box) \/ j = Len(tasks[t].box) + 1
        BY <1>5
      <4>3. CASE i \in 1..Len(tasks[t].box)
        <5>1. /\ box[i] = tasks[t].box[i] /\ box[i] \in Ids \ {c}
              /\ calls[box[i]].st = "queued" /\ calls[box[i]].task = t
          BY <1>5, <3>1, <3>2, <4>3 DEF Mailbox
        <5>2. ASSUME NEW j \in 1..Len(box), box[j] = box[i] PROVE i = j
          BY <1>5, <3>1, <3>2, <4>2, <4>3, <5>1, <5>2 DEF Mailbox
        <5> QED
          BY <1>1, <5>1, <5>2
      <4>4. CASE i = Len(tasks[t].box) + 1
        BY <1>1, <1>5, <3>2, <4>2, <4>4
      <4> QED
        BY <4>1, <4>3, <4>4
    <3>4. tasks[t].run # 0 => /\ tasks[t].run \in Ids /\ tasks[t].run # c
                              /\ calls[tasks[t].run].st = "running" /\ calls[tasks[t].run].task = t
      BY <3>1 DEF Mailbox
    <3>5. tasks[t].live => tasks[t].node \in up
      BY <3>1 DEF Mailbox
    <3> QED
      BY <1>1, <1>6, <3>3, <3>4, <3>5 DEF Mailbox
  <2> QED
    BY <1>2, <2>1, <2>2 DEF MailboxInv
<1>10. RevisionInv'
  BY <1>1, <1>2, TasksStay DEF RevisionInv
<1>11. ChainInv'
  BY <1>1, ChainMoves
<1> QED
  BY <1>2, <1>7, <1>8, <1>9, <1>10, <1>11

\* The record of c handed to a task.
Handed(v, c, t, st) ==
  /\ v \in CallRecord /\ v.from = calls[c].from /\ v.object = calls[c].object
  /\ v.chained = calls[c].chained /\ v.chain = calls[c].chain
  /\ v.node = calls[c].node /\ v.st = st /\ v.task = t

LEMMA HandedTo ==
  ASSUME CallsType, NEW c \in Ids, NEW t \in Nat, NEW st \in Pending
  PROVE  Handed([calls[c] EXCEPT !.task = t, !.st = st], c, t, st)
<1> DEFINE u == [calls[c] EXCEPT !.task = t]
           v == [u EXCEPT !.st = st]
<1>1. calls[c] \in CallRecord
  BY DEF CallsType, Ids
<1>2. /\ u \in CallRecord /\ u.from = calls[c].from /\ u.object = calls[c].object
      /\ u.chained = calls[c].chained /\ u.chain = calls[c].chain
      /\ u.node = calls[c].node /\ u.task = t
  BY <1>1 DEF CallRecord
<1> HIDE DEF u
<1>3. /\ v \in CallRecord /\ v.from = u.from /\ v.object = u.object
      /\ v.chained = u.chained /\ v.chain = u.chain
      /\ v.node = u.node /\ v.st = st /\ v.task = u.task
  BY <1>2 DEF CallRecord
<1>4. v = [calls[c] EXCEPT !.task = t, !.st = st]
  BY DEF u
<1> HIDE DEF v
<1>5. Handed(v, c, t, st)
  BY <1>2, <1>3 DEF Handed
<1> QED
  BY <1>4, <1>5

\* A call that has its task waits for room.
LEMMA ResolveKeeps ==
  ASSUME CallsInv, NEW c \in Ids, NEW v \in CallRecord, SetCall(c, v), NEW t \in TaskIds,
         calls[c].st = "claimed", tasks[t].node = calls[c].node,
         v.from = calls[c].from, v.object = calls[c].object, v.chained = calls[c].chained,
         v.chain = calls[c].chain, v.node = calls[c].node, v.st = "resolved", v.task = t,
         UNCHANGED <<tasks, host, lease, revision, up>>
  PROVE  CallsInv'
<1> USE DEF CallsInv, TaskInv
<1>1. /\ calls' \in Seq(CallRecord) /\ Len(calls') = Len(calls) /\ Ids' = Ids
      /\ calls'[c] = v /\ \A d \in Ids \ {c} : calls'[d] = calls[d]
      /\ SameCalls
  BY OneCall
<1>2. TaskIds' = TaskIds
  BY DEF TaskIds
<1>3. CallsType' /\ MadeInv'
  BY <1>1, ZenonT(60) DEF CallsType, MadeInv
<1>4. HostInv'
  BY <1>2 DEF HostInv
<1>5. PlaceInv'
  BY <1>1, <1>2 DEF PlaceInv, Placed
<1>6. MailboxInv'
  <2> SUFFICES ASSUME NEW s \in TaskIds PROVE Mailbox(s)'
    BY <1>2 DEF MailboxInv
  <2>1. Mailbox(s)
    BY DEF MailboxInv
  <2> QED
    BY <1>1, <2>1, SMTT(60) DEF Mailbox
<1>7. RevisionInv'
  BY <1>1, <1>2 DEF RevisionInv
<1>8. ChainInv'
  BY <1>1, ChainMoves
<1> QED
  BY <1>3, <1>4, <1>5, <1>6, <1>7, <1>8

LEMMA GetTaskInv ==
  ASSUME CallsInv, NEW c \in Ids, GetTask(c)
  PROVE  CallsInv'
<1>0. calls[c].st = "claimed" /\ calls[c].node \in up /\ Registered(c)
      /\ UNCHANGED <<host, lease, revision, up>> /\ "queued" \in Pending /\ "resolved" \in Pending
  BY DEF GetTask, Pending
<1>1. calls[c] \in CallRecord /\ c \in Nat /\ CallsType
  BY DEF CallsInv, CallsType, Ids
<1>2. calls[c].node \in Nodes /\ calls[c].object \in Objects
  BY <1>0, <1>1 DEF CallsType, CallRecord
<1>3. PICK t : t = host[calls[c].node][calls[c].object]
  OBVIOUS
<1>4. /\ t \in TaskIds /\ tasks[t].live /\ tasks[t].node = calls[c].node /\ t \in Nat
      /\ tasks[t] \in TaskRecord
  <2>1. t # 0
    BY <1>0, <1>3 DEF Registered
  <2>2. t \in TaskIds /\ tasks[t].live /\ tasks[t].node = calls[c].node
    BY <1>2, <1>3, <2>1 DEF CallsInv, TaskInv, HostInv
  <2> QED
    BY <1>1, <2>2 DEF CallsType, TaskIds
<1>5. CASE Len(tasks[t].box) < MailboxDepth
  <2>1. PICK v : v = [calls[c] EXCEPT !.task = t, !.st = "queued"]
    OBVIOUS
  <2>h. Handed(v, c, t, "queued")
    BY <2>1, <1>0, <1>1, <1>4, HandedTo, ZenonT(60)
  <2>2. SetCall(c, v)
    BY <1>3, <1>5, <2>1 DEF GetTask, SetCall
  <2>3. Append(tasks[t].box, c) \in Seq(Nat)
    BY <1>1, <1>4 DEF TaskRecord
  <2>4. PICK w \in TaskRecord : /\ w = [tasks[t] EXCEPT !.box = Append(tasks[t].box, c)]
                                /\ w.object = tasks[t].object /\ w.node = tasks[t].node
                                /\ w.revision = tasks[t].revision /\ w.live = tasks[t].live
                                /\ w.box = Append(tasks[t].box, c) /\ w.run = tasks[t].run
    BY <1>4, <2>3, WithBox, ZenonT(60) DEF CallsInv
  <2>5. tasks' = [tasks EXCEPT ![t] = w]
    BY <1>3, <1>5, <2>4 DEF GetTask
  <2>6. OneTask(t, Append(tasks[t].box, c), tasks[t].run)
    BY <1>4, <2>4, <2>5, Written DEF CallsInv
  <2> QED
    BY <1>0, <1>4, <2>h, <2>2, <2>6, QueueKeeps DEF Handed
<1>6. CASE ~(Len(tasks[t].box) < MailboxDepth)
  <2>1. PICK v : v = [calls[c] EXCEPT !.task = t, !.st = "resolved"]
    OBVIOUS
  <2>h. Handed(v, c, t, "resolved")
    BY <2>1, <1>0, <1>1, <1>4, HandedTo
  <2>2. SetCall(c, v) /\ tasks' = tasks
    BY <1>3, <1>6, <2>1 DEF GetTask, SetCall
  <2> QED
    BY <1>0, <1>4, <2>h, <2>2, ResolveKeeps DEF Handed
<1> QED
  BY <1>5, <1>6, SMTT(60)

LEMMA SendInv ==
  ASSUME CallsInv, NEW c \in Ids, Send(c)
  PROVE  CallsInv'
<1>0. calls[c].st = "resolved" /\ UNCHANGED <<host, lease, revision, up>>
  BY DEF Send
<1>1. calls[c] \in CallRecord /\ c \in Nat /\ CallsType /\ "queued" \in Pending
  BY DEF CallsInv, CallsType, Ids, Pending
<1>2. PICK t : t = calls[c].task
  OBVIOUS
<1>3. t \in TaskIds /\ t \in Nat /\ tasks[t] \in TaskRecord
      /\ (tasks[t].live => tasks[t].node = calls[c].node)
  BY <1>0, <1>1, <1>2 DEF CallsInv, TaskInv, PlaceInv, Placed, CallsType, TaskIds
<1>4. CASE tasks[t].live
  <2>1. PICK v : v = [calls[c] EXCEPT !.task = t, !.st = "queued"]
    OBVIOUS
  <2>h. Handed(v, c, t, "queued")
    BY <2>1, <1>1, <1>3, HandedTo
  <2>2. [calls[c] EXCEPT !.task = t] = calls[c]
    BY <1>1, <1>2 DEF CallRecord
  <2>3. SetCall(c, v)
    <3>1. v = [calls[c] EXCEPT !.st = "queued"]
      BY <2>1, <2>2
    <3> QED
      BY <1>2, <1>4, <3>1 DEF Send, SetCall
  <2>4. Append(tasks[t].box, c) \in Seq(Nat)
    BY <1>1, <1>3 DEF TaskRecord
  <2>5. PICK w \in TaskRecord : /\ w = [tasks[t] EXCEPT !.box = Append(tasks[t].box, c)]
                                /\ w.object = tasks[t].object /\ w.node = tasks[t].node
                                /\ w.revision = tasks[t].revision /\ w.live = tasks[t].live
                                /\ w.box = Append(tasks[t].box, c) /\ w.run = tasks[t].run
    BY <1>3, <2>4, WithBox, ZenonT(60) DEF CallsInv
  <2>6. tasks' = [tasks EXCEPT ![t] = w]
    BY <1>2, <1>4, <2>5 DEF Send
  <2>7. OneTask(t, Append(tasks[t].box, c), tasks[t].run)
    BY <1>3, <2>5, <2>6, Written DEF CallsInv
  <2> QED
    BY <1>0, <1>3, <1>4, <2>h, <2>3, <2>7, QueueKeeps DEF Handed
<1>5. CASE ~tasks[t].live
  BY <1>0, <1>2, <1>5, AnswerKeeps DEF Send
<1> QED
  BY <1>4, <1>5

--------------------------------------------------------------------------------
(* Running calls.                                                              *)

\* The record of c in another state.
LEMMA Moved ==
  ASSUME CallsType, NEW c \in Ids, NEW st \in Pending
  PROVE  Handed([calls[c] EXCEPT !.st = st], c, calls[c].task, st)
<1>1. calls[c] \in CallRecord
  BY DEF CallsType, Ids
<1> QED
  BY <1>1 DEF Handed, CallRecord

LEMMA RunWritten ==
  ASSUME CallsType, NEW t \in TaskIds, NEW run \in Nat,
         tasks' = [tasks EXCEPT ![t].run = run]
  PROVE  OneTask(t, tasks[t].box, run)
<1>1. tasks[t] \in TaskRecord
  BY DEF CallsType, TaskIds
<1>2. PICK w \in TaskRecord : /\ w = [tasks[t] EXCEPT !.run = run]
                              /\ w.object = tasks[t].object /\ w.node = tasks[t].node
                              /\ w.revision = tasks[t].revision /\ w.live = tasks[t].live
                              /\ w.box = tasks[t].box /\ w.run = run
  BY <1>1, WithRun
<1>3. tasks' = [tasks EXCEPT ![t] = w]
  BY <1>2
<1> QED
  BY <1>2, <1>3, Written

LEMMA WrittenTwice ==
  ASSUME NEW D, NEW S, NEW f \in [D -> S], NEW i \in D, NEW u \in S, NEW w \in S,
         NEW g, g = [f EXCEPT ![i] = u]
  PROVE  g[i] = u /\ [g EXCEPT ![i] = w] = [f EXCEPT ![i] = w]
  OBVIOUS

LEMMA PopInv ==
  ASSUME CallsInv, NEW t \in TaskIds, Pop(t)
  PROVE  CallsInv'
<1> USE DEF CallsInv, TaskInv
<1>0. /\ tasks[t].live /\ tasks[t].run = 0 /\ tasks[t].box # <<>>
      /\ UNCHANGED <<host, lease, revision, up>> /\ "running" \in Pending
  BY DEF Pop, Idle, Pending
<1>1. tasks[t] \in TaskRecord /\ tasks[t].box \in Seq(Nat) /\ Mailbox(t)
  <2>1. tasks[t] \in TaskRecord
    BY DEF CallsType, TaskIds
  <2> QED
    BY <2>1 DEF TaskRecord, MailboxInv
<1>2. PICK c, box : c = Head(tasks[t].box) /\ box = Tail(tasks[t].box)
  OBVIOUS
<1>3. /\ box \in Seq(Nat) /\ Len(tasks[t].box) = Len(box) + 1 /\ Len(box) \in Nat
      /\ tasks[t].box[1] = c
      /\ \A i \in 1..Len(box) : i + 1 \in 1..Len(tasks[t].box) /\ box[i] = tasks[t].box[i + 1]
  BY <1>0, <1>1, <1>2
<1>4. /\ c \in Ids /\ c \in Nat /\ c # 0 /\ calls[c].st = "queued" /\ calls[c].task = t
      /\ \A i \in 1..Len(box) : box[i] # c
  <2>1. 1 \in 1..Len(tasks[t].box)
    BY <1>3
  <2>2. \A i \in 1..Len(box) : i + 1 # 1
    BY <1>3
  <2>3. /\ c \in Ids /\ calls[c].st = "queued" /\ calls[c].task = t
        /\ \A j \in 1..Len(tasks[t].box) : tasks[t].box[j] = c => 1 = j
    BY <1>1, <1>3, <2>1 DEF Mailbox
  <2>4. c \in Nat /\ c # 0
    BY <2>3 DEF CallsType, Ids
  <2> QED
    BY <1>3, <2>2, <2>3, <2>4
<1>5. PICK v : v = [calls[c] EXCEPT !.st = "running"]
  OBVIOUS
<1>6. Handed(v, c, t, "running")
  BY <1>0, <1>4, <1>5, Moved
<1>7. SetCall(c, v)
  BY <1>2, <1>5 DEF Pop
<1>8. /\ calls' \in Seq(CallRecord) /\ Len(calls') = Len(calls) /\ Ids' = Ids
      /\ calls'[c] = v /\ \A d \in Ids \ {c} : calls'[d] = calls[d]
      /\ SameCalls
  BY <1>4, <1>6, <1>7, OneCall DEF Handed
<1>9. OneTask(t, box, c)
  <2>1. PICK u \in TaskRecord : /\ u = [tasks[t] EXCEPT !.box = box]
                                /\ u.object = tasks[t].object /\ u.node = tasks[t].node
                                /\ u.revision = tasks[t].revision /\ u.live = tasks[t].live
                                /\ u.box = box /\ u.run = tasks[t].run
    BY <1>3, WithBox
  <2>2. PICK w \in TaskRecord : /\ w = [u EXCEPT !.run = c]
                                /\ w.object = u.object /\ w.node = u.node
                                /\ w.revision = u.revision /\ w.live = u.live
                                /\ w.box = u.box /\ w.run = c
    BY <1>4, WithRun
  <2>3. tasks' = [[tasks EXCEPT ![t].box = box] EXCEPT ![t].run = c]
    BY <1>2 DEF Pop
  <2>4. PICK T : T = [tasks EXCEPT ![t] = u]
    OBVIOUS
  <2>5. T[t] = u /\ [T EXCEPT ![t] = w] = [tasks EXCEPT ![t] = w]
    <3>1. PICK ids : ids = DOMAIN tasks /\ t \in ids /\ tasks \in [ids -> TaskRecord]
      BY DEF CallsType, TaskIds
    <3> QED
      BY <2>4, <3>1, WrittenTwice
  <2>6. tasks' = [T EXCEPT ![t] = [T[t] EXCEPT !.run = c]]
    BY <2>1, <2>3, <2>4
  <2>7. tasks' = [tasks EXCEPT ![t] = w]
    BY <2>2, <2>5, <2>6
  <2> QED
    BY <2>1, <2>2, <2>7, Written
<1>10. /\ tasks' \in Seq(TaskRecord) /\ \A s \in TaskIds \ {t} : tasks'[s] = tasks[s]
       /\ tasks'[t].box = box /\ tasks'[t].run = c /\ tasks'[t].node = tasks[t].node
       /\ tasks'[t].live = tasks[t].live
  BY <1>9 DEF OneTask
<1>11. TaskIds' = TaskIds /\ HostInv'
  BY <1>0, <1>9, TasksStay
<1>12. v.st = "running" /\ v.task = t /\ v.node = tasks[t].node /\ v.from = calls[c].from
       /\ v.chained = calls[c].chained /\ v.node \in up
  <2>1. Placed(c)
    BY <1>4 DEF PlaceInv
  <2> QED
    BY <1>0, <1>1, <1>4, <1>6, <2>1 DEF Placed, Handed, Mailbox
<1>13. CallsType'
  BY <1>0, <1>8, <1>10 DEF CallsType
<1>14. MadeInv'
  BY <1>0, <1>4, <1>8, <1>12, ZenonT(60) DEF MadeInv
<1>15. PlaceInv'
  <2>1. Placed(c)'
    BY <1>0, <1>8, <1>10, <1>11, <1>12 DEF Placed
  <2>2. ASSUME NEW d \in Ids \ {c} PROVE Placed(d)'
    <3>1. Placed(d) /\ calls'[d] = calls[d]
      BY <1>8 DEF PlaceInv
    <3>2. CASE calls[d].task = t
      <4>1. calls[d].st = "queued" => \E i \in 1..Len(box) : box[i] = d
        <5> SUFFICES ASSUME calls[d].st = "queued" PROVE \E i \in 1..Len(box) : box[i] = d
          OBVIOUS
        <5>1. PICK j \in 1..Len(tasks[t].box) : tasks[t].box[j] = d
          BY <3>1, <3>2 DEF Placed
        <5>2. j # 1
          BY <1>3, <5>1
        <5>3. j - 1 \in 1..Len(box) /\ (j - 1) + 1 = j
          BY <1>3, <5>2
        <5> QED
          BY <1>3, <5>1, <5>3
      <4>2. calls[d].st # "running"
        <5>1. d # 0
          BY DEF Ids
        <5> QED
          BY <1>0, <3>1, <3>2, <5>1 DEF Placed
      <4> QED
        BY <1>10, <1>11, <3>1, <3>2, <4>1, <4>2 DEF Placed
    <3>3. CASE calls[d].task # t
      BY <1>10, <1>11, <3>1, <3>3 DEF Placed
    <3> QED
      BY <3>2, <3>3
  <2> QED
    BY <1>8, <2>1, <2>2 DEF PlaceInv
<1>16. MailboxInv'
  <2>1. ASSUME NEW s \in TaskIds \ {t} PROVE Mailbox(s)'
    <3>1. Mailbox(s) /\ tasks'[s] = tasks[s]
      BY <1>10 DEF MailboxInv
    <3>2. /\ \A i \in 1..Len(tasks[s].box) : tasks[s].box[i] # c
          /\ tasks[s].run # c
      BY <1>4, <3>1 DEF Mailbox
    <3> QED
      BY <1>0, <1>8, <3>1, <3>2 DEF Mailbox
  <2>2. Mailbox(t)'
    <3>1. ASSUME NEW i \in 1..Len(box)
          PROVE  /\ box[i] \in Ids /\ calls'[box[i]].st = "queued" /\ calls'[box[i]].task = t
                 /\ \A j \in 1..Len(box) : box[j] = box[i] => i = j
      <4>1. i + 1 \in 1..Len(tasks[t].box) /\ box[i] = tasks[t].box[i + 1] /\ box[i] # c
        BY <1>3, <1>4
      <4>2. box[i] \in Ids /\ calls[box[i]].st = "queued" /\ calls[box[i]].task = t
        BY <1>1, <4>1 DEF Mailbox
      <4>3. ASSUME NEW j \in 1..Len(box), box[j] = box[i] PROVE i = j
        <5>1. i + 1 = j + 1
          BY <1>1, <1>3, <4>1, <4>3 DEF Mailbox
        <5> QED
          BY <1>3, <5>1
      <4> QED
        BY <1>8, <4>1, <4>2, <4>3
    <3> QED
      BY <1>0, <1>1, <1>4, <1>8, <1>10, <1>12, <3>1 DEF Mailbox
  <2> QED
    BY <1>11, <2>1, <2>2 DEF MailboxInv
<1>17. RevisionInv'
  BY <1>0, <1>8, <1>9, <1>11, <1>12, TasksStay DEF RevisionInv
<1>18. ChainInv'
  BY <1>4, <1>6, <1>8, ChainMoves DEF Handed
<1> QED
  BY <1>11, <1>13, <1>14, <1>15, <1>16, <1>17, <1>18

LEMMA ReturnInv ==
  ASSUME CallsInv, NEW t \in TaskIds, Return(t)
  PROVE  CallsInv'
<1> USE DEF CallsInv, TaskInv
<1>0. /\ tasks[t].live /\ tasks[t].run # 0 /\ tasks' = [tasks EXCEPT ![t].run = 0]
      /\ UNCHANGED <<host, lease, revision, up>>
  BY DEF Return
<1>1. PICK c : c = tasks[t].run
  OBVIOUS
<1>2. /\ Mailbox(t) /\ c \in Ids /\ calls[c].st = "running" /\ calls[c].task = t
  BY <1>0, <1>1 DEF Mailbox, MailboxInv
<1>3. /\ Settled(c) \in CallRecord /\ Settled(c).st = "settled"
      /\ Settled(c).from = calls[c].from
      /\ Settled(c).object = calls[c].object /\ Settled(c).chained = calls[c].chained
  BY <1>2, SettledCall
<1>4. /\ calls' \in Seq(CallRecord) /\ Len(calls') = Len(calls) /\ Ids' = Ids
      /\ calls'[c] = Settled(c) /\ \A d \in Ids \ {c} : calls'[d] = calls[d]
      /\ SameCalls
  BY <1>1, <1>2, <1>3, OneCall DEF Answer, Return
<1>5. OneTask(t, tasks[t].box, 0)
  BY <1>0, RunWritten
<1>6. /\ tasks' \in Seq(TaskRecord) /\ \A s \in TaskIds \ {t} : tasks'[s] = tasks[s]
      /\ tasks'[t].box = tasks[t].box /\ tasks'[t].run = 0 /\ tasks'[t].node = tasks[t].node
      /\ tasks'[t].live = tasks[t].live
  BY <1>5 DEF OneTask
<1>7. TaskIds' = TaskIds /\ HostInv'
  BY <1>0, <1>5, TasksStay
<1>8. CallsType' /\ MadeInv'
  <2>1. UNCHANGED <<host, lease, revision, up>>
    BY <1>0
  <2>2. CallsType'
    BY <1>4, <1>6, <2>1 DEF CallsType
  <2>3. ASSUME NEW d \in Ids
        PROVE  /\ calls'[d].from < d /\ (calls'[d].chained => calls'[d].from # 0)
               /\ calls'[d].st \in {"routing", "claimed", "resolved", "running"} => calls'[d].node \in up
    <3>1. CASE d = c
      BY <1>3, <1>4, <3>1 DEF MadeInv
    <3>2. CASE d # c
      BY <1>4, <3>2 DEF MadeInv
    <3> QED
      BY <3>1, <3>2
  <2> QED
    BY <1>4, <2>1, <2>2, <2>3 DEF MadeInv
<1>9. PlaceInv'
  <2>1. Placed(c)'
    BY <1>3, <1>4 DEF Placed
  <2>2. ASSUME NEW d \in Ids \ {c} PROVE Placed(d)'
    <3>1. Placed(d) /\ calls'[d] = calls[d]
      BY <1>4 DEF PlaceInv
    <3>2. CASE calls[d].task = t
      <4>1. calls[d].st # "running"
        BY <1>1, <3>1, <3>2 DEF Placed
      <4> QED
        BY <1>6, <1>7, <3>1, <3>2, <4>1 DEF Placed
    <3>3. CASE calls[d].task # t
      BY <1>6, <1>7, <3>1, <3>3 DEF Placed
    <3> QED
      BY <3>2, <3>3
  <2> QED
    BY <1>4, <2>1, <2>2 DEF PlaceInv
<1>10. MailboxInv'
  <2>1. ASSUME NEW s \in TaskIds \ {t} PROVE Mailbox(s)'
    <3>1. Mailbox(s) /\ tasks'[s] = tasks[s]
      BY <1>6 DEF MailboxInv
    <3>2. /\ \A i \in 1..Len(tasks[s].box) : tasks[s].box[i] # c
          /\ tasks[s].run # 0 => tasks[s].run # c
      BY <1>2, <3>1 DEF Mailbox
    <3> QED
      BY <1>0, <1>4, <3>1, <3>2 DEF Mailbox
  <2>2. Mailbox(t)'
    <3>1. \A i \in 1..Len(tasks[t].box) :
            /\ tasks[t].box[i] \in Ids \ {c}
            /\ calls[tasks[t].box[i]].st = "queued" /\ calls[tasks[t].box[i]].task = t
            /\ \A j \in 1..Len(tasks[t].box) : tasks[t].box[j] = tasks[t].box[i] => i = j
      BY <1>2 DEF Mailbox
    <3>2. tasks[t].live => tasks[t].node \in up
      BY <1>2 DEF Mailbox
    <3> QED
      BY <1>0, <1>4, <1>6, <3>1, <3>2 DEF Mailbox
  <2> QED
    BY <1>7, <2>1, <2>2 DEF MailboxInv
<1>11. RevisionInv'
  BY <1>0, <1>3, <1>4, <1>5, <1>7, TasksStay DEF RevisionInv
<1>12. ChainInv'
  BY <1>2, <1>3, <1>4, ChainMoves
<1> QED
  BY <1>7, <1>8, <1>9, <1>10, <1>11, <1>12

LEMMA AlarmRunsInv ==
  ASSUME CallsInv, NEW t \in TaskIds, AlarmRuns(t)
  PROVE  CallsInv'
<1> USE DEF CallsInv, TaskInv
<1>0. /\ tasks[t].live /\ tasks[t].run = 0 /\ UNCHANGED <<host, lease, revision, up>>
  BY DEF AlarmRuns, Idle
<1>1. tasks[t] \in TaskRecord /\ t \in Nat /\ Mailbox(t)
  BY DEF CallsType, TaskIds, MailboxInv
<1>2. PICK o, node, chain : o = tasks[t].object /\ node = tasks[t].node /\ chain = <<o>>
  OBVIOUS
<1>3. o \in Objects /\ node \in up /\ node \in Nodes /\ chain \in Seq(Objects) /\ OwnEnd(chain, o)
  BY <1>0, <1>1, <1>2 DEF TaskRecord, Mailbox, CallsType, OwnEnd, Last
<1>4. PICK u : u = Call(NoCaller, o, chain, FALSE, node, "call")
  OBVIOUS
<1>5. /\ u \in CallRecord /\ u.from = 0 /\ ~u.chained /\ u.chain = chain /\ u.object = o
      /\ u.node = node
  BY <1>3, <1>4 DEF NoCaller, Call, CallRecord, Pending
<1>6. PICK v : v = [u EXCEPT !.st = "running", !.task = t]
  OBVIOUS
<1>7. /\ v \in CallRecord /\ v.from = 0 /\ ~v.chained /\ v.chain = chain /\ v.object = o
      /\ v.node = node /\ v.st = "running" /\ v.task = t
  <2>1. PICK x : x = [u EXCEPT !.st = "running"]
    OBVIOUS
  <2>2. /\ x \in CallRecord /\ x.from = 0 /\ ~x.chained /\ x.chain = chain /\ x.object = o
        /\ x.node = node /\ x.st = "running"
    BY <1>5, <2>1 DEF CallRecord, Pending
  <2>3. v = [x EXCEPT !.task = t]
    BY <1>6, <2>1
  <2> QED
    BY <1>1, <2>2, <2>3 DEF CallRecord
<1>8. calls' = Append(calls, v)
  BY <1>2, <1>4, <1>6 DEF AlarmRuns
<1>9. Added(v)
  BY <1>7, <1>8, Appended
<1>10. PICK n : n = Len(calls) + 1
  OBVIOUS
<1>11. /\ calls \in Seq(CallRecord) /\ Len(calls) \in Nat
       /\ calls' \in Seq(CallRecord) /\ Len(calls') = n /\ n \in Nat /\ n # 0
       /\ calls'[n] = v /\ \A c \in Ids : calls'[c] = calls[c]
  BY <1>9, <1>10 DEF CallsType, Added
<1>12. Ids' = Ids \cup {n} /\ n \notin Ids
  BY <1>10, <1>11 DEF Ids
<1>13. OneTask(t, tasks[t].box, n)
  <2>1. tasks' = [tasks EXCEPT ![t].run = n]
    BY <1>11 DEF AlarmRuns
  <2> QED
    BY <1>11, <2>1, RunWritten
<1>14. /\ tasks' \in Seq(TaskRecord) /\ \A s \in TaskIds \ {t} : tasks'[s] = tasks[s]
       /\ tasks'[t].box = tasks[t].box /\ tasks'[t].run = n /\ tasks'[t].node = tasks[t].node
       /\ tasks'[t].live = tasks[t].live
  BY <1>13 DEF OneTask
<1>15. TaskIds' = TaskIds /\ HostInv'
  BY <1>0, <1>13, TasksStay
<1>16. CallsType'
  BY <1>0, <1>11, <1>14 DEF CallsType
<1>17. MadeInv'
  BY <1>0, <1>3, <1>7, <1>11, <1>12 DEF MadeInv
<1>18. PlaceInv'
  <2>1. Placed(n)'
    BY <1>0, <1>2, <1>7, <1>11, <1>14, <1>15 DEF Placed
  <2>2. ASSUME NEW d \in Ids PROVE Placed(d)'
    <3>1. Placed(d) /\ calls'[d] = calls[d] /\ d # 0
      BY <1>11 DEF PlaceInv, Ids
    <3>2. CASE calls[d].task = t
      <4>1. calls[d].st # "running"
        BY <1>0, <3>1, <3>2 DEF Placed
      <4> QED
        BY <1>14, <1>15, <3>1, <3>2, <4>1 DEF Placed
    <3>3. CASE calls[d].task # t
      BY <1>14, <1>15, <3>1, <3>3 DEF Placed
    <3> QED
      BY <3>2, <3>3
  <2> QED
    BY <1>12, <2>1, <2>2 DEF PlaceInv
<1>19. MailboxInv'
  <2>1. ASSUME NEW s \in TaskIds \ {t} PROVE Mailbox(s)'
    <3>1. Mailbox(s) /\ tasks'[s] = tasks[s]
      BY <1>14 DEF MailboxInv
    <3> QED
      BY <1>0, <1>11, <1>12, <3>1 DEF Mailbox
  <2>2. Mailbox(t)'
    BY <1>0, <1>1, <1>7, <1>11, <1>12, <1>14, SMTT(60) DEF Mailbox
  <2> QED
    BY <1>15, <2>1, <2>2 DEF MailboxInv
<1>20. RevisionInv'
  BY <1>0, <1>7, <1>11, <1>12, <1>13, <1>15, TasksStay DEF RevisionInv
<1>21. ChainInv'
  BY <1>3, <1>7, <1>9, ChainStarts
<1> QED
  BY <1>15, <1>16, <1>17, <1>18, <1>19, <1>20, <1>21

--------------------------------------------------------------------------------
(* Tasks begin and end.                                                        *)

LEMMA SpawnTaskInv ==
  ASSUME CallsInv, NEW c \in Ids, SpawnTask(c)
  PROVE  CallsInv'
<1> USE DEF CallsInv, TaskInv
<1>0. calls[c].st = "claimed" /\ ~Registered(c) /\ UNCHANGED <<revision, up>>
      /\ calls[c].node \in up /\ "queued" \in Pending
  BY DEF SpawnTask, Pending
<1>1. PICK n, o : n = calls[c].node /\ o = calls[c].object
  OBVIOUS
<1>2. calls[c] \in CallRecord /\ c \in Nat /\ n \in Nodes /\ o \in Objects
      /\ calls[c].revision \in Nat
  <2>1. calls[c] \in CallRecord /\ c \in Nat
    BY DEF CallsType, Ids
  <2> QED
    BY <1>0, <1>1, <2>1 DEF CallRecord, CallsType
<1>3. CASE lease[o] \notin {Nobody, n}
  BY <1>0, <1>1, <1>3, AnswerKeeps DEF SpawnTask
<1>4. CASE lease[o] \in {Nobody, n}
  <2>1. PICK r : r = [object |-> o, node |-> n, box |-> <<c>>, run |-> 0,
                      revision |-> calls[c].revision, live |-> TRUE]
    OBVIOUS
  <2>2. /\ r \in TaskRecord /\ r.object = o /\ r.node = n /\ r.run = 0 /\ r.live
        /\ r.revision = calls[c].revision /\ Len(r.box) = 1 /\ r.box[1] = c
    <3>1. <<c>> \in Seq(Nat) /\ Len(<<c>>) = 1 /\ <<c>>[1] = c
      BY <1>2
    <3>2. PICK box : box = <<c>>
      OBVIOUS
    <3>3. r = [object |-> o, node |-> n, box |-> box, run |-> 0,
               revision |-> calls[c].revision, live |-> TRUE]
      BY <2>1, <3>2
    <3>4. box \in Seq(Nat) /\ Len(box) = 1 /\ box[1] = c
      BY <3>1, <3>2
    <3> QED
      BY <1>2, <3>3, <3>4 DEF TaskRecord
  <2>3. PICK k : k = Len(tasks) + 1
    OBVIOUS
  <2>4. /\ tasks' = Append(tasks, r) /\ lease' = [lease EXCEPT ![o] = n]
        /\ host' = [host EXCEPT ![n][o] = Len(tasks')]
        /\ SetCall(c, [calls[c] EXCEPT !.task = Len(tasks'), !.st = "queued"])
    BY <1>1, <1>4, <2>1 DEF SpawnTask
  <2>5. /\ tasks \in Seq(TaskRecord) /\ Len(tasks) \in Nat /\ k \in Nat /\ k # 0
        /\ tasks' \in Seq(TaskRecord) /\ Len(tasks') = k
        /\ tasks'[k] = r /\ \A s \in TaskIds : tasks'[s] = tasks[s]
    BY <2>2, <2>3, <2>4 DEF CallsType, TaskIds
  <2>6. TaskIds' = TaskIds \cup {k} /\ k \notin TaskIds
    BY <2>3, <2>5 DEF TaskIds
  <2>7. PICK v : v = [calls[c] EXCEPT !.task = k, !.st = "queued"]
    OBVIOUS
  <2>8. Handed(v, c, k, "queued") /\ SetCall(c, v)
    BY <1>0, <2>4, <2>5, <2>7, HandedTo
  <2>9. /\ calls' \in Seq(CallRecord) /\ Len(calls') = Len(calls) /\ Ids' = Ids
        /\ calls'[c] = v /\ \A d \in Ids \ {c} : calls'[d] = calls[d]
        /\ SameCalls
    BY <2>8, OneCall DEF Handed
  <2>10. /\ host' \in [Nodes -> [Objects -> Nat]] /\ host'[n][o] = k
         /\ \A m \in Nodes, p \in Objects : <<m, p>> # <<n, o>> => host'[m][p] = host[m][p]
    BY <1>2, <2>4, <2>5 DEF CallsType
  <2>11. lease' \in [Objects -> Nodes \cup {Nobody}]
    BY <1>2, <2>4 DEF CallsType
  <2>12. /\ v.st = "queued" /\ v.task = k /\ v.node = n /\ v.from = calls[c].from
         /\ v.chained = calls[c].chained /\ v.chain = calls[c].chain
    BY <1>1, <2>8 DEF Handed
  <2>13. CallsType'
    BY <1>0, <2>5, <2>9, <2>10, <2>11 DEF CallsType
  <2>14. MadeInv'
    BY <1>0, <2>9, <2>12 DEF MadeInv
  <2>15. HostInv'
    <3> SUFFICES ASSUME NEW m \in Nodes, NEW p \in Objects, host'[m][p] # 0
                 PROVE  /\ host'[m][p] \in TaskIds' /\ tasks'[host'[m][p]].live
                        /\ tasks'[host'[m][p]].node = m /\ tasks'[host'[m][p]].object = p
      BY DEF HostInv
    <3>1. CASE m = n /\ p = o
      BY <2>2, <2>5, <2>6, <2>10, <3>1
    <3>2. CASE ~(m = n /\ p = o)
      <4>1. host'[m][p] = host[m][p]
        BY <2>10, <3>2
      <4> QED
        BY <2>5, <2>6, <4>1 DEF HostInv
    <3> QED
      BY <3>1, <3>2
  <2>16. PlaceInv'
    <3>1. Placed(c)'
      <4>1. 1 \in 1..Len(r.box)
        BY <2>2
      <4> QED
        BY <2>2, <2>5, <2>6, <2>9, <2>12, <4>1 DEF Placed
    <3>2. ASSUME NEW d \in Ids \ {c} PROVE Placed(d)'
      <4>1. Placed(d) /\ calls'[d] = calls[d]
        BY <2>9 DEF PlaceInv
      <4> QED
        BY <2>5, <2>6, <4>1 DEF Placed
    <3> QED
      BY <2>9, <3>1, <3>2 DEF PlaceInv
  <2>17. MailboxInv'
    <3>1. ASSUME NEW s \in TaskIds PROVE Mailbox(s)'
      <4>1. Mailbox(s) /\ tasks'[s] = tasks[s]
        BY <2>5 DEF MailboxInv
      <4>2. /\ \A i \in 1..Len(tasks[s].box) : tasks[s].box[i] # c
            /\ tasks[s].run # 0 => tasks[s].run # c
        BY <1>0, <4>1 DEF Mailbox
      <4> QED
        BY <1>0, <2>9, <4>1, <4>2 DEF Mailbox
    <3>2. Mailbox(k)'
      <4>1. \A i \in 1..Len(r.box) : i = 1 /\ r.box[i] = c
        BY <2>2
      <4> QED
        BY <1>0, <1>1, <2>2, <2>5, <2>9, <2>12, <4>1 DEF Mailbox
    <3> QED
      BY <2>6, <3>1, <3>2 DEF MailboxInv
  <2>18. RevisionInv'
    <3> SUFFICES ASSUME revision = 1
                 PROVE  /\ \A d \in Ids : calls'[d].st = "claimed" => calls'[d].revision = 1
                        /\ \A t \in TaskIds' : tasks'[t].live =>
                             tasks'[t].revision = 1 /\ host'[tasks'[t].node][tasks'[t].object] = t
      BY <1>0, <2>9 DEF RevisionInv
    <3>1. \A d \in Ids : calls'[d].st = "claimed" => calls'[d].revision = 1
      BY <2>9, <2>12 DEF RevisionInv
    <3>2. calls[c].revision = 1
      BY <1>0 DEF RevisionInv
    <3>3. ASSUME NEW t \in TaskIds, tasks[t].live
          PROVE  tasks[t].revision = 1 /\ host'[tasks[t].node][tasks[t].object] = t
      <4>1. tasks[t].revision = 1 /\ host[tasks[t].node][tasks[t].object] = t
        BY <3>3 DEF RevisionInv
      <4>2. t # 0 /\ tasks[t] \in TaskRecord
        BY DEF TaskIds, CallsType
      <4>3. <<tasks[t].node, tasks[t].object>> # <<n, o>>
        BY <1>0, <1>1, <3>2, <4>1, <4>2 DEF Registered
      <4>4. tasks[t].node \in Nodes /\ tasks[t].object \in Objects
        BY <3>3, <4>2 DEF TaskRecord, MailboxInv, Mailbox, CallsType
      <4> QED
        BY <2>10, <4>1, <4>3, <4>4
    <3> QED
      BY <2>2, <2>5, <2>6, <2>10, <3>1, <3>2, <3>3
  <2>19. ChainInv'
    BY <1>0, <2>9, <2>12, ChainMoves
  <2> QED
    BY <2>13, <2>14, <2>15, <2>16, <2>17, <2>18, <2>19
<1> QED
  BY <1>3, <1>4

\* A task that ended is a task without calls.
LEMMA EndedTask ==
  ASSUME CallsType, NEW t \in TaskIds
  PROVE  Ended(t) \in TaskRecord /\ ~Ended(t).live /\ Ended(t).box = <<>> /\ Ended(t).run = 0
<1>1. tasks[t] \in TaskRecord
  BY DEF CallsType, TaskIds
<1>e. <<>> \in Seq(Nat)
  OBVIOUS
<1> PICK box : box = <<>> /\ box \in Seq(Nat)
  BY <1>e, Zenon
<1> DEFINE r1 == [tasks[t] EXCEPT !.live = FALSE]
           r2 == [r1 EXCEPT !.box = box]
           r3 == [r2 EXCEPT !.run = 0]
           r4 == [r3 EXCEPT !.node = Nobody]
           r5 == [r4 EXCEPT !.revision = 0]
<1>2. Ended(t) = r5
  BY DEF Ended
<1> HIDE DEF r1, r2, r3, r4, r5
<1>3. r1 \in TaskRecord /\ ~r1.live
  BY <1>1 DEF r1, TaskRecord
<1>4. r2 \in TaskRecord /\ ~r2.live /\ r2.box = box
  BY <1>3 DEF r2, TaskRecord
<1>5. r3 \in TaskRecord /\ ~r3.live /\ r3.box = box /\ r3.run = 0
  BY <1>4 DEF r3, TaskRecord
<1>6. r4 \in TaskRecord /\ ~r4.live /\ r4.box = box /\ r4.run = 0
  BY <1>5 DEF r4, TaskRecord
<1>7. r5 \in TaskRecord /\ ~r5.live /\ r5.box = box /\ r5.run = 0
  BY <1>6 DEF r5, TaskRecord
<1> QED
  BY <1>2, <1>7

\* What the ends of tasks leave is in order, as long as everything left is on a
\* node that is alive.
LEMMA StrandKeeps ==
  ASSUME CallsInv, NEW gone \in SUBSET TaskIds, NEW lost \in SUBSET Ids, Strand(gone, lost),
         UNCHANGED <<lease, revision>>, up' \subseteq up,
         \A c \in lost : calls[c].st \in {"routing", "claimed", "resolved"},
         \A c \in Ids \ lost :
           calls[c].st \in {"routing", "claimed", "resolved"} => calls[c].node \in up',
         \A t \in TaskIds \ gone : tasks[t].live => tasks[t].node \in up'
  PROVE  CallsInv'
<1> USE DEF CallsInv, TaskInv
<1> DEFINE Ends(c) == c \in lost \/ (calls[c].st \in {"queued", "running"} /\ calls[c].task \in gone)
<1>1. /\ calls' \in Seq(CallRecord) /\ Len(calls') = Len(calls)
      /\ \A c \in Ids : calls'[c] = IF Ends(c) THEN Settled(c) ELSE calls[c]
  <2>1. \A c \in Ids : calls[c] \in CallRecord /\ Settled(c) \in CallRecord
    BY SettledCall
  <2>2. calls' = [c \in 1..Len(calls) |-> IF Ends(c) THEN Settled(c) ELSE calls[c]]
    BY DEF Strand, Ids
  <2>3. Len(calls) \in Nat
    BY DEF CallsType
  <2> HIDE DEF Ends
  <2> QED
    BY <2>1, <2>2, <2>3 DEF Ids
<1>2. /\ tasks' \in Seq(TaskRecord) /\ Len(tasks') = Len(tasks)
      /\ \A t \in TaskIds : tasks'[t] = IF t \in gone THEN Ended(t) ELSE tasks[t]
  <2>1. \A t \in TaskIds : tasks[t] \in TaskRecord /\ Ended(t) \in TaskRecord
    BY EndedTask DEF CallsType, TaskIds
  <2>2. tasks' = [t \in 1..Len(tasks) |-> IF t \in gone THEN Ended(t) ELSE tasks[t]]
    BY DEF Strand, TaskIds
  <2>3. Len(tasks) \in Nat
    BY DEF CallsType
  <2> QED
    BY <2>1, <2>2, <2>3 DEF TaskIds
<1>3. Ids' = Ids /\ TaskIds' = TaskIds
  BY <1>1, <1>2 DEF Ids, TaskIds
<1>4. /\ host' \in [Nodes -> [Objects -> Nat]]
      /\ \A n \in Nodes, o \in Objects :
           host'[n][o] = IF host[n][o] \in gone THEN 0 ELSE host[n][o]
  <2>1. \A n \in Nodes, o \in Objects : host[n][o] \in Nat
    BY DEF CallsType
  <2> QED
    BY <2>1 DEF Strand
<1>5. /\ \A c \in Ids : Ends(c) => calls'[c].st = "settled"
      /\ \A c \in Ids : ~Ends(c) => calls'[c] = calls[c]
      /\ \A c \in Ids : calls'[c].from = calls[c].from /\ calls'[c].object = calls[c].object
                        /\ calls'[c].chained = calls[c].chained
  BY <1>1, SettledCall
<1>6. /\ \A t \in gone : ~tasks'[t].live /\ tasks'[t].box = <<>> /\ tasks'[t].run = 0
      /\ \A t \in TaskIds \ gone : tasks'[t] = tasks[t]
  BY <1>2, EndedTask
<1>7. \A c \in Ids : calls[c].st \in {"queued", "running"} /\ ~Ends(c) =>
        /\ calls[c].task \in TaskIds \ gone /\ tasks'[calls[c].task] = tasks[calls[c].task]
        /\ tasks[calls[c].task].live /\ tasks[calls[c].task].node = calls[c].node
  BY <1>6 DEF PlaceInv, Placed
<1>8. SameCalls
  BY <1>1, <1>5 DEF SameCalls
<1>9. CallsType'
  BY <1>1, <1>2, <1>4 DEF CallsType
<1>10. MadeInv'
  <2> SUFFICES ASSUME NEW c \in Ids
               PROVE  /\ calls'[c].from < c
                      /\ calls'[c].chained => calls'[c].from # 0
                      /\ calls'[c].st \in {"routing", "claimed", "resolved", "running"}
                           => calls'[c].node \in up'
    BY <1>3 DEF MadeInv
  <2>1. /\ calls'[c].from < c /\ (calls'[c].chained => calls'[c].from # 0)
    BY <1>5 DEF MadeInv
  <2>2. CASE Ends(c)
    BY <1>5, <2>1, <2>2
  <2>3. CASE ~Ends(c)
    BY <1>5, <1>7, <2>1, <2>3
  <2> QED
    BY <2>2, <2>3
<1>11. HostInv'
  BY <1>3, <1>4, <1>6 DEF HostInv
<1>12. PlaceInv'
  <2> SUFFICES ASSUME NEW c \in Ids PROVE Placed(c)'
    BY <1>3 DEF PlaceInv
  <2>1. CASE Ends(c)
    BY <1>5, <2>1 DEF Placed
  <2>2. CASE ~Ends(c) /\ calls[c].st \in {"queued", "running"}
    BY <1>3, <1>5, <1>7, <2>2 DEF PlaceInv, Placed
  <2>3. CASE ~Ends(c) /\ calls[c].st \notin {"queued", "running"}
    <3>1. Placed(c) /\ calls'[c] = calls[c]
      BY <1>5, <2>3 DEF PlaceInv
    <3> QED
      BY <1>3, <1>6, <2>3, <3>1 DEF Placed
  <2> QED
    BY <2>1, <2>2, <2>3
<1>13. MailboxInv'
  <2>1. ASSUME NEW t \in gone PROVE Mailbox(t)'
    <3>1. ~tasks'[t].live /\ tasks'[t].box = <<>> /\ tasks'[t].run = 0
      BY <1>6
    <3>2. \A i \in 1..Len(tasks'[t].box) : FALSE
      BY <3>1
    <3> QED
      BY <3>1, <3>2 DEF Mailbox
  <2>2. ASSUME NEW t \in TaskIds \ gone PROVE Mailbox(t)'
    <3>1. Mailbox(t) /\ tasks'[t] = tasks[t]
      BY <1>6 DEF MailboxInv
    <3>2. \A i \in 1..Len(tasks[t].box) :
            /\ tasks[t].box[i] \in Ids /\ calls[tasks[t].box[i]].st = "queued"
            /\ calls[tasks[t].box[i]].task = t
            /\ \A j \in 1..Len(tasks[t].box) : tasks[t].box[j] = tasks[t].box[i] => i = j
      BY <3>1 DEF Mailbox
    <3>3. \A i \in 1..Len(tasks[t].box) : calls'[tasks[t].box[i]] = calls[tasks[t].box[i]]
      BY <1>5, <3>2
    <3>4. tasks[t].run # 0 => /\ tasks[t].run \in Ids /\ calls'[tasks[t].run] = calls[tasks[t].run]
      BY <1>5, <3>1 DEF Mailbox
    <3> QED
      BY <1>3, <3>1, <3>2, <3>3, <3>4 DEF Mailbox
  <2> QED
    BY <1>3, <2>1, <2>2 DEF MailboxInv
<1>14. RevisionInv'
  <2> SUFFICES ASSUME revision = 1
               PROVE  /\ \A d \in Ids : calls'[d].st = "claimed" => calls'[d].revision = 1
                      /\ \A t \in TaskIds : tasks'[t].live =>
                           tasks'[t].revision = 1 /\ host'[tasks'[t].node][tasks'[t].object] = t
    BY <1>3 DEF RevisionInv
  <2>1. \A d \in Ids : calls'[d].st = "claimed" => calls'[d].revision = 1
    BY <1>5 DEF RevisionInv
  <2>2. ASSUME NEW t \in TaskIds \ gone, tasks[t].live
        PROVE  tasks[t].revision = 1 /\ host'[tasks[t].node][tasks[t].object] = t
    <3>1. tasks[t].revision = 1 /\ host[tasks[t].node][tasks[t].object] = t
      BY <2>2 DEF RevisionInv
    <3>2. tasks[t] \in TaskRecord
      BY DEF TaskIds, CallsType
    <3>3. tasks[t].node \in Nodes /\ tasks[t].object \in Objects
      BY <2>2, <3>2 DEF TaskRecord, MailboxInv, Mailbox, CallsType
    <3> QED
      BY <1>4, <3>1, <3>3
  <2> QED
    BY <1>6, <2>1, <2>2
<1>15. ChainInv'
  <2>1. \A c \in Ids : calls[c].st \in Pending \cup {"settled"}
    <3>1. \A c \in Ids : calls[c] \in CallRecord
      BY DEF CallsType, Ids
    <3> QED
      BY <3>1 DEF CallRecord
  <2>2. ASSUME NEW c \in Ids
        PROVE  \/ calls'[c].st = "settled"
               \/ /\ calls'[c].chain = calls[c].chain
                  /\ calls[c].st \in Pending /\ calls'[c].st \in Pending
                  /\ On(c)' <=> On(c)
    BY <1>5, <2>1 DEF On
  <2> QED
    BY <1>1, <1>8, <2>2, ChainKept
<1> QED
  BY <1>9, <1>10, <1>11, <1>12, <1>13, <1>14, <1>15

LEMMA TaskEndsInv ==
  ASSUME CallsInv, NEW t \in TaskIds, TaskEnds(t)
  PROVE  CallsInv'
<1>1. Strand({t}, {}) /\ UNCHANGED <<lease, revision, up>>
  BY DEF TaskEnds
<1>2. /\ \A c \in Ids : calls[c].st \in {"routing", "claimed", "resolved"} => calls[c].node \in up
      /\ \A s \in TaskIds : tasks[s].live => tasks[s].node \in up
  BY DEF CallsInv, TaskInv, MadeInv, MailboxInv, Mailbox
<1> QED
  BY <1>1, <1>2, StrandKeeps

LEMMA NodeDiesInv ==
  ASSUME CallsInv, NEW n \in Nodes, NodeDies(n)
  PROVE  CallsInv'
<1>0. PICK gone \in SUBSET TaskIds, lost \in SUBSET Ids :
        /\ gone = {t \in TaskIds : tasks[t].node = n}
        /\ lost = {c \in Ids : calls[c].node = n
                               /\ calls[c].st \in {"routing", "claimed", "resolved"}}
  OBVIOUS
<1>1. Strand(gone, lost) /\ UNCHANGED <<lease, revision>> /\ up' = up \ {n}
  BY <1>0 DEF NodeDies
<1>2. /\ \A c \in Ids : calls[c].st \in {"routing", "claimed", "resolved"} => calls[c].node \in up
      /\ \A s \in TaskIds : tasks[s].live => tasks[s].node \in up
  BY DEF CallsInv, TaskInv, MadeInv, MailboxInv, Mailbox
<1> QED
  BY <1>0, <1>1, <1>2, StrandKeeps

--------------------------------------------------------------------------------
(* The invariant.                                                              *)

LEMMA SameChains ==
  ASSUME CallsInv, calls' = calls
  PROVE  ChainInv'
<1>1. \A c \in Ids : calls[c] \in CallRecord
  BY DEF CallsInv, CallsType, Ids
<1>2. \A c \in Ids : calls[c].st \in Pending \cup {"settled"}
  BY <1>1 DEF CallRecord
<1>3. SameCalls
  BY DEF SameCalls, CallsInv, CallsType
<1>4. \A c \in Ids : On(c)' <=> On(c)
  BY DEF On
<1> QED
  BY <1>2, <1>3, <1>4, ChainKept DEF CallsInv

LEMMA RepublishInv ==
  ASSUME CallsInv, Republish
  PROVE  CallsInv'
<1> USE DEF CallsInv, TaskInv
<1>1. UNCHANGED <<calls, tasks, host, lease, up>> /\ revision' = revision + 1
  BY DEF Republish
<1>2. Ids' = Ids /\ TaskIds' = TaskIds
  BY <1>1 DEF Ids, TaskIds
<1>3. CallsType' /\ MadeInv' /\ HostInv' /\ PlaceInv' /\ MailboxInv'
  BY <1>1, <1>2 DEF CallsType, MadeInv, HostInv, PlaceInv, Placed, MailboxInv, Mailbox
<1>4. RevisionInv'
  BY <1>1 DEF RevisionInv, CallsType
<1>5. ChainInv'
  BY <1>1, SameChains
<1> QED
  BY <1>3, <1>4, <1>5

LEMMA LeaseFreedInv ==
  ASSUME CallsInv, NEW o \in Objects, LeaseFreed(o)
  PROVE  CallsInv'
<1> USE DEF CallsInv, TaskInv
<1>1. UNCHANGED <<calls, tasks, host, revision, up>> /\ lease' = [lease EXCEPT ![o] = Nobody]
  BY DEF LeaseFreed
<1>2. Ids' = Ids /\ TaskIds' = TaskIds
  BY <1>1 DEF Ids, TaskIds
<1>3. CallsType' /\ MadeInv' /\ HostInv' /\ PlaceInv' /\ MailboxInv' /\ RevisionInv'
  BY <1>1, <1>2 DEF CallsType, MadeInv, HostInv, PlaceInv, Placed, MailboxInv, Mailbox, RevisionInv
<1>4. ChainInv'
  BY <1>1, SameChains
<1> QED
  BY <1>3, <1>4

LEMMA CallsStep == CallsInv /\ [CallsNext]_callsVars => CallsInv'
<1> SUFFICES ASSUME CallsInv, [CallsNext]_callsVars PROVE CallsInv'
  OBVIOUS
<1>1. CASE UNCHANGED callsVars
  <2>1. calls' = calls
    BY <1>1 DEF callsVars
  <2> QED
    BY <1>1, <2>1, SameChains
       DEF callsVars, CallsInv, TaskInv, CallsType, MadeInv, HostInv, PlaceInv, Placed,
           MailboxInv, Mailbox, RevisionInv, Ids, TaskIds
<1>2. ASSUME NEW c \in Ids, Route(c) \/ Unroutable(c) \/ Send(c) \/ GiveUp(c) PROVE CallsInv'
  <2>1. CASE ReadBypass(c)
    BY <2>1, AnswerKeeps DEF ReadBypass, Routing
  <2>2. CASE Refuse(c)
    BY <2>2, AnswerKeeps DEF Refuse, Routing
  <2>3. CASE NotAgain(c)
    BY <2>3, AnswerKeeps DEF NotAgain, Routable, Routing
  <2>4. CASE Unroutable(c)
    BY <2>4, AnswerKeeps DEF Unroutable
  <2>5. CASE GiveUp(c)
    BY <2>5, AnswerKeeps DEF GiveUp
  <2> QED
    BY <1>2, <2>1, <2>2, <2>3, <2>4, <2>5, ClaimInv, ForwardInv, GetTaskInv, SpawnTaskInv, SendInv
       DEF Route
<1>3. ASSUME NEW t \in TaskIds, Pop(t) \/ AlarmRuns(t) \/ Return(t) \/ TaskEnds(t) PROVE CallsInv'
  BY <1>3, PopInv, AlarmRunsInv, ReturnInv, TaskEndsInv
<1>4. CASE CallsNext
  BY <1>2, <1>3, <1>4, RequestInv, CallOutInv, CallChildInv, RepublishInv, NodeDiesInv,
     LeaseFreedInv DEF CallsNext
<1> QED
  BY <1>1, <1>4

\* Of calls between objects (routing.rs, objects.rs): who made a call, where it
\* is, what each mailbox holds and what the chain carries agree throughout.
THEOREM AlwaysCalls == CallsSpec => []CallsInv
  BY InitCalls, CallsStep, PTL DEF CallsSpec

\* No call whose target is on its own stack reaches a mailbox, through
\* forwards, dead callers and republished tasks, whatever the number of nodes,
\* objects, calls and faults (extend_call_chain, objects.rs:516), but for an
\* object that calls itself directly.
THEOREM NoCyclesRun == CallsSpec => []CyclesRefused
<1>1. CallsInv => CyclesRefused
  BY DEF CallsInv, ChainInv, ChainOK, CyclesRefused, On, Pending
<1> QED
  BY <1>1, AlwaysCalls, PTL

\* Until a republish, a node has one live task of an object, however many
\* callers found it absent at once (get_or_spawn, objects.rs:568).
THEOREM OneTaskPerObject == CallsSpec => []OneTaskUntilRepublish
<1>1. CallsInv => OneTaskUntilRepublish
  <2> SUFFICES ASSUME CallsInv, revision = 1, NEW s \in TaskIds, NEW t \in TaskIds,
                      tasks[s].live, tasks[t].live,
                      tasks[s].node = tasks[t].node, tasks[s].object = tasks[t].object
               PROVE  s = t
    BY DEF OneTaskUntilRepublish
  <2> QED
    BY DEF CallsInv, TaskInv, RevisionInv
<1> QED
  BY <1>1, AlwaysCalls, PTL

--------------------------------------------------------------------------------
(* Nothing is stranded.                                                        *)

\* What blocks a call is a pending call; and a pending call that the runtime
\* has no step for is blocked.
LEMMA BlocksPending ==
  ASSUME NEW c \in Ids
  PROVE  Blocks[c] \subseteq {d \in Ids : calls[d].st \in Pending}
  BY DEF Blocks, Ahead, WaitsFor, Pending

LEMMA ReadyOrBlocked ==
  ASSUME CallsInv, NEW c \in Ids, calls[c].st \in Pending, ~Ready(c)
  PROVE  Blocks[c] # {}
<1> USE DEF CallsInv, TaskInv
<1> DEFINE t == calls[c].task
<1>1. Placed(c)
  BY DEF PlaceInv
<1>2. calls[c].st \notin {"routing", "claimed"}
  BY DEF Ready, MadeInv
<1>3. CASE calls[c].st = "resolved"
  <2>1. t \in TaskIds
    BY <1>1, <1>3 DEF Placed
  <2>2. tasks[t].live /\ ~(Len(tasks[t].box) < MailboxDepth)
    BY <1>3 DEF Ready
  <2>3. tasks[t].box \in Seq(Nat)
    <3>1. tasks[t] \in TaskRecord
      BY <2>1 DEF CallsType, TaskIds
    <3> QED
      BY <3>1 DEF TaskRecord
  <2>4. 1 \in 1..Len(tasks[t].box)
    BY <2>2, <2>3, CallsAssumption
  <2>5. PICK d : d = tasks[t].box[1]
    OBVIOUS
  <2>6. d \in Ids /\ calls[d].st = "queued" /\ calls[d].task = t
    BY <2>1, <2>4, <2>5 DEF MailboxInv, Mailbox
  <2>7. Ahead(c, d)
    BY <1>3, <2>6 DEF Ahead
  <2> QED
    BY <2>6, <2>7 DEF Blocks
<1>4. CASE calls[c].st = "queued"
  <2>1. t \in TaskIds /\ tasks[t].live
    BY <1>1, <1>4 DEF Placed
  <2>2. tasks[t].run # 0
    BY <1>4, <2>1 DEF Ready, Idle
  <2>3. PICK d : d = tasks[t].run
    OBVIOUS
  <2>4. d \in Ids /\ calls[d].st = "running" /\ calls[d].task = t
    BY <2>1, <2>2, <2>3 DEF MailboxInv, Mailbox
  <2>5. Ahead(c, d)
    BY <1>4, <2>4 DEF Ahead
  <2> QED
    BY <2>4, <2>5 DEF Blocks
<1>5. CASE calls[c].st = "running"
  <2>1. PICK d \in Ids : WaitsFor(c, d)
    BY <1>1, <1>5 DEF Placed, Ready, Busy
  <2> QED
    BY <1>5, <2>1 DEF Blocks
<1> QED
  BY <1>2, <1>3, <1>4, <1>5 DEF Pending

\* A nonempty set of natural numbers has a least one.
LEMMA LeastOf ==
  ASSUME NEW S \in SUBSET Nat, S # {}
  PROVE  \E k \in S : \A l \in S : k <= l
<1>1. PICK k \in S : \A l \in S : ~(<<l, k>> \in OpToRel(<, Nat))
  BY NatLessThanWellFounded, WFMin
<1>2. ASSUME NEW l \in S PROVE k <= l
  <2>1. k \in Nat /\ l \in Nat
    OBVIOUS
  <2>2. ~(l < k)
    BY <1>1, <2>1 DEF OpToRel
  <2> QED
    BY <2>1, <2>2
<1> QED
  BY <1>2

\* Of the calls a call waits for, one waits for the fewest: it waits for none,
\* unless there is a ring.
LEMMA Unblocked ==
  ASSUME CallsType, NEW c \in Ids, ~Stuck(c)
  PROVE  \E d \in WaitsOn(c) \cup {c} : Blocks[d] = {}
<1> DEFINE R == WaitsOn(c) \cup {c}
           N == {Cardinality(WaitsOn(d)) : d \in R}
<1>1. \A d \in Ids : Blocks[d] \subseteq Ids
  BY DEF Blocks
<1>2. \A d \in Ids : /\ WaitsOn(d) \subseteq Ids /\ Blocks[d] \subseteq WaitsOn(d)
                     /\ \A e \in WaitsOn(d) : Blocks[e] \subseteq WaitsOn(d)
  BY <1>1, ReachedClosed DEF WaitsOn
<1>3. R \subseteq Ids /\ \A d \in R : Blocks[d] \subseteq R
  BY <1>2
<1>4. \A d \in Ids : IsFiniteSet(WaitsOn(d)) /\ Cardinality(WaitsOn(d)) \in Nat
  <2>1. IsFiniteSet(Ids)
    BY FS_Interval DEF Ids, CallsType
  <2> QED
    BY <1>2, <2>1, FS_Subset, FS_CardinalityType
<1>5. N \in SUBSET Nat /\ N # {}
  BY <1>3, <1>4
<1> HIDE DEF N
<1>6. PICK k \in N : \A l \in N : k <= l
  BY <1>5, LeastOf
<1>7. PICK d \in R : \A e \in R : Cardinality(WaitsOn(d)) <= Cardinality(WaitsOn(e))
  BY <1>6 DEF N
<1>8. Blocks[d] = {}
  <2> SUFFICES ASSUME NEW e \in Blocks[d] PROVE FALSE
    OBVIOUS
  <2>1. e \in R /\ e \in Ids /\ d \in Ids /\ e \in WaitsOn(d)
    BY <1>2, <1>3, <1>7
  <2>2. WaitsOn(e) \subseteq WaitsOn(d)
    BY <1>2, <2>1, ReachedLeast DEF WaitsOn
  <2>3. e \notin WaitsOn(e)
    BY <2>1 DEF Stuck
  <2>4. Cardinality(WaitsOn(e)) <= Cardinality(WaitsOn(d))
        /\ Cardinality(WaitsOn(e)) # Cardinality(WaitsOn(d))
    BY <1>4, <2>1, <2>2, <2>3, FS_Subset
  <2> QED
    BY <1>4, <1>7, <2>1, <2>4
<1> QED
  BY <1>7, <1>8

\* Every pending call can be driven on by the runtime alone, or waits on a ring
\* of calls: no lost reply, no full mailbox and no task that ended under its
\* caller leaves a call waiting for ever (ObjectHandle::call, objects.rs:64).
THEOREM NobodyStranded == CallsSpec => []NeverStranded
<1>1. CallsInv => NeverStranded
  <2> SUFFICES ASSUME CallsInv, NEW c \in Ids, calls[c].st \in Pending, ~Stuck(c)
               PROVE  Ready(c) \/ \E d \in WaitsOn(c) : Ready(d)
    BY DEF NeverStranded
  <2>1. PICK d \in WaitsOn(c) \cup {c} : Blocks[d] = {}
    BY Unblocked DEF CallsInv
  <2>2. WaitsOn(c) \subseteq {e \in Ids : calls[e].st \in Pending}
    <3> DEFINE S == {e \in Ids : calls[e].st \in Pending}
    <3>1. S \in SUBSET Ids /\ Blocks[c] \subseteq S /\ \A e \in S : Blocks[e] \subseteq S
      BY BlocksPending
    <3> HIDE DEF S
    <3>2. WaitsOn(c) \subseteq S
      BY <3>1, ReachedLeast DEF WaitsOn
    <3> QED
      BY <3>2 DEF S
  <2>3. d \in Ids /\ calls[d].st \in Pending
    BY <2>2
  <2>4. Ready(d)
    BY <2>1, <2>3, ReadyOrBlocked
  <2> QED
    BY <2>4
<1> QED
  BY <1>1, AlwaysCalls, PTL

--------------------------------------------------------------------------------
(* One object's task: its dispatches, transactions, init and alarms.           *)

\* The bounds are counted in natural numbers.
SpentOK ==
  spent \in [alarms : 0..MaxAlarms, calls : Nat, crashes : Nat, commits : Nat, mirrors : Nat,
             slips : Nat, boots : Nat, inits : Nat]

\* The bounds other than the alarms'.
Others == {"calls", "crashes", "commits", "mirrors", "slips", "boots", "inits"}

\* A transaction is open in a dispatch, and sees what is committed until a method
\* changes it.
TxOK == pc \in {"init", "method"} => open

IInv == TypeOK /\ SpentOK /\ TxOK

USE TaskAssumption

\* The bounds are natural numbers, and 0 is an alarm: none.
LEMMA Bounds ==
  /\ MaxAlarms \in Nat /\ 0 \in Alarms
  /\ \A n \in Nat : n < MaxAlarms => n + 1 \in Alarms
<1>1. MaxAlarms \in Nat
  OBVIOUS
<1> QED
  BY <1>1 DEF Alarms

\* Queueing a mirror write keeps the writes in flight countable.
LEMMA MirrorKeeps ==
  ASSUME NEW a \in Alarms, sending \in [Alarms -> Nat], Mirror(a)
  PROVE  sending' \in [Alarms -> Nat]
  BY DEF Mirror

\* Spending a bound keeps the counters natural.
LEMMA SpendKeeps ==
  ASSUME SpentOK, NEW what \in Others, Spend(what)
  PROVE  SpentOK'
  BY DEF SpentOK, Spend, Others

\* What spending a bound leaves alone, and that it is counted.
LEMMA SpendOne ==
  ASSUME SpentOK, NEW what \in Others, Spend(what)
  PROVE  /\ spent'.alarms = spent.alarms
         /\ what # "inits" => spent'.inits = spent.inits
         /\ what = "slips" \/ spent'.slips = spent.slips
         /\ what = "boots" \/ spent'.boots = spent.boots
         /\ what = "commits" \/ spent'.commits = spent.commits
         /\ spent'[what] > 0
<1>1. spent \in [alarms : 0..MaxAlarms, calls : Nat, crashes : Nat, commits : Nat, mirrors : Nat,
                 slips : Nat, boots : Nat, inits : Nat]
  BY DEF SpentOK
<1>2. spent' = [spent EXCEPT ![what] = @ + 1]
  BY DEF Spend
<1> QED
  BY <1>1, <1>2 DEF Others

\* load_alarm returns an alarm, and costs nothing or a swallowed failure.
LEMMA LoadKeeps ==
  ASSUME SpentOK, NEW a \in Alarms, NEW row \in Alarms, LoadAlarm(a, row)
  PROVE  SpentOK' /\ ((spent' = spent /\ a = row) \/ Spend("slips"))
<1>1. CASE spent' = spent /\ a = row
  BY <1>1 DEF SpentOK
<1>2. CASE Spend("slips")
  BY <1>2, SpendKeeps DEF Others
<1> QED
  BY <1>1, <1>2 DEF LoadAlarm

\* Init establishes the types.
LEMMA InitIInv == Init => IInv
<1> SUFFICES ASSUME Init PROVE IInv
  OBVIOUS
<1>1. NewFile \in File
  BY Bounds DEF NewFile, File
<1>2. sending \in [Alarms -> Nat]
  BY DEF Init
<1>3. TypeOK
  BY <1>1, <1>2, Bounds DEF Init, TypeOK
<1>4. SpentOK /\ TxOK
  BY Bounds DEF Init, SpentOK, TxOK, Alarms
<1> QED
  BY <1>3, <1>4 DEF IInv

\* Every step preserves them.
LEMMA NextIInv == IInv /\ [Next]_vars => IInv'
<1> SUFFICES ASSUME IInv, [Next]_vars PROVE IInv'
  OBVIOUS
<1> USE Bounds DEF memory, history
<1>0. /\ TypeOK /\ SpentOK /\ TxOK /\ file \in File /\ tx \in File
      /\ file.alarm \in Alarms /\ tx.alarm \in Alarms /\ sending \in [Alarms -> Nat]
  BY DEF IInv, TypeOK, File
<1>1. CASE Touch \/ Sweep
  <2>0. PICK a \in Alarms : LoadAlarm(a, file.alarm) /\ cell' = a /\ Mirror(a)
    BY <1>1 DEF Touch, Sweep, Spawn
  <2>1. sending' \in [Alarms -> Nat]
    BY <1>0, <2>0, MirrorKeeps
  <2>2. SpentOK'
    BY <1>0, <2>0, LoadKeeps
  <2> QED
    BY <1>0, <1>1, <2>0, <2>1, <2>2 DEF Touch, Sweep, Spawn, IInv, TypeOK, TxOK
<1>2. CASE Hibernate
  BY <1>0, <1>2 DEF Hibernate, IInv, TypeOK, SpentOK, TxOK
<1>3. CASE Receive
  <2>1. SpentOK'
    BY <1>0, <1>3, SpendKeeps DEF Receive, Others
  <2> QED
    BY <1>0, <1>3, <2>1 DEF Receive, Begin, IInv, TypeOK, TxOK
<1>4. CASE FireAlarm
  <2>1. sending' \in [Alarms -> Nat]
    BY <1>0, <1>4, MirrorKeeps DEF FireAlarm
  <2>2. file' \in File /\ tx' \in File
    BY <1>0, <1>4 DEF FireAlarm, File
  <2>3. SpentOK'
    <3>1. spent' = spent \/ Spend("slips")
      BY <1>4 DEF FireAlarm
    <3>2. CASE spent' = spent
      BY <1>0, <3>2 DEF SpentOK
    <3>3. CASE Spend("slips")
      BY <1>0, <3>3, SpendKeeps DEF Others
    <3> QED
      BY <3>1, <3>2, <3>3
  <2> QED
    BY <1>0, <1>4, <2>1, <2>2, <2>3 DEF FireAlarm, IInv, TypeOK, TxOK
<1>5. CASE Dispatch
  BY <1>0, <1>5 DEF Dispatch, Begin, IInv, TypeOK, SpentOK, TxOK
<1>6. CASE RunInit \/ CallInit
  <2> DEFINE counted == [tx EXCEPT !.inits = @ + 1]
             marked == [counted EXCEPT !.init = TRUE]
  <2>2. tx.inits + 1 \in Nat /\ counted = [tx EXCEPT !.inits = tx.inits + 1]
    BY <1>0 DEF File
  <2>3. counted \in File /\ marked \in File
    BY <1>0, <2>2 DEF File
  <2>4. marked = [tx EXCEPT !.init = TRUE, !.inits = @ + 1]
    BY <1>0 DEF File
  <2>5. tx' = tx \/ tx' = counted \/ tx' = marked
    BY <1>6, <2>4 DEF RunInit, CallInit
  <2> HIDE DEF counted, marked
  <2>1. tx' \in File
    BY <1>0, <2>3, <2>5
  <2>6. SpentOK'
    <3>1. CASE RunInit
      BY <1>0, <3>1 DEF RunInit, SpentOK
    <3>2. CASE CallInit
      BY <1>0, <3>2, SpendKeeps DEF CallInit, Others
    <3> QED
      BY <1>6, <3>1, <3>2
  <2> QED
    BY <1>0, <1>6, <2>1, <2>6 DEF RunInit, CallInit, IInv, TypeOK, TxOK
<1>7. CASE SetAlarm
  <2> DEFINE a == spent.alarms + 1
  <2>1. a \in Alarms
    BY <1>0, <1>7 DEF SetAlarm, SpentOK
  <2>2. tx' = [tx EXCEPT !.alarm = a] /\ Mirror(a) /\ cell' = a /\ spent' = [spent EXCEPT !.alarms = a]
    BY <1>0, <1>7 DEF SetAlarm, Spend, SpentOK
  <2> HIDE DEF a
  <2>3. tx' \in File /\ sending' \in [Alarms -> Nat]
    BY <1>0, <2>1, <2>2, MirrorKeeps DEF File
  <2>4. SpentOK'
    BY <1>0, <2>1, <2>2 DEF SpentOK, Alarms
  <2> QED
    BY <1>0, <1>7, <2>1, <2>2, <2>3, <2>4 DEF SetAlarm, IInv, TypeOK, TxOK
<1>8. CASE Succeed
  BY <1>0, <1>8 DEF Succeed, IInv, TypeOK, SpentOK, TxOK
<1>9. CASE CommitFails
  <2>1. SpentOK'
    BY <1>0, <1>9, SpendKeeps DEF CommitFails, Others
  <2> QED
    BY <1>0, <1>9, <2>1 DEF CommitFails, Dropped, IInv, TypeOK, TxOK
<1>10. CASE Fail
  <2>1. \E a \in Alarms : /\ cell' = a /\ Mirror(a)
                          /\ LoadAlarm(a, file.alarm) \/ Spend("slips")
    BY <1>0, <1>10 DEF Fail, Resync
  <2>2. PICK a \in Alarms : /\ cell' = a /\ Mirror(a)
                            /\ LoadAlarm(a, file.alarm) \/ Spend("slips")
    BY <2>1
  <2>3. sending' \in [Alarms -> Nat]
    BY <1>0, <2>2, MirrorKeeps
  <2>4. SpentOK'
    BY <1>0, <2>2, LoadKeeps, SpendKeeps DEF Others
  <2>5. vmNew' \in BOOLEAN /\ (tx' = file \/ tx' = tx) /\ open' \in BOOLEAN
    BY <1>0, <1>10 DEF Fail, TypeOK
  <2>6. failed' \subseteq Alarms /\ owed' \in Alarms
    BY <1>0, <1>10 DEF Fail, Dropped, TypeOK
  <2>7. file' = file /\ mirror' = mirror /\ pc' = "loop" /\ alarmRun' = FALSE
    BY <1>10 DEF Fail
  <2> QED
    BY <1>0, <2>2, <2>3, <2>4, <2>5, <2>6, <2>7 DEF IInv, TypeOK, TxOK
<1>11. CASE Crash
  <2>1. SpentOK'
    BY <1>0, <1>11, SpendKeeps DEF Crash, Others
  <2> QED
    BY <1>0, <1>11, <2>1 DEF Crash, IInv, TypeOK, TxOK
<1>12. CASE Boot
  <2>1. CASE spent' = spent
    BY <1>0, <1>12, <2>1 DEF Boot, IInv, TypeOK, SpentOK, TxOK
  <2>2. CASE Spend("boots")
    <3>1. SpentOK'
      BY <1>0, <2>2, SpendKeeps DEF Others
    <3> QED
      BY <1>0, <1>12, <3>1 DEF Boot, IInv, TypeOK, TxOK
  <2> QED
    BY <1>12, <2>1, <2>2 DEF Boot
<1>13. ASSUME NEW a \in Alarms, MirrorLands(a) \/ MirrorLost(a)
       PROVE  IInv'
  <2>1. sending' \in [Alarms -> Nat]
    BY <1>0, <1>13 DEF MirrorLands, MirrorLost
  <2>2. SpentOK'
    <3>1. CASE MirrorLands(a)
      BY <1>0, <3>1 DEF MirrorLands, SpentOK
    <3>2. CASE MirrorLost(a)
      BY <1>0, <3>2, SpendKeeps DEF MirrorLost, Others
    <3> QED
      BY <1>13, <3>1, <3>2
  <2> QED
    BY <1>0, <1>13, <2>1, <2>2 DEF MirrorLands, MirrorLost, IInv, TypeOK, TxOK
<1>14. CASE UNCHANGED vars
  BY <1>0, <1>14 DEF vars, IInv, TypeOK, SpentOK, TxOK
<1>15. CASE Hang
  BY <1>0, <1>15 DEF Hang, IInv, TypeOK, SpentOK, TxOK
<1> QED
  BY <1>1, <1>2, <1>3, <1>4, <1>5, <1>6, <1>7, <1>8, <1>9, <1>10, <1>11, <1>12, <1>13, <1>14,
     <1>15
     DEF Next

\* The types hold always.
LEMMA AlwaysIInv == Spec => []IInv
  BY InitIInv, NextIInv, PTL DEF Spec

\* The file, the task's memory and the mirror keep their types.
THEOREM TypeCorrect == Spec => []TypeOK
<1>1. IInv => TypeOK
  BY DEF IInv
<1> QED
  BY <1>1, AlwaysIInv, PTL

--------------------------------------------------------------------------------
(* The counters.                                                               *)

\* Only a call that names init counts as one, only setting an alarm counts as that,
\* and no step forgets a failed COMMIT, a swallowed failure or a missed scan.
LEMMA SpentMoves ==
  ASSUME IInv, [Next]_vars
  PROVE  /\ CallInit \/ spent'.inits = spent.inits
         /\ SetAlarm \/ spent'.alarms = spent.alarms
         /\ spent'.commits = 0 => spent.commits = 0 /\ ~CommitFails
         /\ spent'.slips = 0 => spent.slips = 0 /\ ~Spend("slips")
         /\ spent'.boots = 0 => spent.boots = 0 /\ ~Spend("boots")
<1> USE DEF memory, history
<1>0. /\ SpentOK /\ spent.commits \in Nat /\ spent.slips \in Nat /\ spent.boots \in Nat
      /\ file.alarm \in Alarms
  BY DEF IInv, SpentOK, TypeOK, File
<1>1. Spend("slips") => spent'.slips > 0
  BY <1>0, SpendOne DEF Others
<1>2. Spend("boots") => spent'.boots > 0
  BY <1>0, SpendOne DEF Others
<1>3. CommitFails => spent'.commits > 0
  BY <1>0, SpendOne DEF CommitFails, Others
<1>4. ASSUME spent' = spent
      PROVE  /\ spent'.inits = spent.inits /\ spent'.alarms = spent.alarms
             /\ spent'.commits = spent.commits /\ spent'.slips = spent.slips
             /\ spent'.boots = spent.boots
  BY <1>4
<1>5. ASSUME NEW what \in Others, Spend(what)
      PROVE  /\ what = "inits" \/ spent'.inits = spent.inits
             /\ spent'.alarms = spent.alarms
             /\ what = "commits" \/ spent'.commits = spent.commits
             /\ spent'.slips = 0 => spent.slips = 0
             /\ spent'.boots = 0 => spent.boots = 0
  BY <1>0, <1>1, <1>2, <1>5, SpendOne
<1>6. CASE Touch \/ Sweep \/ FireAlarm \/ Fail
  <2>1. spent' = spent \/ Spend("slips")
    <3>1. CASE Touch \/ Sweep
      BY <1>0, <3>1, LoadKeeps DEF Touch, Sweep, Spawn
    <3>2. CASE FireAlarm
      BY <3>2 DEF FireAlarm
    <3>3. CASE Fail
      BY <1>0, <3>3, LoadKeeps DEF Fail, Resync
    <3> QED
      BY <1>6, <3>1, <3>2, <3>3
  <2> QED
    BY <1>1, <1>2, <1>3, <1>4, <1>5, <2>1 DEF Others
<1>7. CASE Boot
  BY <1>1, <1>2, <1>3, <1>4, <1>5, <1>7 DEF Boot, Others
<1>8. CASE Hibernate \/ Dispatch \/ RunInit \/ Succeed \/ Hang \/ UNCHANGED vars
  <2>1. spent' = spent
    BY <1>8 DEF Hibernate, Dispatch, RunInit, Succeed, Hang, vars
  <2> QED
    BY <1>1, <1>2, <1>3, <1>4, <2>1
<1>9. CASE Receive \/ Crash
  <2>1. Spend("calls") \/ Spend("crashes")
    BY <1>9 DEF Receive, Crash
  <2> QED
    BY <1>1, <1>2, <1>3, <1>5, <2>1 DEF Others
<1>10. CASE CallInit
  <2>1. Spend("inits")
    BY <1>10 DEF CallInit
  <2> QED
    BY <1>1, <1>2, <1>3, <1>5, <1>10, <2>1 DEF Others
<1>11. CASE SetAlarm
  <2>1. spent' = [spent EXCEPT !.alarms = @ + 1]
    BY <1>11 DEF SetAlarm, Spend
  <2>2. /\ spent'.inits = spent.inits /\ spent'.commits = spent.commits
        /\ spent'.slips = spent.slips /\ spent'.boots = spent.boots
    BY <1>0, <2>1 DEF SpentOK
  <2> QED
    BY <1>1, <1>2, <1>3, <1>11, <2>2
<1>12. CASE CommitFails
  <2>1. Spend("commits")
    BY <1>12 DEF CommitFails
  <2> QED
    BY <1>1, <1>2, <1>3, <1>5, <1>12, <2>1 DEF Others
<1>13. CASE \E a \in Alarms : MirrorLands(a) \/ MirrorLost(a)
  <2>1. spent' = spent \/ Spend("mirrors")
    BY <1>13 DEF MirrorLands, MirrorLost
  <2> QED
    BY <1>1, <1>2, <1>3, <1>4, <1>5, <2>1 DEF Others
<1> QED
  BY <1>6, <1>7, <1>8, <1>9, <1>10, <1>11, <1>12, <1>13 DEF Next

--------------------------------------------------------------------------------
(* init, once in the life of a file.                                           *)

\* The inits whose effects a file holds are the callers' and the one it is marked
\* with.
Marked(f, n) == f.inits <= n + (IF f.init THEN 1 ELSE 0)

\* init's effects are committed once, and once more for each call that named it,
\* through failed calls, revived vms, failed commits and crashes.
THEOREM InitRunsOnce == Spec => []InitOnce
<1> DEFINE Inv == Marked(file, spent.inits) /\ Marked(tx, spent.inits)
<1>1. Init => Inv
  BY DEF Init, NewFile, Marked
<1>2. IInv /\ Inv /\ [Next]_vars => Inv'
  <2> SUFFICES ASSUME IInv, Inv, [Next]_vars PROVE Inv'
    OBVIOUS
  <2> USE DEF memory, history
  <2>0. file \in File /\ tx \in File /\ spent.inits \in Nat /\ SpentOK
    BY DEF IInv, TypeOK, SpentOK
  <2>1. CASE RunInit
    <3> DEFINE marked == [tx EXCEPT !.init = TRUE, !.inits = @ + 1]
    <3>1. ~tx.init => Marked(marked, spent.inits)
      BY <2>0 DEF Marked, File
    <3>2. file' = file /\ spent' = spent /\ (tx' = tx \/ (~tx.init /\ tx' = marked))
      BY <2>1 DEF RunInit
    <3> HIDE DEF marked
    <3> QED
      BY <3>1, <3>2
  <2>2. CASE SetAlarm \/ FireAlarm
    <3>1. \A f \in File, a \in Alarms, n \in Nat :
            Marked(f, n) => Marked([f EXCEPT !.alarm = a], n)
      BY DEF Marked, File
    <3>2. CASE SetAlarm
      <4>1. file' = file /\ tx' = [tx EXCEPT !.alarm = spent.alarms + 1]
        BY <3>2 DEF SetAlarm
      <4>2. spent.alarms + 1 \in Alarms
        BY <3>2, Bounds DEF SetAlarm, IInv, SpentOK
      <4>3. spent'.inits = spent.inits
        BY <2>0, <3>2 DEF SetAlarm, Spend, SpentOK
      <4> QED
        BY <2>0, <3>1, <4>1, <4>2, <4>3
    <3>3. CASE FireAlarm
      <4>1. /\ file' = file \/ file' = [file EXCEPT !.alarm = 0]
            /\ tx' = tx \/ tx' = [tx EXCEPT !.alarm = 0]
        BY <3>3 DEF FireAlarm
      <4>3. ~CallInit
        BY <3>3 DEF FireAlarm, CallInit
      <4>2. spent'.inits = spent.inits
        BY <4>3, SpentMoves
      <4> QED
        BY <2>0, <3>1, <4>1, <4>2, Bounds
    <3> QED
      BY <2>2, <3>2, <3>3
  <2>3. CASE CallInit
    <3>1. file' = file /\ tx' = [tx EXCEPT !.inits = @ + 1]
      BY <2>3 DEF CallInit
    <3>2. spent'.inits = spent.inits + 1
      BY <2>0, <2>3 DEF CallInit, Spend, SpentOK
    <3> QED
      BY <2>0, <3>1, <3>2 DEF Marked, File
  <2>4. ASSUME file' = file \/ file' = tx, tx' = tx \/ tx' = file, spent'.inits = spent.inits
        PROVE  Inv'
    BY <2>4
  <2>5. CASE Touch \/ Sweep \/ Hibernate \/ Receive \/ Dispatch \/ Succeed \/ CommitFails
             \/ Fail \/ Hang \/ Crash \/ Boot
    <3>1. spent'.inits = spent.inits
      <4>1. CASE CallInit
        <5>1. pc = "init" /\ pc' = "method" /\ file' = file /\ tx' # tx
          BY <2>0, <4>1 DEF CallInit, File
        <5> QED
          BY <2>5, <5>1 DEF Touch, Sweep, Spawn, Hibernate, Receive, Dispatch, Begin,
               Succeed, CommitFails, Fail, Hang, Crash, Boot
      <4> QED
        BY <4>1, SpentMoves
    <3> QED
      BY <2>4, <2>5, <3>1 DEF Touch, Sweep, Spawn, Hibernate, Receive, Dispatch, Begin,
           Succeed, CommitFails, Fail, Hang, Crash, Boot
  <2>6. CASE \E a \in Alarms : MirrorLands(a) \/ MirrorLost(a)
    <3>1. spent'.inits = spent.inits
      BY <2>0, <2>6 DEF MirrorLands, MirrorLost, Spend, SpentOK
    <3> QED
      BY <2>4, <2>6, <3>1 DEF MirrorLands, MirrorLost
  <2>7. CASE UNCHANGED vars
    BY <2>4, <2>7 DEF vars
  <2> QED
    BY <2>1, <2>2, <2>3, <2>5, <2>6, <2>7 DEF Next
<1>3. IInv /\ Inv => InitOnce
  BY DEF Marked, InitOnce, IInv, TypeOK, SpentOK, File
<1> QED
  BY <1>1, <1>2, <1>3, AlwaysIInv, PTL DEF Spec

--------------------------------------------------------------------------------
(* The alarm's two homes.                                                      *)

\* Where the cell stands at each point of the loop: with the row, cleared with
\* it, or with what the open transaction has made of the row.
CellInv == StorageSound =>
  /\ pc \in {"down", "gone", "loop", "fire"} => ~open
  /\ pc \in {"loop", "fire"} => cell = file.alarm
  /\ pc \in {"init", "method"} => cell = tx.alarm

LEMMA AlwaysCell == Spec => []CellInv
<1>1. Init => CellInv
  BY DEF Init, CellInv
<1>2. IInv /\ CellInv /\ [Next]_vars => CellInv'
  <2> SUFFICES ASSUME IInv, CellInv, [Next]_vars, StorageSound' PROVE CellInv'
    BY DEF CellInv
  <2>a. StorageSound /\ ~CommitFails /\ ~Spend("slips")
    BY SpentMoves DEF StorageSound
  <2> USE DEF memory, history
  <2>0. file \in File /\ tx \in File /\ file.alarm \in Alarms /\ SpentOK
    BY DEF IInv, TypeOK, File
  <2>b. \A a \in Alarms : LoadAlarm(a, file.alarm) => a = file.alarm
    BY <2>0, <2>a, LoadKeeps
  <2>1. CASE Touch \/ Sweep
    BY <2>a, <2>b, <2>1 DEF Touch, Sweep, Spawn, CellInv
  <2>2. CASE Hibernate \/ Crash \/ Boot \/ Hang
    BY <2>a, <2>2 DEF Hibernate, Crash, Boot, Hang, CellInv
  <2>3. CASE Receive \/ Dispatch
    BY <2>a, <2>3 DEF Receive, Dispatch, Begin, CellInv
  <2>4. CASE FireAlarm
    <3>1. ~open /\ file' = [file EXCEPT !.alarm = 0] /\ cell' = 0 /\ pc' = "fire" /\ open' = open
      BY <2>a, <2>4 DEF FireAlarm, CellInv
    <3>2. file'.alarm = 0
      BY <2>0, <3>1 DEF File
    <3> QED
      BY <2>a, <3>1, <3>2 DEF CellInv
  <2>5. CASE RunInit \/ CallInit
    <3>1. tx'.alarm = tx.alarm
      BY <2>0, <2>5 DEF RunInit, CallInit, File
    <3> QED
      BY <2>a, <2>5, <3>1 DEF RunInit, CallInit, CellInv
  <2>6. CASE SetAlarm
    <3>1. tx'.alarm = spent.alarms + 1 /\ cell' = spent.alarms + 1
      BY <2>0, <2>6 DEF SetAlarm, File
    <3> QED
      BY <2>a, <2>6, <3>1 DEF SetAlarm, CellInv
  <2>7. CASE Succeed
    BY <2>a, <2>7 DEF Succeed, CellInv
  <2>8. CASE CommitFails
    BY <2>a, <2>8
  <2>9. CASE Fail
    <3>1. PICK a \in Alarms : LoadAlarm(a, file.alarm) /\ cell' = a
      BY <2>a, <2>9 DEF Fail, Resync
    <3>2. open' = FALSE /\ file' = file /\ pc' = "loop"
      BY <2>a, <2>9 DEF Fail
    <3> QED
      BY <2>a, <2>b, <3>1, <3>2 DEF CellInv
  <2>10. CASE \E a \in Alarms : MirrorLands(a) \/ MirrorLost(a)
    BY <2>a, <2>10 DEF MirrorLands, MirrorLost, CellInv
  <2>11. CASE UNCHANGED vars
    BY <2>a, <2>11 DEF vars, CellInv
  <2> QED
    BY <2>1, <2>2, <2>3, <2>4, <2>5, <2>6, <2>7, <2>8, <2>9, <2>10, <2>11 DEF Next
<1> QED
  BY <1>1, <1>2, AlwaysIInv, PTL DEF Spec

\* As long as no COMMIT fails and no failure of the alarm's own statements or of a
\* ROLLBACK is swallowed, the alarm the loop waits on is the one on disk.
THEOREM CellFollowsRow == Spec => []CellMatchesRow
<1>1. CellInv => CellMatchesRow
  BY DEF CellInv, CellMatchesRow
<1> QED
  BY <1>1, AlwaysCell, PTL

--------------------------------------------------------------------------------
(* What a failed call set.                                                     *)

\* Alarms are set in ascending order, so one that a failed call set is never set
\* again; no committed alarm, and none of a dispatch under way, is one of them.
FailInv ==
  /\ file.alarm <= spent.alarms /\ tx.alarm <= spent.alarms
  /\ \A a \in failed : a <= spent.alarms
  /\ file.alarm # 0 => file.alarm \notin failed
  /\ pc \in {"init", "method"} /\ tx.alarm # 0 => tx.alarm \notin failed

\* No alarm of a call that failed, commit failures included, is ever on disk.
THEOREM FailedCallsSetNothing == Spec => []FailedSetsNothing
<1>1. Init => FailInv
  BY DEF Init, NewFile, FailInv
<1>2. IInv /\ FailInv /\ [Next]_vars => FailInv'
  <2> SUFFICES ASSUME IInv, FailInv, [Next]_vars PROVE FailInv'
    OBVIOUS
  <2> USE DEF memory, history
  <2>0. /\ file \in File /\ tx \in File /\ failed \subseteq Alarms /\ spent.alarms \in Nat
        /\ file.alarm \in Nat /\ tx.alarm \in Nat
    BY Bounds DEF IInv, TypeOK, SpentOK, File, Alarms
  <2>1. CASE Touch \/ Sweep \/ Hibernate \/ Boot \/ Hang
    <3>1. /\ file' = file /\ (tx' = file \/ tx' = tx) /\ failed' = failed
          /\ pc' \notin {"init", "method"} /\ ~SetAlarm
      BY <2>1 DEF Touch, Sweep, Spawn, Hibernate, Boot, Hang, SetAlarm
    <3>2. spent'.alarms = spent.alarms
      BY <3>1, SpentMoves
    <3> QED
      BY <3>1, <3>2 DEF FailInv
  <2>2. CASE Receive \/ Crash
    <3>1. spent'.alarms = spent.alarms
      BY <2>2 DEF Receive, Crash, Spend, IInv, SpentOK
    <3> QED
      BY <2>2, <3>1 DEF Receive, Crash, Begin, FailInv
  <2>3. CASE Dispatch
    BY <2>3 DEF Dispatch, Begin, FailInv
  <2>4. CASE FireAlarm
    <3>1. /\ file'.alarm = file.alarm \/ file'.alarm = 0
          /\ tx'.alarm = tx.alarm \/ tx'.alarm = 0
      BY <2>0, <2>4 DEF FireAlarm, File
    <3>2. failed' = failed /\ pc' = "fire" /\ ~SetAlarm
      BY <2>4 DEF FireAlarm, SetAlarm
    <3>3. spent'.alarms = spent.alarms
      BY <3>2, SpentMoves
    <3> QED
      BY <2>0, <3>1, <3>2, <3>3 DEF FailInv
  <2>5. CASE RunInit \/ CallInit
    <3>1. tx'.alarm = tx.alarm
      BY <2>0, <2>5 DEF RunInit, CallInit, File
    <3>2. spent'.alarms = spent.alarms
      BY <2>5 DEF RunInit, CallInit, Spend, IInv, SpentOK
    <3> QED
      BY <2>5, <3>1, <3>2 DEF RunInit, CallInit, FailInv
  <2>6. CASE SetAlarm
    <3>1. tx'.alarm = spent.alarms + 1 /\ spent'.alarms = spent.alarms + 1
      BY <2>0, <2>6 DEF SetAlarm, Spend, File, IInv, SpentOK
    <3>2. \A a \in failed : a \in Nat
      BY <2>0, Bounds DEF Alarms
    <3>3. spent.alarms + 1 \notin failed
      BY <2>0, <3>2 DEF FailInv
    <3>4. file' = file /\ failed' = failed
      BY <2>6 DEF SetAlarm
    <3> QED
      BY <2>0, <3>1, <3>2, <3>3, <3>4 DEF FailInv
  <2>7. CASE Succeed
    BY <2>7 DEF Succeed, FailInv
  <2>8. CASE CommitFails \/ Fail
    <3>1. spent'.alarms = spent.alarms
      <4>1. ~SetAlarm
        BY <2>8 DEF CommitFails, Fail, SetAlarm
      <4> QED
        BY <4>1, SpentMoves
    <3>2. file' = file /\ pc' = "loop" /\ (tx' = file \/ tx' = tx)
      BY <2>8 DEF CommitFails, Fail
    <3>3. failed' = Dropped
      BY <2>8 DEF CommitFails, Fail
    <3> QED
      BY <2>0, <3>1, <3>2, <3>3 DEF FailInv, Dropped
  <2>9. ASSUME NEW a \in Alarms, MirrorLands(a) \/ MirrorLost(a) PROVE FailInv'
    <3>1. spent'.alarms = spent.alarms
      BY <2>9 DEF MirrorLands, MirrorLost, Spend, IInv, SpentOK
    <3> QED
      BY <2>9, <3>1 DEF MirrorLands, MirrorLost, FailInv
  <2>10. CASE UNCHANGED vars
    BY <2>10 DEF vars, FailInv
  <2> QED
    BY <2>1, <2>2, <2>3, <2>4, <2>5, <2>6, <2>7, <2>8, <2>9, <2>10 DEF Next
<1>3. FailInv => FailedSetsNothing
  BY DEF FailInv, FailedSetsNothing
<1> QED
  BY <1>1, <1>2, <1>3, AlwaysIInv, PTL DEF Spec

--------------------------------------------------------------------------------
(* The alarm's third home.                                                     *)

\* A task that ends leaves no alarm behind, so an object with an alarm and no task
\* has come through a boot: the scan wrote the registry row, and what was in
\* flight to it had died with the process.
MirrorInv == StorageSound /\ spent.boots = 0 =>
  /\ pc = "down" => \A a \in Alarms : sending[a] = 0
  /\ pc = "gone" /\ file.alarm # 0 => mirror = file.alarm /\ \A a \in Alarms : sending[a] = 0

\* As long as no COMMIT fails, no storage failure is swallowed and no boot scan misses
\* the file, an alarm on disk without a task to wait on it has its registry row, the
\* right one, for the sweep to find: through lost and reordered mirror writes, rolled
\* back calls, hibernations and crashes.
THEOREM ColdAlarmsFound == Spec => []AlarmFindable
<1>1. Init => MirrorInv
  BY DEF Init, NewFile, MirrorInv
<1>2. IInv /\ CellInv /\ MirrorInv /\ [Next]_vars => MirrorInv'
  <2> SUFFICES ASSUME IInv, CellInv, MirrorInv, [Next]_vars, StorageSound', spent'.boots = 0
               PROVE  MirrorInv'
    BY DEF MirrorInv
  <2>a. StorageSound /\ spent.boots = 0 /\ ~CommitFails /\ ~Spend("boots")
    BY SpentMoves DEF StorageSound
  <2> USE DEF memory, history
  <2>1. CASE Touch \/ Sweep \/ Receive \/ Dispatch \/ FireAlarm \/ RunInit \/ CallInit \/ SetAlarm
             \/ Succeed \/ Fail \/ Hang
    <3>1. pc' \notin {"down", "gone"}
      BY <2>1 DEF Touch, Sweep, Spawn, Receive, Dispatch, Begin, FireAlarm, RunInit, CallInit,
           SetAlarm, Succeed, Fail, Hang
    <3> QED
      BY <3>1 DEF MirrorInv
  <2>2. CASE Hibernate
    <3>1. cell = 0 /\ pc = "loop" /\ file' = file /\ pc' = "gone"
      BY <2>2 DEF Hibernate
    <3>2. file'.alarm = 0
      BY <2>a, <3>1 DEF CellInv
    <3> QED
      BY <3>1, <3>2 DEF MirrorInv
  <2>3. CASE Crash
    <3>1. pc' = "down" /\ sending' = [a \in Alarms |-> 0]
      BY <2>3 DEF Crash
    <3> QED
      BY <3>1 DEF MirrorInv
  <2>4. CASE Boot
    BY <2>a, <2>4 DEF Boot, MirrorInv
  <2>5. CASE CommitFails
    BY <2>a, <2>5
  <2>6. ASSUME NEW a \in Alarms, MirrorLands(a) \/ MirrorLost(a) PROVE MirrorInv'
    <3>1. sending[a] > 0 /\ pc' = pc /\ file' = file
      BY <2>6 DEF MirrorLands, MirrorLost
    <3>2. sending[a] # 0
      BY <3>1
    <3>3. pc # "down" /\ ~(pc = "gone" /\ file.alarm # 0)
      BY <2>a, <3>2 DEF MirrorInv
    <3> QED
      BY <3>1, <3>3 DEF MirrorInv
  <2>7. CASE UNCHANGED vars
    BY <2>a, <2>7 DEF vars, MirrorInv
  <2> QED
    BY <2>1, <2>2, <2>3, <2>4, <2>5, <2>6, <2>7 DEF Next
<1>3. MirrorInv => AlarmFindable
  BY DEF MirrorInv, AlarmFindable
<1> QED
  BY <1>1, <1>2, <1>3, AlwaysCell, AlwaysIInv, PTL DEF Spec
====
