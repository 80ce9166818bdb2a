------------------------------ MODULE LiveSessions -----------------------------
(* The live sessions of one script, as they are kept in redis.                 *)
(*                                                                             *)
(* A session is a key of its own with a time to live; the set of the script's  *)
(* session ids is another key with one.  put_session, delete_session and       *)
(* delete_script send their commands one at a time, without a transaction, and *)
(* any number of them overlap.                                                 *)
EXTENDS Integers, FiniteSets

CONSTANTS
  Sessions,   \* session ids
  Calls,      \* calls of the session manager in flight at once
  SESSION_TTL,\* how long a key outlives its last write
  MaxPuts,    \* bound: bundles put
  MaxDeletes, \* bound: deletes called
  MaxLost     \* bound: calls that end half way

ASSUME LiveAssumption == SESSION_TTL \in Nat \ {0} /\ {MaxPuts, MaxDeletes, MaxLost} \subseteq Nat

VARIABLES
  clock,    \* the time the keys expire by
  session,  \* session id -> [bundle, until] of its key; bundle 0 is no key
  index,    \* [members, until] of the set's key
  call,     \* call -> [op, of, bundle, rest]: what it does and has left to delete
  puts, deletes, lost, \* what is used up of the bounds
  overtaken \* history: a put ended half way, overlapped a delete, or was so slow
            \* that the set expired under it

live == <<session, index, call, puts, deletes, lost, overtaken>>

Persistent == -1 \* of a key without a time to live
NoSession == [bundle |-> 0, until |-> 0]
NoIndex == [members |-> {}, until |-> 0]
Resting == [op |-> "none", of |-> {}, bundle |-> 0, rest |-> {}]

LiveInit ==
  /\ clock = 0
  /\ session = [s \in Sessions |-> NoSession] /\ index = NoIndex
  /\ call = [c \in Calls |-> Resting]
  /\ puts = 0 /\ deletes = 0 /\ lost = 0 /\ overtaken = FALSE

\* A key whose time has come reads as absent.
GetSession(s) == IF clock < session[s].until THEN session[s].bundle ELSE 0
Members == IF index.until = Persistent \/ clock < index.until THEN index.members ELSE {}

Putting == \E c \in Calls : call[c].op \in {"sadd", "expire"}
Deleting == \E c \in Calls : call[c].op \in {"srem", "dels"}

\* A put and a delete are under way together from now on.
Note(puttingToo, deletingToo) ==
  overtaken' = (overtaken \/ (puttingToo /\ Deleting) \/ (deletingToo /\ Putting))

--------------------------------------------------------------------------------

\* put_session: the bundle, then the member, then the set's time to live.
PutSession(c, s) ==
  /\ call[c].op = "none" /\ puts < MaxPuts
  /\ puts' = puts + 1
  /\ session' = [session EXCEPT ![s] = [bundle |-> puts + 1, until |-> clock + SESSION_TTL]]
  /\ call' = [call EXCEPT ![c] = [op |-> "sadd", of |-> {s}, bundle |-> puts + 1, rest |-> {}]]
  /\ Note(TRUE, FALSE)
  /\ UNCHANGED <<clock, index, deletes, lost>>

\* SADD creates the set without a time to live when there is none.
PutAdds(c) ==
  /\ call[c].op = "sadd"
  /\ index' = [members |-> Members \cup call[c].of,
               until |-> IF Members = {} THEN Persistent ELSE index.until]
  /\ call' = [call EXCEPT ![c].op = "expire"]
  /\ UNCHANGED <<clock, session, puts, deletes, lost, overtaken>>

PutExpires_Once(c) ==
  /\ call[c].op = "expire"
  /\ index' = IF index.until = Persistent THEN [index EXCEPT !.until = clock + SESSION_TTL] ELSE index
  /\ overtaken' = (overtaken \/ ~(call[c].of \subseteq Members))
  /\ call' = [call EXCEPT ![c] = Resting]
  /\ UNCHANGED <<clock, session, puts, deletes, lost>>

\* EXPIRE does nothing when the set has expired since it was added to.
PutExpires(c) ==
  /\ call[c].op = "expire"
  /\ index' = IF Members = {} THEN index ELSE [index EXCEPT !.until = clock + SESSION_TTL]
  /\ overtaken' = (overtaken \/ ~(call[c].of \subseteq Members))
  /\ call' = [call EXCEPT ![c] = Resting]
  /\ UNCHANGED <<clock, session, puts, deletes, lost>>

DeleteSession(c, s) ==
  /\ call[c].op = "none" /\ deletes < MaxDeletes
  /\ deletes' = deletes + 1
  /\ session' = [session EXCEPT ![s] = NoSession]
  /\ call' = [call EXCEPT ![c] = [op |-> "srem", of |-> {s}, bundle |-> 0, rest |-> {}]]
  /\ Note(FALSE, TRUE)
  /\ UNCHANGED <<clock, index, puts, lost>>

SessionRemoved(c) ==
  /\ call[c].op = "srem"
  /\ index' = IF Members \ call[c].of = {} THEN NoIndex
              ELSE [index EXCEPT !.members = Members \ call[c].of]
  /\ call' = [call EXCEPT ![c] = Resting]
  /\ UNCHANGED <<clock, session, puts, deletes, lost, overtaken>>

\* delete_script: the members, a delete each, then the set.
DeleteSessionsOfScript(c) ==
  /\ call[c].op = "none" /\ deletes < MaxDeletes
  /\ deletes' = deletes + 1
  /\ call' = [call EXCEPT ![c] = [op |-> "dels", of |-> {}, bundle |-> 0, rest |-> Members]]
  /\ Note(FALSE, TRUE)
  /\ UNCHANGED <<clock, session, index, puts, lost>>

DeleteMember(c) ==
  /\ call[c].op = "dels"
  /\ \/ \E s \in call[c].rest :
          /\ session' = [session EXCEPT ![s] = NoSession]
          /\ call' = [call EXCEPT ![c].rest = @ \ {s}]
          /\ UNCHANGED index
     \/ /\ call[c].rest = {}
        /\ index' = NoIndex
        /\ call' = [call EXCEPT ![c] = Resting]
        /\ UNCHANGED session
  /\ UNCHANGED <<clock, puts, deletes, lost, overtaken>>

\* A command fails, or the handler is dropped: the rest is not sent.
CallLost(c) ==
  /\ call[c].op # "none" /\ lost < MaxLost
  /\ lost' = lost + 1
  /\ overtaken' = (overtaken \/ call[c].op \in {"sadd", "expire"})
  /\ call' = [call EXCEPT ![c] = Resting]
  /\ UNCHANGED <<clock, session, index, puts, deletes>>

LiveNext ==
  \E c \in Calls :
    \/ PutAdds(c) \/ PutExpires(c) \/ SessionRemoved(c) \/ DeleteMember(c) \/ CallLost(c)
    \/ DeleteSessionsOfScript(c)
    \/ \E s \in Sessions : PutSession(c, s) \/ DeleteSession(c, s)

--------------------------------------------------------------------------------

\* Deleting a script deletes its sessions: every session that can be served is
\* in the set delete_script walks, whatever was put, refreshed, deleted and left
\* to expire before.  Not while its put is on its way, and no more once a put has
\* ended half way, overlapped a delete or outlasted the set: such a session is
\* served until it expires.
SessionsIndexed ==
  ~overtaken =>
    \A s \in Sessions :
      GetSession(s) # 0 =>
        s \in Members \/ \E c \in Calls : call[c].op \in {"sadd", "expire"} /\ s \in call[c].of
====
