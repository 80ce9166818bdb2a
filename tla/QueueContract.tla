----------------------------- MODULE QueueContract -----------------------------
(* What the `__queue` class promises of each message, whatever batches, ids,   *)
(* retries, crashes and rollbacks lie beneath: a message once queued leaves    *)
(* only by a delivery its listener accepted, by dead-lettering, or by an       *)
(* operator's drop; what was delivered or dropped never comes back.            *)

CONSTANT Messages

VARIABLES
  status,  \* what became of each message
  heard    \* the messages the listener has accepted, at least once

vars == <<status, heard>>

Init ==
  /\ status = [m \in Messages |-> "unsent"]
  /\ heard = {}

In(s) == {m \in Messages : status[m] = s}

Move(D, s) == status' = [m \in Messages |-> IF m \in D THEN s ELSE status[m]]

Send(m) ==
  /\ status[m] = "unsent"
  /\ Move({m}, "queued")
  /\ UNCHANGED heard

Hear(m) ==
  /\ status[m] = "queued"
  /\ heard' = heard \cup {m}
  /\ UNCHANGED status

\* One commit settles a batch: some messages delivered, some dead-lettered.
Settle(D, X) ==
  /\ D \subseteq In("queued") \cap heard
  /\ X \subseteq In("queued") \ D
  /\ status' = [m \in Messages |->
                  IF m \in D THEN "delivered" ELSE IF m \in X THEN "dead" ELSE status[m]]
  /\ UNCHANGED heard

Requeue(D) ==
  /\ D \subseteq In("dead")
  /\ Move(D, "queued")
  /\ UNCHANGED heard

\* A drop names one message.
Drop(m) ==
  /\ status[m] \in {"queued", "dead"}
  /\ Move({m}, "dropped")
  /\ UNCHANGED heard

Next ==
  \/ \E m \in Messages : Send(m) \/ Hear(m) \/ Drop(m)
  \/ \E D \in SUBSET Messages : Requeue(D) \/ \E X \in SUBSET Messages : Settle(D, X)

Spec == Init /\ [][Next]_vars
====
