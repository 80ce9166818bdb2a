------------------------------- MODULE KeyValue --------------------------------
(* The key-value service of one project, and the scripts that use it.          *)
(*                                                                             *)
(* The database keeps the pairs (one partition per namespace) and a registry   *)
(* of namespaces.  An rpc is a series of statements without a transaction:     *)
(* each is atomic, other rpcs run between them, and a failing one ends the     *)
(* rpc.  A listing goes page by page through a namespace that keeps changing.  *)
EXTENDS Integers, Sequences, FiniteSets, Functions

CONSTANTS
  Namespaces,
  Reserved,    \* the namespaces that carry platform data
  Keys,        \* in clustering order: numbers from 1
  Kinds,       \* the kinds of lua values scripts write
  Handlers,    \* rpcs that may be under way at once
  PageSize,
  MaxCalls,    \* bound: rpcs that change something
  MaxFailures  \* bound: statements that fail


VARIABLES
  pairs,    \* the pairs table: namespace -> key -> [type, ttl] or Absent
  registry, \* the namespaces table
  todo,     \* handler -> the statements its rpc has left
  listing,  \* the page-by-page listing: [pc, ns, after, got], where got is how
            \* often it has answered each key
  stayed,   \* history: the keys that have been there since the listing began
  since,    \* history: namespaces written or registered while the handler's rpc ran
  torn,     \* history: namespaces whose rows an interrupted or overtaken rpc split
  calls, failures

vars == <<pairs, registry, todo, listing, stayed, since, torn, calls, failures>>

--------------------------------------------------------------------------------
(* Values.  A script's value is stored as text with the type that reads it.    *)

ValueTypes == {"string", "json", "integer", "number", "boolean"}
LuaKinds == {"nil", "boolean", "integer", "number", "string", "table", "vector", "function"}

ASSUME KeysAssumption ==
  /\ Keys \subseteq Nat \ {0} /\ IsFiniteSet(Keys)
  /\ PageSize \in Nat \ {0}
ASSUME NamespacesAssumption == Namespaces # {} /\ IsFiniteSet(Namespaces)
ASSUME KindsAssumption == Kinds \subseteq LuaKinds

Absent == [type |-> "absent", ttl |-> FALSE]
Row(type, ttl) == [type |-> type, ttl |-> ttl]

\* The stored type of a value; nil deletes, and what has no text is refused.
IntoServiceValue(kind) ==
  CASE kind = "nil" -> "delete"
    [] kind \in {"boolean", "integer", "number", "string"} -> kind
    [] kind \in {"table", "vector"} -> "json"
    [] OTHER -> "refused"

\* What a script reads: json comes back as a table, whatever it was.
PairIntoLua(type) ==
  CASE type = "json" -> "table"
    [] type = "absent" -> "nil"
    [] OTHER -> type

--------------------------------------------------------------------------------
(* The statements.                                                             *)

Write(ns, key, type, ttl) == [do |-> "write", ns |-> ns, key |-> key, row |-> Row(type, ttl)]
Erase(ns, key) == [do |-> "write", ns |-> ns, key |-> key, row |-> Absent]
Register(ns) == [do |-> "register", ns |-> ns]
DropPairs(ns) == [do |-> "drop", ns |-> ns]
Unregister(names) == [do |-> "unregister", names |-> names]
NamespaceNames == [do |-> "names"]

Present(ns) == {k \in Keys : pairs[ns][k] # Absent}
Emptied == [k \in Keys |-> Absent]

Get(ns, key) == pairs[ns][key]

\* The registry, and a count of each partition.
GetNamespaces == {[name |-> ns, count |-> Cardinality(Present(ns))] : ns \in registry}

\* A set is the pairs one after the other, each with its registration.
SetPairs(list) ==
  [i \in 1..(2 * Len(list)) |->
     LET pair == list[(i + 1) \div 2] IN IF i % 2 = 1 THEN pair ELSE Register(pair.ns)]

DeletePairs(list) == list
CreateNamespace(ns) == <<Register(ns)>>

DeleteNamespace_RegistryFirst(ns) == <<Unregister({ns}), DropPairs(ns)>>
DeleteNamespace(ns) == <<DropPairs(ns), Unregister({ns})>>

DeleteProject_RegistryOnly == <<Unregister(Namespaces)>>
\* The names are read first; what to drop is known once they are.
DeleteProject == <<NamespaceNames, Unregister(Namespaces)>>

\* The orders in which a set's elements may come.
Orders(S) == Bijection(1..Cardinality(S), S)

Unanswered == [k \in Keys |-> 0]

Init ==
  /\ pairs = [ns \in Namespaces |-> Emptied]
  /\ registry = {}
  /\ todo = [h \in Handlers |-> <<>>]
  /\ listing = [pc |-> "idle", ns |-> CHOOSE ns \in Namespaces : TRUE, after |-> 0, got |-> Unanswered]
  /\ stayed = {}
  /\ since = [h \in Handlers |-> {}]
  /\ torn = {}
  /\ calls = 0 /\ failures = 0

--------------------------------------------------------------------------------
(* Rpcs.                                                                       *)

Idle(h) == todo[h] = <<>>

\* Namespaces with a pair whose registration is still to come.
Unfinished == {ns \in Namespaces : \E h \in Handlers :
                 todo[h] # <<>> /\ Head(todo[h]) = Register(ns)}

\* A handler that may take an rpc.
Ready(h) == Idle(h) /\ calls < MaxCalls

Begin(h, statements) ==
  /\ Ready(h)
  /\ todo' = [todo EXCEPT ![h] = statements]
  /\ since' = [since EXCEPT ![h] = Unfinished]
  /\ calls' = calls + 1
  /\ UNCHANGED <<pairs, registry, listing, stayed, torn, failures>>

\* From a script: kv "ns" mints a handle for a namespace that is not reserved.
Declarable == Namespaces \ Reserved

ScriptSet(h) ==
  \E ns \in Declarable, key \in Keys, kind \in Kinds :
    LET type == IntoServiceValue(kind) IN
    /\ type # "refused"
    /\ Begin(h, IF type = "delete" THEN DeletePairs(<<Erase(ns, key)>>)
                ELSE SetPairs(<<Write(ns, key, type, FALSE)>>))

\* One table, two rpcs: what is to be set goes first, then what is to be deleted.
ScriptSetBatch(h) ==
  /\ Ready(h)
  /\ \E ns \in Declarable, set, gone \in SUBSET Keys :
       /\ set \cap gone = {} /\ set \cup gone # {}
       /\ \E keep \in Orders(set), drop \in Orders(gone) :
            Begin(h, SetPairs([i \in 1..Cardinality(set) |-> Write(ns, keep[i], "string", FALSE)])
                     \o DeletePairs([i \in 1..Cardinality(gone) |-> Erase(ns, drop[i])]))

ScriptDelete(h) ==
  /\ Ready(h)
  /\ \E ns \in Declarable, keys \in SUBSET Keys \ {{}} : \E order \in Orders(keys) :
       Begin(h, DeletePairs([i \in 1..Cardinality(keys) |-> Erase(ns, order[i])]))

\* From the api: pairs that may expire, and what deletes whole partitions.
ApiCall(h) ==
  \/ \E ns \in Namespaces, key \in Keys :
       Begin(h, SetPairs(<<Write(ns, key, "string", TRUE)>>))
  \/ \E ns \in Namespaces : Begin(h, CreateNamespace(ns)) \/ Begin(h, DeleteNamespace(ns))
  \/ Begin(h, DeleteProject)

--------------------------------------------------------------------------------
(* Statements run.                                                             *)

Wrote(ns) == since' = [g \in Handlers |-> IF Idle(g) THEN since[g] ELSE since[g] \cup {ns}]
Rest(h) == todo' = [todo EXCEPT ![h] = Tail(@)]

Execute(h) ==
  /\ ~Idle(h)
  /\ LET s == Head(todo[h]) IN
     \/ /\ s.do = "write"
        /\ pairs' = [pairs EXCEPT ![s.ns][s.key] = s.row]
        /\ stayed' = IF s.ns = listing.ns /\ s.row = Absent THEN stayed \ {s.key} ELSE stayed
        /\ Wrote(s.ns)
        /\ Rest(h)
        /\ UNCHANGED <<registry, torn>>
     \/ /\ s.do = "register"
        /\ registry' = registry \cup {s.ns}
        /\ torn' = torn \ {s.ns}
        /\ Wrote(s.ns)
        /\ Rest(h)
        /\ UNCHANGED <<pairs, stayed>>
     \/ /\ s.do = "drop"
        /\ pairs' = [pairs EXCEPT ![s.ns] = Emptied]
        /\ stayed' = IF s.ns = listing.ns THEN {} ELSE stayed
        /\ Rest(h)
        /\ UNCHANGED <<registry, since, torn>>
     \/ /\ s.do = "names"
        /\ \E order \in Orders(registry) :
             todo' = [todo EXCEPT ![h] = [i \in 1..Cardinality(registry) |->
                                            DropPairs(order[i])] \o Tail(@)]
        /\ UNCHANGED <<pairs, registry, stayed, since, torn>>
     \/ /\ s.do = "unregister"
        /\ registry' = registry \ s.names
        /\ torn' = torn \cup (s.names \cap since[h])
        /\ Rest(h)
        /\ UNCHANGED <<pairs, stayed, since>>
  /\ UNCHANGED <<listing, calls, failures>>

\* The statement fails, or the process dies: the rpc ends where it stands.
StatementFails(h) ==
  /\ ~Idle(h) /\ failures < MaxFailures
  /\ failures' = failures + 1
  /\ todo' = [todo EXCEPT ![h] = <<>>]
  /\ torn' = IF Head(todo[h]).do = "register" THEN torn \cup {Head(todo[h]).ns} ELSE torn
  /\ UNCHANGED <<pairs, registry, listing, stayed, since, calls>>

\* A pair's time to live is over.
Expire(ns, key) ==
  /\ pairs[ns][key].ttl
  /\ pairs' = [pairs EXCEPT ![ns][key] = Absent]
  /\ stayed' = IF ns = listing.ns THEN stayed \ {key} ELSE stayed
  /\ UNCHANGED <<registry, todo, listing, since, torn, calls, failures>>

--------------------------------------------------------------------------------
(* Listing.  A token is the position after the last key of a page.             *)

ListBegin(ns) ==
  /\ listing.pc = "idle"
  /\ listing' = [pc |-> "page", ns |-> ns, after |-> 0, got |-> Unanswered]
  /\ stayed' = Present(ns)
  /\ UNCHANGED <<pairs, registry, todo, since, torn, calls, failures>>

Remaining == {k \in Present(listing.ns) : k > listing.after}

\* What one page holds of these keys: the first ones, no more than fit, and fewer
\* where the server cuts a page short.
IsPage(page, from) ==
  /\ Cardinality(page) <= PageSize
  /\ \A k \in page, l \in from \ page : k < l

\* A page.  The server says there is more when there is, and may when there is not.
ListPageFrom(from) ==
  /\ listing.pc = "page"
  /\ \E page \in SUBSET from, more \in BOOLEAN :
       /\ IsPage(page, from)
       /\ page # from => more
       /\ \E after \in IF page = {} THEN {listing.after} ELSE page :
            /\ \A k \in page : k <= after
            /\ listing' = [listing EXCEPT !.pc = IF more THEN "probe" ELSE "done",
                                          !.after = after,
                                          !.got = [k \in Keys |-> IF k \in page THEN @[k] + 1 ELSE @[k]]]
  /\ UNCHANGED <<pairs, registry, todo, stayed, since, torn, calls, failures>>

ListPage_Inclusive == ListPageFrom({k \in Present(listing.ns) : k >= listing.after})
ListPage == ListPageFrom(Remaining)

\* The count from there on: none, and the page is the last.
ListProbe ==
  /\ listing.pc = "probe"
  /\ listing' = [listing EXCEPT !.pc = IF Remaining # {} THEN "page" ELSE "done"]
  /\ UNCHANGED <<pairs, registry, todo, stayed, since, torn, calls, failures>>

ListEnd ==
  /\ listing.pc \in {"page", "done"}
  /\ listing' = [listing EXCEPT !.pc = "idle", !.got = Unanswered, !.after = 0]
  /\ stayed' = {}
  /\ UNCHANGED <<pairs, registry, todo, since, torn, calls, failures>>

Next ==
  \/ \E h \in Handlers :
       ScriptSet(h) \/ ScriptSetBatch(h) \/ ScriptDelete(h) \/ ApiCall(h)
       \/ Execute(h) \/ StatementFails(h)
  \/ \E ns \in Namespaces, key \in Keys : Expire(ns, key)
  \/ \E ns \in Namespaces : ListBegin(ns)
  \/ ListPage \/ ListProbe \/ ListEnd

Spec == Init /\ [][Next]_vars

--------------------------------------------------------------------------------
(* Properties.                                                                 *)

TypeOK ==
  /\ \A ns \in Namespaces, k \in Keys :
       pairs[ns][k] \in {Absent} \cup [type : ValueTypes, ttl : BOOLEAN]
  /\ registry \subseteq Namespaces /\ torn \subseteq Namespaces
  /\ \A h \in Handlers : since[h] \subseteq Namespaces
  /\ listing.pc \in {"idle", "page", "probe", "done"}
  /\ stayed \subseteq Keys

\* A pair a get still answers lies in a namespace the listing shows, so that a
\* delete of the project will find it.  The statements of set and of the deletes
\* are ordered for that; what escapes are pairs whose registration is still to
\* come, and namespaces an rpc left half way or a delete overtook (torn).
AnsweredIsListed ==
  \A ns \in Namespaces, k \in Keys :
    PairIntoLua(Get(ns, k).type) # "nil" =>
      \/ \E n \in GetNamespaces : n.name = ns
      \/ ns \in Unfinished \cup torn

\* When delete_project returns, nothing is left of the project but what was
\* written while it ran and what an earlier rpc had torn off the registry.
ProjectGone ==
  [][\A h \in Handlers :
       todo[h] # <<>> /\ Head(todo[h]) = Unregister(Namespaces)
       /\ todo'[h] = <<>> /\ failures' = failures =>
         \A ns \in Namespaces :
           (\E k \in Keys : pairs'[ns][k] # Absent) => ns \in since'[h] \cup torn']_vars

\* A listing that says it is over has answered every key that was there all
\* along, and none twice, whatever came and went between its pages.
ListingComplete ==
  /\ listing.pc = "done" => \A k \in stayed : listing.got[k] > 0
  /\ \A k \in Keys : listing.got[k] <= 1
================================================================================
