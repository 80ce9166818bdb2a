---------------------------- MODULE KeyValueProofs -----------------------------
(* What the key-value service promises, for any namespaces, keys and handlers: *)
(* pairs stay findable, a project delete leaves nothing it was asked for, and  *)
(* a listing misses nothing that stayed.                                       *)
EXTENDS KeyValue, FiniteSetTheorems, TLAPS

--------------------------------------------------------------------------------
(* The inductive invariant.                                                    *)

Rows == {Absent} \cup [type : ValueTypes, ttl : BOOLEAN]

Statement ==
  [do : {"write"}, ns : Namespaces, key : Keys, row : Rows]
  \cup [do : {"register", "drop"}, ns : Namespaces]
  \cup [do : {"unregister"}, names : SUBSET Namespaces]
  \cup [do : {"names"}]

TypeInv ==
  /\ pairs \in [Namespaces -> [Keys -> Rows]]
  /\ registry \subseteq Namespaces /\ torn \subseteq Namespaces
  /\ todo \in [Handlers -> Seq(Statement)]
  /\ since \in [Handlers -> SUBSET Namespaces]
  /\ stayed \subseteq Keys
  /\ listing \in [pc : {"idle", "page", "probe", "done"}, ns : Namespaces, after : Nat,
                  got : [Keys -> Nat]]

\* A handler's statements: a pair that is written is registered next, names are
\* read first and then everything is unregistered, and an unregistration is last.
Shape(rest) ==
  /\ \A i \in 1..Len(rest) :
       /\ rest[i].do = "write" /\ rest[i].row # Absent =>
            i + 1 \in 1..Len(rest) /\ rest[i + 1] = Register(rest[i].ns)
       /\ rest[i].do = "names" =>
            i = 1 /\ Len(rest) = 2 /\ rest[2] = Unregister(Namespaces)
       /\ rest[i].do = "unregister" => i = Len(rest)

ShapeInv == \A h \in Handlers : Shape(todo[h])

Holds(p, ns) == \E k \in Keys : p[ns][k] # Absent

\* A namespace with pairs is registered, or about to be, or torn off.
ListedInv == \A ns \in Namespaces : Holds(pairs, ns) => ns \in registry \cup Unfinished \cup torn

\* To a handler under way it is registered, or written since it began, or torn off.
KnownInv ==
  \A h \in Handlers : todo[h] # <<>> =>
    \A ns \in Namespaces : Holds(pairs, ns) => ns \in registry \cup since[h] \cup torn

\* The partitions `rest` still drops.
Dropping(rest, ns) == \E i \in 1..Len(rest) : rest[i].do = "drop" /\ rest[i].ns = ns

\* What an rpc is about to unregister has pairs only where it still drops them,
\* where they were written since it began, or where they were torn off.
Spares(rest, p, s, t) ==
  rest # <<>> /\ rest[1].do # "names" /\ rest[Len(rest)].do = "unregister" =>
    \A ns \in rest[Len(rest)].names :
      Holds(p, ns) => ns \in s \cup t \/ Dropping(rest, ns)

SparesInv == \A h \in Handlers : Spares(todo[h], pairs, since[h], torn)

\* A listing has answered each key up to its position that stayed, and none after it.
ListingInv ==
  /\ \A k \in stayed : pairs[listing.ns][k] # Absent
  /\ \A k \in Keys :
       /\ listing.got[k] <= 1
       /\ k > listing.after => listing.got[k] = 0
       /\ k \in stayed /\ (k <= listing.after \/ listing.pc = "done") => listing.got[k] > 0

PairsInv == ShapeInv /\ ListedInv /\ KnownInv /\ SparesInv

IInv == TypeInv /\ PairsInv /\ ListingInv

--------------------------------------------------------------------------------
(* Statements and lists of them.                                               *)

\* What the kinds of statements carry.
LEMMA StatementKinds ==
  ASSUME NEW s \in Statement
  PROVE  /\ s.do \in {"write", "register", "drop", "unregister", "names"}
         /\ s.do = "write" => s.ns \in Namespaces /\ s.key \in Keys /\ s.row \in Rows
         /\ s.do \in {"register", "drop"} => s.ns \in Namespaces
         /\ s.do = "register" => s = Register(s.ns)
         /\ s.do = "unregister" => s.names \subseteq Namespaces
<1>1. CASE s \in [do : {"write"}, ns : Namespaces, key : Keys, row : Rows]
  BY <1>1
<1>2. CASE s \in [do : {"register", "drop"}, ns : Namespaces]
  BY <1>2 DEF Register
<1>3. CASE s \in [do : {"unregister"}, names : SUBSET Namespaces]
  BY <1>3
<1>4. CASE s \in [do : {"names"}]
  BY <1>4
<1> QED BY <1>1, <1>2, <1>3, <1>4 DEF Statement

\* The statements the operators build are of these kinds.
LEMMA BuiltStatements ==
  /\ \A ns \in Namespaces : /\ Register(ns) \in Statement /\ Register(ns).do = "register"
                            /\ Register(ns).ns = ns
                            /\ DropPairs(ns) \in Statement /\ DropPairs(ns).do = "drop"
                            /\ DropPairs(ns).ns = ns
                            /\ \A key \in Keys : /\ Erase(ns, key) \in Statement
                                                 /\ Erase(ns, key).do = "write"
                                                 /\ Erase(ns, key).row = Absent
                                                 /\ Erase(ns, key).ns = ns
  /\ \A names \in SUBSET Namespaces : /\ Unregister(names) \in Statement
                                      /\ Unregister(names).do = "unregister"
                                      /\ Unregister(names).names = names
  /\ NamespaceNames \in Statement /\ NamespaceNames.do = "names"
  BY DEF Register, DropPairs, Erase, Unregister, NamespaceNames, Statement, Rows

LEMMA BuiltWrites ==
  ASSUME NEW ns \in Namespaces, NEW key \in Keys, NEW type \in ValueTypes, NEW ttl \in BOOLEAN
  PROVE  /\ Write(ns, key, type, ttl) \in Statement
         /\ Write(ns, key, type, ttl).do = "write"
         /\ Write(ns, key, type, ttl).ns = ns
         /\ Write(ns, key, type, ttl).row # Absent
<1>1. Row(type, ttl) \in Rows
  BY DEF Row, Rows
<1>2. Row(type, ttl) # Absent
  BY DEF Row, Absent, ValueTypes
<1> QED BY <1>1, <1>2 DEF Write, Statement

\* What is left of a handler's statements after the first.
LEMMA Rests ==
  ASSUME NEW rest \in Seq(Statement), rest # <<>>, Shape(rest)
  PROVE  /\ Len(rest) \in Nat \ {0} /\ Head(rest) = rest[1] /\ rest[1] \in Statement
         /\ rest[Len(rest)] \in Statement
         /\ Tail(rest) \in Seq(Statement) /\ Len(Tail(rest)) = Len(rest) - 1
         /\ \A i \in 1..(Len(rest) - 1) : Tail(rest)[i] = rest[i + 1]
         /\ Shape(Tail(rest))
<1>1. Len(rest) \in Nat \ {0} /\ Head(rest) = rest[1] /\ rest[1] \in Statement
      /\ rest[Len(rest)] \in Statement
  OBVIOUS
<1>2. /\ Tail(rest) \in Seq(Statement) /\ Len(Tail(rest)) = Len(rest) - 1
      /\ \A i \in 1..(Len(rest) - 1) : Tail(rest)[i] = rest[i + 1]
  OBVIOUS
<1>3. Shape(Tail(rest))
  <2> DEFINE t == Tail(rest)
  <2> SUFFICES ASSUME NEW i \in 1..Len(t)
               PROVE  /\ t[i].do = "write" /\ t[i].row # Absent =>
                           i + 1 \in 1..Len(t) /\ t[i + 1] = Register(t[i].ns)
                      /\ t[i].do = "names" =>
                           i = 1 /\ Len(t) = 2 /\ t[2] = Unregister(Namespaces)
                      /\ t[i].do = "unregister" => i = Len(t)
    BY DEF Shape
  <2> HIDE DEF t
  <2>1. i \in 1..(Len(rest) - 1) /\ t[i] = rest[i + 1] /\ i + 1 \in 1..Len(rest) /\ i + 1 # 1
    BY <1>1, <1>2 DEF t
  <2>2. t[i].do = "write" /\ t[i].row # Absent =>
          i + 1 \in 1..Len(t) /\ t[i + 1] = Register(t[i].ns)
    <3> SUFFICES ASSUME t[i].do = "write", t[i].row # Absent
                 PROVE  i + 1 \in 1..Len(t) /\ t[i + 1] = Register(t[i].ns)
      OBVIOUS
    <3>1. (i + 1) + 1 \in 1..Len(rest) /\ rest[(i + 1) + 1] = Register(rest[i + 1].ns)
      BY <2>1 DEF Shape
    <3>2. i + 1 \in 1..(Len(rest) - 1)
      BY <3>1, <2>1, <1>1
    <3> QED BY <3>1, <3>2, <2>1, <1>2 DEF t
  <2>3. t[i].do # "names"
    BY <2>1 DEF Shape
  <2>4. t[i].do = "unregister" => i = Len(t)
    <3>1. t[i].do = "unregister" => i + 1 = Len(rest)
      BY <2>1 DEF Shape
    <3>2. Len(t) = Len(rest) - 1
      BY <1>2 DEF t
    <3> QED BY <3>1, <3>2, <2>1, <1>1
  <2> QED BY <2>2, <2>3, <2>4
<1> QED BY <1>1, <1>2, <1>3

LEMMA Joined ==
  ASSUME NEW a \in Seq(Statement), NEW b \in Seq(Statement)
  PROVE  /\ a \o b \in Seq(Statement) /\ Len(a \o b) = Len(a) + Len(b)
         /\ \A i \in 1..Len(a) : (a \o b)[i] = a[i]
         /\ \A i \in 1..Len(b) : (a \o b)[Len(a) + i] = b[i]
  OBVIOUS

LEMMA NotEmpty ==
  ASSUME NEW t \in Seq(Statement), Len(t) # 0
  PROVE  t # <<>> /\ Head(t) = t[1]
  OBVIOUS

\* A list an rpc may begin with.
NewRpc(list) ==
  /\ list \in Seq(Statement) /\ Shape(list)
  /\ list # <<>> /\ list[1].do # "names" /\ list[Len(list)].do = "unregister" =>
       \A ns \in list[Len(list)].names : Dropping(list, ns)

\* One that only writes and registers.
Plain(list) ==
  /\ list \in Seq(Statement)
  /\ \A i \in 1..Len(list) :
       /\ list[i].do \in {"write", "register"}
       /\ list[i].do = "write" /\ list[i].row # Absent =>
            i + 1 \in 1..Len(list) /\ list[i + 1] = Register(list[i].ns)

LEMMA PlainRpc == ASSUME NEW list, Plain(list) PROVE NewRpc(list)
<1>1. list \in Seq(Statement) /\ Shape(list)
  BY DEF Plain, Shape
<1>2. list # <<>> => Len(list) \in 1..Len(list)
  BY <1>1
<1>3. list # <<>> => list[Len(list)].do # "unregister"
  BY <1>2 DEF Plain
<1> QED BY <1>1, <1>3 DEF NewRpc

LEMMA PlainJoin == ASSUME NEW a, NEW b, Plain(a), Plain(b) PROVE Plain(a \o b)
<1> DEFINE c == a \o b
<1>1. a \in Seq(Statement) /\ b \in Seq(Statement) /\ Len(a) \in Nat /\ Len(b) \in Nat
  BY DEF Plain
<1>2. /\ c \in Seq(Statement) /\ Len(c) = Len(a) + Len(b)
      /\ \A i \in 1..Len(a) : c[i] = a[i]
      /\ \A i \in 1..Len(b) : c[Len(a) + i] = b[i]
  BY <1>1, Joined
<1> HIDE DEF c
<1> SUFFICES ASSUME NEW i \in 1..Len(c)
             PROVE  /\ c[i].do \in {"write", "register"}
                    /\ c[i].do = "write" /\ c[i].row # Absent =>
                         i + 1 \in 1..Len(c) /\ c[i + 1] = Register(c[i].ns)
  BY <1>2 DEF Plain, c
<1>3. CASE i \in 1..Len(a)
  <2>1. c[i] = a[i] /\ a[i].do \in {"write", "register"}
    BY <1>2, <1>3 DEF Plain
  <2>2. c[i].do = "write" /\ c[i].row # Absent =>
          i + 1 \in 1..Len(a) /\ a[i + 1] = Register(a[i].ns)
    BY <2>1, <1>3 DEF Plain
  <2>3. i + 1 \in 1..Len(a) => i + 1 \in 1..Len(c) /\ c[i + 1] = a[i + 1]
    BY <1>1, <1>2
  <2> QED BY <2>1, <2>2, <2>3
<1>4. CASE i \notin 1..Len(a)
  <2>1. PICK j \in 1..Len(b) : i = Len(a) + j
    <3>1. i - Len(a) \in 1..Len(b) /\ i = Len(a) + (i - Len(a))
      BY <1>1, <1>2, <1>4
    <3> QED BY <3>1
  <2>2. c[i] = b[j] /\ b[j].do \in {"write", "register"}
    BY <1>2, <2>1 DEF Plain
  <2>3. c[i].do = "write" /\ c[i].row # Absent =>
          j + 1 \in 1..Len(b) /\ b[j + 1] = Register(b[j].ns)
    BY <2>2 DEF Plain
  <2>4. j + 1 \in 1..Len(b) => i + 1 \in 1..Len(c) /\ c[Len(a) + (j + 1)] = b[j + 1]
    BY <1>1, <1>2, <2>1
  <2>5. i + 1 = Len(a) + (j + 1)
    BY <1>1, <2>1
  <2> QED BY <2>2, <2>3, <2>4, <2>5
<1> QED BY <1>3, <1>4

\* A set of pairs: each is written and then registered.
LEMMA SetIsPlain ==
  ASSUME NEW n \in Nat, NEW list \in [1..n -> Statement],
         \A i \in 1..n : list[i].do = "write" /\ list[i].ns \in Namespaces
  PROVE  Plain(SetPairs(list))
<1> DEFINE half(i) == (i + 1) \div 2
           set == SetPairs(list)
<1>1. Len(list) = n
  OBVIOUS
<1>2. /\ DOMAIN set = 1..(2 * n)
      /\ \A i \in 1..(2 * n) :
           set[i] = IF i % 2 = 1 THEN list[half(i)] ELSE Register(list[half(i)].ns)
  BY <1>1 DEF SetPairs
<1>3. \A i \in 1..(2 * n) :
        /\ half(i) \in 1..n
        /\ i % 2 # 1 => i % 2 = 0
        /\ i % 2 = 1 => i + 1 \in 1..(2 * n) /\ (i + 1) % 2 = 0 /\ half(i + 1) = half(i)
  OBVIOUS
<1>4. SetPairs(list) = [i \in 1..(2 * n) |-> set[i]]
  BY <1>2, <1>1 DEF SetPairs
<1> HIDE DEF half, set
<1>5. \A i \in 1..(2 * n) : list[half(i)] \in Statement /\ list[half(i)].do = "write"
                            /\ list[half(i)].ns \in Namespaces
  BY <1>3
<1>6. \A i \in 1..(2 * n) :
        /\ i % 2 = 1 => set[i] = list[half(i)]
        /\ i % 2 # 1 => set[i] = Register(list[half(i)].ns)
  BY <1>2
<1>7. \A i \in 1..(2 * n) : set[i] \in Statement /\ set[i].do \in {"write", "register"}
  BY <1>5, <1>6, BuiltStatements
<1>8. \A i \in 1..(2 * n) : set[i].do = "write" =>
        i + 1 \in 1..(2 * n) /\ set[i + 1] = Register(set[i].ns)
  <2> SUFFICES ASSUME NEW i \in 1..(2 * n), set[i].do = "write"
               PROVE  i + 1 \in 1..(2 * n) /\ set[i + 1] = Register(set[i].ns)
    OBVIOUS
  <2>1. i % 2 = 1
    BY <1>5, <1>6, BuiltStatements
  <2>2. i + 1 \in 1..(2 * n) /\ (i + 1) % 2 # 1 /\ half(i + 1) = half(i)
    BY <1>3, <2>1
  <2>3. set[i + 1] = Register(list[half(i)].ns) /\ set[i] = list[half(i)]
    BY <1>6, <2>1, <2>2
  <2> QED BY <2>2, <2>3
<1>9. 2 * n \in Nat
  OBVIOUS
<1>10. set \in Seq(Statement) /\ Len(set) = 2 * n
  <2> DEFINE m == 2 * n
  <2>1. m \in Nat /\ \A i \in 1..m : set[i] \in Statement
    BY <1>7, <1>9
  <2>2. set = [i \in 1..m |-> set[i]]
    BY <1>4 DEF set
  <2> HIDE DEF m
  <2>3. [i \in 1..m |-> set[i]] \in Seq(Statement) /\ Len([i \in 1..m |-> set[i]]) = m
    BY <2>1
  <2> QED BY <2>2, <2>3 DEF m
<1> QED BY <1>7, <1>8, <1>10 DEF Plain, set

\* A list of deletes.
LEMMA EraseIsPlain ==
  ASSUME NEW n \in Nat, NEW ns \in Namespaces, NEW f \in [1..n -> Keys]
  PROVE  Plain(DeletePairs([i \in 1..n |-> Erase(ns, f[i])]))
<1> DEFINE list == [i \in 1..n |-> Erase(ns, f[i])]
<1>1. \A i \in 1..n : /\ Erase(ns, f[i]) \in Statement /\ Erase(ns, f[i]).do = "write"
                      /\ Erase(ns, f[i]).row = Absent
  BY BuiltStatements
<1>2. list \in Seq(Statement) /\ Len(list) = n /\ \A i \in 1..n : list[i] = Erase(ns, f[i])
  BY <1>1
<1> HIDE DEF list
<1>3. Plain(list)
  BY <1>1, <1>2 DEF Plain
<1> QED BY <1>3 DEF DeletePairs, list

\* An order of a set of keys is a function from its places.
LEMMA OrderOfKeys ==
  ASSUME NEW S \in SUBSET Keys, NEW f \in Orders(S)
  PROVE  Cardinality(S) \in Nat /\ f \in [1..Cardinality(S) -> Keys]
<1>1. IsFiniteSet(S)
  BY KeysAssumption, FS_Subset
<1>2. Cardinality(S) \in Nat
  BY <1>1, FS_CardinalityType
<1>3. f \in [1..Cardinality(S) -> S]
  BY DEF Orders, Bijection, Injection
<1> QED BY <1>2, <1>3

\* One pair, set or deleted.
LEMMA OnePair ==
  ASSUME NEW ns \in Namespaces, NEW key \in Keys
  PROVE  /\ \A type \in ValueTypes, ttl \in BOOLEAN : NewRpc(SetPairs(<<Write(ns, key, type, ttl)>>))
         /\ NewRpc(DeletePairs(<<Erase(ns, key)>>))
<1>1. ASSUME NEW type \in ValueTypes, NEW ttl \in BOOLEAN
      PROVE  NewRpc(SetPairs(<<Write(ns, key, type, ttl)>>))
  <2> DEFINE w == Write(ns, key, type, ttl)
  <2>1. w \in Statement /\ w.do = "write" /\ w.ns \in Namespaces
    BY BuiltWrites
  <2> HIDE DEF w
  <2>2. <<w>> \in [1..1 -> Statement] /\ \A i \in 1..1 : <<w>>[i] = w
    BY <2>1
  <2>3. Plain(SetPairs(<<w>>))
    BY <2>1, <2>2, SetIsPlain
  <2> QED BY <2>3, PlainRpc DEF w
<1>2. NewRpc(DeletePairs(<<Erase(ns, key)>>))
  <2> DEFINE e == Erase(ns, key)
  <2>1. e \in Statement /\ e.do = "write" /\ e.row = Absent
    BY BuiltStatements
  <2> HIDE DEF e
  <2>2. <<e>> \in Seq(Statement) /\ Len(<<e>>) = 1 /\ \A i \in 1..1 : <<e>>[i] = e
    BY <2>1
  <2>3. Plain(<<e>>)
    BY <2>1, <2>2 DEF Plain
  <2> QED BY <2>3, PlainRpc DEF DeletePairs, e
<1> QED BY <1>1, <1>2

\* A batch: what is set, then what is deleted.
LEMMA Batch ==
  ASSUME NEW ns \in Namespaces, NEW set \in SUBSET Keys, NEW gone \in SUBSET Keys,
         NEW keep \in Orders(set), NEW drop \in Orders(gone)
  PROVE  NewRpc(SetPairs([i \in 1..Cardinality(set) |-> Write(ns, keep[i], "string", FALSE)])
                \o DeletePairs([i \in 1..Cardinality(gone) |-> Erase(ns, drop[i])]))
<1>1. /\ Cardinality(set) \in Nat /\ keep \in [1..Cardinality(set) -> Keys]
      /\ Cardinality(gone) \in Nat /\ drop \in [1..Cardinality(gone) -> Keys]
  BY OrderOfKeys
<1> DEFINE n == Cardinality(set)
           list == [i \in 1..n |-> Write(ns, keep[i], "string", FALSE)]
<1>2. \A i \in 1..n : /\ Write(ns, keep[i], "string", FALSE) \in Statement
                      /\ Write(ns, keep[i], "string", FALSE).do = "write"
                      /\ Write(ns, keep[i], "string", FALSE).ns = ns
  <2>1. "string" \in ValueTypes
    BY DEF ValueTypes
  <2> QED BY <1>1, <2>1, BuiltWrites
<1>3. list \in [1..n -> Statement] /\ \A i \in 1..n : list[i].do = "write" /\ list[i].ns \in Namespaces
  BY <1>2
<1> HIDE DEF list
<1>4. Plain(SetPairs(list))
  BY <1>1, <1>3, SetIsPlain
<1>5. Plain(DeletePairs([i \in 1..Cardinality(gone) |-> Erase(ns, drop[i])]))
  BY <1>1, EraseIsPlain
<1>6. NewRpc(SetPairs(list) \o DeletePairs([i \in 1..Cardinality(gone) |-> Erase(ns, drop[i])]))
  BY <1>4, <1>5, PlainJoin, PlainRpc
<1> QED BY <1>6 DEF list

LEMMA Deletes ==
  ASSUME NEW ns \in Namespaces, NEW keys \in SUBSET Keys, NEW order \in Orders(keys)
  PROVE  NewRpc(DeletePairs([i \in 1..Cardinality(keys) |-> Erase(ns, order[i])]))
<1>1. Cardinality(keys) \in Nat /\ order \in [1..Cardinality(keys) -> Keys]
  BY OrderOfKeys
<1>2. Plain(DeletePairs([i \in 1..Cardinality(keys) |-> Erase(ns, order[i])]))
  BY <1>1, EraseIsPlain
<1> QED BY <1>2, PlainRpc

\* Whole namespaces.
LEMMA Partitions ==
  /\ NewRpc(DeleteProject)
  /\ \A ns \in Namespaces : NewRpc(CreateNamespace(ns)) /\ NewRpc(DeleteNamespace(ns))
<1>1. NewRpc(DeleteProject)
  <2> DEFINE a == NamespaceNames
             b == Unregister(Namespaces)
             list == <<a, b>>
  <2>1. a \in Statement /\ a.do = "names" /\ b \in Statement /\ b.do = "unregister"
    BY BuiltStatements
  <2>2. b = Unregister(Namespaces)
    OBVIOUS
  <2> HIDE DEF a, b
  <2>3. list \in Seq(Statement) /\ Len(list) = 2 /\ list[1] = a /\ list[2] = b
        /\ \A i \in 1..2 : i = 1 \/ i = 2
    BY <2>1
  <2> HIDE DEF list
  <2>4. Shape(list)
    BY <2>1, <2>2, <2>3 DEF Shape
  <2>5. NewRpc(list)
    BY <2>1, <2>3, <2>4 DEF NewRpc
  <2> QED BY <2>5 DEF list, a, b, DeleteProject
<1>2. ASSUME NEW ns \in Namespaces PROVE NewRpc(CreateNamespace(ns))
  <2> DEFINE a == Register(ns)
             list == <<a>>
  <2>1. a \in Statement /\ a.do = "register"
    BY BuiltStatements
  <2> HIDE DEF a
  <2>2. list \in Seq(Statement) /\ Len(list) = 1 /\ \A i \in 1..1 : list[i] = a
    BY <2>1
  <2> HIDE DEF list
  <2>3. Plain(list)
    BY <2>1, <2>2 DEF Plain
  <2> QED BY <2>3, PlainRpc DEF list, a, CreateNamespace
<1>3. ASSUME NEW ns \in Namespaces PROVE NewRpc(DeleteNamespace(ns))
  <2> DEFINE a == DropPairs(ns)
             b == Unregister({ns})
             list == <<a, b>>
  <2>1. /\ a \in Statement /\ a.do = "drop" /\ a.ns = ns
        /\ b \in Statement /\ b.do = "unregister" /\ b.names = {ns}
    BY BuiltStatements
  <2> HIDE DEF a, b
  <2>2. list \in Seq(Statement) /\ Len(list) = 2 /\ list[1] = a /\ list[2] = b
        /\ \A i \in 1..2 : i = 1 \/ i = 2
    BY <2>1
  <2> HIDE DEF list
  <2>3. Shape(list)
    BY <2>1, <2>2 DEF Shape
  <2>4. Dropping(list, ns)
    BY <2>1, <2>2 DEF Dropping
  <2>5. NewRpc(list)
    BY <2>1, <2>2, <2>3, <2>4 DEF NewRpc
  <2> QED BY <2>5 DEF list, a, b, DeleteNamespace
<1> QED BY <1>1, <1>2, <1>3

\* Every call begins with such a list.
LEMMA CallsBegin ==
  ASSUME NEW h \in Handlers, ScriptSet(h) \/ ScriptSetBatch(h) \/ ScriptDelete(h) \/ ApiCall(h)
  PROVE  \E list : NewRpc(list) /\ Begin(h, list)
<1>0. Declarable \subseteq Namespaces
  BY DEF Declarable
<1>1. CASE ScriptSet(h)
  <2>1. PICK ns \in Declarable, key \in Keys, kind \in Kinds :
          LET type == IntoServiceValue(kind) IN
          /\ type # "refused"
          /\ Begin(h, IF type = "delete" THEN DeletePairs(<<Erase(ns, key)>>)
                      ELSE SetPairs(<<Write(ns, key, type, FALSE)>>))
    BY <1>1 DEF ScriptSet
  <2>2. CASE IntoServiceValue(kind) = "delete"
    BY <1>0, <2>1, <2>2, OnePair
  <2>3. CASE IntoServiceValue(kind) # "delete"
    <3>1. IntoServiceValue(kind) \in ValueTypes
      BY <2>1, <2>3, KindsAssumption DEF IntoServiceValue, ValueTypes, LuaKinds
    <3> QED BY <1>0, <2>1, <2>3, <3>1, OnePair
  <2> QED BY <2>2, <2>3
<1>2. CASE ScriptSetBatch(h)
  <2>1. PICK ns \in Declarable, set \in SUBSET Keys, gone \in SUBSET Keys :
          \E keep \in Orders(set), drop \in Orders(gone) :
            Begin(h, SetPairs([i \in 1..Cardinality(set) |-> Write(ns, keep[i], "string", FALSE)])
                     \o DeletePairs([i \in 1..Cardinality(gone) |-> Erase(ns, drop[i])]))
    BY <1>2 DEF ScriptSetBatch
  <2> QED BY <1>0, <2>1, Batch
<1>3. CASE ScriptDelete(h)
  BY <1>0, <1>3, Deletes DEF ScriptDelete
<1>4. CASE ApiCall(h)
  <2>1. CASE \E ns \in Namespaces, key \in Keys : Begin(h, SetPairs(<<Write(ns, key, "string", TRUE)>>))
    <3>1. "string" \in ValueTypes
      BY DEF ValueTypes
    <3> QED BY <2>1, <3>1, OnePair
  <2>2. CASE \E ns \in Namespaces : Begin(h, CreateNamespace(ns)) \/ Begin(h, DeleteNamespace(ns))
    BY <2>2, Partitions
  <2>3. CASE Begin(h, DeleteProject)
    BY <2>3, Partitions
  <2> QED BY <1>4, <2>1, <2>2, <2>3 DEF ApiCall
<1> QED BY <1>1, <1>2, <1>3, <1>4

--------------------------------------------------------------------------------
(* What a step of one handler leaves of the others' expectations.              *)

\* New pairs and lost marks are known as written since.
LEMMA SparesKept ==
  ASSUME NEW rest \in Seq(Statement), NEW p, NEW q, NEW s, NEW t, NEW s2, NEW t2,
         Spares(rest, p, s, t),
         rest # <<>> => /\ \A ns \in Namespaces : Holds(q, ns) => Holds(p, ns) \/ ns \in s2
                        /\ s \subseteq s2 /\ t \subseteq s2 \cup t2
  PROVE  Spares(rest, q, s2, t2)
<1> SUFFICES ASSUME rest # <<>>, rest[1].do # "names", rest[Len(rest)].do = "unregister",
                    NEW ns \in rest[Len(rest)].names, Holds(q, ns)
             PROVE  ns \in s2 \cup t2 \/ Dropping(rest, ns)
  BY DEF Spares
<1>1. rest[Len(rest)] \in Statement
  OBVIOUS
<1>2. ns \in Namespaces
  BY <1>1, StatementKinds
<1>3. Holds(p, ns) => ns \in s \cup t \/ Dropping(rest, ns)
  BY DEF Spares
<1> QED BY <1>2, <1>3

\* The same for the handler that makes the step, which a drop has emptied.
LEMMA SparesTail ==
  ASSUME NEW rest \in Seq(Statement), NEW p, NEW q, NEW s, NEW t, NEW s2, NEW t2,
         rest # <<>>, Shape(rest), Spares(rest, p, s, t), rest[1].do # "names",
         \A ns \in Namespaces : Holds(q, ns) => Holds(p, ns) \/ ns \in s2,
         s \subseteq s2, t \subseteq s2 \cup t2,
         rest[1].do = "drop" => ~Holds(q, rest[1].ns)
  PROVE  Spares(Tail(rest), q, s2, t2)
<1> DEFINE u == Tail(rest)
<1>1. /\ Len(rest) \in Nat \ {0} /\ rest[Len(rest)] \in Statement
      /\ u \in Seq(Statement) /\ Len(u) = Len(rest) - 1
      /\ \A i \in 1..(Len(rest) - 1) : u[i] = rest[i + 1]
  BY Rests
<1> HIDE DEF u
<1> SUFFICES ASSUME u # <<>>, u[Len(u)].do = "unregister", NEW ns \in u[Len(u)].names, Holds(q, ns)
             PROVE  ns \in s2 \cup t2 \/ Dropping(u, ns)
  BY DEF Spares, u
<1>2. Len(u) \in 1..(Len(rest) - 1) /\ Len(u) + 1 = Len(rest)
  BY <1>1
<1>3. u[Len(u)] = rest[Len(rest)]
  BY <1>1, <1>2
<1>4. ns \in Namespaces /\ (Holds(p, ns) => ns \in s \cup t \/ Dropping(rest, ns))
  BY <1>1, <1>3, StatementKinds DEF Spares
<1>5. CASE Dropping(rest, ns)
  <2>1. PICK i \in 1..Len(rest) : rest[i].do = "drop" /\ rest[i].ns = ns
    BY <1>5 DEF Dropping
  <2>2. i # 1
    BY <2>1
  <2>3. i - 1 \in 1..Len(u) /\ u[i - 1] = rest[i]
    BY <1>1, <2>1, <2>2
  <2> QED BY <2>1, <2>3 DEF Dropping
<1> QED BY <1>4, <1>5

\* A handler makes a statement other than the reading of names.
LEMMA Proceeds ==
  ASSUME TypeInv, PairsInv, NEW h \in Handlers, todo[h] # <<>>,
         todo' = [todo EXCEPT ![h] = Tail(@)], todo[h][1].do # "names",
         \A g \in Handlers : todo[g] # <<>> =>
           /\ \A ns \in Namespaces : Holds(pairs', ns) => Holds(pairs, ns) \/ ns \in since'[g]
           /\ since[g] \subseteq since'[g] /\ torn \subseteq since'[g] \cup torn',
         todo[h][1].do = "drop" => ~Holds(pairs', todo[h][1].ns)
  PROVE  todo' \in [Handlers -> Seq(Statement)] /\ ShapeInv' /\ SparesInv'
<1>0. todo \in [Handlers -> Seq(Statement)] /\ \A g \in Handlers : todo[g] \in Seq(Statement)
  BY DEF TypeInv
<1>1. Shape(todo[h]) /\ \A g \in Handlers : Shape(todo[g]) /\ Spares(todo[g], pairs, since[g], torn)
  BY DEF PairsInv, ShapeInv, SparesInv
<1>2. Tail(todo[h]) \in Seq(Statement) /\ Shape(Tail(todo[h]))
  BY <1>0, <1>1, Rests
<1>3. todo' \in [Handlers -> Seq(Statement)]
  BY <1>0, <1>2
<1>4. todo'[h] = Tail(todo[h]) /\ \A g \in Handlers : g # h => todo'[g] = todo[g]
  BY <1>0
<1>5. ShapeInv'
  BY <1>1, <1>2, <1>4 DEF ShapeInv
<1>6. Spares(Tail(todo[h]), pairs', since'[h], torn')
  BY <1>0, <1>1, SparesTail
<1>7. ASSUME NEW g \in Handlers, g # h PROVE Spares(todo[g], pairs', since'[g], torn')
  BY <1>0, <1>1, <1>7, SparesKept
<1>8. SparesInv'
  BY <1>4, <1>6, <1>7 DEF SparesInv
<1> QED BY <1>3, <1>5, <1>8

\* The registrations that stay to come when one handler's list changes.
LEMMA UnfinishedStays ==
  ASSUME TypeInv, NEW h \in Handlers, NEW ns \in Unfinished,
         \A g \in Handlers : g # h => todo'[g] = todo[g],
         todo[h] # <<>> => todo[h][1] # Register(ns)
  PROVE  ns \in Unfinished'
<1>1. PICK g \in Handlers : todo[g] # <<>> /\ Head(todo[g]) = Register(ns)
  BY DEF Unfinished
<1>2. todo[g] \in Seq(Statement) /\ Head(todo[g]) = todo[g][1]
  BY <1>1 DEF TypeInv
<1>3. g # h
  BY <1>1, <1>2
<1>4. ns \in Namespaces /\ todo'[g] # <<>> /\ Head(todo'[g]) = Register(ns)
  BY <1>1, <1>3 DEF Unfinished
<1> QED BY <1>4 DEF Unfinished

\* The listing's side of a statement: what stayed is still there.
LEMMA ListingKept ==
  ASSUME TypeInv, ListingInv, listing' = listing, stayed' \subseteq stayed,
         \A k \in stayed' : pairs'[listing.ns][k] # Absent
  PROVE  stayed' \subseteq Keys /\ ListingInv'
  BY DEF TypeInv, ListingInv

\* What a handler under way has before it.
LEMMA Underway ==
  ASSUME TypeInv, PairsInv, NEW h \in Handlers, todo[h] # <<>>
  PROVE  /\ todo[h] \in Seq(Statement) /\ Shape(todo[h])
         /\ Head(todo[h]) = todo[h][1] /\ todo[h][1] \in Statement
         /\ Len(todo[h]) \in Nat \ {0} /\ Tail(todo[h]) \in Seq(Statement)
<1>1. todo[h] \in Seq(Statement) /\ Shape(todo[h])
  BY DEF TypeInv, PairsInv, ShapeInv
<1> QED BY <1>1, Rests

\* Whoever is under way notes what is written.
LEMMA NotesWrites ==
  ASSUME TypeInv, NEW ns \in Namespaces, Wrote(ns)
  PROVE  /\ since' \in [Handlers -> SUBSET Namespaces]
         /\ \A g \in Handlers : todo[g] # <<>> => ns \in since'[g] /\ since[g] \subseteq since'[g]
<1>1. \A g \in Handlers : since'[g] = IF todo[g] = <<>> THEN since[g] ELSE since[g] \cup {ns}
  BY DEF Wrote, Idle
<1>2. since' = [g \in Handlers |-> since'[g]]
  BY DEF Wrote
<1>3. \A g \in Handlers : since'[g] \in SUBSET Namespaces
  BY <1>1 DEF TypeInv
<1>4. since' \in [Handlers -> SUBSET Namespaces]
  BY <1>2, <1>3
<1> QED BY <1>1, <1>4

LEMMA WriteInv ==
  ASSUME IInv, NEW h \in Handlers, todo[h] # <<>>, NEW s, s = todo[h][1], s.do = "write",
         pairs' = [pairs EXCEPT ![s.ns][s.key] = s.row],
         stayed' = IF s.ns = listing.ns /\ s.row = Absent THEN stayed \ {s.key} ELSE stayed,
         Wrote(s.ns), Rest(h), UNCHANGED <<registry, torn, listing>>
  PROVE  IInv'
<1> USE DEF IInv
<1>1. /\ todo[h] \in Seq(Statement) /\ Shape(todo[h]) /\ s \in Statement
      /\ Len(todo[h]) \in Nat \ {0}
  BY Underway
<1>2. s.ns \in Namespaces /\ s.key \in Keys /\ s.row \in Rows
  BY <1>1, StatementKinds
<1>3. /\ since' \in [Handlers -> SUBSET Namespaces]
      /\ \A g \in Handlers : todo[g] # <<>> => s.ns \in since'[g] /\ since[g] \subseteq since'[g]
  BY <1>2, NotesWrites
<1>4. /\ pairs \in [Namespaces -> [Keys -> Rows]] /\ registry \subseteq Namespaces
      /\ torn \subseteq Namespaces /\ torn' = torn /\ registry' = registry
      /\ todo' = [todo EXCEPT ![h] = Tail(@)] /\ todo \in [Handlers -> Seq(Statement)]
      /\ listing.ns \in Namespaces /\ stayed \subseteq Keys
  BY DEF TypeInv, Rest
<1>5. /\ pairs' \in [Namespaces -> [Keys -> Rows]]
      /\ \A ns \in Namespaces, k \in Keys :
           pairs'[ns][k] = IF ns = s.ns /\ k = s.key THEN s.row ELSE pairs[ns][k]
  BY <1>2, <1>4
<1>6. \A ns \in Namespaces : Holds(pairs', ns) => Holds(pairs, ns) \/ (ns = s.ns /\ s.row # Absent)
  BY <1>5 DEF Holds
<1>7. todo' \in [Handlers -> Seq(Statement)] /\ ShapeInv' /\ SparesInv'
  BY <1>3, <1>4, <1>6, Proceeds
<1>8. \A g \in Handlers : todo'[g] # <<>> => todo[g] # <<>>
  BY <1>4
<1>9. KnownInv'
  <2> SUFFICES ASSUME NEW g \in Handlers, todo'[g] # <<>>, NEW ns \in Namespaces, Holds(pairs', ns)
               PROVE  ns \in registry' \cup since'[g] \cup torn'
    BY DEF KnownInv
  <2>1. Holds(pairs, ns) => ns \in registry \cup since[g] \cup torn
    BY <1>8 DEF PairsInv, KnownInv
  <2> QED BY <1>3, <1>4, <1>6, <1>8, <2>1
<1>10. ListedInv'
  <2> SUFFICES ASSUME NEW ns \in Namespaces, Holds(pairs', ns)
               PROVE  ns \in registry' \cup Unfinished' \cup torn'
    BY DEF ListedInv
  <2>1. CASE Holds(pairs, ns)
    <3>1. ns \in registry \cup Unfinished \cup torn
      BY <2>1 DEF PairsInv, ListedInv
    <3>2. todo[h][1] # Register(ns)
      BY DEF Register
    <3>3. \A g \in Handlers : g # h => todo'[g] = todo[g]
      BY <1>4
    <3>4. ns \in Unfinished => ns \in Unfinished'
      BY <3>2, <3>3, UnfinishedStays
    <3> QED BY <1>4, <3>1, <3>4
  <2>2. CASE ns = s.ns /\ s.row # Absent
    <3>1. 1 \in 1..Len(todo[h])
      BY <1>1
    <3>2. 1 + 1 \in 1..Len(todo[h]) /\ todo[h][1 + 1] = Register(ns)
      BY <2>2, <3>1, <1>1 DEF Shape
    <3>3. Tail(todo[h]) # <<>> /\ Head(Tail(todo[h])) = todo[h][2]
      <4> DEFINE t == Tail(todo[h])
      <4>1. /\ t \in Seq(Statement) /\ Len(t) = Len(todo[h]) - 1
            /\ \A i \in 1..(Len(todo[h]) - 1) : t[i] = todo[h][i + 1]
        BY <1>1, Rests
      <4>2. 1 \in 1..(Len(todo[h]) - 1)
        BY <3>2, <1>1
      <4> HIDE DEF t
      <4>3. t[1] = todo[h][2] /\ Len(t) # 0
        <5>1. 1 + 1 = 2 /\ t[1] = todo[h][1 + 1]
          BY <4>1, <4>2
        <5>2. Len(t) # 0
          BY <4>1, <4>2
        <5> QED BY <5>1, <5>2
      <4>4. t # <<>> /\ Head(t) = t[1]
        BY <4>1, <4>3, NotEmpty
      <4> QED BY <4>3, <4>4 DEF t
    <3>4. todo'[h] = Tail(todo[h])
      BY <1>4
    <3>5. todo'[h] # <<>> /\ Head(todo'[h]) = Register(ns)
      BY <3>2, <3>3, <3>4
    <3>6. ns \in Unfinished'
      BY <3>5 DEF Unfinished
    <3> QED BY <3>6
  <2> QED BY <1>6, <2>1, <2>2
<1>11. stayed' \subseteq Keys /\ ListingInv'
  <2>1. stayed' \subseteq stayed
    OBVIOUS
  <2>2. \A k \in stayed' : pairs'[listing.ns][k] # Absent
    <3> SUFFICES ASSUME NEW k \in stayed' PROVE pairs'[listing.ns][k] # Absent
      OBVIOUS
    <3>1. k \in Keys /\ pairs[listing.ns][k] # Absent
      BY <1>4, <2>1 DEF ListingInv
    <3>2. listing.ns = s.ns /\ k = s.key => s.row # Absent
      OBVIOUS
    <3> QED BY <1>4, <1>5, <3>1, <3>2
  <2> QED BY <2>1, <2>2, ListingKept
<1>12. TypeInv'
  BY <1>3, <1>4, <1>5, <1>7, <1>11 DEF TypeInv
<1> QED BY <1>7, <1>9, <1>10, <1>11, <1>12 DEF PairsInv

LEMMA RegisterInv ==
  ASSUME IInv, NEW h \in Handlers, todo[h] # <<>>, NEW s, s = todo[h][1], s.do = "register",
         registry' = registry \cup {s.ns}, torn' = torn \ {s.ns},
         Wrote(s.ns), Rest(h), UNCHANGED <<pairs, stayed, listing>>
  PROVE  IInv'
<1> USE DEF IInv
<1>1. s \in Statement
  BY Underway
<1>2. s.ns \in Namespaces /\ s = Register(s.ns)
  BY <1>1, StatementKinds
<1>3. /\ since' \in [Handlers -> SUBSET Namespaces]
      /\ \A g \in Handlers : todo[g] # <<>> => s.ns \in since'[g] /\ since[g] \subseteq since'[g]
  BY <1>2, NotesWrites
<1>4. /\ pairs' = pairs /\ registry' \subseteq Namespaces /\ torn' \subseteq Namespaces
      /\ todo' = [todo EXCEPT ![h] = Tail(@)] /\ todo \in [Handlers -> Seq(Statement)]
  BY <1>2 DEF TypeInv, Rest
<1>5. todo' \in [Handlers -> Seq(Statement)] /\ ShapeInv' /\ SparesInv'
  BY <1>3, <1>4, Proceeds
<1>6. \A g \in Handlers : todo'[g] # <<>> => todo[g] # <<>>
  BY <1>4
<1>7. KnownInv'
  <2> SUFFICES ASSUME NEW g \in Handlers, todo'[g] # <<>>, NEW ns \in Namespaces, Holds(pairs, ns)
               PROVE  ns \in registry' \cup since'[g] \cup torn'
    BY <1>4 DEF KnownInv
  <2>1. ns \in registry \cup since[g] \cup torn
    BY <1>6 DEF PairsInv, KnownInv
  <2> QED BY <1>3, <1>6, <2>1
<1>8. ListedInv'
  <2> SUFFICES ASSUME NEW ns \in Namespaces, Holds(pairs, ns), ns # s.ns
               PROVE  ns \in registry' \cup Unfinished' \cup torn'
    BY <1>4 DEF ListedInv
  <2>1. ns \in registry \cup Unfinished \cup torn
    BY DEF PairsInv, ListedInv
  <2>2. todo[h][1] # Register(ns)
    BY <1>2 DEF Register
  <2>3. \A g \in Handlers : g # h => todo'[g] = todo[g]
    BY <1>4
  <2>4. ns \in Unfinished => ns \in Unfinished'
    BY <2>2, <2>3, UnfinishedStays
  <2> QED BY <2>1, <2>4
<1>9. stayed' \subseteq Keys /\ ListingInv'
  BY DEF TypeInv, ListingInv
<1>10. TypeInv'
  BY <1>3, <1>4, <1>5, <1>9 DEF TypeInv
<1> QED BY <1>5, <1>7, <1>8, <1>9, <1>10 DEF PairsInv

LEMMA DropInv ==
  ASSUME IInv, NEW h \in Handlers, todo[h] # <<>>, NEW s, s = todo[h][1], s.do = "drop",
         pairs' = [pairs EXCEPT ![s.ns] = Emptied],
         stayed' = IF s.ns = listing.ns THEN {} ELSE stayed,
         Rest(h), UNCHANGED <<registry, since, torn, listing>>
  PROVE  IInv'
<1> USE DEF IInv
<1>1. s \in Statement
  BY Underway
<1>2. s.ns \in Namespaces
  BY <1>1, StatementKinds
<1>3. /\ pairs \in [Namespaces -> [Keys -> Rows]]
      /\ registry' = registry /\ torn' = torn /\ since' = since
      /\ todo' = [todo EXCEPT ![h] = Tail(@)] /\ todo \in [Handlers -> Seq(Statement)]
      /\ listing.ns \in Namespaces /\ stayed \subseteq Keys
  BY DEF TypeInv, Rest
<1>4. /\ Emptied \in [Keys -> Rows] /\ \A k \in Keys : Emptied[k] = Absent
  BY DEF Emptied, Rows
<1>5. /\ pairs' \in [Namespaces -> [Keys -> Rows]] /\ pairs'[s.ns] = Emptied
      /\ \A ns \in Namespaces : ns # s.ns => pairs'[ns] = pairs[ns]
  BY <1>2, <1>3, <1>4
<1>6. /\ ~Holds(pairs', s.ns)
      /\ \A ns \in Namespaces : Holds(pairs', ns) => ns # s.ns /\ Holds(pairs, ns)
  BY <1>4, <1>5 DEF Holds
<1>7. todo' \in [Handlers -> Seq(Statement)] /\ ShapeInv' /\ SparesInv'
  BY <1>3, <1>6, Proceeds
<1>8. \A g \in Handlers : todo'[g] # <<>> => todo[g] # <<>>
  BY <1>3
<1>9. KnownInv'
  BY <1>3, <1>6, <1>8 DEF PairsInv, KnownInv
<1>10. ListedInv'
  <2> SUFFICES ASSUME NEW ns \in Namespaces, Holds(pairs, ns)
               PROVE  ns \in registry' \cup Unfinished' \cup torn'
    BY <1>6 DEF ListedInv
  <2>1. ns \in registry \cup Unfinished \cup torn
    BY DEF PairsInv, ListedInv
  <2>2. todo[h][1] # Register(ns)
    BY DEF Register
  <2>3. \A g \in Handlers : g # h => todo'[g] = todo[g]
    BY <1>3
  <2>4. ns \in Unfinished => ns \in Unfinished'
    BY <2>2, <2>3, UnfinishedStays
  <2> QED BY <1>3, <2>1, <2>4
<1>11. stayed' \subseteq Keys /\ ListingInv'
  <2>1. stayed' \subseteq stayed /\ \A k \in stayed' : listing.ns # s.ns
    OBVIOUS
  <2>2. \A k \in stayed' : pairs'[listing.ns][k] # Absent
    BY <1>3, <1>5, <2>1 DEF ListingInv
  <2> QED BY <2>1, <2>2, ListingKept
<1>12. TypeInv'
  BY <1>3, <1>5, <1>7, <1>11 DEF TypeInv
<1> QED BY <1>7, <1>9, <1>10, <1>11, <1>12 DEF PairsInv

LEMMA UnregisterInv ==
  ASSUME IInv, NEW h \in Handlers, todo[h] # <<>>, NEW s, s = todo[h][1], s.do = "unregister",
         registry' = registry \ s.names, torn' = torn \cup (s.names \cap since[h]),
         Rest(h), UNCHANGED <<pairs, stayed, since, listing>>
  PROVE  IInv'
<1> USE DEF IInv
<1>1. s \in Statement /\ Len(todo[h]) \in Nat \ {0} /\ Shape(todo[h])
  BY Underway
<1>2. /\ pairs' = pairs /\ since' = since /\ since[h] \subseteq Namespaces
      /\ todo' = [todo EXCEPT ![h] = Tail(@)] /\ todo \in [Handlers -> Seq(Statement)]
  BY DEF TypeInv, Rest
<1>3. Len(todo[h]) = 1
  <2>1. 1 \in 1..Len(todo[h])
    BY <1>1
  <2> QED BY <1>1, <2>1 DEF Shape
<1>4. \A ns \in s.names : Holds(pairs, ns) => ns \in torn'
  <2>1. \A ns : ~Dropping(todo[h], ns)
    BY <1>3 DEF Dropping
  <2>2. Spares(todo[h], pairs, since[h], torn)
    BY DEF PairsInv, SparesInv
  <2>3. \A ns \in s.names : Holds(pairs, ns) => ns \in since[h] \cup torn \/ Dropping(todo[h], ns)
    BY <1>3, <2>2 DEF Spares
  <2> QED BY <2>1, <2>3
<1>5. todo' \in [Handlers -> Seq(Statement)] /\ ShapeInv' /\ SparesInv'
  BY <1>2, Proceeds
<1>6. \A g \in Handlers : todo'[g] # <<>> => todo[g] # <<>>
  BY <1>2
<1>7. KnownInv'
  <2> SUFFICES ASSUME NEW g \in Handlers, todo'[g] # <<>>, NEW ns \in Namespaces, Holds(pairs, ns)
               PROVE  ns \in registry' \cup since[g] \cup torn'
    BY <1>2 DEF KnownInv
  <2>1. ns \in registry \cup since[g] \cup torn
    BY <1>6 DEF PairsInv, KnownInv
  <2> QED BY <1>4, <2>1
<1>8. ListedInv'
  <2> SUFFICES ASSUME NEW ns \in Namespaces, Holds(pairs, ns)
               PROVE  ns \in registry' \cup Unfinished' \cup torn'
    BY <1>2 DEF ListedInv
  <2>1. ns \in registry \cup Unfinished \cup torn
    BY DEF PairsInv, ListedInv
  <2>2. todo[h][1] # Register(ns)
    BY DEF Register
  <2>3. \A g \in Handlers : g # h => todo'[g] = todo[g]
    BY <1>2
  <2>4. ns \in Unfinished => ns \in Unfinished'
    BY <2>2, <2>3, UnfinishedStays
  <2> QED BY <1>4, <2>1, <2>4
<1>9. stayed' \subseteq Keys /\ ListingInv'
  BY DEF TypeInv, ListingInv
<1>10. TypeInv'
  BY <1>2, <1>5, <1>9 DEF TypeInv
<1> QED BY <1>5, <1>7, <1>8, <1>9, <1>10 DEF PairsInv

\* The names are read: every partition they name is dropped, then all are
\* unregistered.
LEMMA NamesInv ==
  ASSUME IInv, NEW h \in Handlers, todo[h] # <<>>, NEW s, s = todo[h][1], s.do = "names",
         NEW order \in Orders(registry),
         todo' = [todo EXCEPT ![h] = [i \in 1..Cardinality(registry) |->
                                        DropPairs(order[i])] \o Tail(@)],
         UNCHANGED <<pairs, registry, stayed, since, torn, listing>>
  PROVE  IInv'
<1> USE DEF IInv
<1>1. /\ todo[h] \in Seq(Statement) /\ Shape(todo[h]) /\ s \in Statement
      /\ Len(todo[h]) \in Nat \ {0} /\ Tail(todo[h]) \in Seq(Statement)
  BY Underway
<1>2. registry \subseteq Namespaces /\ todo \in [Handlers -> Seq(Statement)]
  BY DEF TypeInv
<1> DEFINE n == Cardinality(registry)
           a == [i \in 1..n |-> DropPairs(order[i])]
           b == Tail(todo[h])
           list == a \o b
<1>3. /\ n \in Nat /\ order \in [1..n -> registry]
      /\ \A ns \in registry : \E i \in 1..n : order[i] = ns
  <2>1. IsFiniteSet(registry)
    BY <1>2, NamespacesAssumption, FS_Subset
  <2> QED BY <2>1, FS_CardinalityType DEF Orders, Bijection, Injection, Surjection
<1>4. Len(todo[h]) = 2 /\ todo[h][2] = Unregister(Namespaces)
  <2>1. 1 \in 1..Len(todo[h])
    BY <1>1
  <2> QED BY <1>1, <2>1 DEF Shape
<1>5. b \in Seq(Statement) /\ Len(b) = 1 /\ b[1] = Unregister(Namespaces)
  <2>1. Len(b) = Len(todo[h]) - 1 /\ \A i \in 1..(Len(todo[h]) - 1) : b[i] = todo[h][i + 1]
    BY <1>1, Rests
  <2>2. 1 \in 1..(Len(todo[h]) - 1) /\ 1 + 1 = 2 /\ 2 - 1 = 1
    BY <1>4
  <2> QED BY <1>1, <1>4, <2>1, <2>2
<1>6. \A i \in 1..n : /\ DropPairs(order[i]) \in Statement /\ DropPairs(order[i]).do = "drop"
                      /\ DropPairs(order[i]).ns = order[i]
  BY <1>2, <1>3, BuiltStatements
<1>7. a \in Seq(Statement) /\ Len(a) = n /\ \A i \in 1..n : a[i] = DropPairs(order[i])
  BY <1>3, <1>6
<1> HIDE DEF n, a, b
<1>8. /\ list \in Seq(Statement) /\ Len(list) = n + 1 /\ list[n + 1] = b[1]
      /\ \A i \in 1..n : list[i] = a[i]
  <2>1. /\ list \in Seq(Statement) /\ Len(list) = Len(a) + Len(b)
        /\ \A i \in 1..Len(a) : list[i] = a[i]
        /\ \A i \in 1..Len(b) : list[Len(a) + i] = b[i]
    BY <1>5, <1>7, Joined
  <2> HIDE DEF list
  <2>2. 1 \in 1..Len(b)
    BY <1>5
  <2> QED BY <1>3, <1>5, <1>7, <2>1, <2>2
<1> HIDE DEF list
<1>9. /\ list[n + 1].do = "unregister" /\ list[n + 1].names = Namespaces
      /\ \A i \in 1..n : list[i].do = "drop" /\ list[i].ns = order[i]
  BY <1>5, <1>6, <1>7, <1>8, BuiltStatements
<1>10. \A i \in 1..(n + 1) : i \in 1..n \/ i = n + 1
  BY <1>3
<1>11. Shape(list)
  BY <1>8, <1>9, <1>10 DEF Shape
<1>12. Spares(list, pairs, since[h], torn)
  <2> SUFFICES ASSUME NEW ns \in Namespaces, Holds(pairs, ns)
               PROVE  ns \in since[h] \cup torn \/ Dropping(list, ns)
    BY <1>8, <1>9 DEF Spares
  <2>1. ns \in registry \cup since[h] \cup torn
    BY DEF PairsInv, KnownInv
  <2>2. ns \in registry => \E i \in 1..(n + 1) : list[i].do = "drop" /\ list[i].ns = ns
    <3> SUFFICES ASSUME ns \in registry
                 PROVE  \E i \in 1..(n + 1) : list[i].do = "drop" /\ list[i].ns = ns
      OBVIOUS
    <3>1. PICK i \in 1..n : order[i] = ns
      BY <1>3
    <3>2. i \in 1..(n + 1)
      BY <1>3
    <3> QED BY <1>9, <3>1, <3>2
  <2> QED BY <1>8, <2>1, <2>2 DEF Dropping
<1>13. /\ todo' = [todo EXCEPT ![h] = list]
       /\ pairs' = pairs /\ registry' = registry /\ since' = since /\ torn' = torn
  BY DEF list, a, b, n
<1>14. /\ todo' \in [Handlers -> Seq(Statement)] /\ todo'[h] = list
       /\ \A g \in Handlers : g # h => todo'[g] = todo[g]
  BY <1>2, <1>8, <1>13
<1>15. ShapeInv' /\ SparesInv'
  BY <1>11, <1>12, <1>13, <1>14 DEF PairsInv, ShapeInv, SparesInv
<1>16. KnownInv'
  BY <1>13, <1>14 DEF PairsInv, KnownInv
<1>17. ListedInv'
  <2> SUFFICES ASSUME NEW ns \in Namespaces, Holds(pairs, ns)
               PROVE  ns \in registry' \cup Unfinished' \cup torn'
    BY <1>13 DEF ListedInv
  <2>1. ns \in registry \cup Unfinished \cup torn
    BY DEF PairsInv, ListedInv
  <2>2. todo[h][1] # Register(ns)
    BY DEF Register
  <2>3. ns \in Unfinished => ns \in Unfinished'
    BY <1>14, <2>2, UnfinishedStays
  <2> QED BY <1>13, <2>1, <2>3
<1>18. stayed' \subseteq Keys /\ ListingInv'
  BY DEF TypeInv, ListingInv
<1>19. TypeInv'
  BY <1>13, <1>14, <1>18 DEF TypeInv
<1> QED BY <1>15, <1>16, <1>17, <1>18, <1>19 DEF PairsInv

LEMMA ExecuteInv == ASSUME IInv, NEW h \in Handlers, Execute(h) PROVE IInv'
<1>1. todo[h] # <<>> /\ Head(todo[h]) = todo[h][1]
  <2>1. todo[h] # <<>>
    BY DEF Execute, Idle
  <2> QED BY <2>1, Underway DEF IInv
<1> DEFINE s == todo[h][1]
<1>2. CASE s.do = "write"
  <2>1. /\ pairs' = [pairs EXCEPT ![s.ns][s.key] = s.row]
        /\ stayed' = IF s.ns = listing.ns /\ s.row = Absent THEN stayed \ {s.key} ELSE stayed
        /\ Wrote(s.ns) /\ Rest(h) /\ UNCHANGED <<registry, torn, listing>>
    BY <1>1, <1>2 DEF Execute
  <2> QED BY <1>1, <1>2, <2>1, WriteInv
<1>3. CASE s.do = "register"
  <2>1. /\ registry' = registry \cup {s.ns} /\ torn' = torn \ {s.ns}
        /\ Wrote(s.ns) /\ Rest(h) /\ UNCHANGED <<pairs, stayed, listing>>
    BY <1>1, <1>3 DEF Execute
  <2> QED BY <1>1, <1>3, <2>1, RegisterInv
<1>4. CASE s.do = "drop"
  <2>1. /\ pairs' = [pairs EXCEPT ![s.ns] = Emptied]
        /\ stayed' = IF s.ns = listing.ns THEN {} ELSE stayed
        /\ Rest(h) /\ UNCHANGED <<registry, since, torn, listing>>
    BY <1>1, <1>4 DEF Execute
  <2> QED BY <1>1, <1>4, <2>1, DropInv
<1>5. CASE s.do = "unregister"
  <2>1. /\ registry' = registry \ s.names /\ torn' = torn \cup (s.names \cap since[h])
        /\ Rest(h) /\ UNCHANGED <<pairs, stayed, since, listing>>
    BY <1>1, <1>5 DEF Execute
  <2> QED BY <1>1, <1>5, <2>1, UnregisterInv
<1>6. CASE s.do = "names"
  <2>1. PICK order \in Orders(registry) :
          todo' = [todo EXCEPT ![h] = [i \in 1..Cardinality(registry) |->
                                         DropPairs(order[i])] \o Tail(@)]
    BY <1>1, <1>6 DEF Execute
  <2>2. UNCHANGED <<pairs, registry, stayed, since, torn, listing>>
    BY <1>1, <1>6 DEF Execute
  <2> QED BY <1>1, <1>6, <2>1, <2>2, NamesInv
<1> QED BY <1>1, <1>2, <1>3, <1>4, <1>5, <1>6 DEF Execute

--------------------------------------------------------------------------------
(* The other actions.                                                          *)

LEMMA BeginInv ==
  ASSUME IInv, NEW h \in Handlers, NEW list, NewRpc(list), Begin(h, list)
  PROVE  IInv'
<1> USE DEF IInv
<1>1. /\ todo[h] = <<>> /\ todo' = [todo EXCEPT ![h] = list]
      /\ since' = [since EXCEPT ![h] = Unfinished]
      /\ pairs' = pairs /\ registry' = registry /\ listing' = listing
      /\ stayed' = stayed /\ torn' = torn
  BY DEF Begin, Ready, Idle
<1>2. todo \in [Handlers -> Seq(Statement)] /\ since \in [Handlers -> SUBSET Namespaces]
  BY DEF TypeInv
<1>3. list \in Seq(Statement) /\ Shape(list)
  BY DEF NewRpc
<1>4. Unfinished \in SUBSET Namespaces
  BY DEF Unfinished
<1>5. /\ todo' \in [Handlers -> Seq(Statement)] /\ todo'[h] = list
      /\ \A g \in Handlers : g # h => todo'[g] = todo[g]
  BY <1>1, <1>2, <1>3
<1>6. /\ since' \in [Handlers -> SUBSET Namespaces] /\ since'[h] = Unfinished
      /\ \A g \in Handlers : g # h => since'[g] = since[g]
  BY <1>1, <1>2, <1>4
<1>7. TypeInv'
  BY <1>1, <1>5, <1>6 DEF TypeInv
<1>8. ShapeInv'
  BY <1>3, <1>5 DEF PairsInv, ShapeInv
<1>9. SparesInv'
  <2>1. Spares(list, pairs, since'[h], torn)
    BY DEF NewRpc, Spares
  <2> QED BY <1>1, <1>5, <1>6, <2>1 DEF PairsInv, SparesInv
<1>10. ListedInv'
  <2> SUFFICES ASSUME NEW ns \in Namespaces, Holds(pairs, ns)
               PROVE  ns \in registry' \cup Unfinished' \cup torn'
    BY <1>1 DEF ListedInv
  <2>1. ns \in registry \cup Unfinished \cup torn
    BY DEF PairsInv, ListedInv
  <2>2. ns \in Unfinished => ns \in Unfinished'
    BY <1>1, <1>5, UnfinishedStays
  <2> QED BY <1>1, <2>1, <2>2
<1>11. KnownInv'
  <2> SUFFICES ASSUME NEW g \in Handlers, todo'[g] # <<>>, NEW ns \in Namespaces, Holds(pairs, ns)
               PROVE  ns \in registry \cup since'[g] \cup torn
    BY <1>1 DEF KnownInv
  <2>1. CASE g = h
    BY <1>6, <2>1 DEF PairsInv, ListedInv
  <2>2. CASE g # h
    BY <1>5, <1>6, <2>2 DEF PairsInv, KnownInv
  <2> QED BY <2>1, <2>2
<1>12. ListingInv'
  BY <1>1 DEF ListingInv
<1> QED BY <1>7, <1>8, <1>9, <1>10, <1>11, <1>12 DEF PairsInv

LEMMA FailsInv == ASSUME IInv, NEW h \in Handlers, StatementFails(h) PROVE IInv'
<1> USE DEF IInv
<1>1. /\ todo[h] # <<>> /\ todo' = [todo EXCEPT ![h] = <<>>]
      /\ torn' = IF Head(todo[h]).do = "register" THEN torn \cup {Head(todo[h]).ns} ELSE torn
      /\ pairs' = pairs /\ registry' = registry /\ listing' = listing
      /\ stayed' = stayed /\ since' = since
  BY DEF StatementFails, Idle
<1>2. Head(todo[h]) = todo[h][1] /\ todo[h][1] \in Statement
  BY <1>1, Underway
<1>3. torn \subseteq torn' /\ torn' \subseteq Namespaces
  BY <1>1, <1>2, StatementKinds DEF TypeInv
<1>4. todo \in [Handlers -> Seq(Statement)] /\ <<>> \in Seq(Statement)
  BY DEF TypeInv
<1>5. /\ todo' \in [Handlers -> Seq(Statement)] /\ todo'[h] = <<>>
      /\ \A g \in Handlers : g # h => todo'[g] = todo[g]
  BY <1>1, <1>4
<1>6. TypeInv'
  BY <1>1, <1>3, <1>5 DEF TypeInv
<1>7. ShapeInv'
  <2>1. Shape(<<>>)
    BY DEF Shape
  <2> QED BY <1>5, <2>1 DEF PairsInv, ShapeInv
<1>8. SparesInv'
  <2> SUFFICES ASSUME NEW g \in Handlers PROVE Spares(todo'[g], pairs, since[g], torn')
    BY <1>1 DEF SparesInv
  <2>1. CASE g = h
    BY <1>5, <2>1 DEF Spares
  <2>2. CASE g # h
    <3>1. todo[g] \in Seq(Statement) /\ Spares(todo[g], pairs, since[g], torn)
      BY <1>4 DEF PairsInv, SparesInv
    <3>2. Spares(todo[g], pairs, since[g], torn')
      BY <1>3, <3>1, SparesKept
    <3> QED BY <1>5, <2>2, <3>2
  <2> QED BY <2>1, <2>2
<1>9. KnownInv'
  BY <1>1, <1>3, <1>5 DEF PairsInv, KnownInv
<1>10. ListedInv'
  <2> SUFFICES ASSUME NEW ns \in Namespaces, Holds(pairs, ns)
               PROVE  ns \in registry' \cup Unfinished' \cup torn'
    BY <1>1 DEF ListedInv
  <2>1. ns \in registry \cup Unfinished \cup torn
    BY DEF PairsInv, ListedInv
  <2>2. CASE todo[h][1] = Register(ns)
    <3>1. todo[h][1].do = "register" /\ todo[h][1].ns = ns
      BY <2>2 DEF Register
    <3> QED BY <1>1, <1>2, <3>1
  <2>3. CASE todo[h][1] # Register(ns)
    <3>1. ns \in Unfinished => ns \in Unfinished'
      BY <1>5, <2>3, UnfinishedStays
    <3> QED BY <1>1, <1>3, <2>1, <3>1
  <2> QED BY <2>2, <2>3
<1>11. ListingInv'
  BY <1>1 DEF ListingInv
<1> QED BY <1>6, <1>7, <1>8, <1>9, <1>10, <1>11 DEF PairsInv

LEMMA ExpireInv ==
  ASSUME IInv, NEW ns \in Namespaces, NEW key \in Keys, Expire(ns, key)
  PROVE  IInv'
<1> USE DEF IInv
<1>1. /\ pairs' = [pairs EXCEPT ![ns][key] = Absent]
      /\ stayed' = IF ns = listing.ns THEN stayed \ {key} ELSE stayed
      /\ registry' = registry /\ todo' = todo /\ listing' = listing
      /\ since' = since /\ torn' = torn
  BY DEF Expire
<1>2. /\ pairs \in [Namespaces -> [Keys -> Rows]] /\ Absent \in Rows
      /\ todo \in [Handlers -> Seq(Statement)] /\ listing.ns \in Namespaces /\ stayed \subseteq Keys
  BY DEF TypeInv, Rows
<1>3. /\ pairs' \in [Namespaces -> [Keys -> Rows]]
      /\ \A x \in Namespaces, k \in Keys :
           pairs'[x][k] = IF x = ns /\ k = key THEN Absent ELSE pairs[x][k]
  BY <1>1, <1>2
<1>4. \A x \in Namespaces : Holds(pairs', x) => Holds(pairs, x)
  BY <1>3 DEF Holds
<1>5. stayed' \subseteq Keys /\ ListingInv'
  <2>1. stayed' \subseteq stayed
    BY <1>1
  <2>2. \A k \in stayed' : k \in Keys /\ pairs[listing.ns][k] # Absent /\ ~(listing.ns = ns /\ k = key)
    BY <1>1, <1>2, <2>1 DEF ListingInv
  <2>3. \A k \in stayed' : pairs'[listing.ns][k] # Absent
    BY <1>2, <1>3, <2>2
  <2> QED BY <1>1, <2>1, <2>3, ListingKept
<1>6. TypeInv'
  BY <1>1, <1>3, <1>5 DEF TypeInv
<1>7. ShapeInv'
  BY <1>1 DEF PairsInv, ShapeInv
<1>8. SparesInv'
  <2> SUFFICES ASSUME NEW g \in Handlers PROVE Spares(todo[g], pairs', since[g], torn)
    BY <1>1 DEF SparesInv
  <2>1. todo[g] \in Seq(Statement) /\ Spares(todo[g], pairs, since[g], torn)
    BY <1>2 DEF PairsInv, SparesInv
  <2> QED BY <1>4, <2>1, SparesKept
<1>9. KnownInv'
  BY <1>1, <1>4 DEF PairsInv, KnownInv
<1>10. ListedInv'
  <2>1. Unfinished' = Unfinished
    BY <1>1 DEF Unfinished
  <2> QED BY <1>1, <1>4, <2>1 DEF PairsInv, ListedInv
<1> QED BY <1>5, <1>6, <1>7, <1>8, <1>9, <1>10 DEF PairsInv

--------------------------------------------------------------------------------
(* The listing.                                                                *)

\* A listing's step leaves the pairs alone.
LEMMA PairsStay ==
  ASSUME PairsInv, UNCHANGED <<pairs, registry, todo, since, torn>>
  PROVE  PairsInv'
<1>1. pairs' = pairs /\ registry' = registry /\ todo' = todo /\ since' = since /\ torn' = torn
  OBVIOUS
<1>2. Unfinished' = Unfinished
  BY <1>1 DEF Unfinished
<1> QED BY <1>1, <1>2 DEF PairsInv, ShapeInv, ListedInv, KnownInv, SparesInv

LEMMA ListBeginInv == ASSUME IInv, NEW ns \in Namespaces, ListBegin(ns) PROVE IInv'
<1> USE DEF IInv
<1>1. /\ listing' = [pc |-> "page", ns |-> ns, after |-> 0, got |-> Unanswered]
      /\ stayed' = Present(ns) /\ UNCHANGED <<pairs, registry, todo, since, torn>>
  BY DEF ListBegin
<1>2. PairsInv'
  BY <1>1, PairsStay
<1>3. /\ listing'.ns = ns /\ listing'.after = 0 /\ listing'.pc = "page"
      /\ \A k \in Keys : listing'.got[k] = 0 /\ k > 0
  BY <1>1, KeysAssumption DEF Unanswered
<1>4. Unanswered \in [Keys -> Nat]
  BY DEF Unanswered
<1>5. TypeInv'
  BY <1>1, <1>4 DEF TypeInv, Present
<1>6. stayed' \subseteq Keys /\ \A k \in stayed' : pairs'[ns][k] # Absent
  BY <1>1 DEF Present
<1>7. \A k \in Keys : ~(k <= 0) /\ 0 <= 1
  BY <1>3, KeysAssumption
<1>8. ListingInv'
  BY <1>3, <1>6, <1>7 DEF ListingInv
<1> QED BY <1>2, <1>5, <1>8

LEMMA ListPageInv == ASSUME IInv, ListPage PROVE IInv'
<1> USE DEF IInv
<1>1. PICK page \in SUBSET Remaining, more \in BOOLEAN :
        /\ IsPage(page, Remaining)
        /\ page # Remaining => more
        /\ \E after \in IF page = {} THEN {listing.after} ELSE page :
             /\ \A k \in page : k <= after
             /\ listing' = [listing EXCEPT !.pc = IF more THEN "probe" ELSE "done",
                              !.after = after,
                              !.got = [k \in Keys |-> IF k \in page THEN @[k] + 1 ELSE @[k]]]
  BY ZenonT(60) DEF ListPage, ListPageFrom
<1>2. PICK after \in IF page = {} THEN {listing.after} ELSE page :
        /\ \A k \in page : k <= after
        /\ listing' = [listing EXCEPT !.pc = IF more THEN "probe" ELSE "done",
                         !.after = after,
                         !.got = [k \in Keys |-> IF k \in page THEN @[k] + 1 ELSE @[k]]]
  BY <1>1
<1>3. stayed' = stayed /\ UNCHANGED <<pairs, registry, todo, since, torn>> /\ listing.pc = "page"
  BY DEF ListPage, ListPageFrom
<1>4. PairsInv'
  BY <1>3, PairsStay
<1> DEFINE got == [k \in Keys |-> IF k \in page THEN listing.got[k] + 1 ELSE listing.got[k]]
           pc == IF more THEN "probe" ELSE "done"
<1>5. /\ listing.after \in Nat /\ listing.ns \in Namespaces /\ stayed \subseteq Keys
      /\ \A k \in Keys : listing.got[k] \in Nat /\ k \in Nat
      /\ listing \in [pc : {"idle", "page", "probe", "done"}, ns : Namespaces, after : Nat,
                      got : [Keys -> Nat]]
  BY KeysAssumption DEF TypeInv
<1>6. Remaining \subseteq Keys /\ \A k \in Remaining : k > listing.after
  BY DEF Remaining, Present
<1>7. after \in Nat /\ listing.after <= after
  <2>1. CASE page = {}
    BY <1>2, <1>5, <2>1
  <2>2. CASE page # {}
    <3>1. after \in page
      BY <1>2, <2>2
    <3>2. after \in Nat /\ after > listing.after
      BY <1>5, <1>6, <3>1
    <3> QED BY <1>5, <3>2
  <2> QED BY <2>1, <2>2
<1>8. got \in [Keys -> Nat] /\ \A k \in Keys : got[k] = IF k \in page THEN listing.got[k] + 1 ELSE listing.got[k]
  BY <1>5
<1>9. pc \in {"probe", "done"}
  OBVIOUS
<1>10. /\ listing'.pc = pc /\ listing'.after = after /\ listing'.got = got
       /\ listing'.ns = listing.ns
  BY <1>2, <1>5
<1>11. listing' \in [pc : {"idle", "page", "probe", "done"}, ns : Namespaces, after : Nat,
                     got : [Keys -> Nat]]
  BY <1>2, <1>5, <1>7, <1>8, <1>9
<1>12. TypeInv'
  BY <1>3, <1>11 DEF TypeInv
<1> HIDE DEF got, pc
<1>13. \A k \in Keys : k \in page => listing.got[k] = 0 /\ k <= after
  BY <1>2, <1>6 DEF ListingInv
<1>14. \A k \in Keys : got[k] <= 1
  <2> SUFFICES ASSUME NEW k \in Keys PROVE got[k] <= 1
    OBVIOUS
  <2>1. CASE k \in page
    BY <1>8, <1>13, <2>1
  <2>2. CASE k \notin page
    BY <1>8, <2>2 DEF ListingInv
  <2> QED BY <2>1, <2>2
<1>15. \A k \in Keys : k > after => got[k] = 0
  <2> SUFFICES ASSUME NEW k \in Keys, k > after PROVE got[k] = 0
    OBVIOUS
  <2>1. k \in Nat /\ k > listing.after /\ ~(k <= after)
    BY <1>5, <1>7
  <2>2. k \notin page
    BY <1>13, <2>1
  <2> QED BY <1>8, <2>1, <2>2 DEF ListingInv
<1>16. ASSUME NEW k \in stayed, k <= after \/ pc = "done" PROVE got[k] > 0
  <2>1. k \in Keys /\ k \in Nat /\ listing.got[k] \in Nat /\ pairs[listing.ns][k] # Absent
    BY <1>5 DEF ListingInv
  <2>2. CASE k <= listing.after
    <3>1. listing.got[k] > 0
      BY <2>1, <2>2 DEF ListingInv
    <3> QED BY <1>8, <2>1, <3>1
  <2>3. CASE ~(k <= listing.after)
    <3>1. k \in Remaining
      BY <1>5, <2>1, <2>3 DEF Remaining, Present
    <3>2. k \in page
      <4>1. CASE page = Remaining
        BY <3>1, <4>1
      <4>2. CASE page # Remaining
        <5>1. more = TRUE /\ pc = "probe"
          BY <1>1, <4>2 DEF pc
        <5>2. k <= after
          BY <1>16, <5>1
        <5>3. page # {}
          BY <1>2, <1>5, <2>1, <2>3, <5>2
        <5>4. after \in page
          BY <1>2, <5>3
        <5>5. k \notin page => after < k
          BY <1>1, <3>1, <5>4 DEF IsPage
        <5> QED BY <1>7, <2>1, <5>2, <5>5
      <4> QED BY <4>1, <4>2
    <3> QED BY <1>8, <2>1, <3>2
  <2> QED BY <2>2, <2>3
<1>17. ListingInv'
  <2>1. \A k \in stayed : pairs[listing.ns][k] # Absent
    BY DEF ListingInv
  <2> QED BY <1>3, <1>10, <1>14, <1>15, <1>16, <2>1 DEF ListingInv
<1> QED BY <1>4, <1>12, <1>17, SMTT(60)

LEMMA ListProbeInv == ASSUME IInv, ListProbe PROVE IInv'
<1> USE DEF IInv
<1>1. /\ listing' = [listing EXCEPT !.pc = IF Remaining # {} THEN "page" ELSE "done"]
      /\ stayed' = stayed /\ UNCHANGED <<pairs, registry, todo, since, torn>>
  BY DEF ListProbe
<1>2. PairsInv'
  BY <1>1, PairsStay
<1>3. TypeInv'
  BY <1>1 DEF TypeInv
<1>4. /\ listing'.after = listing.after /\ listing'.got = listing.got /\ listing'.ns = listing.ns
      /\ listing'.pc = IF Remaining # {} THEN "page" ELSE "done"
  BY <1>1 DEF TypeInv
<1>5. ASSUME NEW k \in stayed, listing'.pc = "done" PROVE k <= listing.after
  <2>1. Remaining = {}
    BY <1>4, <1>5
  <2>2. k \in Keys /\ k \in Nat /\ pairs[listing.ns][k] # Absent /\ listing.after \in Nat
    BY KeysAssumption DEF TypeInv, ListingInv
  <2> QED BY <2>1, <2>2 DEF Remaining, Present
<1>6. ListingInv'
  BY <1>1, <1>4, <1>5 DEF ListingInv
<1> QED BY <1>2, <1>3, <1>6

LEMMA ListEndInv == ASSUME IInv, ListEnd PROVE IInv'
<1> USE DEF IInv
<1>1. /\ listing' = [listing EXCEPT !.pc = "idle", !.got = Unanswered, !.after = 0]
      /\ stayed' = {} /\ UNCHANGED <<pairs, registry, todo, since, torn>>
  BY DEF ListEnd
<1>2. PairsInv'
  BY <1>1, PairsStay
<1>3. Unanswered \in [Keys -> Nat] /\ \A k \in Keys : Unanswered[k] = 0
  BY DEF Unanswered
<1>4. TypeInv' /\ listing'.got = Unanswered
  BY <1>1, <1>3 DEF TypeInv
<1>5. ListingInv'
  BY <1>1, <1>3, <1>4 DEF ListingInv
<1> QED BY <1>2, <1>4, <1>5

--------------------------------------------------------------------------------
(* The theorems.                                                               *)

LEMMA InitInv == Init => IInv
<1> SUFFICES ASSUME Init PROVE IInv
  OBVIOUS
<1>1. /\ pairs = [ns \in Namespaces |-> Emptied] /\ registry = {} /\ stayed = {} /\ torn = {}
      /\ todo = [h \in Handlers |-> <<>>] /\ since = [h \in Handlers |-> {}]
      /\ listing = [pc |-> "idle", ns |-> CHOOSE ns \in Namespaces : TRUE, after |-> 0,
                    got |-> Unanswered]
  BY DEF Init
<1>2. Unanswered \in [Keys -> Nat] /\ \A k \in Keys : Unanswered[k] = 0
  BY DEF Unanswered
<1>3. Emptied \in [Keys -> Rows] /\ \A k \in Keys : Emptied[k] = Absent
  BY DEF Emptied, Rows
<1>4. (CHOOSE ns \in Namespaces : TRUE) \in Namespaces
  BY NamespacesAssumption
<1>5. /\ pairs \in [Namespaces -> [Keys -> Rows]]
      /\ \A ns \in Namespaces : ~Holds(pairs, ns)
  BY <1>1, <1>3 DEF Holds
<1>6. todo \in [Handlers -> Seq(Statement)] /\ \A h \in Handlers : todo[h] = <<>>
  BY <1>1
<1>7. TypeInv
  BY <1>1, <1>2, <1>4, <1>5, <1>6 DEF TypeInv
<1>8. PairsInv
  <2>1. Shape(<<>>)
    BY DEF Shape
  <2>2. \A h \in Handlers : Spares(<<>>, pairs, since[h], torn)
    BY DEF Spares
  <2> QED BY <1>5, <1>6, <2>1, <2>2 DEF PairsInv, ShapeInv, ListedInv, KnownInv, SparesInv
<1>9. ListingInv
  <2>1. listing.got = Unanswered
    BY <1>1
  <2> QED BY <1>1, <1>2, <2>1 DEF ListingInv
<1> QED BY <1>7, <1>8, <1>9 DEF IInv

LEMMA NextInv == IInv /\ [Next]_vars => IInv'
<1> SUFFICES ASSUME IInv, [Next]_vars PROVE IInv'
  OBVIOUS
<1>1. CASE UNCHANGED vars
  <2>1. /\ UNCHANGED <<pairs, registry, todo, since, torn>>
        /\ listing' = listing /\ stayed' = stayed
    BY <1>1 DEF vars
  <2>2. PairsInv'
    BY <2>1, PairsStay DEF IInv
  <2>3. TypeInv' /\ ListingInv'
    BY <2>1 DEF IInv, TypeInv, ListingInv
  <2> QED BY <2>2, <2>3 DEF IInv
<1>2. ASSUME NEW h \in Handlers,
             ScriptSet(h) \/ ScriptSetBatch(h) \/ ScriptDelete(h) \/ ApiCall(h)
      PROVE  IInv'
  <2>1. \E list : NewRpc(list) /\ Begin(h, list)
    BY <1>2, CallsBegin
  <2> QED BY <2>1, BeginInv
<1>3. ASSUME NEW h \in Handlers, Execute(h) PROVE IInv'
  BY <1>3, ExecuteInv
<1>4. ASSUME NEW h \in Handlers, StatementFails(h) PROVE IInv'
  BY <1>4, FailsInv
<1>5. ASSUME NEW ns \in Namespaces, NEW key \in Keys, Expire(ns, key) PROVE IInv'
  BY <1>5, ExpireInv
<1>6. ASSUME NEW ns \in Namespaces, ListBegin(ns) PROVE IInv'
  BY <1>6, ListBeginInv
<1>7. CASE ListPage
  BY <1>7, ListPageInv
<1>8. CASE ListProbe
  BY <1>8, ListProbeInv
<1>9. CASE ListEnd
  BY <1>9, ListEndInv
<1> QED BY <1>1, <1>2, <1>3, <1>4, <1>5, <1>6, <1>7, <1>8, <1>9 DEF Next

LEMMA Invariance == Spec => []IInv
  BY InitInv, NextInv, PTL DEF Spec

\* The tables, the handlers' notes and the listing keep their types.
THEOREM TypeCorrect == Spec => []TypeOK
<1>1. IInv => TypeOK
  <2> SUFFICES ASSUME IInv PROVE TypeOK
    OBVIOUS
  <2>1. \A ns \in Namespaces, k \in Keys : pairs[ns][k] \in Rows
    BY DEF IInv, TypeInv
  <2>2. /\ registry \subseteq Namespaces /\ torn \subseteq Namespaces /\ stayed \subseteq Keys
        /\ \A h \in Handlers : since[h] \subseteq Namespaces
        /\ listing.pc \in {"idle", "page", "probe", "done"}
    BY DEF IInv, TypeInv
  <2> QED BY <2>1, <2>2 DEF TypeOK, Rows
<1> QED BY <1>1, Invariance, PTL

\* A pair a get still answers lies in a namespace the registry lists, or whose
\* registration is on its way, or that an rpc left half way or a delete overtook
\* tore off: for any namespaces, keys, handlers and batches.
THEOREM PairsFindable == Spec => []AnsweredIsListed
<1>1. IInv => AnsweredIsListed
  <2> SUFFICES ASSUME IInv, NEW ns \in Namespaces, NEW k \in Keys,
                      PairIntoLua(Get(ns, k).type) # "nil"
               PROVE  (\E n \in GetNamespaces : n.name = ns) \/ ns \in Unfinished \cup torn
    BY DEF AnsweredIsListed
  <2>1. pairs[ns][k] # Absent
    BY DEF PairIntoLua, Get, Absent
  <2>2. ns \in registry \cup Unfinished \cup torn
    BY <2>1 DEF IInv, PairsInv, ListedInv, Holds
  <2>3. ns \in registry => [name |-> ns, count |-> Cardinality(Present(ns))] \in GetNamespaces
    BY DEF GetNamespaces
  <2> QED BY <2>2, <2>3
<1> QED BY <1>1, Invariance, PTL

\* A listing that says it is over has answered every key that was there all along,
\* and none twice, for any page size.
THEOREM ListingsComplete == Spec => []ListingComplete
<1>1. IInv => ListingComplete
  BY DEF IInv, TypeInv, ListingInv, ListingComplete
<1> QED BY <1>1, Invariance, PTL

\* The failures are counted.
Counted == failures \in Nat

LEMMA FailuresCounted == Spec => []Counted
<1>1. Init => Counted
  BY DEF Init, Counted
<1>2. Counted /\ [Next]_vars => Counted'
  <2> SUFFICES ASSUME failures \in Nat, [Next]_vars PROVE failures' \in Nat
    BY DEF Counted
  <2>1. CASE UNCHANGED vars
    BY <2>1 DEF vars
  <2>2. ASSUME NEW h \in Handlers,
               ScriptSet(h) \/ ScriptSetBatch(h) \/ ScriptDelete(h) \/ ApiCall(h)
        PROVE  failures' \in Nat
    <3>1. \E list : Begin(h, list)
      BY <2>2, CallsBegin
    <3> QED BY <3>1 DEF Begin
  <2>3. ASSUME NEW h \in Handlers, Execute(h) \/ StatementFails(h) PROVE failures' \in Nat
    BY <2>3 DEF Execute, StatementFails
  <2>4. CASE \E ns \in Namespaces, key \in Keys : Expire(ns, key)
    BY <2>4 DEF Expire
  <2>5. CASE (\E ns \in Namespaces : ListBegin(ns)) \/ ListPage \/ ListProbe \/ ListEnd
    BY <2>5 DEF ListBegin, ListPage, ListPageFrom, ListProbe, ListEnd
  <2> QED BY <2>1, <2>2, <2>3, <2>4, <2>5 DEF Next
<1> QED BY <1>1, <1>2, PTL DEF Spec

\* When delete_project returns, nothing is left of the project but what was written
\* while it ran and what an earlier rpc had torn off: for any number of namespaces
\* and of rpcs beside it.
THEOREM ProjectDeleted == Spec => ProjectGone
<1> DEFINE Gone == \A h \in Handlers :
             todo[h] # <<>> /\ Head(todo[h]) = Unregister(Namespaces)
             /\ todo'[h] = <<>> /\ failures' = failures =>
               \A ns \in Namespaces :
                 (\E k \in Keys : pairs'[ns][k] # Absent) => ns \in since'[h] \cup torn'
<1>1. IInv /\ Counted /\ [Next]_vars => [Gone]_vars
  <2> SUFFICES ASSUME IInv, failures \in Nat, Next, NEW h \in Handlers,
                      todo[h] # <<>>, Head(todo[h]) = Unregister(Namespaces),
                      todo'[h] = <<>>, failures' = failures,
                      NEW ns \in Namespaces, \E k \in Keys : pairs'[ns][k] # Absent
               PROVE  ns \in since'[h] \cup torn'
    BY DEF Counted
  <2>0. todo \in [Handlers -> Seq(Statement)]
    BY DEF IInv, TypeInv
  <2>1. ASSUME NEW g \in Handlers,
               ScriptSet(g) \/ ScriptSetBatch(g) \/ ScriptDelete(g) \/ ApiCall(g)
        PROVE  FALSE
    <3>1. PICK list : Begin(g, list)
      BY <2>1, CallsBegin
    <3>2. todo[g] = <<>> /\ todo' = [todo EXCEPT ![g] = list]
      BY <3>1 DEF Begin, Ready, Idle
    <3> QED BY <2>0, <3>2
  <2>2. ASSUME NEW g \in Handlers, StatementFails(g) PROVE FALSE
    BY <2>2 DEF StatementFails
  <2>3. ASSUME NEW g \in Handlers, Execute(g) PROVE ns \in since'[h] \cup torn'
    <3>1. todo[g] # <<>>
      BY <2>3 DEF Execute, Idle
    <3>2. g = h
      <4>1. \E list : todo' = [todo EXCEPT ![g] = list]
        BY <2>3 DEF Execute, Rest
      <4> QED BY <2>0, <4>1
    <3>3. Head(todo[h]).do = "unregister" /\ Head(todo[h]).names = Namespaces
      BY DEF Unregister
    <3>4. pairs' = pairs /\ since' = since /\ torn \subseteq torn'
      BY <2>3, <3>2, <3>3 DEF Execute
    <3>5. /\ todo[h] \in Seq(Statement) /\ Shape(todo[h])
          /\ Head(todo[h]) = todo[h][1] /\ Len(todo[h]) \in Nat \ {0}
      BY Underway DEF IInv
    <3>6. 1 \in 1..Len(todo[h])
      BY <3>5
    <3>7. Len(todo[h]) = 1
      BY <3>3, <3>5, <3>6 DEF Shape
    <3>8. ~Dropping(todo[h], ns)
      BY <3>3, <3>5, <3>7 DEF Dropping
    <3>9. Spares(todo[h], pairs, since[h], torn) /\ Holds(pairs, ns)
      BY <3>4 DEF IInv, PairsInv, SparesInv, Holds
    <3>10. ns \in since[h] \cup torn \/ Dropping(todo[h], ns)
      BY <3>3, <3>5, <3>7, <3>9 DEF Spares
    <3> QED BY <3>4, <3>8, <3>10
  <2>4. CASE \E x \in Namespaces, key \in Keys : Expire(x, key)
    BY <2>4 DEF Expire
  <2>5. CASE (\E x \in Namespaces : ListBegin(x)) \/ ListPage \/ ListProbe \/ ListEnd
    BY <2>5 DEF ListBegin, ListPage, ListPageFrom, ListProbe, ListEnd
  <2> QED BY <2>1, <2>2, <2>3, <2>4, <2>5 DEF Next
<1>2. Spec => [][Next]_vars
  BY PTL DEF Spec
<1> QED BY <1>1, <1>2, Invariance, FailuresCounted, PTL DEF ProjectGone
====
