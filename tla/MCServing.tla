------------------------------- MODULE MCServing -------------------------------
(* Small instances of Serving: two scripts with two revisions and one.         *)
EXTENDS Serving, TLC

CONSTANTS a, b, a1, a2, b1, s1, s2, q1, q2, c1, c2

MCScriptOf == (a1 :> a) @@ (a2 :> a) @@ (b1 :> b)
MCCreated == (a1 :> 1) @@ (a2 :> 2) @@ (b1 :> 1)
MCCronEvents == (a1 :> {}) @@ (a2 :> {}) @@ (b1 :> {"hourly", "daily"})

Scene(targets, scripts, time, requests, moves, evictions, faults) ==
  [targets |-> targets, scripts |-> scripts, time |-> time, requests |-> requests,
   moves |-> moves, evictions |-> evictions, faults |-> faults]

MCScenes ==
  {Scene({"published"}, {a}, 4, 2, 2, 0, 1),       \* publishes and the pointer's time
   Scene({"published", "preview"}, {a, b}, 0, 3, 1, 1, 0), \* previews beside both scripts
   Scene({"published"}, {b}, 1, 3, 0, 0, 2),       \* cron events
   Scene({"published", "object"}, {a}, 3, 2, 2, 0, 0), \* an object's owner moves
   Scene({"aliased"}, {a}, 3, 2, 1, 0, 1),
   Scene({"live"}, {a}, 4, 0, 0, 0, 0),             \* sessions put, deleted, expiring
   Scene({"live"}, {a}, 1, 1, 0, 0, 0)}             \* and asked for

Symmetric == Permutations({q1, q2}) \cup Permutations({c1, c2}) \cup Permutations({s1, s2})
====
