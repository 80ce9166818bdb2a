---------------------------- MODULE MCScriptService ----------------------------
(* Two scripts of a project, one queue that either may consume or produce to;  *)
(* and, in behaviours of their own, the bundles of a short entry point, a      *)
(* module and a listener, each of them published and run.                      *)
EXTENDS ScriptService, Declarations, TLC

Declares(form, name) == Statement("declare", form, name, TRUE, "both")
OnOne(side) == Statement("declare", "queue", "q", TRUE, side)
Requires(key) == Statement("require", "none", key, TRUE, "both")
Listens(form, name, isFunction) == Statement("declare", form, name, isFunction, "both")
DoesFile(exact) == Statement("dofile", "none", "mod", exact, "both")
Broken == Statement("fail", "none", "none", TRUE, "both")

Code(statements, length) == UNION {[1..n -> statements] : n \in 0..length}
Source(code, returns) == [code |-> code, returns |-> returns]

EntryStatements ==
  {Declares(f, "a") : f \in {"kv", "object", "workflow", "on other", "secret"}}
    \cup {Declares(f, "__a") : f \in {"object", "objects"}}
    \cup {Declares("secret", "unset")}
    \cup {Listens("on fetch", "fetch", isFunction) : isFunction \in BOOLEAN}
    \cup {Declares("workflow", "x/y"), Declares("on queue", "q"), Declares("on queue", "")}
    \cup {Declares("on cron", c) : c \in {"hourly", "past", "bad"}}
    \cup {OnOne("stub"), OnOne("worker"), Broken, DoesFile(TRUE), DoesFile(FALSE)}
    \cup {Requires("mod"), Requires("json")}

Modules ==
  {Source(code, returns) : code \in Code({Declares("kv", "b"), Declares("queue", "q"), Broken,
                                          Requires("mod"), Requires("main")}, 1),
                           returns \in BOOLEAN}

Listeners == {<<>>, <<Declares("kv", "a")>>, <<Requires("mod")>>, <<Requires("json")>>}

MCBundles ==
  {Bundle(("main" :> Source(code, FALSE)) @@ (key :> module), handler) :
     code \in Code(EntryStatements, 2), key \in {"mod", "json"}, module \in Modules,
     handler \in Listeners}
  \cup {Bundle("mod" :> module, <<>>) : module \in Modules}

\* The contracts published to the service are those of one-line bundles.
OneLine(form) == Bundle("main" :> Source(<<Declares(form, "q")>>, FALSE), <<>>)
MCContracts == {Contract(OneLine(form)) : form \in {"kv", "on queue", "queue"}}

\* A behaviour is the service's, or one bundle's.
NoBundle ==
  [stage |-> "none", bundle |-> OneLine("kv"), contract |-> {}, vm |-> NewVm({}), calls |-> 0]

ScriptsInit == ServiceInit /\ (trial = NoBundle \/ TrialInit)

ScriptsNext ==
  \/ trial.stage = "none" /\ ServiceNext /\ UNCHANGED trial
  \/ TrialNext /\ UNCHANGED service

ScriptsSpec == ScriptsInit /\ [][ScriptsNext]_<<service, trial>>

Symmetry == Permutations(Handlers)
================================================================================
