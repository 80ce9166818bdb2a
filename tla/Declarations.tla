----------------------------- MODULE Declarations ------------------------------
(* What a bundle declares, told twice: by the extraction vm, which runs the    *)
(* entry point among stubs at publish and derives the revision's contract      *)
(* (actias-declarations), and by the worker's vm, which runs it for real and   *)
(* honours a declaration only at the top level and within the contract         *)
(* (actias-worker-core/src/runtime).                                           *)
(*                                                                             *)
(* A program is the declarations and loads it comes to, in order.  A statement *)
(* runs on both sides, or behind a condition that only one side meets: a stub  *)
(* is not the value it stands for.  What a body computes is left out.          *)
EXTENDS Naturals, Sequences, FiniteSets

CONSTANTS
  Bundles,     \* the bundles that are looked at, see Bundle
  Extensions,  \* the modules a worker's registry holds before any load
  Reserved,    \* names that start with a platform prefix
  Slashed,     \* names no workflow may have
  Unparsed,    \* cron schedules that do not parse
  Expired,     \* cron schedules that parse and have no occurrence left
  Blank,       \* names of no queue
  Unset,       \* secrets a worker cannot resolve: not set, or no service to ask
  MaxDepth,    \* bound: modules being loaded inside each other, past it the stack ends
  MaxCallsOnTrial \* bound: calls to the vm of the bundle on trial

\* The declaration forms; `on` by the shape of its event.
Forms == {"kv", "secret", "object", "database", "queue", "workflow",
          "on fetch", "on queue", "on cron", "on other"}
\* The ones a contract is consulted for.
ContractKind == {"kv", "secret", "object", "database", "queue"}
\* Handles to what is declared elsewhere.
References == {"objects", "workflows"}

\* A statement of op "declare", "require", "dofile" or "fail"; `exact`: a file named by
\* its path and not by another spelling of its key, a listener that is a function;
\* `only`: the side it runs on.
Statement(op, form, name, exact, only) ==
  [op |-> op, form |-> form, name |-> name, exact |-> exact, only |-> only]

\* Files by module key, "main" the entry point; what its listeners run when called.
Bundle(files, handler) == [files |-> files, handler |-> handler]

--------------------------------------------------------------------------------
(* One vm.  ok: no error has ended it; claims: what it has declared; loaded:   *)
(* the modules a require answers from.                                         *)

NewVm(loaded) == [ok |-> TRUE, claims |-> {}, loaded |-> loaded]
Failed(vm) == [vm EXCEPT !.ok = FALSE]

\* Where code runs: the side, the bundle, how deep it may load, and on a worker the
\* declaration phase and the contract.
Env(side, bundle, phase, contract) ==
  [side |-> side, bundle |-> bundle, phase |-> phase, contract |-> contract, depth |-> MaxDepth]

StubRefuses(s) ==
  \/ s.form = "workflow" /\ s.name \in Slashed
  \/ s.form = "on cron" /\ s.name \in Unparsed

\* A secret is resolved where it is declared.
Unresolved(s) == s.form = "secret" /\ s.name \in Unset

WorkerRefuses(s) ==
  \/ s.form \in {"kv", "object", "objects"} /\ s.name \in Reserved
  \/ s.form = "workflow" /\ s.name \in Slashed
  \/ s.form = "on cron" /\ s.name \in Unparsed \cup Expired
  \/ s.form = "on queue" /\ s.name \in Blank
  \/ s.form = "on other"
  \/ s.form \in {"on fetch", "on queue", "on cron"} /\ ~s.exact
  \/ Unresolved(s)

AssertContractAllows(s, contract) == s.form \in ContractKind => <<s.form, s.name>> \in contract

AssertDeclarationPhase_Always(env) == TRUE
AssertDeclarationPhase(env) == env.phase

Refused(s, env) ==
  IF env.side = "stub" THEN StubRefuses(s)
  ELSE \/ ~AssertDeclarationPhase(env) \/ WorkerRefuses(s)
       \/ ~AssertContractAllows(s, env.contract)

Record(vm, s) == [vm EXCEPT !.claims = @ \cup {<<s.form, s.name>>}]

Declare(vm, s, env) ==
  IF Refused(s, env) THEN Failed(vm)
  ELSE IF s.form \in References THEN vm ELSE Record(vm, s)

--------------------------------------------------------------------------------
(* The loaders.  An absent module is nil on both sides.                        *)

RECURSIVE Eval(_, _, _)

LuaModule(bundle, key) == bundle.files[key].code

Enter(vm, key, env) ==
  IF env.depth = 0 THEN Failed(vm)
  ELSE Eval(vm, LuaModule(env.bundle, key), [env EXCEPT !.depth = @ - 1])

Require_Stubbed(vm, s, env) ==
  IF s.name \in vm.loaded \/ s.name \notin DOMAIN env.bundle.files \/ env.side = "stub" THEN vm
  ELSE LET run == Enter(vm, s.name, env)
           kept == run.ok /\ env.bundle.files[s.name].returns
       IN IF kept THEN [run EXCEPT !.loaded = @ \cup {s.name}] ELSE run

\* A module answers from the registry once its body has run; a worker's registry
\* keeps no nil, so there a module that returns nothing runs at every require.
Require(vm, s, env) ==
  IF s.name \in vm.loaded \/ s.name \notin DOMAIN env.bundle.files THEN vm
  ELSE LET run == Enter(vm, s.name, env)
           kept == run.ok /\ (env.side = "stub" \/ env.bundle.files[s.name].returns)
       IN IF kept THEN [run EXCEPT !.loaded = @ \cup {s.name}] ELSE run

\* The extraction vm finds the file by its key, a worker by its path alone.
DoFile(vm, s, env) ==
  IF s.name \in DOMAIN env.bundle.files /\ (s.exact \/ env.side = "stub")
  THEN Enter(vm, s.name, env) ELSE vm

Step(vm, s, env) ==
  IF s.only \notin {"both", env.side} THEN vm
  ELSE CASE s.op = "declare" -> Declare(vm, s, env)
         [] s.op = "require" -> Require(vm, s, env)
         [] s.op = "dofile" -> DoFile(vm, s, env)
         [] s.op = "fail" -> Failed(vm)

Eval(vm, code, env) ==
  IF code = <<>> \/ ~vm.ok THEN vm ELSE Eval(Step(vm, Head(code), env), Tail(code), env)

HasEntry(bundle) == "main" \in DOMAIN bundle.files

\* The declaration pass: handlers are registered and never run.
Extract(bundle) ==
  IF HasEntry(bundle)
  THEN Eval(NewVm({}), LuaModule(bundle, "main"), Env("stub", bundle, TRUE, {}))
  ELSE Failed(NewVm({}))

Contract(bundle) == Extract(bundle).claims

\* The extensions are modules before any file is.
WorkerVm == NewVm(Extensions)

\* A worker builds a vm: the entry point runs, then the declaration phase is over.
Boot(bundle, contract) ==
  IF HasEntry(bundle)
  THEN Eval(WorkerVm, LuaModule(bundle, "main"), Env("worker", bundle, TRUE, contract))
  ELSE WorkerVm

\* A listener is called in the vm, which goes on to the next call after an error.
Invoke(vm, bundle, contract) ==
  Eval([vm EXCEPT !.ok = TRUE], bundle.handler, Env("worker", bundle, FALSE, contract))

--------------------------------------------------------------------------------
(* One bundle on trial: published, then served by one vm.                      *)

VARIABLE
  trial  \* the bundle, how far it is, its stored contract, its vm and the calls to it

TrialInit ==
  \E b \in Bundles :
    trial = [stage |-> "written", bundle |-> b, contract |-> {}, vm |-> NewVm({}), calls |-> 0]

\* create_revision's declaration pass: the publish is refused, or stores what it found.
Derive ==
  /\ trial.stage = "written"
  /\ trial' = IF Extract(trial.bundle).ok
              THEN [trial EXCEPT !.stage = "stored", !.contract = Contract(trial.bundle)]
              ELSE [trial EXCEPT !.stage = "refused"]

\* Without its declarations a vm is not handed out.
BootVm ==
  /\ trial.stage = "stored"
  /\ LET vm == Boot(trial.bundle, trial.contract)
     IN trial' = [trial EXCEPT !.stage = IF vm.ok THEN "up" ELSE "down", !.vm = vm]

CallVm ==
  /\ trial.stage = "up" /\ trial.calls < MaxCallsOnTrial
  /\ trial' = [trial EXCEPT !.vm = Invoke(@, trial.bundle, trial.contract), !.calls = @ + 1]

TrialNext == Derive \/ BootVm \/ CallVm

TrialSpec == TrialInit /\ [][TrialNext]_trial

--------------------------------------------------------------------------------
(* Properties.                                                                 *)

\* A statement that both sides take the same way.  The declarations only a worker
\* refuses are not: a reserved name, a schedule with no occurrence left, a listener
\* that is not a function, a secret that does not resolve when the vm is built.
PortableStatement(s, bundle) ==
  /\ s.only = "both"
  /\ s.op = "declare" => (WorkerRefuses(s) <=> StubRefuses(s))
  /\ s.op = "dofile" => s.exact
  /\ s.op = "require" => s.name \notin Extensions \cap DOMAIN bundle.files

Statements(bundle) ==
  UNION {{LuaModule(bundle, f)[i] : i \in DOMAIN LuaModule(bundle, f)} : f \in DOMAIN bundle.files}

Portable(bundle) ==
  HasEntry(bundle) /\ \A s \in Statements(bundle) : PortableStatement(s, bundle)

\* The stored contract equals the code (actias-declarations/src/lib.rs:11).  Of a
\* bundle of portable statements, whatever it loads, twice, in circles or from
\* inside a module: one that is stored boots and declares its contract, no more
\* and no less, and one that is refused would not have booted.  The holes are the
\* statements that are not portable.
ContractIsCode ==
  Portable(trial.bundle) =>
    /\ trial.stage # "down"
    /\ trial.stage = "up" => trial.vm.claims = trial.contract
    /\ trial.stage = "refused" => ~Boot(trial.bundle, Contract(trial.bundle)).ok

\* No bundle, portable or not, gets more than its contract: what a vm may reach was
\* declared and allowed while it booted, and no call adds to it, through modules
\* first loaded by a listener and after calls that failed either
\* (runtime/mod.rs:75, DeclarationPhase).
SealedAfterBoot ==
  [][trial.stage = "up" =>
       /\ \A c \in trial.vm.claims : c[1] \in ContractKind => c \in trial.contract
       /\ trial'.vm.claims = trial.vm.claims]_trial

\* What actias-declarations/src/lib.rs:66 says of the loaders, "so a bundle that
\* extracts cleanly also runs", without the holes.
CleanExtractsRun == trial.stage # "down"

\* What runtime/mod.rs:573 says: "A module body runs once per runtime; every later
\* require of the same module answers from the registry."  A listener that requires
\* what the entry point has required would then not fail.
BodiesRunOnce ==
  (trial.stage = "up" /\ HasEntry(trial.bundle)
     /\ \A i \in DOMAIN trial.bundle.handler :
          /\ trial.bundle.handler[i].op = "require"
          /\ \E j \in DOMAIN LuaModule(trial.bundle, "main") :
               LuaModule(trial.bundle, "main")[j] = trial.bundle.handler[i])
  => trial.vm.ok
================================================================================
