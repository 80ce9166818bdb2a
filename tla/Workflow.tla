------------------------------- MODULE Workflow --------------------------------
(* One workflow run: its journal, and the attempts that replay it.             *)
(*                                                                             *)
(* A run is an object of class __workflow.  Every call on it (start, resume,   *)
(* signal, cancel, the alarm) replays the journal from the top through the run *)
(* body, a sequence of verbs, and goes on live where the journal ends.  The    *)
(* object task makes calls one at a time, in a transaction that verbs commit   *)
(* and open again half way; a crash keeps what was committed.  An entry's seq  *)
(* is its place in the journal, and a cursor (`pending`) is the sequence of    *)
(* seqs the attempt has not consumed.                                          *)
EXTENDS Naturals, Sequences, FiniteSets, SequencesExt

CONSTANTS
  Programs,     \* the run bodies looked at, sequences of Verb
  Signals,      \* names of signals from outside
  MaxCalls,     \* bound: start, resume, signal and cancel calls from outside
  MaxStrays,    \* bound: signals that come where no gate waits for them
  MaxBodyReads, \* bound: reads of the clock or the generator inside a step
  MaxFailures,  \* bound: step bodies that fail
  MaxErrors,    \* bound: calls that fail for another reason, hang or are not heard
  MaxCrashes    \* bound: deaths of the process

Retry == 99 \* the alarm of a backoff; other alarms are named by their timer's seq
Kinds == {"STARTED", "INTENT", "RESULT", "TIMER", "SIGNAL", "CHILD", "CANCEL",
          "COMPLETED", "AMBIENT", "FAILED"}

VARIABLES
  program,  \* the body of the run
  journal,  \* the journal as the open transaction sees it
  durable,  \* how much of it is committed
  alarm,    \* the alarm row as the transaction sees it; 0 is none
  alarmKept,\* the alarm row as committed
  due,      \* seqs of the timers whose time has come
  pc,       \* "idle"; "verb": about to run verb `at`; "body": inside a step;
            \* "launch": a child's start is on its way; "end": the call returns;
            \* "cancel": telling the children; "hung": awaiting what never comes
  at, pending, resume, draws, \* Attempt: position, cursor, resume flag, generator
  child,    \* ordinal -> what became of the child run
  spent,    \* what is used up of the bounds
  said,     \* what this attempt's verbs have answered
  kept,     \* history: `said` when the journal last grew
  done,     \* history: positions of steps whose RESULT is committed
  status,   \* what the last call answered
  mishap    \* history: what went wrong: "stray", "read", "diverged", "error",
            \* "crash", "lost", "hung"

store == <<journal, durable, alarm, alarmKept>>
attempt == <<at, pending, resume, draws, said>>
history == <<kept, done, status, mishap>>
workflow == <<program, store, due, pc, attempt, child, spent, history>>

--------------------------------------------------------------------------------
(* The verbs a body is made of.  A gate waits forever (Forever), until its     *)
(* timeout (Timed), or, when its options name no timeout, until a due time at  *)
(* the end of the integers (EndOfTime).                                        *)

Forever == 0
Timed == 1
EndOfTime == 2

MakeVerb(verb, of, tries, wait) == [verb |-> verb, of |-> of, tries |-> tries, wait |-> wait]
StepVerb(name, retries) == MakeVerb("step", {name}, IF retries < 1 THEN 1 ELSE retries, Forever)
SleepVerb == MakeVerb("sleep", {}, 0, Timed)
AwaitVerb(name, wait) == MakeVerb("await", {name}, 0, wait)
\* all: one gate after the other; race: one gate for all the names.
AllVerbs(names, wait) == [i \in DOMAIN names |-> AwaitVerb(names[i], wait)]
RaceVerb(names, wait) == MakeVerb("await", names, 0, wait)
SpawnVerb(definition) == MakeVerb("spawn", {definition}, 0, Forever)
AmbientVerb(what) == MakeVerb(what, {}, 0, Forever)

\* A race takes at least one name.
Verbs ==
  [verb : {"step", "sleep", "await", "spawn", "time", "random"}, of : SUBSET STRING, tries : Nat,
   wait : {Forever, Timed, EndOfTime}]

ASSUME ProgramsAssumption ==
  \A body \in Programs :
    /\ body \in Seq(Verbs)
    /\ \A p \in DOMAIN body :
         /\ body[p].verb = "sleep" => body[p].of = {}
         /\ body[p].verb = "await" => body[p].of # {}

Ordinals == 0..1
ChildSignal(o) == <<"c0", "c1">>[o + 1]

Entry(kind, of, val) == [kind |-> kind, of |-> of, val |-> val]
Has(log, kind) == \E i \in DOMAIN log : log[i].kind = kind
Latest(log) == log[Len(log)]
ReadFrom(log, since) == [i \in 1..(Len(log) - since) |-> i + since]
Children(log) == {i \in DOMAIN log : log[i].kind = "CHILD"}
Ended(log) == Has(log, "COMPLETED") \/ Has(log, "CANCEL")

WorkflowInit ==
  /\ program \in Programs
  /\ journal = <<>> /\ durable = 0 /\ alarm = 0 /\ alarmKept = 0 /\ due = {}
  /\ pc = "idle" /\ at = 1 /\ pending = <<>> /\ resume = FALSE /\ draws = 0
  /\ child = [o \in Ordinals |-> "none"]
  /\ spent = [calls |-> 0, strays |-> 0, reads |-> 0, bodies |-> 0, failures |-> 0,
              errors |-> 0, crashes |-> 0]
  /\ said = <<>> /\ kept = <<>> /\ done = {} /\ status = "none" /\ mishap = {}

Spend(what) == spent' = [spent EXCEPT ![what] = @ + 1]

--------------------------------------------------------------------------------
(* The journal and the call's transaction.                                     *)

\* append, then commit and begin: what the verbs do before anything else happens.
Journal(entry) ==
  /\ journal' = Append(journal, entry)
  /\ durable' = Len(journal) + 1
  /\ kept' = said
  /\ alarmKept' = alarm

\* The call fails: its transaction is rolled back and the alarm cell reread.
Rollback ==
  /\ journal' = SubSeq(journal, 1, durable)
  /\ alarm' = alarmKept
  /\ pc' = "idle" /\ status' = "error" /\ pending' = <<>>
  /\ UNCHANGED <<durable, alarmKept, at, resume, draws, said>>

Diverge ==
  /\ Rollback
  /\ mishap' = mishap \cup {"diverged"}
  /\ UNCHANGED <<program, due, child, spent, kept, done>>

\* A verb answers and the body goes on to the next.
Answers(value) ==
  /\ said' = Append(said, value)
  /\ at' = at + 1
  /\ pc' = "verb"

\* The run's one alarm; the row waits for the commit.
Arm(of) == alarm' = of

\* WfShared::park and WfShared::fail: the body unwinds and the call is over.
Unwind(as) == pc' = "end" /\ status' = as

\* The answer leaves; the transaction commits.
EndCall ==
  /\ pc = "end"
  /\ durable' = Len(journal) /\ alarmKept' = alarm
  /\ kept' = IF status = "completed" THEN said ELSE kept
  /\ pc' = "idle" /\ pending' = <<>>
  /\ UNCHANGED <<program, journal, alarm, due, at, resume, draws, said, child, spent, done,
                 status, mishap>>

--------------------------------------------------------------------------------
(* Calls.                                                                      *)

\* run_attempt on the journal `log`: join an ended run, ignore a run that never
\* started, refuse a journal that does not begin with STARTED, else replay.
RunAttempt(log, input, resuming) ==
  \/ /\ Ended(log)
     /\ journal' = log /\ durable' = Len(log)
     /\ status' = IF Has(log, "COMPLETED") THEN "completed" ELSE "cancelled"
     /\ UNCHANGED <<pc, attempt>>
  \/ /\ log = <<>> /\ ~input
     /\ status' = "none"
     /\ UNCHANGED <<journal, durable, pc, attempt>>
  \/ /\ log # <<>> /\ ~Ended(log) /\ log[1].kind # "STARTED"
     /\ status' = "error"
     /\ UNCHANGED <<journal, durable, pc, attempt>>
  \/ /\ ~Ended(log)
     /\ \/ log = <<>> /\ input /\ journal' = <<Entry("STARTED", {}, 0)>>
        \/ log # <<>> /\ log[1].kind = "STARTED" /\ journal' = log
     /\ pending' = IF log = <<>> THEN <<>> ELSE ReadFrom(log, 1)
     /\ at' = 1 /\ draws' = 0 /\ said' = <<>> /\ resume' = resuming
     /\ pc' = "verb" /\ status' = "running"
     /\ UNCHANGED durable

Start ==
  /\ pc = "idle" /\ spent.calls < MaxCalls
  /\ RunAttempt(journal, TRUE, FALSE)
  /\ Spend("calls")
  /\ UNCHANGED <<program, alarm, alarmKept, due, child, kept, done, mishap>>

Resume ==
  /\ pc = "idle" /\ spent.calls < MaxCalls
  /\ RunAttempt(journal, FALSE, TRUE)
  /\ Spend("calls")
  /\ UNCHANGED <<program, alarm, alarmKept, due, child, kept, done, mishap>>

\* The armed alarm comes due; its row is deleted, in a transaction of its own,
\* before the attempt begins.
FireAlarm ==
  /\ pc = "idle" /\ alarm # 0 /\ (alarm = Retry \/ alarm \in due)
  /\ alarm' = 0 /\ alarmKept' = 0
  /\ RunAttempt(journal, FALSE, FALSE)
  /\ UNCHANGED <<program, due, child, spent, kept, done, mishap>>

\* Time passes over a timer that is journaled.
Elapse(i) ==
  /\ i \in (1..durable) \ due
  /\ journal[i].kind = "TIMER" /\ journal[i].val = Timed
  /\ due' = due \cup {i}
  /\ UNCHANGED <<program, store, pc, attempt, child, spent, history>>

\* Where a signal is provided for: at the gate that waits for it, or in the
\* sleep right before that gate, which then finds it.
Awaited(n) ==
  /\ journal # <<>> /\ Latest(journal).kind = "TIMER"
  /\ \/ n \in Latest(journal).of
     \/ /\ Latest(journal).of = {} /\ status = "parked" /\ at + 1 \in DOMAIN program
        /\ program[at + 1].verb = "await" /\ n \in program[at + 1].of

Signal(n) ==
  /\ pc = "idle"
  /\ \/ Awaited(n) /\ UNCHANGED <<spent, mishap>>
     \/ /\ ~Awaited(n) /\ spent.strays < MaxStrays
        /\ Spend("strays") /\ mishap' = mishap \cup {"stray"}
  /\ RunAttempt(Append(journal, Entry("SIGNAL", {n}, 0)), FALSE, FALSE)
  /\ UNCHANGED <<program, alarm, alarmKept, due, kept, done>>

SignalFromOutside(n) == Signal(n) /\ UNCHANGED child

\* notify_parent of a child that ended; it is sent once and may be lost.
ChildEnds(o) ==
  /\ child[o] = "running"
  /\ child' = [child EXCEPT ![o] = "ended"]
  /\ UNCHANGED <<program, store, due, pc, attempt, spent, history>>

ChildSignals(o) ==
  /\ child[o] = "ended"
  /\ child' = [child EXCEPT ![o] = "told"]
  /\ Signal(ChildSignal(o))

ChildSignalLost(o) ==
  /\ child[o] = "ended" /\ spent.errors < MaxErrors
  /\ child' = [child EXCEPT ![o] = "told"]
  /\ Spend("errors") /\ mishap' = mishap \cup {"lost"}
  /\ UNCHANGED <<program, store, due, pc, attempt, kept, done, status>>

\* cancel, whatever the run's state: every child it has spawned is told, one after
\* the other, before the transaction commits.  The verdict's row is written first
\* and read by nobody until then: it is appended at the commit.
Cancel ==
  /\ pc = "idle" /\ spent.calls < MaxCalls
  /\ pc' = "cancel"
  /\ pending' = SelectSeq(ReadFrom(journal, 0), LAMBDA i : journal[i].kind = "CHILD")
  /\ Spend("calls")
  /\ UNCHANGED <<program, store, due, at, resume, draws, said, child, history>>

\* The child hears of it, or not, which is only logged.
CancelChild ==
  /\ pc = "cancel" /\ pending # <<>>
  /\ pending' = Tail(pending)
  /\ LET o == journal[pending[1]].val IN
       \/ /\ child' = [child EXCEPT ![o] = IF @ \in {"none", "running"} THEN "cancelled" ELSE @]
          /\ UNCHANGED spent
       \/ spent.errors < MaxErrors /\ Spend("errors") /\ UNCHANGED child
  /\ UNCHANGED <<program, store, due, pc, at, resume, draws, said, history>>

CancelEnds ==
  /\ pc = "cancel" /\ pending = <<>>
  /\ journal' = Append(journal, Entry("CANCEL", {}, 0)) /\ durable' = Len(journal) + 1
  /\ alarmKept' = alarm
  /\ pc' = "idle" /\ status' = "cancelled"
  /\ UNCHANGED <<program, alarm, due, attempt, child, spent, kept, done, mishap>>

--------------------------------------------------------------------------------
(* Verbs.                                                                      *)

Verb == program[at]
AtVerb(verb) == pc = "verb" /\ at \in DOMAIN program /\ Verb.verb = verb
Foremost == journal[pending[1]]

\* WfShared::ambient outside steps: replayed in order, else read and appended.
\* The callers turn its divergence error into 0.
Ambient(v) ==
  \/ /\ pending # <<>> /\ Foremost.kind = "AMBIENT"
     /\ Answers(Foremost.val) /\ pending' = Tail(pending)
     /\ UNCHANGED journal
  \/ /\ pending # <<>> /\ Foremost.kind # "AMBIENT"
     /\ Answers(0)
     /\ UNCHANGED <<pending, journal>>
  \/ /\ pending = <<>>
     /\ Answers(v) /\ journal' = Append(journal, Entry("AMBIENT", {}, v))
     /\ UNCHANGED pending

Time(v) ==
  /\ AtVerb("time")
  /\ Ambient(v)
  /\ UNCHANGED <<program, durable, alarm, alarmKept, due, resume, draws, child, spent, history>>

\* math.random: the n-th draw of the seeded generator.
Random ==
  /\ AtVerb("random")
  /\ Answers(draws) /\ draws' = draws + 1
  /\ UNCHANGED <<program, store, due, pending, resume, child, spent, history>>

\* The rows of this step's attempts at the front of the cursor: how many, and how
\* many of them INTENT.
Own(i) == journal[pending[i]].kind \in {"INTENT", "FAILED"} /\ journal[pending[i]].of = Verb.of
Walked == Cardinality({i \in DOMAIN pending : \A j \in 1..i : Own(j)})
Seen == Cardinality({i \in 1..Walked : journal[pending[i]].kind = "INTENT"})
Rest == SubSeq(pending, Walked + 1, Len(pending))

\* The journal ends in this step's final failure.
Blocked ==
  /\ Rest = <<>> /\ Walked > 0
  /\ journal[pending[Walked]].kind = "FAILED" /\ journal[pending[Walked]].val = 1

Decided == Rest # <<>> /\ journal[Rest[1]].kind = "RESULT" /\ journal[Rest[1]].of = Verb.of

StepReplays ==
  /\ AtVerb("step") /\ Decided
  /\ Answers(journal[Rest[1]].val) /\ pending' = Tail(Rest)
  /\ UNCHANGED <<program, store, due, resume, draws, child, spent, history>>

StepBlocked ==
  /\ AtVerb("step") /\ Blocked /\ ~resume
  /\ Unwind("failed")
  /\ UNCHANGED <<program, store, due, attempt, child, spent, kept, done, mishap>>

StepDiverges ==
  /\ AtVerb("step") /\ ~Decided /\ Rest # <<>> /\ Seen = 0
  /\ Diverge

\* Nothing decides the step: its next attempt is journaled, then runs.
StepRuns ==
  /\ AtVerb("step") /\ ~Decided /\ (Rest = <<>> \/ Seen > 0) /\ (Blocked => resume)
  /\ pending' = Rest /\ resume' = (resume /\ ~Blocked)
  /\ Journal(Entry("INTENT", Verb.of, IF Blocked THEN 1 ELSE Seen + 1))
  /\ pc' = "body" /\ Spend("bodies")
  /\ UNCHANGED <<program, alarm, due, at, draws, said, child, done, status, mishap>>

\* The attempt in the INTENT row written last.
Attempt == journal[Max({i \in DOMAIN journal : journal[i].kind = "INTENT"})].val

\* The shims are the same inside a step: a clock read is journaled between INTENT
\* and RESULT (or answered 0), a draw advances the generator.
BodyReads(v) ==
  /\ pc = "body" /\ spent.reads < MaxBodyReads
  /\ \/ /\ journal' = IF pending = <<>> THEN Append(journal, Entry("AMBIENT", {}, v)) ELSE journal
        /\ pending' = IF pending # <<>> /\ Foremost.kind = "AMBIENT" THEN Tail(pending) ELSE pending
        /\ UNCHANGED draws
     \/ draws' = draws + 1 /\ UNCHANGED <<journal, pending>>
  /\ Spend("reads") /\ mishap' = mishap \cup {"read"}
  /\ UNCHANGED <<program, durable, alarm, alarmKept, due, pc, at, resume, said, child, kept,
                 done, status>>

BodySucceeds_NotKept ==
  /\ pc = "body"
  /\ UNCHANGED store
  /\ Answers(spent.bodies) /\ done' = done \cup {at} /\ kept' = said
  /\ UNCHANGED <<program, due, pending, resume, draws, child, spent, status, mishap>>

BodySucceeds ==
  /\ pc = "body"
  /\ Journal(Entry("RESULT", Verb.of, spent.bodies))
  /\ Answers(spent.bodies) /\ done' = done \cup {at}
  /\ UNCHANGED <<program, alarm, due, pending, resume, draws, child, spent, status, mishap>>

BodyFails_NotArmed ==
  /\ pc = "body" /\ spent.failures < MaxFailures
  /\ Journal(Entry("FAILED", Verb.of, IF Attempt >= Verb.tries THEN 1 ELSE 0))
  /\ IF Attempt >= Verb.tries THEN Unwind("failed") ELSE Unwind("parked")
  /\ Spend("failures")
  /\ UNCHANGED <<program, alarm, due, attempt, child, done, mishap>>

\* A body that fails or times out: the failure is journaled; the last attempt
\* fails the run, the others arm the backoff and park.
BodyFails ==
  /\ pc = "body" /\ spent.failures < MaxFailures
  /\ Journal(Entry("FAILED", Verb.of, IF Attempt >= Verb.tries THEN 1 ELSE 0))
  /\ \/ Attempt >= Verb.tries /\ Unwind("failed") /\ UNCHANGED alarm
     \/ Attempt < Verb.tries /\ Unwind("parked") /\ Arm(Retry)
  /\ Spend("failures")
  /\ UNCHANGED <<program, due, attempt, child, done, mishap>>

\* sleep: a live timer row is committed, then armed; a replayed one passes when
\* due and is armed again when not.
Sleep ==
  /\ AtVerb("sleep")
  /\ \/ /\ pending = <<>>
        /\ Journal(Entry("TIMER", {}, Timed))
        /\ Arm(Len(journal) + 1)
        /\ Unwind("parked")
        /\ UNCHANGED <<attempt, mishap>>
     \/ /\ pending # <<>> /\ Foremost.kind = "TIMER" /\ Foremost.of = {} /\ pending[1] \in due
        /\ Answers(0) /\ pending' = Tail(pending)
        /\ UNCHANGED <<store, resume, draws, kept, status, mishap>>
     \/ /\ pending # <<>> /\ Foremost.kind = "TIMER" /\ Foremost.of = {} /\ pending[1] \notin due
        /\ Arm(pending[1])
        /\ Unwind("parked")
        /\ UNCHANGED <<journal, durable, alarmKept, attempt, kept, mishap>>
  /\ UNCHANGED <<program, due, child, spent, done>>

SleepDiverges ==
  /\ AtVerb("sleep") /\ pending # <<>> /\ (Foremost.kind # "TIMER" \/ Foremost.of # {})
  /\ Diverge

\* The first signal of the cursor, at or after place `from`, that the gate wants.
Wanted(from) ==
  LET found == {i \in from..Len(pending) :
                  journal[pending[i]].kind = "SIGNAL" /\ journal[pending[i]].of \subseteq Verb.of}
  IN IF found = {} THEN 0 ELSE Min(found)

AtGate == pending # <<>> /\ Foremost.kind = "TIMER" /\ Foremost.of = Verb.of

\* A gate met for the first time: journaled, armed if it has a timeout, parked.
AwaitParks ==
  /\ AtVerb("await") /\ pending = <<>>
  /\ Journal(Entry("TIMER", Verb.of, Verb.wait))
  /\ Arm(IF Verb.wait = Timed THEN Len(journal) + 1 ELSE alarm)
  /\ Unwind("parked")
  /\ UNCHANGED <<program, due, attempt, child, spent, done, mishap>>

\* The signal was there before the gate: consumed where it is, no gate at all.
AwaitFinds ==
  /\ AtVerb("await") /\ pending # <<>> /\ ~AtGate /\ Wanted(1) # 0
  /\ Answers(pending[Wanted(1)]) /\ pending' = RemoveAt(pending, Wanted(1))
  /\ UNCHANGED <<program, store, due, resume, draws, child, spent, history>>

AwaitDiverges ==
  /\ AtVerb("await") /\ pending # <<>> /\ ~AtGate /\ Wanted(1) = 0
  /\ Diverge

AwaitAnswered_Timeout ==
  /\ AtVerb("await") /\ AtGate /\ Wanted(2) # 0
  /\ IF pending[1] \in due
     THEN Answers(0) /\ pending' = Tail(pending)
     ELSE Answers(pending[Wanted(2)]) /\ pending' = Tail(RemoveAt(pending, Wanted(2)))
  /\ UNCHANGED <<program, store, due, resume, draws, child, spent, history>>

\* The gate is there: the first wanted signal behind it answers, before the clock
\* is looked at.
AwaitAnswered ==
  /\ AtVerb("await") /\ AtGate /\ Wanted(2) # 0
  /\ Answers(pending[Wanted(2)]) /\ pending' = Tail(RemoveAt(pending, Wanted(2)))
  /\ UNCHANGED <<program, store, due, resume, draws, child, spent, history>>

AwaitTimesOut ==
  /\ AtVerb("await") /\ AtGate /\ Wanted(2) = 0 /\ pending[1] \in due
  /\ Answers(0) /\ pending' = Tail(pending)
  /\ UNCHANGED <<program, store, due, resume, draws, child, spent, history>>

\* A gate met again is armed for its due time; from the end of the integers the
\* sum of two readings of the clock wraps to an alarm that is due at once.
AwaitParksAgain ==
  /\ AtVerb("await") /\ AtGate /\ Wanted(2) = 0 /\ pending[1] \notin due
  /\ \/ Foremost.val = Forever /\ UNCHANGED alarm
     \/ Foremost.val # Forever /\ Arm(pending[1])
     \/ Foremost.val = EndOfTime /\ Arm(Retry)
  /\ Unwind("parked")
  /\ UNCHANGED <<program, journal, durable, alarmKept, due, attempt, child, spent, kept, done,
                 mishap>>

\* spawn: replay takes the child from its row and sends nothing; live, the row is
\* committed before the child's start is sent.
SpawnReplays ==
  /\ AtVerb("spawn") /\ pending # <<>> /\ Foremost.kind = "CHILD" /\ Foremost.of = Verb.of
  /\ Answers(Foremost.val) /\ pending' = Tail(pending)
  /\ UNCHANGED <<program, store, due, resume, draws, child, spent, history>>

SpawnDiverges ==
  /\ AtVerb("spawn") /\ pending # <<>> /\ (Foremost.kind # "CHILD" \/ Foremost.of # Verb.of)
  /\ Diverge

SpawnLaunches ==
  /\ AtVerb("spawn") /\ pending = <<>>
  /\ Journal(Entry("CHILD", Verb.of, Cardinality(Children(journal))))
  /\ pc' = "launch"
  /\ UNCHANGED <<program, alarm, due, attempt, child, spent, done, status, mishap>>

Launched ==
  /\ pc = "launch"
  /\ LET o == Latest(journal).val IN
       /\ child' = [child EXCEPT ![o] = "running"]
       /\ Answers(o)
  /\ UNCHANGED <<program, store, due, pending, resume, draws, spent, history>>

\* The body itself raises an error, the run's workflow is not declared any more, a
\* step's value is none that can be journaled, a child's start is refused, a statement
\* fails or the COMMIT does (which rereads no alarm: the one in memory rings once
\* more, as a start would).
CallFails ==
  /\ pc \in {"verb", "body", "launch", "cancel", "end"} /\ spent.errors < MaxErrors
  /\ Rollback
  /\ Spend("errors") /\ mishap' = mishap \cup {"error"}
  /\ UNCHANGED <<program, due, child, kept, done>>

\* Nothing bounds an await, of the body, of a step without a timeout or of a call to
\* a child: the call budget interrupts only the vm's own instructions.
Hang ==
  /\ pc \in {"verb", "body", "launch", "cancel"} /\ spent.errors < MaxErrors
  /\ pc' = "hung"
  /\ Spend("errors") /\ mishap' = mishap \cup {"hung"}
  /\ UNCHANGED <<program, store, due, attempt, child, kept, done, status>>

\* The body returns: COMPLETED rides on the call's own commit.
Complete ==
  /\ pc = "verb" /\ at > Len(program)
  /\ journal' = Append(journal, Entry("COMPLETED", {}, 0))
  /\ Unwind("completed")
  /\ UNCHANGED <<program, durable, alarm, alarmKept, due, attempt, child, spent, kept, done,
                 mishap>>

--------------------------------------------------------------------------------

\* The process dies: what was not committed is gone, with the attempt.
Crash ==
  /\ spent.crashes < MaxCrashes /\ journal # <<>>
  /\ journal' = SubSeq(journal, 1, durable) /\ alarm' = alarmKept
  /\ pc' = "idle" /\ status' = "none" /\ pending' = <<>>
  /\ Spend("crashes") /\ mishap' = mishap \cup {"crash"}
  /\ UNCHANGED <<program, durable, alarmKept, due, at, resume, draws, said, child, kept, done>>

\* A call runs on until it returns.
Running ==
  \/ StepReplays \/ StepBlocked \/ StepDiverges \/ StepRuns \/ BodySucceeds
  \/ Sleep \/ SleepDiverges
  \/ AwaitParks \/ AwaitFinds \/ AwaitDiverges \/ AwaitAnswered \/ AwaitTimesOut
  \/ AwaitParksAgain \/ SpawnReplays \/ SpawnDiverges \/ SpawnLaunches \/ Launched
  \/ Random \/ Complete \/ EndCall \/ CancelChild \/ CancelEnds
  \/ \E v \in 1..2 : Time(v)

WorkflowNext ==
  \/ Running \/ BodyFails \/ CallFails \/ Hang \/ Crash
  \/ Start \/ Resume \/ Cancel \/ FireAlarm
  \/ \E v \in 1..2 : BodyReads(v)
  \/ \E n \in Signals : SignalFromOutside(n)
  \/ \E o \in Ordinals : ChildEnds(o) \/ ChildSignals(o) \/ ChildSignalLost(o)
  \/ \E i \in DOMAIN journal : Elapse(i)

WorkflowSpec == WorkflowInit /\ [][WorkflowNext]_workflow

\* Calls that do not hang end (the budget interrupts a vm that spins), time passes,
\* alarms ring, and a child that has ended tells its parent.
FairSpec ==
  /\ WorkflowSpec
  /\ WF_workflow(Running) /\ WF_workflow(FireAlarm)
  /\ WF_workflow(\E i \in DOMAIN journal : Elapse(i))
  /\ \A o \in Ordinals : WF_workflow(ChildSignals(o))

--------------------------------------------------------------------------------
(* What a reader of the journal is told.                                       *)

RunStatus_AnyFailure(log) ==
  CASE Has(log, "CANCEL") -> "cancelled"
    [] ~Has(log, "CANCEL") /\ Has(log, "COMPLETED") -> "completed"
    [] log = <<>> -> "unstarted"
    [] ~Ended(log) /\ log # <<>> /\ Latest(log).kind = "FAILED" -> "failed"
    [] ~Ended(log) /\ log # <<>> /\ Latest(log).kind = "TIMER" ->
         IF Latest(log).of = {} THEN "sleeping" ELSE "awaiting"
    [] OTHER -> "running"

\* run_status: the state a journal tells on its own.
RunStatus(log) ==
  CASE Has(log, "CANCEL") -> "cancelled"
    [] ~Has(log, "CANCEL") /\ Has(log, "COMPLETED") -> "completed"
    [] log = <<>> -> "unstarted"
    [] ~Ended(log) /\ log # <<>> /\ Latest(log).kind = "FAILED" /\ Latest(log).val = 1 -> "failed"
    [] ~Ended(log) /\ log # <<>> /\ Latest(log).kind = "TIMER" ->
         IF Latest(log).of = {} THEN "sleeping" ELSE "awaiting"
    [] OTHER -> "running"

RowsOf(log, kinds) == {i \in DOMAIN log : log[i].kind \in kinds}
Newest(set) == IF set = {} THEN 0 ELSE Max(set)

\* at_step: the step whose INTENT has no RESULT yet, the gate, the last result.
AtStep(log) ==
  LET intent == Newest(RowsOf(log, {"INTENT"}))
      result == Newest(RowsOf(log, {"RESULT"})) IN
  CASE intent > result -> [verb |-> "step", of |-> log[intent].of]
    [] intent <= result /\ log # <<>> /\ Latest(log).kind = "TIMER" ->
         [verb |-> IF Latest(log).of = {} THEN "sleep" ELSE "await", of |-> Latest(log).of]
    [] OTHER -> [verb |-> "after", of |-> IF result = 0 THEN {} ELSE log[result].of]

--------------------------------------------------------------------------------
(* Properties.                                                                 *)

\* A journal that only grew by the run's own verbs and by signals at their gates,
\* with steps that read neither clock nor generator.
Undisturbed == mishap \cap {"stray", "read"} = {}

\* Types of the journal, the cursor and the alarm.
TypeOK ==
  /\ program \in Programs
  /\ \A i \in DOMAIN journal : journal[i] \in [kind : Kinds, of : SUBSET STRING, val : Nat]
  /\ durable \in 0..Len(journal)
  /\ {alarm, alarmKept} \subseteq (0..Len(journal)) \cup {Retry}
  /\ due \subseteq 1..durable
  /\ pc \in {"idle", "verb", "body", "launch", "end", "cancel", "hung"}
  /\ \A i \in DOMAIN pending : pending[i] \in 1..Len(journal)
  /\ at \in 1..(Len(program) + 1) /\ resume \in BOOLEAN
  /\ child \in [Ordinals -> {"none", "running", "ended", "told", "cancelled"}]

\* No gate with a timeout shares a name with a gate after it: a signal that comes
\* for the second would answer the first, which has timed out, from then on.
GatesApart ==
  \A p, q \in DOMAIN program :
    (/\ p < q /\ program[p].verb = "await" /\ program[q].verb = "await"
     /\ program[p].wait = Timed) => program[p].of \cap program[q].of = {}

\* Every attempt gets the answers that the journal grew from.
AnswersStay ==
  pc \in {"verb", "body", "launch", "end"} =>
    \A k \in 1..(IF Len(said) < Len(kept) THEN Len(said) ELSE Len(kept)) : said[k] = kept[k]

\* Replay is faithful: over crashes, failures, resumes, retries and timeouts, an
\* attempt never meets an entry it cannot account for, and its verbs answer what
\* they answered before.
ReplayFaithful ==
  Undisturbed => "diverged" \notin mishap /\ (GatesApart => AnswersStay)

\* The comment on await_signals, "the answer is the FIRST matching signal after the
\* gate in journal order, [...] which is deterministic", for all bodies alike.
GatesDeterministic == Undisturbed => AnswersStay

\* EntryKind::Result: "replay returns this value instead of running the body again".
ResultsReplay == pc = "body" => at \notin done

\* The same, where neither a stray signal nor a read inside a step has come
\* between the rows of a step.
StepsNotRepeated == Undisturbed => ResultsReplay

\* The dashboard's reading of a parked run is where the run really is: at_step
\* and run_status name the verb it parked at, and only a failed run is failed.
\* (A signal that came early hides the sleep it came in: no timer trails.)
StatusTruthful ==
  (/\ Undisturbed /\ pc = "idle" /\ status \in {"parked", "failed"} /\ ~Ended(journal)
   /\ Latest(journal).kind # "SIGNAL") =>
    /\ AtStep(journal) = [verb |-> Verb.verb, of |-> Verb.of]
    /\ (status = "failed") <=> (RunStatus(journal) = "failed")

\* Nothing is left that would move the run, but an outside signal, a child that is
\* still running or a resume.
Settled ==
  \/ RunStatus(journal) \in {"completed", "cancelled", "failed"}
  \/ /\ RunStatus(journal) = "awaiting" /\ Latest(journal).val # Timed
     /\ \A o \in Ordinals : ChildSignal(o) \in Latest(journal).of => child[o] = "running"

\* A run that started comes to an end, to a failed step or to a gate only the
\* outside or a running child can open: whatever parked it has armed its alarm.  Not
\* after a crash, an error, a hung call, a lost notification or a divergence, which
\* may leave it unarmed.
RunSettles ==
  (journal # <<>> /\ pc = "idle" /\ status = "parked") ~> (Settled \/ mishap # {})
====
