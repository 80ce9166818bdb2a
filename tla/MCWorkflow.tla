------------------------------ MODULE MCWorkflow -------------------------------
(* Run bodies small enough for TLC that between them use every verb.           *)
EXTENDS Workflow

\* A retried step, a clock read, a sleep and a step of the same name.
Retrying == <<StepVerb("a", 2), AmbientVerb("time"), SleepVerb, StepVerb("a", 0)>>
\* A timed race between two signals, then a step and a draw.
Racing == <<AmbientVerb("random"), RaceVerb({"s", "t"}, Timed), StepVerb("a", 1),
            AmbientVerb("random")>>
\* Two signals joined after a sleep.
Joining == <<SleepVerb>> \o AllVerbs(<<"s", "t">>, EndOfTime) \o <<StepVerb("a", 1)>>
\* A child joined after a retried step.
Parent == <<SpawnVerb("d"), StepVerb("a", 2), AwaitVerb("c0", Forever)>>
\* Two children, joined in order.
Parents == <<SpawnVerb("d"), SpawnVerb("d"), AwaitVerb("c0", Forever), AwaitVerb("c1", Timed)>>

\* Two gates of one name, the first with a timeout, and a sleep between them.
Again == <<AwaitVerb("s", Timed), SleepVerb, AwaitVerb("s", Forever), StepVerb("a", 1)>>

AllPrograms == {Retrying, Racing, Joining, Parent, Parents}
WithAgain == AllPrograms \cup {Again}
TwoSignals == {"s", "t"}
====
