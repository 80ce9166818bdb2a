------------------------------ MODULE ObjectTask -------------------------------
(* The pinned task of one object on one node: one call at a time inside its    *)
(* own transaction, `init` on the first, and the object's one alarm, which has *)
(* three homes - the persisted row, the in-memory cell the loop waits on, and  *)
(* the registry row that lets the cold-alarm sweep wake an object with no task.*)
(*                                                                             *)
(* Alarms are numbered as methods set them; 0 is none.  An armed alarm may come*)
(* due at any moment.  The file survives the process; where another node takes *)
(* over instead is module ObjectHosting's subject.                             *)
EXTENDS Naturals

CONSTANTS
  MaxAlarms,         \* bound: alarms methods set
  MaxCalls,          \* bound: calls arriving in the mailbox
  MaxCrashes,        \* bound: process deaths
  MaxCommitFailures, \* bound: COMMITs that fail
  MaxMirrorLosses,   \* bound: mirror writes that exhaust their retries
  MaxSlips,          \* bound: storage statements whose failure is only logged
  MaxBootMisses,     \* bound: boot scans that miss the file or whose mirror write fails
  MaxInFlight,       \* bound: a spawn waits while as many of its mirror write fly
  MaxInitCalls       \* bound: calls whose method is `init`

ASSUME TaskAssumption ==
  {MaxAlarms, MaxCalls, MaxCrashes, MaxCommitFailures, MaxMirrorLosses, MaxSlips, MaxBootMisses,
   MaxInFlight, MaxInitCalls} \subseteq Nat

VARIABLES
  pc,       \* "down": no process; "gone": no task; "loop": waiting; "fire": alarm
            \* cleared, not yet dispatched; "init", "method": in a dispatch; "hung":
            \* in one that awaits what never comes
  alarmRun, \* is the running dispatch the alarm's?
  file,     \* committed: the alarm row, the init mark (user_version) and, for the
            \* properties, how many inits' effects the file holds
  tx,       \* the same, as the open transaction sees it
  open,     \* is a transaction open?
  cell,     \* ObjectHome.alarm
  vmNew,    \* has this vm no state table yet?
  mirror,   \* the registry's object_alarms row
  sending,  \* mirror writes in flight: value -> how many
  spent,    \* what is used up of the bounds
  owed,     \* history: the committed alarm whose handler has not ended
  failed    \* history: alarms set by calls that failed

memory == <<alarmRun, tx, open, cell, vmNew>>
history == <<owed, failed>>
vars == <<pc, memory, file, mirror, sending, spent, history>>

Alarms == 0..MaxAlarms
File == [alarm : Alarms, init : BOOLEAN, inits : Nat]
NewFile == [alarm |-> 0, init |-> FALSE, inits |-> 0]

Init ==
  /\ pc = "gone" /\ alarmRun = FALSE
  /\ file = NewFile /\ tx = NewFile /\ open = FALSE
  /\ cell = 0 /\ vmNew = FALSE
  /\ mirror = 0 /\ sending = [a \in Alarms |-> 0]
  /\ spent = [alarms |-> 0, calls |-> 0, crashes |-> 0, commits |-> 0, mirrors |-> 0,
             slips |-> 0, boots |-> 0, inits |-> 0]
  /\ owed = 0 /\ failed = {}

Spend(what) == spent' = [spent EXCEPT ![what] = @ + 1]

--------------------------------------------------------------------------------
(* The registry mirror: a spawned write per change, unordered, retried thrice. *)

Mirror(a) == sending' = [sending EXCEPT ![a] = @ + 1]

MirrorLands(a) ==
  /\ sending[a] > 0
  /\ sending' = [sending EXCEPT ![a] = @ - 1]
  /\ mirror' = a
  /\ UNCHANGED <<pc, memory, file, spent, history>>

MirrorLost(a) ==
  /\ sending[a] > 0 /\ spent.mirrors < MaxMirrorLosses
  /\ sending' = [sending EXCEPT ![a] = @ - 1]
  /\ Spend("mirrors")
  /\ UNCHANGED <<pc, memory, file, mirror, history>>

--------------------------------------------------------------------------------
(* Residency.                                                                  *)

\* load_alarm as its callers take it: a read that fails counts as no alarm.
LoadAlarm(a, row) ==
  \/ a = row /\ UNCHANGED spent
  \/ a = 0 /\ spent.slips < MaxSlips /\ Spend("slips")

\* The persisted alarm re-arms, and what was read is mirrored, arm or clear.
Spawn ==
  /\ \E a \in Alarms :
       /\ LoadAlarm(a, file.alarm) /\ sending[a] < MaxInFlight
       /\ cell' = a
       /\ Mirror(a)
  /\ vmNew' = TRUE /\ open' = FALSE /\ alarmRun' = FALSE /\ tx' = file
  /\ pc' = "loop"

\* A caller touches the object.
Touch ==
  /\ pc = "gone" /\ spent.calls < MaxCalls
  /\ Spawn
  /\ UNCHANGED <<file, mirror, history>>

\* The cold-alarm sweep: a due registry row of an object with no task here.
Sweep ==
  /\ pc = "gone" /\ mirror # 0
  /\ Spawn
  /\ UNCHANGED <<file, mirror, history>>

\* A pending alarm keeps the task; without one it ends when idle, and what its
\* connection has not committed goes with it.
Hibernate ==
  /\ pc = "loop" /\ cell = 0
  /\ pc' = "gone" /\ open' = FALSE /\ tx' = file
  /\ UNCHANGED <<alarmRun, vmNew, cell, file, mirror, sending, spent, history>>

--------------------------------------------------------------------------------
(* One dispatch.                                                               *)

\* BEGIN, refused while a transaction is still open: the call fails at once.
Begin(alarm) ==
  IF open
  THEN /\ pc' = "loop"
       /\ owed' = IF alarm THEN 0 ELSE owed
       /\ UNCHANGED <<tx, open, alarmRun>>
  ELSE /\ pc' = "init"
       /\ open' = TRUE /\ tx' = file /\ alarmRun' = alarm
       /\ UNCHANGED owed

\* The mailbox hands over a call.
Receive ==
  /\ pc = "loop" /\ spent.calls < MaxCalls
  /\ Begin(FALSE)
  /\ Spend("calls")
  /\ UNCHANGED <<file, cell, vmNew, mirror, sending, failed>>

\* fire_alarm: the alarm leaves all three homes before its handler starts; the
\* delete is its own transaction (or part of one left open), and one that fails is
\* only logged.
FireAlarm ==
  /\ pc = "loop" /\ cell # 0
  /\ pc' = "fire"
  /\ cell' = 0
  /\ Mirror(0)
  /\ \/ open /\ tx' = [tx EXCEPT !.alarm = 0] /\ UNCHANGED <<file, spent>>
     \/ ~open /\ file' = [file EXCEPT !.alarm = 0] /\ UNCHANGED <<tx, spent>>
     \/ spent.slips < MaxSlips /\ Spend("slips") /\ UNCHANGED <<file, tx>>
  /\ UNCHANGED <<alarmRun, open, vmNew, mirror, history>>

Dispatch ==
  /\ pc = "fire"
  /\ Begin(TRUE)
  /\ UNCHANGED <<file, cell, vmNew, mirror, sending, spent, failed>>

RunInit_Unmarked ==
  /\ pc = "init"
  /\ vmNew' = FALSE /\ pc' = "method"
  /\ tx' = IF vmNew /\ ~tx.init THEN [tx EXCEPT !.inits = @ + 1] ELSE tx
  /\ UNCHANGED <<alarmRun, open, cell, file, mirror, sending, spent, history>>

\* The vm's first dispatch creates its state table, and only then runs init on a
\* file that is not marked; later dispatches find the table and go on.
RunInit ==
  /\ pc = "init"
  /\ vmNew' = FALSE /\ pc' = "method"
  /\ tx' = IF vmNew /\ ~tx.init THEN [tx EXCEPT !.init = TRUE, !.inits = @ + 1] ELSE tx
  /\ UNCHANGED <<alarmRun, open, cell, file, mirror, sending, spent, history>>

\* A call whose method is init: it runs as any method would, and leaves no mark.
CallInit ==
  /\ pc = "init" /\ ~alarmRun /\ spent.inits < MaxInitCalls
  /\ vmNew' = FALSE /\ pc' = "method"
  /\ tx' = [tx EXCEPT !.inits = @ + 1]
  /\ Spend("inits")
  /\ UNCHANGED <<alarmRun, open, cell, file, mirror, sending, history>>

\* state:set_alarm: the row in the transaction, the mirror, the cell.
SetAlarm ==
  /\ pc = "method" /\ spent.alarms < MaxAlarms
  /\ LET a == spent.alarms + 1 IN
       /\ tx' = [tx EXCEPT !.alarm = a]
       /\ Mirror(a)
       /\ cell' = a
  /\ Spend("alarms")
  /\ UNCHANGED <<pc, alarmRun, open, vmNew, file, mirror, history>>

\* What the call set and did not commit.
Dropped == IF tx.alarm = file.alarm THEN failed ELSE failed \cup {tx.alarm}

\* The method returned: COMMIT.
Succeed ==
  /\ pc = "method"
  /\ file' = tx /\ open' = FALSE /\ alarmRun' = FALSE /\ pc' = "loop"
  /\ owed' = IF alarmRun \/ tx.alarm # file.alarm THEN tx.alarm ELSE owed
  /\ UNCHANGED <<tx, cell, vmNew, mirror, sending, spent, failed>>

\* COMMIT failed: an error at once, no rollback and no resync.  SQLite has rolled
\* the transaction back by itself, or it has left it open.
CommitFails ==
  /\ pc = "method" /\ spent.commits < MaxCommitFailures
  /\ Spend("commits")
  /\ \/ open' = FALSE /\ tx' = file
     \/ UNCHANGED <<open, tx>>
  /\ alarmRun' = FALSE /\ pc' = "loop"
  /\ owed' = IF alarmRun THEN 0 ELSE owed
  /\ failed' = Dropped
  /\ UNCHANGED <<cell, vmNew, file, mirror, sending>>

Fail_NoResync ==
  /\ pc \in {"init", "method"} /\ vmNew' \in {vmNew, FALSE}
  /\ tx' = file /\ open' = FALSE /\ alarmRun' = FALSE /\ pc' = "loop"
  /\ owed' = IF alarmRun THEN 0 ELSE owed
  /\ failed' = Dropped
  /\ UNCHANGED <<cell, file, mirror, sending, spent>>

Fail_Commits ==
  /\ pc \in {"init", "method"} /\ vmNew' \in {vmNew, FALSE}
  /\ file' = tx
  /\ tx' = file' /\ open' = FALSE /\ alarmRun' = FALSE /\ pc' = "loop"
  /\ cell' = tx.alarm
  /\ Mirror(tx.alarm)
  /\ owed' = IF alarmRun THEN 0 ELSE owed
  /\ failed' = Dropped
  /\ UNCHANGED <<mirror, spent>>

\* resync_alarm_from_storage, on what the connection now sees.
Resync(row) ==
  \E a \in Alarms :
    /\ LoadAlarm(a, row)
    /\ cell' = a
    /\ Mirror(a)

\* The dispatch failed, looking the method up (no state table yet), in init or in
\* the method: ROLLBACK, and the cell and the mirror are set from the row that is
\* there again.  A ROLLBACK that fails is only logged, and so is a read after it.
Fail ==
  /\ pc \in {"init", "method"} /\ vmNew' \in {vmNew, FALSE}
  /\ \/ tx' = file /\ open' = FALSE /\ Resync(file.alarm)
     \/ /\ spent.slips < MaxSlips /\ Spend("slips")
        /\ \E a \in {tx.alarm, 0} : cell' = a /\ Mirror(a)
        /\ UNCHANGED <<tx, open>>
  /\ alarmRun' = FALSE /\ pc' = "loop"
  /\ owed' = IF alarmRun THEN 0 ELSE owed
  /\ failed' = Dropped
  /\ UNCHANGED <<file, mirror>>

\* Nothing bounds an await of the dispatch: the call budget interrupts only the vm's
\* own instructions.
Hang ==
  /\ pc \in {"init", "method"}
  /\ pc' = "hung"
  /\ UNCHANGED <<memory, file, mirror, sending, spent, history>>

--------------------------------------------------------------------------------
(* The process.                                                                *)

Crash ==
  /\ pc # "down" /\ spent.crashes < MaxCrashes
  /\ pc' = "down"
  /\ alarmRun' = FALSE /\ tx' = file /\ open' = FALSE /\ cell' = 0 /\ vmNew' = FALSE
  /\ sending' = [a \in Alarms |-> 0]
  /\ Spend("crashes")
  /\ UNCHANGED <<file, mirror, history>>

Boot_NoScan ==
  /\ pc = "down"
  /\ pc' = "gone"
  /\ UNCHANGED <<memory, file, mirror, sending, spent, history>>

\* The boot scan mirrors the alarm this disk holds: best effort, once.  A file that
\* does not open or read is skipped, a failed write to the registry only logged.
Boot ==
  /\ pc = "down"
  /\ pc' = "gone"
  /\ \/ mirror' = (IF file.alarm # 0 THEN file.alarm ELSE mirror) /\ UNCHANGED spent
     \/ spent.boots < MaxBootMisses /\ Spend("boots") /\ UNCHANGED mirror
  /\ UNCHANGED <<memory, file, sending, history>>

Next ==
  \/ Touch \/ Sweep \/ Hibernate \/ Receive \/ FireAlarm \/ Dispatch
  \/ RunInit \/ CallInit \/ SetAlarm \/ Succeed \/ CommitFails \/ Fail \/ Hang
  \/ Crash \/ Boot
  \/ \E a \in Alarms : MirrorLands(a) \/ MirrorLost(a)

Spec == Init /\ [][Next]_vars

Progress == RunInit \/ Succeed \/ Fail

\* A dispatch that does not hang ends (its budget interrupts a vm that spins), timers
\* run out, mirror writes land, a dead process is started again and its sweep runs.
FairSpec ==
  /\ Spec
  /\ WF_vars(Progress) /\ WF_vars(Dispatch)
  /\ WF_vars(FireAlarm) /\ WF_vars(Boot) /\ WF_vars(Sweep)
  /\ \A a \in Alarms : WF_vars(MirrorLands(a))

--------------------------------------------------------------------------------
(* Properties.                                                                 *)

\* Types of the file, the task's memory and the mirror.
TypeOK ==
  /\ pc \in {"down", "gone", "loop", "fire", "init", "method", "hung"}
  /\ {alarmRun, open, vmNew} \subseteq BOOLEAN
  /\ {file, tx} \subseteq File /\ {cell, mirror, owed} \subseteq Alarms
  /\ sending \in [Alarms -> Nat]
  /\ failed \subseteq Alarms

\* No COMMIT failed and no storage failure was swallowed so far.
StorageSound == spent.commits = 0 /\ spent.slips = 0

\* Whenever the loop decides how long to sleep, the alarm it waits on is the one
\* on disk: through arming, firing, failing and reviving, the cell and the row
\* agree between calls.  Only two things end that: a COMMIT that fails, after which
\* nothing is resynced, and a failure of the alarm's own delete or read or of a
\* ROLLBACK, which is swallowed.
CellMatchesRow == (StorageSound /\ pc = "loop") => cell = file.alarm

\* An alarm set by a call that failed is never on disk, so no later wake fires it.
FailedSetsNothing == file.alarm # 0 => file.alarm \notin failed

\* The platform runs init to completion at most once in the life of the file, over
\* any number of failed calls, vm lives and crashes; its effects are there again
\* only for as many calls as named init themselves.
InitOnce == file.inits <= 1 + spent.inits

\* No alarm on disk sleeps unseen: a file with an alarm has a task waiting on
\* it, or a registry row for the sweep to find, or is about to be scanned; unless a
\* boot scan missed it.
AlarmFindable ==
  (StorageSound /\ spent.boots = 0 /\ pc = "gone" /\ file.alarm # 0) => mirror = file.alarm

\* An alarm on disk is eventually taken off it to be fired, or replaced, unless the
\* storage failed it, a boot scan missed it or a dispatch hangs for good.
AlarmFires ==
  \/ <>[](pc = "hung")
  \/ \A a \in 1..MaxAlarms :
       (file.alarm = a) ~> (file.alarm # a \/ ~StorageSound \/ spent.boots > 0)

\* sweeper.rs: "a dead node's timers fire from a survivor without anyone
\* touching the object".  An alarm whose handler has not ended would then still
\* be on disk, or be running.
DeadNodesTimersKept == owed # 0 => owed = file.alarm \/ pc = "fire" \/ alarmRun

\* extensions/objects.rs: "a failed init retries next call", so that no method
\* runs on an object whose init has not completed.
FailedInitRetries == pc = "method" => tx.init
====
