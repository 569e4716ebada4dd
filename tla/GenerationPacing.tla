-------------------------- MODULE GenerationPacing --------------------------
(***************************************************************************)
(* How the browser worker of Google Flow spaces its generations: the       *)
(* account-guard circuit (kept in memory and in generation-circuit.json),  *)
(* the pacing state (generation-pacing.json) and the pacing lock file      *)
(* (generation-pacing.lock), all three shared by every process that works  *)
(* on the same data folder.  Inside one process the asyncio lock of the    *)
(* provider lets one generation at a time through.                         *)
(*                                                                         *)
(* Time is counted in ticks, and every epoch of a file is kept as its age. *)
(* A process does at once what needs no sleep, so a tick falls only where  *)
(* every process sleeps: outside the worker, while it prepares the page,   *)
(* in the loop for the lock, in the pacing loop, and while Flow generates. *)
(* A write of a state file is one step: it goes to a side file first, and  *)
(* a side file left by a crash is never read.  (Two processes that write   *)
(* at once share the name of the side file; that window is left out.)      *)
(***************************************************************************)
EXTENDS Integers

CONSTANTS
  Procs,        \* processes with a worker on this data folder
  Interval,     \* min_generation_interval_seconds
  Cooldown,     \* account_guard_cooldown_seconds
  StaleAge,     \* the age past which a lock file is taken over (120 s)
  LockTimeout,  \* how long a process waits for the lock file (30 s)
  MaxCrashes,   \* bound on the crashes of a behaviour
  NoFile

ASSUME PacingAssumption ==
  /\ Interval \in Nat /\ Cooldown \in Nat \ {0}
  /\ StaleAge \in Nat /\ LockTimeout \in Nat /\ MaxCrashes \in Nat
  /\ NoFile \notin Nat

VARIABLES
  pc,        \* where the generation of a process is
  blocked,   \* _generation_blocked_until - now, per process
  waited,    \* how long a process has been waiting for the lock file
  seen,      \* the pacing state a process has read and will write back
  circuit,   \* the circuit file: time left until blocked_until_epoch
  pacing,    \* the pacing file: age of the last start and the last finish
  lock,      \* the lock file: its age
  activity,  \* history: age of the last click or finish of a process
  guard,     \* history: time left until the last trip is over
  crashes    \* crashes so far

pacingVars == <<pc, blocked, waited, seen, circuit, pacing, lock, activity, guard, crashes>>
shared == <<circuit, pacing, lock>>
history == <<activity, guard, crashes>>

\* The four calls of _assert_generation_allowed: on entering the worker, on
\* asking for a slot, in the pacing loop and before recording the start.
After == [enter |-> "setup", ask |-> "lock", check |-> "look", confirm |-> "read"]
Asserts == DOMAIN After
UnderLock == {"check", "look", "sleep", "confirm", "read", "write", "release"}
PC == Asserts \cup UnderLock \cup
      {"idle", "setup", "lock", "steal", "slot", "active", "finish", "mark"}

\* An epoch of 0, and any epoch an Interval or more ago, stop nobody.
Age == 0..Interval
Older(age) == IF age < Interval THEN age + 1 ELSE age

Less(left) == IF left > 0 THEN left - 1 ELSE 0
Earlier(a, b) == IF a < b THEN a ELSE b
Later(a, b) == IF a < b THEN b ELSE a

NoState == [start |-> Interval, finish |-> Interval]

PacingInit ==
  /\ pc = [p \in Procs |-> "idle"]
  /\ blocked = [p \in Procs |-> 0] /\ waited = [p \in Procs |-> 0]
  /\ seen = [p \in Procs |-> NoState]
  /\ circuit = NoFile /\ pacing = NoState /\ lock = NoFile
  /\ activity = [p \in Procs |-> Interval] /\ guard = 0 /\ crashes = 0

Goes(p, to) == pc' = [pc EXCEPT ![p] = to]
Stays == UNCHANGED <<blocked, waited, seen>>

(***************************************************************************)
(* The circuit.                                                            *)
(***************************************************************************)
SharedLeft == IF circuit = NoFile THEN 0 ELSE circuit

\* _cooldown_remaining_seconds is not 0
CircuitOpen(p) == Later(blocked[p], SharedLeft) > 0

\* Reading an expired circuit file removes it.
DropExpired == circuit' = IF SharedLeft = 0 THEN NoFile ELSE circuit

Allowed(p) ==
  /\ pc[p] \in Asserts /\ ~CircuitOpen(p)
  /\ blocked' = [blocked EXCEPT ![p] = 0]
  /\ DropExpired
  /\ Goes(p, IF pc[p] = "ask" /\ Interval = 0 THEN "slot" ELSE After[pc[p]])
  /\ UNCHANGED <<waited, seen, pacing, lock, history>>

\* The finally block of _wait_for_generation_slot: it removes the lock file,
\* whosever it is.
Unlock(p) == lock' = IF pc[p] \in UnderLock THEN NoFile ELSE lock

Refused(p) ==
  /\ pc[p] \in Asserts /\ CircuitOpen(p)
  /\ DropExpired /\ Unlock(p)
  /\ Goes(p, "idle")
  /\ Stays /\ UNCHANGED <<pacing, history>>

\* Mutant: the trip is remembered in memory only.
MutTripLocalOnly(p) ==
  /\ blocked' = [blocked EXCEPT ![p] = Later(@, Cooldown)]
  /\ UNCHANGED circuit

\* _trip_generation_circuit
Trip(p) ==
  /\ blocked' = [blocked EXCEPT ![p] = Later(@, Cooldown)]
  /\ circuit' = Later(SharedLeft, Cooldown)

(***************************************************************************)
(* The lock file.                                                          *)
(***************************************************************************)
Acquire(p) ==
  /\ pc[p] = "lock" /\ lock = NoFile
  /\ lock' = 0
  /\ waited' = [waited EXCEPT ![p] = 0]
  /\ Goes(p, "check")
  /\ UNCHANGED <<blocked, seen, circuit, pacing, history>>

\* Mutant: a lock file is never too old.
MutNeverStale == FALSE

Stale == lock # NoFile /\ lock > StaleAge

\* A process that finds the file too old removes it, in a second step, even
\* if the file has been replaced by then.
FindStale(p) ==
  /\ pc[p] = "lock" /\ Stale
  /\ Goes(p, "steal")
  /\ Stays /\ UNCHANGED <<shared, history>>

TakeOver(p) ==
  /\ pc[p] = "steal"
  /\ lock' = NoFile
  /\ Goes(p, "lock")
  /\ Stays /\ UNCHANGED <<circuit, pacing, history>>

LockBusy(p) ==
  /\ pc[p] = "lock" /\ lock # NoFile /\ ~Stale
  /\ waited[p] >= LockTimeout
  /\ waited' = [waited EXCEPT ![p] = 0]
  /\ Goes(p, "idle")
  /\ UNCHANGED <<blocked, seen, shared, history>>

(***************************************************************************)
(* The pacing state.                                                       *)
(***************************************************************************)
\* Mutant: the rest is counted from the last start only.
MutRestFromStart == Interval - pacing.start

\* _generation_pacing_remaining_seconds: from the last finish or, while a
\* generation is active, from the last start.
Remaining == Interval - Earlier(pacing.finish, pacing.start)

PacingLoop(p) ==
  /\ pc[p] = "look"
  /\ Goes(p, IF Remaining > 0 THEN "sleep" ELSE "confirm")
  /\ Stays /\ UNCHANGED <<shared, history>>

\* _write_generation_pacing_state reads the file, changes one field of what
\* it read and writes all of it.
ReadState(p, from, to) ==
  /\ pc[p] = from
  /\ seen' = [seen EXCEPT ![p] = pacing]
  /\ Goes(p, to)
  /\ UNCHANGED <<blocked, waited, shared, history>>

WriteState(p, state) ==
  /\ pacing' = state
  /\ seen' = [seen EXCEPT ![p] = NoState]
  /\ UNCHANGED <<blocked, waited, circuit, lock>>

RecordStart(p) ==
  /\ pc[p] = "write"
  /\ WriteState(p, [seen[p] EXCEPT !.start = 0])
  /\ Goes(p, "release")
  /\ UNCHANGED history

Release(p) ==
  /\ pc[p] = "release"
  /\ Unlock(p)
  /\ Goes(p, "slot")
  /\ Stays /\ UNCHANGED <<circuit, pacing, history>>

Finished(s) == [s EXCEPT !.finish = 0]

\* _mark_generation_finished; the next part of a long scene is prepared
\* without entering the worker anew.
RecordFinish(p) ==
  /\ pc[p] = "mark"
  /\ WriteState(p, Finished(seen[p]))
  /\ activity' = [activity EXCEPT ![p] = 0]
  /\ \E to \in {"idle", "setup"} : Goes(p, to)
  /\ UNCHANGED <<guard, crashes>>

(***************************************************************************)
(* A generation.                                                           *)
(***************************************************************************)
Enter(p) ==
  /\ pc[p] = "idle" /\ Goes(p, "enter")
  /\ Stays /\ UNCHANGED <<shared, history>>

\* The page is ready to submit, or something on the way to it raises.
PageReady(p) ==
  /\ pc[p] = "setup" /\ \E to \in {"ask", "idle"} : Goes(p, to)
  /\ Stays /\ UNCHANGED <<shared, history>>

\* The click; a confirmation dialog that raises afterwards leaves the start
\* recorded and no finish.
Submit(p) ==
  /\ pc[p] = "slot"
  /\ \E to \in {"active", "idle"} : Goes(p, to)
  /\ activity' = [activity EXCEPT ![p] = 0]
  /\ Stays /\ UNCHANGED <<shared, guard, crashes>>

\* The button is gone after the wait.
NoClick(p) ==
  /\ pc[p] = "slot" /\ Goes(p, "idle")
  /\ Stays /\ UNCHANGED <<shared, history>>

\* A file, an error, or a timeout.
Generated(p) ==
  /\ pc[p] = "active" /\ Goes(p, "finish")
  /\ Stays /\ UNCHANGED <<shared, history>>

AccountGuard(p) ==
  /\ pc[p] = "active"
  /\ Trip(p)
  /\ guard' = Cooldown
  /\ Goes(p, "finish")
  /\ UNCHANGED <<waited, seen, pacing, lock, activity, crashes>>

\* The process dies; the one started instead knows the files only.
Crash(p) ==
  /\ pc[p] # "idle" \/ blocked[p] > 0
  /\ crashes < MaxCrashes /\ crashes' = crashes + 1
  /\ Goes(p, "idle")
  /\ blocked' = [blocked EXCEPT ![p] = 0]
  /\ waited' = [waited EXCEPT ![p] = 0]
  /\ seen' = [seen EXCEPT ![p] = NoState]
  /\ UNCHANGED <<shared, activity, guard>>

(***************************************************************************)
(* Time.                                                                   *)
(***************************************************************************)
Sleeps(p) ==
  \/ pc[p] \in {"idle", "setup", "sleep", "active"}
  \/ pc[p] = "lock" /\ lock # NoFile /\ ~Stale /\ waited[p] < LockTimeout

Tick ==
  /\ \A p \in Procs : Sleeps(p)
  /\ pc' = [p \in Procs |-> IF pc[p] = "sleep" THEN "check" ELSE pc[p]]
  /\ waited' = [p \in Procs |-> IF pc[p] = "lock" THEN waited[p] + 1 ELSE 0]
  /\ blocked' = [p \in Procs |-> Less(blocked[p])]
  /\ circuit' = IF circuit = NoFile THEN NoFile ELSE Less(circuit)
  /\ pacing' = [start |-> Older(pacing.start), finish |-> Older(pacing.finish)]
  /\ lock' = IF lock = NoFile \/ lock > StaleAge THEN lock ELSE lock + 1
  /\ activity' = [p \in Procs |-> Older(activity[p])]
  /\ guard' = Less(guard)
  /\ UNCHANGED <<seen, crashes>>

Step(p) ==
  \/ Enter(p) \/ PageReady(p) \/ Allowed(p) \/ Refused(p)
  \/ Acquire(p) \/ FindStale(p) \/ TakeOver(p) \/ LockBusy(p)
  \/ PacingLoop(p) \/ ReadState(p, "read", "write") \/ RecordStart(p) \/ Release(p)
  \/ Submit(p) \/ NoClick(p) \/ Generated(p) \/ AccountGuard(p)
  \/ ReadState(p, "finish", "mark") \/ RecordFinish(p)

PacingNext == Tick \/ \E p \in Procs : Step(p) \/ Crash(p)

PacingSpec == PacingInit /\ [][PacingNext]_pacingVars

\* Time goes on and the thread of a generation runs; generations are asked
\* for again and again (the queue retries, the user enqueues), and not every
\* one of them fails before it asks for its slot.
AsksForSlot(p) == PageReady(p) /\ pc'[p] = "ask"

FairSpec ==
  /\ PacingSpec /\ SF_pacingVars(Tick)
  /\ \A p \in Procs : WF_pacingVars(Step(p)) /\ SF_pacingVars(AsksForSlot(p))

PacingTypeOK ==
  /\ pc \in [Procs -> PC]
  /\ blocked \in [Procs -> 0..Cooldown] /\ waited \in [Procs -> 0..LockTimeout]
  /\ seen \in [Procs -> [start : Age, finish : Age]]
  /\ pacing \in [start : Age, finish : Age]
  /\ circuit \in 0..Cooldown \cup {NoFile}
  /\ lock \in 0..(StaleAge + 1) \cup {NoFile}
  /\ activity \in [Procs -> Age] /\ guard \in 0..Cooldown
  /\ crashes \in 0..MaxCrashes

(***************************************************************************)
(* Properties.                                                             *)
(***************************************************************************)
\* Flow is left alone for a full interval after the last click and after the
\* last finish, whatever died in between: a start is on disk before its click.
RestsBetweenClicks ==
  [][\A p \in Procs : Submit(p) => \A q \in Procs : activity[q] >= Interval]_pacingVars

\* After an account guard no generation is submitted until the cooldown is
\* over, although a restarted process remembers nothing of it.
GuardIsRespected == [][\A p \in Procs : Submit(p) => guard = 0]_pacingVars

\* A lock file left by a process that died, or held by one that waits out
\* the interval, does not stay for good.
LockIsFreed == lock # NoFile ~> lock = NoFile

\* The comment in _generation_pacing_remaining_seconds: while a generation is
\* active, a second process cannot immediately submit another one.
SecondProcessWaits ==
  [][\A p, q \in Procs :
       Submit(p) /\ p # q /\ pc[q] = "active" => activity[q] >= Interval]_pacingVars
=============================================================================
