-------------------------- MODULE FlowWorker_proofs --------------------------
(***************************************************************************)
(* The browser worker of Google Flow: what its pacing promises, and whose  *)
(* files its generations return, for every interval, cooldown, timeout,    *)
(* number of crashes, of threads, projects, parts and submissions.         *)
(***************************************************************************)
EXTENDS GenerationPacing, FlowConversation, SequenceTheorems, WellFoundedInduction, TLAPS

(***************************************************************************)
(* Pacing, as long as one process works on a data folder.                  *)
(*                                                                         *)
(* The files know at least what happened: the circuit file lasts as long   *)
(* as the last trip, and one of the two epochs of the pacing file is no    *)
(* older than the last click and the last finish.  That much holds for any *)
(* number of processes.  From the last look at the files to the click      *)
(* there is no sleep, so that only another process could come between.     *)
(***************************************************************************)
Alone == \A p, q \in Procs : p = q

\* No sleep is left between the last assertion, or the last look, and the click.
Cleared == {"read", "write", "release", "slot"}
Rested == Cleared \cup {"confirm"}
Recorded == {"release", "slot"}

GuardOK ==
  /\ guard <= SharedLeft
  /\ \A p \in Procs : pc[p] \in Cleared => guard = 0

RestOK ==
  /\ \A p \in Procs : Earlier(pacing.finish, pacing.start) <= activity[p]
  /\ \A p \in Procs : pc[p] \in Rested => activity[p] = Interval
  /\ \A p \in Procs : pc[p] \in Recorded => pacing.start = 0 \/ Interval = 0

PacingInv == PacingTypeOK /\ GuardOK /\ RestOK


LEMMA PacingInvInit == PacingInit => PacingInv
  <1> USE PacingAssumption DEF PacingInit, Age
  <1>1. PacingInit => PacingTypeOK
    BY DEF PacingTypeOK, NoState, PC
  <1>2. PacingInit => GuardOK
    BY DEF GuardOK, SharedLeft, Cleared
  <1>3. PacingInit => RestOK
    BY DEF RestOK, Earlier, NoState, Rested, Cleared, Recorded
  <1> QED BY <1>1, <1>2, <1>3 DEF PacingInv

(***************************************************************************)
(* Types.                                                                  *)
(***************************************************************************)
LEMMA AgeOlder == \A a \in Age : Older(a) \in Age
  BY PacingAssumption DEF Age, Older

LEMMA LessLeft == \A a \in 0..Cooldown : Less(a) \in 0..Cooldown
  BY PacingAssumption DEF Less

\* Where a generation may be is closed under what the code does next.
LEMMA PlaceStep ==
  ASSUME PacingTypeOK, PacingNext
  PROVE  pc' \in [Procs -> PC]
  <1> USE DEF PacingTypeOK, PC, UnderLock, Asserts, After
  <1>1. CASE Tick
    BY <1>1 DEF Tick
  <1>2. ASSUME NEW p \in Procs, NEW to \in PC, Goes(p, to)
        PROVE  pc' \in [Procs -> PC]
    BY <1>2 DEF Goes
  <1>3. ASSUME NEW p \in Procs, Step(p) \/ Crash(p)
        PROVE  \E to \in PC : Goes(p, to)
    <2>1. CASE Allowed(p)
      <3>1. pc[p] \in Asserts => After[pc[p]] \in PC
        OBVIOUS
      <3> QED BY <2>1, <3>1 DEF Allowed
    <2>2. CASE Enter(p) \/ PageReady(p) \/ Refused(p) \/ Acquire(p) \/ FindStale(p)
      BY <2>2 DEF Enter, PageReady, Refused, Acquire, FindStale
    <2>3. CASE TakeOver(p) \/ LockBusy(p) \/ PacingLoop(p) \/ RecordStart(p) \/ Release(p)
      BY <2>3 DEF TakeOver, LockBusy, PacingLoop, RecordStart, Release
    <2>4. CASE ReadState(p, "read", "write") \/ ReadState(p, "finish", "mark")
      BY <2>4 DEF ReadState
    <2>5. CASE Submit(p) \/ NoClick(p) \/ Generated(p) \/ AccountGuard(p)
      BY <2>5 DEF Submit, NoClick, Generated, AccountGuard
    <2>6. CASE RecordFinish(p) \/ Crash(p)
      BY <2>6 DEF RecordFinish, Crash
    <2> QED BY <1>3, <2>1, <2>2, <2>3, <2>4, <2>5, <2>6 DEF Step
  <1> QED BY <1>1, <1>2, <1>3 DEF PacingNext

LEMMA TickTyped ==
  ASSUME PacingTypeOK, Tick
  PROVE  PacingTypeOK'
  <1> USE PacingAssumption
  <1>1. pc' \in [Procs -> PC]
    BY PlaceStep DEF PacingNext
  <1>2. waited' \in [Procs -> 0..LockTimeout]
    <2>1. ASSUME NEW p \in Procs
          PROVE  (IF pc[p] = "lock" THEN waited[p] + 1 ELSE 0) \in 0..LockTimeout
      <3>1. waited[p] \in 0..LockTimeout
        BY DEF PacingTypeOK
      <3>2. pc[p] = "lock" => waited[p] < LockTimeout
        BY DEF Tick, Sleeps
      <3> QED BY <3>1, <3>2
    <2> QED BY <2>1 DEF Tick
  <1>3. blocked' \in [Procs -> 0..Cooldown] /\ activity' \in [Procs -> Age]
    BY AgeOlder, LessLeft DEF PacingTypeOK, Tick
  <1>4. circuit' \in 0..Cooldown \cup {NoFile} /\ guard' \in 0..Cooldown
    BY LessLeft DEF PacingTypeOK, Tick
  <1>5. pacing' \in [start : Age, finish : Age]
    BY AgeOlder DEF PacingTypeOK, Tick
  <1>6. lock' \in 0..(StaleAge + 1) \cup {NoFile}
    BY DEF PacingTypeOK, Tick
  <1> QED BY <1>1, <1>2, <1>3, <1>4, <1>5, <1>6 DEF PacingTypeOK, Tick

LEMMA PacingTyped ==
  ASSUME PacingTypeOK, [PacingNext]_pacingVars
  PROVE  PacingTypeOK'
  <1> USE PacingAssumption
  <1>1. ASSUME NEW p \in Procs, Enter(p) \/ PageReady(p) \/ NoClick(p) \/ Generated(p)
        PROVE  PacingTypeOK'
    BY <1>1, PlaceStep DEF PacingNext, Step, PacingTypeOK, Enter, PageReady, NoClick, Generated,
                      Stays, shared, history
  <1>2. ASSUME NEW p \in Procs, FindStale(p) \/ PacingLoop(p) \/ TakeOver(p) \/ Release(p)
        PROVE  PacingTypeOK'
    BY <1>2, PlaceStep DEF PacingNext, Step, PacingTypeOK, FindStale, PacingLoop, TakeOver, Release,
                      Stays, Unlock, shared, history
  <1>3. ASSUME NEW p \in Procs, Acquire(p) \/ LockBusy(p)
        PROVE  PacingTypeOK'
    BY <1>3, PlaceStep DEF PacingNext, Step, PacingTypeOK, Acquire, LockBusy, shared, history
  <1>4. ASSUME NEW p \in Procs, Allowed(p) \/ Refused(p)
        PROVE  PacingTypeOK'
    <2>1. circuit' \in 0..Cooldown \cup {NoFile} /\ lock' \in 0..(StaleAge + 1) \cup {NoFile}
      BY <1>4 DEF Allowed, Refused, DropExpired, Unlock, PacingTypeOK
    <2>2. blocked' \in [Procs -> 0..Cooldown]
      BY <1>4 DEF Allowed, Refused, Stays, PacingTypeOK
    <2>3. UNCHANGED <<waited, seen, pacing, history>>
      BY <1>4 DEF Allowed, Refused, Stays
    <2> QED BY <1>4, <2>1, <2>2, <2>3, PlaceStep DEF PacingNext, Step, PacingTypeOK, history
  <1>5. ASSUME NEW p \in Procs, NEW from, NEW to,
               ReadState(p, from, to), pc' \in [Procs -> PC]
        PROVE  PacingTypeOK'
    BY <1>5 DEF PacingTypeOK, ReadState, shared, history
  <1>6. ASSUME NEW p \in Procs, RecordStart(p) \/ RecordFinish(p)
        PROVE  PacingTypeOK'
    <2>1. /\ [seen[p] EXCEPT !.start = 0] \in [start : Age, finish : Age]
          /\ Finished(seen[p]) \in [start : Age, finish : Age]
          /\ NoState \in [start : Age, finish : Age]
      BY DEF PacingTypeOK, Finished, NoState, Age
    <2>2. /\ pacing' \in [start : Age, finish : Age]
          /\ seen' \in [Procs -> [start : Age, finish : Age]]
      BY <1>6, <2>1 DEF RecordStart, RecordFinish, WriteState, PacingTypeOK
    <2>3. activity' \in [Procs -> Age]
      BY <1>6 DEF RecordStart, RecordFinish, history, PacingTypeOK, Age
    <2>4. UNCHANGED <<blocked, waited, circuit, lock, guard, crashes>>
      BY <1>6 DEF RecordStart, RecordFinish, WriteState, history
    <2> QED BY <1>6, <2>2, <2>3, <2>4, PlaceStep DEF PacingNext, Step, PacingTypeOK
  <1>7. ASSUME NEW p \in Procs, Submit(p)
        PROVE  PacingTypeOK'
    <2>1. activity' \in [Procs -> Age]
      BY <1>7 DEF Submit, PacingTypeOK, Age
    <2>2. UNCHANGED <<blocked, waited, seen, shared, guard, crashes>>
      BY <1>7 DEF Submit, Stays
    <2> QED BY <1>7, <2>1, <2>2, PlaceStep DEF PacingNext, Step, PacingTypeOK, shared
  <1>8. ASSUME NEW p \in Procs, AccountGuard(p)
        PROVE  PacingTypeOK'
    <2>1. circuit' \in 0..Cooldown \cup {NoFile} /\ guard' \in 0..Cooldown
      BY <1>8 DEF AccountGuard, Trip, Later, SharedLeft, PacingTypeOK
    <2>2. blocked' \in [Procs -> 0..Cooldown]
      BY <1>8 DEF AccountGuard, Trip, Later, PacingTypeOK
    <2> QED BY <1>8, <2>1, <2>2, PlaceStep DEF PacingNext, Step, PacingTypeOK, AccountGuard
  <1>9. ASSUME NEW p \in Procs, Crash(p)
        PROVE  PacingTypeOK'
    <2>1. NoState \in [start : Age, finish : Age]
      BY DEF NoState, Age
    <2>2. /\ blocked' \in [Procs -> 0..Cooldown] /\ waited' \in [Procs -> 0..LockTimeout]
          /\ seen' \in [Procs -> [start : Age, finish : Age]]
      BY <1>9, <2>1 DEF Crash, PacingTypeOK
    <2>3. crashes' \in 0..MaxCrashes /\ UNCHANGED <<circuit, pacing, lock, activity, guard>>
      BY <1>9 DEF Crash, shared, PacingTypeOK
    <2> QED BY <1>9, <2>2, <2>3, PlaceStep DEF PacingNext, PacingTypeOK
  <1>10. CASE UNCHANGED pacingVars
    BY <1>10 DEF pacingVars, PacingTypeOK
  <1>11. ASSUME PacingNext
         PROVE  PacingTypeOK'
    BY <1>1, <1>2, <1>3, <1>4, <1>5, <1>6, <1>7, <1>8, <1>9, <1>11, TickTyped, PlaceStep
       DEF PacingNext, Step
  <1> QED BY <1>10, <1>11

(***************************************************************************)
(* The account guard.                                                      *)
(***************************************************************************)
\* Only the time itself brings a process past an assertion or a look, and no
\* sleep is one of the steps between them and the click.
LEMMA NobodyClearedSleeps ==
  ASSUME Tick, NEW p \in Procs
  PROVE  pc'[p] \notin Rested /\ pc[p] \notin Rested
  BY DEF Tick, Sleeps, Rested, Cleared

LEMMA GuardStep ==
  ASSUME Alone, PacingInv, [PacingNext]_pacingVars
  PROVE  GuardOK'
  <1> USE PacingAssumption DEF PacingInv, GuardOK, SharedLeft
  <1>1. PacingTypeOK /\ PacingTypeOK'
    BY PacingTyped
  <1>2. CASE UNCHANGED pacingVars
    BY <1>2 DEF pacingVars
  <1>3. CASE Tick
    <2>1. guard' <= SharedLeft'
      BY <1>1, <1>3 DEF Tick, Less, PacingTypeOK
    <2> QED BY <1>3, <2>1, NobodyClearedSleeps DEF Rested
  <1>4. ASSUME NEW p \in Procs, AccountGuard(p)
        PROVE  GuardOK'
    <2>1. guard' <= SharedLeft'
      BY <1>1, <1>4 DEF AccountGuard, Trip, Later, PacingTypeOK
    <2>2. pc'[p] = "finish"
      BY <1>1, <1>4 DEF AccountGuard, Goes, PacingTypeOK
    <2> QED BY <2>1, <2>2 DEF Alone, Cleared
  <1>5. ASSUME NEW p \in Procs, Step(p) \/ Crash(p), ~AccountGuard(p)
        PROVE  guard' = guard /\ SharedLeft' = SharedLeft
    <2>1. CASE Allowed(p) \/ Refused(p)
      BY <1>1, <2>1 DEF Allowed, Refused, DropExpired, history, PacingTypeOK
    <2>2. CASE Enter(p) \/ PageReady(p) \/ Acquire(p) \/ FindStale(p) \/ TakeOver(p)
      BY <2>2 DEF Enter, PageReady, Acquire, FindStale, TakeOver, shared, history
    <2>3. CASE LockBusy(p) \/ PacingLoop(p) \/ RecordStart(p) \/ Release(p) \/ Submit(p)
      BY <2>3 DEF LockBusy, PacingLoop, RecordStart, Release, Submit, WriteState, shared, history
    <2>4. CASE ReadState(p, "read", "write") \/ ReadState(p, "finish", "mark")
      BY <2>4 DEF ReadState, shared, history
    <2>5. CASE NoClick(p) \/ Generated(p) \/ RecordFinish(p) \/ Crash(p)
      BY <2>5 DEF NoClick, Generated, RecordFinish, Crash, WriteState, shared, history
    <2> QED BY <1>5, <2>1, <2>2, <2>3, <2>4, <2>5 DEF Step
  <1>6. ASSUME NEW p \in Procs, Step(p) \/ Crash(p), ~AccountGuard(p), pc'[p] \in Cleared
        PROVE  guard = 0
    <2>1. CASE Allowed(p)
      \* The files are read, and they know of the last trip.
      BY <1>1, <2>1 DEF Allowed, CircuitOpen, Later, PacingTypeOK
    <2>2. CASE Refused(p) \/ Enter(p) \/ PageReady(p) \/ Acquire(p) \/ FindStale(p)
      BY <1>1, <1>6, <2>2 DEF Refused, Enter, PageReady, Acquire, FindStale, Goes, Cleared,
                             PacingTypeOK
    <2>3. CASE TakeOver(p) \/ LockBusy(p) \/ PacingLoop(p) \/ NoClick(p) \/ Generated(p) \/ Crash(p)
      BY <1>1, <1>6, <2>3
      DEF TakeOver, LockBusy, PacingLoop, NoClick, Generated, Crash, Goes, Cleared,
                             PacingTypeOK
    <2>4. CASE RecordStart(p) \/ Release(p) \/ Submit(p) \/ RecordFinish(p)
      BY <1>1, <1>6, <2>4 DEF RecordStart, Release, Submit, RecordFinish, Goes, Cleared,
                             PacingTypeOK
    <2>5. CASE ReadState(p, "read", "write")
      BY <2>5 DEF ReadState, Cleared
    <2>6. CASE ReadState(p, "finish", "mark")
      BY <1>1, <1>6, <2>6 DEF ReadState, Goes, Cleared, PacingTypeOK
    <2> QED BY <1>6, <2>1, <2>2, <2>3, <2>4, <2>5, <2>6 DEF Step
  <1>7. ASSUME NEW p \in Procs, Step(p) \/ Crash(p), ~AccountGuard(p)
        PROVE  GuardOK'
    BY <1>5, <1>6, <1>7 DEF Alone
  <1> QED BY <1>2, <1>3, <1>4, <1>7 DEF PacingNext

(***************************************************************************)
(* The rest between generations.                                           *)
(***************************************************************************)
LEMMA RestStep ==
  ASSUME Alone, PacingInv, [PacingNext]_pacingVars
  PROVE  RestOK'
  <1> USE PacingAssumption DEF PacingInv, RestOK, Earlier, Age
  <1>1. PacingTypeOK /\ PacingTypeOK'
    BY PacingTyped
  <1>2. CASE UNCHANGED pacingVars
    BY <1>2 DEF pacingVars
  <1>3. CASE Tick
    <2>1. ASSUME NEW p \in Procs
          PROVE  Earlier(pacing'.finish, pacing'.start) <= activity'[p]
      BY <1>1, <1>3 DEF Tick, Older, PacingTypeOK
    <2> QED BY <1>3, <2>1, NobodyClearedSleeps DEF Rested, Cleared, Recorded
  <1>4. ASSUME NEW p \in Procs, RecordStart(p)
        PROVE  RestOK'
    <2>1. pacing'.start = 0 /\ pacing'.finish \in Age /\ activity' = activity
      BY <1>1, <1>4 DEF RecordStart, WriteState, history, PacingTypeOK
    <2>2. pc[p] \in Rested /\ pc'[p] = "release"
      BY <1>1, <1>4 DEF RecordStart, Goes, Rested, Cleared, PacingTypeOK
    <2> QED BY <1>1, <2>1, <2>2 DEF Alone, PacingTypeOK
  <1>5. ASSUME NEW p \in Procs, RecordFinish(p)
        PROVE  RestOK'
    <2>1. pacing'.finish = 0 /\ pacing'.start \in Age /\ activity'[p] = 0
      BY <1>1, <1>5 DEF RecordFinish, WriteState, Finished, PacingTypeOK
    <2>2. pc'[p] \in {"idle", "setup"}
      BY <1>1, <1>5 DEF RecordFinish, Goes, PacingTypeOK
    <2> QED BY <1>1, <2>1, <2>2 DEF Alone, PacingTypeOK, Rested, Cleared, Recorded
  <1>6. ASSUME NEW p \in Procs, Submit(p)
        PROVE  RestOK'
    <2>1. UNCHANGED pacing /\ activity'[p] = 0 /\ pc'[p] \in {"active", "idle"}
      BY <1>1, <1>6 DEF Submit, Goes, shared, PacingTypeOK
    <2>2. pacing.start = 0 \/ Interval = 0
      BY <1>6 DEF Submit, Recorded
    <2> QED BY <1>1, <2>1, <2>2 DEF Alone, PacingTypeOK, Rested, Cleared, Recorded
  <1>7. ASSUME NEW p \in Procs, Step(p) \/ Crash(p),
               ~RecordStart(p), ~RecordFinish(p), ~Submit(p)
        PROVE  RestOK'
    <2>1. UNCHANGED <<pacing, activity>>
      <3>1. CASE Allowed(p) \/ Refused(p) \/ Enter(p) \/ PageReady(p) \/ Acquire(p)
        BY <3>1 DEF Allowed, Refused, Enter, PageReady, Acquire, shared, history
      <3>2. CASE \/ FindStale(p) \/ TakeOver(p) \/ LockBusy(p) \/ PacingLoop(p)
                 \/ Release(p) \/ NoClick(p)
        BY <3>2 DEF FindStale, TakeOver, LockBusy, PacingLoop, Release, NoClick, shared, history
      <3>3. CASE ReadState(p, "read", "write") \/ ReadState(p, "finish", "mark")
        BY <3>3 DEF ReadState, shared, history
      <3>4. CASE Generated(p) \/ AccountGuard(p) \/ Crash(p)
        BY <3>4 DEF Generated, AccountGuard, Crash, shared, history
      <3> QED BY <1>7, <3>1, <3>2, <3>3, <3>4 DEF Step
    <2>2. /\ pc'[p] \in Rested => activity[p] = Interval
          /\ pc'[p] \in Recorded => pacing.start = 0 \/ Interval = 0
      <3> USE <1>1 DEF Goes, Rested, Cleared, Recorded, PacingTypeOK
      <3>1. CASE PacingLoop(p)
        <4>1. /\ pacing.start \in 0..Interval /\ pacing.finish \in 0..Interval
              /\ activity[p] \in 0..Interval
          OBVIOUS
        <4>2. pc'[p] \in Rested => ~(Remaining > 0)
          BY <3>1 DEF PacingLoop
        <4>3. Earlier(pacing.finish, pacing.start) <= activity[p]
          OBVIOUS
        <4>4. pc'[p] \in Rested => activity[p] = Interval
          <5> HIDE DEF PacingTypeOK, RestOK, PacingInv, Rested
          <5> QED BY <4>1, <4>2, <4>3 DEF Remaining
        <4>5. pc'[p] \notin Recorded
          BY <3>1 DEF PacingLoop
        <4> QED BY <4>4, <4>5
      <3>2. CASE Allowed(p)
        BY <3>2 DEF Allowed, Asserts, After
      <3>3. CASE Refused(p) \/ Enter(p) \/ PageReady(p) \/ Acquire(p)
        BY <3>3 DEF Refused, Enter, PageReady, Acquire
      <3>4. CASE FindStale(p) \/ TakeOver(p) \/ LockBusy(p) \/ NoClick(p)
        BY <3>4 DEF FindStale, TakeOver, LockBusy, NoClick
      <3>5. CASE ReadState(p, "read", "write") \/ ReadState(p, "finish", "mark")
        BY <3>5 DEF ReadState
      <3>6. CASE Release(p)
        BY <3>6 DEF Release
      <3>7. CASE Generated(p) \/ AccountGuard(p) \/ Crash(p)
        BY <3>7 DEF Generated, AccountGuard, Crash
      <3> QED BY <1>7, <3>1, <3>2, <3>3, <3>4, <3>5, <3>6, <3>7 DEF Step
    <2> QED BY <2>1, <2>2 DEF Alone
  <1> QED BY <1>2, <1>3, <1>4, <1>5, <1>6, <1>7 DEF PacingNext

THEOREM PacingInvariant ==
  ASSUME Alone
  PROVE  PacingSpec => []PacingInv
  <1>1. PacingInit => PacingInv
    BY PacingInvInit
  <1>2. PacingInv /\ [PacingNext]_pacingVars => PacingInv'
    BY PacingTyped, GuardStep, RestStep DEF PacingInv
  <1> QED BY <1>1, <1>2, PTL DEF PacingSpec

\* Flow is left alone for a full interval after the last click and the last
\* finish, whatever crashed in between and whatever lock file is taken over
\* (google_flow_browser_worker.py, _wait_for_generation_slot and
\* _mark_generation_finished).
THEOREM RestIsKept ==
  ASSUME Alone
  PROVE  PacingSpec => RestsBetweenClicks
  <1>1. ASSUME PacingInv, [PacingNext]_pacingVars
        PROVE  [\A p \in Procs : Submit(p) => \A q \in Procs : activity[q] >= Interval]_pacingVars
    BY <1>1, PacingAssumption DEF PacingInv, RestOK, Submit, Rested, Cleared, Alone
  <1> QED BY <1>1, PacingInvariant, PTL DEF PacingSpec, RestsBetweenClicks

\* After an account guard there is no click until the cooldown is over, also
\* of a process that was started since and remembers nothing
\* (google_flow_browser_worker.py, _trip_generation_circuit and
\* _assert_generation_allowed).
THEOREM CooldownIsKept ==
  ASSUME Alone
  PROVE  PacingSpec => GuardIsRespected
  <1>1. ASSUME PacingInv, [PacingNext]_pacingVars
        PROVE  [\A p \in Procs : Submit(p) => guard = 0]_pacingVars
    BY <1>1 DEF PacingInv, GuardOK, Submit, Cleared
  <1> QED BY <1>1, PacingInvariant, PTL DEF PacingSpec, GuardIsRespected

(***************************************************************************)
(* The conversation with the page.                                         *)
(*                                                                         *)
(* A quiet generation is the only one that talks to the page, and nothing  *)
(* that was given up is still to come up, so that the tab, the inputs and  *)
(* the tiles of its kind are as it left them, but for what it has          *)
(* submitted itself.                                                       *)
(***************************************************************************)
Tile == [id : Media, done : BOOLEAN]
Request == [by : Threads \cup {Nothing}, start : Media \cup {Nothing}]
Submission == [id : Media, page : Projects, kind : Kinds]
Conversation ==
  [pc : Stages, kind : Kinds, parts : 1..MaxParts, noted : SUBSET Media, at : Nat,
   media : Media \cup {Nothing}, clips : Seq(Media), own : Seq(Clicks),
   clear : BOOLEAN, quiet : BOOLEAN]

PageOK ==
  /\ grid \in [Projects -> [Kinds -> Seq(Tile)]]
  /\ queued \subseteq Submission /\ tab \in Projects /\ form \in Request
  /\ sent \in Seq(Request) /\ Len(sent) <= MaxClicks /\ taken \subseteq Clicks
  /\ th \in [Threads -> Conversation]

\* A click has one number, and what came of it is in one place; an asset is
\* uploaded once at a time, and only where it is not yet.
NumbersOK ==
  /\ \A p \in Projects, k \in Kinds : \A i \in DOMAIN grid[p][k] :
       grid[p][k][i].id \in Clicks => grid[p][k][i].id <= Len(sent)
  /\ \A q \in queued :
       /\ \A r \in queued : r.id = q.id => r = q
       /\ q.id \notin Ids(grid[q.page][q.kind])
       /\ q.id \in Clicks =>
            /\ q.id <= Len(sent)
            /\ \A p \in Projects, k \in Kinds : q.id \notin Ids(grid[p][k])

\* What Flow has taken that will come up among the tiles the thread looks at.
Pending(t) == {q \in queued : q.page = tab /\ q.kind = th[t].kind}

\* The submissions of a generation are its own, each from the end of the last.
Chain(t, own, log) ==
  \A i \in 1..Len(own) :
    /\ own[i] \in 1..Len(log) /\ log[own[i]].by = t
    /\ i > 1 => log[own[i]].start = own[i - 1]

Undisturbed(t) == Busy(t) /\ th[t].quiet

\* The last submission is the one that is looked for, watched and saved.
Submitted(t) ==
  /\ th[t].own # <<>>
  /\ th[t].own = Append(th[t].clips, Last(th[t].own))

AtTile(t) ==
  /\ Submitted(t) /\ Pending(t) = {}
  /\ th[t].at \in DOMAIN Shown(t) /\ Shown(t)[th[t].at].id = Last(th[t].own)

ConversationOK(t) ==
  /\ Undisturbed(t) => Chain(t, th[t].own, sent) /\ \A u \in Threads \ {t} : ~Busy(u)
  /\ Undisturbed(t) /\ th[t].pc \in {"assets", "click"} => th[t].own = th[t].clips
  /\ Undisturbed(t) /\ th[t].pc = "click" =>
       /\ form = [by |-> t, start |-> StartOfNext(t)]
       /\ Ids(Shown(t)) \subseteq th[t].noted /\ Pending(t) = {}
  /\ Undisturbed(t) /\ th[t].pc = "look" =>
       /\ Submitted(t)
       /\ Ids(Shown(t)) \subseteq th[t].noted \cup {Last(th[t].own)}
       /\ \A q \in Pending(t) : q.id = Last(th[t].own)
  /\ Undisturbed(t) /\ th[t].pc \in {"watch", "download"} => AtTile(t)
  /\ Undisturbed(t) /\ th[t].pc = "download" => th[t].media \in {Last(th[t].own), Nothing}
  /\ Returned(t) =>
       /\ Chain(t, th[t].own, sent) /\ th[t].clips = th[t].own
       /\ th[t].own # <<>> /\ th[t].media \in {Last(th[t].own), Nothing}

FlowInv == PageOK /\ NumbersOK /\ \A t \in Threads : ConversationOK(t)


(***************************************************************************)
(* What the operators on tiles and submissions return.                     *)
(***************************************************************************)
LEMMA ClickIsNoThread ==
  /\ Threads \cap Clicks = {} /\ Nothing \notin Threads \cup Clicks /\ Clicks \subseteq Nat
  BY FlowAssumption DEF Clicks

LEMMA Prepended ==
  ASSUME NEW s \in Seq(Tile), NEW e \in Tile
  PROVE  /\ <<e>> \o s \in Seq(Tile)
         /\ Ids(<<e>> \o s) = Ids(s) \cup {e.id}
         /\ 1 \in DOMAIN (<<e>> \o s) /\ (<<e>> \o s)[1] = e
  <1> DEFINE new == <<e>> \o s
  <1>1. new \in Seq(Tile) /\ Len(new) = Len(s) + 1 /\ new[1] = e /\ Len(s) \in Nat
    OBVIOUS
  <1>2. \A i \in 1..Len(s) : new[i + 1] = s[i]
    OBVIOUS
  <1>3. \A i \in 2..Len(new) : i - 1 \in 1..Len(s) /\ new[i] = s[i - 1]
    OBVIOUS
  <1>4. DOMAIN new = 1..Len(new) /\ DOMAIN s = 1..Len(s)
    BY <1>1
  <1> HIDE DEF new
  <1>5. ASSUME NEW i \in DOMAIN new
        PROVE  new[i].id \in Ids(s) \cup {e.id}
    <2>1. CASE i = 1
      BY <1>1, <2>1
    <2>2. CASE i # 1
      BY <1>1, <1>3, <1>4, <1>5, <2>2 DEF Ids
    <2> QED BY <2>1, <2>2
  <1>6. ASSUME NEW i \in DOMAIN s
        PROVE  s[i].id \in Ids(new)
    <2>1. i + 1 \in DOMAIN new /\ new[i + 1] = s[i]
      BY <1>1, <1>2, <1>4
    <2> QED BY <2>1 DEF Ids
  <1>7. e.id \in Ids(new)
    BY <1>1, <1>4 DEF Ids
  <1>8. Ids(new) = Ids(s) \cup {e.id}
    BY <1>5, <1>6, <1>7 DEF Ids
  <1>9. 1 \in DOMAIN new
    BY <1>1, <1>4
  <1> QED BY <1>1, <1>8, <1>9 DEF new

LEMMA EmptyChain ==
  ASSUME NEW t, NEW log
  PROVE  Chain(t, <<>>, log)
  BY DEF Chain

LEMMA ChainLonger ==
  ASSUME NEW t, NEW own \in Seq(Clicks), NEW log \in Seq(Request), NEW r \in Request,
         Chain(t, own, log)
  PROVE  Chain(t, own, Append(log, r))
  <1> DEFINE new == Append(log, r)
  <1>1. Len(new) = Len(log) + 1 /\ \A n \in 1..Len(log) : new[n] = log[n]
    OBVIOUS
  <1>2. Len(log) \in Nat
    OBVIOUS
  <1> HIDE DEF new
  <1>3. Chain(t, own, new)
    BY <1>1, <1>2 DEF Chain
  <1> QED BY <1>3 DEF new

\* A submission whose form has the last frame of the clip before it carries
\* the chain on.
LEMMA ChainNext ==
  ASSUME NEW t, NEW own \in Seq(Clicks), NEW log \in Seq(Request), NEW r \in Request,
         Chain(t, own, log), r.by = t, own # <<>> => r.start = Last(own)
  PROVE  Chain(t, Append(own, Len(log) + 1), Append(log, r))
  <1> DEFINE new == Append(own, Len(log) + 1)
             longer == Append(log, r)
  <1>1. Len(log) \in Nat /\ Len(own) \in Nat
    OBVIOUS
  <1>2. /\ Len(longer) = Len(log) + 1 /\ longer[Len(log) + 1] = r
        /\ \A n \in 1..Len(log) : longer[n] = log[n]
    OBVIOUS
  <1>3. /\ Len(new) = Len(own) + 1 /\ new[Len(own) + 1] = Len(log) + 1
        /\ \A n \in 1..Len(own) : new[n] = own[n]
    OBVIOUS
  <1>4. own # <<>> => Last(own) = own[Len(own)]
    BY DEF Last
  <1>5. Len(own) + 1 > 1 => own # <<>>
    BY <1>1
  <1> HIDE DEF new, longer
  <1>6. ASSUME NEW i \in 1..Len(own)
        PROVE  /\ new[i] \in 1..Len(longer) /\ longer[new[i]].by = t
               /\ i > 1 => longer[new[i]].start = new[i - 1]
    <2>1. /\ own[i] \in 1..Len(log) /\ log[own[i]].by = t
          /\ i > 1 => log[own[i]].start = own[i - 1]
      BY DEF Chain
    <2>2. new[i] = own[i] /\ longer[own[i]] = log[own[i]]
      BY <1>2, <1>3, <2>1
    <2>3. i > 1 => new[i - 1] = own[i - 1]
      BY <1>1, <1>3
    <2> QED BY <1>1, <1>2, <2>1, <2>2, <2>3
  <1>7. LET i == Len(own) + 1
        IN /\ new[i] \in 1..Len(longer) /\ longer[new[i]].by = t
           /\ i > 1 => longer[new[i]].start = new[i - 1]
    <2>1. new[Len(own) + 1] = Len(log) + 1 /\ longer[Len(log) + 1] = r
      BY <1>2, <1>3
    <2>2. Len(own) + 1 > 1 => Len(own) \in 1..Len(own) /\ r.start = own[Len(own)]
      BY <1>1, <1>4, <1>5
    <2>3. Len(own) + 1 > 1 => new[(Len(own) + 1) - 1] = own[Len(own)]
      BY <1>1, <1>3, <2>2
    <2> QED BY <1>1, <1>2, <2>1, <2>2, <2>3
  <1>8. \A i \in 1..Len(new) : i \in 1..Len(own) \/ i = Len(own) + 1
    BY <1>1, <1>3
  <1>9. Chain(t, new, longer)
    BY <1>6, <1>7, <1>8 DEF Chain
  <1> QED BY <1>9 DEF new, longer

\* The first of some places in the grid is one of them.
LEMMA FirstPlace ==
  ASSUME NEW S \in SUBSET Nat, S # {}
  PROVE  /\ (CHOOSE i \in S : \A j \in S : i <= j) \in S
         /\ \A m \in S : (CHOOSE i \in S : \A j \in S : i <= j) <= m
  <1> DEFINE R == OpToRel(<, Nat)
  <1>1. IsWellFoundedOn(R, Nat)
    BY NatLessThanWellFounded
  <1>2. \A i, j \in Nat : i < j => <<i, j>> \in R
    BY DEF OpToRel
  <1> HIDE DEF R
  <1>3. PICK i \in S : \A j \in S : <<j, i>> \notin R
    BY <1>1, WFMin
  <1>4. ASSUME NEW j \in S
        PROVE  i <= j
    <2>1. j \in Nat /\ i \in Nat /\ ~(j < i)
      BY <1>2, <1>3
    <2> QED BY <2>1
  <1> QED BY <1>3, <1>4


(***************************************************************************)
(* The page: what Flow does, and the types.                                *)
(***************************************************************************)
LEMMA Grows ==
  ASSUME PageOK, NEW q \in queued, Appears(q)
  PROVE  /\ grid' \in [Projects -> [Kinds -> Seq(Tile)]]
         /\ Ids(grid'[q.page][q.kind]) = Ids(grid[q.page][q.kind]) \cup {q.id}
         /\ 1 \in DOMAIN grid'[q.page][q.kind] /\ grid'[q.page][q.kind][1].id = q.id
         /\ \A p \in Projects, k \in Kinds :
              <<p, k>> # <<q.page, q.kind>> => grid'[p][k] = grid[p][k]
  <1> DEFINE tile == [id |-> q.id, done |-> q.id \in Threads]
             longer == <<tile>> \o grid[q.page][q.kind]
  <1>1. q \in Submission /\ q.id \in Media /\ q.page \in Projects /\ q.kind \in Kinds
    BY DEF PageOK, Submission
  <1>2. tile \in Tile /\ grid[q.page][q.kind] \in Seq(Tile)
    <2>1. tile \in Tile
      BY <1>1 DEF Tile
    <2> QED BY <1>1, <2>1 DEF PageOK
  <1> HIDE DEF tile
  <1>3. longer \in Seq(Tile) /\ Ids(longer) = Ids(grid[q.page][q.kind]) \cup {tile.id}
        /\ 1 \in DOMAIN longer /\ longer[1] = tile
    BY <1>2, Prepended
  <1>4. grid' = [grid EXCEPT ![q.page][q.kind] = longer]
    BY DEF Appears, tile
  <1>5. tile.id = q.id
    BY DEF tile
  <1> HIDE DEF longer
  <1>6. grid'[q.page][q.kind] = longer
    BY <1>1, <1>4 DEF PageOK
  <1> QED BY <1>1, <1>3, <1>4, <1>5, <1>6 DEF PageOK

LEMMA Ends ==
  ASSUME PageOK, NEW p \in Projects, NEW k \in Kinds, NEW i \in DOMAIN grid[p][k],
         TileEnds(p, k, i)
  PROVE  /\ grid' \in [Projects -> [Kinds -> Seq(Tile)]]
         /\ \A o \in Projects, l \in Kinds :
              /\ DOMAIN grid'[o][l] = DOMAIN grid[o][l]
              /\ \A j \in DOMAIN grid[o][l] : grid'[o][l][j].id = grid[o][l][j].id
  <1> DEFINE s == grid[p][k]
             ended == [s EXCEPT ![i].done = TRUE]
  <1>1. s \in Seq(Tile) /\ s[i] \in Tile /\ DOMAIN s = 1..Len(s)
    BY DEF PageOK
  <1>2. [s[i] EXCEPT !.done = TRUE] \in Tile /\ [s[i] EXCEPT !.done = TRUE].id = s[i].id
    BY <1>1 DEF Tile
  <1>3. /\ ended \in Seq(Tile) /\ DOMAIN ended = DOMAIN s
        /\ \A j \in DOMAIN s : ended[j].id = s[j].id
    BY <1>1, <1>2
  <1>4. grid' = [grid EXCEPT ![p][k] = ended]
    BY DEF TileEnds
  <1> HIDE DEF ended
  <1>5. grid'[p][k] = ended
    BY <1>4 DEF PageOK
  <1> QED BY <1>3, <1>4, <1>5 DEF PageOK

LEMMA SameIds ==
  ASSUME PageOK, NEW p \in Projects, NEW k \in Kinds, NEW i \in DOMAIN grid[p][k],
         TileEnds(p, k, i), NEW o \in Projects, NEW l \in Kinds
  PROVE  Ids(grid'[o][l]) = Ids(grid[o][l])
  <1> DEFINE new == grid'[o][l]
             old == grid[o][l]
  <1>1. DOMAIN new = DOMAIN old /\ \A j \in DOMAIN old : new[j].id = old[j].id
    BY Ends
  <1> HIDE DEF new, old
  <1>2. Ids(new) = Ids(old)
    BY <1>1 DEF Ids
  <1> QED BY <1>2 DEF new, old

LEMMA IdleTyped == Idle \in Conversation
  BY FlowAssumption DEF Idle, Conversation, Stages, Kinds

LEMMA EmptyTyped == Empty \in Request
  BY DEF Empty, Request

LEMMA FlowTyped ==
  ASSUME PageOK, Flow
  PROVE  PageOK'
  <1>1. ASSUME NEW q \in queued, Appears(q) \/ Refuses(q)
        PROVE  PageOK'
    BY <1>1, Grows DEF PageOK, Appears, Refuses
  <1>2. ASSUME NEW p \in Projects, NEW k \in Kinds, NEW i \in DOMAIN grid[p][k],
               TileEnds(p, k, i)
        PROVE  PageOK'
    BY <1>2, Ends DEF PageOK, TileEnds
  <1> QED BY <1>1, <1>2 DEF Flow

LEMMA ThreadTyped ==
  ASSUME PageOK, NEW t \in Threads, Thread(t)
  PROVE  PageOK'
  <1> USE FlowAssumption
  <1>1. th[t] \in Conversation /\ th \in [Threads -> Conversation]
    BY DEF PageOK
  <1>2. ASSUME NEW new \in Conversation, Sets(t, new)
        PROVE  th' \in [Threads -> Conversation]
    BY <1>1, <1>2 DEF Sets
  <1>3. ASSUME NEW gone
        PROVE  Left(gone) \in Request
    BY EmptyTyped DEF Left, PageOK
  <1>4. CASE Begin(t)
    <2>1. PICK kind \in Kinds, parts \in 1..MaxParts :
            LET free == \A v \in Threads \ {t} : ~Busy(v)
            IN th' = [u \in Threads |->
                 IF u = t THEN [Idle EXCEPT !.pc = "assets", !.kind = kind, !.parts = parts,
                                  !.clear = free, !.quiet = free]
                 ELSE IF Busy(u)
                      THEN [th[u] EXCEPT !.clear = FALSE, !.quiet = FALSE, !.own = <<>>]
                      ELSE th[u]]
      BY <1>4 DEF Begin
    <2>2. LET free == \A v \in Threads \ {t} : ~Busy(v)
          IN [Idle EXCEPT !.pc = "assets", !.kind = kind, !.parts = parts,
                !.clear = free, !.quiet = free] \in Conversation
      BY IdleTyped DEF Conversation, Idle, Stages
    <2>3. ASSUME NEW u \in Threads
          PROVE  [th[u] EXCEPT !.clear = FALSE, !.quiet = FALSE, !.own = <<>>] \in Conversation
      <3>1. th[u] \in Conversation /\ <<>> \in Seq(Clicks)
        BY <1>1
      <3> QED BY <3>1 DEF Conversation
    <2>4. th' \in [Threads -> Conversation]
      BY <1>1, <2>1, <2>2, <2>3
    <2> QED BY <1>4, <2>4, EmptyTyped DEF Begin, PageOK
  <1>5. CASE Upload(t)
    <2>1. [id |-> t, page |-> tab, kind |-> "image"] \in Submission
      BY DEF PageOK, Submission, Media, Kinds
    <2> QED BY <1>5, <2>1 DEF Upload, PageOK
  <1>6. CASE Prepare(t)
    <2>1. PICK redrawn \in SUBSET Working(Shown(t)), quiet \in BOOLEAN :
            Sets(t, [th[t] EXCEPT !.pc = "click", !.noted = Noted(Shown(t), redrawn),
                       !.clear = @ /\ redrawn = {}, !.quiet = quiet,
                       !.own = IF quiet THEN @ ELSE <<>>])
      BY <1>6, <1>1 DEF Prepare, Conversation
    <2>2. Shown(t) \in Seq(Tile)
      BY <1>1 DEF PageOK, Shown, Conversation
    <2>3. Noted(Shown(t), redrawn) \in SUBSET Media
      <3>1. \A i \in DOMAIN Shown(t) : Shown(t)[i] \in Tile
        BY <2>2
      <3> QED BY <3>1 DEF Noted, Ids, Tile
    <2>4. [th[t] EXCEPT !.pc = "click", !.noted = Noted(Shown(t), redrawn),
                        !.clear = @ /\ redrawn = {}, !.quiet = quiet,
                        !.own = IF quiet THEN @ ELSE <<>>] \in Conversation
      <3>1. (IF quiet THEN th[t].own ELSE <<>>) \in Seq(Clicks)
        BY <1>1 DEF Conversation
      <3> QED BY <1>1, <2>3, <3>1 DEF Conversation, Stages
    <2>5. StartOfNext(t) \in Media \cup {Nothing}
      <3>1. th[t].clips \in Seq(Media)
        BY <1>1 DEF Conversation
      <3> QED BY <3>1 DEF StartOfNext, Last
    <2>6. form' \in Request
      BY <1>6, <2>5 DEF Prepare, Request
    <2> QED BY <1>2, <1>6, <2>1, <2>4, <2>6 DEF Prepare, PageOK
  <1>7. CASE Click(t)
    <2> DEFINE id == Len(sent) + 1
    <2>1. id \in Clicks /\ id \in Media /\ Len(sent) \in Nat
      BY <1>7 DEF Click, PageOK, Clicks, Media
    <2>2. (IF th[t].quiet THEN form ELSE Empty) \in Request
      BY EmptyTyped DEF PageOK
    <2>3. sent' \in Seq(Request) /\ Len(sent') <= MaxClicks
      BY <1>7, <2>1, <2>2 DEF Click, PageOK, Clicks
    <2>4. [id |-> id, page |-> tab, kind |-> th[t].kind] \in Submission
      BY <1>1, <2>1 DEF PageOK, Submission, Conversation
    <2>5. [th[t] EXCEPT !.pc = "look",
             !.own = IF th[t].quiet THEN Append(@, id) ELSE @] \in Conversation
      <3>1. (IF th[t].quiet THEN Append(th[t].own, id) ELSE th[t].own) \in Seq(Clicks)
        BY <1>1, <2>1 DEF Conversation
      <3> QED BY <1>1, <3>1 DEF Conversation, Stages
    <2> QED BY <1>2, <1>3, <1>7, <2>3, <2>4, <2>5 DEF Click, PageOK
  <1>8. CASE Look(t)
    <2> DEFINE at == CHOOSE i \in Unknown(t) : \A j \in Unknown(t) : i <= j
    <2>1. Unknown(t) \in SUBSET Nat /\ Unknown(t) # {}
      BY <1>1, <1>8 DEF Look, Unknown, Shown, PageOK, Conversation
    <2>2. at \in Nat
      BY <2>1, FirstPlace
    <2>3. [th[t] EXCEPT !.pc = "watch", !.noted = {}, !.at = at] \in Conversation
      <3> HIDE DEF at
      <3> QED BY <1>1, <2>2 DEF Conversation, Stages
    <2> QED BY <1>2, <1>8, <2>3 DEF Look, PageOK
  <1>9. ASSUME Located(t) # Nothing
        PROVE  Located(t).id \in Media
    <2>1. Shown(t) \in Seq(Tile)
      BY <1>1 DEF PageOK, Shown, Conversation
    <2>2. Located(t) \in Tile
      BY <1>9, <2>1 DEF Located
    <2> QED BY <2>2 DEF Tile
  <1>10. CASE Watch(t)
    <2>1. \A id \in {Located(t).id, Nothing} :
            [th[t] EXCEPT !.pc = "download", !.media = id] \in Conversation
      BY <1>1, <1>9, <1>10 DEF Watch, MediaIds, Conversation, Stages
    <2> QED BY <1>2, <1>10, <2>1 DEF Watch, MediaIds, PageOK
  <1>11. CASE Download(t)
    <2> DEFINE clips == Append(th[t].clips, Located(t).id)
    <2>1. clips \in Seq(Media)
      BY <1>1, <1>9, <1>11 DEF Download, Conversation
    <2> HIDE DEF clips
    <2>2. [th[t] EXCEPT !.pc = "assets", !.at = 0, !.clips = clips] \in Conversation
      BY <1>1, <2>1 DEF Conversation, Stages
    <2>3. [Idle EXCEPT !.pc = "done", !.media = th[t].media, !.own = th[t].own, !.clips = clips]
             \in Conversation
      BY <1>1, <2>1, IdleTyped DEF Conversation, Idle, Stages
    <2>4. AfterPart(t, clips) \in Conversation
      BY <2>2, <2>3, IdleTyped DEF AfterPart, Asset
    <2> QED BY <1>2, <1>11, <2>4 DEF Download, PageOK, clips
  <1>12. CASE GiveUp(t)
    BY <1>2, <1>3, <1>12, IdleTyped DEF GiveUp, PageOK
  <1> QED BY <1>4, <1>5, <1>6, <1>7, <1>8, <1>10, <1>11, <1>12 DEF Thread

(***************************************************************************)
(* The numbers of the clicks.                                              *)
(***************************************************************************)
LEMMA FlowNumbers ==
  ASSUME PageOK, NumbersOK, Flow
  PROVE  NumbersOK'
  <1>1. ASSUME NEW q \in queued, Appears(q)
        PROVE  NumbersOK'
    <2>1. ASSUME NEW p \in Projects, NEW k \in Kinds, NEW id \in Clicks, id \in Ids(grid'[p][k])
          PROVE  id \in Ids(grid[p][k]) \/ id = q.id
      BY <1>1, <2>1, Grows
    <2>2. ASSUME NEW p \in Projects, NEW k \in Kinds, NEW i \in DOMAIN grid'[p][k],
                 grid'[p][k][i].id \in Clicks
          PROVE  grid'[p][k][i].id <= Len(sent)
      <3>1. grid'[p][k][i].id \in Ids(grid'[p][k])
        BY DEF Ids
      <3> QED BY <2>1, <2>2, <3>1 DEF NumbersOK, Ids
    <2>3. ASSUME NEW r \in queued, r # q, r.id \in Clicks, NEW p \in Projects, NEW k \in Kinds
          PROVE  r.id \notin Ids(grid'[p][k])
      BY <2>1, <2>3 DEF NumbersOK
    <2>4. ASSUME NEW r \in queued, r # q
          PROVE  r.id \notin Ids(grid'[r.page][r.kind])
      <3>1. r.id # q.id /\ r.id \notin Ids(grid[r.page][r.kind])
        BY <2>4 DEF NumbersOK
      <3>2. r.page \in Projects /\ r.kind \in Kinds
        BY DEF PageOK, Submission
      <3>3. CASE r.page = q.page /\ r.kind = q.kind
        BY <1>1, <3>1, <3>3, Grows
      <3>4. CASE ~(r.page = q.page /\ r.kind = q.kind)
        BY <1>1, <3>1, <3>2, <3>4, Grows
      <3> QED BY <3>3, <3>4
    <2>5. queued' = queued \ {q} /\ sent' = sent
      BY <1>1 DEF Appears
    <2>6. \A r \in queued \ {q} :
            /\ \A s \in queued \ {q} : s.id = r.id => s = r
            /\ r.id \in Clicks => r.id <= Len(sent)
      BY DEF NumbersOK
    <2>7. \A p \in Projects, k \in Kinds : \A i \in DOMAIN grid'[p][k] :
            grid'[p][k][i].id \in Clicks => grid'[p][k][i].id <= Len(sent)
      BY <2>2
    <2>8. \A r \in queued \ {q} :
            /\ r.id \notin Ids(grid'[r.page][r.kind])
            /\ r.id \in Clicks =>
                 \A p \in Projects, k \in Kinds : r.id \notin Ids(grid'[p][k])
      BY <2>3, <2>4
    <2> QED BY <2>5, <2>6, <2>7, <2>8 DEF NumbersOK, Ids
  <1>2. ASSUME NEW q \in queued, Refuses(q)
        PROVE  NumbersOK'
    BY <1>2 DEF NumbersOK, Refuses
  <1>3. ASSUME NEW p \in Projects, NEW k \in Kinds, NEW i \in DOMAIN grid[p][k],
               TileEnds(p, k, i)
        PROVE  NumbersOK'
    <2>1. \A o \in Projects, l \in Kinds : Ids(grid'[o][l]) = Ids(grid[o][l])
      BY <1>3, SameIds
    <2>2. \A o \in Projects, l \in Kinds : \A j \in DOMAIN grid'[o][l] :
            j \in DOMAIN grid[o][l] /\ grid'[o][l][j].id = grid[o][l][j].id
      BY <1>3, Ends
    <2>3. UNCHANGED <<sent, queued>>
      BY <1>3 DEF TileEnds
    <2>4. \A q \in queued : q.page \in Projects /\ q.kind \in Kinds
      BY DEF PageOK, Submission
    <2> QED BY <2>1, <2>2, <2>3, <2>4 DEF NumbersOK
  <1> QED BY <1>1, <1>2, <1>3 DEF Flow

LEMMA OneMore ==
  ASSUME NEW m \in Nat, NEW n \in Nat, m <= n
  PROVE  m # n + 1 /\ m <= n + 1
  OBVIOUS

LEMMA ThreadNumbers ==
  ASSUME PageOK, NumbersOK, NEW t \in Threads, Thread(t)
  PROVE  NumbersOK'
  <1>1. CASE Upload(t)
    BY <1>1, ClickIsNoThread DEF Upload, NumbersOK
  <1>2. CASE Click(t)
    <2> DEFINE id == Len(sent) + 1
    <2>1. Len(sent') = Len(sent) + 1 /\ Len(sent) \in Nat
      BY <1>2 DEF Click, PageOK
    <2> DEFINE n == Len(sent)
    <2> HIDE DEF n
    <2>2. ASSUME NEW m \in Clicks, m <= Len(sent)
          PROVE  m # id /\ m <= Len(sent')
      <3>1. m \in Nat /\ n \in Nat /\ n = Len(sent) /\ Len(sent') = n + 1 /\ id = n + 1
        BY <2>1, ClickIsNoThread DEF n
      <3> QED BY <2>2, <3>1, OneMore
    <2>3. /\ \A q \in queued : q.id \in Clicks => q.id # id /\ q.id <= Len(sent')
          /\ \A p \in Projects, k \in Kinds : \A i \in DOMAIN grid[p][k] :
               grid[p][k][i].id \in Clicks =>
                 grid[p][k][i].id # id /\ grid[p][k][i].id <= Len(sent')
      BY <2>2 DEF NumbersOK
    <2>4. id \in Clicks
      BY <1>2, <2>1 DEF Click, Clicks
    <2>5. \A p \in Projects, k \in Kinds : id \notin Ids(grid[p][k])
      BY <2>3, <2>4 DEF Ids
    <2> DEFINE new == [id |-> id, page |-> tab, kind |-> th[t].kind]
    <2>6. queued' = queued \cup {new} /\ UNCHANGED grid
      BY <1>2 DEF Click
    <2>7. new.id = id /\ id \notin Ids(grid[new.page][new.kind])
      <3>1. tab \in Projects /\ th[t].kind \in Kinds
        BY DEF PageOK, Conversation
      <3> HIDE DEF id
      <3> QED BY <2>5, <3>1
    <2>8. id <= Len(sent')
      BY <2>1
    <2>9. \A q \in queued : q.id # id
      BY <2>3, <2>4
    <2> HIDE DEF new, id
    <2>10. \A q \in queued' :
             /\ \A r \in queued' : r.id = q.id => r = q
             /\ q.id \notin Ids(grid[q.page][q.kind])
             /\ q.id \in Clicks =>
                  /\ q.id <= Len(sent')
                  /\ \A p \in Projects, k \in Kinds : q.id \notin Ids(grid[p][k])
      BY <2>3, <2>5, <2>6, <2>7, <2>8, <2>9 DEF NumbersOK
    <2> QED BY <2>3, <2>6, <2>10 DEF NumbersOK, Ids
  <1>3. CASE Begin(t) \/ Prepare(t) \/ Look(t) \/ Watch(t) \/ Download(t) \/ GiveUp(t)
    BY <1>3 DEF Begin, Prepare, Look, Watch, MediaIds, Download, GiveUp, NumbersOK
  <1> QED BY <1>1, <1>2, <1>3 DEF Thread


(***************************************************************************)
(* The conversation: what Flow does is foreseen.                           *)
(***************************************************************************)
LEMMA PageFacts ==
  ASSUME PageOK, NEW t \in Threads
  PROVE  /\ th[t] \in Conversation /\ th[t].kind \in Kinds /\ tab \in Projects
         /\ th[t].own \in Seq(Clicks) /\ th[t].clips \in Seq(Media)
         /\ Shown(t) \in Seq(Tile) /\ Shown(t) = grid[tab][th[t].kind]
  BY DEF PageOK, Conversation, Shown

LEMMA LastIsClick ==
  ASSUME NEW own \in Seq(Clicks), own # <<>>
  PROVE  Last(own) \in Clicks
  BY DEF Last

\* What has come up is not still to come.
LEMMA NothingPending ==
  ASSUME PageOK, NumbersOK, NEW t \in Threads, NEW id \in Clicks,
         \A q \in Pending(t) : q.id = id, id \in Ids(Shown(t))
  PROVE  Pending(t) = {}
  <1>1. ASSUME NEW q \in Pending(t)
        PROVE  FALSE
    <2>1. q \in queued /\ q.id = id
      BY <1>1 DEF Pending
    <2>2. q.id \notin Ids(Shown(t))
      BY <2>1, PageFacts DEF NumbersOK
    <2> QED BY <2>1, <2>2
  <1> QED BY <1>1

LEMMA AppearsConversing ==
  ASSUME FlowInv, NEW q \in queued, Appears(q), NEW t \in Threads
  PROVE  ConversationOK(t)'
  <1>1. PageOK /\ NumbersOK /\ ConversationOK(t) /\ \A u \in Threads : ConversationOK(u)
    BY DEF FlowInv
  <1>2. UNCHANGED <<tab, form, sent, th>> /\ queued' = queued \ {q}
    BY DEF Appears
  <1>3. /\ UNCHANGED <<Undisturbed(t), Submitted(t), Returned(t), StartOfNext(t)>>
        /\ \A u \in Threads : UNCHANGED Busy(u)
    BY <1>2 DEF Undisturbed, Busy, Submitted, Returned, StartOfNext
  <1>4. Pending(t)' \subseteq Pending(t)
    BY <1>2 DEF Pending
  <1>5. Ids(Shown(t))' \subseteq Ids(Shown(t)) \cup {r.id : r \in Pending(t)}
        /\ (q \notin Pending(t) => Shown(t)' = Shown(t))
    <2>1. Shown(t)' = grid'[tab][th[t].kind] /\ Ids(Shown(t))' = Ids(grid'[tab][th[t].kind])
      BY <1>2 DEF Shown, Ids
    <2>2. CASE q \in Pending(t)
      <3>1. q.page = tab /\ q.kind = th[t].kind
        BY <2>2 DEF Pending
      <3>2. Ids(grid'[tab][th[t].kind]) = Ids(Shown(t)) \cup {q.id}
        BY <1>1, <3>1, Grows DEF Shown
      <3> QED BY <2>1, <2>2, <3>2
    <2>3. CASE q \notin Pending(t)
      <3>1. grid'[tab][th[t].kind] = Shown(t)
        BY <1>1, <2>3, Grows, PageFacts DEF Pending, Shown
      <3> QED BY <2>1, <2>3, <3>1
    <2> QED BY <2>2, <2>3
  <1>6. CASE Undisturbed(t) /\ th[t].pc = "click"
    <2>1. Ids(Shown(t))' \subseteq th[t].noted
      BY <1>1, <1>5, <1>6 DEF ConversationOK
    <2> QED BY <1>1, <1>2, <1>3, <1>4, <1>6, <2>1 DEF ConversationOK, Returned
  <1>7. CASE Undisturbed(t) /\ th[t].pc = "look"
    <2>1. Ids(Shown(t))' \subseteq th[t].noted \cup {Last(th[t].own)}
      BY <1>1, <1>5, <1>7 DEF ConversationOK
    <2> QED BY <1>1, <1>2, <1>3, <1>4, <1>7, <2>1 DEF ConversationOK, Returned
  <1>8. CASE Undisturbed(t) /\ th[t].pc \in {"watch", "download"}
    <2>1. AtTile(t)'
      BY <1>1, <1>2, <1>3, <1>4, <1>5, <1>8 DEF ConversationOK, AtTile
    <2> QED BY <1>1, <1>2, <1>3, <1>8, <2>1 DEF ConversationOK, Returned
  <1>9. CASE ~(Undisturbed(t) /\ th[t].pc \in {"click", "look", "watch", "download"})
    BY <1>1, <1>2, <1>3, <1>9 DEF ConversationOK
  <1> QED BY <1>6, <1>7, <1>8, <1>9

LEMMA EndsConversing ==
  ASSUME FlowInv, NEW t \in Threads,
         \/ \E q \in queued : Refuses(q)
         \/ \E p \in Projects, k \in Kinds : \E i \in DOMAIN grid[p][k] : TileEnds(p, k, i)
  PROVE  ConversationOK(t)'
  <1>1. PageOK /\ NumbersOK /\ ConversationOK(t)
    BY DEF FlowInv
  <1>2. UNCHANGED <<tab, form, sent, th>> /\ queued' \subseteq queued
    BY DEF Refuses, TileEnds
  <1>3. /\ UNCHANGED <<Undisturbed(t), Submitted(t), Returned(t), StartOfNext(t)>>
        /\ \A u \in Threads : UNCHANGED Busy(u)
    BY <1>2 DEF Undisturbed, Busy, Submitted, Returned, StartOfNext
  <1>4. Pending(t)' \subseteq Pending(t)
    BY <1>2 DEF Pending
  <1>5. Shown(t)' = grid'[tab][th[t].kind] /\ Ids(Shown(t))' = Ids(grid'[tab][th[t].kind])
    BY <1>2 DEF Shown, Ids
  <1> DEFINE old == grid[tab][th[t].kind]
             new == grid'[tab][th[t].kind]
  <1>6. /\ Ids(new) = Ids(old) /\ DOMAIN new = DOMAIN old
        /\ \A j \in DOMAIN old : new[j].id = old[j].id
    <2>1. tab \in Projects /\ th[t].kind \in Kinds
      BY <1>1, PageFacts
    <2>2. ASSUME NEW p \in Projects, NEW k \in Kinds, NEW i \in DOMAIN grid[p][k],
                 TileEnds(p, k, i)
          PROVE  Ids(new) = Ids(old)
      BY <1>1, <2>1, <2>2, SameIds
    <2>3. ASSUME NEW p \in Projects, NEW k \in Kinds, NEW i \in DOMAIN grid[p][k],
                 TileEnds(p, k, i)
          PROVE  DOMAIN new = DOMAIN old /\ \A j \in DOMAIN old : new[j].id = old[j].id
      BY <1>1, <2>1, <2>3, Ends
    <2>4. (\E q \in queued : Refuses(q)) => new = old
      BY DEF Refuses
    <2> QED BY <2>2, <2>3, <2>4
  <1>7. /\ Ids(Shown(t))' = Ids(Shown(t)) /\ DOMAIN Shown(t)' = DOMAIN Shown(t)
        /\ \A j \in DOMAIN Shown(t) : Shown(t)'[j].id = Shown(t)[j].id
    BY <1>5, <1>6 DEF Shown
  <1>8. AtTile(t) => AtTile(t)'
    BY <1>2, <1>3, <1>4, <1>7 DEF AtTile
  <1> QED BY <1>1, <1>2, <1>3, <1>4, <1>7, <1>8 DEF ConversationOK


(***************************************************************************)
(* The conversation: what a thread does.                                   *)
(***************************************************************************)
LEMMA Moved ==
  ASSUME PageOK, NEW t \in Threads, NEW new, Sets(t, new)
  PROVE  /\ th'[t] = new
         /\ \A u \in Threads \ {t} : th'[u] = th[u] /\ Busy(u)' = Busy(u)
  BY DEF PageOK, Sets, Busy

\* Another thread acts: it was not there as long as this one was undisturbed,
\* and what has been returned stays as it is.
LEMMA OthersConversing ==
  ASSUME FlowInv, NEW u \in Threads, NEW t \in Threads, u # t, Thread(u)
  PROVE  ConversationOK(t)'
  <1>1. PageOK /\ ConversationOK(t)
    BY DEF FlowInv
  <1>2. Busy(u) \/ Begin(u)
    BY DEF Thread, Busy, Upload, Prepare, Click, Look, Watch, MediaIds, Download, GiveUp
  <1>3. CASE Begin(u)
    <2>1. sent' = sent
      BY <1>3 DEF Begin
    <2>2. CASE Busy(t)
      <3>1. th'[t] = [th[t] EXCEPT !.clear = FALSE, !.quiet = FALSE, !.own = <<>>]
        BY <1>3, <2>2 DEF Begin
      <3>2. ~th'[t].quiet /\ th'[t].pc = th[t].pc
        BY <1>1, <3>1, PageFacts DEF Conversation
      <3>3. ~Undisturbed(t)' /\ ~Returned(t)'
        BY <2>2, <3>2 DEF Undisturbed, Returned, Busy
      <3> QED BY <3>3 DEF ConversationOK
    <2>3. CASE ~Busy(t)
      <3>1. th'[t] = th[t]
        BY <1>3, <2>3 DEF Begin
      <3>2. ~Undisturbed(t)' /\ Returned(t)' = Returned(t)
        BY <2>3, <3>1 DEF Undisturbed, Busy, Returned
      <3> QED BY <1>1, <2>1, <3>1, <3>2 DEF ConversationOK
    <2> QED BY <2>2, <2>3
  <1>4. CASE Busy(u) /\ ~Begin(u)
    <2>1. ~Undisturbed(t)
      BY <1>1, <1>4 DEF ConversationOK
    <2>2. th'[t] = th[t]
      BY <1>1, <1>4, Moved
         DEF Thread, Upload, Prepare, Click, Look, Watch, MediaIds, Download, GiveUp
    <2>3. ~Undisturbed(t)' /\ Returned(t)' = Returned(t)
      BY <2>1, <2>2 DEF Undisturbed, Busy, Returned
    <2>4. \/ sent' = sent
          \/ \E r \in Request : sent' = Append(sent, r)
      BY <1>1, <1>4, EmptyTyped
         DEF Thread, Upload, Prepare, Click, Look, Watch, MediaIds, Download, GiveUp, PageOK
    <2>5. Chain(t, th[t].own, sent) => Chain(t, th[t].own, sent')
      BY <1>1, <2>4, ChainLonger, PageFacts DEF PageOK
    <2> QED BY <1>1, <2>2, <2>3, <2>5 DEF ConversationOK
  <1> QED BY <1>2, <1>3, <1>4

LEMMA BeginConverses ==
  ASSUME FlowInv, NEW t \in Threads, Begin(t)
  PROVE  ConversationOK(t)'
  <1>1. PICK kind \in Kinds, parts \in 1..MaxParts :
          LET free == \A v \in Threads \ {t} : ~Busy(v)
          IN th' = [u \in Threads |->
               IF u = t THEN [Idle EXCEPT !.pc = "assets", !.kind = kind, !.parts = parts,
                                !.clear = free, !.quiet = free]
               ELSE IF Busy(u)
                    THEN [th[u] EXCEPT !.clear = FALSE, !.quiet = FALSE, !.own = <<>>]
                    ELSE th[u]]
    BY DEF Begin
  <1>2. /\ th'[t].pc = "assets" /\ th'[t].own = <<>> /\ th'[t].clips = <<>>
        /\ th'[t].quiet = \A v \in Threads \ {t} : ~Busy(v)
    BY <1>1 DEF Idle
  <1>3. ASSUME Undisturbed(t)', NEW u \in Threads \ {t}
        PROVE  ~Busy(u)'
    <2>1. ~Busy(u)
      BY <1>2, <1>3 DEF Undisturbed
    <2>2. th'[u] = th[u]
      BY <1>1, <2>1
    <2> QED BY <2>1, <2>2 DEF Busy
  <1> QED BY <1>2, <1>3, EmptyChain DEF ConversationOK, Returned

LEMMA UploadConverses ==
  ASSUME FlowInv, NEW t \in Threads, Upload(t)
  PROVE  ConversationOK(t)'
  <1>1. ConversationOK(t) /\ UNCHANGED <<th, sent>> /\ th[t].pc = "assets"
    BY DEF FlowInv, Upload
  <1> QED BY <1>1 DEF ConversationOK, Undisturbed, Busy, Returned

LEMMA PrepareConverses ==
  ASSUME FlowInv, NEW t \in Threads, Prepare(t)
  PROVE  ConversationOK(t)'
  <1>1. PageOK /\ ConversationOK(t) /\ th[t] \in Conversation
    BY PageFacts DEF FlowInv
  <1> DEFINE quiet(redrawn) ==
               /\ th[t].quiet /\ redrawn = {}
               /\ ~\E q \in queued : q.page = tab /\ q.kind = th[t].kind
             new(redrawn) ==
               [th[t] EXCEPT !.pc = "click", !.noted = Noted(Shown(t), redrawn),
                  !.clear = @ /\ redrawn = {}, !.quiet = quiet(redrawn),
                  !.own = IF quiet(redrawn) THEN @ ELSE <<>>]
  <1>2. PICK redrawn \in SUBSET Working(Shown(t)) : Sets(t, new(redrawn))
    BY DEF Prepare
  <1>3. /\ th'[t].pc = "click" /\ th'[t].quiet = quiet(redrawn)
        /\ th'[t].kind = th[t].kind /\ th'[t].clips = th[t].clips
        /\ th'[t].noted = Noted(Shown(t), redrawn)
        /\ quiet(redrawn) => th'[t].own = th[t].own
    <2>1. th'[t] = new(redrawn)
      BY <1>1, <1>2, Moved
    <2> HIDE DEF quiet
    <2> QED BY <1>1, <2>1 DEF Conversation
  <1>4. \A u \in Threads \ {t} : Busy(u)' = Busy(u)
    BY <1>1, <1>2, Moved
  <1>5. UNCHANGED <<grid, queued, tab, sent>> /\ form' = [by |-> t, start |-> StartOfNext(t)]
    BY DEF Prepare
  <1>6. CASE quiet(redrawn)
    <2>1. Undisturbed(t) /\ th[t].pc = "assets"
      BY <1>6 DEF Prepare, Undisturbed, Busy
    <2>2. Chain(t, th[t].own, sent) /\ th[t].own = th[t].clips
          /\ \A u \in Threads \ {t} : ~Busy(u)
      BY <1>1, <2>1 DEF ConversationOK
    <2>3. StartOfNext(t)' = StartOfNext(t)
      BY <1>3 DEF StartOfNext
    <2>4. Ids(Shown(t))' \subseteq th'[t].noted /\ Pending(t)' = {}
      BY <1>3, <1>5, <1>6 DEF Noted, Shown, Ids, Pending
    <2> HIDE DEF quiet
    <2> QED BY <1>3, <1>4, <1>5, <1>6, <2>2, <2>3, <2>4 DEF ConversationOK, Returned
  <1>7. CASE ~quiet(redrawn)
    <2> HIDE DEF quiet
    <2> QED BY <1>3, <1>7 DEF ConversationOK, Returned, Undisturbed
  <1> QED BY <1>6, <1>7

LEMMA ClickConverses ==
  ASSUME FlowInv, NEW t \in Threads, Click(t)
  PROVE  ConversationOK(t)'
  <1> DEFINE id == Len(sent) + 1
             own == Append(th[t].own, id)
  <1>1. /\ PageOK /\ ConversationOK(t) /\ th[t] \in Conversation
        /\ sent \in Seq(Request) /\ form \in Request
        /\ th[t].own \in Seq(Clicks) /\ th[t].clips \in Seq(Media)
    BY PageFacts DEF FlowInv, PageOK
  <1>2. /\ th'[t].pc = "look" /\ th'[t].quiet = th[t].quiet /\ th'[t].kind = th[t].kind
        /\ th'[t].clips = th[t].clips /\ th'[t].noted = th[t].noted
        /\ th[t].quiet => th'[t].own = own
    <2>1. th'[t] = [th[t] EXCEPT !.pc = "look",
                      !.own = IF th[t].quiet THEN Append(@, id) ELSE @]
      BY <1>1, Moved DEF Click
    <2> HIDE DEF id
    <2> QED BY <1>1, <2>1 DEF Conversation
  <1>3. \A u \in Threads \ {t} : Busy(u)' = Busy(u)
    BY <1>1, Moved DEF Click
  <1>4. CASE ~th[t].quiet
    BY <1>2, <1>4 DEF ConversationOK, Returned, Undisturbed
  <1>5. CASE th[t].quiet
    <2>1. Undisturbed(t) /\ th[t].pc = "click"
      BY <1>5 DEF Click, Undisturbed, Busy
    <2>2. /\ Chain(t, th[t].own, sent) /\ th[t].own = th[t].clips
          /\ \A u \in Threads \ {t} : ~Busy(u)
          /\ form = [by |-> t, start |-> StartOfNext(t)]
          /\ Ids(Shown(t)) \subseteq th[t].noted /\ Pending(t) = {}
      BY <1>1, <2>1 DEF ConversationOK
    <2>3. sent' = Append(sent, form)
          /\ queued' = queued \cup {[id |-> id, page |-> tab, kind |-> th[t].kind]}
          /\ UNCHANGED <<grid, tab>>
      BY <1>5 DEF Click
    <2>4. Chain(t, own, sent')
      <3>1. form.by = t /\ (th[t].own # <<>> => form.start = Last(th[t].own))
        BY <2>2 DEF StartOfNext
      <3> QED BY <1>1, <2>2, <2>3, <3>1, ChainNext
    <2>5. own # <<>> /\ Last(own) = id
      <3>1. Len(own) = Len(th[t].own) + 1 /\ own[Len(th[t].own) + 1] = id
            /\ Len(th[t].own) \in Nat
        BY <1>1
      <3>2. Len(own) # 0
        BY <3>1
      <3> HIDE DEF own
      <3> QED BY <3>1, <3>2 DEF Last
    <2>6. Submitted(t)'
      <3> HIDE DEF id
      <3> QED BY <1>2, <1>5, <2>2, <2>5 DEF Submitted
    <2> HIDE DEF own
    <2>7. Ids(Shown(t))' \subseteq th'[t].noted /\ \A q \in Pending(t)' : q.id = Last(th'[t].own)
      <3>1. Ids(Shown(t))' = Ids(Shown(t))
        BY <1>2, <2>3 DEF Shown, Ids
      <3>2. ASSUME NEW q \in Pending(t)'
            PROVE  q.id = id
        BY <1>2, <2>2, <2>3, <3>2 DEF Pending
      <3> QED BY <1>2, <1>5, <2>2, <2>5, <3>1, <3>2
    <2> QED BY <1>2, <1>3, <1>5, <2>2, <2>4, <2>6, <2>7 DEF ConversationOK, Returned
  <1> QED BY <1>4, <1>5


\* The only tile that was not noted is of the last submission.
LEMMA LookConverses ==
  ASSUME FlowInv, NEW t \in Threads, Look(t)
  PROVE  ConversationOK(t)'
  <1> DEFINE at == CHOOSE i \in Unknown(t) : \A j \in Unknown(t) : i <= j
  <1>1. /\ PageOK /\ NumbersOK /\ ConversationOK(t) /\ th[t] \in Conversation
        /\ Shown(t) \in Seq(Tile) /\ th[t].own \in Seq(Clicks)
    BY PageFacts DEF FlowInv
  <1>2. at \in Unknown(t)
    <2>1. Unknown(t) \in SUBSET Nat /\ Unknown(t) # {}
      BY <1>1 DEF Look, Unknown
    <2> QED BY <2>1, FirstPlace
  <1>3. th'[t] = [th[t] EXCEPT !.pc = "watch", !.noted = {}, !.at = at]
    BY <1>1, Moved DEF Look
  <1>4. \A u \in Threads \ {t} : Busy(u)' = Busy(u)
    BY <1>1, Moved DEF Look
  <1> HIDE DEF at
  <1>5. /\ th'[t].pc = "watch" /\ th'[t].quiet = th[t].quiet /\ th'[t].kind = th[t].kind
        /\ th'[t].clips = th[t].clips /\ th'[t].own = th[t].own /\ th'[t].at = at
    BY <1>1, <1>3 DEF Conversation
  <1>6. UNCHANGED <<grid, queued, tab, form, sent>>
    BY DEF Look
  <1>7. CASE ~th[t].quiet
    BY <1>5, <1>7 DEF ConversationOK, Returned, Undisturbed
  <1>8. CASE th[t].quiet
    <2>1. Undisturbed(t) /\ th[t].pc = "look"
      BY <1>8 DEF Look, Undisturbed, Busy
    <2>2. /\ Chain(t, th[t].own, sent) /\ Submitted(t)
          /\ \A u \in Threads \ {t} : ~Busy(u)
          /\ Ids(Shown(t)) \subseteq th[t].noted \cup {Last(th[t].own)}
          /\ \A q \in Pending(t) : q.id = Last(th[t].own)
      BY <1>1, <2>1 DEF ConversationOK
    <2>3. at \in DOMAIN Shown(t) /\ Shown(t)[at].id = Last(th[t].own)
      BY <1>2, <2>2 DEF Unknown, Ids
    <2>4. Pending(t) = {}
      <3>1. Last(th[t].own) \in Clicks
        BY <1>1, <2>2, LastIsClick DEF Submitted
      <3>2. Last(th[t].own) \in Ids(Shown(t))
        BY <2>3 DEF Ids
      <3> QED BY <1>1, <2>2, <3>1, <3>2, NothingPending
    <2>5. Submitted(t)' /\ Pending(t)' = {} /\ Shown(t)' = Shown(t)
      BY <1>5, <1>6, <2>2, <2>4 DEF Submitted, Pending, Shown
    <2>6. AtTile(t)'
      BY <1>5, <2>3, <2>5 DEF AtTile
    <2> QED BY <1>4, <1>5, <1>6, <2>2, <2>6 DEF ConversationOK, Returned
  <1> QED BY <1>7, <1>8

LEMMA WatchConverses ==
  ASSUME FlowInv, NEW t \in Threads, Watch(t)
  PROVE  ConversationOK(t)'
  <1>1. PageOK /\ ConversationOK(t) /\ th[t] \in Conversation
    BY PageFacts DEF FlowInv
  <1>2. PICK id \in {Located(t).id, Nothing} :
          th'[t] = [th[t] EXCEPT !.pc = "download", !.media = id]
    BY <1>1, Moved DEF Watch, MediaIds
  <1>3. \A u \in Threads \ {t} : Busy(u)' = Busy(u)
    BY <1>1, Moved DEF Watch, MediaIds
  <1>4. /\ th'[t].pc = "download" /\ th'[t].quiet = th[t].quiet /\ th'[t].kind = th[t].kind
        /\ th'[t].clips = th[t].clips /\ th'[t].own = th[t].own /\ th'[t].at = th[t].at
        /\ th'[t].media \in {Located(t).id, Nothing}
    BY <1>1, <1>2 DEF Conversation
  <1>5. UNCHANGED <<grid, queued, tab, form, sent>>
    BY DEF Watch, MediaIds
  <1>6. CASE ~th[t].quiet
    BY <1>4, <1>6 DEF ConversationOK, Returned, Undisturbed
  <1>7. CASE th[t].quiet
    <2>1. Undisturbed(t) /\ th[t].pc = "watch"
      BY <1>7 DEF Watch, MediaIds, Undisturbed, Busy
    <2>2. Chain(t, th[t].own, sent) /\ AtTile(t) /\ \A u \in Threads \ {t} : ~Busy(u)
      BY <1>1, <2>1 DEF ConversationOK
    <2>3. AtTile(t)'
      BY <1>4, <1>5, <2>2 DEF AtTile, Submitted, Pending, Shown
    <2>4. th'[t].media \in {Last(th'[t].own), Nothing}
      BY <1>4, <2>2 DEF AtTile, Located
    <2> QED BY <1>3, <1>4, <1>5, <2>2, <2>3, <2>4 DEF ConversationOK, Returned
  <1> QED BY <1>6, <1>7

LEMMA DownloadConverses ==
  ASSUME FlowInv, NEW t \in Threads, Download(t)
  PROVE  ConversationOK(t)'
  <1> DEFINE clips == Append(th[t].clips, Located(t).id)
  <1>1. PageOK /\ ConversationOK(t) /\ th[t] \in Conversation
    BY PageFacts DEF FlowInv
  <1>2. th'[t] = AfterPart(t, clips) /\ sent' = sent
    BY <1>1, Moved DEF Download
  <1>3. \A u \in Threads \ {t} : Busy(u)' = Busy(u)
    BY <1>1, Moved DEF Download
  <1>4. CASE ~th[t].quiet
    <2> HIDE DEF clips
    <2>1. th'[t] = Idle \/ (th'[t].pc = "assets" /\ ~th'[t].quiet)
      BY <1>1, <1>2, <1>4 DEF AfterPart, Asset, Conversation
    <2> QED BY <2>1 DEF ConversationOK, Returned, Undisturbed, Busy, Idle
  <1>5. CASE th[t].quiet
    <2>1. Undisturbed(t) /\ th[t].pc = "download"
      BY <1>5 DEF Download, Undisturbed, Busy
    <2>2. /\ Chain(t, th[t].own, sent) /\ AtTile(t)
          /\ th[t].media \in {Last(th[t].own), Nothing}
          /\ \A u \in Threads \ {t} : ~Busy(u)
      BY <1>1, <2>1 DEF ConversationOK
    <2>3. clips = th[t].own /\ th[t].own # <<>>
      BY <2>2 DEF AtTile, Submitted, Located
    <2> HIDE DEF clips
    <2>4. /\ th'[t].own = th[t].own /\ th'[t].clips = clips /\ th'[t].media = th[t].media
          /\ th'[t].pc \in {"assets", "done"}
      BY <1>1, <1>2, <1>5 DEF AfterPart, Asset, Conversation, Idle
    <2> QED BY <1>2, <1>3, <2>2, <2>3, <2>4 DEF ConversationOK, Returned, Undisturbed, Busy
  <1> QED BY <1>4, <1>5

LEMMA GiveUpConverses ==
  ASSUME FlowInv, NEW t \in Threads, GiveUp(t)
  PROVE  ConversationOK(t)'
  <1>1. th'[t] = Idle
    BY Moved DEF FlowInv, GiveUp
  <1> QED BY <1>1 DEF ConversationOK, Returned, Undisturbed, Busy, Idle

(***************************************************************************)
(* Theorems.                                                               *)
(***************************************************************************)
LEMMA FlowInvInit == Init => FlowInv
  <1> SUFFICES ASSUME Init
               PROVE  FlowInv
    OBVIOUS
  <1>1. PageOK
    BY FlowAssumption, IdleTyped, EmptyTyped DEF Init, PageOK
  <1>2. NumbersOK
    BY DEF Init, NumbersOK
  <1>3. ASSUME NEW t \in Threads
        PROVE  ConversationOK(t)
    BY DEF Init, Idle, ConversationOK, Undisturbed, Busy, Returned
  <1> QED BY <1>1, <1>2, <1>3 DEF FlowInv

LEMMA FlowInvNext ==
  ASSUME FlowInv, [Next]_vars
  PROVE  FlowInv'
  <1>1. CASE UNCHANGED vars
    <2>1. \A t \in Threads : UNCHANGED ConversationOK(t)
      BY <1>1 DEF vars, ConversationOK, Undisturbed, Busy, Returned, StartOfNext, Shown, Ids,
                  Pending, Submitted, AtTile
    <2>2. UNCHANGED NumbersOK /\ UNCHANGED PageOK
      BY <1>1 DEF vars, NumbersOK, PageOK, Ids
    <2> QED BY <2>1, <2>2 DEF FlowInv
  <1>2. CASE Flow
    <2>1. \A t \in Threads : ConversationOK(t)'
      BY <1>2, AppearsConversing, EndsConversing DEF Flow
    <2> QED BY <1>2, <2>1, FlowTyped, FlowNumbers DEF FlowInv
  <1>3. ASSUME NEW u \in Threads, Thread(u)
        PROVE  FlowInv'
    <2>1. ConversationOK(u)'
      BY <1>3, BeginConverses, UploadConverses, PrepareConverses, ClickConverses, LookConverses,
         WatchConverses, DownloadConverses, GiveUpConverses DEF Thread
    <2>2. \A t \in Threads : ConversationOK(t)'
      BY <1>3, <2>1, OthersConversing
    <2> QED BY <1>3, <2>2, ThreadTyped, ThreadNumbers DEF FlowInv
  <1> QED BY <1>1, <1>2, <1>3 DEF Next

THEOREM FlowInvariant == Spec => []FlowInv
  BY FlowInvInit, FlowInvNext, PTL DEF Spec

\* The files that a quiet generation returns are of its own clicks and its own
\* prompt, and so is the media id unless it was made up, although the page does
\* not answer a click and keeps what earlier generations have left
\* (google_flow_browser_worker.py, _tile_media_ids, _new_tile_by_media_id).
THEOREM ResultIsOwn == Spec => []OwnResult
  <1>1. FlowInv => OwnResult
    BY DEF FlowInv, ConversationOK, OwnResult, PageOK, Conversation, Chain
  <1> QED BY <1>1, FlowInvariant, PTL

\* Each part of a long scene that a quiet generation returns was submitted with
\* the last frame of the part it is joined to (google_flow_browser_worker.py,
\* _generate_subclipped_video).
THEOREM PartsAreJoined == Spec => []PartsMeet
  <1>1. FlowInv => PartsMeet
    BY DEF FlowInv, ConversationOK, PartsMeet, PageOK, Conversation, Chain
  <1> QED BY <1>1, FlowInvariant, PTL

(***************************************************************************)
(* What is saved was never saved before.                                   *)
(*                                                                         *)
(* A clear generation that is not quiet may take what another one gave up. *)
(* The tiles it noted are all below those that came up since, which nobody *)
(* has saved: so the first tile that was not noted is the first of all,    *)
(* and whatever comes up above it was not saved either.                    *)
(***************************************************************************)
Undivided(t) == Busy(t) /\ th[t].clear

Divided(t) ==
  /\ Ids(Shown(t)) \cap taken \subseteq th[t].noted
  /\ th[t].noted \subseteq Ids(Shown(t))
  /\ 1 \in DOMAIN Shown(t) /\ Shown(t)[1].id \in th[t].noted =>
       Ids(Shown(t)) \subseteq th[t].noted

AtFresh(t) ==
  /\ th[t].at = 1 /\ 1 \in DOMAIN Shown(t) /\ Shown(t)[1].id \notin taken

FreshOK(t) ==
  /\ Undivided(t) => \A u \in Threads \ {t} : ~Busy(u)
  /\ Undivided(t) /\ th[t].pc \in {"click", "look"} => Divided(t)
  /\ Undivided(t) /\ th[t].pc \in {"watch", "download"} => AtFresh(t)

TakenOK ==
  /\ taken \subseteq Clicks /\ \A id \in taken : id <= Len(sent)
  /\ \A q \in queued : q.id \notin taken

TakenInv == FlowInv /\ TakenOK /\ \A t \in Threads : FreshOK(t)

LEMMA LocatedId ==
  ASSUME PageOK, NumbersOK, NEW t \in Threads, Located(t) # Nothing, Located(t).id \in Clicks
  PROVE  /\ Located(t).id <= Len(sent)
         /\ \A q \in queued : q.id # Located(t).id
  <1>1. th[t].at \in DOMAIN Shown(t) /\ Located(t) = Shown(t)[th[t].at]
    BY DEF Located
  <1>2. tab \in Projects /\ th[t].kind \in Kinds /\ Shown(t) = grid[tab][th[t].kind]
    BY PageFacts
  <1>3. Located(t).id \in Ids(grid[tab][th[t].kind])
    BY <1>1, <1>2 DEF Ids
  <1> QED BY <1>1, <1>2, <1>3 DEF NumbersOK

LEMMA TakenStep ==
  ASSUME PageOK, NumbersOK, TakenOK, Next
  PROVE  TakenOK'
  <1>1. CASE Flow
    BY <1>1 DEF Flow, Appears, Refuses, TileEnds, TakenOK
  <1>2. ASSUME NEW t \in Threads, Upload(t)
        PROVE  TakenOK'
    <2>1. t \notin taken
      BY ClickIsNoThread DEF TakenOK
    <2>2. UNCHANGED <<sent, taken>>
          /\ queued' = queued \cup {[id |-> t, page |-> tab, kind |-> "image"]}
      BY <1>2 DEF Upload
    <2> QED BY <2>1, <2>2 DEF TakenOK
  <1>3. ASSUME NEW t \in Threads, Click(t)
        PROVE  TakenOK'
    <2> DEFINE id == Len(sent) + 1
               n == Len(sent)
    <2>1. Len(sent') = Len(sent) + 1 /\ Len(sent) \in Nat
      BY <1>3 DEF Click, PageOK
    <2>2. UNCHANGED taken
      BY <1>3 DEF Click
    <2> HIDE DEF n
    <2>3. ASSUME NEW m \in taken
          PROVE  m # id /\ m <= Len(sent')
      <3>1. m \in Nat /\ n \in Nat /\ n = Len(sent) /\ Len(sent') = n + 1 /\ id = n + 1 /\ m <= n
        BY <2>1, ClickIsNoThread DEF n, TakenOK
      <3> QED BY <3>1, OneMore
    <2> QED BY <1>3, <2>2, <2>3 DEF Click, TakenOK
  <1>4. ASSUME NEW t \in Threads, Download(t)
        PROVE  TakenOK'
    <2>1. Located(t) # Nothing /\ UNCHANGED <<queued, sent>>
          /\ taken' = taken \cup ({Located(t).id} \cap Clicks)
      BY <1>4 DEF Download
    <2>2. Located(t).id \in Clicks =>
            Located(t).id <= Len(sent) /\ \A q \in queued : q.id # Located(t).id
      BY <2>1, LocatedId
    <2> QED BY <2>1, <2>2 DEF TakenOK
  <1>5. ASSUME NEW t \in Threads,
               Begin(t) \/ Prepare(t) \/ Look(t) \/ Watch(t) \/ GiveUp(t)
        PROVE  TakenOK'
    BY <1>5 DEF Begin, Prepare, Look, Watch, MediaIds, GiveUp, TakenOK
  <1> QED BY <1>1, <1>2, <1>3, <1>4, <1>5 DEF Next, Thread

\* What comes up late comes up first, and was never saved.
LEMMA AppearsFresh ==
  ASSUME TakenInv, NEW q \in queued, Appears(q), NEW t \in Threads
  PROVE  FreshOK(t)'
  <1>1. PageOK /\ NumbersOK /\ TakenOK /\ FreshOK(t)
    BY DEF TakenInv, FlowInv
  <1>2. UNCHANGED <<tab, form, sent, taken, th>>
    BY DEF Appears
  <1>3. UNCHANGED Undivided(t) /\ \A u \in Threads : UNCHANGED Busy(u)
    BY <1>2 DEF Undivided, Busy
  <1>4. Shown(t)' = grid'[tab][th[t].kind] /\ Ids(Shown(t))' = Ids(grid'[tab][th[t].kind])
    BY <1>2 DEF Shown, Ids
  <1>5. tab \in Projects /\ th[t].kind \in Kinds /\ Shown(t) = grid[tab][th[t].kind]
    BY <1>1, PageFacts
  <1>6. q.id \notin taken
    BY <1>1 DEF TakenOK
  <1>7. CASE q.page = tab /\ q.kind = th[t].kind
    <2>1. /\ Ids(grid'[tab][th[t].kind]) = Ids(Shown(t)) \cup {q.id}
          /\ 1 \in DOMAIN grid'[tab][th[t].kind] /\ grid'[tab][th[t].kind][1].id = q.id
      BY <1>1, <1>5, <1>7, Grows
    <2>2. q.id \notin Ids(Shown(t))
      BY <1>1, <1>5, <1>7 DEF NumbersOK
    <2>3. Divided(t) => Divided(t)'
      BY <1>2, <1>4, <1>6, <2>1, <2>2 DEF Divided
    <2>4. AtFresh(t) => AtFresh(t)'
      BY <1>2, <1>4, <1>6, <2>1 DEF AtFresh
    <2> QED BY <1>1, <1>2, <1>3, <2>3, <2>4 DEF FreshOK
  <1>8. CASE ~(q.page = tab /\ q.kind = th[t].kind)
    <2>1. grid'[tab][th[t].kind] = grid[tab][th[t].kind]
      BY <1>1, <1>5, <1>8, Grows
    <2>2. Shown(t)' = Shown(t) /\ Ids(Shown(t))' = Ids(Shown(t))
      BY <1>4, <1>5, <2>1
    <2> QED BY <1>1, <1>2, <1>3, <2>2 DEF FreshOK, Divided, AtFresh
  <1> QED BY <1>7, <1>8

LEMMA EndsFresh ==
  ASSUME TakenInv, NEW t \in Threads,
         \/ \E q \in queued : Refuses(q)
         \/ \E p \in Projects, k \in Kinds : \E i \in DOMAIN grid[p][k] : TileEnds(p, k, i)
  PROVE  FreshOK(t)'
  <1>1. PageOK /\ FreshOK(t)
    BY DEF TakenInv, FlowInv
  <1>2. UNCHANGED <<tab, form, sent, taken, th>>
    BY DEF Refuses, TileEnds
  <1>3. UNCHANGED Undivided(t) /\ \A u \in Threads : UNCHANGED Busy(u)
    BY <1>2 DEF Undivided, Busy
  <1>4. /\ Shown(t)' = grid'[tab][th[t].kind] /\ Ids(Shown(t))' = Ids(grid'[tab][th[t].kind])
        /\ tab \in Projects /\ th[t].kind \in Kinds /\ Shown(t) = grid[tab][th[t].kind]
    BY <1>1, <1>2, PageFacts DEF Shown, Ids
  <1> DEFINE new == grid'[tab][th[t].kind]
             old == grid[tab][th[t].kind]
  <1>5. Ids(new) = Ids(old) /\ DOMAIN new = DOMAIN old
        /\ \A j \in DOMAIN old : new[j].id = old[j].id
    <2>1. ASSUME NEW p \in Projects, NEW k \in Kinds, NEW i \in DOMAIN grid[p][k],
                 TileEnds(p, k, i)
          PROVE  Ids(new) = Ids(old)
      BY <1>1, <1>4, <2>1, SameIds
    <2>2. ASSUME NEW p \in Projects, NEW k \in Kinds, NEW i \in DOMAIN grid[p][k],
                 TileEnds(p, k, i)
          PROVE  DOMAIN new = DOMAIN old /\ \A j \in DOMAIN old : new[j].id = old[j].id
      BY <1>1, <1>4, <2>2, Ends
    <2>3. (\E q \in queued : Refuses(q)) => new = old
      BY DEF Refuses
    <2> QED BY <2>1, <2>2, <2>3
  <1> HIDE DEF new, old
  <1>6. /\ Ids(Shown(t))' = Ids(Shown(t)) /\ DOMAIN Shown(t)' = DOMAIN Shown(t)
        /\ 1 \in DOMAIN Shown(t) => Shown(t)'[1].id = Shown(t)[1].id
    BY <1>4, <1>5 DEF new, old
  <1> QED BY <1>1, <1>2, <1>3, <1>6 DEF FreshOK, Divided, AtFresh

\* Another thread was not there, or ends it by coming.
LEMMA OthersFresh ==
  ASSUME TakenInv, NEW u \in Threads, NEW t \in Threads, u # t, Thread(u)
  PROVE  FreshOK(t)'
  <1>1. PageOK /\ FreshOK(t)
    BY DEF TakenInv, FlowInv
  <1>2. Busy(u) \/ Begin(u)
    BY DEF Thread, Busy, Upload, Prepare, Click, Look, Watch, MediaIds, Download, GiveUp
  <1>3. CASE Begin(u)
    <2>1. CASE Busy(t)
      <3>1. th'[t] = [th[t] EXCEPT !.clear = FALSE, !.quiet = FALSE, !.own = <<>>]
        BY <1>3, <2>1 DEF Begin
      <3>2. ~th'[t].clear
        BY <1>1, <3>1, PageFacts DEF Conversation
      <3> QED BY <3>2 DEF FreshOK, Undivided
    <2>2. CASE ~Busy(t)
      <3>1. th'[t] = th[t]
        BY <1>3, <2>2 DEF Begin
      <3> QED BY <2>2, <3>1 DEF FreshOK, Undivided, Busy
    <2> QED BY <2>1, <2>2
  <1>4. CASE Busy(u) /\ ~Begin(u)
    <2>1. ~Undivided(t)
      BY <1>1, <1>4 DEF FreshOK
    <2>2. th'[t] = th[t]
      BY <1>1, <1>4, Moved
         DEF Thread, Upload, Prepare, Click, Look, Watch, MediaIds, Download, GiveUp
    <2> QED BY <2>1, <2>2 DEF FreshOK, Undivided, Busy
  <1> QED BY <1>2, <1>3, <1>4

LEMMA BeginFresh ==
  ASSUME TakenInv, NEW t \in Threads, Begin(t)
  PROVE  FreshOK(t)'
  <1>1. PICK kind \in Kinds, parts \in 1..MaxParts :
          LET free == \A v \in Threads \ {t} : ~Busy(v)
          IN th' = [u \in Threads |->
               IF u = t THEN [Idle EXCEPT !.pc = "assets", !.kind = kind, !.parts = parts,
                                !.clear = free, !.quiet = free]
               ELSE IF Busy(u)
                    THEN [th[u] EXCEPT !.clear = FALSE, !.quiet = FALSE, !.own = <<>>]
                    ELSE th[u]]
    BY DEF Begin
  <1>2. th'[t].pc = "assets" /\ th'[t].clear = \A v \in Threads \ {t} : ~Busy(v)
    BY <1>1 DEF Idle
  <1>3. ASSUME Undivided(t)', NEW u \in Threads \ {t}
        PROVE  ~Busy(u)'
    <2>1. ~Busy(u)
      BY <1>2, <1>3 DEF Undivided
    <2>2. th'[u] = th[u]
      BY <1>1, <2>1
    <2> QED BY <2>1, <2>2 DEF Busy
  <1> QED BY <1>2, <1>3 DEF FreshOK

\* Whatever was saved is among the tiles that are noted.
LEMMA PrepareFresh ==
  ASSUME TakenInv, NEW t \in Threads, Prepare(t)
  PROVE  FreshOK(t)'
  <1>1. PageOK /\ FreshOK(t) /\ th[t] \in Conversation
    BY PageFacts DEF TakenInv, FlowInv
  <1>2. PICK redrawn \in SUBSET Working(Shown(t)), quiet \in BOOLEAN :
          Sets(t, [th[t] EXCEPT !.pc = "click", !.noted = Noted(Shown(t), redrawn),
                     !.clear = @ /\ redrawn = {}, !.quiet = quiet,
                     !.own = IF quiet THEN @ ELSE <<>>])
    BY <1>1 DEF Prepare, Conversation
  <1>3. /\ th'[t].pc = "click" /\ th'[t].clear = (th[t].clear /\ redrawn = {})
        /\ th'[t].kind = th[t].kind /\ th'[t].noted = Noted(Shown(t), redrawn)
    <2>1. th'[t] = [th[t] EXCEPT !.pc = "click", !.noted = Noted(Shown(t), redrawn),
                      !.clear = @ /\ redrawn = {}, !.quiet = quiet,
                      !.own = IF quiet THEN @ ELSE <<>>]
      BY <1>1, <1>2, Moved
    <2> QED BY <1>1, <2>1 DEF Conversation
  <1>4. \A u \in Threads \ {t} : Busy(u)' = Busy(u)
    BY <1>1, <1>2, Moved
  <1>5. UNCHANGED <<grid, tab, taken>>
    BY DEF Prepare
  <1>6. CASE Undivided(t)'
    <2>1. Undivided(t) /\ redrawn = {}
      BY <1>3, <1>6 DEF Undivided, Busy, Prepare
    <2>2. th'[t].noted = Ids(Shown(t))'
      BY <1>3, <1>5, <2>1 DEF Noted, Shown, Ids
    <2> QED BY <1>1, <1>3, <1>4, <2>1, <2>2 DEF FreshOK, Divided
  <1> QED BY <1>3, <1>6 DEF FreshOK

\* The rest of a generation leaves the tiles it noted, or located, as they were.
LEMMA StaysFresh ==
  ASSUME TakenInv, NEW t \in Threads, Upload(t) \/ Click(t) \/ Watch(t)
  PROVE  FreshOK(t)'
  <1>1. PageOK /\ FreshOK(t) /\ th[t] \in Conversation
    BY PageFacts DEF TakenInv, FlowInv
  <1>2. UNCHANGED <<grid, tab, taken>>
    BY DEF Upload, Click, Watch, MediaIds
  <1>3. \A u \in Threads \ {t} : Busy(u)' = Busy(u)
    BY <1>1, Moved DEF Upload, Click, Watch, MediaIds, Busy
  <1>4. CASE Upload(t)
    BY <1>1, <1>2, <1>3, <1>4 DEF Upload, FreshOK, Undivided, Busy, Divided, AtFresh, Shown, Ids
  <1>5. CASE Click(t)
    <2>1. /\ th'[t].pc = "look" /\ th'[t].clear = th[t].clear /\ th'[t].kind = th[t].kind
          /\ th'[t].noted = th[t].noted /\ th[t].pc = "click"
      <3> DEFINE id == Len(sent) + 1
      <3>1. th'[t] = [th[t] EXCEPT !.pc = "look",
                        !.own = IF th[t].quiet THEN Append(@, id) ELSE @]
        BY <1>1, <1>5, Moved DEF Click
      <3> HIDE DEF id
      <3> QED BY <1>1, <1>5, <3>1 DEF Click, Conversation
    <2> QED BY <1>1, <1>2, <1>3, <2>1 DEF FreshOK, Undivided, Busy, Divided, Shown, Ids
  <1>6. CASE Watch(t)
    <2>1. /\ th'[t].pc = "download" /\ th'[t].clear = th[t].clear /\ th'[t].kind = th[t].kind
          /\ th'[t].at = th[t].at /\ th[t].pc = "watch"
      <3>1. PICK id \in {Located(t).id, Nothing} :
              th'[t] = [th[t] EXCEPT !.pc = "download", !.media = id]
        BY <1>1, <1>6, Moved DEF Watch, MediaIds
      <3> QED BY <1>1, <1>6, <3>1 DEF Watch, MediaIds, Conversation
    <2> QED BY <1>1, <1>2, <1>3, <2>1 DEF FreshOK, Undivided, Busy, AtFresh, Shown
  <1> QED BY <1>4, <1>5, <1>6

\* The first tile that was not noted is the first in the grid.
LEMMA LookFresh ==
  ASSUME TakenInv, NEW t \in Threads, Look(t)
  PROVE  FreshOK(t)'
  <1> DEFINE at == CHOOSE i \in Unknown(t) : \A j \in Unknown(t) : i <= j
  <1>1. /\ PageOK /\ FreshOK(t) /\ th[t] \in Conversation /\ Shown(t) \in Seq(Tile)
        /\ UNCHANGED <<grid, tab, taken>> /\ th[t].pc = "look"
    BY PageFacts DEF TakenInv, FlowInv, Look
  <1>2. at \in Unknown(t) /\ \A j \in Unknown(t) : at <= j
    <2>1. Unknown(t) \in SUBSET Nat /\ Unknown(t) # {}
      BY <1>1 DEF Look, Unknown
    <2> QED BY <2>1, FirstPlace
  <1>3. th'[t] = [th[t] EXCEPT !.pc = "watch", !.noted = {}, !.at = at]
    BY <1>1, Moved DEF Look
  <1>4. \A u \in Threads \ {t} : Busy(u)' = Busy(u)
    BY <1>1, Moved DEF Look
  <1> HIDE DEF at
  <1>5. /\ th'[t].pc = "watch" /\ th'[t].clear = th[t].clear /\ th'[t].kind = th[t].kind
        /\ th'[t].at = at
    BY <1>1, <1>3 DEF Conversation
  <1>6. CASE Undivided(t)
    <2>1. Divided(t) /\ \A u \in Threads \ {t} : ~Busy(u)
      BY <1>1, <1>6 DEF FreshOK
    <2>2. at \in 1..Len(Shown(t)) /\ Shown(t)[at].id \notin th[t].noted
      BY <1>1, <1>2 DEF Unknown
    <2>3. Shown(t)[at].id \in Ids(Shown(t))
      BY <1>1, <2>2 DEF Ids
    <2>4. 1 \in DOMAIN Shown(t)
      BY <1>1, <2>2
    <2>5. 1 \in Unknown(t)
      BY <2>1, <2>2, <2>3, <2>4 DEF Divided, Unknown
    <2>6. at = 1
      BY <1>1, <1>2, <2>2, <2>5
    <2>7. Shown(t)[1].id \notin taken
      BY <2>1, <2>2, <2>3, <2>6 DEF Divided
    <2>8. AtFresh(t)'
      BY <1>1, <1>5, <2>4, <2>6, <2>7 DEF AtFresh, Shown
    <2> QED BY <1>4, <1>5, <2>1, <2>8 DEF FreshOK
  <1>7. CASE ~Undivided(t)
    BY <1>1, <1>5, <1>7 DEF FreshOK, Undivided, Busy
  <1> QED BY <1>6, <1>7

LEMMA LeavesFresh ==
  ASSUME TakenInv, NEW t \in Threads, Download(t) \/ GiveUp(t)
  PROVE  FreshOK(t)'
  <1>1. PageOK /\ FreshOK(t) /\ th[t] \in Conversation
    BY PageFacts DEF TakenInv, FlowInv
  <1>2. \A u \in Threads \ {t} : Busy(u)' = Busy(u)
    BY <1>1, Moved DEF Download, GiveUp
  <1>3. CASE GiveUp(t)
    BY <1>1, <1>3, Moved DEF GiveUp, FreshOK, Undivided, Busy, Idle
  <1>4. CASE Download(t)
    <2> DEFINE clips == Append(th[t].clips, Located(t).id)
    <2>1. th'[t] = AfterPart(t, clips)
      BY <1>1, <1>4, Moved DEF Download
    <2> HIDE DEF clips
    <2>2. \/ ~Busy(t)'
          \/ th'[t].pc = "assets" /\ th'[t].clear = th[t].clear
      <3>1. \/ th'[t] = [th[t] EXCEPT !.pc = "assets", !.at = 0, !.clips = clips]
            \/ th'[t] = Asset(t, clips)
        BY <2>1 DEF AfterPart
      <3>2. Asset(t, clips).pc \in {"done", "idle"}
        BY DEF Asset, Idle
      <3> QED BY <1>1, <3>1, <3>2 DEF Conversation, Busy
    <2>3. Busy(t)
      BY <1>4 DEF Download, Busy
    <2> QED BY <1>1, <1>2, <2>2, <2>3 DEF FreshOK, Undivided
  <1> QED BY <1>3, <1>4

LEMMA TakenInvInit == Init => TakenInv
  <1> SUFFICES ASSUME Init
               PROVE  TakenInv
    OBVIOUS
  <1>1. TakenOK /\ \A t \in Threads : FreshOK(t)
    BY DEF Init, Idle, TakenOK, FreshOK, Undivided, Busy
  <1> QED BY <1>1, FlowInvInit DEF TakenInv

LEMMA TakenInvNext ==
  ASSUME TakenInv, [Next]_vars
  PROVE  TakenInv'
  <1>1. FlowInv'
    BY FlowInvNext DEF TakenInv
  <1>2. CASE UNCHANGED vars
    <2>1. \A t \in Threads : UNCHANGED FreshOK(t)
      BY <1>2 DEF vars, FreshOK, Undivided, Busy, Divided, AtFresh, Shown, Ids
    <2>2. UNCHANGED TakenOK
      BY <1>2 DEF vars, TakenOK
    <2> QED BY <1>1, <2>1, <2>2 DEF TakenInv
  <1>3. CASE Next
    <2>1. TakenOK'
      BY <1>3, TakenStep DEF TakenInv, FlowInv
    <2>2. ASSUME Flow, NEW t \in Threads
          PROVE  FreshOK(t)'
      BY <2>2, AppearsFresh, EndsFresh DEF Flow
    <2>3. ASSUME NEW u \in Threads, Thread(u), NEW t \in Threads
          PROVE  FreshOK(t)'
      <3>1. FreshOK(u)'
        BY <2>3, BeginFresh, PrepareFresh, StaysFresh, LookFresh, LeavesFresh DEF Thread
      <3> QED BY <2>3, <3>1, OthersFresh
    <2> QED BY <1>1, <1>3, <2>1, <2>2, <2>3 DEF TakenInv, Next
  <1> QED BY <1>2, <1>3

\* What a generation saves was never saved before by any other, be it the late
\* result of one that was given up, as long as it could read every tile when it
\* noted them and no other thread came to the tab (google_flow_browser_worker.py,
\* _new_tile_by_media_id and the comment of _new_tile_timeout_seconds).
THEOREM SavedOnce == Spec => TakenOnce
  <1>1. ASSUME TakenInv, NEW t \in Threads, Download(t), th[t].clear
        PROVE  Located(t).id \notin taken
    <2>1. AtFresh(t)
      BY <1>1 DEF TakenInv, FreshOK, Undivided, Busy, Download
    <2> QED BY <2>1 DEF AtFresh, Located
  <1>2. TakenInv => [\A t \in Threads : Download(t) /\ th[t].clear
                                          => Located(t).id \notin taken]_vars
    BY <1>1
  <1> QED BY <1>2, TakenInvInit, TakenInvNext, PTL DEF Spec, TakenOnce
=============================================================================
