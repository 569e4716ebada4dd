---------------------------- MODULE RenderQueue ----------------------------
(***************************************************************************)
(* RenderQueue of render_queue.py for one project: the FIFO of scene ids,  *)
(* the set _queued_ids beside it, the single worker task, the pause event, *)
(* and the project document on disk that the worker, the HTTP handlers and *)
(* a restarted process all read and write.                                 *)
(*                                                                         *)
(* Everything runs on one asyncio event loop, so other coroutines run only *)
(* where the worker suspends: before its first step, in event.wait(), and  *)
(* while the reference manager, the provider or the QC works.  pc names    *)
(* the place; at the places in Atomic the worker holds the loop and only a *)
(* process crash can come between two of its saves.                        *)
(*                                                                         *)
(* With every Master approved and inspected the reference manager returns  *)
(* at once (masters); otherwise it awaits the image provider or a Vision   *)
(* QC (refs).  While it and the scene QC work the coroutine keeps the      *)
(* Project object it read before (snap) and saves that object afterwards.  *)
(* After provider.generate it reads the project again.                     *)
(***************************************************************************)
EXTENDS ProjectDocument

CONSTANTS
  Crashes,  \* whether the process may die and be started again
  Deletes   \* whether the user may delete the project

ASSUME QueueAssumption == Crashes \in BOOLEAN /\ Deletes \in BOOLEAN

VARIABLES
  queue,      \* _queues[project_id]
  queuedIds,  \* _queued_ids[project_id]
  pc,         \* where the worker task is; "none" when there is no live task
  cur,        \* the scene id the worker took from the queue, 0 if none
  snap,       \* the Project object the suspended worker will save
  given,      \* what provider.generate was called with
  running,    \* the resume event is set
  made,       \* history: provider.generate calls per scene
  burst       \* history: those calls since the scene was last enqueued

memory == <<queue, queuedIds, pc, cur, snap, given, running>>
vars == <<exists, disk, queue, queuedIds, pc, cur, snap, given, running,
          made, burst, ops>>

Atomic == {"loop", "begin", "masters", "render", "counted", "saved", "judge",
           "rejected", "accepted"}
Suspended == {"none", "start", "wait1", "woken1", "refs", "wait2", "woken2",
              "gen", "refused", "qc"}
AtHead == pc \in {"start", "loop"}

\* The start frame, the scene content, the Master and the provider of a call.
Nothing == [start |-> 0, text |-> 0, master |-> 0, demo |-> FALSE]
Given == [start : Nat, text : Nat, master : Nat, demo : BOOLEAN]
Bound(p, s) ==
  [start |-> p.scenes[s].source, text |-> p.scenes[s].text,
   master |-> p.master, demo |-> Mock(p)]

Init ==
  /\ DocumentInit
  /\ queue = <<>> /\ queuedIds = {}
  /\ pc = "none" /\ cur = 0 /\ snap = NoValue /\ given = Nothing
  /\ running = TRUE
  /\ made = [s \in Scenes |-> disk.scenes[s].take]
  /\ burst = [s \in Scenes |-> 0]

\* Mutant: the finally block forgets the id.
MutDoneKeepsId(next) ==
  /\ cur' = 0 /\ pc' = next /\ snap' = NoValue /\ given' = Nothing
  /\ UNCHANGED <<queue, queuedIds>>

\* The finally block: the id leaves _queued_ids unless it was put back.
Done(next) ==
  /\ queuedIds' = queuedIds \ {cur}
  /\ cur' = 0 /\ pc' = next /\ snap' = NoValue /\ given' = Nothing
  /\ UNCHANGED queue

\* Mutant: the id is not put back after all.
MutRequeueDrops == Done("loop")

Requeue ==
  /\ queue' = Append(queue, cur)
  /\ cur' = 0 /\ pc' = "loop" /\ snap' = NoValue /\ given' = Nothing
  /\ UNCHANGED queuedIds

\* Mutant: an exception records the acceptance and leaves the status.
MutContainedNoStatus(status, acc) ==
  /\ IF exists THEN Save([disk EXCEPT !.scenes[cur].acc = acc]) ELSE NoSave
  /\ Done("loop")

\* The handlers of the worker's except clauses: reread the project, mark.
Contained(status, acc) ==
  /\ IF exists
     THEN Save(Update(SetScene(disk, cur, [disk.scenes[cur] EXCEPT !.acc = acc]),
                      cur, status))
     ELSE NoSave
  /\ Done("loop")

History == UNCHANGED <<made, burst, ops>>

(***************************************************************************)
(* Handlers of the HTTP routes.                                            *)
(***************************************************************************)
Orderings(S) ==
  {q \in [1..Cardinality(S) -> S] :
     \A i, j \in 1..Cardinality(S) : i < j => q[i] < q[j]}

Requested(ids) ==
  IF ids # {} THEN ids
  ELSE {s \in Scenes : disk.scenes[s].status # "Accepted"}

\* Mutant: any scene already in flight is skipped, and so is a paused one.
MutEnqueuedSkipsPaused(ids) ==
  {s \in Requested(ids) :
     s \notin queuedIds /\ disk.scenes[s].status \notin InFlight \cup {"Paused"}}

\* Requested scenes that are neither queued nor being rendered right now.
Enqueued(ids) ==
  {s \in Requested(ids) :
     /\ s \notin queuedIds
     /\ ~(disk.scenes[s].status \in InFlight /\ pc # "none")}

\* Mutant: the worker is started only when something was queued before.
MutStartWorkerLate ==
  pc' = IF pc = "none" /\ queuedIds # {} THEN "start" ELSE pc

\* A worker task is created unless one is live.
StartWorker == pc' = IF pc = "none" THEN "start" ELSE pc

Enqueue(ids, force) ==
  /\ pc \in Suspended /\ exists /\ Operation
  /\ Mock(disk) \/ MastersReady(disk)
  /\ \A s \in Requested(ids) : disk.scenes[s].plan # "Blocked"
  /\ Save([disk EXCEPT
       !.scenes = [s \in Scenes |->
          IF s \in Enqueued(ids) THEN ClearForEnqueue(disk.scenes[s], force)
          ELSE disk.scenes[s]],
       !.final = IF Requested(ids) = {} THEN @ ELSE "NotReady"])
  /\ \E added \in Orderings(Enqueued(ids)) : queue' = queue \o added
  /\ queuedIds' = queuedIds \cup Enqueued(ids)
  /\ StartWorker
  /\ burst' = [s \in Scenes |-> IF s \in Enqueued(ids) THEN 0 ELSE burst[s]]
  /\ UNCHANGED <<cur, snap, given, running, made>>

Pause ==
  /\ pc \in Suspended /\ exists /\ Operation
  /\ running' = FALSE
  /\ Save(Relabel(disk, "Waiting", "Paused"))
  /\ UNCHANGED <<queue, queuedIds, pc, cur, snap, given, made, burst>>

\* Setting the event wakes a waiter; it goes on even if a new pause clears
\* the event before it runs.
Resume ==
  /\ pc \in Suspended /\ exists
  /\ ~running \/ \E s \in Scenes : disk.scenes[s].status = "Paused"
  /\ running' = TRUE
  /\ Save(Relabel(disk, "Paused", "Waiting"))
  /\ pc' = CASE pc = "wait1" -> "woken1"
             [] pc = "wait2" -> "woken2"
             [] OTHER -> pc
  /\ UNCHANGED <<queue, queuedIds, cur, snap, given, made, burst, ops>>

\* The delete route asks nothing of the queue.
Delete ==
  /\ Deletes
  /\ pc \in Suspended /\ exists /\ Operation
  /\ exists' = FALSE
  /\ UNCHANGED <<disk, memory, made, burst>>

\* A new process knows nothing of the queue.
Forget ==
  /\ queue' = <<>> /\ queuedIds' = {}
  /\ pc' = "none" /\ cur' = 0 /\ snap' = NoValue /\ given' = Nothing
  /\ running' = TRUE

\* The process dies or is shut down, and starts again on the same disk.
Crash ==
  /\ Crashes
  /\ pc # "none" \/ queue # <<>> \/ ~running
  /\ Forget /\ Operation
  /\ UNCHANGED <<exists, disk, made, burst>>

(***************************************************************************)
(* The worker: taking an id and deciding what becomes of it.               *)
(***************************************************************************)
Exit ==
  /\ AtHead /\ queue = <<>>
  /\ pc' = "none"
  /\ UNCHANGED <<exists, disk, queue, queuedIds, cur, snap, given, running>>
  /\ History

Take ==
  /\ AtHead /\ queue # <<>>
  /\ cur' = Head(queue) /\ queue' = Tail(queue)
  /\ pc' = IF running THEN "begin" ELSE "wait1"
  /\ UNCHANGED <<exists, disk, queuedIds, snap, given, running>>
  /\ History

Begins == pc \in {"begin", "woken1"}
Renders == pc \in {"render", "woken2"}

\* The project was deleted: the task returns and leaves the rest queued.
Gone ==
  /\ \/ Begins \/ Renders \/ pc = "gen"
  /\ ~exists
  /\ Done("none")
  /\ UNCHANGED <<exists, disk, running>>
  /\ History

BlockOnContract ==
  /\ Begins /\ exists
  /\ ContractBlocked(disk.scenes[cur])
  /\ Contained("Blocked", "Blocked")
  /\ UNCHANGED running /\ History

DeferToPredecessor ==
  /\ Begins /\ exists
  /\ ~ContractBlocked(disk.scenes[cur])
  /\ ShouldDefer(disk, cur, queuedIds)
  /\ Requeue
  /\ UNCHANGED <<exists, disk, running>> /\ History

BlockOnDependency ==
  /\ Begins /\ exists
  /\ ~ContractBlocked(disk.scenes[cur])
  /\ ~ShouldDefer(disk, cur, queuedIds)
  /\ DependencyBlocked(disk, cur)
  /\ Contained("Blocked", "Blocked")
  /\ UNCHANGED running /\ History

Prepare ==
  /\ Begins /\ exists
  /\ ~ContractBlocked(disk.scenes[cur])
  /\ ~ShouldDefer(disk, cur, queuedIds)
  /\ ~DependencyBlocked(disk, cur)
  /\ LET p == Update(disk, cur, "Preparing") IN Save(p) /\ snap' = p
  /\ pc' = IF MastersReady(disk) THEN "masters" ELSE "refs"
  /\ UNCHANGED <<queue, queuedIds, cur, given, running>> /\ History

(***************************************************************************)
(* The references of the scene.  All three outcomes of the reference       *)
(* manager; the first two save the snapshot it worked on.  An approved     *)
(* image that was inspected by another Vision model is inspected again;    *)
(* without evidence, or without an approved image, a new one is generated. *)
(***************************************************************************)
EnsureMasters(p) ==
  [p EXCEPT !.refs = TRUE, !.refsQC = p.vision,
            !.master = IF p.refs /\ p.refsQC # NoValue THEN @ ELSE @ + MaxOps + 2]

RefsApproved ==
  /\ pc \in {"masters", "refs"}
  /\ Save(CompileImagePlans(EnsureMasters(snap)))
  /\ pc' = IF running THEN "render" ELSE "wait2"
  /\ snap' = NoValue
  /\ UNCHANGED <<queue, queuedIds, cur, given, running>> /\ History

RefsRejected ==
  /\ pc = "refs"
  /\ Save(Update([snap EXCEPT !.refs = FALSE, !.refsQC = NoValue,
                              !.scenes[cur].acc = "Blocked"],
                 cur, "Blocked"))
  /\ Done("loop")
  /\ UNCHANGED running /\ History

RefsError ==
  /\ pc = "refs"
  /\ Contained("Failed", "Rejected")
  /\ UNCHANGED running /\ History

(***************************************************************************)
(* Rendering: count the attempt, mark the scene, call the provider.        *)
(***************************************************************************)
CountAttempt ==
  /\ Renders /\ exists
  /\ Save([disk EXCEPT !.scenes[cur].attempt = @ + 1])
  /\ pc' = "counted"
  /\ UNCHANGED <<queue, queuedIds, cur, snap, given, running>> /\ History

Generate ==
  /\ pc = "counted"
  /\ Save(Update(disk, cur, "Generating"))
  /\ given' = Bound(disk, cur)
  /\ made' = [made EXCEPT ![cur] = @ + 1]
  /\ burst' = [burst EXCEPT ![cur] = @ + 1]
  /\ pc' = IF disk.scenes[cur].plan = "Blocked" /\ ~Mock(disk) THEN "refused" ELSE "gen"
  /\ UNCHANGED <<queue, queuedIds, cur, snap, running, ops>>

\* What the worker writes of the answer; a take of 0 is an empty result_file.
WithTake(c, take) ==
  LET from == IF take = 0 THEN Nothing ELSE given IN
  [c EXCEPT !.take = take, !.start = from.start,
            !.takeText = from.text, !.takeMaster = from.master]

\* The provider answers; the demo provider never with a file.  The real one
\* refuses a Blocked plan, the demo provider looks at none.
Generated ==
  /\ pc = "gen" /\ exists
  /\ \E take \in {0, made[cur]} :
       /\ given.demo => take = 0
       /\ Save(SetScene(disk, cur, WithTake(disk.scenes[cur], take)))
  /\ given' = Nothing
  /\ pc' = "saved"
  /\ UNCHANGED <<queue, queuedIds, cur, snap, running>> /\ History

GenerateError ==
  /\ pc \in {"gen", "refused"}
  /\ Contained("Failed", "Rejected")
  /\ UNCHANGED running /\ History

ProviderUnavailable ==
  /\ pc = "gen"
  /\ Contained("Blocked", "Blocked")
  /\ UNCHANGED running /\ History

MarkQC ==
  /\ pc = "saved"
  /\ LET p == Update(disk, cur, "QC") IN Save(p) /\ snap' = p
  /\ pc' = IF Mock(disk) \/ disk.scenes[cur].take = 0 THEN "judge" ELSE "qc"
  /\ UNCHANGED <<queue, queuedIds, cur, given, running>> /\ History

(***************************************************************************)
(* QC on the snapshot.  Without the boundary frame of the predecessor the  *)
(* continuity QC of a direct scene is unavailable, which is not retried.   *)
(***************************************************************************)
\* Mutant: a missing boundary frame does not make continuity unavailable.
MutFramesIgnored == cur \in Scenes

FramesPresent == HasPrevious(cur) => snap.scenes[cur - 1].take # 0

Judged(verdict, evidence) ==
  [snap.scenes[cur] EXCEPT
     !.acc = verdict, !.qc = evidence,
     !.anchor = IF HasPrevious(cur) THEN snap.scenes[cur - 1].take ELSE 0,
     !.renderModel = snap.video, !.qcModel = snap.vision]

QCAccepts ==
  /\ pc \in {"qc", "judge"}
  /\ Mock(snap) \/ (snap.scenes[cur].take # 0 /\ FramesPresent)
  /\ \E evidence \in {"Passed", "Low"} :
       /\ Mock(snap) => evidence = "Passed"
       /\ Save(Update(SetScene(snap, cur,
                               CommitAccepted(Judged("Accepted", evidence))),
                      cur, "Accepted"))
  /\ pc' = "accepted"
  /\ snap' = NoValue
  /\ UNCHANGED <<queue, queuedIds, cur, given, running>> /\ History

QCRejects ==
  /\ pc \in {"qc", "judge"} /\ ~Mock(snap)
  /\ LET p == Update(SetScene(snap, cur, Judged("Rejected", "Failed")),
                     cur, "FailedQC")
     IN Save(p) /\ snap' = p
  /\ pc' = "rejected"
  /\ UNCHANGED <<queue, queuedIds, cur, given, running>> /\ History

QCError ==
  /\ pc = "qc"
  /\ Contained("Failed", "Rejected")
  /\ UNCHANGED running /\ History

\* Mutant: off by one in the retry budget.
MutRetryOneMore(c) == c.acc = "Rejected" /\ c.attempt <= MaxAuto

\* qc_repair.can_auto_retry, given that no code of the failure forbids it.
CanAutoRetry(c) == c.acc = "Rejected" /\ c.attempt < MaxAuto

\* A retryable failure within the budget goes to the tail of the queue.
RetryRepair ==
  /\ pc = "rejected"
  /\ snap.scenes[cur].take # 0 /\ FramesPresent
  /\ CanAutoRetry(snap.scenes[cur])
  /\ Save(Update(SetScene(snap, cur, ClearForRepair(snap.scenes[cur])),
                 cur, "Waiting"))
  /\ Requeue
  /\ UNCHANGED running /\ History

ManualReview ==
  /\ pc = "rejected"
  /\ Save(snap)
  /\ Done("loop")
  /\ UNCHANGED running /\ History

\* After acceptance the next direct scene gets its start frame.
Propagate ==
  /\ pc = "accepted"
  /\ IF AutoContinuity /\ disk.scenes[cur].take # 0 /\ cur + 1 \in Direct
     THEN Save(CompileImagePlans(disk)) ELSE NoSave
  /\ Done("loop")
  /\ UNCHANGED running /\ History

(***************************************************************************)
(* Specification.                                                          *)
(***************************************************************************)
Worker ==
  \/ Exit \/ Take \/ Gone
  \/ BlockOnContract \/ DeferToPredecessor \/ BlockOnDependency \/ Prepare
  \/ RefsApproved \/ RefsRejected \/ RefsError
  \/ CountAttempt \/ Generate
  \/ Generated \/ GenerateError \/ ProviderUnavailable \/ MarkQC
  \/ QCAccepts \/ QCRejects \/ QCError \/ RetryRepair \/ ManualReview
  \/ Propagate

Next ==
  \/ \E ids \in SUBSET Scenes, force \in BOOLEAN : Enqueue(ids, force)
  \/ Pause \/ Resume \/ Delete \/ Crash
  \/ Worker

Spec == Init /\ [][Next]_vars

\* The event loop runs every ready task, and the reference manager, the
\* provider and the QC, which bound every wait with a timeout, all answer
\* or raise.
FairSpec == Spec /\ WF_vars(Worker)

(***************************************************************************)
(* Types.                                                                  *)
(***************************************************************************)
TypeOK ==
  /\ exists \in BOOLEAN
  /\ disk \in ProjectRecord
  /\ queue \in Seq(Scenes)
  /\ queuedIds \subseteq Scenes
  /\ pc \in Atomic \cup Suspended
  /\ cur \in Scenes \cup {0}
  /\ snap \in ProjectRecord \cup {NoValue}
  /\ given \in Given
  /\ running \in BOOLEAN
  /\ made \in [Scenes -> Nat] /\ burst \in [Scenes -> Nat]
  /\ ops \in 0..MaxOps

(***************************************************************************)
(* Safety.                                                                 *)
(***************************************************************************)
InQueue == {queue[i] : i \in 1..Len(queue)}

\* _queued_ids is exactly what waits in the queue plus what the worker
\* holds, and no id waits twice: the set that enqueue() consults to avoid
\* rendering a scene twice never drifts from the queue it stands for, on
\* any path out of the worker's loop (return, continue, requeue, exception).
QueuedIdsExact ==
  /\ queuedIds = InQueue \cup ({cur} \ {0})
  /\ cur \notin InQueue
  /\ \A i, j \in 1..Len(queue) : queue[i] = queue[j] => i = j

\* Queued work always has a live worker task, so a request cannot be left
\* behind by a worker that was just finishing when it arrived.
NoWorkWithoutWorker == exists /\ queue # <<>> => pc # "none"

\* One user request costs at most MAX_AUTO_RENDER_ATTEMPTS provider calls
\* per scene, however pauses, further requests and restarts fall.
RetryBudget == \A s \in Scenes : burst[s] <= MaxAuto

\* An attempt is on disk before its provider call is made and no stale save
\* of the worker takes it back, so a restart cannot forget a paid call.
AttemptCountedFirst ==
  exists => \A s \in Scenes : burst[s] <= disk.scenes[s].attempt

\* The project never says Ready for the merge while the gate would refuse
\* one of its scenes.
ReadyMeansAllReady ==
  exists /\ disk.final = "Ready" => \A s \in Scenes : ProductionReady(disk, s)

\* The demo provider yields no file, so whatever the QC says of its takes
\* the final merge never opens on them.
DemoNeverMerges == exists /\ Mock(disk) => disk.final # "Ready"

(***************************************************************************)
(* Action properties.                                                      *)
(***************************************************************************)
\* What the worker is doing when the stored status of s is the truth.
TrueStage(s) ==
  LET st == disk.scenes[s].status IN
  /\ st = "Preparing" =>
       s = cur /\ pc \in {"masters", "refs", "wait2", "woken2", "render", "counted"}
  /\ st = "Generating" => s = cur /\ pc \in {"gen", "refused", "saved"}
  /\ st = "QC" => s = cur /\ pc \in {"qc", "judge"}

\* A scene is stored as in flight only while the worker is at that very
\* stage of it: the statuses that the edit guard of the service and
\* enqueue() trust stay the truth whatever the users and the worker do.
\* Only the death of the process leaves one behind.
StatusesStayTrue ==
  [][~Crash /\ exists' =>
       \A s \in Scenes : TrueStage(s) => TrueStage(s)']_vars

\* A request that is answered with success leaves every requested scene in
\* the hands of the queue, but for those that the death of the process left in
\* flight: while the worker renders another scene these are passed over
\* (enqueue).
RequestTaken ==
  [][ops' # ops =>
       \A ids \in SUBSET Scenes, force \in BOOLEAN :
         Enqueue(ids, force) =>
           \A s \in Requested(ids) \ queuedIds' :
             disk.scenes[s].status \in InFlight /\ ~TrueStage(s)]_vars

\* The worker lets go of a scene only with a final verdict on disk: no
\* path through the loop drops a scene while it still shows Waiting or a
\* stage of rendering.
LeavesWithVerdict ==
  [][exists' /\ pc' # "none" =>
       \A s \in queuedIds \ queuedIds' : disk'.scenes[s].status \in Settled]_vars

\* At the moment a direct scene is accepted, the take its continuity was
\* judged against, and for an anchored scene the frame it was rendered
\* from, is the take its predecessor has in the same saved document, although
\* the predecessor could be enqueued again at any point of the rendering.
AcceptedAgainstCurrentFrame ==
  [][pc' = "accepted" /\ cur \in Direct /\ ~Mock(disk') =>
       LET c == disk'.scenes[cur]
           before == disk'.scenes[cur - 1]
       IN /\ before.take # 0 /\ c.anchor = before.take
          /\ cur \in Anchored => c.start = before.take]_vars

(***************************************************************************)
(* Liveness.                                                               *)
(***************************************************************************)
\* A queued scene leaves the queue with a verdict unless the user pauses
\* or deletes the project: deferring to a predecessor is never forever.
QueuedIsProcessed ==
  \A s \in Scenes :
    s \in queuedIds ~> (s \notin queuedIds \/ ~running \/ ~exists)

(***************************************************************************)
(* What the repository says and the code does not keep.                    *)
(***************************************************************************)
\* README: the accepted end frame of the previous scene is the physical
\* start-frame anchor of a direct scene.
AnchorsAreCurrent ==
  exists => \A s \in Anchored :
    ProductionReady(disk, s) /\ ProductionReady(disk, s - 1)
      => disk.scenes[s].start = disk.scenes[s - 1].take

\* The dependency test of the test suite: no provider call for a direct scene
\* whose predecessor is not accepted.
NoCallBeforePredecessor ==
  [][pc = "counted" /\ pc' = "gen" /\ cur \in Direct
       => ProductionReady(disk, cur - 1)]_vars
=============================================================================
