------------------------ MODULE RenderQueue_proofs -------------------------
(***************************************************************************)
(* Safety of the render queue for every number of scenes, every set of     *)
(* direct and anchored scenes, every bound and every setting: the types,   *)
(* the set _queued_ids that is exactly the queue and the scene in hand,    *)
(* queued work that has a worker, a project that says Ready and passes the *)
(* production gate; and what a request is promised: the budget of calls,   *)
(* a verdict for what leaves the queue, stages that are true, a frame that *)
(* is current, and demo takes that never make a film.                      *)
(***************************************************************************)
EXTENDS RenderQueue, FiniteSetTheorems, SequenceTheorems, FunctionTheorems, TLAPS

(***************************************************************************)
(* The functions of SceneModel return project documents.                   *)
(***************************************************************************)
LEMMA RefreshType ==
  ASSUME NEW p \in ProjectRecord
  PROVE  RefreshFinal(p) \in ProjectRecord
  BY DEF RefreshFinal, ProjectRecord, FinalStatus

LEMMA StatusType ==
  ASSUME NEW c \in SceneRecord, NEW st \in Status
  PROVE  [c EXCEPT !.status = st] \in SceneRecord
  BY DEF SceneRecord

LEMMA ScenesType ==
  ASSUME NEW p \in ProjectRecord, NEW f \in [Scenes -> SceneRecord]
  PROVE  [p EXCEPT !.scenes = f] \in ProjectRecord
  BY DEF ProjectRecord

LEMMA SceneOfProject ==
  ASSUME NEW p \in ProjectRecord
  PROVE  /\ p.scenes \in [Scenes -> SceneRecord]
         /\ \A s \in Scenes : p.scenes[s] \in SceneRecord
         /\ p.refs \in BOOLEAN /\ p.refsQC \in VisionModels \cup {NoValue}
         /\ p.master \in Nat
         /\ p.video \in VideoModels /\ p.vision \in VisionModels
  BY DEF ProjectRecord

LEMMA RelabelType ==
  ASSUME NEW p \in ProjectRecord, NEW a \in Status, NEW b \in Status
  PROVE  Relabel(p, a, b) \in ProjectRecord
  <1>1. [s \in Scenes |-> IF p.scenes[s].status = a
                          THEN [p.scenes[s] EXCEPT !.status = b]
                          ELSE p.scenes[s]] \in [Scenes -> SceneRecord]
    BY SceneOfProject, StatusType
  <1> QED BY <1>1, ScenesType DEF Relabel

LEMMA ClearType ==
  ASSUME NEW c \in SceneRecord, NEW force \in BOOLEAN
  PROVE  ClearForEnqueue(c, force) \in SceneRecord
  BY DEF ClearForEnqueue, SceneRecord, Status, Acceptance, Evidence

LEMMA SetSceneType ==
  ASSUME NEW p \in ProjectRecord, NEW s \in Scenes, NEW c \in SceneRecord
  PROVE  SetScene(p, s, c) \in ProjectRecord
  BY DEF SetScene, ProjectRecord

LEMMA UpdateType ==
  ASSUME NEW p \in ProjectRecord, NEW s \in Scenes, NEW st \in Status
  PROVE  Update(p, s, st) \in ProjectRecord
  <1>1. [p.scenes[s] EXCEPT !.status = st] \in SceneRecord
    BY SceneOfProject, StatusType
  <1>2. SetScene(p, s, [p.scenes[s] EXCEPT !.status = st]) \in ProjectRecord
    BY <1>1, SetSceneType
  <1>3. [p EXCEPT !.scenes[s].status = st] =
          SetScene(p, s, [p.scenes[s] EXCEPT !.status = st])
    BY DEF SetScene
  <1> QED BY <1>2, <1>3, RefreshType DEF Update

LEMMA PlanType ==
  ASSUME NEW c \in SceneRecord, NEW n \in Nat, NEW b \in {"Ready", "Blocked"}
  PROVE  [c EXCEPT !.source = n, !.plan = b] \in SceneRecord
  BY DEF SceneRecord

LEMMA CompileType ==
  ASSUME NEW p \in ProjectRecord
  PROVE  CompileImagePlans(p) \in ProjectRecord
  <1>1. \A s \in Scenes : BestPreviousEndFrame(p, s) \in Nat
    <2> SUFFICES ASSUME NEW s \in Scenes PROVE BestPreviousEndFrame(p, s) \in Nat
      OBVIOUS
    <2>1. s \in Anchored => s - 1 \in Scenes
      BY SceneAssumption DEF Scenes
    <2> QED BY <2>1 DEF BestPreviousEndFrame, ProjectRecord, SceneRecord
  <1> DEFINE planned(s) ==
        [p.scenes[s] EXCEPT
           !.source = BestPreviousEndFrame(p, s),
           !.plan = IF p.refs /\ (s \in Anchored => BestPreviousEndFrame(p, s) # 0)
                    THEN "Ready" ELSE "Blocked"]
  <1>2. \A s \in Scenes : planned(s) \in SceneRecord
    BY <1>1, SceneOfProject, PlanType
  <1>3. CompileImagePlans(p) = [p EXCEPT !.scenes = [s \in Scenes |-> planned(s)]]
    BY DEF CompileImagePlans
  <1> HIDE DEF planned
  <1>4. [s \in Scenes |-> planned(s)] \in [Scenes -> SceneRecord]
    BY <1>2
  <1> QED BY <1>3, <1>4, ScenesType

LEMMA AccType ==
  ASSUME NEW p \in ProjectRecord, NEW s \in Scenes, NEW a \in Acceptance
  PROVE  SetScene(p, s, [p.scenes[s] EXCEPT !.acc = a]) \in ProjectRecord
  <1>1. [p.scenes[s] EXCEPT !.acc = a] \in SceneRecord
    BY SceneOfProject DEF SceneRecord
  <1> QED BY <1>1, SetSceneType

(***************************************************************************)
(* The ids a request adds.                                                 *)
(***************************************************************************)
LEMMA EnqueuedType ==
  ASSUME NEW ids \in SUBSET Scenes
  PROVE  /\ Enqueued(ids) \subseteq Scenes
         /\ Cardinality(Enqueued(ids)) \in Nat
  <1>1. Enqueued(ids) \subseteq Scenes
    BY DEF Enqueued, Requested
  <1>2. IsFiniteSet(Scenes)
    BY SceneAssumption, FS_Interval DEF Scenes
  <1>3. IsFiniteSet(Enqueued(ids))
    BY <1>1, <1>2, FS_Subset
  <1> QED BY <1>1, <1>3, FS_CardinalityType

LEMMA OrderingType ==
  ASSUME NEW ids \in SUBSET Scenes, NEW q \in Orderings(Enqueued(ids))
  PROVE  /\ q \in Seq(Scenes)
         /\ Len(q) = Cardinality(Enqueued(ids))
         /\ \A i \in 1..Len(q) : q[i] \in Enqueued(ids)
         /\ \A i, j \in 1..Len(q) : q[i] = q[j] => i = j
  <1> DEFINE S == Enqueued(ids)
             n == Cardinality(S)
  <1>1. n \in Nat /\ S \subseteq Scenes
    BY EnqueuedType
  <1>2. q \in [1..n -> S] /\ \A i, j \in 1..n : i < j => q[i] < q[j]
    BY DEF Orderings
  <1> HIDE DEF S, n
  <1>3. q \in Seq(Scenes) /\ Len(q) = n
    BY <1>1, <1>2
  <1>4. \A i \in 1..n : q[i] \in S /\ q[i] \in Nat
    <2>1. Scenes \subseteq Nat
      BY SceneAssumption DEF Scenes
    <2>2. \A i \in 1..n : q[i] \in S
      BY <1>2
    <2> QED BY <1>1, <2>1, <2>2
  <1>5. \A i, j \in 1..n : q[i] = q[j] => i = j
    <2> SUFFICES ASSUME NEW i \in 1..n, NEW j \in 1..n, q[i] = q[j], i # j
                 PROVE  FALSE
      OBVIOUS
    <2>1. i < j \/ j < i
      BY <1>1
    <2> QED BY <2>1, <1>2, <1>4
  <1> QED BY <1>3, <1>4, <1>5 DEF S, n

(***************************************************************************)
(* Type correctness.  TypeOK alone is not inductive: the worker indexes    *)
(* the document with cur and saves snap, so where it holds an id and where *)
(* it holds a snapshot must be carried along.                              *)
(***************************************************************************)
HoldsNothing == {"none", "start", "loop"}
HoldsSnapshot == {"masters", "refs", "qc", "judge", "rejected"}

ControlOK ==
  /\ cur = 0 <=> pc \in HoldsNothing
  /\ pc \in HoldsSnapshot => snap \in ProjectRecord

TypeInv == TypeOK /\ ControlOK

LEMMA FreshType ==
  ASSUME NEW v \in VideoModels, NEW w \in VisionModels,
         NEW refsQC \in VisionModels \cup {NoValue},
         NEW before \in [Scenes -> WorldStates], NEW after \in [Scenes -> WorldStates],
         NEW opened \in SUBSET Scenes
  PROVE  FreshProject(v, w, refsQC, before, after, opened) \in ProjectRecord
  <1>1. \A a, b \in WorldStates, k \in BOOLEAN : FreshScene(a, b, k) \in SceneRecord
    BY DEF FreshScene, SceneRecord, Status, Acceptance, Evidence
  <1> DEFINE p == [scenes |-> [s \in Scenes |->
                                 FreshScene(before[s], after[s], s \notin opened)],
                   final |-> "NotReady", refs |-> TRUE, refsQC |-> refsQC, master |-> 1,
                   video |-> v, vision |-> w]
  <1>2. [s \in Scenes |-> FreshScene(before[s], after[s], s \notin opened)]
         \in [Scenes -> SceneRecord]
    BY <1>1
  <1>3. p \in ProjectRecord
    BY <1>2 DEF ProjectRecord, FinalStatus
  <1> HIDE DEF p
  <1>4. CompileImagePlans(p) \in ProjectRecord
    BY <1>3, CompileType
  <1> QED BY <1>4 DEF FreshProject, p

LEMMA RenderedSceneType ==
  ASSUME NEW s \in Scenes, NEW v \in VideoModels, NEW w \in VisionModels,
         NEW a \in WorldStates, NEW b \in WorldStates
  PROVE  RenderedScene(s, v, w, a, b) \in SceneRecord
  <1>1. FreshScene(a, b, TRUE) \in SceneRecord
    BY DEF FreshScene, SceneRecord, Status, Acceptance, Evidence
  <1> DEFINE n == IF s \in Anchored THEN 1 ELSE 0
             m == IF HasPrevious(s) THEN 1 ELSE 0
  <1>2. n \in Nat /\ m \in Nat
    OBVIOUS
  <1> HIDE DEF n, m
  <1> DEFINE c == FreshScene(a, b, TRUE)
  <1> HIDE DEF c
  <1>3. [c EXCEPT
           !.status = "Accepted", !.acc = "Accepted", !.attempt = 1, !.take = 1,
           !.start = n, !.anchor = m, !.qc = "Passed", !.renderModel = v,
           !.qcModel = w, !.committed = b, !.takeText = 1, !.takeMaster = 1]
          \in SceneRecord
    BY <1>1, <1>2 DEF c, SceneRecord, Status, Acceptance, Evidence
  <1> QED BY <1>3 DEF RenderedScene, c, n, m

LEMMA RenderedType ==
  ASSUME NEW v \in VideoModels, NEW w \in VisionModels,
         NEW before \in [Scenes -> WorldStates], NEW after \in [Scenes -> WorldStates]
  PROVE  RenderedProject(v, w, before, after) \in ProjectRecord
  <1> DEFINE scenes == [s \in Scenes |-> RenderedScene(s, v, w, before[s], after[s])]
             p == [scenes |-> scenes, final |-> "NotReady", refs |-> TRUE,
                   refsQC |-> w, master |-> 1, video |-> v, vision |-> w]
  <1>1. \A s \in Scenes, a, b \in WorldStates :
          RenderedScene(s, v, w, a, b) \in SceneRecord
    BY RenderedSceneType
  <1>2. scenes \in [Scenes -> SceneRecord]
    BY <1>1
  <1> HIDE DEF scenes
  <1>3. p \in ProjectRecord
    BY <1>2 DEF ProjectRecord, FinalStatus
  <1> HIDE DEF p
  <1>4. RefreshFinal(CompileImagePlans(p)) \in ProjectRecord
    BY <1>3, CompileType, RefreshType
  <1> QED BY <1>4 DEF RenderedProject, p, scenes

LEMMA TypeInit == Init => TypeInv
  <1> SUFFICES ASSUME Init PROVE TypeInv
    OBVIOUS
  <1>1. PICK v \in VideoModels, w \in VisionModels,
             before \in [Scenes -> WorldStates], after \in [Scenes -> WorldStates] :
          \/ \E opened \in SUBSET Scenes, refsQC \in {w, NoValue} :
               disk = FreshProject(v, w, refsQC, before, after, opened)
          \/ disk = RenderedProject(v, w, before, after)
    BY DEF Init, DocumentInit
  <1>2. disk \in ProjectRecord
    BY <1>1, FreshType, RenderedType
  <1>3. queue \in Seq(Scenes)
    BY DEF Init
  <1>4. made \in [Scenes -> Nat]
    BY <1>2, SceneOfProject DEF Init, SceneRecord
  <1>5. /\ given \in Given
        /\ burst \in [Scenes -> Nat]
        /\ ops \in 0..MaxOps
    BY DocumentAssumption DEF Init, DocumentInit, Nothing, Given
  <1> QED
    BY <1>2, <1>3, <1>4, <1>5, DocumentAssumption
    DEF Init, DocumentInit, TypeInv, TypeOK, ControlOK, HoldsNothing, HoldsSnapshot, Suspended

\* What the worker's return, continue and exception paths do to the types.
LEMMA DoneType ==
  ASSUME TypeInv, NEW next \in {"loop", "none"}, Done(next)
  PROVE  /\ queue' \in Seq(Scenes) /\ queuedIds' \subseteq Scenes
         /\ pc' = next /\ cur' = 0 /\ snap' = NoValue /\ given' \in Given
  BY DEF TypeInv, TypeOK, Done, Nothing, Given

LEMMA RequeueType ==
  ASSUME TypeInv, cur \in Scenes, Requeue
  PROVE  /\ queue' \in Seq(Scenes) /\ queuedIds' \subseteq Scenes
         /\ pc' = "loop" /\ cur' = 0 /\ snap' = NoValue /\ given' \in Given
  <1>1. Append(queue, cur) \in Seq(Scenes)
    BY DEF TypeInv, TypeOK
  <1> QED BY <1>1 DEF TypeInv, TypeOK, Requeue, Nothing, Given

LEMMA ContainedType ==
  ASSUME TypeInv, cur \in Scenes, NEW st \in Status, NEW a \in Acceptance,
         Contained(st, a)
  PROVE  exists' \in BOOLEAN /\ disk' \in ProjectRecord /\ Done("loop")
  <1>1. Update(SetScene(disk, cur, [disk.scenes[cur] EXCEPT !.acc = a]), cur, st)
          \in ProjectRecord
    BY AccType, UpdateType DEF TypeInv, TypeOK
  <1> QED BY <1>1 DEF TypeInv, TypeOK, Contained, Save, NoSave

LEMMA TypeEnqueue ==
  ASSUME TypeInv, NEW ids \in SUBSET Scenes, NEW force \in BOOLEAN, Enqueue(ids, force)
  PROVE  TypeInv'
  <1> DEFINE cleared == [s \in Scenes |->
                IF s \in Enqueued(ids) THEN ClearForEnqueue(disk.scenes[s], force)
                ELSE disk.scenes[s]]
             fin == IF Requested(ids) = {} THEN disk.final ELSE "NotReady"
  <1>1. disk \in ProjectRecord /\ disk.final \in FinalStatus
    BY DEF TypeInv, TypeOK, ProjectRecord
  <1>2. cleared \in [Scenes -> SceneRecord]
    BY <1>1, SceneOfProject, ClearType
  <1>3. disk' = [disk EXCEPT !.scenes = cleared, !.final = fin] /\ exists' = TRUE
    BY DEF Enqueue, Save
  <1>4. fin \in FinalStatus
    BY <1>1 DEF FinalStatus
  <1> HIDE DEF cleared, fin
  <1>5. disk' \in ProjectRecord
    BY <1>1, <1>2, <1>3, <1>4 DEF ProjectRecord
  <1>6. queue' \in Seq(Scenes)
    <2>1. PICK added \in Orderings(Enqueued(ids)) : queue' = queue \o added
      BY DEF Enqueue
    <2>2. added \in Seq(Scenes)
      BY OrderingType
    <2> QED BY <2>1, <2>2 DEF TypeInv, TypeOK
  <1>7. queuedIds' \subseteq Scenes
    BY EnqueuedType DEF Enqueue, TypeInv, TypeOK
  <1>8. ops' \in 0..MaxOps
    BY DocumentAssumption DEF Enqueue, Operation, TypeInv, TypeOK
  <1>9. burst' \in [Scenes -> Nat]
    BY DEF Enqueue, TypeInv, TypeOK
  <1>10. /\ pc' \in Atomic \cup Suspended
         /\ pc' \in HoldsNothing <=> pc \in HoldsNothing
         /\ pc' \in HoldsSnapshot => pc \in HoldsSnapshot
    BY DEF Enqueue, StartWorker, TypeInv, TypeOK, Suspended, Atomic, HoldsNothing, HoldsSnapshot
  <1>11. UNCHANGED <<cur, snap, given, running, made>>
    BY DEF Enqueue
  <1> QED
    BY <1>3, <1>5, <1>6, <1>7, <1>8, <1>9, <1>10, <1>11 DEF TypeInv, TypeOK, ControlOK

LEMMA TypeControls ==
  ASSUME TypeInv, Pause \/ Resume \/ Delete \/ Crash
  PROVE  TypeInv'
  <1>1. CASE Pause
    <2>1. disk' \in ProjectRecord /\ exists' = TRUE
      BY <1>1, RelabelType DEF Pause, Save, TypeInv, TypeOK, Status
    <2>2. ops' \in 0..MaxOps
      BY <1>1, DocumentAssumption DEF Pause, Operation, TypeInv, TypeOK
    <2> QED BY <1>1, <2>1, <2>2 DEF Pause, TypeInv, TypeOK, ControlOK
  <1>2. CASE Resume
    <2>1. disk' \in ProjectRecord /\ exists' = TRUE
      BY <1>2, RelabelType DEF Resume, Save, TypeInv, TypeOK, Status
    <2>2. /\ pc' \in Atomic \cup Suspended
          /\ pc' \in HoldsNothing <=> pc \in HoldsNothing
          /\ pc' \in HoldsSnapshot <=> pc \in HoldsSnapshot
      BY <1>2 DEF Resume, TypeInv, TypeOK, Atomic, Suspended, HoldsNothing, HoldsSnapshot
    <2> QED BY <1>2, <2>1, <2>2 DEF Resume, TypeInv, TypeOK, ControlOK
  <1>3. CASE Delete
    <2>1. ops' \in 0..MaxOps
      BY <1>3, DocumentAssumption DEF Delete, Operation, TypeInv, TypeOK
    <2> QED BY <1>3, <2>1 DEF Delete, memory, TypeInv, TypeOK, ControlOK
  <1>4. CASE Crash
    <2>1. ops' \in 0..MaxOps
      BY <1>4, DocumentAssumption DEF Crash, Operation, TypeInv, TypeOK
    <2>2. /\ queue' \in Seq(Scenes) /\ queuedIds' \subseteq Scenes
          /\ pc' = "none" /\ cur' = 0 /\ snap' = NoValue /\ given' \in Given
          /\ running' = TRUE
      BY <1>4 DEF Crash, Forget, Nothing, Given
    <2> QED BY <1>4, <2>1, <2>2
        DEF Crash, TypeInv, TypeOK, ControlOK, HoldsNothing, HoldsSnapshot, Suspended
  <1> QED BY <1>1, <1>2, <1>3, <1>4

\* An id is in hand at every place of the worker but the head of its loop.
LEMMA HoldsId ==
  ASSUME TypeInv, pc \notin HoldsNothing
  PROVE  cur \in Scenes
  BY DEF TypeInv, TypeOK, ControlOK

LEMMA TypeTake ==
  ASSUME TypeInv, Exit \/ Take \/ Gone \/ DeferToPredecessor
  PROVE  TypeInv'
  <1>1. CASE Exit
    BY <1>1 DEF Exit, History, AtHead, TypeInv, TypeOK, ControlOK, HoldsNothing,
                HoldsSnapshot, Suspended
  <1>2. CASE Take
    <2>1. Head(queue) \in Scenes /\ Tail(queue) \in Seq(Scenes)
      BY <1>2 DEF Take, TypeInv, TypeOK
    <2>2. 0 \notin Scenes
      BY DEF Scenes
    <2>3. /\ cur' \in Scenes /\ queue' \in Seq(Scenes)
          /\ pc' \in {"begin", "wait1"}
          /\ UNCHANGED <<exists, disk, queuedIds, snap, given, running, made, burst, ops>>
      BY <1>2, <2>1 DEF Take, History
    <2> QED BY <2>2, <2>3
        DEF TypeInv, TypeOK, ControlOK, HoldsNothing, HoldsSnapshot, Atomic, Suspended
  <1>3. CASE Gone
    <2>1. Done("none") /\ UNCHANGED <<exists, disk, running, made, burst, ops>>
      BY <1>3 DEF Gone, History
    <2> QED BY <2>1, DoneType
        DEF TypeInv, TypeOK, ControlOK, HoldsNothing, HoldsSnapshot, Suspended
  <1>4. CASE DeferToPredecessor
    <2>1. Requeue /\ UNCHANGED <<exists, disk, running, made, burst, ops>>
      BY <1>4 DEF DeferToPredecessor, History
    <2>2. cur \in Scenes
      BY <1>4, HoldsId DEF DeferToPredecessor, Begins, HoldsNothing
    <2> QED BY <2>1, <2>2, RequeueType
        DEF TypeInv, TypeOK, ControlOK, HoldsNothing, HoldsSnapshot, Atomic
  <1> QED BY <1>1, <1>2, <1>3, <1>4

ContainedStep ==
  \/ BlockOnContract \/ BlockOnDependency \/ RefsError \/ GenerateError
  \/ ProviderUnavailable \/ QCError

LEMMA ContainedStepDoes ==
  ASSUME ContainedStep
  PROVE  /\ Contained("Blocked", "Blocked") \/ Contained("Failed", "Rejected")
         /\ pc \notin HoldsNothing
         /\ UNCHANGED <<running, made, burst, ops>>
  <1>1. CASE BlockOnContract
    BY <1>1 DEF BlockOnContract, Begins, HoldsNothing, History
  <1>2. CASE BlockOnDependency
    BY <1>2 DEF BlockOnDependency, Begins, HoldsNothing, History
  <1>3. CASE RefsError
    BY <1>3 DEF RefsError, HoldsNothing, History
  <1>4. CASE GenerateError
    BY <1>4 DEF GenerateError, HoldsNothing, History
  <1>5. CASE ProviderUnavailable
    BY <1>5 DEF ProviderUnavailable, HoldsNothing, History
  <1>6. CASE QCError
    BY <1>6 DEF QCError, HoldsNothing, History
  <1> QED BY <1>1, <1>2, <1>3, <1>4, <1>5, <1>6 DEF ContainedStep

\* The paths that end in an except clause or in a Blocked verdict.
LEMMA TypeContained ==
  ASSUME TypeInv, ContainedStep
  PROVE  TypeInv'
  <1>1. /\ Contained("Blocked", "Blocked") \/ Contained("Failed", "Rejected")
        /\ UNCHANGED <<running, made, burst, ops>>
    BY ContainedStepDoes
  <1>2. cur \in Scenes
    BY ContainedStepDoes, HoldsId
  <1>3. exists' \in BOOLEAN /\ disk' \in ProjectRecord /\ Done("loop")
    <2>1. CASE Contained("Blocked", "Blocked")
      BY <1>2, <2>1, ContainedType DEF Status, Acceptance
    <2>2. CASE Contained("Failed", "Rejected")
      BY <1>2, <2>2, ContainedType DEF Status, Acceptance
    <2> QED BY <1>1, <2>1, <2>2
  <1>4. Done("loop")
    BY <1>3
  <1> QED BY <1>1, <1>3, <1>4, DoneType
      DEF TypeInv, TypeOK, ControlOK, HoldsNothing, HoldsSnapshot, Atomic

\* Actions that save a document and keep the id in hand.
LEMMA TypePrepare ==
  ASSUME TypeInv, Prepare
  PROVE  TypeInv'
  <1>1. cur \in Scenes
    BY HoldsId DEF Prepare, Begins, HoldsNothing
  <1>2. Update(disk, cur, "Preparing") \in ProjectRecord
    BY <1>1, UpdateType DEF TypeInv, TypeOK, Status
  <1>3. /\ disk' \in ProjectRecord /\ snap' \in ProjectRecord /\ exists' = TRUE
        /\ pc' \in {"masters", "refs"}
        /\ UNCHANGED <<queue, queuedIds, cur, given, running, made, burst, ops>>
    BY <1>2 DEF Prepare, Save, History
  <1>4. pc \notin HoldsNothing
    BY DEF Prepare, Begins, HoldsNothing
  <1> QED BY <1>3, <1>4 DEF TypeInv, TypeOK, ControlOK, HoldsNothing, Suspended, Atomic

LEMMA EnsureType ==
  ASSUME NEW p \in ProjectRecord
  PROVE  EnsureMasters(p) \in ProjectRecord
  <1> DEFINE n == IF p.refs /\ p.refsQC # NoValue THEN p.master ELSE p.master + MaxOps + 2
  <1>1. p.master \in Nat /\ p.vision \in VisionModels
    BY SceneOfProject
  <1>2. n \in Nat
    BY <1>1, DocumentAssumption
  <1>3. EnsureMasters(p) = [p EXCEPT !.refs = TRUE, !.refsQC = p.vision, !.master = n]
    BY DEF EnsureMasters, ProjectRecord
  <1> HIDE DEF n
  <1> QED BY <1>1, <1>2, <1>3 DEF ProjectRecord

LEMMA TypeRefsApproved ==
  ASSUME TypeInv, RefsApproved
  PROVE  TypeInv'
  <1>1. snap \in ProjectRecord /\ pc \notin HoldsNothing
    BY DEF RefsApproved, TypeInv, ControlOK, HoldsSnapshot, HoldsNothing
  <1>2. EnsureMasters(snap) \in ProjectRecord
    BY <1>1, EnsureType
  <1>3. CompileImagePlans(EnsureMasters(snap)) \in ProjectRecord
    BY <1>2, CompileType
  <1>4. /\ disk' \in ProjectRecord /\ snap' = NoValue /\ exists' = TRUE
        /\ pc' \in {"render", "wait2"}
        /\ UNCHANGED <<queue, queuedIds, cur, given, running, made, burst, ops>>
    BY <1>3 DEF RefsApproved, Save, History
  <1> QED BY <1>1, <1>4
      DEF TypeInv, TypeOK, ControlOK, HoldsNothing, HoldsSnapshot, Suspended, Atomic

LEMMA RejectedType ==
  ASSUME NEW p \in ProjectRecord, NEW s \in Scenes
  PROVE  [p EXCEPT !.refs = FALSE, !.refsQC = NoValue,
                   !.scenes[s].acc = "Blocked"] \in ProjectRecord
  <1> DEFINE q == SetScene(p, s, [p.scenes[s] EXCEPT !.acc = "Blocked"])
             r == [p EXCEPT !.refs = FALSE, !.refsQC = NoValue, !.scenes[s].acc = "Blocked"]
  <1>1. q \in ProjectRecord
    BY AccType DEF Acceptance
  <1>2. r = [q EXCEPT !.refs = FALSE, !.refsQC = NoValue]
    BY DEF SetScene, ProjectRecord
  <1> HIDE DEF q, r
  <1>3. r \in ProjectRecord
    BY <1>1, <1>2 DEF ProjectRecord
  <1> QED BY <1>3 DEF r

LEMMA TypeRefsRejected ==
  ASSUME TypeInv, RefsRejected
  PROVE  TypeInv'
  <1>1. snap \in ProjectRecord /\ cur \in Scenes
    BY HoldsId DEF RefsRejected, TypeInv, ControlOK, HoldsSnapshot, HoldsNothing
  <1>2. Update([snap EXCEPT !.refs = FALSE, !.refsQC = NoValue,
                            !.scenes[cur].acc = "Blocked"], cur, "Blocked")
          \in ProjectRecord
    BY <1>1, RejectedType, UpdateType DEF Status
  <1>3. /\ disk' \in ProjectRecord /\ exists' = TRUE /\ Done("loop")
        /\ UNCHANGED <<running, made, burst, ops>>
    BY <1>2 DEF RefsRejected, Save, History
  <1> QED BY <1>3, DoneType
      DEF TypeInv, TypeOK, ControlOK, HoldsNothing, HoldsSnapshot, Atomic

LEMMA TypeCountAttempt ==
  ASSUME TypeInv, CountAttempt
  PROVE  TypeInv'
  <1>1. cur \in Scenes /\ pc \notin HoldsNothing
    BY HoldsId DEF CountAttempt, Renders, HoldsNothing
  <1>2. disk.scenes[cur] \in SceneRecord
    BY <1>1, SceneOfProject DEF TypeInv, TypeOK
  <1> DEFINE c == [disk.scenes[cur] EXCEPT !.attempt = @ + 1]
  <1>3. c \in SceneRecord
    BY <1>2 DEF SceneRecord
  <1>4. SetScene(disk, cur, c) \in ProjectRecord
    BY <1>1, <1>3, SetSceneType DEF TypeInv, TypeOK
  <1>5. [disk EXCEPT !.scenes[cur].attempt = @ + 1] = SetScene(disk, cur, c)
    BY DEF SetScene
  <1>6. /\ disk' \in ProjectRecord /\ exists' = TRUE /\ pc' = "counted"
        /\ UNCHANGED <<queue, queuedIds, cur, snap, given, running, made, burst, ops>>
    BY <1>4, <1>5 DEF CountAttempt, Save, History
  <1> QED BY <1>1, <1>6
      DEF TypeInv, TypeOK, ControlOK, HoldsNothing, HoldsSnapshot, Atomic

LEMMA TypeGenerate ==
  ASSUME TypeInv, Generate
  PROVE  TypeInv'
  <1>1. cur \in Scenes /\ pc \notin HoldsNothing
    BY HoldsId DEF Generate, HoldsNothing
  <1>2. Update(disk, cur, "Generating") \in ProjectRecord
    BY <1>1, UpdateType DEF TypeInv, TypeOK, Status
  <1>3. Bound(disk, cur) \in Given
    BY <1>1 DEF Bound, Mock, Given, TypeInv, TypeOK, ProjectRecord, SceneRecord
  <1>4. made' \in [Scenes -> Nat] /\ burst' \in [Scenes -> Nat]
    BY <1>1 DEF Generate, TypeInv, TypeOK
  <1>5. /\ disk' \in ProjectRecord /\ exists' = TRUE /\ given' \in Given
        /\ pc' \in {"refused", "gen"}
        /\ UNCHANGED <<queue, queuedIds, cur, snap, running, ops>>
    BY <1>2, <1>3 DEF Generate, Save
  <1> QED BY <1>1, <1>4, <1>5
      DEF TypeInv, TypeOK, ControlOK, HoldsNothing, HoldsSnapshot, Suspended

LEMMA TakeFieldsType ==
  ASSUME NEW c \in SceneRecord, NEW take \in Nat,
         NEW start \in Nat, NEW text \in Nat, NEW master \in Nat
  PROVE  [c EXCEPT !.take = take, !.start = start, !.takeText = text,
                   !.takeMaster = master] \in SceneRecord
  BY DEF SceneRecord

LEMMA TypeGenerated ==
  ASSUME TypeInv, Generated
  PROVE  TypeInv'
  <1>1. cur \in Scenes /\ pc \notin HoldsNothing
    BY HoldsId DEF Generated, HoldsNothing
  <1>2. disk \in ProjectRecord /\ disk.scenes[cur] \in SceneRecord /\ given \in Given
        /\ made[cur] \in Nat
    BY <1>1, SceneOfProject DEF TypeInv, TypeOK
  <1>3. PICK take \in {0, made[cur]} :
          disk' = SetScene(disk, cur, WithTake(disk.scenes[cur], take)) /\ exists' = TRUE
    BY DEF Generated, Save
  <1>4. take \in Nat
    BY <1>2, <1>3
  <1>5. WithTake(disk.scenes[cur], take) \in SceneRecord
    <2> DEFINE from == IF take = 0 THEN Nothing ELSE given
    <2>1. from \in Given
      BY <1>2 DEF Nothing, Given
    <2>2. from.start \in Nat /\ from.text \in Nat /\ from.master \in Nat
      BY <2>1 DEF Given
    <2>3. WithTake(disk.scenes[cur], take) =
            [disk.scenes[cur] EXCEPT !.take = take, !.start = from.start,
                                     !.takeText = from.text, !.takeMaster = from.master]
      BY DEF WithTake
    <2>4. [disk.scenes[cur] EXCEPT !.take = take, !.start = from.start,
                                   !.takeText = from.text, !.takeMaster = from.master]
            \in SceneRecord
      <3> HIDE DEF from
      <3> QED BY <1>2, <1>4, <2>2, TakeFieldsType
    <2> QED BY <2>3, <2>4
  <1>6. disk' \in ProjectRecord
    BY <1>1, <1>2, <1>3, <1>5, SetSceneType
  <1>7. /\ given' \in Given /\ pc' = "saved"
        /\ UNCHANGED <<queue, queuedIds, cur, snap, running, made, burst, ops>>
    BY DEF Generated, History, Nothing, Given
  <1> QED BY <1>1, <1>3, <1>6, <1>7
      DEF TypeInv, TypeOK, ControlOK, HoldsNothing, HoldsSnapshot, Atomic

LEMMA TypeMarkQC ==
  ASSUME TypeInv, MarkQC
  PROVE  TypeInv'
  <1>1. cur \in Scenes /\ pc \notin HoldsNothing
    BY HoldsId DEF MarkQC, HoldsNothing
  <1>2. Update(disk, cur, "QC") \in ProjectRecord
    BY <1>1, UpdateType DEF TypeInv, TypeOK, Status
  <1>3. /\ disk' \in ProjectRecord /\ snap' \in ProjectRecord /\ exists' = TRUE
        /\ pc' \in {"judge", "qc"}
        /\ UNCHANGED <<queue, queuedIds, cur, given, running, made, burst, ops>>
    BY <1>2 DEF MarkQC, Save, History
  <1> QED BY <1>1, <1>3 DEF TypeInv, TypeOK, ControlOK, HoldsNothing, Suspended, Atomic

(***************************************************************************)
(* The verdicts.                                                           *)
(***************************************************************************)
LEMMA VerdictType ==
  ASSUME NEW c \in SceneRecord, NEW verdict \in Acceptance, NEW evidence \in Evidence,
         NEW n \in Nat, NEW v \in VideoModels, NEW w \in VisionModels
  PROVE  [c EXCEPT !.acc = verdict, !.qc = evidence, !.anchor = n,
                   !.renderModel = v, !.qcModel = w] \in SceneRecord
  BY DEF SceneRecord

LEMMA JudgedType ==
  ASSUME snap \in ProjectRecord, cur \in Scenes,
         NEW verdict \in Acceptance, NEW evidence \in Evidence
  PROVE  Judged(verdict, evidence) \in SceneRecord
  <1> DEFINE before == IF HasPrevious(cur) THEN snap.scenes[cur - 1].take ELSE 0
  <1>1. before \in Nat
    <2>1. HasPrevious(cur) => cur - 1 \in Scenes
      BY SceneAssumption DEF HasPrevious, Scenes
    <2> QED BY <2>1, SceneOfProject DEF SceneRecord
  <1>2. snap.scenes[cur] \in SceneRecord /\ snap.video \in VideoModels
        /\ snap.vision \in VisionModels
    BY SceneOfProject
  <1> HIDE DEF before
  <1>3. [snap.scenes[cur] EXCEPT !.acc = verdict, !.qc = evidence, !.anchor = before,
                                 !.renderModel = snap.video, !.qcModel = snap.vision]
          \in SceneRecord
    BY <1>1, <1>2, VerdictType
  <1> QED BY <1>3 DEF Judged, before

LEMMA TypeQCAccepts ==
  ASSUME TypeInv, QCAccepts
  PROVE  TypeInv'
  <1>1. cur \in Scenes /\ pc \notin HoldsNothing /\ snap \in ProjectRecord
    BY HoldsId DEF QCAccepts, HoldsNothing, HoldsSnapshot, TypeInv, ControlOK
  <1>2. PICK evidence \in {"Passed", "Low"} :
          Save(Update(SetScene(snap, cur, CommitAccepted(Judged("Accepted", evidence))),
                      cur, "Accepted"))
    BY DEF QCAccepts
  <1>3. Judged("Accepted", evidence) \in SceneRecord
    BY <1>1, JudgedType DEF Acceptance, Evidence
  <1>4. CommitAccepted(Judged("Accepted", evidence)) \in SceneRecord
    BY <1>3 DEF CommitAccepted, SceneRecord
  <1>5. SetScene(snap, cur, CommitAccepted(Judged("Accepted", evidence))) \in ProjectRecord
    BY <1>1, <1>4, SetSceneType
  <1>6. disk' \in ProjectRecord /\ exists' = TRUE
    BY <1>1, <1>2, <1>5, UpdateType DEF Save, Status
  <1>7. /\ pc' = "accepted" /\ snap' = NoValue
        /\ UNCHANGED <<queue, queuedIds, cur, given, running, made, burst, ops>>
    BY DEF QCAccepts, History
  <1> QED BY <1>1, <1>6, <1>7
      DEF TypeInv, TypeOK, ControlOK, HoldsNothing, HoldsSnapshot, Atomic

LEMMA TypeQCRejects ==
  ASSUME TypeInv, QCRejects
  PROVE  TypeInv'
  <1>1. cur \in Scenes /\ pc \notin HoldsNothing /\ snap \in ProjectRecord
    BY HoldsId DEF QCRejects, HoldsNothing, HoldsSnapshot, TypeInv, ControlOK
  <1>2. Judged("Rejected", "Failed") \in SceneRecord
    BY <1>1, JudgedType DEF Acceptance, Evidence
  <1>3. SetScene(snap, cur, Judged("Rejected", "Failed")) \in ProjectRecord
    BY <1>1, <1>2, SetSceneType
  <1>4. Update(SetScene(snap, cur, Judged("Rejected", "Failed")), cur, "FailedQC")
          \in ProjectRecord
    BY <1>1, <1>3, UpdateType DEF Status
  <1>5. /\ disk' \in ProjectRecord /\ snap' \in ProjectRecord /\ exists' = TRUE
        /\ pc' = "rejected"
        /\ UNCHANGED <<queue, queuedIds, cur, given, running, made, burst, ops>>
    BY <1>4 DEF QCRejects, Save, History
  <1> QED BY <1>1, <1>5 DEF TypeInv, TypeOK, ControlOK, HoldsNothing, Atomic

LEMMA TypeRetryRepair ==
  ASSUME TypeInv, RetryRepair
  PROVE  TypeInv'
  <1>1. cur \in Scenes /\ snap \in ProjectRecord
    BY HoldsId DEF RetryRepair, HoldsNothing, HoldsSnapshot, TypeInv, ControlOK
  <1>2. ClearForRepair(snap.scenes[cur]) \in SceneRecord
    BY <1>1, SceneOfProject, ClearType DEF ClearForRepair
  <1>3. SetScene(snap, cur, ClearForRepair(snap.scenes[cur])) \in ProjectRecord
    BY <1>1, <1>2, SetSceneType
  <1>4. Update(SetScene(snap, cur, ClearForRepair(snap.scenes[cur])), cur, "Waiting")
          \in ProjectRecord
    BY <1>1, <1>3, UpdateType DEF Status
  <1>5. /\ disk' \in ProjectRecord /\ exists' = TRUE /\ Requeue
        /\ UNCHANGED <<running, made, burst, ops>>
    BY <1>4 DEF RetryRepair, Save, History
  <1> QED BY <1>1, <1>5, RequeueType
      DEF TypeInv, TypeOK, ControlOK, HoldsNothing, HoldsSnapshot, Atomic

LEMMA TypeLastSaves ==
  ASSUME TypeInv, ManualReview \/ Propagate
  PROVE  TypeInv'
  <1>1. /\ disk' \in ProjectRecord /\ exists' \in BOOLEAN /\ Done("loop")
        /\ UNCHANGED <<running, made, burst, ops>>
    <2>1. CASE ManualReview
      <3>1. snap \in ProjectRecord
        BY <2>1 DEF ManualReview, TypeInv, ControlOK, HoldsSnapshot
      <3> QED BY <2>1, <3>1 DEF ManualReview, Save, History
    <2>2. CASE Propagate
      <3>1. CompileImagePlans(disk) \in ProjectRecord
        BY CompileType DEF TypeInv, TypeOK
      <3>2. disk' \in ProjectRecord /\ exists' \in BOOLEAN
        BY <2>2, <3>1 DEF Propagate, Save, NoSave, TypeInv, TypeOK
      <3> QED BY <2>2, <3>2 DEF Propagate, History
    <2> QED BY <2>1, <2>2
  <1> QED BY <1>1, DoneType
      DEF TypeInv, TypeOK, ControlOK, HoldsNothing, HoldsSnapshot, Atomic

LEMMA TypeStep == TypeInv /\ [Next]_vars => TypeInv'
  <1> SUFFICES ASSUME TypeInv, [Next]_vars PROVE TypeInv'
    OBVIOUS
  <1>1. ASSUME NEW ids \in SUBSET Scenes, NEW force \in BOOLEAN, Enqueue(ids, force)
        PROVE  TypeInv'
    BY <1>1, TypeEnqueue
  <1>2. CASE Pause \/ Resume \/ Delete \/ Crash
    BY <1>2, TypeControls
  <1>3. CASE Exit \/ Take \/ Gone \/ DeferToPredecessor
    BY <1>3, TypeTake
  <1>4. CASE ContainedStep
    BY <1>4, TypeContained
  <1>5. CASE Prepare \/ RefsApproved \/ RefsRejected
    BY <1>5, TypePrepare, TypeRefsApproved, TypeRefsRejected
  <1>6. CASE CountAttempt \/ Generate \/ Generated \/ MarkQC
    BY <1>6, TypeCountAttempt, TypeGenerate, TypeGenerated, TypeMarkQC
  <1>7. CASE QCAccepts \/ QCRejects \/ RetryRepair \/ ManualReview \/ Propagate
    BY <1>7, TypeQCAccepts, TypeQCRejects, TypeRetryRepair, TypeLastSaves
  <1>8. CASE UNCHANGED vars
    BY <1>8 DEF vars, TypeInv, TypeOK, ControlOK
  <1> QED
    BY <1>1, <1>2, <1>3, <1>4, <1>5, <1>6, <1>7, <1>8 DEF Next, Worker, ContainedStep

\* Type correctness of the queue: every document that any handler, any path
\* of the worker or a restart leaves behind is a well-formed project.
THEOREM TypeCorrect == Spec => []TypeOK
  <1>1. TypeInv => TypeOK
    BY DEF TypeInv
  <1> QED BY TypeInit, TypeStep, <1>1, PTL DEF Spec

(***************************************************************************)
(* QueuedIdsExact as a predicate of a queue q, a set ids and a scene c in  *)
(* hand, and what the four uses of a FIFO do to it.                        *)
(***************************************************************************)
Elements(q) == {q[i] : i \in 1..Len(q)}

NoRepeats(q) == \A i, j \in 1..Len(q) : q[i] = q[j] => i = j

Exact(q, ids, c) ==
  /\ ids = Elements(q) \cup ({c} \ {0})
  /\ c \notin Elements(q)
  /\ NoRepeats(q)

LEMMA ExactIsTheProperty == QueuedIdsExact <=> Exact(queue, queuedIds, cur)
  BY DEF QueuedIdsExact, Exact, InQueue, Elements, NoRepeats

LEMMA ZeroIsNoScene == 0 \notin Scenes
  BY DEF Scenes

\* The worker takes the head of the queue.
LEMMA TakeExact ==
  ASSUME NEW q \in Seq(Scenes), q # <<>>, NEW ids, Exact(q, ids, 0)
  PROVE  Exact(Tail(q), ids, Head(q))
  <1>1. /\ Head(q) = q[1] /\ Head(q) \in Scenes
        /\ Tail(q) \in Seq(Scenes)
        /\ Len(Tail(q)) = Len(q) - 1 /\ Len(q) \in Nat /\ Len(q) >= 1
        /\ \A i \in 1..Len(Tail(q)) : Tail(q)[i] = q[i + 1]
    BY HeadTailProperties, EmptySeq, LenProperties
  <1>2. Elements(q) = Elements(Tail(q)) \cup {Head(q)}
    <2>1. ASSUME NEW x \in Elements(q) PROVE x \in Elements(Tail(q)) \cup {Head(q)}
      <3>1. PICK i \in 1..Len(q) : x = q[i]
        BY DEF Elements
      <3>2. CASE i = 1
        BY <1>1, <3>1, <3>2
      <3>3. CASE i # 1
        <4>1. i - 1 \in 1..Len(Tail(q)) /\ Tail(q)[i - 1] = q[i]
          BY <1>1, <3>3
        <4> QED BY <3>1, <4>1 DEF Elements
      <3> QED BY <3>2, <3>3
    <2>2. ASSUME NEW x \in Elements(Tail(q)) PROVE x \in Elements(q)
      <3>1. PICK i \in 1..Len(Tail(q)) : x = Tail(q)[i]
        BY <2>2 DEF Elements
      <3>2. i + 1 \in 1..Len(q) /\ x = q[i + 1]
        BY <1>1, <3>1
      <3> QED BY <3>2 DEF Elements
    <2>3. Head(q) \in Elements(q)
      BY <1>1 DEF Elements
    <2> QED BY <2>1, <2>2, <2>3
  <1>3. Head(q) \notin Elements(Tail(q))
    <2> SUFFICES ASSUME Head(q) \in Elements(Tail(q)) PROVE FALSE
      OBVIOUS
    <2>1. PICK i \in 1..Len(Tail(q)) : Head(q) = Tail(q)[i]
      BY DEF Elements
    <2>2. i + 1 \in 1..Len(q) /\ 1 \in 1..Len(q) /\ q[1] = q[i + 1]
      BY <1>1, <2>1
    <2>3. 1 = i + 1
      BY <2>2 DEF Exact, NoRepeats
    <2> QED BY <2>3
  <1>4. NoRepeats(Tail(q))
    <2> SUFFICES ASSUME NEW i \in 1..Len(Tail(q)), NEW j \in 1..Len(Tail(q)),
                        Tail(q)[i] = Tail(q)[j]
                 PROVE  i = j
      BY DEF NoRepeats
    <2>1. i + 1 \in 1..Len(q) /\ j + 1 \in 1..Len(q) /\ q[i + 1] = q[j + 1]
      BY <1>1
    <2>2. i + 1 = j + 1
      BY <2>1 DEF Exact, NoRepeats
    <2> QED BY <2>2
  <1> QED BY <1>1, <1>2, <1>3, <1>4, ZeroIsNoScene DEF Exact

\* The scene in hand goes to the tail of the queue.
LEMMA RequeueExact ==
  ASSUME NEW q \in Seq(Scenes), NEW c \in Scenes, NEW ids, Exact(q, ids, c)
  PROVE  Exact(Append(q, c), ids, 0)
  <1>1. /\ Append(q, c) \in Seq(Scenes)
        /\ Len(Append(q, c)) = Len(q) + 1 /\ Len(q) \in Nat
        /\ \A i \in 1..Len(q) : Append(q, c)[i] = q[i]
        /\ Append(q, c)[Len(q) + 1] = c
    BY AppendProperties, LenProperties
  <1>2. Elements(Append(q, c)) = Elements(q) \cup {c}
    <2>1. ASSUME NEW x \in Elements(Append(q, c)) PROVE x \in Elements(q) \cup {c}
      <3>1. PICK i \in 1..Len(Append(q, c)) : x = Append(q, c)[i]
        BY <2>1 DEF Elements
      <3>2. i \in 1..Len(q) \/ i = Len(q) + 1
        BY <1>1
      <3> QED BY <1>1, <3>1, <3>2 DEF Elements
    <2>2. ASSUME NEW x \in Elements(q) PROVE x \in Elements(Append(q, c))
      <3>1. PICK i \in 1..Len(q) : x = q[i]
        BY <2>2 DEF Elements
      <3>2. i \in 1..Len(Append(q, c)) /\ x = Append(q, c)[i]
        BY <1>1, <3>1
      <3> QED BY <3>2 DEF Elements
    <2>3. c \in Elements(Append(q, c))
      <3>1. Len(q) + 1 \in 1..Len(Append(q, c))
        BY <1>1
      <3> QED BY <1>1, <3>1 DEF Elements
    <2> QED BY <2>1, <2>2, <2>3
  <1>3. 0 \notin Elements(Append(q, c))
    <2>1. \A i \in 1..Len(Append(q, c)) : Append(q, c)[i] \in Scenes
      BY <1>1, ElementOfSeq
    <2> QED BY <2>1, ZeroIsNoScene DEF Elements
  <1>4. NoRepeats(Append(q, c))
    <2> SUFFICES ASSUME NEW i \in 1..Len(q) + 1, NEW j \in 1..Len(q) + 1,
                        Append(q, c)[i] = Append(q, c)[j]
                 PROVE  i = j
      BY <1>1 DEF NoRepeats
    <2>1. \A k \in 1..Len(q) : q[k] # c
      BY DEF Exact, Elements
    <2>2. CASE i \in 1..Len(q) /\ j \in 1..Len(q)
      BY <1>1, <2>2 DEF Exact, NoRepeats
    <2>3. CASE i = Len(q) + 1 \/ j = Len(q) + 1
      BY <1>1, <2>1, <2>3
    <2> QED BY <1>1, <2>2, <2>3
  <1> QED BY <1>2, <1>3, <1>4, ZeroIsNoScene DEF Exact

\* The worker drops the scene in hand.
LEMMA DropExact ==
  ASSUME NEW q \in Seq(Scenes), NEW c, NEW ids, Exact(q, ids, c)
  PROVE  Exact(q, ids \ {c}, 0)
  <1>1. \A i \in 1..Len(q) : q[i] \in Scenes
    BY ElementOfSeq
  <1>2. 0 \notin Elements(q)
    BY <1>1, ZeroIsNoScene DEF Elements
  <1> QED BY <1>2 DEF Exact

\* A request appends scenes that are not in the set.
LEMMA AppendAllExact ==
  ASSUME NEW q \in Seq(Scenes), NEW a \in Seq(Scenes), NEW c, NEW ids,
         Exact(q, ids, c), NoRepeats(a), Elements(a) \cap ids = {}
  PROVE  Exact(q \o a, ids \cup Elements(a), c)
  <1>1. /\ q \o a \in Seq(Scenes)
        /\ Len(q \o a) = Len(q) + Len(a) /\ Len(q) \in Nat /\ Len(a) \in Nat
        /\ \A i \in 1..Len(q) + Len(a) :
             (q \o a)[i] = IF i <= Len(q) THEN q[i] ELSE a[i - Len(q)]
    BY ConcatProperties, LenProperties
  <1>2. Elements(q \o a) = Elements(q) \cup Elements(a)
    <2>1. ASSUME NEW x \in Elements(q \o a) PROVE x \in Elements(q) \cup Elements(a)
      <3>1. PICK i \in 1..Len(q) + Len(a) : x = (q \o a)[i]
        BY <1>1, <2>1 DEF Elements
      <3>2. CASE i <= Len(q)
        <4>1. i \in 1..Len(q) /\ x = q[i]
          BY <1>1, <3>1, <3>2
        <4> QED BY <4>1 DEF Elements
      <3>3. CASE ~(i <= Len(q))
        <4>1. i - Len(q) \in 1..Len(a) /\ x = a[i - Len(q)]
          BY <1>1, <3>1, <3>3
        <4> QED BY <4>1 DEF Elements
      <3> QED BY <3>2, <3>3
    <2>2. ASSUME NEW x \in Elements(q) PROVE x \in Elements(q \o a)
      <3>1. PICK i \in 1..Len(q) : x = q[i]
        BY <2>2 DEF Elements
      <3>2. i \in 1..Len(q \o a) /\ x = (q \o a)[i]
        BY <1>1, <3>1
      <3> QED BY <3>2 DEF Elements
    <2>3. ASSUME NEW x \in Elements(a) PROVE x \in Elements(q \o a)
      <3>1. PICK i \in 1..Len(a) : x = a[i]
        BY <2>3 DEF Elements
      <3>2. /\ Len(q) + i \in 1..Len(q \o a) /\ ~(Len(q) + i <= Len(q))
            /\ (Len(q) + i) - Len(q) = i
        BY <1>1
      <3>3. x = (q \o a)[Len(q) + i]
        BY <1>1, <3>1, <3>2
      <3> QED BY <3>2, <3>3 DEF Elements
    <2> QED BY <2>1, <2>2, <2>3
  <1>3. c \notin Elements(a)
    <2>1. c # 0 => c \in ids
      BY DEF Exact
    <2>2. 0 \notin Elements(a)
      BY ElementOfSeq, ZeroIsNoScene DEF Elements
    <2> QED BY <2>1, <2>2
  <1>4. NoRepeats(q \o a)
    <2> SUFFICES ASSUME NEW i \in 1..Len(q) + Len(a), NEW j \in 1..Len(q) + Len(a),
                        (q \o a)[i] = (q \o a)[j]
                 PROVE  i = j
      BY <1>1 DEF NoRepeats
    <2>1. \A x \in Elements(q) : x \notin Elements(a)
      BY DEF Exact
    <2>2. \A k \in 1..Len(q), l \in 1..Len(a) : q[k] # a[l]
      BY <2>1 DEF Elements
    <2>3. CASE i <= Len(q) /\ j <= Len(q)
      BY <1>1, <2>3 DEF Exact, NoRepeats
    <2>4. CASE i > Len(q) /\ j > Len(q)
      <3>1. i - Len(q) \in 1..Len(a) /\ j - Len(q) \in 1..Len(a)
            /\ a[i - Len(q)] = a[j - Len(q)]
        BY <1>1, <2>4
      <3>2. i - Len(q) = j - Len(q)
        BY <3>1 DEF NoRepeats
      <3> QED BY <1>1, <3>2
    <2>5. CASE i <= Len(q) /\ j > Len(q)
      <3>1. i \in 1..Len(q) /\ j - Len(q) \in 1..Len(a) /\ q[i] = a[j - Len(q)]
        BY <1>1, <2>5
      <3> QED BY <2>2, <3>1
    <2>6. CASE i > Len(q) /\ j <= Len(q)
      <3>1. j \in 1..Len(q) /\ i - Len(q) \in 1..Len(a) /\ q[j] = a[i - Len(q)]
        BY <1>1, <2>6
      <3> QED BY <2>2, <3>1
    <2> QED BY <1>1, <2>3, <2>4, <2>5, <2>6
  <1> QED BY <1>2, <1>3, <1>4 DEF Exact

\* What a request appends is each of its scenes, once.
LEMMA OrderingElements ==
  ASSUME NEW ids \in SUBSET Scenes, NEW q \in Orderings(Enqueued(ids))
  PROVE  NoRepeats(q) /\ Elements(q) = Enqueued(ids)
  <1> DEFINE S == Enqueued(ids)
             n == Cardinality(S)
  <1>1. /\ q \in Seq(Scenes) /\ Len(q) = n /\ n \in Nat
        /\ \A i \in 1..n : q[i] \in S
        /\ \A i, j \in 1..n : q[i] = q[j] => i = j
    BY OrderingType, EnqueuedType
  <1>2. q \in [1..n -> S]
    BY DEF Orderings
  <1>3. IsFiniteSet(S)
    <2>1. IsFiniteSet(Scenes) /\ S \in SUBSET Scenes
      BY SceneAssumption, FS_Interval, EnqueuedType DEF Scenes
    <2> QED BY <2>1, FS_Subset
  <1> HIDE DEF S, n
  <1>4. q \in Injection(1..n, S)
    BY <1>1, <1>2, Fun_IsInj
  <1>5. Cardinality(1..n) = n
    BY <1>1, FS_Interval
  <1>6. q \in Surjection(1..n, S)
    BY <1>3, <1>4, <1>5, FS_Injection DEF n
  <1>7. \A x \in S : \E i \in 1..n : q[i] = x
    BY <1>6 DEF Surjection
  <1>8. Elements(q) = S
    <2>1. Elements(q) = {q[i] : i \in 1..n}
      BY <1>1 DEF Elements
    <2> QED BY <1>1, <1>7, <2>1
  <1> QED BY <1>1, <1>8 DEF NoRepeats, S

(***************************************************************************)
(* The actions, by what they do to the queue, the set and the scene in     *)
(* hand.                                                                   *)
(***************************************************************************)
QueueInv == TypeInv /\ QueuedIdsExact

\* Steps of the worker that keep what it holds.
KeepingStep ==
  \/ Exit \/ Prepare \/ RefsApproved \/ CountAttempt \/ Generate \/ Generated
  \/ MarkQC \/ QCAccepts \/ QCRejects

\* Steps that let go of the scene in hand.
DroppingStep ==
  ContainedStep \/ Gone \/ RefsRejected \/ ManualReview \/ Propagate

LEMMA KeepingStepKeeps ==
  ASSUME KeepingStep \/ Pause \/ Resume \/ Delete \/ UNCHANGED vars
  PROVE  UNCHANGED <<queue, queuedIds, cur>>
  BY DEF KeepingStep, Exit, Prepare, RefsApproved, CountAttempt, Generate, Generated,
         MarkQC, QCAccepts, QCRejects, Pause, Resume, Delete, memory, vars

LEMMA DroppingStepDrops ==
  ASSUME DroppingStep
  PROVE  Done("loop") \/ Done("none")
  <1>1. CASE ContainedStep
    BY <1>1, ContainedStepDoes DEF Contained
  <1>2. CASE Gone \/ RefsRejected \/ ManualReview \/ Propagate
    BY <1>2 DEF Gone, RefsRejected, ManualReview, Propagate
  <1> QED BY <1>1, <1>2 DEF DroppingStep

LEMMA RequeueingStepRequeues ==
  ASSUME TypeInv, DeferToPredecessor \/ RetryRepair
  PROVE  Requeue /\ cur \in Scenes
  <1>1. Requeue
    BY DEF DeferToPredecessor, RetryRepair
  <1>2. pc \notin HoldsNothing
    BY DEF DeferToPredecessor, RetryRepair, Begins, HoldsNothing
  <1> QED BY <1>1, <1>2, HoldsId

LEMMA EnqueueExact ==
  ASSUME QueueInv, NEW ids \in SUBSET Scenes, NEW force \in BOOLEAN, Enqueue(ids, force)
  PROVE  QueuedIdsExact'
  <1>1. PICK added \in Orderings(Enqueued(ids)) : queue' = queue \o added
    BY DEF Enqueue
  <1>2. added \in Seq(Scenes) /\ NoRepeats(added) /\ Elements(added) = Enqueued(ids)
    BY OrderingType, OrderingElements
  <1>3. Enqueued(ids) \cap queuedIds = {}
    BY DEF Enqueued
  <1>4. queue \in Seq(Scenes) /\ Exact(queue, queuedIds, cur)
    BY ExactIsTheProperty DEF QueueInv, TypeInv, TypeOK
  <1>5. Exact(queue \o added, queuedIds \cup Enqueued(ids), cur)
    BY <1>2, <1>3, <1>4, AppendAllExact
  <1>6. Exact(queue', queuedIds', cur')
    BY <1>1, <1>5 DEF Enqueue
  <1> QED BY <1>6 DEF QueuedIdsExact, Exact, InQueue, Elements, NoRepeats

LEMMA WorkerExact ==
  ASSUME QueueInv, Take \/ DeferToPredecessor \/ RetryRepair \/ DroppingStep
  PROVE  QueuedIdsExact'
  <1>1. queue \in Seq(Scenes) /\ Exact(queue, queuedIds, cur)
    BY ExactIsTheProperty DEF QueueInv, TypeInv, TypeOK
  <1>2. Exact(queue', queuedIds', cur')
    <2>1. CASE Take
      <3>1. cur = 0
        BY <2>1 DEF Take, AtHead, QueueInv, TypeInv, ControlOK, HoldsNothing
      <3>2. Exact(Tail(queue), queuedIds, Head(queue))
        BY <1>1, <2>1, <3>1, TakeExact DEF Take
      <3> QED BY <2>1, <3>2 DEF Take
    <2>2. CASE DeferToPredecessor \/ RetryRepair
      <3>1. Requeue /\ cur \in Scenes
        BY <2>2, RequeueingStepRequeues DEF QueueInv
      <3> QED BY <1>1, <3>1, RequeueExact DEF Requeue
    <2>3. CASE DroppingStep
      <3>1. Exact(queue, queuedIds \ {cur}, 0)
        BY <1>1, DropExact
      <3>2. UNCHANGED queue /\ queuedIds' = queuedIds \ {cur} /\ cur' = 0
        BY <2>3, DroppingStepDrops DEF Done
      <3> QED BY <3>1, <3>2
    <2> QED BY <2>1, <2>2, <2>3
  <1> QED BY <1>2 DEF QueuedIdsExact, Exact, InQueue, Elements, NoRepeats

LEMMA EmptyExact ==
  ASSUME queue = <<>>, queuedIds = {}, cur = 0
  PROVE  QueuedIdsExact
  BY DEF QueuedIdsExact, InQueue

LEMMA ExactStep == QueueInv /\ [Next]_vars => QueuedIdsExact'
  <1> SUFFICES ASSUME QueueInv, [Next]_vars PROVE QueuedIdsExact'
    OBVIOUS
  <1>1. ASSUME NEW ids \in SUBSET Scenes, NEW force \in BOOLEAN, Enqueue(ids, force)
        PROVE  QueuedIdsExact'
    BY <1>1, EnqueueExact
  <1>2. CASE KeepingStep \/ Pause \/ Resume \/ Delete \/ UNCHANGED vars
    BY <1>2, KeepingStepKeeps DEF QueueInv, QueuedIdsExact, InQueue
  <1>3. CASE Take \/ DeferToPredecessor \/ RetryRepair \/ DroppingStep
    BY <1>3, WorkerExact
  <1>4. CASE Crash
    BY <1>4 DEF Crash, Forget, QueuedIdsExact, InQueue
  <1> QED
    BY <1>1, <1>2, <1>3, <1>4
    DEF Next, Worker, KeepingStep, DroppingStep, ContainedStep

\* The id set of the queue never drifts from the queue and the scene in hand
\* and no scene waits twice, whatever is requested, however the worker leaves
\* a scene (verdict, requeue, exception, deleted project) and wherever the
\* process dies.
THEOREM QueueExact == Spec => []QueuedIdsExact
  <1>1. Init => QueueInv
    BY TypeInit, EmptyExact DEF Init, QueueInv
  <1>2. QueueInv /\ [Next]_vars => QueueInv'
    BY TypeStep, ExactStep DEF QueueInv
  <1>3. QueueInv => QueuedIdsExact
    BY DEF QueueInv
  <1> QED BY <1>1, <1>2, <1>3, PTL DEF Spec

(***************************************************************************)
(* Queued work has a worker.                                               *)
(***************************************************************************)
LEMMA WorkInit == Init => NoWorkWithoutWorker
  BY DEF Init, NoWorkWithoutWorker

LEMMA WorkStep == NoWorkWithoutWorker /\ [Next]_vars => NoWorkWithoutWorker'
  <1> SUFFICES ASSUME NoWorkWithoutWorker, [Next]_vars PROVE NoWorkWithoutWorker'
    OBVIOUS
  <1>1. ASSUME NEW ids \in SUBSET Scenes, NEW force \in BOOLEAN, Enqueue(ids, force)
        PROVE  NoWorkWithoutWorker'
    BY <1>1 DEF Enqueue, StartWorker, NoWorkWithoutWorker
  <1>2. CASE Pause \/ Resume \/ Delete \/ UNCHANGED vars
    BY <1>2 DEF Pause, Resume, Delete, memory, vars, NoWorkWithoutWorker
  <1>3. CASE Crash \/ Exit \/ Gone
    BY <1>3 DEF Crash, Forget, Exit, Gone, NoWorkWithoutWorker
  <1>4. CASE ContainedStep
    <2>1. pc' = "loop"
      BY <1>4, ContainedStepDoes DEF Contained, Done
    <2> QED BY <2>1 DEF NoWorkWithoutWorker
  <1>5. CASE Take \/ DeferToPredecessor \/ Prepare \/ RefsApproved \/ RefsRejected
    BY <1>5 DEF Take, DeferToPredecessor, Requeue, Prepare, RefsApproved, RefsRejected,
                Done, NoWorkWithoutWorker
  <1>6. CASE CountAttempt \/ Generate \/ Generated \/ MarkQC
    BY <1>6 DEF CountAttempt, Generate, Generated, MarkQC, NoWorkWithoutWorker
  <1>7. CASE QCAccepts \/ QCRejects \/ RetryRepair \/ ManualReview \/ Propagate
    BY <1>7 DEF QCAccepts, QCRejects, RetryRepair, Requeue, ManualReview, Propagate,
                Done, NoWorkWithoutWorker
  <1> QED
    BY <1>1, <1>2, <1>3, <1>4, <1>5, <1>6, <1>7 DEF Next, Worker, ContainedStep

\* As long as the project exists, a scene that waits in the queue has a live
\* worker task: enqueue() and the end of the worker's loop cannot miss each
\* other, and neither an exception nor a restart strands a queued scene.
THEOREM WorkHasWorker == Spec => []NoWorkWithoutWorker
  BY WorkInit, WorkStep, PTL DEF Spec

(***************************************************************************)
(* A project that says Ready passes the gate.  The stored document and the *)
(* snapshot the worker will save must both be honest, and the scene whose  *)
(* take arrives must not be one of the accepted ones.                      *)
(***************************************************************************)
Honest(p) == p.final = "Ready" => \A s \in Scenes : ProductionReady(p, s)

HonestOK ==
  /\ Honest(disk)
  /\ pc \in HoldsSnapshot => Honest(snap)
  /\ pc = "gen" => disk.scenes[cur].status # "Accepted"

ReadyInv == TypeInv /\ HonestOK

LEMMA RefreshHonest ==
  ASSUME NEW p \in ProjectRecord
  PROVE  Honest(RefreshFinal(p))
  BY DEF RefreshFinal, ProjectRecord, Honest, ProductionReady

LEMMA UpdateHonest ==
  ASSUME NEW p \in ProjectRecord, NEW s \in Scenes, NEW st \in Status
  PROVE  Honest(Update(p, s, st))
  <1>1. SetScene(p, s, [p.scenes[s] EXCEPT !.status = st]) \in ProjectRecord
    BY SceneOfProject, StatusType, SetSceneType
  <1>2. Update(p, s, st) = RefreshFinal(SetScene(p, s, [p.scenes[s] EXCEPT !.status = st]))
    BY DEF Update, SetScene
  <1> QED BY <1>1, <1>2, RefreshHonest

LEMMA UpdateStatus ==
  ASSUME NEW p \in ProjectRecord, NEW s \in Scenes, NEW st \in Status
  PROVE  Update(p, s, st).scenes[s].status = st
  BY DEF Update, RefreshFinal, ProjectRecord, SceneRecord

\* Changes that the gate does not look at.
LEMMA SameEvidenceHonest ==
  ASSUME NEW p \in ProjectRecord, NEW q \in ProjectRecord, Honest(p),
         q.final = p.final, q.video = p.video, q.vision = p.vision,
         \A s \in Scenes :
           /\ q.scenes[s].status = p.scenes[s].status
           /\ q.scenes[s].acc = p.scenes[s].acc
           /\ q.scenes[s].locked = p.scenes[s].locked
           /\ q.scenes[s].sealed = p.scenes[s].sealed
           /\ q.scenes[s].committed = p.scenes[s].committed
           /\ q.scenes[s].take = p.scenes[s].take
           /\ q.scenes[s].qc = p.scenes[s].qc
           /\ q.scenes[s].renderModel = p.scenes[s].renderModel
           /\ q.scenes[s].qcModel = p.scenes[s].qcModel
  PROVE  Honest(q)
  BY DEF Honest, ProductionReady

LEMMA CompileHonest ==
  ASSUME NEW p \in ProjectRecord, Honest(p)
  PROVE  Honest(CompileImagePlans(p))
  <1> DEFINE q == CompileImagePlans(p)
  <1>1. q \in ProjectRecord
    BY CompileType
  <1>2. /\ q.final = p.final /\ q.video = p.video /\ q.vision = p.vision
        /\ \A s \in Scenes :
             \E n, b : q.scenes[s] = [p.scenes[s] EXCEPT !.source = n, !.plan = b]
    BY DEF CompileImagePlans, ProjectRecord
  <1>3. \A s \in Scenes : p.scenes[s] \in SceneRecord
    BY SceneOfProject
  <1> HIDE DEF q
  <1>4. \A s \in Scenes :
           /\ q.scenes[s].status = p.scenes[s].status
           /\ q.scenes[s].acc = p.scenes[s].acc
           /\ q.scenes[s].locked = p.scenes[s].locked
           /\ q.scenes[s].sealed = p.scenes[s].sealed
           /\ q.scenes[s].committed = p.scenes[s].committed
           /\ q.scenes[s].take = p.scenes[s].take
           /\ q.scenes[s].qc = p.scenes[s].qc
           /\ q.scenes[s].renderModel = p.scenes[s].renderModel
           /\ q.scenes[s].qcModel = p.scenes[s].qcModel
    <2> TAKE s \in Scenes
    <2>1. PICK n, b : q.scenes[s] = [p.scenes[s] EXCEPT !.source = n, !.plan = b]
      BY <1>2
    <2> QED BY <1>3, <2>1 DEF SceneRecord
  <1> QED BY <1>1, <1>2, <1>4, SameEvidenceHonest DEF q

\* A project that says Ready has no scene to relabel.
LEMMA RelabelHonest ==
  ASSUME NEW p \in ProjectRecord, Honest(p), NEW a \in Status \ {"Accepted"}, NEW b \in Status
  PROVE  Honest(Relabel(p, a, b))
  BY DEF Honest, ProductionReady, Relabel, ProjectRecord

LEMMA RelabelStatus ==
  ASSUME NEW p \in ProjectRecord, NEW a \in Status, NEW b \in Status \ {"Accepted"},
         NEW s \in Scenes, p.scenes[s].status # "Accepted"
  PROVE  Relabel(p, a, b).scenes[s].status # "Accepted"
  BY DEF Relabel, ProjectRecord, SceneRecord

LEMMA CompileKeepsFinal ==
  ASSUME NEW p, p.final = "NotReady"
  PROVE  CompileImagePlans(p).final = "NotReady"
  BY DEF CompileImagePlans

LEMMA HonestInit == Init => HonestOK
  <1> SUFFICES ASSUME Init PROVE HonestOK
    OBVIOUS
  <1>1. PICK v \in VideoModels, w \in VisionModels,
             before \in [Scenes -> WorldStates], after \in [Scenes -> WorldStates] :
          \/ \E opened \in SUBSET Scenes, refsQC \in {w, NoValue} :
               disk = FreshProject(v, w, refsQC, before, after, opened)
          \/ disk = RenderedProject(v, w, before, after)
    BY DEF Init, DocumentInit
  <1>2. pc = "none"
    BY DEF Init
  <1>3. CASE disk = RenderedProject(v, w, before, after)
    <2> DEFINE p == [scenes |-> [s \in Scenes |->
                                   RenderedScene(s, v, w, before[s], after[s])],
                     final |-> "NotReady", refs |-> TRUE, refsQC |-> w, master |-> 1,
                     video |-> v, vision |-> w]
    <2>1. CompileImagePlans(p) \in ProjectRecord
      <3>1. \A s \in Scenes : RenderedScene(s, v, w, before[s], after[s]) \in SceneRecord
        BY RenderedSceneType
      <3>2. [s \in Scenes |-> RenderedScene(s, v, w, before[s], after[s])]
              \in [Scenes -> SceneRecord]
        BY <3>1
      <3>3. p \in ProjectRecord
        BY <3>2 DEF ProjectRecord, FinalStatus
      <3> QED BY <3>3, CompileType
    <2> HIDE DEF p
    <2>2. disk = RefreshFinal(CompileImagePlans(p))
      BY <1>3 DEF RenderedProject, p
    <2>3. Honest(disk)
      BY <2>1, <2>2, RefreshHonest
    <2> QED BY <1>2, <2>3 DEF HonestOK, HoldsSnapshot
  <1>4. CASE \E opened \in SUBSET Scenes, refsQC \in {w, NoValue} :
               disk = FreshProject(v, w, refsQC, before, after, opened)
    <2>1. PICK opened \in SUBSET Scenes, refsQC \in {w, NoValue} :
            disk = FreshProject(v, w, refsQC, before, after, opened)
      BY <1>4
    <2> DEFINE p == [scenes |-> [s \in Scenes |->
                                   FreshScene(before[s], after[s], s \notin opened)],
                     final |-> "NotReady", refs |-> TRUE, refsQC |-> refsQC, master |-> 1,
                     video |-> v, vision |-> w]
    <2>2. p.final = "NotReady"
      OBVIOUS
    <2> HIDE DEF p
    <2>3. CompileImagePlans(p).final = "NotReady"
      BY <2>2, CompileKeepsFinal
    <2>4. disk.final = "NotReady"
      BY <2>1, <2>3 DEF FreshProject, p
    <2> QED BY <1>2, <2>4 DEF Honest, HonestOK, HoldsSnapshot
  <1> QED BY <1>1, <1>3, <1>4

LEMMA HonestEnqueue ==
  ASSUME ReadyInv, NEW ids \in SUBSET Scenes, NEW force \in BOOLEAN, Enqueue(ids, force)
  PROVE  HonestOK'
  <1> DEFINE cleared == [s \in Scenes |->
                IF s \in Enqueued(ids) THEN ClearForEnqueue(disk.scenes[s], force)
                ELSE disk.scenes[s]]
  <1>1. /\ disk \in ProjectRecord /\ Honest(disk)
        /\ \A s \in Scenes : disk.scenes[s] \in SceneRecord
    BY SceneOfProject DEF ReadyInv, TypeInv, TypeOK, HonestOK
  <1>2. /\ disk'.scenes = cleared /\ disk'.video = disk.video /\ disk'.vision = disk.vision
        /\ disk'.final = IF Requested(ids) = {} THEN disk.final ELSE "NotReady"
    BY <1>1 DEF Enqueue, Save, ProjectRecord
  <1>3. /\ pc' = "gen" <=> pc = "gen"
        /\ pc' \in HoldsSnapshot <=> pc \in HoldsSnapshot
        /\ UNCHANGED <<cur, snap>>
    BY DEF Enqueue, StartWorker, HoldsSnapshot
  <1>4. Honest(disk')
    <2>1. CASE Requested(ids) = {}
      <3>1. Enqueued(ids) = {}
        BY <2>1 DEF Enqueued
      <3>2. \A s \in Scenes : disk'.scenes[s] = disk.scenes[s]
        BY <1>2, <3>1
      <3> QED BY <1>1, <1>2, <2>1, <3>2 DEF Honest, ProductionReady
    <2>2. CASE Requested(ids) # {}
      BY <1>2, <2>2 DEF Honest
    <2> QED BY <2>1, <2>2
  <1>5. pc = "gen" => disk'.scenes[cur].status # "Accepted"
    <2> SUFFICES ASSUME pc = "gen" PROVE disk'.scenes[cur].status # "Accepted"
      OBVIOUS
    <2>1. cur \in Scenes /\ disk.scenes[cur].status # "Accepted"
      BY HoldsId DEF HoldsNothing, ReadyInv, HonestOK
    <2>2. ClearForEnqueue(disk.scenes[cur], force).status = "Waiting"
      BY <1>1, <2>1 DEF ClearForEnqueue, SceneRecord
    <2> QED BY <1>2, <2>1, <2>2
  <1> QED BY <1>3, <1>4, <1>5 DEF HonestOK, ReadyInv

LEMMA HonestControls ==
  ASSUME ReadyInv, Pause \/ Resume \/ Delete \/ Crash \/ UNCHANGED vars
  PROVE  HonestOK'
  <1>1. disk \in ProjectRecord /\ Honest(disk)
    BY DEF ReadyInv, TypeInv, TypeOK, HonestOK
  <1>2. CASE Pause \/ Resume
    <2>1. PICK a \in Status \ {"Accepted"}, b \in Status \ {"Accepted"} :
            disk' = Relabel(disk, a, b)
      BY <1>2 DEF Pause, Resume, Save, Status
    <2>2. /\ pc' = "gen" <=> pc = "gen"
          /\ pc' \in HoldsSnapshot <=> pc \in HoldsSnapshot
          /\ UNCHANGED <<cur, snap>>
      BY <1>2 DEF Pause, Resume, HoldsSnapshot
    <2>3. Honest(disk')
      BY <1>1, <2>1, RelabelHonest
    <2>4. pc = "gen" => cur \in Scenes /\ disk.scenes[cur].status # "Accepted"
      BY HoldsId DEF HoldsNothing, ReadyInv, HonestOK
    <2>5. pc = "gen" => disk'.scenes[cur].status # "Accepted"
      BY <1>1, <2>1, <2>4, RelabelStatus
    <2> QED BY <2>2, <2>3, <2>5 DEF HonestOK, ReadyInv
  <1>3. CASE Delete \/ UNCHANGED vars
    BY <1>3 DEF Delete, memory, vars, ReadyInv, HonestOK
  <1>4. CASE Crash
    BY <1>1, <1>4 DEF Crash, Forget, HonestOK, HoldsSnapshot
  <1> QED BY <1>2, <1>3, <1>4

\* The worker's exception and Blocked paths.
LEMMA HonestContained ==
  ASSUME ReadyInv, ContainedStep
  PROVE  HonestOK'
  <1>1. disk \in ProjectRecord /\ Honest(disk) /\ cur \in Scenes
    BY ContainedStepDoes, HoldsId DEF ReadyInv, TypeInv, TypeOK, HonestOK
  <1>2. ASSUME NEW st \in Status, NEW a \in Acceptance, Contained(st, a)
        PROVE  Honest(disk') /\ pc' = "loop"
    <2>1. SetScene(disk, cur, [disk.scenes[cur] EXCEPT !.acc = a]) \in ProjectRecord
      BY <1>1, AccType
    <2>2. Honest(Update(SetScene(disk, cur, [disk.scenes[cur] EXCEPT !.acc = a]), cur, st))
      BY <1>1, <2>1, UpdateHonest
    <2> QED BY <1>1, <1>2, <2>2 DEF Contained, Save, NoSave, Done
  <1>3. Honest(disk') /\ pc' = "loop"
    BY <1>2, ContainedStepDoes DEF Status, Acceptance
  <1> QED BY <1>3 DEF HonestOK, HoldsSnapshot

\* Steps that save no document.
LEMMA HonestUnsaved ==
  ASSUME ReadyInv, Exit \/ Take \/ Gone \/ DeferToPredecessor
  PROVE  HonestOK'
  <1>1. disk' = disk /\ pc' \in {"none", "begin", "wait1", "loop"}
    BY DEF Exit, Take, Gone, DeferToPredecessor, Requeue, Done
  <1> QED BY <1>1 DEF ReadyInv, HonestOK, HoldsSnapshot

LEMMA HonestRefs ==
  ASSUME ReadyInv, Prepare \/ RefsApproved \/ RefsRejected
  PROVE  HonestOK'
  <1>1. disk \in ProjectRecord
    BY DEF ReadyInv, TypeInv, TypeOK
  <1>2. CASE Prepare
    <2>1. cur \in Scenes
      BY <1>2, HoldsId DEF ReadyInv, Prepare, Begins, HoldsNothing
    <2>2. Honest(Update(disk, cur, "Preparing"))
      BY <1>1, <2>1, UpdateHonest DEF Status
    <2>3. Honest(disk') /\ Honest(snap') /\ pc' \in {"masters", "refs"}
      BY <1>2, <2>2 DEF Prepare, Save
    <2> QED BY <2>3 DEF HonestOK
  <1>3. CASE RefsApproved
    <2>1. snap \in ProjectRecord /\ Honest(snap)
      BY <1>3 DEF RefsApproved, HoldsSnapshot, ReadyInv, TypeInv, ControlOK, HonestOK
    <2> DEFINE p == EnsureMasters(snap)
    <2>2. /\ p \in ProjectRecord /\ p.final = snap.final /\ p.video = snap.video
          /\ p.vision = snap.vision /\ p.scenes = snap.scenes
      BY <2>1, EnsureType DEF EnsureMasters, ProjectRecord
    <2>3. disk' = CompileImagePlans(p) /\ pc' \in {"render", "wait2"}
      BY <1>3 DEF RefsApproved, Save
    <2> HIDE DEF p
    <2>4. Honest(p)
      BY <2>1, <2>2, SameEvidenceHonest
    <2>5. Honest(disk')
      BY <2>2, <2>3, <2>4, CompileHonest
    <2> QED BY <2>3, <2>5 DEF HonestOK, HoldsSnapshot
  <1>4. CASE RefsRejected
    <2>1. snap \in ProjectRecord /\ cur \in Scenes
      BY <1>4, HoldsId
      DEF RefsRejected, HoldsSnapshot, HoldsNothing, ReadyInv, TypeInv, ControlOK
    <2>2. Honest(Update([snap EXCEPT !.refs = FALSE, !.refsQC = NoValue,
                                     !.scenes[cur].acc = "Blocked"],
                        cur, "Blocked"))
      BY <2>1, RejectedType, UpdateHonest DEF Status
    <2>3. Honest(disk') /\ pc' = "loop"
      BY <1>4, <2>2 DEF RefsRejected, Save, Done
    <2> QED BY <2>3 DEF HonestOK, HoldsSnapshot
  <1> QED BY <1>2, <1>3, <1>4

LEMMA HonestRendering ==
  ASSUME ReadyInv, CountAttempt \/ Generate \/ Generated \/ MarkQC
  PROVE  HonestOK'
  <1>1. disk \in ProjectRecord /\ Honest(disk) /\ cur \in Scenes
        /\ disk.scenes[cur] \in SceneRecord
    BY HoldsId, SceneOfProject
    DEF CountAttempt, Renders, Generate, Generated, MarkQC, HoldsNothing,
        ReadyInv, TypeInv, TypeOK, HonestOK
  <1>2. CASE CountAttempt
    <2>1. disk' = [disk EXCEPT !.scenes[cur].attempt = @ + 1] /\ pc' = "counted"
      BY <1>2 DEF CountAttempt, Save
    <2>2. disk' \in ProjectRecord
      BY <1>2, TypeCountAttempt DEF ReadyInv, TypeInv, TypeOK
    <2>3. Honest(disk')
      BY <1>1, <2>1 DEF Honest, ProductionReady, ProjectRecord, SceneRecord
    <2> QED BY <2>1, <2>3 DEF HonestOK, HoldsSnapshot
  <1>3. CASE Generate
    <2>1. disk' = Update(disk, cur, "Generating") /\ cur' = cur /\ pc' \in {"refused", "gen"}
      BY <1>3 DEF Generate, Save
    <2>2. Honest(disk') /\ disk'.scenes[cur].status = "Generating"
      BY <1>1, <2>1, UpdateHonest, UpdateStatus DEF Status
    <2> QED BY <2>1, <2>2 DEF HonestOK, HoldsSnapshot
  <1>4. CASE Generated
    <2>1. disk.scenes[cur].status # "Accepted"
      BY <1>4 DEF Generated, ReadyInv, HonestOK
    <2>2. disk.final # "Ready"
      BY <1>1, <2>1 DEF Honest, ProductionReady
    <2>3. disk'.final = disk.final /\ pc' = "saved"
      BY <1>4 DEF Generated, Save, SetScene
    <2> QED BY <2>2, <2>3 DEF HonestOK, Honest, HoldsSnapshot
  <1>5. CASE MarkQC
    <2>1. Honest(Update(disk, cur, "QC"))
      BY <1>1, UpdateHonest DEF Status
    <2>2. Honest(disk') /\ Honest(snap') /\ pc' \in {"judge", "qc"}
      BY <1>5, <2>1 DEF MarkQC, Save
    <2> QED BY <2>2 DEF HonestOK
  <1> QED BY <1>2, <1>3, <1>4, <1>5

LEMMA HonestVerdicts ==
  ASSUME ReadyInv, QCAccepts \/ QCRejects \/ RetryRepair \/ ManualReview
  PROVE  HonestOK'
  <1>1. snap \in ProjectRecord /\ Honest(snap) /\ cur \in Scenes
    BY HoldsId
    DEF QCAccepts, QCRejects, RetryRepair, ManualReview, HoldsNothing, HoldsSnapshot,
        ReadyInv, TypeInv, ControlOK, HonestOK
  <1>2. CASE QCAccepts
    <2>1. PICK evidence \in {"Passed", "Low"} :
            disk' = Update(SetScene(snap, cur, CommitAccepted(Judged("Accepted", evidence))),
                           cur, "Accepted")
      BY <1>2 DEF QCAccepts, Save
    <2>2. CommitAccepted(Judged("Accepted", evidence)) \in SceneRecord
      <3>1. Judged("Accepted", evidence) \in SceneRecord
        BY <1>1, JudgedType DEF Acceptance, Evidence
      <3> QED BY <3>1 DEF CommitAccepted, SceneRecord
    <2>3. Honest(disk')
      BY <1>1, <2>1, <2>2, SetSceneType, UpdateHonest DEF Status
    <2>4. pc' = "accepted"
      BY <1>2 DEF QCAccepts
    <2> QED BY <2>3, <2>4 DEF HonestOK, HoldsSnapshot
  <1>3. CASE QCRejects
    <2>1. Judged("Rejected", "Failed") \in SceneRecord
      BY <1>1, JudgedType DEF Acceptance, Evidence
    <2>2. Honest(Update(SetScene(snap, cur, Judged("Rejected", "Failed")), cur, "FailedQC"))
      BY <1>1, <2>1, SetSceneType, UpdateHonest DEF Status
    <2>3. Honest(disk') /\ Honest(snap') /\ pc' = "rejected"
      BY <1>3, <2>2 DEF QCRejects, Save
    <2> QED BY <2>3 DEF HonestOK
  <1>4. CASE RetryRepair
    <2>1. ClearForRepair(snap.scenes[cur]) \in SceneRecord
      BY <1>1, SceneOfProject, ClearType DEF ClearForRepair
    <2>2. Honest(Update(SetScene(snap, cur, ClearForRepair(snap.scenes[cur])), cur, "Waiting"))
      BY <1>1, <2>1, SetSceneType, UpdateHonest DEF Status
    <2>3. Honest(disk') /\ pc' = "loop"
      BY <1>4, <2>2 DEF RetryRepair, Save, Requeue
    <2> QED BY <2>3 DEF HonestOK, HoldsSnapshot
  <1>5. CASE ManualReview
    <2>1. Honest(disk') /\ pc' = "loop"
      BY <1>1, <1>5 DEF ManualReview, Save, Done
    <2> QED BY <2>1 DEF HonestOK, HoldsSnapshot
  <1> QED BY <1>2, <1>3, <1>4, <1>5

LEMMA HonestPropagate ==
  ASSUME ReadyInv, Propagate
  PROVE  HonestOK'
  <1>1. disk \in ProjectRecord /\ Honest(disk)
    BY DEF ReadyInv, TypeInv, TypeOK, HonestOK
  <1>2. Honest(CompileImagePlans(disk))
    BY <1>1, CompileHonest
  <1>3. Honest(disk') /\ pc' = "loop"
    BY <1>1, <1>2 DEF Propagate, Save, NoSave, Done
  <1> QED BY <1>3 DEF HonestOK, HoldsSnapshot

LEMMA HonestStep == ReadyInv /\ [Next]_vars => HonestOK'
  <1> SUFFICES ASSUME ReadyInv, [Next]_vars PROVE HonestOK'
    OBVIOUS
  <1>1. ASSUME NEW ids \in SUBSET Scenes, NEW force \in BOOLEAN, Enqueue(ids, force)
        PROVE  HonestOK'
    BY <1>1, HonestEnqueue
  <1>2. CASE Pause \/ Resume \/ Delete \/ Crash \/ UNCHANGED vars
    BY <1>2, HonestControls
  <1>3. CASE ContainedStep
    BY <1>3, HonestContained
  <1>4. CASE Exit \/ Take \/ Gone \/ DeferToPredecessor
    BY <1>4, HonestUnsaved
  <1>5. CASE Prepare \/ RefsApproved \/ RefsRejected
    BY <1>5, HonestRefs
  <1>6. CASE CountAttempt \/ Generate \/ Generated \/ MarkQC
    BY <1>6, HonestRendering
  <1>7. CASE QCAccepts \/ QCRejects \/ RetryRepair \/ ManualReview
    BY <1>7, HonestVerdicts
  <1>8. CASE Propagate
    BY <1>8, HonestPropagate
  <1> QED
    BY <1>1, <1>2, <1>3, <1>4, <1>5, <1>6, <1>7, <1>8 DEF Next, Worker, ContainedStep

\* A project document on disk never says that the final merge is Ready while
\* the production gate refuses one of its scenes, although the flag is written
\* by eight paths of the worker, on documents read before and after a wait.
THEOREM ReadyIsHonest == Spec => []ReadyMeansAllReady
  <1>1. Init => ReadyInv
    BY TypeInit, HonestInit DEF ReadyInv
  <1>2. ReadyInv /\ [Next]_vars => ReadyInv'
    BY TypeStep, HonestStep DEF ReadyInv
  <1>3. ReadyInv => ReadyMeansAllReady
    BY DEF ReadyInv, HonestOK, Honest, ReadyMeansAllReady
  <1> QED BY <1>1, <1>2, <1>3, PTL DEF Spec

(***************************************************************************)
(* What a request to the render queue costs and what the stored statuses   *)
(* and verdicts say: the retry budget, the attempt counted before its      *)
(* call, true statuses, verdicts, and the frame a continuing scene is      *)
(* judged against.                                                         *)
(***************************************************************************)

(***************************************************************************)
(* The inductive invariant.                                                *)
(***************************************************************************)
Counted(p) == \A s \in Scenes : burst[s] <= p.scenes[s].attempt

BeforeCall ==
  {"begin", "wait1", "woken1", "masters", "refs", "render", "wait2", "woken2", "counted"}

\* The stored attempts cover the calls of the request, in the document on disk
\* and in the one that will be saved; a scene that waits, or whose call is not
\* yet made, has a call left.
BudgetOK ==
  /\ Counted(disk)
  /\ pc \in HoldsSnapshot => Counted(snap)
  /\ pc = "counted" => burst[cur] < disk.scenes[cur].attempt
  /\ \A s \in Scenes : burst[s] <= MaxAuto
  /\ \A s \in queuedIds \ {cur} : burst[s] < MaxAuto
  /\ pc \in BeforeCall => burst[cur] < MaxAuto

\* A stage in the snapshot is the stage on disk: nobody relabels it meanwhile.
StageOK ==
  /\ pc \in HoldsSnapshot =>
       \A s \in Scenes :
         snap.scenes[s].status \in InFlight => disk.scenes[s].status = snap.scenes[s].status
  /\ pc = "rejected" => snap.scenes[cur].status = "FailedQC"
  /\ pc = "accepted" => disk.scenes[cur].status = "Accepted"

\* From the image plan to the verdict, what an anchored scene is rendered from
\* is the take of its predecessor, or the predecessor has lost its take.
FrameOK ==
  cur \in Anchored =>
    LET before == disk.scenes[cur - 1].take
        c == disk.scenes[cur] IN
    /\ pc \in {"render", "wait2", "woken2", "counted"} =>
         before = 0 \/ c.plan = "Blocked" \/ c.source = before
    /\ pc = "gen" => before = 0 \/ given.start = before
    /\ pc = "saved" => before = 0 \/ c.take = 0 \/ c.start = before
    /\ pc \in {"qc", "judge"} =>
         \/ snap.scenes[cur - 1].take = 0 \/ snap.scenes[cur].take = 0
         \/ snap.scenes[cur].start = snap.scenes[cur - 1].take

\* A project of the demo provider has no file, now or when a save is done.
NoTakes(p) == Mock(p) => \A s \in Scenes : p.scenes[s].take = 0

DemoOK ==
  /\ NoTakes(disk)
  /\ pc \in HoldsSnapshot => NoTakes(snap)
  /\ pc = "gen" /\ Mock(disk) => given.demo

PromiseOK == BudgetOK /\ StageOK /\ FrameOK /\ DemoOK
PromiseInv == QueueInv /\ PromiseOK

(***************************************************************************)
(* What the functions on documents leave alone.                            *)
(***************************************************************************)
Keeps(p, q) ==
  /\ q.video = p.video
  /\ \A s \in Scenes :
       /\ q.scenes[s].attempt = p.scenes[s].attempt
       /\ q.scenes[s].take = p.scenes[s].take
       /\ q.scenes[s].start = p.scenes[s].start

KeepsPlans(p, q) ==
  \A s \in Scenes :
    q.scenes[s].source = p.scenes[s].source /\ q.scenes[s].plan = p.scenes[s].plan

LEMMA UpdateKeeps ==
  ASSUME NEW p \in ProjectRecord, NEW t \in Scenes, NEW st \in Status
  PROVE  /\ Keeps(p, Update(p, t, st)) /\ KeepsPlans(p, Update(p, t, st))
         /\ \A s \in Scenes : s # t => Update(p, t, st).scenes[s] = p.scenes[s]
         /\ Update(p, t, st).scenes[t].status = st
         /\ Update(p, t, st).scenes[t].anchor = p.scenes[t].anchor
  <1>1. p.scenes \in [Scenes -> SceneRecord]
    BY SceneOfProject
  <1>2. /\ Update(p, t, st).scenes = [p.scenes EXCEPT ![t].status = st]
        /\ Update(p, t, st).video = p.video
    BY DEF Update, RefreshFinal, ProjectRecord
  <1> QED BY <1>1, <1>2 DEF Keeps, KeepsPlans, SceneRecord

LEMMA SetSceneFields ==
  ASSUME NEW p \in ProjectRecord, NEW t \in Scenes, NEW c
  PROVE  /\ SetScene(p, t, c).scenes[t] = c
         /\ \A s \in Scenes : s # t => SetScene(p, t, c).scenes[s] = p.scenes[s]
         /\ SetScene(p, t, c).video = p.video
  BY DEF SetScene, ProjectRecord

LEMMA RelabelKeeps ==
  ASSUME NEW p \in ProjectRecord, NEW a \in Status \ InFlight, NEW b \in Status
  PROVE  /\ Keeps(p, Relabel(p, a, b)) /\ KeepsPlans(p, Relabel(p, a, b))
         /\ \A s \in Scenes : p.scenes[s].status \in InFlight =>
              Relabel(p, a, b).scenes[s].status = p.scenes[s].status
  <1>1. /\ Relabel(p, a, b).video = p.video
        /\ \A s \in Scenes :
             Relabel(p, a, b).scenes[s] \in {p.scenes[s], [p.scenes[s] EXCEPT !.status = b]}
        /\ \A s \in Scenes : p.scenes[s].status \in InFlight =>
             Relabel(p, a, b).scenes[s] = p.scenes[s]
    BY DEF Relabel, ProjectRecord
  <1>2. \A s \in Scenes : p.scenes[s] \in SceneRecord
    BY SceneOfProject
  <1> QED BY <1>1, <1>2 DEF Keeps, KeepsPlans, SceneRecord

LEMMA CompileKeeps ==
  ASSUME NEW p \in ProjectRecord
  PROVE  /\ Keeps(p, CompileImagePlans(p))
         /\ \A s \in Scenes : CompileImagePlans(p).scenes[s].status = p.scenes[s].status
         /\ \A s \in Anchored :
              \/ CompileImagePlans(p).scenes[s].plan = "Blocked"
              \/ CompileImagePlans(p).scenes[s].source = p.scenes[s - 1].take
  <1> DEFINE q == CompileImagePlans(p)
  <1>1. /\ q.video = p.video
        /\ \A s \in Scenes :
             q.scenes[s] = [p.scenes[s] EXCEPT
               !.source = BestPreviousEndFrame(p, s),
               !.plan = IF p.refs /\ (s \in Anchored => BestPreviousEndFrame(p, s) # 0)
                        THEN "Ready" ELSE "Blocked"]
    BY DEF CompileImagePlans, ProjectRecord
  <1>2. \A s \in Scenes : p.scenes[s] \in SceneRecord
    BY SceneOfProject
  <1> HIDE DEF q
  <1>3. ASSUME NEW s \in Scenes
        PROVE  /\ q.scenes[s].attempt = p.scenes[s].attempt
               /\ q.scenes[s].take = p.scenes[s].take
               /\ q.scenes[s].start = p.scenes[s].start
               /\ q.scenes[s].status = p.scenes[s].status
               /\ q.scenes[s].source = BestPreviousEndFrame(p, s)
               /\ s \in Anchored /\ BestPreviousEndFrame(p, s) = 0 => q.scenes[s].plan = "Blocked"
    <2>1. PICK n, b : /\ q.scenes[s] = [p.scenes[s] EXCEPT !.source = n, !.plan = b]
                      /\ n = BestPreviousEndFrame(p, s)
                      /\ s \in Anchored /\ n = 0 => b = "Blocked"
      BY <1>1
    <2> QED BY <1>2, <2>1 DEF SceneRecord
  <1>4. \A s \in Anchored : BestPreviousEndFrame(p, s) \in {0, p.scenes[s - 1].take}
    BY DEF BestPreviousEndFrame
  <1>5. Anchored \subseteq Scenes
    BY SceneAssumption
  <1> QED BY <1>1, <1>3, <1>4, <1>5 DEF Keeps, q

(***************************************************************************)
(* The invariant, action by action.                                        *)
(***************************************************************************)
\* Between two scenes only what the document says of them is left to show.
LEMMA Landed ==
  ASSUME pc' \in {"loop", "none"}, cur' = 0, Counted(disk'), NoTakes(disk'), burst' = burst,
         burst \in [Scenes -> Nat], \A s \in Scenes : burst[s] <= MaxAuto,
         \A s \in queuedIds' : burst[s] < MaxAuto
  PROVE  PromiseOK'
  <1>1. 0 \notin Anchored
    BY SceneAssumption DEF Scenes
  <1>2. Counted(disk)' /\ NoTakes(disk)'
    BY DEF Counted, NoTakes
  <1>3. BudgetOK'
    BY <1>2 DEF BudgetOK, BeforeCall, HoldsSnapshot
  <1>4. StageOK' /\ FrameOK' /\ DemoOK'
    BY <1>1, <1>2 DEF StageOK, FrameOK, DemoOK, HoldsSnapshot
  <1> QED BY <1>3, <1>4 DEF PromiseOK

LEMMA PromiseTypes ==
  ASSUME PromiseInv
  PROVE  /\ disk \in ProjectRecord /\ \A s \in Scenes : disk.scenes[s] \in SceneRecord
         /\ burst \in [Scenes -> Nat] /\ queuedIds \subseteq Scenes /\ queue \in Seq(Scenes)
         /\ pc \in HoldsSnapshot =>
              snap \in ProjectRecord /\ \A s \in Scenes : snap.scenes[s] \in SceneRecord
         /\ pc \notin HoldsNothing => cur \in Scenes
         /\ pc \in HoldsNothing => cur = 0
  BY HoldsId, SceneOfProject DEF PromiseInv, QueueInv, TypeInv, TypeOK, ControlOK

LEMMA PromiseInit == Init => PromiseOK
  <1> SUFFICES ASSUME Init PROVE PromiseOK
    OBVIOUS
  <1>1. PICK v \in VideoModels, w \in VisionModels,
             before \in [Scenes -> WorldStates], after \in [Scenes -> WorldStates] :
          \/ \E opened \in SUBSET Scenes, refsQC \in {w, NoValue} :
               disk = FreshProject(v, w, refsQC, before, after, opened)
          \/ v \notin DemoModels /\ disk = RenderedProject(v, w, before, after)
    BY DEF Init, DocumentInit
  <1>2. disk \in ProjectRecord
    BY TypeInit DEF TypeInv, TypeOK
  <1>3. NoTakes(disk)
    <2>1. CASE v \notin DemoModels /\ disk = RenderedProject(v, w, before, after)
      <3>1. disk.video = v
        BY <2>1 DEF RenderedProject, RefreshFinal, CompileImagePlans
      <3> QED BY <2>1, <3>1 DEF NoTakes, Mock
    <2>2. ASSUME NEW opened \in SUBSET Scenes, NEW refsQC \in {w, NoValue},
                 disk = FreshProject(v, w, refsQC, before, after, opened)
          PROVE  NoTakes(disk)
      <3> DEFINE p == [scenes |-> [s \in Scenes |->
                                     FreshScene(before[s], after[s], s \notin opened)],
                       final |-> "NotReady", refs |-> TRUE, refsQC |-> refsQC,
                       master |-> 1, video |-> v, vision |-> w]
      <3>1. p \in ProjectRecord
        <4>1. \A a, b \in WorldStates, k \in BOOLEAN : FreshScene(a, b, k) \in SceneRecord
          BY DEF FreshScene, SceneRecord, Status, Acceptance, Evidence
        <4>2. [s \in Scenes |-> FreshScene(before[s], after[s], s \notin opened)]
                \in [Scenes -> SceneRecord]
          BY <4>1
        <4> QED BY <4>2 DEF ProjectRecord, FinalStatus
      <3>2. \A s \in Scenes : p.scenes[s].take = 0
        BY DEF FreshScene
      <3> HIDE DEF p
      <3>3. disk = CompileImagePlans(p)
        BY <2>2 DEF FreshProject, p
      <3>4. Keeps(p, disk)
        BY <3>1, <3>3, CompileKeeps
      <3> QED BY <3>2, <3>4 DEF Keeps, NoTakes
    <2> QED BY <1>1, <2>1, <2>2
  <1>4. /\ pc = "none" /\ cur = 0 /\ queuedIds = {} /\ burst = [s \in Scenes |-> 0]
        /\ \A s \in Scenes : disk.scenes[s].attempt \in Nat
    BY <1>2, SceneOfProject DEF Init, SceneRecord
  <1>5. 0 \notin Anchored /\ MaxAuto \in Nat
    BY SceneAssumption DEF Scenes
  <1>6. BudgetOK
    BY <1>4, <1>5 DEF BudgetOK, Counted, HoldsSnapshot, BeforeCall
  <1>7. StageOK /\ FrameOK /\ DemoOK
    BY <1>3, <1>4, <1>5 DEF StageOK, FrameOK, DemoOK, HoldsSnapshot
  <1> QED BY <1>6, <1>7 DEF PromiseOK

LEMMA ClearFields ==
  ASSUME NEW c \in SceneRecord, NEW force \in BOOLEAN
  PROVE  LET d == ClearForEnqueue(c, force) IN
         /\ d.attempt = IF force THEN 0 ELSE c.attempt
         /\ d.take = 0 /\ d.status = "Waiting" /\ d.source = c.source /\ d.plan = c.plan
         /\ d.start = 0
  BY DEF ClearForEnqueue, SceneRecord

LEMMA PromiseEnqueue ==
  ASSUME PromiseInv, NEW ids \in SUBSET Scenes, NEW force \in BOOLEAN, Enqueue(ids, force)
  PROVE  PromiseOK'
  <1> DEFINE E == Enqueued(ids)
  <1>1. /\ disk \in ProjectRecord /\ \A s \in Scenes : disk.scenes[s] \in SceneRecord
        /\ burst \in [Scenes -> Nat] /\ E \subseteq Scenes
        /\ MaxAuto \in Nat \ {0}
    BY PromiseTypes, EnqueuedType, SceneAssumption
  <1>2. /\ disk'.video = disk.video
        /\ \A s \in Scenes : s \notin E => disk'.scenes[s] = disk.scenes[s]
        /\ \A s \in E : disk'.scenes[s] = ClearForEnqueue(disk.scenes[s], force)
    BY <1>1 DEF Enqueue, Save, ProjectRecord
  <1>3. \A s \in E :
          /\ disk'.scenes[s].attempt \in Nat /\ disk'.scenes[s].take = 0
          /\ disk'.scenes[s].source = disk.scenes[s].source
          /\ disk'.scenes[s].plan = disk.scenes[s].plan
    <2> TAKE s \in E
    <2>1. disk.scenes[s] \in SceneRecord /\ disk.scenes[s].attempt \in Nat
      BY <1>1 DEF SceneRecord
    <2> QED BY <1>2, <2>1, ClearFields
  <1>4. /\ burst' = [s \in Scenes |-> IF s \in E THEN 0 ELSE burst[s]]
        /\ queuedIds' = queuedIds \cup E /\ UNCHANGED <<cur, snap, given>>
    BY DEF Enqueue
  <1>5. pc' = pc \/ (pc = "none" /\ pc' = "start")
    <2>1. StartWorker
      BY DEF Enqueue
    <2> QED BY <2>1 DEF StartWorker
  <1>6. pc \notin HoldsNothing => cur \in Scenes /\ cur \notin E /\ cur \in queuedIds
    <2> SUFFICES ASSUME pc \notin HoldsNothing
                 PROVE  cur \in Scenes /\ cur \notin E /\ cur \in queuedIds
      OBVIOUS
    <2>1. cur \in Scenes
      BY PromiseTypes
    <2>2. cur \in queuedIds
      BY <2>1, ZeroIsNoScene DEF PromiseInv, QueueInv, QueuedIdsExact
    <2> QED BY <2>1, <2>2 DEF Enqueued
  <1>7. pc # "none" => \A s \in E : disk.scenes[s].status \notin InFlight
    BY DEF Enqueued
  <1>8. PromiseOK
    BY DEF PromiseInv
  <1> HIDE DEF E
  <1>9. BudgetOK'
    <2>1. \A s \in Scenes : burst'[s] \in {0, burst[s]} /\ burst'[s] <= burst[s]
      BY <1>1, <1>4
    <2>2. Counted(disk)'
      BY <1>1, <1>2, <1>3, <1>4, <1>8 DEF PromiseOK, BudgetOK, Counted
    <2>3. pc' \in HoldsSnapshot => Counted(snap)'
      <3>1. pc \in HoldsSnapshot =>
              \A s \in Scenes : burst[s] <= snap.scenes[s].attempt
                                /\ snap.scenes[s].attempt \in Nat
        BY <1>8, PromiseTypes DEF PromiseOK, BudgetOK, Counted, SceneRecord
      <3> QED BY <1>1, <1>4, <1>5, <2>1, <3>1 DEF Counted, HoldsSnapshot
    <2>4. pc' = "counted" => burst'[cur'] < disk'.scenes[cur'].attempt
      BY <1>1, <1>2, <1>4, <1>5, <1>6, <1>8 DEF PromiseOK, BudgetOK, HoldsNothing
    <2>5. \A s \in Scenes : burst'[s] <= MaxAuto
      BY <1>1, <1>8, <2>1 DEF PromiseOK, BudgetOK
    <2>6. \A s \in queuedIds' \ {cur'} : burst'[s] < MaxAuto
      <3> TAKE s \in queuedIds' \ {cur'}
      <3>1. CASE s \in E
        BY <1>1, <1>4, <3>1
      <3>2. CASE s \notin E
        <4>1. s \in Scenes
          BY <1>4, <3>2, PromiseTypes
        <4> QED BY <1>1, <1>4, <1>8, <3>2, <4>1 DEF PromiseOK, BudgetOK
      <3> QED BY <3>1, <3>2
    <2>7. pc' \in BeforeCall => burst'[cur'] < MaxAuto
      BY <1>1, <1>4, <1>5, <1>6, <1>8 DEF PromiseOK, BudgetOK, BeforeCall, HoldsNothing
    <2> QED BY <2>2, <2>3, <2>4, <2>5, <2>6, <2>7 DEF BudgetOK
  <1>10. StageOK'
    <2>1. pc' \in HoldsSnapshot => \A s \in Scenes :
            snap.scenes[s].status \in InFlight =>
              disk'.scenes[s].status = snap.scenes[s].status
      BY <1>2, <1>5, <1>7, <1>8 DEF PromiseOK, StageOK, HoldsSnapshot
    <2> QED BY <1>2, <1>4, <1>5, <1>6, <1>8, <2>1 DEF PromiseOK, StageOK, HoldsNothing
  <1>11. FrameOK'
    <2> SUFFICES ASSUME cur \in Anchored, pc' = pc, pc \notin HoldsNothing PROVE FrameOK'
      BY <1>4, <1>5 DEF FrameOK, HoldsNothing
    <2>1. cur - 1 \in Scenes /\ cur \in Scenes
      BY SceneAssumption DEF Scenes
    <2>2. /\ disk'.scenes[cur - 1].take \in {0, disk.scenes[cur - 1].take}
          /\ disk'.scenes[cur] = disk.scenes[cur]
      BY <1>2, <1>3, <1>6, <2>1
    <2> QED BY <1>4, <1>8, <2>2 DEF PromiseOK, FrameOK
  <1>12. DemoOK'
    <2>1. NoTakes(disk)'
      BY <1>2, <1>3, <1>8 DEF PromiseOK, DemoOK, NoTakes, Mock
    <2> QED BY <1>2, <1>4, <1>5, <1>8, <2>1 DEF PromiseOK, DemoOK, HoldsSnapshot, Mock, NoTakes
  <1> QED BY <1>9, <1>10, <1>11, <1>12 DEF PromiseOK

\* Relabelling, deleting or losing the process gives nobody a call.
LEMMA PromiseControls ==
  ASSUME PromiseInv, Pause \/ Resume \/ Delete \/ Crash \/ UNCHANGED vars
  PROVE  PromiseOK'
  <1>1. /\ disk \in ProjectRecord /\ \A s \in Scenes : disk.scenes[s] \in SceneRecord
        /\ burst \in [Scenes -> Nat] /\ queuedIds \subseteq Scenes /\ PromiseOK
    BY PromiseTypes DEF PromiseInv
  <1>2. CASE Pause \/ Resume
    <2>1. PICK a \in Status \ InFlight, b \in Status : disk' = Relabel(disk, a, b)
      BY <1>2 DEF Pause, Resume, Save, Status, InFlight
    <2>2. /\ Keeps(disk, disk') /\ KeepsPlans(disk, disk')
          /\ \A s \in Scenes : disk.scenes[s].status \in InFlight =>
               disk'.scenes[s].status = disk.scenes[s].status
      BY <1>1, <2>1, RelabelKeeps
    <2>3. /\ UNCHANGED <<cur, snap, given, burst, queuedIds>>
          /\ \/ pc' = pc
             \/ pc = "wait1" /\ pc' = "woken1"
             \/ pc = "wait2" /\ pc' = "woken2"
      BY <1>2 DEF Pause, Resume
    <2>4. BudgetOK'
      <3>1. /\ Counted(disk)' /\ (Counted(snap) => Counted(snap)')
            /\ pc' \in HoldsSnapshot => pc \in HoldsSnapshot
            /\ pc' \in BeforeCall => pc \in BeforeCall
        BY <1>1, <2>2, <2>3
        DEF Counted, Keeps, HoldsSnapshot, BeforeCall, PromiseOK, BudgetOK
      <3>2. pc' = "counted" => burst'[cur'] < disk'.scenes[cur'].attempt
        <4>1. pc' = "counted" => cur \in Scenes
          BY <2>3, PromiseTypes DEF HoldsNothing
        <4> QED BY <1>1, <2>2, <2>3, <4>1 DEF Keeps, PromiseOK, BudgetOK
      <3> QED BY <1>1, <2>3, <3>1, <3>2 DEF PromiseOK, BudgetOK
    <2>5. StageOK'
      <3>1. pc' \in HoldsSnapshot => pc \in HoldsSnapshot
        BY <2>3 DEF HoldsSnapshot
      <3>2. pc' # "accepted"
        BY <1>2, <2>3 DEF Pause, Resume, Suspended
      <3> QED BY <1>1, <2>2, <2>3, <3>1, <3>2 DEF PromiseOK, StageOK
    <2>6. FrameOK'
      <3> SUFFICES ASSUME cur \in Anchored PROVE FrameOK'
        BY <2>3 DEF FrameOK
      <3>1. cur - 1 \in Scenes /\ cur \in Scenes
        BY SceneAssumption DEF Scenes
      <3>2. /\ disk'.scenes[cur - 1].take = disk.scenes[cur - 1].take
            /\ disk'.scenes[cur].take = disk.scenes[cur].take
            /\ disk'.scenes[cur].start = disk.scenes[cur].start
            /\ disk'.scenes[cur].plan = disk.scenes[cur].plan
            /\ disk'.scenes[cur].source = disk.scenes[cur].source
        BY <2>2, <3>1 DEF Keeps, KeepsPlans
      <3> QED BY <1>1, <2>3, <3>2 DEF PromiseOK, FrameOK
    <2>7. DemoOK'
      <3>1. NoTakes(disk)'
        BY <1>1, <2>2 DEF Keeps, NoTakes, Mock, PromiseOK, DemoOK
      <3>2. pc' \in HoldsSnapshot => NoTakes(snap)'
        BY <1>1, <2>3 DEF NoTakes, Mock, PromiseOK, DemoOK, HoldsSnapshot
      <3>3. pc' = "gen" /\ Mock(disk)' => given'.demo
        BY <1>1, <2>2, <2>3 DEF Keeps, Mock, PromiseOK, DemoOK
      <3> QED BY <3>1, <3>2, <3>3 DEF DemoOK
    <2> QED BY <2>4, <2>5, <2>6, <2>7 DEF PromiseOK
  <1>3. CASE Delete \/ UNCHANGED vars
    <2>1. UNCHANGED <<disk, queuedIds, pc, cur, snap, given, burst>>
      BY <1>3 DEF Delete, memory, vars
    <2> QED BY <1>1, <2>1 DEF PromiseOK, BudgetOK, StageOK, FrameOK, DemoOK, Counted, NoTakes, Mock
  <1>4. CASE Crash
    <2>1. /\ disk' = disk /\ burst' = burst /\ pc' = "none" /\ cur' = 0 /\ queuedIds' = {}
      BY <1>4 DEF Crash, Forget
    <2>2. Counted(disk') /\ NoTakes(disk')
      BY <1>1, <2>1 DEF PromiseOK, BudgetOK, DemoOK
    <2> QED BY <1>1, <2>1, <2>2, Landed DEF PromiseOK, BudgetOK
  <1> QED BY <1>2, <1>3, <1>4

\* The loop: taking an id, putting it back, giving it up, leaving.
LEMMA PromiseUnsaved ==
  ASSUME PromiseInv, Exit \/ Take \/ Gone \/ DeferToPredecessor
  PROVE  PromiseOK'
  <1>1. /\ burst \in [Scenes -> Nat] /\ PromiseOK /\ disk' = disk /\ burst' = burst
        /\ Counted(disk') /\ NoTakes(disk')
    BY PromiseTypes
    DEF PromiseInv, PromiseOK, BudgetOK, DemoOK, Exit, Take, Gone, DeferToPredecessor, History
  <1>2. CASE Exit
    <2>1. pc' = "none" /\ cur' = 0 /\ queuedIds' = queuedIds /\ cur = 0
          /\ \A s \in queuedIds : s # 0
      BY <1>2, PromiseTypes, ZeroIsNoScene DEF Exit, AtHead, HoldsNothing
    <2> QED BY <1>1, <2>1, Landed DEF PromiseOK, BudgetOK
  <1>3. CASE Gone
    <2>1. pc' = "none" /\ cur' = 0 /\ queuedIds' = queuedIds \ {cur}
      BY <1>3 DEF Gone, Done
    <2> QED BY <1>1, <2>1, Landed DEF PromiseOK, BudgetOK
  <1>4. CASE DeferToPredecessor
    <2>1. pc' = "loop" /\ cur' = 0 /\ queuedIds' = queuedIds /\ burst[cur] < MaxAuto
      BY <1>1, <1>4 DEF DeferToPredecessor, Requeue, Begins, PromiseOK, BudgetOK, BeforeCall
    <2> QED BY <1>1, <2>1, Landed DEF PromiseOK, BudgetOK
  <1>5. CASE Take
    <2>1. /\ pc' \in {"begin", "wait1"} /\ cur' = Head(queue) /\ queuedIds' = queuedIds
          /\ queue # <<>> /\ cur = 0
      BY <1>5, PromiseTypes DEF Take, AtHead, HoldsNothing
    <2>2. Head(queue) \in queuedIds /\ Head(queue) # 0
      <3>1. Head(queue) = queue[1] /\ 1 \in 1..Len(queue)
        BY <2>1, PromiseTypes, HeadTailProperties, EmptySeq, LenProperties
      <3>2. queuedIds \subseteq Scenes
        BY PromiseTypes
      <3> QED BY <3>1, <3>2, ZeroIsNoScene DEF PromiseInv, QueueInv, QueuedIdsExact, InQueue
    <2>3. burst[cur'] < MaxAuto /\ \A s \in queuedIds : burst[s] < MaxAuto
      <3>1. 0 \notin queuedIds
        BY PromiseTypes, ZeroIsNoScene
      <3> QED BY <1>1, <2>1, <2>2, <3>1 DEF PromiseOK, BudgetOK
    <2>4. BudgetOK'
      BY <1>1, <2>1, <2>3 DEF PromiseOK, BudgetOK, HoldsSnapshot, Counted
    <2>5. StageOK' /\ FrameOK' /\ DemoOK'
      BY <1>1, <2>1 DEF PromiseOK, StageOK, FrameOK, DemoOK, HoldsSnapshot, NoTakes, Mock
    <2> QED BY <2>4, <2>5 DEF PromiseOK
  <1> QED BY <1>2, <1>3, <1>4, <1>5

\* The exceptions and the Blocked verdicts.
LEMMA PromiseContained ==
  ASSUME PromiseInv, ContainedStep
  PROVE  PromiseOK'
  <1>1. /\ disk \in ProjectRecord /\ cur \in Scenes /\ burst \in [Scenes -> Nat]
        /\ PromiseOK /\ UNCHANGED burst /\ disk.scenes[cur] \in SceneRecord
    BY PromiseTypes, ContainedStepDoes DEF PromiseInv
  <1>2. PICK st \in Status, a \in Acceptance : Contained(st, a)
    BY ContainedStepDoes DEF Status, Acceptance
  <1>3. disk' = disk \/ Keeps(disk, disk')
    <2> DEFINE p == SetScene(disk, cur, [disk.scenes[cur] EXCEPT !.acc = a])
    <2>1. p \in ProjectRecord
      BY <1>1, AccType
    <2>2. Keeps(disk, p)
      <3>1. /\ p.scenes[cur] = [disk.scenes[cur] EXCEPT !.acc = a] /\ p.video = disk.video
            /\ \A s \in Scenes : s # cur => p.scenes[s] = disk.scenes[s]
        BY <1>1, SetSceneFields
      <3> HIDE DEF p
      <3> QED BY <1>1, <3>1 DEF Keeps, SceneRecord
    <2>3. disk' \in {disk, Update(p, cur, st)}
      BY <1>2 DEF Contained, Save, NoSave
    <2> HIDE DEF p
    <2> QED BY <1>1, <2>1, <2>2, <2>3, UpdateKeeps DEF Keeps
  <1>4. pc' = "loop" /\ cur' = 0 /\ queuedIds' = queuedIds \ {cur}
    BY <1>2 DEF Contained, Done
  <1>5. Counted(disk') /\ NoTakes(disk')
    BY <1>1, <1>3 DEF PromiseOK, BudgetOK, DemoOK, Counted, NoTakes, Keeps, Mock
  <1> QED BY <1>1, <1>4, <1>5, Landed DEF PromiseOK, BudgetOK

\* A document that keeps attempts and takes keeps what is said of them.
LEMMA KeepsSays ==
  ASSUME NEW p, NEW q, Keeps(p, q), burst' = burst
  PROVE  (Counted(p) => Counted(q)) /\ (NoTakes(p) => NoTakes(q))
  BY DEF Keeps, Counted, NoTakes, Mock

LEMMA PromiseRefs ==
  ASSUME PromiseInv, Prepare \/ RefsApproved \/ RefsRejected
  PROVE  PromiseOK'
  <1>1. /\ disk \in ProjectRecord /\ cur \in Scenes /\ burst \in [Scenes -> Nat] /\ PromiseOK
        /\ pc \notin HoldsNothing /\ burst' = burst
    BY PromiseTypes
    DEF PromiseInv, Prepare, Begins, RefsApproved, RefsRejected, HoldsNothing, History
  <1>2. CASE Prepare
    <2>1. /\ disk' = Update(disk, cur, "Preparing") /\ snap' = disk'
          /\ pc' \in {"masters", "refs"} /\ UNCHANGED <<queuedIds, cur, given>>
          /\ pc \in BeforeCall
      BY <1>2 DEF Prepare, Begins, Save, BeforeCall
    <2>2. Keeps(disk, disk')
      BY <1>1, <2>1, UpdateKeeps DEF Status
    <2>3. Counted(disk') /\ NoTakes(disk')
      BY <1>1, <2>2, KeepsSays DEF PromiseOK, BudgetOK, DemoOK
    <2>4. BudgetOK'
      BY <1>1, <2>1, <2>3 DEF PromiseOK, BudgetOK, Counted
    <2>5. StageOK' /\ FrameOK'
      BY <2>1 DEF StageOK, FrameOK
    <2>6. DemoOK'
      BY <2>1, <2>3 DEF DemoOK, NoTakes, Mock
    <2> QED BY <2>4, <2>5, <2>6 DEF PromiseOK
  <1>3. CASE RefsApproved
    <2>1. snap \in ProjectRecord /\ Counted(snap) /\ NoTakes(snap) /\ burst[cur] < MaxAuto
      BY <1>1, <1>3, PromiseTypes
      DEF RefsApproved, HoldsSnapshot, PromiseOK, BudgetOK, DemoOK, BeforeCall
    <2> DEFINE p == EnsureMasters(snap)
    <2>2. p \in ProjectRecord /\ p.video = snap.video /\ p.scenes = snap.scenes
      BY <2>1, EnsureType DEF EnsureMasters, ProjectRecord
    <2>3. /\ disk' = CompileImagePlans(p) /\ pc' \in {"render", "wait2"}
          /\ UNCHANGED <<queuedIds, cur, given>>
      BY <1>3 DEF RefsApproved, Save
    <2> HIDE DEF p
    <2>4. /\ Keeps(p, disk') /\ Keeps(snap, disk')
          /\ cur \in Anchored =>
               \/ disk'.scenes[cur].plan = "Blocked"
               \/ disk'.scenes[cur].source = p.scenes[cur - 1].take
      BY <2>2, <2>3, CompileKeeps DEF Keeps
    <2>5. Counted(disk') /\ NoTakes(disk')
      BY <1>1, <2>1, <2>4, KeepsSays
    <2>6. BudgetOK'
      BY <1>1, <2>1, <2>3, <2>5 DEF PromiseOK, BudgetOK, Counted, HoldsSnapshot
    <2>7. StageOK'
      BY <2>3 DEF StageOK, HoldsSnapshot
    <2>8. FrameOK'
      <3> SUFFICES ASSUME cur \in Anchored PROVE FrameOK'
        BY <2>3 DEF FrameOK
      <3>1. cur - 1 \in Scenes
        BY SceneAssumption DEF Scenes
      <3>2. disk'.scenes[cur - 1].take = p.scenes[cur - 1].take
        BY <2>4, <3>1 DEF Keeps
      <3> QED BY <2>3, <2>4, <3>2 DEF FrameOK
    <2>9. DemoOK'
      BY <2>3, <2>5 DEF DemoOK, NoTakes, Mock, HoldsSnapshot
    <2> QED BY <2>6, <2>7, <2>8, <2>9 DEF PromiseOK
  <1>4. CASE RefsRejected
    <2>1. snap \in ProjectRecord /\ Counted(snap) /\ NoTakes(snap)
          /\ snap.scenes[cur] \in SceneRecord
      BY <1>1, <1>4, PromiseTypes DEF RefsRejected, HoldsSnapshot, PromiseOK, BudgetOK, DemoOK
    <2> DEFINE p == [snap EXCEPT !.refs = FALSE, !.refsQC = NoValue, !.scenes[cur].acc = "Blocked"]
    <2>2. p \in ProjectRecord
      BY <1>1, <2>1, RejectedType
    <2>3. Keeps(snap, p)
      <3>1. /\ p.scenes[cur] = [snap.scenes[cur] EXCEPT !.acc = "Blocked"]
            /\ p.video = snap.video
            /\ \A s \in Scenes : s # cur => p.scenes[s] = snap.scenes[s]
        BY <1>1, <2>1 DEF ProjectRecord
      <3> HIDE DEF p
      <3> QED BY <1>1, <2>1, <3>1 DEF Keeps, SceneRecord
    <2>4. /\ disk' = Update(p, cur, "Blocked") /\ pc' = "loop" /\ cur' = 0
          /\ queuedIds' = queuedIds \ {cur}
      BY <1>4 DEF RefsRejected, Save, Done
    <2> HIDE DEF p
    <2>5. Keeps(snap, disk')
      BY <1>1, <2>2, <2>3, <2>4, UpdateKeeps DEF Keeps, Status
    <2>6. Counted(disk') /\ NoTakes(disk')
      BY <1>1, <2>1, <2>5, KeepsSays
    <2> QED BY <1>1, <2>4, <2>6, Landed DEF PromiseOK, BudgetOK
  <1> QED BY <1>2, <1>3, <1>4

LEMMA PromiseRendering ==
  ASSUME PromiseInv, CountAttempt \/ Generate \/ Generated \/ MarkQC
  PROVE  PromiseOK'
  <1>1. /\ disk \in ProjectRecord /\ cur \in Scenes /\ burst \in [Scenes -> Nat] /\ PromiseOK
        /\ \A s \in Scenes : disk.scenes[s] \in SceneRecord
        /\ cur \in Anchored => cur - 1 \in Scenes /\ cur - 1 # cur
        /\ MaxAuto \in Nat
    <2>1. cur \in Scenes
      BY PromiseTypes DEF CountAttempt, Renders, Generate, Generated, MarkQC, HoldsNothing
    <2> QED BY <2>1, PromiseTypes, SceneAssumption DEF PromiseInv, Scenes
  <1>2. CASE CountAttempt
    <2>1. /\ disk' = [disk EXCEPT !.scenes[cur].attempt = @ + 1] /\ pc' = "counted"
          /\ UNCHANGED <<queuedIds, cur, snap, given, burst>>
          /\ pc \in {"render", "woken2"}
      BY <1>2 DEF CountAttempt, Renders, Save, History
    <2>2. /\ disk'.video = disk.video
          /\ \A s \in Scenes : s # cur => disk'.scenes[s] = disk.scenes[s]
          /\ disk'.scenes[cur] = [disk.scenes[cur] EXCEPT !.attempt = @ + 1]
      BY <1>1, <2>1 DEF ProjectRecord
    <2>3. /\ disk'.scenes[cur].attempt = disk.scenes[cur].attempt + 1
          /\ disk'.scenes[cur].take = disk.scenes[cur].take
          /\ disk'.scenes[cur].plan = disk.scenes[cur].plan
          /\ disk'.scenes[cur].source = disk.scenes[cur].source
          /\ disk.scenes[cur].attempt \in Nat
      BY <1>1, <2>2 DEF SceneRecord
    <2>4. BudgetOK'
      BY <1>1, <2>1, <2>2, <2>3
      DEF PromiseOK, BudgetOK, Counted, HoldsSnapshot, BeforeCall
    <2>5. StageOK' /\ DemoOK'
      BY <1>1, <2>1, <2>2, <2>3 DEF PromiseOK, StageOK, DemoOK, NoTakes, Mock, HoldsSnapshot
    <2>6. FrameOK'
      BY <1>1, <2>1, <2>2, <2>3 DEF PromiseOK, FrameOK
    <2> QED BY <2>4, <2>5, <2>6 DEF PromiseOK
  <1>3. CASE Generate
    <2>1. /\ disk' = Update(disk, cur, "Generating") /\ given' = Bound(disk, cur)
          /\ burst' = [burst EXCEPT ![cur] = @ + 1] /\ pc = "counted"
          /\ pc' = IF disk.scenes[cur].plan = "Blocked" /\ ~Mock(disk) THEN "refused" ELSE "gen"
          /\ UNCHANGED <<queuedIds, cur, snap>>
      BY <1>3 DEF Generate, Save
    <2>2. Keeps(disk, disk') /\ KeepsPlans(disk, disk')
      BY <1>1, <2>1, UpdateKeeps DEF Status
    <2>3. BudgetOK'
      <3>1. Counted(disk)'
        <4>1. \A s \in Scenes : disk.scenes[s].attempt \in Nat
          BY <1>1 DEF SceneRecord
        <4> QED BY <1>1, <2>1, <2>2, <4>1 DEF PromiseOK, BudgetOK, Counted, Keeps
      <3>2. burst[cur] < MaxAuto
        BY <1>1, <2>1 DEF PromiseOK, BudgetOK, BeforeCall
      <3>3. /\ \A s \in Scenes : burst'[s] <= MaxAuto
            /\ \A s \in queuedIds' \ {cur'} : burst'[s] < MaxAuto
        <4>1. queuedIds \subseteq Scenes
          BY PromiseTypes
        <4> QED BY <1>1, <2>1, <3>2, <4>1 DEF PromiseOK, BudgetOK
      <3> QED BY <2>1, <3>1, <3>3 DEF BudgetOK, HoldsSnapshot, BeforeCall
    <2>4. StageOK' /\ DemoOK'
      <3>1. NoTakes(disk)'
        BY <1>1, <2>2, KeepsSays DEF Keeps, NoTakes, Mock, PromiseOK, DemoOK
      <3>2. given'.demo = Mock(disk) /\ Mock(disk)' = Mock(disk)
        BY <2>1, <2>2 DEF Bound, Keeps, Mock
      <3> QED BY <2>1, <3>1, <3>2 DEF StageOK, DemoOK, HoldsSnapshot, Mock
    <2>5. FrameOK'
      <3> SUFFICES ASSUME cur \in Anchored PROVE FrameOK'
        BY <2>1 DEF FrameOK
      <3>1. /\ disk'.scenes[cur - 1].take = disk.scenes[cur - 1].take
            /\ disk.scenes[cur - 1].take = 0 \/ disk.scenes[cur].plan = "Blocked"
               \/ disk.scenes[cur].source = disk.scenes[cur - 1].take
        BY <1>1, <2>1, <2>2 DEF Keeps, PromiseOK, FrameOK
      <3>2. given'.start = disk.scenes[cur].source
        BY <2>1 DEF Bound
      <3>3. Mock(disk) => disk.scenes[cur - 1].take = 0
        <4>1. cur - 1 \in Scenes
          BY SceneAssumption DEF Scenes
        <4> QED BY <4>1 DEF PromiseInv, PromiseOK, DemoOK, NoTakes
      <3> QED BY <2>1, <3>1, <3>2, <3>3 DEF FrameOK
    <2> QED BY <2>3, <2>4, <2>5 DEF PromiseOK
  <1>4. CASE Generated
    <2>1. PICK take \in {0, made[cur]} :
            /\ given.demo => take = 0
            /\ disk' = SetScene(disk, cur, WithTake(disk.scenes[cur], take))
      BY <1>4 DEF Generated, Save
    <2>2. /\ pc = "gen" /\ pc' = "saved" /\ UNCHANGED <<queuedIds, cur, snap, burst>>
      BY <1>4 DEF Generated, History
    <2>3. /\ disk'.video = disk.video
          /\ \A s \in Scenes : s # cur => disk'.scenes[s] = disk.scenes[s]
          /\ disk'.scenes[cur].take = take
          /\ disk'.scenes[cur].attempt = disk.scenes[cur].attempt
          /\ take # 0 => disk'.scenes[cur].start = given.start
      <3>1. /\ disk'.video = disk.video
            /\ \A s \in Scenes : s # cur => disk'.scenes[s] = disk.scenes[s]
            /\ disk'.scenes[cur] = WithTake(disk.scenes[cur], take)
        BY <1>1, <2>1, SetSceneFields
      <3>2. disk.scenes[cur] \in SceneRecord
        BY <1>1
      <3> QED BY <3>1, <3>2 DEF WithTake, SceneRecord
    <2>4. BudgetOK'
      BY <1>1, <2>2, <2>3 DEF PromiseOK, BudgetOK, Counted, HoldsSnapshot, BeforeCall
    <2>5. StageOK' /\ DemoOK'
      BY <1>1, <2>1, <2>2, <2>3 DEF PromiseOK, StageOK, DemoOK, NoTakes, Mock, HoldsSnapshot
    <2>6. FrameOK'
      BY <1>1, <2>2, <2>3 DEF PromiseOK, FrameOK
    <2> QED BY <2>4, <2>5, <2>6 DEF PromiseOK
  <1>5. CASE MarkQC
    <2>1. /\ disk' = Update(disk, cur, "QC") /\ snap' = disk' /\ pc = "saved"
          /\ pc' \in {"judge", "qc"} /\ UNCHANGED <<queuedIds, cur, given, burst>>
      BY <1>5 DEF MarkQC, Save, History
    <2>2. Keeps(disk, disk')
      BY <1>1, <2>1, UpdateKeeps DEF Status
    <2>3. Counted(disk') /\ NoTakes(disk')
      BY <1>1, <2>1, <2>2, KeepsSays DEF PromiseOK, BudgetOK, DemoOK
    <2>4. BudgetOK'
      BY <1>1, <2>1, <2>3 DEF PromiseOK, BudgetOK, Counted, BeforeCall
    <2>5. StageOK' /\ DemoOK'
      BY <2>1, <2>3 DEF StageOK, DemoOK, NoTakes, Mock
    <2>6. FrameOK'
      <3> SUFFICES ASSUME cur \in Anchored PROVE FrameOK'
        BY <2>1 DEF FrameOK
      <3>1. /\ disk'.scenes[cur - 1].take = disk.scenes[cur - 1].take
            /\ disk'.scenes[cur].take = disk.scenes[cur].take
            /\ disk'.scenes[cur].start = disk.scenes[cur].start
        BY <1>1, <2>2 DEF Keeps
      <3> QED BY <1>1, <2>1, <3>1 DEF PromiseOK, FrameOK
    <2> QED BY <2>4, <2>5, <2>6 DEF PromiseOK
  <1> QED BY <1>2, <1>3, <1>4, <1>5

LEMMA JudgedFields ==
  ASSUME snap \in ProjectRecord, cur \in Scenes, NEW verdict, NEW evidence
  PROVE  LET c == snap.scenes[cur]
             j == Judged(verdict, evidence) IN
         /\ j.attempt = c.attempt /\ j.take = c.take /\ j.start = c.start
         /\ j.anchor = IF HasPrevious(cur) THEN snap.scenes[cur - 1].take ELSE 0
         /\ CommitAccepted(j).attempt = c.attempt /\ CommitAccepted(j).take = c.take
         /\ CommitAccepted(j).start = c.start /\ CommitAccepted(j).anchor = j.anchor
  <1>1. snap.scenes[cur] \in SceneRecord
    BY SceneOfProject
  <1> DEFINE n == IF HasPrevious(cur) THEN snap.scenes[cur - 1].take ELSE 0
             j == Judged(verdict, evidence)
  <1>2. j = [snap.scenes[cur] EXCEPT !.acc = verdict, !.qc = evidence, !.anchor = n,
                                     !.renderModel = snap.video, !.qcModel = snap.vision]
    BY DEF Judged
  <1> HIDE DEF n, j
  <1>3. /\ j.attempt = snap.scenes[cur].attempt /\ j.take = snap.scenes[cur].take
        /\ j.start = snap.scenes[cur].start /\ j.anchor = n
    BY <1>1, <1>2 DEF SceneRecord
  <1>4. /\ CommitAccepted(j).attempt = j.attempt /\ CommitAccepted(j).take = j.take
        /\ CommitAccepted(j).start = j.start /\ CommitAccepted(j).anchor = j.anchor
    BY <1>1, <1>2 DEF CommitAccepted, SceneRecord
  <1> QED BY <1>3, <1>4 DEF n, j

\* A verdict is written over the snapshot.
VerdictOn(c, st) == Update(SetScene(snap, cur, c), cur, st)

LEMMA VerdictKeeps ==
  ASSUME snap \in ProjectRecord, cur \in Scenes, NEW c \in SceneRecord, NEW st \in Status,
         c.attempt = snap.scenes[cur].attempt, c.take = snap.scenes[cur].take,
         c.start = snap.scenes[cur].start
  PROVE  /\ Keeps(snap, VerdictOn(c, st))
         /\ VerdictOn(c, st).scenes[cur].status = st
         /\ VerdictOn(c, st).scenes[cur].anchor = c.anchor
         /\ \A s \in Scenes : s # cur => VerdictOn(c, st).scenes[s] = snap.scenes[s]
  <1> DEFINE p == SetScene(snap, cur, c)
  <1>1. p \in ProjectRecord
    BY SetSceneType
  <1>2. /\ p.scenes[cur] = c /\ p.video = snap.video
        /\ \A s \in Scenes : s # cur => p.scenes[s] = snap.scenes[s]
    BY SetSceneFields
  <1> HIDE DEF p
  <1>3. Keeps(snap, p)
    BY <1>2 DEF Keeps
  <1>4. /\ Keeps(p, Update(p, cur, st)) /\ Update(p, cur, st).scenes[cur].status = st
        /\ Update(p, cur, st).scenes[cur].anchor = c.anchor
        /\ \A s \in Scenes : s # cur => Update(p, cur, st).scenes[s] = snap.scenes[s]
    BY <1>1, <1>2, UpdateKeeps
  <1>5. VerdictOn(c, st) = Update(p, cur, st)
    BY DEF VerdictOn, p
  <1> QED BY <1>3, <1>4, <1>5 DEF Keeps

\* What QCAccepts saves.
LEMMA AcceptsWrites ==
  ASSUME PromiseInv, QCAccepts
  PROVE  /\ snap \in ProjectRecord /\ cur \in Scenes /\ pc' = "accepted" /\ pc \in {"qc", "judge"}
         /\ UNCHANGED <<queuedIds, cur, given, burst>>
         /\ Keeps(snap, disk') /\ disk'.scenes[cur].status = "Accepted"
         /\ disk'.scenes[cur].anchor = IF HasPrevious(cur) THEN snap.scenes[cur - 1].take ELSE 0
         /\ \A s \in Scenes : s # cur => disk'.scenes[s] = snap.scenes[s]
         /\ queue' = queue
  <1>1. snap \in ProjectRecord /\ cur \in Scenes
    BY PromiseTypes DEF QCAccepts, HoldsSnapshot, HoldsNothing
  <1>2. PICK evidence \in {"Passed", "Low"} :
          disk' = VerdictOn(CommitAccepted(Judged("Accepted", evidence)), "Accepted")
    BY DEF QCAccepts, Save, VerdictOn
  <1> DEFINE c == CommitAccepted(Judged("Accepted", evidence))
  <1>3. c \in SceneRecord
    <2>1. Judged("Accepted", evidence) \in SceneRecord
      BY <1>1, JudgedType DEF Acceptance, Evidence
    <2> QED BY <2>1 DEF CommitAccepted, SceneRecord
  <1>4. /\ c.attempt = snap.scenes[cur].attempt /\ c.take = snap.scenes[cur].take
        /\ c.start = snap.scenes[cur].start
        /\ c.anchor = IF HasPrevious(cur) THEN snap.scenes[cur - 1].take ELSE 0
    BY <1>1, JudgedFields
  <1> HIDE DEF c
  <1>5. disk' = VerdictOn(c, "Accepted")
    BY <1>2 DEF c
  <1>6. "Accepted" \in Status
    BY DEF Status
  <1>7. /\ Keeps(snap, disk') /\ disk'.scenes[cur].status = "Accepted"
        /\ disk'.scenes[cur].anchor = c.anchor
        /\ \A s \in Scenes : s # cur => disk'.scenes[s] = snap.scenes[s]
    BY <1>1, <1>3, <1>4, <1>5, <1>6, VerdictKeeps
  <1> QED BY <1>1, <1>4, <1>7 DEF QCAccepts, History

LEMMA PromiseVerdicts ==
  ASSUME PromiseInv, QCAccepts \/ QCRejects \/ RetryRepair \/ ManualReview
  PROVE  PromiseOK'
  <1>1. /\ snap \in ProjectRecord /\ cur \in Scenes /\ burst \in [Scenes -> Nat] /\ PromiseOK
        /\ pc \in HoldsSnapshot /\ Counted(snap) /\ NoTakes(snap) /\ burst' = burst
        /\ snap.scenes[cur] \in SceneRecord /\ MaxAuto \in Nat
    <2>1. pc \in HoldsSnapshot /\ pc \notin HoldsNothing /\ burst' = burst
      BY DEF QCAccepts, QCRejects, RetryRepair, ManualReview, HoldsSnapshot, HoldsNothing, History
    <2> QED BY <2>1, PromiseTypes, SceneAssumption DEF PromiseInv, PromiseOK, BudgetOK, DemoOK
  <1>2. CASE QCAccepts
    <2>1. /\ UNCHANGED <<queuedIds, cur, given>> /\ pc' = "accepted"
          /\ Keeps(snap, disk') /\ disk'.scenes[cur].status = "Accepted"
      BY <1>2, AcceptsWrites
    <2>2. Counted(disk') /\ NoTakes(disk')
      BY <1>1, <2>1, KeepsSays
    <2>3. BudgetOK'
      BY <1>1, <2>1, <2>2 DEF PromiseOK, BudgetOK, Counted, HoldsSnapshot, BeforeCall
    <2>4. StageOK' /\ FrameOK' /\ DemoOK'
      BY <2>1, <2>2 DEF StageOK, FrameOK, DemoOK, NoTakes, Mock, HoldsSnapshot
    <2> QED BY <2>3, <2>4 DEF PromiseOK
  <1>3. CASE QCRejects
    <2> DEFINE c == Judged("Rejected", "Failed")
    <2>1. c \in SceneRecord
      BY <1>1, JudgedType DEF Acceptance, Evidence
    <2>2. /\ c.attempt = snap.scenes[cur].attempt /\ c.take = snap.scenes[cur].take
          /\ c.start = snap.scenes[cur].start
      BY <1>1, JudgedFields
    <2>3. /\ disk' = VerdictOn(c, "FailedQC") /\ snap' = disk' /\ pc' = "rejected"
          /\ UNCHANGED <<queuedIds, cur, given>>
      BY <1>3 DEF QCRejects, Save, VerdictOn
    <2> HIDE DEF c
    <2>4. Keeps(snap, disk') /\ disk'.scenes[cur].status = "FailedQC"
      BY <1>1, <2>1, <2>2, <2>3, VerdictKeeps DEF Status
    <2>5. Counted(disk') /\ NoTakes(disk')
      BY <1>1, <2>4, KeepsSays
    <2>6. BudgetOK'
      BY <1>1, <2>3, <2>5 DEF PromiseOK, BudgetOK, Counted, BeforeCall
    <2>7. StageOK' /\ FrameOK' /\ DemoOK'
      BY <2>3, <2>4, <2>5 DEF StageOK, FrameOK, DemoOK, NoTakes, Mock
    <2> QED BY <2>6, <2>7 DEF PromiseOK
  <1>4. CASE RetryRepair
    <2> DEFINE c == ClearForRepair(snap.scenes[cur])
               p == SetScene(snap, cur, c)
    <2>1. c \in SceneRecord /\ c.attempt = snap.scenes[cur].attempt /\ c.take = 0
      BY <1>1, ClearType, ClearFields DEF ClearForRepair
    <2>2. /\ p \in ProjectRecord /\ p.scenes[cur] = c /\ p.video = snap.video
          /\ \A s \in Scenes : s # cur => p.scenes[s] = snap.scenes[s]
      BY <1>1, <2>1, SetSceneType, SetSceneFields
    <2>3. /\ disk' = Update(p, cur, "Waiting") /\ pc' = "loop" /\ cur' = 0
          /\ queuedIds' = queuedIds /\ snap.scenes[cur].attempt < MaxAuto
      BY <1>4 DEF RetryRepair, Save, Requeue, CanAutoRetry
    <2> HIDE DEF c, p
    <2>4. Keeps(p, disk')
      BY <1>1, <2>2, <2>3, UpdateKeeps DEF Status
    <2>5. Counted(p) /\ NoTakes(p)
      BY <1>1, <2>1, <2>2 DEF Counted, NoTakes, Mock
    <2>6. Counted(disk') /\ NoTakes(disk')
      BY <1>1, <2>4, <2>5, KeepsSays
    <2>7. burst[cur] < MaxAuto
      BY <1>1, <2>3 DEF Counted, SceneRecord
    <2> QED BY <1>1, <2>3, <2>6, <2>7, Landed DEF PromiseOK, BudgetOK
  <1>5. CASE ManualReview
    <2>1. disk' = snap /\ pc' = "loop" /\ cur' = 0 /\ queuedIds' = queuedIds \ {cur}
      BY <1>5 DEF ManualReview, Save, Done
    <2> QED BY <1>1, <2>1, Landed DEF PromiseOK, BudgetOK
  <1> QED BY <1>2, <1>3, <1>4, <1>5

LEMMA PromisePropagate ==
  ASSUME PromiseInv, Propagate
  PROVE  PromiseOK'
  <1>1. /\ disk \in ProjectRecord /\ burst \in [Scenes -> Nat] /\ PromiseOK
        /\ pc' = "loop" /\ cur' = 0 /\ queuedIds' = queuedIds \ {cur} /\ burst' = burst
        /\ disk' \in {disk, CompileImagePlans(disk)}
    BY PromiseTypes DEF PromiseInv, Propagate, Save, NoSave, Done, History
  <1>2. Counted(disk') /\ NoTakes(disk')
    BY <1>1, CompileKeeps, KeepsSays DEF PromiseOK, BudgetOK, DemoOK
  <1> QED BY <1>1, <1>2, Landed DEF PromiseOK, BudgetOK

LEMMA PromiseStep == PromiseInv /\ [Next]_vars => PromiseInv'
  <1> SUFFICES ASSUME PromiseInv, [Next]_vars PROVE PromiseOK'
    BY TypeStep, ExactStep DEF PromiseInv, QueueInv
  <1>1. ASSUME NEW ids \in SUBSET Scenes, NEW force \in BOOLEAN, Enqueue(ids, force)
        PROVE  PromiseOK'
    BY <1>1, PromiseEnqueue
  <1>2. CASE Pause \/ Resume \/ Delete \/ Crash \/ UNCHANGED vars
    BY <1>2, PromiseControls
  <1>3. CASE ContainedStep
    BY <1>3, PromiseContained
  <1>4. CASE Exit \/ Take \/ Gone \/ DeferToPredecessor
    BY <1>4, PromiseUnsaved
  <1>5. CASE Prepare \/ RefsApproved \/ RefsRejected
    BY <1>5, PromiseRefs
  <1>6. CASE CountAttempt \/ Generate \/ Generated \/ MarkQC
    BY <1>6, PromiseRendering
  <1>7. CASE QCAccepts \/ QCRejects \/ RetryRepair \/ ManualReview \/ Propagate
    BY <1>7, PromiseVerdicts, PromisePropagate
  <1> QED
    BY <1>1, <1>2, <1>3, <1>4, <1>5, <1>6, <1>7 DEF Next, Worker, ContainedStep

LEMMA PromiseHolds == Spec => []PromiseInv
  <1>1. Init => PromiseInv
    BY TypeInit, EmptyExact, PromiseInit DEF Init, QueueInv, PromiseInv
  <1> QED BY <1>1, PromiseStep, PTL DEF Spec

(***************************************************************************)
(* The theorems.                                                           *)
(***************************************************************************)
\* One request never costs more than MAX_AUTO_RENDER_ATTEMPTS provider calls
\* of a scene, whatever is paused, requested again, repaired or restarted
\* (enqueue, qc_repair.can_auto_retry).
THEOREM BudgetIsKept == Spec => []RetryBudget
  <1>1. PromiseInv => RetryBudget
    BY DEF PromiseInv, PromiseOK, BudgetOK, RetryBudget
  <1> QED BY <1>1, PromiseHolds, PTL

\* Every provider call since the request is counted on disk, and no save of
\* the worker, however old its copy, takes the count back (render_queue._run).
THEOREM AttemptsAreCounted == Spec => []AttemptCountedFirst
  <1>1. PromiseInv => AttemptCountedFirst
    BY DEF PromiseInv, PromiseOK, BudgetOK, Counted, AttemptCountedFirst
  <1> QED BY <1>1, PromiseHolds, PTL

\* The merge never opens on a project of the demo provider (MockProvider,
\* _refresh_final_video).
THEOREM DemoStaysClosed == Spec => []DemoNeverMerges
  <1>1. PromiseInv /\ ReadyMeansAllReady => DemoNeverMerges
    <2>1. 1 \in Scenes
      BY SceneAssumption DEF Scenes
    <2> QED BY <2>1
        DEF PromiseInv, PromiseOK, DemoOK, NoTakes, DemoNeverMerges, ReadyMeansAllReady,
            ProductionReady
  <1> QED BY <1>1, PromiseHolds, ReadyIsHonest, PTL

\* The worker lets go of an id only by leaving the scene in hand.
LEMMA LetsGo ==
  ASSUME PromiseInv, Next, pc' # "none", exists', NEW s \in queuedIds \ queuedIds'
  PROVE  /\ s = cur /\ cur \in Scenes
         /\ ContainedStep \/ RefsRejected \/ ManualReview \/ Propagate
  <1>1. ~(Crash \/ Exit \/ Gone)
    BY DEF Crash, Forget, Exit, Gone, Done
  <1>2. \A ids \in SUBSET Scenes, force \in BOOLEAN : ~Enqueue(ids, force)
    BY DEF Enqueue
  <1>3. ~(Pause \/ Resume \/ Delete \/ Take \/ DeferToPredecessor \/ Prepare \/ RefsApproved)
    BY DEF Pause, Resume, Delete, memory, Take, DeferToPredecessor, Requeue, Prepare, RefsApproved
  <1>4. ~(CountAttempt \/ Generate \/ Generated \/ MarkQC \/ QCAccepts \/ QCRejects \/ RetryRepair)
    BY DEF CountAttempt, Generate, Generated, MarkQC, QCAccepts, QCRejects, RetryRepair, Requeue
  <1>5. ContainedStep \/ RefsRejected \/ ManualReview \/ Propagate
    BY <1>1, <1>2, <1>3, <1>4 DEF Next, Worker, ContainedStep
  <1>6. Done("loop")
    BY <1>5, ContainedStepDoes DEF Contained, RefsRejected, ManualReview, Propagate
  <1>7. s = cur
    BY <1>6 DEF Done
  <1>8. cur \in Scenes
    BY <1>7, PromiseTypes
  <1> QED BY <1>5, <1>7, <1>8

\* No path through the worker's loop drops a scene that still shows Waiting or
\* a stage of rendering (the finally block of render_queue._run).
THEOREM VerdictBeforeLeaving == Spec => LeavesWithVerdict
  <1>1. ASSUME PromiseInv, [Next]_vars
        PROVE  [exists' /\ pc' # "none" =>
                  \A s \in queuedIds \ queuedIds' : disk'.scenes[s].status \in Settled]_vars
    <2> SUFFICES ASSUME Next, exists', pc' # "none", NEW s \in queuedIds \ queuedIds'
                 PROVE  disk'.scenes[s].status \in Settled
      BY <1>1
    <2>1. /\ s = cur /\ cur \in Scenes
          /\ ContainedStep \/ RefsRejected \/ ManualReview \/ Propagate
      BY <1>1, LetsGo
    <2>2. disk \in ProjectRecord /\ PromiseOK
      BY <1>1, PromiseTypes DEF PromiseInv
    <2>3. CASE ContainedStep
      <3>1. PICK st \in {"Blocked", "Failed"}, a \in Acceptance : Contained(st, a)
        BY <2>3, ContainedStepDoes DEF Acceptance
      <3>2. SetScene(disk, cur, [disk.scenes[cur] EXCEPT !.acc = a]) \in ProjectRecord
        BY <2>1, <2>2, AccType
      <3>3. disk' = Update(SetScene(disk, cur, [disk.scenes[cur] EXCEPT !.acc = a]), cur, st)
        BY <3>1 DEF Contained, Save, NoSave
      <3>4. disk'.scenes[cur].status = st
        BY <2>1, <3>2, <3>3, UpdateKeeps DEF Status
      <3> QED BY <2>1, <3>4 DEF Settled
    <2>4. CASE RefsRejected
      <3> DEFINE p == [snap EXCEPT !.refs = FALSE, !.refsQC = NoValue,
                                   !.scenes[cur].acc = "Blocked"]
      <3>1. p \in ProjectRecord
        BY <1>1, <2>1, <2>4, PromiseTypes, RejectedType DEF RefsRejected, HoldsSnapshot
      <3>2. disk' = Update(p, cur, "Blocked")
        BY <2>4 DEF RefsRejected, Save
      <3> HIDE DEF p
      <3>3. disk'.scenes[cur].status = "Blocked"
        BY <2>1, <3>1, <3>2, UpdateKeeps DEF Status
      <3> QED BY <2>1, <3>3 DEF Settled
    <2>5. CASE ManualReview
      BY <2>1, <2>2, <2>5 DEF ManualReview, Save, PromiseOK, StageOK, Settled
    <2>6. CASE Propagate
      <3>1. disk' \in {disk, CompileImagePlans(disk)} /\ disk.scenes[cur].status = "Accepted"
        BY <2>2, <2>6 DEF Propagate, Save, NoSave, PromiseOK, StageOK
      <3> QED BY <2>1, <2>2, <3>1, CompileKeeps DEF Settled
    <2> QED BY <2>1, <2>3, <2>4, <2>5, <2>6
  <1> QED BY <1>1, PromiseHolds, PTL DEF Spec, LeavesWithVerdict

\* A scene is accepted against the frame its predecessor has at that moment,
\* although the predecessor may be enqueued again at any point of its rendering
\* (scene_continuity, visual_qc, commit_accepted_runtime_state).
THEOREM AcceptedAgainstFrame == Spec => AcceptedAgainstCurrentFrame
  <1> DEFINE A == pc' = "accepted" /\ cur \in Direct /\ ~Mock(disk') =>
                    LET c == disk'.scenes[cur]
                        before == disk'.scenes[cur - 1] IN
                    /\ before.take # 0 /\ c.anchor = before.take
                    /\ cur \in Anchored => c.start = before.take
  <1>1. ASSUME PromiseInv, [Next]_vars
        PROVE  [A]_vars
    <2> SUFFICES ASSUME Next, pc' = "accepted", cur \in Direct, ~Mock(disk')
                 PROVE  LET c == disk'.scenes[cur]
                            before == disk'.scenes[cur - 1] IN
                        /\ before.take # 0 /\ c.anchor = before.take
                        /\ cur \in Anchored => c.start = before.take
      BY <1>1
    <2>1. QCAccepts
      <3>1. \A ids \in SUBSET Scenes, force \in BOOLEAN : ~Enqueue(ids, force)
        BY DEF Enqueue, StartWorker, Suspended
      <3>2. ~(Pause \/ Resume \/ Delete \/ Crash \/ ContainedStep)
        <4>1. ~ContainedStep
          BY ContainedStepDoes DEF Contained, Done
        <4> QED BY <4>1 DEF Pause, Resume, Delete, memory, Suspended, Crash, Forget
      <3>3. ~(Exit \/ Take \/ Gone \/ DeferToPredecessor \/ Prepare \/ RefsApproved \/ RefsRejected)
        BY DEF Exit, Take, Gone, DeferToPredecessor, Requeue, Prepare, RefsApproved, RefsRejected,
           Done
      <3>4. ~(CountAttempt \/ Generate \/ Generated \/ MarkQC)
        BY DEF CountAttempt, Generate, Generated, MarkQC
      <3>5. ~(QCRejects \/ RetryRepair \/ ManualReview \/ Propagate)
        BY DEF QCRejects, RetryRepair, Requeue, ManualReview, Propagate, Done
      <3> QED BY <3>1, <3>2, <3>3, <3>4, <3>5 DEF Next, Worker, ContainedStep
    <2>2. cur - 1 \in Scenes /\ cur \in Scenes /\ cur - 1 # cur
      BY SceneAssumption DEF Scenes
    <2>3. /\ pc \in {"qc", "judge"} /\ Keeps(snap, disk') /\ PromiseOK
          /\ disk'.scenes[cur].anchor = snap.scenes[cur - 1].take
      BY <1>1, <2>1, AcceptsWrites DEF PromiseInv, HasPrevious
    <2>4. ~Mock(snap)
      BY <2>3 DEF Keeps, Mock
    <2>5. snap.scenes[cur].take # 0 /\ snap.scenes[cur - 1].take # 0
      BY <2>1, <2>4 DEF QCAccepts, FramesPresent, HasPrevious
    <2>6. /\ disk'.scenes[cur - 1].take = snap.scenes[cur - 1].take
          /\ disk'.scenes[cur].start = snap.scenes[cur].start
      BY <2>2, <2>3 DEF Keeps
    <2> QED BY <2>3, <2>5, <2>6 DEF PromiseOK, FrameOK
  <1> QED BY <1>1, PromiseHolds, PTL DEF Spec, AcceptedAgainstCurrentFrame

\* No step puts another scene than the one in hand in flight.
LEMMA OthersStay ==
  ASSUME PromiseInv, Next, exists', NEW s \in Scenes, s # cur,
         disk.scenes[s].status \notin InFlight
  PROVE  disk'.scenes[s].status \notin InFlight
  <1>1. /\ disk \in ProjectRecord /\ disk.scenes[s] \in SceneRecord
        /\ pc \notin HoldsNothing => cur \in Scenes
        /\ pc \in HoldsSnapshot => snap \in ProjectRecord /\ snap.scenes[s].status \notin InFlight
    BY PromiseTypes DEF PromiseInv, PromiseOK, StageOK
  <1>2. ASSUME NEW ids \in SUBSET Scenes, NEW force \in BOOLEAN, Enqueue(ids, force)
        PROVE  disk'.scenes[s].status \notin InFlight
    <2>1. disk'.scenes[s] \in {disk.scenes[s], ClearForEnqueue(disk.scenes[s], force)}
      BY <1>1, <1>2 DEF Enqueue, Save, ProjectRecord
    <2> QED BY <1>1, <2>1, ClearFields DEF InFlight
  <1>3. CASE Pause \/ Resume
    <2>1. PICK a \in Status, b \in Status \ InFlight : disk' = Relabel(disk, a, b)
      BY <1>3 DEF Pause, Resume, Save, Status, InFlight
    <2>2. disk'.scenes[s] \in {disk.scenes[s], [disk.scenes[s] EXCEPT !.status = b]}
      BY <1>1, <2>1 DEF Relabel, ProjectRecord
    <2> QED BY <1>1, <2>1, <2>2 DEF SceneRecord
  <1>4. CASE Delete \/ Crash \/ Exit \/ Take \/ Gone \/ DeferToPredecessor
    BY <1>4 DEF Delete, Crash, Exit, Take, Gone, DeferToPredecessor
  <1>5. CASE ContainedStep
    <2>1. PICK st \in Status, a \in Acceptance : Contained(st, a)
      BY <1>5, ContainedStepDoes DEF Status, Acceptance
    <2>2. cur \in Scenes
      BY <1>1, <1>5, ContainedStepDoes
    <2>3. /\ SetScene(disk, cur, [disk.scenes[cur] EXCEPT !.acc = a]) \in ProjectRecord
          /\ SetScene(disk, cur, [disk.scenes[cur] EXCEPT !.acc = a]).scenes[s] = disk.scenes[s]
      BY <1>1, <2>2, AccType, SetSceneFields
    <2>4. disk' = Update(SetScene(disk, cur, [disk.scenes[cur] EXCEPT !.acc = a]), cur, st)
      BY <2>1 DEF Contained, Save, NoSave
    <2>5. disk'.scenes[s] = disk.scenes[s]
      BY <2>2, <2>3, <2>4, UpdateKeeps
    <2> QED BY <2>5
  <1>6. CASE Prepare \/ Generate \/ MarkQC
    <2>1. cur \in Scenes /\ \E st \in Status : disk' = Update(disk, cur, st)
      BY <1>1, <1>6 DEF Prepare, Begins, Generate, MarkQC, Save, Status, HoldsNothing
    <2>2. disk'.scenes[s] = disk.scenes[s]
      BY <1>1, <2>1, UpdateKeeps
    <2> QED BY <2>2
  <1>7. CASE RefsApproved
    <2>1. snap \in ProjectRecord /\ snap.scenes[s].status \notin InFlight
      BY <1>1, <1>7 DEF RefsApproved, HoldsSnapshot
    <2>2. EnsureMasters(snap) \in ProjectRecord /\ EnsureMasters(snap).scenes = snap.scenes
      BY <2>1, EnsureType DEF EnsureMasters, ProjectRecord
    <2>3. disk' = CompileImagePlans(EnsureMasters(snap))
      BY <1>7 DEF RefsApproved, Save
    <2>4. disk'.scenes[s].status = snap.scenes[s].status
      BY <2>2, <2>3, CompileKeeps
    <2> QED BY <2>1, <2>4
  <1>8. CASE RefsRejected
    <2> DEFINE p == [snap EXCEPT !.refs = FALSE, !.refsQC = NoValue, !.scenes[cur].acc = "Blocked"]
    <2>1. /\ snap \in ProjectRecord /\ snap.scenes[s].status \notin InFlight
          /\ cur \in Scenes
      BY <1>1, <1>8 DEF RefsRejected, HoldsSnapshot, HoldsNothing
    <2>2. p \in ProjectRecord /\ p.scenes[s] = snap.scenes[s]
      <3>1. p.scenes[s] = snap.scenes[s]
        BY <2>1 DEF ProjectRecord
      <3> QED BY <2>1, <3>1, RejectedType
    <2>3. disk' = Update(p, cur, "Blocked")
      BY <1>8 DEF RefsRejected, Save
    <2> HIDE DEF p
    <2>4. disk'.scenes[s] = p.scenes[s]
      BY <2>1, <2>2, <2>3, UpdateKeeps DEF Status
    <2> QED BY <2>1, <2>2, <2>4
  <1>9. CASE CountAttempt \/ Generated
    <2>1. cur \in Scenes
      BY <1>1, <1>9 DEF CountAttempt, Renders, Generated, HoldsNothing
    <2>2. disk'.scenes[s] = disk.scenes[s]
      BY <1>1, <1>9, <2>1 DEF CountAttempt, Generated, Save, SetScene, ProjectRecord
    <2> QED BY <2>2
  <1>10. CASE QCAccepts
    <2>1. disk'.scenes[s] = snap.scenes[s] /\ pc \in HoldsSnapshot
      BY <1>10, AcceptsWrites DEF HoldsSnapshot
    <2> QED BY <1>1, <2>1
  <1>11. CASE QCRejects \/ RetryRepair
    <2>1. snap \in ProjectRecord /\ snap.scenes[s].status \notin InFlight /\ cur \in Scenes
      BY <1>1, <1>11 DEF QCRejects, RetryRepair, HoldsSnapshot, HoldsNothing
    <2>2. PICK c \in SceneRecord, st \in Status : disk' = Update(SetScene(snap, cur, c), cur, st)
      <3>1. /\ Judged("Rejected", "Failed") \in SceneRecord
            /\ ClearForRepair(snap.scenes[cur]) \in SceneRecord
        BY <2>1, JudgedType, SceneOfProject, ClearType DEF ClearForRepair, Acceptance, Evidence
      <3> QED BY <1>11, <3>1 DEF QCRejects, RetryRepair, Save, Status
    <2>3. /\ SetScene(snap, cur, c) \in ProjectRecord
          /\ SetScene(snap, cur, c).scenes[s] = snap.scenes[s]
      BY <2>1, SetSceneType, SetSceneFields
    <2>4. disk'.scenes[s] = snap.scenes[s]
      BY <2>1, <2>2, <2>3, UpdateKeeps
    <2> QED BY <2>1, <2>4
  <1>12. CASE ManualReview
    BY <1>1, <1>12 DEF ManualReview, Save, HoldsSnapshot
  <1>13. CASE Propagate
    <2>1. disk' \in {disk, CompileImagePlans(disk)}
      BY <1>13 DEF Propagate, Save, NoSave
    <2> QED BY <1>1, <2>1, CompileKeeps
  <1> QED
    BY <1>2, <1>3, <1>4, <1>5, <1>6, <1>7, <1>8, <1>9, <1>10, <1>11, <1>12, <1>13
    DEF Next, Worker, ContainedStep

\* The places of the worker at which a stored stage is the truth.
Stage(st) ==
  CASE st = "Preparing" -> {"masters", "refs", "wait2", "woken2", "render", "counted"}
    [] st = "Generating" -> {"gen", "refused", "saved"}
    [] st = "QC" -> {"qc", "judge"}

LEMMA TrueStageIs ==
  ASSUME NEW s
  PROVE  LET st == disk.scenes[s].status IN
         TrueStage(s) <=> (st \in InFlight => s = cur /\ pc \in Stage(st))
  BY DEF TrueStage, Stage, InFlight

\* The scene in hand goes through its stages with the worker.
LEMMA InHandStays ==
  ASSUME PromiseInv, Next, ~Crash, exists', cur \in Scenes,
         disk.scenes[cur].status \in InFlight => pc \in Stage(disk.scenes[cur].status)
  PROVE  disk'.scenes[cur].status \in InFlight =>
           cur' = cur /\ pc' \in Stage(disk'.scenes[cur].status)
  <1> DEFINE c == disk.scenes[cur]
             d == disk'.scenes[cur]
  <1> USE DEF InFlight
  <1>1. /\ disk \in ProjectRecord /\ disk.scenes[cur] \in SceneRecord /\ PromiseOK
        /\ pc \notin HoldsNothing
        /\ pc \in HoldsSnapshot => snap \in ProjectRecord /\ snap.scenes[cur] \in SceneRecord
    BY PromiseTypes, ZeroIsNoScene DEF PromiseInv
  <1>2. ASSUME NEW ids \in SUBSET Scenes, NEW force \in BOOLEAN, Enqueue(ids, force)
        PROVE  d.status \in InFlight => cur' = cur /\ pc' \in Stage(d.status)
    <2>1. StartWorker /\ cur' = cur /\ cur \notin Enqueued(ids)
      <3>1. cur \in queuedIds
        BY ZeroIsNoScene DEF PromiseInv, QueueInv, QueuedIdsExact
      <3> QED BY <1>2, <3>1 DEF Enqueue, Enqueued
    <2>2. d = c
      BY <1>1, <1>2, <2>1 DEF Enqueue, Save, ProjectRecord
    <2>3. pc' = pc
      BY <1>1, <2>1 DEF StartWorker, HoldsNothing
    <2> QED BY <2>1, <2>2, <2>3
  <1>3. CASE Pause \/ Resume
    <2>1. PICK a \in Status \ InFlight, b \in Status \ InFlight : disk' = Relabel(disk, a, b)
      BY <1>3 DEF Pause, Resume, Save, Status
    <2>2. d.status \in {c.status, b}
      BY <1>1, <2>1 DEF Relabel, ProjectRecord, SceneRecord
    <2>3. /\ cur' = cur
          /\ \/ pc' = pc
             \/ pc = "wait1" /\ pc' = "woken1"
             \/ pc = "wait2" /\ pc' = "woken2"
      BY <1>3 DEF Pause, Resume
    <2> QED BY <2>1, <2>2, <2>3 DEF Stage
  <1>4. CASE Delete \/ Exit \/ Take \/ Gone
    BY <1>1, <1>4 DEF Delete, Exit, Take, Gone, AtHead, HoldsNothing
  <1>5. CASE DeferToPredecessor
    BY <1>5 DEF DeferToPredecessor, Begins, Stage
  <1>6. CASE ContainedStep
    <2>1. PICK st \in {"Blocked", "Failed"}, a \in Acceptance : Contained(st, a)
      BY <1>6, ContainedStepDoes DEF Acceptance
    <2>2. SetScene(disk, cur, [disk.scenes[cur] EXCEPT !.acc = a]) \in ProjectRecord
      BY <1>1, AccType
    <2>3. disk' = Update(SetScene(disk, cur, [disk.scenes[cur] EXCEPT !.acc = a]), cur, st)
      BY <2>1 DEF Contained, Save, NoSave
    <2>4. d.status = st
      BY <2>2, <2>3, UpdateKeeps DEF Status
    <2> QED BY <2>4
  <1>7. CASE Prepare \/ Generate \/ MarkQC
    <2>1. /\ cur' = cur
          /\ \/ /\ disk' = Update(disk, cur, "Preparing") /\ pc' \in {"masters", "refs"}
             \/ /\ disk' = Update(disk, cur, "Generating") /\ pc' \in {"refused", "gen"}
             \/ /\ disk' = Update(disk, cur, "QC") /\ pc' \in {"judge", "qc"}
      BY <1>7 DEF Prepare, Generate, MarkQC, Save
    <2>2. \A st \in Status : Update(disk, cur, st).scenes[cur].status = st
      BY <1>1, UpdateKeeps
    <2> QED BY <2>1, <2>2 DEF Stage, Status
  <1>8. CASE RefsApproved
    <2>1. /\ snap \in ProjectRecord /\ pc \in {"masters", "refs"}
          /\ disk' = CompileImagePlans(EnsureMasters(snap)) /\ cur' = cur
          /\ pc' \in {"render", "wait2"}
      BY <1>1, <1>8 DEF RefsApproved, Save, HoldsSnapshot
    <2>2. EnsureMasters(snap) \in ProjectRecord /\ EnsureMasters(snap).scenes = snap.scenes
      BY <2>1, EnsureType DEF EnsureMasters, ProjectRecord
    <2>3. d.status = snap.scenes[cur].status
      BY <2>1, <2>2, CompileKeeps
    <2>4. d.status \in InFlight => c.status = d.status
      BY <1>1, <2>1, <2>3 DEF PromiseOK, StageOK, HoldsSnapshot
    <2> QED BY <2>1, <2>4 DEF Stage
  <1>9. CASE RefsRejected
    <2> DEFINE p == [snap EXCEPT !.refs = FALSE, !.refsQC = NoValue, !.scenes[cur].acc = "Blocked"]
    <2>1. p \in ProjectRecord
      BY <1>1, <1>9, RejectedType DEF RefsRejected, HoldsSnapshot
    <2>2. disk' = Update(p, cur, "Blocked")
      BY <1>9 DEF RefsRejected, Save
    <2> HIDE DEF p
    <2>3. d.status = "Blocked"
      BY <2>1, <2>2, UpdateKeeps DEF Status
    <2> QED BY <2>3
  <1>10. CASE CountAttempt \/ Generated
    <2>1. d.status = c.status
      <3>1. CASE CountAttempt
        BY <1>1, <3>1 DEF CountAttempt, Save, ProjectRecord, SceneRecord
      <3>2. CASE Generated
        <4>1. PICK take : disk' = SetScene(disk, cur, WithTake(c, take))
          BY <3>2 DEF Generated, Save
        <4>2. d = WithTake(c, take)
          BY <1>1, <4>1, SetSceneFields
        <4> QED BY <1>1, <4>2 DEF WithTake, SceneRecord
      <3> QED BY <1>10, <3>1, <3>2
    <2>2. /\ cur' = cur
          /\ \/ pc \in {"render", "woken2"} /\ pc' = "counted"
             \/ pc = "gen" /\ pc' = "saved"
      BY <1>10 DEF CountAttempt, Renders, Generated
    <2> QED BY <2>1, <2>2 DEF Stage
  <1>11. CASE QCAccepts
    <2>1. d.status = "Accepted"
      BY <1>11, AcceptsWrites
    <2> QED BY <2>1
  <1>12. CASE QCRejects \/ RetryRepair
    <2>1. snap \in ProjectRecord
      BY <1>1, <1>12 DEF QCRejects, RetryRepair, HoldsSnapshot
    <2>2. PICK k \in SceneRecord, st \in {"FailedQC", "Waiting"} :
            disk' = Update(SetScene(snap, cur, k), cur, st)
      <3>1. /\ Judged("Rejected", "Failed") \in SceneRecord
            /\ ClearForRepair(snap.scenes[cur]) \in SceneRecord
        BY <2>1, JudgedType, SceneOfProject, ClearType DEF ClearForRepair, Acceptance, Evidence
      <3> QED BY <1>12, <3>1 DEF QCRejects, RetryRepair, Save
    <2>3. SetScene(snap, cur, k) \in ProjectRecord
      BY <2>1, SetSceneType
    <2>4. d.status = st
      BY <2>2, <2>3, UpdateKeeps DEF Status
    <2> QED BY <2>4
  <1>13. CASE ManualReview
    BY <1>1, <1>13 DEF ManualReview, Save, PromiseOK, StageOK
  <1>14. CASE Propagate
    <2>1. disk' \in {disk, CompileImagePlans(disk)} /\ c.status = "Accepted"
      BY <1>1, <1>14 DEF Propagate, Save, NoSave, PromiseOK, StageOK
    <2> QED BY <1>1, <2>1, CompileKeeps
  <1> QED
    BY <1>2, <1>3, <1>4, <1>5, <1>6, <1>7, <1>8, <1>9, <1>10, <1>11, <1>12, <1>13, <1>14
    DEF Next, Worker, ContainedStep

\* The in-flight statuses that the edit guard of the service and enqueue() trust
\* stay the truth, whatever the users and the worker do, unless the process dies
\* (service._assert_idle, render_queue._update).
THEOREM StagesAreTrue == Spec => StatusesStayTrue
  <1>1. ASSUME PromiseInv, [Next]_vars
        PROVE  [~Crash /\ exists' => \A s \in Scenes : TrueStage(s) => TrueStage(s)']_vars
    <2> SUFFICES ASSUME Next, ~Crash, exists', NEW s \in Scenes, TrueStage(s)
                 PROVE  TrueStage(s)'
      BY <1>1
    <2>1. /\ disk.scenes[s].status \in InFlight => s = cur /\ pc \in Stage(disk.scenes[s].status)
      BY TrueStageIs
    <2>2. disk'.scenes[s].status \in InFlight =>
            s = cur' /\ pc' \in Stage(disk'.scenes[s].status)
      <3>1. CASE s = cur
        BY <1>1, <2>1, <3>1, InHandStays
      <3>2. CASE s # cur
        BY <1>1, <2>1, <3>2, OthersStay
      <3> QED BY <3>1, <3>2
    <2> QED BY <2>2 DEF TrueStage, Stage, InFlight
  <1> QED BY <1>1, PromiseHolds, PTL DEF Spec, StatusesStayTrue

\* A request that succeeds passes over no scene but one that a dead process
\* left in flight (enqueue).
THEOREM RequestIsTaken == Spec => RequestTaken
  <1>1. ASSUME PromiseInv, [Next]_vars
        PROVE  [ops' # ops =>
                  \A ids \in SUBSET Scenes, force \in BOOLEAN :
                    Enqueue(ids, force) =>
                      \A s \in Requested(ids) \ queuedIds' :
                        disk.scenes[s].status \in InFlight /\ ~TrueStage(s)]_vars
    <2> SUFFICES ASSUME NEW ids \in SUBSET Scenes, NEW force \in BOOLEAN, Enqueue(ids, force),
                        NEW s \in Requested(ids) \ queuedIds'
                 PROVE  disk.scenes[s].status \in InFlight /\ ~TrueStage(s)
      BY <1>1
    <2>1. s \notin queuedIds /\ s \notin Enqueued(ids)
      BY DEF Enqueue
    <2>2. disk.scenes[s].status \in InFlight
      BY <2>1 DEF Enqueued
    <2>3. s # cur
      <3>1. s \in Scenes
        BY DEF Requested
      <3> QED BY <1>1, <2>1, <3>1, ZeroIsNoScene DEF PromiseInv, QueueInv, QueuedIdsExact
    <2> QED BY <2>2, <2>3, TrueStageIs
  <1> QED BY <1>1, PromiseHolds, PTL DEF Spec, RequestTaken
=============================================================================
