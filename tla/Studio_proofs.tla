--------------------------- MODULE Studio_proofs ---------------------------
(***************************************************************************)
(* The studio as a whole: what the queue, the service, the routes and the  *)
(* merge keep true together on the one document they share, for every      *)
(* number of scenes, every bound and every setting.                        *)
(*                                                                         *)
(* Every save is described by what it may change in the document it was    *)
(* made from: the queue marks and judges scenes, an edit revises them.     *)
(***************************************************************************)
EXTENDS Studio, RenderQueue_proofs

(***************************************************************************)
(* What the queue does to a document.  It writes no content, it accepts a  *)
(* scene only with the end state it has, and a take that is kept keeps the *)
(* content it was rendered from.                                           *)
(***************************************************************************)
SameContent(a, b) ==
  /\ b.text = a.text /\ b.sealed = a.sealed
  /\ b.startState = a.startState /\ b.endState = a.endState

KeepsVerdict(a, b) ==
  b.acc = "Accepted" =>
    b.committed = b.endState \/ (a.acc = "Accepted" /\ b.committed = a.committed)

KeepsTake(a, b) == b.take # 0 => a.take # 0 /\ b.takeText = a.takeText

Marked(a, b) == SameContent(a, b) /\ KeepsVerdict(a, b) /\ KeepsTake(a, b)

SameSettings(p, q) == q.video = p.video /\ q.vision = p.vision

Processed(p, q) ==
  SameSettings(p, q) /\ \A s \in Scenes : Marked(p.scenes[s], q.scenes[s])

LEMMA MarkedItself ==
  ASSUME NEW a
  PROVE  Marked(a, a)
  BY DEF Marked, SameContent, KeepsVerdict, KeepsTake

LEMMA MarkedTwice ==
  ASSUME NEW a, NEW b, NEW c, Marked(a, b), Marked(b, c)
  PROVE  Marked(a, c)
  BY DEF Marked, SameContent, KeepsVerdict, KeepsTake

LEMMA ProcessedItself ==
  ASSUME NEW p
  PROVE  Processed(p, p)
  BY MarkedItself DEF Processed, SameSettings

LEMMA ProcessedTwice ==
  ASSUME NEW p, NEW q, NEW r, Processed(p, q), Processed(q, r)
  PROVE  Processed(p, r)
  BY MarkedTwice DEF Processed, SameSettings

\* One scene at a time: the fields the queue writes.
LEMMA MarkedFields ==
  ASSUME NEW a \in SceneRecord
  PROVE  /\ \A st : Marked(a, [a EXCEPT !.status = st])
         /\ \A v : v # "Accepted" => Marked(a, [a EXCEPT !.acc = v])
         /\ \A n : Marked(a, [a EXCEPT !.attempt = n])
         /\ \A n, b : Marked(a, [a EXCEPT !.source = n, !.plan = b])
         /\ \A l : Marked(a, [a EXCEPT !.locked = l])
  BY DEF Marked, SameContent, KeepsVerdict, KeepsTake, SceneRecord

LEMMA MarkedCleared ==
  ASSUME NEW a \in SceneRecord, NEW force \in BOOLEAN
  PROVE  Marked(a, ClearForEnqueue(a, force))
  BY DEF Marked, SameContent, KeepsVerdict, KeepsTake, SceneRecord, ClearForEnqueue

LEMMA SetSceneProcessed ==
  ASSUME NEW p \in ProjectRecord, NEW t \in Scenes, NEW c, Marked(p.scenes[t], c)
  PROVE  Processed(p, SetScene(p, t, c))
  <1>1. \A s \in Scenes : Marked(p.scenes[s], SetScene(p, t, c).scenes[s])
    BY SetSceneFields, MarkedItself
  <1>2. SameSettings(p, SetScene(p, t, c))
    BY DEF SameSettings, SetScene, ProjectRecord
  <1> QED BY <1>1, <1>2 DEF Processed

LEMMA FinalProcessed ==
  ASSUME NEW p \in ProjectRecord, NEW f
  PROVE  Processed(p, [p EXCEPT !.final = f])
  BY MarkedItself DEF Processed, SameSettings, ProjectRecord

LEMMA UpdateProcessed ==
  ASSUME NEW p \in ProjectRecord, NEW t \in Scenes, NEW st \in Status
  PROVE  Processed(p, Update(p, t, st))
  <1> DEFINE c == [p.scenes[t] EXCEPT !.status = st]
             q == SetScene(p, t, c)
  <1>1. c \in SceneRecord /\ Marked(p.scenes[t], c)
    BY SceneOfProject, StatusType, MarkedFields
  <1>2. q \in ProjectRecord /\ Processed(p, q)
    BY <1>1, SetSceneType, SetSceneProcessed
  <1>3. [p EXCEPT !.scenes[t].status = st] = q
    BY DEF SetScene
  <1> HIDE DEF q
  <1>4. Processed(q, RefreshFinal(q))
    BY <1>2, FinalProcessed DEF RefreshFinal
  <1> QED BY <1>2, <1>3, <1>4, ProcessedTwice DEF Update

\* A verdict or a mark on the scene in hand.
LEMMA VerdictProcessed ==
  ASSUME NEW p \in ProjectRecord, NEW t \in Scenes, NEW c \in SceneRecord,
         Marked(p.scenes[t], c), NEW st \in Status
  PROVE  Processed(p, Update(SetScene(p, t, c), t, st))
  <1>1. SetScene(p, t, c) \in ProjectRecord /\ Processed(p, SetScene(p, t, c))
    BY SetSceneType, SetSceneProcessed
  <1> QED BY <1>1, UpdateProcessed, ProcessedTwice

LEMMA RelabelProcessed ==
  ASSUME NEW p \in ProjectRecord, NEW a, NEW b
  PROVE  Processed(p, Relabel(p, a, b))
  <1>1. \A s \in Scenes : Relabel(p, a, b).scenes[s] \in
          {p.scenes[s], [p.scenes[s] EXCEPT !.status = b]}
    BY DEF Relabel, ProjectRecord
  <1>2. \A s \in Scenes : Marked(p.scenes[s], Relabel(p, a, b).scenes[s])
    <2> SUFFICES ASSUME NEW s \in Scenes
                 PROVE  Marked(p.scenes[s], Relabel(p, a, b).scenes[s])
      OBVIOUS
    <2>1. p.scenes[s] \in SceneRecord
      BY SceneOfProject
    <2>2. Marked(p.scenes[s], [p.scenes[s] EXCEPT !.status = b])
      BY <2>1, MarkedFields
    <2>3. Marked(p.scenes[s], p.scenes[s])
      BY MarkedItself
    <2> QED BY <1>1, <2>2, <2>3
  <1>3. SameSettings(p, Relabel(p, a, b))
    BY DEF SameSettings, Relabel, ProjectRecord
  <1> QED BY <1>2, <1>3 DEF Processed

LEMMA CompileProcessed ==
  ASSUME NEW p \in ProjectRecord
  PROVE  Processed(p, CompileImagePlans(p))
  <1>1. \A s \in Scenes : \E n, b :
          CompileImagePlans(p).scenes[s] = [p.scenes[s] EXCEPT !.source = n, !.plan = b]
    BY DEF CompileImagePlans, ProjectRecord
  <1>2. \A s \in Scenes : Marked(p.scenes[s], CompileImagePlans(p).scenes[s])
    <2> SUFFICES ASSUME NEW s \in Scenes
                 PROVE  Marked(p.scenes[s], CompileImagePlans(p).scenes[s])
      OBVIOUS
    <2>1. p.scenes[s] \in SceneRecord
      BY SceneOfProject
    <2>2. PICK n, b :
            CompileImagePlans(p).scenes[s] = [p.scenes[s] EXCEPT !.source = n, !.plan = b]
      BY <1>1
    <2>3. Marked(p.scenes[s], [p.scenes[s] EXCEPT !.source = n, !.plan = b])
      BY <2>1, MarkedFields
    <2> QED BY <2>2, <2>3
  <1>3. SameSettings(p, CompileImagePlans(p))
    BY DEF SameSettings, CompileImagePlans, ProjectRecord
  <1> QED BY <1>2, <1>3 DEF Processed

LEMMA EnsureProcessed ==
  ASSUME NEW p \in ProjectRecord
  PROVE  Processed(p, EnsureMasters(p))
  BY MarkedItself DEF Processed, SameSettings, EnsureMasters, ProjectRecord


(***************************************************************************)
(* Every step of the queue saves a document it has processed: the one on   *)
(* disk, or the one the worker has held since an earlier step.             *)
(***************************************************************************)
LEMMA TypeFacts ==
  ASSUME TypeInv
  PROVE  /\ disk \in ProjectRecord /\ \A s \in Scenes : disk.scenes[s] \in SceneRecord
         /\ pc \in HoldsSnapshot =>
              snap \in ProjectRecord /\ \A s \in Scenes : snap.scenes[s] \in SceneRecord
         /\ pc \notin HoldsNothing => cur \in Scenes
         /\ pc \in HoldsNothing => cur = 0
         /\ pc \in Atomic \cup Suspended
  BY SceneOfProject, ZeroIsNoScene DEF TypeInv, TypeOK, ControlOK

LEMMA MarksProcessed ==
  ASSUME TypeInv
  PROVE  /\ Prepare \/ Generate \/ MarkQC \/ CountAttempt => Processed(disk, disk')
         /\ ContainedStep => Processed(disk, disk')
  <1>1. ASSUME Prepare \/ Generate \/ MarkQC PROVE Processed(disk, disk')
    <2>1. cur \in Scenes /\ \E st \in Status : disk' = Update(disk, cur, st)
      BY <1>1, TypeFacts DEF Prepare, Begins, Generate, MarkQC, Save, Status, HoldsNothing
    <2> QED BY <2>1, TypeFacts, UpdateProcessed
  <1>2. ASSUME CountAttempt PROVE Processed(disk, disk')
    <2> DEFINE c == [disk.scenes[cur] EXCEPT !.attempt = @ + 1]
    <2>1. cur \in Scenes /\ disk' = SetScene(disk, cur, c)
      BY <1>2, TypeFacts DEF CountAttempt, Renders, Save, HoldsNothing, SetScene
    <2>2. Marked(disk.scenes[cur], c)
      BY <2>1, TypeFacts, MarkedFields
    <2> QED BY <2>1, <2>2, TypeFacts, SetSceneProcessed
  <1>3. ASSUME ContainedStep PROVE Processed(disk, disk')
    <2>1. PICK st \in {"Blocked", "Failed"}, a \in {"Blocked", "Rejected"} : Contained(st, a)
      BY <1>3, ContainedStepDoes
    <2>2. cur \in Scenes
      BY <1>3, ContainedStepDoes, TypeFacts
    <2> DEFINE c == [disk.scenes[cur] EXCEPT !.acc = a]
    <2>3. disk' = disk \/ disk' = Update(SetScene(disk, cur, c), cur, st)
      BY <2>1 DEF Contained, Save, NoSave
    <2>4. c \in SceneRecord /\ Marked(disk.scenes[cur], c)
      <3>1. disk.scenes[cur] \in SceneRecord
        BY <2>2, TypeFacts
      <3>2. c \in SceneRecord
        BY <3>1 DEF SceneRecord, Acceptance
      <3> QED BY <3>1, <3>2, MarkedFields
    <2> QED BY <2>2, <2>3, <2>4, TypeFacts, VerdictProcessed, ProcessedItself DEF Status
  <1> QED BY <1>1, <1>2, <1>3

LEMMA RoutesProcessed ==
  ASSUME TypeInv
  PROVE  /\ \A ids \in SUBSET Scenes, force \in BOOLEAN :
              Enqueue(ids, force) => Processed(disk, disk')
         /\ Pause \/ Resume => Processed(disk, disk')
  <1>1. ASSUME NEW ids \in SUBSET Scenes, NEW force \in BOOLEAN, Enqueue(ids, force)
        PROVE  Processed(disk, disk')
    <2>1. \A s \in Scenes : disk'.scenes[s] \in {disk.scenes[s], ClearForEnqueue(disk.scenes[s], force)}
      BY <1>1, TypeFacts DEF Enqueue, Save, ProjectRecord
    <2>2. SameSettings(disk, disk')
      BY <1>1, TypeFacts DEF Enqueue, Save, ProjectRecord, SameSettings
    <2>3. \A s \in Scenes : Marked(disk.scenes[s], disk'.scenes[s])
      BY <2>1, TypeFacts, MarkedItself, MarkedCleared
    <2> QED BY <2>2, <2>3 DEF Processed
  <1>2. ASSUME Pause \/ Resume PROVE Processed(disk, disk')
    <2>1. \E a, b : disk' = Relabel(disk, a, b)
      BY <1>2 DEF Pause, Resume, Save
    <2> QED BY <2>1, TypeFacts, RelabelProcessed
  <1> QED BY <1>1, <1>2

LEMMA JudgedMarked ==
  ASSUME snap \in ProjectRecord, cur \in Scenes, NEW verdict \in Acceptance,
         NEW evidence \in Evidence
  PROVE  /\ verdict # "Accepted" => Marked(snap.scenes[cur], Judged(verdict, evidence))
         /\ CommitAccepted(Judged(verdict, evidence)) \in SceneRecord
         /\ Marked(snap.scenes[cur], CommitAccepted(Judged(verdict, evidence)))
  <1> DEFINE c == snap.scenes[cur]
             j == Judged(verdict, evidence)
  <1>1. c \in SceneRecord /\ j \in SceneRecord
    BY SceneOfProject, JudgedType
  <1>2. /\ j.text = c.text /\ j.sealed = c.sealed /\ j.startState = c.startState
        /\ j.endState = c.endState /\ j.acc = verdict /\ j.take = c.take
        /\ j.takeText = c.takeText
    BY <1>1 DEF Judged, SceneRecord
  <1> HIDE DEF c, j
  <1>3. CommitAccepted(j) \in SceneRecord
    BY <1>1 DEF CommitAccepted, SceneRecord
  <1>4. Marked(c, CommitAccepted(j))
    BY <1>1, <1>2 DEF CommitAccepted, SceneRecord, Marked, SameContent, KeepsVerdict, KeepsTake
  <1>5. verdict # "Accepted" => Marked(c, j)
    BY <1>2 DEF Marked, SameContent, KeepsVerdict, KeepsTake
  <1> QED BY <1>3, <1>4, <1>5 DEF c, j


LEMMA SnapshotProcessed ==
  ASSUME TypeInv
  PROVE  RefsApproved \/ RefsRejected \/ QCAccepts \/ QCRejects \/ RetryRepair \/ ManualReview =>
           pc \in HoldsSnapshot /\ Processed(snap, disk')
  <1> USE TypeFacts DEF HoldsSnapshot, HoldsNothing
  <1>1. ASSUME RefsApproved PROVE pc \in HoldsSnapshot /\ Processed(snap, disk')
    <2>1. pc \in HoldsSnapshot /\ disk' = CompileImagePlans(EnsureMasters(snap))
      BY <1>1 DEF RefsApproved, Save
    <2>2. Processed(snap, EnsureMasters(snap)) /\ EnsureMasters(snap) \in ProjectRecord
      BY <2>1, EnsureProcessed, EnsureType
    <2> QED BY <2>1, <2>2, CompileProcessed, ProcessedTwice
  <1>2. ASSUME RefsRejected PROVE pc \in HoldsSnapshot /\ Processed(snap, disk')
    <2> DEFINE p == [snap EXCEPT !.refs = FALSE, !.refsQC = NoValue, !.scenes[cur].acc = "Blocked"]
    <2>1. pc \in HoldsSnapshot /\ cur \in Scenes /\ disk' = Update(p, cur, "Blocked")
      BY <1>2 DEF RefsRejected, Save
    <2>2. p \in ProjectRecord
      BY <2>1, RejectedType
    <2>3. SameSettings(snap, p)
      BY <2>1 DEF SameSettings, ProjectRecord
    <2>4. \A s \in Scenes : Marked(snap.scenes[s], p.scenes[s])
      <3>1. /\ \A s \in Scenes : s # cur => p.scenes[s] = snap.scenes[s]
            /\ p.scenes[cur] = [snap.scenes[cur] EXCEPT !.acc = "Blocked"]
        BY <2>1 DEF ProjectRecord
      <3>2. Marked(snap.scenes[cur], [snap.scenes[cur] EXCEPT !.acc = "Blocked"])
        BY <2>1, MarkedFields
      <3> QED BY <3>1, <3>2, MarkedItself
    <2>5. Processed(snap, p)
      BY <2>3, <2>4 DEF Processed
    <2> HIDE DEF p
    <2> QED BY <2>1, <2>2, <2>5, UpdateProcessed, ProcessedTwice DEF Status
  <1>3. ASSUME QCAccepts PROVE pc \in HoldsSnapshot /\ Processed(snap, disk')
    <2>1. pc \in HoldsSnapshot /\ cur \in Scenes
      BY <1>3 DEF QCAccepts
    <2>2. PICK evidence \in {"Passed", "Low"} :
            disk' = Update(SetScene(snap, cur, CommitAccepted(Judged("Accepted", evidence))),
                           cur, "Accepted")
      BY <1>3 DEF QCAccepts, Save
    <2> QED BY <2>1, <2>2, JudgedMarked, VerdictProcessed DEF Acceptance, Evidence, Status
  <1>4. ASSUME QCRejects PROVE pc \in HoldsSnapshot /\ Processed(snap, disk')
    <2>1. /\ pc \in HoldsSnapshot /\ cur \in Scenes
          /\ disk' = Update(SetScene(snap, cur, Judged("Rejected", "Failed")), cur, "FailedQC")
      BY <1>4 DEF QCRejects, Save
    <2>2. Judged("Rejected", "Failed") \in SceneRecord
      BY <2>1, JudgedType DEF Acceptance, Evidence
    <2>3. Marked(snap.scenes[cur], Judged("Rejected", "Failed"))
      BY <2>1, JudgedMarked DEF Acceptance, Evidence
    <2> QED BY <2>1, <2>2, <2>3, VerdictProcessed DEF Status
  <1>5. ASSUME RetryRepair PROVE pc \in HoldsSnapshot /\ Processed(snap, disk')
    <2>1. /\ pc \in HoldsSnapshot /\ cur \in Scenes
          /\ disk' = Update(SetScene(snap, cur, ClearForEnqueue(snap.scenes[cur], FALSE)),
                            cur, "Waiting")
      BY <1>5 DEF RetryRepair, Save, ClearForRepair
    <2>2. /\ ClearForEnqueue(snap.scenes[cur], FALSE) \in SceneRecord
          /\ Marked(snap.scenes[cur], ClearForEnqueue(snap.scenes[cur], FALSE))
      BY <2>1, ClearType, MarkedCleared
    <2> QED BY <2>1, <2>2, VerdictProcessed DEF Status
  <1>6. ASSUME ManualReview PROVE pc \in HoldsSnapshot /\ Processed(snap, disk')
    BY <1>6, ProcessedItself DEF ManualReview, Save
  <1> QED BY <1>1, <1>2, <1>3, <1>4, <1>5, <1>6

LEMMA QueueSaves ==
  ASSUME TypeInv, Next, ~Generated
  PROVE  \/ Processed(disk, disk')
         \/ pc \in HoldsSnapshot /\ Processed(snap, disk')
  <1>1. CASE \E ids \in SUBSET Scenes, force \in BOOLEAN : Enqueue(ids, force)
    BY <1>1, RoutesProcessed
  <1>2. CASE Delete \/ Crash \/ Exit \/ Take \/ Gone \/ DeferToPredecessor
    BY <1>2, ProcessedItself DEF Delete, Crash, Exit, Take, Gone, DeferToPredecessor
  <1>3. CASE Propagate
    <2>1. disk' = disk \/ disk' = CompileImagePlans(disk)
      BY <1>3 DEF Propagate, Save, NoSave
    <2> QED BY <2>1, TypeFacts, CompileProcessed, ProcessedItself
  <1>4. CASE Pause \/ Resume
    BY <1>4, RoutesProcessed
  <1>5. CASE Prepare \/ Generate \/ MarkQC \/ CountAttempt \/ ContainedStep
    BY <1>5, MarksProcessed
  <1>6. CASE RefsApproved \/ RefsRejected \/ QCAccepts \/ QCRejects \/ RetryRepair \/ ManualReview
    BY <1>6, SnapshotProcessed
  <1> QED BY <1>1, <1>2, <1>3, <1>4, <1>5, <1>6 DEF Next, Worker, ContainedStep

\* The answer of the provider is written to the scene in hand as it is now.
LEMMA AnswerSaves ==
  ASSUME TypeInv, Generated
  PROVE  /\ cur \in Scenes /\ SameSettings(disk, disk') /\ pc = "gen"
         /\ \A s \in Scenes : s # cur => disk'.scenes[s] = disk.scenes[s]
         /\ SameContent(disk.scenes[cur], disk'.scenes[cur])
         /\ KeepsVerdict(disk.scenes[cur], disk'.scenes[cur])
         /\ disk'.scenes[cur].take # 0 => disk'.scenes[cur].takeText = given.text
         /\ disk'.scenes[cur].status = disk.scenes[cur].status
  <1>1. cur \in Scenes /\ pc = "gen"
    BY TypeFacts DEF Generated, HoldsNothing
  <1>2. PICK take : disk' = SetScene(disk, cur, WithTake(disk.scenes[cur], take))
    BY DEF Generated, Save
  <1> DEFINE c == disk.scenes[cur]
  <1>3. disk'.scenes[cur] = WithTake(c, take) /\ c \in SceneRecord
    BY <1>1, <1>2, TypeFacts, SetSceneFields
  <1>4. /\ SameContent(c, WithTake(c, take)) /\ KeepsVerdict(c, WithTake(c, take))
        /\ WithTake(c, take).take # 0 => WithTake(c, take).takeText = given.text
        /\ WithTake(c, take).status = c.status
    BY <1>3 DEF SameContent, KeepsVerdict, WithTake, SceneRecord
  <1>5. SameSettings(disk, disk')
    BY <1>1, <1>2, TypeFacts DEF SameSettings, SetScene, ProjectRecord
  <1>6. \A s \in Scenes : s # cur => disk'.scenes[s] = disk.scenes[s]
    BY <1>1, <1>2, TypeFacts, SetSceneFields
  <1> QED BY <1>1, <1>3, <1>4, <1>5, <1>6

\* What the worker holds is what was just saved, or what it held before.
LEMMA SnapshotAfter ==
  ASSUME TypeInv, Next
  PROVE  pc' \in HoldsSnapshot => snap' = disk' \/ (snap' = snap /\ pc' = pc)
  <1>1. CASE \E ids \in SUBSET Scenes, force \in BOOLEAN : Enqueue(ids, force)
    BY <1>1 DEF Enqueue, StartWorker, HoldsSnapshot
  <1>2. CASE Delete \/ Crash \/ Exit \/ Take \/ Gone \/ DeferToPredecessor \/ Pause \/ Resume
    BY <1>2 DEF Delete, Crash, Forget, Exit, Take, Gone, Done, DeferToPredecessor, Requeue,
                Pause, Resume, memory, HoldsSnapshot
  <1>3. CASE Propagate \/ RefsApproved \/ RefsRejected \/ QCAccepts \/ RetryRepair \/ ManualReview
    BY <1>3 DEF Propagate, RefsApproved, RefsRejected, QCAccepts, RetryRepair, ManualReview,
                Done, Requeue, HoldsSnapshot
  <1>4. CASE Prepare \/ MarkQC \/ QCRejects
    BY <1>4 DEF Prepare, MarkQC, QCRejects, Save
  <1>5. CASE Generate \/ CountAttempt \/ Generated
    BY <1>5 DEF Generate, CountAttempt, Generated, HoldsSnapshot
  <1>6. CASE ContainedStep
    BY <1>6, ContainedStepDoes DEF Contained, Done, HoldsSnapshot
  <1> QED BY <1>1, <1>2, <1>3, <1>4, <1>5, <1>6 DEF Next, Worker, ContainedStep


(***************************************************************************)
(* What the service and the routes do to a document: a scene keeps its     *)
(* attempts, and keeps its take or its acceptance only with the content,   *)
(* or the state, they belong to.                                           *)
(***************************************************************************)
Revised(a, b) ==
  /\ b.attempt = a.attempt
  /\ b.take # 0 => b.take = a.take /\ b.takeText = a.takeText /\ b.text = a.text
  /\ b.acc = "Accepted" =>
       a.acc = "Accepted" /\ b.committed = a.committed /\ b.endState = a.endState

SameStates(a, b) == b.startState = a.startState /\ b.endState = a.endState

RevisedAll(p, q) == \A s \in Scenes : Revised(p.scenes[s], q.scenes[s])
SameStatesAll(p, q) == \A s \in Scenes : SameStates(p.scenes[s], q.scenes[s])

LEMMA RevisedItself ==
  ASSUME NEW a
  PROVE  Revised(a, a) /\ SameStates(a, a)
  BY DEF Revised, SameStates

LEMMA RevisedTwice ==
  ASSUME NEW p, NEW q, NEW r, RevisedAll(p, q), RevisedAll(q, r)
  PROVE  RevisedAll(p, r)
  BY DEF RevisedAll, Revised

LEMMA SameStatesTwice ==
  ASSUME NEW p, NEW q, NEW r, SameStatesAll(p, q), SameStatesAll(q, r)
  PROVE  SameStatesAll(p, r)
  BY DEF SameStatesAll, SameStates

\* A document whose scenes are those of another.
LEMMA SameScenesRevised ==
  ASSUME NEW p, NEW q, q.scenes = p.scenes
  PROVE  RevisedAll(p, q) /\ SameStatesAll(p, q)
  BY RevisedItself DEF RevisedAll, SameStatesAll

LEMMA CompileRevised ==
  ASSUME NEW p \in ProjectRecord
  PROVE  RevisedAll(p, CompileImagePlans(p)) /\ SameStatesAll(p, CompileImagePlans(p))
  <1> SUFFICES ASSUME NEW s \in Scenes
               PROVE  /\ Revised(p.scenes[s], CompileImagePlans(p).scenes[s])
                      /\ SameStates(p.scenes[s], CompileImagePlans(p).scenes[s])
    BY DEF RevisedAll, SameStatesAll
  <1>1. PICK n, b :
          CompileImagePlans(p).scenes[s] = [p.scenes[s] EXCEPT !.source = n, !.plan = b]
    BY DEF CompileImagePlans, ProjectRecord
  <1>2. p.scenes[s] \in SceneRecord
    BY SceneOfProject
  <1> QED BY <1>1, <1>2 DEF Revised, SameStates, SceneRecord

LEMMA NotReadyType ==
  ASSUME NEW p \in ProjectRecord
  PROVE  /\ NotReady(p) \in ProjectRecord /\ NotReady(p).scenes = p.scenes
         /\ NotReady(p).video = p.video /\ NotReady(p).vision = p.vision
  BY DEF NotReady, ProjectRecord, FinalStatus

(***************************************************************************)
(* One scene without its evidence.                                         *)
(***************************************************************************)
LEMMA InvalidateScene ==
  ASSUME NEW c \in SceneRecord
  PROVE  /\ InvalidateRenderEvidence(c) \in SceneRecord
         /\ Revised(c, InvalidateRenderEvidence(c)) /\ SameStates(c, InvalidateRenderEvidence(c))
         /\ InvalidateRenderEvidence(c).take = 0
         /\ InvalidateRenderEvidence(c).acc = "Pending"
         /\ InvalidateRenderEvidence(c).attempt = c.attempt
  BY DEF InvalidateRenderEvidence, Revised, SameStates, SceneRecord, Status, Acceptance, Evidence

LEMMA ResetScene ==
  ASSUME NEW c \in SceneRecord
  PROVE  /\ ResetVerdict(c) \in SceneRecord
         /\ Revised(c, ResetVerdict(c)) /\ SameStates(c, ResetVerdict(c))
  <1> DEFINE d == [c EXCEPT !.qc = "Pending", !.qcModel = NoValue, !.anchor = 0, !.acc = "Pending"]
             st == IF c.status = "Accepted" THEN "Waiting" ELSE c.status
  <1>1. d \in SceneRecord /\ Revised(c, d) /\ SameStates(c, d)
    BY DEF Revised, SameStates, SceneRecord, Acceptance, Evidence
  <1>2. st \in Status
    BY DEF SceneRecord, Status
  <1>3. ResetVerdict(c) = [d EXCEPT !.status = st]
    BY DEF ResetVerdict, SceneRecord
  <1> HIDE DEF d, st
  <1>4. [d EXCEPT !.status = st] \in SceneRecord
    BY <1>1, <1>2, StatusType
  <1>5. Revised(d, [d EXCEPT !.status = st]) /\ SameStates(d, [d EXCEPT !.status = st])
    BY <1>1 DEF Revised, SameStates, SceneRecord
  <1> QED BY <1>1, <1>3, <1>4, <1>5 DEF Revised, SameStates

LEMMA EveryInvalidated ==
  ASSUME NEW p \in ProjectRecord
  PROVE  LET q == EveryScene(p, InvalidateRenderEvidence) IN
         /\ q \in ProjectRecord /\ RevisedAll(p, q) /\ SameStatesAll(p, q)
         /\ \A s \in Scenes : q.scenes[s].take = 0
         /\ q.video = p.video /\ q.vision = p.vision
  <1> DEFINE q == EveryScene(p, InvalidateRenderEvidence)
  <1>1. q = [p EXCEPT !.scenes = [s \in Scenes |-> InvalidateRenderEvidence(p.scenes[s])]]
    BY DEF EveryScene
  <1> HIDE DEF q
  <1>2. \A s \in Scenes : p.scenes[s] \in SceneRecord
    BY SceneOfProject
  <1>3. [s \in Scenes |-> InvalidateRenderEvidence(p.scenes[s])] \in [Scenes -> SceneRecord]
    BY <1>2, InvalidateScene
  <1>4. q \in ProjectRecord
    BY <1>1, <1>3, ScenesType
  <1>5. \A s \in Scenes : q.scenes[s] = InvalidateRenderEvidence(p.scenes[s])
    BY <1>1 DEF ProjectRecord
  <1>6. q.video = p.video /\ q.vision = p.vision
    BY <1>1 DEF ProjectRecord
  <1>7. RevisedAll(p, q) /\ SameStatesAll(p, q) /\ \A s \in Scenes : q.scenes[s].take = 0
    BY <1>2, <1>5, InvalidateScene DEF RevisedAll, SameStatesAll
  <1> QED BY <1>4, <1>6, <1>7 DEF q

LEMMA EveryReset ==
  ASSUME NEW p \in ProjectRecord
  PROVE  LET q == EveryScene(p, ResetVerdict) IN
         /\ q \in ProjectRecord /\ RevisedAll(p, q) /\ SameStatesAll(p, q)
         /\ q.video = p.video
  <1> DEFINE q == EveryScene(p, ResetVerdict)
  <1>1. q = [p EXCEPT !.scenes = [s \in Scenes |-> ResetVerdict(p.scenes[s])]]
    BY DEF EveryScene
  <1> HIDE DEF q
  <1>2. \A s \in Scenes : p.scenes[s] \in SceneRecord
    BY SceneOfProject
  <1>3. [s \in Scenes |-> ResetVerdict(p.scenes[s])] \in [Scenes -> SceneRecord]
    BY <1>2, ResetScene
  <1>4. q \in ProjectRecord
    BY <1>1, <1>3, ScenesType
  <1>5. \A s \in Scenes : q.scenes[s] = ResetVerdict(p.scenes[s])
    BY <1>1 DEF ProjectRecord
  <1>6. q.video = p.video
    BY <1>1 DEF ProjectRecord
  <1>7. RevisedAll(p, q) /\ SameStatesAll(p, q)
    BY <1>2, <1>5, ResetScene DEF RevisedAll, SameStatesAll
  <1> QED BY <1>4, <1>6, <1>7 DEF q


(***************************************************************************)
(* Edited content: where the text of a scene changes, or its contract was  *)
(* not valid, the evidence goes; every anchored scene starts where the     *)
(* scene before it ends.                                                   *)
(***************************************************************************)
Follows(p) == \A s \in Anchored : p.scenes[s].startState = p.scenes[s - 1].endState

Rewritten(a, b) == b.attempt = a.attempt /\ (b.text = a.text => Revised(a, b))

RewrittenAll(p, q) == \A s \in Scenes : Rewritten(p.scenes[s], q.scenes[s])

LEMMA FollowsSame ==
  ASSUME NEW p, NEW q, SameStatesAll(p, q), Follows(p)
  PROVE  Follows(q)
  <1> SUFFICES ASSUME NEW s \in Anchored
               PROVE  q.scenes[s].startState = q.scenes[s - 1].endState
    BY DEF Follows
  <1>1. s \in Scenes /\ s - 1 \in Scenes
    BY SceneAssumption DEF Scenes
  <1> QED BY <1>1 DEF Follows, SameStatesAll, SameStates

\* The start of an anchored scene is rewritten, and with it the text.
LEMMA Realigned ==
  ASSUME NEW p \in ProjectRecord
  PROVE  /\ Realign(p) \in ProjectRecord /\ Realign(p).video = p.video
         /\ RewrittenAll(p, Realign(p)) /\ Follows(Realign(p))
         /\ \A s \in Scenes : Realign(p).scenes[s].text \in {p.scenes[s].text, p.scenes[s].text + 1}
  <1> DEFINE moved(s) == s \in Anchored /\ p.scenes[s].startState # p.scenes[s - 1].endState
             new(s) == [p.scenes[s] EXCEPT !.startState = p.scenes[s - 1].endState,
                                           !.text = @ + 1]
             f == [s \in Scenes |-> IF moved(s) THEN new(s) ELSE p.scenes[s]]
             q == [p EXCEPT !.refsQC = NoValue, !.scenes = f]
  <1>1. \A s \in Scenes : p.scenes[s] \in SceneRecord
    BY SceneOfProject
  <1>2. \A s \in Anchored : s \in Scenes /\ s - 1 \in Scenes
    BY SceneAssumption DEF Scenes
  <1>3. \A s \in Scenes : moved(s) =>
          /\ new(s) \in SceneRecord /\ new(s).text = p.scenes[s].text + 1
          /\ new(s).startState = p.scenes[s - 1].endState
          /\ new(s).endState = p.scenes[s].endState /\ new(s).attempt = p.scenes[s].attempt
    <2> SUFFICES ASSUME NEW s \in Scenes, s \in Anchored
                 PROVE  /\ new(s) \in SceneRecord /\ new(s).text = p.scenes[s].text + 1
                        /\ new(s).startState = p.scenes[s - 1].endState
                        /\ new(s).endState = p.scenes[s].endState
                        /\ new(s).attempt = p.scenes[s].attempt
      OBVIOUS
    <2>1. p.scenes[s] \in SceneRecord /\ p.scenes[s - 1] \in SceneRecord
      BY <1>1, <1>2
    <2> DEFINE w == p.scenes[s - 1].endState
               n == p.scenes[s].text + 1
    <2>2. w \in WorldStates /\ n \in Nat
      BY <2>1 DEF SceneRecord
    <2>3. new(s) = [p.scenes[s] EXCEPT !.startState = w, !.text = n]
      OBVIOUS
    <2> HIDE DEF w, n
    <2>4. [p.scenes[s] EXCEPT !.startState = w, !.text = n] \in SceneRecord
      BY <2>1, <2>2 DEF SceneRecord
    <2>5. /\ [p.scenes[s] EXCEPT !.startState = w, !.text = n].text = n
          /\ [p.scenes[s] EXCEPT !.startState = w, !.text = n].startState = w
          /\ [p.scenes[s] EXCEPT !.startState = w, !.text = n].endState = p.scenes[s].endState
          /\ [p.scenes[s] EXCEPT !.startState = w, !.text = n].attempt = p.scenes[s].attempt
      BY <2>1 DEF SceneRecord
    <2> HIDE DEF new
    <2> QED BY <2>3, <2>4, <2>5 DEF w, n
  <1>4. q \in ProjectRecord /\ q.scenes = f /\ q.video = p.video
    <2>1. f \in [Scenes -> SceneRecord]
      BY <1>1, <1>3
    <2> HIDE DEF f
    <2> QED BY <2>1 DEF ProjectRecord
  <1>5. Realign(p) = CompileImagePlans(q)
    BY DEF Realign
  <1>6. \A s \in Scenes : q.scenes[s] = IF moved(s) THEN new(s) ELSE p.scenes[s]
    BY <1>4
  <1> HIDE DEF q, f
  <1>7. Follows(q)
    <2> SUFFICES ASSUME NEW s \in Anchored
                 PROVE  q.scenes[s].startState = q.scenes[s - 1].endState
      BY DEF Follows
    <2>1. q.scenes[s].startState = p.scenes[s - 1].endState
      BY <1>2, <1>3, <1>6
    <2>2. q.scenes[s - 1].endState = p.scenes[s - 1].endState
      BY <1>2, <1>3, <1>6
    <2> QED BY <2>1, <2>2
  <1>8. \A s \in Scenes : /\ q.scenes[s].attempt = p.scenes[s].attempt
                          /\ q.scenes[s].text \in {p.scenes[s].text, p.scenes[s].text + 1}
                          /\ q.scenes[s].text = p.scenes[s].text => q.scenes[s] = p.scenes[s]
    <2> SUFFICES ASSUME NEW s \in Scenes
                 PROVE  /\ q.scenes[s].attempt = p.scenes[s].attempt
                        /\ q.scenes[s].text \in {p.scenes[s].text, p.scenes[s].text + 1}
                        /\ q.scenes[s].text = p.scenes[s].text => q.scenes[s] = p.scenes[s]
      OBVIOUS
    <2>1. p.scenes[s].text \in Nat
      BY <1>1 DEF SceneRecord
    <2> HIDE DEF new, moved
    <2> QED BY <2>1, <1>3, <1>6
  <1>9. /\ CompileImagePlans(q) \in ProjectRecord /\ CompileImagePlans(q).video = q.video
        /\ RevisedAll(q, CompileImagePlans(q)) /\ SameStatesAll(q, CompileImagePlans(q))
        /\ \A s \in Scenes : CompileImagePlans(q).scenes[s].text = q.scenes[s].text
    <2>1. Processed(q, CompileImagePlans(q))
      BY <1>4, CompileProcessed
    <2> QED BY <1>4, <2>1, CompileType, CompileRevised
            DEF Processed, SameSettings, Marked, SameContent
  <1>10. RewrittenAll(p, Realign(p))
    BY <1>5, <1>8, <1>9 DEF RewrittenAll, Rewritten, RevisedAll, Revised
  <1> QED BY <1>4, <1>5, <1>7, <1>8, <1>9, <1>10, FollowsSame

LEMMA ChangedInvalidated ==
  ASSUME NEW p \in ProjectRecord, NEW q \in ProjectRecord, NEW resealed \in BOOLEAN,
         RewrittenAll(p, q)
  PROVE  LET r == InvalidateChanged(p, q, resealed) IN
         /\ r \in ProjectRecord /\ r.video = q.video
         /\ RevisedAll(p, r) /\ SameStatesAll(q, r)
  <1> DEFINE lost(s) == [InvalidateRenderEvidence(q.scenes[s]) EXCEPT !.sealed = resealed]
             f == [s \in Scenes |-> IF ContractChanged(p.scenes[s], q.scenes[s])
                                    THEN lost(s) ELSE q.scenes[s]]
             r == InvalidateChanged(p, q, resealed)
  <1>1. r = [q EXCEPT !.scenes = f]
    BY DEF InvalidateChanged
  <1>2. \A s \in Scenes : q.scenes[s] \in SceneRecord
    BY SceneOfProject
  <1>3. \A s \in Scenes : /\ lost(s) \in SceneRecord /\ SameStates(q.scenes[s], lost(s))
                          /\ lost(s).attempt = q.scenes[s].attempt
                          /\ lost(s).take = 0 /\ lost(s).acc = "Pending"
    <2> SUFFICES ASSUME NEW s \in Scenes
                 PROVE  /\ lost(s) \in SceneRecord /\ SameStates(q.scenes[s], lost(s))
                        /\ lost(s).attempt = q.scenes[s].attempt
                        /\ lost(s).take = 0 /\ lost(s).acc = "Pending"
      OBVIOUS
    <2> DEFINE c == q.scenes[s]
               d == InvalidateRenderEvidence(c)
    <2>1. /\ d \in SceneRecord /\ SameStates(c, d) /\ d.take = 0 /\ d.acc = "Pending"
          /\ d.attempt = c.attempt
      BY <1>2, InvalidateScene
    <2> HIDE DEF d
    <2>2. [d EXCEPT !.sealed = resealed] \in SceneRecord
      BY <2>1 DEF SceneRecord
    <2>3. /\ SameStates(c, [d EXCEPT !.sealed = resealed])
          /\ [d EXCEPT !.sealed = resealed].take = 0
          /\ [d EXCEPT !.sealed = resealed].acc = "Pending"
          /\ [d EXCEPT !.sealed = resealed].attempt = c.attempt
      BY <2>1 DEF SceneRecord, SameStates
    <2> QED BY <2>2, <2>3 DEF d
  <1> HIDE DEF lost
  <1>4. f \in [Scenes -> SceneRecord]
    BY <1>2, <1>3
  <1> HIDE DEF r
  <1>5. r \in ProjectRecord /\ r.video = q.video /\ r.scenes = f
    <2> HIDE DEF f
    <2> QED BY <1>1, <1>4 DEF ProjectRecord
  <1>6. \A s \in Scenes : Revised(p.scenes[s], r.scenes[s]) /\ SameStates(q.scenes[s], r.scenes[s])
    <2> SUFFICES ASSUME NEW s \in Scenes
                 PROVE  Revised(p.scenes[s], r.scenes[s]) /\ SameStates(q.scenes[s], r.scenes[s])
      OBVIOUS
    <2>1. CASE ContractChanged(p.scenes[s], q.scenes[s])
      <3>1. r.scenes[s] = lost(s)
        BY <1>5, <2>1
      <3> QED BY <1>3, <3>1 DEF RewrittenAll, Rewritten, Revised
    <2>2. CASE ~ContractChanged(p.scenes[s], q.scenes[s])
      <3>1. r.scenes[s] = q.scenes[s]
        BY <1>5, <2>2
      <3> QED BY <2>2, <3>1, RevisedItself DEF ContractChanged, RewrittenAll, Rewritten
    <2> QED BY <2>1, <2>2
  <1> QED BY <1>5, <1>6 DEF RevisedAll, SameStatesAll, r


(***************************************************************************)
(* Every save of the service and of the routes is an edit of the document  *)
(* on disk or of the one the route has held.                               *)
(***************************************************************************)
Edited(p, q) ==
  /\ q \in ProjectRecord /\ RevisedAll(p, q)
  /\ q.video = p.video \/ \A s \in Scenes : q.scenes[s].take = 0
  /\ Follows(p) => Follows(q)

LEMMA EditedTwice ==
  ASSUME NEW p, NEW q, NEW r, Edited(p, q), Edited(q, r)
  PROVE  Edited(p, r)
  <1>1. RevisedAll(p, r)
    BY RevisedTwice DEF Edited
  <1>2. r.video = p.video \/ \A s \in Scenes : r.scenes[s].take = 0
    BY DEF Edited, RevisedAll, Revised
  <1> QED BY <1>1, <1>2 DEF Edited

LEMMA SameScenesEdited ==
  ASSUME NEW p, NEW q \in ProjectRecord, q.scenes = p.scenes, q.video = p.video
  PROVE  Edited(p, q)
  BY SameScenesRevised, FollowsSame DEF Edited

LEMMA StatesKeptEdited ==
  ASSUME NEW p, NEW q \in ProjectRecord, RevisedAll(p, q), SameStatesAll(p, q),
         q.video = p.video \/ \A s \in Scenes : q.scenes[s].take = 0
  PROVE  Edited(p, q)
  BY FollowsSame DEF Edited

LEMMA PlainEdits ==
  ASSUME NEW p \in ProjectRecord
  PROVE  /\ Edited(p, NotReady(p)) /\ Edited(p, CompileImagePlans(p))
         /\ Edited(p, EveryScene(p, InvalidateRenderEvidence))
         /\ Edited(p, EveryScene(p, ResetVerdict))
  <1>1. Edited(p, NotReady(p))
    BY NotReadyType, SameScenesEdited
  <1>2. Edited(p, CompileImagePlans(p))
    <2>1. CompileImagePlans(p).video = p.video
      BY CompileProcessed DEF Processed, SameSettings
    <2> QED BY <2>1, CompileType, CompileRevised, StatesKeptEdited
  <1>3. Edited(p, EveryScene(p, InvalidateRenderEvidence))
    BY EveryInvalidated, StatesKeptEdited
  <1>4. Edited(p, EveryScene(p, ResetVerdict))
    BY EveryReset, StatesKeptEdited
  <1> QED BY <1>1, <1>2, <1>3, <1>4

LEMMA SettingsEdited ==
  ASSUME disk \in ProjectRecord
  PROVE  /\ \A m \in VisionModels : UpdateVision(m) => Edited(disk, disk')
         /\ \A m \in VideoModels : UpdateVideo(m) => Edited(disk, disk')
         /\ UpdateImage => Edited(disk, disk')
  <1>1. ASSUME NEW m \in VisionModels, UpdateVision(m) PROVE Edited(disk, disk')
    <2> DEFINE p == [disk EXCEPT !.vision = m]
               q == EveryScene(p, ResetVerdict)
    <2>1. disk' = NotReady(q)
      BY <1>1 DEF UpdateVision, Save
    <2>2. p \in ProjectRecord /\ p.scenes = disk.scenes /\ p.video = disk.video
      BY DEF ProjectRecord
    <2> HIDE DEF p
    <2>3. Edited(disk, p) /\ Edited(p, q)
      BY <2>2, SameScenesEdited, PlainEdits
    <2>4. q \in ProjectRecord
      BY <2>3 DEF Edited
    <2> HIDE DEF q
    <2>5. Edited(q, NotReady(q))
      BY <2>4, PlainEdits
    <2> QED BY <2>1, <2>3, <2>5, EditedTwice
  <1>2. ASSUME NEW m \in VideoModels, UpdateVideo(m) PROVE Edited(disk, disk')
    <2> DEFINE p == [disk EXCEPT !.video = m]
               q == EveryScene(p, InvalidateRenderEvidence)
    <2>1. disk' = NotReady(q)
      BY <1>2 DEF UpdateVideo, Save
    <2>2. p \in ProjectRecord /\ p.scenes = disk.scenes
      BY DEF ProjectRecord
    <2> HIDE DEF p
    <2>3. /\ q \in ProjectRecord /\ RevisedAll(p, q) /\ SameStatesAll(p, q)
          /\ \A s \in Scenes : q.scenes[s].take = 0
      BY <2>2, EveryInvalidated
    <2> HIDE DEF q
    <2>4. RevisedAll(disk, q) /\ SameStatesAll(disk, q)
      BY <2>2, <2>3, SameScenesRevised, RevisedTwice, SameStatesTwice
    <2>5. Edited(disk, q) /\ Edited(q, NotReady(q))
      BY <2>3, <2>4, StatesKeptEdited, PlainEdits
    <2> QED BY <2>1, <2>5, EditedTwice
  <1>3. ASSUME UpdateImage PROVE Edited(disk, disk')
    <2> DEFINE p == EveryScene(disk, InvalidateRenderEvidence)
               q == CompileImagePlans(p)
    <2>1. disk' = NotReady(q)
      BY <1>3 DEF UpdateImage, Save
    <2>2. Edited(disk, p)
      BY PlainEdits
    <2> HIDE DEF p
    <2>3. Edited(p, q)
      BY <2>2, PlainEdits DEF Edited
    <2> HIDE DEF q
    <2>4. Edited(q, NotReady(q))
      BY <2>3, PlainEdits DEF Edited
    <2> QED BY <2>1, <2>2, <2>3, <2>4, EditedTwice
  <1> QED BY <1>1, <1>2, <1>3

LEMMA ContentEdited ==
  ASSUME disk \in ProjectRecord
  PROVE  /\ \A s \in Scenes, before \in WorldStates, after \in WorldStates :
              UpdateScene(s, before, after) => Edited(disk, disk')
         /\ CheckContinuity => Edited(disk, disk')
  <1>1. ASSUME NEW p \in ProjectRecord, RewrittenAll(disk, Realign(p)), p.video = disk.video,
               NEW resealed \in BOOLEAN,
               disk' = NotReady(InvalidateChanged(disk, Realign(p), resealed))
        PROVE  Edited(disk, disk')
    <2> DEFINE r == InvalidateChanged(disk, Realign(p), resealed)
    <2>1. Realign(p) \in ProjectRecord /\ Realign(p).video = p.video /\ Follows(Realign(p))
      BY Realigned
    <2>2. /\ r \in ProjectRecord /\ r.video = disk.video
          /\ RevisedAll(disk, r) /\ SameStatesAll(Realign(p), r)
      BY <1>1, <2>1, ChangedInvalidated
    <2> HIDE DEF r
    <2>3. Edited(disk, r)
      BY <2>1, <2>2, FollowsSame DEF Edited
    <2>4. Edited(r, NotReady(r))
      BY <2>2, PlainEdits
    <2> QED BY <1>1, <2>3, <2>4, EditedTwice DEF r
  <1>2. ASSUME NEW s \in Scenes, NEW before \in WorldStates, NEW after \in WorldStates,
               UpdateScene(s, before, after)
        PROVE  Edited(disk, disk')
    <2> DEFINE n == disk.scenes[s].text + 1
               c == [disk.scenes[s] EXCEPT !.text = n, !.startState = before, !.endState = after]
               p == SetScene(disk, s, c)
    <2>1. disk.scenes[s] \in SceneRecord /\ disk.scenes[s].text \in Nat
      BY SceneOfProject DEF SceneRecord
    <2>2. n \in Nat /\ n # disk.scenes[s].text /\ n + 1 # disk.scenes[s].text
      BY <2>1
    <2>3. c = [disk.scenes[s] EXCEPT !.text = @ + 1, !.startState = before, !.endState = after]
      BY <2>1 DEF SceneRecord
    <2>4. disk' = NotReady(InvalidateChanged(disk, Realign(p), FALSE))
      <3>1. p = [disk EXCEPT !.scenes[s].text = @ + 1, !.scenes[s].startState = before,
                             !.scenes[s].endState = after]
        BY <2>1, <2>3 DEF SetScene, ProjectRecord, SceneRecord
      <3> HIDE DEF p
      <3> QED BY <1>2, <3>1 DEF UpdateScene, Save
    <2> HIDE DEF n
    <2>5. c \in SceneRecord /\ c.text = n /\ c.attempt = disk.scenes[s].attempt
      BY <2>1, <2>2 DEF SceneRecord
    <2> HIDE DEF c
    <2>6. /\ p \in ProjectRecord /\ p.video = disk.video /\ p.scenes[s] = c
          /\ \A t \in Scenes : t # s => p.scenes[t] = disk.scenes[t]
      BY <2>5, SetSceneType, SetSceneFields DEF SetScene, ProjectRecord
    <2> HIDE DEF p
    <2>7. RewrittenAll(p, Realign(p))
          /\ Realign(p).scenes[s].text \in {n, n + 1}
      BY <2>5, <2>6, Realigned
    <2>8. RewrittenAll(disk, Realign(p))
      <3> SUFFICES ASSUME NEW t \in Scenes
                   PROVE  Rewritten(disk.scenes[t], Realign(p).scenes[t])
        BY DEF RewrittenAll
      <3>1. CASE t = s
        BY <2>2, <2>5, <2>6, <2>7, <3>1 DEF RewrittenAll, Rewritten
      <3>2. CASE t # s
        BY <2>6, <2>7, <3>2 DEF RewrittenAll
      <3> QED BY <3>1, <3>2
    <2> QED BY <1>1, <2>4, <2>6, <2>8
  <1>3. ASSUME CheckContinuity PROVE Edited(disk, disk')
    BY <1>1, <1>3, Realigned DEF CheckContinuity, Save
  <1> QED BY <1>2, <1>3


(***************************************************************************)
(* The lock of a scene and the final video: no content, no evidence and no *)
(* status is touched.                                                      *)
(***************************************************************************)
SameButLock(a, b) ==
  /\ SameContent(a, b) /\ b.status = a.status /\ b.acc = a.acc
  /\ b.attempt = a.attempt /\ b.take = a.take /\ b.start = a.start
  /\ b.takeText = a.takeText /\ b.committed = a.committed
  /\ b.plan = a.plan /\ b.source = a.source

Touched(p, q) ==
  /\ q \in ProjectRecord /\ SameSettings(p, q)
  /\ \A s \in Scenes : SameButLock(p.scenes[s], q.scenes[s])

LEMMA TouchedItself ==
  ASSUME NEW p \in ProjectRecord
  PROVE  Touched(p, p)
  BY DEF Touched, SameSettings, SameButLock, SameContent

LEMMA FinalTouched ==
  ASSUME NEW p \in ProjectRecord, NEW f \in FinalStatus
  PROVE  Touched(p, [p EXCEPT !.final = f])
  BY DEF Touched, SameSettings, SameButLock, SameContent, ProjectRecord

LEMMA TouchedEdited ==
  ASSUME NEW p, NEW q, Touched(p, q)
  PROVE  Edited(p, q) /\ Processed(p, q)
  <1>1. RevisedAll(p, q) /\ SameStatesAll(p, q)
    BY DEF Touched, SameButLock, SameContent, RevisedAll, Revised, SameStatesAll, SameStates
  <1>2. Processed(p, q)
    BY DEF Touched, SameButLock, Processed, Marked, KeepsVerdict, KeepsTake
  <1> QED BY <1>1, <1>2, StatesKeptEdited DEF Touched, SameSettings

LEMMA LockTouched ==
  ASSUME disk \in ProjectRecord, NEW s \in Scenes, NEW locked \in BOOLEAN, SetSceneLock(s, locked)
  PROVE  Touched(disk, disk')
  <1> DEFINE c == [disk.scenes[s] EXCEPT !.locked = locked]
             q == SetScene(disk, s, c)
  <1>1. disk' = q
    BY DEF SetSceneLock, Save, SetScene
  <1>2. disk.scenes[s] \in SceneRecord
    BY SceneOfProject
  <1>3. c \in SceneRecord /\ SameButLock(disk.scenes[s], c)
    BY <1>2 DEF SceneRecord, SameButLock, SameContent
  <1> HIDE DEF c
  <1>4. /\ q \in ProjectRecord /\ SameSettings(disk, q)
        /\ q.scenes[s] = c /\ \A t \in Scenes : t # s => q.scenes[t] = disk.scenes[t]
    BY <1>3, SetSceneType, SetSceneFields DEF SetScene, SameSettings, ProjectRecord
  <1>5. \A t \in Scenes : SameButLock(disk.scenes[t], disk.scenes[t])
    BY DEF SameButLock, SameContent
  <1> HIDE DEF q
  <1> QED BY <1>1, <1>3, <1>4, <1>5 DEF Touched

LEMMA MergeTouched ==
  ASSUME disk \in ProjectRecord, MergeStep \/ MergesCancelled
  PROVE  Touched(disk, disk')
  <1>1. disk' = disk \/ \E f \in FinalStatus : disk' = [disk EXCEPT !.final = f]
    <2>1. CASE Required \/ MergesCancelled
      <3>1. disk' = disk \/ disk' = Settle(disk)
        BY <2>1 DEF Required, MergesCancelled, Save, NoSave
      <3>2. \E f \in FinalStatus : Settle(disk) = [disk EXCEPT !.final = f]
        BY DEF Settle, FinalStatus
      <3> QED BY <3>1, <3>2
    <2>2. ASSUME NEW i \in Merges, StartMerge(i) \/ FailMerge(i) \/ Callback(i)
          PROVE  disk' = disk \/ \E f \in FinalStatus : disk' = [disk EXCEPT !.final = f]
      BY <2>2 DEF StartMerge, FailMerge, Callback, Save, NoSave, FinalStatus
    <2>3. ASSUME NEW i \in Merges, FinishMerge(i)
          PROVE  disk' = disk \/ \E f \in FinalStatus : disk' = [disk EXCEPT !.final = f]
      BY <2>3 DEF FinishMerge, Save, NoSave, FinalStatus
    <2> QED BY <2>1, <2>2, <2>3 DEF MergeStep
  <1> QED BY <1>1, TouchedItself, FinalTouched

(***************************************************************************)
(* The routes that hold a document.                                        *)
(***************************************************************************)
HeldSave == SaveReference \/ SaveImages \/ ReplaceMaster \/ InspectMaster \/ KeepMaster

LEMMA HeldEdited ==
  ASSUME ServiceTypeOK, HeldSave
  PROVE  held # NoValue /\ held.doc \in ProjectRecord /\ Edited(held.doc, disk')
  <1> DEFINE p == held.doc
  <1>1. held # NoValue
    BY DEF HeldSave, SaveReference, SaveImages, ReplaceMaster, InspectMaster, KeepMaster
  <1>2. p \in ProjectRecord /\ held.scene \in Scenes /\ held.at \in Nat
    BY <1>1 DEF ServiceTypeOK, HeldRecord
  <1>3. ASSUME NEW q \in ProjectRecord, q.scenes = p.scenes, q.video = p.video
        PROVE  Edited(p, CompileImagePlans(q))
    BY <1>3, SameScenesEdited, PlainEdits, EditedTwice
  <1>4. CASE SaveReference
    BY <1>2, <1>4, TouchedItself, TouchedEdited DEF SaveReference, Save
  <1>5. CASE SaveImages
    <2> DEFINE c == [p.scenes[held.scene] EXCEPT !.plan = "Ready"]
               q == SetScene(p, held.scene, c)
    <2>1. disk' = q
      BY <1>5 DEF SaveImages, Save, SetScene
    <2>2. p.scenes[held.scene] \in SceneRecord
      BY <1>2, SceneOfProject
    <2>3. c \in SceneRecord /\ Revised(p.scenes[held.scene], c)
          /\ SameStates(p.scenes[held.scene], c)
      BY <2>2 DEF SceneRecord, Revised, SameStates
    <2> HIDE DEF c
    <2>4. /\ q \in ProjectRecord /\ q.video = p.video
          /\ q.scenes[held.scene] = c
          /\ \A t \in Scenes : t # held.scene => q.scenes[t] = p.scenes[t]
      BY <1>2, <2>3, SetSceneType, SetSceneFields
    <2> HIDE DEF q
    <2>5. RevisedAll(p, q) /\ SameStatesAll(p, q)
      BY <2>3, <2>4, RevisedItself DEF RevisedAll, SameStatesAll
    <2> QED BY <1>1, <1>2, <2>1, <2>4, <2>5, StatesKeptEdited
  <1>6. CASE ReplaceMaster
    <2> DEFINE m == [p EXCEPT !.master = held.at, !.refs = TRUE, !.refsQC = p.vision]
               e == EveryScene(m, InvalidateRenderEvidence)
               q == CompileImagePlans(e)
    <2>1. disk' = NotReady(q)
      BY <1>6 DEF ReplaceMaster, Save
    <2>2. m \in ProjectRecord /\ m.scenes = p.scenes /\ m.video = p.video
      BY <1>2 DEF ProjectRecord
    <2> HIDE DEF m
    <2>3. Edited(p, m) /\ Edited(m, e)
      BY <2>2, SameScenesEdited, PlainEdits
    <2> HIDE DEF e
    <2>4. Edited(e, q)
      BY <2>3, PlainEdits DEF Edited
    <2> HIDE DEF q
    <2>5. Edited(q, NotReady(q))
      BY <2>4, PlainEdits DEF Edited
    <2> QED BY <1>1, <1>2, <2>1, <2>3, <2>4, <2>5, EditedTwice
  <1>7. CASE InspectMaster
    <2> DEFINE q == [p EXCEPT !.refsQC = p.vision]
    <2>1. disk' = CompileImagePlans(q)
      BY <1>7 DEF InspectMaster, Save
    <2>2. q \in ProjectRecord /\ q.scenes = p.scenes /\ q.video = p.video
      BY <1>2 DEF ProjectRecord
    <2> QED BY <1>1, <1>2, <1>3, <2>1, <2>2
  <1>8. CASE KeepMaster
    <2>1. PICK kept \in BOOLEAN, inspected \in BOOLEAN :
            disk' = CompileImagePlans([p EXCEPT !.refs = kept,
                                         !.refsQC = IF kept /\ ~inspected THEN @ ELSE NoValue])
      BY <1>8 DEF KeepMaster, Save
    <2> DEFINE w == IF kept /\ ~inspected THEN p.refsQC ELSE NoValue
               q == [p EXCEPT !.refs = kept, !.refsQC = w]
    <2>2. disk' = CompileImagePlans(q)
      BY <1>2, <2>1 DEF ProjectRecord
    <2>3. w \in VisionModels \cup {NoValue}
      BY <1>2 DEF ProjectRecord
    <2> HIDE DEF w
    <2>4. q \in ProjectRecord /\ q.scenes = p.scenes /\ q.video = p.video
      BY <1>2, <2>3 DEF ProjectRecord
    <2> QED BY <1>1, <1>2, <1>3, <2>2, <2>4
  <1> QED BY <1>4, <1>5, <1>6, <1>7, <1>8 DEF HeldSave


\* The operations of the service that the idle guard lets through.
GuardedStep ==
  \/ \E m \in VisionModels : UpdateVision(m)
  \/ \E m \in VideoModels : UpdateVideo(m)
  \/ UpdateImage
  \/ \E s \in Scenes, before, after \in WorldStates : UpdateScene(s, before, after)
  \/ CheckContinuity

LEMMA GuardedEdits ==
  ASSUME disk \in ProjectRecord, GuardedStep
  PROVE  Idle(disk) /\ Edited(disk, disk') /\ exists' = TRUE /\ held' = held
  <1>1. Edited(disk, disk')
    BY SettingsEdited, ContentEdited DEF GuardedStep
  <1>2. Idle(disk) /\ exists' = TRUE /\ held' = held
    BY DEF GuardedStep, UpdateVision, UpdateVideo, UpdateImage, UpdateScene, CheckContinuity,
           Free, Unheld, Save
  <1> QED BY <1>1, <1>2

LEMMA LightService ==
  ASSUME disk \in ProjectRecord, ServiceStep, ~GuardedStep, ~HeldSave
  PROVE  Touched(disk, disk') /\ exists' = exists
  <1>1. ASSUME NEW s \in Scenes, NEW locked \in BOOLEAN, SetSceneLock(s, locked)
        PROVE  Touched(disk, disk') /\ exists' = exists
    BY <1>1, LockTouched DEF SetSceneLock, Save
  <1>2. ASSUME NEW kind \in Kinds, NEW s \in Scenes, Hold(kind, s)
        PROVE  Touched(disk, disk') /\ exists' = exists
    BY <1>2, TouchedItself DEF Hold, NoSave
  <1>3. CASE HeldFails
    BY <1>3, TouchedItself DEF HeldFails, NoSave
  <1> QED BY <1>1, <1>2, <1>3 DEF ServiceStep, GuardedStep, HeldSave

\* A step of the service spends at most one operation, and holds nothing but
\* what is on disk.
LEMMA ServiceKeeps ==
  ASSUME TypeOK, ServiceTypeOK, ServiceStep
  PROVE  /\ ops' \in 0..MaxOps /\ exists' \in BOOLEAN /\ ServiceTypeOK'
         /\ held' = held \/ held' = NoValue \/ held'.doc = disk
  <1> USE DocumentAssumption DEF TypeOK, ServiceTypeOK
  <1>1. CASE GuardedStep
    <2>1. exists' = TRUE /\ held' = held
      BY <1>1, GuardedEdits
    <2>2. ops' = ops \/ Operation
      BY <1>1 DEF GuardedStep, UpdateVision, UpdateVideo, UpdateImage, UpdateScene,
                  CheckContinuity, Free
    <2>3. ops' \in 0..MaxOps
      BY <2>2 DEF Operation
    <2> QED BY <2>1, <2>3
  <1>2. ASSUME NEW s \in Scenes, NEW locked \in BOOLEAN, SetSceneLock(s, locked)
        PROVE  ops' = ops /\ exists' = TRUE /\ held' = held
    BY <1>2 DEF SetSceneLock, Free, Save
  <1>3. CASE HeldFails \/ HeldSave
    BY <1>3 DEF HeldFails, HeldSave, SaveReference, SaveImages, ReplaceMaster, InspectMaster,
                KeepMaster, Release, Save, NoSave
  <1>4. ASSUME NEW kind \in Kinds, NEW s \in Scenes, Hold(kind, s)
        PROVE  ops' \in 0..MaxOps /\ exists' = exists /\ held' \in HeldRecord /\ held'.doc = disk
    BY <1>4 DEF Hold, Operation, NoSave, HeldRecord
  <1> QED BY <1>1, <1>2, <1>3, <1>4 DEF ServiceStep, GuardedStep, HeldSave

(***************************************************************************)
(* Types of the studio.                                                    *)
(***************************************************************************)
StudioTypeInv == TypeInv /\ MergeTypeOK /\ ServiceTypeOK

\* What the worker holds is not touched by a step of the service or of a merge.
LEMMA MergeKeeps ==
  ASSUME TypeOK, MergeTypeOK, MergeStep
  PROVE  /\ ops' = ops /\ exists' = exists /\ MergeTypeOK'
         /\ disk' = disk \/ exists
  <1>1. CASE Required
    BY <1>1 DEF Required, mergeVars, MergeTypeOK, Save
  <1>2. ASSUME NEW i \in Merges, StartMerge(i) \/ FinishMerge(i) \/ FailMerge(i) \/ Callback(i)
        PROVE  /\ ops' = ops /\ exists' = exists /\ MergeTypeOK'
               /\ disk' = disk \/ exists
    BY <1>2 DEF StartMerge, FinishMerge, FailMerge, Callback, MergeTypeOK, TypeOK, Save, NoSave,
                Ended, Merges
  <1> QED BY <1>1, <1>2 DEF MergeStep

LEMMA DocumentChanges ==
  ASSUME TypeInv, UNCHANGED queueVars, disk' \in ProjectRecord, exists' \in BOOLEAN,
         ops' \in 0..MaxOps
  PROVE  TypeInv'
  BY DEF TypeInv, TypeOK, ControlOK, queueVars, memory

LEMMA ForgottenType ==
  ASSUME TypeInv, Forget, UNCHANGED <<made, burst>>, disk' \in ProjectRecord,
         exists' \in BOOLEAN, ops' \in 0..MaxOps
  PROVE  TypeInv' /\ QueuedIdsExact'
  <1>1. TypeInv'
    BY DEF TypeInv, TypeOK, ControlOK, Forget, Suspended, HoldsNothing, HoldsSnapshot, Nothing, Given
  <1>2. QueuedIdsExact'
    BY EmptyExact DEF Forget, QueuedIdsExact, InQueue
  <1> QED BY <1>1, <1>2

LEMMA ShutdownDoes ==
  ASSUME TypeInv, Shutdown
  PROVE  /\ Touched(disk, disk') /\ exists' = exists /\ ops' \in 0..MaxOps
         /\ held' = NoValue /\ Forget /\ UNCHANGED <<made, burst>>
  <1>1. Touched(disk, disk')
    BY MergeTouched DEF Shutdown, TypeInv, TypeOK
  <1>2. exists' = exists
    BY DEF Shutdown, MergesCancelled, Save, NoSave
  <1>3. ops' \in 0..MaxOps
    BY DocumentAssumption DEF Shutdown, Operation, TypeInv, TypeOK
  <1> QED BY <1>1, <1>2, <1>3 DEF Shutdown

\* The steps of the studio, by who makes them.
QueueStep ==
  /\ Next
  /\ \/ UNCHANGED <<mergeVars, held>>
     \/ Crash /\ ForgetMerges /\ held' = NoValue

LEMMA StudioSteps ==
  ASSUME [StudioNext]_studioVars
  PROVE  QueueStep \/ Shutdown \/ Service \/ Merging \/ UNCHANGED studioVars
  <1>1. CASE QueueRoute
    <2>1. Next
      BY <1>1 DEF QueueRoute, Next
    <2>2. UNCHANGED <<mergeVars, held>>
      BY <1>1 DEF QueueRoute
    <2>3. QueueStep
      BY <2>1, <2>2 DEF QueueStep
    <2> QED BY <2>3
  <1>2. CASE QueueWorker
    <2>1. Next
      BY <1>2 DEF QueueWorker, Next
    <2>2. UNCHANGED <<mergeVars, held>>
      BY <1>2 DEF QueueWorker
    <2>3. QueueStep
      BY <2>1, <2>2 DEF QueueStep
    <2> QED BY <2>3
  <1>3. CASE ProcessDies
    BY <1>3 DEF ProcessDies, QueueStep, Next
  <1> QED BY <1>1, <1>2, <1>3 DEF StudioNext

LEMMA StudioTypeInit == StudioInit => StudioTypeInv
  BY TypeInit DEF StudioInit, StudioTypeInv, MergeInit, MergeTypeOK, ServiceTypeOK

LEMMA StudioTypeStep == StudioTypeInv /\ [StudioNext]_studioVars => StudioTypeInv'
  <1> SUFFICES ASSUME StudioTypeInv, [StudioNext]_studioVars
               PROVE  StudioTypeInv'
    OBVIOUS
  <1> USE DEF StudioTypeInv
  <1>1. CASE QueueStep
    <2>1. TypeInv'
      BY <1>1, TypeStep DEF QueueStep
    <2>2. MergeTypeOK' /\ ServiceTypeOK'
      BY <1>1 DEF QueueStep, mergeVars, ForgetMerges, MergeTypeOK, ServiceTypeOK
    <2> QED BY <2>1, <2>2
  <1>2. CASE Shutdown
    <2>1. TypeInv'
      BY <1>2, ShutdownDoes, ForgottenType DEF Touched, TypeInv, TypeOK
    <2>2. MergeTypeOK' /\ ServiceTypeOK'
      BY <1>2 DEF Shutdown, ForgetMerges, MergeTypeOK, ServiceTypeOK
    <2> QED BY <2>1, <2>2
  <1>3. CASE Service
    <2>1. disk' \in ProjectRecord
      BY <1>3, GuardedEdits, HeldEdited, LightService DEF Service, Edited, Touched, TypeInv, TypeOK
    <2>2. ops' \in 0..MaxOps /\ exists' \in BOOLEAN /\ ServiceTypeOK'
      BY <1>3, ServiceKeeps DEF Service, TypeInv
    <2>3. TypeInv'
      BY <1>3, <2>1, <2>2, DocumentChanges DEF Service
    <2>4. MergeTypeOK'
      BY <1>3 DEF Service, mergeVars, MergeTypeOK
    <2> QED BY <2>2, <2>3, <2>4
  <1>4. CASE Merging
    <2>1. disk' \in ProjectRecord
      BY <1>4, MergeTouched DEF Merging, Touched, TypeInv, TypeOK
    <2>2. ops' = ops /\ exists' = exists /\ MergeTypeOK'
      BY <1>4, MergeKeeps DEF Merging, TypeInv
    <2>3. TypeInv'
      BY <1>4, <2>1, <2>2, DocumentChanges DEF Merging, TypeInv, TypeOK
    <2> QED BY <1>4, <2>2, <2>3 DEF Merging, ServiceTypeOK
  <1>5. CASE UNCHANGED studioVars
    <2>1. UNCHANGED vars
      BY <1>5 DEF studioVars
    <2>2. TypeInv'
      BY <2>1, TypeStep
    <2> QED BY <1>5, <2>2 DEF studioVars, mergeVars, MergeTypeOK, ServiceTypeOK
  <1> QED BY <1>1, <1>2, <1>3, <1>4, <1>5, StudioSteps

\* Every document that is written, held or merged in the studio is a document,
\* and the tables of the queue, the merge and the routes keep their types
\* (render_queue.py, service.py, project_routes.py, main.py).
THEOREM StudioTypes == StudioSpec => []StudioTypeOK
  <1>1. StudioTypeInv => StudioTypeOK
    BY DEF StudioTypeInv, StudioTypeOK, TypeInv
  <1> QED BY <1>1, StudioTypeInit, StudioTypeStep, PTL DEF StudioSpec

(***************************************************************************)
(* The set of queued ids, under every edit and every merge.                *)
(***************************************************************************)
LEMMA StudioExactStep ==
  ASSUME StudioTypeInv, QueuedIdsExact, [StudioNext]_studioVars
  PROVE  QueuedIdsExact'
  <1>1. CASE QueueStep
    BY <1>1, ExactStep DEF QueueStep, QueueInv, StudioTypeInv
  <1>2. CASE Shutdown
    BY <1>2, ShutdownDoes, ForgottenType DEF Touched, StudioTypeInv, TypeInv, TypeOK
  <1>3. CASE Service \/ Merging \/ UNCHANGED studioVars
    <2>1. UNCHANGED <<queue, queuedIds, cur>>
      BY <1>3 DEF Service, Merging, studioVars, vars, queueVars, memory
    <2> QED BY <2>1 DEF QueuedIdsExact, InQueue
  <1> QED BY <1>1, <1>2, <1>3, StudioSteps

\* _queued_ids stays exactly the queue and the scene in hand while the service
\* edits, routes save the documents they held and merges come and go.
THEOREM StudioQueueExact == StudioSpec => []QueuedIdsExact
  <1>1. StudioInit => StudioTypeInv /\ QueuedIdsExact
    BY StudioTypeInit, EmptyExact DEF StudioInit, Init
  <1>2. StudioTypeInv /\ QueuedIdsExact /\ [StudioNext]_studioVars
          => (StudioTypeInv /\ QueuedIdsExact)'
    BY StudioTypeStep, StudioExactStep
  <1> QED BY <1>1, <1>2, PTL DEF StudioSpec


(***************************************************************************)
(* What is accepted meets its neighbours.                                  *)
(***************************************************************************)
Sound(p) ==
  /\ \A s \in Scenes : p.scenes[s].acc = "Accepted" => p.scenes[s].committed = p.scenes[s].endState
  /\ Follows(p)

\* A take that is stored was rendered from the content that is stored.
Written(p) == \A s \in Scenes : p.scenes[s].take # 0 => p.scenes[s].takeText = p.scenes[s].text

LEMMA ProcessedSound ==
  ASSUME NEW p, NEW q, Processed(p, q)
  PROVE  (Sound(p) => Sound(q)) /\ (Written(p) => Written(q))
  <1>1. SameStatesAll(p, q)
    BY DEF Processed, Marked, SameContent, SameStatesAll, SameStates
  <1>2. Sound(p) => Sound(q)
    BY <1>1, FollowsSame DEF Sound, Processed, Marked, SameContent, KeepsVerdict
  <1>3. Written(p) => Written(q)
    BY DEF Written, Processed, Marked, SameContent, KeepsTake
  <1> QED BY <1>2, <1>3

LEMMA EditedSound ==
  ASSUME NEW p, NEW q, Edited(p, q)
  PROVE  (Sound(p) => Sound(q)) /\ (Written(p) => Written(q))
  BY DEF Sound, Written, Edited, RevisedAll, Revised

\* The two kinds of project a behaviour starts from.
LEMMA NewProject ==
  ASSUME NEW v \in VideoModels, NEW w \in VisionModels, NEW refsQC \in VisionModels \cup {NoValue},
         NEW f \in [Scenes -> SceneRecord],
         \A s \in Scenes : /\ f[s].status \notin InFlight
                           /\ f[s].acc = "Accepted" => f[s].committed = f[s].endState
                           /\ f[s].take # 0 => f[s].takeText = f[s].text,
         \A s \in Anchored : f[s].startState = f[s - 1].endState
  PROVE  LET q == CompileImagePlans([scenes |-> f, final |-> "NotReady", refs |-> TRUE,
                                     refsQC |-> refsQC, master |-> 1, video |-> v, vision |-> w])
         IN /\ q \in ProjectRecord /\ Sound(q) /\ Written(q) /\ Idle(q)
            /\ Sound(RefreshFinal(q)) /\ Written(RefreshFinal(q)) /\ Idle(RefreshFinal(q))
  <1> DEFINE p == [scenes |-> f, final |-> "NotReady", refs |-> TRUE,
                   refsQC |-> refsQC, master |-> 1, video |-> v, vision |-> w]
             q == CompileImagePlans(p)
             r == RefreshFinal(q)
  <1>1. p \in ProjectRecord /\ p.scenes = f
    BY DEF ProjectRecord, FinalStatus
  <1> HIDE DEF p
  <1>2. Sound(p) /\ Written(p) /\ Idle(p)
    BY <1>1 DEF Sound, Written, Idle, Follows
  <1>3. q \in ProjectRecord /\ Processed(p, q) /\ \A s \in Scenes : q.scenes[s].status = p.scenes[s].status
    BY <1>1, CompileType, CompileProcessed, CompileKeeps
  <1> HIDE DEF q
  <1>4. Processed(q, r) /\ r.scenes = q.scenes
    BY <1>3, FinalProcessed DEF RefreshFinal, ProjectRecord
  <1> HIDE DEF r
  <1>5. Sound(q) /\ Written(q) /\ Idle(q)
    BY <1>2, <1>3, ProcessedSound DEF Idle
  <1>6. Sound(r) /\ Written(r) /\ Idle(r)
    BY <1>4, <1>5, ProcessedSound DEF Idle
  <1> QED BY <1>3, <1>5, <1>6 DEF p, q, r

LEMMA FirstDocument ==
  ASSUME Init
  PROVE  Sound(disk) /\ Written(disk) /\ Idle(disk)
  <1>1. PICK v \in VideoModels, w \in VisionModels,
             before \in [Scenes -> WorldStates], after \in [Scenes -> WorldStates] :
          \/ /\ AnchoredStates(before, after)
             /\ \E opened \in SUBSET Scenes, refsQC \in {w, NoValue} :
                  disk = FreshProject(v, w, refsQC, before, after, opened)
          \/ /\ DirectStates(before, after)
             /\ disk = RenderedProject(v, w, before, after)
    BY DEF Init, DocumentInit
  <1>2. \A s \in Anchored : s \in Scenes /\ s - 1 \in Scenes /\ s \in Direct
    BY SceneAssumption DEF Scenes
  <1>3. ASSUME AnchoredStates(before, after), NEW opened \in SUBSET Scenes, NEW refsQC \in {w, NoValue},
               disk = FreshProject(v, w, refsQC, before, after, opened)
        PROVE  Sound(disk) /\ Written(disk) /\ Idle(disk)
    <2> DEFINE f == [s \in Scenes |-> FreshScene(before[s], after[s], s \notin opened)]
    <2>1. \A a, b \in WorldStates, k \in BOOLEAN :
            FreshScene(a, b, k) \in SceneRecord
      BY DEF FreshScene, SceneRecord, Status, Acceptance, Evidence
    <2>2. f \in [Scenes -> SceneRecord]
      BY <2>1
    <2>3. \A s \in Scenes : /\ f[s].status = "Waiting" /\ f[s].acc = "Pending" /\ f[s].take = 0
                            /\ f[s].startState = before[s] /\ f[s].endState = after[s]
      <3> SUFFICES ASSUME NEW s \in Scenes
                   PROVE  /\ f[s].status = "Waiting" /\ f[s].acc = "Pending" /\ f[s].take = 0
                          /\ f[s].startState = before[s] /\ f[s].endState = after[s]
        OBVIOUS
      <3>1. f[s] = FreshScene(before[s], after[s], s \notin opened)
        OBVIOUS
      <3> HIDE DEF f
      <3> QED BY <3>1 DEF FreshScene
    <2>4. \A s \in Anchored : f[s].startState = f[s - 1].endState
      BY <1>2, <1>3, <2>3 DEF AnchoredStates
    <2>5. disk = CompileImagePlans([scenes |-> f, final |-> "NotReady", refs |-> TRUE,
                                    refsQC |-> refsQC, master |-> 1, video |-> v, vision |-> w])
      BY <1>3 DEF FreshProject
    <2> HIDE DEF f
    <2> QED BY <2>2, <2>3, <2>4, <2>5, NewProject DEF InFlight
  <1>4. ASSUME DirectStates(before, after), disk = RenderedProject(v, w, before, after)
        PROVE  Sound(disk) /\ Written(disk) /\ Idle(disk)
    <2> DEFINE f == [s \in Scenes |-> RenderedScene(s, v, w, before[s], after[s])]
    <2>2. f \in [Scenes -> SceneRecord]
      BY RenderedSceneType
    <2>3. \A s \in Scenes : /\ f[s].status = "Accepted" /\ f[s].committed = f[s].endState
                            /\ f[s].takeText = f[s].text
                            /\ f[s].startState = before[s] /\ f[s].endState = after[s]
      <3> SUFFICES ASSUME NEW s \in Scenes
                   PROVE  /\ f[s].status = "Accepted" /\ f[s].committed = f[s].endState
                          /\ f[s].takeText = f[s].text
                          /\ f[s].startState = before[s] /\ f[s].endState = after[s]
        OBVIOUS
      <3>1. f[s] = RenderedScene(s, v, w, before[s], after[s])
        OBVIOUS
      <3> HIDE DEF f
      <3> QED BY <3>1 DEF RenderedScene, FreshScene
    <2>4. \A s \in Anchored : f[s].startState = f[s - 1].endState
      BY <1>2, <1>4, <2>3 DEF DirectStates
    <2>5. disk = RefreshFinal(CompileImagePlans(
                   [scenes |-> f, final |-> "NotReady", refs |-> TRUE, refsQC |-> w,
                    master |-> 1, video |-> v, vision |-> w]))
      BY <1>4 DEF RenderedProject
    <2> HIDE DEF f
    <2> QED BY <2>2, <2>3, <2>4, <2>5, NewProject DEF InFlight
  <1> QED BY <1>1, <1>3, <1>4

\* The invariant: every document that is stored or will be saved.
MeetInv ==
  /\ StudioTypeInv
  /\ Sound(disk)
  /\ pc \in HoldsSnapshot => Sound(snap)
  /\ held # NoValue => Sound(held.doc)

LEMMA QueueSound ==
  ASSUME TypeInv, Next, Sound(disk), pc \in HoldsSnapshot => Sound(snap)
  PROVE  Sound(disk') /\ (pc' \in HoldsSnapshot => Sound(snap'))
  <1>1. CASE ~Generated
    <2>1. Sound(disk')
      BY <1>1, QueueSaves, ProcessedSound
    <2> QED BY <2>1, SnapshotAfter
  <1>2. CASE Generated
    <2>1. SameStatesAll(disk, disk')
      BY <1>2, AnswerSaves DEF SameStatesAll, SameStates, SameContent
    <2>2. Sound(disk')
      BY <1>2, <2>1, AnswerSaves, FollowsSame DEF Sound, KeepsVerdict, SameContent
    <2> QED BY <2>2, SnapshotAfter
  <1> QED BY <1>1, <1>2

LEMMA MeetInit == StudioInit => MeetInv
  <1> SUFFICES ASSUME StudioInit PROVE MeetInv
    OBVIOUS
  <1>1. pc \notin HoldsSnapshot /\ held = NoValue
    BY DEF StudioInit, Init, HoldsSnapshot
  <1> QED BY <1>1, StudioTypeInit, FirstDocument DEF StudioInit, MeetInv

LEMMA MeetStep == MeetInv /\ [StudioNext]_studioVars => MeetInv'
  <1> SUFFICES ASSUME MeetInv, [StudioNext]_studioVars
               PROVE  MeetInv'
    OBVIOUS
  <1> USE DEF MeetInv
  <1>1. StudioTypeInv'
    BY StudioTypeStep
  <1>2. ASSUME Sound(disk'), pc' \in HoldsSnapshot => Sound(snap'),
               held' # NoValue => Sound(held'.doc)
        PROVE  MeetInv'
    BY <1>1, <1>2 DEF Sound, Follows
  <1>3. CASE QueueStep
    <2>1. Sound(disk') /\ (pc' \in HoldsSnapshot => Sound(snap'))
      BY <1>3, QueueSound DEF QueueStep, StudioTypeInv
    <2>2. held' = held \/ held' = NoValue
      BY <1>3 DEF QueueStep
    <2> QED BY <1>2, <2>1, <2>2
  <1>4. CASE Shutdown
    <2>1. Sound(disk')
      BY <1>4, ShutdownDoes, TouchedEdited, EditedSound DEF StudioTypeInv
    <2>2. pc' \notin HoldsSnapshot /\ held' = NoValue
      BY <1>4 DEF Shutdown, Forget, HoldsSnapshot
    <2> QED BY <1>2, <2>1, <2>2
  <1>5. CASE Service
    <2>1. Sound(disk')
      <3>1. disk \in ProjectRecord /\ ServiceTypeOK
        BY DEF StudioTypeInv, TypeInv, TypeOK
      <3>2. CASE GuardedStep
        BY <3>1, <3>2, GuardedEdits, EditedSound
      <3>3. CASE HeldSave
        BY <3>1, <3>3, HeldEdited, EditedSound
      <3>4. CASE ~GuardedStep /\ ~HeldSave
        BY <1>5, <3>1, <3>4, LightService, TouchedEdited, EditedSound DEF Service
      <3> QED BY <3>2, <3>3, <3>4
    <2>2. pc' = pc /\ snap' = snap
      BY <1>5 DEF Service, queueVars, memory
    <2>3. held' = held \/ held' = NoValue \/ held'.doc = disk
      BY <1>5, ServiceKeeps DEF Service, StudioTypeInv, TypeInv
    <2> QED BY <1>2, <2>1, <2>2, <2>3
  <1>6. CASE Merging
    <2>1. Sound(disk')
      BY <1>6, MergeTouched, TouchedEdited, EditedSound DEF Merging, StudioTypeInv, TypeInv, TypeOK
    <2>2. pc' = pc /\ snap' = snap /\ held' = held
      BY <1>6 DEF Merging, queueVars, memory
    <2> QED BY <1>2, <2>1, <2>2
  <1>7. CASE UNCHANGED studioVars
    <2>1. disk' = disk /\ pc' = pc /\ snap' = snap /\ held' = held
      BY <1>7 DEF studioVars, vars
    <2> QED BY <1>2, <2>1
  <1> QED BY <1>3, <1>4, <1>5, <1>6, <1>7, StudioSteps

\* Two accepted neighbours meet, whatever is edited, locked, re-rendered, merged
\* or saved late in between: the state committed for the first is the state the
\* anchored second one starts from (commit_accepted_runtime_state,
\* build_visual_bible, _invalidate_changed_contract_evidence).
THEOREM StatesMeet == StudioSpec => []ReadyStatesMeet
  <1>1. MeetInv => ReadyStatesMeet
    <2> SUFFICES ASSUME MeetInv, NEW s \in Anchored, ProductionReady(disk, s - 1)
                 PROVE  disk.scenes[s - 1].committed = disk.scenes[s].startState
      BY DEF ReadyStatesMeet
    <2>1. s - 1 \in Scenes
      BY SceneAssumption DEF Scenes
    <2> QED BY <2>1 DEF MeetInv, Sound, Follows, ProductionReady
  <1> QED BY <1>1, MeetInit, MeetStep, PTL DEF StudioSpec


(***************************************************************************)
(* The idle guard at work.  From here on no route holds a document over an *)
(* await (Held = {}): those routes save what they read before without      *)
(* asking again, and the promises below do not survive them.               *)
(*                                                                         *)
(* The stored status shows the stage of the worker wherever it is          *)
(* suspended over a render, so an edit that the guard lets through finds   *)
(* the worker before or between its scenes; what the worker holds agrees   *)
(* with the disk on everything an edit writes.                             *)
(***************************************************************************)
Agree(p, q) ==
  SameSettings(p, q) /\ \A s \in Scenes : SameContent(p.scenes[s], q.scenes[s])

BusyOK ==
  /\ \A st \in InFlight : pc \in Stage(st) => disk.scenes[cur].status = st
  /\ pc \in {"masters", "refs"} => snap.scenes[cur].status = "Preparing"

EditOK ==
  /\ Written(disk)
  /\ pc \in HoldsSnapshot => Written(snap) /\ Agree(snap, disk)
  /\ pc = "gen" => given.text = disk.scenes[cur].text
  /\ BusyOK

EditInv == held = NoValue /\ MergeTypeOK /\ PromiseInv /\ EditOK

LEMMA EditTypes ==
  ASSUME EditInv
  PROVE  StudioTypeInv /\ TypeInv /\ disk \in ProjectRecord
  BY DEF EditInv, PromiseInv, QueueInv, StudioTypeInv, ServiceTypeOK, TypeInv, TypeOK

LEMMA ProcessedAgree ==
  ASSUME NEW p, NEW q
  PROVE  /\ Processed(p, q) => Agree(p, q)
         /\ \A r : Agree(p, q) /\ Agree(p, r) => Agree(q, r)
         /\ \A r : Agree(p, q) /\ Agree(q, r) => Agree(p, r)
  BY DEF Processed, Agree, Marked, SameContent, SameSettings

\* Where the worker is suspended over a render, the guard says no.
LEMMA GuardHolds ==
  ASSUME EditInv, Idle(disk), LoopFree
  PROVE  pc \in {"none", "start", "wait1", "woken1"}
  <1>1. \A st \in InFlight : pc \notin Stage(st)
    <2> SUFFICES ASSUME NEW st \in InFlight, pc \in Stage(st)
                 PROVE  FALSE
      OBVIOUS
    <2>1. cur \in Scenes
      BY PromiseTypes DEF EditInv, InFlight, Stage, HoldsNothing
    <2> QED BY <2>1 DEF EditInv, EditOK, BusyOK, Idle
  <1> QED BY <1>1 DEF LoopFree, Suspended, InFlight, Stage

\* The stage is stored before the worker suspends over it.
LEMMA BusyStep ==
  ASSUME PromiseInv, BusyOK, Next
  PROVE  BusyOK'
  <1> USE DEF BusyOK, InFlight, Stage
  <1>1. /\ disk \in ProjectRecord /\ \A s \in Scenes : disk.scenes[s] \in SceneRecord
        /\ pc \in HoldsSnapshot => snap \in ProjectRecord
        /\ pc \notin HoldsNothing => cur \in Scenes
        /\ pc \in HoldsNothing => cur = 0
    BY PromiseTypes
  <1>2. ASSUME pc' \in {"none", "start", "loop", "begin", "wait1", "woken1", "accepted", "rejected"}
        PROVE  BusyOK'
    BY <1>2
  <1>3. ASSUME NEW ids \in SUBSET Scenes, NEW force \in BOOLEAN, Enqueue(ids, force)
        PROVE  BusyOK'
    <2>1. CASE pc = "none"
      BY <1>2, <1>3, <2>1 DEF Enqueue, StartWorker
    <2>2. CASE pc \in HoldsNothing /\ pc # "none"
      BY <1>2, <1>3, <2>2 DEF Enqueue, StartWorker, HoldsNothing
    <2>3. CASE pc \notin HoldsNothing
      <3>1. cur \in Scenes /\ cur \notin Enqueued(ids)
        BY <1>1, <2>3, ZeroIsNoScene DEF PromiseInv, QueueInv, QueuedIdsExact, Enqueued
      <3>2. disk'.scenes[cur] = disk.scenes[cur]
        BY <1>1, <1>3, <3>1 DEF Enqueue, Save, ProjectRecord
      <3>3. pc' = pc /\ cur' = cur /\ snap' = snap
        BY <1>3, <2>3 DEF Enqueue, StartWorker, HoldsNothing
      <3> QED BY <3>2, <3>3
    <2> QED BY <2>1, <2>2, <2>3
  <1>4. CASE Pause \/ Resume
    <2>1. PICK a \in {"Waiting", "Paused"}, b \in {"Waiting", "Paused"} : disk' = Relabel(disk, a, b)
      BY <1>4 DEF Pause, Resume, Save
    <2>2. /\ cur' = cur /\ snap' = snap
          /\ \/ pc' = pc
             \/ pc = "wait1" /\ pc' = "woken1"
             \/ pc = "wait2" /\ pc' = "woken2"
      BY <1>4 DEF Pause, Resume
    <2>3. cur \in Scenes /\ disk.scenes[cur].status \notin {"Waiting", "Paused"} =>
            disk'.scenes[cur] = disk.scenes[cur]
      BY <1>1, <2>1 DEF Relabel, ProjectRecord
    <2>4. ASSUME NEW st \in InFlight, pc' \in Stage(st) PROVE disk'.scenes[cur].status = st
      <3>1. pc \in Stage(st)
        BY <2>2, <2>4
      <3>2. disk.scenes[cur].status = st /\ cur \in Scenes
        BY <1>1, <2>4, <3>1 DEF HoldsNothing
      <3> QED BY <2>3, <2>4, <3>2
    <2> QED BY <2>2, <2>4
  <1>5. CASE Delete
    BY <1>5 DEF Delete, memory
  <1>6. CASE Crash \/ Exit \/ Take \/ Gone \/ DeferToPredecessor
    <2>1. pc' \in {"none", "begin", "wait1", "loop"}
      BY <1>6 DEF Crash, Forget, Exit, Take, Gone, Done, DeferToPredecessor, Requeue
    <2> QED BY <1>2, <2>1
  <1>7. CASE ContainedStep
    <2>1. pc' = "loop"
      BY <1>7, ContainedStepDoes DEF Contained, Done
    <2> QED BY <1>2, <2>1
  <1>8. CASE RefsRejected \/ QCAccepts \/ QCRejects \/ RetryRepair \/ ManualReview \/ Propagate
    <2>1. pc' \in {"loop", "accepted", "rejected"}
      BY <1>8 DEF RefsRejected, QCAccepts, QCRejects, RetryRepair, ManualReview, Propagate,
                  Done, Requeue
    <2> QED BY <1>2, <2>1
  <1>9. CASE Prepare \/ Generate \/ MarkQC
    <2>1. /\ cur' = cur /\ cur \in Scenes
          /\ \/ /\ disk' = Update(disk, cur, "Preparing") /\ snap' = disk'
                /\ pc' \in {"masters", "refs"}
             \/ /\ disk' = Update(disk, cur, "Generating") /\ pc' \in {"refused", "gen"}
             \/ /\ disk' = Update(disk, cur, "QC") /\ pc' \in {"judge", "qc"}
      BY <1>1, <1>9 DEF Prepare, Begins, Generate, MarkQC, Save, HoldsNothing
    <2>2. \A st \in Status : Update(disk, cur, st).scenes[cur].status = st
      BY <1>1, <2>1, UpdateKeeps
    <2> QED BY <2>1, <2>2 DEF Status
  <1>10. CASE RefsApproved
    <2>1. /\ snap \in ProjectRecord /\ pc \in {"masters", "refs"} /\ cur \in Scenes
          /\ disk' = CompileImagePlans(EnsureMasters(snap)) /\ cur' = cur
          /\ pc' \in {"render", "wait2"}
      BY <1>1, <1>10 DEF RefsApproved, Save, HoldsSnapshot, HoldsNothing
    <2>2. EnsureMasters(snap) \in ProjectRecord /\ EnsureMasters(snap).scenes = snap.scenes
      BY <2>1, EnsureType DEF EnsureMasters, ProjectRecord
    <2>3. disk'.scenes[cur].status = "Preparing"
      BY <2>1, <2>2, CompileKeeps
    <2> QED BY <2>1, <2>3
  <1>11. CASE CountAttempt
    <2>1. cur' = cur /\ cur \in Scenes /\ pc \in {"render", "woken2"} /\ pc' = "counted"
      BY <1>1, <1>11 DEF CountAttempt, Renders, HoldsNothing
    <2>2. disk'.scenes[cur].status = disk.scenes[cur].status
      BY <1>1, <1>11, <2>1 DEF CountAttempt, Save, ProjectRecord, SceneRecord
    <2> QED BY <2>1, <2>2
  <1>12. CASE Generated
    <2>1. disk'.scenes[cur].status = disk.scenes[cur].status /\ pc = "gen"
      BY <1>12, AnswerSaves DEF PromiseInv, QueueInv
    <2>2. cur' = cur /\ pc' = "saved"
      BY <1>12 DEF Generated
    <2> QED BY <2>1, <2>2
  <1> QED
    BY <1>3, <1>4, <1>5, <1>6, <1>7, <1>8, <1>9, <1>10, <1>11, <1>12
    DEF Next, Worker, ContainedStep


\* A call is made with the content of the scene, and only a new call changes it.
LEMMA CallStep ==
  ASSUME TypeInv, Next, pc' = "gen"
  PROVE  \/ Generate
         \/ pc = "gen" /\ given' = given /\ cur' = cur /\ ~Generated
  <1>1. ASSUME NEW ids \in SUBSET Scenes, NEW force \in BOOLEAN, Enqueue(ids, force)
        PROVE  pc = "gen" /\ given' = given /\ cur' = cur
    BY <1>1 DEF Enqueue, StartWorker
  <1>2. ASSUME Pause \/ Resume \/ Delete
        PROVE  pc = "gen" /\ given' = given /\ cur' = cur
    BY <1>2 DEF Pause, Resume, Delete, memory
  <1>3. ~(Crash \/ Exit \/ Take \/ Gone \/ DeferToPredecessor)
    BY DEF Crash, Forget, Exit, Take, Gone, Done, DeferToPredecessor, Requeue
  <1>4. ~ContainedStep
    BY ContainedStepDoes DEF Contained, Done
  <1>5. ~(RefsRejected \/ QCAccepts \/ QCRejects \/ RetryRepair \/ ManualReview \/ Propagate)
    BY DEF RefsRejected, QCAccepts, QCRejects, RetryRepair, ManualReview, Propagate, Done, Requeue
  <1>6. ~(Prepare \/ MarkQC \/ RefsApproved \/ CountAttempt \/ Generated)
    BY DEF Prepare, MarkQC, RefsApproved, CountAttempt, Generated
  <1> QED BY <1>1, <1>2, <1>3, <1>4, <1>5, <1>6 DEF Next, Worker, ContainedStep

LEMMA QueueWritten ==
  ASSUME PromiseInv, EditOK, Next
  PROVE  EditOK'
  <1>1. TypeInv
    BY DEF PromiseInv, QueueInv
  <1>2. BusyOK'
    BY BusyStep DEF EditOK
  <1>3. Agree(disk, disk')
    <2>1. CASE Generated
      <3>1. \A s \in Scenes : SameContent(disk.scenes[s], disk'.scenes[s])
        BY <1>1, <2>1, AnswerSaves DEF SameContent
      <3> QED BY <1>1, <2>1, <3>1, AnswerSaves DEF Agree
    <2>2. CASE ~Generated
      <3>1. CASE Processed(disk, disk')
        BY <3>1, ProcessedAgree
      <3>2. CASE pc \in HoldsSnapshot /\ Processed(snap, disk')
        BY <3>2, ProcessedAgree DEF EditOK
      <3> QED BY <1>1, <2>2, <3>1, <3>2, QueueSaves
    <2> QED BY <2>1, <2>2
  <1>4. Written(disk')
    <2>1. CASE Generated
      <3>1. /\ pc = "gen" /\ cur \in Scenes
            /\ \A s \in Scenes : s # cur => disk'.scenes[s] = disk.scenes[s]
            /\ disk'.scenes[cur].text = disk.scenes[cur].text
            /\ disk'.scenes[cur].take # 0 => disk'.scenes[cur].takeText = given.text
        BY <1>1, <2>1, AnswerSaves DEF SameContent
      <3> QED BY <3>1 DEF EditOK, Written
    <2>2. CASE ~Generated
      BY <1>1, <2>2, QueueSaves, ProcessedSound DEF EditOK
    <2> QED BY <2>1, <2>2
  <1>5. pc' \in HoldsSnapshot => Written(snap') /\ Agree(snap', disk')
    <2> SUFFICES ASSUME pc' \in HoldsSnapshot
                 PROVE  Written(snap') /\ Agree(snap', disk')
      OBVIOUS
    <2>1. CASE snap' = disk'
      BY <1>4, <2>1 DEF Agree, SameSettings, SameContent
    <2>2. CASE snap' = snap /\ pc' = pc
      BY <1>3, <2>2, ProcessedAgree DEF EditOK
    <2> QED BY <1>1, <2>1, <2>2, SnapshotAfter
  <1>6. pc' = "gen" => given'.text = disk'.scenes[cur'].text
    <2> SUFFICES ASSUME pc' = "gen"
                 PROVE  given'.text = disk'.scenes[cur'].text
      OBVIOUS
    <2>1. pc \in {"counted", "gen"} /\ cur' = cur /\ given'.text = disk.scenes[cur].text
      <3>1. CASE Generate
        BY <3>1 DEF Generate, Bound
      <3>2. CASE pc = "gen" /\ given' = given /\ cur' = cur
        BY <3>2 DEF EditOK
      <3> QED BY <1>1, <3>1, <3>2, CallStep
    <2>2. cur \in Scenes
      BY <1>1, <2>1, TypeFacts DEF HoldsNothing
    <2> QED BY <1>3, <2>1, <2>2 DEF Agree, SameContent
  <1> QED BY <1>2, <1>4, <1>5, <1>6 DEF EditOK, Written, Agree, SameSettings, SameContent

\* A save that touches no evidence and no content leaves every promise.
LEMMA TouchedKeeps ==
  ASSUME PromiseInv, EditOK, Touched(disk, disk'), UNCHANGED queueVars
  PROVE  PromiseOK' /\ EditOK'
  <1> USE DEF queueVars, memory
  <1>1. /\ \A s \in Scenes : SameButLock(disk.scenes[s], disk'.scenes[s])
        /\ SameSettings(disk, disk')
    BY DEF Touched
  <1>2. /\ pc \notin HoldsNothing => cur \in Scenes
        /\ \A s \in Anchored : s \in Scenes /\ s - 1 \in Scenes
    <2>1. pc \notin HoldsNothing => cur \in Scenes
      BY PromiseTypes
    <2>2. \A s \in Anchored : s \in Scenes /\ s - 1 \in Scenes
      BY SceneAssumption DEF Scenes
    <2> QED BY <2>1, <2>2
  <1>3. BudgetOK'
    <2>1. Counted(disk)'
      BY <1>1 DEF Counted, SameButLock, PromiseInv, PromiseOK, BudgetOK
    <2>2. pc \in HoldsSnapshot => Counted(snap)'
      BY DEF Counted, PromiseInv, PromiseOK, BudgetOK
    <2>3. pc = "counted" => burst[cur] < disk'.scenes[cur].attempt
      BY <1>1, <1>2 DEF SameButLock, PromiseInv, PromiseOK, BudgetOK, HoldsNothing
    <2> QED BY <2>1, <2>2, <2>3 DEF PromiseInv, PromiseOK, BudgetOK
  <1>4. StageOK'
    BY <1>1, <1>2 DEF StageOK, SameButLock, PromiseInv, PromiseOK, HoldsNothing
  <1>5. FrameOK'
    BY <1>1, <1>2 DEF FrameOK, SameButLock, PromiseInv, PromiseOK
  <1>6. DemoOK'
    <2>1. NoTakes(disk)'
      BY <1>1 DEF NoTakes, Mock, SameSettings, SameButLock, PromiseInv, PromiseOK, DemoOK
    <2>2. pc \in HoldsSnapshot => NoTakes(snap)'
      BY DEF NoTakes, Mock, PromiseInv, PromiseOK, DemoOK
    <2>3. Mock(disk)' <=> Mock(disk)
      BY <1>1 DEF Mock, SameSettings
    <2> QED BY <2>1, <2>2, <2>3 DEF PromiseInv, PromiseOK, DemoOK
  <1>7. EditOK'
    <2>1. Written(disk)'
      BY <1>1 DEF Written, SameButLock, SameContent, EditOK
    <2>2. pc \in HoldsSnapshot => Written(snap)' /\ Agree(snap, disk)'
      <3>1. Agree(disk, disk')
        BY <1>1 DEF Agree, SameButLock
      <3>2. pc \in HoldsSnapshot => Agree(snap, disk')
        BY <3>1, ProcessedAgree DEF EditOK
      <3> QED BY <3>2 DEF Written, Agree, SameSettings, SameContent, EditOK
    <2>3. pc = "gen" => given.text = disk'.scenes[cur].text
      BY <1>1, <1>2 DEF SameButLock, SameContent, EditOK, HoldsNothing
    <2>4. BusyOK'
      <3>1. \A st \in InFlight : pc \in Stage(st) => cur \in Scenes
        BY <1>2 DEF InFlight, Stage, HoldsNothing
      <3> QED BY <1>1, <3>1 DEF BusyOK, SameButLock, EditOK, Stage
    <2> QED BY <2>1, <2>2, <2>3, <2>4 DEF EditOK
  <1> QED BY <1>3, <1>4, <1>5, <1>6, <1>7 DEF PromiseOK

\* An edit that the guard lets through meets no render.
LEMMA EditedKeeps ==
  ASSUME PromiseInv, EditOK, Edited(disk, disk'), UNCHANGED queueVars,
         pc \in {"none", "start", "wait1", "woken1"}
  PROVE  PromiseOK' /\ EditOK'
  <1> USE DEF queueVars, memory
  <1>1. BudgetOK'
    <2>1. Counted(disk)'
      BY DEF Counted, Edited, RevisedAll, Revised, PromiseInv, PromiseOK, BudgetOK
    <2> QED BY <2>1 DEF HoldsSnapshot, PromiseInv, PromiseOK, BudgetOK
  <1>2. StageOK' /\ FrameOK'
    BY DEF StageOK, FrameOK, HoldsSnapshot
  <1>3. DemoOK'
    <2>1. NoTakes(disk)'
      BY DEF NoTakes, Mock, Edited, RevisedAll, Revised, PromiseInv, PromiseOK, DemoOK
    <2> QED BY <2>1 DEF DemoOK, HoldsSnapshot
  <1>4. EditOK'
    <2>1. Written(disk)'
      BY EditedSound DEF Written, EditOK
    <2>2. BusyOK'
      BY DEF BusyOK, InFlight, Stage
    <2> QED BY <2>1, <2>2 DEF EditOK, HoldsSnapshot
  <1> QED BY <1>1, <1>2, <1>3, <1>4 DEF PromiseOK


\* Without a held document a step of the service is an edit the guard let
\* through or touches no content.
LEMMA ServiceEdits ==
  ASSUME EditInv, ServiceStep, Held = {}
  PROVE  /\ (Idle(disk) /\ Edited(disk, disk')) \/ Touched(disk, disk')
         /\ exists' = exists /\ held' = NoValue
  <1>1. ~HeldSave /\ ~HeldFails
    BY DEF HeldSave, SaveReference, SaveImages, ReplaceMaster, InspectMaster, KeepMaster,
           HeldFails, EditInv
  <1>2. \A kind \in Kinds, s \in Scenes : ~Hold(kind, s)
    BY DEF Hold
  <1>3. CASE GuardedStep
    <2>1. exists = TRUE
      BY <1>3, EditTypes DEF GuardedStep, UpdateVision, UpdateVideo, UpdateImage, UpdateScene,
                  CheckContinuity, TypeInv, TypeOK
    <2> QED BY <1>3, <2>1, GuardedEdits, EditTypes DEF EditInv
  <1>4. CASE ~GuardedStep
    <2>1. PICK s \in Scenes, locked \in BOOLEAN : SetSceneLock(s, locked)
      BY <1>1, <1>2, <1>4 DEF ServiceStep, GuardedStep, HeldSave
    <2>2. held' = NoValue
      BY <2>1 DEF SetSceneLock, Free, EditInv
    <2> QED BY <1>1, <1>4, <2>2, LightService, EditTypes
  <1> QED BY <1>3, <1>4

LEMMA EditInit == StudioInit => EditInv
  <1> SUFFICES ASSUME StudioInit PROVE EditInv
    OBVIOUS
  <1>1. Init /\ held = NoValue /\ MergeTypeOK
    BY StudioTypeInit DEF StudioInit, StudioTypeInv
  <1>2. PromiseInv
    BY <1>1, TypeInit, EmptyExact, PromiseInit DEF PromiseInv, QueueInv, Init
  <1>3. EditOK
    BY <1>1, FirstDocument DEF Init, EditOK, BusyOK, HoldsSnapshot, InFlight, Stage
  <1> QED BY <1>1, <1>2, <1>3 DEF EditInv

LEMMA EditStep ==
  ASSUME Held = {}, EditInv, [StudioNext]_studioVars
  PROVE  EditInv'
  <1>1. StudioTypeInv' /\ QueuedIdsExact'
    BY EditTypes, StudioTypeStep, StudioExactStep DEF EditInv, PromiseInv, QueueInv
  <1>2. ASSUME PromiseOK', EditOK', held' = NoValue
        PROVE  EditInv'
    BY <1>1, <1>2 DEF EditInv, PromiseInv, QueueInv, StudioTypeInv
  <1>3. CASE QueueStep
    <2>1. PromiseOK'
      BY <1>3, PromiseStep DEF QueueStep, EditInv, PromiseInv
    <2>2. EditOK'
      BY <1>3, QueueWritten DEF QueueStep, EditInv
    <2> QED BY <1>2, <1>3, <2>1, <2>2 DEF QueueStep, EditInv
  <1>4. CASE Shutdown
    <2>1. Touched(disk, disk') /\ held' = NoValue /\ Forget /\ burst' = burst
      BY <1>4, EditTypes, ShutdownDoes
    <2>2. Counted(disk') /\ NoTakes(disk') /\ Written(disk')
      <3>1. Edited(disk, disk')
        BY <2>1, TouchedEdited
      <3>2. Counted(disk')
        BY <2>1, <3>1 DEF Counted, Edited, RevisedAll, Revised, EditInv, PromiseInv, PromiseOK, BudgetOK
      <3>3. NoTakes(disk')
        BY <3>1 DEF NoTakes, Mock, Edited, RevisedAll, Revised, EditInv, PromiseInv, PromiseOK, DemoOK
      <3> QED BY <3>1, <3>2, <3>3, EditedSound DEF EditInv, EditOK
    <2>3. PromiseOK'
      <3>1. pc' = "none" /\ cur' = 0 /\ queuedIds' = {}
        BY <2>1 DEF Forget
      <3>2. burst \in [Scenes -> Nat] /\ \A s \in Scenes : burst[s] <= MaxAuto
        BY PromiseTypes DEF EditInv, PromiseInv, PromiseOK, BudgetOK
      <3>3. Counted(disk') /\ burst' = burst
        BY <2>1, <2>2
      <3> QED BY <2>2, <3>1, <3>2, <3>3, Landed
    <2>4. EditOK'
      BY <2>1, <2>2 DEF Forget, EditOK, BusyOK, HoldsSnapshot, InFlight, Stage, Written
    <2> QED BY <1>2, <2>1, <2>3, <2>4
  <1>5. CASE Service
    <2>1. /\ (Idle(disk) /\ Edited(disk, disk')) \/ Touched(disk, disk')
          /\ held' = NoValue
      BY <1>5, ServiceEdits DEF Service
    <2>2. UNCHANGED queueVars /\ LoopFree
      BY <1>5 DEF Service
    <2>3. PromiseOK' /\ EditOK'
      <3>1. CASE Touched(disk, disk')
        BY <2>2, <3>1, TouchedKeeps DEF EditInv
      <3>2. CASE Idle(disk) /\ Edited(disk, disk')
        BY <2>2, <3>2, GuardHolds, EditedKeeps DEF EditInv
      <3> QED BY <2>1, <3>1, <3>2
    <2> QED BY <1>2, <2>1, <2>3
  <1>6. CASE Merging
    <2>1. Touched(disk, disk')
      BY <1>6, MergeTouched, EditTypes DEF Merging
    <2>2. UNCHANGED queueVars /\ held' = NoValue
      BY <1>6 DEF Merging, EditInv
    <2> QED BY <1>2, <2>1, <2>2, TouchedKeeps DEF EditInv
  <1>7. CASE UNCHANGED studioVars
    <2>1. disk' = disk /\ UNCHANGED queueVars /\ held' = held
      BY <1>7 DEF studioVars, vars, queueVars, memory
    <2>2. Touched(disk, disk')
      BY <2>1, EditTypes, TouchedItself
    <2> QED BY <1>2, <2>1, <2>2, TouchedKeeps DEF EditInv
  <1> QED BY <1>3, <1>4, <1>5, <1>6, <1>7, StudioSteps

LEMMA EditHolds ==
  ASSUME Held = {}
  PROVE  StudioSpec => []EditInv
  <1>1. EditInv /\ [StudioNext]_studioVars => EditInv'
    BY EditStep
  <1> QED BY <1>1, EditInit, PTL DEF StudioSpec

(***************************************************************************)
(* The theorems.                                                           *)
(***************************************************************************)
\* A scene that the gate lets through was rendered from the content it has:
\* no edit, seal, lock, merge, pause, restart or late save of the worker leaves
\* a stale take behind the gate (_invalidate_changed_contract_evidence,
\* _ensure_project_not_rendering, render_queue._run).
THEOREM ReadyAsWritten ==
  ASSUME Held = {}
  PROVE  StudioSpec => []ReadyIsAsWritten
  <1>1. EditInv => ReadyIsAsWritten
    BY DEF EditInv, EditOK, Written, ReadyIsAsWritten, ProductionReady
  <1> QED BY <1>1, EditHolds, PTL

\* No edit and no merge gives a request another provider call, or loses the
\* count of one that was made (service._invalidate_render_evidence).
THEOREM StudioBudget ==
  ASSUME Held = {}
  PROVE  StudioSpec => [](RetryBudget /\ AttemptCountedFirst)
  <1>1. EditInv => RetryBudget /\ AttemptCountedFirst
    BY DEF EditInv, PromiseInv, PromiseOK, BudgetOK, Counted, RetryBudget, AttemptCountedFirst
  <1> QED BY <1>1, EditHolds, PTL

\* What the worker saves of the copies it holds takes back no setting, edit or
\* seal (render_queue._run with service._ensure_project_not_rendering).
THEOREM EditsAreKept ==
  ASSUME Held = {}
  PROVE  StudioSpec => WorkerKeepsEdits
  <1>1. ASSUME EditInv, [StudioNext]_studioVars
        PROVE  [QueueWorker /\ exists =>
                  /\ disk'.video = disk.video /\ disk'.vision = disk.vision
                  /\ \A s \in Scenes :
                       /\ disk'.scenes[s].text = disk.scenes[s].text
                       /\ disk'.scenes[s].sealed = disk.scenes[s].sealed]_studioVars
    <2> SUFFICES ASSUME QueueWorker
                 PROVE  Agree(disk, disk')
      BY DEF Agree, SameSettings, SameContent
    <2>1. TypeInv /\ Next
      BY EditTypes, <1>1 DEF QueueWorker, Next
    <2>2. CASE Generated
      <3>1. \A s \in Scenes : SameContent(disk.scenes[s], disk'.scenes[s])
        BY <2>1, <2>2, AnswerSaves DEF SameContent
      <3> QED BY <2>1, <2>2, <3>1, AnswerSaves DEF Agree
    <2>3. CASE ~Generated
      <3>1. CASE Processed(disk, disk')
        BY <3>1, ProcessedAgree
      <3>2. CASE pc \in HoldsSnapshot /\ Processed(snap, disk')
        BY <1>1, <3>2, ProcessedAgree DEF EditInv, EditOK
      <3> QED BY <2>1, <2>3, <3>1, <3>2, QueueSaves
    <2> QED BY <2>2, <2>3
  <1> QED BY <1>1, EditHolds, PTL DEF StudioSpec, WorkerKeepsEdits

\* The idle guard keeps content and settings as they are while the worker has a
\* scene in flight (_ensure_project_not_rendering).
THEOREM EditsWait ==
  ASSUME Held = {}
  PROVE  StudioSpec => EditsWaitForRender
  <1>1. ASSUME EditInv, [StudioNext]_studioVars
        PROVE  [Service /\ held' = held /\ AtWork =>
                  /\ disk'.video = disk.video /\ disk'.vision = disk.vision
                  /\ \A s \in Scenes :
                       /\ disk'.scenes[s].text = disk.scenes[s].text
                       /\ disk'.scenes[s].sealed = disk.scenes[s].sealed]_studioVars
    <2> SUFFICES ASSUME Service, AtWork
                 PROVE  Touched(disk, disk')
      BY DEF Touched, SameSettings, SameButLock, SameContent
    <2>1. ~Idle(disk)
      BY <1>1, GuardHolds DEF AtWork, Service
    <2> QED BY <1>1, <2>1, ServiceEdits DEF Service
  <1> QED BY <1>1, EditHolds, PTL DEF StudioSpec, EditsWaitForRender


(***************************************************************************)
(* Queued work has a worker.  A deleted project that a held save brings    *)
(* back is the one way to lose it, so either is excluded.                  *)
(***************************************************************************)
WorkInv ==
  /\ StudioTypeInv /\ NoWorkWithoutWorker
  /\ Held = {} => held = NoValue
  /\ ~Deletes => exists

\* Only the delete route takes the project away.
LEMMA QueueKeepsProject ==
  ASSUME Next, ~Deletes
  PROVE  exists' = exists \/ exists' = TRUE
  <1>1. ASSUME NEW ids \in SUBSET Scenes, NEW force \in BOOLEAN, Enqueue(ids, force)
        PROVE  exists' = TRUE
    BY <1>1 DEF Enqueue, Save
  <1>2. CASE Pause \/ Resume \/ Delete \/ Crash \/ Exit \/ Take \/ Gone \/ DeferToPredecessor
    BY <1>2 DEF Pause, Resume, Delete, Crash, Exit, Take, Gone, DeferToPredecessor, Save
  <1>3. CASE ContainedStep
    BY <1>3, ContainedStepDoes DEF Contained, Save, NoSave
  <1>4. CASE Propagate \/ RefsApproved \/ RefsRejected \/ QCAccepts \/ QCRejects \/ RetryRepair
             \/ ManualReview
    BY <1>4 DEF Propagate, RefsApproved, RefsRejected, QCAccepts, QCRejects, RetryRepair,
                ManualReview, Save, NoSave
  <1>5. CASE Prepare \/ MarkQC \/ Generate \/ CountAttempt \/ Generated
    BY <1>5 DEF Prepare, MarkQC, Generate, CountAttempt, Generated, Save
  <1> QED BY <1>1, <1>2, <1>3, <1>4, <1>5 DEF Next, Worker, ContainedStep

LEMMA WorkInvStep ==
  ASSUME Held = {} \/ ~Deletes, WorkInv, [StudioNext]_studioVars
  PROVE  WorkInv'
  <1> USE DEF WorkInv
  <1>1. StudioTypeInv'
    BY StudioTypeStep
  <1>2. ASSUME Held = {} PROVE held' = NoValue
    <2>1. CASE QueueStep \/ Shutdown \/ Merging \/ UNCHANGED studioVars
      BY <1>2, <2>1 DEF QueueStep, Shutdown, Merging, studioVars
    <2>2. CASE Service
      <3>1. \A kind \in Kinds, s \in Scenes : ~Hold(kind, s)
        BY <1>2 DEF Hold
      <3>2. held' = held \/ held' = NoValue
        BY <2>2, <3>1, GuardedEdits
        DEF Service, ServiceStep, GuardedStep, HeldSave, HeldFails, SaveReference, SaveImages, ReplaceMaster, InspectMaster,
            KeepMaster, Release, SetSceneLock, Free, UpdateVision, UpdateVideo, UpdateImage,
            UpdateScene, CheckContinuity, Unheld
      <3> QED BY <1>2, <3>2
    <2> QED BY <2>1, <2>2, StudioSteps
  <1>3. ASSUME Service PROVE exists' = exists
    <2>1. disk \in ProjectRecord /\ exists \in BOOLEAN
      BY DEF StudioTypeInv, TypeInv, TypeOK
    <2>2. CASE HeldSave
      <3>1. held # NoValue /\ exists' = TRUE
        BY <2>2 DEF HeldSave, SaveReference, SaveImages, ReplaceMaster, InspectMaster,
                    KeepMaster, Save
      <3> QED BY <2>1, <3>1
    <2>3. CASE GuardedStep
      <3>1. exists
        BY <2>3 DEF GuardedStep, UpdateVision, UpdateVideo, UpdateImage, UpdateScene, CheckContinuity
      <3> QED BY <2>1, <2>3, <3>1, GuardedEdits
    <2>4. CASE ~GuardedStep /\ ~HeldSave
      BY <1>3, <2>1, <2>4, LightService DEF Service
    <2> QED BY <2>2, <2>3, <2>4
  <1>4. ASSUME ~Deletes PROVE exists'
    <2>1. exists = TRUE
      BY <1>4 DEF StudioTypeInv, TypeInv, TypeOK
    <2>2. CASE QueueStep
      <3>1. exists' = exists \/ exists' = TRUE
        BY <1>4, <2>2, QueueKeepsProject DEF QueueStep
      <3> QED BY <2>1, <3>1
    <2>3. CASE Shutdown
      BY <2>1, <2>3, ShutdownDoes DEF StudioTypeInv
    <2>4. CASE Service
      BY <1>3, <2>1, <2>4
    <2>5. CASE Merging
      BY <2>1, <2>5, MergeKeeps DEF Merging, StudioTypeInv, TypeInv
    <2>6. CASE UNCHANGED studioVars
      BY <2>1, <2>6 DEF studioVars, vars
    <2> QED BY <2>2, <2>3, <2>4, <2>5, <2>6, StudioSteps
  <1>5. NoWorkWithoutWorker'
    <2>1. CASE QueueStep
      BY <2>1, WorkStep DEF QueueStep
    <2>2. CASE Shutdown
      BY <2>2 DEF Shutdown, Forget, NoWorkWithoutWorker
    <2>3. CASE Service \/ Merging \/ UNCHANGED studioVars
      <3>1. exists' = exists
        BY <1>3, <2>3, MergeKeeps DEF Merging, StudioTypeInv, TypeInv, studioVars, vars
      <3>2. queue' = queue /\ pc' = pc
        BY <2>3 DEF Service, Merging, queueVars, memory, studioVars, vars
      <3> QED BY <3>1, <3>2 DEF NoWorkWithoutWorker
    <2> QED BY <2>1, <2>2, <2>3, StudioSteps
  <1> QED BY <1>1, <1>2, <1>4, <1>5

\* A request is never left behind in the studio: queued work has a live worker
\* while routes edit, merges settle and the process restarts
\* (render_queue.enqueue, _run).
THEOREM StudioWorkHasWorker ==
  ASSUME Held = {} \/ ~Deletes
  PROVE  StudioSpec => []NoWorkWithoutWorker
  <1>1. StudioInit => WorkInv
    BY StudioTypeInit, WorkInit DEF StudioInit, Init, DocumentInit, WorkInv
  <1>2. WorkInv /\ [StudioNext]_studioVars => WorkInv'
    BY WorkInvStep
  <1>3. WorkInv => NoWorkWithoutWorker
    BY DEF WorkInv
  <1> QED BY <1>1, <1>2, <1>3, PTL DEF StudioSpec
=============================================================================
