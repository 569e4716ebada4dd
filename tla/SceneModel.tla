----------------------------- MODULE SceneModel -----------------------------
(***************************************************************************)
(* The project document of TH Media and the pure functions that the render *)
(* queue, the HTTP routes and the merger apply to it: what is stored for   *)
(* a scene, when a scene is production ready, what clearing its evidence   *)
(* means, when a scene must wait for its predecessor, and how the image    *)
(* plans of the project are compiled.                                      *)
(*                                                                         *)
(* Scenes are the numbers 1..N in storyboard order: scene.id and           *)
(* scene.order are the same number here.  A rendered file is a take        *)
(* number; 0 is the empty path.  What the code compares is kept (statuses, *)
(* models, hashes as the values they hash); prompts, scores and texts are  *)
(* reduced to the verdict the code draws from them.                        *)
(***************************************************************************)
EXTENDS Naturals, Sequences, FiniteSets

CONSTANTS
  N,              \* number of scenes of the project
  Direct,         \* scenes whose dependency_mode is "direct" and which
                  \* is_direct_continuation ties to the scene before them
  Anchored,       \* direct scenes whose frame_anchor is previous_final_frame
  VideoModels,    \* values of (settings.provider, settings.video_model)
  DemoModels,     \* those of the demo provider, which returns no file and
                  \* does not require the Master gate
  VisionModels,   \* values of settings.vision_model
  WorldStates,    \* values of a continuity state (start_state, end_state)
  AutoContinuity, \* settings.auto_continuity
  MaxAuto,        \* MAX_AUTO_RENDER_ATTEMPTS
  NoValue         \* an empty string or None in the document

Scenes == 1..N

ASSUME SceneAssumption ==
  /\ N \in Nat \ {0}
  /\ Direct \subseteq Scenes \ {1}
  /\ Anchored \subseteq Direct
  /\ DemoModels \subseteq VideoModels
  /\ MaxAuto \in Nat \ {0}
  /\ AutoContinuity \in BOOLEAN
  /\ NoValue \notin VideoModels \cup VisionModels \cup WorldStates

Status == {"Waiting", "Preparing", "Generating", "QC", "Accepted",
           "FailedQC", "Blocked", "Failed", "Paused"}
Acceptance == {"Pending", "Accepted", "Rejected", "Blocked"}
InFlight == {"Preparing", "Generating", "QC"}
Settled == {"Accepted", "FailedQC", "Blocked", "Failed"}
FinalStatus == {"NotReady", "Ready", "Merging", "Completed", "Failed"}

\* What the QC reports of a scene add up to: not run, all passed and every
\* score at the threshold, all passed with an aggregate score below it, or
\* at least one report failed or unavailable.
Evidence == {"Pending", "Passed", "Low", "Failed"}

\* start  : the take of the predecessor the provider was given as start frame
\* anchor : the take of the predecessor the continuity QC compared with
\* text   : the version of the scene's semantic content (history)
\* takeText, takeMaster : the content version and the approved Master the
\*          take was rendered from (history, like start and anchor: kept
\*          beside the take they belong to)
SceneRecord ==
  [status : Status, acc : Acceptance, attempt : Nat, take : Nat,
   start : Nat, anchor : Nat, qc : Evidence,
   renderModel : VideoModels \cup {NoValue},
   qcModel : VisionModels \cup {NoValue},
   committed : WorldStates \cup {NoValue},
   startState : WorldStates, endState : WorldStates,
   locked : BOOLEAN, sealed : BOOLEAN,
   plan : {"Ready", "Blocked"}, source : Nat,
   text : Nat, takeText : Nat, takeMaster : Nat]

\* refs   : every Master has an approved image
\* refsQC : the Vision model whose QC the approved Masters passed
\* master : which images they are (every scene shows every Master)
ProjectRecord ==
  [scenes : [Scenes -> SceneRecord], final : FinalStatus, refs : BOOLEAN,
   refsQC : VisionModels \cup {NoValue}, master : Nat,
   video : VideoModels, vision : VisionModels]

HasPrevious(s) == s \in Direct

\* settings.provider is "mock".
Mock(p) == p.video \in DemoModels

\* project_master_blockers finds nothing: the images are approved and their
\* evidence is of the Vision model of the project.
MastersReady(p) == p.refs /\ p.refsQC = p.vision

(***************************************************************************)
(* The production gate.                                                    *)
(***************************************************************************)
\* Mutant: the gate forgets that a rendered file is required.
MutReadyWithoutFile(p, s) ==
  LET c == p.scenes[s] IN
  /\ c.status = "Accepted" /\ c.acc = "Accepted" /\ c.locked /\ c.sealed
  /\ c.committed # NoValue /\ c.qc = "Passed"
  /\ c.renderModel = p.video /\ c.qcModel = p.vision

ProductionReady(p, s) ==
  LET c == p.scenes[s] IN
  /\ c.status = "Accepted"
  /\ c.acc = "Accepted"
  /\ c.locked /\ c.sealed
  /\ c.committed # NoValue
  /\ c.take # 0
  /\ c.qc = "Passed"
  /\ c.renderModel = p.video
  /\ c.qcModel = p.vision

\* The weaker test that main.required() and the merge task use.
AcceptedWithFile(p, s) ==
  LET c == p.scenes[s] IN
  c.status = "Accepted" /\ c.acc = "Accepted" /\ c.take # 0

\* Mutant: _refresh_final_video trusts the status flags.
MutRefreshByFlags(p) ==
  [p EXCEPT !.final = IF \A s \in Scenes : AcceptedWithFile(p, s) THEN "Ready"
                      ELSE IF @ = "Merging" THEN "Merging" ELSE "NotReady"]

\* RenderQueue._refresh_final_video
RefreshFinal(p) ==
  [p EXCEPT !.final = IF \A s \in Scenes : ProductionReady(p, s) THEN "Ready"
                      ELSE IF @ = "Merging" THEN "Merging" ELSE "NotReady"]

(***************************************************************************)
(* Clearing evidence.                                                      *)
(***************************************************************************)
\* Mutant: a forced render starts one attempt below zero.
MutClearOffByOne(c, force) ==
  [c EXCEPT !.status = "Waiting", !.acc = "Pending", !.take = 0,
            !.start = 0, !.anchor = 0, !.takeText = 0, !.takeMaster = 0,
            !.qc = "Pending",
            !.renderModel = NoValue, !.qcModel = NoValue,
            !.committed = NoValue,
            !.attempt = IF force THEN 0 - 1 ELSE @]

\* What an accepted enqueue does to a scene; force also restarts the budget.
ClearForEnqueue(c, force) ==
  [c EXCEPT !.status = "Waiting", !.acc = "Pending", !.take = 0,
            !.start = 0, !.anchor = 0, !.takeText = 0, !.takeMaster = 0,
            !.qc = "Pending",
            !.renderModel = NoValue, !.qcModel = NoValue,
            !.committed = NoValue,
            !.attempt = IF force THEN 0 ELSE @]

\* Mutant: the repair restarts the budget like a forced render.
MutRepairRestartsBudget(c) == ClearForEnqueue(c, TRUE)

\* What an automatic repair does before the scene goes back to the queue.
ClearForRepair(c) == ClearForEnqueue(c, FALSE)

\* service._invalidate_render_evidence: the accepted state is left in place.
InvalidateRenderEvidence(c) ==
  [c EXCEPT !.status = "Waiting", !.acc = "Pending", !.take = 0,
            !.start = 0, !.anchor = 0, !.takeText = 0, !.takeMaster = 0,
            !.qc = "Pending",
            !.renderModel = NoValue, !.qcModel = NoValue]

\* commit_accepted_runtime_state
CommitAccepted(c) == [c EXCEPT !.committed = c.endState]

(***************************************************************************)
(* Dependencies between neighbouring scenes.                               *)
(***************************************************************************)
ContractBlocked(c) == ~(c.locked /\ c.sealed)

\* Mutant: a scene waits for a predecessor that nobody has queued.
MutDeferAlways(p, s, queuedIds) ==
  HasPrevious(s) /\ ~ProductionReady(p, s - 1)

ShouldDefer(p, s, queuedIds) ==
  /\ HasPrevious(s)
  /\ ~ProductionReady(p, s - 1)
  /\ s - 1 \in queuedIds
  /\ p.scenes[s - 1].status \in InFlight \cup {"Waiting", "Paused"}

DependencyBlocked(p, s) ==
  /\ HasPrevious(s)
  /\ \/ ~ProductionReady(p, s - 1)
     \/ p.scenes[s - 1].committed # p.scenes[s].startState

(***************************************************************************)
(* Image plans.  An anchored scene takes the accepted last frame of its    *)
(* predecessor as its source; without it, or while a Master of the scene   *)
(* is not approved, the plan is Blocked.                                   *)
(***************************************************************************)
BestPreviousEndFrame(p, s) ==
  IF s \in Anchored /\ p.scenes[s - 1].acc = "Accepted"
  THEN p.scenes[s - 1].take ELSE 0

CompileImagePlans(p) ==
  [p EXCEPT !.scenes = [s \in Scenes |->
     [p.scenes[s] EXCEPT
        !.source = BestPreviousEndFrame(p, s),
        !.plan = IF p.refs /\ (s \in Anchored => BestPreviousEndFrame(p, s) # 0)
                 THEN "Ready" ELSE "Blocked"]]]

(***************************************************************************)
(* Pause and resume rewrite the statuses of the whole project.             *)
(***************************************************************************)
\* Mutant: scenes in flight are relabelled too.
MutRelabelInFlight(p, from, to) ==
  [p EXCEPT !.scenes = [s \in Scenes |->
     IF p.scenes[s].status \in InFlight \cup {from}
     THEN [p.scenes[s] EXCEPT !.status = to] ELSE p.scenes[s]]]

Relabel(p, from, to) ==
  [p EXCEPT !.scenes = [s \in Scenes |->
     IF p.scenes[s].status = from THEN [p.scenes[s] EXCEPT !.status = to]
     ELSE p.scenes[s]]]

SetScene(p, s, c) == [p EXCEPT !.scenes[s] = c]

\* The statuses the worker writes through RenderQueue._update.
Update(p, s, status) ==
  RefreshFinal([p EXCEPT !.scenes[s].status = status])

(***************************************************************************)
(* A project before anything is rendered: every scene sealed and locked    *)
(* but for those the user has opened, image plans compiled, and Masters    *)
(* approved, after a Vision QC or by the images that came with the story.  *)
(* The Visual Bible copies the end state of a scene into the start state   *)
(* of the scene anchored on it; any other scene starts in a state of its   *)
(* own.                                                                    *)
(***************************************************************************)
FreshScene(before, after, locked) ==
  [status |-> "Waiting", acc |-> "Pending", attempt |-> 0, take |-> 0,
   start |-> 0, anchor |-> 0, qc |-> "Pending", renderModel |-> NoValue,
   qcModel |-> NoValue, committed |-> NoValue,
   startState |-> before, endState |-> after, locked |-> locked, sealed |-> TRUE,
   plan |-> "Ready", source |-> 0, text |-> 1, takeText |-> 0, takeMaster |-> 0]

AnchoredStates(before, after) ==
  \A s \in Anchored : before[s] = after[s - 1]

FreshProject(video, vision, refsQC, before, after, opened) ==
  CompileImagePlans(
    [scenes |-> [s \in Scenes |->
                   FreshScene(before[s], after[s], s \notin opened)],
     final |-> "NotReady", refs |-> TRUE, refsQC |-> refsQC, master |-> 1,
     video |-> video, vision |-> vision])

(***************************************************************************)
(* A project whose scenes have all been rendered and accepted in order,    *)
(* each at its first attempt.                                              *)
(***************************************************************************)
RenderedScene(s, video, vision, before, after) ==
  [FreshScene(before, after, TRUE) EXCEPT
     !.status = "Accepted", !.acc = "Accepted", !.attempt = 1, !.take = 1,
     !.start = IF s \in Anchored THEN 1 ELSE 0,
     !.anchor = IF HasPrevious(s) THEN 1 ELSE 0,
     !.qc = "Passed", !.renderModel = video, !.qcModel = vision,
     !.committed = after, !.takeText = 1, !.takeMaster = 1]

RenderedProject(video, vision, before, after) ==
  RefreshFinal(CompileImagePlans(
    [scenes |-> [s \in Scenes |->
                   RenderedScene(s, video, vision, before[s], after[s])],
     final |-> "NotReady", refs |-> TRUE, refsQC |-> vision, master |-> 1,
     video |-> video, vision |-> vision]))

\* Each direct scene starts in the state its predecessor ends in.
DirectStates(before, after) ==
  \A s \in Direct : before[s] = after[s - 1]
=============================================================================
