--------------------------- MODULE SceneService ----------------------------
(***************************************************************************)
(* StudioService and the project routes around it: the operations by which *)
(* a user changes a project that the queue may be rendering.               *)
(*                                                                         *)
(* The operations of the service run in one step of the event loop and     *)
(* most refuse to run while a scene is stored as in flight (the idle       *)
(* guard).  Three routes instead hold the document they read over an await *)
(* (a request body, a generated image, a Vision QC) and save it afterwards *)
(* as they held it: the reference upload, which asks nothing, the scene    *)
(* images and the Project Masters, which ask the idle guard before.        *)
(***************************************************************************)
EXTENDS ProjectDocument

CONSTANT Held  \* kinds of routes that hold a document: a subset of Kinds

Kinds == {"reference", "images", "master"}

ASSUME ServiceAssumption == Held \subseteq Kinds

VARIABLE held  \* the document a suspended route will save, or NoValue

HeldRecord == [kind : Kinds, scene : Scenes, at : Nat, doc : ProjectRecord]

ServiceTypeOK == held \in HeldRecord \cup {NoValue}

\* Mutant: the idle guard does not count a scene in QC as in flight.
MutIdleForgetsQC(p) ==
  \A s \in Scenes : p.scenes[s].status \notin {"Preparing", "Generating"}

\* _ensure_project_not_rendering
Idle(p) == \A s \in Scenes : p.scenes[s].status \notin InFlight

Unheld == UNCHANGED held

\* Operations that only choose among finitely many documents need no bound.
Free == UNCHANGED <<ops, held>>

NotReady(p) == [p EXCEPT !.final = "NotReady"]

EveryScene(p, F(_)) == [p EXCEPT !.scenes = [s \in Scenes |-> F(p.scenes[s])]]

(***************************************************************************)
(* Settings.                                                               *)
(***************************************************************************)
ResetVerdict(c) ==
  [c EXCEPT !.qc = "Pending", !.qcModel = NoValue, !.anchor = 0,
            !.acc = "Pending",
            !.status = IF @ = "Accepted" THEN "Waiting" ELSE @]

UpdateVision(m) ==
  /\ exists /\ Idle(disk) /\ m # disk.vision
  /\ Save(NotReady(EveryScene([disk EXCEPT !.vision = m], ResetVerdict)))
  /\ Free

UpdateVideo(m) ==
  /\ exists /\ Idle(disk) /\ m # disk.video
  /\ Save(NotReady(EveryScene([disk EXCEPT !.video = m],
                              InvalidateRenderEvidence)))
  /\ Free

\* The image model itself is not kept: no scene remembers it.
UpdateImage ==
  /\ exists /\ Idle(disk)
  /\ Save(NotReady(CompileImagePlans(EveryScene(disk, InvalidateRenderEvidence))))
  /\ Free

(***************************************************************************)
(* Content.  build_visual_bible copies the end state of a scene into the   *)
(* start state of the scene anchored on it, and writes the Masters anew    *)
(* with their images and without their Vision QC.  A scene whose content   *)
(* is not what its stored contract hash says loses its evidence; an        *)
(* emptied hash agrees with nothing.                                       *)
(***************************************************************************)
\* Mutant: the Visual Bible leaves the next scene as it was.
MutRealignNothing(p) == CompileImagePlans([p EXCEPT !.refsQC = NoValue])

Realign(p) ==
  CompileImagePlans([p EXCEPT !.refsQC = NoValue, !.scenes = [s \in Scenes |->
    IF s \in Anchored /\ p.scenes[s].startState # p.scenes[s - 1].endState
    THEN [p.scenes[s] EXCEPT !.startState = p.scenes[s - 1].endState,
                             !.text = @ + 1]
    ELSE p.scenes[s]]])

ContractChanged(old, new) == ~old.sealed \/ old.text # new.text

\* Mutant: a changed scene is sealed or unsealed and keeps its evidence.
MutInvalidateOnlySeals(old, new, resealed) ==
  [new EXCEPT !.scenes = [s \in Scenes |->
    IF ContractChanged(old.scenes[s], new.scenes[s])
    THEN [new.scenes[s] EXCEPT !.sealed = resealed]
    ELSE new.scenes[s]]]

\* _invalidate_changed_contract_evidence
InvalidateChanged(old, new, resealed) ==
  [new EXCEPT !.scenes = [s \in Scenes |->
    IF ContractChanged(old.scenes[s], new.scenes[s])
    THEN [InvalidateRenderEvidence(new.scenes[s]) EXCEPT !.sealed = resealed]
    ELSE new.scenes[s]]]

UpdateScene(s, before, after) ==
  /\ exists /\ Idle(disk) /\ ~disk.scenes[s].locked /\ Operation
  /\ LET edited == [disk EXCEPT !.scenes[s].text = @ + 1,
                                !.scenes[s].startState = before,
                                !.scenes[s].endState = after]
     IN Save(NotReady(InvalidateChanged(disk, Realign(edited), FALSE)))
  /\ Unheld

\* Running Continuity again recompiles and seals every scene.
CheckContinuity ==
  /\ exists /\ Idle(disk)
  /\ Save(NotReady(InvalidateChanged(disk, Realign(disk), TRUE)))
  /\ Free

\* Opening the lock is not refused while the scene is rendered, and the
\* final video is not looked at.
SetSceneLock(s, locked) ==
  /\ exists
  /\ locked => disk.scenes[s].sealed
  /\ Save([disk EXCEPT !.scenes[s].locked = locked])
  /\ Free

(***************************************************************************)
(* Routes that hold a document.                                            *)
(***************************************************************************)
\* Only the images are those of one scene; for the others s is any.
Hold(kind, s) ==
  /\ exists /\ held = NoValue /\ kind \in Held /\ Operation
  /\ kind = "images" \/ s = 1
  /\ kind # "reference" => Idle(disk)
  /\ kind = "images" => MastersReady(disk) /\ disk.scenes[s].plan = "Ready"
  /\ held' = [kind |-> kind, scene |-> s, at |-> ops + 2, doc |-> disk]
  /\ NoSave

Release == held' = NoValue /\ UNCHANGED ops

\* A refused body, an error of the provider, a Vision QC that raises.
HeldFails == held # NoValue /\ Release /\ NoSave

SaveReference ==
  /\ held # NoValue /\ held.kind = "reference"
  /\ Save(held.doc)
  /\ Release

SaveImages ==
  /\ held # NoValue /\ held.kind = "images"
  /\ Save([held.doc EXCEPT !.scenes[held.scene].plan = "Ready"])
  /\ Release

\* A newly approved Master invalidates what was rendered from the old one
\* (here every scene shows it), in the document as it was held.
ReplaceMaster ==
  /\ held # NoValue /\ held.kind = "master"
  /\ Save(NotReady(CompileImagePlans(
            EveryScene([held.doc EXCEPT !.master = held.at, !.refs = TRUE,
                                        !.refsQC = held.doc.vision],
                       InvalidateRenderEvidence))))
  /\ Release

\* The approved image itself is inspected again and passes.
InspectMaster ==
  /\ held # NoValue /\ held.kind = "master" /\ held.doc.refs
  /\ Save(CompileImagePlans([held.doc EXCEPT !.refsQC = held.doc.vision]))
  /\ Release

\* The candidate is not approved.  The old Master stays if it passed the gate,
\* with the evidence of the candidate when one was inspected.
KeepMaster ==
  /\ held # NoValue /\ held.kind = "master"
  /\ \E kept \in BOOLEAN, inspected \in BOOLEAN :
        /\ kept => MastersReady(held.doc)
        /\ Save(CompileImagePlans(
             [held.doc EXCEPT !.refs = kept,
                              !.refsQC = IF kept /\ ~inspected THEN @ ELSE NoValue]))
  /\ Release

ServiceStep ==
  \/ \E m \in VisionModels : UpdateVision(m)
  \/ \E m \in VideoModels : UpdateVideo(m)
  \/ UpdateImage
  \/ \E s \in Scenes, before, after \in WorldStates : UpdateScene(s, before, after)
  \/ CheckContinuity
  \/ \E s \in Scenes, locked \in BOOLEAN : SetSceneLock(s, locked)
  \/ \E kind \in Kinds, s \in Scenes : Hold(kind, s)
  \/ HeldFails \/ SaveReference \/ SaveImages \/ ReplaceMaster
  \/ InspectMaster \/ KeepMaster
=============================================================================
