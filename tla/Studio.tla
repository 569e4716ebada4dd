------------------------------ MODULE Studio -------------------------------
(***************************************************************************)
(* The whole studio around one project: the render queue, the service and  *)
(* the routes, and the final merge, all of them coroutines of one event    *)
(* loop on one stored document.                                            *)
(***************************************************************************)
EXTENDS RenderQueue, FinalMerge, SceneService

queueVars == <<memory, made, burst>>
studioVars == <<vars, mergeVars, held>>

\* Another coroutine runs only where the worker is suspended.
LoopFree == pc \in Suspended

StudioInit == Init /\ MergeInit /\ held = NoValue

\* Routes to the queue.  Pausing and resuming settle a stale Merging first;
\* the generate route also refuses while a merge is active.
QueueRoute ==
  /\ ~StaleMerging
  /\ \/ /\ RenderMayStart
        /\ \E ids \in SUBSET Scenes, force \in BOOLEAN : Enqueue(ids, force)
     \/ Pause \/ Resume \/ Delete
  /\ UNCHANGED <<mergeVars, held>>

QueueWorker == Worker /\ UNCHANGED <<mergeVars, held>>

ProcessDies ==
  /\ Crash
  /\ ForgetMerges /\ held' = NoValue

\* An orderly shutdown: the merges are cancelled and settle the document,
\* then the worker is cancelled wherever it is suspended.
Shutdown ==
  /\ Crashes /\ LoopFree /\ Operation
  /\ MergesCancelled
  /\ Forget /\ ForgetMerges /\ held' = NoValue
  /\ UNCHANGED <<made, burst>>

Service == LoopFree /\ ServiceStep /\ UNCHANGED <<queueVars, mergeVars>>
Merging == LoopFree /\ MergeStep /\ UNCHANGED <<queueVars, held>>

StudioNext ==
  \/ QueueRoute \/ QueueWorker \/ ProcessDies \/ Shutdown
  \/ Service \/ Merging

StudioSpec == StudioInit /\ [][StudioNext]_studioVars

StudioTypeOK == TypeOK /\ MergeTypeOK /\ ServiceTypeOK

(***************************************************************************)
(* Properties.                                                             *)
(***************************************************************************)
\* A scene that the gate lets through was rendered from the content it has
\* now, whatever edits, locks, seals and renders were interleaved.
ReadyIsAsWritten ==
  exists => \A s \in Scenes :
    ProductionReady(disk, s) => disk.scenes[s].takeText = disk.scenes[s].text

\* Two accepted neighbours meet: the state committed for the first is the
\* state the anchored second one starts from.
ReadyStatesMeet ==
  exists => \A s \in Anchored :
    ProductionReady(disk, s) /\ ProductionReady(disk, s - 1) =>
      disk.scenes[s - 1].committed = disk.scenes[s].startState

\* The worker saves documents it read long before, and yet never takes back
\* a setting, an edit or a seal that the user has saved since.
WorkerKeepsEdits ==
  [][QueueWorker /\ exists =>
       /\ disk'.video = disk.video /\ disk'.vision = disk.vision
       /\ \A s \in Scenes :
            /\ disk'.scenes[s].text = disk.scenes[s].text
            /\ disk'.scenes[s].sealed = disk.scenes[s].sealed]_studioVars

\* The worker has a scene in flight: it waits for the reference manager, the
\* provider or the QC, or for a resume between two of them.
AtWork == pc \in Suspended \ {"none", "start", "wait1", "woken1"}

\* Content and settings never change under a running render: the edit guard
\* reads the stored statuses, and these show what the worker is at whatever is
\* requested, paused, merged or restarted meanwhile.
EditsWaitForRender ==
  [][Service /\ held' = held /\ AtWork =>
       /\ disk'.video = disk.video /\ disk'.vision = disk.vision
       /\ \A s \in Scenes :
            /\ disk'.scenes[s].text = disk.scenes[s].text
            /\ disk'.scenes[s].sealed = disk.scenes[s].sealed]_studioVars

(***************************************************************************)
(* What the repository says and the code does not keep.                    *)
(***************************************************************************)
\* The generate route: while the final video is being merged, wait before
\* rendering a scene again.
NoRenderDuringMerge == [][pc = "counted" /\ pc' = "gen" => ~MergeActive]_studioVars

\* README: a replaced Master invalidates the scenes that depend on it, so that
\* two versions are never mixed.
MastersNeverMix ==
  exists => \A s \in Scenes :
    ProductionReady(disk, s) => disk.scenes[s].takeMaster = disk.master
=============================================================================
