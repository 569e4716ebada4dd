-------------------------- MODULE ProjectDocument --------------------------
(***************************************************************************)
(* The one stored document of a project, shared by the render queue, the   *)
(* studio service behind the HTTP routes and the final merge.  Each of     *)
(* them reads it with storage.get, changes its own copy and writes the     *)
(* whole of it back with storage.save; nothing tells a writer that the     *)
(* document has changed since it read it.                                  *)
(***************************************************************************)
EXTENDS SceneModel

CONSTANTS
  MaxOps,   \* bound on the user operations and crashes of a behaviour
  Rendered  \* whether a behaviour may also start from a rendered project

ASSUME DocumentAssumption == MaxOps \in Nat /\ Rendered \in BOOLEAN

VARIABLES
  exists,  \* the project file is there
  disk,    \* the stored Project
  ops      \* how many of the MaxOps operations are spent

DocumentInit ==
  /\ exists = TRUE
  /\ \E v \in VideoModels, w \in VisionModels,
        before, after \in [Scenes -> WorldStates] :
        \/ /\ AnchoredStates(before, after)
           /\ \E opened \in SUBSET Scenes, refsQC \in {w, NoValue} :
                disk = FreshProject(v, w, refsQC, before, after, opened)
        \/ /\ Rendered /\ v \notin DemoModels
           /\ DirectStates(before, after)
           /\ disk = RenderedProject(v, w, before, after)
  /\ ops = 0

\* storage.save creates the file when it is gone.
Save(p) == disk' = p /\ exists' = TRUE
NoSave == UNCHANGED <<exists, disk>>

Operation == ops < MaxOps /\ ops' = ops + 1
=============================================================================
