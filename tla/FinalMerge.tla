---------------------------- MODULE FinalMerge -----------------------------
(***************************************************************************)
(* The final video: the merge route and its background task, the           *)
(* merge_tasks table that routes consult, the done-callback that empties   *)
(* it, and the repair of a stale Merging that every route makes on its way *)
(* in (required of main.py).                                               *)
(*                                                                         *)
(* A scene is always rendered to the same path, so the fingerprint the     *)
(* task compares at its end (id, order, path) tells an emptied path from a *)
(* filled one and nothing else; when the task starts every path is filled. *)
(***************************************************************************)
EXTENDS ProjectDocument

CONSTANT MaxMerges  \* merge tasks that may be alive at once

ASSUME MergeAssumption == MaxMerges \in Nat

Merges == 1..MaxMerges

VARIABLES
  merge,  \* the merge tasks: idle, running, or ended with the callback due
  slot    \* merge_tasks[project_id]; 0 when there is no entry

mergeVars == <<merge, slot>>

MergeInit ==
  /\ merge = [i \in Merges |-> "idle"]
  /\ slot = 0

MergeTypeOK ==
  /\ merge \in [Merges -> {"idle", "running", "ended"}]
  /\ slot \in Merges \cup {0}

MergeActive == slot # 0 /\ merge[slot] = "running"

\* The generate route answers 409 while a merge is active.
RenderMayStart == ~MergeActive

(***************************************************************************)
(* required(): a Merging that no task is working on is taken back.  The    *)
(* routes that call it first do so in the same step; here it is a step of  *)
(* its own (any read of the project) that the others wait for.             *)
(***************************************************************************)
StaleMerging == disk.final = "Merging" /\ ~MergeActive

Settle(p) ==
  [p EXCEPT !.final = IF \A s \in Scenes : AcceptedWithFile(p, s)
                      THEN "Ready" ELSE "NotReady"]

Required ==
  /\ exists /\ StaleMerging
  /\ Save(Settle(disk))
  /\ UNCHANGED <<ops, mergeVars>>

(***************************************************************************)
(* The route and its task.                                                 *)
(***************************************************************************)
\* clips_for: every scene must pass the production gate.
ClipsReady(p) == \A s \in Scenes : ProductionReady(p, s)

StartMerge(i) ==
  /\ exists /\ ~StaleMerging /\ ~MergeActive
  /\ merge[i] = "idle"
  /\ ClipsReady(disk)
  /\ Save([disk EXCEPT !.final = "Merging"])
  /\ merge' = [merge EXCEPT ![i] = "running"]
  /\ slot' = i
  /\ UNCHANGED ops

SameFingerprint == \A s \in Scenes : disk.scenes[s].take # 0

Ended(i) == merge' = [merge EXCEPT ![i] = "ended"]

FinishMerge(i) ==
  /\ merge[i] = "running"
  /\ IF ~exists THEN NoSave
     ELSE Save([disk EXCEPT !.final =
                  IF SameFingerprint THEN "Completed" ELSE "Ready"])
  /\ Ended(i)
  /\ UNCHANGED <<ops, slot>>

FailMerge(i) ==
  /\ merge[i] = "running"
  /\ IF ~exists THEN NoSave ELSE Save([disk EXCEPT !.final = "Failed"])
  /\ Ended(i)
  /\ UNCHANGED <<ops, slot>>

\* The done-callback pops the entry of the project, whatever task it names.
Callback(i) ==
  /\ merge[i] = "ended"
  /\ merge' = [merge EXCEPT ![i] = "idle"]
  /\ slot' = 0
  /\ UNCHANGED <<exists, disk, ops>>

MergeStep ==
  \/ Required
  \/ \E i \in Merges : StartMerge(i) \/ FinishMerge(i) \/ FailMerge(i) \/ Callback(i)

\* A shutdown cancels the running merges, and each settles the document.
MergesCancelled ==
  IF exists /\ \E i \in Merges : merge[i] = "running"
  THEN Save(Settle(disk)) ELSE NoSave

ForgetMerges ==
  /\ merge' = [i \in Merges |-> "idle"]
  /\ slot' = 0
=============================================================================
