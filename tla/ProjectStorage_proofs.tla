----------------------- MODULE ProjectStorage_proofs ------------------------
(***************************************************************************)
(* ProjectStorage implements AtomicStore, and what is deleted can be       *)
(* restored, for every number of attempts, of backups and of operations.   *)
(***************************************************************************)
EXTENDS ProjectStorage, FiniteSetTheorems, TLAPS

Deleting == {"unlink_pending", "unlink_target"}
Writing == {"write", "unlink", "sidecar"}

(***************************************************************************)
(* What the steps of an operation rely on.  Behind a replaced file waits   *)
(* the old sidecar; without locks there is never a sidecar; an operation   *)
(* that writes Absent is a delete, which removes the sidecar first.        *)
(***************************************************************************)
StepsOK ==
  /\ calls \in Nat /\ payload \in Nat /\ target \in Nat
  /\ pc = "unlink" => target = payload
  /\ pc \in Writing => payload # Absent
  /\ pc \in Deleting => payload = Absent
  /\ ~Locks => held = {} /\ pending = Absent /\ pc \notin {"unlink", "sidecar"}
  /\ pc = "unlink_target" => pending = Absent
  /\ pending \in Nat

LEMMA StepsInit == Init => StepsOK
  BY DEF Init, StepsOK, Deleting, Writing, Absent

LEMMA PromoteKeepsView ==
  ASSUME Promote
  PROVE  View' = View
  BY DEF Promote, Promotable, View, Absent

LEMMA StepsStep ==
  ASSUME StepsOK, [Next]_vars
  PROVE  StepsOK'
  <1>1. ASSUME NEW op \in Operations, NEW due \in BOOLEAN, Begin(op, due)
        PROVE  StepsOK'
    <2>1. calls' \in Nat /\ payload' \in Nat /\ held' = held
      BY <1>1 DEF Begin, StepsOK, Absent
    <2>2. target' \in Nat /\ pending' \in Nat
      BY <1>1 DEF Begin, Promote, StepsOK, Absent
    <2>3. pc' \in {"copying", "unlink_pending", "write"}
          /\ (pc' = "unlink_pending" => payload' = Absent)
          /\ (pc' = "write" => payload' # Absent)
      BY <1>1 DEF Begin, AfterBackup
    <2>4. ~Locks => held' = {} /\ pending' = Absent
      BY <1>1 DEF Begin, Promote, Promotable, StepsOK
    <2> QED BY <2>1, <2>2, <2>3, <2>4 DEF StepsOK, Deleting, Writing
  <1>2. CASE Copied
    BY <1>2 DEF Copied, StepsOK, Deleting, Writing
  <1>3. CASE Pruned
    BY <1>3 DEF Pruned, AfterBackup, StepsOK, Deleting, Writing
  <1>4. CASE Replace \/ UnlinkSidecar \/ Denied \/ WriteSidecar \/ Missing
    <2>1. CASE Replace
      BY <2>1 DEF Replace, AfterReplace, StepsOK, Deleting, Writing
    <2>2. CASE UnlinkSidecar
      BY <2>2 DEF UnlinkSidecar, StepsOK, Deleting, Writing, Absent
    <2>3. CASE Denied \/ Missing
      BY <2>3 DEF Denied, Missing, StepsOK, Deleting, Writing
    <2>4. CASE WriteSidecar
      BY <2>4 DEF WriteSidecar, StepsOK, Deleting, Writing
    <2> QED BY <1>4, <2>1, <2>2, <2>3, <2>4
  <1>5. CASE UnlinkPending \/ UnlinkTarget
    BY <1>5 DEF UnlinkPending, UnlinkTarget, StepsOK, Deleting, Writing,
                Absent
  <1>6. CASE Succeeds \/ Raises \/ Crash
    BY <1>6 DEF Succeeds, Raises, Crash, Ends, StepsOK, Deleting, Writing
  <1>7. CASE Read
    BY <1>7 DEF Read, Promote, Promotable, StepsOK, Deleting, Writing, Absent
  <1>8. ASSUME NEW file \in {"target", "pending"}, Open(file) \/ Close(file)
        PROVE  StepsOK'
    BY <1>8 DEF Open, Close, StepsOK, Deleting, Writing
  <1>9. CASE UNCHANGED vars
    BY <1>9 DEF vars, StepsOK, Deleting, Writing
  <1> QED BY <1>1, <1>2, <1>3, <1>4, <1>5, <1>6, <1>7, <1>8, <1>9 DEF Next

(***************************************************************************)
(* Every step is a step of the abstract store or leaves it alone.          *)
(***************************************************************************)
Phase ==
  CASE pc = "idle" -> "idle"
    [] pc = "return" -> "done"
    [] OTHER -> "called"

LEMMA StoreInitially == Init => Store!StoreInit
  BY DEF Init, Store!StoreInit, View, Absent

LEMMA QuietStep ==
  ASSUME View' = View, payload' = payload, Phase' = Phase
  PROVE  UNCHANGED Store!storeVars
  BY DEF Store!storeVars, Phase

LEMMA StoreStep ==
  ASSUME StepsOK, [Next]_vars
  PROVE  [Store!StoreNext]_(Store!storeVars)
  <1>1. ASSUME NEW op \in Operations, NEW due \in BOOLEAN, Begin(op, due)
        PROVE  Store!Call
    <2>1. View' = View
      BY <1>1, PromoteKeepsView DEF Begin
    <2>2. pc = "idle" /\ pc' \in {"copying", "unlink_pending", "write"}
      BY <1>1 DEF Begin, AfterBackup
    <2>3. payload' \in Nat
      BY <1>1 DEF Begin, StepsOK, Absent
    <2> QED BY <2>1, <2>2, <2>3 DEF Store!Call
  <1>2. ASSUME Replace PROVE Store!Effect \/ UNCHANGED Store!storeVars
    <2>1. CASE pending = Absent
      BY <1>2, <2>1 DEF Replace, AfterReplace, View, Store!Effect
    <2>2. CASE pending # Absent
      <3>1. View' = View /\ payload' = payload /\ Phase' = Phase
        BY <1>2, <2>2 DEF Replace, AfterReplace, View, Phase
      <3> QED BY <3>1, QuietStep
    <2> QED BY <2>1, <2>2
  <1>3. ASSUME UnlinkSidecar PROVE Store!Effect
    BY <1>3 DEF UnlinkSidecar, StepsOK, View, Store!Effect
  <1>4. ASSUME WriteSidecar PROVE Store!Effect
    <2>1. Locks
      BY <1>4 DEF WriteSidecar, StepsOK
    <2> QED BY <1>4, <2>1 DEF WriteSidecar, StepsOK, Writing, View, Store!Effect
  <1>5. ASSUME Denied \/ Missing PROVE UNCHANGED Store!storeVars
    <2>1. View' = View /\ payload' = payload /\ Phase' = Phase
      BY <1>5 DEF Denied, Missing, View, Phase
    <2> QED BY <2>1, QuietStep
  <1>6. ASSUME UnlinkPending PROVE Store!Uncover \/ UNCHANGED Store!storeVars
    <2>1. CASE pending = Absent
      <3>1. View' = View /\ payload' = payload /\ Phase' = Phase
        BY <1>6, <2>1 DEF UnlinkPending, View, Phase
      <3> QED BY <3>1, QuietStep
    <2>2. CASE pending # Absent
      <3>1. Locks /\ payload = Absent /\ target \in Nat
        BY <1>6, <2>2 DEF UnlinkPending, StepsOK, Deleting
      <3>2. View' = target
        BY <1>6 DEF UnlinkPending, View
      <3> QED BY <1>6, <3>1, <3>2 DEF UnlinkPending, Store!Uncover
    <2> QED BY <2>1, <2>2
  <1>7. ASSUME UnlinkTarget PROVE Store!Effect
    <2>1. pending = Absent /\ payload = Absent
      BY <1>7 DEF UnlinkTarget, StepsOK, Deleting
    <2> QED BY <1>7, <2>1 DEF UnlinkTarget, View, Store!Effect
  <1>8. ASSUME Succeeds PROVE Store!Return
    BY <1>8 DEF Succeeds, Ends, View, Store!Return
  <1>9. ASSUME Raises \/ Crash PROVE Store!Fail
    BY <1>9 DEF Raises, Crash, Ends, View, Store!Fail
  <1>10. ASSUME Read PROVE UNCHANGED Store!storeVars
    <2>1. View' = View /\ payload' = payload /\ Phase' = Phase
      BY <1>10, PromoteKeepsView DEF Read, Phase
    <2> QED BY <2>1, QuietStep
  <1>11. ASSUME Copied \/ Pruned PROVE UNCHANGED Store!storeVars
    <2>1. View' = View /\ payload' = payload /\ Phase' = Phase
      BY <1>11 DEF Copied, Pruned, AfterBackup, View, Phase
    <2> QED BY <2>1, QuietStep
  <1>12. ASSUME NEW file \in {"target", "pending"}, Open(file) \/ Close(file)
         PROVE  UNCHANGED Store!storeVars
    <2>1. View' = View /\ payload' = payload /\ Phase' = Phase
      BY <1>12 DEF Open, Close, View, Phase
    <2> QED BY <2>1, QuietStep
  <1>13. ASSUME UNCHANGED vars PROVE UNCHANGED Store!storeVars
    <2>1. View' = View /\ payload' = payload /\ Phase' = Phase
      BY <1>13 DEF vars, View, Phase
    <2> QED BY <2>1, QuietStep
  <1> QED
    BY <1>1, <1>2, <1>3, <1>4, <1>5, <1>6, <1>7, <1>8, <1>9, <1>10, <1>11, <1>12, <1>13
    DEF Next, Store!StoreNext

\* A project on disk behaves as one version that every save, restore and
\* delete changes at once or not at all, wherever the process dies, other
\* programs lock the files or an attempt is denied; only where files may be
\* locked a delete can uncover another version before it removes it.
THEOREM StorageIsAtomic == Spec => ImplementsStore
  <1>1. Init => StepsOK /\ Store!StoreInit
    BY StepsInit, StoreInitially
  <1>2. StepsOK /\ [Next]_vars => StepsOK' /\ [Store!StoreNext]_(Store!storeVars)
    BY StepsStep, StoreStep
  <1> QED BY <1>1, <1>2, PTL DEF Spec, ImplementsStore, Store!StoreSpec


(***************************************************************************)
(* Types.  The file that is copied is there until the copy is done.        *)
(***************************************************************************)
StorageTypes == StorageTypeOK /\ (pc = "copying" => View # Absent)

LEMMA StorageTyped == Init => StorageTypes
  BY StorageAssumption DEF Init, StorageTypes, StorageTypeOK, Absent

LEMMA StorageTypeStep ==
  ASSUME StorageTypes, [Next]_vars
  PROVE  StorageTypes'
  <1> USE DEF StorageTypes
  <1>0. MaxCalls \in Nat /\ MaxAttempts \in Nat \ {0}
    BY StorageAssumption
  <1>1. View \in 0..MaxCalls
    BY <1>0 DEF StorageTypeOK, View
  <1>2. ASSUME NEW op \in Operations, NEW due \in BOOLEAN, Begin(op, due)
        PROVE  StorageTypes'
    <2>1. calls' \in 1..MaxCalls /\ calls' = calls + 1 /\ payload' \in 0..MaxCalls
          /\ attempt' = 0 /\ held' = held
      BY <1>0, <1>2 DEF Begin, StorageTypeOK, Absent
    <2>2. target' \in 0..MaxCalls /\ pending' \in 0..MaxCalls /\ View' = View
      BY <1>0, <1>2, PromoteKeepsView DEF Begin, Promote, StorageTypeOK, Absent
    <2>3. backups' \subseteq Backup
      <3>1. [call |-> calls + 1, stamp |-> calls + 1, torn |-> TRUE] \in Backup
        BY <1>0, <2>1 DEF Backup
      <3> QED BY <1>2, <3>1 DEF Begin, StorageTypeOK
    <2>4. pc' \in {"copying", "unlink_pending", "write"} /\ (pc' = "copying" => View # Absent)
      BY <1>2 DEF Begin, AfterBackup
    <2> QED BY <1>0, <2>1, <2>2, <2>3, <2>4 DEF StorageTypeOK
  <1>3. CASE Copied
    <2>1. View \in 1..MaxCalls
      <3>1. View # 0
        BY <1>3 DEF Copied, Absent
      <3> QED BY <1>0, <1>1, <3>1
    <2>2. ASSUME NEW b \in Backup
          PROVE  [b EXCEPT !.stamp = View, !.torn = FALSE] \in Backup
      BY <2>1 DEF Backup
    <2>3. backups' \subseteq Backup
      BY <1>3, <2>2 DEF Copied, StorageTypeOK
    <2> QED BY <1>3, <2>3 DEF Copied, StorageTypeOK
  <1>4. CASE Pruned
    BY <1>4 DEF Pruned, AfterBackup, StorageTypeOK
  <1>5. CASE Replace \/ UnlinkSidecar \/ WriteSidecar
    <2>1. pc' \in {"return", "unlink"} /\ UNCHANGED <<held, backups, payload, attempt, calls>>
      BY <1>5 DEF Replace, AfterReplace, UnlinkSidecar, WriteSidecar
    <2>2. target' \in 0..MaxCalls /\ pending' \in 0..MaxCalls
      BY <1>0, <1>5 DEF Replace, UnlinkSidecar, WriteSidecar, StorageTypeOK, Absent
    <2> QED BY <2>1, <2>2 DEF StorageTypeOK
  <1>6. CASE Denied \/ Missing
    <2>1. /\ pc' \in {"write", "sidecar"}
          /\ UNCHANGED <<target, pending, held, backups, payload, calls>>
      BY <1>6 DEF Denied, Missing
    <2>2. attempt' \in 0..(MaxAttempts - 1)
      BY <1>0, <1>6 DEF Denied, Missing, Retries, StorageTypeOK
    <2> QED BY <2>1, <2>2 DEF StorageTypeOK
  <1>7. CASE UnlinkPending \/ UnlinkTarget \/ Succeeds \/ Raises \/ Crash
    <2>1. pc' \in {"unlink_target", "return", "idle"}
          /\ UNCHANGED <<held, backups, payload, attempt, calls>>
      BY <1>7 DEF UnlinkPending, UnlinkTarget, Succeeds, Raises, Crash, Ends
    <2>2. target' \in 0..MaxCalls /\ pending' \in 0..MaxCalls
      BY <1>0, <1>7
      DEF UnlinkPending, UnlinkTarget, Succeeds, Raises, Crash, Ends, StorageTypeOK, Absent
    <2> QED BY <2>1, <2>2 DEF StorageTypeOK
  <1>8. CASE Read
    BY <1>0, <1>8 DEF Read, Promote, Promotable, StorageTypeOK, Absent
  <1>9. ASSUME NEW file \in {"target", "pending"}, Open(file) \/ Close(file)
        PROVE  StorageTypes'
    BY <1>9 DEF Open, Close, StorageTypeOK, View
  <1>10. CASE UNCHANGED vars
    BY <1>10 DEF vars, StorageTypeOK, View
  <1> QED BY <1>2, <1>3, <1>4, <1>5, <1>6, <1>7, <1>8, <1>9, <1>10 DEF Next

(***************************************************************************)
(* What is deleted can be restored.                                        *)
(*                                                                         *)
(* When the pruning starts, the copy just made is readable and is of the   *)
(* version that readers have; nothing changes that version before the      *)
(* deletion starts.                                                        *)
(***************************************************************************)
CopyOK ==
  /\ IsFiniteSet(backups)
  /\ pc = "copying" => \E b \in backups : b.call = calls
  /\ pc = "pruning" => \E b \in Readable : b.stamp = View

LEMMA CopyInit == Init => CopyOK
  BY FS_EmptySet DEF Init, CopyOK

LEMMA CopyStep ==
  ASSUME StorageTypes, CopyOK, [Next]_vars
  PROVE  CopyOK'
  <1>1. ASSUME NEW op \in Operations, NEW due \in BOOLEAN, Begin(op, due)
        PROVE  CopyOK'
    <2>1. CASE due /\ View # Absent
      <3> DEFINE new == [call |-> calls + 1, stamp |-> calls + 1, torn |-> TRUE]
      <3>1. backups' = backups \cup {new} /\ pc' = "copying" /\ calls' = calls + 1
        BY <1>1, <2>1 DEF Begin
      <3>2. IsFiniteSet(backups')
        BY <3>1, FS_AddElement DEF CopyOK
      <3>3. new \in backups' /\ new.call = calls'
        BY <3>1
      <3> HIDE DEF new
      <3> QED BY <3>1, <3>2, <3>3 DEF CopyOK
    <2>2. CASE ~(due /\ View # Absent)
      BY <1>1, <2>2 DEF Begin, CopyOK, AfterBackup
    <2> QED BY <2>1, <2>2
  <1>2. CASE Copied
    <2> DEFINE done(b) == IF b.call = calls THEN [b EXCEPT !.stamp = View, !.torn = FALSE] ELSE b
    <2>1. backups' = {done(b) : b \in backups} /\ pc' = "pruning" /\ View' = View
      BY <1>2 DEF Copied, View
    <2>2. IsFiniteSet(backups')
      <3> DEFINE map == [b \in backups |-> done(b)]
      <3>1. backups' = {map[b] : b \in backups}
        BY <2>1
      <3>2. map \in [backups -> backups'] /\ \A c \in backups' : \E b \in backups : map[b] = c
        BY <2>1
      <3>3. map \in Surjection(backups, backups')
        BY <3>2 DEF Surjection
      <3> QED BY <3>3, FS_Surjection DEF CopyOK
    <2>3. PICK b \in backups : b.call = calls
      BY <1>2 DEF CopyOK, Copied
    <2>4. b \in Backup
      BY <2>3 DEF StorageTypes, StorageTypeOK
    <2>5. done(b) \in backups' /\ ~done(b).torn /\ done(b).stamp = View
      BY <2>1, <2>3, <2>4 DEF Backup
    <2>6. \E c \in Readable' : c.stamp = View'
      BY <2>1, <2>5 DEF Readable
    <2> QED BY <2>1, <2>2, <2>6 DEF CopyOK
  <1>3. CASE Pruned
    <2>1. PICK kept \in SUBSET backups : backups' = kept
      BY <1>3 DEF Pruned
    <2>2. IsFiniteSet(backups')
      BY <2>1, FS_Subset DEF CopyOK
    <2> QED BY <1>3, <2>2 DEF CopyOK, Pruned, AfterBackup
  <1>4. CASE Replace \/ UnlinkSidecar \/ Denied \/ WriteSidecar \/ Missing
    BY <1>4 DEF Replace, AfterReplace, UnlinkSidecar, Denied, WriteSidecar, Missing, CopyOK
  <1>5. CASE UnlinkPending \/ UnlinkTarget \/ Succeeds \/ Raises \/ Crash \/ Read
    BY <1>5 DEF UnlinkPending, UnlinkTarget, Succeeds, Raises, Crash, Ends, Read, CopyOK
  <1>6. ASSUME NEW file \in {"target", "pending"}, Open(file) \/ Close(file)
        PROVE  CopyOK'
    BY <1>6 DEF Open, Close, CopyOK, Readable, View
  <1>7. CASE UNCHANGED vars
    BY <1>7 DEF vars, CopyOK, Readable, View
  <1> QED BY <1>1, <1>2, <1>3, <1>4, <1>5, <1>6, <1>7 DEF Next

\* The newest of the backups are kept, so a backup as new as the one that is
\* dropped is among them, and a readable one if torn copies do not fill them.
LEMMA PruningKeeps ==
  ASSUME StepsOK, CopyOK, Pruned, Cardinality(backups \ Readable) < Retention
  PROVE  \E b \in Readable' : b.stamp >= View
  <1>1. PICK kept \in SUBSET backups :
          /\ Cardinality(kept) =
               IF Cardinality(backups) > Retention THEN Retention ELSE Cardinality(backups)
          /\ Newest(kept) /\ backups' = kept
    BY DEF Pruned
  <1>2. PICK b \in Readable : b.stamp = View
    BY DEF Pruned, CopyOK
  <1>3. View \in Nat
    BY DEF StepsOK, View
  <1>4. CASE b \in kept
    BY <1>1, <1>2, <1>3, <1>4 DEF Readable
  <1>5. CASE b \notin kept
    <2>1. b \in backups \ kept
      BY <1>2, <1>5 DEF Readable
    <2>2. \A k \in kept : k.stamp >= View
      BY <1>1, <1>2, <2>1 DEF Newest
    <2>3. Cardinality(kept) = Retention
      <3>1. Cardinality(kept) # Cardinality(backups)
        BY <2>1, FS_Subset DEF CopyOK
      <3> QED BY <1>1, <3>1
    <2>4. \E k \in kept : ~k.torn
      <3>1. SUFFICES ASSUME \A k \in kept : k.torn
                     PROVE  FALSE
        OBVIOUS
      <3>2. kept \subseteq backups \ Readable
        BY <3>1 DEF Readable
      <3>3. IsFiniteSet(backups \ Readable)
        BY FS_Subset DEF CopyOK
      <3>4. /\ Cardinality(kept) <= Cardinality(backups \ Readable)
            /\ Cardinality(backups \ Readable) \in Nat /\ Cardinality(kept) \in Nat
        BY <3>2, <3>3, FS_Subset, FS_CardinalityType
      <3>5. Retention \in Nat
        BY StorageAssumption
      <3> QED BY <2>3, <3>4, <3>5
    <2> QED BY <1>1, <2>2, <2>4 DEF Readable
  <1> QED BY <1>4, <1>5

\* When delete() starts to remove files, the version that readers have or a
\* newer one can still be restored, whatever was saved, torn and pruned
\* before, unless torn copies fill the whole retention (storage.py, delete,
\* _backup_existing).
THEOREM DeletedCanBeRestored == Spec => DeletedIsKept
  <1>1. Init => StepsOK /\ CopyOK /\ StorageTypes
    BY StepsInit, CopyInit, StorageTyped
  <1>2. StepsOK /\ CopyOK /\ StorageTypes /\ [Next]_vars
          => StepsOK' /\ CopyOK' /\ StorageTypes'
    BY StepsStep, CopyStep, StorageTypeStep
  <1>3. ASSUME StepsOK, CopyOK, [Next]_vars
        PROVE  [pc = "pruning" /\ pc' = "unlink_pending"
                  /\ Cardinality(backups \ Readable) < Retention
                => \E b \in Readable' : b.stamp >= View]_vars
    <2>1. pc = "pruning" /\ pc' = "unlink_pending" => Pruned
      BY <1>3 DEF Next, vars, Begin, Copied, Replace, UnlinkSidecar, Denied, WriteSidecar,
                  Missing, UnlinkPending, UnlinkTarget, Succeeds, Raises, Read, Crash, Ends,
                  Open, Close
    <2> QED BY <1>3, <2>1, PruningKeeps
  <1> QED BY <1>1, <1>2, <1>3, PTL DEF Spec, DeletedIsKept
=============================================================================
