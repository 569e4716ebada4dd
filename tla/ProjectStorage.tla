--------------------------- MODULE ProjectStorage ---------------------------
(***************************************************************************)
(* ProjectStorage of storage.py for one project: the project file, the     *)
(* sidecar that takes a save when the file is locked, and the backups.     *)
(* The operations hold one lock, so only a crash of the process and other  *)
(* programs that open the files come between their steps.                  *)
(*                                                                         *)
(* A version is the number of the operation that wrote it: a restored      *)
(* backup is written with a new updated_at and is a version of its own.    *)
(* The modification time of a file orders versions the same way.           *)
(***************************************************************************)
EXTENDS Naturals, FiniteSets

CONSTANTS
  Operations,   \* the operations users may ask for
  Locks,        \* other programs may open the files without sharing (Windows)
  Crashes,      \* the process may die and start again
  MaxAttempts,  \* max_attempts of _atomic_write_text
  Retention,    \* backup_retention
  MaxCalls      \* bound on the operations of a behaviour

ASSUME StorageAssumption ==
  /\ Operations \subseteq {"save", "restore", "delete"}
  /\ Locks \in BOOLEAN /\ Crashes \in BOOLEAN
  /\ MaxAttempts \in Nat \ {0}
  /\ Retention \in Nat \ {0}
  /\ MaxCalls \in Nat

Absent == 0

VARIABLES
  target,   \* version in <id>.json
  pending,  \* version in .<id>.json.pending
  held,     \* which of the two another program has open
  backups,  \* the files of the backup directory
  pc,       \* where the current operation is
  payload,  \* the version it writes; Absent when it deletes
  attempt,  \* attempt of _atomic_write_text
  calls     \* operations so far

vars == <<target, pending, held, backups, pc, payload, attempt, calls>>

\* call is the operation that made the copy; a torn copy is as new as it.
Backup == [call : 1..MaxCalls, stamp : 1..MaxCalls, torn : BOOLEAN]
Readable == {b \in backups : ~b.torn}

View == IF pending # Absent THEN pending ELSE target

Init ==
  /\ target = Absent /\ pending = Absent /\ held = {} /\ backups = {}
  /\ pc = "idle" /\ payload = Absent /\ attempt = 0 /\ calls = 0

\* os.replace(pending, target), refused while either file is open elsewhere.
Promotable == pending # Absent /\ held = {}
Promote ==
  IF Promotable THEN target' = pending /\ pending' = Absent
  ELSE UNCHANGED <<target, pending>>

AfterBackup(version) == IF version = Absent THEN "unlink_pending" ELSE "write"

\* A call up to the start of the copy.  save() copies when the last backup is
\* older than the interval, the others always; with nothing stored delete()
\* returns at once and there is nothing to copy.
Begin(op, due) ==
  /\ pc = "idle" /\ calls < MaxCalls
  /\ op \in Operations
  /\ op = "restore" => Readable # {}
  /\ op = "delete" => View # Absent
  /\ op # "save" => due
  /\ calls' = calls + 1
  /\ payload' = IF op = "delete" THEN Absent ELSE calls + 1
  /\ attempt' = 0
  /\ Promote
  /\ IF due /\ View # Absent
     THEN /\ pc' = "copying"
          /\ backups' = backups \cup
               {[call |-> calls + 1, stamp |-> calls + 1, torn |-> TRUE]}
     ELSE /\ pc' = AfterBackup(payload')
          /\ UNCHANGED backups
  /\ UNCHANGED held

\* copy2 finishes: the copy has the content and the time of its source.
Copied ==
  /\ pc = "copying"
  /\ backups' = {IF b.call = calls THEN [b EXCEPT !.stamp = View, !.torn = FALSE]
                 ELSE b : b \in backups}
  /\ pc' = "pruning"
  /\ UNCHANGED <<target, pending, held, payload, attempt, calls>>

\* Mutant: the list is not reversed, the oldest files are kept.
MutKeepOldest(kept) ==
  \A k \in kept, d \in backups \ kept : k.stamp <= d.stamp

Newest(kept) ==
  \A k \in kept, d \in backups \ kept : k.stamp >= d.stamp

Pruned ==
  /\ pc = "pruning"
  /\ \E kept \in SUBSET backups :
       /\ Cardinality(kept) =
            IF Cardinality(backups) > Retention THEN Retention
            ELSE Cardinality(backups)
       /\ Newest(kept)
       /\ backups' = kept
  /\ pc' = AfterBackup(payload)
  /\ UNCHANGED <<target, pending, held, payload, attempt, calls>>

(***************************************************************************)
(* _atomic_write_text.                                                     *)
(***************************************************************************)
\* Mutant: the sidecar is left behind when the file could be replaced.
MutSidecarStays == "return"

AfterReplace == IF pending = Absent THEN "return" ELSE "unlink"

Replace ==
  /\ pc = "write" /\ "target" \notin held
  /\ target' = payload
  /\ pc' = AfterReplace
  /\ UNCHANGED <<pending, held, backups, payload, attempt, calls>>

UnlinkSidecar ==
  /\ pc = "unlink" /\ "pending" \notin held
  /\ pending' = Absent
  /\ pc' = "return"
  /\ UNCHANGED <<target, held, backups, payload, attempt, calls>>

Retries == attempt < MaxAttempts - 1

\* PermissionError: try again, in the end write the sidecar.
Denied ==
  /\ \/ pc = "write" /\ "target" \in held
     \/ pc = "unlink" /\ "pending" \in held
  /\ IF Retries THEN pc' = "write" /\ attempt' = attempt + 1
     ELSE pc' = "sidecar" /\ UNCHANGED attempt
  /\ UNCHANGED <<target, pending, held, backups, payload, calls>>

WriteSidecar ==
  /\ pc = "sidecar" /\ "pending" \notin held
  /\ pending' = payload
  /\ pc' = "return"
  /\ UNCHANGED <<target, held, backups, payload, attempt, calls>>

\* FileNotFoundError: something removed the empty projects directory.
Missing ==
  /\ pc = "write" /\ target = Absent /\ pending = Absent
  /\ Retries
  /\ attempt' = attempt + 1
  /\ UNCHANGED <<target, pending, held, backups, pc, payload, calls>>

(***************************************************************************)
(* delete().                                                               *)
(***************************************************************************)
UnlinkPending ==
  /\ pc = "unlink_pending" /\ "pending" \notin held
  /\ pending' = Absent
  /\ pc' = "unlink_target"
  /\ UNCHANGED <<target, held, backups, payload, attempt, calls>>

UnlinkTarget ==
  /\ pc = "unlink_target" /\ "target" \notin held
  /\ target' = Absent
  /\ pc' = "return"
  /\ UNCHANGED <<pending, held, backups, payload, attempt, calls>>

(***************************************************************************)
(* The end of an operation, readers, other programs, crashes.              *)
(***************************************************************************)
Ends ==
  /\ pc' = "idle"
  /\ UNCHANGED <<target, pending, held, backups, payload, attempt, calls>>

Succeeds == pc = "return" /\ Ends

\* What is raised: PermissionError at the sidecar or while deleting, and any
\* other OSError of the copy, the pruning and the writes.
Raises ==
  /\ \/ pc \in {"copying", "pruning", "write", "sidecar"}
     \/ pc = "unlink_pending" /\ "pending" \in held
     \/ pc = "unlink_target" /\ "target" \in held
  /\ Ends

\* get() and list().
Read ==
  /\ pc = "idle" /\ Promotable
  /\ Promote
  /\ UNCHANGED <<held, backups, pc, payload, attempt, calls>>

Open(file) ==
  /\ Locks /\ file \notin held
  /\ IF file = "target" THEN target # Absent ELSE pending # Absent
  /\ held' = held \cup {file}
  /\ UNCHANGED <<target, pending, backups, pc, payload, attempt, calls>>

Close(file) ==
  /\ file \in held
  /\ held' = held \ {file}
  /\ UNCHANGED <<target, pending, backups, pc, payload, attempt, calls>>

Crash == Crashes /\ pc # "idle" /\ Ends

Next ==
  \/ \E op \in Operations, due \in BOOLEAN : Begin(op, due)
  \/ Copied \/ Pruned
  \/ Replace \/ UnlinkSidecar \/ Denied \/ WriteSidecar \/ Missing
  \/ UnlinkPending \/ UnlinkTarget
  \/ Succeeds \/ Raises \/ Read \/ Crash
  \/ \E file \in {"target", "pending"} : Open(file) \/ Close(file)

Spec == Init /\ [][Next]_vars

(***************************************************************************)
(* Properties.                                                             *)
(***************************************************************************)
StorageTypeOK ==
  /\ target \in 0..MaxCalls /\ pending \in 0..MaxCalls
  /\ held \subseteq {"target", "pending"}
  /\ backups \subseteq Backup
  /\ pc \in {"idle", "copying", "pruning", "write", "unlink", "sidecar",
             "unlink_pending", "unlink_target", "return"}
  /\ payload \in 0..MaxCalls /\ calls \in 0..MaxCalls
  /\ attempt \in 0..(MaxAttempts - 1)

Store ==
  INSTANCE AtomicStore WITH
    Uncovers <- Locks,
    store <- View,
    arg <- payload,
    phase <- CASE pc = "idle" -> "idle"
               [] pc = "return" -> "done"
               [] OTHER -> "called"

\* Readers see a single stored version that each operation changes at once
\* or, when it raises or the process dies, perhaps not at all, although the
\* version lives in two files, either of which may be locked between any
\* two steps.  Only a delete that finds a sidecar shows the file behind it.
ImplementsStore == Store!StoreSpec

\* When delete() starts to remove files, the version that readers have, or
\* a newer one that an interrupted delete took from them, can still be
\* restored, unless torn copies fill the whole retention.
DeletedIsKept ==
  [][pc = "pruning" /\ pc' = "unlink_pending"
       /\ Cardinality(backups \ Readable) < Retention
     => \E b \in Readable' : b.stamp >= View]_vars
=============================================================================
