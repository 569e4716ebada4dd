---------------------------- MODULE AtomicStore ----------------------------
(***************************************************************************)
(* What the callers of storage.py rely on: one stored version of a         *)
(* project.  An operation takes effect at once at some moment between its  *)
(* call and its return; one that fails, or is cut off by a crash, took     *)
(* effect completely or not at all; nothing else changes what is stored.   *)
(* One exception is admitted where files may be locked: a delete on its    *)
(* way may uncover another version.                                        *)
(***************************************************************************)
EXTENDS Naturals

CONSTANTS
  Absent,
  Uncovers  \* whether a delete may uncover another version

VARIABLES
  store,  \* the version a reader gets
  arg,    \* what the current operation is to leave there
  phase   \* "idle", "called" or, once it has taken effect, "done"

storeVars == <<store, arg, phase>>

StoreInit == store = Absent /\ arg = Absent /\ phase = "idle"

Call == phase = "idle" /\ phase' = "called" /\ arg' \in Nat /\ UNCHANGED store

Effect == phase = "called" /\ phase' = "done" /\ store' = arg /\ UNCHANGED arg

Uncover ==
  /\ Uncovers
  /\ phase = "called" /\ arg = Absent
  /\ store' \in Nat
  /\ UNCHANGED <<arg, phase>>

Return == phase = "done" /\ phase' = "idle" /\ UNCHANGED <<store, arg>>

\* An exception before the effect, or a crash before or after it.
Fail == phase \in {"called", "done"} /\ phase' = "idle" /\ UNCHANGED <<store, arg>>

StoreNext == Call \/ Effect \/ Uncover \/ Return \/ Fail

StoreSpec == StoreInit /\ [][StoreNext]_storeVars
=============================================================================
