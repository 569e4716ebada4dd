-------------------------- MODULE DesktopWorkspace --------------------------
(***************************************************************************)
(* Desktop sessions and their workspaces: the dialog that chooses a folder,*)
(* the lock file in it, the backend that serves it from a thread of the    *)
(* same process, and the window that is closed while the backend may still *)
(* be at work.  A file lock goes with the process that holds it.           *)
(***************************************************************************)
CONSTANTS
  Sessions,    \* processes of the program on this machine
  Workspaces,  \* folders
  Slow,        \* a backend may take longer to start or to end than is waited
  NoSpace

ASSUME WorkspaceAssumption == NoSpace \notin Workspaces /\ Slow \in BOOLEAN

VARIABLES
  phase,   \* where DesktopSession is
  locked,  \* the workspace whose WorkspaceLock a session holds
  url,     \* the workspace of the backend that self._url names
  server   \* the backend: down, starting or serving

desktop == <<phase, locked, url, server>>

Phases == {"gate", "probe", "wait", "open", "closing", "closed"}

DesktopTypeOK ==
  /\ phase \in [Sessions -> Phases]
  /\ locked \in [Sessions -> Workspaces \cup {NoSpace}]
  /\ url \in [Sessions -> Workspaces \cup {NoSpace}]
  /\ server \in [Sessions -> {"down", "starting", "serving"}]

DesktopInit ==
  /\ phase = [s \in Sessions |-> "gate"]
  /\ locked = [s \in Sessions |-> NoSpace] /\ url = [s \in Sessions |-> NoSpace]
  /\ server = [s \in Sessions |-> "down"]

To(s, p) == phase' = [phase EXCEPT ![s] = p]

\* Mutant: the lock is not exclusive.
MutFree(s, w) == TRUE

\* flock(LOCK_EX | LOCK_NB)
Free(s, w) == \A t \in Sessions \ {s} : locked[t] # w

\* choose_workspace: a session that has a backend shows it again, whatever
\* folder is chosen; a folder in use is refused.
ChooseAgain(s) ==
  /\ phase[s] \in {"gate", "open"} /\ url[s] # NoSpace /\ To(s, "open")
  /\ UNCHANGED <<locked, url, server>>

Choose(s, w) ==
  /\ phase[s] = "gate" /\ url[s] = NoSpace /\ Free(s, w)
  /\ locked' = [locked EXCEPT ![s] = w] /\ To(s, "probe")
  /\ UNCHANGED <<url, server>>

\* What choose_workspace does with an exception: the folder cannot be
\* written, or the backend was not ready in time.
GivesUp(s) ==
  /\ phase[s] = "probe" \/ (Slow /\ phase[s] = "wait" /\ server[s] = "starting")
  /\ locked' = [locked EXCEPT ![s] = NoSpace] /\ To(s, "gate")
  /\ UNCHANGED <<url, server>>

\* The port is chosen, the application is built and its thread started.
Launch(s) ==
  /\ phase[s] = "probe" /\ To(s, "wait")
  /\ url' = [url EXCEPT ![s] = locked[s]]
  /\ server' = [server EXCEPT ![s] = "starting"]
  /\ UNCHANGED locked

Serves(s) ==
  /\ server[s] = "starting" /\ phase[s] # "closing"
  /\ server' = [server EXCEPT ![s] = "serving"]
  /\ UNCHANGED <<phase, locked, url>>

\* _wait_until_ready
Opens(s) ==
  /\ phase[s] = "wait" /\ server[s] = "serving" /\ To(s, "open")
  /\ UNCHANGED <<locked, url, server>>

\* The window is closed: _shutdown asks the backend to end, waits for its
\* thread, but 8 seconds at most, and gives the lock back.
Close(s) ==
  /\ phase[s] \in {"gate", "open"} /\ To(s, "closing")
  /\ UNCHANGED <<locked, url, server>>

ServerEnds(s) ==
  /\ phase[s] \in {"closing", "closed"} /\ server[s] # "down"
  /\ server' = [server EXCEPT ![s] = "down"]
  /\ UNCHANGED <<phase, locked, url>>

Joined(s) == server[s] = "down" \/ Slow

Unlock(s) ==
  /\ phase[s] = "closing" /\ Joined(s) /\ To(s, "closed")
  /\ locked' = [locked EXCEPT ![s] = NoSpace]
  /\ UNCHANGED <<url, server>>

\* The process ends, or dies at any moment, and the program is opened again.
Reopen(s) ==
  /\ To(s, "gate")
  /\ locked' = [locked EXCEPT ![s] = NoSpace] /\ url' = [url EXCEPT ![s] = NoSpace]
  /\ server' = [server EXCEPT ![s] = "down"]

DesktopNext ==
  \E s \in Sessions :
    \/ ChooseAgain(s) \/ (\E w \in Workspaces : Choose(s, w)) \/ GivesUp(s) \/ Launch(s)
    \/ Serves(s) \/ Opens(s) \/ Close(s) \/ ServerEnds(s) \/ Unlock(s) \/ Reopen(s)

DesktopSpec == DesktopInit /\ [][DesktopNext]_desktop

(***************************************************************************)
(* Properties.                                                             *)
(***************************************************************************)
\* Two backends never serve one workspace, however the windows are opened,
\* closed and killed (WorkspaceLock, _start_backend, _shutdown).
OneBackendPerWorkspace ==
  \A s, t \in Sessions :
    s # t /\ server[s] # "down" /\ server[t] # "down" => url[s] # url[t]

\* "Hold an exclusive one-byte file lock for the lifetime of a workspace
\* session" (workspace_lock.py:15): while its backend runs, a session holds
\* the lock of the workspace that is served.
BackendHoldsLock == \A s \in Sessions : server[s] # "down" => locked[s] = url[s]
=============================================================================
