--------------------------- MODULE BrowserSessions ---------------------------
(***************************************************************************)
(* The Google sessions of the automated browser: two vaults of cookies (of *)
(* the Google account and of the Flow app) and one of the proxy, the       *)
(* browser with its profile directory, the SOCKS bridge, and the threads   *)
(* that drive the browser (validate_session, and the worker's generations, *)
(* which go the same way).  The routes run on the event loop, beside the   *)
(* threads.  Browser, profile and bridge outlive the server.               *)
(*                                                                         *)
(* Cookies are a set of the users they belong to, for each source.         *)
(***************************************************************************)
EXTENDS Integers, TLC

CONSTANTS
  Threads,     \* threads that may drive the browser at once
  Users,       \* people whose sessions are imported
  Plain,       \* proxies the browser is given as they are
  Socks,       \* SOCKS proxies with a password, reached through the bridge
  MaxOps,      \* bound on the routes of a behaviour
  MaxCrashes,  \* bound on the restarts of the server
  NoProxy, Bridge

Sources == {"account", "flow"}
Proxies == Plain \cup Socks \cup {NoProxy}

ASSUME SessionsAssumption ==
  /\ MaxOps \in Nat /\ MaxCrashes \in Nat
  /\ NoProxy \notin Plain \cup Socks /\ Bridge \notin Proxies

VARIABLES
  vault,    \* the cookies in the vault of each source
  proxy,    \* the proxy in its vault
  up,       \* the browser runs
  profile,  \* the cookies in the browser and in its profile directory
  via,      \* --proxy-server of the running browser
  bridge,   \* where the running bridge leads, NoProxy if none runs
  owed,     \* what the route that is under way has still to do
  th,       \* the threads
  wanted,   \* history: what was imported last, or {} since it was cleared
  cut,      \* history: a reset or stop that was due never took place
  late,     \* history: a thread used what it had read before a reset
  ops, crashes

vars == <<vault, proxy, up, profile, via, bridge, owed, th, wanted,
          cut, late, ops, crashes>>
browser == <<up, profile, via, bridge>>
history == <<wanted, cut, late>>
bounds == <<ops, crashes>>

Cookies == [Sources -> SUBSET Users]
NoCookies == [s \in Sources |-> {}]
PC == {"idle", "launch", "bridge", "start", "await", "connect", "add", "use", "account", "flow"}

\* held: what the thread has read and will use; to: the proxy it has read;
\* on: it is connected to the browser that runs; old: there was a reset since
\* it read.
ThreadRecord ==
  [pc : PC, held : Cookies, to : Proxies, on : BOOLEAN, old : BOOLEAN]
Idle == [pc |-> "idle", held |-> NoCookies, to |-> NoProxy, on |-> FALSE, old |-> FALSE]

SessionsTypeOK ==
  /\ vault \in Cookies /\ profile \in Cookies /\ wanted \in Cookies
  /\ proxy \in Proxies /\ bridge \in Proxies /\ via \in Plain \cup {NoProxy, Bridge}
  /\ up \in BOOLEAN /\ owed \in {"nothing", "reset", "stop"}
  /\ th \in [Threads -> ThreadRecord]
  /\ {cut, late} \subseteq BOOLEAN /\ ops \in 0..MaxOps /\ crashes \in 0..MaxCrashes

Init ==
  /\ vault = NoCookies /\ proxy = NoProxy
  /\ up = FALSE /\ profile = NoCookies /\ via = NoProxy /\ bridge = NoProxy
  /\ owed = "nothing" /\ th = [t \in Threads |-> Idle]
  /\ wanted = NoCookies /\ cut = FALSE /\ late = FALSE
  /\ ops = 0 /\ crashes = 0

(***************************************************************************)
(* The routes.  Each changes a vault and then, in the same call, resets    *)
(* the profile or stops the browser; the threads run in between.           *)
(***************************************************************************)
Route(due) ==
  /\ owed = "nothing" /\ owed' = due
  /\ ops < MaxOps /\ ops' = ops + 1
  /\ UNCHANGED <<browser, th, late, crashes>>

Writes(cookies) ==
  /\ vault' = cookies /\ wanted' = cookies /\ UNCHANGED proxy

\* import_google_account_session, import_flow_session; clear_source_session
ImportSource(s, u) ==
  Route("reset") /\ Writes([vault EXCEPT ![s] = {u}]) /\ UNCHANGED cut

ClearSource(s) ==
  Route("reset") /\ Writes([vault EXCEPT ![s] = {}]) /\ UNCHANGED cut

\* import_session writes the vaults one after the other.  If the second
\* cannot be written the exception leaves the profile as it was.
ImportBoth(u) ==
  \/ Route("reset") /\ Writes([s \in Sources |-> {u}]) /\ UNCHANGED cut
  \/ Route("nothing") /\ Writes([vault EXCEPT !["account"] = {u}]) /\ cut' = TRUE

\* clear_session: if the second vault cannot be removed, likewise.
ClearBoth ==
  \/ Route("reset") /\ Writes(NoCookies) /\ UNCHANGED cut
  \/ Route("nothing") /\ Writes([vault EXCEPT !["account"] = {}]) /\ cut' = TRUE

\* save_proxy, clear_proxy
SetProxy(p) ==
  /\ p # proxy /\ Route("stop") /\ proxy' = p
  /\ UNCHANGED <<vault, wanted, cut>>

\* _stop_profile_processes
Stopped == up' = FALSE /\ via' = NoProxy /\ bridge' = NoProxy

CutOff(threads) == [t \in Threads |-> [threads[t] EXCEPT !.on = FALSE]]

\* What a thread has read by now is from before the reset.
Aged ==
  th' = CutOff([t \in Threads |-> [th[t] EXCEPT !.old = th[t].pc # "idle"]])

\* Mutant: the profile directory is kept.
MutErased == UNCHANGED profile

Erased == profile' = NoCookies

\* _reset_runtime_profile
Reset ==
  /\ owed = "reset" /\ owed' = "nothing"
  /\ Stopped /\ Erased /\ Aged
  /\ UNCHANGED <<vault, proxy, history, bounds>>

\* Mutant: a new proxy leaves the browser as it is.
MutStop ==
  /\ owed = "stop" /\ owed' = "nothing" /\ Aged
  /\ UNCHANGED <<vault, proxy, browser, history, bounds>>

Stop ==
  /\ owed = "stop" /\ owed' = "nothing"
  /\ Stopped /\ Aged
  /\ UNCHANGED <<vault, proxy, profile, history, bounds>>

(***************************************************************************)
(* A thread that drives the browser.                                       *)
(***************************************************************************)
Goes(t, r) == th' = [th EXCEPT ![t] = r]
Moves(t, pc) == Goes(t, [th[t] EXCEPT !.pc = pc])
Beside == UNCHANGED <<owed, wanted, cut, bounds>>
Steady == UNCHANGED <<vault, proxy, late>>

\* _load_session raises unless both sessions are there.
Loaded == \A s \in Sources : vault[s] # {}

\* ensure_automation_browser uses the browser that runs, whatever it was
\* started with; otherwise it stops what is left and starts one.
Ensure(t) ==
  /\ th[t].pc = "idle" /\ Loaded
  /\ IF up
     THEN Goes(t, [Idle EXCEPT !.pc = "connect"]) /\ UNCHANGED browser
     ELSE /\ th' = CutOff([th EXCEPT ![t] = [Idle EXCEPT !.pc = "launch"]])
          /\ Stopped /\ UNCHANGED profile
  /\ Steady /\ Beside

\* _proxy_launch_server reads the proxy, then starts or stops the bridge: one
\* that runs is used as it is.
Launch(t) ==
  /\ th[t].pc = "launch"
  /\ Goes(t, [th[t] EXCEPT !.pc = "bridge", !.to = proxy])
  /\ UNCHANGED browser /\ Steady /\ Beside

LaunchBridge(t) ==
  /\ th[t].pc = "bridge" /\ Moves(t, "start")
  /\ bridge' = IF th[t].to \notin Socks THEN NoProxy
               ELSE IF bridge # NoProxy THEN bridge ELSE th[t].to
  /\ late' = (late \/ th[t].old \/ owed # "nothing")
  /\ UNCHANGED <<up, profile, via, vault, proxy>> /\ Beside

\* _launch_process: a second browser on one profile hands over to the first.
Start(t) ==
  /\ th[t].pc = "start" /\ Goes(t, [th[t] EXCEPT !.pc = "connect", !.to = NoProxy])
  /\ IF up THEN UNCHANGED <<up, via, late>>
     ELSE /\ up' = TRUE
          /\ via' = IF th[t].to \in Socks THEN Bridge ELSE th[t].to
          /\ late' = (late \/ th[t].old \/ owed # "nothing")
  /\ UNCHANGED <<profile, bridge, vault, proxy>> /\ Beside

\* connect_over_cdp, and apply_session's reading of the vaults.
Connect(t) ==
  /\ th[t].pc = "connect" /\ up /\ Loaded
  /\ Goes(t, [th[t] EXCEPT !.pc = "add", !.on = TRUE, !.held = vault, !.old = FALSE])
  /\ UNCHANGED browser /\ Steady /\ Beside

AddCookies(t) ==
  /\ th[t].pc = "add" /\ th[t].on
  /\ Goes(t, [th[t] EXCEPT !.pc = "use", !.held = NoCookies])
  /\ profile' = [s \in Sources |-> profile[s] \cup th[t].held[s]]
  /\ late' = (late \/ th[t].old \/ owed # "nothing")
  /\ UNCHANGED <<up, via, bridge, vault, proxy>> /\ Beside

\* The page shows the app: persist_runtime_session reads the cookies and
\* writes the vaults one after the other.
ReadState(t) ==
  /\ th[t].pc = "use" /\ th[t].on
  /\ Goes(t, [th[t] EXCEPT !.pc = "account", !.held = profile, !.old = FALSE])
  /\ UNCHANGED browser /\ Steady /\ Beside

Persist(t) ==
  LET s == th[t].pc IN
  /\ s \in Sources
  /\ IF s = "flow" THEN Goes(t, Idle) ELSE Moves(t, "flow")
  /\ vault' = IF th[t].held[s] = {} THEN vault
              ELSE [vault EXCEPT ![s] = th[t].held[s]]
  /\ late' = (late \/ th[t].old \/ owed # "nothing")
  /\ UNCHANGED <<browser, proxy>> /\ Beside

\* Done, not signed in, or an exception: no session, no port, no browser.
Ends(t) ==
  /\ th[t].pc # "idle" /\ Goes(t, Idle)
  /\ UNCHANGED browser /\ Steady /\ Beside

(***************************************************************************)
(* The server dies; the browser and the bridge do not.                     *)
(***************************************************************************)
Crash ==
  /\ crashes < MaxCrashes /\ crashes' = crashes + 1
  /\ cut' = (cut \/ owed # "nothing") /\ owed' = "nothing"
  /\ th' = [t \in Threads |-> Idle]
  /\ UNCHANGED <<vault, proxy, browser, wanted, late, ops>>

\* The browser, or the bridge, dies by itself.
Dies ==
  /\ \/ /\ up /\ up' = FALSE /\ via' = NoProxy /\ th' = CutOff(th)
        /\ UNCHANGED bridge
     \/ bridge # NoProxy /\ bridge' = NoProxy /\ UNCHANGED <<up, via, th>>
  /\ UNCHANGED <<vault, proxy, profile, owed, history, bounds>>

Next ==
  \/ \E s \in Sources : ClearSource(s) \/ \E u \in Users : ImportSource(s, u)
  \/ \E u \in Users : ImportBoth(u)
  \/ ClearBoth \/ (\E p \in Proxies : SetProxy(p)) \/ Reset \/ Stop
  \/ \E t \in Threads :
       \/ Ensure(t) \/ Launch(t) \/ LaunchBridge(t) \/ Start(t) \/ Connect(t)
       \/ AddCookies(t) \/ ReadState(t) \/ Persist(t) \/ Ends(t)
  \/ Crash \/ Dies

Spec == Init /\ [][Next]_vars

Symmetry == Permutations(Threads) \cup Permutations(Users) \cup Permutations(Socks)

(***************************************************************************)
(* Properties.                                                             *)
(***************************************************************************)
\* The vaults hold the sessions that were imported last and of nobody else;
\* a session that was cleared or replaced comes back only from a thread that
\* had read it before the reset, or because the reset was cut short by a
\* crash or a failing vault (persist_runtime_session, _reset_runtime_profile).
CookiesAreImported ==
  cut \/ late \/ \A s \in Sources : vault[s] \subseteq wanted[s]

\* A browser that runs goes through the proxy that is set, by itself or over
\* the bridge, under the same exceptions, or goes nowhere
\* (_proxy_launch_server, save_proxy, _start_socks5_auth_bridge).
TrafficThroughProxy ==
  up /\ owed = "nothing" /\ ~cut /\ ~late =>
    \/ via = proxy
    \/ via = Bridge /\ bridge \in {proxy, NoProxy}
=============================================================================
