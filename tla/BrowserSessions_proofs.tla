------------------------ MODULE BrowserSessions_proofs ------------------------
(***************************************************************************)
(* Whose cookies the vaults hold, and which way the browser's traffic      *)
(* goes, for every number of threads, users and proxies.                   *)
(*                                                                         *)
(* Both rest on what a thread carries from what it has read to where it    *)
(* uses it: as long as no reset came between and none is owed, it is still *)
(* what the vaults say.  A use of anything older is what "late" records.   *)
(***************************************************************************)
EXTENDS BrowserSessions, TLAPS

Tainted == cut \/ late

\* What a thread holds was imported, unless it is older than the last reset.
CookiesOK ==
  /\ \A s \in Sources : vault[s] \subseteq wanted[s]
  /\ owed # "reset" =>
       /\ \A s \in Sources : profile[s] \subseteq wanted[s]
       /\ \A t \in Threads : ~th[t].old =>
            \A s \in Sources : th[t].held[s] \subseteq wanted[s]

Launching == {"bridge", "start"}
USE DEF Launching

\* The bridge leads where the proxy does, and so does a browser that is up or
\* about to be.
ProxyOK ==
  owed # "stop" =>
    /\ bridge \in {proxy, NoProxy}
    /\ up => via \in {proxy, Bridge}
    /\ \A t \in Threads : th[t].pc \in Launching /\ ~th[t].old => th[t].to = proxy

SessionsInv ==
  /\ SessionsTypeOK
  /\ \A t \in Threads : th[t].pc = "idle" => th[t].held = NoCookies
  /\ ~Tainted => CookiesOK /\ ProxyOK

LEMMA SessionsInvInit == Init => SessionsInv
  <1> SUFFICES ASSUME Init PROVE SessionsInv
    OBVIOUS
  <1>1. SessionsTypeOK
    <2>1. Idle \in ThreadRecord /\ NoCookies \in Cookies
      BY DEF Idle, ThreadRecord, NoCookies, Cookies, PC, Proxies, Sources
    <2>2. vault \in Cookies /\ profile \in Cookies /\ wanted \in Cookies
      BY <2>1 DEF Init
    <2>3. th \in [Threads -> ThreadRecord]
      BY <2>1 DEF Init
    <2>4. proxy \in Proxies /\ bridge \in Proxies /\ via \in Plain \cup {NoProxy, Bridge}
      BY DEF Init, Proxies
    <2>5. ops \in 0..MaxOps /\ crashes \in 0..MaxCrashes
      BY SessionsAssumption DEF Init
    <2> QED BY <2>2, <2>3, <2>4, <2>5 DEF Init, SessionsTypeOK
  <1>2. CookiesOK /\ ProxyOK
    BY DEF Init, CookiesOK, ProxyOK, NoCookies, Idle
  <1>3. \A t \in Threads : th[t].held = NoCookies
    BY DEF Init, Idle
  <1> QED BY <1>1, <1>2, <1>3 DEF SessionsInv

(***************************************************************************)
(* Types.                                                                  *)
(***************************************************************************)
LEMMA IdleTyped == Idle \in ThreadRecord /\ NoCookies \in Cookies
  BY DEF Idle, ThreadRecord, NoCookies, Cookies, PC, Proxies, Sources

LEMMA RouteTyped ==
  ASSUME SessionsTypeOK, NEW due \in {"nothing", "reset", "stop"}, Route(due),
         vault' \in Cookies, wanted' \in Cookies, proxy' \in Proxies, cut' \in BOOLEAN
  PROVE  SessionsTypeOK'
  BY SessionsAssumption DEF SessionsTypeOK, Route, browser

LEMMA SessionsTypeStep ==
  ASSUME SessionsTypeOK, [Next]_vars
  PROVE  SessionsTypeOK'
  <1> USE SessionsAssumption
  <1>1. /\ vault \in Cookies /\ wanted \in Cookies /\ profile \in Cookies
        /\ proxy \in Proxies /\ th \in [Threads -> ThreadRecord] /\ cut \in BOOLEAN
        /\ Idle \in ThreadRecord /\ NoCookies \in Cookies
    BY IdleTyped DEF SessionsTypeOK
  <1>2. ASSUME NEW s \in Sources, ClearSource(s) \/ \E u \in Users : ImportSource(s, u)
        PROVE  SessionsTypeOK'
    <2>1. vault' \in Cookies /\ wanted' = vault' /\ proxy' = proxy /\ cut' = cut
      BY <1>1, <1>2 DEF ClearSource, ImportSource, Writes, Cookies
    <2> QED BY <1>1, <1>2, <2>1, RouteTyped DEF ClearSource, ImportSource
  <1>3. ASSUME ClearBoth \/ \E u \in Users : ImportBoth(u)
        PROVE  SessionsTypeOK'
    <2>1. /\ NoCookies \in Cookies /\ [vault EXCEPT !["account"] = {}] \in Cookies
          /\ \A u \in Users : /\ [s \in Sources |-> {u}] \in Cookies
                             /\ [vault EXCEPT !["account"] = {u}] \in Cookies
      BY <1>1 DEF Cookies
    <2>2. vault' \in Cookies /\ wanted' = vault' /\ proxy' = proxy /\ cut' \in BOOLEAN
      BY <1>1, <1>3, <2>1 DEF ClearBoth, ImportBoth, Writes
    <2> QED BY <1>1, <1>3, <2>2, RouteTyped DEF ClearBoth, ImportBoth
  <1>4. ASSUME NEW p \in Proxies, SetProxy(p)
        PROVE  SessionsTypeOK'
    BY <1>1, <1>4, RouteTyped DEF SetProxy
  <1>5. /\ CutOff(th) \in [Threads -> ThreadRecord]
        /\ Aged => th' \in [Threads -> ThreadRecord]
    <2>1. \A t \in Threads : th[t] \in ThreadRecord
      BY <1>1
    <2>2. \A r \in ThreadRecord, b \in BOOLEAN :
            /\ [r EXCEPT !.on = FALSE] \in ThreadRecord
            /\ [[r EXCEPT !.old = b] EXCEPT !.on = FALSE] \in ThreadRecord
      BY DEF ThreadRecord
    <2>3. CutOff(th) \in [Threads -> ThreadRecord]
      BY <2>1, <2>2 DEF CutOff
    <2> DEFINE g == [t \in Threads |-> [th[t] EXCEPT !.old = (th[t].pc # "idle")]]
    <2>4. CutOff(g) \in [Threads -> ThreadRecord]
      <3>1. \A t \in Threads : [g[t] EXCEPT !.on = FALSE] \in ThreadRecord
        BY <2>1, <2>2
      <3> QED BY <3>1 DEF CutOff
    <2>5. Aged => th' = CutOff(g)
      BY DEF Aged
    <2> QED BY <2>3, <2>4, <2>5
  <1>6. CASE Reset \/ Stop
    BY <1>1, <1>5, <1>6
    DEF Reset, Stop, Stopped, Erased, SessionsTypeOK, history, bounds, Proxies
  <1>7. ASSUME NEW t \in Threads,
               \/ Ensure(t) \/ Launch(t) \/ LaunchBridge(t) \/ Start(t) \/ Connect(t)
               \/ AddCookies(t) \/ ReadState(t) \/ Persist(t) \/ Ends(t)
        PROVE  SessionsTypeOK'
    <2>1. th[t] \in ThreadRecord /\ th[t].to \in Proxies /\ th[t].held \in Cookies
      BY <1>1 DEF ThreadRecord
    <2>2. \A r \in ThreadRecord : [th EXCEPT ![t] = r] \in [Threads -> ThreadRecord]
      BY <1>1
    <2>3. \A r \in ThreadRecord : [r EXCEPT !.pc = "flow"] \in ThreadRecord
                                  /\ [r EXCEPT !.pc = "connect"] \in ThreadRecord
                                  /\ [r EXCEPT !.pc = "launch"] \in ThreadRecord
      BY DEF ThreadRecord, PC
    <2>4. CASE Ensure(t)
      <3>1. CASE up
        BY <1>1, <2>2, <2>3, <2>4, <3>1
        DEF Ensure, Goes, SessionsTypeOK, Steady, Beside, browser, bounds
      <3>2. CASE ~up
        <4> DEFINE g == [th EXCEPT ![t] = [Idle EXCEPT !.pc = "launch"]]
        <4>1. g \in [Threads -> ThreadRecord]
          BY <1>1, <2>2, <2>3
        <4>2. th' = CutOff(g)
          BY <2>4, <3>2 DEF Ensure
        <4> HIDE DEF g
        <4>3. CutOff(g) \in [Threads -> ThreadRecord]
          <5>1. \A u \in Threads : g[u] \in ThreadRecord
            BY <4>1
          <5>2. \A r \in ThreadRecord : [r EXCEPT !.on = FALSE] \in ThreadRecord
            BY DEF ThreadRecord
          <5> QED BY <5>1, <5>2 DEF CutOff
        <4> QED BY <2>4, <3>2, <4>2, <4>3
            DEF Ensure, Stopped, SessionsTypeOK, Steady, Beside, bounds, Proxies
      <3> QED BY <3>1, <3>2
    <2>5. CASE Launch(t)
      <3>1. [th[t] EXCEPT !.pc = "bridge", !.to = proxy] \in ThreadRecord
        BY <1>1, <2>1 DEF ThreadRecord, PC
      <3> QED BY <1>1, <2>2, <2>5, <3>1
          DEF Launch, Goes, SessionsTypeOK, Steady, Beside, bounds, browser
    <2>12. CASE LaunchBridge(t)
      <3>1. th' \in [Threads -> ThreadRecord]
        <4>1. [th[t] EXCEPT !.pc = "start"] \in ThreadRecord
          BY <2>1 DEF ThreadRecord, PC
        <4> QED BY <2>2, <2>12, <4>1 DEF LaunchBridge, Moves, Goes
      <3>2. bridge' \in Proxies /\ late' \in BOOLEAN
        BY <2>1, <2>12 DEF LaunchBridge, Proxies, SessionsTypeOK, ThreadRecord
      <3> QED BY <2>12, <3>1, <3>2 DEF LaunchBridge, SessionsTypeOK, Beside, bounds
    <2>6. CASE Start(t)
      <3>1. th' \in [Threads -> ThreadRecord]
        <4>1. [th[t] EXCEPT !.pc = "connect", !.to = NoProxy] \in ThreadRecord
          BY <2>1 DEF ThreadRecord, PC, Proxies
        <4> QED BY <2>2, <2>6, <4>1 DEF Start, Goes
      <3>2. via' \in Plain \cup {NoProxy, Bridge} /\ up' \in BOOLEAN /\ late' \in BOOLEAN
        BY <2>1, <2>6 DEF Start, Proxies, SessionsTypeOK, ThreadRecord
      <3> QED BY <2>6, <3>1, <3>2 DEF Start, SessionsTypeOK, Beside, bounds
    <2>7. CASE Connect(t)
      <3>1. [th[t] EXCEPT !.pc = "add", !.on = TRUE, !.held = vault, !.old = FALSE]
              \in ThreadRecord
        BY <1>1, <2>1 DEF ThreadRecord, PC
      <3> QED BY <2>2, <2>7, <3>1
          DEF Connect, Goes, SessionsTypeOK, Steady, Beside, bounds, browser
    <2>8. CASE AddCookies(t)
      <3>1. profile' \in Cookies
        BY <1>1, <2>1, <2>8 DEF AddCookies, Cookies
      <3>2. late' \in BOOLEAN
        BY <2>8, <2>1 DEF AddCookies, SessionsTypeOK, ThreadRecord
      <3>3. th' \in [Threads -> ThreadRecord]
        <4>1. [th[t] EXCEPT !.pc = "use", !.held = NoCookies] \in ThreadRecord
          BY <1>1, <2>1 DEF ThreadRecord, PC
        <4> QED BY <2>2, <2>8, <4>1 DEF AddCookies, Goes
      <3> QED BY <2>8, <3>1, <3>2, <3>3 DEF AddCookies, SessionsTypeOK, Beside, bounds
    <2>9. CASE ReadState(t)
      <3>1. [th[t] EXCEPT !.pc = "account", !.held = profile, !.old = FALSE] \in ThreadRecord
        BY <1>1, <2>1 DEF ThreadRecord, PC
      <3> QED BY <2>2, <2>9, <3>1
          DEF ReadState, Goes, SessionsTypeOK, Steady, Beside, bounds, browser
    <2>10. CASE Persist(t)
      <3>1. vault' \in Cookies
        BY <1>1, <2>1, <2>10 DEF Persist, Cookies, Sources
      <3>2. late' \in BOOLEAN
        BY <2>10, <2>1 DEF Persist, SessionsTypeOK, ThreadRecord
      <3>3. th' \in [Threads -> ThreadRecord]
        BY <1>1, <2>1, <2>2, <2>3, <2>10 DEF Persist, Moves, Goes
      <3> QED BY <2>10, <3>1, <3>2, <3>3 DEF Persist, SessionsTypeOK, Beside, bounds, browser
    <2>11. CASE Ends(t)
      BY <1>1, <2>2, <2>11 DEF Ends, Goes, SessionsTypeOK, Steady, Beside, bounds, browser
    <2> QED BY <1>7, <2>4, <2>5, <2>6, <2>7, <2>8, <2>9, <2>10, <2>11, <2>12
  <1>8. CASE Crash
    BY <1>1, <1>8 DEF Crash, SessionsTypeOK, browser
  <1>9. CASE Dies
    BY <1>5, <1>9 DEF Dies, SessionsTypeOK, history, bounds, Proxies
  <1>10. CASE UNCHANGED vars
    BY <1>10 DEF vars, SessionsTypeOK
  <1> QED BY <1>2, <1>3, <1>4, <1>6, <1>7, <1>8, <1>9, <1>10 DEF Next


(***************************************************************************)
(* The steps.                                                              *)
(***************************************************************************)
\* The routes: what is imported is what is wanted, and the reset or stop that
\* is owed excuses everything else.
LEMMA RouteStep ==
  ASSUME SessionsInv, ~Tainted',
         \/ \E s \in Sources : ClearSource(s) \/ \E u \in Users : ImportSource(s, u)
         \/ \E u \in Users : ImportBoth(u)
         \/ ClearBoth \/ \E p \in Proxies : SetProxy(p)
  PROVE  CookiesOK' /\ ProxyOK'
  <1>1. ~Tainted /\ CookiesOK /\ ProxyOK /\ owed = "nothing" /\ UNCHANGED <<browser, th>>
    BY DEF SessionsInv, Tainted, ClearSource, ImportSource, ImportBoth, ClearBoth, SetProxy,
           Route, Writes
  <1>2. CASE owed' = "reset" /\ wanted' = vault' /\ UNCHANGED proxy
    BY <1>1, <1>2 DEF CookiesOK, ProxyOK, browser
  <1>3. CASE owed' = "stop" /\ UNCHANGED <<vault, wanted>>
    BY <1>1, <1>3 DEF CookiesOK, ProxyOK, browser
  <1> QED BY <1>2, <1>3 DEF Tainted, ClearSource, ImportSource, ImportBoth, ClearBoth, SetProxy,
                            Route, Writes

\* A reset leaves no cookie, no browser and no bridge behind, and makes
\* everything a thread has read old.
LEMMA ResetStep ==
  ASSUME SessionsInv, ~Tainted', Reset \/ Stop
  PROVE  CookiesOK' /\ ProxyOK'
  <1>1. ~Tainted /\ CookiesOK /\ ProxyOK
    BY DEF SessionsInv, Tainted, Reset, Stop, history
  <1>2. /\ th \in [Threads -> ThreadRecord] /\ owed' = "nothing" /\ up' = FALSE
        /\ bridge' = NoProxy /\ UNCHANGED <<vault, proxy, wanted>>
    BY DEF SessionsInv, SessionsTypeOK, Reset, Stop, Stopped, history
  <1>3. \A t \in Threads : th'[t].held = th[t].held /\ th'[t].pc = th[t].pc
                           /\ (th'[t].old \/ th[t].pc = "idle")
    <2> DEFINE g == [t \in Threads |-> [th[t] EXCEPT !.old = (th[t].pc # "idle")]]
    <2>1. \A t \in Threads : /\ g[t] \in ThreadRecord /\ g[t].held = th[t].held
                            /\ g[t].pc = th[t].pc /\ (g[t].old \/ th[t].pc = "idle")
      BY <1>2 DEF ThreadRecord
    <2>2. th' = CutOff(g)
      BY DEF Reset, Stop, Aged
    <2> HIDE DEF g
    <2>3. \A t \in Threads : th'[t] = [g[t] EXCEPT !.on = FALSE]
      BY <2>2 DEF CutOff
    <2>4. \A t \in Threads : /\ th'[t].held = g[t].held /\ th'[t].pc = g[t].pc
                            /\ (g[t].old => th'[t].old)
      BY <2>1, <2>3 DEF ThreadRecord
    <2> QED BY <2>1, <2>4
  <1>4. \A t \in Threads : th[t].pc = "idle" => th[t].held = NoCookies
    BY DEF SessionsInv
  <1>5. \A s \in Sources : profile'[s] \subseteq wanted[s]
    BY <1>1 DEF Reset, Stop, Erased, NoCookies, CookiesOK
  <1>6. \A t \in Threads, s \in Sources : ~th'[t].old => th'[t].held[s] \subseteq wanted[s]
    BY <1>3, <1>4 DEF NoCookies
  <1>7. \A t \in Threads : th'[t].pc \in Launching => th'[t].old
    BY <1>3
  <1> QED BY <1>1, <1>2, <1>5, <1>6, <1>7 DEF CookiesOK, ProxyOK


\* The steps of a thread.  A use of what is old, or while a reset is owed, is
\* late; everything else moves what is imported.
LEMMA ThreadStep ==
  ASSUME SessionsInv, ~Tainted', NEW t \in Threads,
         \/ Ensure(t) \/ Launch(t) \/ LaunchBridge(t) \/ Start(t) \/ Connect(t)
         \/ AddCookies(t) \/ ReadState(t) \/ Persist(t) \/ Ends(t)
  PROVE  CookiesOK' /\ ProxyOK'
  <1>1. /\ ~Tainted /\ CookiesOK /\ ProxyOK /\ th \in [Threads -> ThreadRecord]
        /\ UNCHANGED <<owed, wanted, cut, proxy>>
    BY DEF SessionsInv, SessionsTypeOK, Tainted, Ensure, Launch, LaunchBridge, Start, Connect, AddCookies,
           ReadState, Persist, Ends, Steady, Beside
  <1>2. ASSUME NEW r, r.pc \notin Launching \/ r.old \/ owed = "stop" \/ r.to = proxy,
               ~r.old /\ owed # "reset" => \A s \in Sources : r.held[s] \subseteq wanted[s],
               \A u \in Threads \ {t} : /\ th'[u].pc = th[u].pc /\ th'[u].old = th[u].old
                                        /\ th'[u].held = th[u].held /\ th'[u].to = th[u].to,
               th'[t] = r
        PROVE  /\ owed # "reset" => \A u \in Threads : ~th'[u].old =>
                    \A s \in Sources : th'[u].held[s] \subseteq wanted[s]
               /\ owed # "stop" => \A u \in Threads : th'[u].pc \in Launching /\ ~th'[u].old =>
                    th'[u].to = proxy
    BY <1>1, <1>2 DEF CookiesOK, ProxyOK
  <1>3. ASSUME NEW r, Goes(t, r)
        PROVE  /\ th'[t] = r
               /\ \A u \in Threads \ {t} : th'[u] = th[u]
    BY <1>1, <1>3 DEF Goes
  <1>4. ASSUME NEW r, Goes(t, r), r.pc \notin Launching \/ r.old \/ owed = "stop" \/ r.to = proxy,
               ~r.old /\ owed # "reset" => \A s \in Sources : r.held[s] \subseteq wanted[s],
               \A s \in Sources : vault'[s] \subseteq wanted[s],
               owed # "reset" => \A s \in Sources : profile'[s] \subseteq wanted[s],
               owed # "stop" => bridge' \in {proxy, NoProxy} /\ (up' => via' \in {proxy, Bridge})
        PROVE  CookiesOK' /\ ProxyOK'
    BY <1>1, <1>2, <1>3, <1>4 DEF CookiesOK, ProxyOK
  <1>5. /\ th[t] \in ThreadRecord
        /\ ~th[t].old /\ owed # "reset" => \A s \in Sources : th[t].held[s] \subseteq wanted[s]
        /\ \A s \in Sources : vault[s] \subseteq wanted[s]
        /\ owed # "reset" => \A s \in Sources : profile[s] \subseteq wanted[s]
        /\ owed # "stop" => bridge \in {proxy, NoProxy} /\ (up => via \in {proxy, Bridge})
    BY <1>1 DEF CookiesOK, ProxyOK
  <1>6. CASE Ensure(t)
    <2>1. CASE up
      <3>1. Goes(t, [Idle EXCEPT !.pc = "connect"]) /\ UNCHANGED <<vault, browser>>
        BY <1>6, <2>1 DEF Ensure, Steady
      <3> QED BY <1>4, <1>5, <3>1 DEF Idle, NoCookies, browser
    <2>2. CASE ~up
      <3> DEFINE r == [Idle EXCEPT !.pc = "launch"]
                 g == [th EXCEPT ![t] = r]
      <3>1. th' = CutOff(g) /\ Stopped /\ UNCHANGED <<vault, profile>>
        BY <1>6, <2>2 DEF Ensure, Steady
      <3>2. \A u \in Threads : /\ th'[u].pc = g[u].pc /\ th'[u].old = g[u].old
                               /\ th'[u].held = g[u].held /\ th'[u].to = g[u].to
        <4>1. \A u \in Threads : g[u] \in ThreadRecord
          BY <1>1, IdleTyped DEF ThreadRecord, PC
        <4> HIDE DEF g
        <4>2. \A u \in Threads : th'[u] = [g[u] EXCEPT !.on = FALSE]
          BY <3>1 DEF CutOff
        <4> QED BY <4>1, <4>2 DEF ThreadRecord
      <3>3. g[t] = r /\ \A u \in Threads \ {t} : g[u] = th[u]
        BY <1>1
      <3>4. th'[t].pc = "launch" /\ ~th'[t].old /\ th'[t].held = NoCookies
        <4>1. r.pc = "launch" /\ ~r.old /\ r.held = NoCookies
          BY DEF Idle
        <4> HIDE DEF g, r
        <4> QED BY <3>2, <3>3, <4>1
      <3> HIDE DEF g, r
      <3>5. /\ owed # "reset" => \A u \in Threads : ~th'[u].old =>
                 \A s \in Sources : th'[u].held[s] \subseteq wanted[s]
            /\ owed # "stop" => \A u \in Threads : th'[u].pc \in Launching /\ ~th'[u].old =>
                 th'[u].to = proxy
        BY <1>2, <3>2, <3>3, <3>4 DEF NoCookies
      <3> QED BY <1>1, <1>5, <3>1, <3>5 DEF CookiesOK, ProxyOK, Stopped
    <2> QED BY <2>1, <2>2
  <1>7. CASE Launch(t)
    <2> DEFINE r == [th[t] EXCEPT !.pc = "bridge", !.to = proxy]
    <2>1. r.to = proxy /\ r.old = th[t].old /\ r.held = th[t].held
      BY <1>5 DEF ThreadRecord
    <2> HIDE DEF r
    <2>2. Goes(t, r) /\ UNCHANGED <<vault, browser>>
      BY <1>7 DEF Launch, Steady, r
    <2> QED BY <1>4, <1>5, <2>1, <2>2 DEF browser
  <1>14. CASE LaunchBridge(t)
    <2> DEFINE r == [th[t] EXCEPT !.pc = "start"]
    <2>1. r.old = th[t].old /\ r.held = th[t].held /\ r.to = th[t].to
      BY <1>5 DEF ThreadRecord
    <2> HIDE DEF r
    <2>2. Goes(t, r) /\ UNCHANGED <<vault, up, profile, via>>
      BY <1>14 DEF LaunchBridge, Moves, r
    <2>3. th[t].to = proxy
      <3>1. ~th[t].old /\ owed = "nothing" /\ th[t].pc \in Launching
        BY <1>14 DEF LaunchBridge, Tainted
      <3> QED BY <1>1, <3>1 DEF ProxyOK
    <2>4. owed # "stop" => bridge' \in {proxy, NoProxy}
      BY <1>5, <1>14, <2>3 DEF LaunchBridge
    <2> QED BY <1>4, <1>5, <2>1, <2>2, <2>3, <2>4
  <1>8. CASE Start(t)
    <2> DEFINE r == [th[t] EXCEPT !.pc = "connect", !.to = NoProxy]
    <2>1. r.pc = "connect" /\ r.old = th[t].old /\ r.held = th[t].held
      BY <1>5 DEF ThreadRecord
    <2> HIDE DEF r
    <2>2. Goes(t, r) /\ UNCHANGED <<vault, profile, bridge>>
      BY <1>8 DEF Start, r
    <2>3. owed # "stop" => (up' => via' \in {proxy, Bridge})
      <3>1. CASE up
        BY <1>5, <1>8, <3>1 DEF Start
      <3>2. CASE ~up
        <4>1. ~th[t].old /\ owed = "nothing" /\ th[t].pc \in Launching
          BY <1>8, <3>2 DEF Start, Tainted
        <4>2. th[t].to = proxy
          BY <1>1, <4>1 DEF ProxyOK
        <4> QED BY <1>8, <3>2, <4>2 DEF Start
      <3> QED BY <3>1, <3>2
    <2> QED BY <1>4, <1>5, <2>1, <2>2, <2>3
  <1>9. CASE Connect(t)
    <2> DEFINE r == [th[t] EXCEPT !.pc = "add", !.on = TRUE, !.held = vault, !.old = FALSE]
    <2>1. r.pc = "add" /\ r.held = vault
      BY <1>5 DEF ThreadRecord
    <2> HIDE DEF r
    <2>2. Goes(t, r) /\ UNCHANGED <<vault, browser>>
      BY <1>9 DEF Connect, Steady, r
    <2> QED BY <1>4, <1>5, <2>1, <2>2 DEF browser
  <1>10. CASE AddCookies(t)
    <2> DEFINE r == [th[t] EXCEPT !.pc = "use", !.held = NoCookies]
    <2>1. r.pc = "use" /\ r.old = th[t].old /\ r.held = NoCookies
      BY <1>5 DEF ThreadRecord
    <2> HIDE DEF r
    <2>2. /\ Goes(t, r) /\ UNCHANGED <<vault, up, via, bridge>> /\ ~th[t].old /\ owed = "nothing"
          /\ profile' = [s \in Sources |-> profile[s] \cup th[t].held[s]]
      BY <1>10 DEF AddCookies, r, Tainted
    <2>3. \A s \in Sources : profile'[s] \subseteq wanted[s]
      BY <1>5, <2>2
    <2>4. \A s \in Sources : r.held[s] \subseteq wanted[s]
      BY <2>1 DEF NoCookies
    <2> QED BY <1>4, <1>5, <2>1, <2>2, <2>3, <2>4
  <1>11. CASE ReadState(t)
    <2> DEFINE r == [th[t] EXCEPT !.pc = "account", !.held = profile, !.old = FALSE]
    <2>1. r.pc = "account" /\ r.held = profile
      BY <1>5 DEF ThreadRecord
    <2> HIDE DEF r
    <2>2. Goes(t, r) /\ UNCHANGED <<vault, browser>>
      BY <1>11 DEF ReadState, Steady, r
    <2> QED BY <1>4, <1>5, <2>1, <2>2 DEF browser
  <1>12. CASE Persist(t)
    <2> DEFINE f == [th[t] EXCEPT !.pc = "flow"]
    <2>1. f.pc = "flow" /\ f.old = th[t].old /\ f.held = th[t].held
      BY <1>5 DEF ThreadRecord
    <2> HIDE DEF f
    <2>2. /\ Goes(t, Idle) \/ Goes(t, f)
          /\ UNCHANGED browser /\ ~th[t].old /\ owed = "nothing"
      BY <1>12 DEF Persist, Moves, f, Tainted
    <2>3. \A s \in Sources : vault'[s] \subseteq wanted[s]
      <3>1. vault \in Cookies
        BY DEF SessionsInv, SessionsTypeOK
      <3> QED BY <1>5, <1>12, <2>2, <3>1 DEF Persist, Cookies
    <2>4. Idle.pc = "idle" /\ \A s \in Sources : Idle.held[s] = {}
      BY DEF Idle, NoCookies
    <2> QED BY <1>4, <1>5, <2>1, <2>2, <2>3, <2>4 DEF browser
  <1>13. CASE Ends(t)
    <2>1. Idle.pc = "idle" /\ \A s \in Sources : Idle.held[s] = {}
      BY DEF Idle, NoCookies
    <2> QED BY <1>4, <1>5, <1>13, <2>1 DEF Ends, Steady, browser
  <1> QED BY <1>6, <1>7, <1>8, <1>9, <1>10, <1>11, <1>12, <1>13, <1>14

\* The server dies with what it owes, which counts as cut off; a browser or a
\* bridge that dies takes nothing along.
LEMMA DeathStep ==
  ASSUME SessionsInv, ~Tainted', Crash \/ Dies
  PROVE  CookiesOK' /\ ProxyOK'
  <1>1. ~Tainted /\ CookiesOK /\ ProxyOK /\ th \in [Threads -> ThreadRecord]
    BY DEF SessionsInv, SessionsTypeOK, Tainted, Crash, Dies, history
  <1>2. CASE Crash
    BY <1>1, <1>2 DEF Crash, Tainted, CookiesOK, ProxyOK, Idle, NoCookies, browser
  <1>3. CASE Dies
    <2>1. \A t \in Threads : /\ th'[t].pc = th[t].pc /\ th'[t].old = th[t].old
                             /\ th'[t].held = th[t].held /\ th'[t].to = th[t].to
      BY <1>1, <1>3 DEF Dies, CutOff, ThreadRecord
    <2> QED BY <1>1, <1>3, <2>1 DEF Dies, CookiesOK, ProxyOK, history
  <1> QED BY <1>2, <1>3

LEMMA SessionsInvStep ==
  ASSUME SessionsInv, [Next]_vars
  PROVE  SessionsInv'
  <1>1. SessionsTypeOK'
    BY SessionsTypeStep DEF SessionsInv
  <1>2. ~Tainted' => CookiesOK' /\ ProxyOK'
    <2>1. CASE UNCHANGED vars
      BY <2>1 DEF vars, SessionsInv, Tainted, CookiesOK, ProxyOK
    <2> QED BY <2>1, RouteStep, ResetStep, ThreadStep, DeathStep DEF Next
  <1>3. \A t \in Threads : th'[t].pc = "idle" => th'[t].held = NoCookies
    <2>1. th \in [Threads -> ThreadRecord] /\ \A t \in Threads : th[t].pc = "idle" =>
            th[t].held = NoCookies
      BY DEF SessionsInv, SessionsTypeOK
    <2>2. ASSUME NEW t \in Threads, NEW r, Goes(t, r), r.pc # "idle" \/ r.held = NoCookies
          PROVE  \A u \in Threads : th'[u].pc = "idle" => th'[u].held = NoCookies
      BY <2>1, <2>2 DEF Goes
    <2>3. ASSUME NEW g \in [Threads -> ThreadRecord],
                 \A u \in Threads : g[u].pc = "idle" => g[u].held = NoCookies,
                 th' = CutOff(g)
          PROVE  \A u \in Threads : th'[u].pc = "idle" => th'[u].held = NoCookies
      BY <2>3 DEF CutOff, ThreadRecord
    <2>4. CASE UNCHANGED th
      BY <2>1, <2>4
    <2>5. CASE Reset \/ Stop
      <3> DEFINE g == [t \in Threads |-> [th[t] EXCEPT !.old = (th[t].pc # "idle")]]
      <3>1. /\ g \in [Threads -> ThreadRecord]
            /\ \A u \in Threads : g[u].pc = "idle" => g[u].held = NoCookies
        BY <2>1 DEF ThreadRecord
      <3>2. th' = CutOff(g)
        BY <2>5 DEF Reset, Stop, Aged
      <3> HIDE DEF g
      <3> QED BY <2>3, <3>1, <3>2
    <2>6. ASSUME NEW t \in Threads,
                 \/ Ensure(t) \/ Launch(t) \/ LaunchBridge(t) \/ Start(t) \/ Connect(t)
                 \/ AddCookies(t) \/ ReadState(t) \/ Persist(t) \/ Ends(t)
          PROVE  \A u \in Threads : th'[u].pc = "idle" => th'[u].held = NoCookies
      <3>1. th[t] \in ThreadRecord /\ Idle \in ThreadRecord /\ Idle.held = NoCookies
        BY <2>1, IdleTyped DEF Idle
      <3>2. CASE Ensure(t) /\ ~up
        <4> DEFINE r == [Idle EXCEPT !.pc = "launch"]
        <4>1. r \in ThreadRecord /\ r.pc = "launch"
          BY <3>1 DEF ThreadRecord, PC
        <4>2. th' = CutOff([th EXCEPT ![t] = r])
          BY <3>2 DEF Ensure
        <4> HIDE DEF r
        <4>3. /\ [th EXCEPT ![t] = r] \in [Threads -> ThreadRecord]
              /\ \A u \in Threads : [th EXCEPT ![t] = r][u].pc = "idle" =>
                   [th EXCEPT ![t] = r][u].held = NoCookies
          BY <2>1, <4>1
        <4> QED BY <2>3, <4>2, <4>3
      <3>3. CASE ~(Ensure(t) /\ ~up)
        <4>1. PICK r : Goes(t, r) /\ (r.pc # "idle" \/ r.held = NoCookies)
          <5>1. \/ Goes(t, [Idle EXCEPT !.pc = "connect"]) \/ Goes(t, Idle)
                \/ \E pc \in PC \ {"idle"} : Goes(t, [th[t] EXCEPT !.pc = pc])
                \/ Goes(t, [th[t] EXCEPT !.pc = "bridge", !.to = proxy])
                \/ Goes(t, [th[t] EXCEPT !.pc = "connect", !.to = NoProxy])
                \/ Goes(t, [th[t] EXCEPT !.pc = "use", !.held = NoCookies])
                \/ Goes(t, [th[t] EXCEPT !.pc = "add", !.on = TRUE, !.held = vault, !.old = FALSE])
                \/ Goes(t, [th[t] EXCEPT !.pc = "account", !.held = profile, !.old = FALSE])
            BY <2>6, <3>3 DEF Ensure, Launch, LaunchBridge, Start, Connect, AddCookies, ReadState, Persist, Ends,
               Moves, PC
          <5>2. \A pc \in PC : [th[t] EXCEPT !.pc = pc].pc = pc
            BY <3>1 DEF ThreadRecord
          <5>3. /\ [Idle EXCEPT !.pc = "connect"].pc = "connect"
                /\ [th[t] EXCEPT !.pc = "bridge", !.to = proxy].pc = "bridge"
                /\ [th[t] EXCEPT !.pc = "connect", !.to = NoProxy].pc = "connect"
                /\ [th[t] EXCEPT !.pc = "use", !.held = NoCookies].pc = "use"
                /\ [th[t] EXCEPT !.pc = "add", !.on = TRUE, !.held = vault,
                              !.old = FALSE].pc = "add"
                /\ [th[t] EXCEPT !.pc = "account", !.held = profile, !.old = FALSE].pc = "account"
            BY <3>1 DEF ThreadRecord
          <5> QED BY <3>1, <5>1, <5>2, <5>3
        <4> QED BY <2>2, <4>1
      <3> QED BY <3>2, <3>3
    <2>7. CASE Crash
      BY <2>7 DEF Crash, Idle
    <2>8. CASE Dies
      BY <2>1, <2>3, <2>8 DEF Dies
    <2> QED BY <2>4, <2>5, <2>6, <2>7, <2>8 DEF Next, ClearSource, ImportSource, ImportBoth,
            ClearBoth, SetProxy, Route, vars
  <1> QED BY <1>1, <1>2, <1>3 DEF SessionsInv

\* However imports, resets, threads and crashes interleave, the vaults hold
\* nobody's cookies but those imported last, unless a thread used what it had
\* read before a reset or a reset was cut short (apply_session,
\* persist_runtime_session, _reset_runtime_profile).
THEOREM OnlyImportedCookies == Spec => []CookiesAreImported
  <1>1. SessionsInv => CookiesAreImported
    BY DEF SessionsInv, CookiesAreImported, CookiesOK, Tainted
  <1>2. SessionsInv /\ [Next]_vars => SessionsInv'
    BY SessionsInvStep
  <1> QED BY <1>1, <1>2, SessionsInvInit, PTL DEF Spec

\* Under the same exceptions a running browser goes through the proxy that is
\* set, by itself or over the bridge that leads there
\* (_proxy_launch_server, save_proxy).
THEOREM ProxyIsHonoured == Spec => []TrafficThroughProxy
  <1>1. SessionsInv => TrafficThroughProxy
    BY DEF SessionsInv, TrafficThroughProxy, ProxyOK, Tainted
  <1>2. SessionsInv /\ [Next]_vars => SessionsInv'
    BY SessionsInvStep
  <1> QED BY <1>1, <1>2, SessionsInvInit, PTL DEF Spec
=============================================================================
