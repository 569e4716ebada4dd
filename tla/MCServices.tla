----------------------------- MODULE MCServices -----------------------------
(***************************************************************************)
(* Three components that share no state, in one run: the provider's client *)
(* (its text requests and its Vision calls, which share the key alone), a  *)
(* Project Master and the desktop sessions.  One of them moves while the   *)
(* others rest; since none reads what another writes, to interleave them   *)
(* would show nothing more.                                                *)
(***************************************************************************)
EXTENDS ProviderClient, MasterReference, DesktopWorkspace

VARIABLE part  \* the part that moves

vars == <<client, masterVars, desktop, part>>

Parts == {"text", "vision", "master", "desktop"}

Init ==
  /\ ClientInit /\ MasterInit /\ DesktopInit
  /\ part \in Parts
  /\ part # "text" => vault = NoKey /\ refused = {}

Rest(others) == UNCHANGED <<others, part>>

Text == part = "text" /\ (KeyNext \/ TextNext) /\ Rest(<<masterVars, desktop>>)
Vision == part = "vision" /\ (KeyNext \/ VisionNext) /\ Rest(<<masterVars, desktop>>)
Master == part = "master" /\ MasterNext /\ Rest(<<client, desktop>>)
Desktop == part = "desktop" /\ DesktopNext /\ Rest(<<client, masterVars>>)

Next == Text \/ Vision \/ Master \/ Desktop

\* A call is answered or times out, and a delay passes: a step of a request
\* that has not ended is always possible, so that weak fairness of the steps
\* is that they are taken again and again unless the request has ended.
Fairness ==
  /\ []<>(req.pc = "idle") \/ []<><<RequestStep>>_vars
  /\ []<>(look.pc = "idle") \/ []<><<VisionStep>>_vars

Spec == Init /\ [][Next]_vars
FairSpec == Spec /\ Fairness
=============================================================================
