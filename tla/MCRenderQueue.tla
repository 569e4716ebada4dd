--------------------------- MODULE MCRenderQueue ---------------------------
(* The shapes of a storyboard the queue is checked on: a scene anchored on  *)
(* the one before it, and a chain of continuing scenes.                     *)
EXTENDS RenderQueue
MCDirect == {2}
MCChain == Scenes \ {1}
=============================================================================
